-------------------------- MODULE SupermicroProofs --------------------------
(***************************************************************************)
(* Proofs about the scripts that keep state, for any callers, members,     *)
(* boot orders, capacity and restarts.  The keys of the scripts are        *)
(* distinct, so what the admin has written stays until someone else writes *)
(* or the proxy restarts, and all of them are under the reset's prefix.    *)
(***************************************************************************)
EXTENDS Supermicro, TLAPS

Resources == Settings \cup {"BootOrder"}

\* A write has landed and is what a read shows.
Made(r) ==
    /\ KeyOf(r.resource, Manager) \in DOMAIN store
    /\ store[KeyOf(r.resource, Manager)] = r.value

\* The admin's k-th write was acknowledged.
Settled == pc[Admin] = "idle" \/ (pc[Admin] = "answered" /\ status[Admin] = 204)

\* The admin is at its k-th write, and undisturbed has made those before it.
AtWrite(k) ==
    /\ Len(plan) = 3 - k
    /\ \A i \in 1 .. 3 - k : plan[i] = Sequence(goal)[k + i]
    /\ pc[Admin] \in {"idle", "received", "answered"}
    /\ pc[Admin] # "idle" => req[Admin] = Sequence(goal)[k]
    /\ ~disturbed => \A i \in 1 .. 3 : i < k \/ (i = k /\ Settled) => Made(Sequence(goal)[i])

Progress ==
    /\ goal # None => \E k \in 1 .. 3 : AtWrite(k)
    /\ goal = None => Len(plan) = 0 /\ pc[Admin] = "idle"

\* The inductive invariant.
IInv ==
    /\ TypeOK
    /\ NoFalseSuccess
    /\ Progress

-----------------------------------------------------------------------------
(* Keys and sequences.                                                     *)

\* No two scripts share a key, nor do two members, except for the UEFI flag
\* that the machine has one of.
LEMMA KeysDistinct ==
    ASSUME NEW r \in Resources, NEW q \in Resources, NEW m, NEW n, KeyOf(r, m) = KeyOf(q, n)
    PROVE  r = q /\ (r = "ChangePassword" \/ m = n)
BY DEF KeyOf, Resources, Settings, UefiPasswordSet

\* All of them are under the prefix.
LEMMA KeysUnderPrefix ==
    \A r \in Resources : \A m : KeyOf(r, m)[1] = "supermicro"
BY DEF KeyOf, Resources, Settings, UefiPasswordSet

\* Three writes of three different resources, each legal for its own.
LEMMA SequenceOf ==
    ASSUME NEW what \in {"locked", "unlocked"}
    PROVE  /\ Sequence(what) \in Seq(Writes) /\ Len(Sequence(what)) = 3
           /\ \A i \in 1 .. 3 : /\ Sequence(what)[i] \in Writes
                                /\ Sequence(what)[i].do = "write"
                                /\ Sequence(what)[i].member = Manager
                                /\ Sequence(what)[i].resource \in Settings \ {"ChangePassword"}
           /\ \A i, j \in 1 .. 3 :
                Sequence(what)[i].resource = Sequence(what)[j].resource => i = j
<1>1. \A r \in Settings, v \in {"true", "false", "Administrator", "Callback"} :
        WriteOf(r, Manager, v) \in Writes
  BY SupermicroAssumption DEF Writes
<1>2. \A r, v : /\ WriteOf(r, Manager, v).resource = r
                /\ WriteOf(r, Manager, v).member = Manager
                /\ WriteOf(r, Manager, v).do = "write"
  BY DEF WriteOf
<1>3. PICK a \in Writes, b \in Writes, c \in Writes :
        /\ Sequence(what) = <<a, b, c>>
        /\ a.member = Manager /\ b.member = Manager /\ c.member = Manager
        /\ a.do = "write" /\ b.do = "write" /\ c.do = "write"
        /\ \/ /\ a.resource = "HostInterface" /\ b.resource = "KCSInterface"
              /\ c.resource = "SysLockdown"
           \/ /\ a.resource = "SysLockdown" /\ b.resource = "KCSInterface"
              /\ c.resource = "HostInterface"
  <2>1. CASE what = "locked"
    BY <1>1, <1>2, <2>1 DEF Sequence, Settings
  <2>2. CASE what = "unlocked"
    BY <1>1, <1>2, <2>2 DEF Sequence, Settings
  <2> QED
    BY <2>1, <2>2
<1>4. /\ Sequence(what)[1] = a /\ Sequence(what)[2] = b /\ Sequence(what)[3] = c
      /\ Len(Sequence(what)) = 3 /\ Sequence(what) \in Seq(Writes)
  BY <1>3
<1>5. \A i \in 1 .. 3 : i = 1 \/ i = 2 \/ i = 3
  OBVIOUS
<1> QED
  BY <1>3, <1>4, <1>5 DEF Settings

-----------------------------------------------------------------------------
(* Preservation of the type invariant.                                     *)

\* What the store may hold, and the rest of TypeOK.
StoreOK ==
    /\ DOMAIN store \subseteq Keys
    /\ \A r \in Settings, m \in Members :
         KeyOf(r, m) \in DOMAIN store => store[KeyOf(r, m)] \in Legal(r)
    /\ \A m \in Members :
         KeyOf("BootOrder", m) \in DOMAIN store => store[KeyOf("BootOrder", m)] \in Orders

\* A write of a legal value keeps the store well typed: whatever other name
\* its key has is of the same script.
LEMMA PutKeepsType ==
    ASSUME StoreOK, NEW r \in Resources, NEW m \in Members, NEW v,
           r = "BootOrder" => v \in Orders,
           r # "BootOrder" => v \in Legal(r),
           Put(KeyOf(r, m), v)
    PROVE  StoreOK'
<1>1. DOMAIN store' = DOMAIN store \cup {KeyOf(r, m)} /\ KeyOf(r, m) \in Keys
  BY DEF Put, Keys, Resources
<1>2. \A k \in DOMAIN store' : store'[k] = IF k = KeyOf(r, m) THEN v ELSE store[k]
  BY DEF Put
<1>3. DOMAIN store' \subseteq Keys
  BY <1>1 DEF StoreOK
<1>4. ASSUME NEW q \in Settings, NEW n \in Members, KeyOf(q, n) \in DOMAIN store'
      PROVE  store'[KeyOf(q, n)] \in Legal(q)
  <2>1. CASE KeyOf(q, n) = KeyOf(r, m)
    <3>1. q = r /\ r # "BootOrder"
      BY <2>1, KeysDistinct DEF Resources, Settings
    <3> QED
      BY <1>2, <1>4, <2>1, <3>1
  <2>2. CASE KeyOf(q, n) # KeyOf(r, m)
    BY <1>1, <1>2, <1>4, <2>2 DEF StoreOK
  <2> QED
    BY <2>1, <2>2
<1>5. ASSUME NEW n \in Members, KeyOf("BootOrder", n) \in DOMAIN store'
      PROVE  store'[KeyOf("BootOrder", n)] \in Orders
  <2>1. CASE KeyOf("BootOrder", n) = KeyOf(r, m)
    <3>1. r = "BootOrder"
      BY <2>1, KeysDistinct DEF Resources
    <3> QED
      BY <1>2, <1>5, <2>1, <3>1
  <2>2. CASE KeyOf("BootOrder", n) # KeyOf(r, m)
    BY <1>1, <1>2, <1>5, <2>2 DEF StoreOK
  <2> QED
    BY <2>1, <2>2
<1> QED
  BY <1>3, <1>4, <1>5 DEF StoreOK

\* Every request is a record of one of three kinds.
LEMMA KindsOfRequest ==
    /\ \A r \in Writes : /\ r.do = "write" /\ r.resource \in Settings
                         /\ r.member \in Members
    /\ \A r \in Boots : /\ r.do = "boot" /\ r.member \in Members
                        /\ r.override \in BOOLEAN /\ r.order \in Orders \cup {None}
    /\ \A r \in Resets : r.do = "reset"
BY DEF Writes, WriteOf, Boots, Resets

LEMMA InitType == ASSUME Init PROVE TypeOK
<1>1. plan \in Seq(Writes)
  BY DEF Init
<1>2. DOMAIN store = {} /\ restarts \in 0 .. MaxRestarts
  BY SupermicroAssumption DEF Init
<1> QED
  BY <1>1, <1>2, SupermicroAssumption DEF Init, TypeOK

LEMMA TypeSplits == TypeOK => StoreOK
BY DEF TypeOK, StoreOK

\* A handler's answer, with the store well typed and all else left alone.
LEMMA AnswerKeepsType ==
    ASSUME TypeOK, StoreOK', NEW c \in Clients, pc[c] # "idle",
           NEW code \in {0, 204, 400, 500, 502}, Answer(c, code),
           override' \in [Members -> BOOLEAN], applied' \in [Clients -> BOOLEAN],
           disturbed' \in BOOLEAN, UNCHANGED <<req, plan, goal, restarts>>
    PROVE  TypeOK'
<1>1. /\ pc' \in [Clients -> {"idle", "received", "patching", "answered"}]
      /\ status' \in [Clients -> {0, 204, 400, 500, 502}]
  BY DEF TypeOK, Answer
<1>2. \A d \in Clients : pc'[d] # "idle" => req'[d] \in Writes \cup Boots \cup Resets
  BY DEF TypeOK, Answer
<1> QED
  BY <1>1, <1>2 DEF TypeOK, StoreOK

LEMMA SendKeepsType ==
    ASSUME TypeOK, NEW c \in Clients, NEW r \in Writes \cup Boots \cup Resets, Send(c, r),
           plan' \in Seq(Writes), goal' \in {"locked", "unlocked", None}, disturbed' \in BOOLEAN
    PROVE  TypeOK'
<1>1. /\ pc' \in [Clients -> {"idle", "received", "patching", "answered"}]
      /\ req' \in [Clients -> Writes \cup Boots \cup Resets \cup {None}]
  BY DEF TypeOK, Send
<1>2. \A d \in Clients : pc'[d] # "idle" => req'[d] \in Writes \cup Boots \cup Resets
  BY DEF TypeOK, Send
<1>3. StoreOK'
  BY DEF TypeOK, StoreOK, Send
<1> QED
  BY <1>1, <1>2, <1>3 DEF TypeOK, StoreOK, Send

LEMMA RequestType == ASSUME TypeOK, NEW c \in Clients, Request(c) PROVE TypeOK'
<1>1. PICK r \in Writes \cup Boots \cup Resets : Send(c, r)
  BY DEF Request
<1> QED
  BY <1>1, SendKeepsType DEF Request, admin, TypeOK

LEMMA BeginType ==
    ASSUME TypeOK, NEW what \in {"locked", "unlocked"}, Begin(what)
    PROVE  TypeOK'
<1>1. Sequence(what) \in Seq(Writes) /\ Len(Sequence(what)) = 3
  BY SequenceOf
<1>2. Head(Sequence(what)) \in Writes /\ Tail(Sequence(what)) \in Seq(Writes)
  BY <1>1
<1> QED
  BY <1>2, SendKeepsType, SupermicroAssumption DEF Begin

LEMMA ContinueType == ASSUME TypeOK, Continue PROVE TypeOK'
<1>1. plan \in Seq(Writes) /\ plan # <<>>
  BY DEF TypeOK, Continue
<1>2. Head(plan) \in Writes /\ Tail(plan) \in Seq(Writes)
  BY <1>1
<1> QED
  BY <1>2, SendKeepsType, SupermicroAssumption DEF Continue, TypeOK

LEMMA LeaveType == ASSUME TypeOK, NEW c \in Clients, Leave(c) PROVE TypeOK'
<1>1. /\ pc' \in [Clients -> {"idle", "received", "patching", "answered"}]
      /\ req' \in [Clients -> Writes \cup Boots \cup Resets \cup {None}]
      /\ status' \in [Clients -> {0, 204, 400, 500, 502}]
      /\ applied' \in [Clients -> BOOLEAN]
  BY DEF TypeOK, Leave
<1>2. \A d \in Clients : pc'[d] # "idle" => req'[d] \in Writes \cup Boots \cup Resets
  BY DEF TypeOK, Leave
<1>3. /\ plan' \in Seq(Writes) /\ goal' \in {"locked", "unlocked", None}
      /\ disturbed' \in BOOLEAN
  <2>1. CASE plan' = <<>> /\ goal' = None /\ UNCHANGED disturbed
    BY <2>1 DEF TypeOK
  <2>2. CASE UNCHANGED <<plan, goal, disturbed>>
    BY <2>2 DEF TypeOK
  <2> QED
    BY <2>1, <2>2 DEF Leave, admin
<1>4. StoreOK'
  BY DEF TypeOK, StoreOK, Leave
<1> QED
  BY <1>1, <1>2, <1>3, <1>4 DEF TypeOK, StoreOK, Leave

LEMMA WriteSettingType == ASSUME TypeOK, NEW c \in Clients, WriteSetting(c) PROVE TypeOK'
<1>1. /\ override' \in [Members -> BOOLEAN] /\ applied' \in [Clients -> BOOLEAN]
      /\ UNCHANGED <<req, plan, goal, restarts>> /\ pc[c] # "idle"
      /\ disturbed' \in BOOLEAN
  BY DEF TypeOK, WriteSetting, Disturb
<1>2. req[c] \in Writes
  BY KindsOfRequest DEF TypeOK, WriteSetting
<1>3. PICK code \in {204, 400, 502} : Answer(c, code)
  BY DEF WriteSetting
<1>4. StoreOK'
  <2>1. CASE UNCHANGED store
    BY <2>1 DEF TypeOK, StoreOK
  <2>2. CASE /\ req[c].value \in Legal(req[c].resource)
             /\ Put(KeyOf(req[c].resource, req[c].member), req[c].value)
    <3>1. /\ req[c].resource \in Resources /\ req[c].resource # "BootOrder"
          /\ req[c].member \in Members
      BY <1>2, KindsOfRequest DEF Resources, Settings
    <3> QED
      BY <2>2, <3>1, TypeSplits, PutKeepsType
  <2> QED
    BY <2>1, <2>2 DEF WriteSetting
<1> QED
  BY <1>1, <1>3, <1>4, AnswerKeepsType

LEMMA ConfigResetType == ASSUME TypeOK, NEW c \in Clients, ConfigReset(c) PROVE TypeOK'
<1>1. /\ override' \in [Members -> BOOLEAN] /\ applied' \in [Clients -> BOOLEAN]
      /\ UNCHANGED <<req, plan, goal, restarts>> /\ pc[c] # "idle"
      /\ disturbed' \in BOOLEAN /\ Answer(c, 204)
  BY DEF TypeOK, ConfigReset, Disturb
<1>2. StoreOK'
  BY DEF TypeOK, StoreOK, ConfigReset, Restrict
<1> QED
  BY <1>1, <1>2, AnswerKeepsType

LEMMA PatchBootType == ASSUME TypeOK, NEW c \in Clients, PatchBoot(c) PROVE TypeOK'
<1>1. /\ override' \in [Members -> BOOLEAN] /\ applied' \in [Clients -> BOOLEAN]
      /\ UNCHANGED <<req, plan, goal, restarts, disturbed>> /\ pc[c] # "idle"
      /\ disturbed' \in BOOLEAN
  BY DEF TypeOK, PatchBoot, admin
<1>2. req[c] \in Boots
  BY KindsOfRequest DEF TypeOK, PatchBoot
<1>3. StoreOK'
  <2>1. CASE UNCHANGED store
    BY <2>1 DEF TypeOK, StoreOK
  <2>2. CASE KeepsOrder(req[c]) /\ Put(KeyOf("BootOrder", req[c].member), req[c].order)
    <3>1. req[c].member \in Members /\ req[c].order \in Orders /\ "BootOrder" \in Resources
      BY <1>2, <2>2, KindsOfRequest DEF KeepsOrder, Resources
    <3> QED
      BY <2>2, <3>1, TypeSplits, PutKeepsType
  <2> QED
    BY <2>1, <2>2 DEF PatchBoot
<1>4. CASE \E code \in {204, 502} : Answer(c, code)
  BY <1>1, <1>3, <1>4, AnswerKeepsType
<1>5. CASE pc' = [pc EXCEPT ![c] = "patching"] /\ UNCHANGED status
  <2>1. pc' \in [Clients -> {"idle", "received", "patching", "answered"}]
    BY <1>5 DEF TypeOK
  <2>2. \A d \in Clients : pc'[d] # "idle" => req'[d] \in Writes \cup Boots \cup Resets
    BY <1>1, <1>5 DEF TypeOK
  <2> QED
    BY <1>1, <1>3, <1>5, <2>1, <2>2 DEF TypeOK, StoreOK
<1> QED
  BY <1>4, <1>5 DEF PatchBoot

LEMMA PatchedType ==
    ASSUME TypeOK, NEW c \in Clients, Accepted(c) \/ Refused(c) \/ PatchFails(c) \/ HangUp(c)
    PROVE  TypeOK'
<1>1. /\ UNCHANGED <<store, req, plan, goal, disturbed, restarts>> /\ pc[c] # "idle"
      /\ Override(c) \/ UNCHANGED <<override, applied>>
  BY DEF Accepted, Refused, PatchFails, HangUp, admin
<1>0. /\ override' \in [Members -> BOOLEAN] /\ applied' \in [Clients -> BOOLEAN]
      /\ disturbed' \in BOOLEAN
  <2>1. CASE Override(c)
    <3>1. override' \in [Members -> BOOLEAN]
      BY <2>1 DEF TypeOK, Override
    <3>2. applied' \in [Clients -> BOOLEAN]
      BY <2>1 DEF TypeOK, Override
    <3> QED
      BY <1>1, <3>1, <3>2 DEF TypeOK
  <2>2. CASE UNCHANGED <<override, applied>>
    BY <1>1, <2>2 DEF TypeOK
  <2> QED
    BY <1>1, <2>1, <2>2
<1>2. PICK code \in {0, 204, 500, 502} : Answer(c, code)
  BY DEF Accepted, Refused, PatchFails, HangUp
<1>3. StoreOK'
  BY <1>1 DEF TypeOK, StoreOK
<1> QED
  BY <1>0, <1>1, <1>2, <1>3, AnswerKeepsType

LEMMA RestartType == ASSUME TypeOK, Restart PROVE TypeOK'
<1>1. /\ pc' \in [Clients -> {"idle", "received", "patching", "answered"}]
      /\ status' \in [Clients -> {0, 204, 400, 500, 502}]
  BY DEF TypeOK, Restart
<1>2. override' \in [Members -> BOOLEAN]
  BY DEF TypeOK, Restart
<1>3. \A d \in Clients : pc'[d] # "idle" => req'[d] \in Writes \cup Boots \cup Resets
  BY DEF TypeOK, Restart
<1>4. restarts' \in 0 .. MaxRestarts
  BY SupermicroAssumption DEF TypeOK, Restart
<1>5. StoreOK'
  <2>1. DOMAIN store' = {}
    BY DEF Restart
  <2> QED
    BY <2>1 DEF StoreOK
<1> QED
  BY <1>1, <1>2, <1>3, <1>4, <1>5 DEF TypeOK, StoreOK, Restart

-----------------------------------------------------------------------------
(* No false success.                                                       *)

LEMMA NoFalseSuccessKept == ASSUME TypeOK, NoFalseSuccess, Next PROVE NoFalseSuccess'
<1>1. CASE Restart
  BY <1>1 DEF NoFalseSuccess, TypeOK, Restart
<1>2. ASSUME NEW c \in Clients, NEW r, Send(c, r) PROVE NoFalseSuccess'
  BY <1>2 DEF NoFalseSuccess, TypeOK, Send
<1>9. ASSUME NEW c \in Clients, Request(c) PROVE NoFalseSuccess'
  BY <1>2, <1>9 DEF Request
<1>10. ASSUME NEW what \in {"locked", "unlocked"}, Begin(what) PROVE NoFalseSuccess'
  BY <1>2, <1>10, SupermicroAssumption DEF Begin
<1>11. CASE Continue
  BY <1>2, <1>11, SupermicroAssumption DEF Continue
<1>3. ASSUME NEW c \in Clients, Leave(c) PROVE NoFalseSuccess'
  BY <1>3 DEF NoFalseSuccess, TypeOK, Leave
<1>4. ASSUME NEW c \in Clients, NEW code, Answer(c, code), UNCHANGED req,
             \A d \in Clients \ {c} : applied'[d] = applied[d],
             code = 204 /\ req[c].do = "boot" /\ req[c].override => applied'[c]
      PROVE  NoFalseSuccess'
  BY <1>4 DEF NoFalseSuccess, TypeOK, Answer
<1>5. ASSUME NEW c \in Clients, WriteSetting(c) \/ ConfigReset(c) PROVE NoFalseSuccess'
  <2>1. UNCHANGED <<req, applied>> /\ req[c].do \in {"write", "reset"}
    BY <1>5 DEF WriteSetting, ConfigReset
  <2>2. PICK code : Answer(c, code)
    BY <1>5 DEF WriteSetting, ConfigReset
  <2> QED
    BY <1>4, <2>1, <2>2
<1>6. ASSUME NEW c \in Clients, PatchBoot(c) PROVE NoFalseSuccess'
  <2>1. UNCHANGED <<req, applied>>
    BY <1>6 DEF PatchBoot
  <2>2. CASE Answer(c, 502)
    BY <1>4, <2>1, <2>2
  <2>3. CASE ~req[c].override /\ Answer(c, 204)
    BY <1>4, <2>1, <2>3
  <2>4. CASE pc' = [pc EXCEPT ![c] = "patching"] /\ UNCHANGED status
    BY <2>1, <2>4 DEF NoFalseSuccess, TypeOK
  <2> QED
    BY <1>6, <2>2, <2>3, <2>4 DEF PatchBoot
<1>7. ASSUME NEW c \in Clients, Accepted(c) PROVE NoFalseSuccess'
  <2>1. applied'[c] /\ \A d \in Clients \ {c} : applied'[d] = applied[d]
    BY <1>7 DEF Accepted, Override, TypeOK
  <2> QED
    BY <1>4, <1>7, <2>1 DEF Accepted
<1>8. ASSUME NEW c \in Clients, Refused(c) \/ PatchFails(c) \/ HangUp(c) PROVE NoFalseSuccess'
  <2>1. PICK code \in {0, 500, 502} : Answer(c, code)
    BY <1>8 DEF Refused, PatchFails, HangUp
  <2>2. \A d \in Clients \ {c} : applied'[d] = applied[d]
    BY <1>8 DEF Refused, PatchFails, HangUp, Override, TypeOK
  <2>3. UNCHANGED req
    BY <1>8 DEF Refused, PatchFails, HangUp
  <2> QED
    BY <1>4, <2>1, <2>2, <2>3
<1> QED
  BY <1>1, <1>3, <1>5, <1>6, <1>7, <1>8, <1>9, <1>10, <1>11 DEF Next

-----------------------------------------------------------------------------
(* The admin's progress.                                                   *)

\* A step that is not the admin's keeps its progress, if it either disturbs it
\* or leaves the settings as they are.
LEMMA OthersKeepProgress ==
    ASSUME Progress, UNCHANGED <<plan, goal>>,
           pc'[Admin] = pc[Admin], status'[Admin] = status[Admin], req'[Admin] = req[Admin],
           \/ disturbed'
           \/ /\ ~disturbed' => ~disturbed
              /\ \A r \in Settings \ {"ChangePassword"} :
                   KeyOf(r, Manager) \in DOMAIN store =>
                     /\ KeyOf(r, Manager) \in DOMAIN store'
                     /\ store'[KeyOf(r, Manager)] = store[KeyOf(r, Manager)],
           goal \in {"locked", "unlocked", None}
    PROVE  Progress'
<1>1. CASE goal = None
  BY <1>1 DEF Progress
<1>2. CASE goal # None
  <2>1. PICK k \in 1 .. 3 : AtWrite(k)
    BY <1>2 DEF Progress
  <2>2. Settled' = Settled
    BY DEF Settled
  <2>3. ASSUME ~disturbed', NEW i \in 1 .. 3, i < k \/ (i = k /\ Settled)
        PROVE  Made(Sequence(goal)[i])'
    <3>1. Made(Sequence(goal)[i])
      BY <2>1, <2>3 DEF AtWrite
    <3>2. Sequence(goal)[i].resource \in Settings \ {"ChangePassword"}
      BY <1>2, SequenceOf
    <3> QED
      BY <2>3, <3>1, <3>2 DEF Made
  <2>4. AtWrite(k)'
    <3>1. /\ Len(plan') = 3 - k
          /\ \A i \in 1 .. 3 - k : plan'[i] = Sequence(goal')[k + i]
          /\ pc'[Admin] \in {"idle", "received", "answered"}
          /\ pc'[Admin] # "idle" => req'[Admin] = Sequence(goal')[k]
      BY <2>1 DEF AtWrite
    <3> QED
      BY <2>2, <2>3, <3>1 DEF AtWrite
  <2> QED
    BY <1>2, <2>1, <2>4 DEF Progress
<1> QED
  BY <1>1, <1>2

\* A request that starts a sequence, or continues one.
LEMMA BeginProgress ==
    ASSUME TypeOK, NEW what \in {"locked", "unlocked"}, Begin(what)
    PROVE  Progress'
<1>1. PICK s \in Seq(Writes) : s = Sequence(what) /\ Len(s) = 3
  BY SequenceOf
<1>2. /\ plan' = Tail(s) /\ goal' = what /\ what # None
      /\ pc'[Admin] = "received" /\ req'[Admin] = Head(s)
  BY <1>1, SupermicroAssumption DEF Begin, Send, TypeOK
<1>3. Head(s) = s[1] /\ Len(Tail(s)) = 2 /\ \A i \in 1 .. 2 : Tail(s)[i] = s[1 + i]
  <2>1. Head(s) = s[1] /\ Len(Tail(s)) = 2
    BY <1>1
  <2>2. ASSUME NEW i \in 1 .. 2 PROVE Tail(s)[i] = s[1 + i]
    <3>1. i \in 1 .. Len(s) - 1 /\ 1 + i = i + 1 /\ s # <<>>
      BY <1>1
    <3>2. Tail(s)[i] = s[i + 1]
      BY <3>1
    <3> QED
      BY <3>1, <3>2
  <2> QED
    BY <2>1, <2>2
<1>4. AtWrite(1)'
  BY <1>1, <1>2, <1>3 DEF AtWrite, Settled
<1> QED
  BY <1>2, <1>4 DEF Progress

LEMMA ContinueProgress == ASSUME TypeOK, Progress, Continue PROVE Progress'
<1>1. plan \in Seq(Writes) /\ Len(plan) > 0
  BY DEF TypeOK, Continue
<1>2. goal \in {"locked", "unlocked"} /\ goal # None
  BY <1>1 DEF Progress, TypeOK
<1>3. PICK k \in 1 .. 3 : AtWrite(k)
  BY <1>2 DEF Progress
<1>4. k \in 1 .. 2 /\ k + 1 \in 1 .. 3 /\ Len(Tail(plan)) = 3 - (k + 1)
  BY <1>1, <1>3 DEF AtWrite
<1>5. /\ plan' = Tail(plan) /\ UNCHANGED <<goal, disturbed, store>>
      /\ pc[Admin] = "idle" /\ pc'[Admin] = "received" /\ req'[Admin] = Head(plan)
  BY SupermicroAssumption DEF Continue, Send, TypeOK
<1>6. \A i \in 1 .. 3 - k : plan[i] = Sequence(goal)[k + i]
  BY <1>3 DEF AtWrite
<1>7. req'[Admin] = Sequence(goal)[k + 1]
  <2>1. Head(plan) = plan[1] /\ 1 \in 1 .. 3 - k
    BY <1>1, <1>4
  <2> QED
    BY <1>5, <1>6, <2>1
<1>8. ASSUME NEW i \in 1 .. 3 - (k + 1) PROVE plan'[i] = Sequence(goal)[(k + 1) + i]
  <2>1. /\ i + 1 \in 1 .. 3 - k /\ i \in 1 .. Len(plan) - 1
        /\ k + (i + 1) = (k + 1) + i
    BY <1>1, <1>3, <1>4 DEF AtWrite
  <2>2. Tail(plan)[i] = plan[i + 1]
    BY <1>1, <2>1
  <2>3. plan[i + 1] = Sequence(goal)[k + (i + 1)]
    BY <1>6, <2>1
  <2> QED
    BY <1>5, <2>1, <2>2, <2>3
<1>9. ASSUME ~disturbed', NEW i \in 1 .. 3, i < k + 1 PROVE Made(Sequence(goal)[i])'
  <2>1. i < k \/ i = k
    BY <1>4, <1>9
  <2>2. Made(Sequence(goal)[i])
    BY <1>3, <1>5, <1>9, <2>1 DEF AtWrite, Settled
  <2> QED
    BY <1>5, <2>2 DEF Made
<1>10. AtWrite(k + 1)'
  <2>1. ~Settled'
    BY <1>5 DEF Settled
  <2> QED
    BY <1>4, <1>5, <1>7, <1>8, <1>9, <2>1 DEF AtWrite
<1> QED
  BY <1>2, <1>4, <1>5, <1>10 DEF Progress

\* The admin's own write: acknowledged only once it is made, and the ones
\* before it are of other scripts.
LEMMA OwnWriteProgress == ASSUME TypeOK, Progress, WriteSetting(Admin) PROVE Progress'
<1>1. /\ UNCHANGED <<plan, goal, req>> /\ pc[Admin] = "received" /\ pc'[Admin] = "answered"
      /\ disturbed' = disturbed
  BY SupermicroAssumption DEF WriteSetting, Answer, Disturb, TypeOK
<1>2. goal \in {"locked", "unlocked"} /\ goal # None
  BY <1>1 DEF Progress, TypeOK
<1>3. PICK k \in 1 .. 3 : AtWrite(k)
  BY <1>2 DEF Progress
<1>4. PICK w \in Writes : w = Sequence(goal)[k] /\ req[Admin] = w
  BY <1>1, <1>2, <1>3, SequenceOf DEF AtWrite
<1>5. w.member = Manager /\ w.resource \in Settings \ {"ChangePassword"}
  BY <1>2, <1>4, SequenceOf
<1>6. CASE status'[Admin] = 204
  <2>1. Put(KeyOf(w.resource, Manager), w.value)
    BY <1>4, <1>5, <1>6, SupermicroAssumption DEF WriteSetting, Answer, TypeOK
  <2>2. Made(w)'
    BY <1>5, <2>1 DEF Made, Put
  <2>3. ASSUME ~disturbed', NEW i \in 1 .. 3, i < k PROVE Made(Sequence(goal)[i])'
    <3>1. Made(Sequence(goal)[i])
      BY <1>1, <1>3, <2>3 DEF AtWrite
    <3>2. /\ Sequence(goal)[i].resource # w.resource
          /\ Sequence(goal)[i].resource \in Settings \ {"ChangePassword"}
      BY <1>2, <1>4, <2>3, SequenceOf
    <3>3. KeyOf(Sequence(goal)[i].resource, Manager) # KeyOf(w.resource, Manager)
      BY <1>5, <3>2, KeysDistinct DEF Resources
    <3> QED
      BY <1>1, <2>1, <3>1, <3>3 DEF Made, Put
  <2>4. ASSUME ~disturbed', NEW i \in 1 .. 3, i < k \/ i = k PROVE Made(Sequence(goal)[i])'
    <3>1. CASE i = k
      BY <1>1, <1>4, <2>2, <3>1 DEF Made
    <3>2. CASE i < k
      BY <2>3, <2>4, <3>2
    <3> QED
      BY <2>4, <3>1, <3>2
  <2>5. AtWrite(k)'
    <3>1. /\ Len(plan') = 3 - k
          /\ \A i \in 1 .. 3 - k : plan'[i] = Sequence(goal')[k + i]
          /\ req'[Admin] = Sequence(goal')[k]
      BY <1>1, <1>3 DEF AtWrite
    <3> QED
      BY <1>1, <2>4, <3>1 DEF AtWrite
  <2> QED
    BY <1>1, <1>2, <2>5 DEF Progress
<1>7. CASE status'[Admin] # 204
  <2>1. UNCHANGED store
    BY <1>7, SupermicroAssumption DEF WriteSetting, Answer, TypeOK
  <2>2. ~Settled'
    BY <1>1, <1>7 DEF Settled
  <2>3. ASSUME ~disturbed', NEW i \in 1 .. 3, i < k PROVE Made(Sequence(goal)[i])'
    <3>1. Made(Sequence(goal)[i])
      BY <1>1, <1>3, <2>3 DEF AtWrite
    <3> QED
      BY <1>1, <2>1, <3>1 DEF Made
  <2>4. AtWrite(k)'
    <3>1. /\ Len(plan') = 3 - k
          /\ \A i \in 1 .. 3 - k : plan'[i] = Sequence(goal')[k + i]
          /\ req'[Admin] = Sequence(goal')[k]
      BY <1>1, <1>3 DEF AtWrite
    <3> QED
      BY <1>1, <2>2, <2>3, <3>1 DEF AtWrite
  <2> QED
    BY <1>1, <1>2, <2>4 DEF Progress
<1> QED
  BY <1>6, <1>7

\* The admin reads its answer: it goes on, or gives up.
LEMMA OwnLeaveProgress == ASSUME TypeOK, Progress, Leave(Admin) PROVE Progress'
<1>1. pc'[Admin] = "idle" /\ pc[Admin] = "answered" /\ UNCHANGED store
  BY SupermicroAssumption DEF Leave, TypeOK
<1>2. CASE status[Admin] # 204
  <2>1. plan' = <<>> /\ goal' = None
    BY <1>2 DEF Leave
  <2> QED
    BY <1>1, <2>1 DEF Progress
<1>3. CASE status[Admin] = 204
  <2>1. UNCHANGED <<plan, goal, disturbed>>
    BY <1>3 DEF Leave, admin
  <2>2. goal # None
    BY <1>1 DEF Progress
  <2>3. PICK k \in 1 .. 3 : AtWrite(k)
    BY <2>2 DEF Progress
  <2>4. Settled /\ Settled'
    BY <1>1, <1>3 DEF Settled
  <2>5. ASSUME ~disturbed', NEW i \in 1 .. 3, i < k \/ i = k PROVE Made(Sequence(goal)[i])'
    <3>1. Made(Sequence(goal)[i])
      BY <2>1, <2>3, <2>4, <2>5 DEF AtWrite
    <3> QED
      BY <1>1, <2>1, <3>1 DEF Made
  <2>6. AtWrite(k)'
    <3>1. /\ Len(plan') = 3 - k
          /\ \A i \in 1 .. 3 - k : plan'[i] = Sequence(goal')[k + i]
      BY <2>1, <2>3 DEF AtWrite
    <3> QED
      BY <1>1, <2>5, <3>1 DEF AtWrite
  <2> QED
    BY <2>1, <2>2, <2>6 DEF Progress
<1> QED
  BY <1>2, <1>3

\* A write of another client disturbs the admin; a boot order is under a key
\* the admin does not use.
LEMMA OtherClientProgress ==
    ASSUME TypeOK, Progress, NEW c \in Clients \ {Admin},
           \/ Request(c) \/ Leave(c) \/ WriteSetting(c) \/ ConfigReset(c) \/ PatchBoot(c)
           \/ Accepted(c) \/ Refused(c) \/ PatchFails(c) \/ HangUp(c)
    PROVE  Progress'
<1>1. goal \in {"locked", "unlocked", None} /\ Admin \in Clients
  BY SupermicroAssumption DEF TypeOK
<1>2. CASE Request(c)
  BY <1>1, <1>2, OthersKeepProgress DEF Request, Send, admin, TypeOK
<1>3. CASE Leave(c)
  BY <1>1, <1>3, OthersKeepProgress DEF Leave, admin, TypeOK
<1>4. CASE WriteSetting(c)
  <2>1. /\ UNCHANGED <<plan, goal>> /\ pc'[Admin] = pc[Admin]
        /\ status'[Admin] = status[Admin] /\ req'[Admin] = req[Admin]
    BY <1>1, <1>4 DEF WriteSetting, Answer, TypeOK
  <2>2. disturbed' \/ UNCHANGED <<store, disturbed>>
    BY <1>4 DEF WriteSetting, Disturb
  <2> QED
    BY <1>1, <2>1, <2>2, OthersKeepProgress
<1>5. CASE ConfigReset(c)
  <2>1. /\ UNCHANGED <<plan, goal>> /\ pc'[Admin] = pc[Admin]
        /\ status'[Admin] = status[Admin] /\ req'[Admin] = req[Admin]
    BY <1>1, <1>5 DEF ConfigReset, Answer, TypeOK
  <2>2. disturbed'
    BY <1>5 DEF ConfigReset, Disturb
  <2> QED
    BY <1>1, <2>1, <2>2, OthersKeepProgress
<1>6. CASE PatchBoot(c)
  <2>1. /\ UNCHANGED <<plan, goal, disturbed>> /\ pc'[Admin] = pc[Admin]
        /\ status'[Admin] = status[Admin] /\ req'[Admin] = req[Admin]
    BY <1>1, <1>6 DEF PatchBoot, Answer, TypeOK, admin
  <2>2. \A r \in Settings : KeyOf(r, Manager) # KeyOf("BootOrder", req[c].member)
    BY KeysDistinct DEF Resources, Settings
  <2>3. UNCHANGED store \/ Put(KeyOf("BootOrder", req[c].member), req[c].order)
    BY <1>6 DEF PatchBoot
  <2>4. ASSUME NEW r \in Settings \ {"ChangePassword"}, KeyOf(r, Manager) \in DOMAIN store
        PROVE  /\ KeyOf(r, Manager) \in DOMAIN store'
               /\ store'[KeyOf(r, Manager)] = store[KeyOf(r, Manager)]
    BY <2>2, <2>3, <2>4 DEF Put
  <2> QED
    BY <1>1, <2>1, <2>4, OthersKeepProgress
<1>7. CASE Accepted(c) \/ Refused(c) \/ PatchFails(c) \/ HangUp(c)
  <2>1. PICK code : Answer(c, code)
    BY <1>7 DEF Accepted, Refused, PatchFails, HangUp
  <2>2. UNCHANGED <<store, req, plan, goal, disturbed>>
    BY <1>7 DEF Accepted, Refused, PatchFails, HangUp, admin
  <2>3. pc'[Admin] = pc[Admin] /\ status'[Admin] = status[Admin]
    BY <1>1, <2>1 DEF Answer, TypeOK
  <2> QED
    BY <1>1, <2>2, <2>3, OthersKeepProgress
<1> QED
  BY <1>2, <1>3, <1>4, <1>5, <1>6, <1>7

\* The admin itself only writes settings.
LEMMA AdminWrites ==
    ASSUME TypeOK, Progress,
           ConfigReset(Admin) \/ PatchBoot(Admin) \/ Accepted(Admin) \/ Refused(Admin)
             \/ PatchFails(Admin) \/ HangUp(Admin)
    PROVE  FALSE
<1>1. pc[Admin] # "idle" /\ (pc[Admin] = "received" => req[Admin].do # "write")
  BY DEF ConfigReset, PatchBoot, Accepted, Refused, PatchFails, HangUp
<1>2. goal \in {"locked", "unlocked"} /\ goal # None
  BY <1>1 DEF Progress, TypeOK
<1>3. PICK k \in 1 .. 3 : AtWrite(k)
  BY <1>2 DEF Progress
<1>4. pc[Admin] \in {"received", "answered"} /\ req[Admin].do = "write"
  BY <1>1, <1>2, <1>3, SequenceOf DEF AtWrite
<1> QED
  BY <1>1, <1>4 DEF ConfigReset, PatchBoot, Accepted, Refused, PatchFails, HangUp

\* A restart disturbs it, and cuts its exchange if there is one.
LEMMA RestartProgress == ASSUME TypeOK, Progress, Restart PROVE Progress'
<1>1. /\ UNCHANGED <<plan, goal, req>> /\ disturbed'
      /\ pc'[Admin] = IF pc[Admin] = "idle" THEN "idle" ELSE "answered"
  BY SupermicroAssumption DEF Restart
<1>2. CASE goal = None
  BY <1>1, <1>2 DEF Progress
<1>3. CASE goal # None
  <2>1. PICK k \in 1 .. 3 : AtWrite(k)
    BY <1>3 DEF Progress
  <2>2. AtWrite(k)'
    <3>1. /\ Len(plan') = 3 - k
          /\ \A i \in 1 .. 3 - k : plan'[i] = Sequence(goal')[k + i]
          /\ pc'[Admin] \in {"idle", "received", "answered"}
          /\ pc'[Admin] # "idle" => req'[Admin] = Sequence(goal')[k]
      BY <1>1, <2>1 DEF AtWrite
    <3> QED
      BY <1>1, <3>1 DEF AtWrite
  <2> QED
    BY <1>1, <1>3, <2>1, <2>2 DEF Progress
<1> QED
  BY <1>2, <1>3

-----------------------------------------------------------------------------
(* The invariant, and the theorems.                                        *)

LEMMA Initially == ASSUME Init PROVE IInv
<1>1. TypeOK
  BY InitType
<1>2. NoFalseSuccess
  BY DEF Init, NoFalseSuccess
<1>3. Progress
  BY SupermicroAssumption DEF Init, Progress
<1> QED
  BY <1>1, <1>2, <1>3 DEF IInv

LEMMA Inductive == ASSUME IInv, [Next]_vars PROVE IInv'
<1>1. TypeOK /\ NoFalseSuccess /\ Progress
  BY DEF IInv
<1>2. CASE UNCHANGED vars
  <2>1. UNCHANGED <<store, override, pc, req, status, applied, plan, goal, disturbed, restarts>>
    BY <1>2 DEF vars, admin
  <2>2. TypeOK'
    BY <1>1, <2>1 DEF TypeOK
  <2>3. NoFalseSuccess'
    BY <1>1, <2>1 DEF NoFalseSuccess
  <2>4. Progress'
    <3>1. goal \in {"locked", "unlocked", None}
      BY <1>1 DEF TypeOK
    <3> QED
      BY <1>1, <2>1, <3>1, OthersKeepProgress
  <2> QED
    BY <2>2, <2>3, <2>4 DEF IInv
<1>3. CASE Next
  <2>1. NoFalseSuccess'
    BY <1>1, <1>3, NoFalseSuccessKept
  <2>2. ASSUME NEW c \in Clients,
               \/ Request(c) \/ Leave(c) \/ WriteSetting(c) \/ ConfigReset(c) \/ PatchBoot(c)
               \/ Accepted(c) \/ Refused(c) \/ PatchFails(c) \/ HangUp(c)
        PROVE  TypeOK' /\ Progress'
    <3>1. TypeOK'
      BY <1>1, <2>2, RequestType, LeaveType, WriteSettingType, ConfigResetType,
         PatchBootType, PatchedType
    <3>2. CASE c = Admin
      <4>1. ~Request(c)
        BY <3>2 DEF Request
      <4> QED
        BY <1>1, <2>2, <3>2, <4>1, OwnLeaveProgress, OwnWriteProgress, AdminWrites, <3>1
    <3>3. CASE c # Admin
      BY <1>1, <2>2, <3>1, <3>3, OtherClientProgress
    <3> QED
      BY <3>2, <3>3
  <2>3. ASSUME NEW what \in {"locked", "unlocked"}, Begin(what) PROVE TypeOK' /\ Progress'
    BY <1>1, <2>3, BeginType, BeginProgress
  <2>4. ASSUME Continue PROVE TypeOK' /\ Progress'
    BY <1>1, <2>4, ContinueType, ContinueProgress
  <2>5. ASSUME Restart PROVE TypeOK' /\ Progress'
    BY <1>1, <2>5, RestartType, RestartProgress
  <2>6. TypeOK' /\ Progress'
    BY <1>3, <2>2, <2>3, <2>4, <2>5 DEF Next
  <2> QED
    BY <2>1, <2>6 DEF IInv
<1> QED
  BY <1>2, <1>3

LEMMA Invariance == Spec => []IInv
<1>1. Init => IInv
  BY Initially
<1>2. IInv /\ [Next]_vars => IInv'
  BY Inductive
<1> QED
  BY <1>1, <1>2, PTL DEF Spec

\* The state of the scripts, of their callers and of the BMC is always well
\* formed; the store holds nothing but what the scripts accept.
THEOREM SupermicroTypeCorrect == Spec => []TypeOK
<1>1. IInv => TypeOK
  BY DEF IInv
<1> QED
  BY <1>1, Invariance, PTL

\* However many callers and restarts there are, an override is acknowledged
\* only if the BMC applied it.
THEOREM NoFalseClaims == Spec => []NoFalseSuccess
<1>1. IInv => NoFalseSuccess
  BY DEF IInv
<1> QED
  BY <1>1, Invariance, PTL

\* A lock or unlock that ran to its end undisturbed leaves the three reads in
\* the combination its caller waits for.
LEMMA EndOfSequence == ASSUME IInv PROVE SequenceTakesEffect
<1> SUFFICES ASSUME goal # None, plan = <<>>, Settled, ~disturbed
             PROVE  Triple = TripleOf(goal)
  BY DEF SequenceTakesEffect, Settled
<1>1. goal \in {"locked", "unlocked"}
  BY DEF IInv, TypeOK
<1>2. PICK k \in 1 .. 3 : AtWrite(k)
  BY DEF IInv, Progress
<1>3. k = 3
  BY <1>2 DEF AtWrite
<1>4. \A i \in 1 .. 3 : Made(Sequence(goal)[i])
  BY <1>2, <1>3 DEF AtWrite
<1>5. Made(Sequence(goal)[1]) /\ Made(Sequence(goal)[2]) /\ Made(Sequence(goal)[3])
  BY <1>4
<1>6. CASE goal = "locked"
  BY <1>5, <1>6 DEF Made, Sequence, WriteOf, Triple, TripleOf, SysLockdownEnabled, Privilege,
     InterfaceEnabled, StoredOr
<1>7. CASE goal = "unlocked"
  BY <1>5, <1>7 DEF Made, Sequence, WriteOf, Triple, TripleOf, SysLockdownEnabled, Privilege,
     InterfaceEnabled, StoredOr
<1> QED
  BY <1>1, <1>6, <1>7

\* So does every such sequence in every behaviour, whatever came before it
\* (the lockdown contract of tests/e2e.rs).
THEOREM SequencesLand == Spec => []SequenceTakesEffect
<1>1. IInv => SequenceTakesEffect
  BY EndOfSequence
<1> QED
  BY <1>1, Invariance, PTL

\* The reset's prefix reaches every key the scripts can have written.
LEMMA ResetEmpties ==
    ASSUME TypeOK, NEW c \in Clients, ConfigReset(c)
    PROVE  store' = [k \in {} |-> None]
<1>1. \A k \in DOMAIN store : k[1] = "supermicro"
  BY KeysUnderPrefix DEF TypeOK, Keys, Resources
<1>2. {k \in DOMAIN store : k[1] # "supermicro"} = {}
  BY <1>1
<1>3. store' = [k \in {} |-> store[k]]
  BY <1>2 DEF ConfigReset, Restrict
<1> QED
  BY <1>3

\* A factory reset drops everything the scripts ever stored.
THEOREM ResetsForget == Spec => ResetForgets
<1>1. IInv /\ [Next]_vars => [\A c \in Clients : ConfigReset(c) => store' = [k \in {} |-> None]]_vars
  BY ResetEmpties DEF IInv
<1> QED
  BY <1>1, Invariance, PTL DEF Spec, ResetForgets

=============================================================================
