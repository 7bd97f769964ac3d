--------------------------- MODULE InventoryProofs ---------------------------
(***************************************************************************)
(* Proofs about the serial and the boot option, for any systems, managers  *)
(* and collections.  As the BMC does not change, everything a walk of it   *)
(* has heard can be said of the BMC itself: without a failed probe, a walk *)
(* has passed over no system with a Bios, so all walks end alike.          *)
(***************************************************************************)
EXTENDS Inventory, FiniteSetTheorems, WellFoundedInduction, TLAPS

\* The positions of the BMC's collection that hold a system with a Bios.
Hosts == {i \in Walk!ProbeOrder(bmc.listed) : bmc.systems[Walk!At(bmc.listed, i)].bios}

MachineManager ==
    IF Hosts # {} /\ bmc.systems[Machine].manager # None
    THEN bmc.systems[Machine].manager ELSE bmc.manager

MachineIds == [system |-> Machine, manager |-> MachineManager]

Bare == bmc.systems[Machine].has \cap {"serial", "uuid"} = {}

\* The one serial of the machine.
Serial ==
    IF "serial" \in bmc.systems[Machine].has THEN <<"serial", Machine>>
    ELSE IF "uuid" \in bmc.systems[Machine].has THEN <<"uuid", Machine>>
    ELSE <<"digest", MachineManager>>

Asked == [resource: {"Systems", "Chassis"}, system: Systems]

Sources == {"serial", "uuid", "digest"} \X (Systems \cup Managers)

TypeOK ==
    /\ bmc \in Bmcs \cup {None}
    /\ doing \in {"idle", "forward", "ask system", "system", "get system", "ask manager",
                  "manager", "list", "members", "option"}
    /\ request \in Asked \cup {[resource |-> "BootOptions", system |-> None], None}
    /\ told \in SUBSET Sources
    /\ missed \in BOOLEAN /\ broken \in BOOLEAN
    /\ members \in Seq(Listed) /\ left_over \in Seq(Listed)
    /\ collection \in Seq([nic: Nics, fields: BOOLEAN])
    /\ Walk!TypeOK

\* A serial or a boot option is being read, and of the other nothing is at hand.
Apart ==
    IF bmc = None
    THEN /\ doing \in {"idle", "list", "members", "option"}
         /\ pc["handler"] = "ready" /\ told = {}
    ELSE /\ doing \notin {"list", "members", "option"}
         /\ members = <<>> /\ left_over = <<>> /\ collection = <<>> /\ ~broken
         /\ doing # "idle" => request \in Asked
         /\ doing = "get system" => answer["handler"] # None

\* A walk under way goes through the collection of this BMC, and its handler
\* waits for it.
Walking ==
    /\ pc["handler"] \in {"systems", "probe", "managers"} => doing \in {"system", "manager"}
    /\ pc["handler"] = "systems" => found["handler"] = None
    /\ pc["handler"] \in {"probe", "managers"} =>
         bmc.listed # <<>> /\ listed["handler"] = bmc.listed
    /\ pc["handler"] = "probe" =>
         /\ left["handler"] \subseteq Walk!ProbeOrder(bmc.listed)
         /\ found["handler"] = None

\* What was heard of the BMC, or cached of it, is so.
Truthful ==
    /\ cache # None => cache = MachineIds
    /\ answer["handler"] # None => answer["handler"] = MachineIds
    /\ pc["handler"] = "probe" => Hosts \subseteq left["handler"]
    /\ pc["handler"] = "managers" =>
         IF found["handler"] = None THEN Hosts = {}
         ELSE /\ Hosts # {} /\ found["handler"] = Machine
              /\ bmc.systems[Machine].manager = None

\* A handler asks for a manager only where the machine has nothing of its own.
Served ==
    /\ doing \in {"ask system", "system", "get system"} => request.resource = "Chassis"
    /\ doing \in {"ask manager", "manager"} =>
         (request.resource = "Chassis" \/ request.system = Machine => Bare)
    /\ \A serial \in told : serial = Serial

\* What was fetched and what is left over make up the collection.
Expanding ==
    /\ doing \in {"idle", "list"} => collection = <<>> /\ ~broken
    /\ doing = "members" =>
         /\ ~broken /\ left_over # <<>>
         /\ Len(collection) + Len(left_over) = Len(members)
         /\ \A i \in DOMAIN collection : collection[i] = Fetched(members[i])
         /\ \A i \in DOMAIN left_over : left_over[i] = members[Len(collection) + i]
    /\ ExpandedWhole

\* The inductive invariant.
IInv ==
    /\ TypeOK
    /\ Apart
    /\ bmc # None => Walking
    /\ bmc # None /\ ~missed => Truthful /\ Served
    /\ Expanding

-----------------------------------------------------------------------------
(* Positions, and the machine.                                             *)

LEMMA MinOf ==
    ASSUME NEW S \in SUBSET Nat, S # {}
    PROVE  Min(S) \in S /\ \A y \in S : Min(S) <= y
<1>1. PICK x \in S : \A y \in S : ~(<<y, x>> \in OpToRel(<, Nat))
  BY WFMin, NatLessThanWellFounded
<1>2. ASSUME NEW y \in S PROVE x <= y
  <2>1. ~(y < x)
    <3>1. y < x => <<y, x>> \in OpToRel(<, Nat)
      BY DEF OpToRel
    <3> QED
      BY <1>1, <3>1
  <2> QED
    BY <2>1
<1> QED
  BY <1>2 DEF Min

\* A collection has a preferred member, and every position is one of a member.
LEMMA Positions ==
    ASSUME NEW systems \in Walk!Listings, systems # <<>>
    PROVE  /\ Walk!Preferred(systems) \in Systems
           /\ Walk!ProbeOrder(systems) \in SUBSET (0 .. MaxListed)
           /\ Walk!ProbeOrder(systems) \in SUBSET Nat
           /\ Walk!ProbeOrder(systems) # {}
           /\ systems \in Seq(Systems)
           /\ \A i \in Walk!ProbeOrder(systems) : Walk!At(systems, i) \in Systems
<1>1. PICK n \in 0 .. MaxListed : systems \in [1 .. n -> Systems]
  BY DEF Walk!Listings
<1>2. MaxListed \in Nat /\ n \in Nat /\ systems \in Seq(Systems) /\ Len(systems) = n
  BY <1>1, InventoryAssumption
<1>3. \A i \in DOMAIN systems : systems[i] \in Systems /\ i \in 1 .. MaxListed
  BY <1>1, <1>2
<1>4. Walk!Preferred(systems) \in Systems
  <2>1. CASE System0 \in Walk!ToSet(systems)
    BY <1>3, <2>1 DEF Walk!Preferred, Walk!ToSet
  <2>2. CASE System0 \notin Walk!ToSet(systems)
    BY <1>2, <2>2 DEF Walk!Preferred
  <2> QED
    BY <2>1, <2>2
<1>5. Walk!ProbeOrder(systems) \in SUBSET (0 .. MaxListed) /\ 0 \in Walk!ProbeOrder(systems)
  BY <1>2, <1>3 DEF Walk!ProbeOrder
<1>6. \A i \in Walk!ProbeOrder(systems) : Walk!At(systems, i) \in Systems
  BY <1>3, <1>4 DEF Walk!ProbeOrder, Walk!At
<1>7. 0 .. MaxListed \subseteq Nat
  BY <1>2
<1> QED
  BY <1>2, <1>4, <1>5, <1>6, <1>7

\* The machine is what the first position with a Bios holds, if any does.
LEMMA MachineIs ==
    ASSUME bmc \in Bmcs, bmc.listed # <<>>
    PROVE  /\ Hosts = {} => Machine = Walk!Preferred(bmc.listed)
           /\ \A i \in Hosts :
                (\A j \in Hosts : i <= j) => Machine = Walk!At(bmc.listed, i)
<1>1. bmc.listed \in Walk!Listings
  BY DEF Bmcs
<1>2. Machine = Walk!At(bmc.listed, IF Hosts = {} THEN 0 ELSE Min(Hosts))
  BY DEF Machine, Hosts
<1>3. Walk!ProbeOrder(bmc.listed) \in SUBSET Nat
  BY <1>1, Positions
<1>4. Hosts \in SUBSET Nat
  BY <1>3 DEF Hosts
<1>5. Hosts = {} => Machine = Walk!Preferred(bmc.listed)
  BY <1>2 DEF Walk!At
<1>6. ASSUME NEW i \in Hosts, \A j \in Hosts : i <= j
      PROVE  Machine = Walk!At(bmc.listed, i)
  <2>1. Min(Hosts) \in Hosts /\ \A j \in Hosts : Min(Hosts) <= j
    BY <1>4, MinOf
  <2>2. PICK m \in Nat : m = Min(Hosts)
    BY <1>4, <2>1
  <2>3. i \in Nat /\ i <= m /\ m <= i
    BY <1>4, <1>6, <2>1, <2>2
  <2>4. Min(Hosts) = i
    BY <2>2, <2>3
  <2> QED
    BY <1>2, <2>4
<1> QED
  BY <1>5, <1>6

\* Nothing said of the BMC changes while it does not.
LEMMA SameBmc ==
    ASSUME bmc' = bmc
    PROVE  /\ Hosts' = Hosts /\ Machine' = Machine /\ MachineIds' = MachineIds
           /\ Serial' = Serial /\ Bare' = Bare
<1>1. Hosts' = Hosts
  BY DEF Hosts, Walk!ProbeOrder, Walk!At, Walk!Preferred
<1>2. Machine' = Machine
  BY DEF Machine, Walk!ProbeOrder, Walk!At, Walk!Preferred
<1>3. MachineManager' = MachineManager
  BY <1>1, <1>2 DEF MachineManager
<1> QED
  BY <1>1, <1>2, <1>3 DEF MachineIds, Serial, Bare

-----------------------------------------------------------------------------
(* The steps of the walk.                                                  *)

Places == {"ready", "systems", "probe", "managers", "done"}

Hearings == {"unasked", "no bios", "failed", "bios"}

LEMMA GoneTo ==
    ASSUME Walk!TypeOK, NEW where \in Places, Walk!Goto("handler", where)
    PROVE  pc' \in [{"handler"} -> Places] /\ pc'["handler"] = where
BY DEF Walk!TypeOK, Walk!Goto, Places

\* bmc::system_id() or bmc::manager_id() begins.
LEMMA AskIdsKeeps == ASSUME IInv, AskIds PROVE IInv'
<1>1. /\ TypeOK /\ Walk!TypeOK /\ Apart /\ bmc # None /\ Walking
      /\ doing \in {"ask system", "ask manager"}
  BY DEF IInv, TypeOK, Apart, AskIds
<1>2. /\ UNCHANGED <<bmc, request, told, missed, members, left_over, collection, broken>>
      /\ UNCHANGED <<cache, walks>>
      /\ doing' = (IF doing = "ask system" THEN "system" ELSE "manager")
      /\ listed' = [listed EXCEPT !["handler"] = <<>>]
      /\ left' = [left EXCEPT !["handler"] = {}]
      /\ found' = [found EXCEPT !["handler"] = None]
      /\ heard' = [heard EXCEPT !["handler"] = Walk!Unheard]
      /\ answer' = [answer EXCEPT !["handler"] = cache]
      /\ calls["handler"] < 2 /\ calls' = [calls EXCEPT !["handler"] = @ + 1]
  BY DEF AskIds, Walk!Ask, expanding
<1>3. /\ pc' \in [{"handler"} -> Places]
      /\ pc'["handler"] = (IF cache # None THEN "done" ELSE "systems")
  <2>1. Walk!Goto("handler", IF cache # None THEN "done" ELSE "systems")
    BY DEF AskIds, Walk!Ask
  <2>2. (IF cache # None THEN "done" ELSE "systems") \in Places
    BY DEF Places
  <2> QED
    BY <1>1, <2>1, <2>2, GoneTo
<1>4. /\ found' \in [{"handler"} -> Systems \cup {None}] /\ found'["handler"] = None
      /\ answer' \in [{"handler"} -> Walk!Ids \cup {None}] /\ answer'["handler"] = cache
  BY <1>1, <1>2 DEF Walk!TypeOK
<1>5. listed' \in [{"handler"} -> Seq(Systems)]
  <2>1. <<>> \in Seq(Systems)
    OBVIOUS
  <2> QED
    BY <1>1, <1>2, <2>1 DEF Walk!TypeOK
<1>6. left' \in [{"handler"} -> SUBSET (0 .. MaxListed)]
  BY <1>1, <1>2 DEF Walk!TypeOK
<1>7. heard' \in [{"handler"} -> [Systems -> Hearings]]
  BY <1>1, <1>2 DEF Walk!TypeOK, Walk!Unheard, Hearings
<1>8. calls' \in [{"handler"} -> 0 .. 2]
  <2>1. PICK n \in 0 .. 2 : n = calls["handler"]
    BY <1>1 DEF Walk!TypeOK
  <2>2. n < 2 /\ calls' = [calls EXCEPT !["handler"] = n + 1]
    BY <1>2, <2>1
  <2>3. n + 1 \in 0 .. 2
    BY <2>2
  <2> QED
    BY <1>1, <2>2, <2>3 DEF Walk!TypeOK
<1>9. Walk!TypeOK'
  BY <1>1, <1>2, <1>3, <1>4, <1>5, <1>6, <1>7, <1>8 DEF Walk!TypeOK, Places, Hearings
<1>10. TypeOK'
  BY <1>1, <1>2, <1>9 DEF TypeOK
<1>11. Apart' /\ Walking'
  BY <1>1, <1>2, <1>3, <1>4 DEF Apart, Walking
<1>12. ASSUME ~missed PROVE Truthful' /\ Served'
  <2>1. Truthful /\ Served
    BY <1>1, <1>12 DEF IInv
  <2>2. Truthful'
    BY <1>2, <1>3, <1>4, <2>1, SameBmc DEF Truthful
  <2>3. Served'
    BY <1>1, <1>2, <2>1, SameBmc DEF Served
  <2> QED
    BY <2>2, <2>3
<1>13. Expanding'
  BY <1>1, <1>2 DEF Expanding, ExpandedWhole, IInv
<1> QED
  BY <1>1, <1>2, <1>10, <1>11, <1>12, <1>13 DEF IInv

\* What an answer of the BMC to a walk under way has to establish.
LEMMA WalksOn ==
    ASSUME IInv, bmc # None, pc["handler"] \in {"systems", "probe", "managers"},
           UNCHANGED <<bmc, doing, request, told, expanding>>,
           missed' \in BOOLEAN, missed => missed',
           Walk!TypeOK', Walking', missed' \/ Truthful'
    PROVE  IInv'
<1>1. UNCHANGED <<bmc, doing, request, told, members, left_over, collection, broken>>
  BY DEF expanding
<1>2. TypeOK' /\ doing \in {"system", "manager"}
  BY <1>1 DEF IInv, TypeOK, Walking
<1>3. Apart' /\ Expanding'
  BY <1>1, <1>2 DEF IInv, Apart, Expanding, ExpandedWhole
<1>4. ~missed' => Served'
  BY <1>1, <1>2, SameBmc DEF IInv, Served
<1> QED
  BY <1>1, <1>2, <1>3, <1>4 DEF IInv

\* The system a probe asks is the one of its least position.
LEMMA NextProbe ==
    ASSUME IInv, bmc # None, pc["handler"] = "probe"
    PROVE  /\ bmc \in Bmcs /\ bmc.listed \in Walk!Listings /\ bmc.listed # <<>>
           /\ Min(left["handler"]) \in left["handler"]
           /\ Min(left["handler"]) \in Walk!ProbeOrder(bmc.listed)
           /\ \A i \in left["handler"] : Min(left["handler"]) <= i
           /\ Walk!Probed("handler") = Walk!At(bmc.listed, Min(left["handler"]))
           /\ Walk!Probed("handler") \in Systems
<1>1. /\ bmc \in Bmcs /\ bmc.listed \in Walk!Listings /\ bmc.listed # <<>>
      /\ listed["handler"] = bmc.listed
      /\ left["handler"] \subseteq Walk!ProbeOrder(bmc.listed)
  BY DEF IInv, TypeOK, Walking, Bmcs
<1>2. left["handler"] # {}
  BY DEF IInv, TypeOK, Walk!TypeOK
<1>3. left["handler"] \in SUBSET Nat
  BY <1>1, Positions
<1>4. Min(left["handler"]) \in left["handler"]
      /\ \A i \in left["handler"] : Min(left["handler"]) <= i
  BY <1>2, <1>3, MinOf
<1>5. Walk!Probed("handler") = Walk!At(bmc.listed, Min(left["handler"]))
  BY <1>1 DEF Walk!Probed, Walk!Min, Min
<1> QED
  BY <1>1, <1>4, <1>5, Positions

LEMMA Heard ==
    ASSUME IInv, bmc # None, pc["handler"] = "probe", NEW how \in Hearings,
           heard' = [heard EXCEPT !["handler"][Walk!Probed("handler")] = how]
    PROVE  heard' \in [{"handler"} -> [Systems -> Hearings]]
<1>1. PICK s \in Systems : s = Walk!Probed("handler")
  BY NextProbe
<1>2. heard \in [{"handler"} -> [Systems -> Hearings]]
  BY DEF IInv, TypeOK, Walk!TypeOK, Hearings
<1> QED
  BY <1>1, <1>2

\* Not this one: what is left still holds every position with a Bios, unless
\* it was the fetch that failed.
LEMMA ProbeMissesKeeps ==
    ASSUME IInv, bmc # None, NEW how \in {"no bios", "failed"},
           Walk!ProbeMisses("handler", how),
           UNCHANGED <<bmc, doing, request, told, expanding>>,
           missed' \in BOOLEAN, missed => missed',
           ~missed' => ~bmc.systems[Walk!Probed("handler")].bios
    PROVE  IInv'
<1>1. pc["handler"] = "probe" /\ TypeOK /\ Walk!TypeOK /\ Walking
  BY DEF IInv, TypeOK, Walk!ProbeMisses
<1>2. PICK i : i = Min(left["handler"])
  OBVIOUS
<1>3. /\ bmc \in Bmcs /\ bmc.listed \in Walk!Listings /\ bmc.listed # <<>>
      /\ i \in left["handler"] /\ i \in Walk!ProbeOrder(bmc.listed)
      /\ Walk!Probed("handler") = Walk!At(bmc.listed, i)
  BY <1>1, <1>2, NextProbe
<1>4. /\ UNCHANGED <<cache, listed, found, answer, walks, calls>>
      /\ left' = [left EXCEPT !["handler"] = @ \ {i}]
      /\ heard' = [heard EXCEPT !["handler"][Walk!Probed("handler")] = how]
      /\ Walk!Goto("handler", IF left["handler"] = {i} THEN "managers" ELSE "probe")
  BY <1>2 DEF Walk!ProbeMisses, Walk!Min, Min
<1>5. /\ pc' \in [{"handler"} -> Places]
      /\ pc'["handler"] = (IF left["handler"] = {i} THEN "managers" ELSE "probe")
  <2>1. (IF left["handler"] = {i} THEN "managers" ELSE "probe") \in Places
    BY DEF Places
  <2> QED
    BY <1>1, <1>4, <2>1, GoneTo
<1>6. /\ left' \in [{"handler"} -> SUBSET (0 .. MaxListed)]
      /\ left'["handler"] = left["handler"] \ {i}
  BY <1>1, <1>4 DEF Walk!TypeOK
<1>7. heard' \in [{"handler"} -> [Systems -> Hearings]]
  BY <1>1, <1>4, Heard DEF Hearings
<1>8. Walk!TypeOK'
  <2>1. pc'["handler"] = "probe" => left'["handler"] # {}
    BY <1>3, <1>5, <1>6
  <2> QED
    BY <1>1, <1>4, <1>5, <1>6, <1>7, <2>1 DEF Walk!TypeOK, Places, Hearings
<1>9. Walking'
  BY <1>1, <1>3, <1>4, <1>5, <1>6 DEF Walking
<1>10. ASSUME ~missed' PROVE Truthful'
  <2>1. Truthful /\ Hosts \subseteq left["handler"] /\ found["handler"] = None
    BY <1>1, <1>10 DEF IInv, Truthful, Walking
  <2>2. i \notin Hosts
    BY <1>3, <1>10 DEF Hosts
  <2>3. Hosts \subseteq left'["handler"]
    BY <1>6, <2>1, <2>2
  <2>4. pc'["handler"] = "managers" => Hosts = {}
    BY <1>5, <2>1, <2>2
  <2> QED
    BY <1>4, <1>5, <2>1, <2>3, <2>4, SameBmc DEF Truthful
<1> QED
  BY <1>1, <1>8, <1>9, <1>10, WalksOn

\* The first system that carries a Bios is the machine, unless a probe failed.
LEMMA FoundMachine ==
    ASSUME IInv, bmc # None, pc["handler"] = "probe", ~missed,
           bmc.systems[Walk!Probed("handler")].bios
    PROVE  Hosts # {} /\ Machine = Walk!Probed("handler")
<1>1. PICK i : i = Min(left["handler"])
  OBVIOUS
<1>2. /\ bmc \in Bmcs /\ bmc.listed # <<>>
      /\ i \in Walk!ProbeOrder(bmc.listed) /\ \A j \in left["handler"] : i <= j
      /\ Walk!Probed("handler") = Walk!At(bmc.listed, i)
  BY <1>1, NextProbe
<1>3. Hosts \subseteq left["handler"]
  BY DEF IInv, Truthful
<1>4. i \in Hosts /\ \A j \in Hosts : i <= j
  BY <1>2, <1>3 DEF Hosts
<1> QED
  BY <1>2, <1>4, MachineIs

LEMMA ProbeFindsKeeps ==
    ASSUME IInv, bmc # None, Walk!ProbeFinds("handler"),
           UNCHANGED <<bmc, serving, expanding>>,
           bmc.systems[Walk!Probed("handler")].bios,
           bmc.systems[Walk!Probed("handler")].manager = None
    PROVE  IInv'
<1>1. pc["handler"] = "probe" /\ TypeOK /\ Walk!TypeOK /\ Walking
  BY DEF IInv, TypeOK, Walk!ProbeFinds
<1>2. UNCHANGED <<bmc, doing, request, told, expanding>> /\ missed' = missed /\ missed \in BOOLEAN
  BY <1>1 DEF serving, TypeOK
<1>3. PICK s \in Systems : s = Walk!Probed("handler")
  BY <1>1, NextProbe
<1>4. /\ UNCHANGED <<cache, listed, left, answer, walks, calls>>
      /\ found' = [found EXCEPT !["handler"] = s]
      /\ heard' = [heard EXCEPT !["handler"][Walk!Probed("handler")] = "bios"]
      /\ Walk!Goto("handler", "managers")
  BY <1>3 DEF Walk!ProbeFinds
<1>5. pc' \in [{"handler"} -> Places] /\ pc'["handler"] = "managers"
  BY <1>1, <1>4, GoneTo DEF Places
<1>6. found' \in [{"handler"} -> Systems \cup {None}] /\ found'["handler"] = s
  BY <1>1, <1>4 DEF Walk!TypeOK
<1>7. heard' \in [{"handler"} -> [Systems -> Hearings]]
  BY <1>1, <1>4, Heard DEF Hearings
<1>8. Walk!TypeOK'
  BY <1>1, <1>4, <1>5, <1>6, <1>7 DEF Walk!TypeOK, Places, Hearings
<1>9. Walking'
  BY <1>1, <1>2, <1>4, <1>5 DEF Walking
<1>10. ASSUME ~missed PROVE Truthful'
  <2>1. Truthful
    BY <1>10 DEF IInv
  <2>2. Hosts # {} /\ s = Machine /\ bmc.systems[Machine].manager = None
    BY <1>1, <1>3, <1>10, FoundMachine
  <2> QED
    BY <1>2, <1>4, <1>5, <1>6, <2>1, <2>2, SameBmc, InventoryAssumption DEF Truthful
<1> QED
  BY <1>1, <1>2, <1>8, <1>9, <1>10, WalksOn

\* The ids are returned and cached.
LEMMA SettleKeeps ==
    ASSUME IInv, bmc # None, pc["handler"] \in {"probe", "managers"},
           NEW ids \in Walk!Ids, Walk!Settle("handler", ids), ~missed => ids = MachineIds,
           UNCHANGED <<bmc, serving, expanding>>, UNCHANGED <<listed, left, calls>>,
           heard' \in [{"handler"} -> [Systems -> Hearings]],
           found' \in [{"handler"} -> Systems \cup {None}]
    PROVE  IInv'
<1>1. TypeOK /\ Walk!TypeOK /\ Walking
  BY DEF IInv, TypeOK
<1>2. UNCHANGED <<bmc, doing, request, told, expanding>> /\ missed' = missed /\ missed \in BOOLEAN
  BY <1>1 DEF serving, TypeOK
<1>3. /\ cache' = ids /\ answer' = [answer EXCEPT !["handler"] = ids] /\ walks' = walks + 1
      /\ Walk!Goto("handler", "done")
  BY DEF Walk!Settle
<1>4. pc' \in [{"handler"} -> Places] /\ pc'["handler"] = "done"
  BY <1>1, <1>3, GoneTo DEF Places
<1>5. answer' \in [{"handler"} -> Walk!Ids \cup {None}] /\ answer'["handler"] = ids
  BY <1>1, <1>3 DEF Walk!TypeOK
<1>6. walks' \in Nat
  <2>1. walks \in Nat
    BY <1>1 DEF Walk!TypeOK
  <2> QED
    BY <1>3, <2>1
<1>7. Walk!TypeOK'
  BY <1>1, <1>3, <1>4, <1>5, <1>6 DEF Walk!TypeOK, Places, Hearings
<1>8. Walking'
  BY <1>4 DEF Walking
<1>9. ~missed => Truthful'
  BY <1>2, <1>3, <1>4, <1>5, SameBmc DEF Truthful
<1> QED
  BY <1>1, <1>2, <1>7, <1>8, <1>9, WalksOn

LEMMA ProbeNamesKeeps ==
    ASSUME IInv, bmc # None, NEW manager \in Managers, Walk!ProbeNames("handler", manager),
           UNCHANGED <<bmc, serving, expanding>>,
           bmc.systems[Walk!Probed("handler")].bios,
           manager = bmc.systems[Walk!Probed("handler")].manager
    PROVE  IInv'
<1>1. pc["handler"] = "probe" /\ TypeOK /\ Walk!TypeOK
  BY DEF IInv, TypeOK, Walk!ProbeNames
<1>2. PICK s \in Systems : s = Walk!Probed("handler")
  BY <1>1, NextProbe
<1>3. PICK ids \in Walk!Ids : ids = [system |-> s, manager |-> manager]
  BY DEF Walk!Ids
<1>4. /\ UNCHANGED <<listed, left, calls>> /\ found' = [found EXCEPT !["handler"] = s]
      /\ heard' = [heard EXCEPT !["handler"][Walk!Probed("handler")] = "bios"]
      /\ Walk!Settle("handler", ids)
  BY <1>2, <1>3 DEF Walk!ProbeNames
<1>5. found' \in [{"handler"} -> Systems \cup {None}]
  BY <1>1, <1>4 DEF Walk!TypeOK
<1>6. heard' \in [{"handler"} -> [Systems -> Hearings]]
  BY <1>1, <1>4, Heard DEF Hearings
<1>7. manager # None
  BY InventoryAssumption
<1>8. ASSUME ~missed PROVE ids = MachineIds
  <2>1. Hosts # {} /\ Machine = s
    BY <1>1, <1>2, <1>8, FoundMachine
  <2> QED
    BY <1>2, <1>3, <1>7, <2>1 DEF MachineIds, MachineManager
<1> QED
  BY <1>1, <1>4, <1>5, <1>6, <1>8, SettleKeeps

LEMMA ReadManagersKeeps ==
    ASSUME IInv, bmc # None, bmc.manager # None, Walk!ReadManagers("handler", bmc.manager),
           UNCHANGED <<bmc, serving, expanding>>
    PROVE  IInv'
<1>1. /\ pc["handler"] = "managers" /\ TypeOK /\ Walk!TypeOK
      /\ bmc.listed # <<>> /\ listed["handler"] = bmc.listed
      /\ bmc \in Bmcs /\ bmc.listed \in Walk!Listings
  BY DEF IInv, TypeOK, Walking, Walk!ReadManagers, Bmcs
<1>2. PICK s : s = (IF found["handler"] # None THEN found["handler"]
                    ELSE Walk!Preferred(listed["handler"]))
  OBVIOUS
<1>3. s \in Systems /\ bmc.manager \in Managers
  BY <1>1, <1>2, Positions DEF Walk!TypeOK, Bmcs
<1>4. PICK ids \in Walk!Ids : ids = [system |-> s, manager |-> bmc.manager]
  BY <1>3 DEF Walk!Ids
<1>5. UNCHANGED <<listed, left, found, heard, calls>> /\ Walk!Settle("handler", ids)
  BY <1>2, <1>4 DEF Walk!ReadManagers, Walk!walk
<1>6. ASSUME ~missed PROVE ids = MachineIds
  <2>1. IF found["handler"] = None THEN Hosts = {}
        ELSE /\ Hosts # {} /\ found["handler"] = Machine
             /\ bmc.systems[Machine].manager = None
    BY <1>1, <1>6 DEF IInv, Truthful
  <2>2. s = Machine
    BY <1>1, <1>2, <2>1, MachineIs
  <2> QED
    BY <1>4, <2>1, <2>2 DEF MachineIds, MachineManager
<1> QED
  BY <1>1, <1>5, <1>6, SettleKeeps DEF Walk!TypeOK, Hearings

LEMMA ReadSystemsKeeps ==
    ASSUME IInv, bmc # None, Walk!ReadSystems("handler", bmc.listed),
           UNCHANGED <<bmc, serving, expanding>>
    PROVE  IInv'
<1>1. /\ pc["handler"] = "systems" /\ TypeOK /\ Walk!TypeOK /\ Walking
      /\ bmc \in Bmcs /\ bmc.listed \in Walk!Listings /\ bmc.listed # <<>>
  BY DEF IInv, TypeOK, Walk!ReadSystems, Bmcs
<1>2. UNCHANGED <<bmc, doing, request, told, expanding>> /\ missed' = missed /\ missed \in BOOLEAN
  BY <1>1 DEF serving, TypeOK
<1>3. /\ UNCHANGED <<cache, found, answer, heard, walks, calls>>
      /\ listed' = [listed EXCEPT !["handler"] = bmc.listed]
      /\ left' = [left EXCEPT !["handler"] = Walk!ProbeOrder(bmc.listed)]
      /\ Walk!Goto("handler", "probe")
  BY DEF Walk!ReadSystems
<1>4. /\ bmc.listed \in Seq(Systems) /\ Walk!ProbeOrder(bmc.listed) # {}
      /\ Walk!ProbeOrder(bmc.listed) \in SUBSET (0 .. MaxListed)
  BY <1>1, Positions
<1>5. pc' \in [{"handler"} -> Places] /\ pc'["handler"] = "probe"
  BY <1>1, <1>3, GoneTo DEF Places
<1>6. listed' \in [{"handler"} -> Seq(Systems)] /\ listed'["handler"] = bmc.listed
  BY <1>1, <1>3, <1>4 DEF Walk!TypeOK
<1>7. /\ left' \in [{"handler"} -> SUBSET (0 .. MaxListed)]
      /\ left'["handler"] = Walk!ProbeOrder(bmc.listed)
  BY <1>1, <1>3, <1>4 DEF Walk!TypeOK
<1>8. Walk!TypeOK'
  <2>1. left'["handler"] # {}
    BY <1>4, <1>7
  <2> QED
    BY <1>1, <1>3, <1>5, <1>6, <1>7, <2>1 DEF Walk!TypeOK, Places
<1>9. Walking'
  <2>1. left'["handler"] \subseteq Walk!ProbeOrder(bmc'.listed)
    BY <1>2, <1>7
  <2> QED
    BY <1>1, <1>2, <1>3, <1>5, <1>6, <2>1 DEF Walking
<1>10. ASSUME ~missed PROVE Truthful'
  <2>1. Hosts \subseteq left'["handler"]
    BY <1>7 DEF Hosts
  <2> QED
    BY <1>1, <1>2, <1>3, <1>5, <1>10, <2>1, SameBmc DEF IInv, Truthful
<1> QED
  BY <1>1, <1>2, <1>8, <1>9, <1>10, WalksOn

\* The `?` of a failed GET.
LEMMA GiveUpKeeps ==
    ASSUME IInv, bmc # None, pc["handler"] \in {"systems", "managers"}, Walk!GiveUp("handler"),
           UNCHANGED <<bmc, serving, expanding>>
    PROVE  IInv'
<1>1. TypeOK /\ Walk!TypeOK
  BY DEF IInv, TypeOK
<1>2. UNCHANGED <<bmc, doing, request, told, expanding>> /\ missed' = missed /\ missed \in BOOLEAN
  BY <1>1 DEF serving, TypeOK
<1>3. /\ UNCHANGED <<cache, listed, left, found, heard, walks, calls>>
      /\ answer' = [answer EXCEPT !["handler"] = None]
      /\ Walk!Goto("handler", "done")
  BY DEF Walk!GiveUp, Walk!walk
<1>4. pc' \in [{"handler"} -> Places] /\ pc'["handler"] = "done"
  BY <1>1, <1>3, GoneTo DEF Places
<1>5. answer' \in [{"handler"} -> Walk!Ids \cup {None}] /\ answer'["handler"] = None
  BY <1>1, <1>3 DEF Walk!TypeOK
<1>6. Walk!TypeOK'
  BY <1>1, <1>3, <1>4, <1>5 DEF Walk!TypeOK, Places
<1>7. Walking'
  BY <1>4 DEF Walking
<1>8. ~missed => Truthful'
  BY <1>2, <1>3, <1>4, <1>5, SameBmc DEF IInv, Truthful
<1> QED
  BY <1>1, <1>2, <1>6, <1>7, <1>8, WalksOn

LEMMA WalkKeeps ==
    ASSUME IInv, Probe \/ ProbeFails \/ Collections
    PROVE  IInv'
<1>1. pc["handler"] \in {"systems", "probe", "managers"} /\ TypeOK
  BY DEF Probe, ProbeFails, Collections, Walk!ProbeMisses, IInv
<1>2. bmc # None /\ missed \in BOOLEAN
  BY <1>1 DEF IInv, Apart, TypeOK
<1>3. CASE Probe
  <2>1. PICK asked : asked = bmc.systems[Walk!Probed("handler")]
    OBVIOUS
  <2>2. UNCHANGED <<bmc, serving, expanding>>
    BY <1>3 DEF Probe
  <2>3. UNCHANGED <<bmc, doing, request, told, missed, expanding>>
    BY <2>2 DEF serving
  <2>4. CASE ~asked.bios /\ Walk!ProbeMisses("handler", "no bios")
    BY <1>2, <2>1, <2>3, <2>4, ProbeMissesKeeps
  <2>5. CASE asked.bios /\ asked.manager = None /\ Walk!ProbeFinds("handler")
    BY <1>2, <2>1, <2>2, <2>5, ProbeFindsKeeps
  <2>6. CASE asked.bios /\ asked.manager # None /\ Walk!ProbeNames("handler", asked.manager)
    <3>1. bmc \in Bmcs /\ Walk!Probed("handler") \in Systems
      BY <1>2, <2>6, NextProbe DEF Walk!ProbeNames
    <3>2. asked \in Documents
      BY <2>1, <3>1 DEF Bmcs
    <3>3. asked.manager \in Managers
      BY <2>6, <3>2 DEF Documents
    <3> QED
      BY <1>2, <2>1, <2>2, <2>6, <3>3, ProbeNamesKeeps
  <2> QED
    BY <1>3, <2>1, <2>4, <2>5, <2>6 DEF Probe
<1>4. CASE ProbeFails
  BY <1>2, <1>4, ProbeMissesKeeps DEF ProbeFails
<1>5. CASE Collections
  <2>1. UNCHANGED <<bmc, serving, expanding>> /\ pc["handler"] \in {"systems", "managers"}
    BY <1>5 DEF Collections
  <2>2. CASE Walk!ReadSystems("handler", bmc.listed)
    BY <1>2, <2>1, <2>2, ReadSystemsKeeps
  <2>3. CASE Walk!NoSystems("handler") \/ Walk!NoManagers("handler")
    BY <1>2, <2>1, <2>3, GiveUpKeeps DEF Walk!NoSystems, Walk!NoManagers
  <2>4. CASE bmc.manager # None /\ Walk!ReadManagers("handler", bmc.manager)
    BY <1>2, <2>1, <2>4, ReadManagersKeeps
  <2> QED
    BY <1>5, <2>2, <2>3, <2>4 DEF Collections
<1> QED
  BY <1>3, <1>4, <1>5

-----------------------------------------------------------------------------
(* The steps of the handler that asks for a serial.                        *)

\* A step between two calls.
LEMMA Moves ==
    ASSUME IInv, bmc # None, UNCHANGED <<bmc, told, expanding, walking>>,
           doing \notin {"system", "manager"} \/ pc["handler"] = "done",
           doing' \in {"forward", "ask system", "get system", "ask manager"},
           doing' = "get system" => answer["handler"] # None,
           request' \in Asked, missed' \in BOOLEAN, missed => missed',
           ~missed' => Served'
    PROVE  IInv'
<1>1. UNCHANGED <<members, left_over, collection, broken>>
  BY DEF expanding
<1>2. UNCHANGED <<cache, pc, listed, left, found, answer, heard, walks, calls>>
  BY DEF walking
<1>3. TypeOK'
  <2>1. Walk!TypeOK'
    BY <1>2 DEF IInv, TypeOK, Walk!TypeOK
  <2> QED
    BY <1>1, <2>1 DEF IInv, TypeOK
<1>4. Apart' /\ Walking'
  BY <1>1, <1>2 DEF IInv, Apart, Walking
<1>5. ~missed' => Truthful'
  BY <1>2, SameBmc DEF IInv, Truthful
<1>6. Expanding'
  BY <1>1, <1>4 DEF IInv, Apart, Expanding, ExpandedWhole
<1> QED
  BY <1>3, <1>4, <1>5, <1>6 DEF IInv

\* The handler answers, and its context goes.
LEMMA Ends ==
    ASSUME IInv, Over, UNCHANGED <<bmc, missed>>, told' \in SUBSET Sources,
           bmc = None => told' = {},
           bmc # None /\ ~missed => \A serial \in told' : serial = Serial
    PROVE  IInv'
<1>1. TypeOK /\ Walk!TypeOK
  BY DEF IInv, TypeOK
<1>2. /\ doing' = "idle" /\ request' = None
      /\ members' = <<>> /\ left_over' = <<>> /\ collection' = <<>> /\ broken' = FALSE
      /\ cache' = None /\ answer' = [answer EXCEPT !["handler"] = None]
      /\ pc' = [pc EXCEPT !["handler"] = "ready"]
      /\ listed' = [listed EXCEPT !["handler"] = <<>>]
      /\ left' = [left EXCEPT !["handler"] = {}]
      /\ found' = [found EXCEPT !["handler"] = None]
      /\ heard' = [heard EXCEPT !["handler"] = Walk!Unheard]
      /\ walks' = 0 /\ calls' = [calls EXCEPT !["handler"] = 0]
  BY DEF Over
<1>3. /\ <<>> \in Seq(Listed) /\ <<>> \in Seq([nic: Nics, fields: BOOLEAN])
      /\ <<>> \in Seq(Systems)
  OBVIOUS
<1>4. pc' \in [{"handler"} -> Places] /\ pc'["handler"] = "ready"
  BY <1>1, <1>2 DEF Walk!TypeOK, Places
<1>5. /\ answer' \in [{"handler"} -> Walk!Ids \cup {None}] /\ answer'["handler"] = None
      /\ found' \in [{"handler"} -> Systems \cup {None}]
  BY <1>1, <1>2 DEF Walk!TypeOK
<1>6. /\ listed' \in [{"handler"} -> Seq(Systems)]
      /\ left' \in [{"handler"} -> SUBSET (0 .. MaxListed)]
  BY <1>1, <1>2, <1>3 DEF Walk!TypeOK
<1>7. heard' \in [{"handler"} -> [Systems -> Hearings]]
  BY <1>1, <1>2 DEF Walk!TypeOK, Walk!Unheard, Hearings
<1>8. calls' \in [{"handler"} -> 0 .. 2]
  <2>1. 0 \in 0 .. 2
    OBVIOUS
  <2> QED
    BY <1>1, <1>2, <2>1 DEF Walk!TypeOK
<1>9. Walk!TypeOK'
  BY <1>1, <1>2, <1>4, <1>5, <1>6, <1>7, <1>8 DEF Walk!TypeOK, Places, Hearings
<1>10. TypeOK'
  BY <1>1, <1>2, <1>3, <1>9 DEF TypeOK
<1>11. Apart' /\ Walking' /\ Expanding'
  BY <1>2, <1>4 DEF Apart, Walking, Expanding, ExpandedWhole
<1>12. bmc # None /\ ~missed => Truthful' /\ Served'
  BY <1>2, <1>4, <1>5, SameBmc DEF Truthful, Served
<1> QED
  BY <1>10, <1>11, <1>12 DEF IInv

LEMMA QuitKeeps == ASSUME IInv, Quit PROVE IInv'
<1>1. Over /\ UNCHANGED <<bmc, missed, told>>
  BY DEF Quit
<1>2. /\ told \in SUBSET Sources /\ (bmc = None => told = {})
      /\ bmc # None /\ ~missed => \A serial \in told : serial = Serial
  BY DEF IInv, TypeOK, Apart, Served
<1> QED
  BY <1>1, <1>2, Ends

\* What the machine is told is its serial.
LEMMA TellKeeps ==
    ASSUME IInv, bmc # None, NEW serial \in Sources, Tell(serial),
           ~missed => (request.resource = "Chassis" \/ request.system = Machine => serial = Serial)
    PROVE  IInv'
<1>1. Over /\ UNCHANGED <<bmc, missed>>
  BY DEF Tell
<1>2. told \in SUBSET Sources /\ (~missed => \A known \in told : known = Serial)
  BY DEF IInv, TypeOK, Served
<1>3. told' = IF request.resource = "Chassis" \/ request.system = Machine
              THEN told \cup {serial} ELSE told
  BY DEF Tell
<1>4. told' \in SUBSET Sources /\ (~missed => \A known \in told' : known = Serial)
  BY <1>2, <1>3
<1> QED
  BY <1>1, <1>4, Ends

\* The two derivations look at the same two fields in the same order.
LEMMA Derived ==
    ASSUME NEW s \in Systems
    PROVE  /\ SystemSerial(s) = ChassisSerial(s)
           /\ SystemSerial(s) # None => SystemSerial(s) \in Sources
           /\ s = Machine /\ SystemSerial(s) # None => SystemSerial(s) = Serial
           /\ s = Machine /\ SystemSerial(s) = None => Bare
<1>1. <<"serial", s>> # None /\ <<"uuid", s>> # None
  BY InventoryAssumption
<1>2. <<"serial", s>> \in Sources /\ <<"uuid", s>> \in Sources
  BY DEF Sources
<1> QED
  BY <1>1, <1>2 DEF SystemSerial, SystemDerived, ChassisSerial, Serial, Bare

LEMMA ForwardKeeps == ASSUME IInv, ForwardSystem \/ ForwardChassis PROVE IInv'
<1>1. bmc # None /\ request \in Asked /\ missed \in BOOLEAN /\ doing = "forward"
  BY DEF IInv, TypeOK, Apart, ForwardSystem, ForwardChassis
<1>2. CASE ForwardChassis
  <2>1. ~missed => Served'
    BY <1>1, <1>2, SameBmc DEF ForwardChassis, IInv, Served
  <2> QED
    BY <1>1, <1>2, <2>1, Moves DEF ForwardChassis
<1>3. CASE ForwardSystem
  <2>1. PICK s \in Systems : s = request.system
    BY <1>1 DEF Asked
  <2>2. request.resource = "Systems"
    BY <1>3 DEF ForwardSystem
  <2>3. CASE SystemSerial(s) # None
    BY <1>1, <1>3, <2>1, <2>2, <2>3, Derived, TellKeeps DEF ForwardSystem
  <2>4. CASE SystemSerial(s) = None
    <3>1. doing' = "ask manager" /\ UNCHANGED <<bmc, request, told, missed, expanding, walking>>
      BY <1>3, <2>1, <2>4 DEF ForwardSystem
    <3>2. ~missed => Served'
      BY <1>1, <2>1, <2>2, <2>4, <3>1, Derived, SameBmc DEF IInv, Served
    <3> QED
      BY <1>1, <3>1, <3>2, Moves
  <2> QED
    BY <2>3, <2>4
<1> QED
  BY <1>2, <1>3

\* The Chassis script is told its system by the walk.
LEMMA GetSystemKeeps ==
    ASSUME IInv, HaveSystem \/ GetSystem \/ GetSystemRefused
    PROVE  IInv'
<1>1. /\ bmc # None /\ request \in Asked /\ missed \in BOOLEAN
      /\ doing \in {"system", "get system"} /\ TypeOK
  BY DEF IInv, TypeOK, Apart, HaveSystem, GetSystem, GetSystemRefused
<1>2. CASE HaveSystem
  <2>1. ~missed => Served'
    BY <1>1, <1>2, SameBmc DEF HaveSystem, IInv, Served, walking
  <2> QED
    BY <1>1, <1>2, <2>1, Moves DEF HaveSystem
<1>3. CASE GetSystemRefused
  BY <1>1, <1>3, Moves DEF GetSystemRefused
<1>4. CASE GetSystem
  <2>1. doing = "get system" /\ answer["handler"] \in Walk!Ids
    BY <1>1, <1>4 DEF GetSystem, TypeOK, Walk!TypeOK, IInv, Apart
  <2>2. PICK s \in Systems : s = answer["handler"].system
    BY <2>1 DEF Walk!Ids
  <2>3. ~missed => s = Machine
    <3>1. answer["handler"] # None
      BY <1>1, <2>1 DEF IInv, Apart
    <3>2. ~missed => answer["handler"] = MachineIds
      BY <1>1, <3>1 DEF IInv, Truthful
    <3> QED
      BY <2>2, <3>2 DEF MachineIds
  <2>4. CASE ChassisSerial(s) # None
    BY <1>1, <1>4, <2>2, <2>3, <2>4, Derived, TellKeeps DEF GetSystem
  <2>5. CASE ChassisSerial(s) = None
    <3>1. doing' = "ask manager" /\ UNCHANGED <<bmc, request, told, missed, expanding, walking>>
      BY <1>4, <2>2, <2>5 DEF GetSystem
    <3>2. ~missed => Served'
      BY <1>1, <2>3, <2>5, <3>1, Derived, SameBmc DEF IInv, Served
    <3> QED
      BY <1>1, <2>1, <3>1, <3>2, Moves
  <2> QED
    BY <2>4, <2>5
<1> QED
  BY <1>2, <1>3, <1>4

LEMMA HaveManagerKeeps == ASSUME IInv, HaveManager PROVE IInv'
<1>1. /\ doing = "manager" /\ bmc # None /\ answer["handler"] # None /\ TypeOK
      /\ Tell(<<"digest", answer["handler"].manager>>)
  BY DEF HaveManager, IInv, Apart
<1>2. PICK manager \in Managers : manager = answer["handler"].manager
  BY <1>1 DEF TypeOK, Walk!TypeOK, Walk!Ids
<1>3. <<"digest", manager>> \in Sources
  BY DEF Sources
<1>4. ASSUME ~missed, request.resource = "Chassis" \/ request.system = Machine
      PROVE  <<"digest", manager>> = Serial
  <2>1. answer["handler"] = MachineIds /\ Bare
    BY <1>1, <1>4 DEF IInv, Truthful, Served
  <2> QED
    BY <1>2, <2>1 DEF MachineIds, Bare, Serial
<1> QED
  BY <1>1, <1>2, <1>3, <1>4, TellKeeps

LEMMA AskKeeps ==
    ASSUME IInv, NEW resource \in {"Systems", "Chassis"}, NEW s \in Systems, Ask(resource, s)
    PROVE  IInv'
<1>1. /\ bmc # None /\ missed \in BOOLEAN
      /\ request' = [resource |-> resource, system |-> s] /\ doing' = "forward"
      /\ UNCHANGED <<bmc, told, missed, expanding, walking>> /\ doing = "idle"
  BY DEF IInv, TypeOK, Ask
<1>2. request' \in Asked
  BY <1>1 DEF Asked
<1>3. ~missed => Served'
  BY <1>1, SameBmc DEF IInv, Served
<1> QED
  BY <1>1, <1>2, <1>3, Moves

-----------------------------------------------------------------------------
(* The steps of the boot option.                                           *)

\* What a step of the boot option has to establish.
LEMMA Expands ==
    ASSUME IInv, bmc = None, UNCHANGED <<bmc, told, missed, walking>>,
           doing' \in {"idle", "list", "members", "option"},
           request' \in Asked \cup {[resource |-> "BootOptions", system |-> None], None},
           members' \in Seq(Listed), left_over' \in Seq(Listed),
           collection' \in Seq([nic: Nics, fields: BOOLEAN]),
           broken' \in BOOLEAN, Expanding'
    PROVE  IInv'
<1>1. UNCHANGED <<cache, pc, listed, left, found, answer, heard, walks, calls>>
  BY DEF walking
<1>2. Walk!TypeOK'
  BY <1>1 DEF IInv, TypeOK, Walk!TypeOK
<1>3. TypeOK'
  BY <1>2 DEF IInv, TypeOK
<1>4. Apart'
  BY <1>1 DEF IInv, Apart
<1> QED
  BY <1>3, <1>4 DEF IInv

\* What is at hand while the collection is read.
LEMMA Read ==
    ASSUME IInv, doing \in {"list", "members"}
    PROVE  /\ bmc = None
           /\ request \in Asked \cup {[resource |-> "BootOptions", system |-> None], None}
           /\ members \in Seq(Listed) /\ left_over \in Seq(Listed)
           /\ collection \in Seq([nic: Nics, fields: BOOLEAN]) /\ broken \in BOOLEAN /\ ~broken
           /\ <<>> \in Seq(Listed) /\ <<>> \in Seq([nic: Nics, fields: BOOLEAN])
<1>1. <<>> \in Seq(Listed) /\ <<>> \in Seq([nic: Nics, fields: BOOLEAN])
  OBVIOUS
<1> QED
  BY <1>1 DEF IInv, TypeOK, Apart, Expanding

\* A listing none of whose members lacks its fields is returned as it is.
LEMMA ListKeeps ==
    ASSUME IInv, NEW n \in 0 .. MaxNics, NEW listing \in [1 .. n -> Listed], List(listing)
    PROVE  IInv'
<1>1. /\ doing = "list" /\ members' = listing
      /\ UNCHANGED <<bmc, request, told, missed, broken, walking>>
  BY DEF List
<1>2. /\ bmc = None /\ request \in Asked \cup {[resource |-> "BootOptions", system |-> None], None}
      /\ ~broken /\ broken \in BOOLEAN /\ collection = <<>>
      /\ collection \in Seq([nic: Nics, fields: BOOLEAN]) /\ <<>> \in Seq(Listed)
  BY <1>1, Read DEF IInv, Expanding
<1>3. listing \in Seq(Listed) /\ DOMAIN listing = 1 .. Len(listing) /\ Len(listing) \in Nat
  BY InventoryAssumption
<1>4. CASE AllExpanded(listing)
  <2>1. PICK nics : nics = [i \in DOMAIN listing |-> AsListed(listing[i])]
    OBVIOUS
  <2>2. doing' = "option" /\ collection' = nics /\ left_over' = <<>>
    BY <1>4, <2>1 DEF List, Return
  <2>3. \A i \in DOMAIN listing : AsListed(listing[i]) = Fetched(listing[i])
    BY <1>4 DEF AllExpanded, AsListed, Fetched
  <2>4. nics = [i \in DOMAIN listing |-> Fetched(listing[i])]
    BY <2>1, <2>3
  <2>5. \A i \in DOMAIN listing : AsListed(listing[i]) \in [nic: Nics, fields: BOOLEAN]
    BY DEF AsListed, Listed
  <2>6. nics \in Seq([nic: Nics, fields: BOOLEAN])
    BY <1>3, <2>1, <2>5
  <2>7. Expanding'
    BY <1>1, <1>2, <2>2, <2>4 DEF Expanding, ExpandedWhole, Fetched
  <2> QED
    BY <1>1, <1>2, <1>3, <2>2, <2>6, <2>7, Expands
<1>5. CASE ~AllExpanded(listing)
  <2>1. doing' = "members" /\ left_over' = listing /\ UNCHANGED collection
    BY <1>5 DEF List
  <2>2. listing # <<>>
    BY <1>5 DEF AllExpanded
  <2>3. Expanding'
    BY <1>1, <1>2, <1>3, <2>1, <2>2 DEF Expanding, ExpandedWhole
  <2> QED
    BY <1>1, <1>2, <1>3, <2>1, <2>3, Expands
<1> QED
  BY <1>4, <1>5

LEMMA BrokenKeeps ==
    ASSUME IInv, ListFails \/ FetchFails
    PROVE  IInv'
<1>1. /\ doing \in {"list", "members"} /\ doing' = "option"
      /\ collection' = <<>> /\ left_over' = <<>> /\ broken' = TRUE
      /\ UNCHANGED <<bmc, request, told, missed, members, walking>>
  BY DEF ListFails, FetchFails, Broken, Return
<1>2. Expanding'
  BY <1>1 DEF Expanding, ExpandedWhole
<1> QED
  BY <1>1, <1>2, Read, Expands

\* One more member, and it is the next.
LEMMA FetchKeeps == ASSUME IInv, Fetch PROVE IInv'
<1>1. /\ doing = "members"
      /\ UNCHANGED <<bmc, request, told, missed, members, broken, walking>>
  BY DEF Fetch
<1>2. PICK all \in Seq(Listed), rest \in Seq(Listed), had \in Seq([nic: Nics, fields: BOOLEAN]) :
        all = members /\ rest = left_over /\ had = collection
  BY <1>1, Read
<1>3. PICK nics : nics = Append(had, Fetched(Head(rest)))
  OBVIOUS
<1>4. IF Len(rest) = 1
      THEN doing' = "option" /\ collection' = nics /\ left_over' = <<>>
      ELSE collection' = nics /\ left_over' = Tail(rest) /\ doing' = "members"
  BY <1>1, <1>2, <1>3 DEF Fetch, Return
<1>5. /\ rest # <<>> /\ Len(had) + Len(rest) = Len(all)
      /\ \A i \in 1 .. Len(had) : had[i] = Fetched(all[i])
      /\ \A i \in 1 .. Len(rest) : rest[i] = all[Len(had) + i]
  <2>1. /\ rest # <<>> /\ Len(had) + Len(rest) = Len(all)
        /\ \A i \in DOMAIN had : had[i] = Fetched(all[i])
        /\ \A i \in DOMAIN rest : rest[i] = all[Len(had) + i]
    BY <1>1, <1>2 DEF IInv, Expanding
  <2>2. DOMAIN had = 1 .. Len(had) /\ DOMAIN rest = 1 .. Len(rest)
    OBVIOUS
  <2> QED
    BY <2>1, <2>2
<1>6. /\ Len(had) \in Nat /\ Len(rest) \in Nat /\ Len(rest) >= 1 /\ Len(all) \in Nat
      /\ Head(rest) = rest[1] /\ Head(rest) \in Listed
  BY <1>5
<1>7. Head(rest) = all[Len(had) + 1]
  BY <1>5, <1>6
<1>8. Fetched(Head(rest)) \in [nic: Nics, fields: BOOLEAN]
  BY <1>6 DEF Fetched, Listed
<1>9. /\ nics \in Seq([nic: Nics, fields: BOOLEAN]) /\ Len(nics) = Len(had) + 1
      /\ \A i \in 1 .. Len(had) : nics[i] = had[i]
      /\ nics[Len(had) + 1] = Fetched(Head(rest))
  BY <1>3, <1>8
<1>10. ASSUME NEW i \in 1 .. Len(nics) PROVE nics[i] = Fetched(all[i])
  <2>1. CASE i \in 1 .. Len(had)
    BY <1>5, <1>9, <2>1
  <2>2. CASE i = Len(had) + 1
    BY <1>7, <1>9, <2>2
  <2> QED
    BY <1>6, <1>9, <2>1, <2>2
<1>11. CASE Len(rest) = 1
  <2>1. Len(nics) = Len(all) /\ DOMAIN all = 1 .. Len(all) /\ DOMAIN nics = 1 .. Len(nics)
    BY <1>5, <1>6, <1>9, <1>11
  <2>2. nics = [i \in DOMAIN all |-> Fetched(all[i])]
    BY <1>9, <1>10, <2>1
  <2>3. Expanding'
    BY <1>1, <1>2, <1>4, <1>11, <2>2, Read DEF Expanding, ExpandedWhole, Fetched
  <2> QED
    BY <1>1, <1>2, <1>4, <1>9, <1>11, <2>3, Read, Expands
<1>12. CASE Len(rest) # 1
  <2>1. /\ Tail(rest) \in Seq(Listed) /\ Len(Tail(rest)) = Len(rest) - 1
        /\ Len(rest) - 1 >= 1
    <3>1. Tail(rest) \in Seq(Listed) /\ Len(Tail(rest)) = Len(rest) - 1
      BY <1>5
    <3> QED
      BY <1>6, <1>12, <3>1
  <2>2. Tail(rest) # <<>> /\ Len(nics) + Len(Tail(rest)) = Len(all)
    <3>1. Tail(rest) # <<>>
      <4>1. PICK t \in Seq(Listed) : t = Tail(rest)
        BY <2>1
      <4>2. Len(t) >= 1
        BY <2>1, <4>1
      <4>3. t # <<>>
        BY <4>2
      <4> QED
        BY <4>1, <4>3
    <3> QED
      BY <1>5, <1>6, <1>9, <2>1, <3>1
  <2>3. ASSUME NEW i \in 1 .. Len(Tail(rest)) PROVE Tail(rest)[i] = all[Len(nics) + i]
    <3>1. i \in 1 .. Len(rest) - 1
      BY <2>1
    <3>2. Tail(rest)[i] = rest[i + 1]
      BY <1>6, <3>1
    <3>3. i + 1 \in 1 .. Len(rest) /\ Len(had) + (i + 1) = Len(nics) + i
      BY <1>6, <1>9, <3>1
    <3> QED
      BY <1>5, <3>2, <3>3
  <2>4. DOMAIN nics = 1 .. Len(nics) /\ DOMAIN Tail(rest) = 1 .. Len(Tail(rest))
    BY <1>9, <2>1
  <2>5. Expanding'
    BY <1>1, <1>2, <1>4, <1>10, <1>12, <2>2, <2>3, <2>4, Read
    DEF Expanding, ExpandedWhole, Fetched
  <2> QED
    BY <1>1, <1>2, <1>4, <1>9, <1>12, <2>1, <2>5, Read, Expands
<1> QED
  BY <1>11, <1>12

LEMMA AskOptionKeeps == ASSUME IInv, AskOption PROVE IInv'
<1>1. /\ bmc = None /\ doing = "idle" /\ doing' = "list"
      /\ request' = [resource |-> "BootOptions", system |-> None]
      /\ UNCHANGED <<bmc, told, missed, members, left_over, collection, broken, walking>>
  BY DEF AskOption, expanding
<1>2. Expanding'
  BY <1>1 DEF IInv, Expanding, ExpandedWhole
<1> QED
  BY <1>1, <1>2, Expands DEF IInv, TypeOK

-----------------------------------------------------------------------------
(* The invariant, and the theorems.                                        *)

LEMMA Initially == ASSUME Init PROVE IInv
<1>1. Walk!TypeOK
  <2>1. <<>> \in Seq(Systems)
    OBVIOUS
  <2>2. Walk!Unheard \in [Systems -> Hearings]
    BY DEF Walk!Unheard, Hearings
  <2>3. /\ listed \in [{"handler"} -> Seq(Systems)]
        /\ heard \in [{"handler"} -> [Systems -> Hearings]]
    BY <2>1, <2>2, Zenon DEF Init, Walk!Init
  <2>4. calls \in [{"handler"} -> 0 .. 2] /\ walks \in Nat
    BY DEF Init, Walk!Init
  <2> QED
    BY <2>3, <2>4 DEF Init, Walk!Init, Walk!TypeOK, Hearings
<1>2. <<>> \in Seq(Listed) /\ <<>> \in Seq([nic: Nics, fields: BOOLEAN])
  OBVIOUS
<1>3. TypeOK
  BY <1>1, <1>2 DEF Init, TypeOK
<1>4. pc["handler"] = "ready" /\ cache = None /\ answer["handler"] = None
  BY DEF Init, Walk!Init
<1>5. Apart /\ Walking /\ Truthful /\ Served /\ Expanding
  BY <1>4 DEF Init, Apart, Walking, Truthful, Served, Expanding, ExpandedWhole
<1> QED
  BY <1>3, <1>5 DEF IInv

LEMMA Stutters == ASSUME IInv, UNCHANGED vars PROVE IInv'
<1>1. /\ UNCHANGED <<bmc, doing, request, told, missed, members, left_over, collection, broken>>
      /\ UNCHANGED <<cache, pc, listed, left, found, answer, heard, walks, calls>>
  BY DEF vars, serving, expanding, walking
<1>2. Walk!TypeOK'
  BY <1>1 DEF IInv, TypeOK, Walk!TypeOK
<1>3. TypeOK' /\ Apart' /\ Expanding'
  BY <1>1, <1>2 DEF IInv, TypeOK, Apart, Expanding, ExpandedWhole
<1>4. bmc # None => Walking'
  BY <1>1 DEF IInv, Walking
<1>5. bmc # None /\ ~missed => Truthful' /\ Served'
  BY <1>1, SameBmc DEF IInv, Truthful, Served
<1> QED
  BY <1>1, <1>3, <1>4, <1>5 DEF IInv

LEMMA Inductive == ASSUME IInv, [Next]_vars PROVE IInv'
<1>1. ASSUME NEW resource \in {"Systems", "Chassis"}, NEW s \in Systems, Ask(resource, s)
      PROVE  IInv'
  BY <1>1, AskKeeps
<1>2. ASSUME ForwardFails \/ NoIds \/ GetSystemFails \/ AnswerOption PROVE IInv'
  BY <1>2, QuitKeeps DEF ForwardFails, NoIds, GetSystemFails, AnswerOption
<1>3. ASSUME NEW listing \in UNION {[1 .. n -> Listed] : n \in 0 .. MaxNics}, List(listing)
      PROVE  IInv'
  BY <1>3, ListKeeps
<1>4. ASSUME \/ AskIds \/ Probe \/ ProbeFails \/ Collections
             \/ ForwardSystem \/ ForwardChassis \/ HaveSystem \/ GetSystem \/ GetSystemRefused
             \/ HaveManager
      PROVE  IInv'
  BY <1>4, AskIdsKeeps, WalkKeeps, ForwardKeeps, GetSystemKeeps, HaveManagerKeeps
<1>5. ASSUME AskOption \/ ListFails \/ FetchFails \/ Fetch PROVE IInv'
  BY <1>5, AskOptionKeeps, BrokenKeeps, FetchKeeps
<1> QED
  BY <1>1, <1>2, <1>3, <1>4, <1>5, Stutters DEF Next

LEMMA Invariance == Spec => []IInv
<1>1. Init => IInv
  BY Initially
<1>2. IInv /\ [Next]_vars => IInv'
  BY Inductive
<1> QED
  BY <1>1, <1>2, PTL DEF Spec

\* Of any BMC, and whatever fails, the documents, the walk and the collection are
\* well formed, and a walk that probes has something left to probe.
THEOREM InventoryTypeCorrect == Spec => []TypeOK
<1>1. IInv => TypeOK
  BY DEF IInv
<1> QED
  BY <1>1, Invariance, PTL

\* For any BMC whatever, and however many times either is asked: Systems/{id} and
\* Chassis/{id} give the machine one serial, unless a failed GET was taken for
\* an answer.
THEOREM OneSerial == Spec => []SerialsAgree
<1>1. ASSUME IInv, ~missed PROVE Cardinality(told) <= 1
  <2>1. told = {} \/ told = {Serial}
    BY <1>1 DEF IInv, Apart, Served
  <2>2. Cardinality({}) = 0 /\ Cardinality({Serial}) = 1
    BY FS_EmptySet, FS_Singleton
  <2> QED
    BY <2>1, <2>2
<1>2. IInv => SerialsAgree
  BY <1>1 DEF SerialsAgree
<1> QED
  BY <1>2, Invariance, PTL

\* For collections of any length, whichever of their members the BMC expanded:
\* a script sees all of them, each with its fields, or none.
THEOREM AllOrNoMembers == Spec => []ExpandedWhole
<1>1. IInv => ExpandedWhole
  BY DEF IInv, Expanding
<1> QED
  BY <1>1, Invariance, PTL
=============================================================================
