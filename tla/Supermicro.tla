----------------------------- MODULE Supermicro -----------------------------
(***************************************************************************)
(* The supermicro scripts that keep state: the lockdown triple, secure     *)
(* boot, the boot order and the UEFI password flag in the store, the boot  *)
(* override on the BMC, and the factory reset that clears the first kind.  *)
(*                                                                         *)
(* Handlers run beside each other on the runtime's threads.  Each touches  *)
(* the store at most once between two awaits, and StoreIsLinearizable      *)
(* makes one store call atomic, so one action is one such stretch; of the  *)
(* handlers here only those that call bmc::patch await at all.  JSON true  *)
(* and false are "true" and "false", a body that is missing, is not JSON   *)
(* or has the wrong type is "garbled".                                     *)
(***************************************************************************)
EXTENDS Naturals, Sequences, FiniteSets, Functions

CONSTANTS
    Clients,       \* the callers of the proxy, one exchange each at a time
    Admin,         \* the one that locks and unlocks the machine
    Manager,       \* the manager whose triple that is
    Members,       \* manager and system ids callers put in a path
    Orders,        \* boot orders a caller may write, <<>> among them
    BmcOrder,      \* what the BMC reports in Boot/BootOrder, <<>> for none
    MaxKeys,       \* MAX_KEYS of the store
    MaxRestarts,   \* bound: restarts of the proxy in one behaviour
    None

ASSUME SupermicroAssumption ==
    /\ Admin \in Clients
    /\ Manager \in Members
    /\ MaxKeys \in Nat /\ MaxRestarts \in Nat
    /\ None \notin Orders /\ None \notin {"locked", "unlocked"}

VARIABLES
    store,     \* the store's entries, a function on the keys it holds
    override,  \* per member: the BMC holds a boot override
    pc,        \* per client: "idle", "received", "patching" or "answered"
    req,       \* per client: its request, or None
    status,    \* per client: the status it was answered, 0 for none
    applied,   \* history, per client: the BMC applied this request's override
    plan,      \* the writes the admin still has to make
    goal,      \* what the admin's last sequence is for, or None
    disturbed, \* history: another write or a restart since that one began
    restarts

admin == <<plan, goal, disturbed>>
vars == <<store, override, pc, req, status, applied, admin, restarts>>

-----------------------------------------------------------------------------
(* Resources and requests.                                                 *)

Settings == {"SysLockdown", "KCSInterface", "HostInterface", "SecureBoot", "ChangePassword"}

\* One for the machine, whatever system the path names.
UefiPasswordSet == <<"supermicro", "UefiPasswordSet">>

\* Mutant: two scripts of one manager share a key.
KeyOfColliding(resource, member) ==
    IF resource \in {"SysLockdown", "HostInterface"} THEN <<"supermicro", member, "Enabled">>
    ELSE IF resource = "KCSInterface" THEN <<"supermicro", member, "KCSPrivilege">>
    ELSE IF resource = "SecureBoot" THEN <<"supermicro", member, "SecureBootEnable">>
    ELSE IF resource = "BootOrder" THEN <<"supermicro", member, "BootOrder">>
    ELSE UefiPasswordSet

\* Mutant: a key the reset's prefix does not reach.
KeyOfOutside(resource, member) ==
    IF resource = "SysLockdown" THEN <<"supermicro", member, "SysLockdownEnabled">>
    ELSE IF resource = "KCSInterface" THEN <<"supermicro", member, "KCSPrivilege">>
    ELSE IF resource = "HostInterface" THEN <<"supermicro", member, "1", "HostInterfaceEnabled">>
    ELSE IF resource = "SecureBoot" THEN <<"supermicro", member, "SecureBootEnable">>
    ELSE IF resource = "BootOrder" THEN <<"supermicro", member, "BootOrder">>
    ELSE <<"uefi", "UefiPasswordSet">>

\* The key templates of the scripts.
KeyOf(resource, member) ==
    IF resource = "SysLockdown" THEN <<"supermicro", member, "SysLockdownEnabled">>
    ELSE IF resource = "KCSInterface" THEN <<"supermicro", member, "KCSPrivilege">>
    ELSE IF resource = "HostInterface" THEN <<"supermicro", member, "1", "HostInterfaceEnabled">>
    ELSE IF resource = "SecureBoot" THEN <<"supermicro", member, "SecureBootEnable">>
    ELSE IF resource = "BootOrder" THEN <<"supermicro", member, "BootOrder">>
    ELSE UefiPasswordSet

\* What a script accepts for its resource; anything else is a 400, or a 502 if
\* it was declared JSON and cannot be parsed.
Legal(resource) ==
    IF resource = "KCSInterface" THEN {"Administrator", "Operator", "User", "Callback"}
    ELSE IF resource = "ChangePassword" THEN {"true"}
    ELSE {"true", "false"}

StoredOr(resource, member, fallback) ==
    IF KeyOf(resource, member) \in DOMAIN store
    THEN store[KeyOf(resource, member)]
    ELSE fallback

\* The three reads that must agree, with the defaults get_or answers.
SysLockdownEnabled == StoredOr("SysLockdown", Manager, "false")
Privilege == StoredOr("KCSInterface", Manager, "Administrator")
InterfaceEnabled == StoredOr("HostInterface", Manager, "true")

Triple == <<SysLockdownEnabled, Privilege, InterfaceEnabled>>

StubOrder == <<"Boot0000", "Boot0001">>

\* Boot/BootOrder as Systems/{id} serves it.
RunningOrder(system) ==
    StoredOr("BootOrder", system, IF BmcOrder # <<>> THEN BmcOrder ELSE StubOrder)

WriteOf(resource, member, value) ==
    [do |-> "write", resource |-> resource, member |-> member, value |-> value]

Writes ==
    {WriteOf(r, m, v) : r \in Settings, m \in Members,
                        v \in {"true", "false", "Administrator", "Callback", "garbled"}}

\* A PATCH of a Boot object: an order or None, and whether it has a
\* BootSourceOverride field.
Boots ==
    [do: {"boot"}, resource: {"Systems", "Settings"}, member: Members,
     order: Orders \cup {None}, override: BOOLEAN]

Resets == {[do |-> "reset"]}

Init ==
    /\ store = [k \in {} |-> None]
    /\ override = [m \in Members |-> FALSE]
    /\ pc = [c \in Clients |-> "idle"]
    /\ req = [c \in Clients |-> None]
    /\ status = [c \in Clients |-> 0]
    /\ applied = [c \in Clients |-> FALSE]
    /\ plan = <<>> /\ goal = None /\ disturbed = FALSE
    /\ restarts = 0

-----------------------------------------------------------------------------
(* The callers.  The admin's order of writes is the one the lockdown       *)
(* contract test issues, and its reverse to unlock.                        *)

Sequence(what) ==
    IF what = "locked"
    THEN <<WriteOf("HostInterface", Manager, "false"),
           WriteOf("KCSInterface", Manager, "Callback"),
           WriteOf("SysLockdown", Manager, "true")>>
    ELSE <<WriteOf("SysLockdown", Manager, "false"),
           WriteOf("KCSInterface", Manager, "Administrator"),
           WriteOf("HostInterface", Manager, "true")>>

TripleOf(what) ==
    IF what = "locked" THEN <<"true", "Callback", "false">> ELSE <<"false", "Administrator", "true">>

Send(c, r) ==
    /\ pc[c] = "idle"
    /\ pc' = [pc EXCEPT ![c] = "received"]
    /\ req' = [req EXCEPT ![c] = r]
    /\ UNCHANGED <<store, override, status, applied, restarts>>

Request(c) ==
    /\ c # Admin
    /\ \E r \in Writes \cup Boots \cup Resets : Send(c, r)
    /\ UNCHANGED admin

Begin(what) ==
    /\ pc[Admin] = "idle" /\ plan = <<>>
    /\ plan' = Tail(Sequence(what))
    /\ goal' = what
    /\ disturbed' = FALSE
    /\ Send(Admin, Head(Sequence(what)))

Continue ==
    /\ pc[Admin] = "idle" /\ plan # <<>>
    /\ plan' = Tail(plan)
    /\ Send(Admin, Head(plan))
    /\ UNCHANGED <<goal, disturbed>>

\* The exchange is over; the admin gives a sequence up when a write failed.
Leave(c) ==
    /\ pc[c] = "answered"
    /\ pc' = [pc EXCEPT ![c] = "idle"]
    /\ req' = [req EXCEPT ![c] = None]
    /\ status' = [status EXCEPT ![c] = 0]
    /\ applied' = [applied EXCEPT ![c] = FALSE]
    /\ IF c = Admin /\ status[c] # 204
       THEN plan' = <<>> /\ goal' = None /\ UNCHANGED disturbed
       ELSE UNCHANGED admin
    /\ UNCHANGED <<store, override, restarts>>

-----------------------------------------------------------------------------
(* The handlers.                                                           *)

Answer(c, code) ==
    /\ pc' = [pc EXCEPT ![c] = "answered"]
    /\ status' = [status EXCEPT ![c] = code]

\* store::set refuses a new key once MAX_KEYS are held, and the `?` after it
\* fails the handler.
Full(key) == key \notin DOMAIN store /\ Cardinality(DOMAIN store) >= MaxKeys

Put(key, value) ==
    store' = [k \in DOMAIN store \cup {key} |-> IF k = key THEN value ELSE store[k]]

Disturb(c) == disturbed' = (disturbed \/ c # Admin)

\* Mutant: the handlers store what they are sent.
WriteUnchecked(c) ==
    /\ pc[c] = "received" /\ req[c].do = "write"
    /\ ~Full(KeyOf(req[c].resource, req[c].member))
    /\ Put(KeyOf(req[c].resource, req[c].member), req[c].value)
    /\ Answer(c, 204)
    /\ Disturb(c)
    /\ UNCHANGED <<override, req, applied, plan, goal, restarts>>

\* sys_lockdown, kcs_interface, host_interface, secure_boot, bios_change_password
WriteSetting(c) ==
    /\ pc[c] = "received" /\ req[c].do = "write"
    /\ LET key == KeyOf(req[c].resource, req[c].member)
       IN  \/ /\ req[c].value \notin Legal(req[c].resource)
              /\ \E code \in {400, 502} : Answer(c, code)
              /\ UNCHANGED <<store, disturbed>>
           \/ /\ req[c].value \in Legal(req[c].resource)
              /\ Full(key)
              /\ Answer(c, 502) /\ UNCHANGED <<store, disturbed>>
           \/ /\ req[c].value \in Legal(req[c].resource)
              /\ ~Full(key)
              /\ Put(key, req[c].value)
              /\ Answer(c, 204)
              /\ Disturb(c)
    /\ UNCHANGED <<override, req, applied, plan, goal, restarts>>

\* smc_manager_config_reset: remove_prefix("supermicro/")
ConfigReset(c) ==
    /\ pc[c] = "received" /\ req[c].do = "reset"
    /\ store' = Restrict(store, {k \in DOMAIN store : k[1] # "supermicro"})
    /\ Answer(c, 204)
    /\ Disturb(c)
    /\ UNCHANGED <<override, req, applied, plan, goal, restarts>>

\* systems and system_settings, up to bmc::patch: Systems keeps an order in the
\* store on the way, Settings drops it, and both are done if no field is left
\* for the BMC.  A full store fails the handler, as does a body it cannot read,
\* which holds nothing of either kind.
KeepsOrder(r) == r.resource = "Systems" /\ r.order # None

MayBeUnreadable(r) == r.order = None /\ ~r.override

PatchBoot(c) ==
    /\ pc[c] = "received" /\ req[c].do = "boot"
    /\ LET key == KeyOf("BootOrder", req[c].member)
       IN  \/ /\ (KeepsOrder(req[c]) /\ Full(key)) \/ MayBeUnreadable(req[c])
              /\ Answer(c, 502) /\ UNCHANGED store
           \/ /\ KeepsOrder(req[c]) => ~Full(key)
              /\ IF KeepsOrder(req[c]) THEN Put(key, req[c].order) ELSE UNCHANGED store
              /\ IF req[c].override
                 THEN pc' = [pc EXCEPT ![c] = "patching"] /\ UNCHANGED status
                 ELSE Answer(c, 204)
    /\ UNCHANGED <<override, req, applied, admin, restarts>>

Override(c) ==
    /\ override' = [override EXCEPT ![req[c].member] = TRUE]
    /\ applied' = [applied EXCEPT ![c] = TRUE]

\* bmc::patch returns: the BMC accepted, and its status is passed on ...
Accepted(c) ==
    /\ pc[c] = "patching"
    /\ Override(c)
    /\ Answer(c, 204)
    /\ UNCHANGED <<store, req, admin, restarts>>

\* Mutant: a 204 whatever bmc::patch answered.
RefusedAsSuccess(c) ==
    /\ pc[c] = "patching"
    /\ Answer(c, 204)
    /\ UNCHANGED <<store, override, req, applied, admin, restarts>>

\* ... or refused, with or without a body, and its status is passed on ...
Refused(c) ==
    /\ pc[c] = "patching"
    /\ Answer(c, 500)
    /\ UNCHANGED <<store, override, req, applied, admin, restarts>>

\* ... or fails: nothing was sent, or the answer was lost after the BMC acted.
PatchFails(c) ==
    /\ pc[c] = "patching"
    /\ Override(c) \/ UNCHANGED <<override, applied>>
    /\ Answer(c, 502)
    /\ UNCHANGED <<store, req, admin, restarts>>

\* The caller hangs up, which drops the handler where it waits; the BMC may
\* still act on what it was sent.
HangUp(c) ==
    /\ pc[c] = "patching"
    /\ Override(c) \/ UNCHANGED <<override, applied>>
    /\ Answer(c, 0)
    /\ UNCHANGED <<store, req, admin, restarts>>

\* The proxy stops and starts again: the store is gone and every exchange cut,
\* but the BMC stays, and may act on what it was sent.
Restart ==
    /\ restarts < MaxRestarts
    /\ \E sent \in SUBSET {c \in Clients : pc[c] = "patching"} :
         override' = [m \in Members |-> override[m] \/ \E c \in sent : req[c].member = m]
    /\ restarts' = restarts + 1
    /\ store' = [k \in {} |-> None]
    /\ pc' = [c \in Clients |-> IF pc[c] = "idle" THEN "idle" ELSE "answered"]
    /\ status' = [c \in Clients |-> IF pc[c] = "answered" THEN status[c] ELSE 0]
    /\ disturbed' = TRUE
    /\ UNCHANGED <<req, applied, plan, goal>>

Next ==
    \/ \E c \in Clients :
         \/ Request(c)
         \/ Leave(c)
         \/ WriteSetting(c)
         \/ ConfigReset(c)
         \/ PatchBoot(c)
         \/ Accepted(c)
         \/ Refused(c)
         \/ PatchFails(c)
         \/ HangUp(c)
    \/ \E what \in {"locked", "unlocked"} : Begin(what)
    \/ Continue
    \/ Restart

Spec == Init /\ [][Next]_vars

-----------------------------------------------------------------------------

Keys == {KeyOf(r, m) : r \in Settings \cup {"BootOrder"}, m \in Members}

TypeOK ==
    /\ DOMAIN store \subseteq Keys
    /\ \A r \in Settings, m \in Members :
         KeyOf(r, m) \in DOMAIN store => store[KeyOf(r, m)] \in Legal(r)
    /\ \A m \in Members :
         KeyOf("BootOrder", m) \in DOMAIN store => store[KeyOf("BootOrder", m)] \in Orders
    /\ override \in [Members -> BOOLEAN]
    /\ pc \in [Clients -> {"idle", "received", "patching", "answered"}]
    /\ req \in [Clients -> Writes \cup Boots \cup Resets \cup {None}]
    /\ \A c \in Clients : pc[c] # "idle" => req[c] \in Writes \cup Boots \cup Resets
    /\ status \in [Clients -> {0, 204, 400, 500, 502}]
    /\ applied \in [Clients -> BOOLEAN]
    /\ plan \in Seq(Writes)
    /\ goal \in {"locked", "unlocked", None}
    /\ disturbed \in BOOLEAN
    /\ restarts \in 0 .. MaxRestarts

\* Whatever state the machine was left in, half locked by a restart or by
\* another caller included, a lock or unlock sequence that ran to its end with
\* every write acknowledged and nobody else writing leaves the three reads in
\* the one combination its caller waits for.
SequenceTakesEffect ==
    goal # None /\ plan = <<>> /\ pc[Admin] \in {"idle", "answered"}
      /\ (pc[Admin] = "answered" => status[Admin] = 204)
      /\ ~disturbed
    => Triple = TripleOf(goal)

\* "Reporting 204 would claim the write landed": an override is acknowledged
\* only if the BMC applied it, whatever the BMC or the connection does.
NoFalseSuccess ==
    \A c \in Clients :
        pc[c] = "answered" /\ status[c] = 204 /\ req[c].do = "boot" =>
            (req[c].override => applied[c])

\* A factory reset drops everything the scripts ever stored, so that it also
\* makes room in a store that had refused a write.
ResetForgets == [][\A c \in Clients : ConfigReset(c) => store' = [k \in {} |-> None]]_vars

\* "Non-empty either way, because an empty order sends a client down the OEM
\* fixed-boot-order path" (systems.rn).
OrderNonEmpty == \A m \in Members : RunningOrder(m) # <<>>
=============================================================================
