------------------------------ MODULE Inventory ------------------------------
(***************************************************************************)
(* What the supermicro scripts read off a BMC to answer one document: the  *)
(* serial of the machine, which Systems/{id} and Chassis/{id} each derive  *)
(* for itself (systems.rn, chassis.rn), and the collection that a boot     *)
(* option reads a MAC out of (boot_option.rn, expand_collection).          *)
(*                                                                         *)
(* The handlers compose with the walk of ResolveIds, of which they are the *)
(* one fiber.  The BMC has a state, which does not change; any GET of it   *)
(* may fail.  A serial is the source it comes from: the system's own, its  *)
(* UUID, or a digest of the address and a manager.                         *)
(***************************************************************************)
EXTENDS Naturals, Sequences, FiniteSets, SequencesExt

CONSTANTS
    Systems, System0, Managers, None, MaxListed,    \* as in ResolveIds
    Nics,       \* the ethernet interfaces of a system
    MaxNics     \* bound: the length of an EthernetInterfaces collection

VARIABLES
    bmc,        \* what the BMC holds, None where only its interfaces are read
    doing,      \* where the handler is, "idle" between two requests
    request,    \* the resource and the system it was asked for, or None
    told,       \* history: the serials the machine was given in answers
    missed,     \* history: a failed GET was taken for an answer
    members,    \* Members, as the collection listed them
    left_over,  \* those expand_collection has yet to fetch
    collection, \* what it has fetched, or returned
    broken,     \* history: the collection or a member of it was not read
    cache, pc, listed, left, found, answer, heard, walks, calls    \* ResolveIds

Walk == INSTANCE ResolveIds WITH Fibers <- {"handler"}, MaxCalls <- 2

ASSUME InventoryAssumption ==
    /\ None \notin Systems \cup Managers \cup Walk!Ids
    /\ None \notin {"serial", "uuid"} \X Systems
    /\ MaxListed \in Nat /\ MaxNics \in Nat

walking == <<cache, pc, listed, left, found, answer, heard, walks, calls>>
expanding == <<members, left_over, collection, broken>>
serving == <<doing, request, told, missed>>
vars == <<bmc, serving, expanding, walking>>

Documents == [has: SUBSET {"serial", "uuid"}, bios: BOOLEAN, manager: Managers \cup {None}]

Bmcs ==
    [listed: {s \in Walk!Listings : IsInjective(s)},
     systems: [Systems -> Documents],
     manager: Managers \cup {None}]    \* the first of its collection

\* A member as the collection lists it: with fields of its own or with nothing
\* but @odata keys, and with a link that names a path or does not.
Listed == [nic: Nics, fields: BOOLEAN, linked: BOOLEAN]

\* Bound: a serial and a boot option read nothing in common, so a BMC is asked
\* for the ones or for the others.
Init ==
    /\ bmc \in Bmcs \cup {None}
    /\ doing = "idle" /\ request = None
    /\ told = {} /\ missed = FALSE
    /\ members = <<>> /\ left_over = <<>> /\ collection = <<>> /\ broken = FALSE
    /\ Walk!Init

\* The context of the request goes with the handler.
Over ==
    /\ doing' = "idle" /\ request' = None
    /\ members' = <<>> /\ left_over' = <<>> /\ collection' = <<>> /\ broken' = FALSE
    /\ cache' = None /\ answer' = [answer EXCEPT !["handler"] = None]
    /\ pc' = [pc EXCEPT !["handler"] = "ready"]
    /\ listed' = [listed EXCEPT !["handler"] = <<>>]
    /\ left' = [left EXCEPT !["handler"] = {}]
    /\ found' = [found EXCEPT !["handler"] = None]
    /\ heard' = [heard EXCEPT !["handler"] = Walk!Unheard]
    /\ walks' = 0 /\ calls' = [calls EXCEPT !["handler"] = 0]

\* The system that a well-behaved walk would choose (see WalkFindsTheHost).
Machine ==
    LET hosts == {i \in Walk!ProbeOrder(bmc.listed) : bmc.systems[Walk!At(bmc.listed, i)].bios}
    IN  IF bmc.listed = <<>> THEN None
        ELSE Walk!At(bmc.listed, IF hosts = {} THEN 0 ELSE Min(hosts))

-----------------------------------------------------------------------------
(* The serial.                                                             *)

Ask(resource, system) ==
    /\ doing = "idle" /\ bmc # None
    /\ doing' = "forward"
    /\ request' = [resource |-> resource, system |-> system]
    /\ UNCHANGED <<bmc, told, missed, expanding, walking>>

\* An error, or a reply that is not 2xx JSON, which is handed back as it is.
Quit == Over /\ UNCHANGED <<bmc, told, missed>>

\* The answer, with a serial in it.
Tell(serial) ==
    /\ told' = IF request.resource = "Chassis" \/ request.system = Machine
               THEN told \cup {serial} ELSE told
    /\ Over
    /\ UNCHANGED <<bmc, missed>>

ForwardFails == doing = "forward" /\ Quit

\* derive_serial of systems.rn looks at the document once the serial is blank.
SystemDerived(s) == IF "uuid" \in bmc.systems[s].has THEN <<"uuid", s>> ELSE None

SystemSerial(s) == IF "serial" \in bmc.systems[s].has THEN <<"serial", s>> ELSE SystemDerived(s)

\* Systems/{id}: its own document, forwarded.
ForwardSystem ==
    /\ doing = "forward" /\ request.resource = "Systems"
    /\ IF SystemSerial(request.system) # None
       THEN Tell(SystemSerial(request.system))
       ELSE /\ doing' = "ask manager"
            /\ UNCHANGED <<bmc, request, told, missed, expanding, walking>>

\* Chassis/{id}: the serial in it is never looked at.
ForwardChassis ==
    /\ doing = "forward" /\ request.resource = "Chassis"
    /\ doing' = "ask system"
    /\ UNCHANGED <<bmc, request, told, missed, expanding, walking>>

\* bmc::system_id() or bmc::manager_id() begins; a cached answer is at hand.
AskIds ==
    /\ doing \in {"ask system", "ask manager"}
    /\ doing' = IF doing = "ask system" THEN "system" ELSE "manager"
    /\ Walk!Ask("handler")
    /\ UNCHANGED <<bmc, request, told, missed, expanding>>

\* The next GET of the walk, answered out of what the BMC holds.
Probe ==
    /\ pc["handler"] = "probe"
    /\ LET asked == bmc.systems[Walk!Probed("handler")]
       IN  \/ ~asked.bios /\ Walk!ProbeMisses("handler", "no bios")
           \/ asked.bios /\ asked.manager = None /\ Walk!ProbeFinds("handler")
           \/ asked.bios /\ asked.manager # None /\ Walk!ProbeNames("handler", asked.manager)
    /\ UNCHANGED <<bmc, serving, expanding>>

\* "A failed fetch just means not this one".
ProbeFails ==
    /\ Walk!ProbeMisses("handler", "failed")
    /\ missed' = TRUE
    /\ UNCHANGED <<bmc, doing, request, told, expanding>>

\* The two collections; a failure of either is an error of the call.
Collections ==
    /\ pc["handler"] \in {"systems", "managers"}
    /\ \/ Walk!ReadSystems("handler", bmc.listed)
       \/ Walk!NoSystems("handler")
       \/ bmc.manager # None /\ Walk!ReadManagers("handler", bmc.manager)
       \/ Walk!NoManagers("handler")
    /\ UNCHANGED <<bmc, serving, expanding>>

NoIds ==
    /\ doing \in {"system", "manager"} /\ pc["handler"] = "done"
    /\ answer["handler"] = None
    /\ Quit

HaveSystem ==
    /\ doing = "system" /\ pc["handler"] = "done"
    /\ answer["handler"] # None
    /\ doing' = "get system"
    /\ UNCHANGED <<bmc, request, told, missed, expanding, walking>>

\* Mutant: the UUID before the serial.
ChassisSerialByUuid(s) ==
    IF "uuid" \in bmc.systems[s].has THEN <<"uuid", s>>
    ELSE IF "serial" \in bmc.systems[s].has THEN <<"serial", s>> ELSE None

\* derive_serial of chassis.rn, of the system it fetched.
ChassisSerial(s) ==
    IF "serial" \in bmc.systems[s].has THEN <<"serial", s>>
    ELSE IF "uuid" \in bmc.systems[s].has THEN <<"uuid", s>> ELSE None

GetSystem ==
    /\ doing = "get system"
    /\ LET serial == ChassisSerial(answer["handler"].system)
       IN  IF serial # None
           THEN Tell(serial)
           ELSE /\ doing' = "ask manager"
                /\ UNCHANGED <<bmc, request, told, missed, expanding, walking>>

\* No reply is an error; a reply that is not 2xx JSON is a system without either.
GetSystemFails == doing = "get system" /\ Quit

GetSystemRefused ==
    /\ doing = "get system"
    /\ doing' = "ask manager"
    /\ missed' = TRUE
    /\ UNCHANGED <<bmc, request, told, expanding, walking>>

HaveManager ==
    /\ doing = "manager" /\ pc["handler"] = "done"
    /\ answer["handler"] # None
    /\ Tell(<<"digest", answer["handler"].manager>>)

-----------------------------------------------------------------------------
(* The boot option.                                                        *)

AskOption ==
    /\ doing = "idle" /\ bmc = None
    /\ doing' = "list"
    /\ request' = [resource |-> "BootOptions", system |-> None]
    /\ UNCHANGED <<bmc, told, missed, expanding, walking>>

\* The collection that bmc::expand_or_empty returns is at hand.
Return(nics) == doing' = "option" /\ collection' = nics /\ left_over' = <<>>

\* Mutant: one member with fields is taken for an expanded collection.
SomeExpanded(listing) ==
    listing = <<>> \/ \E i \in DOMAIN listing : listing[i].fields

\* expanded_already: also of no members, and of no array of them.
AllExpanded(listing) == \A i \in DOMAIN listing : listing[i].fields

AsListed(member) == [nic |-> member.nic, fields |-> member.fields]

List(listing) ==
    /\ doing = "list"
    /\ members' = listing
    /\ IF AllExpanded(listing)
       THEN Return([i \in DOMAIN listing |-> AsListed(listing[i])])
       ELSE doing' = "members" /\ left_over' = listing /\ UNCHANGED collection
    /\ UNCHANGED <<bmc, request, told, missed, broken, walking>>

\* Whatever fails, expand_or_empty answers the empty collection.
Broken == Return(<<>>) /\ broken' = TRUE

ListFails ==
    /\ doing = "list"
    /\ Broken
    /\ UNCHANGED <<bmc, request, told, missed, members, walking>>

Fetched(member) == [nic |-> member.nic, fields |-> TRUE]

\* Mutant: a member without a usable link is kept as it was listed.
FetchOrKeep ==
    /\ doing = "members"
    /\ LET nics == Append(collection, IF Head(left_over).linked THEN Fetched(Head(left_over))
                                      ELSE AsListed(Head(left_over)))
       IN  IF Len(left_over) = 1
           THEN Return(nics)
           ELSE collection' = nics /\ left_over' = Tail(left_over) /\ UNCHANGED doing
    /\ UNCHANGED <<bmc, request, told, missed, members, broken, walking>>

Fetch ==
    /\ doing = "members"
    /\ Head(left_over).linked
    /\ LET nics == Append(collection, Fetched(Head(left_over)))
       IN  IF Len(left_over) = 1
           THEN Return(nics)
           ELSE collection' = nics /\ left_over' = Tail(left_over) /\ UNCHANGED doing
    /\ UNCHANGED <<bmc, request, told, missed, members, broken, walking>>

\* No @odata.id, one that is neither a URL nor a path, or a GET that fails.
FetchFails ==
    /\ doing = "members"
    /\ Broken
    /\ UNCHANGED <<bmc, request, told, missed, members, walking>>

AnswerOption ==
    /\ doing = "option"
    /\ Quit

Next ==
    \/ \E resource \in {"Systems", "Chassis"}, s \in Systems : Ask(resource, s)
    \/ ForwardFails
    \/ ForwardSystem
    \/ ForwardChassis
    \/ AskIds
    \/ Probe
    \/ ProbeFails
    \/ Collections
    \/ NoIds
    \/ HaveSystem
    \/ GetSystem
    \/ GetSystemFails
    \/ GetSystemRefused
    \/ HaveManager
    \/ AskOption
    \/ \E listing \in UNION {[1 .. n -> Listed] : n \in 0 .. MaxNics} : List(listing)
    \/ ListFails
    \/ Fetch
    \/ FetchFails
    \/ AnswerOption

Spec == Init /\ [][Next]_vars

-----------------------------------------------------------------------------

\* "The two scripts derive independently, so what matters is that they agree"
\* (e2e.rs): the machine, which Chassis finds by a walk and Systems/{id} by its
\* name, has one serial in all the answers of both, for as long as no failed GET
\* was taken for an answer; one that is passed on as an error does no harm.
SerialsAgree == ~missed => Cardinality(told) <= 1

\* Behind expand_or_empty a script sees every member in the BMC's order, each
\* with its fields, or no member at all: nothing in between, whichever of the
\* members the BMC expanded, and nothing only where something failed.
ExpandedWhole ==
    doing = "option" =>
        collection = IF broken THEN <<>> ELSE [i \in DOMAIN members |-> Fetched(members[i])]
=============================================================================
