----------------------------- MODULE ResolveIds -----------------------------
(***************************************************************************)
(* bmc::system_id() and bmc::manager_id() within one request               *)
(* (script_bmc.rs, resolve_ids): the walk over the BMC that decides which  *)
(* system and manager a script means, and the cache that spares the next   *)
(* call the walk.                                                          *)
(*                                                                         *)
(* A handler is one task, so its fibers (the branches of a Rune join or    *)
(* select) interleave at awaits only: each action below is what runs from  *)
(* one answer of the BMC to the next await.  The BMC owes no consistency   *)
(* between two GETs, and any of them may fail.                             *)
(***************************************************************************)
EXTENDS Naturals, Sequences, FiniteSetsExt, SequencesExt

CONSTANTS
    Fibers,       \* the branches of the handler that may ask at once
    Systems,      \* the ids a Systems collection may list
    System0,      \* "System_0", which is preferred wherever it is listed
    Managers,     \* the manager ids
    None,         \* not cached, not found, not named
    MaxListed,    \* bound: the length of a Systems collection
    MaxCalls      \* bound: calls per fiber

Ids == [system: Systems, manager: Managers]

ASSUME IdsAssumption ==
    /\ None \notin Systems \cup Managers \cup Ids
    /\ MaxListed \in Nat /\ MaxCalls \in Nat

VARIABLES
    cache,    \* RequestCtx::ids
    pc,       \* per fiber: "ready", "systems", "probe", "managers" or "done"
    listed,   \* per fiber: the Systems collection as this walk read it
    left,     \* per fiber: the positions this walk has yet to probe
    found,    \* per fiber: the system that carried a Bios, or None
    answer,   \* per fiber: the ids it was given, None after an error
    heard,    \* history, per fiber: what each probe of this walk answered
    walks,    \* history: the walks of this request that came to an end
    calls     \* per fiber: calls so far

walk == <<listed, left, found>>
vars == <<cache, pc, walk, answer, heard, walks, calls>>

Listings == UNION {[1 .. n -> Systems] : n \in 0 .. MaxListed}

\* .find(|id| *id == "System_0").or_else(|| systems.first())
Preferred(systems) == IF System0 \in ToSet(systems) THEN System0 ELSE Head(systems)

\* Mutant: the systems in the order the BMC lists them.
ProbeAsListed(systems) == DOMAIN systems

\* once(&preferred).chain(systems.iter().filter(|id| **id != preferred)), as the
\* positions it goes through: 0 for the preferred, then the others as listed.
ProbeOrder(systems) == {0} \cup {i \in DOMAIN systems : systems[i] # Preferred(systems)}

At(systems, i) == IF i = 0 THEN Preferred(systems) ELSE systems[i]

\* The system a walk probes next.
Probed(f) == At(listed[f], Min(left[f]))

Unheard == [s \in Systems |-> "unasked"]

Init ==
    /\ cache = None
    /\ pc = [f \in Fibers |-> "ready"]
    /\ listed = [f \in Fibers |-> <<>>]
    /\ left = [f \in Fibers |-> {}]
    /\ found = [f \in Fibers |-> None]
    /\ answer = [f \in Fibers |-> None]
    /\ heard = [f \in Fibers |-> Unheard]
    /\ walks = 0
    /\ calls = [f \in Fibers |-> 0]

Goto(f, where) == pc' = [pc EXCEPT ![f] = where]

\* The ids are returned; a walk also leaves them in the cache, whatever is
\* there by now.
Settle(f, ids) ==
    /\ cache' = ids
    /\ answer' = [answer EXCEPT ![f] = ids]
    /\ walks' = walks + 1
    /\ Goto(f, "done")

\* The `?` of a failed GET, or a collection with no members: nothing is cached.
GiveUp(f) ==
    /\ answer' = [answer EXCEPT ![f] = None]
    /\ Goto(f, "done")
    /\ UNCHANGED <<cache, walk, heard, walks, calls>>

\* Mutant: the cache is written and never read.
AskAgain(f) ==
    /\ pc[f] \in {"ready", "done"}
    /\ calls[f] < MaxCalls
    /\ calls' = [calls EXCEPT ![f] = @ + 1]
    /\ listed' = [listed EXCEPT ![f] = <<>>]
    /\ left' = [left EXCEPT ![f] = {}]
    /\ found' = [found EXCEPT ![f] = None]
    /\ heard' = [heard EXCEPT ![f] = Unheard]
    /\ answer' = [answer EXCEPT ![f] = None]
    /\ Goto(f, "systems")
    /\ UNCHANGED <<cache, walks>>

Ask(f) ==
    /\ pc[f] \in {"ready", "done"}
    /\ calls[f] < MaxCalls
    /\ calls' = [calls EXCEPT ![f] = @ + 1]
    /\ listed' = [listed EXCEPT ![f] = <<>>]
    /\ left' = [left EXCEPT ![f] = {}]
    /\ found' = [found EXCEPT ![f] = None]
    /\ heard' = [heard EXCEPT ![f] = Unheard]
    /\ answer' = [answer EXCEPT ![f] = cache]
    /\ Goto(f, IF cache # None THEN "done" ELSE "systems")
    /\ UNCHANGED <<cache, walks>>

\* GET /redfish/v1/Systems
ReadSystems(f, systems) ==
    /\ pc[f] = "systems"
    /\ systems # <<>>
    /\ listed' = [listed EXCEPT ![f] = systems]
    /\ left' = [left EXCEPT ![f] = ProbeOrder(systems)]
    /\ Goto(f, "probe")
    /\ UNCHANGED <<cache, found, answer, heard, walks, calls>>

NoSystems(f) == pc[f] = "systems" /\ GiveUp(f)

\* GET /redfish/v1/Systems/{id}: no Bios and no answer are the same to it.
ProbeMisses(f, how) ==
    /\ pc[f] = "probe"
    /\ heard' = [heard EXCEPT ![f][Probed(f)] = how]
    /\ left' = [left EXCEPT ![f] = @ \ {Min(@)}]
    /\ Goto(f, IF left[f] = {Min(left[f])} THEN "managers" ELSE "probe")
    /\ UNCHANGED <<cache, listed, found, answer, walks, calls>>

\* The system carries a Bios and names the manager in Links.ManagedBy.
ProbeNames(f, manager) ==
    /\ pc[f] = "probe"
    /\ heard' = [heard EXCEPT ![f][Probed(f)] = "bios"]
    /\ found' = [found EXCEPT ![f] = Probed(f)]
    /\ Settle(f, [system |-> Probed(f), manager |-> manager])
    /\ UNCHANGED <<listed, left, calls>>

\* It carries a Bios and names none: the managers collection decides.
ProbeFinds(f) ==
    /\ pc[f] = "probe"
    /\ heard' = [heard EXCEPT ![f][Probed(f)] = "bios"]
    /\ found' = [found EXCEPT ![f] = Probed(f)]
    /\ Goto(f, "managers")
    /\ UNCHANGED <<cache, listed, left, answer, walks, calls>>

\* GET /redfish/v1/Managers, of which the first counts.
ReadManagers(f, manager) ==
    /\ pc[f] = "managers"
    /\ Settle(f, [system |-> IF found[f] # None THEN found[f] ELSE Preferred(listed[f]),
                  manager |-> manager])
    /\ UNCHANGED <<walk, heard, calls>>

NoManagers(f) == pc[f] = "managers" /\ GiveUp(f)

\* The other branch of a select finished first and this one is dropped.
Drop(f) ==
    /\ pc[f] \in {"systems", "probe", "managers"}
    /\ Goto(f, "ready")
    /\ UNCHANGED <<cache, walk, answer, heard, walks, calls>>

Next ==
    \E f \in Fibers :
        \/ Ask(f)
        \/ \E systems \in Listings : ReadSystems(f, systems)
        \/ NoSystems(f)
        \/ \E how \in {"no bios", "failed"} : ProbeMisses(f, how)
        \/ \E manager \in Managers : ProbeNames(f, manager)
        \/ ProbeFinds(f)
        \/ \E manager \in Managers : ReadManagers(f, manager)
        \/ NoManagers(f)
        \/ Drop(f)

Spec == Init /\ [][Next]_vars

-----------------------------------------------------------------------------

TypeOK ==
    /\ cache \in Ids \cup {None}
    /\ pc \in [Fibers -> {"ready", "systems", "probe", "managers", "done"}]
    /\ listed \in [Fibers -> Seq(Systems)]
    /\ left \in [Fibers -> SUBSET (0 .. MaxListed)]
    /\ found \in [Fibers -> Systems \cup {None}]
    /\ answer \in [Fibers -> Ids \cup {None}]
    /\ heard \in [Fibers -> [Systems -> {"unasked", "no bios", "failed", "bios"}]]
    /\ walks \in Nat
    /\ calls \in [Fibers -> 0 .. MaxCalls]
    /\ \A f \in Fibers : pc[f] = "probe" => left[f] # {}

\* A walk asks the preferred system and settles on the one that answered with a
\* Bios if any it asked did, and otherwise, having asked every one listed, on
\* the preferred: System_0 is never passed over when it carries a Bios.
WalkFindsTheHost ==
    \A f \in Fibers : pc[f] = "done" /\ answer[f] # None /\ listed[f] # <<>> =>
        LET bios == {s \in Systems : heard[f][s] = "bios"}
        IN  /\ heard[f][Preferred(listed[f])] # "unasked"
            /\ bios # {} => bios = {answer[f].system}
            /\ bios = {} =>
                 /\ answer[f].system = Preferred(listed[f])
                 /\ \A s \in ToSet(listed[f]) : heard[f][s] # "unasked"

\* "Probed once per request" (README): once a call was answered, no later call
\* of the request walks the BMC again.
ProbedOnce == walks <= 1
=============================================================================
