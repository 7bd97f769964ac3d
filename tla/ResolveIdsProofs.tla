-------------------------- MODULE ResolveIdsProofs --------------------------
(***************************************************************************)
(* Proofs about the walk of resolve_ids, for any systems, managers,        *)
(* collections and branches of a handler.  What a walk has left to probe   *)
(* and what it has heard make up the whole collection, and the preferred   *)
(* system is at position 0, which is the first to go.                      *)
(***************************************************************************)
EXTENDS ResolveIds, WellFoundedInduction, TLAPS

\* What a walk under way knows of the systems it has probed.
Underway(f) ==
    /\ listed[f] \in Listings /\ listed[f] # <<>>
    /\ left[f] \subseteq ProbeOrder(listed[f])
    /\ \A i \in ProbeOrder(listed[f]) \ left[f] : heard[f][At(listed[f], i)] # "unasked"

\* What the walk has settled on so far, or will.
Found(f) == \A s \in Systems : heard[f][s] = "bios" => s = found[f]

Walking(f) ==
    /\ pc[f] = "systems" => found[f] = None /\ heard[f] = Unheard
    /\ pc[f] = "probe" => Underway(f) /\ Found(f) /\ found[f] = None
    /\ pc[f] = "managers" =>
         /\ listed[f] \in Listings /\ listed[f] # <<>>
         /\ Found(f)
         /\ heard[f][Preferred(listed[f])] # "unasked"
         /\ found[f] # None => heard[f][found[f]] = "bios"
         /\ found[f] = None =>
              \A i \in ProbeOrder(listed[f]) : heard[f][At(listed[f], i)] # "unasked"

Host(f) ==
    pc[f] = "done" /\ answer[f] # None /\ listed[f] # <<>> =>
        LET bios == {s \in Systems : heard[f][s] = "bios"}
        IN  /\ heard[f][Preferred(listed[f])] # "unasked"
            /\ bios # {} => bios = {answer[f].system}
            /\ bios = {} =>
                 /\ answer[f].system = Preferred(listed[f])
                 /\ \A s \in ToSet(listed[f]) : heard[f][s] # "unasked"

\* The inductive invariant.
IInv ==
    /\ TypeOK
    /\ \A f \in Fibers : Walking(f) /\ Host(f)

-----------------------------------------------------------------------------
(* Positions and listings.                                                 *)

LEMMA MinOf ==
    ASSUME NEW S \in SUBSET Nat, S # {}
    PROVE  Min(S) \in S /\ \A y \in S : Min(S) <= y
<1>1. PICK x \in S : \A y \in S : ~(<<y, x>> \in OpToRel(<, Nat))
  BY WFMin, NatLessThanWellFounded
<1>2. ASSUME NEW y \in S PROVE x <= y
  <2>1. ~(y < x)
    <3>1. y < x => <<y, x>> \in OpToRel(<, Nat)
      BY DEF OpToRel
    <3> QED
      BY <1>1, <3>1
  <2> QED
    BY <2>1
<1> QED
  BY <1>2 DEF Min

\* A collection has a preferred member, and every position is one of a member.
LEMMA Positions ==
    ASSUME NEW systems \in Listings, systems # <<>>
    PROVE  /\ Preferred(systems) \in Systems
           /\ ProbeOrder(systems) \subseteq 0 .. MaxListed
           /\ 0 \in ProbeOrder(systems)
           /\ At(systems, 0) = Preferred(systems)
           /\ \A i \in ProbeOrder(systems) : At(systems, i) \in Systems
           /\ \A s \in ToSet(systems) : \E i \in ProbeOrder(systems) : At(systems, i) = s
<1>1. PICK n \in 0 .. MaxListed : systems \in [1 .. n -> Systems]
  BY DEF Listings
<1>2. MaxListed \in Nat /\ n \in Nat /\ systems \in Seq(Systems) /\ Len(systems) = n
  BY <1>1, IdsAssumption
<1>3. \A i \in DOMAIN systems : systems[i] \in Systems /\ i \in 1 .. MaxListed
  BY <1>1, <1>2
<1>4. Preferred(systems) \in Systems
  <2>1. CASE System0 \in ToSet(systems)
    BY <1>3, <2>1 DEF Preferred, ToSet
  <2>2. CASE System0 \notin ToSet(systems)
    BY <1>2, <2>2 DEF Preferred
  <2> QED
    BY <2>1, <2>2
<1>5. ProbeOrder(systems) \subseteq 0 .. MaxListed /\ 0 \in ProbeOrder(systems)
  BY <1>2, <1>3 DEF ProbeOrder
<1>6. At(systems, 0) = Preferred(systems) /\ \A i \in DOMAIN systems : At(systems, i) = systems[i]
  BY <1>2, <1>3 DEF At
<1>7. \A i \in ProbeOrder(systems) : At(systems, i) \in Systems
  BY <1>3, <1>4, <1>6 DEF ProbeOrder
<1>8. ASSUME NEW s \in ToSet(systems)
      PROVE  \E i \in ProbeOrder(systems) : At(systems, i) = s
  <2>1. PICK i \in DOMAIN systems : systems[i] = s
    BY DEF ToSet
  <2>2. CASE s = Preferred(systems)
    BY <1>5, <1>6, <2>2
  <2>3. CASE s # Preferred(systems)
    BY <1>6, <2>1, <2>3 DEF ProbeOrder
  <2> QED
    BY <2>2, <2>3
<1> QED
  BY <1>4, <1>5, <1>6, <1>7, <1>8

\* The system a probe asks, and what it leaves: the preferred one goes first.
LEMMA NextProbe ==
    ASSUME TypeOK, NEW f \in Fibers, Walking(f), pc[f] = "probe"
    PROVE  /\ Min(left[f]) \in left[f] /\ Min(left[f]) \in ProbeOrder(listed[f])
           /\ Probed(f) = At(listed[f], Min(left[f])) /\ Probed(f) \in Systems
           /\ Probed(f) = Preferred(listed[f]) \/ heard[f][Preferred(listed[f])] # "unasked"
<1>1. Underway(f) /\ left[f] # {} /\ left[f] \in SUBSET (0 .. MaxListed)
  BY DEF Walking, TypeOK
<1>2. left[f] \in SUBSET Nat
  BY <1>1, IdsAssumption
<1>3. Min(left[f]) \in left[f] /\ \A y \in left[f] : Min(left[f]) <= y
  BY <1>1, <1>2, MinOf
<1>4. /\ 0 \in ProbeOrder(listed[f]) /\ At(listed[f], 0) = Preferred(listed[f])
      /\ \A i \in ProbeOrder(listed[f]) : At(listed[f], i) \in Systems
  BY <1>1, Positions DEF Underway
<1>5. CASE 0 \in left[f]
  <2>1. Min(left[f]) = 0
    <3>1. Min(left[f]) <= 0 /\ Min(left[f]) \in Nat
      BY <1>2, <1>3, <1>5
    <3> QED
      BY <3>1
  <2> QED
    BY <1>1, <1>3, <1>4, <2>1 DEF Probed, Underway
<1>6. CASE 0 \notin left[f]
  <2>1. heard[f][At(listed[f], 0)] # "unasked"
    BY <1>1, <1>4, <1>6 DEF Underway
  <2> QED
    BY <1>1, <1>3, <1>4, <2>1 DEF Probed, Underway
<1> QED
  BY <1>5, <1>6

-----------------------------------------------------------------------------
(* One fiber's step and the others.                                        *)

\* A step of f leaves the walks of the others alone.
Alone(f) ==
    \A g \in Fibers \ {f} :
        /\ pc'[g] = pc[g] /\ listed'[g] = listed[g] /\ left'[g] = left[g]
        /\ found'[g] = found[g] /\ answer'[g] = answer[g] /\ heard'[g] = heard[g]

LEMMA OthersWalkOn ==
    ASSUME NEW f \in Fibers, NEW g \in Fibers \ {f}, Alone(f), Walking(g), Host(g)
    PROVE  Walking(g)' /\ Host(g)'
<1>1. Walking(g)'
  BY DEF Alone, Walking, Underway, Found
<1>2. Host(g)'
  BY DEF Alone, Host
<1> QED
  BY <1>1, <1>2

\* A call that walks starts from nothing; one that does not is answered.
LEMMA AskWalks ==
    ASSUME IInv, NEW f \in Fibers, Ask(f)
    PROVE  TypeOK' /\ Alone(f) /\ Walking(f)' /\ Host(f)'
<1>0. TypeOK
  BY DEF IInv
<1>1. Unheard \in [Systems -> {"unasked", "no bios", "failed", "bios"}]
  BY DEF Unheard
<1>2. /\ pc' \in [Fibers -> {"ready", "systems", "probe", "managers", "done"}]
      /\ pc'[f] \in {"done", "systems"}
      /\ \A g \in Fibers \ {f} : pc'[g] = pc[g]
  BY <1>0 DEF TypeOK, Ask, Goto
<1>3. /\ listed' \in [Fibers -> Seq(Systems)] /\ listed'[f] = <<>>
      /\ \A g \in Fibers \ {f} : listed'[g] = listed[g]
  <2>0. <<>> \in Seq(Systems)
    OBVIOUS
  <2>1. PICK none : none = <<>> /\ none \in Seq(Systems)
    BY <2>0, Zenon
  <2>2. listed' = [listed EXCEPT ![f] = none] /\ listed \in [Fibers -> Seq(Systems)]
    BY <1>0, <2>1 DEF TypeOK, Ask
  <2> QED
    BY <2>1, <2>2
<1>4. /\ left' \in [Fibers -> SUBSET (0 .. MaxListed)]
      /\ \A g \in Fibers \ {f} : left'[g] = left[g]
  BY <1>0 DEF TypeOK, Ask
<1>5. /\ found' \in [Fibers -> Systems \cup {None}] /\ found'[f] = None
      /\ \A g \in Fibers \ {f} : found'[g] = found[g]
  BY <1>0 DEF TypeOK, Ask
<1>6. /\ answer' \in [Fibers -> Ids \cup {None}]
      /\ \A g \in Fibers \ {f} : answer'[g] = answer[g]
  BY <1>0 DEF TypeOK, Ask
<1>7. /\ heard' \in [Fibers -> [Systems -> {"unasked", "no bios", "failed", "bios"}]]
      /\ heard'[f] = Unheard
      /\ \A g \in Fibers \ {f} : heard'[g] = heard[g]
  BY <1>0, <1>1 DEF TypeOK, Ask
<1>8. calls' \in [Fibers -> 0 .. MaxCalls] /\ UNCHANGED <<cache, walks>>
  <2>1. calls[f] \in 0 .. MaxCalls /\ calls[f] < MaxCalls /\ MaxCalls \in Nat
    BY <1>0, IdsAssumption DEF TypeOK, Ask
  <2>2. calls[f] + 1 \in 0 .. MaxCalls
    BY <2>1
  <2> QED
    BY <1>0, <2>2 DEF TypeOK, Ask
<1>9. TypeOK'
  BY <1>0, <1>2, <1>3, <1>4, <1>5, <1>6, <1>7, <1>8 DEF TypeOK
<1>10. Walking(f)' /\ Host(f)'
  BY <1>2, <1>3, <1>5, <1>7 DEF Walking, Host, Unheard
<1> QED
  BY <1>2, <1>3, <1>4, <1>5, <1>6, <1>7, <1>9, <1>10 DEF Alone

\* The collection is read: all of it is left to probe, the preferred first.
LEMMA ReadSystemsWalks ==
    ASSUME IInv, NEW f \in Fibers, NEW systems \in Listings, ReadSystems(f, systems)
    PROVE  TypeOK' /\ Alone(f) /\ Walking(f)' /\ Host(f)'
<1>0. TypeOK /\ Walking(f)
  BY DEF IInv
<1>1. systems # <<>> /\ systems \in Seq(Systems)
  BY IdsAssumption DEF ReadSystems, Listings
<1>2. ProbeOrder(systems) \subseteq 0 .. MaxListed /\ 0 \in ProbeOrder(systems)
  BY <1>1, Positions
<1>3. /\ pc' \in [Fibers -> {"ready", "systems", "probe", "managers", "done"}]
      /\ pc'[f] = "probe" /\ pc[f] = "systems"
      /\ \A g \in Fibers \ {f} : pc'[g] = pc[g]
  BY <1>0 DEF TypeOK, ReadSystems, Goto
<1>4. /\ listed' \in [Fibers -> Seq(Systems)] /\ listed'[f] = systems
      /\ \A g \in Fibers \ {f} : listed'[g] = listed[g]
  BY <1>0, <1>1 DEF TypeOK, ReadSystems
<1>5. /\ left' \in [Fibers -> SUBSET (0 .. MaxListed)] /\ left'[f] = ProbeOrder(systems)
      /\ \A g \in Fibers \ {f} : left'[g] = left[g]
  BY <1>0, <1>2 DEF TypeOK, ReadSystems
<1>6. UNCHANGED <<cache, found, answer, heard, walks, calls>>
  BY DEF ReadSystems
<1>7. TypeOK'
  <2>1. \A g \in Fibers : pc'[g] = "probe" => left'[g] # {}
    BY <1>0, <1>2, <1>3, <1>5 DEF TypeOK
  <2> QED
    BY <1>0, <1>3, <1>4, <1>5, <1>6, <2>1 DEF TypeOK
<1>8. found[f] = None /\ heard[f] = Unheard
  BY <1>0, <1>3 DEF Walking
<1>9. Walking(f)' /\ Host(f)'
  BY <1>1, <1>3, <1>4, <1>5, <1>6, <1>8 DEF Walking, Host, Underway, Found, Unheard
<1> QED
  BY <1>3, <1>4, <1>5, <1>6, <1>7, <1>9 DEF Alone

\* A probe that hears of no Bios.
LEMMA ProbeMissesWalks ==
    ASSUME IInv, NEW f \in Fibers, NEW how \in {"no bios", "failed"}, ProbeMisses(f, how)
    PROVE  TypeOK' /\ Alone(f) /\ Walking(f)' /\ Host(f)'
<1>0. TypeOK /\ Walking(f) /\ pc[f] = "probe"
  BY DEF IInv, ProbeMisses
<1>1. PICK m, s : m = Min(left[f]) /\ s = Probed(f)
  OBVIOUS
<1>2. /\ m \in left[f] /\ m \in ProbeOrder(listed[f]) /\ s = At(listed[f], m) /\ s \in Systems
      /\ s = Preferred(listed[f]) \/ heard[f][Preferred(listed[f])] # "unasked"
  BY <1>0, <1>1, NextProbe
<1>3. /\ pc' \in [Fibers -> {"ready", "systems", "probe", "managers", "done"}]
      /\ pc'[f] = IF left[f] = {m} THEN "managers" ELSE "probe"
      /\ \A g \in Fibers \ {f} : pc'[g] = pc[g]
  BY <1>0, <1>1 DEF TypeOK, ProbeMisses, Goto
<1>4. /\ left' \in [Fibers -> SUBSET (0 .. MaxListed)] /\ left'[f] = left[f] \ {m}
      /\ \A g \in Fibers \ {f} : left'[g] = left[g]
  BY <1>0, <1>1 DEF TypeOK, ProbeMisses
<1>5. /\ heard'[f] = [heard[f] EXCEPT ![s] = how]
      /\ heard' \in [Fibers -> [Systems -> {"unasked", "no bios", "failed", "bios"}]]
      /\ \A g \in Fibers \ {f} : heard'[g] = heard[g]
  BY <1>0, <1>1, <1>2 DEF TypeOK, ProbeMisses
<1>6. UNCHANGED <<cache, listed, found, answer, walks, calls>>
  BY DEF ProbeMisses
<1>7. TypeOK'
  <2>1. \A g \in Fibers : pc'[g] = "probe" => left'[g] # {}
    BY <1>0, <1>2, <1>3, <1>4 DEF TypeOK
  <2> QED
    BY <1>0, <1>3, <1>4, <1>5, <1>6, <2>1 DEF TypeOK
<1>8. Underway(f) /\ Found(f) /\ found[f] = None /\ None \notin Systems
  BY <1>0, IdsAssumption DEF Walking
<1>9. \A t \in Systems : heard'[f][t] = IF t = s THEN how ELSE heard[f][t]
  BY <1>0, <1>2, <1>5 DEF TypeOK
<1>10. Found(f)'
  BY <1>6, <1>8, <1>9 DEF Found
<1>11. \A i \in ProbeOrder(listed[f]) : At(listed[f], i) \in Systems
  BY <1>8, Positions DEF Underway
<1>12. \A i \in ProbeOrder(listed[f]) \ left'[f] : heard'[f][At(listed[f], i)] # "unasked"
  BY <1>2, <1>4, <1>8, <1>9, <1>11 DEF Underway
<1>13. Underway(f)'
  BY <1>4, <1>6, <1>8, <1>12 DEF Underway
<1>14. heard'[f][Preferred(listed[f])] # "unasked"
  <2>1. Preferred(listed[f]) \in Systems
    BY <1>8, Positions DEF Underway
  <2> QED
    BY <1>2, <1>9, <2>1
<1>15. Walking(f)'
  <2>1. CASE left[f] = {m}
    <3>1. \A i \in ProbeOrder(listed[f]) : heard'[f][At(listed[f], i)] # "unasked"
      BY <1>4, <1>12, <2>1
    <3> QED
      BY <1>3, <1>6, <1>8, <1>10, <1>14, <2>1, <3>1 DEF Walking, Underway
  <2>2. CASE left[f] # {m}
    BY <1>3, <1>6, <1>8, <1>10, <1>13, <2>2 DEF Walking
  <2> QED
    BY <2>1, <2>2
<1>16. Host(f)'
  BY <1>3 DEF Host
<1> QED
  BY <1>3, <1>4, <1>5, <1>6, <1>7, <1>15, <1>16 DEF Alone

\* A probe that hears of a Bios: the system is the one, and the first to be so.
LEMMA BiosHeard ==
    ASSUME TypeOK, NEW f \in Fibers, Walking(f), pc[f] = "probe",
           heard' = [heard EXCEPT ![f][Probed(f)] = "bios"],
           found' = [found EXCEPT ![f] = Probed(f)],
           UNCHANGED <<listed, left>>
    PROVE  /\ heard' \in [Fibers -> [Systems -> {"unasked", "no bios", "failed", "bios"}]]
           /\ found' \in [Fibers -> Systems \cup {None}]
           /\ \A g \in Fibers \ {f} : heard'[g] = heard[g] /\ found'[g] = found[g]
           /\ found'[f] = Probed(f) /\ Probed(f) \in Systems /\ heard'[f][Probed(f)] = "bios"
           /\ \A t \in Systems : heard'[f][t] = "bios" => t = Probed(f)
           /\ heard'[f][Preferred(listed[f])] # "unasked"
<1>1. PICK s : s = Probed(f)
  OBVIOUS
<1>2. s \in Systems /\ (s = Preferred(listed[f]) \/ heard[f][Preferred(listed[f])] # "unasked")
  BY <1>1, NextProbe
<1>3. /\ heard'[f] = [heard[f] EXCEPT ![s] = "bios"]
      /\ heard' \in [Fibers -> [Systems -> {"unasked", "no bios", "failed", "bios"}]]
      /\ \A g \in Fibers \ {f} : heard'[g] = heard[g]
  BY <1>1, <1>2 DEF TypeOK
<1>4. /\ found' \in [Fibers -> Systems \cup {None}] /\ found'[f] = s
      /\ \A g \in Fibers \ {f} : found'[g] = found[g]
  BY <1>1, <1>2 DEF TypeOK
<1>5. \A t \in Systems : heard'[f][t] = IF t = s THEN "bios" ELSE heard[f][t]
  BY <1>2, <1>3 DEF TypeOK
<1>6. Found(f) /\ found[f] = None /\ None \notin Systems /\ Preferred(listed[f]) \in Systems
  BY Positions, IdsAssumption DEF Walking, Underway
<1>7. \A t \in Systems : heard'[f][t] = "bios" => t = s
  BY <1>5, <1>6 DEF Found
<1>8. heard'[f][Preferred(listed[f])] # "unasked" /\ heard'[f][s] = "bios"
  BY <1>2, <1>5, <1>6
<1> QED
  BY <1>1, <1>2, <1>3, <1>4, <1>7, <1>8

LEMMA ProbeFindsWalks ==
    ASSUME IInv, NEW f \in Fibers, ProbeFinds(f)
    PROVE  TypeOK' /\ Alone(f) /\ Walking(f)' /\ Host(f)'
<1>0. TypeOK /\ Walking(f) /\ pc[f] = "probe"
  BY DEF IInv, ProbeFinds
<1>1. /\ heard' \in [Fibers -> [Systems -> {"unasked", "no bios", "failed", "bios"}]]
      /\ found' \in [Fibers -> Systems \cup {None}]
      /\ \A g \in Fibers \ {f} : heard'[g] = heard[g] /\ found'[g] = found[g]
      /\ found'[f] = Probed(f) /\ Probed(f) \in Systems /\ heard'[f][Probed(f)] = "bios"
      /\ \A t \in Systems : heard'[f][t] = "bios" => t = Probed(f)
      /\ heard'[f][Preferred(listed[f])] # "unasked"
  BY <1>0, BiosHeard DEF ProbeFinds
<1>2. /\ pc' \in [Fibers -> {"ready", "systems", "probe", "managers", "done"}]
      /\ pc'[f] = "managers"
      /\ \A g \in Fibers \ {f} : pc'[g] = pc[g]
  BY <1>0 DEF TypeOK, ProbeFinds, Goto
<1>3. UNCHANGED <<cache, listed, left, answer, walks, calls>>
  BY DEF ProbeFinds
<1>4. TypeOK'
  BY <1>0, <1>1, <1>2, <1>3 DEF TypeOK
<1>5. found'[f] # None /\ listed[f] \in Listings /\ listed[f] # <<>>
  BY <1>0, <1>1, IdsAssumption DEF Walking, Underway
<1>6. Walking(f)' /\ Host(f)'
  BY <1>1, <1>2, <1>3, <1>5 DEF Walking, Host, Found
<1> QED
  BY <1>1, <1>2, <1>3, <1>4, <1>6 DEF Alone

\* The ids are returned and cached.
LEMMA Settles ==
    ASSUME TypeOK, NEW f \in Fibers, NEW ids \in Ids, Settle(f, ids)
    PROVE  /\ pc' \in [Fibers -> {"ready", "systems", "probe", "managers", "done"}]
           /\ answer' \in [Fibers -> Ids \cup {None}]
           /\ cache' \in Ids \cup {None} /\ walks' \in Nat
           /\ pc'[f] = "done" /\ answer'[f] = ids
           /\ \A g \in Fibers \ {f} : pc'[g] = pc[g] /\ answer'[g] = answer[g]
<1>1. /\ pc' = [pc EXCEPT ![f] = "done"] /\ answer' = [answer EXCEPT ![f] = ids]
      /\ cache' = ids /\ walks' = walks + 1
  BY DEF Settle, Goto
<1>2. /\ answer' \in [Fibers -> Ids \cup {None}] /\ answer'[f] = ids
      /\ \A g \in Fibers \ {f} : answer'[g] = answer[g]
  BY <1>1 DEF TypeOK
<1>3. /\ pc' \in [Fibers -> {"ready", "systems", "probe", "managers", "done"}]
      /\ pc'[f] = "done"
      /\ \A g \in Fibers \ {f} : pc'[g] = pc[g]
  BY <1>1 DEF TypeOK
<1>4. walks' \in Nat
  <2>1. walks \in Nat
    BY DEF TypeOK
  <2> QED
    BY <1>1, <2>1
<1> QED
  BY <1>1, <1>2, <1>3, <1>4

LEMMA ProbeNamesWalks ==
    ASSUME IInv, NEW f \in Fibers, NEW manager \in Managers, ProbeNames(f, manager)
    PROVE  TypeOK' /\ Alone(f) /\ Walking(f)' /\ Host(f)'
<1>0. TypeOK /\ Walking(f) /\ pc[f] = "probe"
  BY DEF IInv, ProbeNames
<1>1. /\ heard' \in [Fibers -> [Systems -> {"unasked", "no bios", "failed", "bios"}]]
      /\ found' \in [Fibers -> Systems \cup {None}]
      /\ \A g \in Fibers \ {f} : heard'[g] = heard[g] /\ found'[g] = found[g]
      /\ found'[f] = Probed(f) /\ Probed(f) \in Systems /\ heard'[f][Probed(f)] = "bios"
      /\ \A t \in Systems : heard'[f][t] = "bios" => t = Probed(f)
      /\ heard'[f][Preferred(listed[f])] # "unasked"
  BY <1>0, BiosHeard DEF ProbeNames
<1>2. PICK ids \in Ids : ids.system = Probed(f) /\ Settle(f, ids)
  BY <1>1 DEF ProbeNames, Ids
<1>3. /\ pc' \in [Fibers -> {"ready", "systems", "probe", "managers", "done"}]
      /\ answer' \in [Fibers -> Ids \cup {None}]
      /\ cache' \in Ids \cup {None} /\ walks' \in Nat
      /\ pc'[f] = "done" /\ answer'[f] = ids
      /\ \A g \in Fibers \ {f} : pc'[g] = pc[g] /\ answer'[g] = answer[g]
  BY <1>0, <1>2, Settles
<1>4. UNCHANGED <<listed, left, calls>>
  BY DEF ProbeNames
<1>5. TypeOK'
  BY <1>0, <1>1, <1>3, <1>4 DEF TypeOK
<1>6. {s \in Systems : heard'[f][s] = "bios"} = {answer'[f].system}
  BY <1>1, <1>2, <1>3
<1>7. Walking(f)'
  BY <1>3 DEF Walking
<1>8. Host(f)'
  BY <1>1, <1>4, <1>6 DEF Host
<1> QED
  BY <1>1, <1>3, <1>4, <1>5, <1>7, <1>8 DEF Alone

\* The managers collection ends the walk: on the system found, or, with all of
\* them heard and none found, on the preferred.
LEMMA ReadManagersWalks ==
    ASSUME IInv, NEW f \in Fibers, NEW manager \in Managers, ReadManagers(f, manager)
    PROVE  TypeOK' /\ Alone(f) /\ Walking(f)' /\ Host(f)'
<1>0. TypeOK /\ Walking(f) /\ pc[f] = "managers"
  BY DEF IInv, ReadManagers
<1>1. /\ listed[f] \in Listings /\ listed[f] # <<>> /\ Found(f)
      /\ heard[f][Preferred(listed[f])] # "unasked"
      /\ found[f] # None => heard[f][found[f]] = "bios"
      /\ found[f] = None =>
           \A i \in ProbeOrder(listed[f]) : heard[f][At(listed[f], i)] # "unasked"
  BY <1>0 DEF Walking
<1>2. found[f] \in Systems \cup {None} /\ None \notin Systems /\ Preferred(listed[f]) \in Systems
  BY <1>0, <1>1, Positions, IdsAssumption DEF TypeOK
<1>3. PICK ids \in Ids :
        /\ ids.system = (IF found[f] # None THEN found[f] ELSE Preferred(listed[f]))
        /\ Settle(f, ids)
  BY <1>2 DEF ReadManagers, Ids
<1>4. /\ pc' \in [Fibers -> {"ready", "systems", "probe", "managers", "done"}]
      /\ answer' \in [Fibers -> Ids \cup {None}]
      /\ cache' \in Ids \cup {None} /\ walks' \in Nat
      /\ pc'[f] = "done" /\ answer'[f] = ids
      /\ \A g \in Fibers \ {f} : pc'[g] = pc[g] /\ answer'[g] = answer[g]
  BY <1>0, <1>3, Settles
<1>5. UNCHANGED <<listed, left, found, heard, calls>>
  BY DEF ReadManagers, walk
<1>6. TypeOK'
  BY <1>0, <1>4, <1>5 DEF TypeOK
<1>7. Walking(f)'
  BY <1>4 DEF Walking
<1>8. CASE found[f] # None
  <2>1. {s \in Systems : heard[f][s] = "bios"} = {ids.system}
    BY <1>1, <1>2, <1>3, <1>8 DEF Found
  <2>2. Host(f)'
    BY <1>1, <1>4, <1>5, <2>1 DEF Host
  <2> QED
    BY <1>4, <1>5, <1>6, <1>7, <2>2 DEF Alone
<1>9. CASE found[f] = None
  <2>1. {s \in Systems : heard[f][s] = "bios"} = {}
    BY <1>1, <1>2, <1>9 DEF Found
  <2>2. \A s \in ToSet(listed[f]) : heard[f][s] # "unasked"
    BY <1>1, <1>9, Positions
  <2>3. Host(f)'
    BY <1>1, <1>3, <1>4, <1>5, <1>9, <2>1, <2>2 DEF Host
  <2> QED
    BY <1>4, <1>5, <1>6, <1>7, <2>3 DEF Alone
<1> QED
  BY <1>8, <1>9

\* An error, or a branch that is dropped, leaves nothing behind.
LEMMA EndsWalk ==
    ASSUME IInv, NEW f \in Fibers, NoSystems(f) \/ NoManagers(f) \/ Drop(f)
    PROVE  TypeOK' /\ Alone(f) /\ Walking(f)' /\ Host(f)'
<1>0. TypeOK
  BY DEF IInv
<1>1. UNCHANGED <<cache, listed, left, found, heard, walks, calls>>
  BY DEF NoSystems, NoManagers, Drop, GiveUp, walk
<1>2. CASE Drop(f)
  <2>1. /\ pc' \in [Fibers -> {"ready", "systems", "probe", "managers", "done"}]
        /\ pc'[f] = "ready" /\ UNCHANGED answer
        /\ \A g \in Fibers \ {f} : pc'[g] = pc[g]
    BY <1>0, <1>2 DEF TypeOK, Drop, Goto
  <2> QED
    BY <1>0, <1>1, <2>1 DEF TypeOK, Alone, Walking, Host
<1>3. CASE NoSystems(f) \/ NoManagers(f)
  <2>1. /\ pc' \in [Fibers -> {"ready", "systems", "probe", "managers", "done"}]
        /\ pc'[f] = "done"
        /\ \A g \in Fibers \ {f} : pc'[g] = pc[g]
    BY <1>0, <1>3 DEF TypeOK, NoSystems, NoManagers, GiveUp, Goto
  <2>2. /\ answer' \in [Fibers -> Ids \cup {None}] /\ answer'[f] = None
        /\ \A g \in Fibers \ {f} : answer'[g] = answer[g]
    BY <1>0, <1>3 DEF TypeOK, NoSystems, NoManagers, GiveUp
  <2>3. TypeOK'
    BY <1>0, <1>1, <2>1, <2>2 DEF TypeOK
  <2> QED
    BY <1>1, <2>1, <2>2, <2>3 DEF Alone, Walking, Host
<1> QED
  BY <1>2, <1>3

-----------------------------------------------------------------------------
(* The invariant, and the theorems.                                        *)

LEMMA Initially == ASSUME Init PROVE IInv
<1>1. Unheard \in [Systems -> {"unasked", "no bios", "failed", "bios"}]
  BY DEF Unheard
<1>2. listed \in [Fibers -> Seq(Systems)]
  <2>1. <<>> \in Seq(Systems)
    OBVIOUS
  <2> QED
    BY <2>1, Zenon DEF Init
<1>5. calls \in [Fibers -> 0 .. MaxCalls] /\ walks \in Nat
  BY IdsAssumption DEF Init
<1>6. heard \in [Fibers -> [Systems -> {"unasked", "no bios", "failed", "bios"}]]
  BY <1>1, Zenon DEF Init
<1>3. TypeOK
  BY <1>2, <1>5, <1>6 DEF Init, TypeOK
<1>4. \A f \in Fibers : Walking(f) /\ Host(f)
  BY DEF Init, Walking, Host
<1> QED
  BY <1>3, <1>4 DEF IInv

LEMMA Inductive == ASSUME IInv, [Next]_vars PROVE IInv'
<1>1. CASE UNCHANGED vars
  <2>1. UNCHANGED <<cache, pc, listed, left, found, answer, heard, walks, calls>>
    BY <1>1 DEF vars, walk
  <2>2. TypeOK'
    BY <2>1 DEF IInv, TypeOK
  <2>3. ASSUME NEW f \in Fibers PROVE Walking(f)' /\ Host(f)'
    <3>1. Walking(f) /\ Host(f)
      BY DEF IInv
    <3>2. Walking(f)'
      BY <2>1, <3>1 DEF Walking, Underway, Found
    <3>3. Host(f)'
      BY <2>1, <3>1 DEF Host
    <3> QED
      BY <3>2, <3>3
  <2> QED
    BY <2>2, <2>3 DEF IInv
<1>2. ASSUME NEW f \in Fibers, TypeOK' /\ Alone(f) /\ Walking(f)' /\ Host(f)'
      PROVE  IInv'
  <2>1. \A g \in Fibers : Walking(g)' /\ Host(g)'
    BY <1>2, OthersWalkOn DEF IInv
  <2> QED
    BY <1>2, <2>1 DEF IInv
<1>3. CASE Next
  <2>1. PICK f \in Fibers :
          \/ Ask(f)
          \/ \E systems \in Listings : ReadSystems(f, systems)
          \/ NoSystems(f)
          \/ \E how \in {"no bios", "failed"} : ProbeMisses(f, how)
          \/ \E manager \in Managers : ProbeNames(f, manager)
          \/ ProbeFinds(f)
          \/ \E manager \in Managers : ReadManagers(f, manager)
          \/ NoManagers(f)
          \/ Drop(f)
    BY <1>3 DEF Next
  <2>2. TypeOK' /\ Alone(f) /\ Walking(f)' /\ Host(f)'
    BY <2>1, AskWalks, ReadSystemsWalks, ProbeMissesWalks, ProbeNamesWalks, ProbeFindsWalks,
       ReadManagersWalks, EndsWalk
  <2> QED
    BY <1>2, <2>2
<1> QED
  BY <1>1, <1>3

LEMMA Invariance == Spec => []IInv
<1>1. Init => IInv
  BY Initially
<1>2. IInv /\ [Next]_vars => IInv'
  BY Inductive
<1> QED
  BY <1>1, <1>2, PTL DEF Spec

\* The cache, the walks and what callers are answered are always well formed,
\* and a walk that probes has something left to probe.
THEOREM IdsTypeCorrect == Spec => []TypeOK
<1>1. IInv => TypeOK
  BY DEF IInv
<1> QED
  BY <1>1, Invariance, PTL

\* Whatever the collection holds and whatever fails, a walk settles on the
\* system that carries a Bios, or having asked all of them on the preferred.
THEOREM HostIsFound == Spec => []WalkFindsTheHost
<1>1. IInv => WalkFindsTheHost
  BY DEF IInv, WalkFindsTheHost, Host
<1> QED
  BY <1>1, Invariance, PTL

\* Where one walk has ended the ids are cached, and nobody is walking.
Cached ==
    /\ cache = None => walks = 0
    /\ cache # None => walks = 1 /\ \A f \in Fibers : pc[f] \in {"ready", "done"}

LEMMA CachedKept ==
    ASSUME \A f, g \in Fibers : f = g, IInv, Cached, [Next]_vars
    PROVE  Cached'
<1>0. TypeOK /\ \A f \in Fibers : Walking(f)
  BY DEF IInv
<1>1. CASE UNCHANGED vars
  BY <1>1 DEF vars, Cached
<1>2. ASSUME NEW f \in Fibers, NEW ids \in Ids, Settle(f, ids), pc[f] \in {"probe", "managers"}
      PROVE  Cached'
  <2>1. cache = None /\ walks = 0
    BY <1>2 DEF Cached
  <2>2. cache' # None /\ walks' = 1
    BY <1>2, <2>1, IdsAssumption DEF Settle
  <2>3. \A g \in Fibers : pc'[g] = "done"
    BY <1>0, <1>2 DEF Settle, Goto, TypeOK
  <2> QED
    BY <2>2, <2>3 DEF Cached
<1>3. ASSUME NEW f \in Fibers, UNCHANGED <<cache, walks>>,
             pc'[f] \in {"ready", "done"} \/ cache = None
      PROVE  Cached'
  BY <1>3 DEF Cached
<1>4. ASSUME NEW f \in Fibers, Ask(f) PROVE Cached'
  <2>1. pc'[f] = (IF cache # None THEN "done" ELSE "systems")
    BY <1>0, <1>4 DEF Ask, Goto, TypeOK
  <2> QED
    BY <1>3, <1>4, <2>1 DEF Ask
<1>5. ASSUME NEW f \in Fibers,
             \/ \E systems \in Listings : ReadSystems(f, systems)
             \/ \E how \in {"no bios", "failed"} : ProbeMisses(f, how)
             \/ ProbeFinds(f)
      PROVE  Cached'
  <2>1. UNCHANGED <<cache, walks>> /\ pc[f] \in {"systems", "probe"}
    BY <1>5 DEF ReadSystems, ProbeMisses, ProbeFinds
  <2>2. cache = None
    BY <2>1 DEF Cached
  <2> QED
    BY <1>3, <2>1, <2>2
<1>6. ASSUME NEW f \in Fibers, NoSystems(f) \/ NoManagers(f) \/ Drop(f) PROVE Cached'
  <2>1. UNCHANGED <<cache, walks>>
    BY <1>6 DEF NoSystems, NoManagers, GiveUp, Drop
  <2>2. pc'[f] \in {"ready", "done"}
    BY <1>0, <1>6 DEF NoSystems, NoManagers, GiveUp, Drop, Goto, TypeOK
  <2> QED
    BY <1>3, <2>1, <2>2
<1>7. ASSUME NEW f \in Fibers, NEW manager \in Managers, ProbeNames(f, manager) PROVE Cached'
  <2>1. Probed(f) \in Systems /\ pc[f] = "probe"
    BY <1>0, <1>7, NextProbe DEF ProbeNames
  <2>2. [system |-> Probed(f), manager |-> manager] \in Ids
    BY <2>1 DEF Ids
  <2> QED
    BY <1>2, <1>7, <2>1, <2>2 DEF ProbeNames
<1>8. ASSUME NEW f \in Fibers, NEW manager \in Managers, ReadManagers(f, manager) PROVE Cached'
  <2>1. PICK s : s = (IF found[f] # None THEN found[f] ELSE Preferred(listed[f]))
    OBVIOUS
  <2>2. pc[f] = "managers" /\ Settle(f, [system |-> s, manager |-> manager])
    BY <1>8, <2>1 DEF ReadManagers
  <2>3. s \in Systems
    BY <1>0, <2>1, <2>2, Positions DEF TypeOK, Walking
  <2>4. [system |-> s, manager |-> manager] \in Ids
    BY <2>3 DEF Ids
  <2> QED
    BY <1>2, <2>2, <2>4
<1>9. CASE Next
  <2>1. PICK f \in Fibers :
          \/ Ask(f)
          \/ \E systems \in Listings : ReadSystems(f, systems)
          \/ NoSystems(f)
          \/ \E how \in {"no bios", "failed"} : ProbeMisses(f, how)
          \/ \E manager \in Managers : ProbeNames(f, manager)
          \/ ProbeFinds(f)
          \/ \E manager \in Managers : ReadManagers(f, manager)
          \/ NoManagers(f)
          \/ Drop(f)
    BY <1>9 DEF Next
  <2> QED
    BY <1>4, <1>5, <1>6, <1>7, <1>8, <2>1
<1> QED
  BY <1>1, <1>9

\* A handler whose calls follow each other walks the BMC once at most.  Two
\* branches that ask at once may each walk it: neither finds the other's ids.
THEOREM OneWalk ==
    ASSUME \A f, g \in Fibers : f = g
    PROVE  Spec => []ProbedOnce
<1>1. Init => IInv /\ Cached
  <2>1. Init => Cached
    BY DEF Init, Cached
  <2> QED
    BY <2>1, Initially
<1>2. (IInv /\ Cached) /\ [Next]_vars => (IInv /\ Cached)'
  BY Inductive, CachedKept
<1>3. IInv /\ Cached => ProbedOnce
  BY DEF Cached, ProbedOnce
<1> QED
  BY <1>1, <1>2, <1>3, PTL DEF Spec

=============================================================================
