---------------------------- MODULE StoreProofs -----------------------------
(***************************************************************************)
(* Proofs about the store, for any number of clients, keys and values and  *)
(* any capacity: the lock is held by whoever is inside, the map never      *)
(* outgrows MaxKeys, and the steps of Store implement AtomicStore.         *)
(***************************************************************************)
EXTENDS Store, FiniteSetTheorems, TLAPS

-----------------------------------------------------------------------------
(* The map: what inserting and removing do to its shape and size.          *)

\* Inserting keeps a finite map of Keys to Values one, and grows it by at most
\* the key it did not hold.
LEMMA InsertFacts ==
    ASSUME NEW m, DOMAIN m \subseteq Keys, m \in [DOMAIN m -> Values],
           IsFiniteSet(DOMAIN m), NEW k \in Keys, NEW v \in Values,
           Size(m) <= MaxKeys, ~NoRoom(m, k)
    PROVE  /\ DOMAIN With(m, k, v) \subseteq Keys
           /\ With(m, k, v) \in [DOMAIN With(m, k, v) -> Values]
           /\ IsFiniteSet(DOMAIN With(m, k, v))
           /\ Size(With(m, k, v)) <= MaxKeys
<1>1. DOMAIN With(m, k, v) = DOMAIN m \cup {k}
  BY DEF With
<1>2. Cardinality(DOMAIN m) \in Nat
  BY FS_CardinalityType
<1>3. /\ IsFiniteSet(DOMAIN m \cup {k})
      /\ Cardinality(DOMAIN m \cup {k}) =
           IF k \in DOMAIN m THEN Cardinality(DOMAIN m) ELSE Cardinality(DOMAIN m) + 1
  BY FS_AddElement
<1>4. Size(With(m, k, v)) <= MaxKeys
  BY <1>1, <1>2, <1>3, StoreAssumption DEF NoRoom, Size
<1> QED
  BY <1>1, <1>3, <1>4 DEF With

\* Removing keys keeps a finite map of Keys to Values one, and never grows it.
LEMMA RemoveFacts ==
    ASSUME NEW m, DOMAIN m \subseteq Keys, m \in [DOMAIN m -> Values],
           IsFiniteSet(DOMAIN m), Size(m) <= MaxKeys, NEW S
    PROVE  /\ DOMAIN Without(m, S) \subseteq Keys
           /\ Without(m, S) \in [DOMAIN Without(m, S) -> Values]
           /\ IsFiniteSet(DOMAIN Without(m, S))
           /\ Size(Without(m, S)) <= MaxKeys
<1>1. DOMAIN Without(m, S) = DOMAIN m \ S
  BY DEF Without, Restrict
<1>2. DOMAIN m \ S \in SUBSET DOMAIN m
  OBVIOUS
<1>3. /\ IsFiniteSet(DOMAIN m \ S)
      /\ Cardinality(DOMAIN m \ S) <= Cardinality(DOMAIN m)
  BY <1>2, FS_Subset
<1>4. Cardinality(DOMAIN m) \in Nat /\ Cardinality(DOMAIN m \ S) \in Nat
  BY <1>3, FS_CardinalityType
<1>5. Size(Without(m, S)) <= MaxKeys
  BY <1>1, <1>3, <1>4, StoreAssumption DEF Size
<1> QED
  BY <1>1, <1>3, <1>5 DEF Without, Restrict

\* A call that passed the checks names an accepted key, and what it reads is an
\* answer a script can be given.
LEMMA AcceptedCall ==
    ASSUME NEW x \in Calls, ~Refused(x)
    PROVE  /\ x.op \in {"get", "get_or", "contains", "remove", "set"} => x.key \in Keys
           /\ x.op = "set" => x.value \in Values
           /\ x.op = "get_or" => x.value \in Values
           /\ x.op = "remove_prefix" => x.key \in Prefixes
  BY DEF Calls, Call, Refused

LEMMA ReadAnswers ==
    ASSUME NEW m, m \in [DOMAIN m -> Values], NEW x \in Calls, ~Refused(x),
           x.op \in {"get", "get_or", "contains", "remove"}
    PROVE  Read(m, x) \in Answers
<1>1. x.op = "get_or" => x.value \in Values
  BY AcceptedCall
<1>2. x.key \in DOMAIN m => <<"value", m[x.key]>> \in Answers
  BY DEF Answers
<1>3. x.op = "get_or" => <<"value", x.value>> \in Answers
  BY <1>1 DEF Answers
<1>4. Nothing \in Answers /\ Yes \in Answers /\ No \in Answers
  BY DEF Answers
<1> QED
  BY <1>2, <1>3, <1>4 DEF Read, Flag

LEMMA PlainAnswers ==
    /\ {Err, Died, Done, Unanswered} \subseteq Answers
    /\ \A n \in Int : <<"count", n>> \in Answers
  BY DEF Answers

-----------------------------------------------------------------------------
(* The inductive invariant.                                                *)

LEMMA InitIInv == Init => IInv
<1> SUFFICES ASSUME Init PROVE IInv
  OBVIOUS
<1>1. DOMAIN entries = {} /\ entries \in [DOMAIN entries -> Values]
  BY DEF Init, Empty
<1>2. IsFiniteSet(DOMAIN entries) /\ Size(entries) = 0
  BY <1>1, FS_EmptySet DEF Size
<1>3. TypeOK
  BY <1>1, PlainAnswers DEF Init, TypeOK, Stages
<1>4. \A c \in Clients : ~Locked(c) /\ holder # c /\ pc[c] = "idle"
  BY StoreAssumption DEF Init, Locked
<1>5. WithinCapacity
  BY <1>2, StoreAssumption DEF WithinCapacity
<1> QED
  BY <1>2, <1>3, <1>4, <1>5 DEF IInv, LockDiscipline

\* A step of one client outside the lock: the map and the lock stay as they
\* are, and so does what the clients inside know.
LEMMA OutsideStep ==
    ASSUME IInv, NEW c \in Clients, ~Locked(c), TypeOK',
           UNCHANGED <<entries, holder, poisoned>>,
           pc'[c] \in {"idle", "called", "answered"},
           pc'[c] # "idle" => call'[c] \in Calls,
           \A d \in Clients \ {c} : pc'[d] = pc[d] /\ call'[d] = call[d]
    PROVE  IInv'
<1>1. LockDiscipline'
  BY DEF IInv, LockDiscipline, Locked
<1>2. WithinCapacity' /\ IsFiniteSet(DOMAIN entries)'
  BY DEF IInv, WithinCapacity, Size
<1>3. \A d \in Clients : pc'[d] # "idle" => call'[d] \in Calls
  BY DEF IInv
<1>4. \A d \in Clients : Locked(d)' => KnowsInside(d)'
  BY DEF IInv, Locked, KnowsInside
<1> QED
  BY <1>1, <1>2, <1>3, <1>4 DEF IInv

\* A step with which the holder leaves the lock, whatever map it leaves behind
\* as long as that map is well formed and fits.
LEMMA LeavingStep ==
    ASSUME IInv, NEW c \in Clients, Locked(c), TypeOK',
           holder' = None, pc'[c] = "answered", call' = call,
           \A d \in Clients \ {c} : pc'[d] = pc[d],
           WithinCapacity', IsFiniteSet(DOMAIN entries)'
    PROVE  IInv'
<1>1. holder = c /\ None \notin Clients
  BY StoreAssumption DEF IInv, LockDiscipline
<1>2. \A d \in Clients : ~Locked(d)'
  BY <1>1 DEF IInv, LockDiscipline, Locked
<1>3. LockDiscipline'
  BY <1>1, <1>2 DEF LockDiscipline
<1>4. \A d \in Clients : pc'[d] # "idle" => call'[d] \in Calls
  BY DEF IInv, Locked
<1> QED
  BY <1>2, <1>3, <1>4 DEF IInv

\* A step with which the holder stays inside, keeping what it knows.
LEMMA StayingStep ==
    ASSUME IInv, NEW c \in Clients, Locked(c), TypeOK',
           UNCHANGED <<holder, poisoned, call>>, Locked(c)', KnowsInside(c)',
           \A d \in Clients \ {c} : pc'[d] = pc[d],
           WithinCapacity', IsFiniteSet(DOMAIN entries)'
    PROVE  IInv'
<1>1. holder = c
  BY DEF IInv, LockDiscipline
<1>2. \A d \in Clients \ {c} : ~Locked(d)'
  BY <1>1 DEF IInv, LockDiscipline, Locked
<1>3. LockDiscipline'
  BY <1>1, <1>2 DEF LockDiscipline
<1>4. \A d \in Clients : pc'[d] # "idle" => call'[d] \in Calls
  BY DEF IInv, Locked
<1> QED
  BY <1>2, <1>3, <1>4 DEF IInv

LEMMA StepIInv == IInv /\ [Next]_vars => IInv'
<1> SUFFICES ASSUME IInv, [Next]_vars PROVE IInv'
  OBVIOUS
<1> USE DEF Locked
<1>0. TypeOK
  BY DEF IInv
<1>1. ASSUME NEW c \in Clients, NEW what \in Calls, Invoke(c, what)
      PROVE  IInv'
  <2>1. TypeOK'
    BY <1>0, <1>1 DEF TypeOK, Invoke, Stages
  <2> QED
    BY <1>0, <1>1, <2>1, OutsideStep DEF Invoke, TypeOK
<1>2. ASSUME NEW c \in Clients, Refuse(c) \/ AcquirePoisoned(c)
      PROVE  IInv'
  <2>1. TypeOK'
    BY <1>0, <1>2, PlainAnswers DEF TypeOK, Refuse, AcquirePoisoned, Stages
  <2>2. call[c] \in Calls
    BY <1>2 DEF IInv, Refuse, AcquirePoisoned
  <2> QED
    BY <1>0, <1>2, <2>1, <2>2, OutsideStep DEF Refuse, AcquirePoisoned, TypeOK
<1>3. ASSUME NEW c \in Clients, Acquire(c)
      PROVE  IInv'
  <2>1. TypeOK'
    BY <1>0, <1>3 DEF TypeOK, Acquire, Stages
  <2>2. LockDiscipline'
    BY <1>0, <1>3, StoreAssumption DEF IInv, LockDiscipline, Acquire, TypeOK
  <2>3. \A d \in Clients \ {c} : ~Locked(d)'
    BY <1>0, <1>3, StoreAssumption DEF IInv, LockDiscipline, Acquire, TypeOK
  <2>4. KnowsInside(c)'
    BY <1>0, <1>3 DEF KnowsInside, Acquire, TypeOK
  <2>5. WithinCapacity' /\ IsFiniteSet(DOMAIN entries)'
    BY <1>3 DEF IInv, Acquire, WithinCapacity, Size
  <2>6. \A d \in Clients : pc'[d] # "idle" => call'[d] \in Calls
    BY <1>0, <1>3 DEF IInv, Acquire, TypeOK
  <2> QED
    BY <2>1, <2>2, <2>3, <2>4, <2>5, <2>6 DEF IInv
<1>4. ASSUME NEW c \in Clients, Look(c) \/ Remove(c)
      PROVE  IInv'
  <2>1. call[c] \in Calls /\ ~Refused(call[c])
    BY <1>4 DEF IInv, Look, Remove, KnowsInside
  <2>2. Read(entries, call[c]) \in Answers
    BY <1>0, <1>4, <2>1, ReadAnswers DEF Look, Remove, TypeOK
  <2>3. entries' = entries \/ entries' = Without(entries, {call[c].key})
    BY <1>4 DEF Look, Remove
  <2>4. /\ DOMAIN entries' \subseteq Keys
        /\ entries' \in [DOMAIN entries' -> Values]
        /\ IsFiniteSet(DOMAIN entries')
        /\ Size(entries') <= MaxKeys
    BY <2>3, RemoveFacts DEF IInv, TypeOK, WithinCapacity
  <2>5. TypeOK'
    BY <1>0, <1>4, <2>2, <2>4 DEF TypeOK, Look, Remove, Release, Stages
  <2>6. WithinCapacity'
    BY <2>4 DEF WithinCapacity
  <2> QED
    BY <1>0, <1>4, <2>4, <2>5, <2>6, LeavingStep DEF Look, Remove, Release, TypeOK
<1>5. ASSUME NEW c \in Clients, SetFull(c)
      PROVE  IInv'
  <2>1. TypeOK'
    BY <1>0, <1>5, PlainAnswers DEF TypeOK, SetFull, Release, Stages
  <2>2. WithinCapacity' /\ IsFiniteSet(DOMAIN entries)'
    BY <1>5 DEF IInv, SetFull, WithinCapacity, Size
  <2> QED
    BY <1>0, <1>5, <2>1, <2>2, LeavingStep DEF SetFull, Release, TypeOK
<1>6. ASSUME NEW c \in Clients, SetRoom(c)
      PROVE  IInv'
  <2>1. TypeOK'
    BY <1>0, <1>6 DEF TypeOK, SetRoom, Stages
  <2>2. WithinCapacity' /\ IsFiniteSet(DOMAIN entries)'
    BY <1>6 DEF IInv, SetRoom, WithinCapacity, Size
  <2>3. KnowsInside(c)'
    BY <1>0, <1>6 DEF IInv, KnowsInside, SetRoom, TypeOK, NoRoom, Size
  <2> QED
    BY <1>0, <1>6, <2>1, <2>2, <2>3, StayingStep DEF SetRoom, TypeOK
<1>7. ASSUME NEW c \in Clients, SetInsert(c)
      PROVE  IInv'
  <2>1. /\ call[c] \in Calls /\ ~Refused(call[c])
        /\ call[c].op = "set" /\ ~NoRoom(entries, call[c].key)
    BY <1>7 DEF IInv, SetInsert, KnowsInside
  <2>2. call[c].key \in Keys /\ call[c].value \in Values
    BY <2>1, AcceptedCall
  <2>3. /\ DOMAIN entries' \subseteq Keys
        /\ entries' \in [DOMAIN entries' -> Values]
        /\ IsFiniteSet(DOMAIN entries')
        /\ Size(entries') <= MaxKeys
    BY <1>7, <2>1, <2>2, InsertFacts DEF IInv, TypeOK, WithinCapacity, SetInsert
  <2>4. TypeOK'
    BY <1>0, <1>7, <2>3, PlainAnswers DEF TypeOK, SetInsert, Release, Stages
  <2>5. WithinCapacity'
    BY <2>3 DEF WithinCapacity
  <2> QED
    BY <1>0, <1>7, <2>3, <2>4, <2>5, LeavingStep DEF SetInsert, Release, TypeOK
<1>8. ASSUME NEW c \in Clients, RetainStart(c)
      PROVE  IInv'
  <2>1. Size(entries) \in Nat
    BY FS_CardinalityType DEF IInv, Size
  <2>2. TypeOK'
    BY <1>0, <1>8, <2>1 DEF TypeOK, RetainStart, Stages
  <2>3. WithinCapacity' /\ IsFiniteSet(DOMAIN entries)'
    BY <1>8 DEF IInv, RetainStart, WithinCapacity, Size
  <2>4. KnowsInside(c)'
    BY <1>0, <1>8 DEF IInv, KnowsInside, RetainStart, TypeOK
  <2> QED
    BY <1>0, <1>8, <2>2, <2>3, <2>4, StayingStep DEF RetainStart, TypeOK
<1>9. ASSUME NEW c \in Clients, NEW k \in Keys, RetainDrop(c, k)
      PROVE  IInv'
  <2>1. /\ DOMAIN entries' \subseteq Keys
        /\ entries' \in [DOMAIN entries' -> Values]
        /\ IsFiniteSet(DOMAIN entries')
        /\ Size(entries') <= MaxKeys
    BY <1>9, RemoveFacts DEF IInv, TypeOK, WithinCapacity, RetainDrop
  <2>2. TypeOK'
    BY <1>0, <1>9, <2>1 DEF TypeOK, RetainDrop, Stages
  <2>3. WithinCapacity'
    BY <2>1 DEF WithinCapacity
  <2>4. KnowsInside(c)'
    BY <1>9 DEF IInv, KnowsInside, RetainDrop
  <2> QED
    BY <1>0, <1>9, <2>1, <2>2, <2>3, <2>4, StayingStep DEF RetainDrop, TypeOK
<1>10. ASSUME NEW c \in Clients, RetainEnd(c)
       PROVE  IInv'
  <2>1. Size(entries) \in Nat /\ before[c] \in Nat
    BY <1>0, FS_CardinalityType DEF IInv, Size, TypeOK
  <2>2. <<"count", before[c] - Size(entries)>> \in Answers
    BY <2>1, PlainAnswers
  <2>3. TypeOK'
    BY <1>0, <1>10, <2>2 DEF TypeOK, RetainEnd, Release, Stages
  <2>4. WithinCapacity' /\ IsFiniteSet(DOMAIN entries)'
    BY <1>10 DEF IInv, RetainEnd, WithinCapacity, Size
  <2> QED
    BY <1>0, <1>10, <2>3, <2>4, LeavingStep DEF RetainEnd, Release, TypeOK
<1>11. ASSUME NEW c \in Clients, Panic(c)
       PROVE  IInv'
  <2>1. TypeOK'
    BY <1>0, <1>11, PlainAnswers DEF TypeOK, Panic, Stages
  <2>2. WithinCapacity' /\ IsFiniteSet(DOMAIN entries)'
    BY <1>11 DEF IInv, Panic, WithinCapacity, Size
  <2> QED
    BY <1>0, <1>11, <2>1, <2>2, LeavingStep DEF Panic, TypeOK
<1>12. ASSUME NEW c \in Clients, Return(c)
       PROVE  IInv'
  <2>1. TypeOK'
    BY <1>0, <1>12, PlainAnswers DEF TypeOK, Return, Stages
  <2> QED
    BY <1>0, <1>12, <2>1, OutsideStep DEF Return, TypeOK
<1>13. CASE UNCHANGED vars
  BY <1>13 DEF vars, IInv, TypeOK, LockDiscipline, WithinCapacity, KnowsInside, NoRoom, Size
<1> QED
  BY <1>1, <1>2, <1>3, <1>4, <1>5, <1>6, <1>7, <1>8, <1>9, <1>10, <1>11, <1>12, <1>13
  DEF Next, Inside

LEMMA AlwaysIInv == Spec => []IInv
  BY InitIInv, StepIInv, PTL DEF Spec

\* Every reachable state of the store has the types the code gives it, for any
\* number of clients and any keys and values.
THEOREM TypeCorrect == Spec => []TypeOK
<1>1. IInv => TypeOK
  BY DEF IInv
<1> QED
  BY AlwaysIInv, <1>1, PTL

\* The Mutex excludes: whoever is between the lock and its answer holds it, and
\* a panic inside never leaves it held.
THEOREM LockHeldInside == Spec => []LockDiscipline
<1>1. IInv => LockDiscipline
  BY DEF IInv
<1> QED
  BY AlwaysIInv, <1>1, PTL

\* MAX_KEYS bounds the map at every instant, for any number of concurrent sets.
THEOREM NeverOverCapacity == Spec => []WithinCapacity
<1>1. IInv => WithinCapacity
  BY DEF IInv
<1> QED
  BY AlwaysIInv, <1>1, PTL

-----------------------------------------------------------------------------
(* Store implements AtomicStore.  The abstract map is what the next caller  *)
(* of the lock will find: a removal in progress counts as done, a poisoned  *)
(* map as gone.                                                             *)

Stage == [c \in Clients |-> StageOf(c)]
Told == [c \in Clients |-> AnswerOf(c)]

\* The two modules speak of the same operations.
LEMMA SameOps ==
    /\ Abstract!Err = Err /\ Abstract!Died = Died /\ Abstract!Done = Done
    /\ Abstract!Unanswered = Unanswered /\ Abstract!Calls = Calls
    /\ \A x : Abstract!Refused(x) <=> Refused(x)
    /\ \A m, x : Abstract!Read(m, x) = Read(m, x)
    /\ \A m, k : Abstract!NoRoom(m, k) <=> NoRoom(m, k)
    /\ \A S : Abstract!Cardinality(S) = Cardinality(S)
    /\ \A m : Abstract!Size(m) = Size(m)
    /\ \A m, S : Abstract!Without(m, S) = Without(m, S)
    /\ \A m, k, v : Abstract!With(m, k, v) = With(m, k, v)
<1>1. \A m, x : Abstract!Read(m, x) = Read(m, x)
  BY DEF Abstract!Read, Read, Abstract!Flag, Flag, Abstract!Yes, Yes, Abstract!No, No,
         Abstract!Nothing, Nothing
<1>0. \A S : Abstract!Cardinality(S) = Cardinality(S)
  BY DEF Abstract!Cardinality, Cardinality
<1>2. /\ \A x : Abstract!Refused(x) <=> Refused(x)
      /\ \A m : Abstract!Size(m) = Size(m)
      /\ \A m, k : Abstract!NoRoom(m, k) <=> NoRoom(m, k)
  BY <1>0 DEF Abstract!Refused, Refused, Abstract!NoRoom, NoRoom, Abstract!Size, Size
<1>3. /\ \A m, S : Abstract!Without(m, S) = Without(m, S)
      /\ \A m, k, v : Abstract!With(m, k, v) = With(m, k, v)
  BY DEF Abstract!Without, Without, Abstract!Restrict, Restrict, Abstract!With, With
<1>4. Abstract!Calls = Calls
  BY DEF Abstract!Calls, Calls, Abstract!Call, Call
<1>5. /\ Abstract!Err = Err /\ Abstract!Died = Died /\ Abstract!Done = Done
      /\ Abstract!Unanswered = Unanswered
  BY DEF Abstract!Err, Err, Abstract!Died, Died, Abstract!Done, Done,
         Abstract!Unanswered, Unanswered
<1> QED
  BY <1>0, <1>1, <1>2, <1>3, <1>4, <1>5

\* Taking away nothing leaves a map as it was.
LEMMA RemoveNothing ==
    ASSUME NEW m, m \in [DOMAIN m -> Values], NEW S, DOMAIN m \cap S = {}
    PROVE  Without(m, S) = m /\ DOMAIN m \ S = DOMAIN m
<1>1. DOMAIN m \ S = DOMAIN m
  OBVIOUS
<1> QED
  BY <1>1 DEF Without, Restrict

\* While one client is inside, nobody else is: what scripts see of the map is
\* decided by that client alone.
LEMMA VisibleInside ==
    ASSUME IInv, NEW c \in Clients, Locked(c)
    PROVE  /\ pc[c] # "retain" => Visible = entries
           /\ pc[c] = "retain" => Visible = Without(entries, Under[call[c].key])
<1>1. holder = c /\ ~poisoned
  BY DEF IInv, LockDiscipline, KnowsInside
<1>2. \A d \in Clients \ {c} : pc[d] # "retain"
  BY <1>1 DEF IInv, LockDiscipline, Locked
<1> QED
  BY <1>1, <1>2 DEF Visible, Retaining

LEMMA VisibleOutside ==
    ASSUME IInv, holder = None
    PROVE  Visible = IF poisoned THEN Empty ELSE entries
<1>1. \A d \in Clients : pc[d] # "retain"
  BY StoreAssumption DEF IInv, LockDiscipline, Locked
<1> QED
  BY <1>1 DEF Visible, Retaining

LEMMA InitAbstract == Init => Abstract!Init
<1> SUFFICES ASSUME Init PROVE Abstract!Init
  OBVIOUS
<1>1. ~Retaining
  BY DEF Init, Retaining
<1> QED
  BY <1>1, SameOps DEF Init, Abstract!Init, Visible, StageOf, AnswerOf, Empty, Abstract!Empty

LEMMA StepAbstract ==
    ASSUME IInv, IInv', [Next]_vars
    PROVE  [Abstract!Next]_(Abstract!vars)
<1> USE SameOps DEF Locked, Stage, Told
<1>0. TypeOK
  BY DEF IInv
<1>1. ASSUME NEW c \in Clients, NEW what \in Calls, Invoke(c, what)
      PROVE  Abstract!Invoke(c, what)
  <2>1. Visible' = Visible
    BY <1>0, <1>1 DEF Invoke, Visible, Retaining, TypeOK, IInv, LockDiscipline
  <2>2. Stage[c] = "idle" /\ Stage' = [Stage EXCEPT ![c] = "pending"]
    BY <1>0, <1>1 DEF Invoke, StageOf, TypeOK
  <2>3. Told' = Told
    BY <1>0, <1>1 DEF Invoke, AnswerOf, TypeOK
  <2> QED
    BY <1>1, <2>1, <2>2, <2>3 DEF Invoke, Abstract!Invoke
<1>2. ASSUME NEW c \in Clients, Refuse(c) \/ AcquirePoisoned(c)
      PROVE  Abstract!Fail(c)
  <2>1. Visible' = Visible
    BY <1>0, <1>2 DEF Refuse, AcquirePoisoned, Visible, Retaining, TypeOK
  <2>2. Stage[c] = "pending" /\ Stage' = [Stage EXCEPT ![c] = "answered"]
    BY <1>0, <1>2 DEF Refuse, AcquirePoisoned, StageOf, TypeOK
  <2>3. Told' = [Told EXCEPT ![c] = Err]
    BY <1>0, <1>2 DEF Refuse, AcquirePoisoned, AnswerOf, TypeOK
  <2> QED
    BY <1>2, <2>1, <2>2, <2>3
    DEF Refuse, AcquirePoisoned, Abstract!Fail, Abstract!Reply
<1>3. ASSUME NEW c \in Clients, Acquire(c) \/ SetRoom(c)
      PROVE  UNCHANGED Abstract!vars
  <2>1. Visible' = Visible
    BY <1>0, <1>3 DEF Acquire, SetRoom, Visible, Retaining, TypeOK, IInv, LockDiscipline
  <2>2. Stage' = Stage
    BY <1>0, <1>3 DEF Acquire, SetRoom, StageOf, TypeOK
  <2>3. Told' = Told
    BY <1>0, <1>3 DEF Acquire, SetRoom, AnswerOf, TypeOK
  <2> QED
    BY <1>3, <2>1, <2>2, <2>3 DEF Acquire, SetRoom, Abstract!vars
<1>4. ASSUME NEW c \in Clients, NEW what, Release(c, what), pc[c] \in {"held", "room"}
      PROVE  /\ Abstract!Reply(c, what)
             /\ ~poisoned /\ ~Refused(call[c])
             /\ Visible = entries /\ Visible' = entries'
  <2>1. ~poisoned /\ ~Refused(call[c])
    BY <1>4 DEF IInv, KnowsInside
  <2>2. Visible = entries
    BY <1>4, VisibleInside
  <2>3. Visible' = entries'
    <3>1. \A d \in Clients : pc'[d] # "retain"
      BY <1>4, StoreAssumption DEF Release, IInv, LockDiscipline
    <3> QED
      BY <1>4, <2>1, <3>1 DEF Release, Visible, Retaining
  <2>4. Stage[c] = "pending" /\ Stage' = [Stage EXCEPT ![c] = "answered"]
    BY <1>0, <1>4 DEF Release, StageOf, TypeOK
  <2>5. Told' = [Told EXCEPT ![c] = what]
    <3>1. \A d \in Clients \ {c} : pc[d] # "retain" /\ pc'[d] # "retain"
      BY <1>4, StoreAssumption DEF Release, IInv, LockDiscipline
    <3> QED
      BY <1>0, <1>4, <3>1 DEF Release, AnswerOf, TypeOK
  <2> QED
    BY <1>4, <2>1, <2>2, <2>3, <2>4, <2>5 DEF Release, Abstract!Reply
<1>5. ASSUME NEW c \in Clients, Look(c) \/ Remove(c) \/ SetFull(c) \/ SetInsert(c)
      PROVE  Abstract!Look(c) \/ Abstract!Remove(c) \/ Abstract!Set(c)
  <2>1. CASE Look(c)
    <3>1. Release(c, Read(entries, call[c])) /\ pc[c] = "held"
      BY <2>1 DEF Look
    <3> QED
      BY <1>4, <2>1, <3>1 DEF Look, Abstract!Look, Abstract!Reply
  <2>2. CASE Remove(c)
    <3>1. Release(c, Read(entries, call[c])) /\ pc[c] = "held"
      BY <2>2 DEF Remove
    <3> QED
      BY <1>4, <2>2, <3>1 DEF Remove, Abstract!Remove, Abstract!Reply
  <2>3. CASE SetFull(c)
    <3>1. Release(c, Err) /\ pc[c] = "held"
      BY <2>3 DEF SetFull
    <3> QED
      BY <1>4, <2>3, <3>1 DEF SetFull, Abstract!Set, Abstract!Reply
  <2>4. CASE SetInsert(c)
    <3>1. Release(c, Done) /\ pc[c] = "room"
      BY <2>4 DEF SetInsert
    <3>2. call[c].op = "set" /\ ~NoRoom(entries, call[c].key)
      BY <3>1 DEF IInv, KnowsInside
    <3> QED
      BY <1>4, <2>4, <3>1, <3>2 DEF SetInsert, Abstract!Set, Abstract!Reply
  <2> QED
    BY <1>5, <2>1, <2>2, <2>3, <2>4
<1>6. ASSUME NEW c \in Clients, RetainStart(c)
      PROVE  Abstract!RemovePrefix(c)
  <2>1. ~poisoned /\ ~Refused(call[c])
    BY <1>6 DEF IInv, KnowsInside, RetainStart
  <2>2. Visible = entries
    BY <1>6, VisibleInside DEF RetainStart
  <2>3. Visible' = Without(entries, Under[call[c].key])
    <3>1. pc'[c] = "retain" /\ holder = c /\ holder' = holder
      BY <1>0, <1>6 DEF RetainStart, TypeOK, IInv, LockDiscipline
    <3> QED
      BY <1>6, <2>1, <3>1 DEF RetainStart, Visible, Retaining
  <2>4. Stage[c] = "pending" /\ Stage' = [Stage EXCEPT ![c] = "answered"]
    BY <1>0, <1>6 DEF RetainStart, StageOf, TypeOK
  <2>5. Told' = [Told EXCEPT ![c] =
               <<"count", Size(entries) - Cardinality(DOMAIN entries \ Under[call[c].key])>>]
    BY <1>0, <1>6 DEF RetainStart, AnswerOf, TypeOK
  <2> QED
    BY <1>6, <2>1, <2>2, <2>3, <2>4, <2>5
    DEF RetainStart, Abstract!RemovePrefix, Abstract!Reply
<1>7. ASSUME NEW c \in Clients, NEW k \in Keys, RetainDrop(c, k)
      PROVE  UNCHANGED Abstract!vars
  <2> DEFINE U == Under[call[c].key]
  <2>1. pc[c] = "retain" /\ pc' = pc /\ call' = call /\ holder' = holder /\ poisoned' = poisoned
    BY <1>7 DEF RetainDrop
  <2>2. /\ DOMAIN entries' \ U = DOMAIN entries \ U
        /\ Without(entries', U) = Without(entries, U)
    BY <1>7 DEF RetainDrop, Without, Restrict
  <2>3. Visible' = Visible
    <3>1. Visible = Without(entries, U)
      BY <2>1, VisibleInside
    <3>2. holder = c /\ ~poisoned
      BY <2>1 DEF IInv, LockDiscipline, KnowsInside
    <3> QED
      BY <2>1, <2>2, <3>1, <3>2 DEF Visible, Retaining
  <2>4. Stage' = Stage
    BY <2>1 DEF StageOf
  <2>5. Told' = Told
    <3>1. \A d \in Clients \ {c} : pc[d] # "retain"
      BY <2>1 DEF IInv, LockDiscipline
    <3>2. AnswerOf(c)' = AnswerOf(c)
      BY <1>7, <2>1, <2>2 DEF RetainDrop, AnswerOf
    <3> QED
      BY <1>7, <2>1, <3>1, <3>2 DEF RetainDrop, AnswerOf
  <2> QED
    BY <2>1, <2>3, <2>4, <2>5 DEF Abstract!vars
<1>8. ASSUME NEW c \in Clients, RetainEnd(c)
      PROVE  UNCHANGED Abstract!vars
  <2> DEFINE U == Under[call[c].key]
  <2>1. /\ ~poisoned /\ Release(c, <<"count", before[c] - Size(entries)>>)
        /\ entries' = entries /\ pc[c] = "retain"
    BY <1>8 DEF RetainEnd, IInv, KnowsInside
  <2>2. \A d \in Clients \ {c} : pc[d] # "retain"
    BY <2>1 DEF IInv, LockDiscipline
  <2>3. Without(entries, U) = entries /\ DOMAIN entries \ U = DOMAIN entries
    BY <1>0, <1>8, RemoveNothing DEF RetainEnd, TypeOK
  <2>4. Visible' = Visible
    <3>1. ~poisoned' /\ ~Retaining'
      BY <1>0, <2>1, <2>2 DEF Release, Retaining, TypeOK
    <3> QED
      BY <2>1, <2>3, <3>1, VisibleInside DEF Visible
  <2>5. Stage' = Stage
    BY <1>0, <2>1 DEF Release, StageOf, TypeOK
  <2>6. Told' = Told
    BY <1>0, <2>1, <2>2, <2>3 DEF Release, AnswerOf, TypeOK, Size
  <2> QED
    BY <2>1, <2>4, <2>5, <2>6 DEF Release, Abstract!vars
<1>9. ASSUME NEW c \in Clients, Panic(c)
      PROVE  Abstract!Lose(c)
  <2>1. ~poisoned
    BY <1>9 DEF Panic, IInv, KnowsInside
  <2>2. Visible' = Empty
    BY <1>9 DEF Panic, Visible, Empty
  <2>3. Stage[c] \in {"pending", "answered"} /\ Stage' = [Stage EXCEPT ![c] = "answered"]
    BY <1>0, <1>9 DEF Panic, StageOf, TypeOK
  <2>4. Told' = [Told EXCEPT ![c] = Died]
    <3>1. \A d \in Clients \ {c} : pc[d] # "retain"
      BY <1>9 DEF Panic, IInv, LockDiscipline
    <3> QED
      BY <1>0, <1>9, <3>1 DEF Panic, AnswerOf, TypeOK
  <2> QED
    BY <1>9, <2>1, <2>2, <2>3, <2>4 DEF Panic, Abstract!Lose, Empty, Abstract!Empty
<1>10. ASSUME NEW c \in Clients, Return(c)
       PROVE  Abstract!Return(c)
  <2>1. Visible' = Visible
    BY <1>0, <1>10 DEF Return, Visible, Retaining, TypeOK, IInv, LockDiscipline
  <2>2. Stage[c] = "answered" /\ Stage' = [Stage EXCEPT ![c] = "idle"]
    BY <1>0, <1>10 DEF Return, StageOf, TypeOK
  <2>3. Told' = [Told EXCEPT ![c] = Unanswered]
    BY <1>0, <1>10 DEF Return, AnswerOf, TypeOK
  <2> QED
    BY <1>10, <2>1, <2>2, <2>3 DEF Return, Abstract!Return
<1>11. CASE UNCHANGED vars
  BY <1>11 DEF vars, Abstract!vars, Visible, Retaining, StageOf, AnswerOf
<1> QED
  BY <1>1, <1>2, <1>3, <1>5, <1>6, <1>7, <1>8, <1>9, <1>10, <1>11
  DEF Next, Inside, Abstract!Next

\* Scripts may take every store call for atomic: whatever the interleaving of
\* the lock's steps, and whatever a panic leaves behind, the answers are those
\* of a map whose operations happen one at a time.
THEOREM StoreIsLinearizable == Spec => Linearizable
<1>1. Init => Abstract!Init
  BY InitAbstract
<1>2. IInv /\ IInv' /\ [Next]_vars => [Abstract!Next]_(Abstract!vars)
  BY StepAbstract
<1> QED
  BY <1>1, <1>2, AlwaysIInv, PTL DEF Spec, Linearizable, Abstract!Spec
=============================================================================
