-------------------------------- MODULE Store -------------------------------
(***************************************************************************)
(* script_store.rs as it runs: one map for the process behind one Mutex,   *)
(* and any number of request tasks inside it.  A call is checked before    *)
(* the lock, waits for it, works step by step while holding it, and drops  *)
(* the guard as it returns.  No store function awaits, so a caller that    *)
(* hangs up never cuts one short; a panic can, and poisons the lock.       *)
(*                                                                         *)
(* `entries` is the HashMap itself, half-removed states included: retain   *)
(* drops one key at a time.  That nobody sees those is what refining       *)
(* AtomicStore means.                                                      *)
(***************************************************************************)
EXTENDS StoreOps

VARIABLES
    entries,   \* Store::entries, the map under the lock
    holder,    \* the client holding the MutexGuard, or None
    poisoned,  \* the Mutex was poisoned by a holder's panic
    pc,        \* where each client is in its call
    call,      \* the call each client is making, or None
    answer,    \* what it returns
    before     \* remove_prefix's `let before = entries.len()`

vars == <<entries, holder, poisoned, pc, call, answer, before>>

Empty == [k \in {} |-> None]

Init ==
    /\ entries = Empty
    /\ holder = None
    /\ poisoned = FALSE
    /\ pc = [c \in Clients |-> "idle"]
    /\ call = [c \in Clients |-> None]
    /\ answer = [c \in Clients |-> Unanswered]
    /\ before = [c \in Clients |-> 0]

\* A script calls one of the functions store_module installs.
Invoke(c, what) ==
    /\ pc[c] = "idle"
    /\ pc' = [pc EXCEPT ![c] = "called"]
    /\ call' = [call EXCEPT ![c] = what]
    /\ UNCHANGED <<entries, holder, poisoned, answer, before>>

\* check_key(key)?, and set's serialisability and size checks.
Refuse(c) ==
    /\ pc[c] = "called"
    /\ Refused(call[c])
    /\ pc' = [pc EXCEPT ![c] = "answered"]
    /\ answer' = [answer EXCEPT ![c] = Err]
    /\ UNCHANGED <<entries, holder, poisoned, call, before>>

\* Mutant: a lock that lets a second holder in.
AcquireAnyway(c) ==
    /\ pc[c] = "called"
    /\ ~Refused(call[c])
    /\ ~poisoned
    /\ holder' = c
    /\ pc' = [pc EXCEPT ![c] = "held"]
    /\ UNCHANGED <<entries, poisoned, call, answer, before>>

\* Mutant: lock().unwrap_or_else(PoisonError::into_inner).
AcquireThroughPoison(c) ==
    /\ pc[c] = "called"
    /\ ~Refused(call[c])
    /\ holder = None
    /\ holder' = c
    /\ pc' = [pc EXCEPT ![c] = "held"]
    /\ UNCHANGED <<entries, poisoned, call, answer, before>>

\* entries.lock() is Ok.
Acquire(c) ==
    /\ pc[c] = "called"
    /\ ~Refused(call[c])
    /\ holder = None /\ ~poisoned
    /\ holder' = c
    /\ pc' = [pc EXCEPT ![c] = "held"]
    /\ UNCHANGED <<entries, poisoned, call, answer, before>>

\* entries.lock() is Err: the guard inside the error is dropped at once.
AcquirePoisoned(c) ==
    /\ pc[c] = "called"
    /\ ~Refused(call[c])
    /\ holder = None /\ poisoned
    /\ pc' = [pc EXCEPT ![c] = "answered"]
    /\ answer' = [answer EXCEPT ![c] = Err]
    /\ UNCHANGED <<entries, holder, poisoned, call, before>>

\* The function returns: its answer is computed and the guard is dropped.
Release(c, what) ==
    /\ holder' = None
    /\ pc' = [pc EXCEPT ![c] = "answered"]
    /\ answer' = [answer EXCEPT ![c] = what]
    /\ UNCHANGED <<poisoned, call>>

\* get, get_or and contains.
Look(c) ==
    /\ pc[c] = "held"
    /\ call[c].op \in {"get", "get_or", "contains"}
    /\ Release(c, Read(entries, call[c]))
    /\ UNCHANGED <<entries, before>>

Remove(c) ==
    /\ pc[c] = "held"
    /\ call[c].op = "remove"
    /\ Release(c, Read(entries, call[c]))
    /\ entries' = Without(entries, {call[c].key})
    /\ UNCHANGED before

\* set: entries.len() >= MAX_KEYS && !entries.contains_key(key).
SetFull(c) ==
    /\ pc[c] = "held"
    /\ call[c].op = "set"
    /\ NoRoom(entries, call[c].key)
    /\ Release(c, Err)
    /\ UNCHANGED <<entries, before>>

\* Mutant: set checks under one guard and inserts under another.
SetRoomUnlocking(c) ==
    /\ pc[c] = "held"
    /\ call[c].op = "set"
    /\ ~NoRoom(entries, call[c].key)
    /\ pc' = [pc EXCEPT ![c] = "room"]
    /\ holder' = None
    /\ UNCHANGED <<entries, poisoned, call, answer, before>>

SetRoom(c) ==
    /\ pc[c] = "held"
    /\ call[c].op = "set"
    /\ ~NoRoom(entries, call[c].key)
    /\ pc' = [pc EXCEPT ![c] = "room"]
    /\ UNCHANGED <<entries, holder, poisoned, call, answer, before>>

\* set: entries.insert(key, json).
SetInsert(c) ==
    /\ pc[c] = "room"
    /\ entries' = With(entries, call[c].key, call[c].value)
    /\ Release(c, Done)
    /\ UNCHANGED before

\* remove_prefix: `before` is read and retain starts walking the map.
RetainStart(c) ==
    /\ pc[c] = "held"
    /\ call[c].op = "remove_prefix"
    /\ pc' = [pc EXCEPT ![c] = "retain"]
    /\ before' = [before EXCEPT ![c] = Size(entries)]
    /\ UNCHANGED <<entries, holder, poisoned, call, answer>>

RetainDrop(c, k) ==
    /\ pc[c] = "retain"
    /\ k \in DOMAIN entries \cap Under[call[c].key]
    /\ entries' = Without(entries, {k})
    /\ UNCHANGED <<holder, poisoned, pc, call, answer, before>>

RetainEnd(c) ==
    /\ pc[c] = "retain"
    /\ DOMAIN entries \cap Under[call[c].key] = {}
    /\ Release(c, <<"count", before[c] - Size(entries)>>)
    /\ before' = [before EXCEPT ![c] = 0]
    /\ UNCHANGED entries

\* Mutant: a panic that leaks the guard.
PanicKeepingTheLock(c) ==
    /\ pc[c] \in {"held", "room", "retain"}
    /\ pc' = [pc EXCEPT ![c] = "answered"]
    /\ answer' = [answer EXCEPT ![c] = Died]
    /\ before' = [before EXCEPT ![c] = 0]
    /\ UNCHANGED <<entries, holder, poisoned, call>>

\* The holder panics: unwinding drops the guard and poisons the lock, the task
\* is gone, and the map stays as the panic left it.
Panic(c) ==
    /\ pc[c] \in {"held", "room", "retain"}
    /\ poisoned' = TRUE
    /\ holder' = None
    /\ pc' = [pc EXCEPT ![c] = "answered"]
    /\ answer' = [answer EXCEPT ![c] = Died]
    /\ before' = [before EXCEPT ![c] = 0]
    /\ UNCHANGED <<entries, call>>

\* The script goes on with the answer, and may call again.
Return(c) ==
    /\ pc[c] = "answered"
    /\ pc' = [pc EXCEPT ![c] = "idle"]
    /\ call' = [call EXCEPT ![c] = None]
    /\ answer' = [answer EXCEPT ![c] = Unanswered]
    /\ UNCHANGED <<entries, holder, poisoned, before>>

\* What a client inside the lock does next; none of it waits.
Inside(c) ==
    \/ Look(c)
    \/ Remove(c)
    \/ SetFull(c)
    \/ SetRoom(c)
    \/ SetInsert(c)
    \/ RetainStart(c)
    \/ \E k \in Keys : RetainDrop(c, k)
    \/ RetainEnd(c)

Next ==
    \E c \in Clients :
        \/ \E what \in Calls : Invoke(c, what)
        \/ Refuse(c)
        \/ Acquire(c)
        \/ AcquirePoisoned(c)
        \/ Inside(c)
        \/ Panic(c)
        \/ Return(c)

Spec == Init /\ [][Next]_vars

\* A running thread leaves the lock: no store function blocks or awaits while
\* it holds the guard.  Nothing is assumed about who gets the lock next.
Fairness == \A c \in Clients : WF_vars(Inside(c))

LiveSpec == Spec /\ Fairness

-----------------------------------------------------------------------------

Stages == {"idle", "called", "held", "room", "retain", "answered"}

\* The map holds accepted keys and values only, and every other variable has
\* the shape the code gives it.
TypeOK ==
    /\ DOMAIN entries \subseteq Keys
    /\ entries \in [DOMAIN entries -> Values]
    /\ holder \in Clients \cup {None}
    /\ poisoned \in BOOLEAN
    /\ pc \in [Clients -> Stages]
    /\ call \in [Clients -> Calls \cup {None}]
    /\ answer \in [Clients -> Answers]
    /\ before \in [Clients -> Nat]

Locked(c) == pc[c] \in {"held", "room", "retain"}

\* Only the client holding the Mutex is between the lock and the answer, and
\* the Mutex is never left held by a client that has gone.
LockDiscipline == \A c \in Clients : Locked(c) <=> holder = c

\* MAX_KEYS holds at every instant: the room a set found in the map is still
\* there when it inserts, whatever the other clients do between.
WithinCapacity == Size(entries) <= MaxKeys

\* What a client inside the lock knows: its call passed the checks, nobody has
\* poisoned the lock, and a set that saw room for its key still has it.
KnowsInside(c) ==
    /\ ~poisoned /\ ~Refused(call[c])
    /\ pc[c] = "room" => call[c].op = "set" /\ ~NoRoom(entries, call[c].key)
    /\ pc[c] = "retain" => call[c].op = "remove_prefix"

\* The strengthening that makes the three invariants above inductive.
IInv ==
    /\ TypeOK
    /\ LockDiscipline
    /\ WithinCapacity
    /\ IsFiniteSet(DOMAIN entries)
    /\ \A c \in Clients : pc[c] # "idle" => call[c] \in Calls
    /\ \A c \in Clients : Locked(c) => KnowsInside(c)

\* Scripts cannot tell the lock's steps apart: each call takes effect at one
\* instant, and a map a panic left half changed is never read again.
Retaining == \E c \in Clients : pc[c] = "retain"

StageOf(c) ==
    IF pc[c] = "idle" THEN "idle"
    ELSE IF pc[c] \in {"retain", "answered"} THEN "answered"
    ELSE "pending"

AnswerOf(c) ==
    IF pc[c] = "retain"
    THEN <<"count", before[c] - Cardinality(DOMAIN entries \ Under[call[c].key])>>
    ELSE answer[c]

Visible ==
    IF poisoned THEN Empty
    ELSE IF Retaining THEN Without(entries, Under[call[holder].key])
    ELSE entries

Abstract == INSTANCE AtomicStore WITH
    entries <- Visible,
    lost <- poisoned,
    stage <- [c \in Clients |-> StageOf(c)],
    answer <- [c \in Clients |-> AnswerOf(c)]

Linearizable == Abstract!Spec

\* Whoever holds the lock gives it up: no call waits for ever behind another.
LockComesFree == \A c \in Clients : holder = c ~> holder # c
=============================================================================
