---------------------------- MODULE AtomicStore -----------------------------
(***************************************************************************)
(* What the shared store promises a script: every call takes effect at one *)
(* instant between the call and its answer, on a map that never holds more *)
(* than MaxKeys keys.  A task that panics inside a call may lose the map;  *)
(* from then on every call fails, and none is answered from what is left.  *)
(***************************************************************************)
EXTENDS StoreOps

VARIABLES
    entries,  \* the map
    lost,     \* a call panicked and took the map with it
    stage,    \* per client: "idle", "pending" or "answered"
    call,     \* per client: the call it is making, or None
    answer    \* per client: what it was told

vars == <<entries, lost, stage, call, answer>>

Empty == [k \in {} |-> None]

Init ==
    /\ entries = Empty
    /\ lost = FALSE
    /\ stage = [c \in Clients |-> "idle"]
    /\ call = [c \in Clients |-> None]
    /\ answer = [c \in Clients |-> Unanswered]

Invoke(c, what) ==
    /\ stage[c] = "idle"
    /\ stage' = [stage EXCEPT ![c] = "pending"]
    /\ call' = [call EXCEPT ![c] = what]
    /\ UNCHANGED <<entries, lost, answer>>

Reply(c, what) ==
    /\ stage[c] = "pending"
    /\ stage' = [stage EXCEPT ![c] = "answered"]
    /\ answer' = [answer EXCEPT ![c] = what]
    /\ UNCHANGED <<lost, call>>

Fail(c) ==
    /\ stage[c] = "pending"
    /\ Refused(call[c]) \/ lost
    /\ Reply(c, Err)
    /\ UNCHANGED entries

Look(c) ==
    /\ stage[c] = "pending" /\ ~lost /\ ~Refused(call[c])
    /\ call[c].op \in {"get", "get_or", "contains"}
    /\ Reply(c, Read(entries, call[c]))
    /\ UNCHANGED entries

Remove(c) ==
    /\ stage[c] = "pending" /\ ~lost /\ ~Refused(call[c])
    /\ call[c].op = "remove"
    /\ Reply(c, Read(entries, call[c]))
    /\ entries' = Without(entries, {call[c].key})

Set(c) ==
    /\ stage[c] = "pending" /\ ~lost /\ ~Refused(call[c])
    /\ call[c].op = "set"
    /\ IF NoRoom(entries, call[c].key)
       THEN Reply(c, Err) /\ UNCHANGED entries
       ELSE /\ Reply(c, Done)
            /\ entries' = With(entries, call[c].key, call[c].value)

RemovePrefix(c) ==
    /\ stage[c] = "pending" /\ ~lost /\ ~Refused(call[c])
    /\ call[c].op = "remove_prefix"
    /\ entries' = Without(entries, Under[call[c].key])
    /\ Reply(c, <<"count", Size(entries) - Cardinality(DOMAIN entries \ Under[call[c].key])>>)

\* The caller panics before it is answered, and the map is lost.
Lose(c) ==
    /\ ~lost
    /\ stage[c] \in {"pending", "answered"}
    /\ lost' = TRUE
    /\ entries' = Empty
    /\ stage' = [stage EXCEPT ![c] = "answered"]
    /\ answer' = [answer EXCEPT ![c] = Died]
    /\ UNCHANGED call

Return(c) ==
    /\ stage[c] = "answered"
    /\ stage' = [stage EXCEPT ![c] = "idle"]
    /\ call' = [call EXCEPT ![c] = None]
    /\ answer' = [answer EXCEPT ![c] = Unanswered]
    /\ UNCHANGED <<entries, lost>>

Next ==
    \E c \in Clients :
        \/ \E what \in Calls : Invoke(c, what)
        \/ Fail(c)
        \/ Look(c)
        \/ Remove(c)
        \/ Set(c)
        \/ RemovePrefix(c)
        \/ Lose(c)
        \/ Return(c)

Spec == Init /\ [][Next]_vars
=============================================================================
