------------------------------ MODULE StoreOps ------------------------------
(***************************************************************************)
(* The six operations scripts reach through the `store` module             *)
(* (script_store.rs), as data: what a call is, which calls are refused     *)
(* before the lock is taken, what a call does to the map and what it       *)
(* answers.  AtomicStore takes each operation in one step; Store takes the *)
(* steps the code takes around the lock.                                   *)
(*                                                                         *)
(* Keys and values are opaque.  A key that check_key refuses (empty, or    *)
(* over MAX_KEY_LEN) is in BadKeys, a value that set refuses (not JSON, or *)
(* over MAX_VALUE_BYTES) is in BadValues, and Under[p] is the set of keys  *)
(* for which key.starts_with(p).                                           *)
(***************************************************************************)
EXTENDS Integers, FiniteSets, Functions

CONSTANTS
    Clients,     \* the request tasks that call the store
    Keys,        \* keys check_key accepts
    BadKeys,     \* keys check_key refuses
    Values,      \* values set accepts
    BadValues,   \* values set refuses
    Prefixes,    \* arguments of remove_prefix that check_key accepts
    Under,       \* Under[p]: the keys that start with the prefix p
    MaxKeys,     \* MAX_KEYS, 1024 in the code
    None         \* no value, no call, no holder

ASSUME StoreAssumption ==
    /\ MaxKeys \in Nat
    /\ Under \in [Prefixes -> SUBSET Keys]
    /\ Keys \cap BadKeys = {}
    /\ Prefixes \cap BadKeys = {}
    /\ Values \cap BadValues = {}
    /\ None \notin Values \cup BadValues \cup Clients

Call(ops, keys, values) == [op: ops, key: keys, value: values]

Calls ==
    Call({"get", "contains", "remove"}, Keys \cup BadKeys, {None})
      \cup Call({"get_or"}, Keys \cup BadKeys, Values)
      \cup Call({"set"}, Keys \cup BadKeys, Values \cup BadValues)
      \cup Call({"remove_prefix"}, Prefixes \cup BadKeys, {None})

Err == <<"err">>          \* Err(message): the `?` of the script fails
Died == <<"died">>        \* the task panicked, nobody is told
Nothing == <<"nothing">>  \* Ok(None) of get
Done == <<"done">>        \* Ok(()) of set
Yes == <<"yes">>          \* Ok(true) of contains and remove
No == <<"no">>            \* Ok(false)
Unanswered == <<"unanswered">>

Answers ==
    {Err, Died, Nothing, Done, Yes, No, Unanswered}
      \cup ({"value"} \X Values) \cup ({"count"} \X Int)

\* Mutant: set without its checks on the value.
RefusedByKeyAlone(call) == call.key \in BadKeys

\* check_key, and the two checks set makes on its value, precede the lock.
Refused(call) ==
    \/ call.key \in BadKeys
    \/ call.op = "set" /\ call.value \in BadValues

Size(entries) == Cardinality(DOMAIN entries)

\* Overwriting an existing key is always allowed; only growth is refused.
NoRoom(entries, key) == Size(entries) >= MaxKeys /\ key \notin DOMAIN entries

With(entries, key, value) ==
    [k \in DOMAIN entries \cup {key} |-> IF k = key THEN value ELSE entries[k]]

Without(entries, keys) == Restrict(entries, DOMAIN entries \ keys)

Flag(found) == IF found THEN Yes ELSE No

\* What get, get_or and contains answer, and whether remove found its key.
Read(entries, call) ==
    IF call.op \in {"get", "get_or"}
    THEN IF call.key \in DOMAIN entries THEN <<"value", entries[call.key]>>
         ELSE IF call.op = "get" THEN Nothing ELSE <<"value", call.value>>
    ELSE Flag(call.key \in DOMAIN entries)
=============================================================================
