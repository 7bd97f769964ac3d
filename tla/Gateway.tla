------------------------------ MODULE Gateway -------------------------------
(***************************************************************************)
(* What the proxy promises to both sides of an exchange, whatever the      *)
(* handler is and however many calls it has under way at once.  What the   *)
(* BMC is asked carries the caller's headers and nobody else's             *)
(* credentials, and nothing is asked or awaited for a caller that was      *)
(* answered.  The caller gets one answer, and one that passes for the      *)
(* BMC's only if the BMC gave it during this exchange.                     *)
(***************************************************************************)
EXTENDS Naturals, FiniteSets

CONSTANTS
    Branches,  \* of the handler, each with a call of its own under way
    Headers,   \* the header names that occur
    Relayed,   \* those the BMC must get as the caller sent them
    Redacted,  \* those that hold credentials
    HopByHop,  \* those that frame one connection
    None

VARIABLES
    stage,     \* "idle", "serving" or "answered"
    caller,    \* the names of the headers the caller sent
    wire,      \* what the BMC was sent by each branch and has not answered, or None
    relayed,   \* an answer of the BMC is in the handler's hands
    out        \* what the caller is answered, or None

vars == <<stage, caller, wire, relayed, out>>

Faithful(headers) ==
    /\ \A name \in Relayed \cap caller :
         {p \in headers : p[1] = name} = {<<name, "caller">>}
    /\ \A p \in headers : p[1] \in Redacted => p[2] = "caller"

Framed(request) ==
    /\ request.body => Cardinality({p \in request.headers : p[1] = "content-type"}) <= 1
    /\ \A p \in request.headers : p[1] \notin HopByHop \cup {"host"}

Honest(response) ==
    /\ response.rewritten =>
         response.links = "own" /\ (response.json => response.body \in {"own", "none"})
    /\ response.length \in {None, response.body}

NoCalls == [b \in Branches |-> None]

Earned(response) == response.status = 200 /\ ~response.made => relayed

Init ==
    /\ stage = "idle"
    /\ caller = {}
    /\ wire = NoCalls
    /\ relayed = FALSE
    /\ out = None

Ask ==
    /\ stage = "idle"
    /\ stage' = "serving"
    /\ caller' \in SUBSET Headers
    /\ UNCHANGED <<wire, relayed, out>>

Send(b) ==
    /\ stage = "serving" /\ wire[b] = None
    /\ wire' = [wire EXCEPT ![b] = wire'[b]]
    /\ wire'[b] # None /\ Faithful(wire'[b].headers) /\ Framed(wire'[b])
    /\ UNCHANGED <<stage, caller, relayed, out>>

\* The handler takes the answer, or keeps what it has.
Reply(b) ==
    /\ wire[b] # None
    /\ wire' = [wire EXCEPT ![b] = None] /\ relayed' \in {relayed, TRUE}
    /\ UNCHANGED <<stage, caller, out>>

\* No answer comes; what the handler held before may be gone with it.
Lose(b) ==
    /\ wire[b] # None
    /\ wire' = [wire EXCEPT ![b] = None] /\ relayed' \in {relayed, FALSE}
    /\ UNCHANGED <<stage, caller, out>>

\* The handler has read the BMC's answer and keeps something else.
Discard ==
    /\ stage = "serving" /\ relayed
    /\ relayed' = FALSE
    /\ UNCHANGED <<stage, caller, wire, out>>

\* Calls still under way end with the handler.
Answer ==
    /\ stage = "serving"
    /\ out' # None /\ Honest(out') /\ Earned(out')
    /\ stage' = "answered" /\ caller' = {} /\ wire' = NoCalls /\ relayed' = FALSE

\* The caller has its answer, or hangs up before.
Leave ==
    /\ stage # "idle"
    /\ stage' = "idle" /\ caller' = {} /\ wire' = NoCalls /\ relayed' = FALSE /\ out' = None

Next ==
    \/ Ask
    \/ \E b \in Branches : Send(b) \/ Reply(b) \/ Lose(b)
    \/ Discard \/ Answer \/ Leave

Spec == Init /\ [][Next]_vars
=============================================================================
