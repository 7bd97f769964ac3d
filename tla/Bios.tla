-------------------------------- MODULE Bios --------------------------------
(***************************************************************************)
(* The scripts that stand between a caller's spelling of the BIOS settings *)
(* and the firmware's (bios.rn, bios_settings.rn, bios_sd.rn and           *)
(* bios_reset_bios.rn).  Firmware routes case sensitively and knows one of *)
(* "BIOS" and "Bios"; a script that meets a 404 may try the other.         *)
(*                                                                         *)
(* Two of these may be in flight at once; each awaits the BMC at every     *)
(* attempt, and any attempt can be refused, fail with or without having    *)
(* reached the BMC, or be cut by its caller hanging up.                    *)
(***************************************************************************)
EXTENDS Naturals, Sequences

CONSTANTS
    Clients,    \* the callers, one exchange each at a time
    Values,     \* the pending attributes a caller may write
    Initial,    \* the pending attributes before any write
    None

ASSUME BiosAssumption ==
    /\ Initial \in Values
    /\ None \notin Values

VARIABLES
    spelling,  \* the firmware's, for good
    flaky,     \* the BMC may refuse what it could serve, and answers get lost
    pending,   \* the BMC's pending settings
    pc,        \* per client: "idle", "waiting" or "answered"
    req,       \* per client: the script, the method and the value written
    tries,     \* per client: the attempts it has left, the current one first
    status,    \* per client: what it was answered, 0 for nothing
    shown,     \* per client: the pending settings a read answered, or None
    acts,      \* history, per client: how often the BMC acted on its write
    seen       \* history, per client: the settings pending since it began

firmware == <<spelling, flaky>>
vars == <<firmware, pending, pc, req, tries, status, shown, acts, seen>>

Spellings == {"BIOS", "Bios"}

Requests ==
    [script: {"bios", "bios_settings", "bios_sd"}, method: {"PATCH"}, value: Values]
      \cup [script: {"bios_settings", "bios_sd"}, method: {"GET"}, value: {None}]
      \cup [script: {"bios_reset_bios"}, method: {"POST"}, value: {Initial}]

Tries == [spelling: Spellings, how: {"forward", "forward_with"}]

Try(name, how) == [spelling |-> name, how |-> how]

\* Mutant: bios_sd asks for the spelling its own path has.
AttemptsAsAsked(r) ==
    IF r.script = "bios" THEN <<Try("BIOS", "forward_with"), Try("Bios", "forward_with")>>
    ELSE IF r.script = "bios_settings" THEN <<Try("Bios", "forward"), Try("BIOS", "forward_with")>>
    ELSE <<Try("Bios", "forward_with")>>

\* forward() relays the caller's own path; forward_with() a path the script sets.
Attempts(r) ==
    IF r.script = "bios" THEN <<Try("BIOS", "forward_with"), Try("Bios", "forward_with")>>
    ELSE IF r.script = "bios_settings" THEN <<Try("Bios", "forward"), Try("BIOS", "forward_with")>>
    ELSE <<Try("BIOS", "forward_with")>>

Init ==
    /\ spelling \in Spellings
    /\ flaky \in BOOLEAN
    /\ pending = Initial
    /\ pc = [c \in Clients |-> "idle"]
    /\ req = [c \in Clients |-> None]
    /\ tries = [c \in Clients |-> <<>>]
    /\ status = [c \in Clients |-> 0]
    /\ shown = [c \in Clients |-> None]
    /\ acts = [c \in Clients |-> 0]
    /\ seen = [c \in Clients |-> {}]

Request(c, r) ==
    /\ pc[c] = "idle"
    /\ pc' = [pc EXCEPT ![c] = "waiting"]
    /\ req' = [req EXCEPT ![c] = r]
    /\ tries' = [tries EXCEPT ![c] = Attempts(r)]
    /\ seen' = [seen EXCEPT ![c] = {pending}]
    /\ UNCHANGED <<firmware, pending, status, shown, acts>>

Answer(c, code, what) ==
    /\ pc' = [pc EXCEPT ![c] = "answered"]
    /\ status' = [status EXCEPT ![c] = code]
    /\ shown' = [shown EXCEPT ![c] = what]
    /\ UNCHANGED <<firmware, req, tries>>

\* Mutant: the empty shape for a write as well.
PassOnAnyMethod(c, code) ==
    IF req[c].script = "bios_sd" THEN Answer(c, 200, Initial) ELSE Answer(c, code, None)

\* bios_sd answers a read it could not make with the empty shape, which says
\* nothing is pending; the other scripts pass the status on.
PassOn(c, code) ==
    IF req[c].script = "bios_sd" /\ req[c].method = "GET"
    THEN Answer(c, 200, Initial)
    ELSE Answer(c, code, None)

\* The BMC acts on the write in the current attempt, or has none to act on.
Act(c) ==
    IF req[c].method = "GET"
    THEN UNCHANGED <<pending, acts, seen>>
    ELSE /\ pending' = req[c].value
         /\ acts' = [acts EXCEPT ![c] = @ + 1]
         /\ seen' = [d \in Clients |-> seen[d] \cup {req[c].value}]

Known(c) == Head(tries[c]).spelling = spelling

\* 404, and the script has another spelling to try.
Retry(c) ==
    /\ pc[c] = "waiting" /\ ~Known(c)
    /\ Len(tries[c]) > 1
    /\ tries' = [tries EXCEPT ![c] = Tail(@)]
    /\ UNCHANGED <<firmware, pending, pc, req, status, shown, acts, seen>>

NotFound(c) ==
    /\ pc[c] = "waiting" /\ ~Known(c)
    /\ Len(tries[c]) = 1
    /\ PassOn(c, 404)
    /\ UNCHANGED <<pending, acts, seen>>

Served(c) ==
    /\ pc[c] = "waiting" /\ Known(c)
    /\ Act(c)
    /\ Answer(c, 200, IF req[c].method = "GET" THEN pending ELSE None)

\* The BMC knows the path and answers some status other than 2xx and 404.
RefusedByBmc(c) ==
    /\ flaky
    /\ pc[c] = "waiting" /\ Known(c)
    /\ PassOn(c, 503)
    /\ UNCHANGED <<pending, acts, seen>>

\* Mutant: any failed attempt is tried again.
TransportFailsAndRetries(c) ==
    /\ flaky
    /\ pc[c] = "waiting"
    /\ (Known(c) /\ Act(c)) \/ UNCHANGED <<pending, acts, seen>>
    /\ UNCHANGED <<firmware, pc, req, tries, status, shown>>

\* No answer, in time or at all, or one that breaks off.  The script fails,
\* except that forward() makes a status of an answer that never began, which is
\* passed on as any other.
TransportFails(c) ==
    /\ flaky
    /\ pc[c] = "waiting"
    /\ (Known(c) /\ Act(c)) \/ UNCHANGED <<pending, acts, seen>>
    /\ \/ Answer(c, 502, None)
       \/ Head(tries[c]).how = "forward" /\ PassOn(c, 504)

HangUp(c) ==
    /\ pc[c] = "waiting"
    /\ (Known(c) /\ Act(c)) \/ UNCHANGED <<pending, acts, seen>>
    /\ Answer(c, 0, None)

Leave(c) ==
    /\ pc[c] = "answered"
    /\ pc' = [pc EXCEPT ![c] = "idle"]
    /\ req' = [req EXCEPT ![c] = None]
    /\ tries' = [tries EXCEPT ![c] = <<>>]
    /\ status' = [status EXCEPT ![c] = 0]
    /\ shown' = [shown EXCEPT ![c] = None]
    /\ acts' = [acts EXCEPT ![c] = 0]
    /\ seen' = [seen EXCEPT ![c] = {}]
    /\ UNCHANGED <<firmware, pending>>

Next ==
    \E c \in Clients :
        \/ \E r \in Requests : Request(c, r)
        \/ Retry(c)
        \/ NotFound(c)
        \/ Served(c)
        \/ RefusedByBmc(c)
        \/ TransportFails(c)
        \/ HangUp(c)
        \/ Leave(c)

Spec == Init /\ [][Next]_vars

-----------------------------------------------------------------------------

TypeOK ==
    /\ spelling \in Spellings
    /\ flaky \in BOOLEAN
    /\ pending \in Values
    /\ pc \in [Clients -> {"idle", "waiting", "answered"}]
    /\ req \in [Clients -> Requests \cup {None}]
    /\ \A c \in Clients : req[c] \in Requests \/ pc[c] = "idle"
    /\ tries \in [Clients -> Seq(Tries)]
    /\ \A c \in Clients : Len(tries[c]) = 0 => pc[c] = "idle"
    /\ status \in [Clients -> {0, 200, 404, 502, 503, 504}]
    /\ shown \in [Clients -> Values \cup {None}]
    /\ acts \in [Clients -> Nat]
    /\ seen \in [Clients -> SUBSET Values]

\* A second spelling is tried only when the first reached nothing: one request
\* never makes the BMC act on its write twice, whatever got lost.
ActsAtMostOnce == \A c \in Clients : acts[c] <= 1

\* A write is acknowledged only if the BMC acted on it, under whichever
\* spelling, and one that was answered 404 was acted on under neither.
AnswersTellTheTruth ==
    \A c \in Clients : pc[c] = "answered" /\ req[c].method # "GET" =>
        /\ status[c] = 200 => acts[c] = 1
        /\ status[c] \in {404, 503} => acts[c] = 0

\* What a read of Bios/SD shows was pending on the BMC while it was made, on
\* firmware that spells the resource the way bios_sd asks for it, though other
\* callers write under either spelling meanwhile.
ShowsPending(c) ==
    pc[c] = "answered" /\ status[c] = 200 /\ req[c].script = "bios_sd" /\ req[c].method = "GET"
      => shown[c] \in seen[c]

CapitalSdShowsPending ==
    spelling = "BIOS" /\ ~flaky => \A c \in Clients : ShowsPending(c)

\* "Both verbs go to the capitalised settings resource, where bios.rn writes
\* them" (bios_sd.rn): the same of a BMC that answers all it can, whatever its
\* spelling.
SdShowsPending == ~flaky => \A c \in Clients : ShowsPending(c)
=============================================================================
