------------------------------ MODULE Exchange ------------------------------
(***************************************************************************)
(* One exchange: the caller's request, the bmc::* calls its handler makes, *)
(* one after the other or at once in the branches of a join or a select,   *)
(* and the answer the handler ends with (script_bmc.rs, http.rs, and       *)
(* execute and finish_* of rune_host.rs).                                  *)
(*                                                                         *)
(* A header map is a set of pairs of a name and who put the value there,   *)
(* so an append is a union and an insert replaces; what one sender repeats *)
(* under one name counts once.  A body is what became of it: "bmc" holds   *)
(* links to the BMC, "own" holds none, "compressed" is JSON under an       *)
(* encoding nothing here undoes.  The handler is any program over the API, *)
(* seen through the request it sends next and the response it ends with;   *)
(* the BMC answers anything, breaks off anywhere, or falls silent for      *)
(* ever.                                                                   *)
(***************************************************************************)
EXTENDS Naturals, FiniteSets

CONSTANTS
    Headers,     \* the header names that occur
    Callers,     \* the sets of them that callers send
    ScriptSets,  \* those the handler tries to set
    Branches,    \* of a handler: the calls that may be under way at once
    MaxCalls,    \* bound: requests one handler begins or forwards
    None

HopByHop == {"connection", "te", "transfer-encoding", "proxy-authorization"}
Redacted == {"authorization", "proxy-authorization", "x-auth-token", "cookie", "set-cookie"}
Relayed == {"authorization", "x-auth-token", "odata-version"}

HeaderMaps == SUBSET ((Headers \cup {"content-type"}) \X {"caller", "script", "default"})

\* A BmcRequest, what goes out, and a Forwarded or ScriptResponse.
Requests == [headers: HeaderMaps, body: BOOLEAN, type: {"caller", "script", None}]

Sent == [headers: HeaderMaps, body: BOOLEAN]

Bodies == {"none", "bmc", "own", "compressed"}

Responses ==
    [status: {200, 502, 504}, json: BOOLEAN, streaming: BOOLEAN, body: Bodies,
     links: {"bmc", "own"}, length: Bodies \cup {None}, rewritten: BOOLEAN,
     made: BOOLEAN]

ASSUME ExchangeAssumption ==
    /\ Callers \subseteq SUBSET Headers
    /\ ScriptSets \subseteq Headers
    /\ MaxCalls \in Nat
    /\ None \notin Requests \cup Sent \cup Responses

VARIABLES
    at,        \* where the exchange is, see Places
    caller,    \* the names of the headers the caller sent
    upload,    \* the caller sent a body
    building,  \* the BmcRequest the handler holds, or None
    wire,      \* what the BMC is sent by each branch, until it answers, or None
    how,       \* the call each branch awaits, or "none"
    coming,    \* the response whose body each branch is reading, or None
    held,      \* the Forwarded or ScriptResponse the handler holds, or None
    out,       \* what the caller is answered, or None
    calls

vars == <<at, caller, upload, building, wire, how, coming, held, out, calls>>

\* "handler" runs; "erred" has an Err in its hands; in "relaying" it has gone and its
\* answer still streams.
Places == {"idle", "handler", "erred", "relaying", "answered"}

NamesIn(headers) == {p[1] : p \in headers}
Insert(headers, new) == {p \in headers : p[1] \notin NamesIn(new)} \cup new

\* The caller's own header map.
Parts == {<<name, "caller">> : name \in caller}

\* copy_end_to_end
EndToEnd(headers) == {p \in headers : p[1] \notin HopByHop \cup {"host", "accept-encoding"}}

ScriptMaySet(name) == name \notin Redacted \cup HopByHop \cup {"host", "content-length"}

NoCalls == [b \in Branches |-> None]
Nothing == [b \in Branches |-> "none"]

Init ==
    /\ at = "idle"
    /\ caller = {}
    /\ upload = FALSE
    /\ building = None
    /\ wire = NoCalls
    /\ how = Nothing
    /\ coming = NoCalls
    /\ held = None
    /\ out = None
    /\ calls = 0

\* execute builds the context and starts the handler.
Execute ==
    /\ at = "idle"
    /\ at' = "handler"
    /\ caller' \in Callers
    /\ upload' \in BOOLEAN
    /\ UNCHANGED <<building, wire, how, coming, held, out, calls>>

-----------------------------------------------------------------------------
(* A request the handler assembles.                                        *)

Begun == calls < MaxCalls /\ calls' = calls + 1

\* bmc::inbound
Inbound ==
    /\ at = "handler" /\ Begun
    /\ building' = [headers |-> {p \in Parts : ScriptMaySet(p[1])},
                    body |-> upload,
                    type |-> IF "content-type" \in caller THEN "caller" ELSE None]
    /\ UNCHANGED <<at, caller, upload, wire, how, coming, held, out>>

\* bmc::request
Blank ==
    /\ at = "handler" /\ Begun
    /\ building' = [headers |-> {}, body |-> FALSE, type |-> None]
    /\ UNCHANGED <<at, caller, upload, wire, how, coming, held, out>>

\* .json, .text and .base64 set a body, and its type if none is set.
SetBody ==
    /\ at = "handler" /\ building # None
    /\ building' = [building EXCEPT !.body = TRUE,
                                    !.type = IF @ = None THEN "script" ELSE @]
    /\ UNCHANGED <<at, caller, upload, wire, how, coming, held, out, calls>>

\* .content_type overrides the type.
Retype ==
    /\ at = "handler" /\ building # None
    /\ building' = [building EXCEPT !.type = "script"]
    /\ UNCHANGED <<at, caller, upload, wire, how, coming, held, out, calls>>

\* .header
Header(name) ==
    /\ at = "handler" /\ building # None
    /\ ScriptMaySet(name)
    /\ building' = [building EXCEPT !.headers = @ \cup {<<name, "script">>}]
    /\ UNCHANGED <<at, caller, upload, wire, how, coming, held, out, calls>>

\* .header refuses a name, .path a path that is not absolute, .json and .base64
\* what they cannot encode; the request is consumed.
Misbuild ==
    /\ at = "handler" /\ building # None
    /\ building' = None
    /\ at' = "erred"
    /\ UNCHANGED <<caller, upload, wire, how, coming, held, out, calls>>

-----------------------------------------------------------------------------
(* The calls that reach the BMC.                                           *)

Call(b, what, headers, body) ==
    /\ how[b] = "none"
    /\ how' = [how EXCEPT ![b] = what]
    /\ wire' = [wire EXCEPT ![b] = [headers |-> headers, body |-> body]]

\* bmc::forward sends the caller's own request.
Forward(b) ==
    /\ at = "handler" /\ Begun
    /\ Call(b, "forward", EndToEnd(Parts), upload)
    /\ UNCHANGED <<at, caller, upload, building, coming, held, out>>

\* Mutant: the script's headers go on last.
DispatchedScriptLast(request) ==
    Insert({p \in Parts : p[1] \in Relayed}, {p \in request.headers : ScriptMaySet(p[1])})

\* Mutant: the type of the body is appended, as reqwest's builder would.
DispatchedAppending(request) ==
    LET scripts == {p \in request.headers : ScriptMaySet(p[1])}
        relayed == Insert(scripts, {p \in Parts : p[1] \in Relayed})
        type == IF request.type = None THEN "default" ELSE request.type
    IN  IF request.body THEN relayed \cup {<<"content-type", type>>} ELSE relayed

\* dispatch: the script's headers, then those relayed from the caller, then
\* the type of the body.
Dispatched(request) ==
    LET scripts == {p \in request.headers : ScriptMaySet(p[1])}
        relayed == Insert(scripts, {p \in Parts : p[1] \in Relayed})
        type == IF request.type = None THEN "default" ELSE request.type
    IN  IF request.body THEN Insert(relayed, {<<"content-type", type>>}) ELSE relayed

\* .send reads the reply whole, bmc::forward_with classifies it as forward does.
Dispatch(b, what) ==
    /\ at = "handler" /\ building # None
    /\ Call(b, what, Dispatched(building), building.body)
    /\ building' = None
    /\ UNCHANGED <<at, caller, upload, coming, held, out, calls>>

\* The call of a branch returns; of two responses the handler goes on with either.
Return(b) == how' = [how EXCEPT ![b] = "none"]
Handed(response) == held' \in {held, response}

\* The head of the BMC's reply arrives.  .send reads any body whole;
\* into_forwarded holds a body that is declared JSON and lets any other stream.
\* Content-Length is end to end.
Reply(b, json, body) ==
    /\ wire[b] # None
    /\ body = "compressed" => json /\ "accept-encoding" \in NamesIn(wire[b].headers)
    /\ \E length \in {None, body} :
         LET response == [status |-> 200, json |-> json, streaming |-> ~json, body |-> body,
                          links |-> "bmc", length |-> length, rewritten |-> FALSE,
                          made |-> FALSE]
         IN  IF json \/ how[b] = "send"
             THEN coming' = [coming EXCEPT ![b] = response] /\ UNCHANGED <<held, how>>
             ELSE Return(b) /\ Handed(response) /\ UNCHANGED coming
    /\ wire' = [wire EXCEPT ![b] = None]
    /\ UNCHANGED <<at, caller, upload, building, out, calls>>

\* The rest of it arrives; what .send got is read, not returned.
BodyRead(b) ==
    /\ coming[b] # None
    /\ coming' = [coming EXCEPT ![b] = None]
    /\ Return(b)
    /\ IF how[b] = "send" THEN UNCHANGED held ELSE Handed([coming[b] EXCEPT !.streaming = FALSE])
    /\ UNCHANGED <<at, caller, upload, building, wire, out, calls>>

\* No head, because the connection failed or target.timeout ran out: forward
\* answers a response of its own, every other call an Err.  The error text
\* names the BMC.
GatewayFailure(status) ==
    [status |-> status, json |-> TRUE, streaming |-> FALSE, body |-> "bmc",
     links |-> "own", length |-> None, rewritten |-> FALSE, made |-> FALSE]

SendFails(b, timeout) ==
    /\ wire[b] # None
    /\ IF how[b] = "forward"
       THEN Handed(GatewayFailure(IF timeout THEN 504 ELSE 502)) /\ UNCHANGED at
       ELSE at' = "erred" /\ UNCHANGED held
    /\ wire' = [wire EXCEPT ![b] = None]
    /\ Return(b)
    /\ UNCHANGED <<caller, upload, building, coming, out, calls>>

\* Mutant: a broken body is handed on as if it were still coming.
BodyFailsUnnoticed(b) ==
    /\ coming[b] # None
    /\ Return(b) /\ Handed(coming[b])
    /\ UNCHANGED <<at, caller, upload, building, wire, coming, out, calls>>

\* Mutant: no timeout on the body of a stream that is being buffered.
BodyFailsUnlessBuffering(b) ==
    /\ coming[b] # None /\ how[b] # "buffer"
    /\ at' = "erred"
    /\ coming' = [coming EXCEPT ![b] = None]
    /\ Return(b)
    /\ UNCHANGED <<caller, upload, building, wire, held, out, calls>>

\* The body breaks off, or target.timeout, which runs from the connect to the
\* last byte, ends it.
BodyFails(b) ==
    /\ coming[b] # None
    /\ at' = "erred"
    /\ coming' = [coming EXCEPT ![b] = None]
    /\ Return(b)
    /\ UNCHANGED <<caller, upload, building, wire, held, out, calls>>

-----------------------------------------------------------------------------
(* What the handler does with a response, and how it ends.                 *)

\* resp::json or resp::text, of what the handler made up or read off the BMC.
Build(json, body) ==
    /\ at = "handler"
    /\ body = "none" => ~json
    /\ held' = [status |-> 200, json |-> json, streaming |-> FALSE, body |-> body,
                links |-> "own", length |-> None, rewritten |-> FALSE, made |-> TRUE]
    /\ UNCHANGED <<at, caller, upload, building, wire, how, coming, out, calls>>

\* .with_header of a response the handler made, with a link to the BMC in it;
\* a length it sets is replaced at the end.
WithHeader ==
    /\ at = "handler" /\ held # None
    /\ held.made
    /\ held' = [held EXCEPT !.links = "bmc", !.rewritten = FALSE]
    /\ UNCHANGED <<at, caller, upload, building, wire, how, coming, out, calls>>

\* .buffer consumes the response until it has the body.
Buffer(b) ==
    /\ at = "handler" /\ held # None
    /\ held.streaming /\ how[b] = "none"
    /\ how' = [how EXCEPT ![b] = "buffer"]
    /\ coming' = [coming EXCEPT ![b] = held]
    /\ held' = None
    /\ UNCHANGED <<at, caller, upload, building, wire, out, calls>>

\* rewrite_json parses a body that is declared JSON and not empty, and refuses
\* one it cannot read; whatever else is held passes untouched.
Unreadable(response) == response.json /\ response.body = "compressed"

RewrittenBody(response) ==
    IF response.json /\ ~response.streaming /\ response.body # "none" THEN "own" ELSE response.body

\* Mutant: a body that cannot be parsed is skipped, not refused.
RewriteSkipping ==
    /\ at = "handler" /\ held # None
    /\ held' = [held EXCEPT !.links = "own", !.rewritten = TRUE,
                            !.body = IF Unreadable(held) THEN @ ELSE RewrittenBody(held)]
    /\ UNCHANGED <<at, caller, upload, building, wire, how, coming, out, calls>>

Rewrite ==
    /\ at = "handler" /\ held # None
    /\ IF Unreadable(held)
       THEN at' = "erred" /\ held' = None
       ELSE /\ held' = [held EXCEPT !.links = "own", !.body = RewrittenBody(held), !.rewritten = TRUE]
            /\ UNCHANGED at
    /\ UNCHANGED <<caller, upload, building, wire, how, coming, out, calls>>

\* The handler is over, and with it its context, all it holds and the branches that a
\* select did not wait for.
Dropped ==
    /\ caller' = {} /\ upload' = FALSE
    /\ building' = None /\ wire' = NoCalls
    /\ how' = Nothing
    /\ coming' = NoCalls /\ held' = None
    /\ calls' = 0

\* Mutant: the length the BMC declared, after a rewrite too.
FinishedAsIs(response) == response

\* finish_forwarded and finish_script_response declare the length of what they
\* hold; a streamed body keeps the length the BMC declared.
Finished(response) ==
    IF response.streaming THEN response ELSE [response EXCEPT !.length = response.body]

Finish ==
    /\ at = "handler" /\ held # None
    /\ at' = IF held.streaming THEN "relaying" ELSE "answered"
    /\ out' = Finished(held)
    /\ Dropped

\* The stream ends, or is broken off by the BMC or by target.timeout.
StreamEnds ==
    /\ at = "relaying"
    /\ at' = "answered"
    /\ UNCHANGED <<caller, upload, building, wire, how, coming, held, out, calls>>

\* An Err the handler does not pass on with `?`.
Recover ==
    /\ at = "erred"
    /\ at' = "handler"
    /\ UNCHANGED <<caller, upload, building, wire, how, coming, held, out, calls>>

\* Mutant: what failed is answered as if the request had been forwarded.
FailForwarding ==
    /\ at \in {"handler", "erred"}
    /\ at' = "answered"
    /\ out' = Finished([GatewayFailure(502) EXCEPT !.status = 200])
    /\ Dropped

\* The handler ends with an Err, panics, or returns nothing of use: run_script
\* answers 502 and never forwards in its stead.
Fail ==
    /\ at \in {"handler", "erred"}
    /\ at' = "answered"
    /\ out' = Finished(GatewayFailure(502))
    /\ Dropped

\* The answer is read, or the caller hangs up and the handler is dropped.
Leave ==
    /\ at # "idle"
    /\ at' = "idle"
    /\ out' = None
    /\ Dropped

\* What the timeout of the upstream client ends, of each request for itself.
TimedOut(b) == SendFails(b, TRUE) \/ BodyFails(b)

Next ==
    \/ Execute
    \/ Inbound
    \/ Blank
    \/ SetBody
    \/ Retype
    \/ \E name \in ScriptSets : Header(name)
    \/ Misbuild
    \/ \E b \in Branches :
         \/ Forward(b)
         \/ \E what \in {"send", "forward_with"} : Dispatch(b, what)
         \/ \E json \in BOOLEAN, body \in {"none", "bmc", "compressed"} : Reply(b, json, body)
         \/ BodyRead(b)
         \/ SendFails(b, FALSE)
         \/ TimedOut(b)
         \/ Buffer(b)
    \/ \E json \in BOOLEAN, body \in {"none", "bmc"} : Build(json, body)
    \/ WithHeader
    \/ Rewrite
    \/ Finish
    \/ StreamEnds
    \/ Recover
    \/ Fail
    \/ Leave

Spec == Init /\ [][Next]_vars

\* The client's timers run out; the BMC, the handler and the caller owe nothing.
Fairness ==
    /\ \A b \in Branches : WF_vars(TimedOut(b))
    /\ WF_vars(StreamEnds)

LiveSpec == Spec /\ Fairness

-----------------------------------------------------------------------------
(* Refinement: to the caller and the BMC an exchange is one of Gateway.    *)

Stage ==
    IF at = "idle" THEN "idle"
    ELSE IF at \in {"answered", "relaying"} THEN "answered" ELSE "serving"

\* What the handler holds, or is reading, passes for the BMC's answer.
Genuine(response) == response # None /\ response.status = 200 /\ ~response.made

Relays == Genuine(held) \/ \E b \in Branches : Genuine(coming[b])

Contract == INSTANCE Gateway WITH stage <- Stage, relayed <- Relays

\* Whatever the handler does, however many calls it has under way and however the BMC
\* fails: the BMC is asked with the caller's own headers, and nothing is asked or awaited
\* once the caller is answered; the caller gets one answer, and a 200 in the BMC's
\* name only if the BMC gave one during this very exchange and the handler still had it
\* ("Never fall through to a direct proxy, which would return unmangled data with a 200").
KeepsContract == Contract!Spec

-----------------------------------------------------------------------------

TypeOK ==
    /\ at \in Places
    /\ caller \subseteq Headers
    /\ upload \in BOOLEAN
    /\ building \in Requests \cup {None}
    /\ wire \in [Branches -> Sent \cup {None}]
    /\ how \in [Branches -> {"none", "forward", "send", "forward_with", "buffer"}]
    /\ coming \in [Branches -> Responses \cup {None}]
    /\ \A b \in Branches :
         /\ how[b] # "none" => at \in {"handler", "erred"}
         /\ how[b] = "none" <=> wire[b] = None /\ coming[b] = None
         /\ wire[b] = None \/ coming[b] = None
    /\ held \in Responses \cup {None}
    /\ out \in Responses \cup {None}
    /\ calls \in 0 .. MaxCalls

\* "A handler cannot forge or replace what Rust sends": a header the proxy
\* relays reaches the BMC exactly as the caller sent it, on every path a request
\* can take, and a credential only ever from the caller.
CallersHeadersArrive ==
    \A b \in Branches : wire[b] # None =>
        \A p \in wire[b].headers \cup Parts :
            /\ p[1] \in Relayed \cap caller =>
                 {q \in wire[b].headers : q[1] = p[1]} = {<<p[1], "caller">>}
            /\ p[1] \in Redacted => p[2] = "caller"

\* A body sent on, whether the caller's, the script's or one in place of the
\* other, declares one type, and nothing that frames one connection crosses to
\* the next.
FramedOnce ==
    \A b \in Branches : wire[b] # None =>
        /\ wire[b].body => Cardinality({p \in wire[b].headers : p[1] = "content-type"}) <= 1
        /\ NamesIn(wire[b].headers) \cap (HopByHop \cup {"host"}) = {}

\* "Serving a body the rewriter could not read is the one outcome that leaks
\* the BMC address": whatever a handler rewrote and then returned, in whatever
\* order it buffered and recovered, shows the caller no link to the BMC.
RewrittenIsClean ==
    out # None /\ out.rewritten => out.links = "own" /\ (out.json => out.body \in {"own", "none"})

\* The length the caller is told is the length of the body it is sent, also
\* when the handler rewrote it or pulled it out of a stream.
LengthIsTrue == out # None => out.length \in {None, out.body}

\* A BMC that answers nothing more, or streams for ever, holds no branch of a
\* handler and no caller longer than target.timeout, whatever other branches do.
EveryWaitEnds ==
    /\ \A b \in Branches : how[b] # "none" ~> how[b] = "none"
    /\ at = "relaying" ~> at # "relaying"

\* "Nothing here decompresses, so relaying this would invite a body the
\* rewriter cannot read" (e2e.rs, of accept-encoding).
NeverInvitesEncoding ==
    \A b \in Branches : wire[b] # None => "accept-encoding" \notin NamesIn(wire[b].headers)
=============================================================================
