--------------------------- MODULE ExchangeProofs ---------------------------
(***************************************************************************)
(* Proofs about an exchange, for any header names, any handler over the    *)
(* API and any number of calls, one after the other or at once: what       *)
(* reaches the BMC is decided when the call is made, and what reaches the  *)
(* caller by a promise every response the handler holds keeps, whatever    *)
(* was done to it and in what order.                                       *)
(***************************************************************************)
EXTENDS Exchange, FiniteSetTheorems, TLAPS

\* What CallersHeadersArrive and FramedOnce ask of one request to the BMC.
Arrives(headers) ==
    \A p \in headers \cup Parts :
        /\ p[1] \in Relayed \cap caller =>
             {q \in headers : q[1] = p[1]} = {<<p[1], "caller">>}
        /\ p[1] \in Redacted => p[2] = "caller"

Framed(headers, body) ==
    /\ body => Cardinality({p \in headers : p[1] = "content-type"}) <= 1
    /\ NamesIn(headers) \cap (HopByHop \cup {"host"}) = {}

\* What every response in the handler's hands promises: rewritten, it holds no
\* link to the BMC; streaming, it is not JSON and its length is the body's.
Kept(response) ==
    /\ response.streaming => ~response.json /\ response.length \in {None, response.body}
    /\ response.rewritten =>
         response.links = "own" /\ (response.json => response.body \in {"own", "none"})

\* The inductive invariant.
IInv ==
    /\ TypeOK
    /\ \A b \in Branches : wire[b] # None =>
         Arrives(wire[b].headers) /\ Framed(wire[b].headers, wire[b].body)
    /\ held # None => Kept(held)
    /\ \A b \in Branches : coming[b] # None => Kept(coming[b])
    /\ RewrittenIsClean
    /\ LengthIsTrue

-----------------------------------------------------------------------------
(* Header maps.                                                            *)

\* What the caller sent is in its name.
LEMMA PartsMembers ==
    \A p : p \in Parts <=> \E name \in caller : p = <<name, "caller">>
BY DEF Parts

\* An insert keeps what it does not replace.
LEMMA InsertMembers ==
    ASSUME NEW headers, NEW new, NEW p
    PROVE  p \in Insert(headers, new)
             <=> p \in new \/ (p \in headers /\ \A q \in new : q[1] # p[1])
BY DEF Insert, NamesIn

\* What dispatch sends: the type of the body, what it relays from the caller,
\* and of the script's headers those that neither of them replaces.
LEMMA DispatchedMembers ==
    ASSUME NEW request \in Requests
    PROVE  \E type \in {"caller", "script", "default"} : \A p :
             p \in Dispatched(request) <=>
               \/ request.body /\ p = <<"content-type", type>>
               \/ /\ request.body => p[1] # "content-type"
                  /\ \/ p \in Parts /\ p[1] \in Relayed
                     \/ /\ p \in request.headers /\ ScriptMaySet(p[1])
                        /\ \A q \in Parts : q[1] \in Relayed => q[1] # p[1]
<1> DEFINE scripts == {p \in request.headers : ScriptMaySet(p[1])}
           own == {p \in Parts : p[1] \in Relayed}
           relayed == Insert(scripts, own)
           type == IF request.type = None THEN "default" ELSE request.type
           one == {<<"content-type", type>>}
           typed == Insert(relayed, one)
<1>1. type \in {"caller", "script", "default"}
  BY DEF Requests
<1>2. Dispatched(request) = IF request.body THEN typed ELSE relayed
  BY DEF Dispatched
<1>3. \A p : p \in relayed <=> p \in own \/ (p \in scripts /\ \A q \in own : q[1] # p[1])
  BY InsertMembers
<1>4. \A p : p \in relayed <=>
         \/ p \in Parts /\ p[1] \in Relayed
         \/ /\ p \in request.headers /\ ScriptMaySet(p[1])
            /\ \A q \in Parts : q[1] \in Relayed => q[1] # p[1]
  BY <1>3
<1> HIDE DEF relayed, type
<1>5. \A p : p \in typed <=>
         p = <<"content-type", type>> \/ (p \in relayed /\ p[1] # "content-type")
  <2>1. <<"content-type", type>>[1] = "content-type"
    OBVIOUS
  <2> HIDE DEF one
  <2>2. \A p : p \in typed <=> p \in one \/ (p \in relayed /\ \A q \in one : q[1] # p[1])
    BY InsertMembers
  <2> USE DEF one
  <2> QED
    BY <2>1, <2>2
<1> HIDE DEF typed
<1>6. request.body \in BOOLEAN
  BY DEF Requests
<1>7. CASE request.body
  BY <1>1, <1>2, <1>4, <1>5, <1>7
<1>8. CASE ~request.body
  BY <1>1, <1>2, <1>4, <1>8
<1> QED
  BY <1>6, <1>7, <1>8

\* A header map out of the caller's headers and the script's.
LEMMA HeaderMapOf ==
    ASSUME TypeOK, NEW request \in Requests
    PROVE  /\ Dispatched(request) \in HeaderMaps
           /\ EndToEnd(Parts) \in HeaderMaps
<1>1. \A p \in Parts : p \in (Headers \cup {"content-type"}) \X {"caller", "script", "default"}
  BY PartsMembers DEF TypeOK
<1>2. \A p \in request.headers :
        p \in (Headers \cup {"content-type"}) \X {"caller", "script", "default"}
  BY DEF Requests, HeaderMaps
<1>3. EndToEnd(Parts) \in HeaderMaps
  BY <1>1 DEF EndToEnd, HeaderMaps
<1>4. PICK type \in {"caller", "script", "default"} : \A p :
        p \in Dispatched(request) =>
          \/ p = <<"content-type", type>>
          \/ p \in Parts
          \/ p \in request.headers
  BY DispatchedMembers
<1>5. \A p \in Dispatched(request) :
        p \in (Headers \cup {"content-type"}) \X {"caller", "script", "default"}
  BY <1>1, <1>2, <1>4
<1> QED
  BY <1>3, <1>5 DEF HeaderMaps

\* bmc::forward sends what the caller sent, as the caller sent it.
LEMMA ForwardArrives ==
    /\ Arrives(EndToEnd(Parts))
    /\ Framed(EndToEnd(Parts), upload)
<1> DEFINE sent == EndToEnd(Parts)
<1>1. \A p : p \in sent <=>
        p \in Parts /\ p[1] \notin HopByHop \cup {"host", "accept-encoding"}
  BY DEF EndToEnd
<1>2. \A p \in Parts : p[1] \in caller /\ p[2] = "caller" /\ p = <<p[1], "caller">>
  BY PartsMembers
<1>3. \A name \in Relayed : name \notin HopByHop \cup {"host", "accept-encoding"}
  BY DEF Relayed, HopByHop
<1>4. ASSUME NEW name \in Relayed \cap caller
      PROVE  {q \in sent : q[1] = name} = {<<name, "caller">>}
  <2>1. <<name, "caller">> \in sent
    BY <1>1, <1>3, PartsMembers
  <2>2. \A q \in sent : q[1] = name => q = <<name, "caller">>
    BY <1>1, <1>2
  <2> QED
    BY <2>1, <2>2
<1>5. Arrives(sent)
  BY <1>1, <1>2, <1>4 DEF Arrives
<1>6. Cardinality({p \in sent : p[1] = "content-type"}) <= 1
  <2> DEFINE types == {p \in sent : p[1] = "content-type"}
             one == {<<"content-type", "caller">>}
  <2>1. types \subseteq one
    BY <1>1, <1>2
  <2>2. IsFiniteSet(one) /\ Cardinality(one) = 1
    BY FS_Singleton
  <2> QED
    BY <2>1, <2>2, FS_Subset, FS_CardinalityType
<1>7. NamesIn(sent) \cap (HopByHop \cup {"host"}) = {}
  BY <1>1 DEF NamesIn
<1> QED
  BY <1>5, <1>6, <1>7 DEF Framed

\* dispatch sends what it relays as the caller sent it, and one type.
LEMMA DispatchArrives ==
    ASSUME NEW request \in Requests
    PROVE  /\ Arrives(Dispatched(request))
           /\ Framed(Dispatched(request), request.body)
<1> DEFINE sent == Dispatched(request)
<1>1. PICK type \in {"caller", "script", "default"} : \A p :
        p \in sent <=>
          \/ request.body /\ p = <<"content-type", type>>
          \/ /\ request.body => p[1] # "content-type"
             /\ \/ p \in Parts /\ p[1] \in Relayed
                \/ /\ p \in request.headers /\ ScriptMaySet(p[1])
                   /\ \A q \in Parts : q[1] \in Relayed => q[1] # p[1]
  BY DispatchedMembers
<1> HIDE DEF sent
<1>2. \A p \in Parts : p[1] \in caller /\ p[2] = "caller" /\ p = <<p[1], "caller">>
  BY PartsMembers
<1>3. <<"content-type", type>>[1] = "content-type" /\ <<"content-type", type>>[2] = type
  OBVIOUS
<1>4. "content-type" \notin Relayed \cup Redacted \cup HopByHop \cup {"host"}
  BY DEF Relayed, Redacted, HopByHop
<1>5. ASSUME NEW name \in Relayed \cap caller
      PROVE  {q \in sent : q[1] = name} = {<<name, "caller">>}
  <2>1. /\ <<name, "caller">> \in Parts /\ <<name, "caller">>[1] = name
        /\ name # "content-type"
    BY <1>4, PartsMembers
  <2>2. <<name, "caller">> \in sent
    BY <1>1, <2>1
  <2>3. \A q \in sent : q[1] = name => q = <<name, "caller">>
    BY <1>1, <1>2, <1>3, <2>1
  <2> QED
    BY <2>2, <2>3
<1>6. ASSUME NEW p \in sent, p[1] \in Redacted
      PROVE  p[2] = "caller"
  BY <1>1, <1>2, <1>3, <1>4, <1>6 DEF ScriptMaySet
<1>7. Arrives(sent)
  BY <1>2, <1>5, <1>6 DEF Arrives
<1>8. ASSUME request.body
      PROVE  Cardinality({p \in sent : p[1] = "content-type"}) <= 1
  <2> DEFINE types == {p \in sent : p[1] = "content-type"}
             one == {<<"content-type", type>>}
  <2>1. types \subseteq one
    BY <1>1, <1>8
  <2>2. IsFiniteSet(one) /\ Cardinality(one) = 1
    BY FS_Singleton
  <2> QED
    BY <2>1, <2>2, FS_Subset, FS_CardinalityType
<1>9. \A p \in sent : p[1] \notin HopByHop \cup {"host"}
  <2>1. \A name \in Relayed : name \notin HopByHop \cup {"host"}
    BY DEF Relayed, HopByHop
  <2> QED
    BY <1>1, <1>3, <1>4, <2>1 DEF ScriptMaySet
<1>10. NamesIn(sent) \cap (HopByHop \cup {"host"}) = {}
  BY <1>9 DEF NamesIn
<1> QED
  BY <1>7, <1>8, <1>10 DEF Framed, sent
-----------------------------------------------------------------------------
(* The steps of an exchange.                                               *)

\* Nothing an exchange sends or holds is a None.
LEMMA NotNone ==
    /\ \A r \in Requests : r # None
    /\ \A r \in Sent : r # None
    /\ \A r \in Responses : r # None
BY ExchangeAssumption

\* A step that gives no branch anything new keeps the invariant, if what it leaves in
\* the handler's hands keeps the promise.
LEMMA HandedOver ==
    ASSUME IInv, TypeOK', UNCHANGED out, held' # None => Kept(held'),
           \A b \in Branches : wire'[b] = None \/ (wire'[b] = wire[b] /\ caller' = caller),
           \A b \in Branches : coming'[b] \in {None, coming[b]}
    PROVE  IInv'
<1>1. ASSUME NEW b \in Branches, wire'[b] # None
      PROVE  (Arrives(wire[b].headers) /\ Framed(wire[b].headers, wire[b].body))'
  BY <1>1 DEF IInv, Arrives, Framed, Parts
<1>2. RewrittenIsClean' /\ LengthIsTrue'
  BY DEF IInv, RewrittenIsClean, LengthIsTrue
<1>3. \A b \in Branches : coming'[b] # None => Kept(coming'[b])
  BY DEF IInv
<1> QED
  BY <1>1, <1>2, <1>3 DEF IInv

\* What a call is: under way, or reading what came, never both.
Underway(what, request, response) ==
    /\ what \in {"none", "forward", "send", "forward_with", "buffer"}
    /\ request \in Sent \cup {None} /\ response \in Responses \cup {None}
    /\ what = "none" <=> request = None /\ response = None
    /\ request = None \/ response = None

\* A branch takes a step of its own, and no other has any part in it.
LEMMA BranchStep ==
    ASSUME IInv, NEW b \in Branches, NEW what, NEW request, NEW response,
           Underway(what, request, response),
           how' = [how EXCEPT ![b] = what],
           wire' = [wire EXCEPT ![b] = request],
           coming' = [coming EXCEPT ![b] = response],
           at' \in {"handler", "erred"},
           UNCHANGED <<caller, upload, out>>,
           building' \in Requests \cup {None}, calls' \in 0 .. MaxCalls,
           held' \in Responses \cup {None}, held' # None => Kept(held'),
           request # None => Arrives(request.headers) /\ Framed(request.headers, request.body),
           response # None => Kept(response)
    PROVE  IInv'
<1>1. \A c \in Branches :
        /\ how'[c] = IF c = b THEN what ELSE how[c]
        /\ wire'[c] = IF c = b THEN request ELSE wire[c]
        /\ coming'[c] = IF c = b THEN response ELSE coming[c]
  BY DEF IInv, TypeOK
<1>2. TypeOK'
  <2>1. /\ how' \in [Branches -> {"none", "forward", "send", "forward_with", "buffer"}]
        /\ wire' \in [Branches -> Sent \cup {None}]
        /\ coming' \in [Branches -> Responses \cup {None}]
    BY DEF IInv, TypeOK, Underway
  <2>2. \A c \in Branches :
          /\ how'[c] = "none" <=> wire'[c] = None /\ coming'[c] = None
          /\ wire'[c] = None \/ coming'[c] = None
    BY <1>1 DEF IInv, TypeOK, Underway
  <2>3. at' \in Places /\ caller' \subseteq Headers /\ upload' \in BOOLEAN
        /\ out' \in Responses \cup {None}
    BY DEF IInv, TypeOK, Places
  <2> QED
    BY <2>1, <2>2, <2>3 DEF TypeOK
<1>3. ASSUME NEW c \in Branches, wire'[c] # None
      PROVE  (Arrives(wire[c].headers) /\ Framed(wire[c].headers, wire[c].body))'
  <2>1. Arrives(wire'[c].headers) /\ Framed(wire'[c].headers, wire'[c].body)
    BY <1>1, <1>3 DEF IInv
  <2> QED
    BY <2>1 DEF Arrives, Framed, Parts
<1>4. \A c \in Branches : coming'[c] # None => Kept(coming'[c])
  BY <1>1 DEF IInv
<1>5. RewrittenIsClean' /\ LengthIsTrue'
  BY DEF IInv, RewrittenIsClean, LengthIsTrue
<1> QED
  BY <1>2, <1>3, <1>4, <1>5 DEF IInv

\* What a branch does not change it keeps, and while it has a call the handler runs.
LEMMA OfBranch ==
    ASSUME IInv, NEW b \in Branches
    PROVE  /\ wire = [wire EXCEPT ![b] = wire[b]]
           /\ how = [how EXCEPT ![b] = how[b]]
           /\ coming = [coming EXCEPT ![b] = coming[b]]
           /\ Underway(how[b], wire[b], coming[b])
           /\ how[b] # "none" => at \in {"handler", "erred"}
           /\ building \in Requests \cup {None} /\ calls \in 0 .. MaxCalls
           /\ held \in Responses \cup {None} /\ (held # None => Kept(held))
BY DEF IInv, TypeOK, Underway

\* Before an exchange, and after it, nothing is under way.
LEMMA AtRest ==
    ASSUME IInv, at \in {"idle", "relaying", "answered"}, NEW b \in Branches
    PROVE  how[b] = "none" /\ wire[b] = None /\ coming[b] = None
BY DEF IInv, TypeOK

\* A new exchange, and the request the handler assembles.
LEMMA BuildingSteps ==
    ASSUME IInv,
           \/ Execute \/ Inbound \/ Blank \/ SetBody \/ Retype \/ Misbuild
           \/ \E name \in ScriptSets : Header(name)
    PROVE  IInv'
<1> USE NotNone, ExchangeAssumption
<1>1. UNCHANGED <<wire, how, held, coming, out>>
  BY DEF Execute, Inbound, Blank, SetBody, Retype, Misbuild, Header
<1>2. \A b \in Branches : wire[b] = None \/ caller' = caller
  BY AtRest DEF Execute, Inbound, Blank, SetBody, Retype, Misbuild, Header
<1>3. /\ caller' \subseteq Headers /\ upload' \in BOOLEAN
      /\ at' \in {"handler", "erred"}
      /\ calls' \in 0 .. MaxCalls
  BY DEF Execute, Inbound, Blank, SetBody, Retype, Misbuild, Header, Begun, IInv, TypeOK
<1>4. building' \in Requests \cup {None}
  <2>1. CASE Execute \/ Misbuild
    BY <2>1 DEF Execute, Misbuild, IInv, TypeOK
  <2>2. CASE Inbound
    <3>1. {p \in Parts : ScriptMaySet(p[1])} \in HeaderMaps
      BY PartsMembers DEF HeaderMaps, IInv, TypeOK
    <3> QED
      BY <2>2, <3>1 DEF Inbound, Requests, IInv, TypeOK
  <2>3. CASE Blank
    BY <2>3 DEF Blank, Requests, HeaderMaps
  <2>4. CASE SetBody \/ Retype
    BY <2>4 DEF SetBody, Retype, Requests, IInv, TypeOK
  <2>5. CASE \E name \in ScriptSets : Header(name)
    <3>1. PICK name \in ScriptSets : Header(name)
      BY <2>5
    <3>2. <<name, "script">> \in (Headers \cup {"content-type"}) \X {"caller", "script", "default"}
      OBVIOUS
    <3>3. building \in Requests
      BY <3>1 DEF Header, IInv, TypeOK
    <3>4. building.headers \cup {<<name, "script">>} \in HeaderMaps
      BY <3>2, <3>3 DEF Requests, HeaderMaps
    <3> QED
      BY <3>1, <3>3, <3>4 DEF Header, Requests
  <2> QED
    BY <2>1, <2>2, <2>3, <2>4, <2>5
<1>5. TypeOK'
  BY <1>1, <1>3, <1>4 DEF IInv, TypeOK, Places
<1>6. held' # None => Kept(held')
  BY <1>1 DEF IInv
<1> QED
  BY <1>1, <1>2, <1>5, <1>6, HandedOver

\* The calls that reach the BMC.
LEMMA CallSteps ==
    ASSUME IInv, NEW b \in Branches,
           Forward(b) \/ \E what \in {"send", "forward_with"} : Dispatch(b, what)
    PROVE  IInv'
<1> USE NotNone
<1>1. PICK what \in {"forward", "send", "forward_with"} : how' = [how EXCEPT ![b] = what]
  BY DEF Forward, Dispatch, Call
<1>2. /\ how[b] = "none" /\ at' = "handler"
      /\ calls' \in 0 .. MaxCalls
      /\ building' \in {building, None}
      /\ UNCHANGED <<caller, upload, coming, held, out>>
  BY ExchangeAssumption DEF Forward, Dispatch, Call, Begun, IInv, TypeOK
<1>3. PICK headers \in HeaderMaps, body \in BOOLEAN :
        /\ wire' = [wire EXCEPT ![b] = [headers |-> headers, body |-> body]]
        /\ Arrives(headers) /\ Framed(headers, body)
  <2>1. CASE Forward(b)
    <3>1. EndToEnd(Parts) \in HeaderMaps
      <4>1. [headers |-> {}, body |-> FALSE, type |-> None] \in Requests
        BY DEF Requests, HeaderMaps
      <4> QED
        BY <4>1, HeaderMapOf DEF IInv
    <3>2. upload \in BOOLEAN
      BY DEF IInv, TypeOK
    <3> QED
      BY <2>1, <3>1, <3>2, ForwardArrives DEF Forward, Call
  <2>2. CASE \E kind \in {"send", "forward_with"} : Dispatch(b, kind)
    <3>1. /\ building \in Requests
          /\ wire' = [wire EXCEPT ![b] = [headers |-> Dispatched(building), body |-> building.body]]
      BY <2>2 DEF Dispatch, Call, IInv, TypeOK
    <3>2. building.body \in BOOLEAN
      BY <3>1 DEF Requests
    <3> QED
      BY <3>1, <3>2, HeaderMapOf, DispatchArrives DEF IInv
  <2> QED
    BY <2>1, <2>2
<1> DEFINE request == [headers |-> headers, body |-> body]
<1>4. request \in Sent /\ request.headers = headers /\ request.body = body
  BY DEF Sent
<1>5. coming[b] = None /\ coming' = [coming EXCEPT ![b] = None]
  BY <1>2, OfBranch DEF Underway
<1>6. Underway(what, request, None)
  BY <1>4 DEF Underway
<1> HIDE DEF request
<1>7. wire' = [wire EXCEPT ![b] = request]
  BY <1>3 DEF request
<1>8. Arrives(request.headers) /\ Framed(request.headers, request.body)
  BY <1>3, <1>4
<1>9. /\ at' \in {"handler", "erred"} /\ UNCHANGED <<caller, upload, out>>
      /\ building' \in Requests \cup {None} /\ calls' \in 0 .. MaxCalls
      /\ held' \in Responses \cup {None} /\ (held' # None => Kept(held'))
  BY <1>2, OfBranch
<1> QED
  BY <1>1, <1>5, <1>6, <1>7, <1>8, <1>9, BranchStep

\* What is done to a response in the handler's hands keeps the promise.
LEMMA Updates ==
    ASSUME NEW r \in Responses, Kept(r)
    PROVE  /\ [r EXCEPT !.streaming = FALSE] \in Responses
           /\ Kept([r EXCEPT !.streaming = FALSE])
           /\ [r EXCEPT !.links = "bmc", !.rewritten = FALSE] \in Responses
           /\ Kept([r EXCEPT !.links = "bmc", !.rewritten = FALSE])
           /\ \A body \in Bodies :
                [r EXCEPT !.links = "own", !.body = body, !.rewritten = TRUE] \in Responses
<1>1. /\ \A s \in Responses, b \in BOOLEAN :
           /\ [s EXCEPT !.streaming = b] \in Responses
           /\ [s EXCEPT !.rewritten = b] \in Responses
      /\ \A s \in Responses, l \in {"bmc", "own"} : [s EXCEPT !.links = l] \in Responses
      /\ \A s \in Responses, body \in Bodies : [s EXCEPT !.body = body] \in Responses
  BY DEF Responses
<1>2. Kept([r EXCEPT !.streaming = FALSE])
  BY DEF Responses, Kept
<1>3. [r EXCEPT !.links = "bmc", !.rewritten = FALSE]
        = [[r EXCEPT !.links = "bmc"] EXCEPT !.rewritten = FALSE]
  OBVIOUS
<1>4. Kept([r EXCEPT !.links = "bmc", !.rewritten = FALSE])
  BY DEF Responses, Kept
<1>5. ASSUME NEW body \in Bodies
      PROVE  [r EXCEPT !.links = "own", !.body = body, !.rewritten = TRUE]
               = [[[r EXCEPT !.links = "own"] EXCEPT !.body = body] EXCEPT !.rewritten = TRUE]
  OBVIOUS
<1> QED
  BY <1>1, <1>2, <1>3, <1>4, <1>5

\* A reply as it comes is the BMC's own, and keeps the promise.
LEMMA Replied ==
    ASSUME NEW b, NEW json \in BOOLEAN, NEW body \in {"none", "bmc", "compressed"},
           Reply(b, json, body)
    PROVE  \E response \in Responses :
             /\ Kept(response) /\ Genuine(response)
             /\ \/ coming' = [coming EXCEPT ![b] = response] /\ UNCHANGED <<held, how>>
                \/ Return(b) /\ Handed(response) /\ UNCHANGED coming
<1>1. PICK length \in {None, body} :
        LET response == [status |-> 200, json |-> json, streaming |-> ~json, body |-> body,
                         links |-> "bmc", length |-> length, rewritten |-> FALSE,
                         made |-> FALSE]
        IN  IF json \/ how[b] = "send"
            THEN coming' = [coming EXCEPT ![b] = response] /\ UNCHANGED <<held, how>>
            ELSE Return(b) /\ Handed(response) /\ UNCHANGED coming
  BY DEF Reply
<1> DEFINE response == [status |-> 200, json |-> json, streaming |-> ~json, body |-> body,
                        links |-> "bmc", length |-> length, rewritten |-> FALSE,
                        made |-> FALSE]
<1>2. response \in Responses
  <2>1. body \in Bodies /\ length \in Bodies \cup {None} /\ (~json) \in BOOLEAN
    BY DEF Bodies
  <2> QED
    BY <2>1 DEF Responses
<1>3. Kept(response)
  BY DEF Kept
<1>4. response.status = 200 /\ ~response.made
  OBVIOUS
<1>5. \/ coming' = [coming EXCEPT ![b] = response] /\ UNCHANGED <<held, how>>
      \/ Return(b) /\ Handed(response) /\ UNCHANGED coming
  BY <1>1
<1> HIDE DEF response
<1>6. Genuine(response)
  BY <1>2, <1>4, NotNone DEF Genuine
<1> QED
  BY <1>2, <1>3, <1>5, <1>6

\* What the BMC answers, or fails to.
LEMMA AnswerSteps ==
    ASSUME IInv, NEW b \in Branches,
           \/ \E json \in BOOLEAN, body \in {"none", "bmc", "compressed"} : Reply(b, json, body)
           \/ BodyRead(b) \/ (\E timeout \in BOOLEAN : SendFails(b, timeout)) \/ BodyFails(b)
    PROVE  IInv'
<1> USE NotNone
<1>1. CASE \E json \in BOOLEAN, body \in {"none", "bmc", "compressed"} : Reply(b, json, body)
  <2>1. /\ wire[b] # None /\ wire' = [wire EXCEPT ![b] = None]
        /\ UNCHANGED <<at, caller, upload, building, out, calls>>
    BY <1>1 DEF Reply
  <2>2. PICK response \in Responses :
          /\ Kept(response)
          /\ \/ coming' = [coming EXCEPT ![b] = response] /\ UNCHANGED <<held, how>>
             \/ Return(b) /\ Handed(response) /\ UNCHANGED coming
    BY <1>1, Replied
  <2>3. how[b] # "none" /\ coming[b] = None
    BY <2>1, OfBranch DEF Underway
  <2>4. at' \in {"handler", "erred"}
    BY <2>1, <2>3, OfBranch
  <2>5. CASE coming' = [coming EXCEPT ![b] = response] /\ UNCHANGED <<held, how>>
    <3>1. Underway(how[b], None, response)
      BY <2>3, OfBranch DEF Underway
    <3>2. how' = [how EXCEPT ![b] = how[b]]
      BY <2>5, OfBranch
    <3> QED
      BY <2>1, <2>2, <2>4, <2>5, <3>1, <3>2, OfBranch, BranchStep
  <2>6. CASE Return(b) /\ Handed(response) /\ UNCHANGED coming
    <3>1. Underway("none", None, None)
      BY DEF Underway
    <3>2. coming' = [coming EXCEPT ![b] = None] /\ how' = [how EXCEPT ![b] = "none"]
      BY <2>3, <2>6, OfBranch DEF Return
    <3>3. held' \in {held, response}
      BY <2>6 DEF Handed
    <3> QED
      BY <2>1, <2>2, <2>4, <3>1, <3>2, <3>3, OfBranch, BranchStep
  <2> QED
    BY <2>2, <2>5, <2>6
<1>2. CASE BodyRead(b) \/ BodyFails(b)
  <2>1. /\ coming[b] # None /\ coming' = [coming EXCEPT ![b] = None]
        /\ how' = [how EXCEPT ![b] = "none"]
        /\ at' \in {at, "erred"}
        /\ UNCHANGED <<caller, upload, building, wire, out, calls>>
    BY <1>2 DEF BodyRead, BodyFails, Return
  <2>2. wire[b] = None /\ how[b] # "none" /\ wire' = [wire EXCEPT ![b] = None]
    BY <2>1, OfBranch DEF Underway
  <2>3. at' \in {"handler", "erred"}
    BY <2>1, <2>2, OfBranch
  <2>4. coming[b] \in Responses /\ Kept(coming[b])
    BY <2>1 DEF IInv, TypeOK
  <2>5. /\ [coming[b] EXCEPT !.streaming = FALSE] \in Responses
        /\ Kept([coming[b] EXCEPT !.streaming = FALSE])
    BY <2>4, Updates
  <2>6. held' \in {held, [coming[b] EXCEPT !.streaming = FALSE]}
    BY <1>2 DEF BodyRead, BodyFails, Handed
  <2>7. Underway("none", None, None)
    BY DEF Underway
  <2>8. held' \in Responses \cup {None} /\ (held' # None => Kept(held'))
    BY <2>5, <2>6, OfBranch
  <2> QED
    BY <2>1, <2>2, <2>3, <2>7, <2>8, OfBranch, BranchStep
<1>3. CASE \E timeout \in BOOLEAN : SendFails(b, timeout)
  <2>1. \A status \in {502, 504} :
          GatewayFailure(status) \in Responses /\ Kept(GatewayFailure(status))
    BY DEF GatewayFailure, Responses, Bodies, Kept
  <2>2. /\ wire[b] # None /\ wire' = [wire EXCEPT ![b] = None]
        /\ how' = [how EXCEPT ![b] = "none"]
        /\ at' \in {at, "erred"}
        /\ UNCHANGED <<caller, upload, building, coming, out, calls>>
        /\ held' = held \/ \E status \in {502, 504} : held' = GatewayFailure(status)
    BY <1>3 DEF SendFails, Return, Handed
  <2>3. how[b] # "none" /\ coming' = [coming EXCEPT ![b] = None]
    BY <2>2, OfBranch DEF Underway
  <2>4. at' \in {"handler", "erred"}
    BY <2>2, <2>3, OfBranch
  <2>5. Underway("none", None, None)
    BY DEF Underway
  <2>6. held' \in Responses \cup {None} /\ (held' # None => Kept(held'))
    BY <2>1, <2>2, OfBranch
  <2>7. /\ wire' = [wire EXCEPT ![b] = None] /\ how' = [how EXCEPT ![b] = "none"]
        /\ UNCHANGED <<caller, upload, out>>
        /\ building' \in Requests \cup {None} /\ calls' \in 0 .. MaxCalls
    BY <2>2, OfBranch
  <2> QED
    BY <2>3, <2>4, <2>5, <2>6, <2>7, BranchStep
<1> QED
  BY <1>1, <1>2, <1>3

\* What the handler does with a response.
LEMMA ResponseSteps ==
    ASSUME IInv,
           \/ \E json \in BOOLEAN, body \in {"none", "bmc"} : Build(json, body)
           \/ WithHeader \/ (\E b \in Branches : Buffer(b)) \/ Rewrite \/ Recover
    PROVE  IInv'
<1> USE NotNone
<1>1. CASE \E json \in BOOLEAN, body \in {"none", "bmc"} : Build(json, body)
  <2>1. held' \in Responses /\ Kept(held')
    BY <1>1 DEF Build, Responses, Bodies, Kept
  <2>2. TypeOK'
    BY <1>1, <2>1 DEF Build, IInv, TypeOK
  <2> QED
    BY <1>1, <2>1, <2>2, HandedOver DEF Build
<1>2. CASE WithHeader
  <2>1. held \in Responses /\ Kept(held)
    BY <1>2 DEF WithHeader, IInv, TypeOK
  <2>2. held' \in Responses /\ Kept(held')
    BY <1>2, <2>1, Updates DEF WithHeader
  <2>3. TypeOK'
    BY <1>2, <2>2 DEF WithHeader, IInv, TypeOK
  <2> QED
    BY <1>2, <2>2, <2>3, HandedOver DEF WithHeader
<1>3. CASE \E b \in Branches : Buffer(b)
  <2>1. PICK b \in Branches : Buffer(b)
    BY <1>3
  <2>2. /\ at = "handler" /\ how[b] = "none"
        /\ how' = [how EXCEPT ![b] = "buffer"]
        /\ coming' = [coming EXCEPT ![b] = held]
        /\ held' = None
        /\ UNCHANGED <<at, caller, upload, building, wire, out, calls>>
    BY <2>1 DEF Buffer
  <2>3. held \in Responses /\ Kept(held)
    BY <2>1 DEF Buffer, IInv, TypeOK
  <2>4. wire' = [wire EXCEPT ![b] = None]
    BY <2>2, OfBranch DEF Underway
  <2>5. Underway("buffer", None, held)
    BY <2>3 DEF Underway
  <2> QED
    BY <2>2, <2>3, <2>4, <2>5, OfBranch, BranchStep
<1>4. CASE Rewrite
  <2>1. held \in Responses /\ Kept(held)
    BY <1>4 DEF Rewrite, IInv, TypeOK
  <2> DEFINE clean == [held EXCEPT !.links = "own", !.body = RewrittenBody(held),
                                   !.rewritten = TRUE]
  <2>2. RewrittenBody(held) \in Bodies
    BY <2>1 DEF RewrittenBody, Responses, Bodies
  <2>3. clean \in Responses
    BY <2>1, <2>2, Updates
  <2>4. ~Unreadable(held) => Kept(clean)
    <3>1. /\ clean.json = held.json /\ clean.streaming = held.streaming
          /\ clean.length = held.length /\ clean.links = "own"
          /\ clean.body = RewrittenBody(held) /\ clean.rewritten = TRUE
      BY <2>1 DEF Responses
    <3>2. /\ held.json \in BOOLEAN /\ held.streaming \in BOOLEAN /\ held.body \in Bodies
      BY <2>1 DEF Responses
    <3>3. held.streaming => ~held.json /\ RewrittenBody(held) = held.body
      BY <2>1 DEF RewrittenBody, Kept
    <3>4. held.json => RewrittenBody(held) \in {"own", "none"}
      BY <3>2, <3>3 DEF RewrittenBody
    <3> QED
      BY <2>1, <3>1, <3>3, <3>4 DEF Kept
  <2> HIDE DEF clean
  <2>5. /\ at = "handler" /\ UNCHANGED <<caller, upload, building, wire, how, coming, out, calls>>
        /\ \/ at' = "erred" /\ held' = None
           \/ ~Unreadable(held) /\ held' = clean /\ UNCHANGED at
    BY <1>4 DEF Rewrite, clean
  <2>6. TypeOK'
    BY <2>3, <2>5 DEF IInv, TypeOK, Places
  <2> QED
    BY <2>4, <2>5, <2>6, HandedOver
<1>5. CASE Recover
  <2>1. TypeOK'
    BY <1>5 DEF Recover, IInv, TypeOK, Places
  <2>2. held' # None => Kept(held')
    BY <1>5 DEF Recover, IInv
  <2> QED
    BY <1>5, <2>1, <2>2, HandedOver DEF Recover
<1> QED
  BY <1>1, <1>2, <1>3, <1>4, <1>5

\* When the handler is dropped, all that is left of the exchange is its answer.
LEMMA DroppedHolds ==
    ASSUME Dropped, at' \in Places, out' \in Responses \cup {None},
           RewrittenIsClean', LengthIsTrue'
    PROVE  IInv'
<1>1. 0 \in 0 .. MaxCalls
  BY ExchangeAssumption
<1>2. \A b \in Branches : how'[b] = "none" /\ wire'[b] = None /\ coming'[b] = None
  BY DEF Dropped, NoCalls, Nothing
<1>3. TypeOK'
  BY <1>1, <1>2 DEF Dropped, NoCalls, Nothing, TypeOK
<1> QED
  BY <1>2, <1>3 DEF Dropped, IInv

\* How an exchange ends: with a response that keeps the promise, its length
\* declared.
LEMMA EndSteps ==
    ASSUME IInv, Finish \/ StreamEnds \/ Fail \/ Leave
    PROVE  IInv'
<1> USE NotNone
<1>1. ASSUME NEW response \in Responses, Kept(response)
      PROVE  /\ Finished(response) \in Responses
             /\ Finished(response).length \in {None, Finished(response).body}
             /\ Finished(response).rewritten =>
                  /\ Finished(response).links = "own"
                  /\ Finished(response).json => Finished(response).body \in {"own", "none"}
  <2>1. response.streaming \in BOOLEAN
    BY DEF Responses
  <2>2. CASE response.streaming
    BY <1>1, <2>2 DEF Finished, Kept
  <2>3. CASE ~response.streaming
    <3>1. Finished(response) = [response EXCEPT !.length = response.body]
      BY <2>3 DEF Finished
    <3> QED
      BY <1>1, <3>1 DEF Responses, Kept
  <2> QED
    BY <2>1, <2>2, <2>3
<1>2. CASE Finish \/ Fail
  <2>1. PICK response \in Responses : Kept(response) /\ out' = Finished(response)
    <3>1. CASE Finish
      BY <3>1 DEF Finish, IInv, TypeOK
    <3>2. CASE Fail
      <4>1. GatewayFailure(502) \in Responses /\ Kept(GatewayFailure(502))
        BY DEF GatewayFailure, Responses, Bodies, Kept
      <4> QED
        BY <3>2, <4>1 DEF Fail
    <3> QED
      BY <1>2, <3>1, <3>2
  <2>2. at' \in {"relaying", "answered"} /\ Dropped
    BY <1>2 DEF Finish, Fail
  <2>3. out' \in Responses \cup {None} /\ RewrittenIsClean' /\ LengthIsTrue'
    BY <1>1, <2>1 DEF RewrittenIsClean, LengthIsTrue
  <2> QED
    BY <2>2, <2>3, DroppedHolds DEF Places
<1>3. CASE StreamEnds
  <2>1. TypeOK'
    <3>1. \A b \in Branches : how[b] = "none"
      BY <1>3, AtRest DEF StreamEnds
    <3> QED
      BY <1>3, <3>1 DEF StreamEnds, IInv, TypeOK, Places
  <2>2. held' # None => Kept(held')
    BY <1>3 DEF StreamEnds, IInv
  <2> QED
    BY <1>3, <2>1, <2>2, HandedOver DEF StreamEnds
<1>4. CASE Leave
  BY <1>4, DroppedHolds DEF Leave, Places, RewrittenIsClean, LengthIsTrue
<1> QED
  BY <1>2, <1>3, <1>4

\* The invariant is inductive.
LEMMA Inductive ==
    Spec => []IInv
<1>1. Init => IInv
  <2> SUFFICES ASSUME Init PROVE IInv
    OBVIOUS
  <2>1. 0 \in 0 .. MaxCalls
    BY ExchangeAssumption
  <2>2. TypeOK
    BY <2>1 DEF Init, TypeOK, Places, NoCalls, Nothing
  <2> QED
    BY <2>2 DEF Init, IInv, RewrittenIsClean, LengthIsTrue, NoCalls
<1>2. IInv /\ [Next]_vars => IInv'
  <2> SUFFICES ASSUME IInv, [Next]_vars PROVE IInv'
    OBVIOUS
  <2>1. CASE \/ Execute \/ Inbound \/ Blank \/ SetBody \/ Retype \/ Misbuild
             \/ \E name \in ScriptSets : Header(name)
    BY <2>1, BuildingSteps
  <2>2. CASE \E b \in Branches :
               Forward(b) \/ \E what \in {"send", "forward_with"} : Dispatch(b, what)
    BY <2>2, CallSteps
  <2>3. CASE \E b \in Branches :
               \/ \E json \in BOOLEAN, body \in {"none", "bmc", "compressed"} : Reply(b, json, body)
               \/ BodyRead(b) \/ (\E timeout \in BOOLEAN : SendFails(b, timeout)) \/ BodyFails(b)
    BY <2>3, AnswerSteps
  <2>4. CASE \/ \E json \in BOOLEAN, body \in {"none", "bmc"} : Build(json, body)
             \/ WithHeader \/ (\E b \in Branches : Buffer(b)) \/ Rewrite \/ Recover
    BY <2>4, ResponseSteps
  <2>5. CASE Finish \/ StreamEnds \/ Fail \/ Leave
    BY <2>5, EndSteps
  <2>6. CASE UNCHANGED vars
    <3>1. TypeOK'
      BY <2>6 DEF vars, IInv, TypeOK
    <3>2. held' # None => Kept(held')
      BY <2>6 DEF vars, IInv
    <3> QED
      BY <2>6, <3>1, <3>2, HandedOver DEF vars
  <2> QED
    BY <2>1, <2>2, <2>3, <2>4, <2>5, <2>6 DEF Next, TimedOut
<1> QED
  BY <1>1, <1>2, PTL DEF Spec

\* Requests, responses and header maps are what they are declared to be, and every
\* branch of the handler awaits either the head of a reply or the rest of its body.
THEOREM ExchangeTypeCorrect ==
    Spec => []TypeOK
<1>1. IInv => TypeOK
  BY DEF IInv
<1> QED
  BY Inductive, <1>1, PTL

\* No handler can forge, replace or lose a header the proxy relays
\* (script_bmc.rs, dispatch; http.rs, copy_end_to_end).
THEOREM CallersHeaders ==
    Spec => []CallersHeadersArrive
<1>1. IInv => CallersHeadersArrive
  BY DEF IInv, CallersHeadersArrive, Arrives
<1> QED
  BY Inductive, <1>1, PTL

\* One declared type at most, and no framing of one connection on the next.
THEOREM OneFrame ==
    Spec => []FramedOnce
<1>1. IInv => FramedOnce
  BY DEF IInv, FramedOnce, Framed
<1> QED
  BY Inductive, <1>1, PTL

\* What a handler rewrote and returned shows no link to the BMC, in whatever
\* order it buffered, rewrote and recovered (script_bmc.rs, rewrite_json).
THEOREM Clean ==
    Spec => []RewrittenIsClean
<1>1. IInv => RewrittenIsClean
  BY DEF IInv
<1> QED
  BY Inductive, <1>1, PTL

\* A declared length is that of the body that follows (rune_host.rs,
\* finish_forwarded and finish_script_response).
THEOREM TrueLength ==
    Spec => []LengthIsTrue
<1>1. IInv => LengthIsTrue
  BY DEF IInv
<1> QED
  BY Inductive, <1>1, PTL

-----------------------------------------------------------------------------
(* An exchange keeps the contract of Gateway.                              *)

\* What the contract asks of a request and of an answer is what IInv says.
LEMMA RequestKeeps ==
    ASSUME NEW request, Arrives(request.headers), Framed(request.headers, request.body)
    PROVE  Contract!Faithful(request.headers) /\ Contract!Framed(request)
<1>1. \A name \in caller : <<name, "caller">> \in Parts
  BY DEF Parts
<1>2. ASSUME NEW name \in Relayed \cap caller
      PROVE  {p \in request.headers : p[1] = name} = {<<name, "caller">>}
  <2>1. <<name, "caller">> \in request.headers \cup Parts /\ <<name, "caller">>[1] = name
    BY <1>1
  <2> QED
    BY <2>1 DEF Arrives
<1>3. \A p \in request.headers : p[1] \in Redacted => p[2] = "caller"
  BY DEF Arrives
<1>4. \A p \in request.headers : p[1] \notin HopByHop \cup {"host"}
  BY DEF Framed, NamesIn
<1>5. request.body => Contract!Cardinality({p \in request.headers : p[1] = "content-type"}) <= 1
  BY DEF Framed, Contract!Cardinality, Cardinality
<1> QED
  BY <1>2, <1>3, <1>4, <1>5 DEF Contract!Faithful, Contract!Framed

\* The calls open a request, and the BMC's answer or its failure ends it.
LEMMA RequestSteps ==
    ASSUME IInv, IInv', NEW b \in Branches,
           \/ Forward(b) \/ \E what \in {"send", "forward_with"} : Dispatch(b, what)
           \/ \E json \in BOOLEAN, body \in {"none", "bmc", "compressed"} : Reply(b, json, body)
           \/ \E timeout \in BOOLEAN : SendFails(b, timeout)
    PROVE  Contract!Send(b) \/ Contract!Reply(b) \/ Contract!Lose(b)
<1> USE NotNone
<1>1. CASE Forward(b) \/ \E what \in {"send", "forward_with"} : Dispatch(b, what)
  <2>1. /\ at = "handler" /\ at' = "handler" /\ how[b] = "none"
        /\ UNCHANGED <<caller, held, coming, out>>
    BY <1>1 DEF Forward, Dispatch, Call
  <2>2. PICK request \in Sent : wire' = [wire EXCEPT ![b] = request]
    <3>1. PICK headers, body : wire' = [wire EXCEPT ![b] = [headers |-> headers, body |-> body]]
      BY <1>1 DEF Forward, Dispatch, Call
    <3>2. wire'[b] = [headers |-> headers, body |-> body]
      BY <3>1 DEF IInv, TypeOK
    <3>3. how'[b] # "none" /\ coming'[b] = None
      BY <1>1, <2>1 DEF Forward, Dispatch, Call, IInv, TypeOK
    <3>4. [headers |-> headers, body |-> body] \in Sent
      BY <3>2, <3>3 DEF IInv, TypeOK
    <3> QED
      BY <3>1, <3>4
  <2>3. wire[b] = None /\ wire'[b] = request
    BY <2>1, <2>2 DEF IInv, TypeOK
  <2>4. Arrives(request.headers) /\ Framed(request.headers, request.body)
    BY <2>1, <2>3 DEF IInv, Arrives, Framed, Parts
  <2>5. Contract!Faithful(request.headers) /\ Contract!Framed(request)
    BY <2>4, RequestKeeps
  <2>6. Stage = "serving" /\ Stage' = "serving"
    BY <2>1 DEF Stage
  <2>7. Relays' = Relays
    BY <2>1 DEF Relays, Genuine
  <2> QED
    BY <2>1, <2>2, <2>3, <2>5, <2>6, <2>7 DEF Contract!Send
<1>2. CASE \E json \in BOOLEAN, body \in {"none", "bmc", "compressed"} : Reply(b, json, body)
  <2>1. /\ wire[b] # None /\ wire' = [wire EXCEPT ![b] = None]
        /\ UNCHANGED <<at, caller, out>>
    BY <1>2 DEF Reply
  <2>2. PICK response \in Responses :
          /\ Genuine(response)
          /\ \/ coming' = [coming EXCEPT ![b] = response] /\ UNCHANGED <<held, how>>
             \/ Return(b) /\ Handed(response) /\ UNCHANGED coming
    BY <1>2, Replied
  <2>3. CASE coming' = [coming EXCEPT ![b] = response]
    <3>1. coming'[b] = response
      BY <2>3 DEF IInv, TypeOK
    <3>2. \E c \in Branches : Genuine(coming[c])'
      BY <2>2, <3>1 DEF Genuine
    <3>3. Relays' = TRUE
      BY <3>2 DEF Relays
    <3> QED
      BY <2>1, <3>3 DEF Contract!Reply, Stage
  <2>4. CASE held' = response
    <3>1. Relays' = TRUE
      BY <2>2, <2>4 DEF Relays, Genuine
    <3> QED
      BY <2>1, <3>1 DEF Contract!Reply, Stage
  <2>5. CASE UNCHANGED <<held, coming>>
    <3>1. Relays' = Relays
      BY <2>5 DEF Relays, Genuine
    <3> QED
      BY <2>1, <3>1 DEF Contract!Reply, Stage
  <2> QED
    BY <2>2, <2>3, <2>4, <2>5 DEF Handed
<1>3. CASE \E timeout \in BOOLEAN : SendFails(b, timeout)
  <2>1. /\ wire[b] # None /\ wire' = [wire EXCEPT ![b] = None]
        /\ at' \in {at, "erred"}
        /\ UNCHANGED <<caller, coming, out>>
    BY <1>3 DEF SendFails
  <2>2. at \in {"handler", "erred"}
    BY <2>1, OfBranch DEF Underway
  <2>3. Stage' = Stage
    BY <2>1, <2>2 DEF Stage
  <2>4. held' = held \/ ~Genuine(held')
    BY <1>3 DEF SendFails, Handed, GatewayFailure, Genuine
  <2>5. Genuine(held)' => Genuine(held)
    BY <2>4 DEF Genuine
  <2>6. (\E c \in Branches : Genuine(coming[c]))' = (\E c \in Branches : Genuine(coming[c]))
    BY <2>1 DEF Genuine
  <2>7. Relays' \in {Relays, FALSE}
    BY <2>5, <2>6 DEF Relays
  <2> QED
    BY <2>1, <2>3, <2>7 DEF Contract!Lose
<1> QED
  BY <1>1, <1>2, <1>3

\* What the handler does besides is its own, but for what it gives up.
LEMMA HandlerSteps ==
    ASSUME IInv, IInv',
           \/ Inbound \/ Blank \/ SetBody \/ Retype \/ Misbuild
           \/ \E name \in ScriptSets : Header(name)
           \/ \E b \in Branches : BodyRead(b) \/ BodyFails(b) \/ Buffer(b)
           \/ \E json \in BOOLEAN, body \in {"none", "bmc"} : Build(json, body)
           \/ WithHeader \/ Rewrite \/ Recover \/ StreamEnds
    PROVE  Contract!Discard \/ UNCHANGED Contract!vars
<1> USE NotNone
<1>1. UNCHANGED <<caller, wire, out>>
  BY DEF Inbound, Blank, SetBody, Retype, Misbuild, Header, BodyRead, BodyFails, Build,
         WithHeader, Buffer, Rewrite, Recover, StreamEnds
<1>2. CASE \/ Inbound \/ Blank \/ SetBody \/ Retype \/ Misbuild
           \/ \E name \in ScriptSets : Header(name)
           \/ Recover \/ StreamEnds
  <2>1. UNCHANGED <<held, coming>> /\ Stage' = Stage
    BY <1>2 DEF Inbound, Blank, SetBody, Retype, Misbuild, Header, Recover, StreamEnds, Stage
  <2>2. Relays' = Relays
    BY <2>1 DEF Relays, Genuine
  <2> QED
    BY <1>1, <2>1, <2>2 DEF Contract!vars
<1>3. ASSUME Stage = "serving", Stage' = "serving", Relays' => Relays
      PROVE  Contract!Discard \/ UNCHANGED Contract!vars
  <2>1. Relays \in BOOLEAN /\ Relays' \in BOOLEAN
    BY DEF Relays, Genuine
  <2>2. CASE Relays /\ ~Relays'
    <3>1. Relays' = FALSE
      BY <2>2
    <3> QED
      BY <1>1, <1>3, <2>2, <3>1 DEF Contract!Discard
  <2>3. CASE Relays' = Relays
    BY <1>1, <1>3, <2>3 DEF Contract!vars
  <2> QED
    BY <1>3, <2>1, <2>2, <2>3
<1>4. CASE \E b \in Branches : BodyRead(b) \/ BodyFails(b) \/ Buffer(b)
  <2>1. PICK b \in Branches : BodyRead(b) \/ BodyFails(b) \/ Buffer(b)
    BY <1>4
  <2>2. Stage = "serving" /\ Stage' = "serving"
    <3>1. at \in {"handler", "erred"} /\ at' \in {at, "erred"}
      BY <2>1, OfBranch DEF BodyRead, BodyFails, Buffer, Underway
    <3> QED
      BY <3>1 DEF Stage
  <2>3. CASE BodyRead(b) \/ BodyFails(b)
    <3>1. coming[b] \in Responses /\ coming' = [coming EXCEPT ![b] = None]
      BY <2>3 DEF BodyRead, BodyFails, IInv, TypeOK
    <3>2. held' \in {held, [coming[b] EXCEPT !.streaming = FALSE]}
      BY <2>3 DEF BodyRead, BodyFails, Handed
    <3>3. Genuine([coming[b] EXCEPT !.streaming = FALSE]) => Genuine(coming[b])
      BY <3>1 DEF Genuine, Responses
    <3>4. Genuine(held') => Genuine(held) \/ Genuine(coming[b])
      BY <3>2, <3>3
    <3>5. \A c \in Branches : Genuine(coming'[c]) => Genuine(coming[c])
      <4>1. \A c \in Branches : coming'[c] \in {None, coming[c]}
        BY <3>1 DEF IInv, TypeOK
      <4> QED
        BY <4>1 DEF Genuine
    <3>6. Relays' => Relays
      BY <3>4, <3>5 DEF Relays, Genuine
    <3> QED
      BY <1>3, <2>2, <3>6
  <2>4. CASE Buffer(b)
    <3>1. coming' = [coming EXCEPT ![b] = held] /\ held' = None
      BY <2>4 DEF Buffer
    <3>2. \A c \in Branches : coming'[c] \in {held, coming[c]}
      BY <3>1 DEF IInv, TypeOK
    <3>3. \A c \in Branches : Genuine(coming'[c]) => Genuine(held) \/ Genuine(coming[c])
      BY <3>2 DEF Genuine
    <3>4. ~Genuine(held')
      BY <3>1 DEF Genuine
    <3>5. Relays' => Relays
      BY <3>3, <3>4 DEF Relays, Genuine
    <3> QED
      BY <1>3, <2>2, <3>5
  <2> QED
    BY <2>1, <2>3, <2>4
<1>5. CASE \E json \in BOOLEAN, body \in {"none", "bmc"} : Build(json, body)
  <2>1. UNCHANGED <<at, coming>> /\ at = "handler" /\ ~Genuine(held')
    BY <1>5 DEF Build, Genuine
  <2>2. (Relays' => Relays) /\ Stage = "serving" /\ Stage' = "serving"
    BY <2>1 DEF Relays, Genuine, Stage
  <2> QED
    BY <1>3, <2>2
<1>6. CASE WithHeader \/ Rewrite
  <2>1. held \in Responses /\ coming' = coming
    BY <1>6 DEF WithHeader, Rewrite, IInv, TypeOK
  <2>2. held' # None => held'.status = held.status /\ held'.made = held.made
    <3>1. CASE WithHeader
      BY <2>1, <3>1 DEF WithHeader, Responses
    <3>2. CASE Rewrite
      <4> DEFINE clean == [held EXCEPT !.links = "own", !.body = RewrittenBody(held),
                                       !.rewritten = TRUE]
      <4>1. clean.status = held.status /\ clean.made = held.made
        BY <2>1 DEF Responses
      <4>2. held' = None \/ held' = clean
        BY <3>2 DEF Rewrite
      <4> HIDE DEF clean
      <4> QED
        BY <4>1, <4>2
    <3> QED
      BY <1>6, <3>1, <3>2
  <2>3. (Relays' => Relays)
    BY <2>1, <2>2 DEF Relays, Genuine
  <2>4. Stage = "serving" /\ Stage' = "serving"
    BY <1>6 DEF WithHeader, Rewrite, Stage
  <2> QED
    BY <1>3, <2>3, <2>4
<1> QED
  BY <1>2, <1>4, <1>5, <1>6

\* An answer is the handler's or the 502, and one in the BMC's name is what the
\* handler was holding.
LEMMA LastSteps ==
    ASSUME IInv, IInv', Finish \/ Fail
    PROVE  Contract!Answer
<1> USE NotNone
<1>1. at \in {"handler", "erred"} /\ at' \in {"relaying", "answered"} /\ Dropped
  BY DEF Finish, Fail
<1>2. caller' = {} /\ wire' = Contract!NoCalls /\ Relays' = FALSE
  BY <1>1 DEF Dropped, NoCalls, Contract!NoCalls, Relays, Genuine
<1>3. PICK response \in Responses : out' = Finished(response) /\ response \in {held, GatewayFailure(502)}
  <2>1. GatewayFailure(502) \in Responses
    BY DEF GatewayFailure, Responses, Bodies
  <2> QED
    BY <2>1 DEF Finish, Fail, IInv, TypeOK
<1>4. /\ out' \in Responses
      /\ out'.status = response.status /\ out'.made = response.made
  BY <1>3 DEF Finished, Responses
<1>5. Contract!Honest(out')
  BY <1>4 DEF IInv, RewrittenIsClean, LengthIsTrue, Contract!Honest
<1>6. out'.status = 200 /\ ~out'.made => Relays
  <2>1. CASE response = held
    BY <1>3, <1>4, <2>1 DEF Relays, Genuine
  <2>2. CASE response = GatewayFailure(502)
    <3>1. GatewayFailure(502).status = 502
      BY DEF GatewayFailure
    <3> QED
      BY <1>4, <2>2, <3>1
  <2> QED
    BY <1>3, <2>1, <2>2
<1>7. Stage = "serving" /\ Stage' = "answered"
  BY <1>1 DEF Stage
<1> QED
  BY <1>2, <1>4, <1>5, <1>6, <1>7 DEF Contract!Answer, Contract!Earned

\* Every step of an exchange is one of the contract, or none.
LEMMA StepContract ==
    ASSUME IInv, IInv', [Next]_vars
    PROVE  [Contract!Next]_(Contract!vars)
<1>1. CASE Execute
  <2>1. UNCHANGED <<held, coming, wire, out>> /\ caller' \in SUBSET Headers
    BY <1>1, ExchangeAssumption DEF Execute
  <2>2. Relays' = Relays
    BY <2>1 DEF Relays, Genuine
  <2>3. Stage = "idle" /\ Stage' = "serving"
    BY <1>1 DEF Execute, Stage
  <2> QED
    BY <2>1, <2>2, <2>3 DEF Contract!Ask, Contract!Next
<1>2. CASE \E b \in Branches :
             \/ Forward(b) \/ \E what \in {"send", "forward_with"} : Dispatch(b, what)
             \/ \E json \in BOOLEAN, body \in {"none", "bmc", "compressed"} : Reply(b, json, body)
             \/ \E timeout \in BOOLEAN : SendFails(b, timeout)
  BY <1>2, RequestSteps DEF Contract!Next
<1>3. CASE \/ Inbound \/ Blank \/ SetBody \/ Retype \/ Misbuild
           \/ \E name \in ScriptSets : Header(name)
           \/ \E b \in Branches : BodyRead(b) \/ BodyFails(b) \/ Buffer(b)
           \/ \E json \in BOOLEAN, body \in {"none", "bmc"} : Build(json, body)
           \/ WithHeader \/ Rewrite \/ Recover \/ StreamEnds
  BY <1>3, HandlerSteps DEF Contract!Next
<1>4. CASE Finish \/ Fail
  BY <1>4, LastSteps DEF Contract!Next
<1>5. CASE Leave
  <2>1. Dropped /\ out' = None /\ at # "idle" /\ at' = "idle"
    BY <1>5 DEF Leave
  <2>2. caller' = {} /\ wire' = Contract!NoCalls /\ Relays' = FALSE
    BY <2>1 DEF Dropped, NoCalls, Contract!NoCalls, Relays, Genuine
  <2>3. Stage # "idle" /\ Stage' = "idle"
    BY <2>1 DEF Stage, IInv, TypeOK, Places
  <2> QED
    BY <2>1, <2>2, <2>3 DEF Contract!Leave, Contract!Next
<1>6. CASE UNCHANGED vars
  <2>1. UNCHANGED <<at, caller, wire, held, coming, out>>
    BY <1>6 DEF vars
  <2>2. Relays' = Relays
    BY <2>1 DEF Relays, Genuine
  <2> QED
    BY <2>1, <2>2 DEF Contract!vars, Stage
<1> QED
  BY <1>1, <1>2, <1>3, <1>4, <1>5, <1>6 DEF Next, TimedOut

\* Whatever the handler does, however many calls it has under way and however the BMC
\* fails, an exchange is one of Gateway: the BMC is asked with the caller's own headers
\* and for nothing after the answer, the caller gets one answer, and a 200 in the BMC's
\* name only if the BMC gave one in this exchange (rune_host.rs, run_script).
THEOREM ContractKept ==
    Spec => KeepsContract
<1>1. Init => Contract!Init
  BY DEF Init, Contract!Init, Stage, Relays, Genuine, NoCalls, Contract!NoCalls
<1>2. IInv /\ IInv' /\ [Next]_vars => [Contract!Next]_(Contract!vars)
  BY StepContract
<1> QED
  BY <1>1, <1>2, Inductive, PTL DEF Spec, KeepsContract, Contract!Spec
=============================================================================
