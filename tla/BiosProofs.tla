----------------------------- MODULE BiosProofs -----------------------------
(***************************************************************************)
(* Proofs about the BIOS scripts, for any number of callers and values: a  *)
(* request that still waits has not been acted on, so that whichever       *)
(* attempt the BMC acts on is the only one; and what was pending while a   *)
(* read was made is remembered until it is answered.                       *)
(***************************************************************************)
EXTENDS Bios, TLAPS

\* What holds of each exchange: before its answer nothing was acted on and what
\* is pending has been seen; bios_sd has one attempt, at the capitalised name.
Sound(c) ==
    /\ acts[c] <= 1
    /\ pc[c] \in {"idle", "waiting"} => acts[c] = 0
    /\ pc[c] = "waiting" =>
         /\ pending \in seen[c]
         /\ Len(tries[c]) > 0
         /\ req[c].script = "bios_sd" =>
              Len(tries[c]) = 1 /\ Head(tries[c]) = Try("BIOS", "forward_with")
    /\ pc[c] = "answered" /\ req[c].method # "GET" =>
         /\ status[c] = 200 => acts[c] = 1
         /\ status[c] \in {404, 503} => acts[c] = 0
    /\ spelling = "BIOS" /\ ~flaky => ShowsPending(c)

\* The inductive invariant.
IInv ==
    /\ TypeOK
    /\ \A c \in Clients : Sound(c)

\* What is left of the sequence of attempts.
LEMMA Left ==
    ASSUME NEW s \in Seq(Tries), Len(s) > 1
    PROVE  Tail(s) \in Seq(Tries) /\ Len(Tail(s)) > 0
OBVIOUS

\* The attempts of a request.
LEMMA AttemptsOf ==
    ASSUME NEW r \in Requests
    PROVE  /\ Attempts(r) \in Seq(Tries) /\ Len(Attempts(r)) > 0
           /\ r.script = "bios_sd" =>
                Len(Attempts(r)) = 1 /\ Head(Attempts(r)) = Try("BIOS", "forward_with")
<1>1. \A name \in Spellings, how \in {"forward", "forward_with"} : Try(name, how) \in Tries
  BY DEF Try, Tries
<1>2. /\ Try("BIOS", "forward_with") \in Tries /\ Try("Bios", "forward_with") \in Tries
      /\ Try("Bios", "forward") \in Tries
  BY <1>1 DEF Spellings
<1>3. CASE r.script = "bios"
  BY <1>2, <1>3 DEF Attempts
<1>4. CASE r.script = "bios_settings"
  BY <1>2, <1>4 DEF Attempts
<1>5. CASE r.script # "bios" /\ r.script # "bios_settings"
  BY <1>2, <1>5 DEF Attempts
<1> QED
  BY <1>3, <1>4, <1>5

\* A new exchange, or one that is over.
LEMMA ComeAndGo ==
    ASSUME IInv, NEW c \in Clients, (\E r \in Requests : Request(c, r)) \/ Leave(c)
    PROVE  IInv'
<1> USE BiosAssumption
<1>1. CASE \E r \in Requests : Request(c, r)
  <2>1. PICK r \in Requests : Request(c, r)
    BY <1>1
  <2>2. /\ Attempts(r) \in Seq(Tries) /\ Len(Attempts(r)) > 0
        /\ r.script = "bios_sd" =>
             Len(Attempts(r)) = 1 /\ Head(Attempts(r)) = Try("BIOS", "forward_with")
    BY AttemptsOf
  <2>3. TypeOK'
    <3>1. /\ pc' \in [Clients -> {"idle", "waiting", "answered"}]
          /\ req' \in [Clients -> Requests \cup {None}]
          /\ tries' \in [Clients -> Seq(Tries)]
          /\ seen' \in [Clients -> SUBSET Values]
      BY <2>1, <2>2 DEF Request, IInv, TypeOK
    <3>2. /\ req'[c] \in Requests /\ Len(tries'[c]) > 0
          /\ \A d \in Clients : d # c => UNCHANGED <<pc[d], req[d], tries[d]>>
      BY <2>1, <2>2 DEF Request, IInv, TypeOK
    <3> QED
      BY <2>1, <3>1, <3>2 DEF Request, IInv, TypeOK, firmware
  <2>4. ASSUME NEW d \in Clients
        PROVE  Sound(d)'
    <3>1. CASE d = c
      BY <2>1, <2>2, <3>1 DEF Request, IInv, TypeOK, Sound, ShowsPending, firmware
    <3>2. CASE d # c
      BY <2>1, <3>2 DEF Request, IInv, TypeOK, Sound, ShowsPending, firmware
    <3> QED
      BY <3>1, <3>2
  <2> QED
    BY <2>3, <2>4 DEF IInv
<1>2. CASE Leave(c)
  <2>1. TypeOK'
    <3>1. /\ pc' \in [Clients -> {"idle", "waiting", "answered"}]
          /\ status' \in [Clients -> {0, 200, 404, 502, 503, 504}]
          /\ shown' \in [Clients -> Values \cup {None}]
          /\ req' \in [Clients -> Requests \cup {None}]
      BY <1>2 DEF Leave, IInv, TypeOK
    <3>2. acts' \in [Clients -> Nat] /\ seen' \in [Clients -> SUBSET Values]
      BY <1>2 DEF Leave, IInv, TypeOK
    <3>3. tries' \in [Clients -> Seq(Tries)]
      BY <1>2 DEF Leave, IInv, TypeOK
    <3>4. \A d \in Clients :
            pc'[d] = "idle" \/ (d # c /\ UNCHANGED <<pc[d], req[d], tries[d]>>)
      BY <1>2 DEF Leave, IInv, TypeOK
    <3> QED
      BY <1>2, <3>1, <3>2, <3>3, <3>4 DEF Leave, IInv, TypeOK, firmware
  <2>2. ASSUME NEW d \in Clients
        PROVE  Sound(d)'
    BY <1>2 DEF Leave, IInv, TypeOK, Sound, ShowsPending, firmware
  <2> QED
    BY <2>1, <2>2 DEF IInv
<1> QED
  BY <1>1, <1>2

\* The other spelling is tried, and nothing has happened.
LEMMA RetrySteps ==
    ASSUME IInv, NEW c \in Clients, Retry(c)
    PROVE  IInv'
<1>1. tries[c] \in Seq(Tries) /\ Len(tries[c]) > 1
  BY DEF Retry, IInv, TypeOK
<1>2. Tail(tries[c]) \in Seq(Tries) /\ Len(Tail(tries[c])) > 0
  BY <1>1, Left
<1>3. TypeOK'
  <2>1. tries' \in [Clients -> Seq(Tries)] /\ Len(tries'[c]) > 0
    BY <1>2 DEF Retry, IInv, TypeOK
  <2>2. \A d \in Clients : d # c => tries'[d] = tries[d]
    BY DEF Retry, IInv, TypeOK
  <2> QED
    BY <2>1, <2>2 DEF Retry, IInv, TypeOK, firmware
<1>4. ASSUME NEW d \in Clients
      PROVE  Sound(d)'
  BY <1>1, <1>2 DEF Retry, IInv, TypeOK, Sound, ShowsPending, firmware
<1> QED
  BY <1>3, <1>4 DEF IInv

\* What every answer has in common, whether or not the BMC acted: it is the
\* first time it did, and everyone still waiting sees what is pending now.
LEMMA Answered ==
    ASSUME IInv, NEW c \in Clients, pc[c] = "waiting",
           NEW code \in {0, 200, 404, 502, 503, 504}, NEW what \in Values \cup {None},
           Answer(c, code, what), Act(c) \/ UNCHANGED <<pending, acts, seen>>,
           req[c].method # "GET" =>
             /\ code = 200 => Act(c)
             /\ code \in {404, 503} => UNCHANGED <<pending, acts, seen>>,
           ~flaky /\ spelling = "BIOS" /\ code = 200 /\ req[c].script = "bios_sd"
             /\ req[c].method = "GET" => what = pending
    PROVE  IInv'
<1>1. req[c] \in Requests /\ acts[c] = 0 /\ pending \in seen[c]
  BY DEF IInv, TypeOK, Sound
<1>2. req[c].value \in Values \/ req[c].method = "GET"
  BY <1>1, BiosAssumption DEF Requests
<1>3. \/ UNCHANGED <<pending, acts, seen>>
      \/ /\ req[c].method # "GET" /\ req[c].value \in Values
         /\ pending' = req[c].value
         /\ acts' = [acts EXCEPT ![c] = @ + 1]
         /\ seen' = [d \in Clients |-> seen[d] \cup {req[c].value}]
  BY <1>2 DEF Act
<1>4. TypeOK'
  <2>1. /\ pc' \in [Clients -> {"idle", "waiting", "answered"}]
        /\ status' \in [Clients -> {0, 200, 404, 502, 503, 504}]
        /\ shown' \in [Clients -> Values \cup {None}]
        /\ UNCHANGED <<spelling, flaky, req, tries>>
    BY DEF Answer, IInv, TypeOK, firmware
  <2>2. pending' \in Values /\ acts' \in [Clients -> Nat] /\ seen' \in [Clients -> SUBSET Values]
    <3>1. pending' \in Values
      BY <1>3 DEF IInv, TypeOK
    <3>2. acts' \in [Clients -> Nat]
      BY <1>3 DEF IInv, TypeOK
    <3>3. seen' \in [Clients -> SUBSET Values]
      BY <1>3 DEF IInv, TypeOK
    <3> QED
      BY <3>1, <3>2, <3>3
  <2>3. \A d \in Clients : pc'[d] = "idle" <=> pc[d] = "idle"
    BY DEF Answer, IInv, TypeOK
  <2> QED
    BY <2>1, <2>2, <2>3 DEF IInv, TypeOK
<1>5. ASSUME NEW d \in Clients, d # c
      PROVE  Sound(d)'
  BY <1>3, <1>5 DEF Answer, IInv, TypeOK, Sound, ShowsPending, firmware
<1>6. Sound(c)'
  <2>1. acts'[c] \in {0, 1} /\ pc'[c] = "answered" /\ status'[c] = code /\ shown'[c] = what
    BY <1>1, <1>3 DEF Answer, IInv, TypeOK
  <2>2. req[c].method # "GET" =>
          /\ code = 200 => acts'[c] = 1
          /\ code \in {404, 503} => acts'[c] = 0
    BY <1>1, <1>3 DEF Act, IInv, TypeOK
  <2>3. pending \in seen'[c]
    BY <1>1, <1>3 DEF IInv, TypeOK
  <2> QED
    BY <2>1, <2>2, <2>3 DEF Answer, Sound, ShowsPending, firmware
<1> QED
  BY <1>4, <1>5, <1>6 DEF IInv

\* The answers a request may get.
LEMMA AnswerSteps ==
    ASSUME IInv, NEW c \in Clients,
           NotFound(c) \/ Served(c) \/ RefusedByBmc(c) \/ TransportFails(c) \/ HangUp(c)
    PROVE  IInv'
<1> USE BiosAssumption
<1>1. pc[c] = "waiting" /\ req[c] \in Requests
  BY DEF NotFound, Served, RefusedByBmc, TransportFails, HangUp, IInv, TypeOK
<1>2. req[c].script = "bios_sd" => Head(tries[c]) = Try("BIOS", "forward_with")
  BY <1>1 DEF IInv, Sound
<1>3. CASE NotFound(c)
  <2>1. req[c].script = "bios_sd" => spelling # "BIOS"
    BY <1>2, <1>3 DEF NotFound, Known, Try
  <2> QED
    BY <1>1, <1>3, <2>1, Answered DEF NotFound, PassOn
<1>4. CASE Served(c)
  <2>1. PICK what \in Values \cup {None} :
          Answer(c, 200, what) /\ (req[c].method = "GET" => what = pending)
    BY <1>4 DEF Served, IInv, TypeOK
  <2> QED
    BY <1>1, <1>4, <2>1, Answered DEF Served
<1>5. CASE RefusedByBmc(c)
  BY <1>1, <1>5, Answered DEF RefusedByBmc, PassOn
<1>6. CASE TransportFails(c)
  <2>1. flaky /\ (Act(c) \/ UNCHANGED <<pending, acts, seen>>)
    BY <1>6 DEF TransportFails
  <2>2. CASE Answer(c, 502, None)
    BY <1>1, <2>1, <2>2, Answered
  <2>3. CASE PassOn(c, 504)
    BY <1>1, <2>1, <2>3, Answered DEF PassOn
  <2> QED
    BY <1>6, <2>2, <2>3 DEF TransportFails
<1>7. CASE HangUp(c)
  BY <1>1, <1>7, Answered DEF HangUp
<1> QED
  BY <1>3, <1>4, <1>5, <1>6, <1>7

\* The invariant is inductive.
LEMMA Inductive ==
    Spec => []IInv
<1>1. Init => IInv
  BY BiosAssumption DEF Init, IInv, TypeOK, Sound, ShowsPending
<1>2. IInv /\ [Next]_vars => IInv'
  <2> SUFFICES ASSUME IInv, [Next]_vars PROVE IInv'
    OBVIOUS
  <2>1. CASE \E c \in Clients : (\E r \in Requests : Request(c, r)) \/ Leave(c)
    BY <2>1, ComeAndGo
  <2>2. CASE \E c \in Clients : Retry(c)
    BY <2>2, RetrySteps
  <2>3. CASE \E c \in Clients :
               NotFound(c) \/ Served(c) \/ RefusedByBmc(c) \/ TransportFails(c) \/ HangUp(c)
    BY <2>3, AnswerSteps
  <2>4. CASE UNCHANGED vars
    <3>1. TypeOK'
      BY <2>4 DEF vars, firmware, IInv, TypeOK
    <3>2. \A c \in Clients : Sound(c)'
      BY <2>4 DEF vars, firmware, IInv, Sound, ShowsPending
    <3> QED
      BY <3>1, <3>2 DEF IInv
  <2> QED
    BY <2>1, <2>2, <2>3, <2>4 DEF Next
<1> QED
  BY <1>1, <1>2, PTL DEF Spec

\* Requests and answers are what they are declared to be, and a request that
\* waits has an attempt left.
THEOREM BiosTypeCorrect ==
    Spec => []TypeOK
<1>1. IInv => TypeOK
  BY DEF IInv
<1> QED
  BY Inductive, <1>1, PTL

\* No retry under another spelling makes the BMC act twice on one write
\* (bios.rn, bios_settings.rn).
THEOREM NoDoubleWrite ==
    Spec => []ActsAtMostOnce
<1>1. IInv => ActsAtMostOnce
  BY DEF IInv, Sound, ActsAtMostOnce
<1> QED
  BY Inductive, <1>1, PTL

\* A write is acknowledged only if the BMC acted on it, and one that was
\* answered 404 or refused was not acted on.
THEOREM TruthfulAnswers ==
    Spec => []AnswersTellTheTruth
<1>1. IInv => AnswersTellTheTruth
  BY DEF IInv, Sound, AnswersTellTheTruth
<1> QED
  BY Inductive, <1>1, PTL

\* On firmware that spells the resource in capitals, a read of Bios/SD shows
\* what was pending at some moment of the read (bios_sd.rn).
THEOREM ReadsShowPending ==
    Spec => []CapitalSdShowsPending
<1>1. IInv => CapitalSdShowsPending
  BY DEF IInv, Sound, CapitalSdShowsPending
<1> QED
  BY Inductive, <1>1, PTL
=============================================================================
