--------------------------- MODULE GatewayProofs ---------------------------
(***************************************************************************)
(* Proofs about the requests a replica serves and its drain (Gateway), for *)
(* every set of requests and all limits.  What a handler records and what  *)
(* its client hears is decided from the request's context alone, so the    *)
(* proof relates the context to what happened: a context that ended first  *)
(* by "cancel" is a client that left, but for one stream that its own      *)
(* write deadline reset (RequestOK).  The drain then reaches nothing that  *)
(* was admitted in time, because such a budget ends before the clock of    *)
(* the stage does (StageOK).                                               *)
(***************************************************************************)
EXTENDS Gateway, TLAPS

\* The types.
Codes == {"none", "ok", "refused", "client_gone", "drain_expired", "upstream_timeout",
          "stream_failed"}
Reqs  == [pc: {"idle", "accepted", "auth", "exchange", "headed", "confirm", "upstream", "stream", "parked",
               "done"},
          kind: Kinds, secs: Durations, cause: {"none", "cancel", "cut"},
          err: {"none", "canceled", "deadline"}, conn: {"open", "left", "closed"},
          heard: {"nothing", "partial", "answer", "cutoff", "bare"}, code: Codes,
          budget: Nat, inner: Nat, ahead: BOOLEAN]

Lives == [issuer: BOOLEAN, informers: {"none", "running", "stopped"}, synced: BOOLEAN, nats: BOOLEAN,
          answered: BOOLEAN]

\* A request in flight, and one that holds a slot.
Open(q) == q.pc \notin {"idle", "done"}
Slot(q) == q.kind = "profile" /\ q.pc \in Holding

\* What ended the context of a request, and how much of its budget is left.
RequestOK(q) ==
    /\ ~Open(q) => q.cause = "none" /\ ~q.ahead
    /\ q.pc # "done" => q.code = "none"
    /\ q.pc \in {"confirm", "upstream"} => q.kind = "profile"
    /\ q.err = "canceled" => q.cause # "none"
    /\ q.cause # "none" => q.err # "none"
    /\ q.err = "deadline" => Slot(q) /\ q.budget = 0
    /\ q.cause = "cancel" => q.conn = "left" \/ (Slot(q) /\ q.pc = "stream" /\ q.budget = 0)
    /\ q.conn = "left" => q.err # "none"
    /\ q.ahead => Slot(q) \/ q.pc = "parked"
    /\ q.cause = "cut" => ~q.ahead
    /\ Slot(q) => q.budget =< DrainBound
    /\ Slot(q) /\ q.ahead => q.budget < DrainBound

\* The drain has cut what was in flight, or found nothing to cut.
Expired == stage \in {"cutting", "closed", "stopping", "exited"}

\* What the stage of the shutdown says of a request.
StageOK(q) ==
    /\ stage = "closing" /\ q.ahead => IF Slot(q) THEN q.budget < clock ELSE clock = DrainBound
    /\ Expired /\ Open(q) => q.cause # "none"
    /\ q.cause = "cut" \/ q.heard = "bare" => Expired

\* The inductive invariant.
GatewayInv ==
    /\ req \in [Requests -> Reqs] /\ clock \in Nat /\ life \in Lives
    /\ \A r \in Requests : RequestOK(req[r]) /\ StageOK(req[r])
    /\ life.informers = "stopped" => stage \in {"stopping", "exited"} /\ worker # "running"

\* What BlameIsRight says of a step.
BlameStep == \A r \in Requests : Blamed(req[r], req'[r].code) \/ req[r].pc = "done"

-----------------------------------------------------------------------------

\* The bound of the drain covers every budget.
LEMMA Bounds ==
  /\ DrainBound \in Nat \ {0} /\ 0 \in Durations /\ BudgetGrace \in Nat /\ DrainDelay \in Nat
  /\ ConfirmCallTimeout \in Nat
  /\ \A s \in Durations : s \in Nat /\ s + BudgetGrace =< DrainBound /\ HeaderDeadline(s) \in Nat
  <1>1. /\ {CPUSeconds, TraceSeconds, HeaderDeadlineGrace, DefaultHeaderDeadline, DrainSlack} \subseteq Nat
        /\ BudgetGrace \in Nat \ {0} /\ BudgetGrace =< DrainSlack /\ DrainDelay \in Nat /\ 0 \in Durations
        /\ ConfirmCallTimeout \in Nat
        /\ Durations \subseteq (0 .. CPUSeconds) \cup (0 .. TraceSeconds)
    BY GatewayAssumption
  <1>2. DrainBound \in Nat \ {0}
    BY <1>1 DEF DrainBound
  <1>3. ASSUME NEW s \in Durations PROVE s \in Nat /\ s + BudgetGrace =< DrainBound /\ HeaderDeadline(s) \in Nat
    <2>1. s \in Nat /\ (s =< CPUSeconds \/ s =< TraceSeconds)
      BY <1>1
    <2> QED
      BY <1>1, <2>1 DEF DrainBound, HeaderDeadline
  <1> QED
    BY <1>1, <1>2, <1>3

\* What the invariant says of one request.
LEMMA ReqParts ==
  ASSUME GatewayInv, NEW r \in Requests
  PROVE  /\ req[r] \in Reqs /\ RequestOK(req[r]) /\ StageOK(req[r])
         /\ InFlight(r) <=> Open(req[r])
         /\ Holds(r) <=> Slot(req[r])
  BY DEF GatewayInv, InFlight, Holds, Open, Slot

\* A step of one handler keeps the invariant when what it makes of its request
\* does.
LEMMA OneMoves ==
  ASSUME GatewayInv, NEW r \in Requests, NEW q \in Reqs, req' = [req EXCEPT ![r] = q],
         UNCHANGED <<life, worker, stage, clock>>, RequestOK(q), StageOK(q),
         Blamed(req[r], q.code)
  PROVE  GatewayInv' /\ BlameStep
  <1>1. /\ req' \in [Requests -> Reqs] /\ req'[r] = q
        /\ \A x \in Requests : x # r => req'[x] = req[x]
    BY DEF GatewayInv
  <1>2. \A x \in Requests : RequestOK(req'[x]) /\ StageOK(req'[x])
    BY <1>1 DEF GatewayInv
  <1>3. \A x \in Requests : (RequestOK(req[x]) /\ StageOK(req[x]))'
    BY <1>2 DEF StageOK, Expired
  <1>4. BlameStep
    <2> SUFFICES ASSUME NEW x \in Requests, req[x].pc # "done" PROVE Blamed(req[x], req'[x].code)
      BY DEF BlameStep
    <2>1. CASE x = r
      BY <1>1, <2>1
    <2>2. CASE x # r
      <3>1. req'[x].code = "none"
        BY <1>1, <2>2 DEF GatewayInv, RequestOK
      <3> QED
        BY <3>1 DEF Blamed
    <2> QED
      BY <2>1, <2>2
  <1> QED
    BY <1>1, <1>3, <1>4 DEF GatewayInv

\* The handler goes on.
LEMMA GoesKeeps ==
  ASSUME GatewayInv, NEW r \in Requests, NEW q \in Reqs, Goes(r, q), RequestOK(q), StageOK(q),
         q.pc # "done"
  PROVE  GatewayInv' /\ BlameStep
  <1>1. q.code = "none"
    BY DEF RequestOK
  <1>2. Blamed(req[r], q.code)
    BY <1>1 DEF Blamed
  <1> QED
    BY <1>2, OneMoves DEF Goes

\* The request that has not begun.
LEMMA NoRequestIs ==
  NoRequest \in Reqs /\ RequestOK(NoRequest) /\ StageOK(NoRequest)
  <1>1. 0 \in Durations /\ 0 \in Nat
    BY Bounds
  <1>2. NoRequest \in Reqs
    BY <1>1 DEF NoRequest, Reqs, Kinds, Codes
  <1>3. RequestOK(NoRequest) /\ StageOK(NoRequest)
    BY DEF NoRequest, RequestOK, StageOK, Expired, Open, Slot, Holding
  <1> QED
    BY <1>2, <1>3

\* The request that has ended.
Ended(c, h) == [NoRequest EXCEPT !.pc = "done", !.code = c, !.heard = h]

LEMMA DoneIs ==
  ASSUME NEW h \in {"nothing", "partial", "answer", "cutoff", "bare"}, NEW c \in Codes,
         h = "bare" => Expired,
         NEW q, q = Ended(c, h)
  PROVE  q \in Reqs /\ RequestOK(q) /\ StageOK(q) /\ q.code = c
  <1>1. q \in Reqs
    BY NoRequestIs DEF Reqs, Ended
  <1>2. /\ q.pc = "done" /\ q.code = c /\ q.cause = "none" /\ q.err = "none" /\ q.conn = "open"
        /\ q.ahead = FALSE /\ q.kind = "read" /\ q.heard = h
    BY DEF NoRequest, Ended
  <1>3. RequestOK(q) /\ StageOK(q)
    BY <1>2 DEF RequestOK, StageOK, Expired, Open, Slot
  <1> QED
    BY <1>1, <1>2, <1>3

\* The handler ends.  A client that is still there is told so, unless the drain
\* took the request, and the code is the right one.
LEMMA EndKeeps ==
  ASSUME GatewayInv, NEW r \in Requests, Open(req[r]), NEW code \in Codes,
         NEW how \in {"answer", "abort", "return", "bare"}, End(r, code, how),
         how = "return" => code = "client_gone",
         how = "bare" => req[r].cause # "none" /\ ~Slot(req[r]),
         DrainTookIt(r, code) \/ Blamed(req[r], code)
  PROVE  GatewayInv' /\ BlameStep
  <1>1. PICK took \in BOOLEAN : took <=> DrainTookIt(r, code)
    OBVIOUS
  <1>2. PICK said : said = IF took THEN "abort" ELSE how
    OBVIOUS
  <1>3. PICK h : h = Hears(req[r], said)
    OBVIOUS
  <1>4. PICK c : c = IF took THEN "drain_expired" ELSE code
    OBVIOUS
  <1>5. PICK q : q = Ended(c, h)
    OBVIOUS
  <1>6. req' = [req EXCEPT ![r] = q] /\ UNCHANGED <<life, worker, stage, clock>>
    BY <1>1, <1>2, <1>3, <1>4, <1>5 DEF End, Ended
  <1>7. said = "return" => req[r].conn # "open"
    <2> SUFFICES ASSUME said = "return" PROVE req[r].conn # "open"
      OBVIOUS
    <2>1. ~took /\ code = "client_gone"
      BY <1>2
    <2>2. Blamed(req[r], "client_gone")
      BY <1>1, <2>1
    <2>3. req[r].conn = "left"
      BY <2>2 DEF Blamed
    <2> QED
      BY <2>3
  <1>8. said \in {"answer", "abort", "return", "bare"} /\ c \in Codes
    BY <1>2, <1>4 DEF Codes
  <1>9. h \in {"nothing", "partial", "answer", "cutoff", "bare"} /\ (h = "bare" => Expired)
    <2>1. /\ req[r].conn \in {"open", "left", "closed"} /\ RequestOK(req[r]) /\ StageOK(req[r])
          /\ req[r].heard \in {"nothing", "partial", "answer", "cutoff", "bare"}
          /\ req[r].cause \in {"none", "cancel", "cut"}
      BY ReqParts DEF Reqs
    <2>2. CASE req[r].conn # "open"
      <3>1. h = IF req[r].heard = "partial" THEN "cutoff" ELSE req[r].heard
        BY <1>3, <1>8, <2>2 DEF Hears
      <3> QED
        BY <2>1, <3>1 DEF StageOK, Expired
    <2>3. CASE req[r].conn = "open"
      <3>1. said \in {"answer", "abort", "bare"}
        BY <1>7, <1>8, <2>3
      <3>2. said = "answer" => h = "answer"
        BY <1>3, <2>3 DEF Hears
      <3>3. said = "abort" => h = "cutoff"
        BY <1>3, <2>3 DEF Hears
      <3>4. said = "bare" => h = "bare" /\ Expired
        <4> SUFFICES ASSUME said = "bare" PROVE h = "bare" /\ Expired
          OBVIOUS
        <4>1. req[r].cause # "none" /\ ~Slot(req[r])
          BY <1>2
        <4>2. req[r].cause = "cut"
          BY <2>1, <2>3, <4>1 DEF RequestOK
        <4> QED
          BY <1>3, <2>1, <2>3, <4>2 DEF Hears, StageOK, Expired
      <3> QED
        BY <3>1, <3>2, <3>3, <3>4
    <2> QED
      BY <2>2, <2>3
  <1>10. Blamed(req[r], c)
    <2>1. CASE took
      BY <1>1, <1>4, <2>1 DEF Blamed, DrainTookIt
    <2>2. CASE ~took
      BY <1>1, <1>4, <2>2
    <2> QED
      BY <2>1, <2>2
  <1>11. q \in Reqs /\ RequestOK(q) /\ StageOK(q) /\ q.code = c
    BY <1>5, <1>8, <1>9, DoneIs
  <1> QED
    BY <1>6, <1>10, <1>11, OneMoves


-----------------------------------------------------------------------------
(* The handlers' ends.                                                     *)

\* An error envelope, where the request may have been cut or left.
LEMMA FailKeeps ==
  ASSUME GatewayInv, NEW r \in Requests, Open(req[r]), req[r].pc # "stream", FailWith(r, "refused")
  PROVE  GatewayInv' /\ BlameStep
  <1>1. req[r] \in Reqs /\ RequestOK(req[r]) /\ req[r].cause \in {"none", "cancel", "cut"}
    BY ReqParts DEF Reqs
  <1>2. CASE req[r].cause = "cut"
    <2>1. End(r, "drain_expired", "abort")
      BY <1>2 DEF FailWith
    <2>2. Blamed(req[r], "drain_expired")
      BY <1>2 DEF Blamed
    <2> QED
      BY <2>1, <2>2, EndKeeps DEF Codes
  <1>3. CASE req[r].cause = "cancel"
    <2>1. End(r, "client_gone", "abort")
      BY <1>3 DEF FailWith
    <2>2. Blamed(req[r], "client_gone")
      BY <1>1, <1>3 DEF Blamed, RequestOK
    <2> QED
      BY <2>1, <2>2, EndKeeps DEF Codes
  <1>4. CASE req[r].cause = "none"
    <2>1. End(r, "refused", "answer")
      BY <1>4 DEF FailWith
    <2>2. Blamed(req[r], "refused")
      BY DEF Blamed
    <2> QED
      BY <2>1, <2>2, EndKeeps DEF Codes
  <1> QED
    BY <1>1, <1>2, <1>3, <1>4

\* An answer.
LEMMA AnswerKeeps ==
  ASSUME GatewayInv, NEW r \in Requests, Open(req[r]),
         End(r, "ok", "answer") \/ End(r, "refused", "answer")
  PROVE  GatewayInv' /\ BlameStep
  <1>1. Blamed(req[r], "ok") /\ Blamed(req[r], "refused")
    BY DEF Blamed
  <1> QED
    BY <1>1, EndKeeps DEF Codes

\* A handler that gives up on a context that was cancelled: the drain took the
\* request, or its client left.
LEMMA GoneKeeps ==
  ASSUME GatewayInv, NEW r \in Requests, Open(req[r]), NEW how \in {"abort", "return"},
         End(r, "client_gone", how), req[r].cause # "none" \/ req[r].err = "canceled",
         ~Slot(req[r]) \/ req[r].pc # "stream" \/ req[r].budget > 0
  PROVE  GatewayInv' /\ BlameStep
  <1>1. RequestOK(req[r]) /\ req[r].cause \in {"none", "cancel", "cut"} /\ req[r].budget \in Nat
    BY ReqParts DEF Reqs
  <1>2. req[r].cause \in {"cut", "cancel"}
    BY <1>1 DEF RequestOK
  <1>3. CASE req[r].cause = "cut"
    <2>1. DrainTookIt(r, "client_gone")
      BY <1>3 DEF DrainTookIt
    <2> QED
      BY <2>1, EndKeeps DEF Codes
  <1>4. CASE req[r].cause = "cancel"
    <2>1. req[r].conn = "left"
      BY <1>1, <1>4 DEF RequestOK
    <2>2. Blamed(req[r], "client_gone")
      BY <2>1 DEF Blamed
    <2> QED
      BY <2>2, EndKeeps DEF Codes
  <1> QED
    BY <1>2, <1>3, <1>4

\* Do returns before it committed anything.
LEMMA NotCommittedKeeps ==
  ASSUME GatewayInv, NEW r \in Requests, req[r].pc = "upstream",
         NEW code \in {"upstream_timeout", "client_gone", "refused"}, NotCommitted(r, code),
         code = "upstream_timeout" => req[r].inner = 0 \/ req[r].budget = 0,
         code = "client_gone" => req[r].err = "canceled"
  PROVE  GatewayInv' /\ BlameStep
  <1>1. Open(req[r])
    BY DEF Open
  <1>2. CASE req[r].cause = "cut"
    <2>1. End(r, "drain_expired", "abort")
      BY <1>2 DEF NotCommitted
    <2>2. Blamed(req[r], "drain_expired")
      BY <1>2 DEF Blamed
    <2> QED
      BY <1>1, <2>1, <2>2, EndKeeps DEF Codes
  <1>3. CASE req[r].cause # "cut" /\ code = "client_gone"
    <2>1. End(r, "client_gone", "return")
      BY <1>3 DEF NotCommitted
    <2> QED
      BY <1>1, <1>3, <2>1, GoneKeeps
  <1>4. CASE req[r].cause # "cut" /\ code # "client_gone"
    <2>1. End(r, code, "answer")
      BY <1>4 DEF NotCommitted
    <2>2. Blamed(req[r], code)
      <3>1. CASE code = "upstream_timeout"
        BY <3>1 DEF Blamed
      <3>2. CASE code = "refused"
        BY <3>2 DEF Blamed
      <3> QED
        BY <1>4, <3>1, <3>2
    <2> QED
      BY <1>1, <2>1, <2>2, EndKeeps DEF Codes
  <1> QED
    BY <1>2, <1>3, <1>4

-----------------------------------------------------------------------------
(* The requests.                                                           *)

\* What a request that goes on to p is: nothing but its place is new.
LEMMA PlaceKeeps ==
  ASSUME GatewayInv, NEW r \in Requests, NEW q \in Reqs, Goes(r, q), Open(req[r]), ~Slot(req[r]),
         q.pc \in {"auth", "exchange", "headed", "parked", "stream"}, ~Slot(q), req[r].pc # "parked",
         q.heard = req[r].heard \/ q.heard # "bare",
         q.cause = req[r].cause, q.err = req[r].err, q.conn = req[r].conn, q.code = req[r].code,
         q.ahead = req[r].ahead
  PROVE  GatewayInv' /\ BlameStep
  <1>1. RequestOK(req[r]) /\ StageOK(req[r])
    BY ReqParts
  <1>2. RequestOK(q)
    BY <1>1 DEF RequestOK, Open
  <1>3. StageOK(q)
    BY <1>1, <1>2 DEF StageOK, Expired, Open, RequestOK
  <1> QED
    BY <1>2, <1>3, GoesKeeps

\* A connection, as far as its route.
LEMMA EntryKeeps ==
  ASSUME GatewayInv, NEW r \in Requests, Connect(r) \/ Enter(r)
  PROVE  GatewayInv' /\ BlameStep
  <1>1. req[r] \in Reqs /\ RequestOK(req[r])
    BY ReqParts
  <1>2. CASE Connect(r)
    <2>1. PICK k \in Kinds, s \in Durations :
             Goes(r, [NoRequest EXCEPT !.pc = "accepted", !.kind = k, !.secs = s])
      BY <1>2 DEF Connect
    <2>2. PICK q : q = [NoRequest EXCEPT !.pc = "accepted", !.kind = k, !.secs = s]
      OBVIOUS
    <2>3. q \in Reqs
      BY <2>2, NoRequestIs DEF Reqs
    <2>4. /\ q.pc = "accepted" /\ q.code = "none" /\ q.cause = "none" /\ q.err = "none" /\ q.conn = "open"
          /\ q.ahead = FALSE /\ q.heard = "nothing"
      BY <2>2 DEF NoRequest
    <2>5. stage \in {"run", "window"}
      BY <1>2 DEF Connect, Listening
    <2>6. RequestOK(q) /\ StageOK(q)
      BY <2>4, <2>5 DEF RequestOK, StageOK, Expired, Open, Slot, Holding
    <2> QED
      BY <2>1, <2>2, <2>3, <2>4, <2>6, GoesKeeps
  <1>3. CASE Enter(r)
    <2>1. req[r].pc = "accepted" /\ Open(req[r])
      BY <1>3 DEF Enter, Open
    <2>2. CASE FailWith(r, "refused")
      BY <2>1, <2>2, FailKeeps
    <2>3. ASSUME NEW p \in {"exchange", "auth"}, Goes(r, [req[r] EXCEPT !.pc = p])
          PROVE  GatewayInv' /\ BlameStep
      <3>1. PICK q : q = [req[r] EXCEPT !.pc = p]
        OBVIOUS
      <3>2. /\ q \in Reqs /\ q.pc = p /\ q.cause = req[r].cause /\ q.err = req[r].err /\ q.conn = req[r].conn
            /\ q.code = req[r].code /\ q.ahead = req[r].ahead /\ q.heard = req[r].heard
        BY <1>1, <3>1 DEF Reqs
      <3>3. ~Slot(req[r]) /\ ~Slot(q)
        BY <2>1, <3>2 DEF Slot, Holding
      <3> QED
        BY <2>1, <2>3, <3>1, <3>2, <3>3, PlaceKeeps
    <2> QED
      BY <1>3, <2>2, <2>3 DEF Enter
  <1> QED
    BY <1>2, <1>3


\* What an authenticated request is answered, or where it goes.
LEMMA AuthKeeps ==
  ASSUME GatewayInv, NEW r \in Requests,
         \/ AuthFails(r) \/ Refuse(r) \/ ServeListing(r) \/ Park(r) \/ Download(r)
  PROVE  GatewayInv' /\ BlameStep
  <1>1. req[r] \in Reqs /\ RequestOK(req[r])
    BY ReqParts
  <1>2. req[r].pc = "auth" /\ Open(req[r]) /\ ~Slot(req[r])
    BY DEF AuthFails, Refuse, ServeListing, Park, Download, Open, Slot, Holding
  <1>3. CASE AuthFails(r) \/ Refuse(r) \/ ServeListing(r)
    BY <1>2, <1>3, FailKeeps, AnswerKeeps DEF AuthFails, Refuse, ServeListing
  <1>4. CASE Park(r)
    <2>1. PICK q : q = [req[r] EXCEPT !.pc = "parked"]
      OBVIOUS
    <2>2. /\ q \in Reqs /\ q.pc = "parked" /\ q.cause = req[r].cause /\ q.err = req[r].err
          /\ q.conn = req[r].conn /\ q.code = req[r].code /\ q.ahead = req[r].ahead
          /\ q.heard = req[r].heard
      BY <1>1, <2>1 DEF Reqs
    <2>3. Goes(r, q) /\ ~Slot(q)
      BY <1>4, <2>1, <2>2 DEF Park, Slot, Holding
    <2> QED
      BY <1>2, <2>2, <2>3, PlaceKeeps
  <1>5. CASE Download(r)
    <2>1. PICK h : h = IF req[r].conn = "open" THEN "partial" ELSE req[r].heard
      OBVIOUS
    <2>2. h \in {"nothing", "partial", "answer", "cutoff", "bare"} /\ (h = req[r].heard \/ h # "bare")
      BY <1>1, <2>1 DEF Reqs
    <2>3. PICK q : q = [req[r] EXCEPT !.pc = "stream", !.heard = h]
      OBVIOUS
    <2>4. /\ q \in Reqs /\ q.pc = "stream" /\ q.cause = req[r].cause /\ q.err = req[r].err
          /\ q.conn = req[r].conn /\ q.code = req[r].code /\ q.ahead = req[r].ahead /\ q.kind = req[r].kind
          /\ q.heard = h
      BY <1>1, <2>2, <2>3 DEF Reqs
    <2>5. Goes(r, q) /\ req[r].kind = "download"
      BY <1>5, <2>1, <2>3 DEF Download
    <2>6. ~Slot(q)
      BY <2>4, <2>5 DEF Slot
    <2> QED
      BY <1>2, <2>2, <2>4, <2>5, <2>6, PlaceKeeps
  <1> QED
    BY <1>3, <1>4, <1>5

\* The slot is taken, with a budget that the drain's bound covers.
LEMMA AdmitKeeps ==
  ASSUME GatewayInv, NEW r \in Requests, Admit(r)
  PROVE  GatewayInv' /\ BlameStep
  <1>1. req[r] \in Reqs /\ RequestOK(req[r]) /\ StageOK(req[r])
    BY ReqParts
  <1>2. req[r].pc = "auth" /\ req[r].kind = "profile" /\ Open(req[r]) /\ ~Slot(req[r])
    BY DEF Admit, Open, Slot, Holding
  <1>3. CASE FailWith(r, "refused")
    BY <1>2, <1>3, FailKeeps
  <1>4. CASE ~FailWith(r, "refused")
    <2>1. PICK b : b = req[r].secs + BudgetGrace
      OBVIOUS
    <2>2. b \in Nat /\ b =< DrainBound /\ ConfirmCallTimeout \in Nat
      BY <1>1, <2>1, Bounds DEF Reqs
    <2>3. PICK q : q = [req[r] EXCEPT !.pc = "confirm", !.inner = ConfirmCallTimeout, !.budget = b]
      OBVIOUS
    <2>4. /\ q \in Reqs /\ q.pc = "confirm" /\ q.cause = req[r].cause /\ q.err = req[r].err
          /\ q.conn = req[r].conn /\ q.code = req[r].code /\ q.ahead = req[r].ahead /\ q.kind = req[r].kind
          /\ q.budget = b /\ q.heard = req[r].heard
      BY <1>1, <2>2, <2>3 DEF Reqs
    <2>5. req' = [req EXCEPT ![r] = q] /\ UNCHANGED <<life, worker, stage, clock>>
      <3>1. req' = [req EXCEPT ![r].pc = "confirm", ![r].inner = ConfirmCallTimeout, ![r].budget = b]
            /\ UNCHANGED <<life, worker, stage, clock>>
        BY <1>4, <2>1 DEF Admit
      <3> QED
        BY <2>3, <3>1
    <2>6. req[r].err # "deadline" /\ ~req[r].ahead /\ req[r].code = "none"
      BY <1>1, <1>2 DEF RequestOK
    <2>7. RequestOK(q)
      BY <1>1, <1>2, <2>2, <2>4, <2>6 DEF RequestOK, Open, Slot
    <2>8. StageOK(q)
      BY <1>1, <1>2, <2>4, <2>6 DEF StageOK, Expired, Open
    <2>9. Blamed(req[r], q.code)
      BY <2>4, <2>6 DEF Blamed
    <2> QED
      BY <2>4, <2>5, <2>7, <2>8, <2>9, OneMoves
  <1> QED
    BY <1>3, <1>4

\* The Pod is dialled, and its headers are forwarded.
LEMMA UpstreamKeeps ==
  ASSUME GatewayInv, NEW r \in Requests, Confirmed(r) \/ Commits(r)
  PROVE  GatewayInv' /\ BlameStep
  <1>1. req[r] \in Reqs /\ RequestOK(req[r]) /\ StageOK(req[r])
    BY ReqParts
  <1>2. req[r].pc \in {"confirm", "upstream"} /\ Open(req[r]) /\ Slot(req[r])
    BY <1>1 DEF Confirmed, Commits, Open, Slot, Holding, RequestOK
  <1>3. PICK q : Goes(r, q) /\
             \/ q = [req[r] EXCEPT !.pc = "upstream", !.inner = HeaderDeadline(req[r].secs)]
             \/ /\ req[r].err = "none"
                /\ q = [req[r] EXCEPT !.pc = "stream",
                                      !.heard = IF req[r].conn = "open" THEN "partial" ELSE req[r].heard]
    BY DEF Confirmed, Commits
  <1>4. /\ q \in Reqs /\ q.cause = req[r].cause /\ q.err = req[r].err /\ q.conn = req[r].conn
        /\ q.code = req[r].code /\ q.ahead = req[r].ahead /\ q.kind = req[r].kind /\ q.budget = req[r].budget
        /\ q.pc \in {"upstream", "stream"} /\ (q.heard = req[r].heard \/ q.heard # "bare")
    <2>1. PICK n : n = HeaderDeadline(req[r].secs)
      OBVIOUS
    <2>2. n \in Nat
      BY <1>1, <2>1, Bounds DEF Reqs
    <2>3. PICK h : h = IF req[r].conn = "open" THEN "partial" ELSE req[r].heard
      OBVIOUS
    <2>4. h \in {"nothing", "partial", "answer", "cutoff", "bare"} /\ (h = req[r].heard \/ h # "bare")
      BY <1>1, <2>3 DEF Reqs
    <2>5. q = [req[r] EXCEPT !.pc = "upstream", !.inner = n] \/ q = [req[r] EXCEPT !.pc = "stream", !.heard = h]
      BY <1>3, <2>1, <2>3
    <2>6. CASE q = [req[r] EXCEPT !.pc = "upstream", !.inner = n]
      BY <1>1, <2>2, <2>6 DEF Reqs
    <2>7. CASE q = [req[r] EXCEPT !.pc = "stream", !.heard = h]
      BY <1>1, <2>4, <2>7 DEF Reqs
    <2> QED
      BY <2>5, <2>6, <2>7
  <1>5. Slot(q) /\ Open(q)
    BY <1>2, <1>4 DEF Slot, Holding, Open
  <1>6. RequestOK(q) /\ StageOK(q)
    BY <1>1, <1>2, <1>4, <1>5 DEF RequestOK, StageOK, Expired
  <1> QED
    BY <1>3, <1>4, <1>6, GoesKeeps

\* A profile ends before its headers.
LEMMA BeforeHeadersKeeps ==
  ASSUME GatewayInv, NEW r \in Requests, ConfirmFails(r) \/ HeadersLate(r) \/ RoundTripFails(r)
  PROVE  GatewayInv' /\ BlameStep
  <1>1. req[r] \in Reqs /\ RequestOK(req[r])
    BY ReqParts
  <1>2. CASE ConfirmFails(r)
    <2>1. req[r].pc = "confirm" /\ Open(req[r])
      BY <1>2 DEF ConfirmFails, Open
    <2> QED
      BY <1>2, <2>1, FailKeeps, GoneKeeps DEF ConfirmFails
  <1>3. CASE HeadersLate(r)
    BY <1>3, NotCommittedKeeps DEF HeadersLate
  <1>4. CASE RoundTripFails(r)
    <2>1. PICK c : c = ClassifyBeforeHeaders(req[r])
      OBVIOUS
    <2>2. /\ c \in {"upstream_timeout", "client_gone", "refused"}
          /\ c = "upstream_timeout" => req[r].err = "deadline"
          /\ c = "client_gone" => req[r].err = "canceled"
      BY <1>1, <2>1 DEF ClassifyBeforeHeaders, Reqs
    <2>3. req[r].err = "deadline" => req[r].budget = 0
      BY <1>1 DEF RequestOK
    <2> QED
      BY <1>4, <2>1, <2>2, <2>3, NotCommittedKeeps DEF RoundTripFails
  <1> QED
    BY <1>2, <1>3, <1>4

\* A stream ends or fails.
LEMMA StreamKeeps ==
  ASSUME GatewayInv, NEW r \in Requests, StreamEnds(r) \/ CopyFails(r) \/ DownloadFails(r)
  PROVE  GatewayInv' /\ BlameStep
  <1>1. /\ req[r] \in Reqs /\ RequestOK(req[r]) /\ req[r].budget \in Nat
        /\ req[r].err \in {"none", "canceled", "deadline"}
    BY ReqParts DEF Reqs
  <1>2. req[r].pc = "stream" /\ Open(req[r])
    BY DEF StreamEnds, CopyFails, DownloadFails, Open
  <1>3. CASE StreamEnds(r)
    BY <1>2, <1>3, AnswerKeeps DEF StreamEnds
  <1>4. CASE CopyFails(r)
    <2>1. CASE req[r].budget > 0 /\ req[r].err = "canceled"
      <3>1. End(r, "client_gone", "return")
        BY <1>4, <2>1 DEF CopyFails, StreamCode
      <3> QED
        BY <1>2, <2>1, <3>1, GoneKeeps
    <2>2. CASE ~(req[r].budget > 0 /\ req[r].err = "canceled")
      <3>1. End(r, "stream_failed", "abort")
        BY <1>4, <2>2 DEF CopyFails, StreamCode
      <3>2. req[r].conn # "left" \/ req[r].budget = 0
        BY <1>1, <2>2 DEF RequestOK
      <3>3. Blamed(req[r], "stream_failed")
        BY <3>2 DEF Blamed
      <3> QED
        BY <1>2, <3>1, <3>3, EndKeeps DEF Codes
    <2> QED
      BY <2>1, <2>2
  <1>5. CASE DownloadFails(r)
    <2>1. ~Slot(req[r])
      BY <1>5 DEF DownloadFails, Slot
    <2>2. CASE req[r].err # "none" /\ End(r, "client_gone", "return")
      <3>1. req[r].err = "canceled"
        BY <1>1, <2>1, <2>2 DEF RequestOK
      <3> QED
        BY <1>2, <2>1, <2>2, <3>1, GoneKeeps
    <2>3. CASE req[r].err = "none" /\ End(r, "stream_failed", "abort")
      <3>1. Blamed(req[r], "stream_failed")
        BY <1>1, <2>3 DEF Blamed, RequestOK
      <3> QED
        BY <1>2, <2>3, <3>1, EndKeeps DEF Codes
    <2> QED
      BY <1>5, <2>2, <2>3 DEF DownloadFails
  <1> QED
    BY <1>3, <1>4, <1>5

\* A parked wait ends.
LEMMA WaitKeeps ==
  ASSUME GatewayInv, NEW r \in Requests, WaitEnds(r) \/ WaitCancelled(r)
  PROVE  GatewayInv' /\ BlameStep
  <1>1. RequestOK(req[r]) /\ req[r].err \in {"none", "canceled", "deadline"}
    BY ReqParts DEF Reqs
  <1>2. req[r].pc = "parked" /\ Open(req[r]) /\ ~Slot(req[r])
    BY DEF WaitEnds, WaitCancelled, Open, Slot, Holding
  <1>3. CASE WaitEnds(r)
    BY <1>2, <1>3, AnswerKeeps, FailKeeps DEF WaitEnds
  <1>4. CASE WaitCancelled(r)
    <2>1. req[r].err = "canceled"
      BY <1>1, <1>2, <1>4 DEF RequestOK, WaitCancelled
    <2> QED
      BY <1>2, <1>4, <2>1, GoneKeeps DEF WaitCancelled
  <1> QED
    BY <1>3, <1>4

\* A login route answers: with its header, then with its body.
LEMMA ExchangeKeeps ==
  ASSUME GatewayInv, NEW r \in Requests,
         ExchangeRedirects(r) \/ ExchangeHeads(r) \/ ExchangeCut(r) \/ ExchangeEnds(r)
  PROVE  GatewayInv' /\ BlameStep
  <1>1. req[r] \in Reqs /\ RequestOK(req[r]) /\ req[r].cause \in {"none", "cancel", "cut"}
    BY ReqParts DEF Reqs
  <1>2. req[r].pc \in {"exchange", "headed"} /\ Open(req[r]) /\ ~Slot(req[r])
    BY DEF ExchangeRedirects, ExchangeHeads, ExchangeCut, ExchangeEnds, Open, Slot, Holding
  <1>3. CASE ExchangeRedirects(r)
    BY <1>2, <1>3, AnswerKeeps DEF ExchangeRedirects
  <1>4. CASE ExchangeHeads(r)
    <2>1. PICK q : q = [req[r] EXCEPT !.pc = "headed"]
      OBVIOUS
    <2>2. /\ q \in Reqs /\ q.pc = "headed" /\ q.cause = req[r].cause /\ q.err = req[r].err
          /\ q.conn = req[r].conn /\ q.code = req[r].code /\ q.ahead = req[r].ahead
          /\ q.heard = req[r].heard
      BY <1>1, <2>1 DEF Reqs
    <2>3. ~Slot(q)
      BY <2>2 DEF Slot, Holding
    <2> QED
      BY <1>2, <1>4, <2>1, <2>2, <2>3, PlaceKeeps DEF ExchangeHeads
  <1>5. CASE ExchangeCut(r)
    <2>1. CASE req[r].cause = "cut" /\ End(r, "drain_expired", "abort")
      <3>1. Blamed(req[r], "drain_expired")
        BY <2>1 DEF Blamed
      <3> QED
        BY <1>2, <2>1, <3>1, EndKeeps DEF Codes
    <2>2. CASE req[r].cause = "cancel" /\ End(r, "client_gone", "abort")
      BY <1>2, <2>2, GoneKeeps
    <2> QED
      BY <1>5, <2>1, <2>2 DEF ExchangeCut
  <1>6. CASE ExchangeEnds(r)
    <2>1. PICK code \in {"ok", "refused"} : End(r, code, BodyWritten(req[r]))
      BY <1>6 DEF ExchangeEnds
    <2>2. Blamed(req[r], code)
      BY DEF Blamed
    <2>3. BodyWritten(req[r]) \in {"answer", "bare"} /\ (BodyWritten(req[r]) = "bare" => req[r].cause # "none")
      BY DEF BodyWritten
    <2> QED
      BY <1>2, <2>1, <2>2, <2>3, EndKeeps DEF Codes
  <1> QED
    BY <1>3, <1>4, <1>5, <1>6

\* A context that ends keeps the cause and the error it had.
LEMMA CancelledIs ==
  ASSUME NEW q \in Reqs, NEW why \in {"cancel", "cut"}, NEW c, c = Cancelled(q, why)
  PROVE  /\ c \in Reqs /\ c.pc = q.pc /\ c.kind = q.kind /\ c.conn = q.conn /\ c.code = q.code
         /\ c.budget = q.budget /\ c.ahead = q.ahead /\ c.heard = q.heard
         /\ c.cause # "none" /\ c.err # "none"
         /\ q.cause # "none" => c.cause = q.cause
         /\ q.cause = "none" => c.cause = why
         /\ q.err # "none" => c.err = q.err
         /\ q.err = "none" => c.err = "canceled"
  <1>1. PICK x : x = IF q.cause = "none" THEN why ELSE q.cause
    OBVIOUS
  <1>2. PICK e : e = IF q.err = "none" THEN "canceled" ELSE q.err
    OBVIOUS
  <1>3. c = [q EXCEPT !.cause = x, !.err = e]
    BY <1>1, <1>2 DEF Cancelled
  <1>4. x \in {"cancel", "cut"} /\ e \in {"canceled", "deadline"}
    BY <1>1, <1>2 DEF Reqs
  <1>5. /\ c \in Reqs /\ c.pc = q.pc /\ c.kind = q.kind /\ c.conn = q.conn /\ c.code = q.code
        /\ c.budget = q.budget /\ c.ahead = q.ahead /\ c.heard = q.heard /\ c.cause = x /\ c.err = e
    BY <1>3, <1>4 DEF Reqs
  <1> QED
    BY <1>1, <1>2, <1>4, <1>5

\* The client leaves, the budget ends, the stream is reset.
LEMMA OutsideKeeps ==
  ASSUME GatewayInv, NEW r \in Requests, ClientLeaves(r) \/ BudgetFires(r) \/ StreamReset(r)
  PROVE  GatewayInv' /\ BlameStep
  <1>1. req[r] \in Reqs /\ RequestOK(req[r]) /\ StageOK(req[r])
    BY ReqParts
  <1>2. PICK c : c = Cancelled(req[r], "cancel")
    OBVIOUS
  <1>3. /\ c \in Reqs /\ c.pc = req[r].pc /\ c.kind = req[r].kind /\ c.conn = req[r].conn
        /\ c.code = req[r].code /\ c.budget = req[r].budget /\ c.ahead = req[r].ahead
        /\ c.heard = req[r].heard
        /\ c.cause # "none" /\ c.err # "none"
        /\ req[r].cause # "none" => c.cause = req[r].cause
        /\ req[r].cause = "none" => c.cause = "cancel"
        /\ req[r].err # "none" => c.err = req[r].err
        /\ req[r].err = "none" => c.err = "canceled"
    BY <1>1, <1>2, CancelledIs
  <1>4. CASE ClientLeaves(r)
    <2>1. PICK q : q = [c EXCEPT !.conn = "left"]
      OBVIOUS
    <2>2. Goes(r, q) /\ Open(req[r])
      BY <1>2, <1>4, <2>1, ReqParts DEF ClientLeaves
    <2>3. /\ q \in Reqs /\ q.pc = c.pc /\ q.kind = c.kind /\ q.conn = "left" /\ q.code = c.code
          /\ q.budget = c.budget /\ q.ahead = c.ahead /\ q.cause = c.cause /\ q.err = c.err
          /\ q.heard = c.heard
      BY <1>3, <2>1 DEF Reqs
    <2>4. Open(q) /\ (Slot(q) <=> Slot(req[r])) /\ q.pc # "done"
      BY <1>3, <2>2, <2>3 DEF Open, Slot
    <2>5. RequestOK(q)
      BY <1>1, <1>3, <2>2, <2>3, <2>4 DEF RequestOK
    <2>6. StageOK(q)
      BY <1>1, <1>3, <2>2, <2>3, <2>4 DEF StageOK, Expired
    <2> QED
      BY <2>2, <2>3, <2>4, <2>5, <2>6, GoesKeeps
  <1>5. CASE BudgetFires(r)
    <2>1. PICK q : q = [req[r] EXCEPT !.err = "deadline"]
      OBVIOUS
    <2>2. Goes(r, q) /\ Slot(req[r]) /\ req[r].budget = 0 /\ req[r].err = "none"
      BY <1>5, <2>1, ReqParts DEF BudgetFires, BudgetOver
    <2>3. /\ q \in Reqs /\ q.pc = req[r].pc /\ q.kind = req[r].kind /\ q.conn = req[r].conn
          /\ q.code = req[r].code /\ q.budget = req[r].budget /\ q.ahead = req[r].ahead
          /\ q.cause = req[r].cause /\ q.err = "deadline" /\ q.heard = req[r].heard
      BY <1>1, <2>1 DEF Reqs
    <2>4. Open(req[r]) /\ Open(q) /\ Slot(q) /\ q.pc # "done"
      BY <2>2, <2>3 DEF Open, Slot, Holding
    <2>5. RequestOK(q) /\ StageOK(q)
      BY <1>1, <2>2, <2>3, <2>4 DEF RequestOK, StageOK, Expired
    <2> QED
      BY <2>2, <2>3, <2>4, <2>5, GoesKeeps
  <1>6. CASE StreamReset(r)
    <2>1. Goes(r, c) /\ Slot(req[r]) /\ req[r].budget = 0 /\ req[r].pc = "stream" /\ req[r].err = "none"
      BY <1>2, <1>6, ReqParts DEF StreamReset, BudgetOver
    <2>2. Open(req[r]) /\ Open(c) /\ Slot(c) /\ c.pc # "done"
      BY <1>3, <2>1 DEF Open, Slot
    <2>3. RequestOK(c) /\ StageOK(c)
      BY <1>1, <1>3, <2>1, <2>2 DEF RequestOK, StageOK, Expired
    <2> QED
      BY <1>3, <2>1, <2>2, <2>3, GoesKeeps
  <1> QED
    BY <1>4, <1>5, <1>6

\* Every step of a request.
LEMMA ServeKeeps ==
  ASSUME GatewayInv, NEW r \in Requests, Serve(r)
  PROVE  GatewayInv' /\ BlameStep
  <1>1. CASE Connect(r) \/ Enter(r)
    BY <1>1, EntryKeeps
  <1>2. CASE AuthFails(r) \/ Refuse(r) \/ ServeListing(r) \/ Park(r) \/ Download(r)
    BY <1>2, AuthKeeps
  <1>3. CASE Admit(r)
    BY <1>3, AdmitKeeps
  <1>4. CASE Confirmed(r) \/ Commits(r)
    BY <1>4, UpstreamKeeps
  <1>5. CASE ConfirmFails(r) \/ HeadersLate(r) \/ RoundTripFails(r)
    BY <1>5, BeforeHeadersKeeps
  <1>6. CASE StreamEnds(r) \/ CopyFails(r) \/ DownloadFails(r)
    BY <1>6, StreamKeeps
  <1>7. CASE WaitEnds(r) \/ WaitCancelled(r)
    BY <1>7, WaitKeeps
  <1>9. CASE ExchangeRedirects(r) \/ ExchangeHeads(r) \/ ExchangeCut(r) \/ ExchangeEnds(r)
    BY <1>9, ExchangeKeeps
  <1>8. CASE ClientLeaves(r) \/ BudgetFires(r) \/ StreamReset(r)
    BY <1>8, OutsideKeeps
  <1> QED
    BY <1>1, <1>2, <1>3, <1>4, <1>5, <1>6, <1>7, <1>8, <1>9 DEF Serve, Forced

-----------------------------------------------------------------------------
(* The process.                                                            *)

\* A step that may move every request.
LEMMA AllMove ==
  ASSUME GatewayInv, req' \in [Requests -> Reqs], clock' \in Nat, life' \in Lives,
         \A r \in Requests : RequestOK(req'[r]) /\ StageOK(req[r])',
         \A r \in Requests : req[r].pc # "done" => req'[r].code = "none",
         life'.informers = "stopped" => stage' \in {"stopping", "exited"} /\ worker' # "running"
  PROVE  GatewayInv' /\ BlameStep
  <1>1. \A r \in Requests : RequestOK(req[r])'
    OBVIOUS
  <1>2. BlameStep
    BY DEF BlameStep, Blamed
  <1> QED
    BY <1>1, <1>2 DEF GatewayInv

\* Startup moves no request; the shutdown it may begin starts the clock that
\* every budget fits in.
LEMMA StartupKeeps ==
  ASSUME GatewayInv, Startup
  PROVE  GatewayInv' /\ BlameStep
  <1>1. req \in [Requests -> Reqs] /\ clock \in Nat /\ UNCHANGED req
        /\ \A r \in Requests : RequestOK(req[r]) /\ StageOK(req[r])
    BY DEF GatewayInv, Startup, IssuerDiscovered, PreflightPasses, Syncs, NatsPasses, StartupFails, PGOFails,
           Signalled, ListenerFails, ProbePasses, ProbeAnswers, Becomes
  <1>2. \A r \in Requests : RequestOK(req'[r]) /\ (req[r].pc # "done" => req'[r].code = "none")
    BY <1>1 DEF RequestOK
  <1>3. \/ UNCHANGED <<stage, clock>>
        \/ stage = "run" /\ stage' = "window" /\ clock' = DrainDelay
        \/ stage = "run" /\ stage' = "closing" /\ clock' = DrainBound
    BY DEF Startup, IssuerDiscovered, PreflightPasses, Syncs, NatsPasses, StartupFails, PGOFails, Signalled,
           ListenerFails, ProbePasses, ProbeAnswers, Becomes, Shutdown
  <1>4. clock' \in Nat
    BY <1>1, <1>3, Bounds
  <1>5. ASSUME NEW r \in Requests PROVE StageOK(req[r])'
    <2>1. CASE UNCHANGED <<stage, clock>>
      BY <1>1, <2>1 DEF StageOK, Expired
    <2>2. CASE stage = "run" /\ stage' = "window"
      BY <1>1, <2>2 DEF StageOK, Expired
    <2>3. CASE stage = "run" /\ stage' = "closing" /\ clock' = DrainBound
      BY <1>1, <2>3 DEF StageOK, Expired, RequestOK
    <2> QED
      BY <1>3, <2>1, <2>2, <2>3
  <1>6. /\ life' \in Lives
        /\ stage = "run" => life'.informers \in {life.informers, "running"}
        /\ stage # "run" => life'.informers = life.informers
    <2>1. life \in Lives
      BY DEF GatewayInv
    <2>2. \/ life' = life \/ life' = [life EXCEPT !.issuer = TRUE] \/ life' = [life EXCEPT !.synced = TRUE]
          \/ life' = [life EXCEPT !.nats = TRUE] \/ life' = [life EXCEPT !.answered = TRUE]
          \/ stage = "run" /\ life' = [life EXCEPT !.informers = "running"]
      BY DEF Startup, IssuerDiscovered, PreflightPasses, Syncs, NatsPasses, StartupFails, PGOFails, Signalled,
             ListenerFails, ProbePasses, ProbeAnswers, Becomes
    <2> QED
      BY <2>1, <2>2 DEF Lives
  <1>7. life'.informers = "stopped" => stage' \in {"stopping", "exited"} /\ worker' # "running"
    <2>1. CASE stage = "run"
      BY <1>6, <2>1 DEF GatewayInv
    <2>2. CASE stage # "run"
      <3>1. UNCHANGED <<stage, worker>>
        BY <2>2 DEF Startup, IssuerDiscovered, PreflightPasses, Syncs, NatsPasses, StartupFails, PGOFails,
                    Signalled, ListenerFails, ProbePasses, ProbeAnswers, Becomes, Shutdown
      <3> QED
        BY <1>6, <2>2, <3>1 DEF GatewayInv
    <2> QED
      BY <2>1, <2>2
  <1> QED
    BY <1>1, <1>2, <1>4, <1>5, <1>6, <1>7, AllMove


\* A connection dropped before its request arrived.
LEMMA DroppedIs ==
  ASSUME GatewayInv, NEW r \in Requests
  PROVE  /\ Dropped[r] \in Reqs /\ RequestOK(Dropped[r]) /\ (Open(Dropped[r]) => Dropped[r] = req[r])
         /\ Dropped[r].pc # "accepted" /\ (req[r].pc # "done" => Dropped[r].code = "none")
         /\ Dropped[r].ahead => Dropped[r] = req[r]
  <1>1. req[r] \in Reqs /\ RequestOK(req[r])
    BY ReqParts
  <1>2. CASE req[r].pc = "accepted"
    <2>1. PICK q : q = [NoRequest EXCEPT !.pc = "done", !.heard = "cutoff"]
      OBVIOUS
    <2>2. Dropped[r] = q
      BY <1>2, <2>1 DEF Dropped
    <2>3. q \in Reqs
      BY <2>1, NoRequestIs DEF Reqs
    <2>4. /\ q.pc = "done" /\ q.code = "none" /\ q.cause = "none" /\ q.err = "none" /\ q.conn = "open"
          /\ q.ahead = FALSE /\ q.kind = "read"
      BY <2>1 DEF NoRequest
    <2>5. RequestOK(q) /\ ~Open(q)
      BY <2>4 DEF RequestOK, Open, Slot
    <2> QED
      BY <2>2, <2>3, <2>4, <2>5
  <1>3. CASE req[r].pc # "accepted"
    <2>1. Dropped[r] = req[r]
      BY <1>3 DEF Dropped
    <2> QED
      BY <1>1, <1>3, <2>1 DEF RequestOK
  <1> QED
    BY <1>2, <1>3

\* The requests are done, but for what is dropped.
LEMMA DrainedKeeps ==
  ASSUME GatewayInv, APIDrained
  PROVE  GatewayInv' /\ BlameStep
  <1>1. /\ req' = Dropped /\ stage' = "closed" /\ UNCHANGED <<life, worker, clock>> /\ stage = "closing"
        /\ \A r \in Requests : Open(req[r]) => req[r].pc = "accepted"
    BY ReqParts DEF APIDrained
  <1>2. req' \in [Requests -> Reqs] /\ \A r \in Requests : req'[r] = Dropped[r]
    <2>1. Dropped = [r \in Requests |-> Dropped[r]]
      BY DEF Dropped
    <2> QED
      BY <1>1, <2>1, DroppedIs
  <1>3. ASSUME NEW r \in Requests PROVE RequestOK(req'[r]) /\ StageOK(req[r])'
    <2>1. RequestOK(req'[r]) /\ ~Open(req'[r])
      BY <1>1, <1>2, DroppedIs
    <2> QED
      BY <1>1, <2>1 DEF StageOK, Expired
  <1>4. life.informers # "stopped" /\ clock' \in Nat /\ life' \in Lives
    BY <1>1 DEF GatewayInv
  <1>5. \A r \in Requests : req[r].pc # "done" => req'[r].code = "none"
    BY <1>2, DroppedIs
  <1> QED
    BY <1>1, <1>2, <1>3, <1>4, <1>5, AllMove

\* The drain names itself as the cause: nothing that was admitted in time is
\* there to be cut.
LEMMA ExpireKeeps ==
  ASSUME GatewayInv, DrainExpires
  PROVE  GatewayInv' /\ BlameStep
  <1>1. /\ stage = "closing" /\ clock = 0 /\ stage' = "cutting" /\ UNCHANGED <<life, worker, clock>>
        /\ req' = [r \in Requests |-> IF InFlight(r) THEN Cancelled(req[r], "cut") ELSE req[r]]
    BY DEF DrainExpires
  <1>2. ASSUME NEW r \in Requests
        PROVE  /\ req'[r] \in Reqs /\ RequestOK(req'[r]) /\ StageOK(req[r])'
               /\ req[r].pc # "done" => req'[r].code = "none"
    <2>1. req[r] \in Reqs /\ RequestOK(req[r]) /\ StageOK(req[r]) /\ (InFlight(r) <=> Open(req[r]))
      BY ReqParts
    <2>2. CASE Open(req[r])
      <3>1. PICK c : c = Cancelled(req[r], "cut")
        OBVIOUS
      <3>2. req'[r] = c
        BY <1>1, <2>1, <2>2, <3>1
      <3>3. /\ c \in Reqs /\ c.pc = req[r].pc /\ c.kind = req[r].kind /\ c.conn = req[r].conn
            /\ c.code = req[r].code /\ c.budget = req[r].budget /\ c.ahead = req[r].ahead
            /\ c.cause # "none" /\ c.err # "none"
            /\ req[r].cause # "none" => c.cause = req[r].cause
            /\ req[r].cause = "none" => c.cause = "cut"
            /\ req[r].err # "none" => c.err = req[r].err
            /\ req[r].err = "none" => c.err = "canceled"
        BY <2>1, <3>1, CancelledIs
      <3>4. ~req[r].ahead
        BY <1>1, <2>1, Bounds DEF StageOK, Expired, Reqs
      <3>5. Open(c) /\ (Slot(c) <=> Slot(req[r]))
        BY <2>2, <3>3 DEF Open, Slot
      <3>6. RequestOK(c)
        BY <2>1, <3>3, <3>4, <3>5 DEF RequestOK
      <3>7. StageOK(req[r])'
        BY <1>1, <3>2, <3>3 DEF StageOK, Expired
      <3> QED
        BY <2>1, <3>2, <3>3, <3>6, <3>7 DEF RequestOK
    <2>3. CASE ~Open(req[r])
      <3>1. req'[r] = req[r]
        BY <1>1, <2>1, <2>3
      <3> QED
        BY <1>1, <2>1, <2>3, <3>1 DEF StageOK, Expired, RequestOK
    <2> QED
      BY <2>2, <2>3
  <1>3. req' \in [Requests -> Reqs]
    BY <1>1, <1>2
  <1>4. life.informers # "stopped" /\ clock' \in Nat /\ life' \in Lives
    BY <1>1 DEF GatewayInv
  <1> QED
    BY <1>1, <1>2, <1>3, <1>4, AllMove

\* The connections are closed, under requests the drain has cut.
LEMMA CloseKeeps ==
  ASSUME GatewayInv, CloseConnections
  PROVE  GatewayInv' /\ BlameStep
  <1>1. /\ stage = "cutting" /\ stage' = "closed" /\ UNCHANGED <<life, worker, clock>>
        /\ req' = [r \in Requests |->
                     IF req[r].conn = "open" /\ InFlight(r) /\ req[r].pc # "accepted"
                     THEN [Cancelled(req[r], "cancel") EXCEPT !.conn = "closed"]
                     ELSE Dropped[r]]
    BY DEF CloseConnections
  <1>2. ASSUME NEW r \in Requests
        PROVE  /\ req'[r] \in Reqs /\ RequestOK(req'[r]) /\ StageOK(req[r])'
               /\ req[r].pc # "done" => req'[r].code = "none"
    <2>1. req[r] \in Reqs /\ RequestOK(req[r]) /\ StageOK(req[r]) /\ (InFlight(r) <=> Open(req[r]))
      BY ReqParts
    <2>2. CASE req[r].conn = "open" /\ InFlight(r) /\ req[r].pc # "accepted"
      <3>1. PICK c : c = Cancelled(req[r], "cancel")
        OBVIOUS
      <3>2. PICK q : q = [c EXCEPT !.conn = "closed"]
        OBVIOUS
      <3>3. req'[r] = q
        BY <1>1, <2>2, <3>1, <3>2
      <3>4. req[r].cause # "none" /\ req[r].err # "none"
        BY <1>1, <2>1, <2>2 DEF StageOK, Expired, RequestOK
      <3>5. /\ c \in Reqs /\ c.pc = req[r].pc /\ c.kind = req[r].kind
            /\ c.code = req[r].code /\ c.budget = req[r].budget /\ c.ahead = req[r].ahead
            /\ c.cause = req[r].cause /\ c.err = req[r].err
        BY <2>1, <3>1, <3>4, CancelledIs
      <3>6. /\ q \in Reqs /\ q.pc = req[r].pc /\ q.kind = req[r].kind /\ q.conn = "closed"
            /\ q.code = req[r].code /\ q.budget = req[r].budget /\ q.ahead = req[r].ahead
            /\ q.cause = req[r].cause /\ q.err = req[r].err
        BY <3>2, <3>5 DEF Reqs
      <3>7. Open(q) /\ Open(req[r]) /\ (Slot(q) <=> Slot(req[r]))
        BY <2>1, <2>2, <3>6 DEF Open, Slot
      <3>8. RequestOK(q)
        BY <2>1, <2>2, <3>6, <3>7 DEF RequestOK
      <3>9. StageOK(req[r])'
        BY <1>1, <3>3, <3>4, <3>6 DEF StageOK, Expired
      <3> QED
        BY <2>1, <3>3, <3>6, <3>8, <3>9 DEF RequestOK
    <2>3. CASE ~(req[r].conn = "open" /\ InFlight(r) /\ req[r].pc # "accepted")
      <3>1. req'[r] = Dropped[r]
        BY <1>1, <2>3
      <3>2. req'[r] \in Reqs /\ RequestOK(req'[r]) /\ (req[r].pc # "done" => req'[r].code = "none")
            /\ (Open(req'[r]) => req'[r] = req[r])
        BY <3>1, DroppedIs
      <3>3. StageOK(req[r])'
        BY <1>1, <2>1, <3>2 DEF StageOK, Expired
      <3> QED
        BY <3>2, <3>3
    <2> QED
      BY <2>2, <2>3
  <1>3. req' \in [Requests -> Reqs]
    BY <1>1, <1>2
  <1>4. life.informers # "stopped" /\ clock' \in Nat /\ life' \in Lives
    BY <1>1 DEF GatewayInv
  <1> QED
    BY <1>1, <1>2, <1>3, <1>4, AllMove


\* The rest of the drain moves no request.
LEMMA DrainKeeps ==
  ASSUME GatewayInv, Drain
  PROVE  GatewayInv' /\ BlameStep
  <1>1. CASE APIDrained
    BY <1>1, DrainedKeeps
  <1>2. CASE DrainExpires
    BY <1>2, ExpireKeeps
  <1>3. CASE CloseConnections
    BY <1>3, CloseKeeps
  <1>4. CASE WindowOver \/ WorkerDrains \/ InformersStop \/ ProcessExits
    <2>1. /\ UNCHANGED req /\ req \in [Requests -> Reqs] /\ clock \in Nat /\ life \in Lives
          /\ \A r \in Requests : RequestOK(req[r]) /\ StageOK(req[r])
      BY <1>4 DEF GatewayInv, WindowOver, WorkerDrains, InformersStop, ProcessExits, Moves
    <2>2. \A r \in Requests : RequestOK(req'[r]) /\ (req[r].pc # "done" => req'[r].code = "none")
      BY <2>1 DEF RequestOK
    <2>3. /\ clock' \in Nat /\ life' \in Lives
          /\ life'.informers = "stopped" => stage' \in {"stopping", "exited"} /\ worker' # "running"
      <3>1. CASE WindowOver
        BY <2>1, <3>1, Bounds DEF WindowOver, GatewayInv
      <3>2. CASE WorkerDrains
        BY <2>1, <3>2 DEF WorkerDrains, GatewayInv
      <3>3. CASE InformersStop
        BY <2>1, <3>3 DEF InformersStop, Lives
      <3>4. CASE ProcessExits
        BY <2>1, <3>4 DEF ProcessExits, Moves, GatewayInv
      <3> QED
        BY <1>4, <3>1, <3>2, <3>3, <3>4
    <2>4. ASSUME NEW r \in Requests PROVE StageOK(req[r])'
      <3>1. CASE WindowOver
        <4>1. stage = "window" /\ stage' = "closing" /\ clock' = DrainBound
          BY <3>1 DEF WindowOver
        <4> QED
          BY <2>1, <4>1 DEF StageOK, Expired, RequestOK
      <3>2. CASE WorkerDrains
        BY <2>1, <3>2 DEF WorkerDrains, StageOK, Expired
      <3>3. CASE InformersStop
        BY <2>1, <3>3 DEF InformersStop, StageOK, Expired
      <3>4. CASE ProcessExits
        BY <2>1, <3>4 DEF ProcessExits, Moves, StageOK, Expired
      <3> QED
        BY <1>4, <3>1, <3>2, <3>3, <3>4
    <2> QED
      BY <2>1, <2>2, <2>3, <2>4, AllMove
  <1> QED
    BY <1>1, <1>2, <1>3, <1>4 DEF Drain

\* Time passes for a request that ages.
LEMMA AgesIs ==
  ASSUME NEW q \in Reqs, NEW a, a = Ages(q)
  PROVE  /\ a \in Reqs /\ a.pc = q.pc /\ a.kind = q.kind /\ a.conn = q.conn /\ a.code = q.code
         /\ a.cause = q.cause /\ a.err = q.err /\ a.heard = q.heard
         /\ a.ahead <=> q.ahead \/ Listening
         /\ q.budget > 0 => a.budget + 1 = q.budget
         /\ q.budget = 0 => a.budget = 0
  <1>1. PICK b : b = Less(q.budget)
    OBVIOUS
  <1>2. PICK i : i = Less(q.inner)
    OBVIOUS
  <1>3. PICK h \in BOOLEAN : h <=> q.ahead \/ Listening
    OBVIOUS
  <1>4. b \in Nat /\ i \in Nat /\ (q.budget > 0 => b + 1 = q.budget) /\ (q.budget = 0 => b = 0)
    BY <1>1, <1>2 DEF Less, Reqs
  <1>5. a = [q EXCEPT !.budget = b, !.inner = i, !.ahead = h]
    <2>1. (q.ahead \/ Listening) = h
      BY <1>3
    <2> QED
      BY <1>1, <1>2, <2>1 DEF Ages
  <1>6. /\ a \in Reqs /\ a.pc = q.pc /\ a.kind = q.kind /\ a.conn = q.conn /\ a.code = q.code
        /\ a.cause = q.cause /\ a.err = q.err /\ a.heard = q.heard /\ a.ahead = h /\ a.budget = b
    BY <1>4, <1>5 DEF Reqs
  <1> QED
    BY <1>3, <1>4, <1>6

\* A tick: the budgets in flight and the clock of the stage go down together.
LEMMA TicksKeeps ==
  ASSUME GatewayInv, Ticks
  PROVE  GatewayInv' /\ BlameStep
  <1>1. /\ ~Due /\ clock' = Less(clock) /\ UNCHANGED <<life, worker, stage>> /\ clock \in Nat
        /\ req' = [r \in Requests |-> IF Running(r) \/ req[r].pc = "parked" THEN Ages(req[r]) ELSE req[r]]
    BY DEF Ticks, GatewayInv
  <1>2. /\ clock' \in Nat /\ (stage = "closing" => clock > 0 /\ clock' + 1 = clock)
        /\ stage \notin {"cutting", "closed", "stopping"}
    BY <1>1 DEF Less, Due
  <1>3. stage # "exited"
    BY DEF Ticks, Alive
  <1>4. ASSUME NEW r \in Requests
        PROVE  /\ req'[r] \in Reqs /\ RequestOK(req'[r]) /\ StageOK(req[r])'
               /\ req[r].pc # "done" => req'[r].code = "none"
    <2>1. /\ req[r] \in Reqs /\ RequestOK(req[r]) /\ StageOK(req[r]) /\ (InFlight(r) <=> Open(req[r]))
          /\ Holds(r) <=> Slot(req[r])
          /\ req[r].budget \in Nat
      BY ReqParts DEF Reqs
    <2>2. /\ Slot(req[r]) => req[r].budget > 0
          /\ Open(req[r]) /\ req[r].pc # "accepted" => req[r].cause = "none"
          /\ req[r].pc = "parked" => stage = "run"
      BY <1>1, <2>1 DEF Due, BudgetOver, DrainSignalled, Draining
    <2>3. CASE Slot(req[r]) \/ req[r].pc = "parked"
      <3>1. PICK a : a = Ages(req[r])
        OBVIOUS
      <3>2. req'[r] = a
        BY <1>1, <2>1, <2>2, <2>3, <3>1 DEF Running
      <3>3. /\ a \in Reqs /\ a.pc = req[r].pc /\ a.kind = req[r].kind /\ a.conn = req[r].conn
            /\ a.code = req[r].code /\ a.cause = req[r].cause /\ a.err = req[r].err
            /\ a.heard = req[r].heard
            /\ a.ahead <=> req[r].ahead \/ Listening
            /\ req[r].budget > 0 => a.budget + 1 = req[r].budget
            /\ req[r].budget = 0 => a.budget = 0
        BY <2>1, <3>1, AgesIs
      <3>4. /\ Open(a) <=> Open(req[r])
            /\ Slot(a) <=> Slot(req[r])
            /\ Open(req[r]) /\ req[r].pc # "accepted" /\ a.budget \in Nat
        BY <2>3, <3>3 DEF Open, Slot, Holding, Reqs
      <3>5. a.cause = "none"
        BY <2>2, <3>3, <3>4
      <3>6. RequestOK(a)
        <4>1. Slot(a) => a.budget < DrainBound
          BY <2>1, <2>2, <3>3, <3>4, Bounds DEF RequestOK
        <4>2. Slot(a) => a.budget =< DrainBound
          BY <3>4, <4>1, Bounds
        <4> QED
          BY <2>1, <2>2, <2>3, <3>3, <3>4, <3>5, <4>1, <4>2 DEF RequestOK
      <3>7. StageOK(req[r])'
        <4>1. stage = "closing" /\ a.ahead => Slot(a) /\ a.budget < clock'
          <5> SUFFICES ASSUME stage = "closing", a.ahead PROVE Slot(a) /\ a.budget < clock'
            OBVIOUS
          <5>1. req[r].ahead /\ Slot(req[r])
            BY <2>2, <2>3, <3>3 DEF Listening
          <5>2. req[r].budget < clock
            BY <2>1, <5>1 DEF StageOK, Expired
          <5> QED
            BY <1>1, <1>2, <2>1, <2>2, <3>3, <3>4, <5>1, <5>2
        <4> QED
          BY <1>1, <1>2, <1>3, <2>1, <3>2, <3>3, <3>5, <4>1 DEF StageOK, Expired
      <3> QED
        BY <2>1, <3>2, <3>3, <3>6, <3>7 DEF RequestOK
    <2>4. CASE ~(Slot(req[r]) \/ req[r].pc = "parked")
      <3>1. req'[r] = req[r]
        BY <1>1, <2>1, <2>4 DEF Running
      <3>2. ~req[r].ahead
        BY <2>1, <2>4 DEF RequestOK
      <3>3. StageOK(req[r])'
        BY <1>1, <1>2, <1>3, <2>1, <3>1, <3>2 DEF StageOK, Expired
      <3> QED
        BY <2>1, <3>1, <3>3 DEF RequestOK
    <2> QED
      BY <2>3, <2>4
  <1>5. req' \in [Requests -> Reqs]
    BY <1>1, <1>4
  <1>6. life' \in Lives /\ (life'.informers = "stopped" => stage' \in {"stopping", "exited"} /\ worker' # "running")
    BY <1>1 DEF GatewayInv
  <1> QED
    BY <1>2, <1>4, <1>5, <1>6, AllMove

-----------------------------------------------------------------------------

\* The first state.
LEMMA GatewayStart == GatewayInit => GatewayInv
  <1> SUFFICES ASSUME GatewayInit PROVE GatewayInv
    OBVIOUS
  <1>1. /\ req = [r \in Requests |-> NoRequest] /\ clock = 0 /\ stage = "run"
        /\ life = [issuer |-> ~OIDC, informers |-> "none", synced |-> FALSE, nats |-> FALSE, answered |-> FALSE]
    BY DEF GatewayInit
  <1>2. life \in Lives /\ life.informers = "none"
    BY <1>1 DEF Lives
  <1> QED
    BY <1>1, <1>2, NoRequestIs DEF GatewayInv

\* Every step.
LEMMA GatewayStep ==
  ASSUME GatewayInv, [GatewayNext]_gatewayVars
  PROVE  GatewayInv' /\ (BlameStep \/ UNCHANGED gatewayVars)
  <1>1. CASE UNCHANGED gatewayVars
    <2>1. UNCHANGED <<req, life, worker, stage, clock>>
      BY <1>1 DEF gatewayVars
    <2>2. \A r \in Requests : RequestOK(req[r])' /\ StageOK(req[r])'
      BY <2>1 DEF GatewayInv, StageOK, Expired
    <2> QED
      BY <1>1, <2>1, <2>2 DEF GatewayInv
  <1>2. CASE \E r \in Requests : Serve(r)
    BY <1>2, ServeKeeps
  <1>3. CASE Startup
    BY <1>3, StartupKeeps
  <1>4. CASE Drain
    BY <1>4, DrainKeeps
  <1>5. CASE Ticks
    BY <1>5, TicksKeeps
  <1> QED
    BY <1>1, <1>2, <1>3, <1>4, <1>5 DEF GatewayNext

\* The invariant holds throughout: what ended a request's context is what
\* happened to it, and a budget admitted in time ends before the drain does.
THEOREM GatewayInvHolds == GatewaySpec => []GatewayInv
  <1>1. GatewayInit => GatewayInv
    BY GatewayStart
  <1>2. GatewayInv /\ [GatewayNext]_gatewayVars => GatewayInv'
    BY GatewayStep
  <1> QED
    BY <1>1, <1>2, PTL DEF GatewaySpec

\* A client that is still connected hears an answer or sees its connection cut
\* off: never an empty 200, never a short body that looks whole, and the status
\* of a login without its body only from a drain that has expired
\* (request.fail, serveProfile, streamArtifact, cutWriter).
THEOREM NoSilentAnswerHolds == GatewaySpec => []NoSilentAnswer
  <1>1. GatewayInv => NoSilentAnswer
    BY DEF GatewayInv, Reqs, StageOK, Expired, NoSilentAnswer, Listening
  <1> QED
    BY <1>1, GatewayInvHolds, PTL

\* The drain cuts no profile and no wait that was under way a tick before the
\* listener closed (serve's drainBound, serveProfile's budget).
THEOREM DrainCoversAdmittedHolds == GatewaySpec => []DrainCoversAdmitted
  <1>1. GatewayInv => DrainCoversAdmitted
    BY DEF GatewayInv, RequestOK, DrainCoversAdmitted
  <1> QED
    BY <1>1, GatewayInvHolds, PTL

\* The informers stop only when no request but a cancelled one and no
\* Collection needs them (shutdown in serve).
THEOREM DiscoveryOutlivesWorkHolds == GatewaySpec => []DiscoveryOutlivesWork
  <1>1. GatewayInv => DiscoveryOutlivesWork
    BY DEF GatewayInv, StageOK, Expired, DiscoveryOutlivesWork, InFlight, Open
  <1> QED
    BY <1>1, GatewayInvHolds, PTL

\* The code that is recorded names what ended the request, whatever else came
\* at the same instant (request.cut and gone, Do, the deferred record).
THEOREM BlameIsRightHolds == GatewaySpec => BlameIsRight
  <1>1. GatewayInv /\ [GatewayNext]_gatewayVars =>
          [\A r \in Requests : Blamed(req[r], req'[r].code) \/ req[r].pc = "done"]_gatewayVars
    BY GatewayStep DEF BlameStep
  <1> QED
    BY <1>1, GatewayInvHolds, PTL DEF GatewaySpec, BlameIsRight
=============================================================================
