------------------------------ MODULE Gateway ------------------------------
(***************************************************************************)
(* One replica of the gateway, from its startup steps to the end of its    *)
(* drain (cmd/profgate/serve.go), with the requests it serves meanwhile    *)
(* (internal/httpapi), the admission gate (internal/admit) and the proxy   *)
(* that fetches a profile from a Pod (internal/proxy).                     *)
(*                                                                         *)
(* Time is counted down in ticks.  A deadline that has come is honoured,   *)
(* and a handler whose context has ended returns, before the next tick;    *)
(* until then everything at one instant may happen in any order.           *)
(* A request's input is chosen by its outcome: any request may be one that *)
(* a step refuses.                                                         *)
(***************************************************************************)
EXTENDS Naturals, FiniteSets

CONSTANTS
    Requests,
    OIDC, PGO,              \* auth.mode is oidc; pgo.enabled
    MaxConcurrentProfiles,
    CPUSeconds, TraceSeconds,
    Durations,              \* what profiles are asked for; 0 takes no duration
    ConfirmCallTimeout, HeaderDeadlineGrace, DefaultHeaderDeadline,
    BudgetGrace, DrainSlack, DrainDelay

ASSUME GatewayAssumption ==
    /\ {OIDC, PGO} \subseteq BOOLEAN
    /\ MaxConcurrentProfiles \in Nat \ {0}
    /\ Durations \subseteq (0 .. CPUSeconds) \cup (0 .. TraceSeconds) /\ 0 \in Durations
    /\ {CPUSeconds, TraceSeconds, ConfirmCallTimeout, HeaderDeadlineGrace,
        DefaultHeaderDeadline, BudgetGrace, DrainSlack, DrainDelay} \subseteq Nat
    /\ BudgetGrace \in 1 .. DrainSlack    \* thirty seconds each

VARIABLES
    req,    \* the requests
    gate,   \* slots of the admission gate that are taken
    life,   \* the startup flags
    probe,  \* a call of /readyz: "idle", or "passed" and about to answer
    worker, \* the Collection worker: "none", "running", "drained"
    stage,  \* of the main loop and its shutdown
    clock   \* ticks left of the stage's wait

gatewayVars == <<req, gate, life, probe, worker, stage, clock>>

Kinds   == {"profile", "read", "wait", "download", "login"}
\* Of the codes, "ok" stands for every answer a route produced (a forwarded
\* upstream_<status> and the redirect to the login too), "refused" for every
\* error envelope but the timeout's, "stream_failed" for both routes that stream.

-----------------------------------------------------------------------------
(* The request: where its handler is, why its context ended first (cause:  *)
(* "cancel" is any cancellation but the drain's), what the budget's own    *)
(* context reports (err), whether the client is still connected, what it   *)
(* has heard, and the code recorded.  ahead: admitted or parked a tick     *)
(* before the listener closed.                                             *)

NoRequest ==
    [pc |-> "idle", kind |-> "read", secs |-> 0, cause |-> "none", err |-> "none",
     conn |-> "open", heard |-> "nothing", code |-> "none",
     budget |-> 0, inner |-> 0, ahead |-> FALSE]

InFlight(r) == req[r].pc \notin {"idle", "done"}
Holding     == {"confirm", "upstream", "stream"}
Holds(r)    == req[r].kind = "profile" /\ req[r].pc \in Holding

GatewayInit ==
    /\ req = [r \in Requests |-> NoRequest]
    /\ gate = 0
    /\ life = [issuer |-> ~OIDC, informers |-> "none", synced |-> FALSE,
               nats |-> FALSE, answered |-> FALSE]
    /\ probe = "idle" /\ worker = "none" /\ stage = "run" /\ clock = 0

Alive     == stage # "exited"
Draining  == stage # "run"
Listening == stage \in {"run", "window"}

\* What the handlers gate on; narrower than /readyz.
HandlersReady == life.issuer /\ life.synced

Ready == ~Draining /\ HandlersReady /\ (PGO => life.nats)

-----------------------------------------------------------------------------
(* How a handler ends.                                                     *)

\* What a client still there hears when the handler answers, panics with
\* ErrAbortHandler, or returns having written no more: net/http then finishes
\* the response, as an empty 200, as a body that looks whole, or as the status
\* alone of an answer whose body was refused.
Hears(q, how) ==
    IF q.conn # "open" THEN IF q.heard = "partial" THEN "cutoff" ELSE q.heard
    ELSE CASE how = "answer" -> "answer"
           [] how = "abort"  -> "cutoff"
           [] how = "bare"   -> "bare"
           [] how = "return" -> IF q.heard = "partial" THEN "short" ELSE "empty"

\* Mutant of Released: a handler that panics keeps its slot.
KeptOnAbort(r) ==
    IF Holds(r) /\ req[r].cause = "none" THEN gate - 1 ELSE gate

\* The deferred release of the slot, on every way out.
Released(r) == IF Holds(r) THEN gate - 1 ELSE gate

\* Mutant of DrainTookIt: the deferred function ignores the cause.
NeverTheDrain(r, code) == FALSE

\* The deferred record: client_gone of a request the drain cut is the cut.
DrainTookIt(r, code) == req[r].cause = "cut" /\ code = "client_gone"

End(r, code, how) ==
    LET took == DrainTookIt(r, code)
        said == IF took THEN "abort" ELSE how
    IN  /\ req' = [req EXCEPT ![r] =
                     [NoRequest EXCEPT !.pc = "done",
                                       !.code = IF took THEN "drain_expired" ELSE code,
                                       !.heard = Hears(req[r], said)]]
        /\ gate' = Released(r)
        /\ UNCHANGED <<life, probe, worker, stage, clock>>

\* fail: a gateway error, unless the request was cut or its client left.
FailWith(r, code) ==
    CASE req[r].cause = "cut"    -> End(r, "drain_expired", "abort")
      [] req[r].cause = "cancel" -> End(r, "client_gone", "abort")
      [] OTHER                   -> End(r, code, "answer")

Goes(r, q) ==
    /\ req' = [req EXCEPT ![r] = q]
    /\ UNCHANGED <<gate, life, probe, worker, stage, clock>>

-----------------------------------------------------------------------------
(* Serving a request.                                                      *)

Connect(r) ==
    /\ Listening /\ req[r].pc = "idle"
    /\ \E k \in Kinds, s \in Durations :
         /\ k # "profile" => s = 0
         /\ Goes(r, [NoRequest EXCEPT !.pc = "accepted", !.kind = k, !.secs = s])

\* Route, method, media type, readiness, the PGO steps and the placement of
\* the credential, in that order; the browser-login routes go to ServeAuth.
Enter(r) ==
    /\ req[r].pc = "accepted"
    /\ \/ FailWith(r, "refused")
       \/ /\ HandlersReady
          /\ req[r].kind \in {"wait", "download"} => PGO /\ life.nats
          /\ Goes(r, [req[r] EXCEPT !.pc = IF req[r].kind = "login" THEN "exchange"
                                           ELSE "auth"])

\* Authentication refuses, or sends a browser to the login.
AuthFails(r) ==
    /\ req[r].pc = "auth"
    /\ FailWith(r, "refused") \/ End(r, "ok", "answer")

\* The realm, the parameters, the port allowlist, discovery, the selection or
\* the store read of a PGO route refuses.
Refuse(r) ==
    /\ req[r].pc = "auth"
    /\ FailWith(r, "refused")

\* The target listing and the listings, from the caches and the configuration.
ServeListing(r) ==
    /\ req[r].pc = "auth" /\ req[r].kind = "read"
    /\ End(r, "ok", "answer")

\* TryAcquire never waits.
TryAcquire == gate < MaxConcurrentProfiles

\* The budget starts with the slot.
Admit(r) ==
    /\ req[r].pc = "auth" /\ req[r].kind = "profile"
    /\ IF TryAcquire
       THEN /\ req' = [req EXCEPT ![r].pc = "confirm",
                                  ![r].inner = ConfirmCallTimeout,
                                  ![r].budget = req[r].secs + BudgetGrace]
            /\ gate' = gate + 1
            /\ UNCHANGED <<life, probe, worker, stage, clock>>
       ELSE FailWith(r, "refused")

HeaderDeadline(s) == IF s = 0 THEN DefaultHeaderDeadline ELSE s + HeaderDeadlineGrace

\* Confirm: the API server vouches for the Pod, and the proxy dials it.
Confirmed(r) ==
    /\ req[r].pc = "confirm"
    /\ Goes(r, [req[r] EXCEPT !.pc = "upstream", !.inner = HeaderDeadline(req[r].secs)])

\* It does not, or does not answer; a read that the caller's cancellation
\* ended answers nobody.
ConfirmFails(r) ==
    /\ req[r].pc = "confirm"
    /\ FailWith(r, "refused") \/ (req[r].err = "canceled" /\ End(r, "client_gone", "return"))

\* Do returns before it committed anything.
NotCommitted(r, code) ==
    IF req[r].cause = "cut" THEN End(r, "drain_expired", "abort")
    ELSE End(r, code, IF code = "client_gone" THEN "return" ELSE "answer")

\* The header timer fired: whatever the round trip returned is a timeout.
HeadersLate(r) ==
    /\ req[r].pc = "upstream" /\ req[r].inner = 0
    /\ NotCommitted(r, "upstream_timeout")

ClassifyBeforeHeaders(q) ==
    CASE q.err = "deadline" -> "upstream_timeout"
      [] q.err = "canceled" -> "client_gone"
      [] OTHER              -> "refused"

\* The round trip fails with the timer stopped, or answers a redirect, which
\* is not followed.
RoundTripFails(r) ==
    /\ req[r].pc = "upstream"
    /\ NotCommitted(r, ClassifyBeforeHeaders(req[r]))

\* The Pod's headers are forwarded and the write deadline is armed.
Commits(r) ==
    /\ req[r].pc = "upstream" /\ req[r].err = "none"
    /\ Goes(r, [req[r] EXCEPT !.pc = "stream",
                              !.heard = IF req[r].conn = "open" THEN "partial" ELSE @])

\* The stored profile is opened and its headers are sent.
Download(r) ==
    /\ req[r].pc = "auth" /\ req[r].kind = "download"
    /\ Goes(r, [req[r] EXCEPT !.pc = "stream",
                              !.heard = IF req[r].conn = "open" THEN "partial" ELSE @])

\* The body, of whatever status, was copied to its end.
StreamEnds(r) ==
    /\ req[r].pc = "stream" /\ req[r].err = "none"
    /\ End(r, "ok", "answer")

\* Mutant of StreamCode: only the write deadline's own error is an expiry.
StreamCodeByContext(q) ==
    IF q.err = "canceled" THEN "client_gone" ELSE "stream_failed"

\* How Do reads an error of the copy.
StreamCode(q) ==
    IF q.budget > 0 /\ q.err = "canceled" THEN "client_gone" ELSE "stream_failed"

\* The copy fails: the context ended, or the Pod broke off.
CopyFails(r) ==
    /\ req[r].pc = "stream" /\ req[r].kind = "profile"
    /\ LET code == StreamCode(req[r]) IN
       End(r, code, IF code = "client_gone" THEN "return" ELSE "abort")

DownloadFails(r) ==
    /\ req[r].pc = "stream" /\ req[r].kind = "download"
    /\ \/ req[r].err # "none" /\ End(r, "client_gone", "return")
       \/ req[r].err = "none" /\ End(r, "stream_failed", "abort")

\* A request that waits for its Collection to move registers and reads it.
Park(r) ==
    /\ req[r].pc = "auth" /\ req[r].kind = "wait"
    /\ Goes(r, [req[r] EXCEPT !.pc = "parked"])

\* The drain signal is closed: a parked wait answers with what it last read.
DrainSignalled(r) == req[r].pc = "parked" /\ Draining

\* ... or the record moved, the wait is over, or the generation moved.
WaitEnds(r) ==
    /\ req[r].pc = "parked"
    /\ End(r, "ok", "answer") \/ FailWith(r, "refused")

WaitCancelled(r) ==
    /\ req[r].pc = "parked" /\ req[r].err # "none"
    /\ End(r, "client_gone", "return")

\* A browser-login route answers through a writer that refuses to write once
\* the request has ended.  A redirect is no more than its header.
ExchangeRedirects(r) ==
    /\ req[r].pc = "exchange" /\ req[r].cause = "none"
    /\ End(r, "ok", "answer")

\* Any other answer commits its status, and then writes its body.
ExchangeHeads(r) ==
    /\ req[r].pc = "exchange" /\ req[r].cause = "none"
    /\ Goes(r, [req[r] EXCEPT !.pc = "headed"])

\* The request ended before the status: the boundary aborts.
ExchangeCut(r) ==
    /\ req[r].pc = "exchange"
    /\ \/ req[r].cause = "cut"    /\ End(r, "drain_expired", "abort")
       \/ req[r].cause = "cancel" /\ End(r, "client_gone", "abort")

\* What a body that is written, or refused because the request has ended since
\* the status, makes of the answer.
BodyWritten(q) == IF q.cause = "none" THEN "answer" ELSE "bare"

\* Either way the route returns the outcome it committed.
ExchangeEnds(r) ==
    /\ req[r].pc = "headed"
    /\ \E code \in {"ok", "refused"} : End(r, code, BodyWritten(req[r]))

-----------------------------------------------------------------------------
(* What ends a request from outside.                                       *)

Cancelled(q, why) ==
    [q EXCEPT !.cause = IF @ = "none" THEN why ELSE @,
              !.err   = IF @ = "none" THEN "canceled" ELSE @]

\* net/http notices that the client has gone.
ClientLeaves(r) ==
    /\ InFlight(r) /\ req[r].conn = "open"
    /\ Goes(r, [Cancelled(req[r], "cancel") EXCEPT !.conn = "left"])

\* Mutant of BudgetOver: once the headers are forwarded nothing bounds the copy.
OverBeforeHeaders(r) == Holds(r) /\ req[r].budget = 0 /\ req[r].pc # "stream"

BudgetOver(r) == Holds(r) /\ req[r].budget = 0

\* The budget's timer fires.
BudgetFires(r) ==
    /\ BudgetOver(r) /\ req[r].err = "none"
    /\ Goes(r, [req[r] EXCEPT !.err = "deadline"])

\* Under HTTP/2 the write deadline resets the stream, which cancels the
\* request's context as a client that leaves does.
StreamReset(r) ==
    /\ BudgetOver(r) /\ req[r].pc = "stream" /\ req[r].err = "none"
    /\ Goes(r, Cancelled(req[r], "cancel"))

-----------------------------------------------------------------------------
(* Startup.                                                                *)

\* Mutant of DrainBound: the limit of traces is forgotten.
DrainBoundOfCPU == CPUSeconds + DrainSlack

DrainBound ==
    (IF CPUSeconds >= TraceSeconds THEN CPUSeconds ELSE TraceSeconds) + DrainSlack

\* shutdown: readiness turns, the drain signal closes, runCtx ends; the
\* window is spent only by a replica /readyz has admitted.
Shutdown(window) ==
    /\ stage = "run"
    /\ IF window /\ DrainDelay > 0 /\ life.answered
       THEN stage' = "window" /\ clock' = DrainDelay
       ELSE stage' = "closing" /\ clock' = DrainBound

Becomes(l) == life' = l /\ UNCHANGED <<req, gate, probe, worker, stage, clock>>

IssuerDiscovered ==
    /\ stage = "run" /\ ~life.issuer
    /\ Becomes([life EXCEPT !.issuer = TRUE])

PreflightPasses ==
    /\ stage = "run" /\ life.issuer /\ life.informers = "none"
    /\ Becomes([life EXCEPT !.informers = "running"])

\* The informers outlive runCtx, so they may still complete their first list
\* during the drain.
Syncs ==
    /\ life.informers = "running" /\ ~life.synced
    /\ Becomes([life EXCEPT !.synced = TRUE])

NatsPasses ==
    /\ stage = "run" /\ PGO /\ ~life.nats
    /\ life' = [life EXCEPT !.nats = TRUE]
    /\ worker' = "running"
    /\ UNCHANGED <<req, gate, probe, stage, clock>>

\* The issuer stays silent, the ClusterRole lacks a tuple, or the stores are
\* not what the contract says.
StartupFails ==
    /\ Shutdown(TRUE)
    /\ ~life.issuer \/ life.informers = "none" \/ (PGO /\ ~life.nats)
    /\ UNCHANGED <<req, gate, life, probe, worker>>

\* startPGO refuses the defaults, with the preflight already passed.
PGOFails ==
    /\ PGO /\ ~life.nats /\ Shutdown(TRUE)
    /\ life' = [life EXCEPT !.nats = TRUE]
    /\ UNCHANGED <<req, gate, probe, worker>>

Signalled == Shutdown(TRUE) /\ UNCHANGED <<req, gate, life, probe, worker>>

ListenerFails == Shutdown(FALSE) /\ UNCHANGED <<req, gate, life, probe, worker>>

\* /readyz reads its gates, then notes that it has answered.
ProbePasses ==
    /\ probe = "idle" /\ Ready /\ ~life.answered
    /\ probe' = "passed"
    /\ UNCHANGED <<req, gate, life, worker, stage, clock>>

ProbeAnswers ==
    /\ probe = "passed" /\ Alive
    /\ probe' = "idle"
    /\ life' = [life EXCEPT !.answered = TRUE]
    /\ UNCHANGED <<req, gate, worker, stage, clock>>

-----------------------------------------------------------------------------
(* The drain.                                                              *)

Moves(s) == stage' = s /\ UNCHANGED <<req, gate, life, probe, worker, clock>>

WindowOver ==
    /\ stage = "window" /\ clock = 0
    /\ stage' = "closing" /\ clock' = DrainBound
    /\ UNCHANGED <<req, gate, life, probe, worker>>

\* A connection whose request has not arrived is closed with the idle ones.
Dropped ==
    [r \in Requests |-> IF req[r].pc = "accepted"
                        THEN [NoRequest EXCEPT !.pc = "done", !.heard = "cutoff"]
                        ELSE req[r]]

\* Server.Shutdown waits for the requests in flight.
APIDrained ==
    /\ stage = "closing"
    /\ \A r \in Requests : InFlight(r) => req[r].pc = "accepted"
    /\ stage' = "closed" /\ req' = Dropped
    /\ UNCHANGED <<gate, life, probe, worker, clock>>

\* ... no longer than its bound: the drain names itself as the cause ...
DrainExpires ==
    /\ stage = "closing" /\ clock = 0
    /\ stage' = "cutting"
    /\ req' = [r \in Requests |-> IF InFlight(r) THEN Cancelled(req[r], "cut") ELSE req[r]]
    /\ UNCHANGED <<gate, life, probe, worker, clock>>

\* ... and only then closes the connections.
CloseConnections ==
    /\ stage = "cutting"
    /\ stage' = "closed"
    /\ req' = [r \in Requests |->
                 IF req[r].conn = "open" /\ InFlight(r) /\ req[r].pc # "accepted"
                 THEN [Cancelled(req[r], "cancel") EXCEPT !.conn = "closed"]
                 ELSE Dropped[r]]
    /\ UNCHANGED <<gate, life, probe, worker, clock>>

\* The worker drains beside the API, on a bound of its own (module Lease).
WorkerDrains ==
    /\ stage \in {"closing", "cutting", "closed"} /\ worker = "running"
    /\ worker' = "drained"
    /\ UNCHANGED <<req, gate, life, probe, stage, clock>>

\* Mutant of InformersStop: the worker's drain is not waited for.
InformersStopEarly ==
    /\ stage = "closed"
    /\ stage' = "stopping"
    /\ life' = [life EXCEPT !.informers = "stopped"]
    /\ UNCHANGED <<req, gate, probe, worker, clock>>

\* Both waits are over.
InformersStop ==
    /\ stage = "closed" /\ worker # "running"
    /\ stage' = "stopping"
    /\ life' = [life EXCEPT !.informers = "stopped"]
    /\ UNCHANGED <<req, gate, probe, worker, clock>>

ProcessExits == stage = "stopping" /\ Moves("exited")

-----------------------------------------------------------------------------
(* Time.                                                                   *)

\* What has to happen before time goes on.
Due ==
    \/ \E r \in Requests :
         \/ InFlight(r) /\ req[r].pc # "accepted" /\ req[r].cause # "none"
         \/ req[r].pc \in {"confirm", "upstream"} /\ req[r].inner = 0
         \/ BudgetOver(r)
         \/ DrainSignalled(r)
    \/ stage \in {"window", "closing"} /\ clock = 0
    \/ stage \in {"cutting", "closed", "stopping"}

Less(n) == IF n > 0 THEN n - 1 ELSE 0

Running(r) == Holds(r) /\ req[r].budget > 0

Ages(q) == [q EXCEPT !.budget = Less(@), !.inner = Less(@), !.ahead = @ \/ Listening]

Ticks ==
    /\ Alive /\ ~Due
    /\ clock > 0 \/ \E r \in Requests : Running(r)
    /\ clock' = Less(clock)
    /\ req' = [r \in Requests |->
                 IF Running(r) \/ req[r].pc = "parked" THEN Ages(req[r]) ELSE req[r]]
    /\ UNCHANGED <<gate, life, probe, worker, stage>>

-----------------------------------------------------------------------------
\* The steps a handler takes by itself, or that its timers force.
Forced(r) ==
    \/ Enter(r) \/ AuthFails(r) \/ Refuse(r) \/ ServeListing(r) \/ Admit(r)
    \/ Park(r) \/ Download(r) \/ WaitEnds(r) \/ WaitCancelled(r)
    \/ ExchangeRedirects(r) \/ ExchangeHeads(r) \/ ExchangeCut(r) \/ ExchangeEnds(r)
    \/ HeadersLate(r) \/ BudgetFires(r) \/ StreamReset(r)
    \/ req[r].err # "none" /\ (CopyFails(r) \/ DownloadFails(r))
    \/ (req[r].inner = 0 \/ req[r].err # "none") /\ ConfirmFails(r)
    \/ req[r].err # "none" /\ RoundTripFails(r)

Serve(r) ==
    Alive /\ (\/ Forced(r) \/ Connect(r) \/ Confirmed(r) \/ ConfirmFails(r)
              \/ RoundTripFails(r) \/ Commits(r) \/ StreamEnds(r) \/ CopyFails(r)
              \/ DownloadFails(r) \/ ClientLeaves(r))

Startup ==
            \/ IssuerDiscovered \/ PreflightPasses \/ Syncs \/ NatsPasses
            \/ StartupFails \/ PGOFails \/ Signalled \/ ListenerFails \/ ProbePasses \/ ProbeAnswers

Drain == \/ WindowOver \/ APIDrained \/ DrainExpires \/ CloseConnections
         \/ WorkerDrains \/ InformersStop \/ ProcessExits

GatewayNext == (\E r \in Requests : Serve(r)) \/ Startup \/ Drain \/ Ticks

GatewaySpec == GatewayInit /\ [][GatewayNext]_gatewayVars

\* The process's own steps and the clock make progress; clients, Pods, the
\* API server, the issuer and the operator need not.
GatewayFairSpec ==
    /\ GatewaySpec
    /\ WF_gatewayVars(Ticks) /\ WF_gatewayVars(Drain)
    /\ WF_gatewayVars(\E r \in Requests : Alive /\ Forced(r))

-----------------------------------------------------------------------------
(* Properties.                                                             *)

\* What is recorded is what happened: client_gone is a client that left,
\* drain_expired a request the drain cut, a timeout a deadline that passed, and
\* a failed stream is not a client that left before the budget ended --
\* whichever of them came at the same instant (request.cut and gone, Do,
\* classifyBeforeHeaders, the deferred record of ServeHTTP).
Blamed(q, code) ==
    CASE code = "client_gone"      -> q.conn = "left"
      [] code = "drain_expired"    -> q.cause = "cut"
      [] code = "upstream_timeout" -> q.inner = 0 \/ q.budget = 0
      [] code = "stream_failed" -> q.conn # "left" \/ q.budget = 0
      [] OTHER                     -> TRUE

BlameIsRight ==
    [][\A r \in Requests : Blamed(req[r], req'[r].code) \/ req[r].pc = "done"]_gatewayVars

\* A client that is still connected is never given the empty 200 net/http
\* writes for a handler that returns silently, nor a truncated body that ends
\* as if it were whole (request.fail, serveProfile, streamArtifact).  The status
\* of a login route without its body it may be given, but only while an expired
\* drain cuts the requests (cutWriter refuses the header and the body apart).
NoSilentAnswer ==
    /\ \A r \in Requests : req[r].heard \notin {"empty", "short"}
    /\ Listening \/ stage = "closing" => \A r \in Requests : req[r].heard # "bare"

\* A profile admitted, or a wait parked, a tick or more before the listener
\* closed is never cut by the drain: its own budget, or the drain signal, ends
\* it within the drain's bound (serve's drainBound, serveProfile's budget,
\* waitForCollection).
DrainCoversAdmitted ==
    \A r \in Requests : req[r].cause = "cut" => ~req[r].ahead

\* Discovery outlives the work that needs it: the informers stop only when no
\* request is in flight that the drain has not cut, and no Collection is being
\* worked on (shutdown's waits in serve).
DiscoveryOutlivesWork ==
    life.informers = "stopped" =>
      /\ worker # "running"
      /\ \A r \in Requests : InFlight(r) => req[r].cause # "none"

\* Nothing hangs, whatever clients, Pods and the API server do: a profile's
\* handler ends and gives its slot back though the Pod never answers and the
\* client never reads, and a shutdown that has begun ends in an exit
\* (serveProfile's budget, Do, shutdown in serve).
NothingHangs ==
    <>[](\/ stage = "exited"
         \/ stage = "run" /\ gate = 0 /\ \A r \in Requests : ~Holds(r))
=============================================================================
