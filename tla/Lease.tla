------------------------------- MODULE Lease -------------------------------
(***************************************************************************)
(* Who works on a Collection: internal/pgo/worker.go.  Every replica scans *)
(* for claimable records, claims one under a lease, renews the lease from  *)
(* an owner loop while a work goroutine samples, merges and stores the     *)
(* profile, and commits the end of the record if its lease still stands.   *)
(* Replicas crash and drain; the API cancels.                              *)
(*                                                                         *)
(* One record, from the moment it is pending.  Replicas read their own     *)
(* clocks.  As in Publication.tla a store call that ends "unavailable" is  *)
(* indeterminate: its write is lost or lands at any later moment.          *)
(***************************************************************************)
EXTENDS Integers, FiniteSets

CONSTANTS
    Replicas,    \* one per process: a restarted one is another replica
    Offset,      \* [Replicas -> Nat]: how far a replica's clock is ahead
    Mortal,      \* replicas that may crash or be told to drain
    Accepts,     \* replicas whose ceilings the record's policy satisfies
    TTL,         \* leaseTTL
    Skew,        \* skewMargin
    CallTimeout, \* callTimeout of a store call, renewCallTimeout
    Slack,       \* how late a goroutine runs after its timer or answer is due
    ClaimBy,     \* the record's claimBy
    Length,      \* Deadline minus the first claim
    MaxAttempts, \* maxAttempts
    MaxActive,   \* maxActiveCollections of one replica
    MaxLate,     \* bound: indeterminate writes outstanding at once
    MaxTime      \* bound: the end of the explored time

ASSUME ReplicaAssumption ==
    /\ Replicas # {} /\ Offset \in [Replicas -> Nat]
    /\ Mortal \subseteq Replicas
    /\ Accepts \subseteq Replicas

ASSUME ParameterAssumption ==
    /\ {TTL, Skew, CallTimeout, MaxAttempts, MaxActive} \subseteq Nat \ {0}
    /\ {Slack, ClaimBy, Length, MaxLate, MaxTime} \subseteq Nat

\* Two clocks and a late goroutine together stay within the two margins a
\* lease carries, the owner's before its end and the claimer's after it; and
\* a claim's answer is in hand before its own cutoff.
ASSUME ClockAssumption ==
    /\ \A r, s \in Replicas : Offset[r] + Slack =< Offset[s] + 2 * Skew
    /\ CallTimeout + Slack < TTL - Skew

Attempts == 1 .. MaxAttempts

VARIABLES
    now,      \* true time
    rec,      \* job.<id>
    objects,  \* attempts whose artifact <id>-<attempt>.pprof is stored
    own,      \* the owner loop, in-flight entry and work of each attempt
    scan,     \* the visit each replica's scan is in the middle of
    wkr,      \* the rest of each replica's Worker
    late      \* indeterminate writes that may still take effect

vars == <<now, rec, objects, own, scan, wkr, late>>

Clock(r) == now + Offset[r]

-----------------------------------------------------------------------------
(* The record.  lease and deadline are 0 until the first claim, object is  *)
(* the attempt whose artifact a completed record names.  A write is the    *)
(* whole new record; its rev is the revision it is conditional on.         *)

Live     == {"pending", "running"}
Terminal == {"completed", "failed", "cancelled"}

Takes(w) == rec.rev = w.rev

Commit(w) == rec' = [w EXCEPT !.rev = @ + 1]

Outcomes == {"ok", "refused", "unavailable"}

\* One conditional Update of the record and what its caller is told.
Update(w, outcome) ==
    \/ /\ outcome = "ok"
       /\ Takes(w)
       /\ Commit(w)
       /\ UNCHANGED late
    \/ /\ outcome = "refused"
       /\ ~Takes(w)
       /\ UNCHANGED <<rec, late>>
    \/ /\ outcome = "unavailable"
       /\ UNCHANGED rec
       /\ \/ UNCHANGED late
          \/ /\ Cardinality(late) < MaxLate
             /\ late' = late \cup {w}

\* An indeterminate write reaches the store after its caller gave up on it.
LateArrival ==
    \E w \in late :
        /\ late' = late \ {w}
        /\ IF Takes(w) THEN Commit(w) ELSE UNCHANGED rec
        /\ UNCHANGED <<now, objects, own, scan, wkr>>

-----------------------------------------------------------------------------
(* One replica's scan.  Which records a pass reads is decided on a cached  *)
(* copy that may be arbitrarily old, so here a pass may read at any time;  *)
(* what it then does depends only on the fresh read and the clock.         *)

NoWrite == [state |-> "pending", rev |-> 0, attempt |-> 0, lease |-> 0,
            deadline |-> 0, object |-> 0]

Idle == [pc |-> "idle", by |-> 0, write |-> NoWrite]

Visiting(r, pc, w) == [pc |-> pc, by |-> Clock(r) + CallTimeout, write |-> w]

\* Mutant of Overdue: a running record past its deadline is left alone.
OverdueClaimBy(r) == rec.state = "pending" /\ ClaimBy + Skew < Clock(r)

\* visit: nobody claimed it in time, or its owner did not finish in time.
Overdue(r) ==
    \/ rec.state = "pending" /\ ClaimBy + Skew < Clock(r)
    \/ rec.state = "running" /\ rec.deadline + Skew < Clock(r)

\* Mutant of Claimable: the claimer allows for no skew.
ClaimableEarly(r) ==
    \/ rec.state = "pending"
    \/ rec.state = "running" /\ rec.lease < Clock(r)

Claimable(r) ==
    \/ rec.state = "pending"
    \/ rec.state = "running" /\ rec.lease + Skew < Clock(r)

Failed == [rec EXCEPT !.state = "failed"]

\* claim: a new attempt; the first one also fixes the deadline.
Claimed(r) ==
    [rec EXCEPT !.state = "running", !.attempt = @ + 1, !.lease = Clock(r) + TTL,
                !.deadline = IF rec.attempt = 0 THEN Clock(r) + Length ELSE @]

Exhausted == rec.attempt >= MaxAttempts

\* reserveLocalSlot: not once the drain has begun, and not past the limit.
SlotFree(r) == ~wkr[r].stopped /\ wkr[r].active < MaxActive

\* visit reads a record this replica should fail: overdue, against its
\* ceilings, or out of attempts (which takes a slot and gives it back).
VisitTerminate(r) ==
    /\ wkr[r].up
    /\ scan[r].pc = "idle"
    /\ rec.state \in Live
    /\ \/ Overdue(r)
       \/ Claimable(r) /\ r \notin Accepts
       \/ Claimable(r) /\ SlotFree(r) /\ Exhausted
    /\ scan' = [scan EXCEPT ![r] = Visiting(r, "terminate", Failed)]
    /\ UNCHANGED <<now, rec, objects, own, wkr, late>>

\* visit reads a record it may claim: the slot it takes opens the claim window
\* the drain waits for.
VisitClaim(r) ==
    /\ wkr[r].up
    /\ scan[r].pc = "idle"
    /\ ~Overdue(r) /\ Claimable(r)
    /\ r \in Accepts /\ SlotFree(r) /\ ~Exhausted
    /\ wkr' = [wkr EXCEPT ![r].active = @ + 1]
    /\ scan' = [scan EXCEPT ![r] = Visiting(r, "claim", Claimed(r))]
    /\ UNCHANGED <<now, rec, objects, own, late>>

\* terminate's update; whatever it answers, the scan goes on.  Releasing the
\* Service is Publication.tla's.
TerminateUpdate(r) ==
    /\ scan[r].pc = "terminate"
    /\ \E o \in Outcomes : Update(scan[r].write, o)
    /\ scan' = [scan EXCEPT ![r] = Idle]
    /\ UNCHANGED <<now, objects, own, wkr>>

\* startOwner: the owner loop and its work begin, under the entry the drain
\* finds, registered over whatever this replica still held for the record.
StartOwner(r, w) ==
    /\ own' = [own EXCEPT ![w.attempt] =
         [pc |-> "loop", at |-> r, rev |-> w.rev + 1, cutoff |-> w.lease - Skew,
          deadline |-> w.deadline, cancelled |-> FALSE, work |-> "sampling",
          lease |-> 0, by |-> 0]]
    /\ wkr' = [wkr EXCEPT ![r].entry = w.attempt]

\* Mutant of ClaimFailed: the slot is not given back.
ClaimFailedLeak(r) == UNCHANGED <<own, wkr>>

\* A claim lost or left indeterminate gives its slot back and owns nothing.
ClaimFailed(r) ==
    /\ wkr' = [wkr EXCEPT ![r].active = @ - 1]
    /\ UNCHANGED own

ClaimUpdate(r) ==
    /\ scan[r].pc = "claim"
    /\ \E o \in Outcomes :
         /\ Update(scan[r].write, o)
         /\ IF o = "ok" THEN StartOwner(r, scan[r].write) ELSE ClaimFailed(r)
    /\ scan' = [scan EXCEPT ![r] = Idle]
    /\ UNCHANGED <<now, objects>>

-----------------------------------------------------------------------------
(* The owner loop of attempt k.  An aborted loop and a cancelled entry do   *)
(* the same from then on - no renewal, no final update - so one flag stands *)
(* for both; committed is always cutoff + Skew.                             *)

NoOwner(pc, r) == [pc |-> pc, at |-> r, rev |-> 0, cutoff |-> 0, deadline |-> 0,
                   cancelled |-> FALSE, work |-> "none", lease |-> 0, by |-> 0]

Owners == {k \in Attempts : own[k].pc \notin {"none", "exited"}}

OwnerClock(k) == Clock(own[k].at)

\* What the owner would write: its entry with the lease it proposes.
Entry(k, lease) == [state |-> "running", rev |-> own[k].rev, attempt |-> k,
                    lease |-> lease, deadline |-> own[k].deadline, object |-> 0]

\* Mutant of MayRenew: the drain does not stop the renewals.
MayRenewDraining(k) == ~own[k].cancelled /\ OwnerClock(k) < own[k].cutoff

MayRenew(k) ==
    /\ ~own[k].cancelled
    /\ ~wkr[own[k].at].stopped
    /\ OwnerClock(k) < own[k].cutoff

\* renew: the call may take what is left of the lease at most.  The renewal
\* period is longer than a time unit, so a renewal asks for a later lease.
RenewCall(k) ==
    /\ own[k].pc = "loop"
    /\ MayRenew(k)
    /\ OwnerClock(k) + TTL > own[k].cutoff + Skew
    /\ LET by == OwnerClock(k) + CallTimeout IN
         own' = [own EXCEPT ![k].pc = "renewing",
                            ![k].lease = OwnerClock(k) + TTL,
                            ![k].by = IF by < own[k].cutoff THEN by ELSE own[k].cutoff]
    /\ UNCHANGED <<now, rec, objects, scan, wkr, late>>

\* The store takes or refuses the renewal, or nobody knows.
RenewUpdate(k) ==
    /\ own[k].pc = "renewing"
    /\ \E o \in Outcomes :
         /\ Update(Entry(k, own[k].lease), o)
         /\ own' = [own EXCEPT ![k] =
              CASE o = "ok"          -> [@ EXCEPT !.pc = "renewed"]
                [] o = "refused"     -> [@ EXCEPT !.pc = "lost", !.lease = 0, !.by = 0]
                [] o = "unavailable" -> [@ EXCEPT !.pc = "loop", !.lease = 0, !.by = 0]]
    /\ UNCHANGED <<now, objects, scan, wkr>>

\* install: refused once the work was cancelled at the old cutoff.
RenewReturn(k) ==
    /\ own[k].pc = "renewed"
    /\ own' = [own EXCEPT
         ![k].pc = "loop",
         ![k].rev = IF own[k].cancelled THEN @ ELSE @ + 1,
         ![k].cutoff = IF own[k].cancelled THEN @ ELSE own[k].lease - Skew,
         ![k].lease = 0, ![k].by = 0]
    /\ UNCHANGED <<now, rec, objects, scan, wkr, late>>

\* The owner learns that the record moved: abort, at once.
Lost(k) ==
    /\ own[k].pc = "lost"
    /\ own' = [own EXCEPT ![k].pc = "loop", ![k].cancelled = TRUE]
    /\ UNCHANGED <<now, rec, objects, scan, wkr, late>>

\* runCutoff, or a renewal that finds the lease lapsed: the work is cancelled.
Cutoff(k) ==
    /\ k \in Owners
    /\ ~own[k].cancelled
    /\ OwnerClock(k) >= own[k].cutoff
    /\ own' = [own EXCEPT ![k].cancelled = TRUE]
    /\ UNCHANGED <<now, rec, objects, scan, wkr, late>>

-----------------------------------------------------------------------------
(* The work goroutine of attempt k: rounds of samples, then a merge that no *)
(* context interrupts, then the Put, which observes the work context.       *)

\* Rounds.run gives up: a failed round, the deadline, a cancelled context, a
\* merge too large.
WorkFail(k) ==
    /\ k \in Owners
    /\ own[k].work \in {"sampling", "storing"}
    /\ own' = [own EXCEPT ![k].work = "failed"]
    /\ UNCHANGED <<now, rec, objects, scan, wkr, late>>

\* Every round is done; what follows samples nothing more.
WorkMerge(k) ==
    /\ k \in Owners
    /\ own[k].work = "sampling"
    /\ own' = [own EXCEPT ![k].work = "storing"]
    /\ UNCHANGED <<now, rec, objects, scan, wkr, late>>

\* Put: a failed one may leave an object behind, which its result does not name.
WorkPut(k) ==
    /\ k \in Owners
    /\ own[k].work = "storing"
    /\ \/ /\ ~own[k].cancelled
          /\ own' = [own EXCEPT ![k].work = "stored"]
       \/ own' = [own EXCEPT ![k].work = "failed"]
    /\ objects' = objects \cup {k}
    /\ UNCHANGED <<now, rec, scan, wkr, late>>

-----------------------------------------------------------------------------
(* The end of attempt k.                                                   *)

\* Mutant of EntryLeft: an exiting owner removes whatever entry it finds.
EntryLeftNone(k) == 0

\* The in-flight entry once owner k is gone: only its own is removed.
EntryLeft(k) == LET e == wkr[own[k].at].entry IN IF e = k THEN 0 ELSE e

\* The loop returns: its entry and then its slot are given up.
Exit(k) ==
    /\ own' = [own EXCEPT ![k] = NoOwner("exited", own[k].at)]
    /\ wkr' = [wkr EXCEPT ![own[k].at].entry = EntryLeft(k),
                          ![own[k].at].active = @ - 1]

\* discardArtifact: best effort, this attempt's object only, if it has one.
DiscardArtifact(k) ==
    \/ UNCHANGED objects
    \/ own[k].work = "stored" /\ objects' = objects \ {k}

HasResult(k) == own[k].pc = "loop" /\ own[k].work \in {"stored", "failed"}

\* finish's gate, read at the last moment.
MayCommit(k) ==
    /\ ~own[k].cancelled
    /\ OwnerClock(k) < own[k].cutoff
    /\ OwnerClock(k) < own[k].deadline - Skew

\* A result after the cutoff, the deadline or a cancellation: nothing is
\* written and what was stored is removed.
FinishSkip(k) ==
    /\ HasResult(k)
    /\ ~MayCommit(k)
    /\ DiscardArtifact(k)
    /\ Exit(k)
    /\ UNCHANGED <<now, rec, scan, late>>

\* record_too_large: the object goes first and the record becomes a failure.
TooLarge(k) ==
    /\ own[k].work = "stored"
    /\ own' = [own EXCEPT ![k].pc = "committing", ![k].by = OwnerClock(k) + CallTimeout,
                          ![k].work = "failed"]
    /\ DiscardArtifact(k)

FinishGate(k) ==
    /\ HasResult(k)
    /\ MayCommit(k)
    /\ \/ /\ own' = [own EXCEPT ![k].pc = "committing", ![k].by = OwnerClock(k) + CallTimeout]
          /\ UNCHANGED objects
       \/ TooLarge(k)
    /\ UNCHANGED <<now, rec, scan, wkr, late>>

Final(k) ==
    [Entry(k, own[k].cutoff + Skew) EXCEPT
        !.state  = IF own[k].work = "stored" THEN "completed" ELSE "failed",
        !.object = IF own[k].work = "stored" THEN k ELSE 0]

\* finish's update: any error removes the object, an indeterminate one too.
FinishUpdate(k) ==
    /\ own[k].pc = "committing"
    /\ \E o \in Outcomes :
         /\ Update(Final(k), o)
         /\ IF o = "ok" THEN UNCHANGED objects ELSE DiscardArtifact(k)
    /\ Exit(k)
    /\ UNCHANGED <<now, scan>>

-----------------------------------------------------------------------------
(* Drain, crash, cancellation and time.                                    *)

\* stopWork.  The bound leaves the time a drain may take.
StopWork(r) ==
    /\ r \in Mortal
    /\ wkr[r].up /\ ~wkr[r].stopped
    /\ now + TTL - Skew =< MaxTime
    /\ wkr' = [wkr EXCEPT ![r].stopped = TRUE]
    /\ UNCHANGED <<now, rec, objects, own, scan, late>>

\* waitCollection: the owner is gone, or past its cutoff and cancelled.
LeftBehind(k) ==
    \/ own[k].pc = "exited"
    \/ OwnerClock(k) >= own[k].cutoff /\ own[k].cancelled

\* Drain returns once no claim is in its window and the entry is settled.
DrainReturn(r) ==
    /\ wkr[r].up /\ wkr[r].stopped /\ ~wkr[r].drained
    /\ scan[r].pc # "claim"
    /\ wkr[r].entry # 0 => LeftBehind(wkr[r].entry)
    /\ wkr' = [wkr EXCEPT ![r].drained = TRUE]
    /\ UNCHANGED <<now, rec, objects, own, scan, late>>

\* The process dies: everything it held in memory goes, nothing stored does.
Crash(r) ==
    /\ r \in Mortal
    /\ wkr[r].up
    /\ wkr' = [wkr EXCEPT ![r] = [up |-> FALSE, stopped |-> FALSE, drained |-> FALSE,
                                  active |-> 0, entry |-> 0]]
    /\ scan' = [scan EXCEPT ![r] = Idle]
    /\ own' = [k \in Attempts |-> IF k \in Owners /\ own[k].at = r
                                  THEN NoOwner("exited", r) ELSE own[k]]
    /\ UNCHANGED <<now, rec, objects, late>>

\* serveCollectionCancel, its read and its conditional update together: one
\* that loses reads again.
ApiCancel ==
    /\ rec.state \in Live
    /\ \E o \in {"ok", "unavailable"} : Update([rec EXCEPT !.state = "cancelled"], o)
    /\ UNCHANGED <<now, objects, own, scan, wkr>>

\* Time passes, but never beyond Slack after a timer or a call's deadline that
\* some live goroutine is about to act on.
Tick ==
    /\ now < MaxTime
    /\ \A r \in Replicas : scan[r].pc # "idle" => Clock(r) < scan[r].by + Slack
    /\ \A k \in Owners :
         /\ ~own[k].cancelled => OwnerClock(k) < own[k].cutoff + Slack
         /\ own[k].pc \in {"renewing", "renewed", "committing"}
                => OwnerClock(k) < own[k].by + Slack
    /\ now' = now + 1
    /\ UNCHANGED <<rec, objects, own, scan, wkr, late>>

-----------------------------------------------------------------------------

Init ==
    /\ now = 0
    /\ rec = NoWrite
    /\ objects = {}
    /\ own = [k \in Attempts |-> NoOwner("none", CHOOSE r \in Replicas : TRUE)]
    /\ scan = [r \in Replicas |-> Idle]
    /\ wkr = [r \in Replicas |-> [up |-> TRUE, stopped |-> FALSE, drained |-> FALSE,
                                  active |-> 0, entry |-> 0]]
    /\ late = {}

Scan(r) == VisitTerminate(r) \/ VisitClaim(r) \/ TerminateUpdate(r) \/ ClaimUpdate(r)

Loop(k) == RenewCall(k) \/ RenewUpdate(k) \/ RenewReturn(k) \/ Lost(k) \/ Cutoff(k)

Work(k) == WorkFail(k) \/ WorkMerge(k) \/ WorkPut(k)

Finish(k) == FinishSkip(k) \/ FinishGate(k) \/ FinishUpdate(k)

Next ==
    \/ \E r \in Replicas : Scan(r) \/ StopWork(r) \/ DrainReturn(r) \/ Crash(r)
    \/ \E k \in Attempts : Loop(k) \/ Work(k) \/ Finish(k)
    \/ ApiCancel
    \/ LateArrival
    \/ Tick

Spec == Init /\ [][Next]_vars

\* What the code's scheduling promises: time passes; a call is answered or
\* times out; the cutoff timer and the drain's wait fire; and a scan, which
\* recurs, sooner or later visits the record and has its update answered
\* before the owner's next renewal.  The work promises nothing.
Fairness ==
    /\ WF_vars(Tick)
    /\ \A r \in Replicas :
         /\ WF_vars(TerminateUpdate(r) \/ ClaimUpdate(r))
         /\ WF_vars(DrainReturn(r))
         /\ SF_vars(VisitTerminate(r))
         /\ SF_vars(TerminateUpdate(r) /\ Takes(scan[r].write) /\ Commit(scan[r].write))
    /\ \A k \in Attempts :
         /\ WF_vars(RenewUpdate(k) \/ RenewReturn(k) \/ Lost(k) \/ FinishUpdate(k))
         /\ WF_vars(Cutoff(k))

FairSpec == Spec /\ Fairness

-----------------------------------------------------------------------------
(* Properties.                                                             *)

Sampling(k) == own[k].work = "sampling" /\ ~own[k].cancelled

\* At no moment do two attempts profile the Service's Pods at once: an owner is
\* cut off (runCutoff) before any replica's clock lets it claim (claimable),
\* across renewals whose answer was lost, crashes and slow goroutines.
OneSampler == \A j, k \in Owners : Sampling(j) /\ Sampling(k) => j = k

\* A replica's slot count is exactly the claims and owner loops it has, so a
\* failed claim or an owner that outlives its lease neither leaks a slot nor
\* frees one twice (reserveLocalSlot, releaseLocalSlot, startOwner).
SlotAccounting ==
    \A r \in Replicas :
        wkr[r].active = Cardinality({k \in Owners : own[k].at = r})
                            + (IF scan[r].pc = "claim" THEN 1 ELSE 0)

\* Once Drain has returned the replica commits nothing it had not already
\* sent: every owner it ever started is gone or cancelled, the one whose entry
\* a successor replaced too, and no claim is under way (Drain, startOwner).
DrainedIsSilent ==
    \A r \in Replicas : wkr[r].drained =>
        /\ scan[r].pc # "claim"
        /\ \A k \in Owners : own[k].at = r => own[k].cancelled

\* A Collection some replica keeps watching always ends, even when its owner is
\* wedged and renews for ever, answers are lost and other replicas die: by its
\* claimBy, its deadline or its attempts (worker.go, scan).
Ends == (\E r \in Replicas : []wkr[r].up) => <>(rec.state \in Terminal)

\* Drain returns, whatever the work it waits for is doing, because no renewal
\* begins once it has (worker.go, Drain, ownerLoop).
DrainReturns ==
    \A r \in Replicas : wkr[r].stopped ~> (wkr[r].drained \/ ~wkr[r].up)

\* A completed record names an object that is stored (docs/specs/pgo.md, 8.6).
CompletedHasObject == rec.state = "completed" => rec.object \in objects

=============================================================================
