---------------------------- MODULE LeaseProofs ----------------------------
(***************************************************************************)
(* Proofs about the worker.  About Lease, for every set of replicas, clock *)
(* offsets within ClockAssumption, lease length, number of attempts and    *)
(* lost answers: at most one attempt is not cut off, so one samples; slots *)
(* are accounted for; a drained replica is silent.  About Sampling, for    *)
(* every number of Pods, rounds, targets and samplers: the artifact is     *)
(* what its manifest says, and no sampler outlives its round.  About       *)
(* Eligibility, for every list of slices and every set of Pods: the Pods   *)
(* offered to it are the ones the rules admit, the others are counted.     *)
(*                                                                         *)
(* The argument for Lease is about the owner that is not cut off.  It is   *)
(* the current attempt's, its clock has hardly passed its cutoff, and the  *)
(* record's lease lasts at least a margin longer (OwnerOK); so by the two  *)
(* margins no clock lets another replica claim.  A claim decided while     *)
(* nobody was there stays valid because it is conditional on a revision    *)
(* that any other claim would have moved (WriteOK).                        *)
(***************************************************************************)
EXTENDS Lease, Sampling, Eligibility, FiniteSetTheorems, TLAPS

\* The types: records, owners, visits of the scan, workers.
Recs == [state: Live \cup Terminal, rev: Nat, attempt: Nat, lease: Int,
         deadline: Int, object: Nat]

OwnerRecs == [pc: {"none", "loop", "renewing", "renewed", "lost", "committing", "exited"},
              at: Replicas, rev: Nat, cutoff: Int, deadline: Int, cancelled: BOOLEAN,
              work: {"none", "sampling", "storing", "stored", "failed"}, lease: Int, by: Int]

Visits == [pc: {"idle", "terminate", "claim"}, by: Int, write: Recs]

Workers == [up: BOOLEAN, stopped: BOOLEAN, drained: BOOLEAN, active: Int, entry: Nat]

Types ==
    /\ now \in Nat
    /\ rec \in Recs
    /\ own \in [Attempts -> OwnerRecs]
    /\ scan \in [Replicas -> Visits]
    /\ wkr \in [Replicas -> Workers]
    /\ late \subseteq Recs

\* An owner whose work nobody has cancelled.
Uncut(k) == k \in Owners /\ ~own[k].cancelled

\* A write still to be taken only carries the record forward, and a claim that
\* would be taken finds nobody at work.
WriteOK(w) ==
    /\ w.rev =< rec.rev /\ w.state # "pending"
    /\ w.rev = rec.rev =>
         \/ w.attempt = rec.attempt /\ w.lease >= rec.lease
         \/ w.attempt = rec.attempt + 1 /\ \A k \in Attempts : ~Uncut(k)

\* An owner that holds the record's revision knows the record; one that is not
\* cut off is the current attempt's, inside a lease that outlasts its cutoff by
\* the margin, and under the entry the drain finds.
OwnerOK(k) ==
    LET o == own[k] IN
    /\ o.rev =< rec.rev
    /\ o.rev = rec.rev => rec.attempt = k /\ rec.lease = o.cutoff + Skew
    /\ o.pc \in {"renewing", "renewed"} => o.lease > o.cutoff + Skew
    /\ o.pc = "renewed" =>
         /\ o.rev < rec.rev
         /\ o.rev + 1 = rec.rev => rec.attempt = k /\ rec.lease = o.lease
    /\ ~o.cancelled =>
         /\ rec.attempt = k
         /\ rec.lease >= o.cutoff + Skew
         /\ o.pc = "renewed" => rec.lease >= o.lease
         /\ OwnerClock(k) =< o.cutoff + Slack
         /\ wkr[o.at].entry = k

\* A visit has not outlived its call; a claim is for the next attempt, under the
\* lease its clock gave when it began.
VisitOK(r) ==
    LET v == scan[r] IN
    v.pc # "idle" =>
        /\ WriteOK(v.write)
        /\ Clock(r) =< v.by + Slack
        /\ v.pc = "claim" =>
             /\ v.write.attempt \in Attempts
             /\ v.write.lease = v.by - CallTimeout + TTL
             /\ v.write.rev = rec.rev => v.write.attempt = rec.attempt + 1

\* A pending record was never claimed, and no attempt is ahead of it.
RecordOK ==
    /\ rec.state = "pending" => rec.attempt = 0
    /\ \A k \in Attempts : own[k].pc # "none" => k =< rec.attempt

\* The inductive invariant.
LeaseInv ==
    /\ Types
    /\ RecordOK
    /\ \A w \in late : WriteOK(w)
    /\ \A r \in Replicas : VisitOK(r)
    /\ \A k \in Owners : OwnerOK(k)

\* A replica that drained was stopped, and nothing begins there any more.
DrainInv ==
    \A r \in Replicas : wkr[r].drained =>
        /\ wkr[r].stopped
        /\ scan[r].pc # "claim"
        /\ \A k \in Owners : own[k].at = r => own[k].cancelled

\* What a step may do to the record: nothing, or one write that carries it
\* forward.
Forward ==
    \/ rec' = rec
    \/ /\ rec' \in Recs
       /\ rec'.rev = rec.rev + 1
       /\ rec'.state # "pending"
       /\ \/ rec'.attempt = rec.attempt /\ rec'.lease >= rec.lease
          \/ rec'.attempt = rec.attempt + 1 /\ \A k \in Attempts : ~Uncut(k)

-----------------------------------------------------------------------------

\* The parameters as numbers.
LEMMA Parameters ==
  /\ TTL \in Nat /\ Skew \in Nat /\ CallTimeout \in Nat /\ MaxAttempts \in Nat
  /\ Slack \in Nat /\ Length \in Nat /\ Offset \in [Replicas -> Nat]
  /\ Attempts \subseteq Nat \ {0}
  BY ReplicaAssumption, ParameterAssumption DEF Attempts

\* A call of the store moves the record forward, and what it leaves behind is
\* its own write.
LEMMA UpdateMoves ==
  ASSUME Types, NEW w \in Recs, WriteOK(w), NEW o \in Outcomes, Update(w, o)
  PROVE  Forward /\ late' \subseteq late \cup {w}
  <1>1. CASE rec' = rec
    BY <1>1 DEF Forward, Update, Takes
  <1>2. CASE Takes(w) /\ Commit(w) /\ late' = late
    <2>1. rec' = [w EXCEPT !.rev = @ + 1] /\ w.rev = rec.rev
      BY <1>2 DEF Takes, Commit
    <2>2. rec' \in Recs /\ rec'.rev = rec.rev + 1 /\ rec'.state = w.state
          /\ rec'.attempt = w.attempt /\ rec'.lease = w.lease
      BY <2>1 DEF Recs
    <2> QED
      BY <1>2, <2>1, <2>2 DEF Forward, WriteOK
  <1> QED
    BY <1>1, <1>2 DEF Update, Outcomes

\* An owner the step does not touch keeps what it knows.
LEMMA OwnerStays ==
  ASSUME LeaseInv, Forward, NEW k \in Owners, own'[k] = own[k], now' = now,
         own[k].cancelled \/ wkr'[own[k].at].entry = wkr[own[k].at].entry
  PROVE  OwnerOK(k)'
  <1>1. /\ k \in Attempts /\ k \in Nat /\ OwnerOK(k) /\ own[k] \in OwnerRecs /\ rec \in Recs
        /\ Skew \in Nat
    BY Parameters DEF LeaseInv, Types, Owners
  <1>2. OwnerClock(k)' = OwnerClock(k)
    BY DEF OwnerClock, Clock
  <1>3. CASE rec' = rec
    BY <1>1, <1>2, <1>3 DEF OwnerOK, OwnerRecs
  <1>4. CASE rec' # rec
    <2>1. /\ rec' \in Recs /\ rec'.rev = rec.rev + 1
          /\ \/ rec'.attempt = rec.attempt /\ rec'.lease >= rec.lease
             \/ ~Uncut(k)
      BY <1>1, <1>4 DEF Forward
    <2>2. rec.rev \in Nat /\ own[k].rev \in Nat /\ rec.lease \in Int /\ rec'.lease \in Int
          /\ own[k].cutoff \in Int /\ own[k].lease \in Int /\ own[k].cancelled \in BOOLEAN
      BY <1>1, <2>1 DEF Recs, OwnerRecs
    <2>3. CASE own[k].cancelled
      BY <1>1, <1>2, <2>1, <2>2, <2>3 DEF OwnerOK
    <2>4. CASE ~own[k].cancelled
      <3>1. rec'.attempt = rec.attempt /\ rec'.lease >= rec.lease
        BY <2>1, <2>4 DEF Uncut
      <3> QED
        BY <1>1, <1>2, <2>1, <2>2, <2>4, <3>1 DEF OwnerOK
    <2> QED
      BY <2>2, <2>3, <2>4
  <1> QED
    BY <1>3, <1>4

\* So does a write that is still to be taken.
LEMMA WriteStays ==
  ASSUME LeaseInv, Forward, NEW w \in Recs, WriteOK(w),
         rec' = rec => \A k \in Attempts : Uncut(k)' => Uncut(k)
  PROVE  WriteOK(w)'
  <1>1. w.rev \in Nat /\ rec.rev \in Nat
    BY DEF LeaseInv, Types, Recs
  <1>2. CASE rec' = rec
    BY <1>2 DEF WriteOK
  <1>3. CASE rec' # rec
    BY <1>1, <1>3 DEF WriteOK, Forward
  <1> QED
    BY <1>2, <1>3

\* And a visit.
LEMMA VisitStays ==
  ASSUME LeaseInv, Forward, NEW r \in Replicas, scan'[r] = scan[r], now' = now,
         rec' = rec => \A k \in Attempts : Uncut(k)' => Uncut(k)
  PROVE  VisitOK(r)'
  <1>1. scan[r] \in Visits /\ scan[r].write \in Recs /\ VisitOK(r)
    BY DEF LeaseInv, Types, Visits
  <1>2. PICK w \in Recs : w = scan[r].write
    BY <1>1
  <1>3. scan[r].pc # "idle" => WriteOK(w)'
    BY <1>1, <1>2, WriteStays DEF VisitOK
  <1>4. w.rev \in Nat /\ rec.rev \in Nat
    BY DEF LeaseInv, Types, Recs
  <1>5. w.rev =< rec.rev /\ w.rev = rec'.rev => rec' = rec
    BY <1>4 DEF Forward
  <1>6. Clock(r)' = Clock(r)
    BY DEF Clock
  <1>7. scan[r].pc # "idle" => WriteOK(scan[r].write)'
    BY <1>2, <1>3 DEF WriteOK
  <1>8. scan[r].pc # "idle" => w.rev =< rec.rev
    BY <1>1, <1>2 DEF VisitOK, WriteOK
  <1> QED
    BY <1>1, <1>2, <1>5, <1>6, <1>7, <1>8 DEF VisitOK

\* The parts of a step, put together.
LEMMA Assembled ==
  ASSUME LeaseInv, Types', Forward, now' = now,
         rec' = rec => \A k \in Attempts : Uncut(k)' => Uncut(k),
         \A v \in late' : v \in late \/ (v \in Recs /\ WriteOK(v)),
         \A r \in Replicas : scan'[r] = scan[r] \/ scan'[r].pc = "idle" \/ VisitOK(r)',
         \A k \in Attempts : own'[k].pc # "none" => own[k].pc # "none" \/ k =< rec'.attempt,
         \A k \in Attempts : k \in Owners' =>
            \/ OwnerOK(k)'
            \/ /\ own'[k] = own[k]
               /\ own[k].cancelled \/ wkr'[own[k].at].entry = wkr[own[k].at].entry
  PROVE  LeaseInv'
  <1>1. \A v \in late' : WriteOK(v)'
    <2> SUFFICES ASSUME NEW v \in late' PROVE WriteOK(v)'
      OBVIOUS
    <2>1. PICK w \in Recs : w = v
      BY DEF Types, LeaseInv
    <2>2. WriteOK(w)
      BY <2>1 DEF LeaseInv
    <2>3. WriteOK(w)'
      BY <2>2, WriteStays
    <2> QED
      BY <2>1, <2>3 DEF WriteOK
  <1>2. \A r \in Replicas : VisitOK(r)'
    BY VisitStays DEF VisitOK
  <1>3. \A k \in Owners' : OwnerOK(k)'
    <2> SUFFICES ASSUME NEW k \in Attempts, k \in Owners',
                        own'[k] = own[k],
                        own[k].cancelled \/ wkr'[own[k].at].entry = wkr[own[k].at].entry
                 PROVE  OwnerOK(k)'
      BY DEF Owners
    <2>1. k \in Owners
      BY DEF Owners
    <2> QED
      BY <2>1, OwnerStays
  <1>4. RecordOK'
    <2>1. rec'.attempt \in Nat /\ rec.attempt \in Nat /\ rec'.attempt >= rec.attempt
      BY DEF LeaseInv, Types, Recs, Forward
    <2>2. \A k \in Attempts : k \in Nat
      BY Parameters
    <2>3. rec'.state = "pending" => rec' = rec
      BY DEF Forward
    <2> QED
      BY <2>1, <2>2, <2>3 DEF LeaseInv, RecordOK
  <1> QED
    BY <1>1, <1>2, <1>3, <1>4 DEF LeaseInv

-----------------------------------------------------------------------------
(* The scan.                                                               *)

\* Nobody has claimed anything at the start.
LEMMA InitInv == Init => LeaseInv
  <1> SUFFICES ASSUME Init PROVE LeaseInv
    OBVIOUS
  <1>1. (CHOOSE r \in Replicas : TRUE) \in Replicas
    BY ReplicaAssumption
  <1>2. NoWrite \in Recs
    BY DEF NoWrite, Recs, Live
  <1>3. Idle \in Visits
    BY <1>2 DEF Idle, Visits
  <1>4. NoOwner("none", CHOOSE r \in Replicas : TRUE) \in OwnerRecs
    BY <1>1 DEF NoOwner, OwnerRecs
  <1>5. \A k \in Attempts : own[k].pc = "none"
    BY DEF Init, NoOwner
  <1>6. Types
    BY <1>2, <1>3, <1>4 DEF Init, Types, Workers
  <1> QED
    BY <1>5, <1>6 DEF Init, LeaseInv, RecordOK, NoWrite, VisitOK, Idle, Owners

\* A record somebody may claim is nobody's: the margins of the owner and of the
\* claimer cover both clocks and a slow cutoff.
LEMMA ClaimableIsAbandoned ==
  ASSUME LeaseInv, NEW r \in Replicas, Claimable(r), NEW k \in Attempts
  PROVE  ~Uncut(k)
  <1> SUFFICES ASSUME Uncut(k) PROVE FALSE
    OBVIOUS
  <1>1. /\ OwnerOK(k) /\ own[k] \in OwnerRecs /\ rec \in Recs /\ now \in Nat /\ k \in Nat \ {0}
        /\ ~own[k].cancelled /\ RecordOK
    BY Parameters DEF LeaseInv, Types, Uncut, Owners
  <1>2. rec.attempt = k /\ rec.lease >= own[k].cutoff + Skew
        /\ now + Offset[own[k].at] =< own[k].cutoff + Slack
    BY <1>1 DEF OwnerOK, OwnerClock, Clock
  <1>3. rec.lease + Skew < now + Offset[r]
    BY <1>1, <1>2 DEF Claimable, RecordOK, Clock
  <1>4. Offset[r] + Slack =< Offset[own[k].at] + 2 * Skew /\ own[k].at \in Replicas
    BY <1>1, ClockAssumption DEF OwnerRecs
  <1>5. /\ Offset[r] \in Nat /\ Offset[own[k].at] \in Nat /\ Skew \in Nat /\ Slack \in Nat
        /\ own[k].cutoff \in Int /\ rec.lease \in Int
    BY <1>1, <1>4, Parameters DEF OwnerRecs, Recs
  <1> QED
    BY <1>1, <1>2, <1>3, <1>4, <1>5

\* A visit that reads the record to end it.
LEMMA VisitTerminateInv ==
  ASSUME LeaseInv, NEW r \in Replicas, VisitTerminate(r)
  PROVE  LeaseInv'
  <1>1. rec' = rec /\ late' = late /\ own' = own /\ wkr' = wkr /\ now' = now
        /\ scan' = [scan EXCEPT ![r] = Visiting(r, "terminate", Failed)]
    BY DEF VisitTerminate
  <1>2. Failed \in Recs /\ Failed.rev = rec.rev /\ Failed.attempt = rec.attempt
        /\ Failed.lease = rec.lease /\ Failed.state = "failed" /\ rec.lease \in Int /\ rec.rev \in Nat
    BY DEF LeaseInv, Types, Recs, Failed, Terminal
  <1>3. Clock(r) \in Int /\ CallTimeout \in Nat /\ Slack \in Nat
    BY Parameters DEF Clock, LeaseInv, Types
  <1>4. Visiting(r, "terminate", Failed) \in Visits
    BY <1>2, <1>3 DEF Visiting, Visits
  <1>5. Types'
    BY <1>1, <1>4 DEF LeaseInv, Types
  <1>6. VisitOK(r)'
    <2>1. scan'[r] = Visiting(r, "terminate", Failed)
      BY <1>1 DEF LeaseInv, Types
    <2>2. /\ scan'[r].pc = "terminate" /\ scan'[r].write = Failed
          /\ scan'[r].by = Clock(r) + CallTimeout
      BY <2>1 DEF Visiting
    <2>3. Clock(r)' =< scan'[r].by + Slack
      BY <1>1, <1>3, <2>2 DEF Clock
    <2>4. WriteOK(scan[r].write)'
      BY <1>1, <1>2, <2>2 DEF WriteOK
    <2> QED
      BY <2>2, <2>3, <2>4 DEF VisitOK
  <1>7. \A s \in Replicas : scan'[s] = scan[s] \/ VisitOK(s)'
    BY <1>1, <1>6 DEF LeaseInv, Types
  <1> QED
    BY <1>1, <1>5, <1>7, Assembled DEF Forward, Uncut, Owners

\* A visit that reads it to claim it.
LEMMA VisitClaimInv ==
  ASSUME LeaseInv, NEW r \in Replicas, VisitClaim(r)
  PROVE  LeaseInv'
  <1> DEFINE w == Claimed(r)
  <1>1. rec' = rec /\ late' = late /\ own' = own /\ now' = now
        /\ scan' = [scan EXCEPT ![r] = Visiting(r, "claim", w)]
        /\ wkr' = [wkr EXCEPT ![r].active = @ + 1]
    BY DEF VisitClaim
  <1>2. Clock(r) \in Int /\ CallTimeout \in Nat /\ Slack \in Nat /\ TTL \in Nat /\ Length \in Nat
    BY Parameters DEF Clock, LeaseInv, Types
  <1>3. /\ w \in Recs /\ w.rev = rec.rev /\ w.attempt = rec.attempt + 1
        /\ w.lease = Clock(r) + TTL /\ w.state = "running" /\ rec.lease \in Int /\ rec.rev \in Nat
    <2> DEFINE d == IF rec.attempt = 0 THEN Clock(r) + Length ELSE rec.deadline
               c == Clock(r) + TTL
               a == rec.attempt + 1
    <2>1. rec \in Recs /\ d \in Int /\ c \in Int /\ a \in Nat
      BY <1>2 DEF LeaseInv, Types, Recs
    <2>2. w = [rec EXCEPT !.state = "running", !.attempt = a, !.lease = c, !.deadline = d]
      BY <2>1 DEF Claimed, Recs
    <2> HIDE DEF d, c, w
    <2>3. w \in Recs /\ w.rev = rec.rev /\ w.attempt = a /\ w.lease = c /\ w.state = "running"
      BY <2>1, <2>2 DEF Recs, Live
    <2> QED
      BY <2>1, <2>3 DEF Recs, c
  <1>4. w.attempt \in Attempts
    <2>1. rec.attempt \in Nat /\ MaxAttempts \in Nat /\ ~(rec.attempt >= MaxAttempts)
      BY Parameters DEF VisitClaim, Exhausted, LeaseInv, Types, Recs
    <2> QED
      BY <1>3, <2>1 DEF Attempts
  <1>5. \A k \in Attempts : ~Uncut(k)
    BY ClaimableIsAbandoned DEF VisitClaim
  <1> HIDE DEF w
  <1>6. Visiting(r, "claim", w) \in Visits
    BY <1>2, <1>3 DEF Visiting, Visits
  <1>7. Types'
    BY <1>1, <1>6 DEF LeaseInv, Types, Workers
  <1>8. VisitOK(r)'
    <2>1. scan'[r] = Visiting(r, "claim", w)
      BY <1>1 DEF LeaseInv, Types
    <2>2. /\ scan'[r].pc = "claim" /\ scan'[r].write = w
          /\ scan'[r].by = Clock(r) + CallTimeout
      BY <2>1 DEF Visiting
    <2>3. Clock(r)' =< scan'[r].by + Slack
      BY <1>1, <1>2, <2>2 DEF Clock
    <2>4. WriteOK(scan[r].write)'
      BY <1>1, <1>3, <1>5, <2>2 DEF WriteOK, Uncut, Owners
    <2>5. scan'[r].write.lease = scan'[r].by - CallTimeout + TTL
      BY <1>2, <1>3, <2>2
    <2> QED
      BY <1>1, <1>3, <1>4, <2>2, <2>3, <2>4, <2>5 DEF VisitOK
  <1>9. \A s \in Replicas : scan'[s] = scan[s] \/ VisitOK(s)'
    BY <1>1, <1>8 DEF LeaseInv, Types
  <1>10. \A k \in Attempts : wkr'[own[k].at].entry = wkr[own[k].at].entry
    BY <1>1 DEF LeaseInv, Types, OwnerRecs, Workers
  <1> QED
    BY <1>1, <1>7, <1>9, <1>10, Assembled DEF Forward, Uncut, Owners

\* The write that ends the record.
LEMMA TerminateUpdateInv ==
  ASSUME LeaseInv, NEW r \in Replicas, TerminateUpdate(r)
  PROVE  LeaseInv'
  <1>1. PICK w \in Recs : w = scan[r].write
    BY DEF LeaseInv, Types, Visits
  <1>2. own' = own /\ wkr' = wkr /\ now' = now /\ scan' = [scan EXCEPT ![r] = Idle]
        /\ WriteOK(w) /\ \E o \in Outcomes : Update(w, o)
    BY <1>1 DEF TerminateUpdate, LeaseInv, VisitOK
  <1>3. Forward /\ late' \subseteq late \cup {w}
    BY <1>2, UpdateMoves DEF LeaseInv
  <1>4. Idle \in Visits /\ Idle.pc = "idle"
    BY DEF Idle, Visits, NoWrite, Recs, Live
  <1>5. Types'
    BY <1>2, <1>3, <1>4 DEF LeaseInv, Types, Forward
  <1>6. \A s \in Replicas : scan'[s] = scan[s] \/ scan'[s].pc = "idle"
    BY <1>2, <1>4 DEF LeaseInv, Types
  <1> QED
    BY <1>2, <1>3, <1>5, <1>6, Assembled DEF Uncut, Owners

\* A step of one owner that lets nobody uncut.
LEMMA OwnerMoves ==
  ASSUME LeaseInv, NEW k \in Attempts, own[k].pc # "none", own' \in [Attempts -> OwnerRecs],
         \A j \in Attempts \ {k} : own'[j] = own[j],
         Uncut(k)' => Uncut(k) /\ OwnerOK(k)',
         k \in Owners' => OwnerOK(k)',
         Forward, late' \subseteq Recs, \A v \in late' : v \in late \/ WriteOK(v),
         wkr' \in [Replicas -> Workers],
         \A j \in Owners \ {k} :
            own[j].cancelled \/ wkr'[own[j].at].entry = wkr[own[j].at].entry,
         UNCHANGED <<now, scan>>
  PROVE  LeaseInv'
  <1>1. Types'
    BY DEF LeaseInv, Types, Forward
  <1>2. \A j \in Attempts : Uncut(j)' => Uncut(j)
    BY DEF Uncut, Owners
  <1>3. \A j \in Attempts : j \in Owners' =>
            \/ OwnerOK(j)'
            \/ /\ own'[j] = own[j]
               /\ own[j].cancelled \/ wkr'[own[j].at].entry = wkr[own[j].at].entry
    BY DEF Owners
  <1>4. \A j \in Attempts : own'[j].pc # "none" => own[j].pc # "none"
    OBVIOUS
  <1> QED
    BY <1>1, <1>2, <1>3, <1>4, Assembled

\* The claim: the attempt's owner begins under the lease and the entry, or
\* nothing does.
LEMMA ClaimUpdateInv ==
  ASSUME LeaseInv, NEW r \in Replicas, ClaimUpdate(r)
  PROVE  LeaseInv'
  <1>1. PICK w \in Recs : w = scan[r].write
    BY DEF LeaseInv, Types, Visits
  <1>2. PICK o \in Outcomes : Update(w, o) /\ IF o = "ok" THEN StartOwner(r, w) ELSE ClaimFailed(r)
    BY <1>1 DEF ClaimUpdate
  <1>3. now' = now /\ scan' = [scan EXCEPT ![r] = Idle] /\ WriteOK(w) /\ VisitOK(r)
        /\ scan[r] \in Visits /\ scan[r].pc = "claim"
    BY <1>1 DEF ClaimUpdate, LeaseInv, VisitOK, Types
  <1>4. Forward /\ late' \subseteq late \cup {w}
    BY <1>2, <1>3, UpdateMoves DEF LeaseInv
  <1>5. Idle \in Visits /\ Idle.pc = "idle"
    BY DEF Idle, Visits, NoWrite, Recs, Live
  <1>6. \A s \in Replicas : scan'[s] = scan[s] \/ scan'[s].pc = "idle"
    BY <1>3, <1>5 DEF LeaseInv, Types
  <1>7. CASE o # "ok"
    <2>1. own' = own /\ wkr' = [wkr EXCEPT ![r].active = @ - 1]
      BY <1>2, <1>7 DEF ClaimFailed
    <2>2. wkr' \in [Replicas -> Workers] /\ \A s \in Replicas : wkr'[s].entry = wkr[s].entry
      BY <2>1 DEF LeaseInv, Types, Workers
    <2>3. Types'
      BY <1>3, <1>4, <1>5, <2>1, <2>2 DEF LeaseInv, Types, Forward
    <2>4. \A k \in Attempts : wkr'[own[k].at].entry = wkr[own[k].at].entry
      BY <2>2 DEF LeaseInv, Types, OwnerRecs
    <2> QED
      BY <1>3, <1>4, <1>6, <2>1, <2>3, <2>4, Assembled DEF Uncut, Owners
  <1>8. CASE o = "ok"
    <2> DEFINE a == w.attempt
               n == [pc |-> "loop", at |-> r, rev |-> w.rev + 1, cutoff |-> w.lease - Skew,
                     deadline |-> w.deadline, cancelled |-> FALSE, work |-> "sampling",
                     lease |-> 0, by |-> 0]
    <2>1. own' = [own EXCEPT ![a] = n] /\ wkr' = [wkr EXCEPT ![r].entry = a]
          /\ w.rev = rec.rev /\ rec' = [w EXCEPT !.rev = @ + 1]
      BY <1>2, <1>8 DEF StartOwner, Update, Takes, Commit
    <2>2. /\ a \in Attempts /\ a \in Nat /\ a = rec.attempt + 1 /\ w.lease = scan[r].by - CallTimeout + TTL
          /\ now + Offset[r] =< scan[r].by + Slack
      BY <1>1, <1>3, <2>1, Parameters DEF VisitOK, Clock
    <2>3. \A k \in Attempts : ~Uncut(k)
      <3>1. w.attempt # rec.attempt
        BY <2>2 DEF LeaseInv, Types, Recs
      <3> QED
        BY <1>3, <2>1, <3>1 DEF WriteOK
    <2>4. /\ w.rev \in Nat /\ w.lease \in Int /\ w.deadline \in Int /\ Skew \in Nat /\ Slack \in Nat
          /\ Offset[r] \in Nat /\ now \in Nat /\ CallTimeout \in Nat /\ TTL \in Nat /\ scan[r].by \in Int
      BY <1>3, Parameters DEF Recs, LeaseInv, Types, Visits
    <2>5. n \in OwnerRecs
      BY <2>4 DEF OwnerRecs
    <2>6. rec' \in Recs /\ rec'.rev = w.rev + 1 /\ rec'.attempt = a /\ rec'.lease = w.lease
      BY <2>1, <2>4 DEF Recs
    <2>7. Types'
      BY <1>3, <1>4, <1>5, <2>1, <2>2, <2>5, <2>6 DEF LeaseInv, Types, Workers
    <2>8. OwnerOK(a)'
      <3>1. own'[a] = n /\ wkr'[r].entry = a
        BY <2>1, <2>2 DEF LeaseInv, Types, Workers
      <3>2. now + Offset[r] =< w.lease - Skew + Slack
        BY <2>2, <2>4, ClockAssumption
      <3>3. OwnerClock(a)' = now + Offset[r]
        BY <1>3, <3>1 DEF OwnerClock, Clock
      <3> QED
        BY <2>4, <2>6, <3>1, <3>2, <3>3 DEF OwnerOK
    <2>9. \A k \in Attempts : k \in Owners' => OwnerOK(k)' \/ (own'[k] = own[k] /\ own[k].cancelled)
      <3>1. \A k \in Attempts \ {a} : own'[k] = own[k]
        BY <2>1, <2>2 DEF LeaseInv, Types
      <3> QED
        BY <2>3, <2>8, <3>1 DEF Uncut, Owners
    <2>10. \A k \in Attempts : own'[k].pc # "none" => own[k].pc # "none" \/ k =< rec'.attempt
      <3>1. \A k \in Attempts \ {a} : own'[k] = own[k]
        BY <2>1, <2>2 DEF LeaseInv, Types
      <3> QED
        BY <2>2, <2>6, <3>1
    <2>11. rec' # rec
      <3>1. w.rev = rec.rev /\ w.rev \in Nat /\ rec'.rev = w.rev + 1
        BY <2>1, <2>4, <2>6
      <3> QED
        BY <3>1
    <2> QED
      BY <1>3, <1>4, <1>6, <2>7, <2>9, <2>10, <2>11, Assembled
  <1> QED
    BY <1>7, <1>8

-----------------------------------------------------------------------------
(* The owner loop.                                                         *)

\* What an owner knows, in the form its steps use it.
LEMMA OwnerFacts ==
  ASSUME LeaseInv, NEW k \in Owners
  PROVE  /\ k \in Attempts /\ k \in Nat /\ own[k] \in OwnerRecs /\ OwnerOK(k) /\ own[k].pc # "none"
         /\ own[k].at \in Replicas /\ own[k].rev \in Nat /\ own[k].cutoff \in Int
         /\ own[k].lease \in Int /\ own[k].cancelled \in BOOLEAN /\ own[k].deadline \in Int
         /\ rec \in Recs /\ rec.rev \in Nat /\ rec.lease \in Int /\ rec.attempt \in Nat
         /\ OwnerClock(k) \in Int /\ Skew \in Nat /\ TTL \in Nat /\ CallTimeout \in Nat /\ Slack \in Nat
  BY Parameters DEF LeaseInv, Types, Owners, OwnerRecs, Recs, OwnerClock, Clock

\* One owner becomes n, which nobody is uncut by.
LEMMA OwnerBecomes ==
  ASSUME LeaseInv, NEW k \in Owners, NEW n \in OwnerRecs, own' = [own EXCEPT ![k] = n],
         n.cancelled \/ ~own[k].cancelled, OwnerOK(k)', Forward,
         late' \subseteq Recs, \A v \in late' : v \in late \/ WriteOK(v),
         UNCHANGED <<now, scan, wkr>>
  PROVE  LeaseInv'
  <1>1. /\ own' \in [Attempts -> OwnerRecs] /\ \A j \in Attempts \ {k} : own'[j] = own[j]
        /\ own'[k] = n /\ k \in Attempts /\ own[k].pc # "none"
    BY DEF LeaseInv, Types, Owners
  <1>2. Uncut(k)' => Uncut(k) /\ OwnerOK(k)'
    BY <1>1 DEF Uncut, Owners
  <1>3. wkr' \in [Replicas -> Workers]
    BY DEF LeaseInv, Types
  <1> QED
    BY <1>1, <1>2, <1>3, OwnerMoves

\* It keeps what it knew when its lease stays and at most it is cancelled.
LEMMA OwnerKeeps ==
  ASSUME LeaseInv, NEW k \in Owners, NEW n \in OwnerRecs, own' = [own EXCEPT ![k] = n],
         n.at = own[k].at, n.rev = own[k].rev, n.cutoff = own[k].cutoff,
         n.cancelled \/ ~own[k].cancelled,
         \/ n.pc \in {"loop", "lost", "committing"}
         \/ n.pc = own[k].pc /\ n.lease = own[k].lease,
         late' \subseteq Recs, \A v \in late' : v \in late \/ WriteOK(v),
         UNCHANGED <<now, rec, scan, wkr>>
  PROVE  LeaseInv'
  <1>1. own'[k] = n
    BY DEF LeaseInv, Types, Owners
  <1>2. OwnerClock(k)' = OwnerClock(k)
    BY <1>1 DEF OwnerClock, Clock
  <1>3. OwnerOK(k)'
    BY <1>1, <1>2, OwnerFacts DEF OwnerOK
  <1> QED
    BY <1>3, OwnerBecomes DEF Forward

\* A renewal begins.
LEMMA RenewCallInv ==
  ASSUME LeaseInv, NEW k \in Attempts, RenewCall(k)
  PROVE  LeaseInv'
  <1>1. k \in Owners
    BY DEF RenewCall, Owners
  <1> DEFINE c == OwnerClock(k) + CallTimeout
             b == IF c < own[k].cutoff THEN c ELSE own[k].cutoff
             l == OwnerClock(k) + TTL
             n == [own[k] EXCEPT !.pc = "renewing", !.lease = l, !.by = b]
  <1>2. b \in Int /\ l \in Int /\ l > own[k].cutoff + Skew
    BY <1>1, OwnerFacts DEF RenewCall
  <1>3. own' = [own EXCEPT ![k].pc = "renewing", ![k].lease = l, ![k].by = b]
        /\ UNCHANGED <<now, rec, scan, wkr, late>>
    BY DEF RenewCall
  <1> HIDE DEF b, l
  <1>4. own \in [Attempts -> OwnerRecs] /\ own[k] \in OwnerRecs
    BY DEF LeaseInv, Types
  <1>5. /\ n \in OwnerRecs /\ n.cancelled = own[k].cancelled /\ n.at = own[k].at
        /\ n.rev = own[k].rev /\ n.cutoff = own[k].cutoff /\ n.lease = l /\ n.pc = "renewing"
    BY <1>2, <1>4 DEF OwnerRecs
  <1>6. own' = [own EXCEPT ![k] = n]
    BY <1>3, <1>4 DEF OwnerRecs
  <1> HIDE DEF n
  <1>7. OwnerOK(k)'
    <2>1. own'[k] = n
      BY <1>4, <1>6
    <2>2. OwnerClock(k)' = OwnerClock(k)
      BY <1>3, <1>5, <2>1 DEF OwnerClock, Clock
    <2> QED
      BY <1>1, <1>2, <1>3, <1>5, <2>1, <2>2, OwnerFacts DEF OwnerOK
  <1> QED
    BY <1>1, <1>3, <1>5, <1>6, <1>7, OwnerBecomes DEF Forward, LeaseInv, Types

\* What an owner writes while it renews or commits is a write that may be taken.
LEMMA OwnerWrites ==
  ASSUME LeaseInv, NEW k \in Owners, NEW w \in Recs, w.rev = own[k].rev, w.attempt = k,
         w.state # "pending", w.lease >= own[k].cutoff + Skew
  PROVE  WriteOK(w)
  BY OwnerFacts DEF WriteOK, OwnerOK

\* The store takes the renewal, refuses it, or nobody knows.
LEMMA RenewUpdateInv ==
  ASSUME LeaseInv, NEW k \in Attempts, RenewUpdate(k)
  PROVE  LeaseInv'
  <1>1. k \in Owners /\ own[k].pc = "renewing" /\ UNCHANGED <<now, scan, wkr>>
    BY DEF RenewUpdate, Owners
  <1>2. own \in [Attempts -> OwnerRecs] /\ own[k] \in OwnerRecs
    BY DEF LeaseInv, Types
  <1>3. PICK w \in Recs : w = Entry(k, own[k].lease)
    BY <1>1, OwnerFacts DEF Entry, Recs, Live
  <1>4. w.rev = own[k].rev /\ w.attempt = k /\ w.state = "running" /\ w.lease = own[k].lease
    BY <1>3 DEF Entry
  <1>5. own[k].lease > own[k].cutoff + Skew
    BY <1>1, OwnerFacts DEF OwnerOK
  <1>6. WriteOK(w)
    BY <1>1, <1>4, <1>5, OwnerFacts, OwnerWrites
  <1>7. PICK o \in Outcomes :
          /\ Update(w, o)
          /\ own' = [own EXCEPT ![k] =
              CASE o = "ok"          -> [own[k] EXCEPT !.pc = "renewed"]
                [] o = "refused"     -> [own[k] EXCEPT !.pc = "lost", !.lease = 0, !.by = 0]
                [] o = "unavailable" -> [own[k] EXCEPT !.pc = "loop", !.lease = 0, !.by = 0]]
    BY <1>2, <1>3 DEF RenewUpdate
  <1>8. Forward /\ late' \subseteq late \cup {w}
    BY <1>6, <1>7, UpdateMoves DEF LeaseInv
  <1>9. late' \subseteq Recs /\ \A v \in late' : v \in late \/ WriteOK(v)
    BY <1>6, <1>8 DEF LeaseInv, Types
  <1>10. CASE o = "ok"
    <2> DEFINE n == [own[k] EXCEPT !.pc = "renewed"]
    <2>1. own' = [own EXCEPT ![k] = n] /\ rec.rev = w.rev /\ rec' = [w EXCEPT !.rev = @ + 1]
      BY <1>7, <1>10 DEF Update, Takes, Commit
    <2>2. /\ n \in OwnerRecs /\ n.cancelled = own[k].cancelled /\ n.at = own[k].at
          /\ n.rev = own[k].rev /\ n.cutoff = own[k].cutoff /\ n.lease = own[k].lease
          /\ n.pc = "renewed"
      BY <1>2 DEF OwnerRecs
    <2>3. rec'.rev = own[k].rev + 1 /\ rec'.attempt = k /\ rec'.lease = own[k].lease
      BY <1>4, <2>1 DEF Recs
    <2> HIDE DEF n
    <2>4. own'[k] = n
      BY <1>2, <2>1
    <2>5. OwnerClock(k)' = OwnerClock(k)
      BY <1>1, <2>2, <2>4 DEF OwnerClock, Clock
    <2>6. OwnerOK(k)'
      BY <1>1, <1>5, <2>2, <2>3, <2>4, <2>5, OwnerFacts DEF OwnerOK
    <2> QED
      BY <1>1, <1>8, <1>9, <2>1, <2>2, <2>6, OwnerBecomes
  <1>11. CASE o # "ok"
    <2>1. PICK p \in {"lost", "loop"} :
            own' = [own EXCEPT ![k] = [own[k] EXCEPT !.pc = p, !.lease = 0, !.by = 0]]
      BY <1>7, <1>11 DEF Outcomes
    <2> DEFINE n == [own[k] EXCEPT !.pc = p, !.lease = 0, !.by = 0]
    <2>2. /\ n \in OwnerRecs /\ n.cancelled = own[k].cancelled /\ n.at = own[k].at
          /\ n.rev = own[k].rev /\ n.cutoff = own[k].cutoff /\ n.pc = p
      <3>1. n \in OwnerRecs
        <4>1. PICK z \in Int : z = 0
          OBVIOUS
        <4>2. [own[k] EXCEPT !.pc = p, !.lease = z, !.by = z] \in OwnerRecs
          BY <1>2 DEF OwnerRecs
        <4> QED
          BY <4>1, <4>2
      <3>2. /\ n.cancelled = own[k].cancelled /\ n.at = own[k].at
            /\ n.rev = own[k].rev /\ n.cutoff = own[k].cutoff /\ n.pc = p
        BY <1>2 DEF OwnerRecs
      <3> QED
        BY <3>1, <3>2
    <2>3. rec' = rec
      BY <1>7, <1>11 DEF Update
    <2>4. own' = [own EXCEPT ![k] = n]
      BY <2>1
    <2> HIDE DEF n
    <2> QED
      BY <1>1, <1>9, <2>2, <2>3, <2>4, OwnerKeeps
  <1> QED
    BY <1>10, <1>11

\* The answer is installed, unless the work was cancelled meanwhile.
LEMMA RenewReturnInv ==
  ASSUME LeaseInv, NEW k \in Attempts, RenewReturn(k)
  PROVE  LeaseInv'
  <1>1. k \in Owners /\ own[k].pc = "renewed" /\ UNCHANGED <<now, rec, scan, wkr, late>>
    BY DEF RenewReturn, Owners
  <1>2. own \in [Attempts -> OwnerRecs] /\ own[k] \in OwnerRecs
    BY DEF LeaseInv, Types
  <1> DEFINE v == IF own[k].cancelled THEN own[k].rev ELSE own[k].rev + 1
             c == IF own[k].cancelled THEN own[k].cutoff ELSE own[k].lease - Skew
             n == [own[k] EXCEPT !.pc = "loop", !.rev = v, !.cutoff = c, !.lease = 0, !.by = 0]
  <1>3. v \in Nat /\ c \in Int
    BY <1>1, OwnerFacts
  <1>4. own' = [own EXCEPT ![k].pc = "loop", ![k].rev = v, ![k].cutoff = c,
                           ![k].lease = 0, ![k].by = 0]
    BY <1>2 DEF RenewReturn, OwnerRecs
  <1> HIDE DEF v, c
  <1>5. own' = [own EXCEPT ![k] = n]
    BY <1>2, <1>4 DEF OwnerRecs
  <1>6. /\ n \in OwnerRecs /\ n.cancelled = own[k].cancelled /\ n.at = own[k].at
        /\ n.rev = v /\ n.cutoff = c /\ n.lease = 0 /\ n.pc = "loop"
    <2>1. n \in OwnerRecs
      <3>1. PICK z \in Int : z = 0
        OBVIOUS
      <3>2. [own[k] EXCEPT !.pc = "loop", !.rev = v, !.cutoff = c, !.lease = z, !.by = z]
               \in OwnerRecs
        BY <1>2, <1>3 DEF OwnerRecs
      <3> QED
        BY <3>1, <3>2
    <2>2. /\ n.cancelled = own[k].cancelled /\ n.at = own[k].at
          /\ n.rev = v /\ n.cutoff = c /\ n.lease = 0 /\ n.pc = "loop"
      BY <1>2 DEF OwnerRecs
    <2> QED
      BY <2>1, <2>2
  <1> HIDE DEF n
  <1>7. CASE own[k].cancelled
    BY <1>1, <1>5, <1>6, <1>7, OwnerKeeps DEF v, c, LeaseInv, Types
  <1>8. CASE ~own[k].cancelled
    <2>1. n.rev = own[k].rev + 1 /\ n.cutoff = own[k].lease - Skew
      BY <1>6, <1>8 DEF v, c
    <2>2. own'[k] = n
      BY <1>2, <1>5
    <2>3. OwnerClock(k)' = OwnerClock(k)
      BY <1>1, <1>6, <2>2 DEF OwnerClock, Clock
    <2>4. OwnerOK(k)'
      BY <1>1, <1>6, <1>8, <2>1, <2>2, <2>3, OwnerFacts DEF OwnerOK
    <2> QED
      BY <1>1, <1>5, <1>6, <2>4, OwnerBecomes DEF Forward, LeaseInv, Types
  <1> QED
    BY <1>7, <1>8

\* The owner is told to give up: the record moved, or its cutoff came.
LEMMA CancelInv ==
  ASSUME LeaseInv, NEW k \in Attempts, Lost(k) \/ Cutoff(k)
  PROVE  LeaseInv'
  <1>1. k \in Owners /\ UNCHANGED <<now, rec, scan, wkr, late>>
    BY DEF Lost, Cutoff, Owners
  <1>2. own \in [Attempts -> OwnerRecs] /\ own[k] \in OwnerRecs
    BY DEF LeaseInv, Types
  <1>3. PICK p \in {"loop", own[k].pc} :
          own' = [own EXCEPT ![k] = [own[k] EXCEPT !.pc = p, !.cancelled = TRUE]]
    <2>1. CASE Lost(k)
      BY <1>2, <2>1 DEF Lost, OwnerRecs
    <2>2. CASE Cutoff(k)
      BY <1>2, <2>2 DEF Cutoff, OwnerRecs
    <2> QED
      BY <2>1, <2>2
  <1> DEFINE n == [own[k] EXCEPT !.pc = p, !.cancelled = TRUE]
  <1>4. n \in OwnerRecs
    BY <1>2 DEF OwnerRecs
  <1>5. /\ n.at = own[k].at /\ n.rev = own[k].rev /\ n.cutoff = own[k].cutoff
        /\ n.lease = own[k].lease /\ n.pc = p /\ n.cancelled
    BY <1>2 DEF OwnerRecs
  <1> HIDE DEF n
  <1>6. own' = [own EXCEPT ![k] = n]
    BY <1>3 DEF n
  <1> QED
    BY <1>1, <1>4, <1>5, <1>6, OwnerKeeps DEF LeaseInv, Types

\* The work goes on or ends; the lease does not notice.
LEMMA WorkInv ==
  ASSUME LeaseInv, NEW k \in Attempts, Work(k)
  PROVE  LeaseInv'
  <1>1. k \in Owners /\ UNCHANGED <<now, rec, scan, wkr, late>>
    BY DEF Work, WorkFail, WorkMerge, WorkPut
  <1>2. own \in [Attempts -> OwnerRecs] /\ own[k] \in OwnerRecs
    BY DEF LeaseInv, Types
  <1>3. PICK x \in {"storing", "stored", "failed"} : own' = [own EXCEPT ![k].work = x]
    BY DEF Work, WorkFail, WorkMerge, WorkPut
  <1> DEFINE n == [own[k] EXCEPT !.work = x]
  <1>4. n \in OwnerRecs
    BY <1>2 DEF OwnerRecs
  <1>5. /\ n.at = own[k].at /\ n.rev = own[k].rev /\ n.cutoff = own[k].cutoff
        /\ n.lease = own[k].lease /\ n.pc = own[k].pc /\ n.cancelled = own[k].cancelled
    BY <1>2 DEF OwnerRecs
  <1>6. own' = [own EXCEPT ![k] = n]
    BY <1>2, <1>3 DEF OwnerRecs
  <1> HIDE DEF n
  <1> QED
    BY <1>1, <1>4, <1>5, <1>6, OwnerKeeps DEF LeaseInv, Types

-----------------------------------------------------------------------------
(* The end of an attempt.                                                  *)

\* The owner passes the gate and prepares its last write.
LEMMA FinishGateInv ==
  ASSUME LeaseInv, NEW k \in Attempts, FinishGate(k)
  PROVE  LeaseInv'
  <1>1. k \in Owners /\ UNCHANGED <<now, rec, scan, wkr, late>>
    BY DEF FinishGate, HasResult, Owners
  <1>2. own \in [Attempts -> OwnerRecs] /\ own[k] \in OwnerRecs
    BY DEF LeaseInv, Types
  <1> DEFINE b == OwnerClock(k) + CallTimeout
  <1>3. b \in Int
    BY <1>1, OwnerFacts
  <1>4. PICK x \in {own[k].work, "failed"} :
          own' = [own EXCEPT ![k] = [own[k] EXCEPT !.pc = "committing", !.by = b, !.work = x]]
    <2>1. CASE own' = [own EXCEPT ![k].pc = "committing", ![k].by = b]
      <3> HIDE DEF b
      <3> QED
        BY <1>2, <2>1 DEF OwnerRecs
    <2>2. CASE own' = [own EXCEPT ![k].pc = "committing", ![k].by = b, ![k].work = "failed"]
      <3> HIDE DEF b
      <3> QED
        BY <1>2, <2>2 DEF OwnerRecs
    <2> QED
      BY <2>1, <2>2 DEF FinishGate, TooLarge
  <1> HIDE DEF b
  <1> DEFINE n == [own[k] EXCEPT !.pc = "committing", !.by = b, !.work = x]
  <1>5. n \in OwnerRecs
    BY <1>2, <1>3 DEF OwnerRecs
  <1>6. /\ n.at = own[k].at /\ n.rev = own[k].rev /\ n.cutoff = own[k].cutoff
        /\ n.pc = "committing" /\ n.cancelled = own[k].cancelled
    BY <1>2 DEF OwnerRecs
  <1> HIDE DEF n
  <1>7. own' = [own EXCEPT ![k] = n]
    BY <1>4 DEF n
  <1> QED
    BY <1>1, <1>5, <1>6, <1>7, OwnerKeeps DEF LeaseInv, Types

\* An owner that is gone.
LEMMA NoOwnerType ==
  ASSUME NEW r \in Replicas
  PROVE  /\ NoOwner("exited", r) \in OwnerRecs /\ NoOwner("exited", r).pc = "exited"
         /\ NoOwner("exited", r).cancelled = FALSE /\ NoOwner("exited", r).at = r
  BY DEF NoOwner, OwnerRecs

\* The owner is gone and so is its entry, but never another's.
LEMMA ExitInv ==
  ASSUME LeaseInv, NEW k \in Owners, Exit(k), Forward,
         late' \subseteq Recs, \A v \in late' : v \in late \/ WriteOK(v), UNCHANGED <<now, scan>>
  PROVE  LeaseInv'
  <1>1. k \in Attempts /\ own[k] \in OwnerRecs /\ own[k].at \in Replicas /\ own[k].pc # "none"
        /\ k \in Nat
    BY OwnerFacts
  <1>2. PICK r \in Replicas : r = own[k].at
    BY <1>1
  <1> DEFINE n == NoOwner("exited", r)
             e == EntryLeft(k)
  <1>3. n \in OwnerRecs /\ n.pc = "exited"
    BY NoOwnerType
  <1>4. e \in Nat
    BY <1>1, <1>2 DEF EntryLeft, LeaseInv, Types, Workers
  <1>5. own' = [own EXCEPT ![k] = n]
        /\ wkr' = [wkr EXCEPT ![r].entry = e, ![r].active = @ - 1]
    BY <1>2 DEF Exit
  <1> HIDE DEF n
  <1>6. /\ own' \in [Attempts -> OwnerRecs] /\ \A j \in Attempts \ {k} : own'[j] = own[j]
        /\ own'[k] = n
    BY <1>1, <1>3, <1>5 DEF LeaseInv, Types
  <1>7. k \notin Owners'
    BY <1>3, <1>6 DEF Owners
  <1>8. ASSUME NEW j \in Owners \ {k}
        PROVE  own[j].cancelled \/ wkr'[own[j].at].entry = wkr[own[j].at].entry
    <2>1. j \in Attempts /\ own[j].at \in Replicas /\ own[j].cancelled \in BOOLEAN
          /\ (own[j].cancelled \/ wkr[own[j].at].entry = j)
      BY <1>8, OwnerFacts DEF OwnerOK
    <2>2. own[j].at = r /\ ~own[j].cancelled => e = j
      BY <1>2, <1>8, <2>1 DEF EntryLeft
    <2> HIDE DEF e
    <2>3. wkr'[r].entry = e /\ \A s \in Replicas \ {r} : wkr'[s] = wkr[s]
      BY <1>4, <1>5 DEF LeaseInv, Types, Workers
    <2> QED
      BY <2>1, <2>2, <2>3
  <1>9. wkr' \in [Replicas -> Workers]
    <2> HIDE DEF e
    <2> QED
      BY <1>4, <1>5 DEF LeaseInv, Types, Workers
  <1> QED
    BY <1>1, <1>6, <1>7, <1>8, <1>9, OwnerMoves DEF Uncut

\* The owner ends without a write.
LEMMA FinishSkipInv ==
  ASSUME LeaseInv, NEW k \in Attempts, FinishSkip(k)
  PROVE  LeaseInv'
  <1>1. k \in Owners
    BY DEF FinishSkip, HasResult, Owners
  <1> QED
    BY <1>1, ExitInv DEF FinishSkip, Forward, LeaseInv, Types

\* The owner's last write.
LEMMA FinishUpdateInv ==
  ASSUME LeaseInv, NEW k \in Attempts, FinishUpdate(k)
  PROVE  LeaseInv'
  <1>1. k \in Owners /\ UNCHANGED <<now, scan>> /\ Exit(k)
    BY DEF FinishUpdate, Owners
  <1> DEFINE s == IF own[k].work = "stored" THEN "completed" ELSE "failed"
             b == IF own[k].work = "stored" THEN k ELSE 0
             c == own[k].cutoff + Skew
             f == [state |-> s, rev |-> own[k].rev, attempt |-> k, lease |-> c,
                   deadline |-> own[k].deadline, object |-> b]
  <1>2. Final(k) = f
    <2>1. Final(k) = [Entry(k, c) EXCEPT !.state = s, !.object = b]
      BY DEF Final
    <2> HIDE DEF s, b, c
    <2> QED
      BY <2>1 DEF Entry
  <1>3. s \in {"completed", "failed"} /\ b \in Nat /\ c \in Int
    BY <1>1, OwnerFacts
  <1>4. f \in Recs /\ f.rev = own[k].rev /\ f.attempt = k /\ f.state # "pending" /\ f.lease = c
    <2> HIDE DEF s, b, c
    <2> QED
      BY <1>1, <1>3, OwnerFacts DEF Recs, Terminal
  <1> HIDE DEF f
  <1>5. PICK w \in Recs : w = Final(k) /\ WriteOK(w)
    BY <1>1, <1>2, <1>3, <1>4, OwnerWrites
  <1>6. PICK o \in Outcomes : Update(w, o)
    BY <1>5 DEF FinishUpdate
  <1>7. Forward /\ late' \subseteq late \cup {w}
    BY <1>5, <1>6, UpdateMoves DEF LeaseInv
  <1>8. late' \subseteq Recs /\ \A v \in late' : v \in late \/ WriteOK(v)
    BY <1>5, <1>7 DEF LeaseInv, Types
  <1> QED
    BY <1>1, <1>7, <1>8, ExitInv

-----------------------------------------------------------------------------
(* Drain, crash, cancellation and time.                                    *)

\* The drain begins or returns: no owner notices.
LEMMA StopInv ==
  ASSUME LeaseInv, NEW r \in Replicas, StopWork(r) \/ DrainReturn(r)
  PROVE  LeaseInv'
  <1>1. UNCHANGED <<now, rec, own, scan, late>>
        /\ (wkr' = [wkr EXCEPT ![r].stopped = TRUE] \/ wkr' = [wkr EXCEPT ![r].drained = TRUE])
    BY DEF StopWork, DrainReturn
  <1>2. wkr' \in [Replicas -> Workers] /\ \A s \in Replicas : wkr'[s].entry = wkr[s].entry
    <2>1. CASE wkr' = [wkr EXCEPT ![r].stopped = TRUE]
      BY <2>1 DEF LeaseInv, Types, Workers
    <2>2. CASE wkr' = [wkr EXCEPT ![r].drained = TRUE]
      BY <2>2 DEF LeaseInv, Types, Workers
    <2> QED
      BY <1>1, <2>1, <2>2
  <1>3. \A k \in Attempts : wkr'[own[k].at].entry = wkr[own[k].at].entry
    BY <1>2 DEF LeaseInv, Types, OwnerRecs
  <1>4. Types'
    BY <1>1, <1>2 DEF LeaseInv, Types
  <1> QED
    BY <1>1, <1>3, <1>4, Assembled DEF Forward, Uncut, Owners

\* A replica dies: its owners are gone, the others keep what they know.
LEMMA CrashInv ==
  ASSUME LeaseInv, NEW r \in Replicas, Crash(r)
  PROVE  LeaseInv'
  <1> DEFINE d == [up |-> FALSE, stopped |-> FALSE, drained |-> FALSE, active |-> 0, entry |-> 0]
  <1>1. /\ UNCHANGED <<now, rec, late>> /\ scan' = [scan EXCEPT ![r] = Idle]
        /\ wkr' = [wkr EXCEPT ![r] = d]
        /\ own' = [k \in Attempts |-> IF k \in Owners /\ own[k].at = r
                                      THEN NoOwner("exited", r) ELSE own[k]]
    BY DEF Crash
  <1>2. d \in Workers
    BY DEF Workers
  <1>3. Idle \in Visits /\ Idle.pc = "idle"
    BY DEF Idle, Visits, NoWrite, Recs, Live
  <1>4. \A s \in Replicas : scan'[s] = scan[s] \/ scan'[s].pc = "idle"
    BY <1>1, <1>3 DEF LeaseInv, Types
  <1> HIDE DEF d
  <1>5. \A k \in Attempts : own'[k] \in OwnerRecs
    BY <1>1, NoOwnerType DEF LeaseInv, Types
  <1>6. Types'
    BY <1>1, <1>2, <1>3, <1>5 DEF LeaseInv, Types
  <1>7. \A k \in Attempts : k \in Owners' =>
            own'[k] = own[k] /\ wkr'[own[k].at].entry = wkr[own[k].at].entry
    <2> SUFFICES ASSUME NEW k \in Attempts, k \in Owners'
                 PROVE  own'[k] = own[k] /\ wkr'[own[k].at].entry = wkr[own[k].at].entry
      OBVIOUS
    <2>1. own'[k].pc # "exited" /\ own'[k].pc # "none"
      BY DEF Owners
    <2>2. own'[k] = own[k] /\ ~(k \in Owners /\ own[k].at = r)
      BY <1>1, <2>1, NoOwnerType
    <2>3. own[k].at # r /\ own[k].at \in Replicas
      BY <2>1, <2>2 DEF Owners, LeaseInv, Types, OwnerRecs
    <2> QED
      BY <1>1, <2>2, <2>3 DEF LeaseInv, Types
  <1>8. \A k \in Attempts : Uncut(k)' => Uncut(k)
    BY <1>7 DEF Uncut, Owners
  <1>9. \A k \in Attempts : own'[k].pc # "none" => own[k].pc # "none"
    BY <1>1 DEF Owners
  <1> QED
    BY <1>1, <1>4, <1>6, <1>7, <1>8, <1>9, Assembled DEF Forward

\* The API cancels.
LEMMA ApiCancelInv ==
  ASSUME LeaseInv, ApiCancel
  PROVE  LeaseInv'
  <1>1. PICK w \in Recs : w = [rec EXCEPT !.state = "cancelled"]
    BY DEF LeaseInv, Types, Recs, Terminal
  <1>2. own' = own /\ wkr' = wkr /\ now' = now /\ scan' = scan /\ \E o \in Outcomes : Update(w, o)
    BY <1>1 DEF ApiCancel, Outcomes
  <1>3. WriteOK(w)
    <2>1. w.rev = rec.rev /\ w.attempt = rec.attempt /\ w.lease = rec.lease
          /\ w.state = "cancelled" /\ rec.lease \in Int /\ rec.rev \in Nat
      BY <1>1 DEF LeaseInv, Types, Recs
    <2> QED
      BY <2>1 DEF WriteOK
  <1>4. Forward /\ late' \subseteq late \cup {w}
    BY <1>2, <1>3, UpdateMoves DEF LeaseInv
  <1>5. Types'
    BY <1>2, <1>4 DEF LeaseInv, Types, Forward
  <1> QED
    BY <1>2, <1>3, <1>4, <1>5, Assembled DEF Uncut, Owners

\* A write nobody waits for arrives.
LEMMA LateArrivalInv ==
  ASSUME LeaseInv, LateArrival
  PROVE  LeaseInv'
  <1>1. PICK w \in late : late' = late \ {w} /\ IF Takes(w) THEN Commit(w) ELSE UNCHANGED rec
    BY DEF LateArrival
  <1>2. own' = own /\ wkr' = wkr /\ now' = now /\ scan' = scan
    BY DEF LateArrival
  <1>3. w \in Recs /\ WriteOK(w)
    BY DEF LeaseInv, Types
  <1>4. Forward
    <2>1. CASE Takes(w)
      <3>1. rec' = [w EXCEPT !.rev = @ + 1] /\ w.rev = rec.rev
        BY <1>1, <2>1 DEF Takes, Commit
      <3>2. rec' \in Recs /\ rec'.rev = rec.rev + 1 /\ rec'.state = w.state
            /\ rec'.attempt = w.attempt /\ rec'.lease = w.lease
        BY <1>3, <3>1 DEF Recs
      <3> QED
        BY <1>3, <3>1, <3>2 DEF Forward, WriteOK
    <2>2. CASE ~Takes(w)
      BY <1>1, <2>2 DEF Forward
    <2> QED
      BY <2>1, <2>2
  <1>5. Types'
    BY <1>1, <1>2, <1>4 DEF LeaseInv, Types, Forward
  <1> QED
    BY <1>1, <1>2, <1>4, <1>5, Assembled DEF Uncut, Owners

\* Time passes, but not past what a live goroutine is about to do.
LEMMA TickInv ==
  ASSUME LeaseInv, Tick
  PROVE  LeaseInv'
  <1>1. now' = now + 1 /\ UNCHANGED <<rec, own, scan, wkr, late>> /\ now \in Nat
    BY DEF Tick, LeaseInv, Types
  <1>2. \A w : WriteOK(w)' <=> WriteOK(w)
    BY <1>1 DEF WriteOK, Uncut, Owners
  <1>3. ASSUME NEW r \in Replicas PROVE VisitOK(r)'
    <2>1. scan[r].by \in Int /\ Slack \in Nat /\ Offset[r] \in Nat /\ VisitOK(r)
      BY <1>3, Parameters DEF LeaseInv, Types, Visits
    <2>2. scan[r].pc # "idle" => now + Offset[r] < scan[r].by + Slack
      BY <1>3 DEF Tick, Clock
    <2>3. scan[r].pc # "idle" => Clock(r)' =< scan[r].by + Slack
      BY <1>1, <2>1, <2>2 DEF Clock
    <2> QED
      BY <1>1, <1>2, <2>1, <2>3 DEF VisitOK, WriteOK, Uncut, Owners
  <1>4. ASSUME NEW k \in Owners PROVE OwnerOK(k)'
    <2>1. own[k].cutoff \in Int /\ Slack \in Nat /\ OwnerOK(k) /\ own[k].at \in Replicas
      BY OwnerFacts
    <2>2. Offset[own[k].at] \in Nat
      BY <2>1, Parameters
    <2>3. ~own[k].cancelled => now + Offset[own[k].at] < own[k].cutoff + Slack
      BY <1>4 DEF Tick, OwnerClock, Clock
    <2>4. ~own[k].cancelled => OwnerClock(k)' =< own[k].cutoff + Slack
      BY <1>1, <2>1, <2>2, <2>3 DEF OwnerClock, Clock
    <2> QED
      BY <1>1, <2>1, <2>4 DEF OwnerOK
  <1>5. Types' /\ RecordOK' /\ Owners' = Owners
    BY <1>1 DEF LeaseInv, Types, RecordOK, Owners
  <1>6. \A w \in late' : WriteOK(w)'
    BY <1>1, <1>2 DEF LeaseInv
  <1> QED
    BY <1>3, <1>4, <1>5, <1>6 DEF LeaseInv

\* Every step keeps the invariant.
LEMMA StepInv == LeaseInv /\ [Next]_vars => LeaseInv'
  <1> SUFFICES ASSUME LeaseInv, [Next]_vars PROVE LeaseInv'
    OBVIOUS
  <1>1. ASSUME NEW r \in Replicas, Scan(r) PROVE LeaseInv'
    BY <1>1, VisitTerminateInv, VisitClaimInv, TerminateUpdateInv, ClaimUpdateInv DEF Scan
  <1>2. ASSUME NEW r \in Replicas, StopWork(r) \/ DrainReturn(r) \/ Crash(r) PROVE LeaseInv'
    BY <1>2, StopInv, CrashInv
  <1>3. ASSUME NEW k \in Attempts, Loop(k) PROVE LeaseInv'
    BY <1>3, RenewCallInv, RenewUpdateInv, RenewReturnInv, CancelInv DEF Loop
  <1>4. ASSUME NEW k \in Attempts, Work(k) \/ Finish(k) PROVE LeaseInv'
    BY <1>4, WorkInv, FinishSkipInv, FinishGateInv, FinishUpdateInv DEF Finish
  <1>5. ASSUME UNCHANGED vars PROVE LeaseInv'
    <2>1. UNCHANGED <<now, rec, own, scan, wkr, late>>
      BY <1>5 DEF vars
    <2>2. Types'
      BY <2>1 DEF LeaseInv, Types
    <2> QED
      BY <2>1, <2>2, Assembled DEF Forward, Uncut, Owners
  <1> QED
    BY <1>1, <1>2, <1>3, <1>4, <1>5, ApiCancelInv, LateArrivalInv, TickInv DEF Next

-----------------------------------------------------------------------------
(* Slots and the drain, on top of the lease invariant.                     *)

\* The owner loops of one replica.
Mine(r) == {k \in Owners : own[k].at = r}

\* The slots are accounted for and a drained replica is silent.
Accounts == SlotAccounting /\ DrainInv

\* A step that starts and ends no owner and no claim.
LEMMA QuietStep ==
  ASSUME Accounts, Owners' = Owners,
         \A k \in Owners : own'[k].at = own[k].at /\ (own[k].cancelled => own'[k].cancelled),
         \A r \in Replicas :
            /\ wkr'[r].active = wkr[r].active /\ wkr'[r].drained = wkr[r].drained
            /\ wkr[r].stopped => wkr'[r].stopped
            /\ scan'[r].pc = "claim" <=> scan[r].pc = "claim"
  PROVE  Accounts'
  <1>1. \A r \in Replicas : {k \in Owners : own[k].at = r}' = {k \in Owners : own[k].at = r}
    OBVIOUS
  <1>2. SlotAccounting'
    BY <1>1 DEF SlotAccounting, Accounts
  <1>3. DrainInv'
    BY DEF DrainInv, Accounts
  <1> QED
    BY <1>2, <1>3 DEF Accounts

\* The loop and the work of an owner, and its gate, neither start nor end one.
LEMMA OwnersStay ==
  ASSUME LeaseInv, NEW k \in Attempts, Loop(k) \/ Work(k) \/ FinishGate(k)
  PROVE  /\ Owners' = Owners /\ UNCHANGED <<wkr, scan>>
         /\ \A j \in Attempts : own'[j].at = own[j].at /\ (own[j].cancelled => own'[j].cancelled)
  <1>1. own \in [Attempts -> OwnerRecs] /\ own[k] \in OwnerRecs
    BY DEF LeaseInv, Types
  <1>2. k \in Owners /\ UNCHANGED <<wkr, scan>>
    BY DEF Loop, RenewCall, RenewUpdate, RenewReturn, Lost, Cutoff, Work, WorkFail, WorkMerge,
           WorkPut, FinishGate, HasResult, Owners
  <1>3. /\ \A j \in Attempts \ {k} : own'[j] = own[j]
        /\ own'[k].at = own[k].at /\ (own[k].cancelled => own'[k].cancelled)
        /\ own'[k].pc \notin {"none", "exited"}
    <2>1. CASE RenewCall(k)
      BY <1>1, <2>1 DEF RenewCall, OwnerRecs
    <2>2. CASE RenewUpdate(k)
      BY <1>1, <2>2 DEF RenewUpdate, Outcomes, OwnerRecs
    <2>3. CASE RenewReturn(k)
      BY <1>1, <2>3 DEF RenewReturn, OwnerRecs
    <2>4. CASE Lost(k) \/ Cutoff(k)
      BY <1>1, <1>2, <2>4 DEF Lost, Cutoff, OwnerRecs, Owners
    <2>5. CASE Work(k)
      BY <1>1, <1>2, <2>5 DEF Work, WorkFail, WorkMerge, WorkPut, OwnerRecs, Owners
    <2>6. CASE FinishGate(k)
      BY <1>1, <2>6 DEF FinishGate, TooLarge, OwnerRecs
    <2> QED
      BY <2>1, <2>2, <2>3, <2>4, <2>5, <2>6 DEF Loop
  <1> QED
    BY <1>2, <1>3 DEF Owners

\* A replica's owner loops are finitely many.
LEMMA MineFinite ==
  ASSUME NEW r
  PROVE  IsFiniteSet(Mine(r)) /\ Cardinality(Mine(r)) \in Nat
  <1>1. IsFiniteSet(Attempts)
    BY FS_Interval, Parameters DEF Attempts
  <1>2. IsFiniteSet(Mine(r))
    BY <1>1, FS_Subset DEF Mine, Owners
  <1> QED
    BY <1>2, FS_CardinalityType

\* The accounts in terms of Mine.
LEMMA AccountsByMine ==
  SlotAccounting <=>
    \A r \in Replicas : wkr[r].active = Cardinality(Mine(r)) + (IF scan[r].pc = "claim" THEN 1 ELSE 0)
  BY DEF SlotAccounting, Mine

\* A visit that claims takes one slot, and only on a replica still working.
LEMMA VisitClaimAccounts ==
  ASSUME LeaseInv, Accounts, NEW r \in Replicas, VisitClaim(r)
  PROVE  Accounts'
  <1>1. own' = own /\ wkr' = [wkr EXCEPT ![r].active = @ + 1] /\ scan[r].pc = "idle"
        /\ scan' = [scan EXCEPT ![r] = Visiting(r, "claim", Claimed(r))] /\ ~wkr[r].stopped
    BY DEF VisitClaim, SlotFree
  <1>2. scan'[r].pc = "claim" /\ \A s \in Replicas \ {r} : scan'[s] = scan[s]
    BY <1>1 DEF LeaseInv, Types, Visiting
  <1>3. /\ wkr'[r].active = wkr[r].active + 1 /\ wkr'[r].drained = wkr[r].drained
        /\ wkr'[r].stopped = wkr[r].stopped
        /\ \A s \in Replicas \ {r} : wkr'[s] = wkr[s]
    BY <1>1 DEF LeaseInv, Types, Workers
  <1>4. \A s \in Replicas : Mine(s)' = Mine(s) /\ Cardinality(Mine(s)) \in Nat
    BY <1>1, MineFinite DEF Mine, Owners
  <1>5. SlotAccounting'
    <2>1. \A s \in Replicas \ {r} :
            wkr'[s].active = Cardinality(Mine(s)') + (IF scan'[s].pc = "claim" THEN 1 ELSE 0)
      BY <1>2, <1>3, <1>4, AccountsByMine DEF Accounts
    <2>2. wkr[r].active = Cardinality(Mine(r)) + 0
      BY <1>1, AccountsByMine DEF Accounts
    <2>3. wkr'[r].active = Cardinality(Mine(r)') + 1
      BY <1>3, <1>4, <2>2
    <2> QED
      BY <1>2, <2>1, <2>3 DEF SlotAccounting, Mine
  <1>6. DrainInv'
    BY <1>1, <1>2, <1>3 DEF DrainInv, Accounts, Owners
  <1> QED
    BY <1>5, <1>6 DEF Accounts

\* A claim passes its slot on to the owner it starts, or gives it back.
LEMMA ClaimUpdateAccounts ==
  ASSUME LeaseInv, Accounts, NEW r \in Replicas, ClaimUpdate(r)
  PROVE  Accounts'
  <1>1. PICK w \in Recs : w = scan[r].write
    BY DEF LeaseInv, Types, Visits
  <1>2. PICK o \in Outcomes : Update(w, o) /\ IF o = "ok" THEN StartOwner(r, w) ELSE ClaimFailed(r)
    BY <1>1 DEF ClaimUpdate
  <1>3. scan' = [scan EXCEPT ![r] = Idle] /\ scan[r].pc = "claim" /\ Idle.pc = "idle"
    BY DEF ClaimUpdate, Idle
  <1>4. scan'[r].pc = "idle" /\ \A s \in Replicas \ {r} : scan'[s] = scan[s]
    BY <1>3 DEF LeaseInv, Types
  <1>5. wkr[r].active = Cardinality(Mine(r)) + 1 /\ Cardinality(Mine(r)) \in Nat
    BY <1>3, AccountsByMine, MineFinite DEF Accounts
  <1>6. ~wkr[r].drained
    BY <1>3 DEF Accounts, DrainInv
  <1>7. CASE o # "ok"
    <2>1. own' = own /\ wkr' = [wkr EXCEPT ![r].active = @ - 1]
      BY <1>2, <1>7 DEF ClaimFailed
    <2>2. /\ wkr'[r].active = wkr[r].active - 1 /\ wkr'[r].drained = wkr[r].drained
          /\ \A s \in Replicas \ {r} : wkr'[s] = wkr[s]
      BY <2>1 DEF LeaseInv, Types, Workers
    <2>3. \A s \in Replicas : Mine(s)' = Mine(s)
      BY <2>1 DEF Mine, Owners
    <2>4. wkr'[r].active = Cardinality(Mine(r)') + 0
      BY <1>5, <2>2, <2>3
    <2>5. SlotAccounting'
      <3>1. \A s \in Replicas \ {r} :
              wkr'[s].active = Cardinality(Mine(s)') + (IF scan'[s].pc = "claim" THEN 1 ELSE 0)
        BY <1>4, <2>2, <2>3, AccountsByMine DEF Accounts
      <3> QED
        BY <1>4, <2>4, <3>1 DEF SlotAccounting, Mine
    <2>6. DrainInv'
      BY <1>4, <1>6, <2>1, <2>2 DEF DrainInv, Accounts, Owners
    <2> QED
      BY <2>5, <2>6 DEF Accounts
  <1>8. CASE o = "ok"
    <2> DEFINE a == w.attempt
               n == [pc |-> "loop", at |-> r, rev |-> w.rev + 1, cutoff |-> w.lease - Skew,
                     deadline |-> w.deadline, cancelled |-> FALSE, work |-> "sampling",
                     lease |-> 0, by |-> 0]
    <2>1. own' = [own EXCEPT ![a] = n] /\ wkr' = [wkr EXCEPT ![r].entry = a] /\ w.rev = rec.rev
      BY <1>2, <1>8 DEF StartOwner, Update, Takes
    <2>2. a \in Attempts /\ a = rec.attempt + 1 /\ rec.attempt \in Nat
      BY <1>1, <1>3, <2>1 DEF LeaseInv, VisitOK, Types, Recs
    <2>3. own[a].pc = "none"
      BY <2>2 DEF LeaseInv, RecordOK
    <2>4. n.pc = "loop" /\ n.at = r
      OBVIOUS
    <2> HIDE DEF n
    <2>5. own'[a] = n /\ \A j \in Attempts \ {a} : own'[j] = own[j]
      BY <2>1, <2>2 DEF LeaseInv, Types
    <2>6. Owners' = Owners \cup {a} /\ a \notin Owners
      BY <2>2, <2>3, <2>4, <2>5 DEF Owners
    <2>7. Mine(r)' = Mine(r) \cup {a} /\ a \notin Mine(r)
          /\ \A s \in Replicas \ {r} : Mine(s)' = Mine(s)
      BY <2>2, <2>4, <2>5, <2>6 DEF Mine, Owners
    <2>8. Cardinality(Mine(r) \cup {a}) = Cardinality(Mine(r)) + 1
      BY <2>7, FS_AddElement, MineFinite
    <2>9. /\ wkr'[r].active = wkr[r].active /\ wkr'[r].drained = wkr[r].drained
          /\ \A s \in Replicas \ {r} : wkr'[s] = wkr[s]
      BY <2>1 DEF LeaseInv, Types, Workers
    <2>10. wkr'[r].active = Cardinality(Mine(r)') + 0
      BY <1>5, <2>7, <2>8, <2>9
    <2>11. SlotAccounting'
      <3>1. \A s \in Replicas \ {r} :
              wkr'[s].active = Cardinality(Mine(s)') + (IF scan'[s].pc = "claim" THEN 1 ELSE 0)
        BY <1>4, <2>7, <2>9, AccountsByMine DEF Accounts
      <3> QED
        BY <1>4, <2>10, <3>1 DEF SlotAccounting, Mine
    <2>12. DrainInv'
      <3> SUFFICES ASSUME NEW s \in Replicas, wkr'[s].drained
                   PROVE  /\ wkr'[s].stopped /\ scan'[s].pc # "claim"
                          /\ \A j \in Owners' : own'[j].at = s => own'[j].cancelled
        BY DEF DrainInv
      <3>1. s # r /\ wkr'[s] = wkr[s]
        BY <1>6, <2>9
      <3> QED
        BY <1>4, <2>2, <2>4, <2>5, <2>6, <3>1 DEF DrainInv, Accounts, Owners
    <2> QED
      BY <2>11, <2>12 DEF Accounts
  <1> QED
    BY <1>7, <1>8

\* An owner that exits gives its one slot back.
LEMMA ExitAccounts ==
  ASSUME LeaseInv, Accounts, NEW k \in Owners, Exit(k), scan' = scan
  PROVE  Accounts'
  <1>1. k \in Attempts /\ own[k].at \in Replicas
    BY OwnerFacts
  <1>2. PICK r \in Replicas : r = own[k].at
    BY <1>1
  <1>3. PICK e : e = EntryLeft(k)
    OBVIOUS
  <1>4. own' = [own EXCEPT ![k] = NoOwner("exited", r)]
        /\ wkr' = [wkr EXCEPT ![r].entry = e, ![r].active = @ - 1]
    BY <1>2, <1>3 DEF Exit
  <1>5. /\ own'[k] = NoOwner("exited", r) /\ \A j \in Attempts \ {k} : own'[j] = own[j]
    BY <1>1, <1>4 DEF LeaseInv, Types
  <1>6. Owners' = Owners \ {k}
    <2>1. own'[k].pc = "exited" /\ \A j \in Attempts \ {k} : own'[j].pc = own[j].pc
      BY <1>5, NoOwnerType
    <2> QED
      BY <1>1, <2>1 DEF Owners
  <1>7. Mine(r)' = Mine(r) \ {k} /\ k \in Mine(r) /\ \A s \in Replicas \ {r} : Mine(s)' = Mine(s)
    BY <1>2, <1>5, <1>6 DEF Mine, Owners
  <1>8. Cardinality(Mine(r)') = Cardinality(Mine(r)) - 1
    BY <1>7, FS_RemoveElement, MineFinite
  <1>9. /\ wkr'[r].active = wkr[r].active - 1 /\ wkr'[r].drained = wkr[r].drained
        /\ wkr'[r].stopped = wkr[r].stopped
        /\ \A s \in Replicas \ {r} : wkr'[s] = wkr[s]
    BY <1>4 DEF LeaseInv, Types, Workers
  <1>10. SlotAccounting'
    <2>1. Cardinality(Mine(r)) \in Nat
      BY MineFinite
    <2>2. PICK c \in {0, 1} : c = IF scan[r].pc = "claim" THEN 1 ELSE 0
      OBVIOUS
    <2>3. wkr[r].active = Cardinality(Mine(r)) + c
      BY <2>2, AccountsByMine DEF Accounts
    <2>4. wkr'[r].active = Cardinality(Mine(r)') + c
      BY <1>8, <1>9, <2>1, <2>2, <2>3
    <2>5. \A s \in Replicas \ {r} :
            wkr'[s].active = Cardinality(Mine(s)') + (IF scan'[s].pc = "claim" THEN 1 ELSE 0)
      BY <1>7, <1>9, AccountsByMine DEF Accounts
    <2> QED
      BY <2>2, <2>4, <2>5 DEF SlotAccounting, Mine
  <1>11. DrainInv'
    BY <1>5, <1>6, <1>9 DEF DrainInv, Accounts, Owners
  <1> QED
    BY <1>10, <1>11 DEF Accounts

\* A crash leaves no owner and no slot behind on its replica.
LEMMA CrashAccounts ==
  ASSUME LeaseInv, Accounts, NEW r \in Replicas, Crash(r)
  PROVE  Accounts'
  <1> DEFINE d == [up |-> FALSE, stopped |-> FALSE, drained |-> FALSE, active |-> 0, entry |-> 0]
  <1>1. /\ scan' = [scan EXCEPT ![r] = Idle] /\ wkr' = [wkr EXCEPT ![r] = d]
        /\ own' = [k \in Attempts |-> IF k \in Owners /\ own[k].at = r
                                      THEN NoOwner("exited", r) ELSE own[k]]
    BY DEF Crash
  <1>2. scan'[r].pc = "idle" /\ \A s \in Replicas \ {r} : scan'[s] = scan[s]
    BY <1>1 DEF LeaseInv, Types, Idle
  <1>3. wkr'[r].active = 0 /\ ~wkr'[r].drained /\ \A s \in Replicas \ {r} : wkr'[s] = wkr[s]
    BY <1>1 DEF LeaseInv, Types
  <1>4. Owners' = {k \in Owners : own[k].at # r} /\ \A k \in Owners' : own'[k] = own[k]
    BY <1>1, NoOwnerType DEF Owners
  <1>5. Mine(r)' = {} /\ \A s \in Replicas \ {r} : Mine(s)' = Mine(s)
    BY <1>4 DEF Mine
  <1>6. Cardinality(Mine(r)') = 0
    BY <1>5, FS_EmptySet
  <1>7. SlotAccounting'
    <2>1. \A s \in Replicas \ {r} :
            wkr'[s].active = Cardinality(Mine(s)') + (IF scan'[s].pc = "claim" THEN 1 ELSE 0)
      BY <1>2, <1>3, <1>5, AccountsByMine DEF Accounts
    <2>2. wkr'[r].active = Cardinality(Mine(r)') + 0
      BY <1>3, <1>6
    <2> QED
      BY <1>2, <2>1, <2>2 DEF SlotAccounting, Mine
  <1>8. DrainInv'
    BY <1>2, <1>3, <1>4 DEF DrainInv, Accounts
  <1> QED
    BY <1>7, <1>8 DEF Accounts

\* The drain returns only when its replica's owners are gone or cancelled: one
\* that is not cut off is the entry the drain looks at.
LEMMA DrainReturnAccounts ==
  ASSUME LeaseInv, Accounts, NEW r \in Replicas, DrainReturn(r)
  PROVE  Accounts'
  <1>1. own' = own /\ scan' = scan /\ wkr' = [wkr EXCEPT ![r].drained = TRUE]
        /\ wkr[r].stopped /\ scan[r].pc # "claim"
    BY DEF DrainReturn
  <1>2. \A s \in Replicas : /\ wkr'[s].active = wkr[s].active /\ wkr'[s].stopped = wkr[s].stopped
                            /\ s # r => wkr'[s] = wkr[s]
    BY <1>1 DEF LeaseInv, Types, Workers
  <1>3. ASSUME NEW k \in Owners, own[k].at = r PROVE own[k].cancelled
    <2> SUFFICES ASSUME ~own[k].cancelled PROVE FALSE
      OBVIOUS
    <2>1. wkr[r].entry = k /\ k # 0 /\ own[k].pc # "exited"
      BY <1>3, OwnerFacts, Parameters DEF OwnerOK, Owners
    <2> QED
      BY <2>1 DEF DrainReturn, LeftBehind
  <1>4. SlotAccounting'
    BY <1>1, <1>2 DEF SlotAccounting, Accounts, Owners
  <1>5. DrainInv'
    BY <1>1, <1>2, <1>3 DEF DrainInv, Accounts, Owners
  <1> QED
    BY <1>4, <1>5 DEF Accounts

\* Every step keeps the accounts.
LEMMA StepAccounts == LeaseInv /\ Accounts /\ [Next]_vars => Accounts'
  <1> SUFFICES ASSUME LeaseInv, Accounts, [Next]_vars PROVE Accounts'
    OBVIOUS
  <1>1. ASSUME NEW r \in Replicas, VisitTerminate(r) \/ TerminateUpdate(r) PROVE Accounts'
    <2>1. own' = own /\ wkr' = wkr /\ scan[r].pc # "claim"
          /\ scan' \in {[scan EXCEPT ![r] = Visiting(r, "terminate", Failed)],
                        [scan EXCEPT ![r] = Idle]}
      BY <1>1 DEF VisitTerminate, TerminateUpdate
    <2>2. \A s \in Replicas : scan'[s].pc = "claim" <=> scan[s].pc = "claim"
      BY <2>1 DEF Visiting, Idle, LeaseInv, Types
    <2> QED
      BY <2>1, <2>2, QuietStep DEF Owners
  <1>2. ASSUME NEW r \in Replicas, StopWork(r) PROVE Accounts'
    <2>1. own' = own /\ scan' = scan /\ wkr' = [wkr EXCEPT ![r].stopped = TRUE]
      BY <1>2 DEF StopWork
    <2>2. \A s \in Replicas : /\ wkr'[s].active = wkr[s].active /\ wkr'[s].drained = wkr[s].drained
                              /\ wkr[s].stopped => wkr'[s].stopped
      BY <2>1 DEF LeaseInv, Types, Workers
    <2> QED
      BY <2>1, <2>2, QuietStep DEF Owners
  <1>3. ASSUME NEW k \in Attempts, Loop(k) \/ Work(k) \/ FinishGate(k) PROVE Accounts'
    BY <1>3, OwnersStay, QuietStep DEF Owners
  <1>4. ASSUME NEW k \in Attempts, FinishSkip(k) \/ FinishUpdate(k) PROVE Accounts'
    <2>1. k \in Owners /\ Exit(k) /\ scan' = scan
      BY <1>4 DEF FinishSkip, HasResult, FinishUpdate, Owners
    <2> QED
      BY <2>1, ExitAccounts
  <1>5. ASSUME ApiCancel \/ LateArrival \/ Tick \/ UNCHANGED vars PROVE Accounts'
    <2>1. UNCHANGED <<own, wkr, scan>>
      BY <1>5 DEF ApiCancel, LateArrival, Tick, vars
    <2> QED
      BY <2>1, QuietStep DEF Owners
  <1> QED
    BY <1>1, <1>2, <1>3, <1>4, <1>5, VisitClaimAccounts, ClaimUpdateAccounts, CrashAccounts,
       DrainReturnAccounts DEF Next, Scan, Finish

\* No slots are taken at the start.
LEMMA InitAccounts == Init => Accounts
  <1> SUFFICES ASSUME Init PROVE Accounts
    OBVIOUS
  <1>1. Owners = {}
    BY DEF Init, NoOwner, Owners
  <1>2. \A r \in Replicas : {k \in Owners : own[k].at = r} = {} /\ scan[r].pc = "idle"
            /\ wkr[r].active = 0 /\ ~wkr[r].drained
    BY <1>1 DEF Init, Idle
  <1>3. Cardinality({}) = 0
    BY FS_EmptySet
  <1>4. SlotAccounting
    <2>1. \A r \in Replicas : wkr[r].active = Cardinality({k \in Owners : own[k].at = r}) + 0
      BY <1>2, <1>3
    <2> QED
      BY <1>2, <2>1 DEF SlotAccounting
  <1> QED
    BY <1>2, <1>4 DEF Accounts, DrainInv

-----------------------------------------------------------------------------
(* The theorems.                                                           *)

\* The invariant of the lease holds in every state a run of the replicas reaches
\* (worker.go: claim, renew, runCutoff, install, finish).
THEOREM LeaseInvHolds == Spec => []LeaseInv
  BY InitInv, StepInv, PTL DEF Spec

\* At no moment do two attempts profile the Service's Pods: an owner is cut off
\* before any replica's clock lets it claim, for any clocks within the margins.
THEOREM OneSamplerHolds == Spec => []OneSampler
  <1>1. LeaseInv => OneSampler
    BY OwnerFacts DEF OneSampler, Sampling, OwnerOK
  <1> QED
    BY <1>1, LeaseInvHolds, PTL

\* A replica's slot count is exactly the claims and the owner loops it has
\* (reserveLocalSlot, releaseLocalSlot, startOwner, removeInflight).
THEOREM SlotAccountingHolds == Spec => []SlotAccounting
  <1>1. Accounts => SlotAccounting
    BY DEF Accounts
  <1> QED
    BY <1>1, InitInv, StepInv, InitAccounts, StepAccounts, PTL DEF Spec

\* Once Drain has returned, every owner the replica ever started is gone or
\* cancelled and no claim is under way (Drain, waitCollection, startOwner).
THEOREM DrainedIsSilentHolds == Spec => []DrainedIsSilent
  <1>1. Accounts => DrainedIsSilent
    BY DEF Accounts, DrainInv, DrainedIsSilent
  <1> QED
    BY <1>1, InitInv, StepInv, InitAccounts, StepAccounts, PTL DEF Spec

-----------------------------------------------------------------------------
(***************************************************************************)
(* Sampling.  A uid is one Pod's and is never given again, so a target is  *)
(* in one place at a time - not handed out, with one sampler, received, or *)
(* in the manifest (PlacesOK, RecordedOK) - and is counted once; and the   *)
(* Pod that is confirmed under its uid is the one the cache listed, which  *)
(* runs the resolved version (Pinned).                                     *)
(***************************************************************************)

\* What a sampler may be doing, and where an attempt may be.
SamplerStates == {"gone", "parked", "confirm", "fetch", "send"}
AttemptStates == {"round", "fan", "sleep", "finish", "done"}
RoundFailures == {"none", "merged_too_large"}
Reasons == {"none", "merged_too_large", "serialize_failed", "artifact_store_failed",
            "deadline_exceeded", "no_targets", "version_missing", "version_conflict",
            "no_samples"}
Targets  == [pod : Pods, uid : Nat \ {0}]
Running  == [uid : Nat \ {0}, version : 1 .. 2]
AtWork   == [pc : SamplerStates, pod : 0 .. Fleet, uid : Nat, by : Nat, version : 0 .. 2]
Samples  == [round : Nat, uid : Nat, version : 0 .. 2]
Entries  == [round : Nat, uid : Nat, ok : BOOLEAN]
Attempt  == [pc : AttemptStates, round : Nat, pin : 0 .. 2, resolved : 0 .. 2, ok : Nat,
             out : AtWork, failure : RoundFailures, reason : Reasons]
Manifest == [samples : SUBSET Entries, ok : Nat, failed : Nat]

SampleTypeOK ==
    /\ api \in [Pods -> Running] /\ lists \in [Pods -> Running]
    /\ feed \subseteq Targets
    /\ sampler \in [Samplers -> AtWork]
    /\ att \in Attempt
    /\ merged \subseteq Samples
    /\ manifest \in Manifest
    /\ cut \in BOOLEAN

\* A uid some Pod had before or has now: the next one given is greater.
Old(u) == \E p \in Pods : u <= api[p].uid

\* If the Pod of that name still has that uid it runs the resolved version.
Pinned(p, u) == api[p].uid = u => api[p].version = att.resolved

Busy(s) == sampler[s].pc \in {"confirm", "fetch", "send"}

\* A uid is one Pod's, in the cluster and in the cache, and names one version.
ClusterOK ==
    /\ \A p, q \in Pods : api[p].uid = api[q].uid => p = q
    /\ \A p, q \in Pods : api[p].uid = lists[q].uid => p = q /\ api[p] = lists[q]
    /\ \A p, q \in Pods : lists[p].uid = lists[q].uid => p = q
    /\ \A p \in Pods : Old(lists[p].uid)

FeedOK == \A t \in feed : Old(t.uid) /\ Pinned(t.pod, t.uid)

SamplerOK ==
    \A s \in Samplers :
        /\ Busy(s) => /\ sampler[s].pod \in Pods
                      /\ Old(sampler[s].uid)
                      /\ Pinned(sampler[s].pod, sampler[s].uid)
        /\ sampler[s].pc = "fetch" => sampler[s].by = sampler[s].uid
        /\ sampler[s].version \in {0, att.resolved}

OutOK ==
    /\ att.out = Gone \/ att.out.pc = "send"
    /\ att.out.version \in {0, att.resolved}

\* A target of the round is in one place: not handed out, with one sampler,
\* received, or in the manifest.
PlacesOK ==
    /\ \A t, u \in feed : t.uid = u.uid => t = u
    /\ \A s, z \in Samplers : Busy(s) /\ Busy(z) /\ sampler[s].uid = sampler[z].uid => s = z
    /\ \A s \in Samplers, t \in feed : Busy(s) => sampler[s].uid # t.uid
    /\ att.out # Gone => /\ \A t \in feed : t.uid # att.out.uid
                         /\ \A s \in Samplers : Busy(s) => sampler[s].uid # att.out.uid

RecordedOK ==
    \A m \in manifest.samples : m.round = att.round =>
        /\ \A t \in feed : t.uid # m.uid
        /\ \A s \in Samplers : Busy(s) => sampler[s].uid # m.uid
        /\ att.out # Gone => att.out.uid # m.uid

RoundsOK ==
    \A m \in manifest.samples :
        m.round <= att.round /\ (att.pc = "round" => m.round < att.round)

PhaseOK == att.pc # "fan" => att.out = Gone /\ \A s \in Samplers : sampler[s] = Gone

MergedOK ==
    /\ {[round |-> m.round, uid |-> m.uid] : m \in merged}
         = {[round |-> e.round, uid |-> e.uid] : e \in {e \in manifest.samples : e.ok}}
    /\ \A m \in merged : m.version = att.resolved

CountOK ==
    /\ IsFiniteSet(manifest.samples)
    /\ manifest.ok = Cardinality({e \in manifest.samples : e.ok})
    /\ manifest.failed = Cardinality({e \in manifest.samples : ~e.ok})

Sampled(r) == \E m \in merged : m.round = r

CoverOK ==
    /\ \A r \in Nat : r < att.round => Sampled(r)
    /\ att.pc \in {"sleep", "finish"} => Sampled(att.round)
    /\ att.pc = "fan" /\ att.ok > 0 => Sampled(att.round)
    /\ att.pc = "finish" => att.round + 1 >= SampleRounds
    /\ att.pc = "done" /\ att.reason = "none" => \A r \in 0 .. SampleRounds - 1 : Sampled(r)

SampleInv ==
    /\ SampleTypeOK /\ ClusterOK /\ FeedOK /\ SamplerOK /\ OutOK /\ PlacesOK
    /\ RecordedOK /\ RoundsOK /\ PhaseOK /\ MergedOK /\ CountOK /\ CoverOK

-----------------------------------------------------------------------------
\* What is known of the parameters of an attempt.
LEMMA SampleConstants ==
    /\ Fleet \in Nat \ {0} /\ SampleRounds \in Nat \ {0} /\ Wanted \in Nat \ {0}
    /\ MaxParallel \in Nat \ {0} /\ MaxRolls \in Nat /\ Pins \subseteq 0 .. 2
  BY SamplingAssumption DEF SamplingAssumption

\* A sampler at rest holds no profile.
LEMMA RestTypes == Gone \in AtWork /\ Parked \in AtWork /\ Parked.version = 0 /\ Gone.version = 0
    /\ Gone.pc = "gone" /\ Parked.pc = "parked"
  BY SampleConstants DEF Gone, Parked, AtWork, SamplerStates

\* At the start nothing is handed out and the cache is the cluster.
LEMMA SampleInitInv == SampleInit => SampleInv
<1> SUFFICES ASSUME SampleInit PROVE SampleInv
  OBVIOUS
<1>0. PICK v \in [Pods -> 1 .. 2] : api = [p \in Pods |-> [uid |-> p, version |-> v[p]]]
  BY DEF SampleInit
<1>p. PICK pin \in Pins :
          att = [pc |-> "round", round |-> 0, pin |-> pin, resolved |-> 0, ok |-> 0,
                 out |-> Gone, failure |-> "none", reason |-> "none"]
  BY DEF SampleInit
<1>a. api \in [Pods -> Running]
  BY <1>0, SampleConstants DEF Pods, Running
<1>1. SampleTypeOK
  <2>1. att \in Attempt
    BY <1>p, RestTypes, SampleConstants DEF Attempt, AttemptStates, RoundFailures, Reasons
  <2>2. manifest \in Manifest
    BY DEF SampleInit, Manifest
  <2> QED
    BY <1>a, <2>1, <2>2, RestTypes DEF SampleInit, SampleTypeOK
<1>2. ClusterOK
  BY <1>0, <1>a, SampleConstants DEF SampleInit, ClusterOK, Old, Pods
<1>3. FeedOK /\ PlacesOK /\ RecordedOK /\ RoundsOK
  BY <1>p, RestTypes DEF SampleInit, FeedOK, PlacesOK, RecordedOK, RoundsOK, Busy
<1>4. SamplerOK /\ OutOK /\ PhaseOK
  BY <1>p, RestTypes DEF SampleInit, SamplerOK, OutOK, PhaseOK, Busy
<1>5. MergedOK
  BY DEF SampleInit, MergedOK
<1>6. CountOK
  <2>1. {e \in manifest.samples : e.ok} = {} /\ {e \in manifest.samples : ~e.ok} = {}
    BY DEF SampleInit
  <2> QED
    BY <2>1, FS_EmptySet DEF SampleInit, CountOK
<1>7. CoverOK
  BY <1>p, SampleConstants DEF SampleInit, CoverOK
<1> QED
  BY <1>1, <1>2, <1>3, <1>4, <1>5, <1>6, <1>7 DEF SampleInv

\* A Pod's new uid is greater than any given before.
LEMMA ReplacedInv == SampleInv /\ (\E p \in Pods : Replaced(p)) => SampleInv'
<1> SUFFICES ASSUME SampleInv, NEW p \in Pods, Replaced(p) PROVE SampleInv'
  OBVIOUS
<1> USE DEF SampleInv
<1>1. PICK u \in Uids : /\ \A q \in Pods : api[q].uid < u
                        /\ api' = [api EXCEPT ![p] = [uid |-> u, version |-> 2]]
  <2>1. PICK u \in Uids :
          /\ \A x \in {api[q].uid : q \in Pods} \cup {lists[q].uid : q \in Pods}
                \cup {m.uid : m \in manifest.samples} \cup {sampler[s].uid : s \in Samplers} : x < u
          /\ api' = [api EXCEPT ![p] = [uid |-> u, version |-> 2]]
    BY DEF Replaced
  <2>2. \A q \in Pods : api[q].uid < u
    BY <2>1
  <2> QED
    BY <2>1, <2>2
<1>2. UNCHANGED <<lists, feed, sampler, att, merged, manifest, cut>>
  BY DEF Replaced
<1>3. u \in Nat \ {0}
  BY SampleConstants DEF Uids
<1>4. [uid |-> u, version |-> 2] \in Running
  BY <1>3 DEF Running
<1>5. api' \in [Pods -> Running]
  BY <1>1, <1>4 DEF SampleTypeOK
<1>6. /\ api'[p] = [uid |-> u, version |-> 2]
      /\ \A q \in Pods \ {p} : api'[q] = api[q]
  BY <1>1 DEF SampleTypeOK
<1>7. \A q \in Pods : api[q].uid \in Nat
  BY DEF SampleTypeOK, Running
<1>8. ASSUME NEW x \in Nat, Old(x) PROVE Old(x)' /\ x # u
  BY <1>1, <1>3, <1>6, <1>7, <1>8 DEF Old
<1>9. ASSUME NEW q \in Pods, NEW x \in Nat, Old(x), Pinned(q, x) PROVE Pinned(q, x)'
  BY <1>2, <1>6, <1>8, <1>9 DEF Pinned
<1>10. ClusterOK'
  <2>1. \A q \in Pods : lists[q].uid \in Nat /\ Old(lists[q].uid)
    BY DEF SampleTypeOK, Running, ClusterOK
  <2>2. \A q \in Pods : Old(lists[q].uid)' /\ lists[q].uid # u
    BY <2>1, <1>8, <1>2
  <2>3. \A q, z \in Pods : api'[q].uid = api'[z].uid => q = z
    BY <1>1, <1>6, <1>7, <1>3 DEF ClusterOK
  <2>4. \A q, z \in Pods : api'[q].uid = lists[z].uid => q = z /\ api'[q] = lists[z]
    BY <1>6, <2>2 DEF ClusterOK
  <2>5. lists' = lists /\ \A q, z \in Pods : lists[q].uid = lists[z].uid => q = z
    BY <1>2 DEF ClusterOK
  <2>6. /\ (\A q, z \in Pods : api[q].uid = api[z].uid => q = z)'
        /\ (\A q, z \in Pods : api[q].uid = lists[z].uid => q = z /\ api[q] = lists[z])'
        /\ (\A q, z \in Pods : lists[q].uid = lists[z].uid => q = z)'
    BY <2>3, <2>4, <2>5
  <2>7. (\A q \in Pods : Old(lists[q].uid))'
    BY <2>2
  <2> QED
    BY <2>6, <2>7 DEF ClusterOK
<1>11. FeedOK'
  <2> SUFFICES ASSUME NEW t \in feed PROVE Old(t.uid)' /\ Pinned(t.pod, t.uid)'
    BY <1>2 DEF FeedOK
  <2>1. t.uid \in Nat /\ t.pod \in Pods
    BY DEF SampleTypeOK, Targets
  <2> QED
    BY <2>1, <1>8, <1>9 DEF FeedOK
<1>12. SamplerOK'
  <2> SUFFICES ASSUME NEW s \in Samplers
               PROVE  /\ Busy(s) => /\ sampler[s].pod \in Pods
                                    /\ Old(sampler[s].uid)'
                                    /\ Pinned(sampler[s].pod, sampler[s].uid)'
                      /\ sampler[s].pc = "fetch" => sampler[s].by = sampler[s].uid
                      /\ sampler[s].version \in {0, att.resolved}
    BY <1>2 DEF SamplerOK, Busy, Old, Pinned
  <2>1. sampler[s].uid \in Nat
    BY DEF SampleTypeOK, AtWork
  <2> QED
    BY <2>1, <1>8, <1>9, <1>2 DEF SamplerOK, Old, Pinned
<1>13. (OutOK /\ PlacesOK /\ RecordedOK /\ RoundsOK /\ PhaseOK /\ MergedOK /\ CountOK /\ CoverOK)'
  BY <1>2 DEF OutOK, PlacesOK, RecordedOK, RoundsOK, PhaseOK, MergedOK, CountOK, CoverOK, Busy, Sampled
<1>14. SampleTypeOK'
  BY <1>2, <1>5 DEF SampleTypeOK
<1> QED
  BY <1>10, <1>11, <1>12, <1>13, <1>14

\* The cache follows the cluster, one Pod at a time.
LEMMA CacheSeesInv == SampleInv /\ (\E p \in Pods : CacheSees(p)) => SampleInv'
<1> SUFFICES ASSUME SampleInv, NEW p \in Pods, CacheSees(p) PROVE SampleInv'
  OBVIOUS
<1> USE DEF SampleInv
<1>1. /\ lists' = [lists EXCEPT ![p] = api[p]]
      /\ UNCHANGED <<api, feed, sampler, att, merged, manifest, cut>>
  BY DEF CacheSees
<1>2. SampleTypeOK'
  BY <1>1 DEF SampleTypeOK
<1>3. ClusterOK'
  <2>1. lists'[p] = api[p] /\ \A q \in Pods \ {p} : lists'[q] = lists[q]
    BY <1>1 DEF SampleTypeOK
  <2>2. \A q \in Pods : api[q].uid \in Nat
    BY DEF SampleTypeOK, Running
  <2>3. \A q \in Pods : Old(lists[q].uid)'
    <3> SUFFICES ASSUME NEW q \in Pods PROVE \E z \in Pods : lists'[q].uid <= api[z].uid
      BY <1>1 DEF Old
    <3>1. CASE q = p
      BY <2>1, <2>2, <3>1
    <3>2. CASE q # p
      BY <2>1, <3>2 DEF ClusterOK, Old
    <3> QED
      BY <3>1, <3>2
  <2>4. \A q, z \in Pods : api[q].uid = lists'[z].uid => q = z /\ api[q] = lists'[z]
    BY <2>1 DEF ClusterOK
  <2>5. \A q, z \in Pods : lists'[q].uid = lists'[z].uid => q = z
    BY <2>1 DEF ClusterOK
  <2> QED
    BY <1>1, <2>3, <2>4, <2>5 DEF ClusterOK
<1>4. (FeedOK /\ SamplerOK /\ OutOK /\ PlacesOK /\ RecordedOK)'
  BY <1>1 DEF FeedOK, SamplerOK, OutOK, PlacesOK, RecordedOK, Old, Pinned, Busy
<1>5. (RoundsOK /\ PhaseOK /\ MergedOK /\ CountOK /\ CoverOK)'
  BY <1>1 DEF RoundsOK, PhaseOK, MergedOK, CountOK, CoverOK, Sampled
<1> QED
  BY <1>2, <1>3, <1>4, <1>5

\* The end of the work context by itself moves nothing.
LEMMA CutShortInv == SampleInv /\ CutShort => SampleInv'
<1> SUFFICES ASSUME SampleInv, CutShort PROVE SampleInv'
  OBVIOUS
<1> USE DEF SampleInv
<1>1. cut' = TRUE /\ UNCHANGED <<api, lists, feed, sampler, att, merged, manifest>>
  BY DEF CutShort
<1>2. (SampleTypeOK /\ ClusterOK)'
  BY <1>1 DEF SampleTypeOK, ClusterOK, Old
<1>4. (FeedOK /\ SamplerOK /\ OutOK /\ PlacesOK /\ RecordedOK)'
  BY <1>1 DEF FeedOK, SamplerOK, OutOK, PlacesOK, RecordedOK, Old, Pinned, Busy
<1>5. (RoundsOK /\ PhaseOK /\ MergedOK /\ CountOK /\ CoverOK)'
  BY <1>1 DEF RoundsOK, PhaseOK, MergedOK, CountOK, CoverOK, Sampled
<1> QED
  BY <1>2, <1>4, <1>5

\* A step of run that moves only att, and of att neither the round's version nor
\* what was received.
LEMMA AttMoves ==
    ASSUME SampleInv, att' \in Attempt,
           UNCHANGED <<api, lists, feed, sampler, merged, manifest, cut>>,
           att'.resolved = att.resolved, att'.out = att.out,
           (RoundsOK /\ RecordedOK /\ PhaseOK /\ CoverOK)'
    PROVE  SampleInv'
<1> USE DEF SampleInv
<1>2. (SampleTypeOK /\ ClusterOK)'
  BY DEF SampleTypeOK, ClusterOK, Old
<1>4. (FeedOK /\ SamplerOK /\ OutOK /\ PlacesOK)'
  BY DEF FeedOK, SamplerOK, OutOK, PlacesOK, Old, Pinned, Busy
<1>5. (MergedOK /\ CountOK)'
  BY DEF MergedOK, CountOK
<1> QED
  BY <1>2, <1>4, <1>5

\* An attempt that gives up leaves what it did as it was.
LEMMA FailMoves ==
    ASSUME SampleInv, NEW reason \in Reasons, att.pc # "fan" \/ Drained,
           att' = Fail(reason),
           reason = "none" => att.pc = "finish",
           UNCHANGED <<api, lists, feed, sampler, merged, manifest, cut>>
    PROVE  SampleInv'
<1> USE DEF SampleInv
<1>0. att \in Attempt
  BY DEF SampleTypeOK
<1>1. att' \in Attempt
  BY <1>0 DEF Fail, Attempt, AttemptStates
<1>2. /\ att'.resolved = att.resolved /\ att'.out = att.out /\ att'.round = att.round
      /\ att'.pc = "done" /\ att'.reason = reason
  BY <1>0 DEF Fail, Attempt
<1>3. (RoundsOK /\ RecordedOK)'
  BY <1>2 DEF RoundsOK, RecordedOK, Busy
<1>4. PhaseOK'
  BY <1>2 DEF PhaseOK, Drained
<1>5. CoverOK'
  <2>1. ASSUME reason = "none", NEW r \in 0 .. SampleRounds - 1 PROVE Sampled(r)
    <3>1. att.pc = "finish" /\ att.round \in Nat /\ r \in Nat /\ SampleRounds \in Nat
      BY <2>1, <1>0, SampleConstants DEF Attempt
    <3>2. r <= att.round
      BY <3>1, <2>1 DEF CoverOK
    <3>3. CASE r = att.round
      BY <3>3, <3>1 DEF CoverOK
    <3>4. CASE r < att.round
      BY <3>4, <3>1 DEF CoverOK
    <3> QED
      BY <3>1, <3>2, <3>3, <3>4
  <2> QED
    BY <1>2, <2>1 DEF CoverOK, Sampled
<1> QED
  BY <1>1, <1>2, <1>3, <1>4, <1>5, AttMoves

\* An attempt without targets, or without one version, fails.
LEMMA NoFanInv == SampleInv /\ NoFan => SampleInv'
<1> SUFFICES ASSUME SampleInv, NoFan PROVE SampleInv'
  OBVIOUS
<1>1. PICK reason \in Reasons \ {"none"} : att' = Fail(reason)
  BY DEF NoFan, Reasons
<1>2. att.pc # "fan" /\ UNCHANGED <<api, lists, feed, sampler, merged, manifest, cut>>
  BY DEF NoFan
<1> QED
  BY <1>1, <1>2, FailMoves

\* The attempt ends well only after its last round.
LEMMA FinishRoundsInv == SampleInv /\ FinishRounds => SampleInv'
<1> SUFFICES ASSUME SampleInv, FinishRounds PROVE SampleInv'
  OBVIOUS
<1>1. PICK reason \in Reasons : att' = Fail(reason)
  BY DEF FinishRounds, Reasons
<1>2. att.pc = "finish" /\ UNCHANGED <<api, lists, feed, sampler, merged, manifest, cut>>
  BY DEF FinishRounds
<1> QED
  BY <1>1, <1>2, FailMoves

\* The round is over only once every sampler has left (the closed channel).
LEMMA RoundEndsInv == SampleInv /\ RoundEnds => SampleInv'
<1> SUFFICES ASSUME SampleInv, RoundEnds PROVE SampleInv'
  OBVIOUS
<1>0. /\ att.pc = "fan" /\ Drained /\ att \in Attempt
      /\ UNCHANGED <<api, lists, feed, sampler, merged, manifest, cut>>
  BY DEF RoundEnds, SampleInv, SampleTypeOK
<1>1. CASE att.failure # "none"
  <2>1. att' = Fail(att.failure) /\ att.failure \in Reasons
    BY <1>0, <1>1 DEF RoundEnds, Attempt, RoundFailures, Reasons
  <2> QED
    BY <1>0, <1>1, <2>1, FailMoves
<1>2. CASE att.failure = "none" /\ att.ok = 0
  <2>1. att' = Fail("no_samples") /\ "no_samples" \in Reasons
    BY <1>0, <1>2 DEF RoundEnds, Reasons
  <2> QED
    BY <1>0, <2>1, FailMoves
<1>3. CASE att.failure = "none" /\ att.ok # 0
  <2>1. PICK pc : pc = IF att.round + 1 < SampleRounds THEN "sleep" ELSE "finish"
    OBVIOUS
  <2>2. att' = [att EXCEPT !.pc = pc]
    BY <2>1, <1>3 DEF RoundEnds
  <2>3. /\ att' \in Attempt /\ att'.resolved = att.resolved /\ att'.out = att.out
        /\ att'.round = att.round /\ att'.pc = pc /\ pc \in {"sleep", "finish"}
    BY <1>0, <2>1, <2>2 DEF Attempt, AttemptStates
  <2>4. (RoundsOK /\ RecordedOK)'
    BY <1>0, <2>3 DEF SampleInv, RoundsOK, RecordedOK, Busy
  <2>5. PhaseOK'
    BY <1>0, <2>3 DEF PhaseOK, Drained
  <2>6. CoverOK'
    <3>1. Sampled(att.round)
      BY <1>0, <1>3 DEF SampleInv, CoverOK, Attempt
    <3>2. pc = "finish" => att.round + 1 >= SampleRounds
      BY <1>0, <2>1, SampleConstants DEF Attempt
    <3> QED
      BY <1>0, <2>3, <3>1, <3>2 DEF SampleInv, CoverOK, Sampled
  <2> QED
    BY <1>0, <2>3, <2>4, <2>5, <2>6, AttMoves
<1> QED
  BY <1>1, <1>2, <1>3

\* The next round begins with no target handed out.
LEMMA SleepsInv == SampleInv /\ Sleeps => SampleInv'
<1> SUFFICES ASSUME SampleInv, Sleeps PROVE SampleInv'
  OBVIOUS
<1>0. /\ att.pc = "sleep" /\ att \in Attempt
      /\ UNCHANGED <<api, lists, feed, sampler, merged, manifest, cut>>
  BY DEF Sleeps, SampleInv, SampleTypeOK
<1>1. CASE cut
  <2>1. att' = Fail("deadline_exceeded") /\ "deadline_exceeded" \in Reasons
    BY <1>1 DEF Sleeps, Reasons
  <2> QED
    BY <1>0, <2>1, FailMoves
<1>2. CASE ~cut
  <2>1. PICK n : n = att.round + 1
    OBVIOUS
  <2>2. att' = [att EXCEPT !.pc = "round", !.round = n]
    BY <1>2, <2>1 DEF Sleeps
  <2>n. n \in Nat /\ att.round \in Nat
    BY <1>0, <2>1 DEF Attempt
  <2>3. /\ att' \in Attempt /\ att'.resolved = att.resolved /\ att'.out = att.out
        /\ att'.round = att.round + 1 /\ att'.pc = "round" /\ att.round \in Nat
    BY <1>0, <2>1, <2>2, <2>n DEF Attempt, AttemptStates
  <2>4. \A m \in manifest.samples : m.round \in Nat /\ m.round <= att.round
    BY DEF SampleInv, SampleTypeOK, Manifest, Entries, RoundsOK
  <2>5. (RoundsOK /\ RecordedOK)'
    BY <1>0, <2>3, <2>4 DEF RoundsOK, RecordedOK, Busy
  <2>6. PhaseOK'
    BY <1>0, <2>3 DEF SampleInv, PhaseOK
  <2>7. CoverOK'
    <3>1. \A r \in Nat : r < att.round + 1 => Sampled(r)
      BY <1>0, <2>3 DEF SampleInv, CoverOK
    <3> QED
      BY <1>0, <2>3, <3>1 DEF CoverOK, Sampled
  <2> QED
    BY <1>0, <2>3, <2>5, <2>6, <2>7, AttMoves
<1> QED
  BY <1>1, <1>2

\* Where a target may be found twice: never.
Alone(s, u) ==
    /\ \A z \in Samplers \ {s} : Busy(z) => sampler[z].uid # u
    /\ att.out # Gone => att.out.uid # u
    /\ \A m \in manifest.samples : m.round = att.round => m.uid # u

\* A busy sampler's target is nowhere else.
LEMMA BusyAlone ==
    ASSUME SampleInv, NEW s \in Samplers, Busy(s)
    PROVE  Alone(s, sampler[s].uid)
  BY DEF SampleInv, PlacesOK, RecordedOK, Alone

\* One sampler of the round moves, with the target it has, one it takes, or none.
LEMMA SamplerMoves ==
    ASSUME SampleInv, NEW s \in Samplers, sampler[s] # Gone,
           NEW n \in AtWork, sampler' = [sampler EXCEPT ![s] = n],
           feed' \subseteq feed,
           UNCHANGED <<api, lists, att, merged, manifest, cut>>,
           n.version \in {0, att.resolved},
           n.pc = "fetch" => n.by = n.uid,
           n.pc \in {"confirm", "fetch", "send"} =>
               /\ n.pod \in Pods /\ Old(n.uid) /\ Pinned(n.pod, n.uid)
               /\ Alone(s, n.uid)
               /\ \A t \in feed' : t.uid # n.uid
    PROVE  SampleInv'
<1> USE DEF SampleInv
<1>1. sampler'[s] = n /\ \A z \in Samplers \ {s} : sampler'[z] = sampler[z]
  BY DEF SampleTypeOK
<1>2. (SampleTypeOK /\ ClusterOK)'
  BY DEF SampleTypeOK, ClusterOK, Old
<1>3. FeedOK'
  BY DEF FeedOK, Old, Pinned
<1>4. SamplerOK'
  <2> SUFFICES ASSUME NEW z \in Samplers
               PROVE  /\ Busy(z)' => /\ sampler'[z].pod \in Pods
                                     /\ Old(sampler'[z].uid)
                                     /\ Pinned(sampler'[z].pod, sampler'[z].uid)
                      /\ sampler'[z].pc = "fetch" => sampler'[z].by = sampler'[z].uid
                      /\ sampler'[z].version \in {0, att.resolved}
    BY DEF SamplerOK, Old, Pinned
  <2>1. CASE z = s
    BY <1>1, <2>1 DEF Busy
  <2>2. CASE z # s
    BY <1>1, <2>2 DEF Busy, SamplerOK
  <2> QED
    BY <2>1, <2>2
<1>5. OutOK'
  BY DEF OutOK
<1>6. PlacesOK'
  <2>1. \A t, u \in feed' : t.uid = u.uid => t = u
    BY DEF PlacesOK
  <2>2. ASSUME NEW y \in Samplers, NEW z \in Samplers, Busy(y)', Busy(z)',
               sampler'[y].uid = sampler'[z].uid
        PROVE  y = z
    <3>1. CASE y = s /\ z # s
      BY <1>1, <2>2, <3>1 DEF Busy, Alone
    <3>2. CASE z = s /\ y # s
      BY <1>1, <2>2, <3>2 DEF Busy, Alone
    <3>3. CASE y # s /\ z # s
      BY <1>1, <2>2, <3>3 DEF Busy, PlacesOK
    <3> QED
      BY <3>1, <3>2, <3>3
  <2>3. ASSUME NEW z \in Samplers, NEW t \in feed', Busy(z)' PROVE sampler'[z].uid # t.uid
    <3>1. CASE z = s
      BY <1>1, <2>3, <3>1 DEF Busy
    <3>2. CASE z # s
      BY <1>1, <2>3, <3>2 DEF Busy, PlacesOK
    <3> QED
      BY <3>1, <3>2
  <2>4. ASSUME att.out # Gone
        PROVE  /\ \A t \in feed' : t.uid # att.out.uid
               /\ \A z \in Samplers : Busy(z)' => sampler'[z].uid # att.out.uid
    BY <1>1, <2>4 DEF Busy, PlacesOK, Alone
  <2> QED
    BY <2>1, <2>2, <2>3, <2>4 DEF PlacesOK
<1>7. RecordedOK'
  <2> SUFFICES ASSUME NEW m \in manifest.samples, m.round = att.round
               PROVE  /\ \A t \in feed' : t.uid # m.uid
                      /\ \A z \in Samplers : Busy(z)' => sampler'[z].uid # m.uid
                      /\ att.out # Gone => att.out.uid # m.uid
    BY DEF RecordedOK
  <2>1. \A z \in Samplers : Busy(z)' => sampler'[z].uid # m.uid
    BY <1>1 DEF Busy, RecordedOK, Alone
  <2> QED
    BY <2>1 DEF RecordedOK
<1>8. PhaseOK'
  BY DEF PhaseOK
<1>9. (RoundsOK /\ MergedOK /\ CountOK /\ CoverOK)'
  BY DEF RoundsOK, MergedOK, CountOK, CoverOK, Sampled
<1> QED
  BY <1>2, <1>3, <1>4, <1>5, <1>6, <1>7, <1>8, <1>9

\* A target leaves the feed for one sampler.
LEMMA TakesTargetInv ==
    ASSUME SampleInv, NEW s \in Samplers, NEW t \in feed, TakesTarget(s, t)
    PROVE  SampleInv'
<1> USE DEF SampleInv
<1>1. PICK n : n = [pc |-> "confirm", pod |-> t.pod, uid |-> t.uid, by |-> 0, version |-> 0]
  OBVIOUS
<1>2. /\ sampler' = [sampler EXCEPT ![s] = n] /\ feed' = feed \ {t} /\ sampler[s].pc = "parked"
      /\ UNCHANGED <<api, lists, att, merged, manifest, cut>>
  BY <1>1 DEF TakesTarget
<1>3. t.pod \in Pods /\ t.uid \in Nat
  BY DEF SampleTypeOK, Targets
<1>4. n \in AtWork
  BY <1>1, <1>3, SampleConstants DEF AtWork, SamplerStates, Pods
<1>5. n.pc = "confirm" /\ n.pod = t.pod /\ n.uid = t.uid /\ n.version = 0
  BY <1>1
<1>6. sampler[s] # Gone
  BY <1>2 DEF Gone
<1>7. Old(n.uid) /\ Pinned(n.pod, n.uid)
  BY <1>5 DEF FeedOK
<1>8. Alone(s, n.uid)
  BY <1>5 DEF Alone, PlacesOK, RecordedOK
<1>9. \A u \in feed' : u.uid # n.uid
  BY <1>2, <1>5 DEF PlacesOK
<1> QED
  BY <1>2, <1>3, <1>4, <1>5, <1>6, <1>7, <1>8, <1>9, SamplerMoves

\* A sampler leaves without its outcome, or with none.
LEMMA SamplerLeavesInv ==
    ASSUME SampleInv, NEW s \in Samplers, SamplerLeaves(s)
    PROVE  SampleInv'
<1>1. /\ sampler' = [sampler EXCEPT ![s] = Gone] /\ sampler[s].pc \in {"parked", "send"}
      /\ UNCHANGED <<api, lists, feed, att, merged, manifest, cut>>
  BY DEF SamplerLeaves
<1>2. sampler[s] # Gone
  BY <1>1 DEF Gone
<1> QED
  BY <1>1, <1>2, RestTypes, SamplerMoves

\* A busy sampler that keeps its target.
LEMMA SamplerGoesOn ==
    ASSUME SampleInv, NEW s \in Samplers, Busy(s), NEW n \in AtWork,
           sampler' = [sampler EXCEPT ![s] = n],
           n.pod = sampler[s].pod, n.uid = sampler[s].uid,
           n.pc = "fetch" => n.by = n.uid,
           n.version \in {0, att.resolved},
           UNCHANGED <<api, lists, feed, att, merged, manifest, cut>>
    PROVE  SampleInv'
<1>1. sampler[s] # Gone
  BY DEF Busy, Gone
<1>2. Alone(s, n.uid)
  BY BusyAlone
<1>3. n.pod \in Pods /\ Old(n.uid) /\ Pinned(n.pod, n.uid)
  BY DEF SampleInv, SamplerOK
<1>4. \A t \in feed' : t.uid # n.uid
  BY DEF SampleInv, PlacesOK
<1> QED
  BY <1>1, <1>2, <1>3, <1>4, SamplerMoves

\* A sampler goes on with the Pod its target names, or with a failure.
LEMMA ConfirmInv ==
    ASSUME SampleInv, NEW s \in Samplers, Confirm(s)
    PROVE  SampleInv'
<1>0. /\ sampler[s].pc = "confirm" /\ UNCHANGED <<api, lists, feed, att, merged, manifest, cut>>
      /\ sampler[s] \in AtWork /\ sampler[s].version \in {0, att.resolved}
  BY DEF Confirm, SampleInv, SampleTypeOK, SamplerOK
<1>1. Busy(s)
  BY <1>0 DEF Busy
<1>2. CASE /\ Confirms(s)
           /\ sampler' = [sampler EXCEPT ![s].pc = "fetch", ![s].by = api[sampler[s].pod].uid]
  <2>1. PICK n : n = [sampler[s] EXCEPT !.pc = "fetch", !.by = sampler[s].uid]
    OBVIOUS
  <2>2. sampler' = [sampler EXCEPT ![s] = n]
    BY <1>2, <2>1 DEF Confirms, SampleInv, SampleTypeOK
  <2>3. /\ n \in AtWork /\ n.pod = sampler[s].pod /\ n.uid = sampler[s].uid
        /\ n.by = n.uid /\ n.version = sampler[s].version
    BY <1>0, <2>1 DEF AtWork, SamplerStates
  <2> QED
    BY <1>0, <1>1, <2>2, <2>3, SamplerGoesOn
<1>3. CASE sampler' = [sampler EXCEPT ![s].pc = "send"]
  <2>1. PICK n : n = [sampler[s] EXCEPT !.pc = "send"]
    OBVIOUS
  <2>2. sampler' = [sampler EXCEPT ![s] = n]
    BY <1>3, <2>1 DEF SampleInv, SampleTypeOK
  <2>3. /\ n \in AtWork /\ n.pod = sampler[s].pod /\ n.uid = sampler[s].uid
        /\ n.pc = "send" /\ n.version = sampler[s].version
    BY <1>0, <2>1 DEF AtWork, SamplerStates
  <2> QED
    BY <1>0, <1>1, <2>2, <2>3, SamplerGoesOn
<1> QED
  BY <1>2, <1>3 DEF Confirm

\* A profile read from the Pod that was confirmed is of the resolved version.
LEMMA FetchInv ==
    ASSUME SampleInv, NEW s \in Samplers, Fetch(s)
    PROVE  SampleInv'
<1>0. /\ sampler[s].pc = "fetch" /\ UNCHANGED <<api, lists, feed, att, merged, manifest, cut>>
      /\ sampler[s] \in AtWork /\ sampler[s].version \in {0, att.resolved}
  BY DEF Fetch, SampleInv, SampleTypeOK, SamplerOK
<1>1. Busy(s)
  BY <1>0 DEF Busy
<1>2. CASE /\ api[sampler[s].pod].uid = sampler[s].by
           /\ sampler' = [sampler EXCEPT ![s].pc = "send",
                                         ![s].version = api[sampler[s].pod].version]
  <2>1. PICK n : n = [sampler[s] EXCEPT !.pc = "send", !.version = api[sampler[s].pod].version]
    OBVIOUS
  <2>2. sampler' = [sampler EXCEPT ![s] = n]
    BY <1>2, <2>1 DEF SampleInv, SampleTypeOK
  <2>3. /\ api[sampler[s].pod].version = att.resolved
        /\ api[sampler[s].pod].version \in 0 .. 2
    BY <1>0, <1>1, <1>2 DEF SampleInv, SamplerOK, Pinned, SampleTypeOK, Running
  <2>4. /\ n \in AtWork /\ n.pod = sampler[s].pod /\ n.uid = sampler[s].uid
        /\ n.pc = "send" /\ n.version = att.resolved
    BY <1>0, <2>1, <2>3 DEF AtWork, SamplerStates
  <2> QED
    BY <1>0, <1>1, <2>2, <2>4, SamplerGoesOn
<1>3. CASE sampler' = [sampler EXCEPT ![s].pc = "send"]
  <2>1. PICK n : n = [sampler[s] EXCEPT !.pc = "send"]
    OBVIOUS
  <2>2. sampler' = [sampler EXCEPT ![s] = n]
    BY <1>3, <2>1 DEF SampleInv, SampleTypeOK
  <2>3. /\ n \in AtWork /\ n.pod = sampler[s].pod /\ n.uid = sampler[s].uid
        /\ n.pc = "send" /\ n.version = sampler[s].version
    BY <1>0, <2>1 DEF AtWork, SamplerStates
  <2> QED
    BY <1>0, <1>1, <2>2, <2>3, SamplerGoesOn
<1> QED
  BY <1>2, <1>3 DEF Fetch

\* The feeder stops handing out.
LEMMA FeederQuitsInv == SampleInv /\ FeederQuits => SampleInv'
<1> SUFFICES ASSUME SampleInv, FeederQuits PROVE SampleInv'
  OBVIOUS
<1> USE DEF SampleInv
<1>1. feed' = {} /\ UNCHANGED <<api, lists, sampler, att, merged, manifest, cut>>
  BY DEF FeederQuits
<1>2. (SampleTypeOK /\ ClusterOK)'
  BY <1>1 DEF SampleTypeOK, ClusterOK, Old
<1>4. (FeedOK /\ SamplerOK /\ OutOK /\ PlacesOK /\ RecordedOK)'
  BY <1>1 DEF FeedOK, SamplerOK, OutOK, PlacesOK, RecordedOK, Old, Pinned, Busy
<1>5. (RoundsOK /\ PhaseOK /\ MergedOK /\ CountOK /\ CoverOK)'
  BY <1>1 DEF RoundsOK, PhaseOK, MergedOK, CountOK, CoverOK, Sampled
<1> QED
  BY <1>2, <1>4, <1>5

\* What was merged was merged in a round of the manifest.
LEMMA MergedRounds ==
    ASSUME SampleInv, NEW m \in merged
    PROVE  \E e \in manifest.samples : e.ok /\ e.round = m.round /\ e.uid = m.uid
<1>1. [round |-> m.round, uid |-> m.uid]
        \in {[round |-> e.round, uid |-> e.uid] : e \in {e \in manifest.samples : e.ok}}
  BY DEF SampleInv, MergedOK
<1> QED
  BY <1>1

\* A round starts from Pods the cache lists with the resolved version.
LEMMA FanInv ==
    ASSUME SampleInv, NEW v \in 1 .. 2, Fan(v)
    PROVE  SampleInv'
<1> USE DEF SampleInv
<1>1. PICK ts \in SUBSET TargetsFor(v) :
          /\ feed' = {[pod |-> p, uid |-> lists[p].uid] : p \in ts}
          /\ sampler' = [s \in Samplers |-> IF s <= Cardinality(ts) THEN Parked ELSE Gone]
  BY DEF Fan
<1>2. /\ att.pc = "round" /\ ResolveVersion(v) /\ att \in Attempt
      /\ att' = [att EXCEPT !.pc = "fan", !.resolved = v, !.ok = 0]
      /\ UNCHANGED <<api, lists, merged, manifest, cut>>
  BY DEF Fan, SampleTypeOK
<1>v. v \in 0 .. 2
  OBVIOUS
<1>3. /\ att' \in Attempt /\ att'.pc = "fan" /\ att'.resolved = v /\ att'.ok = 0
      /\ att'.round = att.round /\ att'.out = att.out /\ att.round \in Nat
  <2>1. att' \in Attempt
    BY <1>2, <1>v DEF Attempt, AttemptStates
  <2> QED
    BY <1>2, <2>1 DEF Attempt
<1>4. \A p \in ts : p \in Pods /\ lists[p].version = v
  BY <1>1 DEF TargetsFor
<1>5. \A s \in Samplers : sampler'[s] \in {Parked, Gone}
  BY <1>1
<1>6. att.out = Gone
  BY <1>2 DEF PhaseOK
<1>7. \A s \in Samplers : sampler'[s].version = 0 /\ sampler'[s].pc \in {"gone", "parked"}
  BY <1>5, RestTypes
<1>8. SampleTypeOK'
  <2>1. feed' \subseteq Targets
    BY <1>1, <1>4 DEF Targets, SampleTypeOK, Running
  <2>2. sampler' \in [Samplers -> AtWork]
    BY <1>1, RestTypes
  <2> QED
    BY <1>2, <1>3, <2>1, <2>2 DEF SampleTypeOK
<1>9. ClusterOK'
  BY <1>2 DEF ClusterOK, Old
<1>10. FeedOK'
  <2> SUFFICES ASSUME NEW t \in feed' PROVE Old(t.uid)' /\ Pinned(t.pod, t.uid)'
    BY DEF FeedOK
  <2>1. PICK p \in ts : t = [pod |-> p, uid |-> lists[p].uid]
    BY <1>1
  <2>2. Old(lists[p].uid) /\ (api[p].uid = lists[p].uid => api[p] = lists[p])
    BY <1>4 DEF ClusterOK
  <2>3. t.pod = p /\ t.uid = lists[p].uid
    BY <2>1
  <2>4. Old(t.uid)'
    BY <1>2, <2>2, <2>3 DEF Old
  <2>5. Pinned(t.pod, t.uid)'
    BY <1>2, <1>3, <1>4, <2>2, <2>3 DEF Pinned
  <2> QED
    BY <2>4, <2>5
<1>11. (SamplerOK /\ OutOK /\ PhaseOK)'
  BY <1>3, <1>6, <1>7, RestTypes DEF SamplerOK, OutOK, PhaseOK, Busy
<1>12. PlacesOK'
  <2>1. ASSUME NEW t \in feed', NEW u \in feed', t.uid = u.uid PROVE t = u
    <3>1. PICK p \in ts : t = [pod |-> p, uid |-> lists[p].uid]
      BY <1>1
    <3>2. PICK q \in ts : u = [pod |-> q, uid |-> lists[q].uid]
      BY <1>1
    <3>3. p = q
      BY <2>1, <3>1, <3>2, <1>4 DEF ClusterOK
    <3> QED
      BY <3>1, <3>2, <3>3
  <2> QED
    BY <2>1, <1>3, <1>6, <1>7 DEF PlacesOK, Busy
<1>13. (RoundsOK /\ RecordedOK)'
  <2>1. \A m \in manifest.samples : m.round \in Nat /\ m.round < att.round
    BY <1>2 DEF SampleTypeOK, Manifest, Entries, RoundsOK
  <2> QED
    BY <1>2, <1>3, <2>1 DEF RoundsOK, RecordedOK
<1>14. MergedOK'
  <2>1. ASSUME NEW m \in merged PROVE m.version = v
    <3>1. PICK e \in manifest.samples : e.round = m.round
      BY MergedRounds
    <3>2. e.round \in Nat /\ e.round < att.round
      BY <1>2 DEF SampleTypeOK, Manifest, Entries, RoundsOK
    <3>3. v = att.resolved
      BY <1>2, <1>3, <3>2 DEF ResolveVersion
    <3> QED
      BY <3>3 DEF MergedOK
  <2> QED
    BY <1>2, <1>3, <2>1 DEF MergedOK
<1>15. (CountOK /\ CoverOK)'
  BY <1>2, <1>3 DEF CountOK, CoverOK, Sampled
<1> QED
  BY <1>8, <1>9, <1>10, <1>11, <1>12, <1>13, <1>14, <1>15

\* The channel hands over one outcome at a time.
LEMMA ReceivesInv ==
    ASSUME SampleInv, NEW s \in Samplers, Receives(s)
    PROVE  SampleInv'
<1> USE DEF SampleInv
<1>1. PICK o : o = sampler[s]
  OBVIOUS
<1>2. /\ sampler[s].pc = "send" /\ att.pc = "fan" /\ att.out = Gone /\ att \in Attempt
      /\ att' = [att EXCEPT !.out = o]
      /\ sampler' = [sampler EXCEPT ![s] = Parked]
      /\ UNCHANGED <<api, lists, feed, merged, manifest, cut>>
  BY <1>1 DEF Receives, SampleTypeOK
<1>3. o \in AtWork /\ Busy(s) /\ o.version \in {0, att.resolved} /\ o.uid = sampler[s].uid
  BY <1>1, <1>2 DEF SampleTypeOK, Busy, SamplerOK
<1>4. /\ att' \in Attempt /\ att'.out = o /\ att'.resolved = att.resolved
      /\ att'.round = att.round /\ att'.pc = att.pc /\ att'.ok = att.ok /\ att'.reason = att.reason
  BY <1>2, <1>3 DEF Attempt
<1>5. sampler'[s] = Parked /\ \A z \in Samplers \ {s} : sampler'[z] = sampler[z]
  BY <1>2 DEF SampleTypeOK
<1>6. ~Busy(s)' /\ \A z \in Samplers : Busy(z)' => z # s /\ Busy(z) /\ sampler'[z] = sampler[z]
  BY <1>5, RestTypes DEF Busy
<1>7. (SampleTypeOK /\ ClusterOK)'
  BY <1>2, <1>4, <1>5, RestTypes DEF SampleTypeOK, ClusterOK, Old
<1>8. FeedOK'
  BY <1>2, <1>4 DEF FeedOK, Old, Pinned
<1>9. SamplerOK'
  <2> SUFFICES ASSUME NEW z \in Samplers
               PROVE  /\ Busy(z)' => /\ sampler'[z].pod \in Pods
                                     /\ Old(sampler'[z].uid)
                                     /\ Pinned(sampler'[z].pod, sampler'[z].uid)
                      /\ sampler'[z].pc = "fetch" => sampler'[z].by = sampler'[z].uid
                      /\ sampler'[z].version \in {0, att.resolved}
    BY <1>2, <1>4 DEF SamplerOK, Old, Pinned
  <2>1. CASE z = s
    BY <1>5, <1>6, <2>1, RestTypes
  <2>2. CASE z # s
    BY <1>5, <2>2 DEF Busy, SamplerOK
  <2> QED
    BY <2>1, <2>2
<1>10. (OutOK /\ PhaseOK)'
  BY <1>1, <1>2, <1>3, <1>4 DEF OutOK, PhaseOK
<1>11. PlacesOK'
  BY <1>2, <1>3, <1>4, <1>6 DEF PlacesOK
<1>12. RecordedOK'
  BY <1>2, <1>3, <1>4, <1>6 DEF RecordedOK
<1>13. (RoundsOK /\ MergedOK /\ CountOK /\ CoverOK)'
  BY <1>2, <1>4 DEF RoundsOK, MergedOK, CountOK, CoverOK, Sampled
<1> QED
  BY <1>7, <1>8, <1>9, <1>10, <1>11, <1>12, <1>13

\* The loop lets go of what it received.
LEMMA OutLeaves ==
    ASSUME SampleInv, att.out # Gone, att' \in Attempt, att'.out = Gone,
           att'.resolved = att.resolved, att'.round = att.round, att'.pc = att.pc,
           UNCHANGED <<api, lists, feed, sampler, cut>>
    PROVE  (ClusterOK /\ FeedOK /\ SamplerOK /\ OutOK /\ PlacesOK /\ PhaseOK)' /\ att.pc = "fan"
<1> USE DEF SampleInv
<1>1. ClusterOK'
  BY DEF ClusterOK, Old
<1>2. (FeedOK /\ SamplerOK)'
  BY DEF FeedOK, SamplerOK, Old, Pinned, Busy
<1>3. (OutOK /\ PlacesOK)'
  BY RestTypes DEF OutOK, PlacesOK, Busy
<1>4. PhaseOK' /\ att.pc = "fan"
  BY DEF PhaseOK
<1> QED
  BY <1>1, <1>2, <1>3, <1>4

\* After a failure an outcome is dropped.
LEMMA DrainsInv == SampleInv /\ Drains => SampleInv'
<1> SUFFICES ASSUME SampleInv, Drains PROVE SampleInv'
  OBVIOUS
<1>1. /\ att.out # Gone /\ att' = [att EXCEPT !.out = Gone] /\ att \in Attempt
      /\ UNCHANGED <<api, lists, feed, sampler, merged, manifest, cut>>
  BY DEF Drains, SampleInv, SampleTypeOK
<1>2. /\ att' \in Attempt /\ att'.out = Gone /\ att'.resolved = att.resolved /\ att'.ok = att.ok
      /\ att'.round = att.round /\ att'.pc = att.pc /\ att'.reason = att.reason
  BY <1>1, RestTypes DEF Attempt
<1>3. (ClusterOK /\ FeedOK /\ SamplerOK /\ OutOK /\ PlacesOK /\ PhaseOK)'
  BY <1>1, <1>2, OutLeaves
<1>4. (SampleTypeOK /\ RecordedOK)'
  BY <1>1, <1>2 DEF SampleInv, SampleTypeOK, RecordedOK, Busy
<1>5. (RoundsOK /\ MergedOK /\ CountOK /\ CoverOK)'
  BY <1>1, <1>2 DEF SampleInv, RoundsOK, MergedOK, CountOK, CoverOK, Sampled
<1> QED
  BY <1>3, <1>4, <1>5 DEF SampleInv

\* What an absorbed outcome adds to the manifest was not there.
LEMMA EntryIsNew ==
    ASSUME SampleInv, att.out # Gone, NEW good \in BOOLEAN
    PROVE  /\ SampleEntry(att.out, good) \in Entries
           /\ SampleEntry(att.out, good) \notin manifest.samples
           /\ att.round \in Nat /\ att.out.uid \in Nat
<1>1. att.round \in Nat /\ att.out.uid \in Nat
  BY DEF SampleInv, SampleTypeOK, Attempt, AtWork
<1>2. SampleEntry(att.out, good) \in Entries
  BY <1>1 DEF SampleEntry, Entries
<1>3. /\ SampleEntry(att.out, good).round = att.round
      /\ SampleEntry(att.out, good).uid = att.out.uid
  BY DEF SampleEntry
<1>4. SampleEntry(att.out, good) \notin manifest.samples
  BY <1>3 DEF SampleInv, RecordedOK
<1> QED
  BY <1>1, <1>2, <1>4

\* The manifest grows by the outcome received, however it is counted.
LEMMA EntryMoves ==
    ASSUME SampleInv, att.out # Gone, NEW good \in BOOLEAN,
           manifest'.samples = manifest.samples \cup {SampleEntry(att.out, good)},
           att' \in Attempt, att'.out = Gone, att'.round = att.round, att'.pc = "fan",
           UNCHANGED <<feed, sampler>>
    PROVE  (RecordedOK /\ RoundsOK)'
<1> USE DEF SampleInv
<1>1. PICK e : e = SampleEntry(att.out, good)
  OBVIOUS
<1>2. e.round = att.round /\ e.uid = att.out.uid /\ att.round \in Nat
  BY <1>1, EntryIsNew DEF SampleEntry
<1>3. manifest'.samples = manifest.samples \cup {e}
  BY <1>1
<1>4. RecordedOK'
  <2> SUFFICES ASSUME NEW m \in manifest'.samples, m.round = att.round
               PROVE  /\ \A t \in feed : t.uid # m.uid
                      /\ \A s \in Samplers : Busy(s) => sampler[s].uid # m.uid
    BY DEF RecordedOK, Busy
  <2>1. CASE m = e
    BY <1>2, <2>1 DEF PlacesOK
  <2>2. CASE m \in manifest.samples
    BY <2>2 DEF RecordedOK
  <2> QED
    BY <1>3, <2>1, <2>2
<1>5. RoundsOK'
  BY <1>2, <1>3 DEF RoundsOK
<1> QED
  BY <1>4, <1>5

\* A sample that merged.
LEMMA AbsorbedInv ==
    ASSUME SampleInv, att.out # Gone, att.out.version # 0,
           merged' = merged \cup {[round |-> att.round, uid |-> att.out.uid,
                                   version |-> att.out.version]},
           manifest' = [manifest EXCEPT !.samples = @ \cup {SampleEntry(att.out, TRUE)}, !.ok = @ + 1],
           NEW f \in RoundFailures,
           att' = [att EXCEPT !.out = Gone, !.ok = @ + 1, !.failure = f],
           UNCHANGED <<api, lists, feed, sampler, cut>>
    PROVE  SampleInv'
<1> USE DEF SampleInv
<1>0. att \in Attempt /\ manifest \in Manifest /\ att.ok \in Nat /\ att.pc = "fan"
      /\ manifest.ok \in Nat
  BY DEF SampleTypeOK, PhaseOK, Attempt, Manifest
<1>1. PICK e : e = SampleEntry(att.out, TRUE)
  OBVIOUS
<1>2. PICK m : m = [round |-> att.round, uid |-> att.out.uid, version |-> att.out.version]
  OBVIOUS
<1>e. e \in Entries /\ e \notin manifest.samples /\ att.round \in Nat /\ att.out.uid \in Nat
  BY <1>1, EntryIsNew
<1>f. e.ok = TRUE /\ e.round = att.round /\ e.uid = att.out.uid
  BY <1>1 DEF SampleEntry
<1>m. m \in Samples /\ m.round = att.round /\ m.uid = att.out.uid /\ m.version = att.resolved
  BY <1>2, <1>e DEF Samples, OutOK, SampleTypeOK, Attempt, AtWork
<1>n. PICK k : k = att.ok + 1
  OBVIOUS
<1>3. /\ att' \in Attempt /\ att'.out = Gone /\ att'.resolved = att.resolved
      /\ att'.round = att.round /\ att'.pc = "fan"
  <2>1. att' = [att EXCEPT !.out = Gone, !.ok = k, !.failure = f] /\ k \in Nat
    BY <1>0, <1>n
  <2> QED
    BY <1>0, <2>1, RestTypes DEF Attempt
<1>4. /\ manifest'.samples = manifest.samples \cup {e} /\ manifest'.ok = manifest.ok + 1
      /\ manifest'.failed = manifest.failed
  BY <1>0, <1>1 DEF Manifest
<1>5. manifest' \in Manifest
  <2>1. PICK S, j : S = manifest.samples \cup {e} /\ j = manifest.ok + 1
    OBVIOUS
  <2>2. manifest' = [manifest EXCEPT !.samples = S, !.ok = j]
    BY <1>1, <2>1
  <2>3. S \subseteq Entries /\ j \in Nat
    BY <1>0, <1>e, <2>1 DEF Manifest
  <2> QED
    BY <1>0, <2>2, <2>3 DEF Manifest
<1>6. merged' = merged \cup {m}
  BY <1>2
<1>7. SampleTypeOK'
  BY <1>3, <1>5, <1>6, <1>m DEF SampleTypeOK
<1>8. (ClusterOK /\ FeedOK /\ SamplerOK /\ OutOK /\ PlacesOK /\ PhaseOK)'
  BY <1>0, <1>3, OutLeaves
<1>9. (RecordedOK /\ RoundsOK)'
  BY <1>1, <1>3, <1>4, EntryMoves
<1>10. MergedOK'
  <2>1. {[round |-> x.round, uid |-> x.uid] : x \in merged'}
          = {[round |-> x.round, uid |-> x.uid] : x \in merged}
              \cup {[round |-> m.round, uid |-> m.uid]}
    BY <1>6
  <2>2. {x \in manifest'.samples : x.ok} = {x \in manifest.samples : x.ok} \cup {e}
    BY <1>4, <1>f
  <2>3. {[round |-> x.round, uid |-> x.uid] : x \in {y \in manifest.samples : y.ok} \cup {e}}
          = {[round |-> x.round, uid |-> x.uid] : x \in {y \in manifest.samples : y.ok}}
              \cup {[round |-> e.round, uid |-> e.uid]}
    OBVIOUS
  <2>4. \A x \in merged' : x.version = att'.resolved
    BY <1>3, <1>6, <1>m DEF MergedOK
  <2>5. [round |-> m.round, uid |-> m.uid] = [round |-> e.round, uid |-> e.uid]
    BY <1>f, <1>m
  <2>6. {[round |-> x.round, uid |-> x.uid] : x \in merged'}
          = {[round |-> x.round, uid |-> x.uid] : x \in {y \in manifest'.samples : y.ok}}
    BY <2>1, <2>2, <2>3, <2>5, Zenon DEF MergedOK
  <2> QED
    BY <2>4, <2>6 DEF MergedOK
<1>11. CountOK'
  <2>1. /\ {x \in manifest'.samples : x.ok} = {x \in manifest.samples : x.ok} \cup {e}
        /\ {x \in manifest'.samples : ~x.ok} = {x \in manifest.samples : ~x.ok}
    BY <1>4, <1>f
  <2>2. /\ IsFiniteSet(manifest.samples \cup {e})
        /\ Cardinality({x \in manifest.samples : x.ok} \cup {e})
             = Cardinality({x \in manifest.samples : x.ok}) + 1
    <3>1. PICK S : S = manifest.samples
      OBVIOUS
    <3>2. PICK F : F = {x \in S : x.ok}
      OBVIOUS
    <3>3. IsFiniteSet(F) /\ IsFiniteSet(S) /\ e \notin F
      BY <3>1, <3>2, <1>e, FS_Subset DEF CountOK
    <3>4. IsFiniteSet(S \cup {e}) /\ Cardinality(F \cup {e}) = Cardinality(F) + 1
      BY <3>3, FS_AddElement
    <3> QED
      BY <3>1, <3>2, <3>4
  <2> QED
    BY <1>4, <2>1, <2>2 DEF CountOK
<1>12. CoverOK'
  <2>1. \A r : Sampled(r) => Sampled(r)'
    BY <1>6 DEF Sampled
  <2>2. Sampled(att.round)'
    BY <1>6, <1>m DEF Sampled
  <2> QED
    BY <1>0, <1>3, <2>1, <2>2 DEF CoverOK
<1> QED
  BY <1>7, <1>8, <1>9, <1>10, <1>11, <1>12

\* One that did not.
LEMMA RejectedInv ==
    ASSUME SampleInv, att.out # Gone,
           manifest' = [manifest EXCEPT !.samples = @ \cup {SampleEntry(att.out, FALSE)}, !.failed = @ + 1],
           att' = [att EXCEPT !.out = Gone],
           UNCHANGED <<api, lists, feed, sampler, cut, merged>>
    PROVE  SampleInv'
<1> USE DEF SampleInv
<1>0. att \in Attempt /\ manifest \in Manifest /\ att.pc = "fan" /\ manifest.failed \in Nat
  BY DEF SampleTypeOK, PhaseOK, Attempt, Manifest
<1>1. PICK e : e = SampleEntry(att.out, FALSE)
  OBVIOUS
<1>e. e \in Entries /\ e \notin manifest.samples
  BY <1>1, EntryIsNew
<1>f. e.ok = FALSE
  BY <1>1 DEF SampleEntry
<1>3. /\ att' \in Attempt /\ att'.out = Gone /\ att'.resolved = att.resolved
      /\ att'.round = att.round /\ att'.pc = "fan" /\ att'.ok = att.ok
  BY <1>0, RestTypes DEF Attempt
<1>4. /\ manifest'.samples = manifest.samples \cup {e} /\ manifest'.ok = manifest.ok
      /\ manifest'.failed = manifest.failed + 1
  BY <1>0, <1>1 DEF Manifest
<1>5. manifest' \in Manifest
  <2>1. PICK S, j : S = manifest.samples \cup {e} /\ j = manifest.failed + 1
    OBVIOUS
  <2>2. manifest' = [manifest EXCEPT !.samples = S, !.failed = j]
    BY <1>1, <2>1
  <2>3. S \subseteq Entries /\ j \in Nat
    BY <1>0, <1>e, <2>1 DEF Manifest
  <2> QED
    BY <1>0, <2>2, <2>3 DEF Manifest
<1>7. SampleTypeOK'
  BY <1>3, <1>5 DEF SampleTypeOK
<1>8. (ClusterOK /\ FeedOK /\ SamplerOK /\ OutOK /\ PlacesOK /\ PhaseOK)'
  BY <1>0, <1>3, OutLeaves
<1>9. (RecordedOK /\ RoundsOK)'
  BY <1>1, <1>3, <1>4, EntryMoves
<1>t. /\ {x \in manifest'.samples : ~x.ok} = {x \in manifest.samples : ~x.ok} \cup {e}
      /\ {x \in manifest'.samples : x.ok} = {x \in manifest.samples : x.ok}
  BY <1>4, <1>f
<1>10. MergedOK'
  BY <1>3, <1>t DEF MergedOK
<1>11. CountOK'
  <2>2. /\ IsFiniteSet(manifest.samples \cup {e})
        /\ Cardinality({x \in manifest.samples : ~x.ok} \cup {e})
             = Cardinality({x \in manifest.samples : ~x.ok}) + 1
    <3>1. PICK S : S = manifest.samples
      OBVIOUS
    <3>2. PICK F : F = {x \in S : ~x.ok}
      OBVIOUS
    <3>3. IsFiniteSet(F) /\ IsFiniteSet(S) /\ e \notin F
      BY <3>1, <3>2, <1>e, FS_Subset DEF CountOK
    <3>4. IsFiniteSet(S \cup {e}) /\ Cardinality(F \cup {e}) = Cardinality(F) + 1
      BY <3>3, FS_AddElement
    <3> QED
      BY <3>1, <3>2, <3>4
  <2> QED
    BY <1>4, <1>t, <2>2 DEF CountOK
<1>12. CoverOK'
  BY <1>0, <1>3 DEF CoverOK, Sampled
<1> QED
  BY <1>7, <1>8, <1>9, <1>10, <1>11, <1>12

\* Absorb takes one or the other.
LEMMA AbsorbInv == SampleInv /\ Absorb => SampleInv'
<1> SUFFICES ASSUME SampleInv, Absorb PROVE SampleInv'
  OBVIOUS
<1>1. CASE /\ att.out.version # 0
           /\ merged' = merged \cup {[round |-> att.round, uid |-> att.out.uid,
                                      version |-> att.out.version]}
           /\ manifest' = [manifest EXCEPT !.samples = @ \cup {SampleEntry(att.out, TRUE)}, !.ok = @ + 1]
           /\ \E f \in RoundFailures :
                 att' = [att EXCEPT !.out = Gone, !.ok = @ + 1, !.failure = f]
  BY <1>1, AbsorbedInv DEF Absorb
<1>2. CASE /\ manifest' = [manifest EXCEPT !.samples = @ \cup {SampleEntry(att.out, FALSE)},
                                           !.failed = @ + 1]
           /\ att' = [att EXCEPT !.out = Gone]
           /\ UNCHANGED merged
  BY <1>2, RejectedInv DEF Absorb
<1> QED
  BY <1>1, <1>2 DEF Absorb, RoundFailures

\* Every step of an attempt keeps the invariant.
LEMMA SampleStepInv == SampleInv /\ [SampleNext]_sampleVars => SampleInv'
<1> SUFFICES ASSUME SampleInv, [SampleNext]_sampleVars PROVE SampleInv'
  OBVIOUS
<1>1. CASE UNCHANGED sampleVars
  <2> USE <1>1 DEF SampleInv, sampleVars
  <2>1. (SampleTypeOK /\ ClusterOK)'
    BY DEF SampleTypeOK, ClusterOK, Old
  <2>2. (FeedOK /\ SamplerOK /\ OutOK /\ PlacesOK /\ RecordedOK)'
    BY DEF FeedOK, SamplerOK, OutOK, PlacesOK, RecordedOK, Old, Pinned, Busy
  <2>3. (RoundsOK /\ PhaseOK /\ MergedOK /\ CountOK /\ CoverOK)'
    BY DEF RoundsOK, PhaseOK, MergedOK, CountOK, CoverOK, Sampled
  <2> QED
    BY <2>1, <2>2, <2>3
<1>2. CASE \E p \in Pods : Replaced(p) \/ CacheSees(p)
  BY <1>2, ReplacedInv, CacheSeesInv
<1>3. CASE \E v \in 1 .. 2 : Fan(v)
  BY <1>3, FanInv
<1>4. CASE \E s \in Samplers : \/ \E t \in feed : TakesTarget(s, t)
                              \/ SamplerLeaves(s) \/ Confirm(s) \/ Fetch(s) \/ Receives(s)
  BY <1>4, TakesTargetInv, SamplerLeavesInv, ConfirmInv, FetchInv, ReceivesInv
<1>5. CASE CutShort \/ NoFan \/ RoundEnds \/ Sleeps
  BY <1>5, CutShortInv, NoFanInv, RoundEndsInv, SleepsInv
<1>6. CASE FinishRounds \/ FeederQuits \/ Absorb \/ Drains
  BY <1>6, FinishRoundsInv, FeederQuitsInv, AbsorbInv, DrainsInv
<1> QED
  BY <1>1, <1>2, <1>3, <1>4, <1>5, <1>6 DEF SampleNext

\* The invariant of a round's targets holds of every attempt.
THEOREM SampleInvHolds == SampleSpec => []SampleInv
  BY SampleInitInv, SampleStepInv, PTL DEF SampleSpec

\* The running profile is what the manifest says it is, whatever the number of
\* Pods, rounds and samplers and however the Pods are replaced meanwhile.
THEOREM ArtifactIsItsManifestHolds == SampleSpec => []ArtifactIsItsManifest
<1>1. SampleInv => ArtifactIsItsManifest
  BY DEF SampleInv, MergedOK, CountOK, CoverOK, Sampled, ArtifactIsItsManifest
<1> QED
  BY <1>1, SampleInvHolds, PTL

\* No sampler outlives its round, whatever the number of Pods, rounds and samplers.
THEOREM RoundIsBoundedHolds == SampleSpec => []RoundIsBounded
<1>1. SampleInv => RoundIsBounded
  BY DEF SampleInv, PhaseOK, RoundIsBounded
<1> QED
  BY <1>1, SampleInvHolds, PTL

-----------------------------------------------------------------------------
(* Eligibility: counting, what the walk gathers about a Pod, the inductive  *)
(* invariant, one lemma per action, and the answer.                        *)

\* N counts the members of S by their classes in D.
CountsBy(S, D, F, N) ==
    /\ IsFiniteSet(S) /\ F \in [S -> D]
    /\ \A r \in D : N[r] = Cardinality({x \in S : F[x] = r})

\* Counting by class: the counts of the classes of a finite set add up to it.
LEMMA CountsAddUp ==
  ASSUME NEW S, NEW D, NEW F, NEW N, CountsBy(S, D, F, N)
  PROVE  Cardinality(UNION {{r} \X (1 .. N[r]) : r \in D}) = Cardinality(S)
  <1> DEFINE Class(r) == {x \in S : F[x] = r}
  <1> DEFINE Pairs == UNION {{r} \X (1 .. N[r]) : r \in D}
  <1> USE DEF CountsBy
  <1>1. ASSUME NEW r \in D
        PROVE  N[r] \in Nat /\ Bijection(1 .. N[r], Class(r)) # {}
    <2>1. Class(r) \in SUBSET S
      OBVIOUS
    <2>2. IsFiniteSet(Class(r))
      BY <2>1, FS_Subset
    <2>3. N[r] = Cardinality(Class(r))
      OBVIOUS
    <2> HIDE DEF Class
    <2> QED
      BY <2>2, <2>3, FS_CardinalityType DEF ExistsBijection
  <1> DEFINE B == [r \in D |-> CHOOSE b \in Bijection(1 .. N[r], Class(r)) : TRUE]
  <1>2. ASSUME NEW r \in D
        PROVE  /\ B[r] \in [1 .. N[r] -> Class(r)]
               /\ \A i, j \in 1 .. N[r] : B[r][i] = B[r][j] => i = j
               /\ \A x \in Class(r) : \E i \in 1 .. N[r] : B[r][i] = x
    <2>1. B[r] \in Bijection(1 .. N[r], Class(r))
      BY <1>1
    <2> HIDE DEF B, Class
    <2> QED
      BY <2>1 DEF Bijection, Injection, Surjection, IsInjective
  <1> HIDE DEF B
  <1> DEFINE h == [c \in Pairs |-> B[c[1]][c[2]]]
  <1>3. \A c \in Pairs : c[1] \in D /\ c[2] \in 1 .. N[c[1]] /\ c = <<c[1], c[2]>>
    <2> SUFFICES ASSUME NEW c \in Pairs
                 PROVE  c[1] \in D /\ c[2] \in 1 .. N[c[1]] /\ c = <<c[1], c[2]>>
      OBVIOUS
    <2>1. PICK r \in D : c \in {r} \X (1 .. N[r])
      OBVIOUS
    <2>2. PICK i \in 1 .. N[r] : c = <<r, i>>
      BY <2>1
    <2>3. c[1] = r /\ c[2] = i
      BY <2>2
    <2> QED
      BY <2>2, <2>3, Zenon
  <1>4. \A r \in D : \A i \in 1 .. N[r] : <<r, i>> \in Pairs
    OBVIOUS
  <1> HIDE DEF Pairs
  <1>5. \A c \in Pairs : h[c] = B[c[1]][c[2]] /\ h[c] \in S /\ F[h[c]] = c[1]
    <2> SUFFICES ASSUME NEW c \in Pairs
                 PROVE  h[c] = B[c[1]][c[2]] /\ h[c] \in S /\ F[h[c]] = c[1]
      OBVIOUS
    <2>1. h[c] = B[c[1]][c[2]]
      OBVIOUS
    <2>2. B[c[1]] \in [1 .. N[c[1]] -> Class(c[1])] /\ c[2] \in 1 .. N[c[1]]
      BY <1>2, <1>3
    <2>3. B[c[1]][c[2]] \in Class(c[1])
      BY <2>2
    <2> QED
      BY <2>1, <2>3
  <1>6. h \in [Pairs -> S]
    BY <1>5
  <1>7. ASSUME NEW c \in Pairs, NEW d \in Pairs, h[c] = h[d]
        PROVE  c = d
    <2>1. c[1] = d[1]
      BY <1>5, <1>7
    <2>2. c[2] = d[2]
      BY <1>2, <1>3, <1>5, <1>7, <2>1
    <2> QED
      BY <1>3, <2>1, <2>2
  <1>8. ASSUME NEW x \in S
        PROVE  \E c \in Pairs : h[c] = x
    <2>1. F[x] \in D /\ x \in Class(F[x])
      OBVIOUS
    <2>2. PICK i \in 1 .. N[F[x]] : B[F[x]][i] = x
      BY <1>2, <2>1
    <2>3. <<F[x], i>> \in Pairs
      BY <1>4, <2>1
    <2> QED
      BY <1>5, <2>2, <2>3
  <1> HIDE DEF h
  <1>9. h \in Injection(Pairs, S)
    BY <1>6, <1>7 DEF Injection, IsInjective
  <1>10. h \in Surjection(Pairs, S)
    BY <1>6, <1>8 DEF Surjection
  <1>11. Cardinality(Pairs) = Cardinality(S)
    BY <1>9, <1>10, FS_Injection
  <1> QED
    BY <1>11 DEF Pairs

Images(S, F, T) == IsFiniteSet(S) /\ (\A x, y \in S : F[x] = F[y] => x = y) /\ T = {F[x] : x \in S}

\* Distinct things have as many distinct images.
LEMMA AsManyImages ==
  ASSUME NEW S, NEW F, NEW T, Images(S, F, T)
  PROVE  Cardinality(T) = Cardinality(S)
  <1> USE DEF Images
  <1> DEFINE g == [x \in S |-> F[x]]
  <1>1. g \in Injection(S, T) /\ g \in Surjection(S, T)
    BY DEF Injection, Surjection, IsInjective
  <1> QED
    BY <1>1, FS_Surjection

-----------------------------------------------------------------------------
\* What is gathered about a Pod o, called p, from the set S of its endpoints.
IsFacts(f) ==
    /\ f = [seen |-> f.seen, notReady |-> f.notReady, mismatch |-> f.mismatch, addr |-> f.addr,
            conflict |-> f.conflict, target |-> f.target]
    /\ f.seen \in BOOLEAN /\ f.notReady \in BOOLEAN /\ f.mismatch \in BOOLEAN /\ f.conflict \in BOOLEAN

Vouching(o, S) == {e \in S : e.ready /\ e.addr \in o.ips}

Made(o, p, addr) == [name |-> p, uid |-> o.uid, addr |-> addr, version |-> o.version]

Sums(o, p, S, named, f) ==
    /\ IsFacts(f)
    /\ f.seen <=> S # {}
    /\ f.notReady <=> \E e \in S : ~e.ready
    /\ Healthy(o) =>
         /\ f.mismatch <=> \E e \in S : e.ready /\ e.addr \notin o.ips
         /\ Vouching(o, S) = {} => f.addr = NoAddr
         /\ Vouching(o, S) # {} => \E e \in Vouching(o, S) : e.addr = f.addr
         /\ f.conflict <=> \E d, e \in Vouching(o, S) : d.addr # e.addr
         /\ f.target = IF Vouching(o, S) # {} /\ (named => o.named) THEN Made(o, p, f.addr) ELSE NoTarget
    /\ ~Healthy(o) => f.addr = NoAddr /\ ~f.conflict /\ f.target = NoTarget

\* One more endpoint.
LEMMA NotedSums ==
  ASSUME NEW o, NEW p, NEW S, NEW f, Sums(o, p, S, look.named, f), NEW e, e.name = p,
         NoAddr \notin o.ips, o.uid # 0
  PROVE  Sums(o, p, S \cup {e}, look.named, Noted(f, e, o))
  <1> DEFINE V == Vouching(o, S)
  <1> DEFINE W == Vouching(o, S \cup {e})
  <1> DEFINE g == Noted(f, e, o)
  <1>0. IsFacts(f)
    BY DEF PprofPort, Sums
  <1>1. CASE ~e.ready
    <2>1. g = [f EXCEPT !.seen = TRUE, !.notReady = TRUE]
      BY <1>1 DEF Noted
    <2>2. /\ g.seen = TRUE /\ g.notReady = TRUE /\ g.mismatch = f.mismatch /\ g.addr = f.addr
          /\ g.conflict = f.conflict /\ g.target = f.target /\ IsFacts(g)
      BY <1>0, <2>1 DEF IsFacts
    <2>3. W = V
      BY <1>1 DEF Vouching
    <2>4. \E d \in S \cup {e} : ~d.ready
      BY <1>1
    <2>5. (\E d \in S \cup {e} : d.ready /\ d.addr \notin o.ips)
            <=> (\E d \in S : d.ready /\ d.addr \notin o.ips)
      BY <1>1
    <2> HIDE DEF g, V, W
    <2>6. Healthy(o) =>
            /\ g.mismatch <=> \E d \in S \cup {e} : d.ready /\ d.addr \notin o.ips
            /\ W = {} => g.addr = NoAddr
            /\ W # {} => \E d \in W : d.addr = g.addr
            /\ g.conflict <=> \E c, d \in W : c.addr # d.addr
            /\ g.target = IF W # {} /\ PprofPort(o) THEN Made(o, p, g.addr) ELSE NoTarget
      BY <2>2, <2>3, <2>5 DEF PprofPort, Sums, V
    <2>7. ~Healthy(o) => g.addr = NoAddr /\ ~g.conflict /\ g.target = NoTarget
      BY <2>2 DEF PprofPort, Sums
    <2> QED
      BY <2>2, <2>4, <2>6, <2>7 DEF PprofPort, Sums, W, g
  <1>2. CASE e.ready /\ ~Healthy(o)
    <2>1. g = [f EXCEPT !.seen = TRUE]
      BY <1>2 DEF Noted
    <2>2. /\ g.seen = TRUE /\ g.notReady = f.notReady /\ g.mismatch = f.mismatch /\ g.addr = f.addr
          /\ g.conflict = f.conflict /\ g.target = f.target /\ IsFacts(g)
      BY <1>0, <2>1 DEF IsFacts
    <2>3. g.notReady <=> \E d \in S \cup {e} : ~d.ready
      BY <1>2, <2>2 DEF PprofPort, Sums
    <2>4. g.addr = NoAddr /\ ~g.conflict /\ g.target = NoTarget
      BY <1>2, <2>2 DEF PprofPort, Sums
    <2> HIDE DEF g
    <2> QED
      BY <1>2, <2>2, <2>3, <2>4 DEF PprofPort, Sums, g
  <1>3. CASE e.ready /\ Healthy(o) /\ e.addr \notin o.ips
    <2>1. g = [f EXCEPT !.seen = TRUE, !.mismatch = TRUE]
      BY <1>3 DEF Noted
    <2>2. /\ g.seen = TRUE /\ g.notReady = f.notReady /\ g.mismatch = TRUE /\ g.addr = f.addr
          /\ g.conflict = f.conflict /\ g.target = f.target /\ IsFacts(g)
      BY <1>0, <2>1 DEF IsFacts
    <2>3. W = V
      BY <1>3 DEF Vouching
    <2>4. g.notReady <=> \E d \in S \cup {e} : ~d.ready
      BY <1>3, <2>2 DEF PprofPort, Sums
    <2>5. \E d \in S \cup {e} : d.ready /\ d.addr \notin o.ips
      BY <1>3
    <2> HIDE DEF g, V, W
    <2>6. /\ W = {} => g.addr = NoAddr
          /\ W # {} => \E d \in W : d.addr = g.addr
          /\ g.conflict <=> \E c, d \in W : c.addr # d.addr
          /\ g.target = IF W # {} /\ PprofPort(o) THEN Made(o, p, g.addr) ELSE NoTarget
      BY <1>3, <2>2, <2>3 DEF PprofPort, Sums, V
    <2> QED
      BY <1>3, <2>2, <2>4, <2>5, <2>6 DEF PprofPort, Sums, W, g
  <1>4. CASE e.ready /\ Healthy(o) /\ e.addr \in o.ips
    <2>1. W = V \cup {e}
      BY <1>4 DEF Vouching
    <2>2. \A d \in V : d.addr # NoAddr
      BY DEF Vouching
    <2>3. e.addr # NoAddr
      BY <1>4
    <2>4. /\ V = {} <=> f.addr = NoAddr
          /\ V # {} => \E d \in V : d.addr = f.addr
          /\ f.conflict <=> \E c, d \in V : c.addr # d.addr
          /\ f.target = IF V # {} /\ PprofPort(o) THEN Made(o, p, f.addr) ELSE NoTarget
          /\ f.notReady <=> \E d \in S : ~d.ready
          /\ f.mismatch <=> \E d \in S : d.ready /\ d.addr \notin o.ips
      BY <1>4, <2>2 DEF PprofPort, Sums
    <2>5. g = [f EXCEPT
                 !.seen = TRUE,
                 !.addr = IF f.addr = NoAddr THEN e.addr ELSE f.addr,
                 !.conflict = f.conflict \/ f.addr \notin {NoAddr, e.addr},
                 !.target = IF f.target = NoTarget /\ PprofPort(o)
                            THEN Made(o, p, e.addr) ELSE f.target]
      BY <1>0, <1>4 DEF PprofPort, Noted, Made, IsFacts
    <2>6. /\ g.seen = TRUE /\ g.notReady = f.notReady /\ g.mismatch = f.mismatch
          /\ g.addr = IF f.addr = NoAddr THEN e.addr ELSE f.addr
          /\ g.conflict = (f.conflict \/ f.addr \notin {NoAddr, e.addr})
          /\ g.target = IF f.target = NoTarget /\ PprofPort(o) THEN Made(o, p, e.addr) ELSE f.target
          /\ IsFacts(g)
      BY <1>0, <2>5 DEF IsFacts
    <2> HIDE DEF g, V, W
    <2>7. W # {} /\ \E d \in W : d.addr = g.addr
      BY <2>1, <2>4, <2>6
    <2>8. g.conflict <=> \E c, d \in W : c.addr # d.addr
      <3>1. CASE V = {}
        BY <2>1, <2>4, <2>6, <3>1
      <3>2. CASE V # {}
        <4>1. PICK d \in V : d.addr = f.addr
          BY <2>4, <3>2
        <4>2. f.addr # NoAddr
          BY <2>4, <3>2
        <4>3. g.conflict <=> f.conflict \/ f.addr # e.addr
          BY <2>6, <4>2
        <4> QED
          BY <2>1, <2>4, <4>1, <4>3
      <3> QED
        BY <3>1, <3>2
    <2>9. g.target = IF PprofPort(o) THEN Made(o, p, g.addr) ELSE NoTarget
      <3>1. \A a : Made(o, p, a) # NoTarget
        BY DEF Made, NoTarget
      <3> QED
        BY <2>4, <2>6, <3>1
    <2>10. /\ g.notReady <=> \E d \in S \cup {e} : ~d.ready
           /\ g.mismatch <=> \E d \in S \cup {e} : d.ready /\ d.addr \notin o.ips
      BY <1>4, <2>4, <2>6
    <2> QED
      BY <1>4, <2>6, <2>7, <2>8, <2>9, <2>10 DEF PprofPort, Sums, W, g
  <1> QED
    BY <1>1, <1>2, <1>3, <1>4


-----------------------------------------------------------------------------
\* The request's record, by its fields.
IsLook(l) ==
    l = [explain |-> l.explain, named |-> l.named, version |-> l.version, pod |-> l.pod,
         pc |-> l.pc, selector |-> l.selector, read |-> l.read, todo |-> l.todo, held |-> l.held,
         moved |-> l.moved, facts |-> l.facts, targets |-> l.targets, excluded |-> l.excluded]

\* What a Pod cache holds: no two Pods share a uid.
PodsOK(ps) ==
    /\ ps \in [PodNames -> PodObjects \cup {NoPod}]
    /\ \A p, q \in PodNames : p # q /\ ps[p] # NoPod => ps[p].uid # ps[q].uid

\* The endpoints of p the walk has passed.
Met(p) == {e \in {EndpointAt(at) : at \in EndpointsRead(look.read) \ look.todo} :
             Trusted(e, look.held[p]) /\ e.name = p}

\* The facts tell of every selected Pod what was met, and of nothing else.
Told ==
    /\ look.facts = [u \in PodUids |-> look.facts[u]]
    /\ \A p \in Selected : Sums(look.held[p], p, Met(p), look.named, look.facts[look.held[p].uid])
    /\ \A u \in PodUids : look.facts[u] = NoFacts \/ \E p \in Selected : look.held[p].uid = u

Shape ==
    /\ IsLook(look) /\ endpoints \in SliceLists /\ PodsOK(pods)
    /\ look.pc \in {"idle", "refused", "slices", "list", "walk", "answered"}

Fresh == look.pc \in {"idle", "slices", "list"} => look.facts = [u \in PodUids |-> NoFacts]

Listed == look.pc = "list" => /\ look.explain /\ look.read \in SliceLists
                              /\ look.todo = EndpointsRead(look.read)

Walked ==
    look.pc = "walk" =>
        /\ PodsOK(look.held) /\ look.read \in SliceLists
        /\ look.todo \subseteq EndpointsRead(look.read)
        /\ ~look.explain /\ ~look.moved => look.held = pods
        /\ look.explain \/ ~look.moved => Told

ElInv == Shape /\ Fresh /\ Listed /\ Walked /\ AnswerFollowsTheRules


\* What is asked, and what was read for it.
SameWalk ==
    /\ look'.explain = look.explain /\ look'.named = look.named
    /\ look'.version = look.version /\ look'.pod = look.pod
    /\ look'.selector = look.selector /\ look'.read = look.read /\ look'.held = look.held

LEMMA RulesStay ==
  ASSUME SameWalk
  PROVE  /\ Selected' = Selected
         /\ \A at : EndpointAt(at)' = EndpointAt(at)
         /\ \A e, o : Trusted(e, o)' <=> Trusted(e, o)
         /\ \A o : PprofPort(o)' <=> PprofPort(o)
         /\ \A t : (OfVersion(t)' <=> OfVersion(t)) /\ (OfName(t)' <=> OfName(t))
  BY DEF SameWalk, Selected, EndpointAt, Trusted, PprofPort, OfVersion, OfName

LEMMA OwnStays ==
  ASSUME SameWalk, NEW p
  PROVE  /\ Own(p)' = Own(p) /\ Vouched(p)' = Vouched(p)
         /\ Disputed(p)' <=> Disputed(p)
         /\ Eligible(p)' <=> Eligible(p)
         /\ \A n : Holds(p, n)' <=> Holds(p, n)
  <1>1. Own(p)' = Own(p)
    BY DEF SameWalk, Own, Read, Trusted, EndpointAt
  <1>2. Vouched(p)' = Vouched(p)
    BY <1>1 DEF SameWalk, Vouched
  <1>3. Disputed(p)' <=> Disputed(p)
    BY <1>2 DEF Disputed
  <1>4. PprofPort(look.held[p])' <=> PprofPort(look.held[p])
    BY DEF SameWalk, PprofPort
  <1>5. Eligible(p)' <=> Eligible(p)
    BY <1>2, <1>4 DEF SameWalk, Eligible
  <1>6. \A n : Holds(p, n)' <=> Holds(p, n)
    BY <1>1, <1>3, <1>4, <1>5 DEF SameWalk, Holds
  <1> QED
    BY <1>1, <1>2, <1>3, <1>5, <1>6

\* Where an endpoint that was read points.
LEMMA NamesAPod ==
  ASSUME look.read \in SliceLists, NEW at \in EndpointsRead(look.read)
  PROVE  EndpointAt(at).name \in PodNames
  <1>1. PICK i \in DOMAIN look.read : at \in {i} \X DOMAIN look.read[i].eps
    BY DEF EndpointsRead
  <1>2. PICK j \in DOMAIN look.read[i].eps : at = <<i, j>>
    BY <1>1
  <1>3. EndpointAt(at) = look.read[i].eps[j]
    BY <1>2 DEF EndpointAt
  <1> QED
    BY <1>3, EligibilityAssumption

\* The Pods that are counted.
LEMMA SelectedPods ==
  ASSUME PodsOK(look.held), NEW p \in Selected
  PROVE  /\ p \in PodNames /\ look.held[p] \in PodObjects
         /\ look.held[p].uid \in PodUids /\ look.held[p].uid # 0 /\ NoAddr \notin look.held[p].ips
         /\ \A q \in Selected : look.held[q].uid = look.held[p].uid => q = p
  <1>1. p \in PodNames /\ look.held[p] \in PodObjects
    BY DEF Selected, PodsOK
  <1>2. look.held[p].uid \in PodUids /\ look.held[p].uid # 0 /\ NoAddr \notin look.held[p].ips
    BY <1>1, EligibilityAssumption DEF PodUids
  <1>3. \A q \in Selected : look.held[q].uid = look.held[p].uid => q = p
    BY <1>1 DEF Selected, PodsOK
  <1> QED
    BY <1>1, <1>2, <1>3

\* A request that has met nothing knows nothing.
LEMMA NothingToTell ==
  ASSUME look'.todo = EndpointsRead(look'.read), look'.facts = [u \in PodUids |-> NoFacts],
         PodsOK(look'.held)
  PROVE  Told'
  <1>1. /\ look'.facts = [u \in PodUids |-> look'.facts[u]]
        /\ \A u \in PodUids : look'.facts[u] = NoFacts
    OBVIOUS
  <1>2. \A p : Met(p)' = {}
    BY DEF Met
  <1>3. \A o, p : Sums(o, p, {}, look'.named, NoFacts)
    BY DEF Sums, IsFacts, NoFacts, Vouching
  <1>4. \A p \in Selected' : look'.held[p].uid \in PodUids
    BY DEF Selected, PodsOK, PodUids
  <1>5. \A p \in Selected' : look'.facts[look'.held[p].uid] = NoFacts
    BY <1>1, <1>4
  <1> QED
    BY <1>1, <1>2, <1>3, <1>5 DEF Told

LEMMA ElInit ==
  ASSUME EligInit
  PROVE  ElInv
  <1>1. PICK ask \in Asks : look = NewLook(ask)
    BY DEF EligInit
  <1>2. look.pc = "idle" /\ look.facts = [u \in PodUids |-> NoFacts] /\ IsLook(look)
    BY <1>1 DEF NewLook, IsLook
  <1>3. Shape
    BY <1>2 DEF EligInit, Shape, PodsOK
  <1> QED
    BY <1>2, <1>3 DEF ElInv, Fresh, Listed, Walked, AnswerFollowsTheRules

\* The cache moves; a request that captured its Pods does not notice.
LEMMA ElMoves ==
  ASSUME ElInv, InformerMoves
  PROVE  ElInv'
  <1>1. /\ look' = [look EXCEPT !.moved = TRUE] /\ look.pc \in {"list", "walk"}
        /\ endpoints' = endpoints
    BY DEF InformerMoves
  <1>2. /\ SameWalk /\ look'.pc = look.pc /\ look'.todo = look.todo /\ look'.moved = TRUE
        /\ look'.facts = look.facts /\ IsLook(look')
    BY <1>1 DEF SameWalk, ElInv, Shape, IsLook
  <1>3. PodsOK(pods')
    <2>1. PICK p \in PodNames, o \in PodObjects \cup {NoPod} :
            /\ \A q \in PodNames \ {p} : pods[q].uid = 0 \/ pods[q].uid # o.uid
            /\ pods' = [pods EXCEPT ![p] = o]
      BY DEF InformerMoves
    <2>2. \A x \in PodObjects \cup {NoPod} : x.uid = 0 <=> x = NoPod
      BY EligibilityAssumption DEF NoPod
    <2>3. PodsOK(pods)
      BY DEF ElInv, Shape
    <2>4. pods' \in [PodNames -> PodObjects \cup {NoPod}]
      BY <2>1, <2>3 DEF PodsOK
    <2>5. ASSUME NEW a \in PodNames, NEW b \in PodNames, a # b, pods'[a] # NoPod
          PROVE  pods'[a].uid # pods'[b].uid
      BY <2>1, <2>2, <2>3, <2>5 DEF PodsOK
    <2> QED
      BY <2>4, <2>5 DEF PodsOK
  <1>4. Shape'
    BY <1>1, <1>2, <1>3 DEF ElInv, Shape
  <1>5. Fresh' /\ Listed'
    BY <1>2 DEF ElInv, Fresh, Listed, SameWalk
  <1>6. \A p : Met(p)' = Met(p)
    BY <1>2 DEF SameWalk, Met, EndpointAt, Trusted
  <1>7. Told => Told'
    BY <1>2, <1>6, RulesStay DEF Told, SameWalk
  <1>8. Walked'
    BY <1>2, <1>7 DEF ElInv, Walked, SameWalk
  <1>9. AnswerFollowsTheRules'
    BY <1>1, <1>2 DEF AnswerFollowsTheRules
  <1> QED
    BY <1>4, <1>5, <1>8, <1>9 DEF ElInv

LEMMA ElReadService ==
  ASSUME ElInv, ReadService
  PROVE  ElInv'
  <1>1. /\ look.pc = "idle" /\ pods' = pods /\ endpoints' = endpoints
        /\ \/ look' = [look EXCEPT !.pc = "refused"]
           \/ look' = [look EXCEPT !.pc = "slices", !.selector = services]
    BY DEF ReadService
  <1>2. /\ look'.pc \in {"refused", "slices"} /\ look'.facts = look.facts /\ IsLook(look')
    BY <1>1 DEF ElInv, Shape, IsLook
  <1>3. Shape'
    BY <1>1, <1>2 DEF ElInv, Shape
  <1> QED
    BY <1>1, <1>2, <1>3 DEF ElInv, Fresh, Listed, Walked, AnswerFollowsTheRules

LEMMA ElReadSlices ==
  ASSUME ElInv, ReadSlices
  PROVE  ElInv'
  <1>1. /\ look.pc = "slices" /\ pods' = pods /\ endpoints' = endpoints
        /\ look' = [look EXCEPT !.pc = IF look.explain THEN "list" ELSE "walk",
                                !.read = endpoints, !.todo = EndpointsRead(endpoints),
                                !.held = pods, !.moved = FALSE]
    BY DEF ReadSlices
  <1>2. /\ look'.pc = IF look.explain THEN "list" ELSE "walk"
        /\ look'.explain = look.explain /\ look'.read = endpoints
        /\ look'.todo = EndpointsRead(endpoints) /\ look'.held = pods /\ look'.moved = FALSE
        /\ look'.facts = look.facts /\ IsLook(look')
    BY <1>1 DEF ElInv, Shape, IsLook
  <1>3. Shape'
    BY <1>1, <1>2 DEF ElInv, Shape
  <1>4. Fresh' /\ Listed'
    BY <1>1, <1>2 DEF ElInv, Shape, Fresh, Listed
  <1>5. look'.facts = [u \in PodUids |-> NoFacts] /\ PodsOK(look'.held)
    BY <1>1, <1>2 DEF ElInv, Shape, Fresh
  <1>6. look'.todo = EndpointsRead(look'.read)
    BY <1>2
  <1>7. Told'
    BY <1>5, <1>6, NothingToTell
  <1>8. Walked'
    BY <1>1, <1>2, <1>5, <1>7 DEF ElInv, Shape, Walked
  <1> QED
    BY <1>2, <1>3, <1>4, <1>8 DEF ElInv, AnswerFollowsTheRules

LEMMA ElCapture ==
  ASSUME ElInv, CapturePods
  PROVE  ElInv'
  <1>1. /\ look.pc = "list" /\ pods' = pods /\ endpoints' = endpoints
        /\ look' = [look EXCEPT !.pc = "walk", !.held = pods]
    BY DEF CapturePods
  <1>2. /\ look'.pc = "walk" /\ look'.explain = look.explain /\ look'.read = look.read
        /\ look'.todo = look.todo /\ look'.held = pods
        /\ look'.facts = look.facts /\ IsLook(look')
    BY <1>1 DEF ElInv, Shape, IsLook
  <1>3. Shape'
    BY <1>1, <1>2 DEF ElInv, Shape
  <1>4. Fresh' /\ Listed'
    BY <1>2 DEF ElInv, Fresh, Listed
  <1>5. /\ look'.facts = [u \in PodUids |-> NoFacts] /\ PodsOK(look'.held)
        /\ look'.explain /\ look'.read \in SliceLists
    BY <1>1, <1>2 DEF ElInv, Shape, Fresh, Listed
  <1>6. look'.todo = EndpointsRead(look'.read)
    BY <1>1, <1>2 DEF ElInv, Listed
  <1>7. Told'
    BY <1>5, <1>6, NothingToTell
  <1>8. Walked'
    BY <1>5, <1>6, <1>7 DEF Walked
  <1> QED
    BY <1>2, <1>3, <1>4, <1>8 DEF ElInv, AnswerFollowsTheRules


\* One more endpoint: it adds to what is told of its own Pod, when it is trusted.
LEMMA ElWalk ==
  ASSUME ElInv, Walk
  PROVE  ElInv'
  <1> DEFINE pod(at) == LookupPod(EndpointAt(at).name)
  <1> DEFINE told(at) == IF Trusted(EndpointAt(at), pod(at))
                         THEN [look.facts EXCEPT ![pod(at).uid] = Noted(look.facts[pod(at).uid], EndpointAt(at), pod(at))]
                         ELSE look.facts
  <1>1. PICK at \in look.todo : look' = [look EXCEPT !.todo = @ \ {at}, !.facts = told(at)]
    BY DEF Walk
  <1>2. look.pc = "walk" /\ pods' = pods /\ endpoints' = endpoints
    BY DEF Walk
  <1> HIDE DEF told
  <1>3. /\ SameWalk /\ look'.pc = "walk" /\ look'.todo = look.todo \ {at}
        /\ look'.moved = look.moved /\ look'.facts = told(at) /\ IsLook(look')
    BY <1>1, <1>2 DEF SameWalk, ElInv, Shape, IsLook
  <1>4. /\ PodsOK(look.held) /\ look.read \in SliceLists /\ look.todo \subseteq EndpointsRead(look.read)
        /\ (~look.explain /\ ~look.moved => look.held = pods)
        /\ (look.explain \/ ~look.moved => Told)
    BY <1>2 DEF ElInv, Walked
  <1>5. ASSUME look.explain \/ ~look.moved
        PROVE  Told'
    <2>0. PICK ep : ep = EndpointAt(at)
      OBVIOUS
    <2>1. PICK n \in PodNames : n = ep.name
      BY <1>4, <2>0, NamesAPod
    <2>2. pod(at) = look.held[n]
      BY <1>4, <1>5, <2>0, <2>1 DEF LookupPod
    <2>3. EndpointsRead(look.read) \ look'.todo = (EndpointsRead(look.read) \ look.todo) \cup {at}
      BY <1>3, <1>4
    <2>4. ASSUME NEW p
          PROVE  Met(p)' = IF Trusted(ep, look.held[p]) /\ n = p THEN Met(p) \cup {ep} ELSE Met(p)
      <3> DEFINE passed == {EndpointAt(b) : b \in EndpointsRead(look.read) \ look.todo}
      <3>1. {EndpointAt(b) : b \in (EndpointsRead(look.read) \ look.todo) \cup {at}} = passed \cup {ep}
        BY <2>0
      <3>2. {EndpointAt(b)' : b \in EndpointsRead(look'.read) \ look'.todo} = passed \cup {ep}
        BY <1>3, <2>3, <3>1, RulesStay DEF SameWalk
      <3>3. Met(p)' = {e \in passed \cup {ep} : Trusted(e, look.held[p]) /\ e.name = p}
        BY <1>3, <3>2, RulesStay DEF SameWalk, Met
      <3>4. Met(p) = {e \in passed : Trusted(e, look.held[p]) /\ e.name = p}
        BY DEF Met
      <3> HIDE DEF passed
      <3> QED
        BY <2>1, <3>3, <3>4
    <2>5. Selected' = Selected /\ look'.held = look.held /\ look'.named = look.named
      BY <1>3, RulesStay DEF SameWalk
    <2>6. /\ look.facts = [u \in PodUids |-> look.facts[u]]
          /\ \A p \in Selected : Sums(look.held[p], p, Met(p), look.named, look.facts[look.held[p].uid])
          /\ \A u \in PodUids : look.facts[u] = NoFacts \/ \E p \in Selected : look.held[p].uid = u
      BY <1>4, <1>5 DEF Told
    <2>7. CASE ~Trusted(ep, pod(at))
      <3>1. look'.facts = look.facts
        BY <1>3, <2>0, <2>7 DEF told
      <3>2. \A p : Met(p)' = Met(p)
        BY <2>2, <2>4, <2>7
      <3> QED
        BY <2>5, <2>6, <3>1, <3>2 DEF Told
    <2>8. CASE Trusted(ep, pod(at))
      <3> DEFINE o == look.held[n]
      <3> DEFINE u == o.uid
      <3>1. n \in Selected
        BY <2>2, <2>8 DEF Trusted, Selected
      <3>2. u \in PodUids /\ u # 0 /\ NoAddr \notin o.ips /\ \A q \in Selected : look.held[q].uid = u => q = n
        BY <1>4, <3>1, SelectedPods
      <3>3. look'.facts = [look.facts EXCEPT ![u] = Noted(look.facts[u], ep, o)]
        BY <1>3, <2>0, <2>2, <2>8 DEF told
      <3>4. Met(n)' = Met(n) \cup {ep}
        BY <2>2, <2>4, <2>8
      <3>5. Sums(o, n, Met(n) \cup {ep}, look.named, Noted(look.facts[u], ep, o))
        BY <2>1, <2>6, <3>1, <3>2, NotedSums
      <3> HIDE DEF o
      <3>6. look'.facts = [v \in PodUids |-> look'.facts[v]]
        BY <2>6, <3>3
      <3>7. \A v \in PodUids : look'.facts[v] = IF v = u THEN Noted(look.facts[u], ep, o) ELSE look.facts[v]
        BY <2>6, <3>3
      <3>8. ASSUME NEW p \in Selected
            PROVE  Sums(look.held[p], p, Met(p)', look.named, look'.facts[look.held[p].uid])
        <4>1. CASE p = n
          BY <3>2, <3>4, <3>5, <3>7, <4>1 DEF o
        <4>2. CASE p # n
          <5>1. Met(p)' = Met(p)
            BY <2>4, <4>2
          <5>2. look.held[p].uid \in PodUids /\ look.held[p].uid # u
            BY <1>4, <3>2, <4>2, SelectedPods
          <5> QED
            BY <2>6, <3>7, <5>1, <5>2
        <4> QED
          BY <4>1, <4>2
      <3>9. \A v \in PodUids : look'.facts[v] = NoFacts \/ \E p \in Selected : look.held[p].uid = v
        BY <2>6, <3>1, <3>7 DEF o
      <3> QED
        BY <2>5, <3>6, <3>8, <3>9 DEF Told
    <2> QED
      BY <2>7, <2>8
  <1>6. Shape'
    BY <1>2, <1>3 DEF ElInv, Shape
  <1>7. Walked'
    BY <1>2, <1>3, <1>4, <1>5 DEF Walked, SameWalk
  <1> QED
    BY <1>3, <1>6, <1>7 DEF ElInv, Fresh, Listed, AnswerFollowsTheRules


-----------------------------------------------------------------------------
\* The first reason is the one before which none holds.
LEMMA FirstBy ==
  ASSUME NEW p, NEW n \in 1 .. 9, Holds(p, n), \A m \in 1 .. 9 : m < n => ~Holds(p, m)
  PROVE  FirstReason(p) = Table[n]
  <1>1. IsFirst(p, n)
    BY DEF IsFirst
  <1>2. \A m \in 1 .. 9 : IsFirst(p, m) => m = n
    BY <1>1 DEF IsFirst
  <1>3. (CHOOSE m \in 1 .. 9 : IsFirst(p, m)) = n
    BY <1>1, <1>2
  <1> QED
    BY <1>3 DEF FirstReason

LEMMA AllMet ==
  ASSUME look.todo = {}, NEW p
  PROVE  Met(p) = Own(p)
  BY DEF Met, Own, Read

\* What is told of a Pod decides as the rules do.
LEMMA Decided ==
  ASSUME PodsOK(look.held), Told, look.todo = {}, NEW p \in Selected,
         NEW o, o = look.held[p], NEW f, f = look.facts[o.uid]
  PROVE  /\ IsTarget(f) <=> Eligible(p) /\ ~Disputed(p)
         /\ IsTarget(f) => f.target = Made(o, p, f.addr) /\ \E e \in Vouched(p) : e.addr = f.addr
         /\ ~IsTarget(f) => /\ Attribute(o, f) = FirstReason(p)
                            /\ \E n \in 1 .. 9 : Holds(p, n) /\ Attribute(o, f) = Table[n]
  <1>1. Sums(o, p, Own(p), look.named, f)
    BY AllMet DEF Told
  <1>2. Vouching(o, Own(p)) = Vouched(p)
    BY DEF Vouching, Vouched
  <1>3. o.uid # 0
    BY SelectedPods
  <1>4. \A a : Made(o, p, a) # NoTarget
    BY <1>3 DEF Made, NoTarget
  <1>5. /\ f.seen <=> Own(p) # {}
        /\ f.notReady <=> \E e \in Own(p) : ~e.ready
        /\ IsFacts(f)
    BY <1>1 DEF Sums
  <1>6. ASSUME Healthy(o)
        PROVE  /\ f.mismatch <=> \E e \in Own(p) : e.ready /\ e.addr \notin o.ips
               /\ Vouched(p) # {} => \E e \in Vouched(p) : e.addr = f.addr
               /\ f.conflict <=> Disputed(p)
               /\ f.target # NoTarget <=> Eligible(p)
               /\ f.target # NoTarget => f.target = Made(o, p, f.addr)
    <2>1. /\ f.mismatch <=> \E e \in Own(p) : e.ready /\ e.addr \notin o.ips
          /\ Vouched(p) # {} => \E e \in Vouched(p) : e.addr = f.addr
          /\ f.conflict <=> \E d, e \in Vouched(p) : d.addr # e.addr
          /\ f.target = IF Vouched(p) # {} /\ (look.named => o.named) THEN Made(o, p, f.addr) ELSE NoTarget
      BY <1>1, <1>2, <1>6 DEF Sums
    <2>2. f.conflict <=> Disputed(p)
      BY <2>1 DEF Disputed
    <2>3. f.target # NoTarget <=> Eligible(p)
      BY <1>4, <1>6, <2>1 DEF Eligible, PprofPort
    <2> QED
      BY <2>1, <2>2, <2>3
  <1>7. ~Healthy(o) => f.target = NoTarget /\ ~Eligible(p)
    BY <1>1 DEF Sums, Eligible
  <1>8. IsTarget(f) <=> Eligible(p) /\ ~Disputed(p)
    BY <1>6, <1>7 DEF IsTarget
  <1>9. IsTarget(f) => f.target = Made(o, p, f.addr) /\ \E e \in Vouched(p) : e.addr = f.addr
    BY <1>6, <1>7, <1>8 DEF IsTarget, Eligible
  <1>10. ASSUME ~IsTarget(f)
         PROVE  \E n \in 1 .. 9 : /\ Holds(p, n) /\ \A m \in 1 .. 9 : m < n => ~Holds(p, m)
                                  /\ Attribute(o, f) = Table[n]
    <2>1. /\ Holds(p, 1) <=> o.deleting
          /\ Holds(p, 2) <=> ~o.running
          /\ Holds(p, 3) <=> ~o.ready
          /\ Holds(p, 4) <=> Own(p) = {}
          /\ Holds(p, 5) <=> Eligible(p) /\ Disputed(p)
          /\ Holds(p, 6) <=> \E e \in Own(p) : ~e.ready
          /\ Holds(p, 7) <=> \E e \in Own(p) : e.ready /\ e.addr \notin o.ips
          /\ Holds(p, 8) <=> Disputed(p)
          /\ Holds(p, 9) <=> ~PprofPort(o)
      BY DEF Holds
    <2>2. \A n \in 1 .. 9 : n = 1 \/ n = 2 \/ n = 3 \/ n = 4 \/ n = 5 \/ n = 6 \/ n = 7 \/ n = 8 \/ n = 9
      OBVIOUS
    <2>3. /\ Table[1] = "pod_terminating" /\ Table[2] = "pod_not_running" /\ Table[3] = "pod_not_ready"
          /\ Table[4] = "endpoint_missing" /\ Table[5] = "endpoint_address_conflict"
          /\ Table[6] = "endpoint_not_ready" /\ Table[7] = "endpoint_address_mismatch"
          /\ Table[8] = "endpoint_address_conflict" /\ Table[9] = "port_name_not_declared"
      BY DEF Table
    <2>4. CASE o.deleting
      <3>1. Attribute(o, f) = Table[1]
        BY <2>3, <2>4 DEF Attribute
      <3>2. \A m \in 1 .. 9 : m < 1 => ~Holds(p, m)
        OBVIOUS
      <3> QED
        BY <2>1, <2>4, <3>1, <3>2
    <2>5. CASE ~o.deleting /\ ~o.running
      <3>1. Attribute(o, f) = Table[2]
        BY <2>3, <2>5 DEF Attribute
      <3>2. \A m \in 1 .. 9 : m < 2 => ~Holds(p, m)
        BY <2>1, <2>2, <2>5
      <3> QED
        BY <2>1, <2>5, <3>1, <3>2
    <2>6. CASE ~o.deleting /\ o.running /\ ~o.ready
      <3>1. Attribute(o, f) = Table[3]
        BY <2>3, <2>6 DEF Attribute
      <3>2. \A m \in 1 .. 9 : m < 3 => ~Holds(p, m)
        BY <2>1, <2>2, <2>6
      <3> QED
        BY <2>1, <2>6, <3>1, <3>2
    <2>7. CASE ~o.deleting /\ o.running /\ o.ready
      <3>0. Healthy(o)
        BY <2>7 DEF Healthy
      <3>1. /\ f.mismatch <=> Holds(p, 7)
            /\ f.conflict <=> Disputed(p)
            /\ f.target # NoTarget <=> Eligible(p)
            /\ f.notReady <=> Holds(p, 6)
            /\ ~f.seen <=> Holds(p, 4)
            /\ ~Holds(p, 1) /\ ~Holds(p, 2) /\ ~Holds(p, 3)
        BY <1>5, <1>6, <2>1, <2>7, <3>0
      <3>2. CASE Holds(p, 4)
        <4>1. Attribute(o, f) = Table[4]
          BY <2>3, <2>7, <3>1, <3>2 DEF Attribute
        <4>2. \A m \in 1 .. 9 : m < 4 => ~Holds(p, m)
          BY <2>2, <3>1
        <4> QED
          BY <3>2, <4>1, <4>2
      <3>3. CASE ~Holds(p, 4) /\ Eligible(p)
        <4>1. Disputed(p) /\ f.target # NoTarget
          BY <1>8, <1>10, <3>1, <3>3
        <4>2. Attribute(o, f) = Table[5]
          BY <2>3, <2>7, <3>1, <3>3, <4>1 DEF Attribute
        <4>3. \A m \in 1 .. 9 : m < 5 => ~Holds(p, m)
          BY <2>2, <3>1, <3>3
        <4> QED
          BY <2>1, <3>3, <4>1, <4>2, <4>3
      <3>4. CASE ~Holds(p, 4) /\ ~Eligible(p)
        <4>1. f.target = NoTarget /\ ~Holds(p, 5)
          BY <2>1, <3>1, <3>4
        <4>2. CASE Holds(p, 6)
          <5>1. Attribute(o, f) = Table[6]
            BY <2>3, <2>7, <3>1, <3>4, <4>1, <4>2 DEF Attribute
          <5>2. \A m \in 1 .. 9 : m < 6 => ~Holds(p, m)
            BY <2>2, <3>1, <3>4, <4>1
          <5> QED
            BY <4>2, <5>1, <5>2
        <4>3. CASE ~Holds(p, 6) /\ Holds(p, 7)
          <5>1. Attribute(o, f) = Table[7]
            BY <2>3, <2>7, <3>1, <3>4, <4>1, <4>3 DEF Attribute
          <5>2. \A m \in 1 .. 9 : m < 7 => ~Holds(p, m)
            BY <2>2, <3>1, <3>4, <4>1, <4>3
          <5> QED
            BY <4>3, <5>1, <5>2
        <4>4. CASE ~Holds(p, 6) /\ ~Holds(p, 7) /\ Holds(p, 8)
          <5>1. Attribute(o, f) = Table[8]
            BY <2>1, <2>3, <2>7, <3>1, <3>4, <4>1, <4>4 DEF Attribute
          <5>2. \A m \in 1 .. 9 : m < 8 => ~Holds(p, m)
            BY <2>2, <3>1, <3>4, <4>1, <4>4
          <5> QED
            BY <4>4, <5>1, <5>2
        <4>5. CASE ~Holds(p, 6) /\ ~Holds(p, 7) /\ ~Holds(p, 8)
          <5>1. Attribute(o, f) = Table[9]
            BY <2>1, <2>3, <2>7, <3>1, <3>4, <4>1, <4>5 DEF Attribute
          <5>2. \A m \in 1 .. 9 : m < 9 => ~Holds(p, m)
            BY <2>2, <3>1, <3>4, <4>1, <4>5
          <5>3. Vouched(p) # {}
            BY <2>1, <3>4, <4>5 DEF Vouched
          <5>4. Holds(p, 9)
            BY <2>1, <3>0, <3>4, <5>3 DEF Eligible
          <5> QED
            BY <5>1, <5>2, <5>4
        <4> QED
          BY <4>2, <4>3, <4>4, <4>5
      <3> QED
        BY <3>2, <3>3, <3>4
    <2> QED
      BY <2>4, <2>5, <2>6, <2>7
  <1>11. ASSUME ~IsTarget(f)
         PROVE  /\ Attribute(o, f) = FirstReason(p)
                /\ \E n \in 1 .. 9 : Holds(p, n) /\ Attribute(o, f) = Table[n]
    BY <1>10, <1>11, FirstBy
  <1> QED
    BY <1>8, <1>9, <1>11


LEMMA TheRest ==
  ASSUME NEW S, IsFiniteSet(S), NEW K \in SUBSET S
  PROVE  Cardinality(S) = Cardinality(K) + Cardinality(S \ K)
  <1>1. S \cap K = K
    OBVIOUS
  <1>2. IsFiniteSet(K)
    BY FS_Subset
  <1>3. Cardinality(S \ K) = Cardinality(S) - Cardinality(K)
    BY <1>1, FS_Difference
  <1> QED
    BY <1>2, <1>3, FS_CardinalityType


\* Every selected Pod is kept or counted once: for its first reason (B), for its
\* version (outside V), or for its name (in V, outside K).  T makes the targets.
Ledger(Sel, adm, V, K, T, B, vm, nm, N) ==
    /\ IsFiniteSet(Sel) /\ adm \subseteq Sel /\ V \subseteq adm /\ K \subseteq V
    /\ \A p \in adm : T[p].name = p
    /\ vm # nm /\ \A p \in Sel \ adm : B[p] \notin {vm, nm}
    /\ N = [r \in {B[p] : p \in Sel \ adm} \cup {vm, nm} |->
              Cardinality({p \in Sel \ adm : B[p] = r}
                          \cup {t \in {T[p] : p \in adm} : r = vm /\ t.name \notin V}
                          \cup {t \in {T[p] : p \in adm} : r = nm /\ t.name \in V /\ t.name \notin K})]

AddsUp(Sel, adm, K, B, N) ==
    /\ \A r \in {B[p] : p \in Sel \ adm} :
          r \in DOMAIN N /\ N[r] = Cardinality({p \in Sel \ adm : B[p] = r})
    /\ Cardinality(Sel) = Cardinality(K) + Cardinality(UNION {{r} \X (1 .. N[r]) : r \in DOMAIN N})

LEMMA EachCounted ==
  ASSUME NEW Sel, NEW adm, NEW V, NEW K, NEW T, NEW B, NEW vm, NEW nm, NEW N,
         Ledger(Sel, adm, V, K, T, B, vm, nm, N)
  PROVE  AddsUp(Sel, adm, K, B, N)
  <1> DEFINE out == Sel \ adm
  <1> DEFINE D == {B[p] : p \in out} \cup {vm, nm}
  <1> DEFINE F == [x \in Sel \ K |-> IF x \in adm THEN IF x \in V THEN nm ELSE vm ELSE B[x]]
  <1> DEFINE counted(r) == {p \in out : B[p] = r}
                           \cup {t \in {T[p] : p \in adm} : r = vm /\ t.name \notin V}
                           \cup {t \in {T[p] : p \in adm} : r = nm /\ t.name \in V /\ t.name \notin K}
  <1>1. DOMAIN N = D /\ \A r \in D : N[r] = Cardinality(counted(r))
    BY DEF Ledger
  <1>2. F \in [Sel \ K -> D]
    BY DEF Ledger
  <1>3. IsFiniteSet(Sel \ K) /\ IsFiniteSet(adm \ V) /\ IsFiniteSet(V \ K)
    <2>1. IsFiniteSet(Sel) /\ Sel \ K \in SUBSET Sel /\ adm \ V \in SUBSET Sel /\ V \ K \in SUBSET Sel
      BY DEF Ledger
    <2> QED
      BY <2>1, FS_Subset
  <1>4. ASSUME NEW r \in {B[p] : p \in out}
        PROVE  counted(r) = {p \in out : B[p] = r} /\ {x \in Sel \ K : F[x] = r} = {p \in out : B[p] = r}
    BY DEF Ledger
  <1>5. Cardinality(counted(vm)) = Cardinality({x \in Sel \ K : F[x] = vm})
    <2>1. counted(vm) = {T[p] : p \in adm \ V}
      BY DEF Ledger
    <2>2. {x \in Sel \ K : F[x] = vm} = adm \ V
      BY DEF Ledger
    <2>3. \A x, y \in adm \ V : T[x] = T[y] => x = y
      BY Zenon DEF Ledger
    <2> HIDE DEF counted, F
    <2>4. Cardinality(counted(vm)) = Cardinality(adm \ V)
      <3>1. Images(adm \ V, T, counted(vm))
        BY <1>3, <2>1, <2>3 DEF Images
      <3> QED
        BY <3>1, AsManyImages
    <2> QED
      BY <2>2, <2>4, Zenon
  <1>6. Cardinality(counted(nm)) = Cardinality({x \in Sel \ K : F[x] = nm})
    <2>1. counted(nm) = {T[p] : p \in V \ K}
      BY DEF Ledger
    <2>2. {x \in Sel \ K : F[x] = nm} = V \ K
      BY DEF Ledger
    <2>3. \A x, y \in V \ K : T[x] = T[y] => x = y
      BY ZenonT(30) DEF Ledger
    <2> HIDE DEF counted, F
    <2>4. Cardinality(counted(nm)) = Cardinality(V \ K)
      <3>1. Images(V \ K, T, counted(nm))
        BY <1>3, <2>1, <2>3 DEF Images
      <3> QED
        BY <3>1, AsManyImages
    <2> QED
      BY <2>2, <2>4, Zenon
  <1> HIDE DEF F, counted
  <1>7. \A r \in D : N[r] = Cardinality({x \in Sel \ K : F[x] = r})
    <2> SUFFICES ASSUME NEW r \in D
                 PROVE  N[r] = Cardinality({x \in Sel \ K : F[x] = r})
      OBVIOUS
    <2>1. N[r] = Cardinality(counted(r))
      BY <1>1, Zenon
    <2>2. CASE r \in {B[p] : p \in out}
      BY <1>4, <2>1, <2>2, Zenon
    <2>3. CASE r = vm
      BY <1>5, <2>1, <2>3, Zenon
    <2>4. CASE r = nm
      BY <1>6, <2>1, <2>4, Zenon
    <2> QED
      BY <2>2, <2>3, <2>4
  <1>8. Cardinality(UNION {{r} \X (1 .. N[r]) : r \in D}) = Cardinality(Sel \ K)
    <2> HIDE DEF D
    <2>1. CountsBy(Sel \ K, D, F, N)
      BY <1>2, <1>3, <1>7 DEF CountsBy
    <2> QED
      BY <2>1, CountsAddUp
  <1>9. Cardinality(Sel) = Cardinality(K) + Cardinality(Sel \ K)
    <2>1. IsFiniteSet(Sel) /\ K \in SUBSET Sel
      BY DEF Ledger
    <2> QED
      BY <2>1, TheRest, Zenon
  <1>10. \A r \in {B[p] : p \in out} : r \in DOMAIN N /\ N[r] = Cardinality({p \in out : B[p] = r})
    BY <1>1, <1>4
  <1> QED
    BY <1>1, <1>8, <1>9, <1>10 DEF AddsUp


-----------------------------------------------------------------------------
\* The parts of an answer.
Fact(p)    == look.facts[look.held[p].uid]
Because(p) == Attribute(look.held[p], Fact(p))
Resolved   == {look.facts[u].target : u \in {u \in PodUids : IsTarget(look.facts[u])}}
Unresolved == {p \in Selected : ~IsTarget(Fact(p))}
Tally ==
    [r \in {Because(p) : p \in Unresolved} \cup {"version_mismatch", "pod_name_mismatch"} |->
       Cardinality({p \in Unresolved : Because(p) = r}
                   \cup {t \in Resolved : r = "version_mismatch" /\ ~OfVersion(t)}
                   \cup {t \in Resolved : r = "pod_name_mismatch" /\ OfVersion(t) /\ ~OfName(t)})]

LEMMA RespondIs ==
  ASSUME Respond
  PROVE  /\ look.pc = "walk" /\ look.todo = {}
         /\ UNCHANGED <<services, endpoints, pods, events>>
         /\ look' = [look EXCEPT !.pc = "answered",
                                 !.targets = {t \in Resolved : OfVersion(t) /\ OfName(t)},
                                 !.excluded = IF ~look.explain THEN <<>> ELSE Tally]
  BY DEF Respond, Resolved, Unresolved, Because, Fact, Tally

\* The targets resolved are one for each Pod the rules admit.
LEMMA ResolvedAre ==
  ASSUME PodsOK(look.held), Told, look.todo = {}
  PROVE  /\ Unresolved = Excluded
         /\ Resolved = {Fact(p).target : p \in Admitted}
         /\ \A p \in Admitted :
               /\ Fact(p).target = Made(look.held[p], p, Fact(p).addr)
               /\ \E e \in Vouched(p) : e.addr = Fact(p).addr
         /\ \A p \in Excluded : Because(p) = FirstReason(p)
         /\ \A p \in Excluded : \E n \in 1 .. 9 : Holds(p, n) /\ Because(p) = Table[n]
  <1>1. \A p \in Selected : IsTarget(Fact(p)) <=> p \in Admitted
    BY Decided DEF Fact, Admitted
  <1>2. Unresolved = Excluded
    BY <1>1 DEF Unresolved, Excluded
  <1>3. \A p \in Admitted : p \in Selected /\ IsTarget(Fact(p))
    BY <1>1 DEF Admitted
  <1>4. \A p \in Admitted : /\ Fact(p).target = Made(look.held[p], p, Fact(p).addr)
                            /\ \E e \in Vouched(p) : e.addr = Fact(p).addr
    BY <1>3, Decided DEF Fact
  <1>5. \A p \in Excluded : p \in Selected /\ ~IsTarget(Fact(p))
    BY <1>1 DEF Excluded
  <1>6. \A p \in Excluded : Because(p) = FirstReason(p)
    BY <1>5, Decided DEF Fact, Because
  <1>7. \A p \in Excluded : \E n \in 1 .. 9 : Holds(p, n) /\ Because(p) = Table[n]
    BY <1>5, Decided DEF Fact, Because
  <1>8. ASSUME NEW p \in Admitted
        PROVE  Fact(p).target \in Resolved
    BY <1>3, SelectedPods DEF Resolved, Fact
  <1>9. ASSUME NEW t \in Resolved
        PROVE  \E p \in Admitted : t = Fact(p).target
    <2>1. PICK u \in PodUids : IsTarget(look.facts[u]) /\ t = look.facts[u].target
      BY DEF Resolved
    <2>2. look.facts[u] # NoFacts
      BY <2>1 DEF IsTarget, NoFacts
    <2>3. PICK p \in Selected : look.held[p].uid = u
      BY <2>2 DEF Told
    <2> QED
      BY <1>1, <2>1, <2>3 DEF Fact
  <1>10. Resolved = {Fact(p).target : p \in Admitted}
    BY <1>8, <1>9
  <1> QED
    BY <1>2, <1>4, <1>6, <1>7, <1>10


\* The targets of an answer, and what it counts, follow the rules.
LEMMA TargetsFollow ==
  ASSUME PodsOK(look.held), Told, look.todo = {},
         NEW ts, ts = {t \in Resolved : OfVersion(t) /\ OfName(t)}
  PROVE  /\ {t.name : t \in ts} = Kept
         /\ Cardinality(ts) = Cardinality(Kept)
         /\ \A t \in ts : t.addr \in {e.addr : e \in Vouched(t.name)}
  <1> DEFINE T == [p \in Admitted |-> Fact(p).target]
  <1>1. \A p \in Admitted : /\ T[p] = Fact(p).target /\ T[p].name = p /\ T[p].addr = Fact(p).addr
                            /\ T[p].version = look.held[p].version
    <2> SUFFICES ASSUME NEW p \in Admitted
                 PROVE  /\ T[p] = Fact(p).target /\ T[p].name = p /\ T[p].addr = Fact(p).addr
                        /\ T[p].version = look.held[p].version
      OBVIOUS
    <2>1. T[p] = Fact(p).target
      OBVIOUS
    <2>2. T[p] = Made(look.held[p], p, Fact(p).addr)
      BY <2>1, ResolvedAre
    <2> HIDE DEF T
    <2> QED
      BY <2>1, <2>2 DEF Made
  <1>2. \A p \in Admitted : OfVersion(T[p]) /\ OfName(T[p]) <=> p \in Kept
    BY <1>1 DEF Kept, OfVersion, OfName
  <1>3. Resolved = {T[p] : p \in Admitted}
    BY ResolvedAre
  <1> HIDE DEF T
  <1>4. Kept \subseteq Admitted
    BY DEF Kept
  <1>5. ts = {T[p] : p \in Kept}
    BY <1>2, <1>3, <1>4
  <1>6. {t.name : t \in ts} = Kept
    BY <1>1, <1>4, <1>5
  <1>7. IsFiniteSet(Kept)
    <2>1. Kept \in SUBSET PodNames
      BY DEF Kept, Admitted, Selected
    <2> QED
      BY <2>1, FS_Subset, EligibilityAssumption
  <1>8. ASSUME NEW p \in Kept, NEW q \in Kept, T[p] = T[q]
        PROVE  p = q
    <2>1. T[p].name = p /\ T[q].name = q
      BY <1>1, <1>4
    <2> QED
      BY <1>8, <2>1, Zenon
  <1>9. Cardinality(ts) = Cardinality(Kept)
    <2>1. Images(Kept, T, ts)
      BY <1>5, <1>7, <1>8 DEF Images
    <2> QED
      BY <2>1, AsManyImages
  <1>10. \A t \in ts : t.addr \in {e.addr : e \in Vouched(t.name)}
    <2> SUFFICES ASSUME NEW t \in ts
                 PROVE  t.addr \in {e.addr : e \in Vouched(t.name)}
      OBVIOUS
    <2>1. PICK p \in Kept : t = T[p]
      BY <1>5
    <2>2. PICK e \in Vouched(p) : e.addr = Fact(p).addr
      BY <1>4, ResolvedAre
    <2>3. t.name = p /\ t.addr = e.addr
      BY <1>1, <1>4, <2>1, <2>2
    <2> QED
      BY <2>2, <2>3, Zenon
  <1> QED
    BY <1>6, <1>9, <1>10

LEMMA TallyFollows ==
  ASSUME PodsOK(look.held), Told, look.todo = {}
  PROVE  /\ \A p \in Excluded : \E n \in 1 .. 9 : Holds(p, n)
         /\ \A r \in {FirstReason(p) : p \in Excluded} :
               r \in DOMAIN Tally /\ Tally[r] = Cardinality({p \in Excluded : FirstReason(p) = r})
         /\ Cardinality(Selected)
              = Cardinality(Kept) + Cardinality(UNION {{r} \X (1 .. Tally[r]) : r \in DOMAIN Tally})
  <1> DEFINE T == [p \in Admitted |-> Fact(p).target]
  <1> DEFINE B == [p \in Excluded |-> FirstReason(p)]
  <1> DEFINE V == {p \in Admitted : OfVersion(look.held[p])}
  <1>1. \A p \in Admitted : /\ T[p] = Fact(p).target /\ T[p].name = p
                            /\ T[p].version = look.held[p].version
    <2> SUFFICES ASSUME NEW p \in Admitted
                 PROVE  T[p] = Fact(p).target /\ T[p].name = p /\ T[p].version = look.held[p].version
      OBVIOUS
    <2>1. T[p] = Fact(p).target
      OBVIOUS
    <2>2. T[p] = Made(look.held[p], p, Fact(p).addr)
      BY <2>1, ResolvedAre
    <2> HIDE DEF T
    <2> QED
      BY <2>1, <2>2 DEF Made
  <1>2. \A p \in Admitted : /\ OfVersion(T[p]) <=> p \in V
                            /\ p \in V => (OfName(T[p]) <=> p \in Kept)
    BY <1>1 DEF Kept, OfVersion, OfName
  <1>3. Resolved = {T[p] : p \in Admitted}
    BY ResolvedAre
  <1>4. \A p \in Excluded : B[p] = FirstReason(p) /\ Because(p) = B[p]
    BY ResolvedAre
  <1>5. IsFiniteSet(Selected) /\ Admitted \subseteq Selected /\ V \subseteq Admitted /\ Kept \subseteq V
    <2>1. Selected \in SUBSET PodNames
      BY DEF Selected
    <2> QED
      BY <2>1, FS_Subset, EligibilityAssumption DEF Admitted, Kept
  <1>6. \A p \in Excluded : B[p] \notin {"version_mismatch", "pod_name_mismatch"}
    <2>1. \A n \in 1 .. 9 : Table[n] \notin {"version_mismatch", "pod_name_mismatch"}
      BY DEF Table
    <2> QED
      BY <1>4, <2>1, ResolvedAre
  <1> HIDE DEF T, B, V
  <1>7. {Because(p) : p \in Unresolved} = {B[p] : p \in Selected \ Admitted}
    BY <1>4, ResolvedAre DEF Excluded
  <1>8. ASSUME NEW r
        PROVE  /\ {p \in Unresolved : Because(p) = r} = {p \in Selected \ Admitted : B[p] = r}
               /\ {t \in Resolved : r = "version_mismatch" /\ ~OfVersion(t)}
                    = {t \in {T[p] : p \in Admitted} : r = "version_mismatch" /\ t.name \notin V}
               /\ {t \in Resolved : r = "pod_name_mismatch" /\ OfVersion(t) /\ ~OfName(t)}
                    = {t \in {T[p] : p \in Admitted} :
                         r = "pod_name_mismatch" /\ t.name \in V /\ t.name \notin Kept}
    <2>1. {p \in Unresolved : Because(p) = r} = {p \in Selected \ Admitted : B[p] = r}
      BY <1>4, ResolvedAre DEF Excluded
    <2>2. \A t \in Resolved : /\ OfVersion(t) <=> t.name \in V
                              /\ OfVersion(t) => (OfName(t) <=> t.name \in Kept)
      BY <1>1, <1>2, <1>3
    <2> QED
      BY <1>3, <2>1, <2>2
  <1> DEFINE here(r)  == {p \in Unresolved : Because(p) = r}
                         \cup {t \in Resolved : r = "version_mismatch" /\ ~OfVersion(t)}
                         \cup {t \in Resolved : r = "pod_name_mismatch" /\ OfVersion(t) /\ ~OfName(t)}
  <1> DEFINE there(r) == {p \in Selected \ Admitted : B[p] = r}
                         \cup {t \in {T[p] : p \in Admitted} : r = "version_mismatch" /\ t.name \notin V}
                         \cup {t \in {T[p] : p \in Admitted} :
                                 r = "pod_name_mismatch" /\ t.name \in V /\ t.name \notin Kept}
  <1>9. Ledger(Selected, Admitted, V, Kept, T, B, "version_mismatch", "pod_name_mismatch", Tally)
    <2> DEFINE D == {B[p] : p \in Selected \ Admitted} \cup {"version_mismatch", "pod_name_mismatch"}
    <2>1. Tally = [r \in D |-> Cardinality(here(r))]
      BY <1>7, Zenon DEF Tally
    <2>2. \A r : here(r) = there(r)
      BY <1>8, Zenon
    <2> HIDE DEF here, there
    <2>3. Tally = [r \in D |-> Cardinality(there(r))]
      <3> HIDE DEF D
      <3> QED
        BY <2>1, <2>2
    <2>4. /\ \A p \in Admitted : T[p].name = p
          /\ \A p \in Selected \ Admitted : B[p] \notin {"version_mismatch", "pod_name_mismatch"}
          /\ "version_mismatch" # "pod_name_mismatch"
      BY <1>1, <1>6 DEF Excluded
    <2> QED
      BY <1>5, <2>3, <2>4, Zenon DEF Ledger, there
  <1>10. /\ \A r \in {B[p] : p \in Selected \ Admitted} :
              r \in DOMAIN Tally /\ Tally[r] = Cardinality({p \in Selected \ Admitted : B[p] = r})
         /\ Cardinality(Selected)
              = Cardinality(Kept) + Cardinality(UNION {{r} \X (1 .. Tally[r]) : r \in DOMAIN Tally})
    <2>1. AddsUp(Selected, Admitted, Kept, B, Tally)
      BY <1>9, EachCounted
    <2> QED
      BY <2>1, Zenon DEF AddsUp
  <1>11. {FirstReason(p) : p \in Excluded} = {B[p] : p \in Selected \ Admitted}
    BY <1>4 DEF Excluded
  <1>12. \A r : {p \in Excluded : FirstReason(p) = r} = {p \in Selected \ Admitted : B[p] = r}
    BY <1>4 DEF Excluded
  <1>13. \A p \in Excluded : \E n \in 1 .. 9 : Holds(p, n)
    BY ResolvedAre
  <1> HIDE DEF Excluded
  <1> QED
    BY <1>10, <1>11, <1>12, <1>13, Zenon


LEMMA VerdictsStay ==
  ASSUME SameWalk
  PROVE  /\ Selected' = Selected /\ Kept' = Kept /\ Excluded' = Excluded
         /\ \A p : FirstReason(p)' = FirstReason(p)
  <1>1. Selected' = Selected
    BY RulesStay
  <1>2. Admitted' = Admitted
    BY <1>1, OwnStays DEF Admitted
  <1>3. Kept' = Kept
    BY <1>2 DEF SameWalk, Kept, OfVersion
  <1>4. Excluded' = Excluded
    BY <1>1, <1>2 DEF Excluded
  <1>5. \A p : FirstReason(p)' = FirstReason(p)
    BY OwnStays DEF FirstReason, IsFirst
  <1> QED
    BY <1>1, <1>3, <1>4, <1>5

LEMMA ElRespond ==
  ASSUME ElInv, Respond
  PROVE  ElInv'
  <1> DEFINE ts == {t \in Resolved : OfVersion(t) /\ OfName(t)}
  <1>1. /\ look.pc = "walk" /\ look.todo = {} /\ pods' = pods /\ endpoints' = endpoints
        /\ look' = [look EXCEPT !.pc = "answered", !.targets = ts,
                                !.excluded = IF ~look.explain THEN <<>> ELSE Tally]
    BY RespondIs
  <1> HIDE DEF ts
  <1>2. /\ SameWalk /\ look'.pc = "answered" /\ look'.targets = ts /\ look'.moved = look.moved
        /\ look.explain => look'.excluded = Tally
        /\ IsLook(look')
    BY <1>1 DEF SameWalk, ElInv, Shape, IsLook
  <1>3. ASSUME look.explain \/ ~look.moved
        PROVE  AnswerFollowsTheRules'
    <2>1. PodsOK(look.held) /\ Told
      BY <1>1, <1>3 DEF ElInv, Walked
    <2>2. Selected' = Selected /\ Kept' = Kept /\ Excluded' = Excluded
      BY <1>2, VerdictsStay
    <2>3. \A p : FirstReason(p)' = FirstReason(p)
      BY <1>2, VerdictsStay
    <2>4. \A p, n : Holds(p, n)' <=> Holds(p, n)
      BY <1>2, OwnStays
    <2>5. /\ {t.name : t \in ts} = Kept
          /\ Cardinality(ts) = Cardinality(Kept)
          /\ \A t \in ts : t.addr \in {e.addr : e \in Vouched(t.name)}
      BY <1>1, <2>1, TargetsFollow DEF ts
    <2>6. {t.name : t \in look'.targets} = Kept' /\ Cardinality(look'.targets) = Cardinality(Kept')
      BY <1>2, <2>2, <2>5
    <2>7. \A t \in look'.targets : t.addr \in {e.addr : e \in Vouched(t.name)'}
      <3>1. \A n : Vouched(n)' = Vouched(n)
        BY <1>2, OwnStays
      <3> QED
        BY <1>2, <2>5, <3>1
    <2>8. ASSUME look.explain
          PROVE  /\ \A p \in Excluded' : \E n \in 1 .. 9 : Holds(p, n)'
                 /\ \A r \in {FirstReason(p)' : p \in Excluded'} :
                       /\ r \in DOMAIN look'.excluded
                       /\ look'.excluded[r] = Cardinality({p \in Excluded' : FirstReason(p)' = r})
                 /\ Cardinality(Selected') = Cardinality(look'.targets) + Cardinality(Counts')
      <3>1. look'.excluded = Tally
        BY <1>2, <2>8
      <3>2. Counts' = UNION {{r} \X (1 .. Tally[r]) : r \in DOMAIN Tally}
        BY <3>1 DEF Counts
      <3>3. /\ \A p \in Excluded : \E n \in 1 .. 9 : Holds(p, n)
            /\ \A r \in {FirstReason(p) : p \in Excluded} :
                  r \in DOMAIN Tally /\ Tally[r] = Cardinality({p \in Excluded : FirstReason(p) = r})
            /\ Cardinality(Selected)
                 = Cardinality(Kept) + Cardinality(UNION {{r} \X (1 .. Tally[r]) : r \in DOMAIN Tally})
        BY <1>1, <2>1, TallyFollows
      <3>4. \A p \in Excluded' : \E n \in 1 .. 9 : Holds(p, n)'
        BY <2>2, <2>4, <3>3
      <3>5. {FirstReason(p)' : p \in Excluded'} = {FirstReason(p) : p \in Excluded}
        BY <2>2, <2>3
      <3>6. \A r : {p \in Excluded' : FirstReason(p)' = r} = {p \in Excluded : FirstReason(p) = r}
        BY <2>2, <2>3
      <3>7. \A r \in {FirstReason(p)' : p \in Excluded'} :
              /\ r \in DOMAIN look'.excluded
              /\ look'.excluded[r] = Cardinality({p \in Excluded' : FirstReason(p)' = r})
        BY <3>1, <3>3, <3>5, <3>6, Zenon
      <3>8. Cardinality(Selected') = Cardinality(look'.targets) + Cardinality(Counts')
        BY <1>2, <2>2, <2>5, <3>2, <3>3, Zenon
      <3> QED
        BY <3>4, <3>7, <3>8
    <2>9. look'.explain = look.explain
      BY <1>2 DEF SameWalk
    <2> QED
      BY <2>6, <2>7, <2>8, <2>9, Zenon DEF AnswerFollowsTheRules
  <1>4. ~(look.explain \/ ~look.moved) => AnswerFollowsTheRules'
    BY <1>2 DEF SameWalk, AnswerFollowsTheRules
  <1>5. Shape'
    BY <1>1, <1>2 DEF ElInv, Shape
  <1> QED
    BY <1>2, <1>3, <1>4, <1>5 DEF ElInv, Fresh, Listed, Walked

\* For every set of Pods, slices, requests and events: every answer follows the
\* rules of eligibility, and with explain it accounts for every selected Pod
\* (Targets, Explain, resolve, attribute, filterTargets).
THEOREM AnswerFollowsTheRulesHolds ==
  EligSpec => []AnswerFollowsTheRules
  <1>1. EligInit => ElInv
    BY ElInit
  <1>2. ElInv /\ [EligNext]_eligVars => ElInv'
    <2>1. ASSUME ElInv, UNCHANGED eligVars
          PROVE  ElInv'
      <3>1. look' = look /\ pods' = pods /\ endpoints' = endpoints
        BY <2>1 DEF eligVars
      <3>2. SameWalk
        BY <3>1 DEF SameWalk
      <3>3. Shape' /\ Fresh' /\ Listed'
        BY <2>1, <3>1 DEF ElInv, Shape, Fresh, Listed
      <3>4. \A p : Met(p)' = Met(p)
        BY <3>1 DEF Met, EndpointAt, Trusted
      <3>5. Told => Told'
        BY <3>1, <3>2, <3>4, RulesStay DEF Told
      <3>6. Walked'
        BY <2>1, <3>1, <3>5 DEF ElInv, Walked
      <3>7. AnswerFollowsTheRules'
        <4>1. /\ Selected' = Selected /\ Kept' = Kept /\ Excluded' = Excluded
              /\ \A p : FirstReason(p)' = FirstReason(p)
          BY <3>2, VerdictsStay
        <4>2. \A p : Vouched(p)' = Vouched(p) /\ \A n : Holds(p, n)' <=> Holds(p, n)
          BY <3>2, OwnStays
        <4>3. Counts' = Counts
          BY <3>1 DEF Counts
        <4>4. /\ {FirstReason(p)' : p \in Excluded'} = {FirstReason(p) : p \in Excluded}
              /\ \A r : {p \in Excluded' : FirstReason(p)' = r} = {p \in Excluded : FirstReason(p) = r}
          BY <4>1
        <4> QED
          BY <2>1, <3>1, <4>1, <4>2, <4>3, <4>4, Zenon DEF ElInv, AnswerFollowsTheRules
      <3> QED
        BY <3>3, <3>6, <3>7 DEF ElInv
    <2> QED
      BY <2>1, ElMoves, ElReadService, ElReadSlices, ElCapture, ElWalk, ElRespond DEF EligNext
  <1>3. ElInv => AnswerFollowsTheRules
    BY DEF ElInv
  <1> QED
    BY <1>1, <1>2, <1>3, PTL DEF EligSpec
=============================================================================
