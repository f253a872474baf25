------------------------------ MODULE Ceiling ------------------------------
(***************************************************************************)
(* The ceiling on live Collections: the reservations of                    *)
(* internal/pgo/publisher.go, taken from caches that lag before the first  *)
(* write of a publication and given back by the release rule.              *)
(*                                                                         *)
(* One replica, whose scheduler and handlers publish the Collections of    *)
(* Ids; publication i holds reservation i.  The other replicas are Other.  *)
(* What Publication proves of the writes is not repeated here: a           *)
(* conditional write takes effect exactly when the record or key is still  *)
(* the one its revision names; pending and running are one state "live".   *)
(***************************************************************************)
EXTENDS Naturals, FiniteSets

CONSTANTS
    Ids,         \* publications: scheduler decisions and create requests
    Services,
    ServiceOf,   \* [Ids -> Services]
    Scheduled,   \* the ids that win a slot key first
    Contended,   \* the Services other replicas publish for too
    NoId,
    Other,       \* a Collection another replica published
    MaxLive,     \* pgo.limits.maxLiveCollections
    MaxLate,     \* bound: indeterminate writes outstanding at once
    MaxOutages   \* bound: generations lost and restarts of the replica

ASSUME CeilingAssumption ==
    /\ IsFiniteSet(Services) /\ ServiceOf \in [Ids -> Services]
    /\ Scheduled \subseteq Ids /\ Contended \subseteq Services
    /\ {NoId, Other} \cap Ids = {} /\ NoId # Other
    /\ MaxLive \in Nat \ {0}
    /\ {MaxLate, MaxOutages} \subseteq Nat

VARIABLES
    job,     \* job.<id>: "none", "initializing", "live", "terminal"
    active,  \* active.<ns>.<svc>: the id it names
    late,    \* writes whose caller was told ErrUnavailable and that still travel
    pc,      \* where publication i is
    res,     \* reservation i: "none", "held", "tracked", "released"
    seen,    \* the job and active caches, and their barrier
    pass,    \* the reservation whose record the pass has read
    left     \* the outages still to come

store == <<job, active, late>>
vars  == <<job, active, late, pc, res, seen, pass, left>>

-----------------------------------------------------------------------------
(* The store.                                                              *)

Write(kind, i) == [kind |-> kind, id |-> i]

\* Whether a conditional write still meets what it was conditioned on.
Takes(w) ==
    CASE w.kind = "createJob"    -> job[w.id] = "none"
      [] w.kind = "createActive" -> active[ServiceOf[w.id]] = NoId
      [] w.kind = "publish"      -> job[w.id] = "initializing"
      [] w.kind = "deleteJob"    -> job[w.id] = "initializing"
      [] w.kind = "deleteActive" -> active[ServiceOf[w.id]] = w.id

Commit(w) ==
    CASE w.kind = "createJob"    -> job' = [job EXCEPT ![w.id] = "initializing"] /\ UNCHANGED active
      [] w.kind = "createActive" -> active' = [active EXCEPT ![ServiceOf[w.id]] = w.id] /\ UNCHANGED job
      [] w.kind = "publish"      -> job' = [job EXCEPT ![w.id] = "live"] /\ UNCHANGED active
      [] w.kind = "deleteJob"    -> job' = [job EXCEPT ![w.id] = "none"] /\ UNCHANGED active
      [] w.kind = "deleteActive" -> active' = [active EXCEPT ![ServiceOf[w.id]] = NoId] /\ UNCHANGED job

\* A call of the store client: committed, refused, or without an answer.
Call(w, answer) ==
    \/ answer = "ok" /\ Takes(w) /\ Commit(w) /\ UNCHANGED late
    \/ answer = "refused" /\ ~Takes(w) /\ UNCHANGED store
    \/ /\ answer = "unavailable"
       /\ \/ UNCHANGED late
          \/ Cardinality(late) < MaxLate /\ late' = late \cup {w}
       /\ UNCHANGED <<job, active>>

LateArrival ==
    \E w \in late :
        /\ late' = late \ {w}
        /\ IF Takes(w) THEN Commit(w) ELSE UNCHANGED <<job, active>>
        /\ UNCHANGED <<pc, res, seen, pass, left>>

-----------------------------------------------------------------------------
(* What the replica counts.                                                *)

\* cachedLive: Services with a cached active key or nonterminal record.
CachedLive ==
    {s \in Services : seen.active[s] # NoId}
        \cup {ServiceOf[i] : i \in {j \in Ids : seen.jobs[j] \in {"initializing", "live"}}}

Held == {i \in Ids : res[i] \in {"held", "tracked"}}

\* Mutant of RoomFor: a reservation counts until it is bound to a record.
RoomForUntracked ==
    Cardinality(CachedLive) + Cardinality({i \in Held : res[i] = "held"}) < MaxLive

RoomFor == Cardinality(CachedLive) + Cardinality(Held) < MaxLive

-----------------------------------------------------------------------------
(* A publication: Scheduler.consider or serveCollectionCreate around       *)
(* Publisher.Publish.                                                      *)

Goes(i, to) == pc' = [pc EXCEPT ![i] = to]
Ends(i, as) == Goes(i, "done") /\ res' = [res EXCEPT ![i] = as]
Aside       == UNCHANGED <<seen, pass, left>>

\* The cached live check, which only spares a write that would lose.
CheckLive(i) ==
    /\ pc[i] = "idle"
    /\ seen.synced
    /\ ServiceOf[i] \notin CachedLive
    /\ Goes(i, "reserve")
    /\ UNCHANGED <<store, res>> /\ Aside

Reserve(i) ==
    /\ pc[i] = "reserve"
    /\ \/ /\ seen.synced /\ RoomFor
          /\ res' = [res EXCEPT ![i] = "held"]
          /\ Goes(i, IF i \in Scheduled THEN "createSlot" ELSE "createJob")
       \/ /\ ~(seen.synced /\ RoomFor)
          /\ Goes(i, "idle")
          /\ UNCHANGED res
    /\ UNCHANGED store /\ Aside

\* A slot lost, or not known to be won, gives the reservation back.
CreateSlot(i) ==
    /\ pc[i] = "createSlot"
    /\ \/ Goes(i, "createJob") /\ UNCHANGED res
       \/ Ends(i, "released")
    /\ UNCHANGED store /\ Aside

\* A definite error wrote nothing; without an answer the record may exist.
CreateJob(i) ==
    /\ pc[i] = "createJob"
    /\ \/ Call(Write("createJob", i), "ok") /\ Goes(i, "createActive") /\ UNCHANGED res
       \/ UNCHANGED store /\ Ends(i, "released")
       \/ Call(Write("createJob", i), "unavailable") /\ Ends(i, "tracked")
    /\ Aside

CreateActive(i) ==
    /\ pc[i] = "createActive"
    /\ \/ /\ Call(Write("createActive", i), "ok")
          /\ Goes(i, "publish")
          /\ res' = [res EXCEPT ![i] = "tracked"]
       \/ Call(Write("createActive", i), "refused") /\ Goes(i, "discard") /\ UNCHANGED res
       \/ Call(Write("createActive", i), "unavailable") /\ Ends(i, "tracked")
    /\ Aside

\* discardLostRecord: any definite answer means nothing of it is left.
Discard(i) ==
    /\ pc[i] = "discard"
    /\ \/ \E answer \in {"ok", "refused"} : Call(Write("deleteJob", i), answer) /\ Ends(i, "released")
       \/ Call(Write("deleteJob", i), "unavailable") /\ Ends(i, "tracked")
    /\ Aside

\* The receipt that must come first did not land.
ReceiptFails(i) ==
    /\ pc[i] = "publish"
    /\ i \notin Scheduled
    /\ Goes(i, "withdrawJob")
    /\ UNCHANGED <<store, res>> /\ Aside

Withdraw(i) ==
    /\ \/ pc[i] = "withdrawJob" /\ Goes(i, "withdrawActive")
            /\ \E answer \in {"ok", "refused", "unavailable"} : Call(Write("deleteJob", i), answer)
       \/ pc[i] = "withdrawActive" /\ Goes(i, "done")
            /\ \E answer \in {"ok", "refused", "unavailable"} : Call(Write("deleteActive", i), answer)
    /\ UNCHANGED res /\ Aside

PublishPending(i) ==
    /\ pc[i] = "publish"
    /\ \E answer \in {"ok", "refused", "unavailable"} : Call(Write("publish", i), answer)
    /\ Goes(i, "done")
    /\ UNCHANGED res /\ Aside

-----------------------------------------------------------------------------
(* The release rule: ReleaseResolved, on every scheduler tick.             *)

\* A pass begins behind the barrier and looks at what was tracked then; it may
\* go on after the barrier has closed, so no step asks for it.
Due(i)     == pass = NoId /\ res[i] = "tracked"
Release(i) == res' = [res EXCEPT ![i] = "released"]

\* hasJob and activeID: from here on the caches count the Service.
Delivered(i) == seen.jobs[i] # "none" \/ seen.active[ServiceOf[i]] = i

ResolveCached(i) ==
    /\ Due(i)
    /\ Delivered(i)
    /\ Release(i)
    /\ UNCHANGED <<store, pc, seen, pass, left>>

\* Mutant of LeftNothing: only a record that ended gives its reservation back.
LeftNothingEnded(i) == job[i] = "terminal"

LeftNothing(i) == job[i] \in {"none", "terminal"}

\* The record, read past the caches.
ResolveRecord(i) ==
    /\ Due(i)
    /\ ~Delivered(i)
    /\ LeftNothing(i)
    /\ pass' = i
    /\ UNCHANGED <<store, pc, res, seen, left>>

\* The active key, read after it.  A read that fails leaves it held.
ResolveActive(i) ==
    /\ pass = i
    /\ \/ active[ServiceOf[i]] # i /\ Release(i)
       \/ UNCHANGED res
    /\ pass' = NoId
    /\ UNCHANGED <<store, pc, seen, left>>

-----------------------------------------------------------------------------
(* The other replicas' work on the store, whenever it is due.              *)

\* The scan or the owner ends a record; the sweeper forgets an ended one and
\* frees an active key whose record ended or is gone.
End(i) ==
    /\ job[i] \in {"initializing", "live"}
    /\ job' = [job EXCEPT ![i] = "terminal"]
    /\ UNCHANGED <<active, late, pc, res, seen, pass, left>>

Retire(i) ==
    /\ job[i] = "terminal"
    /\ job' = [job EXCEPT ![i] = "none"]
    /\ UNCHANGED <<active, late, pc, res, seen, pass, left>>

OtherTakes(s) ==
    /\ s \in Contended
    /\ active[s] = NoId
    /\ active' = [active EXCEPT ![s] = Other]
    /\ UNCHANGED <<job, late, pc, res, seen, pass, left>>

FreeService(s) ==
    /\ active[s] # NoId
    /\ active[s] \in Ids => job[active[s]] \in {"none", "terminal"}
    /\ active' = [active EXCEPT ![s] = NoId]
    /\ UNCHANGED <<job, late, pc, res, seen, pass, left>>

-----------------------------------------------------------------------------
(* The caches: any key may be delivered before any other.                  *)

DeliverJob(i) ==
    /\ seen.jobs[i] # job[i]
    /\ seen' = [seen EXCEPT !.jobs[i] = job[i]]
    /\ UNCHANGED <<store, pc, res, pass, left>>

DeliverActive(s) ==
    /\ seen.active[s] # active[s]
    /\ seen' = [seen EXCEPT !.active[s] = active[s]]
    /\ UNCHANGED <<store, pc, res, pass, left>>

\* The generation moves: what was read under the old one counts no more.
Cut ==
    /\ seen.synced
    /\ left > 0
    /\ seen' = [seen EXCEPT !.synced = FALSE]
    /\ pc' = [i \in Ids |-> IF pc[i] = "reserve" THEN "idle" ELSE pc[i]]
    /\ left' = left - 1
    /\ UNCHANGED <<store, res, pass>>

Replay ==
    /\ ~seen.synced
    /\ seen' = [synced |-> TRUE, jobs |-> job, active |-> active]
    /\ UNCHANGED <<store, pc, res, pass, left>>

Unseen == [synced |-> FALSE, jobs |-> [i \in Ids |-> "none"], active |-> [s \in Services |-> NoId]]

\* The replica dies with its reservations and comes back empty.
Crash ==
    /\ left > 0
    /\ seen' = Unseen
    /\ pc' = [i \in Ids |-> IF pc[i] # "idle" THEN "done" ELSE pc[i]]
    /\ res' = [i \in Ids |-> "none"]
    /\ pass' = NoId
    /\ left' = left - 1
    /\ UNCHANGED store

-----------------------------------------------------------------------------
Init ==
    /\ job = [i \in Ids |-> "none"]
    /\ active = [s \in Services |-> NoId]
    /\ late = {}
    /\ pc = [i \in Ids |-> "idle"]
    /\ res = [i \in Ids |-> "none"]
    /\ seen = Unseen
    /\ pass = NoId
    /\ left = MaxOutages

Publish(i) ==
    \/ CreateSlot(i) \/ CreateJob(i) \/ CreateActive(i) \/ Discard(i)
    \/ ReceiptFails(i) \/ Withdraw(i) \/ PublishPending(i)

Observe(i) == ResolveCached(i) \/ ResolveRecord(i)

Next ==
    \/ \E i \in Ids :
          \/ CheckLive(i) \/ Reserve(i) \/ Publish(i) \/ Observe(i) \/ ResolveActive(i)
          \/ End(i) \/ Retire(i) \/ DeliverJob(i)
    \/ \E s \in Services : OtherTakes(s) \/ FreeService(s) \/ DeliverActive(s)
    \/ Cut \/ Replay \/ Crash \/ LateArrival

Spec == Init /\ [][Next]_vars

\* A publication's calls carry deadlines, so it ends, and the ticks after it
\* recur until an observation is made; a read of the active key that could
\* succeed again and again does; the scan, the owner and the sweeper end and
\* free what was left behind.
Fairness ==
    /\ \A i \in Ids :
          /\ WF_vars(Publish(i) \/ Observe(i))
          /\ SF_vars(ResolveActive(i) /\ res'[i] = "released")
          /\ WF_vars(End(i))
    /\ \A s \in Services : WF_vars(FreeService(s))

FairSpec == Spec /\ Fairness

-----------------------------------------------------------------------------
(* Properties.                                                             *)

Claimable == {ServiceOf[i] : i \in {j \in Ids : job[j] = "live"}}

\* A replica never puts more Services to work than the ceiling, although it
\* counts from caches that lag, a write may take effect without its answer or
\* long after it, the reads of the release rule are two, and a restart
\* forgets its reservations (Reserve, Track, ReleaseResolved, cachedLive).
CeilingHolds == Cardinality(Claimable) =< MaxLive

\* No reservation is held for ever: whatever became of its writes, one of the
\* two observations is made in the end (ReleaseResolved, resolved).
ReservationReturned ==
    \A i \in Ids : (res[i] \in {"held", "tracked"}) ~> (res[i] \in {"none", "released"})

=============================================================================
