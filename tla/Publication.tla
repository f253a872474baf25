---------------------------- MODULE Publication ----------------------------
(***************************************************************************)
(* How a Collection comes to exist, ends and is forgotten in the jobs      *)
(* bucket: internal/pgo/publisher.go (the writes of one publication),      *)
(* internal/httpapi/pgo_collections.go (the keyed create and the cancel    *)
(* handlers), internal/pgo/worker.go (scan, terminate, claim, finish) and  *)
(* internal/pgo/sweeper.go (expire, retire, sweepActive, dropReceipt,      *)
(* reconcileReceipts), over the conditional writes of internal/natskv.     *)
(*                                                                         *)
(* Every process interleaves at the granularity of one store call.  A call *)
(* ends "ok", "refused" (ErrKeyExists, ErrRevisionMismatch,                *)
(* ErrKeyNotFound) or "unavailable": indeterminate, the write is lost or   *)
(* takes effect at any later moment.                                       *)
(*                                                                         *)
(* Time is not here: what the code does once a grace, a retention, a       *)
(* deadline or a lease has passed may happen at any moment, so the safety  *)
(* properties owe nothing to a clock.  Leases are the subject of Lease.tla.*)
(***************************************************************************)
EXTENDS Naturals, FiniteSets

CONSTANTS
    Ids,         \* Collection identifiers, one per call of Publish
    Services,
    Keys,        \* idempotency receipt keys (principal, Service and header)
    NoId, NoKey, \* sentinels
    ServiceOf,   \* [Ids -> Services]
    KeyOf,       \* [Ids -> Keys \cup {NoKey}]; NoKey for a scheduled one
    HashOf,      \* [Ids -> ...]: the snapshot hash of the request
    Agents,      \* scans, owners, cancel handlers and sweeps of all replicas
    MaxLate,     \* bound: indeterminate writes outstanding at once
    MaxRev       \* bound: revisions of a record a claim or renewal may reach

ASSUME SentinelAssumption == NoId \notin Ids /\ NoKey \notin Keys

ASSUME RequestAssumption ==
    /\ ServiceOf \in [Ids -> Services]
    /\ KeyOf \in [Ids -> Keys \cup {NoKey}]

\* A receipt key hashes the principal, the namespace, the Service and the
\* Idempotency-Key together, so one key belongs to one Service.
ASSUME ReceiptKeyAssumption ==
    \A i, j \in Ids : KeyOf[i] # NoKey /\ KeyOf[i] = KeyOf[j]
                          => ServiceOf[i] = ServiceOf[j]

ASSUME BoundAssumption == MaxLate \in Nat /\ MaxRev \in Nat

VARIABLES
    job,        \* job.<id>: [state, rev]
    active,     \* active.<ns>.<svc>: [id, rev]
    receipt,    \* idem.<hash>: [id, rev]
    pub,        \* the publication of each identifier: handler and Publisher
    agent,      \* everyone else who writes
    late,       \* indeterminate writes that may still take effect
    published   \* history: identifiers whose record was ever pending

store == <<job, active, receipt>>
vars == <<job, active, receipt, pub, agent, late, published>>

-----------------------------------------------------------------------------
(* Record states.  "notPublished" is failed with reason not_published, the *)
(* one reason another part of the system tells apart.                      *)

Live        == {"pending", "running"}
Ended       == {"completed", "failed", "cancelled", "expired"}
Terminal    == Ended \cup {"notPublished"}
Standing    == Live \cup Ended
States      == Standing \cup {"absent", "initializing", "notPublished"}

\* Mutant of Stale: a failed Collection no longer binds its key.
StaleFailed(state) == state \in {"absent", "notPublished", "failed"}

\* A read of a record as gone, or as one that never became claimable: what
\* makes the receipt naming it stale.
Stale(state) == state \in {"absent", "notPublished"}

\* retirable (sweeper.go): the terminal states a sweep deletes outright.
Retirable == Terminal \ {"completed"}

-----------------------------------------------------------------------------
(* The store.  A write is a record; id names the Collection it is made     *)
(* for, and with it the Service and the receipt key it touches.            *)

JobOps   == {"createJob", "updateJob", "deleteJob"}
Writes   == [op: JobOps \cup {"createActive", "deleteActive",
                               "createReceipt", "deleteReceipt"},
             id: Ids, rev: Nat, to: States]

CreateJob(i)         == [op |-> "createJob", id |-> i, rev |-> 0, to |-> "initializing"]
UpdateJob(i, r, s)   == [op |-> "updateJob", id |-> i, rev |-> r, to |-> s]
DeleteJob(i, r)      == [op |-> "deleteJob", id |-> i, rev |-> r, to |-> "absent"]
CreateActive(i)      == [op |-> "createActive", id |-> i, rev |-> 0, to |-> "absent"]
DeleteActive(i, r)   == [op |-> "deleteActive", id |-> i, rev |-> r, to |-> "absent"]
CreateReceipt(i)     == [op |-> "createReceipt", id |-> i, rev |-> 0, to |-> "absent"]
DeleteReceipt(i, r)  == [op |-> "deleteReceipt", id |-> i, rev |-> r, to |-> "absent"]

\* Mutant of Takes: an update of a record ignores its revision.
TakesBlindUpdate(w) ==
    CASE w.op = "createJob"     -> job[w.id].state = "absent"
      [] w.op = "updateJob"     -> job[w.id].state # "absent"
      [] w.op = "deleteJob"     -> /\ job[w.id].state # "absent"
                                   /\ job[w.id].rev = w.rev
      [] w.op = "createActive"  -> active[ServiceOf[w.id]].id = NoId
      [] w.op = "deleteActive"  -> /\ active[ServiceOf[w.id]].id # NoId
                                   /\ active[ServiceOf[w.id]].rev = w.rev
      [] w.op = "createReceipt" -> receipt[KeyOf[w.id]].id = NoId
      [] w.op = "deleteReceipt" -> /\ receipt[KeyOf[w.id]].id # NoId
                                   /\ receipt[KeyOf[w.id]].rev = w.rev

\* Would the store take this write now?  Create needs the key absent; Update
\* and Delete need its revision.
Takes(w) ==
    CASE w.op = "createJob"     -> job[w.id].state = "absent"
      [] w.op \in {"updateJob", "deleteJob"}
                                -> /\ job[w.id].state # "absent"
                                   /\ job[w.id].rev = w.rev
      [] w.op = "createActive"  -> active[ServiceOf[w.id]].id = NoId
      [] w.op = "deleteActive"  -> /\ active[ServiceOf[w.id]].id # NoId
                                   /\ active[ServiceOf[w.id]].rev = w.rev
      [] w.op = "createReceipt" -> receipt[KeyOf[w.id]].id = NoId
      [] w.op = "deleteReceipt" -> /\ receipt[KeyOf[w.id]].id # NoId
                                   /\ receipt[KeyOf[w.id]].rev = w.rev

\* Every write that takes effect moves the key to a new revision, a delete
\* included: the bucket keeps a marker.
Commit(w) ==
    /\ job' = IF w.op \in JobOps
              THEN [job EXCEPT ![w.id] = [state |-> w.to, rev |-> @.rev + 1]]
              ELSE job
    /\ active' = IF w.op \in {"createActive", "deleteActive"}
                 THEN [active EXCEPT ![ServiceOf[w.id]] =
                          [id |-> IF w.op = "createActive" THEN w.id ELSE NoId,
                           rev |-> @.rev + 1]]
                 ELSE active
    /\ receipt' = IF w.op \in {"createReceipt", "deleteReceipt"}
                  THEN [receipt EXCEPT ![KeyOf[w.id]] =
                           [id |-> IF w.op = "createReceipt" THEN w.id ELSE NoId,
                            rev |-> @.rev + 1]]
                  ELSE receipt
    /\ published' = IF w.to = "pending" THEN published \cup {w.id} ELSE published

Outcomes == {"ok", "refused", "unavailable"}

\* One call of the store client and what it answers.  An unavailable answer
\* says nothing: the write never reached the store, or is still under way.
Call(w, outcome) ==
    \/ /\ outcome = "ok"
       /\ Takes(w)
       /\ Commit(w)
       /\ UNCHANGED late
    \/ /\ outcome = "refused"
       /\ ~Takes(w)
       /\ UNCHANGED <<store, published, late>>
    \/ /\ outcome = "unavailable"
       /\ UNCHANGED <<store, published>>
       /\ \/ UNCHANGED late
          \/ /\ Cardinality(late) < MaxLate
             /\ late' = late \cup {w}

\* An indeterminate write reaches the store after its caller gave up on it.
LateArrival ==
    \E w \in late :
        /\ late' = late \ {w}
        /\ IF Takes(w) THEN Commit(w) ELSE UNCHANGED <<store, published>>
        /\ UNCHANGED <<pub, agent>>

-----------------------------------------------------------------------------
(* One publication: serveCollectionCreate around Publisher.Publish.        *)

PubPCs == {"idle",
           "lookup", "lookupRecord", "clearStale",
           "createJob", "createActive", "discard",
           "loserLookup", "loserRecord",
           "createReceipt", "retryReceipt", "readReceipt", "readBound",
           "deleteBound", "recreateReceipt",
           "withdrawJob", "withdrawActive",
           "publish", "done"}

Blank(pc, id) == [pc |-> pc, rev |-> 0, arev |-> 0, rid |-> NoId, rrev |-> 0,
                  reads |-> 0, answer |-> id]

At(i, pc) == pub[i].pc = pc
Go(i, pc) == pub' = [pub EXCEPT ![i].pc = pc]

\* Forget what was read of a receipt and go on.
GoFresh(i, pc) == pub' = [pub EXCEPT ![i].pc = pc, ![i].rid = NoId, ![i].rrev = 0]

\* The handler ends; a 2xx carries the identifier the caller will poll.
Answer(i, id) == pub' = [pub EXCEPT ![i] = Blank("done", id)]

Keyed(i) == KeyOf[i] # NoKey

\* A request arrives, or a scheduler tick decides to publish.
Start(i) ==
    /\ At(i, "idle")
    /\ Go(i, IF Keyed(i) THEN "lookup" ELSE "createJob")
    /\ UNCHANGED <<store, agent, late, published>>

\* lookupReceipt reads the receipt: a miss goes on, a hit reads its record.
LookupReceipt(i, here, miss, hit) ==
    /\ At(i, here)
    /\ LET r == receipt[KeyOf[i]] IN
         pub' = IF r.id = NoId
                THEN [pub EXCEPT ![i].pc = miss]
                ELSE [pub EXCEPT ![i].pc = hit, ![i].rid = r.id, ![i].rrev = r.rev,
                                 ![i].reads = @ + 1]
    /\ UNCHANGED <<store, agent, late, published>>

\* ... and its record: a standing one is the answer, or a mismatch when the
\* key already stands for another request; a stale one goes on to stale.
LookupRecord(i, here, stale) ==
    /\ At(i, here)
    /\ LET rid == pub[i].rid IN
         \/ /\ Stale(job[rid].state)
            /\ Go(i, stale)
         \/ /\ ~Stale(job[rid].state)
            /\ Answer(i, IF HashOf[rid] = HashOf[i] THEN rid ELSE NoId)
    /\ UNCHANGED <<store, agent, late, published>>

\* A stale receipt is deleted at the revision read; a delete that said
\* anything but ok reads once more, receiptReads times in all.
ClearStale(i) ==
    /\ At(i, "clearStale")
    /\ \E o \in Outcomes :
         /\ Call(DeleteReceipt(i, pub[i].rrev), o)
         /\ GoFresh(i, IF o = "ok" \/ pub[i].reads = 2 THEN "createJob" ELSE "lookup")
    /\ UNCHANGED agent

\* Publish: the record, as initializing.
PublishCreateJob(i) ==
    /\ At(i, "createJob")
    /\ \E o \in Outcomes :
         /\ Call(CreateJob(i), o)
         /\ IF o = "ok"
            THEN pub' = [pub EXCEPT ![i].pc = "createActive", ![i].rev = job[i].rev + 1]
            ELSE Answer(i, NoId)
    /\ UNCHANGED agent

\* Publish: the Service's active key, whose create decides.
PublishCreateActive(i) ==
    /\ At(i, "createActive")
    /\ \E o \in Outcomes :
         /\ Call(CreateActive(i), o)
         /\ CASE o = "ok" ->
                   pub' = [pub EXCEPT ![i].pc = IF Keyed(i) THEN "createReceipt" ELSE "publish",
                                      ![i].arev = active[ServiceOf[i]].rev + 1]
              [] o = "refused"     -> Go(i, "discard")
              [] o = "unavailable" -> Answer(i, NoId)
    /\ UNCHANGED agent

\* discardLostRecord, then refuseLoser: a keyed loser looks its receipt up once
\* more, and clears nothing.
Discard(i) ==
    /\ At(i, "discard")
    /\ \E o \in Outcomes : Call(DeleteJob(i, pub[i].rev), o)
    /\ IF Keyed(i) THEN Go(i, "loserLookup") ELSE Answer(i, NoId)
    /\ UNCHANGED agent

\* createReceipt, its first create and the one retry of an unavailable one.
PublishCreateReceipt(i) ==
    /\ pub[i].pc \in {"createReceipt", "retryReceipt"}
    /\ \E o \in Outcomes :
         /\ Call(CreateReceipt(i), o)
         /\ Go(i, CASE o = "ok"      -> "publish"
                    [] o = "refused" -> "readReceipt"
                    [] o = "unavailable" ->
                          IF At(i, "createReceipt") THEN "retryReceipt" ELSE "withdrawJob")
    /\ UNCHANGED agent

\* createReceipt: whose receipt is there?  Its own means an earlier create
\* landed; none, or a read that fails, withdraws.
ReadReceipt(i) ==
    /\ At(i, "readReceipt")
    /\ LET r == receipt[KeyOf[i]] IN
         \/ /\ r.id = i
            /\ Go(i, "publish")
         \/ /\ r.id \notin {i, NoId}
            /\ pub' = [pub EXCEPT ![i].pc = "readBound", ![i].rid = r.id, ![i].rrev = r.rev]
         \/ Go(i, "withdrawJob")
    /\ UNCHANGED <<store, agent, late, published>>

\* Mutant of ReadBound: a receipt is replaced whatever its record is.
ReadBoundUnread(i) ==
    /\ At(i, "readBound")
    /\ Go(i, "deleteBound")
    /\ UNCHANGED <<store, agent, late, published>>

\* createReceipt: only a receipt whose record is gone may be replaced.
ReadBound(i) ==
    /\ At(i, "readBound")
    /\ \/ job[pub[i].rid].state = "absent" /\ Go(i, "deleteBound")
       \/ Go(i, "withdrawJob")
    /\ UNCHANGED <<store, agent, late, published>>

DeleteBound(i) ==
    /\ At(i, "deleteBound")
    /\ \E o \in Outcomes :
         /\ Call(DeleteReceipt(i, pub[i].rrev), o)
         /\ Go(i, IF o = "ok" THEN "recreateReceipt" ELSE "withdrawJob")
    /\ UNCHANGED agent

RecreateReceipt(i) ==
    /\ At(i, "recreateReceipt")
    /\ \E o \in Outcomes :
         /\ Call(CreateReceipt(i), o)
         /\ Go(i, IF o = "ok" THEN "publish" ELSE "withdrawJob")
    /\ UNCHANGED agent

\* withdraw: the record and then the active key, each whatever the other says.
WithdrawJob(i) ==
    /\ At(i, "withdrawJob")
    /\ \E o \in Outcomes : Call(DeleteJob(i, pub[i].rev), o)
    /\ Go(i, "withdrawActive")
    /\ UNCHANGED agent

WithdrawActive(i) ==
    /\ At(i, "withdrawActive")
    /\ \E o \in Outcomes : Call(DeleteActive(i, pub[i].arev), o)
    /\ Answer(i, NoId)
    /\ UNCHANGED agent

\* Publish: the record becomes claimable, at the revision its create returned.
PublishPending(i) ==
    /\ At(i, "publish")
    /\ \E o \in Outcomes :
         /\ Call(UpdateJob(i, pub[i].rev, "pending"), o)
         /\ Answer(i, IF o = "ok" THEN i ELSE NoId)
    /\ UNCHANGED agent

\* The handler returns early (a violation, no token, a Service shown live, no
\* capacity, a failed read, a client that left before the first write) or its
\* process dies.
Stop(i) ==
    /\ pub[i].pc \notin {"idle", "done"}
    /\ Answer(i, NoId)
    /\ UNCHANGED <<store, agent, late, published>>

Publisher(i) ==
    \/ Start(i)
    \/ LookupReceipt(i, "lookup", "createJob", "lookupRecord")
    \/ LookupRecord(i, "lookupRecord", "clearStale")
    \/ ClearStale(i)
    \/ PublishCreateJob(i)
    \/ PublishCreateActive(i)
    \/ Discard(i)
    \/ LookupReceipt(i, "loserLookup", "done", "loserRecord")
    \/ LookupRecord(i, "loserRecord", "done")
    \/ PublishCreateReceipt(i)
    \/ ReadReceipt(i)
    \/ ReadBound(i)
    \/ DeleteBound(i)
    \/ RecreateReceipt(i)
    \/ WithdrawJob(i)
    \/ WithdrawActive(i)
    \/ PublishPending(i)
    \/ Stop(i)

-----------------------------------------------------------------------------
(* Everyone else: an agent holds what it read, from the store or from a    *)
(* watched cache that may lag it, and writes from that.                    *)

AgentPCs == {"idle", "write", "releaseRead", "sweepRead", "deleteActive",
             "dropRead", "reconcileRead", "deleteReceipt"}

NoWork == [pc |-> "idle", id |-> NoId, rev |-> 0, state |-> "absent"]

Work(a, pc, id, rev, state) ==
    agent' = [agent EXCEPT ![a] = [pc |-> pc, id |-> id, rev |-> rev, state |-> state]]

Rest(a) == agent' = [agent EXCEPT ![a] = NoWork]

\* A record is read: by the scan (visit), by its owner, by a cancel request or
\* by the sweeper, whose cache may give it any older revision.
ReadRecord(a, i) ==
    /\ agent[a].pc = "idle"
    /\ job[i].state # "absent"
    /\ Work(a, "write", i, job[i].rev, job[i].state)
    /\ UNCHANGED <<store, pub, late, published>>

\* Mutant of Successors: a cancel writes a state no reader knows.
SuccessorsMisspelt(state) ==
    CASE state = "initializing" -> {"notPublished"}
      [] state = "pending"      -> {"running", "failed", "canceled"}
      [] state = "running"      -> {"running", "completed", "failed", "canceled"}
      [] state = "completed"    -> {"expired"}
      [] OTHER                  -> {}

\* What a record in each state may be updated to, and by whom: visit and
\* terminate, claim, an owner's renewal and finish, serveCollectionCancel,
\* flipExpired and ExpireGoneArtifact.
Successors(state) ==
    CASE state = "initializing" -> {"notPublished"}
      [] state = "pending"      -> {"running", "failed", "cancelled"}
      [] state = "running"      -> {"running", "completed", "failed", "cancelled"}
      [] state = "completed"    -> {"expired"}
      [] OTHER                  -> {}

\* A conditional update at the revision read.  The writer that ends a live or
\* initializing record goes on to release the Service, on ok only.
UpdateRecord(a) ==
    LET i == agent[a].id
        from == agent[a].state
    IN
    /\ agent[a].pc = "write"
    /\ \E to \in Successors(from), o \in Outcomes :
         /\ to = "running" => agent[a].rev < MaxRev
         /\ Call(UpdateJob(i, agent[a].rev, to), o)
         /\ IF o = "ok" /\ to \in Terminal /\ from \notin Terminal
            THEN Work(a, "releaseRead", i, 0, "absent")
            ELSE Rest(a)
    /\ UNCHANGED pub

\* retire: a record past its retention is deleted at the cached revision and,
\* when a read showed it keyed, its receipt is dropped next.
RetireRecord(a) ==
    LET i == agent[a].id IN
    /\ agent[a].pc = "write"
    /\ agent[a].state \in Retirable
    /\ \E o \in Outcomes :
         /\ Call(DeleteJob(i, agent[a].rev), o)
         /\ \/ o = "ok" /\ Keyed(i) /\ Work(a, "dropRead", i, 0, "absent")
            \/ Rest(a)
    /\ UNCHANGED pub

\* releaseActive: the key is deleted at the revision just read, and only while
\* it names the Collection that ended.
ReleaseRead(a) ==
    LET i == agent[a].id
        v == active[ServiceOf[i]]
    IN
    /\ agent[a].pc = "releaseRead"
    /\ IF v.id = i THEN Work(a, "deleteActive", i, v.rev, "absent") ELSE Rest(a)
    /\ UNCHANGED <<store, pub, late, published>>

\* sweepActive: a cached active key ...
SweepActive(a, s) ==
    /\ agent[a].pc = "idle"
    /\ active[s].id # NoId
    /\ Work(a, "sweepRead", active[s].id, active[s].rev, "absent")
    /\ UNCHANGED <<store, pub, late, published>>

\* Mutants of SweepRead: the fresh read only asks that the record is not
\* running; a record that is gone is not recognised as over.
SweepReadPending(a) ==
    LET i == agent[a].id IN
    /\ agent[a].pc = "sweepRead"
    /\ IF job[i].state # "running"
       THEN Work(a, "deleteActive", i, agent[a].rev, "absent")
       ELSE Rest(a)
    /\ UNCHANGED <<store, pub, late, published>>

SweepReadTerminal(a) ==
    LET i == agent[a].id IN
    /\ agent[a].pc = "sweepRead"
    /\ IF job[i].state \in Terminal
       THEN Work(a, "deleteActive", i, agent[a].rev, "absent")
       ELSE Rest(a)
    /\ UNCHANGED <<store, pub, late, published>>

\* ... goes only after a fresh read shows its Collection terminal or gone.
SweepRead(a) ==
    LET i == agent[a].id IN
    /\ agent[a].pc = "sweepRead"
    /\ IF job[i].state \in Terminal \cup {"absent"}
       THEN Work(a, "deleteActive", i, agent[a].rev, "absent")
       ELSE Rest(a)
    /\ UNCHANGED <<store, pub, late, published>>

DeleteActiveKey(a) ==
    /\ agent[a].pc = "deleteActive"
    /\ \E o \in Outcomes : Call(DeleteActive(agent[a].id, agent[a].rev), o)
    /\ Rest(a)
    /\ UNCHANGED pub

\* dropReceipt: only a receipt that still names the record just deleted.
DropRead(a) ==
    LET i == agent[a].id
        r == receipt[KeyOf[i]]
    IN
    /\ agent[a].pc = "dropRead"
    /\ IF r.id = i THEN Work(a, "deleteReceipt", i, r.rev, "absent") ELSE Rest(a)
    /\ UNCHANGED <<store, pub, late, published>>

\* reconcileReceipts: a receipt is read ...
Reconcile(a, k) ==
    /\ agent[a].pc = "idle"
    /\ receipt[k].id # NoId
    /\ Work(a, "reconcileRead", receipt[k].id, receipt[k].rev, "absent")
    /\ UNCHANGED <<store, pub, late, published>>

\* Mutant of ReconcileRead: only the receipt of an ended record is deleted.
ReconcileReadTerminal(a) ==
    LET i == agent[a].id IN
    /\ agent[a].pc = "reconcileRead"
    /\ IF job[i].state = "notPublished"
       THEN Work(a, "deleteReceipt", i, agent[a].rev, "absent")
       ELSE Rest(a)
    /\ UNCHANGED <<store, pub, late, published>>

\* ... and deleted when its record is gone.
ReconcileRead(a) ==
    LET i == agent[a].id IN
    /\ agent[a].pc = "reconcileRead"
    /\ IF job[i].state = "absent"
       THEN Work(a, "deleteReceipt", i, agent[a].rev, "absent")
       ELSE Rest(a)
    /\ UNCHANGED <<store, pub, late, published>>

DeleteReceiptKey(a) ==
    /\ agent[a].pc = "deleteReceipt"
    /\ \E o \in Outcomes : Call(DeleteReceipt(agent[a].id, agent[a].rev), o)
    /\ Rest(a)
    /\ UNCHANGED pub

\* A read fails, a pass is cut short, a replica dies.
StopAgent(a) ==
    /\ agent[a].pc # "idle"
    /\ Rest(a)
    /\ UNCHANGED <<store, pub, late, published>>

Agent(a) ==
    \/ \E i \in Ids : ReadRecord(a, i)
    \/ UpdateRecord(a)
    \/ RetireRecord(a)
    \/ ReleaseRead(a)
    \/ \E s \in Services : SweepActive(a, s)
    \/ SweepRead(a)
    \/ DeleteActiveKey(a)
    \/ DropRead(a)
    \/ \E k \in Keys : Reconcile(a, k)
    \/ ReconcileRead(a)
    \/ DeleteReceiptKey(a)
    \/ StopAgent(a)

-----------------------------------------------------------------------------

Init ==
    /\ job = [i \in Ids |-> [state |-> "absent", rev |-> 0]]
    /\ active = [s \in Services |-> [id |-> NoId, rev |-> 0]]
    /\ receipt = [k \in Keys |-> [id |-> NoId, rev |-> 0]]
    /\ pub = [i \in Ids |-> Blank("idle", NoId)]
    /\ agent = [a \in Agents |-> NoWork]
    /\ late = {}
    /\ published = {}

Next ==
    \/ \E i \in Ids : Publisher(i)
    \/ \E a \in Agents : Agent(a)
    \/ LateArrival

Spec == Init /\ [][Next]_vars

\* Scans and sweeps come back to every record, active key and receipt for as
\* long as a replica runs, and a store that is asked again and again answers in
\* the end: any one pass, read or call may fail.  Handlers promise nothing.
\* No pass hangs: every call carries a timeout.
Recurs(a) ==
    /\ WF_vars(agent[a].pc # "idle" /\ Agent(a))
    /\ \A i \in Ids : /\ SF_vars(ReadRecord(a, i))
                     /\ SF_vars(agent[a].id = i /\ UpdateRecord(a) /\ job' # job)
    /\ \A s \in Services : SF_vars(SweepActive(a, s))
    /\ \A k \in Keys : SF_vars(Reconcile(a, k))
    /\ SF_vars(SweepRead(a))
    /\ SF_vars(DeleteActiveKey(a) /\ active' # active)
    /\ SF_vars(ReconcileRead(a))
    /\ SF_vars(DeleteReceiptKey(a) /\ receipt' # receipt)

FairSpec == Spec /\ \A a \in Agents : Recurs(a)

-----------------------------------------------------------------------------
(* Properties                                                              *)

\* Every variable has its type.
TypeOK ==
    /\ job \in [Ids -> [state: States, rev: Nat]]
    /\ active \in [Services -> [id: Ids \cup {NoId}, rev: Nat]]
    /\ receipt \in [Keys -> [id: Ids \cup {NoId}, rev: Nat]]
    /\ pub \in [Ids -> [pc: PubPCs, rev: Nat, arev: Nat, rid: Ids \cup {NoId},
                         rrev: Nat, reads: Nat, answer: Ids \cup {NoId}]]
    /\ agent \in [Agents -> [pc: AgentPCs, id: Ids \cup {NoId}, rev: Nat,
                              state: States]]
    /\ late \in SUBSET Writes
    /\ published \in SUBSET Ids

\* A claimable or running Collection holds the active key of its Service, so no
\* release, sweep, withdrawal or late write ever frees a Service under the
\* Collection that runs for it, and a Service never has two.
LiveHoldsActive ==
    \A i \in Ids : job[i].state \in Live => active[ServiceOf[i]].id = i

\* A keyed Collection that ever became claimable is bound by its receipt for as
\* long as its record exists: no clean-up of a stale receipt, by a request, a
\* publication or the sweeper, takes a standing binding with it.
StandingIsBound ==
    \A i \in Ids : Keyed(i) /\ job[i].state \in Standing => receipt[KeyOf[i]].id = i

\* Callers that used one key and were answered 200 or 202 hold the same
\* identifier, as long as the Collections they were told of stand.
AnswersAgree ==
    \A i, j \in Ids :
        LET x == pub[i].answer
            y == pub[j].answer
        IN  /\ Keyed(i) /\ KeyOf[i] = KeyOf[j]
            /\ x # NoId /\ y # NoId
            /\ job[x].state \in Standing /\ job[y].state \in Standing
            => x = y

\* The record of an ended Collection changes only from completed to expired and
\* from there to deleted; a deleted one never comes back.
EndIsFinal ==
    [][\A i \in Ids :
        /\ job[i].state \in Terminal =>
              \/ job'[i] = job[i]
              \/ job[i].state = "completed" /\ job'[i].state = "expired"
              \/ job[i].state \in Retirable /\ job'[i].state = "absent"
        /\ job[i].state = "absent" /\ job[i].rev > 0 => job'[i] = job[i]]_vars

\* A publication that dies anywhere does not block its Service: an active key
\* whose Collection is not live is gone in the end (visit's publish grace and
\* sweepActive), unless the publication makes it live after all.
ServiceFreed ==
    \A i \in Ids :
        (active[ServiceOf[i]].id = i /\ job[i].state \notin Live)
            ~> (active[ServiceOf[i]].id # i \/ job[i].state \in Live)

\* A replica that dies between deleting a record and its receipt leaves a
\* receipt that is gone in the end (reconcileReceipts).
ReceiptReclaimed ==
    \A i \in Ids :
        (Keyed(i) /\ receipt[KeyOf[i]].id = i /\ job[i].state = "absent")
            ~> (receipt[KeyOf[i]].id # i)

\* The publication protocol implements Collections: the status of a Collection
\* is read off its record and the history of published identifiers.
statusMap ==
    [i \in Ids |->
        IF i \notin published THEN "unpublished"
        ELSE IF job[i].state \in Live THEN "live"
        ELSE IF job[i].state = "absent" THEN "forgotten"
        ELSE "ended"]

Abstract == INSTANCE Collections WITH status <- statusMap

\* Every step of the store maps to a step of Collections or to none.
ImplementsCollections == Abstract!Spec
=============================================================================
