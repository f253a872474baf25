----------------------------- MODULE Artifacts -----------------------------
(***************************************************************************)
(* The stored profiles: what the attempts of a Collection put in the       *)
(* artifact bucket, what the sweeper takes out of it                       *)
(* (internal/pgo/sweeper.go: expire, retire, sweepOrphans), and what a     *)
(* download or the latest route serves (internal/httpapi,                  *)
(* Session.LatestCompleted, natskv objView.Get and pumpChunks).            *)
(*                                                                         *)
(* The Collections of one Service.  Leases are Lease's subject: an attempt *)
(* may be reclaimed or ended by a scan at any moment.  A record is         *)
(* completed by one write and never written again but to expire or delete  *)
(* it, so a write conditional on a revision takes effect exactly when the  *)
(* record still is in the state the writer saw.                            *)
(***************************************************************************)
EXTENDS Naturals, Sequences, FiniteSetsExt

CONSTANTS
    Last,         \* Collections 1 .. Last, in the order they were created
    Done,         \* the Collections completed long ago, their artifacts stored
    MaxAttempts,  \* pgo.maxAttempts: claims of one Collection
    Chunks,       \* messages one stored profile is split into
    MaxListCollections,  \* records one read of the job cache returns
    MaxMishaps    \* bound: leases that lapse, and calls without an answer

ASSUME ArtifactsAssumption ==
    /\ {Last, MaxAttempts, Chunks, MaxListCollections} \subseteq Nat \ {0}
    /\ MaxMishaps \in Nat
    /\ Done \subseteq 1 .. Last

VARIABLES
    rec,      \* job.<id>: state, attempt, and the attempt whose object it names
    due,      \* whether the completed record's expiresAt is past on every clock
    objects,  \* the objects <id>-<attempt>.pprof in the bucket
    late,     \* writes whose caller was told ErrUnavailable and that still travel
    work,     \* each attempt's owner
    cached,   \* the job cache the sweeper and the latest route begin from: cachedJob
    swp,      \* the sweeper's pass
    rd,       \* one request
    budget    \* mishaps still to come

artifactVars == <<rec, due, objects, late, work, cached, swp, rd, budget>>

Ids      == 1 .. Last
Attempts == 1 .. MaxAttempts
Objects  == Ids \X Attempts

Terminal  == {"completed", "ended", "expired"}
Retirable == {"ended", "expired"}

ObjectOf(i, r) == <<i, r.art>>
Completed(rs)  == {i \in Ids : rs[i].state = "completed"}

-----------------------------------------------------------------------------
(* The store.                                                              *)

\* The conditional writes of a record and the unconditional ones of an object.
Finish(o)          == [kind |-> "finish", obj |-> o, from |-> "running"]
Flip(i)            == [kind |-> "flip", obj |-> <<i, 0>>, from |-> "completed"]
DeleteRec(i, from) == [kind |-> "deleteRec", obj |-> <<i, 0>>, from |-> from]
PutObj(o)          == [kind |-> "put", obj |-> o, from |-> ""]
DeleteObj(o)       == [kind |-> "deleteObj", obj |-> o, from |-> ""]

Takes(w) ==
    LET r == rec[w.obj[1]]
    IN  /\ w.from # "" => r.state = w.from
        /\ w.kind = "finish" => r.attempt = w.obj[2]

Written(w) ==
    LET i == w.obj[1]
    IN  CASE w.kind = "finish"    -> [rec EXCEPT ![i].state = "completed", ![i].art = w.obj[2]]
          [] w.kind = "flip"      -> [rec EXCEPT ![i].state = "expired"]
          [] w.kind = "deleteRec" -> [rec EXCEPT ![i] = [state |-> "absent", attempt |-> 1, art |-> 0]]
          [] OTHER                -> rec

Commit(w) ==
    /\ rec' = Written(w)
    /\ objects' = CASE w.kind = "put"       -> objects \cup {w.obj}
                    [] w.kind = "deleteObj" -> objects \ {w.obj}
                    [] OTHER                -> objects

Still  == UNCHANGED <<rec, objects, late>>
Quiet  == Still /\ UNCHANGED budget
Mishap == budget > 0 /\ budget' = budget - 1

\* Committed, refused, or without an answer: not done, or still to be done.
Call(w, answer) ==
    \/ answer = "ok" /\ Takes(w) /\ Commit(w) /\ UNCHANGED <<late, budget>>
    \/ answer = "refused" /\ ~Takes(w) /\ Quiet
    \/ /\ answer = "unavailable"
       /\ Mishap
       /\ late' \in {late, late \cup {w}}
       /\ UNCHANGED <<rec, objects>>

LateArrival ==
    \E w \in late :
        /\ late' = late \ {w}
        /\ IF Takes(w) THEN Commit(w) ELSE UNCHANGED <<rec, objects>>
        /\ UNCHANGED <<due, work, cached, swp, rd, budget>>

-----------------------------------------------------------------------------
(* Attempts: Rounds.finish, Worker.finish and discardArtifact.             *)

Claimed(i) == [rec EXCEPT ![i].attempt = @ + 1]

\* The lease lapsed and another replica claims the record.  The old owner may
\* not know yet.
Reclaim(i) ==
    LET k == rec[i].attempt + 1
    IN  /\ rec[i].state = "running"
        /\ k =< MaxAttempts
        /\ Mishap
        /\ rec' = Claimed(i)
        /\ work' = [work EXCEPT ![<<i, k>>] = "sampling"]
        /\ UNCHANGED <<due, objects, late, cached, swp, rd>>

\* The scan, a cancel request or an owner's failed outcome ends the record.
EndRecord(i) ==
    /\ rec[i].state = "running"
    /\ rec' = [rec EXCEPT ![i].state = "ended"]
    /\ UNCHANGED <<due, objects, late, work, cached, swp, rd, budget>>

Owner(o, to) == work' = [work EXCEPT ![o] = to]
Beside       == UNCHANGED <<due, cached, swp, rd>>

\* A Put without an answer fails the attempt, although the object may stand.
PutArtifact(o) ==
    /\ work[o] = "sampling"
    /\ \/ Call(PutObj(o), "ok") /\ Owner(o, "stored")
       \/ Call(PutObj(o), "unavailable") /\ Owner(o, "over")
    /\ Beside

\* The final update; a lost one deletes the object, whatever the reason.
FinishUpdate(o) ==
    /\ work[o] = "stored"
    /\ \/ Call(Finish(o), "ok") /\ Owner(o, "committed")
       \/ \E answer \in {"refused", "unavailable"} : Call(Finish(o), answer) /\ Owner(o, "discard")
    /\ Beside

\* The lease or the deadline had passed at the gate, the entry was cancelled,
\* or the record is too large and a failed one takes its place.
FinishSkip(o) ==
    /\ work[o] = "stored"
    /\ Owner(o, "discard")
    /\ Quiet /\ Beside

DiscardArtifact(o) ==
    /\ work[o] = "discard"
    /\ \E answer \in {"ok", "unavailable"} : Call(DeleteObj(o), answer)
    /\ Owner(o, "over")
    /\ Beside

OwnerDies(o) ==
    /\ work[o] \in {"sampling", "stored", "discard"}
    /\ Owner(o, "over")
    /\ Quiet /\ Beside

RetentionEnds(i) ==
    /\ rec[i].state = "completed"
    /\ ~due[i]
    /\ due' = [due EXCEPT ![i] = TRUE]
    /\ Quiet /\ UNCHANGED <<work, cached, swp, rd>>

CachedJob(r) == [state |-> r.state, art |-> r.art]

Deliver(i) ==
    /\ cached[i] # CachedJob(rec[i])
    /\ cached' = [cached EXCEPT ![i] = CachedJob(rec[i])]
    /\ Quiet /\ UNCHANGED <<due, work, swp, rd>>

-----------------------------------------------------------------------------
(* A pass of the sweeper.  It begins with the cached jobs and one listing, *)
(* and visits them in order; the barrier and its generation are Barrier's. *)

NoPass  == [pc |-> "idle", jobs |-> <<>>, listed |-> FALSE, list |-> {}, todo |-> {}]
Visit   == Min(swp.todo)
Rest    == swp.todo \ {Visit}

\* namedArtifacts: the objects the cached completed records name.
Named(jobs) == {ObjectOf(i, jobs[i]) : i \in Completed(jobs)}

\* A part of the pass with nothing left to visit gives way to the next.
Orphans(todo) == IF todo = {} THEN NoPass ELSE [NoPass EXCEPT !.pc = "orphans", !.todo = todo]

Retiring(p, todo) ==
    IF todo # {} THEN [p EXCEPT !.pc = "retire", !.todo = todo]
    ELSE Orphans(p.list \ Named(p.jobs))

Expiring(p, todo) ==
    IF todo # {} THEN [p EXCEPT !.pc = "expire", !.todo = todo]
    ELSE Retiring(p, {i \in Ids : p.jobs[i].state \in Retirable})

Others == UNCHANGED <<due, work, cached, rd>>

\* A failed listing is not an empty bucket: what reads it is skipped.
BeginPass ==
    /\ swp.pc = "idle"
    /\ \E listed \in BOOLEAN :
          /\ swp' = Expiring([NoPass EXCEPT !.jobs = cached, !.listed = listed,
                                            !.list = IF listed THEN objects ELSE {}],
                             Completed(cached))
          /\ IF listed THEN UNCHANGED budget ELSE Mishap
    /\ Still /\ Others

\* Mutant of MayFlip: the record is flipped whether or not the delete landed.
MayFlipAnyway(answer) == TRUE

\* dropArtifact: a delete that failed leaves the record completed.
MayFlip(answer) == answer = "ok"

ExpireDue ==
    LET i == Visit
        o == ObjectOf(i, swp.jobs[i])
    IN  /\ swp.pc = "expire" /\ swp.todo # {}
        /\ due[i]
        /\ \E answer \in {"ok", "unavailable"} :
              /\ Call(DeleteObj(o), answer)
              /\ swp' = IF MayFlip(answer) THEN [swp EXCEPT !.pc = "flip"] ELSE Expiring(swp, Rest)
        /\ Others

\* The listing only nominates; objectGone asks the store.
ExpireGone ==
    LET o == ObjectOf(Visit, swp.jobs[Visit])
    IN  /\ swp.pc = "expire" /\ swp.todo # {}
        /\ ~due[Visit]
        /\ IF swp.listed /\ o \notin swp.list /\ o \notin objects
           THEN \/ swp' = [swp EXCEPT !.pc = "flip"] /\ UNCHANGED budget
                \/ swp' = Expiring(swp, Rest) /\ Mishap
           ELSE swp' = Expiring(swp, Rest) /\ UNCHANGED budget
        /\ Still /\ Others

\* flipExpired: the body is read fresh, the update is at the cached revision.
FlipExpired ==
    /\ swp.pc = "flip"
    /\ \E answer \in {"ok", "refused", "unavailable"} : Call(Flip(Visit), answer)
    /\ swp' = Expiring(swp, Rest)
    /\ Others

\* A record past jobRetention is deleted at the cached revision; the receipt
\* that goes with it is Publication's.
Retire ==
    LET i == Visit
    IN  /\ swp.pc = "retire" /\ swp.todo # {}
        /\ \/ \E answer \in {"ok", "refused", "unavailable"} :
                  Call(DeleteRec(i, swp.jobs[i].state), answer)
           \/ Quiet
        /\ swp' = Retiring(swp, Rest)
        /\ Others

\* Mutant of GivenUp: the cache, which does not name the object, is believed.
GivenUpCached(o) == TRUE

\* Mutant of GivenUp: a record already deleted speaks for nothing.
GivenUpTerminal(o) == rec[o[1]].state \in Terminal /\ ObjectOf(o[1], rec[o[1]]) # o

\* A fresh read of the Collection the object's name encodes.
GivenUp(o) ==
    LET r == rec[o[1]]
    IN  r.state = "absent" \/ (r.state \in Terminal /\ ObjectOf(o[1], r) # o)

\* Objects younger than orphanAge are left alone, and so is one whose record
\* could not be read.
OrphanRead(o) ==
    /\ swp.pc = "orphans" /\ o \in swp.todo
    /\ \/ GivenUp(o) /\ swp' = [swp EXCEPT !.pc = "delete", !.list = {o}]
       \/ swp' = Orphans(swp.todo \ {o})
    /\ Quiet /\ Others

OrphanDelete ==
    /\ swp.pc = "delete"
    /\ \E o \in swp.list, answer \in {"ok", "unavailable"} : Call(DeleteObj(o), answer)
    /\ swp' = Orphans(swp.todo \ swp.list)
    /\ Others

-----------------------------------------------------------------------------
(* A request: the download of one Collection, or the latest of the         *)
(* Service, whose walk opens what it serves.                               *)

NoRead    == [pc |-> "idle", latest |-> FALSE, cand |-> {}, page |-> {}, left |-> {},
              id |-> 0, art |-> 0, got |-> <<>>, next |-> 0]
Read(n)   == rd' = n
Go(pc)    == Read([rd EXCEPT !.pc = pc])
Answer(a) == Read([NoRead EXCEPT !.pc = a])
Bystand   == UNCHANGED <<due, work, cached, swp>>

\* serveCollectionDownload: only a completed record is opened.
Download(i) ==
    /\ rd.pc = "idle"
    /\ rec[i].state = "completed"
    /\ Read([rd EXCEPT !.pc = "open", !.id = i, !.art = rec[i].art])
    /\ Quiet /\ Bystand

\* Caches.Collections, asked without a limit: the newest records, of any state.
Page(rs) ==
    LET held == {i \in Ids : rs[i].state # "absent"}
    IN  {i \in held : Cardinality({j \in held : j > i}) < MaxListCollections}

\* LatestCompleted: the completed ones of the page are candidates.  cand, those
\* of the whole cache, is what the route would be told of without the limit.
Latest ==
    /\ rd.pc = "idle"
    /\ Completed(cached) # {}
    /\ LET page == Page(cached) \cap Completed(cached)
       IN  Read([rd EXCEPT !.pc = "walk", !.latest = TRUE, !.cand = Completed(cached),
                           !.page = page, !.left = page])
    /\ Quiet /\ Bystand

\* Mutant of Unread: a record that cannot be read is passed over.
UnreadSkips(i) == Read([rd EXCEPT !.left = @ \ {i}])

\* A store that cannot be read says nothing about which artifact is newest.
Unread(i) == Answer("failed")

\* A candidate, newest first, read past the cache.
WalkRead ==
    LET i == Max(rd.left)
    IN  /\ rd.pc = "walk" /\ rd.left # {}
        /\ \/ /\ rec[i].state = "completed"
              /\ Read([rd EXCEPT !.pc = "open", !.id = i, !.art = rec[i].art, !.left = @ \ {i}])
           \/ rec[i].state # "completed" /\ Read([rd EXCEPT !.left = @ \ {i}])
           \/ Unread(i)
        /\ Quiet /\ Bystand

WalkOver ==
    /\ rd.pc = "walk" /\ rd.left = {}
    /\ Read([NoRead EXCEPT !.pc = "none", !.cand = rd.cand, !.page = rd.page])
    /\ Quiet /\ Bystand

\* OpenArtifact: the metadata and a consumer over the chunks.
Open ==
    /\ rd.pc = "open"
    /\ \/ /\ <<rd.id, rd.art>> \in objects
          /\ Read([rd EXCEPT !.pc = "stream", !.page = {}, !.left = {}, !.next = 1,
                              !.cand = {i \in @ : i > rd.id}])
       \/ <<rd.id, rd.art>> \notin objects /\ Go("flip")
       \/ Answer("failed")
    /\ Quiet /\ Bystand

\* ExpireGoneArtifact, after which a walk goes on.
ExpireGoneArtifact ==
    /\ rd.pc = "flip"
    /\ \E answer \in {"ok", "refused", "unavailable"} : Call(Flip(rd.id), answer)
    /\ IF rd.latest THEN Go("walk") ELSE Answer("failed")
    /\ Bystand

Whole == [n \in 1 .. Chunks |-> n]

\* pumpChunks: the next chunk, unless the object went; the last one ends the
\* read, if the digest over all of them is the object's.
PullChunk ==
    LET got == Append(rd.got, rd.next)
    IN  /\ rd.pc = "stream" /\ rd.next # 0
        /\ <<rd.id, rd.art>> \in objects
        /\ IF rd.next < Chunks THEN Read([rd EXCEPT !.got = got, !.next = @ + 1])
           ELSE Answer(IF got = Whole THEN "served" ELSE "mismatch")
        /\ Quiet /\ Bystand

\* The reader held a chunk past the inactive threshold.
ConsumerRemoved ==
    /\ rd.pc = "stream" /\ rd.next # 0
    /\ Read([rd EXCEPT !.next = 0])
    /\ Quiet /\ Bystand

\* Mutant of Resume: the new consumer delivers from the first chunk.
ResumeAtStart == 1

\* A new consumer from the chunk after the last received.
Resume == Len(rd.got) + 1

RecreateConsumer ==
    /\ rd.pc = "stream" /\ rd.next = 0
    /\ Read([rd EXCEPT !.next = Resume])
    /\ Quiet /\ Bystand

\* A pull nobody answers in time, an unavailable store, or a client that left.
\* The connection is dropped rather than the body ended.
Cut ==
    /\ rd.pc = "stream"
    /\ Answer("failed")
    /\ Quiet /\ Bystand

-----------------------------------------------------------------------------
ArtifactsInit ==
    /\ rec = [i \in Ids |-> IF i \in Done THEN [state |-> "completed", attempt |-> 1, art |-> 1]
                           ELSE [state |-> "running", attempt |-> 1, art |-> 0]]
    /\ due = [i \in Ids |-> FALSE]
    /\ objects = Done \X {1}
    /\ late = {}
    /\ work = [o \in Objects |-> IF o[2] # 1 THEN "none"
                                ELSE IF o[1] \in Done THEN "committed" ELSE "sampling"]
    /\ cached = [i \in Ids |-> CachedJob(rec[i])]
    /\ swp = NoPass
    /\ rd = NoRead
    /\ budget = MaxMishaps

Work(o) ==
    \/ PutArtifact(o) \/ FinishUpdate(o) \/ FinishSkip(o) \/ DiscardArtifact(o) \/ OwnerDies(o)

Sweep ==
    \/ BeginPass \/ ExpireDue \/ ExpireGone \/ FlipExpired
    \/ Retire \/ OrphanDelete
    \/ \E o \in Objects : OrphanRead(o)

Request ==
    \/ \E i \in Ids : Download(i)
    \/ Latest \/ WalkRead \/ WalkOver \/ Open \/ ExpireGoneArtifact
    \/ PullChunk \/ ConsumerRemoved \/ RecreateConsumer \/ Cut

ArtifactsNext ==
    \/ \E i \in Ids : Reclaim(i) \/ EndRecord(i) \/ RetentionEnds(i) \/ Deliver(i)
    \/ \E o \in Objects : Work(o)
    \/ Sweep \/ Request \/ LateArrival

ArtifactsSpec == ArtifactsInit /\ [][ArtifactsNext]_artifactVars

\* Watches deliver, every record ends, passes recur and go through, and an
\* object that stays grows older than orphanAge.
ArtifactsFairness ==
    /\ WF_artifactVars(\E i \in Ids : EndRecord(i))
    /\ WF_artifactVars(\E i \in Ids : Deliver(i))
    /\ WF_artifactVars(Sweep)
    /\ SF_artifactVars(\E o \in Objects : OrphanRead(o) /\ swp'.pc = "delete")

ArtifactsFairSpec == ArtifactsSpec /\ ArtifactsFairness

-----------------------------------------------------------------------------
(* Properties.                                                             *)

Stored(i) == ObjectOf(i, rec[i]) \in objects

\* An artifact whose owner saw its record completed stays until its retention
\* ends: not taken by an orphan sweep whose cache or listing is older than the
\* completion, by a losing attempt's clean-up, nor by a delete that arrives late
\* (sweepOrphans, discardArtifact).
CommittedIsKept ==
    \A i \in Completed(rec) : ~due[i] /\ work[ObjectOf(i, rec[i])] = "committed" => Stored(i)

\* An expired record's object is gone, whichever of the sweeper and the readers
\* flipped it and whatever became of their deletes: the orphan rule would keep
\* an object its record names (expire, dropArtifact, ExpireGoneArtifact).
ExpiredHasNoObject == \A i \in Ids : rec[i].state = "expired" => ~Stored(i)

NewestOf(ids) == \A i \in ids : i > rd.id /\ rec[i].state = "completed" => ~Stored(i)

\* The latest route passes over no newer Collection of the cache that still has
\* its artifact, and says there is none only when none of the page it read has
\* one (LatestCompleted).
LatestIsNewest ==
    /\ rd.pc = "stream" => NewestOf(rd.cand)
    /\ rd.pc = "none"   => NewestOf(rd.page)

\* A download that ends has every byte, in order, and a slow reader's is not
\* spoiled by the consumer it has to make anew (pumpChunks).
NoSpoiltRead == rd.pc # "mismatch"

\* In the end the bucket holds the artifacts of the completed Collections and
\* nothing else: what lost, late or dead attempts left is removed, and a
\* completed record without its object is flipped (sweepOrphans, expire).
BucketSettles == <>[](objects = {ObjectOf(i, rec[i]) : i \in Completed(rec)})

=============================================================================
