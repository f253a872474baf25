--------------------------- MODULE CeilingProofs ---------------------------
(***************************************************************************)
(* Proof of Ceiling's CeilingHolds for every number of publications,       *)
(* Services, outages and outstanding writes, finite or not except for the  *)
(* Services.                                                               *)
(*                                                                         *)
(* A publication counts (Loaded) from its reservation until nothing it     *)
(* wrote can make its record live any more.  Only Reserve makes one count, *)
(* and what counted before is then found twice: either its reservation is  *)
(* still there, or the caches show its record or its active key            *)
(* (IdOK's last part); a Service has one active key, so no two of them     *)
(* share a Service (the part before it).                                   *)
(***************************************************************************)
EXTENDS Ceiling, FiniteSetTheorems, TLAPS

\* The types.
Kinds == {"createJob", "createActive", "publish", "deleteJob", "deleteActive"}

Writes == [kind: Kinds, id: Ids]

\* The stages before the record is written, those whose reservation counts,
\* and those after both writes.
Fresh == {"idle", "reserve", "createSlot", "createJob"}

Counted == {"createSlot", "createJob", "createActive"}

Written == {"publish", "withdrawJob", "withdrawActive", "done"}

Stages == Fresh \cup {"createActive", "discard"} \cup Written

States == {"none", "initializing", "live", "terminal"}

Keys == Ids \cup {NoId, Other}

Types ==
    /\ job \in [Ids -> States]
    /\ active \in [Services -> Keys]
    /\ late \subseteq Writes
    /\ pc \in [Ids -> Stages]
    /\ res \in [Ids -> {"none", "held", "tracked", "released"}]
    /\ seen \in [synced: BOOLEAN, jobs: [Ids -> States], active: [Services -> Keys]]

\* A write of i that may still take effect.
Out(kind, i) == Write(kind, i) \in late

\* i's record is live or a write that makes it so is under way or travels.
Entitled(i) ==
    \/ job[i] = "live"
    \/ job[i] = "initializing" /\ (pc[i] = "publish" \/ Out("publish", i))

\* i's record came and went: no write can bring it back.
Dead(i) ==
    /\ pc[i] \notin Fresh
    /\ ~Out("createJob", i)
    /\ job[i] \in {"none", "terminal"}

\* What the replica's count knows of i.
Known(i) ==
    \/ res[i] \in {"held", "tracked"}
    \/ seen.jobs[i] \in {"initializing", "live"}
    \/ seen.active[ServiceOf[i]] = i

\* The order of i's writes, what each leaves behind, and the count.
IdOK(i) ==
    /\ pc[i] \in Fresh => job[i] = "none"
    /\ Out("createJob", i) => job[i] = "none" /\ pc[i] = "done" /\ ~Out("publish", i)
    /\ pc[i] # "done" => job[i] # "live" /\ ~Out("publish", i)
    /\ Out("deleteActive", i) => pc[i] = "done" /\ job[i] # "live" /\ ~Out("publish", i)
    /\ pc[i] \in Counted \cup {"discard"} => res[i] = "held"
    /\ res[i] = "tracked" \/ pass = i => pc[i] \in Written
    /\ seen.jobs[i] = "terminal" => Dead(i)
    /\ Entitled(i) => active[ServiceOf[i]] = i
    /\ seen.synced /\ Entitled(i) => Known(i)

\* The publications that count.
Loaded == {i \in Ids : Entitled(i) \/ pc[i] \in Counted}

\* The inductive invariant: what counts fits in the ceiling.
CeilingInv ==
    /\ Types
    /\ \A i \in Ids : IdOK(i)
    /\ IsFiniteSet(Held) /\ IsFiniteSet(Loaded)
    /\ Cardinality(Loaded) =< MaxLive

-----------------------------------------------------------------------------

\* The constants.
LEMMA Constants ==
  /\ ServiceOf \in [Ids -> Services] /\ IsFiniteSet(Services) /\ MaxLive \in Nat
  /\ NoId \notin Ids /\ Other \notin Ids /\ NoId # Other
  BY CeilingAssumption

\* A write is its kind and its id.
LEMMA WriteIs ==
  /\ \A a, b, i, j : Write(a, i) = Write(b, j) <=> a = b /\ i = j
  /\ \A k \in Kinds, i \in Ids : Write(k, i) \in Writes /\ Write(k, i).kind = k /\ Write(k, i).id = i
  /\ \A w \in Writes : w = Write(w.kind, w.id) /\ w.kind \in Kinds /\ w.id \in Ids
  BY DEF Write, Writes

\* A write that takes effect changes one record or one active key, and takes no
\* other publication's key away.
LEMMA CommitEffect ==
  ASSUME Types, NEW i \in Ids, NEW k \in Kinds, Takes(Write(k, i)), Commit(Write(k, i))
  PROVE  /\ job' \in [Ids -> States] /\ active' \in [Services -> Keys]
         /\ \A j \in Ids \ {i} :
              /\ job'[j] = job[j]
              /\ active'[ServiceOf[j]] = active[ServiceOf[j]] \/ active[ServiceOf[j]] # j
         /\ k = "createJob" => job[i] = "none" /\ job'[i] = "initializing" /\ active' = active
         /\ k = "createActive" => active'[ServiceOf[i]] = i /\ job' = job
         /\ k = "publish" => job[i] = "initializing" /\ job'[i] = "live" /\ active' = active
         /\ k = "deleteJob" => job[i] = "initializing" /\ job'[i] = "none" /\ active' = active
         /\ k = "deleteActive" => active[ServiceOf[i]] = i /\ job' = job
  <1>1. Write(k, i).kind = k /\ Write(k, i).id = i
    BY WriteIs
  <1>2. job \in [Ids -> States] /\ active \in [Services -> Keys] /\ ServiceOf[i] \in Services
    BY Constants DEF Types
  <1>3. CASE k = "createJob"
    <2>1. job[i] = "none" /\ job' = [job EXCEPT ![i] = "initializing"] /\ active' = active
      BY <1>1, <1>3 DEF Takes, Commit
    <2> QED
      BY <1>2, <1>3, <2>1 DEF States
  <1>4. CASE k = "createActive"
    <2>1. active[ServiceOf[i]] = NoId /\ active' = [active EXCEPT ![ServiceOf[i]] = i] /\ job' = job
      BY <1>1, <1>4 DEF Takes, Commit
    <2> QED
      BY <1>2, <1>4, <2>1, Constants DEF Keys
  <1>5. CASE k = "publish"
    <2>1. job[i] = "initializing" /\ job' = [job EXCEPT ![i] = "live"] /\ active' = active
      BY <1>1, <1>5 DEF Takes, Commit
    <2> QED
      BY <1>2, <1>5, <2>1 DEF States
  <1>6. CASE k = "deleteJob"
    <2>1. job[i] = "initializing" /\ job' = [job EXCEPT ![i] = "none"] /\ active' = active
      BY <1>1, <1>6 DEF Takes, Commit
    <2> QED
      BY <1>2, <1>6, <2>1 DEF States
  <1>7. CASE k = "deleteActive"
    <2>1. active[ServiceOf[i]] = i /\ active' = [active EXCEPT ![ServiceOf[i]] = NoId] /\ job' = job
      BY <1>1, <1>7 DEF Takes, Commit
    <2> QED
      BY <1>2, <1>7, <2>1, Constants DEF Keys
  <1> QED
    BY <1>3, <1>4, <1>5, <1>6, <1>7 DEF Kinds

\* The same of a call, which may also leave its write travelling.
LEMMA CallEffect ==
  ASSUME Types, NEW i \in Ids, NEW k \in Kinds, NEW answer, Call(Write(k, i), answer)
  PROVE  /\ job' \in [Ids -> States] /\ active' \in [Services -> Keys] /\ late' \subseteq Writes
         /\ \A j \in Ids \ {i} :
              /\ job'[j] = job[j] /\ \A n \in Kinds : Out(n, j)' <=> Out(n, j)
              /\ active'[ServiceOf[j]] = active[ServiceOf[j]] \/ active[ServiceOf[j]] # j
         /\ \A n \in Kinds \ {k} : Out(n, i)' <=> Out(n, i)
         /\ Out(k, i)' => Out(k, i) \/ answer = "unavailable"
         /\ answer = "ok" => Takes(Write(k, i)) /\ Commit(Write(k, i))
         /\ answer # "ok" => job' = job /\ active' = active
  <1>1. CASE answer = "ok"
    <2>1. Takes(Write(k, i)) /\ Commit(Write(k, i)) /\ late' = late
      BY <1>1 DEF Call
    <2>2. \A n \in Kinds, j \in Ids : Out(n, j)' <=> Out(n, j)
      BY <2>1 DEF Out
    <2> QED
      BY <1>1, <2>1, <2>2, CommitEffect DEF Types
  <1>2. CASE answer # "ok"
    <2>1. job' = job /\ active' = active
          /\ (late' = late \/ (answer = "unavailable" /\ late' = late \cup {Write(k, i)}))
      BY <1>2 DEF Call, store
    <2>2. late' \subseteq Writes
      BY <2>1, WriteIs DEF Types
    <2>3. \A n \in Kinds, j \in Ids : n # k \/ j # i => (Out(n, j)' <=> Out(n, j))
      BY <2>1, WriteIs DEF Out
    <2>4. Out(k, i)' => Out(k, i) \/ answer = "unavailable"
      BY <2>1 DEF Out
    <2> QED
      BY <1>2, <2>1, <2>2, <2>3, <2>4 DEF Types
  <1> QED
    BY <1>1, <1>2

\* A publication the step does not touch keeps its invariant and its count.
LEMMA IdStays ==
  ASSUME NEW j \in Ids, IdOK(j), job'[j] = job[j], pc'[j] = pc[j], res'[j] = res[j],
         \A n \in Kinds : Out(n, j)' <=> Out(n, j),
         active'[ServiceOf[j]] = active[ServiceOf[j]] \/ active[ServiceOf[j]] # j,
         seen' = seen, pass' = j => pass = j
  PROVE  IdOK(j)' /\ (Entitled(j)' <=> Entitled(j))
  BY DEF IdOK, Entitled, Dead, Known, Kinds

\* What a step has to show: the invariant of each publication, and that nothing
\* begins to count.
Settles(j) ==
    /\ IdOK(j)'
    /\ Entitled(j)' \/ pc'[j] \in Counted => Entitled(j) \/ pc[j] \in Counted
    /\ res'[j] \in {"held", "tracked"} => res[j] \in {"held", "tracked"}

\* The parts of a step, put together.
LEMMA Assembled ==
  ASSUME CeilingInv, Types', \A j \in Ids : Settles(j)
  PROVE  CeilingInv'
  <1>1. Loaded' \subseteq Loaded /\ Held' \subseteq Held
    BY DEF Settles, Loaded, Held
  <1>2. IsFiniteSet(Loaded') /\ Cardinality(Loaded') =< Cardinality(Loaded) /\ IsFiniteSet(Held')
    BY <1>1, FS_Subset DEF CeilingInv
  <1>3. Cardinality(Loaded') \in Nat /\ Cardinality(Loaded) \in Nat /\ MaxLive \in Nat
    BY <1>2, FS_CardinalityType, Constants DEF CeilingInv
  <1>4. Cardinality(Loaded') =< MaxLive
    BY <1>2, <1>3 DEF CeilingInv
  <1> QED
    BY <1>2, <1>4 DEF CeilingInv, Settles

\* A step of one publication.
LEMMA OneMoves ==
  ASSUME CeilingInv, Types', NEW i \in Ids, Settles(i), seen' = seen,
         \A j \in Ids \ {i} :
            /\ job'[j] = job[j] /\ pc'[j] = pc[j] /\ res'[j] = res[j] /\ (pass' = j => pass = j)
            /\ \A n \in Kinds : Out(n, j)' <=> Out(n, j)
            /\ active'[ServiceOf[j]] = active[ServiceOf[j]] \/ active[ServiceOf[j]] # j
  PROVE  CeilingInv'
  <1>1. \A j \in Ids \ {i} : Settles(j)
    BY IdStays DEF CeilingInv, Settles
  <1> QED
    BY <1>1, Assembled

-----------------------------------------------------------------------------
(* A publication.                                                          *)

\* The states of a reservation.
Holds == {"none", "held", "tracked", "released"}

\* i goes on to a stage with a reservation.
Moves(i, to, as) ==
    /\ pc' = [pc EXCEPT ![i] = to]
    /\ res' = [res EXCEPT ![i] = as]
    /\ UNCHANGED <<seen, pass>>

\* One call, then the stage and the reservation it ends with.
LEMMA CallStep ==
  ASSUME CeilingInv, NEW i \in Ids, NEW k \in Kinds, NEW answer, Call(Write(k, i), answer),
         NEW to \in Stages, NEW as \in Holds, Moves(i, to, as),
         pc'[i] = to /\ res'[i] = as => Settles(i)
  PROVE  CeilingInv'
  <1>1. Types
    BY DEF CeilingInv
  <1>2. /\ pc' \in [Ids -> Stages] /\ res' \in [Ids -> Holds] /\ pc'[i] = to /\ res'[i] = as
        /\ \A j \in Ids \ {i} : pc'[j] = pc[j] /\ res'[j] = res[j]
    BY <1>1 DEF Moves, Types, Holds
  <1>3. Types'
    BY <1>1, <1>2, CallEffect DEF Types, Moves, Holds
  <1>4. \A j \in Ids \ {i} :
          /\ job'[j] = job[j] /\ \A n \in Kinds : Out(n, j)' <=> Out(n, j)
          /\ active'[ServiceOf[j]] = active[ServiceOf[j]] \/ active[ServiceOf[j]] # j
    BY <1>1, CallEffect
  <1>5. seen' = seen /\ pass' = pass /\ Settles(i)
    BY <1>2 DEF Moves
  <1> QED
    BY <1>2, <1>3, <1>4, <1>5, OneMoves

\* A step without a call.
LEMMA LocalStep ==
  ASSUME CeilingInv, NEW i \in Ids, UNCHANGED store,
         NEW to \in Stages, NEW as \in Holds, Moves(i, to, as),
         pc'[i] = to /\ res'[i] = as => Settles(i)
  PROVE  CeilingInv'
  <1>1. Types /\ job' = job /\ active' = active /\ late' = late
    BY DEF CeilingInv, store
  <1>2. /\ pc' \in [Ids -> Stages] /\ res' \in [Ids -> Holds] /\ pc'[i] = to /\ res'[i] = as
        /\ \A j \in Ids \ {i} : pc'[j] = pc[j] /\ res'[j] = res[j]
    BY <1>1 DEF Moves, Types, Holds
  <1>3. Types'
    BY <1>1, <1>2 DEF Types, Moves, Holds
  <1>4. \A j \in Ids, n \in Kinds : Out(n, j)' <=> Out(n, j)
    BY <1>1 DEF Out
  <1> QED
    BY <1>1, <1>2, <1>3, <1>4, OneMoves DEF Moves

\* A publication's stage and reservation, as the lemmas above take them.
LEMMA MovesForms ==
  ASSUME Types, NEW i \in Ids, Aside
  PROVE  /\ \A to : Goes(i, to) /\ res' = res => Moves(i, to, res[i])
         /\ \A to, as : Goes(i, to) /\ res' = [res EXCEPT ![i] = as] => Moves(i, to, as)
         /\ res[i] \in Holds
  BY DEF Types, Aside, Goes, Moves, Holds

\* The live check.
LEMMA CheckLiveInv ==
  ASSUME CeilingInv, NEW i \in Ids, CheckLive(i)
  PROVE  CeilingInv'
  <1>1. UNCHANGED store /\ Moves(i, "reserve", res[i]) /\ res[i] \in Holds /\ pc[i] = "idle" /\ IdOK(i)
    BY MovesForms DEF CheckLive, CeilingInv
  <1>2. ASSUME pc'[i] = "reserve", res'[i] = res[i] PROVE Settles(i)
    BY <1>1, <1>2 DEF Settles, IdOK, Entitled, Dead, Known, Out, Fresh, Counted, Written, Moves, store
  <1> QED
    BY <1>1, <1>2, LocalStep DEF Stages, Fresh

\* The slot.
LEMMA CreateSlotInv ==
  ASSUME CeilingInv, NEW i \in Ids, CreateSlot(i)
  PROVE  CeilingInv'
  <1>1. UNCHANGED store /\ pc[i] = "createSlot" /\ IdOK(i)
        /\ \/ Moves(i, "createJob", res[i]) /\ res[i] \in Holds
           \/ Moves(i, "done", "released")
    BY MovesForms DEF CreateSlot, CeilingInv, Ends
  <1>2. ASSUME pc'[i] = "createJob", res'[i] = res[i], UNCHANGED <<seen, pass>> PROVE Settles(i)
    BY <1>1, <1>2 DEF Settles, IdOK, Entitled, Dead, Known, Out, Fresh, Counted, Written, store
  <1>3. ASSUME pc'[i] = "done", res'[i] = "released", UNCHANGED <<seen, pass>> PROVE Settles(i)
    BY <1>1, <1>3 DEF Settles, IdOK, Entitled, Dead, Known, Out, Fresh, Counted, Written, store
  <1> QED
    BY <1>1, <1>2, <1>3, LocalStep DEF Stages, Written, Fresh, Holds, Moves

\* The record.
LEMMA CreateJobInv ==
  ASSUME CeilingInv, NEW i \in Ids, CreateJob(i)
  PROVE  CeilingInv'
  <1> DEFINE w == Write("createJob", i)
  <1>1. /\ pc[i] = "createJob" /\ IdOK(i) /\ Types /\ "createJob" \in Kinds
        /\ \/ Call(w, "ok") /\ Moves(i, "createActive", res[i]) /\ res[i] \in Holds
           \/ UNCHANGED store /\ Moves(i, "done", "released")
           \/ Call(w, "unavailable") /\ Moves(i, "done", "tracked")
    BY MovesForms DEF CreateJob, CeilingInv, Ends, Kinds
  <1>2. CASE Call(w, "ok") /\ Moves(i, "createActive", res[i]) /\ res[i] \in Holds
    <2>1. /\ job'[i] = "initializing" /\ active' = active /\ ~Out("createJob", i)'
          /\ (Out("publish", i)' <=> Out("publish", i)) /\ (Out("deleteActive", i)' <=> Out("deleteActive", i))
      BY <1>1, <1>2, CallEffect, CommitEffect DEF Kinds, IdOK
    <2>2. ASSUME pc'[i] = "createActive", res'[i] = res[i] PROVE Settles(i)
      BY <1>1, <1>2, <2>1, <2>2 DEF Settles, IdOK, Entitled, Dead, Known, Fresh, Counted, Written, Moves
    <2> QED
      BY <1>1, <1>2, <2>2, CallStep DEF Stages, Written
  <1>3. CASE UNCHANGED store /\ Moves(i, "done", "released")
    <2>1. ASSUME pc'[i] = "done", res'[i] = "released" PROVE Settles(i)
      BY <1>1, <1>3, <2>1 DEF Settles, IdOK, Entitled, Dead, Known, Out, Fresh, Counted, Written, store, Moves
    <2> QED
      BY <1>3, <2>1, LocalStep DEF Stages, Written, Holds
  <1>4. CASE Call(w, "unavailable") /\ Moves(i, "done", "tracked")
    <2>1. /\ job' = job /\ active' = active
          /\ (Out("publish", i)' <=> Out("publish", i)) /\ (Out("deleteActive", i)' <=> Out("deleteActive", i))
      BY <1>1, <1>4, CallEffect DEF Kinds
    <2>2. ASSUME pc'[i] = "done", res'[i] = "tracked" PROVE Settles(i)
      BY <1>1, <1>4, <2>1, <2>2 DEF Settles, IdOK, Entitled, Dead, Known, Fresh, Counted, Written, Moves
    <2> QED
      BY <1>1, <1>4, <2>2, CallStep DEF Stages, Written, Holds
  <1> QED
    BY <1>1, <1>2, <1>3, <1>4

\* The active key: with it the publication is entitled, and tracked.
LEMMA CreateActiveInv ==
  ASSUME CeilingInv, NEW i \in Ids, CreateActive(i)
  PROVE  CeilingInv'
  <1> DEFINE w == Write("createActive", i)
  <1>1. /\ pc[i] = "createActive" /\ IdOK(i) /\ Types /\ "createActive" \in Kinds
        /\ \/ Call(w, "ok") /\ Moves(i, "publish", "tracked")
           \/ Call(w, "refused") /\ Moves(i, "discard", res[i]) /\ res[i] \in Holds
           \/ Call(w, "unavailable") /\ Moves(i, "done", "tracked")
    BY MovesForms DEF CreateActive, CeilingInv, Ends, Kinds
  <1>2. ASSUME NEW answer, Call(w, answer)
        PROVE  \A k \in {"createJob", "publish", "deleteActive"} : Out(k, i)' <=> Out(k, i)
    BY <1>1, <1>2, CallEffect DEF Kinds
  <1>3. CASE Call(w, "ok") /\ Moves(i, "publish", "tracked")
    <2>1. job' = job /\ active'[ServiceOf[i]] = i
      BY <1>1, <1>3, CallEffect, CommitEffect
    <2>2. ASSUME pc'[i] = "publish", res'[i] = "tracked" PROVE Settles(i)
      BY <1>1, <1>2, <1>3, <2>1, <2>2 DEF Settles, IdOK, Entitled, Dead, Known, Fresh, Counted, Written, Moves
    <2> QED
      BY <1>1, <1>3, <2>2, CallStep DEF Stages, Written, Holds
  <1>4. CASE Call(w, "refused") /\ Moves(i, "discard", res[i]) /\ res[i] \in Holds
    <2>1. job' = job /\ active' = active
      BY <1>1, <1>4, CallEffect
    <2>2. ASSUME pc'[i] = "discard", res'[i] = res[i] PROVE Settles(i)
      BY <1>1, <1>2, <1>4, <2>1, <2>2 DEF Settles, IdOK, Entitled, Dead, Known, Fresh, Counted, Written, Moves
    <2> QED
      BY <1>1, <1>4, <2>2, CallStep DEF Stages, Written
  <1>5. CASE Call(w, "unavailable") /\ Moves(i, "done", "tracked")
    <2>1. job' = job /\ active' = active
      BY <1>1, <1>5, CallEffect
    <2>2. ASSUME pc'[i] = "done", res'[i] = "tracked" PROVE Settles(i)
      BY <1>1, <1>2, <1>5, <2>1, <2>2 DEF Settles, IdOK, Entitled, Dead, Known, Fresh, Counted, Written, Moves
    <2> QED
      BY <1>1, <1>5, <2>2, CallStep DEF Stages, Written, Holds
  <1> QED
    BY <1>1, <1>3, <1>4, <1>5

\* A delete of the record by its publisher: nothing of it was entitled.
LEMMA DeleteJobStep ==
  ASSUME CeilingInv, NEW i \in Ids, pc[i] \in {"discard", "withdrawJob"}, NEW answer,
         Call(Write("deleteJob", i), answer), answer \in {"ok", "refused", "unavailable"},
         NEW to \in {"withdrawActive", "done"}, NEW as \in Holds, Moves(i, to, as),
         as \in {"held", "tracked"} => res[i] \in {"held", "tracked"}
  PROVE  CeilingInv'
  <1>1. IdOK(i) /\ Types /\ "deleteJob" \in Kinds
    BY DEF CeilingInv, Kinds
  <1>2. \A k \in {"createJob", "publish", "deleteActive"} : Out(k, i)' <=> Out(k, i)
    BY <1>1, CallEffect DEF Kinds
  <1>3. active' = active /\ (job'[i] = job[i] \/ job'[i] = "none")
    BY <1>1, CallEffect, CommitEffect
  <1>4. ASSUME pc'[i] = to, res'[i] = as PROVE Settles(i)
    BY <1>1, <1>2, <1>3, <1>4 DEF Settles, IdOK, Entitled, Dead, Known, Fresh, Counted, Written, Moves
  <1> QED
    BY <1>1, <1>4, CallStep DEF Stages, Written

\* The record of a lost active key is discarded.
LEMMA DiscardInv ==
  ASSUME CeilingInv, NEW i \in Ids, Discard(i)
  PROVE  CeilingInv'
  <1>1. Types /\ IdOK(i) /\ pc[i] = "discard" /\ res[i] = "held"
    BY DEF CeilingInv, Discard, IdOK
  <1>2. PICK answer \in {"ok", "refused", "unavailable"}, as \in {"released", "tracked"} :
          Call(Write("deleteJob", i), answer) /\ Moves(i, "done", as)
    BY <1>1, MovesForms DEF Discard, Ends
  <1> QED
    BY <1>1, <1>2, DeleteJobStep DEF Holds

\* A receipt that failed.
LEMMA ReceiptFailsInv ==
  ASSUME CeilingInv, NEW i \in Ids, ReceiptFails(i)
  PROVE  CeilingInv'
  <1>1. UNCHANGED store /\ Moves(i, "withdrawJob", res[i]) /\ res[i] \in Holds /\ pc[i] = "publish"
        /\ IdOK(i)
    BY MovesForms DEF ReceiptFails, CeilingInv
  <1>2. ASSUME pc'[i] = "withdrawJob", res'[i] = res[i] PROVE Settles(i)
    BY <1>1, <1>2 DEF Settles, IdOK, Entitled, Dead, Known, Out, Fresh, Counted, Written, Moves, store
  <1> QED
    BY <1>1, <1>2, LocalStep DEF Stages, Written

\* A publication withdrawn: its record, then its active key.
LEMMA WithdrawInv ==
  ASSUME CeilingInv, NEW i \in Ids, Withdraw(i)
  PROVE  CeilingInv'
  <1>1. Types /\ IdOK(i) /\ res' = res /\ Aside
    BY DEF CeilingInv, Withdraw
  <1>2. CASE pc[i] = "withdrawJob"
    <2>1. PICK answer \in {"ok", "refused", "unavailable"} :
            Call(Write("deleteJob", i), answer) /\ Goes(i, "withdrawActive")
      BY <1>2 DEF Withdraw
    <2> QED
      BY <1>1, <1>2, <2>1, MovesForms, DeleteJobStep
  <1>3. CASE pc[i] = "withdrawActive"
    <2>1. PICK answer \in {"ok", "refused", "unavailable"} :
            Call(Write("deleteActive", i), answer) /\ Goes(i, "done")
      BY <1>3 DEF Withdraw
    <2>2. Moves(i, "done", res[i]) /\ res[i] \in Holds /\ "deleteActive" \in Kinds
      BY <1>1, <2>1, MovesForms DEF Kinds
    <2>3. \A k \in {"createJob", "publish"} : Out(k, i)' <=> Out(k, i)
      BY <1>1, <2>1, CallEffect DEF Kinds
    <2>4. job' = job
      BY <1>1, <2>1, <2>2, CallEffect, CommitEffect
    <2>5. ASSUME pc'[i] = "done", res'[i] = res[i] PROVE Settles(i)
      BY <1>1, <1>3, <2>2, <2>3, <2>4, <2>5
         DEF Settles, IdOK, Entitled, Dead, Known, Fresh, Counted, Written, Moves
    <2> QED
      BY <2>1, <2>2, <2>5, CallStep DEF Stages, Written
  <1> QED
    BY <1>2, <1>3 DEF Withdraw

\* The publication itself.
LEMMA PublishPendingInv ==
  ASSUME CeilingInv, NEW i \in Ids, PublishPending(i)
  PROVE  CeilingInv'
  <1>1. Types /\ IdOK(i) /\ pc[i] = "publish" /\ "publish" \in Kinds
    BY DEF CeilingInv, PublishPending, Kinds
  <1>2. PICK answer \in {"ok", "refused", "unavailable"} : Call(Write("publish", i), answer)
    BY DEF PublishPending
  <1>3. Moves(i, "done", res[i]) /\ res[i] \in Holds
    BY <1>1, MovesForms DEF PublishPending
  <1>4. \A k \in {"createJob", "deleteActive"} : Out(k, i)' <=> Out(k, i)
    BY <1>1, <1>2, CallEffect DEF Kinds
  <1>5. /\ active' = active
        /\ job'[i] = job[i] \/ (job[i] = "initializing" /\ job'[i] = "live")
    <2>1. CASE answer = "ok"
      BY <1>1, <1>2, <2>1, CallEffect, CommitEffect
    <2>2. CASE answer # "ok"
      BY <1>1, <1>2, <2>2, CallEffect
    <2> QED
      BY <2>1, <2>2
  <1>6. ASSUME pc'[i] = "done", res'[i] = res[i] PROVE Settles(i)
    BY <1>1, <1>3, <1>4, <1>5, <1>6 DEF Settles, IdOK, Entitled, Dead, Known, Fresh, Counted, Written, Moves
  <1> QED
    BY <1>1, <1>2, <1>3, <1>6, CallStep DEF Stages, Written

-----------------------------------------------------------------------------
(* The reservation, taken and given back.                                  *)

\* A cached sighting, or an active key that is not i's, releases i.
LEMMA ReleaseInv ==
  ASSUME CeilingInv, NEW i \in Ids, ResolveCached(i) \/ ResolveRecord(i) \/ ResolveActive(i)
  PROVE  CeilingInv'
  <1>1. UNCHANGED <<job, active, late, pc, seen>> /\ Types /\ IdOK(i)
    BY DEF ResolveCached, ResolveRecord, ResolveActive, CeilingInv, store
  <1>2. pc[i] \in Written /\ pass' \in {NoId, pass, i}
    BY <1>1 DEF ResolveCached, ResolveRecord, ResolveActive, Due, IdOK
  <1>3. \/ res' = res
        \/ /\ res' = [res EXCEPT ![i] = "released"]
           /\ Delivered(i) \/ active[ServiceOf[i]] # i
    BY DEF ResolveCached, ResolveRecord, ResolveActive, Release
  <1>4. /\ Types' /\ \A j \in Ids \ {i} : res'[j] = res[j]
        /\ res'[i] = res[i] \/ (res'[i] = "released" /\ (Delivered(i) \/ active[ServiceOf[i]] # i))
    BY <1>1, <1>3 DEF Types
  <1>5. seen.jobs[i] \in States
    BY <1>1 DEF Types
  <1>6. \A j \in Ids, n \in Kinds : Out(n, j)' <=> Out(n, j)
    BY <1>1 DEF Out
  <1>7. Settles(i)
    BY <1>1, <1>2, <1>4, <1>5, <1>6
       DEF Settles, IdOK, Entitled, Dead, Known, Delivered, Kinds, States, Counted, Written
  <1>8. \A j \in Ids \ {i} : pass' = j => pass = j
    BY <1>2, Constants
  <1> QED
    BY <1>1, <1>4, <1>6, <1>7, <1>8, OneMoves

\* The publications that count are found by the count: those without a
\* reservation have a Service of their own among the cached ones.
LEMMA CountCovers ==
  ASSUME CeilingInv, seen.synced
  PROVE  /\ IsFiniteSet(CachedLive) /\ Cardinality(CachedLive) \in Nat /\ Cardinality(Held) \in Nat
         /\ Cardinality(Loaded) =< Cardinality(CachedLive) + Cardinality(Held)
  <1> DEFINE U == Loaded \ Held
             V == Loaded \cap Held
             f == [i \in U |-> ServiceOf[i]]
  <1>1. CachedLive \subseteq Services
    BY Constants DEF CachedLive
  <1>2. IsFiniteSet(CachedLive) /\ Cardinality(CachedLive) \in Nat
    BY <1>1, Constants, FS_Subset, FS_CardinalityType
  <1>3. \A i \in U : Entitled(i) /\ active[ServiceOf[i]] = i /\ ServiceOf[i] \in CachedLive
    <2> SUFFICES ASSUME NEW i \in Ids, i \in U
                 PROVE  Entitled(i) /\ active[ServiceOf[i]] = i /\ ServiceOf[i] \in CachedLive
      BY DEF Loaded
    <2>1. IdOK(i) /\ res[i] \notin {"held", "tracked"} /\ ServiceOf[i] \in Services
      BY Constants DEF CeilingInv, Held
    <2>2. Entitled(i)
      BY <2>1 DEF Loaded, IdOK
    <2>3. Known(i) /\ active[ServiceOf[i]] = i
      BY <2>1, <2>2 DEF IdOK
    <2>4. CASE seen.jobs[i] \in {"initializing", "live"}
      BY <2>2, <2>3, <2>4 DEF CachedLive
    <2>5. CASE seen.active[ServiceOf[i]] = i
      BY <2>1, <2>2, <2>3, <2>5, Constants DEF CachedLive
    <2> QED
      BY <2>1, <2>3, <2>4, <2>5 DEF Known
  <1>4. f \in Injection(U, CachedLive)
    <2>1. f \in [U -> CachedLive]
      BY <1>3
    <2>2. \A i, j \in U : f[i] = f[j] => i = j
      BY <1>3
    <2> HIDE DEF f, U
    <2> QED
      BY <2>1, <2>2 DEF Injection, IsInjective
  <1> HIDE DEF f
  <1>5. Cardinality(U) =< Cardinality(CachedLive) /\ IsFiniteSet(U)
    BY <1>2, <1>4, FS_Injection
  <1>6. /\ IsFiniteSet(V) /\ Cardinality(V) =< Cardinality(Held) /\ Cardinality(Held) \in Nat
        /\ Cardinality(V) \in Nat /\ Cardinality(U) \in Nat /\ Cardinality(Loaded) \in Nat
    <2>1. V \subseteq Held
      OBVIOUS
    <2> HIDE DEF V
    <2> QED
      BY <1>5, <2>1, FS_Subset, FS_CardinalityType DEF CeilingInv
  <1>7. Cardinality(U) = Cardinality(Loaded) - Cardinality(V)
    BY FS_Difference DEF CeilingInv
  <1> HIDE DEF U, V
  <1> QED
    BY <1>2, <1>5, <1>6, <1>7

\* A reservation is taken when there is room beside all that count.
LEMMA ReserveInv ==
  ASSUME CeilingInv, NEW i \in Ids, Reserve(i)
  PROVE  CeilingInv'
  <1>1. pc[i] = "reserve" /\ UNCHANGED <<job, active, late, seen, pass>> /\ Types /\ IdOK(i)
    BY DEF Reserve, Aside, store, CeilingInv
  <1>2. \A j \in Ids, n \in Kinds : Out(n, j)' <=> Out(n, j)
    BY <1>1 DEF Out
  <1>3. CASE res' = res /\ Goes(i, "idle")
    <2>1. UNCHANGED store /\ Moves(i, "idle", res[i]) /\ res[i] \in Holds
      BY <1>1, <1>3, MovesForms DEF Reserve
    <2>2. ASSUME pc'[i] = "idle", res'[i] = res[i] PROVE Settles(i)
      BY <1>1, <1>2, <2>2 DEF Settles, IdOK, Entitled, Dead, Known, Fresh, Counted, Written, Kinds
    <2> QED
      BY <2>1, <2>2, LocalStep DEF Stages, Fresh
  <1>4. CASE /\ seen.synced /\ RoomFor /\ res' = [res EXCEPT ![i] = "held"]
             /\ Goes(i, IF i \in Scheduled THEN "createSlot" ELSE "createJob")
    <2>1. PICK to \in {"createSlot", "createJob"} : pc' = [pc EXCEPT ![i] = to]
      BY <1>4 DEF Goes
    <2>2. Types'
      BY <1>1, <1>4, <2>1 DEF Types, Stages, Fresh
    <2>3. pc'[i] = to /\ res'[i] = "held" /\ \A j \in Ids \ {i} : pc'[j] = pc[j] /\ res'[j] = res[j]
      BY <1>1, <1>4, <2>1 DEF Types
    <2>4. IdOK(i)'
      BY <1>1, <1>2, <2>3 DEF IdOK, Entitled, Dead, Known, Fresh, Counted, Written, Kinds
    <2>5. \A j \in Ids \ {i} : IdOK(j)' /\ (Entitled(j)' <=> Entitled(j))
      BY <1>1, <1>2, <2>3, IdStays DEF CeilingInv
    <2>6. Loaded' \subseteq Loaded \cup {i} /\ Held' \subseteq Held \cup {i}
      BY <2>3, <2>5 DEF Loaded, Held
    <2>7. /\ IsFiniteSet(Loaded \cup {i}) /\ IsFiniteSet(Held \cup {i})
          /\ Cardinality(Loaded \cup {i}) =< Cardinality(Loaded) + 1 /\ Cardinality(Loaded) \in Nat
          /\ Cardinality(Loaded \cup {i}) \in Nat
      <3>1. IsFiniteSet(Loaded) /\ IsFiniteSet(Held)
        BY DEF CeilingInv
      <3>2. Cardinality(Loaded) \in Nat
        BY <3>1, FS_CardinalityType
      <3>3. /\ IsFiniteSet(Loaded \cup {i}) /\ IsFiniteSet(Held \cup {i})
            /\ Cardinality(Loaded \cup {i}) \in {Cardinality(Loaded), Cardinality(Loaded) + 1}
        BY <3>1, FS_AddElement
      <3> QED
        BY <3>2, <3>3
    <2>8. IsFiniteSet(Loaded') /\ IsFiniteSet(Held') /\ Cardinality(Loaded') \in Nat
          /\ Cardinality(Loaded') =< Cardinality(Loaded \cup {i})
      BY <2>6, <2>7, FS_Subset, FS_CardinalityType
    <2>9. Cardinality(Loaded) < MaxLive
      BY <1>4, <2>7, CountCovers, Constants DEF RoomFor
    <2>10. Cardinality(Loaded') =< MaxLive
      BY <2>7, <2>8, <2>9, Constants
    <2> QED
      BY <2>2, <2>4, <2>5, <2>8, <2>10 DEF CeilingInv
  <1> QED
    BY <1>3, <1>4 DEF Reserve

-----------------------------------------------------------------------------
(* The rest of the store, the caches and the outages.                      *)

\* A record ends or is forgotten.
LEMMA RecordInv ==
  ASSUME CeilingInv, NEW i \in Ids, End(i) \/ Retire(i)
  PROVE  CeilingInv'
  <1>1. PICK x \in {"terminal", "none"} :
          job' = [job EXCEPT ![i] = x] /\ job[i] \in {"initializing", "live", "terminal"}
    BY DEF End, Retire
  <1>2. UNCHANGED <<active, late, pc, res, seen, pass>> /\ Types /\ IdOK(i)
    BY DEF End, Retire, CeilingInv
  <1>3. Types' /\ job'[i] = x /\ \A j \in Ids \ {i} : job'[j] = job[j]
    BY <1>1, <1>2 DEF Types, States
  <1>4. \A j \in Ids, n \in Kinds : Out(n, j)' <=> Out(n, j)
    BY <1>2 DEF Out
  <1>5. Settles(i)
    BY <1>1, <1>2, <1>3, <1>4
       DEF Settles, IdOK, Entitled, Dead, Known, Fresh, Counted, Written, Kinds
  <1> QED
    BY <1>2, <1>3, <1>4, <1>5, OneMoves

\* Another replica takes a free Service, or the sweeper frees one whose record
\* is over.
LEMMA ServiceInv ==
  ASSUME CeilingInv, NEW s \in Services, OtherTakes(s) \/ FreeService(s)
  PROVE  CeilingInv'
  <1>1. UNCHANGED <<job, late, pc, res, seen, pass>> /\ Types
    BY DEF OtherTakes, FreeService, CeilingInv
  <1>2. PICK x \in {Other, NoId} : active' = [active EXCEPT ![s] = x]
    BY DEF OtherTakes, FreeService
  <1>3. Types'
    BY <1>1, <1>2 DEF Types, Keys
  <1>4. \A j \in Ids, n \in Kinds : Out(n, j)' <=> Out(n, j)
    BY <1>1 DEF Out
  <1>5. \A j \in Ids : Entitled(j) /\ active[ServiceOf[j]] = j => ServiceOf[j] # s
    BY Constants DEF OtherTakes, FreeService, Entitled
  <1>6. \A j \in Ids : Settles(j)
    <2> SUFFICES ASSUME NEW j \in Ids PROVE Settles(j)
      OBVIOUS
    <2>1. IdOK(j) /\ ServiceOf[j] \in Services
      BY Constants DEF CeilingInv
    <2>2. Entitled(j)' <=> Entitled(j)
      BY <1>1, <1>4 DEF Entitled, Kinds
    <2>3. Entitled(j) => active'[ServiceOf[j]] = j
      BY <1>1, <1>2, <1>5, <2>1 DEF IdOK, Types
    <2> QED
      BY <1>1, <1>4, <2>1, <2>2, <2>3 DEF Settles, IdOK, Dead, Known, Kinds
  <1> QED
    BY <1>3, <1>6, Assembled

\* A step that only the caches take: a key is delivered, all are replayed, or
\* the barrier closes.
LEMMA CacheInv ==
  ASSUME CeilingInv, UNCHANGED <<job, active, late, res, pass>>,
         seen' \in [synced: BOOLEAN, jobs: [Ids -> States], active: [Services -> Keys]],
         pc' \in [Ids -> Stages],
         \A j \in Ids : pc'[j] = pc[j] \/ (pc[j] = "reserve" /\ pc'[j] = "idle"),
         \A j \in Ids : seen'.jobs[j] \in {seen.jobs[j], job[j]},
         seen'.synced => \/ \A j \in Ids : seen'.jobs[j] = job[j]
                         \/ /\ seen.synced
                            /\ \A j \in Ids : seen'.active[ServiceOf[j]] \in
                                  {seen.active[ServiceOf[j]], active[ServiceOf[j]]}
  PROVE  CeilingInv'
  <1>1. Types /\ Types'
    BY DEF CeilingInv, Types
  <1>2. \A j \in Ids, n \in Kinds : Out(n, j)' <=> Out(n, j)
    BY DEF Out
  <1>3. ASSUME NEW j \in Ids PROVE Settles(j)
    <2>1. IdOK(j) /\ job[j] \in States
      BY <1>1 DEF CeilingInv, Types
    <2>2. Entitled(j)' <=> Entitled(j)
      BY <1>2 DEF Entitled, Kinds
    <2>3. seen'.jobs[j] = "terminal" => Dead(j)'
      BY <1>2, <2>1 DEF IdOK, Dead, Kinds, Fresh
    <2>4. seen'.synced /\ Entitled(j) => Known(j)'
      BY <2>1 DEF IdOK, Known, Entitled
    <2> QED
      BY <1>2, <2>1, <2>2, <2>3, <2>4 DEF Settles, IdOK, Kinds, Fresh, Counted, Written
  <1> QED
    BY <1>1, <1>3, Assembled

\* Deliveries, the cut and the replay.
LEMMA DeliverInv ==
  ASSUME CeilingInv, \/ \E i \in Ids : DeliverJob(i)
                     \/ \E s \in Services : DeliverActive(s)
                     \/ Cut \/ Replay
  PROVE  CeilingInv'
  <1>1. Types /\ UNCHANGED <<job, active, late, res, pass>>
    BY DEF CeilingInv, DeliverJob, DeliverActive, Cut, Replay, store
  <1>2. /\ seen \in [synced: BOOLEAN, jobs: [Ids -> States], active: [Services -> Keys]]
        /\ pc \in [Ids -> Stages] /\ job \in [Ids -> States] /\ active \in [Services -> Keys]
    BY <1>1 DEF Types
  <1>3. ASSUME NEW i \in Ids, DeliverJob(i) PROVE CeilingInv'
    <2>1. seen' = [seen EXCEPT !.jobs[i] = job[i]] /\ pc' = pc
      BY <1>3 DEF DeliverJob
    <2>2. /\ seen' \in [synced: BOOLEAN, jobs: [Ids -> States], active: [Services -> Keys]]
          /\ \A j \in Ids : seen'.jobs[j] \in {seen.jobs[j], job[j]}
          /\ seen'.active = seen.active /\ seen'.synced = seen.synced
      BY <1>2, <2>1
    <2> QED
      BY <1>1, <1>2, <2>1, <2>2, CacheInv
  <1>4. ASSUME NEW s \in Services, DeliverActive(s) PROVE CeilingInv'
    <2>1. seen' = [seen EXCEPT !.active[s] = active[s]] /\ pc' = pc
      BY <1>4 DEF DeliverActive
    <2>2. /\ seen' \in [synced: BOOLEAN, jobs: [Ids -> States], active: [Services -> Keys]]
          /\ \A r \in Services : seen'.active[r] \in {seen.active[r], active[r]}
          /\ seen'.jobs = seen.jobs /\ seen'.synced = seen.synced
      BY <1>2, <2>1
    <2> QED
      BY <1>1, <1>2, <2>1, <2>2, CacheInv, Constants
  <1>5. ASSUME Cut PROVE CeilingInv'
    <2>1. /\ seen' = [seen EXCEPT !.synced = FALSE]
          /\ pc' = [i \in Ids |-> IF pc[i] = "reserve" THEN "idle" ELSE pc[i]]
      BY <1>5 DEF Cut
    <2>2. /\ seen' \in [synced: BOOLEAN, jobs: [Ids -> States], active: [Services -> Keys]]
          /\ seen'.jobs = seen.jobs /\ ~seen'.synced
      BY <1>2, <2>1
    <2>3. pc' \in [Ids -> Stages]
          /\ \A j \in Ids : pc'[j] = pc[j] \/ (pc[j] = "reserve" /\ pc'[j] = "idle")
      BY <1>2, <2>1 DEF Stages, Fresh
    <2> QED
      BY <1>1, <2>2, <2>3, CacheInv
  <1>6. ASSUME Replay PROVE CeilingInv'
    <2>1. seen' = [synced |-> TRUE, jobs |-> job, active |-> active] /\ pc' = pc
      BY <1>6 DEF Replay
    <2>2. /\ seen' \in [synced: BOOLEAN, jobs: [Ids -> States], active: [Services -> Keys]]
          /\ seen'.jobs = job
      BY <1>2, <2>1
    <2> QED
      BY <1>1, <1>2, <2>1, <2>2, CacheInv
  <1> QED
    BY <1>3, <1>4, <1>5, <1>6

\* A restart forgets the reservations, but also lets nothing count that was not
\* published.
LEMMA CrashInv ==
  ASSUME CeilingInv, Crash
  PROVE  CeilingInv'
  <1>1. /\ UNCHANGED <<job, active, late>> /\ Types /\ pass' = NoId /\ seen' = Unseen
        /\ pc' = [i \in Ids |-> IF pc[i] # "idle" THEN "done" ELSE pc[i]]
        /\ res' = [i \in Ids |-> "none"]
    BY DEF Crash, CeilingInv, store
  <1>2. Unseen \in [synced: BOOLEAN, jobs: [Ids -> States], active: [Services -> Keys]]
        /\ ~Unseen.synced /\ \A i \in Ids : Unseen.jobs[i] = "none"
    BY DEF Unseen, States, Keys
  <1>3. Types'
    BY <1>1, <1>2 DEF Types, Stages, Fresh, Written
  <1>4. \A j \in Ids, n \in Kinds : Out(n, j)' <=> Out(n, j)
    BY <1>1 DEF Out
  <1>5. ASSUME NEW j \in Ids PROVE Settles(j)
    <2>1. /\ IdOK(j) /\ res'[j] = "none" /\ pass' # j /\ seen'.jobs[j] = "none" /\ ~seen'.synced
          /\ pc'[j] = IF pc[j] # "idle" THEN "done" ELSE "idle"
      BY <1>1, <1>2, Constants DEF CeilingInv
    <2>2. Entitled(j)' => Entitled(j)
      BY <1>1, <1>4, <2>1 DEF Entitled, Kinds
    <2> QED
      BY <1>1, <1>4, <2>1, <2>2 DEF Settles, IdOK, Kinds, Fresh, Counted, Written
  <1> QED
    BY <1>3, <1>5, Assembled

\* A travelling write arrives.
LEMMA LateArrivalInv ==
  ASSUME CeilingInv, LateArrival
  PROVE  CeilingInv'
  <1>1. PICK w \in late : /\ late' = late \ {w}
                          /\ IF Takes(w) THEN Commit(w) ELSE UNCHANGED <<job, active>>
    BY DEF LateArrival
  <1>2. UNCHANGED <<pc, res, seen, pass>> /\ Types
    BY DEF LateArrival, CeilingInv
  <1>3. PICK i \in Ids, k \in Kinds : w = Write(k, i)
    BY <1>2, WriteIs DEF Types
  <1>4. Out(k, i) /\ ~Out(k, i)' /\ IdOK(i)
        /\ \A j \in Ids, n \in Kinds : j # i \/ n # k => (Out(n, j)' <=> Out(n, j))
    BY <1>1, <1>3, WriteIs DEF Out, CeilingInv
  <1>5. late' \subseteq Writes
    BY <1>1, <1>2 DEF Types
  <1>6. CASE Takes(w)
    <2>1. Takes(Write(k, i)) /\ Commit(Write(k, i))
      BY <1>1, <1>3, <1>6
    <2>2. Types'
      BY <1>2, <1>5, <2>1, CommitEffect DEF Types
    <2>3. CASE k = "createJob"
      <3>1. job[i] = "none" /\ job'[i] = "initializing" /\ active' = active
        BY <1>2, <2>1, <2>3, CommitEffect
      <3>2. Settles(i)
        BY <1>2, <1>4, <2>3, <3>1 DEF Settles, IdOK, Entitled, Dead, Known, Kinds, Fresh, Counted, Written
      <3> QED
        BY <1>2, <1>4, <2>1, <2>2, <3>2, CommitEffect, OneMoves
    <2>4. CASE k = "createActive"
      <3>1. job' = job /\ active'[ServiceOf[i]] = i
        BY <1>2, <2>1, <2>4, CommitEffect
      <3>2. Settles(i)
        BY <1>2, <1>4, <2>4, <3>1 DEF Settles, IdOK, Entitled, Dead, Known, Kinds
      <3> QED
        BY <1>2, <1>4, <2>1, <2>2, <3>2, CommitEffect, OneMoves
    <2>5. CASE k = "publish"
      <3>1. job[i] = "initializing" /\ job'[i] = "live" /\ active' = active
        BY <1>2, <2>1, <2>5, CommitEffect
      <3>2. Settles(i)
        BY <1>2, <1>4, <2>5, <3>1 DEF Settles, IdOK, Entitled, Dead, Known, Kinds, Fresh, Counted, Written
      <3> QED
        BY <1>2, <1>4, <2>1, <2>2, <3>2, CommitEffect, OneMoves
    <2>6. CASE k = "deleteJob"
      <3>1. job[i] = "initializing" /\ job'[i] = "none" /\ active' = active
        BY <1>2, <2>1, <2>6, CommitEffect
      <3>2. Settles(i)
        BY <1>2, <1>4, <2>6, <3>1 DEF Settles, IdOK, Entitled, Dead, Known, Kinds, Fresh, Counted, Written
      <3> QED
        BY <1>2, <1>4, <2>1, <2>2, <3>2, CommitEffect, OneMoves
    <2>7. CASE k = "deleteActive"
      <3>1. job' = job
        BY <1>2, <2>1, <2>7, CommitEffect
      <3>2. Settles(i)
        BY <1>2, <1>4, <2>7, <3>1 DEF Settles, IdOK, Entitled, Dead, Known, Kinds, Fresh, Counted, Written
      <3> QED
        BY <1>2, <1>4, <2>1, <2>2, <3>2, CommitEffect, OneMoves
    <2> QED
      BY <2>3, <2>4, <2>5, <2>6, <2>7 DEF Kinds
  <1>7. CASE ~Takes(w)
    <2>1. job' = job /\ active' = active
      BY <1>1, <1>7
    <2>2. Types'
      BY <1>2, <1>5, <2>1 DEF Types
    <2>3. Settles(i)
      <3>1. \A n \in Kinds : Out(n, i)' => Out(n, i)
        BY <1>4
      <3>2. Entitled(i)' => Entitled(i)
        BY <1>2, <2>1, <3>1 DEF Entitled, Kinds
      <3> QED
        BY <1>2, <1>4, <2>1, <3>1, <3>2 DEF Settles, IdOK, Dead, Known, Kinds
    <2> QED
      BY <1>2, <1>4, <2>1, <2>2, <2>3, OneMoves
  <1> QED
    BY <1>6, <1>7

-----------------------------------------------------------------------------

\* The invariant holds at the start.
LEMMA InitInv == Init => CeilingInv
  <1> SUFFICES ASSUME Init PROVE CeilingInv
    OBVIOUS
  <1>1. Unseen \in [synced: BOOLEAN, jobs: [Ids -> States], active: [Services -> Keys]]
        /\ ~Unseen.synced /\ \A i \in Ids : Unseen.jobs[i] = "none"
    BY DEF Unseen, States, Keys
  <1>2. Types
    BY <1>1 DEF Init, Types, States, Keys, Stages, Fresh
  <1>3. \A i \in Ids : IdOK(i) /\ ~Entitled(i) /\ pc[i] \notin Counted
    BY <1>1, Constants DEF Init, IdOK, Entitled, Out, Counted, Fresh
  <1>4. Loaded = {} /\ Held = {}
    BY <1>3 DEF Loaded, Held, Init
  <1>5. IsFiniteSet({}) /\ Cardinality({}) = 0
    BY FS_EmptySet
  <1> QED
    BY <1>2, <1>3, <1>4, <1>5, Constants DEF CeilingInv

\* Every step keeps it.
LEMMA StepInv == CeilingInv /\ [Next]_vars => CeilingInv'
  <1> SUFFICES ASSUME CeilingInv, [Next]_vars PROVE CeilingInv'
    OBVIOUS
  <1>1. ASSUME NEW i \in Ids,
               CheckLive(i) \/ Reserve(i) \/ Observe(i) \/ ResolveActive(i) \/ End(i) \/ Retire(i)
        PROVE  CeilingInv'
    BY <1>1, CheckLiveInv, ReserveInv, ReleaseInv, RecordInv DEF Observe
  <1>2. ASSUME NEW i \in Ids, Publish(i) PROVE CeilingInv'
    BY <1>2, CreateSlotInv, CreateJobInv, CreateActiveInv, DiscardInv, ReceiptFailsInv, WithdrawInv,
       PublishPendingInv DEF Publish
  <1>3. ASSUME UNCHANGED vars PROVE CeilingInv'
    <2>1. Types'
      BY <1>3 DEF vars, CeilingInv, Types
    <2>2. \A j \in Ids : Settles(j)
      BY <1>3 DEF vars, CeilingInv, Settles, IdOK, Entitled, Dead, Known, Out
    <2> QED
      BY <2>1, <2>2, Assembled
  <1> QED
    BY <1>1, <1>2, <1>3, ServiceInv, DeliverInv, CrashInv, LateArrivalInv DEF Next

\* What counts is at most the ceiling, in every state a run reaches.
THEOREM CeilingInvHolds == Spec => []CeilingInv
  BY InitInv, StepInv, PTL DEF Spec

\* A replica never puts more Services to work than the ceiling, for any number
\* of publications, lost answers and restarts (Reserve, Track, ReleaseResolved).
THEOREM CeilingHoldsAlways == Spec => []CeilingHolds
  <1>1. ASSUME CeilingInv PROVE CeilingHolds
    <2> DEFINE U == {i \in Ids : job[i] = "live"}
               f == [i \in U |-> ServiceOf[i]]
    <2>1. IsFiniteSet(U) /\ Cardinality(U) =< Cardinality(Loaded)
      <3>1. U \subseteq Loaded
        BY DEF Loaded, Entitled
      <3> HIDE DEF U
      <3> QED
        BY <1>1, <3>1, FS_Subset DEF CeilingInv
    <2>2. f \in Surjection(U, Claimable)
      <3>1. f \in [U -> Claimable] /\ \A s \in Claimable : \E i \in U : f[i] = s
        BY DEF Claimable
      <3> HIDE DEF f, U
      <3> QED
        BY <3>1 DEF Surjection
    <2> HIDE DEF f, U
    <2>3. IsFiniteSet(Claimable) /\ Cardinality(Claimable) =< Cardinality(U)
      BY <2>1, <2>2, FS_Surjection
    <2>4. /\ Cardinality(Claimable) \in Nat /\ Cardinality(U) \in Nat
          /\ Cardinality(Loaded) \in Nat /\ MaxLive \in Nat
      BY <1>1, <2>1, <2>3, FS_CardinalityType, Constants DEF CeilingInv
    <2> QED
      BY <1>1, <2>1, <2>3, <2>4 DEF CeilingInv, CeilingHolds
  <1> QED
    BY <1>1, CeilingInvHolds, PTL
=============================================================================
