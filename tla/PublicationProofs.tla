------------------------- MODULE PublicationProofs -------------------------
(***************************************************************************)
(* Proofs about Publication for every set of identifiers, Services, keys   *)
(* and agents, every assignment of keys to requests and every bound.       *)
(*                                                                         *)
(* A step is Quiet when it publishes nothing and creates no record; every  *)
(* step but three is.  PubMove and AgentMove lift a Quiet step of one      *)
(* process to the whole invariant, so each action is left with what it     *)
(* changes of its own.                                                     *)
(***************************************************************************)
EXTENDS PublicationInv, Collecting, FiniteSetTheorems, TLAPS

-----------------------------------------------------------------------------
(* Steps of the store                                                      *)

\* Nothing anyone read is contradicted: revisions only grow, a key at the same
\* revision is the same, and what has ended stays ended.
Grows ==
    /\ \A i \in Ids : /\ job[i].rev <= job'[i].rev
                      /\ job'[i].rev = job[i].rev => job'[i] = job[i]
                      /\ Dead(i) => Dead(i)'
                      /\ StaleDead(i) => StaleDead(i)'
    /\ \A s \in Services : /\ active[s].rev <= active'[s].rev
                           /\ active'[s].rev = active[s].rev => active'[s] = active[s]
    /\ \A k \in Keys : /\ receipt[k].rev <= receipt'[k].rev
                       /\ receipt'[k].rev = receipt[k].rev => receipt'[k] = receipt[k]

StoreOK ==
    /\ job \in [Ids -> [state: States, rev: Nat]]
    /\ active \in [Services -> [id: Ids \cup {NoId}, rev: Nat]]
    /\ receipt \in [Keys -> [id: Ids \cup {NoId}, rev: Nat]]
    /\ published \in SUBSET Ids
    /\ \A i \in Ids : RecordOK(i)
    /\ NamesOK

\* The writes anyone may make.
Sound(w) ==
    /\ w.op = "createJob" => w.to = "initializing" /\ job[w.id].rev = 0
    /\ w.op = "updateJob" =>
          \/ /\ w.to = "pending" /\ w.rev = 1 /\ w.id \notin published
             /\ At(w.id, "publish") \/ PublishLate(w.id)
          \/ UpdateOK(w)
    /\ w.op = "deleteJob" =>
          /\ w.to = "absent"
          /\ w.rev = job[w.id].rev /\ job[w.id].state # "absent" =>
                job[w.id].state \in Retirable \/ w.id \notin published
    /\ w.op \in {"createActive", "deleteActive", "createReceipt", "deleteReceipt"} =>
          w.to = "absent"
    /\ w.op \in {"createActive", "createReceipt"} => job[w.id].rev > 0
    /\ w.op \in {"createReceipt", "deleteReceipt"} => Keyed(w.id)
    /\ w.op = "deleteActive" => ActiveDoomed(ServiceOf[w.id], w.rev)
    /\ w.op = "deleteReceipt" => ReceiptDoomed(KeyOf[w.id], w.rev)

\* A step leaves the store alone or is one sound write taking effect.
StoreStep ==
    \/ UNCHANGED <<store, published>>
    \/ \E w \in Writes : Sound(w) /\ Takes(w) /\ Commit(w)

Quiet ==
    /\ StoreOK'
    /\ Grows
    /\ StoreStep
    /\ published' = published
    /\ \A j \in Ids :
          /\ PublishLate(j)' <=> PublishLate(j)
          /\ job[j].rev = 0 => job'[j] = job[j]
          /\ job'[j].state \in Live => job[j].state \in Live
          /\ job'[j].state \in Standing => job[j].state \in Standing
          /\ job'[j].state = "initializing" => job[j].state = "initializing"
          /\ NeedsActive(j) => active'[ServiceOf[j]].id = j
          /\ NeedsReceipt(j) => receipt'[KeyOf[j]].id = j

\* A write that takes effect leaves every bucket well typed.
LEMMA TypeCommit ==
    ASSUME TypeOK, NEW w \in Writes, Commit(w),
           w.op \in {"createReceipt", "deleteReceipt"} => Keyed(w.id)
    PROVE  /\ job' \in [Ids -> [state: States, rev: Nat]]
           /\ active' \in [Services -> [id: Ids \cup {NoId}, rev: Nat]]
           /\ receipt' \in [Keys -> [id: Ids \cup {NoId}, rev: Nat]]
           /\ published' \in SUBSET Ids
<1>0. /\ w.id \in Ids /\ w.rev \in Nat /\ w.to \in States
  BY DEF Writes
<1>1. job' \in [Ids -> [state: States, rev: Nat]]
  <2>1. job[w.id].rev + 1 \in Nat
    BY <1>0 DEF TypeOK
  <2>2. job' = IF w.op \in JobOps
              THEN [job EXCEPT ![w.id] = [state |-> w.to, rev |-> job[w.id].rev + 1]]
              ELSE job
    BY DEF Commit
  <2> QED BY <1>0, <2>1, <2>2 DEF TypeOK
<1>2. active' \in [Services -> [id: Ids \cup {NoId}, rev: Nat]]
  BY <1>0, RequestAssumption DEF TypeOK, Commit
<1>3. receipt' \in [Keys -> [id: Ids \cup {NoId}, rev: Nat]]
  <2>1. CASE w.op \in {"createReceipt", "deleteReceipt"}
    BY <1>0, <2>1, RequestAssumption DEF TypeOK, Commit, Keyed
  <2> QED BY <2>1 DEF TypeOK, Commit
<1>4. published' \in SUBSET Ids
  BY <1>0 DEF TypeOK, Commit
<1> QED BY <1>1, <1>2, <1>3, <1>4

\* A sound write that takes effect keeps the store consistent and everything
\* that was read of it valid.
LEMMA CommitStore ==
    ASSUME TypeOK, StoreOK, NEW w \in Writes, Sound(w), Takes(w), Commit(w)
    PROVE  StoreOK' /\ Grows
<1>0. /\ w.id \in Ids /\ w.rev \in Nat /\ w.to \in States
      /\ ServiceOf[w.id] \in Services
      /\ KeyOf[w.id] \in Keys \cup {NoKey}
  BY RequestAssumption DEF Writes
<1>1. /\ job' \in [Ids -> [state: States, rev: Nat]]
      /\ active' \in [Services -> [id: Ids \cup {NoId}, rev: Nat]]
      /\ receipt' \in [Keys -> [id: Ids \cup {NoId}, rev: Nat]]
      /\ published' \in SUBSET Ids
  BY TypeCommit DEF Sound
<1>2. ASSUME NEW i \in Ids
      PROVE  /\ RecordOK(i)'
             /\ job[i].rev <= job'[i].rev
             /\ job'[i].rev = job[i].rev => job'[i] = job[i]
             /\ Dead(i) => Dead(i)'
             /\ StaleDead(i) => StaleDead(i)'
  <2>0. RecordOK(i)
    BY DEF StoreOK
  <2>1. CASE i # w.id \/ w.op \notin JobOps
    <3>1. job'[i] = job[i] /\ (i \in published' <=> i \in published)
      BY <1>0, <2>1 DEF Commit, TypeOK, Sound, JobOps, Writes
    <3> QED BY <2>0, <3>1 DEF RecordOK, Dead, StaleDead, TypeOK
  <2>2. CASE i = w.id /\ w.op = "createJob"
    <3>1. job'[i] = [state |-> "initializing", rev |-> 1] /\ published' = published
      BY <1>0, <2>2 DEF Commit, TypeOK, Sound, JobOps
    <3>2. job[i].rev = 0 /\ job[i].state = "absent"
      BY <2>0, <2>2 DEF Sound, RecordOK
    <3> QED BY <2>0, <3>1, <3>2 DEF RecordOK, Dead, StaleDead, TypeOK
  <2>3. CASE i = w.id /\ w.op = "updateJob"
    <3>1. /\ job'[i] = [state |-> w.to, rev |-> job[i].rev + 1]
          /\ job[i].state # "absent" /\ job[i].rev = w.rev
          /\ published' = IF w.to = "pending" THEN published \cup {i} ELSE published
      BY <1>0, <2>3 DEF Commit, TypeOK, Takes, JobOps
    <3>2. CASE w.to = "pending" /\ w.rev = 1 /\ w.id \notin published
      BY <2>0, <2>3, <3>1, <3>2
      DEF RecordOK, Dead, StaleDead, TypeOK, Stale, Standing, Live, Ended, Terminal
    <3>3. CASE UpdateOK(w)
      <4>1. /\ w.to \in Successors(job[i].state) /\ job[i].rev > 0
            /\ w.to # "pending"
        BY <2>3, <3>1, <3>3 DEF UpdateOK
      <4>2. \/ job[i].state = "initializing" /\ w.to = "notPublished"
            \/ job[i].state \in Live /\ w.to \in Standing
            \/ job[i].state = "completed" /\ w.to = "expired"
        BY <4>1 DEF Successors, Live, Standing, Ended
      <4>3. job[i].rev \in Nat
        BY DEF TypeOK
      <4>4. published' = published /\ w.to \notin {"absent", "initializing", "pending"}
        BY <3>1, <3>3, <4>1 DEF UpdateOK
      <4> QED BY <2>0, <3>1, <4>1, <4>2, <4>3, <4>4
          DEF RecordOK, Dead, StaleDead, Stale, Standing, Live, Ended, Terminal
    <3> QED BY <2>3, <3>2, <3>3 DEF Sound
  <2>4. CASE i = w.id /\ w.op = "deleteJob"
    <3>1. /\ job'[i] = [state |-> "absent", rev |-> job[i].rev + 1]
          /\ job[i].state # "absent" /\ published' = published
      BY <1>0, <2>4 DEF Commit, TypeOK, Takes, JobOps, Sound
    <3> QED BY <2>0, <3>1
        DEF RecordOK, Dead, StaleDead, TypeOK, Stale, Standing, Live, Ended, Terminal
  <2> QED BY <2>1, <2>2, <2>3, <2>4 DEF JobOps
<1>3. ASSUME NEW s \in Services
      PROVE  /\ active[s].rev <= active'[s].rev
             /\ active'[s].rev = active[s].rev => active'[s] = active[s]
             /\ active'[s].id # NoId =>
                   job'[active'[s].id].rev > 0 /\ ServiceOf[active'[s].id] = s
  <2>1. /\ active[s].rev \in Nat
        /\ active[s].id # NoId => /\ active[s].id \in Ids
                                  /\ job[active[s].id].rev > 0
                                  /\ ServiceOf[active[s].id] = s
    BY DEF TypeOK, StoreOK, NamesOK
  <2>2. CASE active'[s] = active[s]
    BY <1>1, <1>2, <2>1, <2>2 DEF TypeOK
  <2>3. CASE s = ServiceOf[w.id] /\ w.op = "createActive"
    BY <1>0, <1>1, <1>2, <2>1, <2>3 DEF Commit, TypeOK, Sound
  <2>4. CASE s = ServiceOf[w.id] /\ w.op = "deleteActive"
    BY <1>0, <2>1, <2>4 DEF Commit, TypeOK
  <2>5. active'[s] = active[s] \/ (s = ServiceOf[w.id] /\ w.op \in {"createActive", "deleteActive"})
    BY <1>0 DEF Commit, TypeOK
  <2> QED BY <2>2, <2>3, <2>4, <2>5
<1>4. ASSUME NEW k \in Keys
      PROVE  /\ receipt[k].rev <= receipt'[k].rev
             /\ receipt'[k].rev = receipt[k].rev => receipt'[k] = receipt[k]
             /\ receipt'[k].id # NoId =>
                   job'[receipt'[k].id].rev > 0 /\ KeyOf[receipt'[k].id] = k
  <2>1. /\ receipt[k].rev \in Nat
        /\ receipt[k].id # NoId => /\ receipt[k].id \in Ids
                                   /\ job[receipt[k].id].rev > 0
                                   /\ KeyOf[receipt[k].id] = k
    BY DEF TypeOK, StoreOK, NamesOK
  <2>2. CASE receipt'[k] = receipt[k]
    BY <1>1, <1>2, <2>1, <2>2 DEF TypeOK
  <2>3. CASE k = KeyOf[w.id] /\ w.op = "createReceipt"
    BY <1>0, <1>1, <1>2, <2>1, <2>3 DEF Commit, TypeOK, Sound
  <2>4. CASE k = KeyOf[w.id] /\ w.op = "deleteReceipt"
    BY <1>0, <2>1, <2>4 DEF Commit, TypeOK
  <2>5. receipt'[k] = receipt[k] \/ (k = KeyOf[w.id] /\ w.op \in {"createReceipt", "deleteReceipt"})
    BY <1>0 DEF Commit, TypeOK
  <2> QED BY <2>2, <2>3, <2>4, <2>5
<1> QED BY <1>1, <1>2, <1>3, <1>4 DEF StoreOK, Grows, NamesOK

\* What is released needs nothing.
LEMMA ReleasedNeedsNothing ==
    ASSUME TypeOK, NEW i \in Ids, RecordOK(i), Released(i)
    PROVE  ~NeedsActive(i)
<1>1. CASE Dead(i)
  BY <1>1 DEF Dead, NeedsActive, Terminal, Ended, Live
<1>2. CASE GivenUp(i)
  <2>1. pub[i].pc \notin Holding
    BY <1>2 DEF GivenUp, Withdrawn, Holding
  <2> QED BY <1>2, <2>1 DEF GivenUp, NeedsActive, CanPublish, RecordOK, Live
<1> QED BY <1>1, <1>2 DEF Released

\* A sound write never takes a key from a Collection entitled to it.
LEMMA CommitKeepsEntitled ==
    ASSUME IInv, NEW w \in Writes, Sound(w), Takes(w), Commit(w), NEW j \in Ids
    PROVE  /\ NeedsActive(j) => active'[ServiceOf[j]].id = j
           /\ NeedsReceipt(j) => receipt'[KeyOf[j]].id = j
<1>0. /\ w.id \in Ids /\ ServiceOf[w.id] \in Services /\ ServiceOf[j] \in Services
      /\ j # NoId /\ w.id # NoId
  BY RequestAssumption, SentinelAssumption DEF Writes
<1>t. TypeOK /\ Entitled(j) /\ RecordOK(j)
  BY DEF IInv
<1>1. ASSUME NeedsActive(j) PROVE active'[ServiceOf[j]].id = j
  <2>1. active[ServiceOf[j]].id = j
    BY <1>t, <1>1 DEF Entitled
  <2>2. CASE active' = active
    BY <2>1, <2>2
  <2>3. CASE w.op = "createActive"
    <3>1. ServiceOf[w.id] # ServiceOf[j]
      BY <1>0, <2>1, <2>3 DEF Takes
    <3> QED BY <1>0, <1>t, <2>1, <2>3, <3>1 DEF Commit, TypeOK
  <2>4. CASE w.op = "deleteActive"
    <3>1. ASSUME ServiceOf[w.id] = ServiceOf[j] PROVE FALSE
      <4>1. Released(j)
        BY <1>0, <2>1, <2>4, <3>1 DEF Takes, Sound, ActiveDoomed
      <4> QED BY <1>1, <1>t, <4>1, ReleasedNeedsNothing
    <3> QED BY <1>0, <1>t, <2>1, <2>4, <3>1 DEF Commit, TypeOK
  <2> QED BY <2>2, <2>3, <2>4 DEF Commit
<1>2. ASSUME NeedsReceipt(j) PROVE receipt'[KeyOf[j]].id = j
  <2>1. receipt[KeyOf[j]].id = j /\ KeyOf[j] \in Keys
    BY <1>t, <1>2, RequestAssumption DEF Entitled, NeedsReceipt, Keyed
  <2>2. CASE receipt' = receipt
    BY <2>1, <2>2
  <2>3. CASE w.op = "createReceipt"
    <3>1. KeyOf[w.id] # KeyOf[j]
      BY <1>0, <2>1, <2>3 DEF Takes
    <3> QED BY <1>0, <1>t, <2>1, <2>3, <3>1 DEF Commit, TypeOK
  <2>4. CASE w.op = "deleteReceipt"
    <3>1. ASSUME KeyOf[w.id] = KeyOf[j] PROVE FALSE
      <4>1. StaleDead(j)
        BY <1>0, <2>1, <2>4, <3>1 DEF Takes, Sound, ReceiptDoomed
      <4> QED BY <1>2, <4>1 DEF StaleDead, Stale, NeedsReceipt, Standing, Live, Ended
    <3> QED BY <1>0, <1>t, <2>1, <2>4, <3>1 DEF Commit, TypeOK
  <2> QED BY <2>2, <2>3, <2>4 DEF Commit
<1> QED BY <1>1, <1>2

\* The invariant includes what the lemmas on the store need of it.
LEMMA InvStore == IInv => StoreOK
BY DEF IInv, StoreOK, TypeOK

\* A step that leaves the store alone and neither adds nor drops a publishing
\* write is quiet.
LEMMA QuietStill ==
    ASSUME IInv, UNCHANGED <<store, published>>,
           \A j \in Ids : PublishLate(j)' <=> PublishLate(j)
    PROVE  Quiet
<1>1. StoreOK'
  BY InvStore DEF store, StoreOK, RecordOK, NamesOK
<1>2. Grows
  BY DEF Grows, store, Dead, StaleDead, IInv, TypeOK
<1>3. ASSUME NEW j \in Ids
      PROVE  /\ NeedsActive(j) => active'[ServiceOf[j]].id = j
             /\ NeedsReceipt(j) => receipt'[KeyOf[j]].id = j
  BY DEF IInv, Entitled, store
<1> QED BY <1>1, <1>2, <1>3 DEF Quiet, store, StoreStep

\* A step that writes nothing is quiet.
LEMMA QuietRead ==
    ASSUME IInv, UNCHANGED <<store, late, published>>
    PROVE  Quiet
<1>1. \A j \in Ids : PublishLate(j)' <=> PublishLate(j)
  BY DEF PublishLate
<1> QED BY <1>1, QuietStill DEF store

\* So is a sound write other than the create and the publish of a record.
LEMMA QuietCommit ==
    ASSUME IInv, NEW w \in Writes, Sound(w), Takes(w), Commit(w),
           w.op # "createJob", w.to # "pending",
           \A j \in Ids : PublishLate(j)' <=> PublishLate(j)
    PROVE  Quiet
<1>0. w.id \in Ids /\ TypeOK /\ StoreOK
  BY InvStore DEF Writes, IInv
<1>1. StoreOK' /\ Grows
  BY <1>0, CommitStore
<1>2. published' = published
  BY DEF Commit
<1>3. ASSUME NEW j \in Ids
      PROVE  /\ job[j].rev = 0 => job'[j] = job[j]
             /\ job'[j].state \in Live => job[j].state \in Live
             /\ job'[j].state \in Standing => job[j].state \in Standing
             /\ job'[j].state = "initializing" => job[j].state = "initializing"
  <2>0. RecordOK(j)
    BY <1>0 DEF StoreOK
  <2>1. CASE j # w.id \/ w.op \notin JobOps
    BY <1>0, <2>1 DEF Commit, TypeOK
  <2>2. CASE j = w.id /\ w.op = "updateJob"
    <3>1. /\ job'[j].state = w.to
          /\ w.to \in Successors(job[j].state) /\ job[j].rev > 0
          /\ w.to \notin {"absent", "initializing", "pending"}
      BY <1>0, <2>2 DEF Commit, TypeOK, Takes, Sound, UpdateOK, JobOps
    <3> QED BY <3>1 DEF Successors, Live, Standing, Ended
  <2>3. CASE j = w.id /\ w.op = "deleteJob"
    <3>1. job'[j].state = "absent" /\ job[j].state # "absent"
      BY <1>0, <2>3 DEF Commit, TypeOK, Takes, Sound, JobOps
    <3> QED BY <2>0, <3>1 DEF RecordOK, Live, Standing, Ended
  <2> QED BY <2>1, <2>2, <2>3 DEF JobOps
<1>4. ASSUME NEW j \in Ids
      PROVE  /\ NeedsActive(j) => active'[ServiceOf[j]].id = j
             /\ NeedsReceipt(j) => receipt'[KeyOf[j]].id = j
  BY CommitKeepsEntitled
<1> QED BY <1>1, <1>2, <1>3, <1>4 DEF Quiet, StoreStep

\* And so is a call of one, whatever it answers.
LEMMA QuietCall ==
    ASSUME IInv, NEW w \in Writes, NEW o \in Outcomes, Call(w, o), Sound(w),
           w.op # "createJob", w.to # "pending"
    PROVE  /\ Quiet
           /\ late' \in SUBSET Writes
           /\ \A v \in late' : v \in late \/ (v = w /\ UNCHANGED <<store, published>>)
<1>1. CASE o = "ok"
  <2>1. Takes(w) /\ Commit(w) /\ late' = late
    BY <1>1 DEF Call
  <2>2. \A j \in Ids : PublishLate(j)' <=> PublishLate(j)
    BY <2>1 DEF PublishLate
  <2> QED BY <2>1, <2>2, QuietCommit DEF IInv, TypeOK
<1>2. CASE o # "ok"
  <2>1. UNCHANGED <<store, published>> /\ (late' = late \/ late' = late \cup {w})
    BY <1>2 DEF Call, store
  <2>2. \A j \in Ids : PublishLate(j)' <=> PublishLate(j)
    BY <2>1 DEF PublishLate, UpdateJob
  <2>3. Quiet
    BY <2>1, <2>2, QuietStill
  <2> QED BY <2>1, <2>3 DEF IInv, TypeOK
<1> QED BY <1>1, <1>2

-----------------------------------------------------------------------------
(* Processes that do not move                                              *)

\* What was read of a key stays valid.
LEMMA SeenStable ==
    ASSUME TypeOK, StoreOK', Grows, NEW r \in Nat, NEW i \in Ids
    PROVE  /\ \A s \in Services : ActiveSeen(s, i, r) =>
                 /\ r <= active'[s].rev
                 /\ r = active'[s].rev /\ active'[s].id # NoId => active'[s].id = i
           /\ \A k \in Keys : ReceiptSeen(k, i, r) =>
                 /\ r <= receipt'[k].rev
                 /\ r = receipt'[k].rev /\ receipt'[k].id # NoId => receipt'[k].id = i
<1>1. ASSUME NEW s \in Services, ActiveSeen(s, i, r)
      PROVE  /\ r <= active'[s].rev
             /\ r = active'[s].rev /\ active'[s].id # NoId => active'[s].id = i
  <2>1. /\ active[s].rev \in Nat /\ active'[s].rev \in Nat
        /\ active[s].rev <= active'[s].rev
        /\ active'[s].rev = active[s].rev => active'[s] = active[s]
    BY DEF TypeOK, StoreOK, Grows
  <2> QED BY <1>1, <2>1 DEF ActiveSeen
<1>2. ASSUME NEW k \in Keys, ReceiptSeen(k, i, r)
      PROVE  /\ r <= receipt'[k].rev
             /\ r = receipt'[k].rev /\ receipt'[k].id # NoId => receipt'[k].id = i
  <2>1. /\ receipt[k].rev \in Nat /\ receipt'[k].rev \in Nat
        /\ receipt[k].rev <= receipt'[k].rev
        /\ receipt'[k].rev = receipt[k].rev => receipt'[k] = receipt[k]
    BY DEF TypeOK, StoreOK, Grows
  <2> QED BY <1>2, <2>1 DEF ReceiptSeen
<1> QED BY <1>1, <1>2

\* A publication's position only moves towards giving up once it has begun to.
Keeps ==
    \A i \in Ids :
        /\ At(i, "done") => At(i, "done")'
        /\ pub[i].pc \in Withdrawn => pub'[i].pc \in Withdrawn
        /\ pub[i].pc \in Withdrawn \cup {"loserLookup", "loserRecord"} =>
              pub'[i].pc \in Withdrawn \cup {"loserLookup", "loserRecord"}

\* What a publication knows survives a step that does not write its record for
\* the first time and does not publish it.
LEMMA PubKnows ==
    ASSUME IInv, StoreOK', Grows, NEW j \in Ids,
           job[j].rev = 0 => job'[j] = job[j],
           j \in published' <=> j \in published
    PROVE  LET p == pub[j]
               s == ServiceOf[j]
               k == KeyOf[j]
           IN  /\ p.pc \in Unwritten => job'[j].rev = 0 /\ j \notin published'
               /\ p.pc \in Written => job'[j].rev >= 1 /\ p.rev = 1 /\ j \notin published'
               /\ p.pc \in Holding \cup {"withdrawJob", "withdrawActive"} =>
                     /\ p.arev <= active'[s].rev
                     /\ p.arev = active'[s].rev /\ active'[s].id # NoId => active'[s].id = j
               /\ p.pc \in HasRead =>
                     /\ p.rid \in Ids /\ KeyOf[p.rid] = k /\ job'[p.rid].rev > 0
                     /\ p.rrev <= receipt'[k].rev
                     /\ p.rrev = receipt'[k].rev /\ receipt'[k].id # NoId => receipt'[k].id = p.rid
               /\ p.rid \in Ids /\ StaleDead(p.rid) =>
                     Stale(job'[p.rid].state) /\ job'[p.rid].rev >= 2
<1> DEFINE p == pub[j]
<1>0. /\ TypeOK /\ PubOK(j)
      /\ ServiceOf[j] \in Services
      /\ p.rev \in Nat /\ p.arev \in Nat /\ p.rrev \in Nat
      /\ \A i \in Ids : job[i].rev \in Nat /\ job'[i].rev \in Nat
  BY RequestAssumption DEF IInv, TypeOK, StoreOK
<1>1. p.pc \in Unwritten => job'[j].rev = 0 /\ j \notin published'
  BY <1>0 DEF PubOK
<1>2. p.pc \in Written => job'[j].rev >= 1 /\ p.rev = 1 /\ j \notin published'
  BY <1>0 DEF PubOK, Grows
<1>3. p.pc \in Holding \cup {"withdrawJob", "withdrawActive"} =>
        /\ p.arev <= active'[ServiceOf[j]].rev
        /\ p.arev = active'[ServiceOf[j]].rev /\ active'[ServiceOf[j]].id # NoId
              => active'[ServiceOf[j]].id = j
  BY <1>0, SeenStable DEF PubOK
<1>4. ASSUME p.pc \in HasRead
      PROVE  /\ p.rid \in Ids /\ KeyOf[p.rid] = KeyOf[j] /\ job'[p.rid].rev > 0
             /\ p.rrev <= receipt'[KeyOf[j]].rev
             /\ p.rrev = receipt'[KeyOf[j]].rev /\ receipt'[KeyOf[j]].id # NoId
                   => receipt'[KeyOf[j]].id = p.rid
  <2>1. /\ p.rid \in Ids /\ KeyOf[p.rid] = KeyOf[j] /\ job[p.rid].rev > 0
        /\ ReceiptSeen(KeyOf[j], p.rid, p.rrev) /\ KeyOf[j] \in Keys
    BY <1>0, <1>4, RequestAssumption DEF PubOK, Keyed
  <2>2. job'[p.rid].rev > 0
    BY <1>0, <2>1 DEF Grows
  <2> QED BY <1>0, <2>1, <2>2, SeenStable
<1>5. p.rid \in Ids /\ StaleDead(p.rid) =>
          Stale(job'[p.rid].state) /\ job'[p.rid].rev >= 2
  BY <1>0 DEF Grows, StaleDead, Stale
<1> QED BY <1>1, <1>2, <1>3, <1>4, <1>5

\* What a publication knows survives any quiet step of somebody else.
LEMMA PubStable ==
    ASSUME IInv, StoreOK', Grows, NEW j \in Ids, pub'[j] = pub[j],
           job[j].rev = 0 => job'[j] = job[j],
           j \in published' <=> j \in published
    PROVE  PubOK(j)'
<1>1. PubOK(j)
  BY DEF IInv
<1>2. StaleDead(pub[j].rid) <=> Stale(job[pub[j].rid].state) /\ job[pub[j].rid].rev >= 2
  BY DEF StaleDead
<1> QED BY <1>1, <1>2, PubKnows DEF PubOK, HasRead, ActiveSeen, ReceiptSeen, StaleDead, Stale, Keyed

\* What an agent knows survives any quiet step of somebody else.
LEMMA AgentStable ==
    ASSUME IInv, StoreOK', Grows, NEW a \in Agents, agent'[a] = agent[a]
    PROVE  AgentOK(a)'
<1> DEFINE g == agent[a]
<1>0. /\ TypeOK /\ AgentOK(a)
      /\ g.rev \in Nat
      /\ \A i \in Ids : job[i].rev \in Nat /\ job'[i].rev \in Nat
  BY DEF IInv, TypeOK, StoreOK
<1> SUFFICES ASSUME g.pc # "idle" PROVE AgentOK(a)'
  BY DEF AgentOK
<1>1. g.id \in Ids /\ job[g.id].rev > 0 /\ job'[g.id].rev > 0
      /\ ServiceOf[g.id] \in Services
  BY <1>0, RequestAssumption DEF AgentOK, Grows
<1>2. g.pc = "write" => /\ g.rev <= job'[g.id].rev /\ g.rev > 0
                        /\ g.rev = job'[g.id].rev => job'[g.id].state = g.state
  BY <1>0, <1>1 DEF AgentOK, Grows
<1>3. /\ g.pc = "releaseRead" => Dead(g.id)'
      /\ g.pc = "dropRead" => StaleDead(g.id)'
  BY <1>0, <1>1 DEF AgentOK, Grows, Dead, StaleDead
<1>4. ActiveSeen(ServiceOf[g.id], g.id, g.rev) => ActiveSeen(ServiceOf[g.id], g.id, g.rev)'
  <2>1. ActiveSeen(ServiceOf[g.id], g.id, g.rev) =>
        /\ g.rev <= active'[ServiceOf[g.id]].rev
        /\ g.rev = active'[ServiceOf[g.id]].rev /\ active'[ServiceOf[g.id]].id # NoId
              => active'[ServiceOf[g.id]].id = g.id
    BY <1>0, <1>1, SeenStable
  <2> QED BY <2>1 DEF ActiveSeen
<1>5. KeyOf[g.id] \in Keys /\ ReceiptSeen(KeyOf[g.id], g.id, g.rev)
          => ReceiptSeen(KeyOf[g.id], g.id, g.rev)'
  <2>1. KeyOf[g.id] \in Keys /\ ReceiptSeen(KeyOf[g.id], g.id, g.rev) =>
        /\ g.rev <= receipt'[KeyOf[g.id]].rev
        /\ g.rev = receipt'[KeyOf[g.id]].rev /\ receipt'[KeyOf[g.id]].id # NoId
              => receipt'[KeyOf[g.id]].id = g.id
    BY <1>0, <1>1, SeenStable
  <2> QED BY <2>1 DEF ReceiptSeen
<1>6. Keyed(g.id) => KeyOf[g.id] \in Keys
  BY <1>1, RequestAssumption DEF Keyed
<1>7. g.pc = "deleteActive" => Dead(g.id)'
  BY <1>0, <1>1 DEF AgentOK, Grows, Dead
<1>8. g.pc = "deleteReceipt" => StaleDead(g.id)'
  BY <1>0, <1>1 DEF AgentOK, Grows, StaleDead
<1> QED BY <1>0, <1>1, <1>2, <1>3, <1>4, <1>5, <1>6, <1>7, <1>8 DEF AgentOK, Keyed

\* What an outstanding write can do survives a step in which nobody comes back
\* from giving up.
LEMMA LateStable ==
    ASSUME IInv, StoreOK', Grows, NEW w \in late,
           At(w.id, "done") => At(w.id, "done")',
           \A i \in Ids : Overtaken(i) => Overtaken(i)',
           \A i \in Ids : GivenUp(i) => GivenUp(i)',
           w.op = "createJob" => job'[w.id] = job[w.id],
           w = UpdateJob(w.id, 1, "pending") => (w.id \in published' <=> w.id \in published)
    PROVE  LateOK(w)'
<1>0. /\ TypeOK /\ LateOK(w)
      /\ w \in Writes /\ w.id \in Ids /\ w.rev \in Nat
      /\ ServiceOf[w.id] \in Services
      /\ \A i \in Ids : job[i].rev \in Nat /\ job'[i].rev \in Nat
  BY RequestAssumption DEF IInv, TypeOK, StoreOK, Writes
<1>3. ASSUME NEW i \in Ids PROVE Released(i) => Released(i)'
  <2>1. (Dead(i) => Dead(i)') /\ (GivenUp(i) => GivenUp(i)')
    BY DEF Grows, Dead, GivenUp
  <2> QED BY <2>1 DEF Released
<1>4. w.op = "createJob" => job'[w.id].rev = 0
  BY <1>0 DEF LateOK
<1>5. w.op \notin {"createJob", "deleteReceipt"} => job'[w.id].rev > 0
  BY <1>0 DEF LateOK, Grows
<1>6. UpdateOK(w) => UpdateOK(w)'
  BY <1>0 DEF UpdateOK, Grows
<1>7. DeleteOK(w) => DeleteOK(w)'
  <2>1. (Overtaken(w.id) => Overtaken(w.id)') /\ w.rev \in Nat /\ job'[w.id].rev \in Nat
    BY <1>0 DEF Overtaken
  <2> QED BY <1>0, <2>1 DEF DeleteOK, Grows
<1>8. w.op = "deleteActive" => ActiveDoomed(ServiceOf[w.id], w.rev)'
  <2> DEFINE s == ServiceOf[w.id]
  <2> SUFFICES ASSUME w.op = "deleteActive" PROVE ActiveDoomed(s, w.rev)'
    OBVIOUS
  <2>1. ActiveDoomed(s, w.rev) /\ active[s].rev \in Nat /\ active'[s].rev \in Nat
        /\ active[s].id \in Ids \cup {NoId}
    BY <1>0 DEF LateOK, TypeOK, StoreOK
  <2>2. w.rev <= active'[s].rev
    BY <1>0, <2>1 DEF ActiveDoomed, Grows
  <2>3. ASSUME w.rev = active'[s].rev, active'[s].id # NoId
        PROVE  Released(active[s].id)'
    <3>1. active'[s] = active[s]
      BY <1>0, <2>1, <2>3 DEF ActiveDoomed, Grows
    <3>2. active[s].id \in Ids /\ Released(active[s].id)
      BY <2>1, <2>3, <3>1 DEF ActiveDoomed
    <3>3. ASSUME NEW i \in Ids, i = active[s].id PROVE Released(active[s].id)'
      <4>1. Released(i)'
        BY <1>3, <3>2, <3>3
      <4> QED BY <3>1, <3>3, <4>1 DEF Released, Dead, GivenUp, PublishLate, UpdateJob
    <3> QED BY <3>2, <3>3
  <2> QED BY <2>2, <2>3 DEF ActiveDoomed
<1>9. w.op = "deleteReceipt" => ReceiptDoomed(KeyOf[w.id], w.rev)'
  <2> DEFINE k == KeyOf[w.id]
  <2> SUFFICES ASSUME w.op = "deleteReceipt" PROVE ReceiptDoomed(k, w.rev)'
    OBVIOUS
  <2>0. k \in Keys
    BY <1>0, RequestAssumption DEF LateOK, Keyed
  <2>1. ReceiptDoomed(k, w.rev) /\ receipt[k].rev \in Nat /\ receipt'[k].rev \in Nat
        /\ receipt[k].id \in Ids \cup {NoId}
    BY <1>0, <2>0 DEF LateOK, TypeOK, StoreOK
  <2>2. w.rev <= receipt'[k].rev
    BY <1>0, <2>0, <2>1 DEF ReceiptDoomed, Grows
  <2>3. ASSUME w.rev = receipt'[k].rev, receipt'[k].id # NoId
        PROVE  StaleDead(receipt[k].id)'
    <3>1. receipt'[k] = receipt[k]
      BY <1>0, <2>0, <2>1, <2>3 DEF ReceiptDoomed, Grows
    <3>2. receipt[k].id \in Ids /\ StaleDead(receipt[k].id)
      BY <2>1, <2>3, <3>1 DEF ReceiptDoomed
    <3> QED BY <1>0, <3>1, <3>2 DEF Grows, StaleDead
  <2> QED BY <2>2, <2>3 DEF ReceiptDoomed
<1> QED BY <1>0, <1>4, <1>5, <1>6, <1>7, <1>8, <1>9 DEF LateOK, Keyed, UpdateJob, Overtaken
-----------------------------------------------------------------------------
(* One process moves                                                       *)

PubRec == [pc: PubPCs, rev: Nat, arev: Nat, rid: Ids \cup {NoId},
           rrev: Nat, reads: Nat, answer: Ids \cup {NoId}]

AgentRec == [pc: AgentPCs, id: Ids \cup {NoId}, rev: Nat, state: States]

\* What every step is shown to do.
Preserved == IInv' /\ StoreStep

\* A quiet step preserves the invariant once the facts of every publication,
\* agent and indeterminate write hold after it, and whoever newly depends on an
\* active key or a receipt is named by it.
LEMMA Move ==
    ASSUME IInv, Quiet, Keeps,
           pub' \in [Ids -> PubRec], agent' \in [Agents -> AgentRec],
           late' \in SUBSET Writes,
           \A j \in Ids : PubOK(j)',
           \A a \in Agents : AgentOK(a)',
           \A v \in late' : v \in late \/ LateOK(v)',
           \A j \in Ids :
              /\ pub'[j].pc \in Holding =>
                    pub[j].pc \in Holding \/ active'[ServiceOf[j]].id = j
              /\ pub'[j].pc = "publish" /\ Keyed(j) =>
                    At(j, "publish") \/ receipt'[KeyOf[j]].id = j
    PROVE  Preserved
<1>1. TypeOK'
  BY DEF Quiet, StoreOK, TypeOK, PubRec, AgentRec
<1>2. ASSUME NEW v \in late PROVE LateOK(v)'
  <2>1. ASSUME NEW i \in Ids
        PROVE  /\ Overtaken(i) => Overtaken(i)'
               /\ GivenUp(i) => GivenUp(i)'
    <3>1. (PublishLate(i)' <=> PublishLate(i)) /\ published' = published
      BY DEF Quiet
    <3> QED BY <3>1 DEF Overtaken, GivenUp, Keeps
  <2>2. v.id \in Ids /\ LateOK(v)
    BY DEF IInv, TypeOK, Writes
  <2>3. At(v.id, "done") => At(v.id, "done")'
    BY <2>2 DEF Keeps
  <2>4. /\ v.op = "createJob" => job'[v.id] = job[v.id]
        /\ v.id \in published' <=> v.id \in published
    BY <2>2 DEF LateOK, Quiet
  <2>5. StoreOK' /\ Grows
    BY DEF Quiet
  <2> QED BY <2>1, <2>3, <2>4, <2>5, LateStable
<1>3. ASSUME NEW j \in Ids PROVE Entitled(j)'
  <2>0. PublishLate(j)' <=> PublishLate(j)
    BY DEF Quiet
  <2>1. ASSUME NeedsActive(j)' PROVE active'[ServiceOf[j]].id = j
    <3>1. NeedsActive(j) \/ active'[ServiceOf[j]].id = j
      BY <2>0, <2>1 DEF NeedsActive, CanPublish, Quiet
    <3> QED BY <3>1 DEF Quiet
  <2>2. ASSUME NeedsReceipt(j)' PROVE receipt'[KeyOf[j]].id = j
    <3>1. NeedsReceipt(j) \/ receipt'[KeyOf[j]].id = j
      BY <2>0, <2>2 DEF NeedsReceipt, Quiet, At, Keyed
    <3> QED BY <3>1 DEF Quiet
  <2> QED BY <2>1, <2>2 DEF Entitled
<1>4. (\A j \in Ids : RecordOK(j)') /\ NamesOK'
  BY DEF Quiet, StoreOK
<1> QED BY <1>1, <1>2, <1>3, <1>4 DEF IInv, Preserved, Quiet

\* A quiet step of nobody: a write arrives late, or nothing happens.
LEMMA StillMove ==
    ASSUME IInv, Quiet, pub' = pub, agent' = agent,
           late' \in SUBSET Writes, \A v \in late' : v \in late
    PROVE  Preserved
<1>1. pub' \in [Ids -> PubRec] /\ agent' \in [Agents -> AgentRec]
  BY DEF IInv, TypeOK, PubRec, AgentRec
<1>2. Keeps
  BY DEF Keeps, At
<1>3. \A j \in Ids : PubOK(j)'
  BY PubStable DEF Quiet
<1>4. \A a \in Agents : AgentOK(a)'
  BY AgentStable DEF Quiet
<1>5. \A j \in Ids :
        /\ pub'[j].pc \in Holding =>
              pub[j].pc \in Holding \/ active'[ServiceOf[j]].id = j
        /\ pub'[j].pc = "publish" /\ Keyed(j) =>
              At(j, "publish") \/ receipt'[KeyOf[j]].id = j
  BY DEF At
<1> QED BY <1>1, <1>2, <1>3, <1>4, <1>5, Move

\* A quiet step of one publication.
LEMMA PubMove ==
    ASSUME IInv, Quiet, NEW i \in Ids, NEW p \in PubRec,
           pub' = [pub EXCEPT ![i] = p], agent' = agent,
           late' \in SUBSET Writes,
           \A v \in late' : v \in late \/ LateOK(v)',
           PubOK(i)',
           pub[i].pc # "done",
           pub[i].pc \in Withdrawn => p.pc \in Withdrawn,
           pub[i].pc \in {"loserLookup", "loserRecord"} =>
              p.pc \in {"done", "loserRecord"},
           p.pc \in Holding => pub[i].pc \in Holding \/ active'[ServiceOf[i]].id = i,
           p.pc = "publish" /\ Keyed(i) => receipt'[KeyOf[i]].id = i
    PROVE  Preserved
<1>1. /\ pub' \in [Ids -> PubRec] /\ pub'[i] = p
      /\ \A j \in Ids \ {i} : pub'[j] = pub[j]
      /\ agent' \in [Agents -> AgentRec]
  BY DEF IInv, TypeOK, PubRec, AgentRec
<1>2. Keeps
  BY <1>1 DEF Keeps, At, Withdrawn
<1>3. \A j \in Ids : PubOK(j)'
  BY <1>1, PubStable DEF Quiet
<1>4. \A a \in Agents : AgentOK(a)'
  BY AgentStable DEF Quiet
<1>5. ASSUME NEW j \in Ids
      PROVE  /\ pub'[j].pc \in Holding =>
                    pub[j].pc \in Holding \/ active'[ServiceOf[j]].id = j
             /\ pub'[j].pc = "publish" /\ Keyed(j) =>
                    At(j, "publish") \/ receipt'[KeyOf[j]].id = j
  BY <1>1 DEF At
<1> QED BY <1>1, <1>2, <1>3, <1>4, <1>5, Move

\* ... and one that ends it.
LEMMA AnswerMove ==
    ASSUME IInv, Quiet, NEW i \in Ids, NEW x \in Ids \cup {NoId},
           Answer(i, x), agent' = agent,
           late' \in SUBSET Writes,
           \A v \in late' : v \in late \/ LateOK(v)',
           x # NoId /\ Keyed(i) => KeyOf[x] = KeyOf[i],
           pub[i].pc # "done"
    PROVE  Preserved
<1> DEFINE p == Blank("done", x)
<1>1. /\ p \in PubRec /\ pub' = [pub EXCEPT ![i] = p]
      /\ p.pc = "done" /\ p.answer = x
  BY DEF Answer, Blank, PubRec, PubPCs
<1>2. pub'[i] = p
  BY <1>1 DEF IInv, TypeOK
<1> HIDE DEF p
<1>3. PubOK(i)'
  BY <1>1, <1>2 DEF PubOK, Unwritten, Written, Holding, HasRead, Keyed
<1> QED BY <1>1, <1>3, PubMove DEF Withdrawn, Holding

\* ... and one that only moves on, from a point that knows as much.
LEMMA GoMove ==
    ASSUME IInv, Quiet, NEW i \in Ids, NEW pc \in PubPCs, Go(i, pc), agent' = agent,
           late' \in SUBSET Writes,
           \A v \in late' : v \in late \/ LateOK(v)',
           pc \in Unwritten => pub[i].pc \in Unwritten,
           pc \in Written => pub[i].pc \in Written,
           pc \in Holding => pub[i].pc \in Holding,
           pc \in {"withdrawJob", "withdrawActive"} =>
              pub[i].pc \in Holding \cup {"withdrawJob"},
           pc \in HasRead \cup {"lookup", "loserLookup"} \cup (Holding \ {"publish"}) =>
              Keyed(i),
           pc \in HasRead => pub[i].pc \in HasRead,
           pc \in {"clearStale", "deleteBound"} => StaleDead(pub[i].rid),
           pub[i].pc # "done",
           pub[i].pc \in Withdrawn => pc \in Withdrawn,
           pub[i].pc \in {"loserLookup", "loserRecord"} => pc \in {"done", "loserRecord"},
           pc = "publish" /\ Keyed(i) => receipt'[KeyOf[i]].id = i
    PROVE  Preserved
<1> DEFINE p == [pub[i] EXCEPT !.pc = pc]
<1>1. /\ PubOK(i) /\ pub[i] \in PubRec
      /\ pub' = [pub EXCEPT ![i] = p]
  BY DEF Go, IInv, TypeOK, PubRec
<1>2. /\ p \in PubRec /\ p.pc = pc /\ p.rev = pub[i].rev /\ p.arev = pub[i].arev
      /\ p.rid = pub[i].rid /\ p.rrev = pub[i].rrev /\ p.answer = pub[i].answer
  BY <1>1 DEF PubRec
<1> HIDE DEF p
<1>3. pub'[i] = p
  BY <1>1 DEF IInv, TypeOK
<1>4. PubOK(i)'
  <2>1. /\ StoreOK' /\ Grows
        /\ job[i].rev = 0 => job'[i] = job[i]
        /\ i \in published' <=> i \in published
    BY DEF Quiet
  <2> QED BY <1>1, <1>2, <1>3, <2>1, PubKnows
  DEF PubOK, HasRead, ActiveSeen, ReceiptSeen, StaleDead, Stale, Keyed
<1> QED BY <1>1, <1>2, <1>4, PubMove

\* A quiet step of one agent.
LEMMA AgentMove ==
    ASSUME IInv, Quiet, NEW a \in Agents, NEW g \in AgentRec,
           agent' = [agent EXCEPT ![a] = g], pub' = pub,
           late' \in SUBSET Writes,
           \A v \in late' : v \in late \/ LateOK(v)',
           AgentOK(a)'
    PROVE  Preserved
<1>1. /\ agent' \in [Agents -> AgentRec]
      /\ \A b \in Agents \ {a} : agent'[b] = agent[b]
      /\ pub' \in [Ids -> PubRec]
  BY DEF IInv, TypeOK, PubRec, AgentRec
<1>2. Keeps
  BY DEF Keeps, At
<1>3. \A j \in Ids : PubOK(j)'
  BY PubStable DEF Quiet
<1>4. \A b \in Agents : AgentOK(b)'
  BY <1>1, AgentStable DEF Quiet
<1>5. ASSUME NEW j \in Ids
      PROVE  /\ pub'[j].pc \in Holding =>
                    pub[j].pc \in Holding \/ active'[ServiceOf[j]].id = j
             /\ pub'[j].pc = "publish" /\ Keyed(j) =>
                    At(j, "publish") \/ receipt'[KeyOf[j]].id = j
  BY DEF At
<1> QED BY <1>1, <1>2, <1>3, <1>4, <1>5, Move
-----------------------------------------------------------------------------
(* The calls, each under what its caller knows                             *)

\* Nobody publishes a Collection whose handler has not reached its last write.
LEMMA NotYetLate ==
    ASSUME IInv, NEW i \in Ids, pub[i].pc # "done"
    PROVE  ~PublishLate(i)
<1> SUFFICES ASSUME PublishLate(i) PROVE FALSE
  OBVIOUS
<1>1. PICK w \in late : w = UpdateJob(i, 1, "pending")
  BY DEF PublishLate
<1>2. w.op = "updateJob" /\ w.id = i /\ w.to = "pending"
  BY <1>1 DEF UpdateJob
<1>3. At(i, "done")
  BY <1>2 DEF IInv, LateOK, UpdateOK
<1> QED BY <1>3 DEF At

\* A delete at a revision read of a key harms nobody once the Collection the
\* key named is gone for good.
LEMMA SeenIsDoomed ==
    ASSUME NEW i \in Ids, NEW r \in Nat
    PROVE  /\ \A s \in Services : ActiveSeen(s, i, r) /\ Released(i) => ActiveDoomed(s, r)
           /\ \A k \in Keys : ReceiptSeen(k, i, r) /\ StaleDead(i) => ReceiptDoomed(k, r)
BY DEF ActiveSeen, ActiveDoomed, ReceiptSeen, ReceiptDoomed

\* Deleting a receipt at a doomed revision (ClearStale, DeleteBound,
\* DeleteReceiptKey) is a quiet step, and harmless when it lands late.
LEMMA CallDeleteReceipt ==
    ASSUME IInv, NEW i \in Ids, NEW r \in Nat, NEW o \in Outcomes, Keyed(i),
           ReceiptDoomed(KeyOf[i], r), Call(DeleteReceipt(i, r), o)
    PROVE  /\ Quiet
           /\ late' \in SUBSET Writes
           /\ \A v \in late' : v \in late \/ LateOK(v)'
<1> DEFINE w == DeleteReceipt(i, r)
<1>1. /\ w \in Writes /\ w.op = "deleteReceipt" /\ w.id = i /\ w.rev = r /\ w.to = "absent"
  BY DEF DeleteReceipt, Writes, JobOps, States
<1>2. Call(w, o)
  OBVIOUS
<1> HIDE DEF w
<1>3. Sound(w)
  BY <1>1 DEF Sound
<1>4. /\ Quiet /\ late' \in SUBSET Writes
      /\ \A v \in late' : v \in late \/ (v = w /\ UNCHANGED <<store, published>>)
  BY <1>1, <1>2, <1>3, QuietCall
<1>5. ASSUME NEW v \in late', v = w, UNCHANGED <<store, published>> PROVE LateOK(v)'
  BY <1>1, <1>5 DEF LateOK, ReceiptDoomed, StaleDead, store, Keyed
<1> QED BY <1>4, <1>5

\* Deleting an active key at a doomed revision (withdraw, releaseActive,
\* sweepActive) is a quiet step, and harmless when it lands late.
LEMMA CallDeleteActive ==
    ASSUME IInv, NEW i \in Ids, NEW r \in Nat, NEW o \in Outcomes, job[i].rev > 0,
           ActiveDoomed(ServiceOf[i], r), Call(DeleteActive(i, r), o),
           \A j \in Ids : pub[j].pc \in Withdrawn => pub'[j].pc \in Withdrawn
    PROVE  /\ Quiet
           /\ late' \in SUBSET Writes
           /\ \A v \in late' : v \in late \/ LateOK(v)'
<1> DEFINE w == DeleteActive(i, r)
<1>1. /\ w \in Writes /\ w.op = "deleteActive" /\ w.id = i /\ w.rev = r /\ w.to = "absent"
  BY DEF DeleteActive, Writes, JobOps, States
<1>2. Call(w, o)
  OBVIOUS
<1> HIDE DEF w
<1>3. Sound(w)
  BY <1>1 DEF Sound
<1>4. /\ Quiet /\ late' \in SUBSET Writes
      /\ \A v \in late' : v \in late \/ (v = w /\ UNCHANGED <<store, published>>)
  BY <1>1, <1>2, <1>3, QuietCall
<1>5. ASSUME NEW v \in late', v = w, UNCHANGED <<store, published>> PROVE LateOK(v)'
  <2>1. ActiveDoomed(ServiceOf[i], r)'
    <3>1. ASSUME NEW j \in Ids, Released(j) PROVE Released(j)'
      <4>1. PublishLate(j)' <=> PublishLate(j)
        BY <1>4 DEF Quiet
      <4> QED BY <1>5, <3>1, <4>1 DEF Released, Dead, GivenUp, store
    <3>2. active[ServiceOf[i]].id \in Ids \cup {NoId}
      BY RequestAssumption DEF IInv, TypeOK
    <3> QED BY <1>5, <3>1, <3>2 DEF ActiveDoomed, store
  <2> QED BY <1>1, <1>5, <2>1 DEF LateOK, store
<1> QED BY <1>4, <1>5

\* Creating a receipt (createReceipt) is a quiet step.
LEMMA CallCreateReceipt ==
    ASSUME IInv, NEW i \in Ids, NEW o \in Outcomes, Keyed(i), job[i].rev > 0,
           Call(CreateReceipt(i), o)
    PROVE  /\ Quiet
           /\ late' \in SUBSET Writes
           /\ \A v \in late' : v \in late \/ LateOK(v)'
           /\ o = "ok" => receipt'[KeyOf[i]].id = i
<1> DEFINE w == CreateReceipt(i)
<1>1. /\ w \in Writes /\ w.op = "createReceipt" /\ w.id = i /\ w.to = "absent"
  BY DEF CreateReceipt, Writes, JobOps, States
<1>2. Call(w, o)
  OBVIOUS
<1> HIDE DEF w
<1>3. Sound(w)
  BY <1>1 DEF Sound
<1>4. /\ Quiet /\ late' \in SUBSET Writes
      /\ \A v \in late' : v \in late \/ (v = w /\ UNCHANGED <<store, published>>)
  BY <1>1, <1>2, <1>3, QuietCall
<1>5. ASSUME NEW v \in late', v = w, UNCHANGED <<store, published>> PROVE LateOK(v)'
  BY <1>1, <1>5 DEF LateOK, store, Keyed
<1>6. o = "ok" => receipt'[KeyOf[i]].id = i
  <2>1. KeyOf[i] \in Keys
    BY RequestAssumption DEF Keyed
  <2> QED BY <1>1, <1>2, <2>1 DEF Call, Commit, IInv, TypeOK
<1> QED BY <1>4, <1>5, <1>6

\* Creating an active key (createActive) is a quiet step.
LEMMA CallCreateActive ==
    ASSUME IInv, NEW i \in Ids, NEW o \in Outcomes, job[i].rev > 0,
           i \notin published, pub[i].pc # "done",
           Call(CreateActive(i), o),
           o = "unavailable" => pub'[i].pc = "done"
    PROVE  /\ Quiet
           /\ late' \in SUBSET Writes
           /\ \A v \in late' : v \in late \/ LateOK(v)'
           /\ o = "ok" => /\ active'[ServiceOf[i]].id = i
                          /\ active'[ServiceOf[i]].rev = active[ServiceOf[i]].rev + 1
<1> DEFINE w == CreateActive(i)
<1>1. /\ w \in Writes /\ w.op = "createActive" /\ w.id = i /\ w.to = "absent"
  BY DEF CreateActive, Writes, JobOps, States
<1>2. Call(w, o)
  OBVIOUS
<1> HIDE DEF w
<1>3. Sound(w)
  BY <1>1 DEF Sound
<1>4. /\ Quiet /\ late' \in SUBSET Writes
      /\ \A v \in late' : v \in late \/ (v = w /\ UNCHANGED <<store, published>>)
  BY <1>1, <1>2, <1>3, QuietCall
<1>5. ASSUME NEW v \in late', v \notin late PROVE LateOK(v)'
  <2>1. v = w /\ UNCHANGED <<store, published>>
    BY <1>4, <1>5
  <2>2. pub'[i].pc = "done"
    BY <1>2, <1>5, <2>1 DEF Call
  <2>3. Overtaken(i)'
    <3>1. ~PublishLate(i) /\ (PublishLate(i)' <=> PublishLate(i))
      BY <1>4, NotYetLate DEF Quiet
    <3> QED BY <2>1, <2>2, <3>1 DEF Overtaken, Withdrawn
  <2> QED BY <1>1, <2>1, <2>2, <2>3 DEF LateOK, store, At
<1>6. o = "ok" => /\ active'[ServiceOf[i]].id = i
                  /\ active'[ServiceOf[i]].rev = active[ServiceOf[i]].rev + 1
  BY <1>1, <1>2, RequestAssumption DEF Call, Commit, IInv, TypeOK
<1> QED BY <1>4, <1>5, <1>6

\* Updating a record at a revision read (terminate, claim, renew, finish, the
\* cancel handler, flipExpired) is a quiet step.
LEMMA CallUpdateJob ==
    ASSUME IInv, NEW i \in Ids, NEW r \in Nat, NEW to \in States, NEW o \in Outcomes,
           UpdateOK(UpdateJob(i, r, to)), job[i].rev > 0, Call(UpdateJob(i, r, to), o)
    PROVE  /\ Quiet
           /\ late' \in SUBSET Writes
           /\ \A v \in late' : v \in late \/ LateOK(v)'
<1> DEFINE w == UpdateJob(i, r, to)
<1>1. /\ w \in Writes /\ w.op = "updateJob" /\ w.id = i /\ w.rev = r /\ w.to = to
  BY DEF UpdateJob, Writes, JobOps
<1>2. Call(w, o) /\ UpdateOK(w)
  OBVIOUS
<1> HIDE DEF w
<1>3. Sound(w) /\ w.to # "pending"
  BY <1>1, <1>2 DEF Sound, UpdateOK
<1>4. /\ Quiet /\ late' \in SUBSET Writes
      /\ \A v \in late' : v \in late \/ (v = w /\ UNCHANGED <<store, published>>)
  BY <1>1, <1>2, <1>3, QuietCall
<1>5. ASSUME NEW v \in late', v = w, UNCHANGED <<store, published>> PROVE LateOK(v)'
  BY <1>1, <1>2, <1>5 DEF LateOK, store, UpdateOK
<1> QED BY <1>4, <1>5

\* Deleting a record (discardLostRecord, withdraw, retire) is a quiet step.
LEMMA CallDeleteJob ==
    ASSUME IInv, NEW i \in Ids, NEW r \in Nat, NEW o \in Outcomes,
           r > 0, r <= job[i].rev, Call(DeleteJob(i, r), o),
           \/ r = job[i].rev => job[i].state \in Retirable
           \/ /\ i \notin published /\ pub[i].pc # "done"
              /\ pub'[i].pc \in Withdrawn \cup {"loserLookup", "loserRecord"}
    PROVE  /\ Quiet
           /\ late' \in SUBSET Writes
           /\ \A v \in late' : v \in late \/ LateOK(v)'
<1> DEFINE w == DeleteJob(i, r)
<1>1. /\ w \in Writes /\ w.op = "deleteJob" /\ w.id = i /\ w.rev = r /\ w.to = "absent"
  BY DEF DeleteJob, Writes, JobOps, States
<1>0. job[i].rev \in Nat /\ job[i].rev > 0
  BY DEF IInv, TypeOK
<1>2. Call(w, o)
  OBVIOUS
<1> HIDE DEF w
<1>3. Sound(w)
  BY <1>1 DEF Sound
<1>4. /\ Quiet /\ late' \in SUBSET Writes
      /\ \A v \in late' : v \in late \/ (v = w /\ UNCHANGED <<store, published>>)
  BY <1>1, <1>2, <1>3, QuietCall
<1>5. ASSUME NEW v \in late', v = w, UNCHANGED <<store, published>> PROVE LateOK(v)'
  <2>1. CASE r = job[i].rev => job[i].state \in Retirable
    BY <1>0, <1>1, <1>5, <2>1 DEF LateOK, DeleteOK, store
  <2>2. CASE /\ i \notin published /\ pub[i].pc # "done"
             /\ pub'[i].pc \in Withdrawn \cup {"loserLookup", "loserRecord"}
    <3>1. ~PublishLate(i) /\ (PublishLate(i)' <=> PublishLate(i))
      BY <1>4, <2>2, NotYetLate DEF Quiet
    <3>2. Overtaken(i)'
      BY <1>5, <2>2, <3>1 DEF Overtaken
    <3> QED BY <1>0, <1>1, <1>5, <3>2 DEF LateOK, DeleteOK, store
  <2> QED BY <2>1, <2>2
<1> QED BY <1>4, <1>5
-----------------------------------------------------------------------------
(* The steps of a publication                                              *)

PubFacts(i) ==
    /\ TypeOK /\ PubOK(i) /\ Entitled(i) /\ RecordOK(i) /\ i # NoId
    /\ pub[i] \in PubRec /\ late \in SUBSET Writes
    /\ ServiceOf[i] \in Services
    /\ Keyed(i) => KeyOf[i] \in Keys

\* The invariant gives each publication the facts its next step starts from.
LEMMA PubFactsHold == ASSUME IInv, NEW i \in Ids PROVE PubFacts(i)
BY SentinelAssumption, RequestAssumption DEF PubFacts, IInv, TypeOK, PubRec, Keyed

\* The reads.
LEMMA PubReads ==
    ASSUME IInv, NEW i \in Ids,
           \/ Start(i)
           \/ LookupReceipt(i, "lookup", "createJob", "lookupRecord")
           \/ LookupRecord(i, "lookupRecord", "clearStale")
           \/ LookupReceipt(i, "loserLookup", "done", "loserRecord")
           \/ LookupRecord(i, "loserRecord", "done")
           \/ ReadReceipt(i)
           \/ ReadBound(i)
           \/ Stop(i)
    PROVE  Preserved
<1>0. PubFacts(i)
  BY PubFactsHold
<1>1. UNCHANGED <<store, agent, late, published>>
  BY DEF Start, LookupReceipt, LookupRecord, ReadReceipt, ReadBound, Stop
<1>2. Quiet
  BY <1>1, QuietRead
<1>3. late' \in SUBSET Writes /\ \A v \in late' : v \in late
  BY <1>0, <1>1 DEF PubFacts
<1>4. CASE Start(i)
  <2>1. /\ At(i, "idle")
        /\ (Go(i, "lookup") /\ Keyed(i)) \/ Go(i, "createJob")
    BY <1>4 DEF Start
  <2> QED BY <1>1, <1>2, <1>3, <2>1, GoMove
      DEF At, PubPCs, Unwritten, Written, Holding, HasRead, Withdrawn
<1>5. ASSUME NEW here \in {"lookup", "loserLookup"}, NEW miss \in {"createJob", "done"},
             NEW hit \in {"lookupRecord", "loserRecord"},
             here = "lookup" <=> miss = "createJob",
             here = "lookup" <=> hit = "lookupRecord",
             LookupReceipt(i, here, miss, hit)
      PROVE  Preserved
  <2> DEFINE r == receipt[KeyOf[i]]
  <2>0. At(i, here) /\ Keyed(i) /\ KeyOf[i] \in Keys
    BY <1>0, <1>5 DEF LookupReceipt, PubFacts, PubOK, At
  <2>1. CASE r.id = NoId
    <3>1. Go(i, miss)
      BY <1>5, <2>1 DEF LookupReceipt, Go
    <3> QED BY <1>1, <1>2, <1>3, <1>5, <2>0, <3>1, GoMove
        DEF At, PubPCs, Unwritten, Written, Holding, HasRead, Withdrawn
  <2>2. CASE r.id # NoId
    <3> DEFINE p == [pub[i] EXCEPT !.pc = hit, !.rid = r.id, !.rrev = r.rev,
                                   !.reads = pub[i].reads + 1]
    <3>1. pub' = [pub EXCEPT ![i] = p]
      BY <1>5, <2>2 DEF LookupReceipt
    <3>2. /\ r.id \in Ids /\ r.rev \in Nat /\ job[r.id].rev > 0 /\ KeyOf[r.id] = KeyOf[i]
      BY <1>0, <2>0, <2>2 DEF PubFacts, TypeOK, IInv, NamesOK
    <3>3. /\ p \in PubRec /\ p.pc = hit /\ p.rid = r.id /\ p.rrev = r.rev
          /\ p.answer = pub[i].answer /\ p.rev = pub[i].rev /\ p.arev = pub[i].arev
      <4>1. hit \in PubPCs /\ pub[i].reads + 1 \in Nat
        BY <1>0 DEF PubFacts, PubRec, PubPCs
      <4>2. pub[i] \in PubRec
        BY <1>0 DEF PubFacts
      <4> HIDE DEF r
      <4> QED BY <4>1, <4>2, <3>2 DEF PubRec
    <3> HIDE DEF p
    <3>4. pub'[i] = p
      BY <1>0, <3>1 DEF PubFacts, TypeOK
    <3>5. PubOK(i)'
      <4>1. CASE hit = "lookupRecord"
        BY <1>0, <1>1, <1>5, <2>0, <3>2, <3>3, <3>4, <4>1
        DEF PubFacts, PubOK, At, ReceiptSeen, store, Keyed,
            Unwritten, Written, Holding, HasRead
      <4>2. CASE hit = "loserRecord"
        BY <1>0, <1>1, <1>5, <2>0, <3>2, <3>3, <3>4, <4>2
        DEF PubFacts, PubOK, At, ReceiptSeen, store, Keyed,
            Unwritten, Written, Holding, HasRead
      <4> QED BY <4>1, <4>2
    <3> QED BY <1>1, <1>2, <1>3, <1>5, <2>0, <3>1, <3>3, <3>5, PubMove
        DEF At, Withdrawn, Holding
  <2> QED BY <2>1, <2>2
<1>6. ASSUME NEW here \in {"lookupRecord", "loserRecord"}, NEW stale \in {"clearStale", "done"},
             here = "lookupRecord" <=> stale = "clearStale",
             LookupRecord(i, here, stale)
      PROVE  Preserved
  <2>1. /\ At(i, here) /\ Keyed(i)
        /\ pub[i].rid \in Ids /\ KeyOf[pub[i].rid] = KeyOf[i] /\ job[pub[i].rid].rev > 0
    BY <1>0, <1>6 DEF LookupRecord, PubFacts, PubOK, At, HasRead
  <2>2. CASE Stale(job[pub[i].rid].state) /\ Go(i, stale)
    <3>1. StaleDead(pub[i].rid)
      <4>1. RecordOK(pub[i].rid) /\ job[pub[i].rid].rev \in Nat
        BY <2>1 DEF IInv, TypeOK
      <4> QED BY <2>1, <2>2, <4>1 DEF StaleDead, Stale, RecordOK
    <3> QED BY <1>1, <1>2, <1>3, <1>6, <2>1, <2>2, <3>1, GoMove
        DEF At, PubPCs, Unwritten, Written, Holding, HasRead, Withdrawn
  <2>3. CASE Answer(i, IF HashOf[pub[i].rid] = HashOf[i] THEN pub[i].rid ELSE NoId)
    <3>1. Answer(i, pub[i].rid) \/ Answer(i, NoId)
      BY <2>3
    <3>2. pub[i].pc # "done"
      BY <1>6, <2>1 DEF At
    <3> QED BY <1>1, <1>2, <1>3, <2>1, <3>1, <3>2, AnswerMove
  <2> QED BY <1>6, <2>2, <2>3 DEF LookupRecord
<1>7. CASE ReadReceipt(i)
  <2> DEFINE r == receipt[KeyOf[i]]
  <2>0. At(i, "readReceipt") /\ Keyed(i) /\ KeyOf[i] \in Keys
    BY <1>0, <1>7 DEF ReadReceipt, PubFacts, PubOK, At, Holding
  <2>1. CASE r.id = i /\ Go(i, "publish")
    <3>1. receipt'[KeyOf[i]].id = i
      BY <1>1, <2>1 DEF store
    <3> QED BY <1>1, <1>2, <1>3, <2>0, <2>1, <3>1, GoMove
        DEF At, PubPCs, Unwritten, Written, Holding, HasRead, Withdrawn
  <2>2. CASE Go(i, "withdrawJob")
    BY <1>1, <1>2, <1>3, <2>0, <2>2, GoMove
    DEF At, PubPCs, Unwritten, Written, Holding, HasRead, Withdrawn
  <2>3. CASE /\ r.id \notin {i, NoId}
             /\ pub' = [pub EXCEPT ![i].pc = "readBound", ![i].rid = r.id, ![i].rrev = r.rev]
    <3> DEFINE p == [pub[i] EXCEPT !.pc = "readBound", !.rid = r.id, !.rrev = r.rev]
    <3>1. pub' = [pub EXCEPT ![i] = p]
      BY <2>3
    <3>2. /\ r.id \in Ids /\ r.rev \in Nat /\ job[r.id].rev > 0 /\ KeyOf[r.id] = KeyOf[i]
      BY <1>0, <2>0, <2>3 DEF PubFacts, TypeOK, IInv, NamesOK
    <3>3. /\ p \in PubRec /\ p.pc = "readBound" /\ p.rid = r.id /\ p.rrev = r.rev
          /\ p.answer = pub[i].answer /\ p.rev = pub[i].rev /\ p.arev = pub[i].arev
      BY <1>0, <3>2 DEF PubFacts, PubRec, PubPCs
    <3> HIDE DEF p
    <3>4. pub'[i] = p
      BY <1>0, <3>1 DEF PubFacts, TypeOK
    <3>5. PubOK(i)'
      BY <1>0, <1>1, <2>0, <3>2, <3>3, <3>4
      DEF PubFacts, PubOK, At, ReceiptSeen, ActiveSeen, store, Keyed,
          Unwritten, Written, Holding, HasRead
    <3> QED BY <1>1, <1>2, <1>3, <2>0, <3>1, <3>3, <3>5, PubMove
        DEF At, Withdrawn, Holding
  <2> QED BY <1>7, <2>1, <2>2, <2>3 DEF ReadReceipt
<1>8. CASE ReadBound(i)
  <2>0. /\ At(i, "readBound") /\ Keyed(i)
        /\ pub[i].rid \in Ids /\ job[pub[i].rid].rev > 0
    BY <1>0, <1>8 DEF ReadBound, PubFacts, PubOK, At, Holding, HasRead
  <2>1. CASE job[pub[i].rid].state = "absent" /\ Go(i, "deleteBound")
    <3>1. StaleDead(pub[i].rid)
      <4>1. RecordOK(pub[i].rid) /\ job[pub[i].rid].rev \in Nat
        BY <2>0 DEF IInv, TypeOK
      <4> QED BY <2>0, <2>1, <4>1 DEF StaleDead, Stale, RecordOK
    <3> QED BY <1>1, <1>2, <1>3, <2>0, <2>1, <3>1, GoMove
        DEF At, PubPCs, Unwritten, Written, Holding, HasRead, Withdrawn
  <2>2. CASE Go(i, "withdrawJob")
    BY <1>1, <1>2, <1>3, <2>0, <2>2, GoMove
    DEF At, PubPCs, Unwritten, Written, Holding, HasRead, Withdrawn
  <2> QED BY <1>8, <2>1, <2>2 DEF ReadBound
<1>9. CASE Stop(i)
  BY <1>1, <1>2, <1>3, <1>9, AnswerMove DEF Stop
<1> QED BY <1>4, <1>5, <1>6, <1>7, <1>8, <1>9
\* The calls that are quiet.
LEMMA PubCalls ==
    ASSUME IInv, NEW i \in Ids,
           \/ ClearStale(i)
           \/ PublishCreateActive(i)
           \/ Discard(i)
           \/ PublishCreateReceipt(i)
           \/ DeleteBound(i)
           \/ RecreateReceipt(i)
           \/ WithdrawJob(i)
           \/ WithdrawActive(i)
    PROVE  Preserved
<1>0. /\ PubFacts(i) /\ pub[i].rrev \in Nat /\ pub[i].arev \in Nat
      /\ job[i].rev \in Nat /\ agent' = agent
  BY PubFactsHold
  DEF PubFacts, PubRec, TypeOK, ClearStale, PublishCreateActive, Discard,
      PublishCreateReceipt, DeleteBound, RecreateReceipt, WithdrawJob, WithdrawActive
<1>1. CASE ClearStale(i)
  <2>1. PICK o \in Outcomes :
          /\ Call(DeleteReceipt(i, pub[i].rrev), o)
          /\ GoFresh(i, IF o = "ok" \/ pub[i].reads = 2 THEN "createJob" ELSE "lookup")
    BY <1>1 DEF ClearStale
  <2>2. /\ At(i, "clearStale") /\ Keyed(i) /\ KeyOf[i] \in Keys
        /\ ReceiptDoomed(KeyOf[i], pub[i].rrev)
        /\ job[i].rev = 0 /\ i \notin published
    BY <1>0, <1>1, SeenIsDoomed DEF ClearStale, At, PubFacts, PubOK, HasRead, Unwritten
  <2>3. /\ Quiet /\ late' \in SUBSET Writes /\ \A v \in late' : v \in late \/ LateOK(v)'
    BY <1>0, <2>1, <2>2, CallDeleteReceipt
  <2>4. PICK pc \in {"createJob", "lookup"} : GoFresh(i, pc)
    BY <2>1
  <2> DEFINE p == [pub[i] EXCEPT !.pc = pc, !.rid = NoId, !.rrev = 0]
  <2>5. pub' = [pub EXCEPT ![i] = p]
    BY <2>4 DEF GoFresh
  <2>6. p \in PubRec /\ p.pc = pc /\ p.answer = pub[i].answer
    BY <1>0, <2>4 DEF PubFacts, PubRec, PubPCs
  <2> HIDE DEF p
  <2>7. pub'[i] = p
    BY <1>0, <2>5 DEF PubFacts, TypeOK
  <2>8. job'[i].rev = 0 /\ i \notin published'
    BY <2>2, <2>3 DEF Quiet
  <2>9. PubOK(i)'
    BY <1>0, <2>2, <2>4, <2>6, <2>7, <2>8
    DEF PubFacts, PubOK, Keyed, Unwritten, Written, Holding, HasRead
  <2> QED BY <1>0, <2>2, <2>3, <2>4, <2>5, <2>6, <2>9, PubMove DEF At, Withdrawn, Holding
<1>2. CASE PublishCreateActive(i)
  <2>0. /\ At(i, "createActive") /\ job[i].rev > 0 /\ i \notin published
        /\ pub[i].rev = 1 /\ pub[i].pc # "done"
    BY <1>0, <1>2 DEF PublishCreateActive, At, PubFacts, PubOK, Written
  <2>1. PICK o \in Outcomes :
          /\ Call(CreateActive(i), o)
          /\ CASE o = "ok" ->
                   pub' = [pub EXCEPT ![i].pc = IF Keyed(i) THEN "createReceipt" ELSE "publish",
                                      ![i].arev = active[ServiceOf[i]].rev + 1]
              [] o = "refused"     -> Go(i, "discard")
              [] o = "unavailable" -> Answer(i, NoId)
    BY <1>2 DEF PublishCreateActive
  <2>2. o = "unavailable" => pub'[i].pc = "done"
    BY <1>0, <2>1 DEF Answer, Blank, PubFacts, TypeOK
  <2>3. /\ Quiet /\ late' \in SUBSET Writes /\ \A v \in late' : v \in late \/ LateOK(v)'
        /\ o = "ok" => /\ active'[ServiceOf[i]].id = i
                       /\ active'[ServiceOf[i]].rev = active[ServiceOf[i]].rev + 1
    BY <2>0, <2>1, <2>2, CallCreateActive
  <2>4. CASE o = "refused"
    <3>1. Go(i, "discard")
      BY <2>1, <2>4
    <3> QED BY <1>0, <2>0, <2>3, <3>1, GoMove
        DEF At, PubPCs, Unwritten, Written, Holding, HasRead, Withdrawn
  <2>5. CASE o = "unavailable"
    <3>1. Answer(i, NoId)
      BY <2>1, <2>5
    <3> QED BY <1>0, <2>0, <2>3, <3>1, AnswerMove
  <2>6. CASE o = "ok"
    <3>1. PICK pc \in {"createReceipt", "publish"} :
             /\ pub' = [pub EXCEPT ![i].pc = pc, ![i].arev = active[ServiceOf[i]].rev + 1]
             /\ pc = "createReceipt" <=> Keyed(i)
      BY <2>1, <2>6
    <3> DEFINE p == [pub[i] EXCEPT !.pc = pc, !.arev = active[ServiceOf[i]].rev + 1]
    <3>2. pub' = [pub EXCEPT ![i] = p]
      BY <3>1
    <3>3. active[ServiceOf[i]].rev + 1 \in Nat
      BY <1>0 DEF PubFacts, TypeOK
    <3>4. /\ p \in PubRec /\ p.pc = pc /\ p.answer = pub[i].answer /\ p.rev = 1
          /\ p.arev = active[ServiceOf[i]].rev + 1
      BY <1>0, <2>0, <3>1, <3>3 DEF PubFacts, PubRec, PubPCs
    <3> HIDE DEF p
    <3>5. pub'[i] = p
      BY <1>0, <3>2 DEF PubFacts, TypeOK
    <3>6. job'[i].rev >= 1 /\ i \notin published'
      BY <1>0, <2>0, PubKnows, <2>3 DEF At, Written, Quiet
    <3>7. PubOK(i)'
      <4>1. pc \notin Unwritten \cup HasRead \cup {"lookup", "loserLookup", "clearStale", "deleteBound"}
        BY <3>1 DEF Unwritten, HasRead
      <4>2. pc \in Holding \ {"publish"} => Keyed(i)
        BY <3>1
      <4> QED BY <1>0, <2>3, <2>6, <3>3, <3>4, <3>5, <3>6, <4>1, <4>2
          DEF PubFacts, PubOK, Keyed, ActiveSeen
    <3> QED BY <1>0, <2>0, <2>3, <2>6, <3>1, <3>2, <3>4, <3>7, PubMove DEF At, Withdrawn, Holding
  <2> QED BY <2>4, <2>5, <2>6 DEF Outcomes
<1>3. CASE Discard(i)
  <2>0. /\ At(i, "discard") /\ job[i].rev >= 1 /\ i \notin published
        /\ pub[i].rev = 1 /\ pub[i].pc # "done"
    BY <1>0, <1>3 DEF Discard, At, PubFacts, PubOK, Written
  <2>1. PICK o \in Outcomes : Call(DeleteJob(i, pub[i].rev), o)
    BY <1>3 DEF Discard
  <2>2. (Keyed(i) /\ Go(i, "loserLookup")) \/ Answer(i, NoId)
    BY <1>3 DEF Discard
  <2>3. pub'[i].pc \in {"loserLookup", "done"}
    BY <1>0, <2>2 DEF Go, Answer, Blank, PubFacts, TypeOK
  <2>4. /\ Quiet /\ late' \in SUBSET Writes /\ \A v \in late' : v \in late \/ LateOK(v)'
    BY <1>0, <2>0, <2>1, <2>3, CallDeleteJob DEF Withdrawn
  <2>5. CASE Keyed(i) /\ Go(i, "loserLookup")
    BY <1>0, <2>0, <2>4, <2>5, GoMove
    DEF At, PubPCs, Unwritten, Written, Holding, HasRead, Withdrawn
  <2>6. CASE Answer(i, NoId)
    BY <1>0, <2>0, <2>4, <2>6, AnswerMove
  <2> QED BY <2>2, <2>5, <2>6
<1>4. CASE PublishCreateReceipt(i)
  <2>0. /\ pub[i].pc \in {"createReceipt", "retryReceipt"}
        /\ job[i].rev > 0 /\ Keyed(i)
    BY <1>0, <1>4 DEF PublishCreateReceipt, At, PubFacts, PubOK, Written, Holding
  <2>1. PICK o \in Outcomes :
          /\ Call(CreateReceipt(i), o)
          /\ Go(i, CASE o = "ok"      -> "publish"
                     [] o = "refused" -> "readReceipt"
                     [] o = "unavailable" ->
                           IF At(i, "createReceipt") THEN "retryReceipt" ELSE "withdrawJob")
    BY <1>4 DEF PublishCreateReceipt
  <2>2. /\ Quiet /\ late' \in SUBSET Writes /\ \A v \in late' : v \in late \/ LateOK(v)'
        /\ o = "ok" => receipt'[KeyOf[i]].id = i
    BY <2>0, <2>1, CallCreateReceipt
  <2>3. PICK pc \in {"publish", "readReceipt", "retryReceipt", "withdrawJob"} :
          Go(i, pc) /\ (pc = "publish" => o = "ok")
    BY <2>1 DEF Outcomes
  <2> QED BY <1>0, <2>0, <2>2, <2>3, GoMove
      DEF At, PubPCs, Unwritten, Written, Holding, HasRead, Withdrawn
<1>5. CASE DeleteBound(i)
  <2>0. /\ At(i, "deleteBound") /\ Keyed(i) /\ KeyOf[i] \in Keys
        /\ ReceiptDoomed(KeyOf[i], pub[i].rrev)
    BY <1>0, <1>5, SeenIsDoomed DEF DeleteBound, At, PubFacts, PubOK, HasRead
  <2>1. PICK o \in Outcomes :
          /\ Call(DeleteReceipt(i, pub[i].rrev), o)
          /\ Go(i, IF o = "ok" THEN "recreateReceipt" ELSE "withdrawJob")
    BY <1>5 DEF DeleteBound
  <2>2. /\ Quiet /\ late' \in SUBSET Writes /\ \A v \in late' : v \in late \/ LateOK(v)'
    BY <1>0, <2>0, <2>1, CallDeleteReceipt
  <2>3. PICK pc \in {"recreateReceipt", "withdrawJob"} : Go(i, pc)
    BY <2>1
  <2> QED BY <1>0, <2>0, <2>2, <2>3, GoMove
      DEF At, PubPCs, Unwritten, Written, Holding, HasRead, Withdrawn
<1>6. CASE RecreateReceipt(i)
  <2>0. /\ At(i, "recreateReceipt") /\ job[i].rev > 0 /\ Keyed(i)
    BY <1>0, <1>6 DEF RecreateReceipt, At, PubFacts, PubOK, Written, Holding
  <2>1. PICK o \in Outcomes :
          /\ Call(CreateReceipt(i), o)
          /\ Go(i, IF o = "ok" THEN "publish" ELSE "withdrawJob")
    BY <1>6 DEF RecreateReceipt
  <2>2. /\ Quiet /\ late' \in SUBSET Writes /\ \A v \in late' : v \in late \/ LateOK(v)'
        /\ o = "ok" => receipt'[KeyOf[i]].id = i
    BY <2>0, <2>1, CallCreateReceipt
  <2>3. PICK pc \in {"publish", "withdrawJob"} :
          Go(i, pc) /\ (pc = "publish" => o = "ok")
    BY <2>1
  <2> QED BY <1>0, <2>0, <2>2, <2>3, GoMove
      DEF At, PubPCs, Unwritten, Written, Holding, HasRead, Withdrawn
<1>7. CASE WithdrawJob(i)
  <2>0. /\ At(i, "withdrawJob") /\ job[i].rev >= 1 /\ i \notin published
        /\ pub[i].rev = 1 /\ pub[i].pc # "done"
    BY <1>0, <1>7 DEF WithdrawJob, At, PubFacts, PubOK, Written
  <2>1. PICK o \in Outcomes : Call(DeleteJob(i, pub[i].rev), o)
    BY <1>7 DEF WithdrawJob
  <2>2. Go(i, "withdrawActive") /\ pub'[i].pc = "withdrawActive"
    BY <1>0, <1>7 DEF WithdrawJob, Go, PubFacts, TypeOK
  <2>3. /\ Quiet /\ late' \in SUBSET Writes /\ \A v \in late' : v \in late \/ LateOK(v)'
    BY <1>0, <2>0, <2>1, <2>2, CallDeleteJob DEF Withdrawn
  <2> QED BY <1>0, <2>0, <2>2, <2>3, GoMove
      DEF At, PubPCs, Unwritten, Written, Holding, HasRead, Withdrawn
<1>8. CASE WithdrawActive(i)
  <2>0. /\ At(i, "withdrawActive") /\ job[i].rev > 0 /\ i \notin published
        /\ ActiveSeen(ServiceOf[i], i, pub[i].arev) /\ pub[i].pc # "done"
    BY <1>0, <1>8 DEF WithdrawActive, At, PubFacts, PubOK, Written
  <2>1. PICK o \in Outcomes : Call(DeleteActive(i, pub[i].arev), o)
    BY <1>8 DEF WithdrawActive
  <2>2. Released(i)
    BY <2>0, NotYetLate DEF Released, GivenUp, At, Withdrawn
  <2>3. ActiveDoomed(ServiceOf[i], pub[i].arev)
    BY <1>0, <2>0, <2>2, SeenIsDoomed DEF PubFacts
  <2>4. Answer(i, NoId)
    BY <1>8 DEF WithdrawActive
  <2>5. \A j \in Ids : pub[j].pc \in Withdrawn => pub'[j].pc \in Withdrawn
    BY <1>0, <2>4 DEF Answer, Blank, Withdrawn, PubFacts, TypeOK
  <2>6. /\ Quiet /\ late' \in SUBSET Writes /\ \A v \in late' : v \in late \/ LateOK(v)'
    BY <1>0, <2>0, <2>1, <2>3, <2>5, CallDeleteActive
  <2> QED BY <1>0, <2>0, <2>4, <2>6, AnswerMove
<1> QED BY <1>1, <1>2, <1>3, <1>4, <1>5, <1>6, <1>7, <1>8
-----------------------------------------------------------------------------
(* The steps of an agent                                                   *)

\* Every step of an agent (scan, owner, cancel handler, sweep) preserves the
\* invariant.
LEMMA AgentStep ==
    ASSUME IInv, NEW a \in Agents, Agent(a)
    PROVE  Preserved
<1> DEFINE g == agent[a]
<1>0. /\ TypeOK /\ AgentOK(a) /\ g \in AgentRec /\ late \in SUBSET Writes
      /\ g.rev \in Nat /\ pub' = pub
      /\ \A i \in Ids : /\ job[i].rev \in Nat /\ job[i].state \in States /\ i # NoId
                        /\ RecordOK(i)
                        /\ ServiceOf[i] \in Services
                        /\ Keyed(i) => KeyOf[i] \in Keys
  BY RequestAssumption, SentinelAssumption
  DEF IInv, TypeOK, AgentRec, Keyed, Agent, ReadRecord, UpdateRecord, RetireRecord,
      ReleaseRead, SweepActive, SweepRead, DeleteActiveKey, DropRead, Reconcile,
      ReconcileRead, DeleteReceiptKey, StopAgent
<1>1. ASSUME Quiet, late' \in SUBSET Writes, \A v \in late' : v \in late \/ LateOK(v)', Rest(a)
      PROVE  Preserved
  <2>1. NoWork \in AgentRec /\ agent' = [agent EXCEPT ![a] = NoWork] /\ NoWork.pc = "idle"
    BY <1>1 DEF NoWork, AgentRec, AgentPCs, States, Rest
  <2>2. agent'[a] = NoWork
    BY <1>0, <2>1 DEF TypeOK
  <2>3. AgentOK(a)'
    BY <2>1, <2>2 DEF AgentOK
  <2> QED BY <1>0, <1>1, <2>1, <2>3, AgentMove
<1>2. ASSUME Quiet, late' \in SUBSET Writes, \A v \in late' : v \in late \/ LateOK(v)',
             NEW pc \in AgentPCs, NEW i \in Ids, NEW r \in Nat, NEW st \in States,
             Work(a, pc, i, r, st), job[i].rev > 0,
             pc = "write" => /\ r <= job'[i].rev /\ r > 0
                             /\ r = job'[i].rev => job'[i].state = st,
             pc \in {"releaseRead", "deleteActive"} => Dead(i)',
             pc \in {"sweepRead", "deleteActive"} => ActiveSeen(ServiceOf[i], i, r)',
             pc \in {"dropRead", "reconcileRead", "deleteReceipt"} => Keyed(i),
             pc \in {"dropRead", "deleteReceipt"} => StaleDead(i)',
             pc \in {"reconcileRead", "deleteReceipt"} => ReceiptSeen(KeyOf[i], i, r)'
      PROVE  Preserved
  <2> DEFINE h == [pc |-> pc, id |-> i, rev |-> r, state |-> st]
  <2>1. h \in AgentRec /\ h.pc = pc /\ h.id = i /\ h.rev = r /\ h.state = st
    BY <1>2 DEF AgentRec
  <2>2. agent' = [agent EXCEPT ![a] = h]
    BY <1>2 DEF Work
  <2> HIDE DEF h
  <2>3. agent'[a] = h
    BY <1>0, <2>2 DEF TypeOK
  <2>4. job'[i].rev > 0
    BY <1>0, <1>2 DEF Quiet, Grows, StoreOK
  <2>5. AgentOK(a)'
    BY <1>2, <2>1, <2>3, <2>4 DEF AgentOK, Dead, StaleDead, ActiveSeen, ReceiptSeen, Keyed
  <2> QED BY <1>0, <1>2, <2>1, <2>2, <2>5, AgentMove
<1>3. ASSUME UNCHANGED <<store, late, published>>
      PROVE  /\ Quiet /\ late' \in SUBSET Writes /\ \A v \in late' : v \in late \/ LateOK(v)'
             /\ job' = job /\ active' = active /\ receipt' = receipt
  BY <1>0, <1>3, QuietRead DEF store
<1>4. CASE \E i \in Ids : ReadRecord(a, i)
  <2>1. PICK i \in Ids : ReadRecord(a, i)
    BY <1>4
  <2>2. job[i].rev > 0 /\ UNCHANGED <<store, late, published>>
        /\ Work(a, "write", i, job[i].rev, job[i].state)
    BY <1>0, <2>1 DEF ReadRecord, RecordOK
  <2> QED BY <1>0, <1>2, <1>3, <2>2 DEF AgentPCs
<1>5. CASE UpdateRecord(a)
  <2> DEFINE i == g.id
  <2>0. /\ g.pc = "write" /\ i \in Ids /\ job[i].rev > 0
        /\ g.rev <= job[i].rev /\ g.rev > 0
        /\ g.rev = job[i].rev => job[i].state = g.state
    BY <1>0, <1>5 DEF UpdateRecord, AgentOK
  <2>1. PICK to \in Successors(g.state), o \in Outcomes :
          /\ Call(UpdateJob(i, g.rev, to), o)
          /\ IF o = "ok" /\ to \in Terminal /\ g.state \notin Terminal
             THEN Work(a, "releaseRead", i, 0, "absent")
             ELSE Rest(a)
    BY <1>5 DEF UpdateRecord
  <2>2. to \in States \ {"absent", "initializing", "pending"}
    BY DEF Successors, States, Standing, Live, Ended
  <2>3. UpdateOK(UpdateJob(i, g.rev, to))
    BY <2>0, <2>2 DEF UpdateOK, UpdateJob
  <2>4. Quiet /\ late' \in SUBSET Writes /\ \A v \in late' : v \in late \/ LateOK(v)'
    BY <1>0, <2>0, <2>1, <2>2, <2>3, CallUpdateJob
  <2>5. CASE Rest(a)
    BY <1>1, <2>4, <2>5
  <2>6. CASE o = "ok" /\ to \in Terminal /\ Work(a, "releaseRead", i, 0, "absent")
    <3>1. job'[i] = [state |-> to, rev |-> job[i].rev + 1]
      BY <1>0, <2>0, <2>1, <2>6 DEF Call, Commit, UpdateJob, JobOps, TypeOK
    <3>3. ASSUME NEW j \in Ids, j = i PROVE Dead(j)'
      BY <1>0, <2>0, <2>6, <3>1, <3>3 DEF Dead
    <3>4. ASSUME NEW j \in Ids, j = i PROVE Preserved
      BY <1>2, <2>0, <2>4, <2>6, <3>3, <3>4 DEF AgentPCs, States
    <3> QED BY <2>0, <3>4
  <2> QED BY <2>1, <2>5, <2>6
<1>6. CASE RetireRecord(a)
  <2>0. PICK i \in Ids : i = g.id
    BY <1>0, <1>6 DEF RetireRecord, AgentOK
  <2>1. /\ g.pc = "write" /\ job[i].rev > 0 /\ g.state \in Retirable
        /\ g.rev <= job[i].rev /\ g.rev > 0
        /\ g.rev = job[i].rev => job[i].state = g.state
    BY <1>0, <1>6, <2>0 DEF RetireRecord, AgentOK
  <2>2. PICK o \in Outcomes :
          /\ Call(DeleteJob(i, g.rev), o)
          /\ \/ o = "ok" /\ Keyed(i) /\ Work(a, "dropRead", i, 0, "absent")
             \/ Rest(a)
    BY <1>6, <2>0 DEF RetireRecord
  <2>3. Quiet /\ late' \in SUBSET Writes /\ \A v \in late' : v \in late \/ LateOK(v)'
    BY <1>0, <2>1, <2>2, CallDeleteJob
  <2>4. CASE Rest(a)
    BY <1>1, <2>3, <2>4
  <2>5. CASE o = "ok" /\ Keyed(i) /\ Work(a, "dropRead", i, 0, "absent")
    <3>1. job'[i] = [state |-> "absent", rev |-> job[i].rev + 1]
      BY <1>0, <2>1, <2>2, <2>5 DEF Call, Commit, DeleteJob, JobOps, TypeOK
    <3>2. StaleDead(i)'
      BY <1>0, <2>1, <3>1 DEF StaleDead, Stale
    <3> QED BY <1>2, <2>1, <2>3, <2>5, <3>2 DEF AgentPCs, States
  <2> QED BY <2>2, <2>4, <2>5
<1>7. CASE ReleaseRead(a)
  <2>0. PICK i \in Ids : i = g.id
    BY <1>0, <1>7 DEF ReleaseRead, AgentOK
  <2>1. /\ Dead(i) /\ job[i].rev > 0 /\ UNCHANGED <<store, late, published>>
    BY <1>0, <1>7, <2>0 DEF ReleaseRead, AgentOK
  <2>2. CASE Rest(a)
    BY <1>1, <1>3, <2>1, <2>2
  <2>3. CASE /\ active[ServiceOf[i]].id = i
             /\ Work(a, "deleteActive", i, active[ServiceOf[i]].rev, "absent")
    <3>1. active[ServiceOf[i]].rev \in Nat
      BY <1>0 DEF TypeOK
    <3>2. ASSUME NEW r \in Nat, r = active[ServiceOf[i]].rev
          PROVE  ActiveSeen(ServiceOf[i], i, r)' /\ Dead(i)'
      BY <1>3, <2>1, <2>3, <3>2 DEF ActiveSeen, Dead
    <3>3. ASSUME NEW r \in Nat, r = active[ServiceOf[i]].rev PROVE Preserved
      BY <1>2, <1>3, <2>1, <2>3, <3>2, <3>3 DEF AgentPCs, States
    <3> QED BY <3>1, <3>3
  <2> QED BY <1>7, <2>0, <2>2, <2>3 DEF ReleaseRead
<1>8. CASE \E s \in Services : SweepActive(a, s)
  <2>1. PICK s \in Services : SweepActive(a, s)
    BY <1>8
  <2>2. PICK i \in Ids, r \in Nat : i = active[s].id /\ r = active[s].rev
    BY <1>0, <2>1 DEF SweepActive, TypeOK
  <2>3. /\ job[i].rev > 0 /\ ServiceOf[i] = s /\ UNCHANGED <<store, late, published>>
        /\ Work(a, "sweepRead", i, r, "absent")
    BY <1>0, <2>1, <2>2 DEF SweepActive, IInv, NamesOK
  <2>4. ActiveSeen(ServiceOf[i], i, r)'
    BY <1>0, <1>3, <2>2, <2>3 DEF ActiveSeen
  <2> QED BY <1>2, <1>3, <2>3, <2>4 DEF AgentPCs, States
<1>9. CASE SweepRead(a)
  <2>0. PICK i \in Ids, r \in Nat : i = g.id /\ r = g.rev
    BY <1>0, <1>9 DEF SweepRead, AgentOK
  <2>1. /\ ActiveSeen(ServiceOf[i], i, r) /\ job[i].rev > 0
        /\ UNCHANGED <<store, late, published>>
    BY <1>0, <1>9, <2>0 DEF SweepRead, AgentOK
  <2>2. CASE Rest(a)
    BY <1>1, <1>3, <2>1, <2>2
  <2>3. CASE /\ job[i].state \in Terminal \cup {"absent"}
             /\ Work(a, "deleteActive", i, r, "absent")
    <3>1. Dead(i)
      BY <1>0, <2>1, <2>3 DEF Dead, RecordOK, Terminal, Ended
    <3>2. ActiveSeen(ServiceOf[i], i, r)' /\ Dead(i)'
      BY <1>3, <2>1, <3>1 DEF ActiveSeen, Dead
    <3> QED BY <1>2, <1>3, <2>1, <2>3, <3>2 DEF AgentPCs, States
  <2> QED BY <1>9, <2>0, <2>2, <2>3 DEF SweepRead
<1>10. CASE DeleteActiveKey(a)
  <2>0. PICK i \in Ids, r \in Nat : i = g.id /\ r = g.rev
    BY <1>0, <1>10 DEF DeleteActiveKey, AgentOK
  <2>1. /\ ActiveSeen(ServiceOf[i], i, r) /\ Dead(i) /\ job[i].rev > 0
    BY <1>0, <1>10, <2>0 DEF DeleteActiveKey, AgentOK
  <2>2. PICK o \in Outcomes : Call(DeleteActive(i, r), o)
    BY <1>10, <2>0 DEF DeleteActiveKey
  <2>3. ActiveDoomed(ServiceOf[i], r)
    BY <1>0, <2>1, SeenIsDoomed DEF Released
  <2>4. Quiet /\ late' \in SUBSET Writes /\ \A v \in late' : v \in late \/ LateOK(v)'
    BY <1>0, <2>1, <2>2, <2>3, CallDeleteActive
  <2> QED BY <1>1, <1>10, <2>4 DEF DeleteActiveKey
<1>11. CASE DropRead(a)
  <2>0. PICK i \in Ids : i = g.id
    BY <1>0, <1>11 DEF DropRead, AgentOK
  <2>1. /\ StaleDead(i) /\ Keyed(i) /\ KeyOf[i] \in Keys /\ job[i].rev > 0
        /\ UNCHANGED <<store, late, published>>
    BY <1>0, <1>11, <2>0 DEF DropRead, AgentOK
  <2>2. CASE Rest(a)
    BY <1>1, <1>3, <2>1, <2>2
  <2>3. CASE /\ receipt[KeyOf[i]].id = i
             /\ Work(a, "deleteReceipt", i, receipt[KeyOf[i]].rev, "absent")
    <3>1. PICK r \in Nat : r = receipt[KeyOf[i]].rev
      BY <1>0, <2>1 DEF TypeOK
    <3>2. ReceiptSeen(KeyOf[i], i, r)' /\ StaleDead(i)'
      BY <1>3, <2>1, <2>3, <3>1 DEF ReceiptSeen, StaleDead
    <3> QED BY <1>2, <1>3, <2>1, <2>3, <3>1, <3>2 DEF AgentPCs, States
  <2> QED BY <1>11, <2>0, <2>2, <2>3 DEF DropRead
<1>12. CASE \E k \in Keys : Reconcile(a, k)
  <2>1. PICK k \in Keys : Reconcile(a, k)
    BY <1>12
  <2>2. PICK i \in Ids, r \in Nat : i = receipt[k].id /\ r = receipt[k].rev
    BY <1>0, <2>1 DEF Reconcile, TypeOK
  <2>3. /\ job[i].rev > 0 /\ KeyOf[i] = k /\ Keyed(i)
        /\ UNCHANGED <<store, late, published>>
        /\ Work(a, "reconcileRead", i, r, "absent")
    BY <1>0, <2>1, <2>2, SentinelAssumption DEF Reconcile, IInv, NamesOK, Keyed
  <2>4. ReceiptSeen(KeyOf[i], i, r)'
    BY <1>0, <1>3, <2>2, <2>3 DEF ReceiptSeen
  <2> QED BY <1>2, <1>3, <2>3, <2>4 DEF AgentPCs, States
<1>13. CASE ReconcileRead(a)
  <2>0. PICK i \in Ids, r \in Nat : i = g.id /\ r = g.rev
    BY <1>0, <1>13 DEF ReconcileRead, AgentOK
  <2>1. /\ ReceiptSeen(KeyOf[i], i, r) /\ Keyed(i) /\ job[i].rev > 0
        /\ UNCHANGED <<store, late, published>>
    BY <1>0, <1>13, <2>0 DEF ReconcileRead, AgentOK
  <2>2. CASE Rest(a)
    BY <1>1, <1>3, <2>1, <2>2
  <2>3. CASE job[i].state = "absent" /\ Work(a, "deleteReceipt", i, r, "absent")
    <3>1. StaleDead(i)
      BY <1>0, <2>1, <2>3 DEF StaleDead, Stale, RecordOK
    <3>2. ReceiptSeen(KeyOf[i], i, r)' /\ StaleDead(i)'
      BY <1>3, <2>1, <3>1 DEF ReceiptSeen, StaleDead
    <3> QED BY <1>2, <1>3, <2>1, <2>3, <3>2 DEF AgentPCs, States
  <2> QED BY <1>13, <2>0, <2>2, <2>3 DEF ReconcileRead
<1>14. CASE DeleteReceiptKey(a)
  <2>0. PICK i \in Ids, r \in Nat : i = g.id /\ r = g.rev
    BY <1>0, <1>14 DEF DeleteReceiptKey, AgentOK
  <2>1. /\ ReceiptSeen(KeyOf[i], i, r) /\ StaleDead(i) /\ Keyed(i)
    BY <1>0, <1>14, <2>0 DEF DeleteReceiptKey, AgentOK
  <2>2. PICK o \in Outcomes : Call(DeleteReceipt(i, r), o)
    BY <1>14, <2>0 DEF DeleteReceiptKey
  <2>3. ReceiptDoomed(KeyOf[i], r)
    BY <1>0, <2>1, SeenIsDoomed
  <2>4. Quiet /\ late' \in SUBSET Writes /\ \A v \in late' : v \in late \/ LateOK(v)'
    BY <1>0, <2>1, <2>2, <2>3, CallDeleteReceipt
  <2> QED BY <1>1, <1>14, <2>4 DEF DeleteReceiptKey
<1>15. CASE StopAgent(a)
  BY <1>1, <1>3, <1>15 DEF StopAgent
<1> QED BY <1>4, <1>5, <1>6, <1>7, <1>8, <1>9, <1>10, <1>11, <1>12, <1>13, <1>14, <1>15
    DEF Agent
-----------------------------------------------------------------------------
(* The steps that are not quiet: a record is created or published, now or  *)
(* by a write under way                                                    *)

\* A step that creates or publishes one record preserves the invariant once
\* the facts about that one record hold afterwards.
LEMMA LoudMove ==
    ASSUME IInv, NEW i \in Ids, StoreOK', Grows, StoreStep,
           agent' = agent, active' = active, receipt' = receipt,
           pub' \in [Ids -> PubRec], late' \in SUBSET Writes,
           \A j \in Ids \ {i} :
              /\ pub'[j] = pub[j] /\ job'[j] = job[j]
              /\ j \in published' <=> j \in published
              /\ PublishLate(j)' <=> PublishLate(j),
           At(i, "done") => At(i, "done")',
           Overtaken(i) => Overtaken(i)',
           GivenUp(i) => GivenUp(i)',
           PubOK(i)', Entitled(i)',
           \A v \in late' :
              \/ /\ v \in late
                 /\ v.id = i => /\ v.op = "createJob" => job'[i] = job[i]
                                /\ v = UpdateJob(i, 1, "pending") =>
                                      (i \in published' <=> i \in published)
              \/ LateOK(v)'
    PROVE  Preserved
<1>1. TypeOK'
  BY DEF StoreOK, TypeOK, PubRec, AgentRec, IInv
<1>2. ASSUME NEW j \in Ids \ {i} PROVE PubOK(j)' /\ Entitled(j)'
  <2>1. PubOK(j)'
    BY PubStable
  <2>2. Entitled(j) /\ (PublishLate(j)' <=> PublishLate(j))
    BY DEF IInv
  <2> QED BY <2>1, <2>2 DEF Entitled, NeedsActive, NeedsReceipt, CanPublish, At, Keyed
<1>3. \A a \in Agents : AgentOK(a)'
  BY AgentStable
<1>4. ASSUME NEW v \in late', v \in late,
             v.id = i => /\ v.op = "createJob" => job'[i] = job[i]
                         /\ v = UpdateJob(i, 1, "pending") =>
                               (i \in published' <=> i \in published)
      PROVE  LateOK(v)'
  <2>1. v.id \in Ids
    BY DEF Writes
  <2>2. ASSUME NEW j \in Ids
        PROVE  /\ At(j, "done") => At(j, "done")'
               /\ Overtaken(j) => Overtaken(j)'
               /\ GivenUp(j) => GivenUp(j)'
    <3>1. CASE j = i
      BY <3>1
    <3>2. CASE j # i
      <4>1. PublishLate(j)' <=> PublishLate(j)
        BY <3>2
      <4> QED BY <3>2, <4>1 DEF At, Overtaken, GivenUp
    <3> QED BY <3>1, <3>2
  <2>3. At(v.id, "done") => At(v.id, "done")'
    BY <2>1, <2>2 DEF At
  <2>4. /\ v.op = "createJob" => job'[v.id] = job[v.id]
        /\ v = UpdateJob(v.id, 1, "pending") => (v.id \in published' <=> v.id \in published)
    BY <1>4, <2>1
  <2> QED BY <1>4, <2>2, <2>3, <2>4, LateStable
<1>5. (\A j \in Ids : RecordOK(j)') /\ NamesOK'
  BY DEF StoreOK
<1> QED BY <1>1, <1>2, <1>3, <1>4, <1>5 DEF IInv, Preserved

\* The write that creates the record of i, when the store takes it.
LEMMA CommitCreate ==
    ASSUME IInv, NEW i \in Ids, job[i].rev = 0, Commit(CreateJob(i))
    PROVE  /\ StoreOK' /\ Grows /\ StoreStep
           /\ active' = active /\ receipt' = receipt /\ published' = published
           /\ job' = [job EXCEPT ![i] = [state |-> "initializing", rev |-> 1]]
<1> DEFINE w == CreateJob(i)
<1>1. /\ w \in Writes /\ w.op = "createJob" /\ w.id = i /\ w.to = "initializing"
  BY DEF CreateJob, Writes, JobOps, States
<1>2. Commit(w)
  OBVIOUS
<1> HIDE DEF w
<1>3. TypeOK /\ StoreOK /\ RecordOK(i)
  BY InvStore DEF IInv
<1>4. Takes(w) /\ Sound(w)
  BY <1>1, <1>3 DEF Takes, Sound, RecordOK
<1>5. StoreOK' /\ Grows /\ StoreStep
  BY <1>1, <1>2, <1>3, <1>4, CommitStore DEF StoreStep
<1>6. /\ active' = active /\ receipt' = receipt /\ published' = published
      /\ job' = [job EXCEPT ![i] = [state |-> "initializing", rev |-> job[i].rev + 1]]
  BY <1>1, <1>2 DEF Commit, JobOps
<1> QED BY <1>5, <1>6

\* The write that publishes i, when the store takes it.
LEMMA CommitPublish ==
    ASSUME IInv, NEW i \in Ids, i \notin published,
           At(i, "publish") \/ PublishLate(i),
           Takes(UpdateJob(i, 1, "pending")), Commit(UpdateJob(i, 1, "pending"))
    PROVE  /\ StoreOK' /\ Grows /\ StoreStep
           /\ active' = active /\ receipt' = receipt /\ published' = published \cup {i}
           /\ job[i].state = "initializing"
           /\ job' = [job EXCEPT ![i] = [state |-> "pending", rev |-> 2]]
<1> DEFINE w == UpdateJob(i, 1, "pending")
<1>1. /\ w \in Writes /\ w.op = "updateJob" /\ w.id = i /\ w.to = "pending" /\ w.rev = 1
  BY DEF UpdateJob, Writes, JobOps, States, Standing, Live
<1>2. Commit(w) /\ Takes(w)
  OBVIOUS
<1> HIDE DEF w
<1>3. TypeOK /\ StoreOK /\ RecordOK(i)
  BY InvStore DEF IInv
<1>4. Sound(w)
  BY <1>1 DEF Sound
<1>5. StoreOK' /\ Grows /\ StoreStep
  BY <1>1, <1>2, <1>3, <1>4, CommitStore DEF StoreStep
<1>6. job[i].rev = 1 /\ job[i].state = "initializing"
  BY <1>1, <1>2, <1>3 DEF Takes, RecordOK
<1>7. /\ active' = active /\ receipt' = receipt /\ published' = published \cup {i}
      /\ job' = [job EXCEPT ![i] = [state |-> "pending", rev |-> job[i].rev + 1]]
  BY <1>1, <1>2 DEF Commit, JobOps
<1> QED BY <1>5, <1>6, <1>7

\* Publish's create of the initializing record preserves the invariant.
LEMMA CreateJobStep ==
    ASSUME IInv, NEW i \in Ids, PublishCreateJob(i)
    PROVE  Preserved
<1>0. /\ PubFacts(i) /\ At(i, "createJob") /\ job[i].rev = 0 /\ job[i].state = "absent"
      /\ i \notin published /\ agent' = agent
  BY PubFactsHold DEF PublishCreateJob, PubFacts, PubOK, Unwritten, At, RecordOK
<1>1. ~PublishLate(i) /\ ~Overtaken(i) /\ ~GivenUp(i) /\ pub[i].pc # "done"
  BY <1>0, NotYetLate DEF At, Overtaken, GivenUp, Withdrawn
<1>2. PICK o \in Outcomes :
        /\ Call(CreateJob(i), o)
        /\ IF o = "ok"
           THEN pub' = [pub EXCEPT ![i].pc = "createActive", ![i].rev = job[i].rev + 1]
           ELSE Answer(i, NoId)
  BY DEF PublishCreateJob
<1>3. \A v \in late : v.id = i => v.op # "createJob"
  BY <1>0, <1>1 DEF IInv, LateOK, At
<1>4. CASE o = "ok"
  <2>1. Commit(CreateJob(i)) /\ late' = late
    BY <1>2, <1>4 DEF Call
  <2>2. /\ StoreOK' /\ Grows /\ StoreStep
        /\ active' = active /\ receipt' = receipt /\ published' = published
        /\ job' = [job EXCEPT ![i] = [state |-> "initializing", rev |-> 1]]
    BY <1>0, <2>1, CommitCreate
  <2> DEFINE p == [pub[i] EXCEPT !.pc = "createActive", !.rev = 1]
  <2>3. pub' = [pub EXCEPT ![i] = p]
    <3>1. pub' = [pub EXCEPT ![i].pc = "createActive", ![i].rev = job[i].rev + 1]
      BY <1>2, <1>4
    <3>2. job[i].rev + 1 = 1
      BY <1>0
    <3> QED BY <3>1, <3>2
  <2>4. p \in PubRec /\ p.pc = "createActive" /\ p.rev = 1 /\ p.answer = pub[i].answer
    BY <1>0 DEF PubFacts, PubRec, PubPCs
  <2> HIDE DEF p
  <2>5. /\ pub' \in [Ids -> PubRec] /\ pub'[i] = p
        /\ \A j \in Ids \ {i} : pub'[j] = pub[j]
    BY <1>0, <2>3, <2>4 DEF PubFacts, TypeOK, PubRec
  <2>6. /\ job'[i].rev = 1 /\ job'[i].state = "initializing"
        /\ \A j \in Ids \ {i} : job'[j] = job[j]
    BY <1>0, <2>2 DEF PubFacts, TypeOK
  <2>7. PubOK(i)'
    BY <1>0, <2>2, <2>4, <2>5, <2>6
    DEF PubFacts, PubOK, Keyed, Unwritten, Written, Holding, HasRead
  <2>8. PublishLate(i)' = PublishLate(i) /\ \A j \in Ids : PublishLate(j)' <=> PublishLate(j)
    BY <2>1 DEF PublishLate
  <2>9. Entitled(i)'
    BY <1>1, <2>4, <2>5, <2>6, <2>8
    DEF Entitled, NeedsActive, NeedsReceipt, CanPublish, Holding, At, Live, Standing, Ended
  <2>10. /\ late' \in SUBSET Writes
         /\ \A v \in late' : v \in late /\ (v.id = i => v.op # "createJob")
         /\ i \in published' <=> i \in published
    BY <1>0, <1>3, <2>1, <2>2 DEF PubFacts
  <2>11. ~At(i, "done")
    BY <1>1 DEF At
  <2> QED BY <1>0, <1>1, <2>2, <2>5, <2>6, <2>7, <2>8, <2>9, <2>10, <2>11, LoudMove
<1>5. CASE o = "unavailable"
  <2>1. Answer(i, NoId) /\ UNCHANGED <<store, published>>
        /\ (late' = late \/ late' = late \cup {CreateJob(i)})
    BY <1>2, <1>5 DEF Call
  <2>2. PICK w \in Writes : w = CreateJob(i)
    BY DEF CreateJob, Writes, JobOps, States
  <2>3. w.op = "createJob" /\ w.id = i /\ w # UpdateJob(i, 1, "pending")
    BY <2>2 DEF CreateJob, UpdateJob
  <2>4. ASSUME NEW j \in Ids PROVE PublishLate(j)' <=> PublishLate(j)
    BY <2>1 DEF PublishLate, UpdateJob, CreateJob
  <2>5. pub'[i].pc = "done"
    BY <1>0, <2>1 DEF Answer, Blank, PubFacts, TypeOK
  <2>6. LateOK(w)'
    BY <1>0, <2>1, <2>2, <2>3, <2>5 DEF LateOK, store, At, CreateJob
  <2>7. late' \in SUBSET Writes /\ \A v \in late' : v \in late \/ LateOK(v)'
    BY <1>0, <2>1, <2>2, <2>6 DEF PubFacts
  <2>8. Quiet
    BY <2>1, <2>4, QuietStill
  <2> QED BY <1>0, <1>1, <2>1, <2>7, <2>8, AnswerMove
<1>6. CASE o = "refused"
  <2>1. ~Takes(CreateJob(i))
    BY <1>2, <1>6 DEF Call
  <2> QED BY <1>0, <2>1 DEF Takes, CreateJob
<1> QED BY <1>4, <1>5, <1>6 DEF Outcomes

\* Publish's update to pending preserves the invariant.
LEMMA PublishStep ==
    ASSUME IInv, NEW i \in Ids, PublishPending(i)
    PROVE  Preserved
<1>0. /\ PubFacts(i) /\ At(i, "publish") /\ job[i].rev >= 1 /\ pub[i].rev = 1
      /\ i \notin published /\ agent' = agent
  BY PubFactsHold DEF PublishPending, PubFacts, PubOK, Written, Holding, At
<1>1. ~PublishLate(i) /\ ~Overtaken(i) /\ ~GivenUp(i) /\ pub[i].pc # "done" /\ ~At(i, "done")
  BY <1>0, NotYetLate DEF At, Overtaken, GivenUp, Withdrawn
<1>2. PICK o \in Outcomes :
        /\ Call(UpdateJob(i, 1, "pending"), o)
        /\ Answer(i, IF o = "ok" THEN i ELSE NoId)
  BY <1>0 DEF PublishPending
<1>3. PICK w \in Writes : w = UpdateJob(i, 1, "pending")
  BY DEF UpdateJob, Writes, JobOps, States, Standing, Live
<1>4. /\ w.op = "updateJob" /\ w.id = i /\ w.rev = 1 /\ w.to = "pending"
  BY <1>3 DEF UpdateJob
<1>5. PICK x \in Ids \cup {NoId} : Answer(i, x) /\ x \in {i, NoId}
  BY <1>2
<1>6. /\ pub' = [pub EXCEPT ![i] = Blank("done", x)] /\ Blank("done", x) \in PubRec
      /\ Blank("done", x).pc = "done" /\ Blank("done", x).answer = x
  BY <1>5 DEF Answer, Blank, PubRec, PubPCs
<1>7. /\ pub' \in [Ids -> PubRec] /\ pub'[i].pc = "done" /\ pub'[i].answer = x
      /\ \A j \in Ids \ {i} : pub'[j] = pub[j]
  BY <1>0, <1>6 DEF PubFacts, TypeOK, PubRec
<1>8. PubOK(i)'
  BY <1>0, <1>5, <1>7 DEF PubOK, Keyed, Unwritten, Written, Holding, HasRead
<1>9. job[i].state = "initializing" =>
          /\ active[ServiceOf[i]].id = i
          /\ Keyed(i) => receipt[KeyOf[i]].id = i
  BY <1>0 DEF PubFacts, Entitled, NeedsActive, NeedsReceipt, CanPublish, Holding, At
<1>10. CASE o = "ok"
  <2>1. Commit(UpdateJob(i, 1, "pending")) /\ Takes(UpdateJob(i, 1, "pending")) /\ late' = late
    BY <1>2, <1>10 DEF Call
  <2>2. /\ StoreOK' /\ Grows /\ StoreStep
        /\ active' = active /\ receipt' = receipt /\ published' = published \cup {i}
        /\ job[i].state = "initializing"
        /\ job' = [job EXCEPT ![i] = [state |-> "pending", rev |-> 2]]
    BY <1>0, <2>1, CommitPublish
  <2>3. \A j \in Ids \ {i} : /\ job'[j] = job[j]
                             /\ j \in published' <=> j \in published
    BY <1>0, <2>2 DEF PubFacts, TypeOK
  <2>4. ASSUME NEW j \in Ids PROVE PublishLate(j)' <=> PublishLate(j)
    BY <2>1 DEF PublishLate
  <2>5. Entitled(i)'
    BY <1>9, <2>2 DEF Entitled, NeedsReceipt, Keyed
  <2>6. /\ late' \in SUBSET Writes
        /\ \A v \in late' : /\ v \in late
                            /\ v.id = i => v.op # "createJob"
                            /\ v # UpdateJob(i, 1, "pending")
    BY <1>0, <1>1, <2>1 DEF PubFacts, IInv, LateOK, PublishLate
  <2> QED BY <1>0, <1>1, <1>7, <1>8, <2>2, <2>3, <2>4, <2>5, <2>6, LoudMove
<1>11. CASE o # "ok"
  <2>1. UNCHANGED <<store, published>> /\ (late' = late \/ late' = late \cup {w})
    BY <1>2, <1>3, <1>11 DEF Call, store
  <2>2. /\ StoreOK' /\ job' = job /\ active' = active /\ receipt' = receipt
        /\ published' = published
    BY <2>1, InvStore DEF store, StoreOK, RecordOK, NamesOK
  <2>3. Grows /\ StoreStep
    BY <1>0, <2>1, <2>2 DEF Grows, Dead, StaleDead, PubFacts, TypeOK, StoreStep
  <2>4. ASSUME NEW j \in Ids \ {i} PROVE PublishLate(j)' <=> PublishLate(j)
    BY <1>3, <2>1 DEF PublishLate, UpdateJob
  <2>5. Entitled(i)'
    <3>1. Entitled(i)
      BY <1>0 DEF PubFacts
    <3> QED BY <1>0, <1>7, <1>9, <2>2, <3>1
        DEF Entitled, NeedsActive, NeedsReceipt, CanPublish, Keyed, Holding, At, Live, Standing
  <2>6. LateOK(w)'
    BY <1>0, <1>3, <1>4, <1>7, <2>2 DEF LateOK, At, PubFacts, TypeOK
  <2>7. /\ late' \in SUBSET Writes
        /\ \A v \in late' : v \in late \/ LateOK(v)'
    BY <1>0, <1>3, <2>1, <2>6 DEF PubFacts
  <2> QED BY <1>0, <1>1, <1>7, <1>8, <2>2, <2>3, <2>4, <2>5, <2>7, LoudMove
<1> QED BY <1>10, <1>11
\* An indeterminate write arrives: it is taken or it is not, and it creates a
\* record, publishes one or does neither.
LEMMA LateStep ==
    ASSUME IInv, LateArrival
    PROVE  Preserved
<1>1. PICK w \in late :
        /\ late' = late \ {w}
        /\ IF Takes(w) THEN Commit(w) ELSE UNCHANGED <<store, published>>
        /\ UNCHANGED <<pub, agent>>
  BY DEF LateArrival
<1>2. /\ TypeOK /\ StoreOK /\ w \in Writes /\ w.id \in Ids /\ w.rev \in Nat /\ w.to \in States
      /\ LateOK(w) /\ late' \in SUBSET Writes /\ \A v \in late' : v \in late /\ v # w
      /\ pub' = pub /\ agent' = agent
      /\ pub' \in [Ids -> PubRec] /\ agent' \in [Agents -> AgentRec]
  BY <1>1, InvStore DEF IInv, TypeOK, Writes, PubRec, AgentRec
<1> DEFINE i == w.id
<1>3. PubFacts(i)
  BY <1>2, PubFactsHold
<1>4. ASSUME NEW j \in Ids, w # UpdateJob(j, 1, "pending") PROVE PublishLate(j)' <=> PublishLate(j)
  BY <1>1, <1>4 DEF PublishLate
<1>5. \A j \in Ids \ {i} : w # UpdateJob(j, 1, "pending")
  BY DEF UpdateJob
<1>7. CASE w.op = "createJob" /\ Takes(w)
  <2>1. /\ w = CreateJob(i) /\ job[i].rev = 0 /\ At(i, "done") /\ Commit(w)
    BY <1>1, <1>2, <1>7 DEF LateOK
  <2>2. /\ StoreOK' /\ Grows /\ StoreStep
        /\ active' = active /\ receipt' = receipt /\ published' = published
        /\ job' = [job EXCEPT ![i] = [state |-> "initializing", rev |-> 1]]
    BY <1>2, <2>1, CommitCreate
  <2>3. /\ job'[i].rev = 1 /\ job'[i].state = "initializing"
        /\ \A j \in Ids \ {i} : job'[j] = job[j]
    BY <1>2, <2>2 DEF TypeOK
  <2>4. ASSUME NEW j \in Ids PROVE PublishLate(j)' <=> PublishLate(j)
    BY <1>4, <2>1 DEF CreateJob, UpdateJob
  <2>5. ~PublishLate(i)
    <3>1. ASSUME NEW v \in late, v = UpdateJob(i, 1, "pending") PROVE FALSE
      <4>1. v.op = "updateJob" /\ v.id = i
        BY <3>1 DEF UpdateJob
      <4>2. LateOK(v) /\ job[v.id].rev > 0
        BY <4>1 DEF IInv, LateOK
      <4> QED BY <2>1, <4>1, <4>2
    <3> QED BY <3>1 DEF PublishLate
  <2>6. PubOK(i)'
    BY <1>2, <1>3, <2>1 DEF PubFacts, PubOK, At, Keyed, Unwritten, Written, Holding, HasRead
  <2>7. Entitled(i)'
    BY <1>2, <2>1, <2>3, <2>4, <2>5
    DEF Entitled, NeedsActive, NeedsReceipt, CanPublish, Holding, At, Live, Standing, Ended
  <2>8. /\ Overtaken(i) => Overtaken(i)'
        /\ GivenUp(i) => GivenUp(i)'
        /\ At(i, "done") => At(i, "done")'
    BY <1>2, <2>2, <2>4 DEF Overtaken, GivenUp, At
  <2>9. \A v \in late' : /\ v \in late
                         /\ v.id = i => v.op # "createJob"
                         /\ i \in published' <=> i \in published
    BY <1>2, <2>1, <2>2 DEF IInv, LateOK
  <2> QED BY <1>2, <2>2, <2>3, <2>4, <2>6, <2>7, <2>8, <2>9, LoudMove
<1>8. CASE w = UpdateJob(i, 1, "pending")
  <2>1. /\ w.op = "updateJob" /\ w.to = "pending" /\ PublishLate(i)
        /\ At(i, "done") /\ i \notin published
    <3>1. w.op = "updateJob" /\ w.to = "pending" /\ PublishLate(i)
      BY <1>8 DEF UpdateJob, PublishLate
    <3> QED BY <1>2, <3>1 DEF LateOK, UpdateOK
  <2>2. ~PublishLate(i)'
    BY <1>1, <1>8 DEF PublishLate
  <2>3. ~Overtaken(i) /\ ~GivenUp(i) /\ (At(i, "done") => At(i, "done")')
    BY <1>2, <2>1 DEF Overtaken, GivenUp, At
  <2>4. \A v \in late' : v \in late /\ v # UpdateJob(i, 1, "pending")
    BY <1>2, <1>8
  <2>5. ASSUME NEW j \in Ids \ {i} PROVE PublishLate(j)' <=> PublishLate(j)
    BY <1>4, <1>5
  <2>6. PubOK(i)'
    BY <1>2, <1>3, <2>1 DEF PubFacts, PubOK, At, Keyed, Unwritten, Written, Holding, HasRead
  <2>7. \A v \in late' : v.id = i => v.op # "createJob"
    <3>1. job[i].rev > 0
      BY <1>2, <2>1 DEF LateOK
    <3> QED BY <2>4, <3>1 DEF IInv, LateOK
  <2>8. CASE Takes(w)
    <3>1. Commit(UpdateJob(i, 1, "pending")) /\ Takes(UpdateJob(i, 1, "pending"))
      BY <1>1, <1>8, <2>8
    <3>2. /\ StoreOK' /\ Grows /\ StoreStep
          /\ active' = active /\ receipt' = receipt /\ published' = published \cup {i}
          /\ job[i].state = "initializing"
          /\ job' = [job EXCEPT ![i] = [state |-> "pending", rev |-> 2]]
      BY <1>2, <2>1, <3>1, CommitPublish
    <3>3. \A j \in Ids \ {i} : /\ job'[j] = job[j]
                               /\ j \in published' <=> j \in published
      BY <1>2, <3>2 DEF TypeOK
    <3>4. /\ active[ServiceOf[i]].id = i
          /\ Keyed(i) => receipt[KeyOf[i]].id = i
      BY <1>3, <2>1, <3>2 DEF PubFacts, Entitled, NeedsActive, NeedsReceipt, CanPublish
    <3>5. Entitled(i)'
      BY <3>2, <3>4 DEF Entitled, NeedsReceipt, Keyed
    <3> QED BY <1>2, <2>3, <2>4, <2>5, <2>6, <2>7, <3>2, <3>3, <3>5, LoudMove
  <2>9. CASE ~Takes(w)
    <3>1. /\ StoreOK' /\ job' = job /\ active' = active /\ receipt' = receipt
          /\ published' = published
      BY <1>1, <2>9, InvStore DEF store, StoreOK, RecordOK, NamesOK
    <3>2. Grows /\ StoreStep
      BY <1>2, <3>1 DEF Grows, Dead, StaleDead, TypeOK, StoreStep, store
    <3>3. Entitled(i)'
      <4>1. Entitled(i)
        BY <1>3 DEF PubFacts
      <4> QED BY <1>2, <2>2, <3>1, <4>1
          DEF Entitled, NeedsActive, NeedsReceipt, CanPublish, Keyed, At
    <3> QED BY <1>2, <2>3, <2>4, <2>5, <2>6, <2>7, <3>1, <3>2, <3>3, LoudMove
  <2> QED BY <2>8, <2>9
<1>9. CASE /\ w # UpdateJob(i, 1, "pending")
           /\ ~(w.op = "createJob" /\ Takes(w))
  <2>1. ASSUME NEW j \in Ids PROVE PublishLate(j)' <=> PublishLate(j)
    BY <1>4, <1>5, <1>9
  <2>2. Quiet
    <3>1. CASE ~Takes(w)
      BY <1>1, <2>1, <3>1, QuietStill
    <3>2. CASE Takes(w)
      <4>1. Commit(w) /\ w.op # "createJob"
        BY <1>1, <1>9, <3>2
      <4>2. w.op = "updateJob" => UpdateOK(w)
        BY <1>2, <1>9 DEF LateOK
      <4>3. w.op = "deleteJob" => DeleteOK(w)
        BY <1>2 DEF LateOK
      <4>4. Sound(w)
        BY <1>2, <4>1, <4>2, <4>3 DEF LateOK, Sound, DeleteOK, Overtaken
      <4>5. w.to # "pending"
        BY <1>2, <4>1, <4>2, <4>3 DEF LateOK, UpdateOK, DeleteOK, Writes, JobOps
      <4> QED BY <1>2, <2>1, <3>2, <4>1, <4>4, <4>5, QuietCommit
    <3> QED BY <3>1, <3>2
  <2> QED BY <1>2, <2>2, StillMove
<1> QED BY <1>7, <1>8, <1>9
-----------------------------------------------------------------------------
(* Theorems                                                                *)

\* The initial states satisfy the invariant.
LEMMA InitInv == Init => IInv
<1> SUFFICES ASSUME Init PROVE IInv
  OBVIOUS
<1>1. TypeOK
  BY DEF Init, TypeOK, Blank, NoWork, PubPCs, AgentPCs, States, Writes
<1>2. ASSUME NEW i \in Ids PROVE RecordOK(i) /\ PubOK(i) /\ Entitled(i)
  <2>1. /\ job[i].state = "absent" /\ job[i].rev = 0 /\ i \notin published
        /\ pub[i].pc = "idle" /\ pub[i].answer = NoId /\ ~PublishLate(i)
    BY DEF Init, Blank, PublishLate
  <2>2. RecordOK(i)
    BY <2>1 DEF RecordOK
  <2>3. PubOK(i)
    BY <2>1 DEF PubOK, Unwritten, Written, Holding, HasRead
  <2>4. Entitled(i)
    BY <2>1 DEF Entitled, NeedsActive, NeedsReceipt, Live, Standing, Ended
  <2> QED BY <2>2, <2>3, <2>4
<1>3. NamesOK
  BY DEF Init, NamesOK
<1>4. ASSUME NEW a \in Agents PROVE AgentOK(a)
  BY DEF Init, NoWork, AgentOK
<1> QED BY <1>1, <1>2, <1>3, <1>4 DEF IInv, Init

\* Every step preserves the invariant, and is a sound write or none.
LEMMA StepInv == ASSUME IInv, [Next]_vars PROVE Preserved
<1>1. ASSUME NEW i \in Ids, Publisher(i) PROVE Preserved
  BY <1>1, PubReads, PubCalls, CreateJobStep, PublishStep DEF Publisher
<1>2. ASSUME NEW a \in Agents, Agent(a) PROVE Preserved
  BY <1>2, AgentStep
<1>3. CASE LateArrival
  BY <1>3, LateStep
<1>4. CASE UNCHANGED vars
  <2>1. UNCHANGED <<store, late, published>> /\ pub' = pub /\ agent' = agent
    BY <1>4 DEF vars, store
  <2>2. late' \in SUBSET Writes /\ \A v \in late' : v \in late
    BY <2>1 DEF IInv, TypeOK
  <2> QED BY <2>1, <2>2, QuietRead, StillMove
<1> QED BY <1>1, <1>2, <1>3, <1>4 DEF Next

\* IInv holds in every state: every delete held by a process or left behind in
\* an indeterminate call names a past revision or a Collection gone for good.
THEOREM Inductive == Spec => []IInv
<1>1. Init => IInv
  BY InitInv
<1>2. IInv /\ [Next]_vars => IInv'
  BY StepInv DEF Preserved
<1> QED BY <1>1, <1>2, PTL DEF Spec

\* Every variable keeps its type, whatever the store answers.
THEOREM TypeCorrect == Spec => []TypeOK
<1>1. IInv => TypeOK
  BY DEF IInv
<1> QED BY <1>1, Inductive, PTL

\* No release, sweep, withdrawal or late write frees a Service under its live
\* Collection (releaseActive, sweepActive and withdraw).
THEOREM LiveHoldsActiveHolds == Spec => []LiveHoldsActive
<1>1. IInv => LiveHoldsActive
  BY DEF IInv, Entitled, NeedsActive, LiveHoldsActive
<1> QED BY <1>1, Inductive, PTL

\* No clean-up of a stale receipt takes a standing binding with it
\* (lookupReceipt, createReceipt, dropReceipt and reconcileReceipts).
THEOREM StandingIsBoundHolds == Spec => []StandingIsBound
<1>1. IInv => StandingIsBound
  BY DEF IInv, Entitled, NeedsReceipt, StandingIsBound
<1> QED BY <1>1, Inductive, PTL

\* Two callers with one key are told of one Collection (answerFromReceipt and
\* refuseLoser against a publication of the same key).
THEOREM AnswersAgreeHolds == Spec => []AnswersAgree
<1>1. IInv => AnswersAgree
  <2> SUFFICES ASSUME IInv, NEW i \in Ids, NEW j \in Ids,
                      Keyed(i), KeyOf[i] = KeyOf[j],
                      pub[i].answer # NoId, pub[j].answer # NoId,
                      job[pub[i].answer].state \in Standing,
                      job[pub[j].answer].state \in Standing
               PROVE  pub[i].answer = pub[j].answer
    BY DEF AnswersAgree
  <2>1. /\ pub[i].answer \in Ids /\ pub[j].answer \in Ids
    BY DEF IInv, TypeOK
  <2>2. KeyOf[pub[i].answer] = KeyOf[i] /\ KeyOf[pub[j].answer] = KeyOf[i]
    BY DEF IInv, PubOK, Keyed
  <2>3. \A x \in {pub[i].answer, pub[j].answer} : receipt[KeyOf[i]].id = x
    BY <2>1, <2>2 DEF IInv, Entitled, NeedsReceipt, Keyed
  <2> QED BY <2>3
<1> QED BY <1>1, Inductive, PTL

\* Every conditional write keeps the order of a record's states: an ended
\* Collection is never live again and a deleted one never comes back.
THEOREM EndIsFinalHolds == Spec => EndIsFinal
<1> DEFINE Final(i) ==
             /\ job[i].state \in Terminal =>
                   \/ job'[i] = job[i]
                   \/ job[i].state = "completed" /\ job'[i].state = "expired"
                   \/ job[i].state \in Retirable /\ job'[i].state = "absent"
             /\ job[i].state = "absent" /\ job[i].rev > 0 => job'[i] = job[i]
<1>1. ASSUME IInv, [Next]_vars, NEW i \in Ids PROVE Final(i)
  <2>0. RecordOK(i) /\ TypeOK
    BY <1>1 DEF IInv
  <2>1. CASE UNCHANGED <<store, published>>
    BY <2>1 DEF store
  <2>2. ASSUME NEW w \in Writes, Sound(w), Takes(w), Commit(w) PROVE Final(i)
    <3>0. w.id \in Ids
      BY DEF Writes
    <3>1. CASE i # w.id \/ w.op \notin JobOps
      BY <2>0, <2>2, <3>0, <3>1 DEF Commit, TypeOK
    <3>2. CASE i = w.id /\ w.op = "createJob"
      BY <2>0, <2>2, <3>2 DEF Takes, Sound, RecordOK, Terminal, Ended
    <3>3. CASE i = w.id /\ w.op = "updateJob"
      <4>1. job[i].state # "absent" /\ job[i].rev = w.rev /\ job'[i].state = w.to
        BY <2>0, <2>2, <3>0, <3>3 DEF Takes, Commit, TypeOK, JobOps
      <4>2. CASE w.to = "pending" /\ w.rev = 1
        BY <2>0, <4>1, <4>2 DEF RecordOK, Terminal, Ended
      <4>3. CASE UpdateOK(w)
        BY <3>3, <4>1, <4>3 DEF UpdateOK, Successors, Terminal, Ended
      <4> QED BY <2>2, <3>3, <4>2, <4>3 DEF Sound
    <3>4. CASE i = w.id /\ w.op = "deleteJob"
      <4>1. job[i].state # "absent" /\ job[i].rev = w.rev /\ job'[i].state = "absent"
        BY <2>0, <2>2, <3>0, <3>4 DEF Takes, Commit, TypeOK, JobOps, Sound
      <4>2. job[i].state \in Retirable \/ i \notin published
        BY <2>2, <3>4, <4>1 DEF Sound
      <4> QED BY <2>0, <4>1, <4>2 DEF RecordOK, Terminal, Ended, Retirable
    <3> QED BY <3>1, <3>2, <3>3, <3>4 DEF JobOps
  <2> QED BY <1>1, <2>1, <2>2, StepInv DEF Preserved, StoreStep
<1>2. IInv /\ [Next]_vars => [\A i \in Ids : Final(i)]_vars
  BY <1>1
<1> QED BY <1>2, Inductive, PTL DEF Spec, EndIsFinal
\* The publication protocol implements Collections: one publication, one end and
\* one forgetting per Collection, each only when the Service and the key allow.
THEOREM Refinement == Spec => ImplementsCollections
<1>1. Init => Abstract!Init
  BY DEF Init, Abstract!Init, statusMap
<1>2. ASSUME IInv, [Next]_vars PROVE [Abstract!Next]_statusMap
  <2>0. /\ TypeOK /\ Preserved
        /\ \A j \in Ids : RecordOK(j) /\ Entitled(j) /\ RecordOK(j)'
    BY <1>2, StepInv DEF IInv, Preserved
  <2>1. CASE UNCHANGED <<store, published>>
    BY <2>1 DEF store, statusMap
  <2>2. ASSUME NEW w \in Writes, Sound(w), Takes(w), Commit(w)
        PROVE  [Abstract!Next]_statusMap
    <3> DEFINE i == w.id
    <3>0. i \in Ids
      BY DEF Writes
    <3>1. ASSUME w.op \notin JobOps PROVE statusMap' = statusMap
      <4>1. job' = job /\ published' = published
        BY <2>2, <3>1 DEF Commit, Sound, Writes, JobOps
      <4> QED BY <4>1 DEF statusMap
    <3>2. ASSUME w.op \in JobOps
          PROVE  /\ job'[i].state = w.to
                 /\ \A j \in Ids \ {i} : /\ job'[j] = job[j]
                                         /\ j \in published' <=> j \in published
                                         /\ statusMap'[j] = statusMap[j]
      <4>1. /\ job'[i].state = w.to
            /\ \A j \in Ids \ {i} : /\ job'[j] = job[j]
                                    /\ j \in published' <=> j \in published
        BY <2>0, <2>2, <3>0, <3>2 DEF Commit, TypeOK
      <4> QED BY <4>1 DEF statusMap
    <3>3. ASSUME w.op \in JobOps, statusMap'[i] = statusMap[i] PROVE statusMap' = statusMap
      <4>1. \A j \in Ids : statusMap'[j] = statusMap[j]
        BY <3>2, <3>3
      <4> QED BY <4>1 DEF statusMap
    <3>4. ASSUME w.op \in JobOps, NEW x, statusMap'[i] = x
          PROVE  statusMap' = [statusMap EXCEPT ![i] = x]
      <4>1. \A j \in Ids : statusMap'[j] = [statusMap EXCEPT ![i] = x][j]
        BY <3>0, <3>2, <3>4 DEF statusMap
      <4> QED BY <4>1 DEF statusMap
    <3>5. CASE w.op = "createJob"
      <4>1. job[i].rev = 0 /\ i \notin published /\ published' = published
        BY <2>0, <2>2, <3>0, <3>5 DEF Sound, Commit, RecordOK
      <4>2. statusMap'[i] = statusMap[i]
        BY <3>0, <4>1 DEF statusMap
      <4> QED BY <3>3, <3>5, <4>2 DEF JobOps
    <3>6. CASE w.op = "updateJob" /\ w.to = "pending"
      <4>1. /\ job[i].state = "initializing" /\ i \notin published
            /\ At(i, "publish") \/ PublishLate(i)
            /\ published' = published \cup {i}
        BY <2>0, <2>2, <3>0, <3>6 DEF Sound, Takes, Commit, RecordOK, UpdateOK, JobOps
      <4>2. /\ active[ServiceOf[i]].id = i
            /\ Keyed(i) => receipt[KeyOf[i]].id = i
        <5>1. Entitled(i)
          BY <2>0, <3>0
        <5> QED BY <4>1, <5>1 DEF Entitled, NeedsActive, NeedsReceipt, CanPublish, At, Holding
      <4>3. statusMap[i] = "unpublished" /\ statusMap'[i] = "live"
        BY <3>0, <3>2, <3>6, <4>1 DEF statusMap, Live, JobOps
      <4>4. ASSUME NEW j \in Ids, Abstract!SameService(i, j) PROVE statusMap[j] # "live"
        <5>1. CASE job[j].state \in Live
          <6>1. active[ServiceOf[j]].id = j
            BY <2>0, <5>1 DEF Entitled, NeedsActive
          <6> QED BY <4>2, <4>3, <4>4, <6>1 DEF Abstract!SameService
        <5>2. CASE job[j].state \notin Live
          BY <5>2 DEF statusMap
        <5> QED BY <5>1, <5>2
      <4>5. ASSUME NEW j \in Ids, Abstract!SameKey(i, j)
            PROVE  statusMap[j] \notin {"live", "ended"}
        <5>1. KeyOf[j] = KeyOf[i] /\ Keyed(i) /\ Keyed(j)
          BY <4>5 DEF Abstract!SameKey, Keyed
        <5>2. CASE job[j].state \in Standing
          <6>1. receipt[KeyOf[j]].id = j
            BY <2>0, <5>1, <5>2 DEF Entitled, NeedsReceipt
          <6> QED BY <4>2, <4>3, <5>1, <6>1
        <5>3. CASE job[j].state \notin Standing
          BY <2>0, <5>3 DEF statusMap, RecordOK, Standing
        <5> QED BY <5>2, <5>3
      <4>6. statusMap' = [statusMap EXCEPT ![i] = "live"]
        BY <3>4, <3>6, <4>3 DEF JobOps
      <4>7. Abstract!Publish(i)
        BY <4>3, <4>4, <4>5, <4>6 DEF Abstract!Publish
      <4> QED BY <3>0, <4>7 DEF Abstract!Next
    <3>7. CASE w.op = "updateJob" /\ w.to # "pending"
      <4>1. /\ UpdateOK(w) /\ job[i].rev = w.rev /\ published' = published
            /\ w.to \in Successors(job[i].state)
        BY <2>2, <3>7 DEF Sound, Takes, Commit, UpdateOK
      <4>2. CASE job[i].state \in Live /\ w.to \notin Live
        <5>1. statusMap[i] = "live" /\ statusMap'[i] = "ended"
          BY <2>0, <3>0, <3>2, <3>7, <4>1, <4>2
          DEF statusMap, RecordOK, Live, Successors, JobOps
        <5>2. statusMap' = [statusMap EXCEPT ![i] = "ended"]
          BY <3>4, <3>7, <5>1 DEF JobOps
        <5> QED BY <3>0, <5>1, <5>2 DEF Abstract!Next, Abstract!End
      <4>3. CASE ~(job[i].state \in Live /\ w.to \notin Live)
        <5>1. \/ job[i].state \in Live /\ w.to \in Live
              \/ job[i].state = "initializing" /\ w.to = "notPublished"
              \/ job[i].state = "completed" /\ w.to = "expired"
          BY <4>1, <4>3 DEF Successors, Live
        <5>2. statusMap'[i] = statusMap[i]
          BY <2>0, <3>0, <3>2, <3>7, <4>1, <5>1 DEF statusMap, RecordOK, Live, Standing, Ended, JobOps
        <5> QED BY <3>3, <3>7, <5>2 DEF JobOps
      <4> QED BY <4>2, <4>3
    <3>8. CASE w.op = "deleteJob"
      <4>1. /\ job[i].state # "absent" /\ w.to = "absent" /\ published' = published
            /\ job[i].state \in Retirable \/ i \notin published
        BY <2>2, <3>8 DEF Sound, Takes, Commit
      <4>2. CASE i \in published
        <5>1. statusMap[i] = "ended" /\ statusMap'[i] = "forgotten"
          BY <3>0, <3>2, <3>8, <4>1, <4>2
          DEF statusMap, Retirable, Terminal, Ended, Live, JobOps
        <5>2. statusMap' = [statusMap EXCEPT ![i] = "forgotten"]
          BY <3>4, <3>8, <5>1 DEF JobOps
        <5> QED BY <3>0, <5>1, <5>2 DEF Abstract!Next, Abstract!Forget
      <4>3. CASE i \notin published
        <5>1. statusMap'[i] = statusMap[i]
          BY <3>0, <4>1, <4>3 DEF statusMap
        <5> QED BY <3>3, <3>8, <5>1 DEF JobOps
      <4> QED BY <4>2, <4>3
    <3> QED BY <3>1, <3>5, <3>6, <3>7, <3>8 DEF JobOps
  <2> QED BY <2>0, <2>1, <2>2 DEF Preserved, StoreStep
<1>3. IInv /\ [Next]_vars => [Abstract!Next]_statusMap
  BY <1>2
<1> QED BY <1>1, <1>3, Inductive, PTL DEF Spec, ImplementsCollections, Abstract!Spec


-----------------------------------------------------------------------------
(* One run of collect.  Owners, scans and sweeps keep the invariant of     *)
(* Publication at the one step of each that Collecting has, so a standing  *)
(* attempt is bound by the command's key; what is left is what the handler *)
(* of a refused attempt leaves behind: nothing that could still publish.   *)

\* The attempt is over, unpublished, and no write of it will publish it.
Closed(i) == pub[i].pc = "done" /\ ~PublishLate(i) /\ i \notin published

Losing == {"loserLookup", "loserRecord"}

\* What one step of a handler does, as far as its command can tell.
Handles(i) ==
    /\ \A j \in Ids \ {i} : pub'[j] = pub[j]
    /\ pub[i].pc # "done" /\ pub'[i].pc # "idle"
    /\ \/ pub'[i].answer \in {pub[i].answer, NoId, i}
       \/ pub[i].pc \in HasRead /\ pub'[i].answer = pub[i].rid
    /\ pub'[i].pc \in Losing => pub[i].pc \in Losing \cup {"discard"}
    /\ pub'[i].pc = "done" => pub'[i] = Blank("done", pub'[i].answer) \/ pub[i].pc \in Losing
    /\ \A j \in Ids : PublishLate(j)' => PublishLate(j) \/ At(j, "publish")

\* A call that is not the publish leaves no publish behind.
LEMMA CallLeaves ==
    ASSUME NEW w, NEW o, Call(w, o), w.to # "pending", NEW j
    PROVE  PublishLate(j)' => PublishLate(j)
<1>1. UpdateJob(j, 1, "pending").to = "pending"
  BY DEF UpdateJob
<1>2. \A v \in late' : v \in late \/ v = w
  BY DEF Call
<1> QED BY <1>1, <1>2 DEF PublishLate

\* Going on, and answering.
LEMMA GoHandles ==
    ASSUME TypeOK, NEW i \in Ids, NEW pc, Go(i, pc) \/ GoFresh(i, pc),
           pub[i].pc # "done", pc # "idle", pc = "done" => pub[i].pc \in Losing,
           pc \in Losing => pub[i].pc \in Losing \cup {"discard"},
           \A j \in Ids : PublishLate(j)' => PublishLate(j) \/ At(j, "publish")
    PROVE  Handles(i)
<1>1. pub'[i].pc = pc /\ pub'[i].answer = pub[i].answer /\ \A j \in Ids \ {i} : pub'[j] = pub[j]
  BY DEF Go, GoFresh, TypeOK
<1> QED BY <1>1 DEF Handles

LEMMA AnswerHandles ==
    ASSUME TypeOK, NEW i \in Ids, NEW x, Answer(i, x), pub[i].pc # "done",
           x \in {NoId, i} \/ (pub[i].pc \in HasRead /\ x = pub[i].rid),
           \A j \in Ids : PublishLate(j)' => PublishLate(j) \/ At(j, "publish")
    PROVE  Handles(i)
<1>1. pub'[i] = Blank("done", x) /\ \A j \in Ids \ {i} : pub'[j] = pub[j]
  BY DEF Answer, TypeOK
<1>2. pub'[i].pc = "done" /\ pub'[i].answer = x
  BY <1>1 DEF Blank
<1>3. pub'[i] = Blank("done", pub'[i].answer)
  BY <1>1, <1>2
<1>4. "done" \notin Losing
  BY DEF Losing
<1> QED BY <1>1, <1>2, <1>3, <1>4 DEF Handles

LEMMA PublisherHandles ==
    ASSUME TypeOK, NEW i \in Ids, Publisher(i)
    PROVE  Handles(i)
<1> DEFINE Left == \A j \in Ids : PublishLate(j)' => PublishLate(j) \/ At(j, "publish")
<1>1. late' = late => Left
  BY DEF PublishLate
<1>2. ASSUME NEW w, NEW o, Call(w, o), w.to # "pending" PROVE Left
  BY <1>2, CallLeaves
<1> HIDE DEF Left
<1>3. CASE Start(i)
  <2>1. late' = late /\ pub[i].pc = "idle"
    BY <1>3 DEF Start, At
  <2>2. PICK pc \in {"lookup", "createJob"} : Go(i, pc)
    BY <1>3 DEF Start
  <2> QED BY <1>1, <2>1, <2>2, GoHandles DEF Left, Losing
<1>4. ASSUME NEW here, NEW miss, NEW hit, LookupReceipt(i, here, miss, hit),
             \/ here = "lookup" /\ miss = "createJob" /\ hit = "lookupRecord"
             \/ here = "loserLookup" /\ miss = "done" /\ hit = "loserRecord"
      PROVE  Handles(i)
  <2>1. late' = late /\ pub[i].pc = here
    BY <1>4 DEF LookupReceipt, At
  <2>2. /\ \A j \in Ids \ {i} : pub'[j] = pub[j]
        /\ pub'[i].pc \in {miss, hit} /\ pub'[i].answer = pub[i].answer
    BY <1>4 DEF LookupReceipt, TypeOK
  <2>3. Left
    BY <1>1, <2>1
  <2> QED BY <1>4, <2>1, <2>2, <2>3 DEF Handles, Left, Losing
<1>5. ASSUME NEW here, NEW stale, LookupRecord(i, here, stale),
             \/ here = "lookupRecord" /\ stale = "clearStale"
             \/ here = "loserRecord" /\ stale = "done"
      PROVE  Handles(i)
  <2>1. late' = late /\ pub[i].pc = here /\ here \in HasRead /\ here # "done"
    BY <1>5 DEF LookupRecord, At, HasRead
  <2>2. CASE Go(i, stale)
    <3>1. stale # "idle" /\ stale \notin Losing /\ (stale = "done" => here \in Losing)
      BY <1>5 DEF Losing
    <3> QED BY <1>1, <2>1, <2>2, <3>1, GoHandles DEF Left
  <2>3. ASSUME NEW x \in {NoId, pub[i].rid}, Answer(i, x) PROVE Handles(i)
    BY <1>1, <2>1, <2>3, AnswerHandles DEF Left
  <2> QED BY <1>5, <2>2, <2>3 DEF LookupRecord
<1>6. CASE ClearStale(i)
  <2>1. PICK o : /\ Call(DeleteReceipt(i, pub[i].rrev), o)
                 /\ GoFresh(i, IF o = "ok" \/ pub[i].reads = 2 THEN "createJob" ELSE "lookup")
    BY <1>6 DEF ClearStale
  <2>2. Left
    BY <1>2, <2>1 DEF DeleteReceipt
  <2>3. PICK pc \in {"createJob", "lookup"} : GoFresh(i, pc)
    BY <2>1
  <2> QED BY <1>6, <2>2, <2>3, GoHandles DEF Left, Losing, ClearStale, At
<1>7. CASE PublishCreateJob(i)
  <2>1. PICK o : /\ Call(CreateJob(i), o)
                 /\ IF o = "ok"
                    THEN pub' = [pub EXCEPT ![i].pc = "createActive", ![i].rev = job[i].rev + 1]
                    ELSE Answer(i, NoId)
    BY <1>7 DEF PublishCreateJob
  <2>2. Left /\ pub[i].pc = "createJob"
    BY <1>2, <1>7, <2>1 DEF CreateJob, PublishCreateJob, At
  <2>3. CASE o # "ok"
    BY <2>1, <2>2, <2>3, AnswerHandles DEF Left
  <2>4. CASE o = "ok"
    <3>1. /\ \A j \in Ids \ {i} : pub'[j] = pub[j]
          /\ pub'[i].pc = "createActive" /\ pub'[i].answer = pub[i].answer
      BY <2>1, <2>4 DEF TypeOK
    <3> QED BY <2>2, <3>1 DEF Handles, Left, Losing
  <2> QED BY <2>3, <2>4
<1>8. CASE PublishCreateActive(i)
  <2>1. PICK o \in Outcomes :
          /\ Call(CreateActive(i), o)
          /\ CASE o = "ok" ->
                    pub' = [pub EXCEPT ![i].pc = IF Keyed(i) THEN "createReceipt" ELSE "publish",
                                       ![i].arev = active[ServiceOf[i]].rev + 1]
               [] o = "refused"     -> Go(i, "discard")
               [] o = "unavailable" -> Answer(i, NoId)
    BY <1>8 DEF PublishCreateActive
  <2>2. Left /\ pub[i].pc = "createActive"
    BY <1>2, <1>8, <2>1 DEF CreateActive, PublishCreateActive, At
  <2>3. CASE o = "unavailable"
    BY <2>1, <2>2, <2>3, AnswerHandles DEF Left
  <2>4. CASE o = "refused"
    BY <2>1, <2>2, <2>4, GoHandles DEF Left, Losing
  <2>5. CASE o = "ok"
    <3>1. /\ \A j \in Ids \ {i} : pub'[j] = pub[j]
          /\ pub'[i].pc \in {"createReceipt", "publish"} /\ pub'[i].answer = pub[i].answer
      BY <2>1, <2>5 DEF TypeOK
    <3> QED BY <2>2, <3>1 DEF Handles, Left, Losing
  <2> QED BY <2>3, <2>4, <2>5 DEF Outcomes
<1>9. CASE Discard(i)
  <2>1. PICK o : Call(DeleteJob(i, pub[i].rev), o)
    BY <1>9 DEF Discard
  <2>2. Left /\ pub[i].pc = "discard"
    BY <1>2, <1>9, <2>1 DEF DeleteJob, Discard, At
  <2>3. CASE Answer(i, NoId)
    BY <2>2, <2>3, AnswerHandles DEF Left
  <2>4. CASE Go(i, "loserLookup")
    BY <2>2, <2>4, GoHandles DEF Left, Losing
  <2> QED BY <1>9, <2>3, <2>4 DEF Discard
<1>10. CASE PublishCreateReceipt(i) \/ RecreateReceipt(i)
  <2>1. PICK o \in Outcomes, pc \in {"publish", "readReceipt", "retryReceipt", "withdrawJob"} :
           Call(CreateReceipt(i), o) /\ Go(i, pc)
    BY <1>10 DEF PublishCreateReceipt, RecreateReceipt, Outcomes
  <2>2. Left /\ pub[i].pc # "done"
    BY <1>2, <1>10, <2>1 DEF CreateReceipt, PublishCreateReceipt, RecreateReceipt, At
  <2> QED BY <2>1, <2>2, GoHandles DEF Left, Losing
<1>11. CASE ReadReceipt(i)
  <2>1. late' = late /\ pub[i].pc = "readReceipt"
    BY <1>11 DEF ReadReceipt, At
  <2>2. /\ \A j \in Ids \ {i} : pub'[j] = pub[j]
        /\ pub'[i].pc \in {"publish", "readBound", "withdrawJob"} /\ pub'[i].answer = pub[i].answer
    BY <1>11 DEF ReadReceipt, Go, TypeOK
  <2> QED BY <1>1, <2>1, <2>2 DEF Handles, Left, Losing
<1>12. CASE ReadBound(i)
  <2>1. late' = late /\ pub[i].pc = "readBound"
    BY <1>12 DEF ReadBound, At
  <2>2. PICK pc \in {"deleteBound", "withdrawJob"} : Go(i, pc)
    BY <1>12 DEF ReadBound
  <2> QED BY <1>1, <2>1, <2>2, GoHandles DEF Left, Losing
<1>13. CASE DeleteBound(i)
  <2>1. PICK o \in Outcomes, pc \in {"recreateReceipt", "withdrawJob"} :
           Call(DeleteReceipt(i, pub[i].rrev), o) /\ Go(i, pc)
    BY <1>13 DEF DeleteBound
  <2>2. Left /\ pub[i].pc # "done"
    BY <1>2, <1>13, <2>1 DEF DeleteReceipt, DeleteBound, At
  <2> QED BY <2>1, <2>2, GoHandles DEF Left, Losing
<1>14. CASE WithdrawJob(i)
  <2>1. PICK o : Call(DeleteJob(i, pub[i].rev), o)
    BY <1>14 DEF WithdrawJob
  <2>2. Left /\ pub[i].pc # "done" /\ Go(i, "withdrawActive")
    BY <1>2, <1>14, <2>1 DEF DeleteJob, WithdrawJob, At
  <2> QED BY <2>2, GoHandles DEF Left, Losing
<1>15. CASE WithdrawActive(i)
  <2>1. PICK o : Call(DeleteActive(i, pub[i].arev), o)
    BY <1>15 DEF WithdrawActive
  <2>2. Left /\ pub[i].pc # "done" /\ Answer(i, NoId)
    BY <1>2, <1>15, <2>1 DEF DeleteActive, WithdrawActive, At
  <2> QED BY <2>2, AnswerHandles DEF Left
<1>16. CASE PublishPending(i)
  <2>1. PICK o \in Outcomes, x \in {NoId, i} :
           Call(UpdateJob(i, pub[i].rev, "pending"), o) /\ Answer(i, x)
    BY <1>16 DEF PublishPending
  <2>2. At(i, "publish") /\ pub[i].pc # "done"
    BY <1>16 DEF PublishPending, At
  <2>3. Left
    <3>1. \A v \in late' : v \in late \/ v = UpdateJob(i, pub[i].rev, "pending")
      BY <2>1 DEF Call
    <3>2. \A j : UpdateJob(j, 1, "pending") = UpdateJob(i, pub[i].rev, "pending") => j = i
      BY DEF UpdateJob
    <3> QED BY <2>2, <3>1, <3>2 DEF Left, PublishLate
  <2> QED BY <2>1, <2>2, <2>3, AnswerHandles DEF Left
<1>17. CASE Stop(i)
  <2>1. late' = late /\ pub[i].pc # "done" /\ Answer(i, NoId)
    BY <1>17 DEF Stop
  <2> QED BY <1>1, <2>1, AnswerHandles DEF Left
<1> QED BY <1>3, <1>4, <1>5, <1>6, <1>7, <1>8, <1>9, <1>10, <1>11, <1>12, <1>13,
           <1>14, <1>15, <1>16, <1>17 DEF Publisher


\* What becomes published was about to be.
LEMMA PublishedFrom ==
    ASSUME StoreStep, NEW j \in published', j \notin published
    PROVE  At(j, "publish") \/ PublishLate(j)
<1>1. PICK w \in Writes : Sound(w) /\ Commit(w)
  BY DEF StoreStep
<1>2. w.to = "pending" /\ w.id = j
  BY <1>1 DEF Commit
<1>3. w.op = "updateJob"
  BY <1>1, <1>2 DEF Sound, Writes, JobOps
<1> QED BY <1>1, <1>2, <1>3 DEF Sound, UpdateOK

\* Nobody who claims, ends, retires, releases or reconciles a record of the command
\* breaks the invariant of Publication.
LEMMA ElsewhereKeeps ==
    ASSUME IInv, NEW i \in Ids, Keyed(i), Elsewhere(i)
    PROVE  Preserved
<1>0. /\ TypeOK /\ PubFacts(i) /\ RecordOK(i) /\ NamesOK
      /\ job[i] \in [state: States, rev: Nat] /\ job[i].rev \in Nat
      /\ active[ServiceOf[i]].rev \in Nat /\ receipt[KeyOf[i]].rev \in Nat
  BY PubFactsHold DEF IInv, PubFacts, TypeOK
<1>1. pub' = pub /\ agent' = agent /\ late' = late
  BY DEF Elsewhere
<1>2. late' \in SUBSET Writes /\ \A v \in late' : v \in late
  BY <1>0, <1>1 DEF TypeOK
<1>3. \A j \in Ids : PublishLate(j)' <=> PublishLate(j)
  BY <1>1 DEF PublishLate
<1>4. ASSUME NEW w \in Writes, Sound(w), Takes(w), Commit(w), w.op # "createJob", w.to # "pending"
      PROVE  Preserved
  <2>1. Quiet
    BY <1>3, <1>4, QuietCommit
  <2> QED BY <1>1, <1>2, <2>1, StillMove
<1>5. ASSUME NEW to \in Successors(job[i].state), Commit(UpdateJob(i, job[i].rev, to))
      PROVE  Preserved
  <2>1. PICK w : w = UpdateJob(i, job[i].rev, to)
    OBVIOUS
  <2>2. w.op = "updateJob" /\ w.id = i /\ w.rev = job[i].rev /\ w.to = to /\ w \in Writes
    <3>1. to \in States
      BY <1>5 DEF Successors, States, Standing, Live, Ended
    <3> QED BY <1>0, <2>1, <3>1 DEF UpdateJob, Writes, JobOps
  <2>3. job[i].state # "absent" /\ job[i].rev > 0
    BY <1>0, <1>5 DEF Successors, RecordOK
  <2>4. to \notin {"absent", "initializing", "pending"}
    BY <1>5 DEF Successors
  <2>5. UpdateOK(w)
    BY <1>0, <1>5, <2>2, <2>3, <2>4 DEF UpdateOK
  <2>6. Sound(w) /\ Takes(w)
    BY <2>2, <2>3, <2>5 DEF Sound, Takes
  <2> QED BY <1>4, <1>5, <2>1, <2>2, <2>4, <2>6
<1>6. ASSUME job[i].state \in Retirable, Commit(DeleteJob(i, job[i].rev))
      PROVE  Preserved
  <2>1. PICK w : w = DeleteJob(i, job[i].rev)
    OBVIOUS
  <2>2. w.op = "deleteJob" /\ w.id = i /\ w.rev = job[i].rev /\ w.to = "absent" /\ w \in Writes
    BY <1>0, <2>1 DEF DeleteJob, Writes, JobOps, States
  <2>3. job[i].state # "absent"
    BY <1>6 DEF Retirable, Terminal, Ended
  <2>4. Sound(w) /\ Takes(w)
    BY <1>6, <2>2, <2>3 DEF Sound, Takes
  <2> QED BY <1>4, <1>6, <2>1, <2>2, <2>4
<1>7. ASSUME active[ServiceOf[i]].id = i, job[i].state \in Terminal \cup {"absent"},
             Commit(DeleteActive(i, active[ServiceOf[i]].rev))
      PROVE  Preserved
  <2>1. PICK w : w = DeleteActive(i, active[ServiceOf[i]].rev)
    OBVIOUS
  <2>2. /\ w.op = "deleteActive" /\ w.id = i /\ w.rev = active[ServiceOf[i]].rev
        /\ w.to = "absent" /\ w \in Writes
    BY <1>0, <2>1 DEF DeleteActive, Writes, States
  <2>3. job[i].rev > 0
    BY <1>0, <1>7 DEF NamesOK, PubFacts
  <2>4. job[i].rev >= 2
    BY <1>0, <1>7, <2>3 DEF RecordOK, Terminal, Ended
  <2>5. ActiveDoomed(ServiceOf[i], w.rev)
    BY <1>0, <1>7, <2>2, <2>4 DEF ActiveDoomed, Released, Dead
  <2>6. Sound(w) /\ Takes(w)
    BY <1>0, <1>7, <2>2, <2>5 DEF Sound, Takes, PubFacts
  <2> QED BY <1>4, <1>7, <2>1, <2>2, <2>6
<1>8. ASSUME receipt[KeyOf[i]].id = i, job[i].state = "absent",
             Commit(DeleteReceipt(i, receipt[KeyOf[i]].rev))
      PROVE  Preserved
  <2>1. PICK w : w = DeleteReceipt(i, receipt[KeyOf[i]].rev)
    OBVIOUS
  <2>2. /\ w.op = "deleteReceipt" /\ w.id = i /\ w.rev = receipt[KeyOf[i]].rev
        /\ w.to = "absent" /\ w \in Writes
    BY <1>0, <2>1 DEF DeleteReceipt, Writes, States
  <2>3. job[i].rev > 0
    BY <1>0, <1>8 DEF NamesOK, PubFacts
  <2>4. job[i].rev >= 2
    BY <1>0, <1>8, <2>3 DEF RecordOK
  <2>5. ReceiptDoomed(KeyOf[i], w.rev)
    BY <1>0, <1>8, <2>2, <2>4 DEF ReceiptDoomed, StaleDead, Stale
  <2>6. Sound(w) /\ Takes(w)
    BY <1>0, <1>8, <2>2, <2>5 DEF Sound, Takes, PubFacts
  <2> QED BY <1>4, <1>8, <2>1, <2>2, <2>6
<1> QED BY <1>5, <1>6, <1>7, <1>8 DEF Elsewhere

\* The command, its attempts, and what a refusal rests on.
Commands ==
    [pc: {"create", "sent", "ended"}, sent: SUBSET Ids, at: Ids \cup {NoId},
     answer: {"none", "ok", "busy", "refused", "unavailable", "cut"}, id: Ids \cup {NoId},
     exit: {"none", "told", "unknown", "busy", "refused"}]
CmdOK ==
    /\ cmd \in Commands /\ IsFiniteSet(cmd.sent)
    /\ cmd.at # NoId => cmd.pc = "sent" /\ cmd.at \in cmd.sent
    /\ cmd.answer # "none" => cmd.at # NoId
    /\ cmd.id # NoId => cmd.id \in cmd.sent
Attempted ==
    \A i \in Ids :
        /\ pub[i].pc # "idle" => i \in cmd.sent
        /\ pub[i].answer # NoId => pub[i].answer \in cmd.sent
        /\ pub[i].pc \in Losing => i \notin published
Refusals ==
    /\ cmd.answer \in {"busy", "refused"} => Closed(cmd.at)
    /\ cmd.exit \in {"busy", "refused"} => \E i \in cmd.sent : Closed(i)

\* The inductive invariant of one run of collect.
CollectInv == IInv /\ CmdOK /\ Attempted /\ Refusals

\* A step of anyone else keeps what is known of attempts.
LEMMA AttemptsStand ==
    ASSUME IInv, Preserved, NEW j \in Ids, pub'[j] = pub[j],
           PublishLate(j)' => PublishLate(j) \/ At(j, "publish")
    PROVE  /\ Closed(j) => Closed(j)'
           /\ pub[j].pc \in Losing /\ j \notin published => j \notin published'
<1>1. j \in published' => j \in published \/ At(j, "publish") \/ PublishLate(j)
  BY PublishedFrom DEF Preserved
<1>2. pub[j].pc # "done" => ~PublishLate(j)
  BY NotYetLate
<1> QED BY <1>1, <1>2 DEF Closed, At, Losing

\* The handlers, the store and the rest of the system move; the command waits.
LEMMA OthersKeep ==
    ASSUME CollectInv, Preserved, pub' = pub, cmd' = cmd,
           \A j \in Ids : PublishLate(j)' => PublishLate(j)
    PROVE  CollectInv'
<1>1. \A j \in Ids : /\ Closed(j) => Closed(j)'
                     /\ pub[j].pc \in Losing /\ j \notin published => j \notin published'
  BY AttemptsStand DEF CollectInv
<1>2. cmd.at # NoId => cmd.at \in Ids
  BY DEF CollectInv, CmdOK, Commands
<1>3. cmd.sent \subseteq Ids
  BY DEF CollectInv, CmdOK, Commands
<1>4. CmdOK' /\ IInv'
  BY DEF CollectInv, CmdOK, Preserved
<1>5. Attempted'
  BY <1>1 DEF CollectInv, Attempted
<1>6. Refusals'
  BY <1>1, <1>2, <1>3 DEF CollectInv, CmdOK, Refusals
<1> QED BY <1>4, <1>5, <1>6 DEF CollectInv


\* A handler that refuses has closed its attempt.
LEMMA RefusalCloses ==
    ASSUME CollectInv, NEW i \in Ids, Preserved, Handles(i),
           NEW s \in Answers(i), s \in {"busy", "refused"}
    PROVE  Closed(i)'
<1>1. pub'[i].pc = "done" /\ (pub[i].pc \in Losing \/ WritesNothing(i))
  <2>1. pub'[i].pc = "done"
    BY DEF Answers
  <2>2. CASE s = "busy"
    <3>1. pub'[i].answer = NoId /\ pub'[i] # Blank("done", NoId)
      BY <2>1, <2>2 DEF Answers
    <3> QED BY <2>1, <3>1 DEF Handles
  <2>3. CASE s = "refused"
    BY <2>1, <2>3 DEF Answers
  <2> QED BY <2>1, <2>2, <2>3
<1>2. pub[i].pc \notin {"done", "publish"} /\ i \notin published
  <2>1. CASE pub[i].pc \in Losing
    BY <2>1 DEF CollectInv, Attempted, Losing
  <2>2. CASE WritesNothing(i)
    BY <2>2 DEF CollectInv, IInv, PubOK, WritesNothing, Unwritten
  <2> QED BY <1>1, <2>1, <2>2
<1>3. ~PublishLate(i) /\ ~At(i, "publish")
  BY <1>2, NotYetLate DEF CollectInv, At
<1>4. ~PublishLate(i)'
  BY <1>3 DEF Handles
<1>5. i \notin published'
  BY <1>2, <1>3, PublishedFrom DEF Preserved
<1> QED BY <1>1, <1>4, <1>5 DEF Closed

LEMMA HandlerKeeps ==
    ASSUME CollectInv, NEW i \in Ids, Handler(i)
    PROVE  CollectInv'
<1>1. Publisher(i) /\ pub[i].pc # "idle"
  BY DEF Handler
<1>2. IInv /\ TypeOK /\ CmdOK /\ Attempted /\ Refusals
  BY DEF CollectInv, IInv
<1>3. Preserved
  BY <1>1, <1>2, StepInv DEF Next
<1>4. Handles(i)
  BY <1>1, <1>2, PublisherHandles
<1>5. PICK s \in Answers(i) : cmd' = IF cmd.at = i THEN [cmd EXCEPT !.answer = s] ELSE cmd
  BY DEF Handler
<1>6. s \in {"none", "ok", "busy", "refused", "unavailable", "cut"}
  BY <1>5 DEF Answers
<1>7. /\ cmd'.sent = cmd.sent /\ cmd'.at = cmd.at /\ cmd'.id = cmd.id /\ cmd'.exit = cmd.exit
      /\ cmd'.pc = cmd.pc /\ cmd' \in Commands
      /\ cmd'.answer = IF cmd.at = i THEN s ELSE cmd.answer
  BY <1>2, <1>5, <1>6 DEF CmdOK, Commands
<1>8. i # NoId
  BY SentinelAssumption
<1>9. CmdOK'
  BY <1>2, <1>7, <1>8 DEF CmdOK
<1>10. ASSUME NEW j \in Ids, j # i
       PROVE  /\ pub'[j] = pub[j]
              /\ Closed(j) => Closed(j)'
              /\ pub[j].pc \in Losing /\ j \notin published => j \notin published'
  <2>1. pub'[j] = pub[j] /\ (PublishLate(j)' => PublishLate(j) \/ At(j, "publish"))
    BY <1>4, <1>10 DEF Handles
  <2> QED BY <1>2, <1>3, <2>1, AttemptsStand
<1>11. pub'[i].answer # NoId => pub'[i].answer \in cmd.sent
  <2>1. CASE pub'[i].answer \in {pub[i].answer, NoId, i}
    BY <1>1, <1>2, <2>1 DEF Attempted
  <2>2. CASE pub[i].pc \in HasRead /\ pub'[i].answer = pub[i].rid
    <3>1. PICK r \in Ids : r = pub[i].rid /\ job[r].rev > 0
      BY <1>2, <2>2 DEF IInv, PubOK
    <3>2. job[r].rev # 0
      BY <1>2, <3>1 DEF TypeOK
    <3>3. pub[r].pc # "idle"
      BY <1>2, <3>2 DEF IInv, PubOK, Unwritten
    <3> QED BY <1>2, <2>2, <3>1, <3>3 DEF Attempted
  <2> QED BY <1>4, <2>1, <2>2 DEF Handles
<1>12. pub'[i].pc \in Losing => i \notin published'
  <2> SUFFICES ASSUME pub'[i].pc \in Losing PROVE i \notin published'
    OBVIOUS
  <2>1. pub[i].pc \in Losing \cup {"discard"}
    BY <1>4 DEF Handles
  <2>2. i \notin published
    BY <1>2, <2>1 DEF Attempted, IInv, PubOK, Written
  <2>3. ~PublishLate(i) /\ ~At(i, "publish")
    BY <1>2, <2>1, NotYetLate DEF At, Losing
  <2> QED BY <1>3, <2>2, <2>3, PublishedFrom DEF Preserved
<1>13. Attempted'
  <2> SUFFICES ASSUME NEW j \in Ids
               PROVE  /\ pub'[j].pc # "idle" => j \in cmd.sent
                      /\ pub'[j].answer # NoId => pub'[j].answer \in cmd.sent
                      /\ pub'[j].pc \in Losing => j \notin published'
    BY <1>7 DEF Attempted
  <2>1. CASE j = i
    BY <1>1, <1>2, <1>11, <1>12, <2>1 DEF Attempted
  <2>2. CASE j # i
    <3>1. pub'[j] = pub[j] /\ (pub[j].pc \in Losing /\ j \notin published => j \notin published')
      BY <1>10, <2>2
    <3> QED BY <1>2, <3>1 DEF Attempted
  <2> QED BY <2>1, <2>2
<1>14. ~Closed(i)
  BY <1>4 DEF Handles, Closed
<1>15. Refusals'
  <2>1. cmd.exit \in {"busy", "refused"} => \E j \in cmd.sent : Closed(j)'
    <3> SUFFICES ASSUME cmd.exit \in {"busy", "refused"} PROVE \E j \in cmd.sent : Closed(j)'
      OBVIOUS
    <3>1. PICK j \in cmd.sent : Closed(j)
      BY <1>2 DEF Refusals
    <3>2. j \in Ids /\ j # i
      BY <1>2, <1>14, <3>1 DEF CmdOK, Commands
    <3> QED BY <1>10, <3>1, <3>2
  <2>2. CASE cmd.at = i
    <3>1. s \in {"busy", "refused"} => Closed(i)'
      BY <1>3, <1>4, <1>5, RefusalCloses
    <3> QED BY <1>7, <2>1, <2>2, <3>1 DEF Refusals
  <2>3. CASE cmd.at # i
    <3>1. cmd.answer \in {"busy", "refused"} => cmd.at \in Ids /\ Closed(cmd.at)
      BY <1>2 DEF CmdOK, Commands, Refusals
    <3>2. PICK c : c = cmd.at
      OBVIOUS
    <3>3. cmd.answer \in {"busy", "refused"} => Closed(c)'
      BY <1>10, <2>3, <3>1, <3>2
    <3> QED BY <1>7, <2>1, <2>3, <3>2, <3>3 DEF Refusals
  <2> QED BY <2>2, <2>3
<1> QED BY <1>3, <1>9, <1>13, <1>15 DEF CollectInv, Preserved

\* Another attempt under the same key.
LEMMA PostKeeps ==
    ASSUME CollectInv, NEW i \in Ids, Post(i)
    PROVE  CollectInv'
<1>1. Start(i) /\ cmd.pc = "create" /\ cmd' = [cmd EXCEPT !.pc = "sent", !.at = i, !.sent = @ \cup {i}]
  BY DEF Post
<1>2. IInv /\ TypeOK /\ CmdOK /\ Attempted /\ Refusals
  BY DEF CollectInv, IInv
<1>3. Preserved /\ Publisher(i)
  BY <1>1, <1>2, StepInv DEF Next, Publisher
<1>4. Handles(i)
  BY <1>2, <1>3, PublisherHandles
<1>5. /\ published' = published /\ late' = late
      /\ pub'[i].pc \in {"lookup", "createJob"} /\ pub'[i].answer = pub[i].answer
      /\ \A j \in Ids \ {i} : pub'[j] = pub[j]
  BY <1>1, <1>2 DEF Start, Go, TypeOK
<1>6. /\ cmd'.sent = cmd.sent \cup {i} /\ cmd'.at = i /\ cmd'.id = cmd.id /\ cmd'.exit = cmd.exit
      /\ cmd'.pc = "sent" /\ cmd' \in Commands /\ cmd'.answer = cmd.answer
  BY <1>1, <1>2 DEF CmdOK, Commands
<1>7. cmd.answer = "none" /\ i # NoId
  BY <1>1, <1>2, SentinelAssumption DEF CmdOK
<1>8. IsFiniteSet(cmd.sent \cup {i})
  BY <1>2, FS_AddElement DEF CmdOK
<1>9. CmdOK'
  BY <1>2, <1>6, <1>7, <1>8 DEF CmdOK
<1>10. Attempted'
  <2> SUFFICES ASSUME NEW j \in Ids
               PROVE  /\ pub'[j].pc # "idle" => j \in cmd.sent \cup {i}
                      /\ pub'[j].answer # NoId => pub'[j].answer \in cmd.sent \cup {i}
                      /\ pub'[j].pc \in Losing => j \notin published
    BY <1>5, <1>6 DEF Attempted
  <2>1. CASE j = i
    BY <1>2, <1>5, <2>1 DEF Attempted, Losing
  <2>2. CASE j # i
    BY <1>2, <1>5, <2>2 DEF Attempted
  <2> QED BY <2>1, <2>2
<1>11. \A j \in Ids : Closed(j) => Closed(j)'
  <2> SUFFICES ASSUME NEW j \in Ids, Closed(j) PROVE Closed(j)'
    OBVIOUS
  <2>1. j # i
    BY <1>4 DEF Handles, Closed
  <2> QED BY <1>5, <2>1 DEF Closed, PublishLate
<1>12. Refusals'
  <2>1. cmd.exit \in {"busy", "refused"} => \E j \in cmd.sent : j \in Ids /\ Closed(j)
    BY <1>2 DEF Refusals, CmdOK, Commands
  <2> QED BY <1>6, <1>7, <1>11, <2>1 DEF Refusals
<1> QED BY <1>3, <1>9, <1>10, <1>12 DEF CollectInv, Preserved

\* The command hears an answer, or none.
LEMMA ClientKeeps ==
    ASSUME CollectInv, LoseAnswer \/ Hear
    PROVE  CollectInv'
<1>1. UNCHANGED vars
  BY DEF LoseAnswer, Hear
<1>2. IInv /\ TypeOK /\ CmdOK /\ Attempted /\ Refusals
  BY DEF CollectInv, IInv
<1>3. IInv'
  BY <1>1, <1>2, StepInv DEF Preserved
<1>4. pub' = pub /\ published' = published /\ late' = late
  BY <1>1 DEF vars
<1>5. \A j : Closed(j)' <=> Closed(j)
  BY <1>4 DEF Closed, PublishLate
<1>6. /\ cmd'.sent = cmd.sent /\ cmd'.at = NoId /\ cmd'.answer = "none" /\ cmd' \in Commands
      /\ \/ cmd'.id = cmd.id
         \/ cmd.answer # "none" /\ cmd'.id = pub[cmd.at].answer
      /\ \/ cmd'.exit \in {cmd.exit, "told", "unknown"}
         \/ cmd.answer \in {"busy", "refused"}
  <2>1. ASSUME cmd' \in Retry
        PROVE  /\ cmd'.sent = cmd.sent /\ cmd'.at = NoId /\ cmd'.answer = "none" /\ cmd' \in Commands
               /\ cmd'.id = cmd.id /\ cmd'.exit \in {cmd.exit, "unknown"}
    <3>1. cmd' \in {Rests("create"), Exit("unknown")}
      BY <2>1 DEF Retry
    <3> QED BY <1>2, <3>1 DEF Rests, Exit, CmdOK, Commands
  <2>2. CASE LoseAnswer
    BY <2>1, <2>2 DEF LoseAnswer
  <2>3. ASSUME cmd.answer = "ok", cmd' = [Exit("told") EXCEPT !.id = pub[cmd.at].answer]
        PROVE  /\ cmd'.sent = cmd.sent /\ cmd'.at = NoId /\ cmd'.answer = "none" /\ cmd' \in Commands
               /\ cmd'.id = pub[cmd.at].answer /\ cmd'.exit = "told"
    <3>1. cmd.at \in Ids
      BY <1>2, <2>3 DEF CmdOK, Commands
    <3>2. pub[cmd.at].answer \in Ids \cup {NoId}
      BY <1>2, <3>1 DEF TypeOK
    <3> QED BY <1>2, <2>3, <3>2 DEF Rests, Exit, CmdOK, Commands
  <2>4. ASSUME cmd.answer \in {"busy", "refused"}, cmd' = Exit(cmd.answer)
        PROVE  /\ cmd'.sent = cmd.sent /\ cmd'.at = NoId /\ cmd'.answer = "none" /\ cmd' \in Commands
               /\ cmd'.id = cmd.id
    BY <1>2, <2>4 DEF Rests, Exit, CmdOK, Commands
  <2>5. CASE Hear
    <3>1. cmd.answer \in {"ok", "busy", "refused", "unavailable"}
      BY <1>2, <2>5 DEF Hear, CmdOK, Commands
    <3>2. \/ cmd' \in Retry
          \/ cmd.answer = "ok" /\ cmd' = [Exit("told") EXCEPT !.id = pub[cmd.at].answer]
          \/ cmd.answer \in {"busy", "refused"} /\ cmd' = Exit(cmd.answer)
      BY <2>5, <3>1 DEF Hear, CreateIndeterminate
    <3> QED BY <2>1, <2>3, <2>4, <3>2
  <2> QED BY <2>2, <2>5
<1>7. cmd.answer # "none" => cmd.at \in Ids /\ cmd.at \in cmd.sent
  BY <1>2 DEF CmdOK, Commands
<1>8. CmdOK'
  <2>1. cmd'.id # NoId => cmd'.id \in cmd.sent
    BY <1>2, <1>6, <1>7 DEF CmdOK, Attempted
  <2> QED BY <1>2, <1>6, <2>1 DEF CmdOK
<1>9. Attempted'
  BY <1>2, <1>4, <1>6 DEF Attempted
<1>10. Refusals'
  <2>1. cmd'.exit \in {"busy", "refused"} => \E j \in cmd.sent : Closed(j)
    BY <1>2, <1>6, <1>7 DEF Refusals
  <2> QED BY <1>5, <1>6, <2>1 DEF Refusals
<1> QED BY <1>3, <1>8, <1>9, <1>10 DEF CollectInv


LEMMA CollectStep ==
    ASSUME CollectInv, [CollectNext]_collectVars, \A i \in Ids : Keyed(i)
    PROVE  CollectInv'
<1>1. IInv
  BY DEF CollectInv
<1>2. ASSUME NEW i \in Ids, Elsewhere(i) PROVE CollectInv'
  <2>1. Preserved
    BY <1>1, <1>2, ElsewhereKeeps
  <2>2. pub' = pub /\ cmd' = cmd /\ late' = late
    BY <1>2 DEF Elsewhere
  <2>3. \A j \in Ids : PublishLate(j)' => PublishLate(j)
    BY <2>2 DEF PublishLate
  <2> QED BY <2>1, <2>2, <2>3, OthersKeep
<1>3. CASE LateArrival /\ UNCHANGED cmd
  <2>1. Preserved
    BY <1>1, <1>3, LateStep
  <2>2. pub' = pub /\ cmd' = cmd /\ late' \subseteq late
    BY <1>3 DEF LateArrival
  <2>3. \A j \in Ids : PublishLate(j)' => PublishLate(j)
    BY <2>2 DEF PublishLate
  <2> QED BY <2>1, <2>2, <2>3, OthersKeep
<1>4. CASE UNCHANGED collectVars
  <2>1. UNCHANGED vars /\ cmd' = cmd
    BY <1>4 DEF collectVars
  <2>2. Preserved
    BY <1>1, <2>1, StepInv
  <2>3. pub' = pub /\ \A j \in Ids : PublishLate(j)' => PublishLate(j)
    BY <2>1 DEF vars, PublishLate
  <2> QED BY <2>1, <2>2, <2>3, OthersKeep
<1> QED BY <1>2, <1>3, <1>4, PostKeeps, HandlerKeeps, ClientKeeps DEF CollectNext

\* However often collect sends its create again, under one key, it has at most
\* one Collection standing and is told of one of its own; and a refusal of its
\* only attempt is final: nothing the handler left behind publishes one later.
THEOREM CollectsOnceHolds ==
    ASSUME NEW k \in Keys, \A i \in Ids : KeyOf[i] = k
    PROVE  CollectSpec => []CollectsOnce
<1>0. \A i \in Ids : Keyed(i)
  BY SentinelAssumption DEF Keyed
<1>1. CollectInit => CollectInv
  <2> SUFFICES ASSUME CollectInit PROVE CollectInv
    OBVIOUS
  <2>1. IInv
    BY InitInv DEF CollectInit
  <2>2. CmdOK
    BY FS_EmptySet DEF CollectInit, Command, CmdOK, Commands
  <2>3. \A i \in Ids : pub[i].pc = "idle" /\ pub[i].answer = NoId
    BY DEF CollectInit, Init, Blank
  <2>4. Attempted
    BY <2>3 DEF Attempted, Losing
  <2>5. Refusals
    BY DEF CollectInit, Command, Refusals
  <2> QED BY <2>1, <2>2, <2>4, <2>5 DEF CollectInv
<1>2. CollectInv /\ [CollectNext]_collectVars => CollectInv'
  BY <1>0, CollectStep
<1>3. CollectInv => CollectsOnce
  <2> SUFFICES ASSUME CollectInv PROVE CollectsOnce
    OBVIOUS
  <2>1. CmdOK /\ Refusals /\ cmd.sent \subseteq Ids /\ IsFiniteSet(cmd.sent)
    BY DEF CollectInv, CmdOK, Commands
  <2> DEFINE X == {i \in cmd.sent : job[i].state \in Standing}
  <2>2. \A i, j \in X : i = j
    <3> SUFFICES ASSUME NEW i \in X, NEW j \in X PROVE i = j
      OBVIOUS
    <3>1. i \in Ids /\ j \in Ids /\ NeedsReceipt(i) /\ NeedsReceipt(j)
      BY <1>0, <2>1 DEF NeedsReceipt
    <3>2. Entitled(i) /\ Entitled(j) /\ KeyOf[i] = KeyOf[j]
      BY <3>1 DEF CollectInv, IInv
    <3> QED BY <3>1, <3>2 DEF Entitled
  <2>3. Cardinality(X) =< 1
    <3>1. CASE X = {}
      <4>1. Cardinality(X) = 0
        BY <3>1, FS_EmptySet
      <4> QED BY <4>1
    <3>2. CASE X # {}
      <4>1. PICK x \in X : TRUE
        BY <3>2
      <4>2. X = {x}
        BY <2>2, <4>1
      <4> HIDE DEF X
      <4>3. Cardinality(X) = 1
        BY <4>2, FS_Singleton
      <4> QED BY <4>3
    <3> QED BY <3>1, <3>2
  <2>4. ASSUME Cardinality(cmd.sent) = 1, cmd.exit \notin {"none", "told", "unknown"}
        PROVE  cmd.sent \cap published = {}
    <3>1. PICK i \in cmd.sent : Closed(i)
      BY <2>1, <2>4 DEF CmdOK, Commands, Refusals
    <3>2. \E x : cmd.sent = {x}
      BY <2>1, <2>4, FS_Singleton
    <3>3. cmd.sent = {i}
      BY <3>1, <3>2
    <3> QED BY <3>1, <3>3 DEF Closed
  <2>5. cmd.id # NoId => cmd.id \in cmd.sent
    BY <2>1 DEF CmdOK
  <2> QED BY <2>3, <2>4, <2>5 DEF CollectsOnce
<1> QED BY <1>1, <1>2, <1>3, PTL DEF CollectSpec
=============================================================================
