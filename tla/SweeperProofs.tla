--------------------------- MODULE SweeperProofs ---------------------------
(***************************************************************************)
(* Proofs about what the sweeper forgets, the slot keys of Slots and the   *)
(* records and objects of Artifacts.                                       *)
(*                                                                         *)
(* First, at most one publication per slot, for every number of replicas,  *)
(* every set of periods and every length of time.                          *)
(*                                                                         *)
(* Then Artifacts' safety properties for every number of Collections,      *)
(* attempts, chunks and mishaps.                                           *)
(* They rest on four facts about a Collection that, once true, stay true   *)
(* whoever acts next: an object is Sealed (nobody will put it again), Gone *)
(* (Sealed and not there), Doomed (nobody may count on it any more); and a *)
(* record is Over (absent, or finished with its object Gone).  What the    *)
(* sweeper and a request remember from an earlier step, and what a late    *)
(* write was decided on, is always one of these, so it is still true when  *)
(* it is used.                                                             *)
(***************************************************************************)
EXTENDS Slots, Artifacts, FiniteSetTheorems, TLAPS

\* A slot starts no later than the time it was computed from and ends after it
\* (slotFor).
LEMMA SlotForContains ==
    ASSUME NEW t \in Nat, NEW e \in Nat \ {0}
    PROVE  /\ SlotFor(t, e) \in Nat
           /\ SlotFor(t, e) =< t
           /\ t < SlotFor(t, e) + e
  <1>1. t % e \in 0 .. e - 1
    OBVIOUS
  <1>2. t % e =< t
    OBVIOUS
  <1> QED
    BY <1>1, <1>2 DEF SlotFor

-----------------------------------------------------------------------------
(* The inductive invariant.                                                *)

\* A pass still under way read its clock at most MaxStall ago.
PassFresh == \A r \in Replicas : pass[r] # Idle => now =< pass[r].began + MaxStall

\* Some clock has left the retention of slot s behind.
Past(s) == \E r \in Replicas : s + Shortest + Margin + Skew < Clock(r)

\* A slot that fired has its key, kept for the shortest retention at least, or
\* is past.
Spent ==
    \A s \in Starts :
        /\ fired[s] =< 1
        /\ fired[s] = 1 => s + Shortest + Margin =< slot[s] \/ Past(s)

SlotsInv == TypeOK /\ PassFresh /\ Spent

\* No pass is still about a slot that is past: what the clocks disagree by and
\* the longest stall stay within the margins (ClockAssumption).
LEMMA NoPassAboutThePast ==
    ASSUME SlotsInv, NEW r \in Replicas, pass[r] # Idle
    PROVE  ~Past(pass[r].slot)
  <1> SUFFICES ASSUME NEW q \in Replicas,
                      pass[r].slot + Shortest + Margin + Skew < now + Offset[q]
               PROVE  FALSE
    BY DEF Past, Clock
  <1>1. /\ Offset[r] \in Nat /\ Offset[q] \in Nat /\ Offset[q] =< Spread
        /\ now \in Nat /\ pass[r].slot \in Int /\ pass[r].began \in Nat
    BY ClockAssumption DEF SlotsInv, TypeOK, PassType, Starts
  <1>2. now =< pass[r].began + MaxStall
    BY DEF SlotsInv, PassFresh
  <1>3. pass[r].began + Offset[r] < pass[r].slot + pass[r].every
    BY DEF SlotsInv, TypeOK
  <1>4. pass[r].every \in Nat /\ pass[r].every =< Margin
    BY PeriodAssumption DEF SlotsInv, TypeOK
  <1> QED
    BY <1>1, <1>2, <1>3, <1>4, ClockAssumption, PeriodAssumption

LEMMA InitSlotsInv == Init => SlotsInv
  BY PeriodAssumption, OtherAssumption
     DEF Init, SlotsInv, TypeOK, PassType, Idle, PassFresh, Spent

\* Beginning a pass.
LEMMA BeginKeeps ==
    ASSUME SlotsInv, NEW r \in Replicas, Begin(r)
    PROVE  SlotsInv'
  <1> DEFINE t == Clock(r)
             s == SlotFor(t, known[r])
  <1>1. /\ known[r] \in Nat \ {0} /\ known[r] \in Periods
        /\ now \in Nat /\ Offset[r] \in 0 .. Spread /\ t \in Nat
    BY PeriodAssumption, ClockAssumption DEF SlotsInv, TypeOK, Clock
  <1>2. s \in Nat /\ s =< t /\ t < s + known[r]
    BY <1>1, SlotForContains
  <1>3. s \in Starts
    BY <1>1, <1>2, ClockAssumption, OtherAssumption DEF Begin, Starts, Clock
  <1>4. pass' = [pass EXCEPT ![r] = [slot |-> s, every |-> known[r], began |-> now]]
    BY DEF Begin
  <1>5. pass' \in [Replicas -> PassType]
    BY <1>1, <1>3, <1>4 DEF SlotsInv, TypeOK, PassType
  <1>6. ASSUME NEW p \in Replicas, pass'[p] # Idle
        PROVE  /\ pass'[p].slot \in Starts /\ pass'[p].every \in Periods
               /\ pass'[p].slot =< pass'[p].began + Offset[p]
               /\ pass'[p].began + Offset[p] < pass'[p].slot + pass'[p].every
               /\ now =< pass'[p].began + MaxStall
    <2>1. CASE p = r
      <3>1. pass'[r] = [slot |-> s, every |-> known[r], began |-> now]
        BY <1>4 DEF SlotsInv, TypeOK
      <3> QED
        BY <2>1, <3>1, <1>1, <1>2, <1>3, ClockAssumption DEF Clock
    <2>2. CASE p # r
      <3>1. pass'[p] = pass[p]
        BY <2>2, <1>4 DEF SlotsInv, TypeOK
      <3> QED
        BY <3>1, <1>6 DEF SlotsInv, TypeOK, PassFresh
    <2> QED
      BY <2>1, <2>2
  <1>7. TypeOK' /\ PassFresh'
    BY <1>5, <1>6 DEF Begin, SlotsInv, TypeOK, PassFresh
  <1>8. Spent'
    BY DEF Begin, SlotsInv, Spent, Past, Clock
  <1> QED
    BY <1>7, <1>8 DEF SlotsInv

\* A pass that ends leaves the others as they were.
LEMMA PassEnds ==
    ASSUME SlotsInv, NEW r \in Replicas, pass' = [pass EXCEPT ![r] = Idle], now' = now
    PROVE  /\ pass' \in [Replicas -> PassType]
           /\ \A p \in Replicas : pass'[p] # Idle => pass'[p] = pass[p]
           /\ PassFresh'
  <1>1. Idle \in PassType
    BY DEF Idle, PassType
  <1>2. pass' \in [Replicas -> PassType]
    BY <1>1 DEF SlotsInv, TypeOK
  <1>3. \A p \in Replicas : pass'[p] # Idle => pass'[p] = pass[p]
    BY DEF SlotsInv, TypeOK
  <1> QED
    BY <1>2, <1>3 DEF SlotsInv, PassFresh

LEMMA SkipKeeps ==
    ASSUME SlotsInv, NEW r \in Replicas, Skip(r)
    PROVE  SlotsInv'
  <1>1. /\ pass' \in [Replicas -> PassType]
        /\ \A p \in Replicas : pass'[p] # Idle => pass'[p] = pass[p]
        /\ PassFresh'
    BY PassEnds DEF Skip
  <1>2. TypeOK'
    BY <1>1 DEF Skip, SlotsInv, TypeOK
  <1>3. Spent'
    BY DEF Skip, SlotsInv, Spent, Past, Clock
  <1> QED
    BY <1>1, <1>2, <1>3 DEF SlotsInv

\* A key created now is kept for the shortest retention at least, and its slot
\* had not fired: a slot that fired and has no key is past, and no pass is
\* about it.
LEMMA CreateSlotKeeps ==
    ASSUME SlotsInv, NEW r \in Replicas, CreateSlot(r)
    PROVE  SlotsInv'
  <1> DEFINE s == pass[r].slot
             e == pass[r].every
  <1>1. /\ s \in Starts /\ s \in Nat /\ e \in Periods /\ e \in Nat /\ Shortest =< e
        /\ Shortest \in Nat \ {0} /\ Margin \in Nat
    BY PeriodAssumption DEF CreateSlot, SlotsInv, TypeOK, Starts
  <1>2. ~Past(s)
    BY NoPassAboutThePast DEF CreateSlot
  <1>3. /\ pass' \in [Replicas -> PassType]
        /\ \A p \in Replicas : pass'[p] # Idle => pass'[p] = pass[p]
        /\ PassFresh'
    BY PassEnds DEF CreateSlot
  <1>4. RetainUntil(s, e) \in Nat /\ s + Shortest + Margin =< RetainUntil(s, e)
    BY <1>1 DEF RetainUntil
  <1>5. slot \in [Starts -> Nat] /\ fired \in [Starts -> Nat]
    BY DEF SlotsInv, TypeOK
  <1>6. slot' \in [Starts -> Nat] /\ fired' \in [Starts -> Nat]
    BY <1>1, <1>4, <1>5 DEF CreateSlot, Key, Publish
  <1>7. TypeOK'
    BY <1>3, <1>6 DEF CreateSlot, SlotsInv, TypeOK
  <1>8. \A x \in Starts : Past(x)' <=> Past(x)
    BY DEF CreateSlot, Past, Clock
  <1>9. ASSUME NEW x \in Starts
        PROVE  /\ fired'[x] =< 1
               /\ fired'[x] = 1 => x + Shortest + Margin =< slot'[x] \/ Past(x)'
    <2>1. fired[x] =< 1 /\ (fired[x] = 1 => x + Shortest + Margin =< slot[x] \/ Past(x))
      BY DEF SlotsInv, Spent
    <2>2. CASE x # s \/ (slot' = slot /\ fired' = fired)
      <3>1. slot'[x] = slot[x] /\ fired'[x] = fired[x]
        BY <2>2, <1>5 DEF CreateSlot, Key, Publish
      <3> QED
        BY <2>1, <3>1, <1>8
    <2>3. CASE x = s /\ ~Present(s) /\ Key(s, e)
      <3>1. slot[s] = 0
        BY <2>3, <1>1, <1>5 DEF Present
      <3>2. fired[s] = 0
        BY <3>1, <2>1, <2>3, <1>1, <1>2, <1>5
      <3>3. slot'[s] = RetainUntil(s, e)
        BY <2>3, <1>1, <1>5 DEF Key
      <3>4. fired'[s] \in {0, 1}
        BY <3>2, <1>1, <1>5 DEF CreateSlot, Publish
      <3> QED
        BY <2>3, <3>3, <3>4, <1>4
    <2> QED
      BY <2>2, <2>3 DEF CreateSlot
  <1> QED
    BY <1>3, <1>7, <1>9 DEF SlotsInv, Spent

\* A key the sweep deletes was past its own retention, hence past the shortest.
LEMMA SweepSlotKeeps ==
    ASSUME SlotsInv, NEW r \in Replicas, NEW s \in Starts, SweepSlot(r, s)
    PROVE  SlotsInv'
  <1>1. TypeOK' /\ PassFresh'
    BY DEF SweepSlot, SlotsInv, TypeOK, PassFresh
  <1>2. ASSUME NEW x \in Starts
        PROVE  /\ fired'[x] =< 1
               /\ fired'[x] = 1 => x + Shortest + Margin =< slot'[x] \/ Past(x)'
    <2>1. fired[x] =< 1 /\ (fired[x] = 1 => x + Shortest + Margin =< slot[x] \/ Past(x))
      BY DEF SlotsInv, Spent
    <2>2. Past(x)' <=> Past(x)
      BY DEF SweepSlot, Past, Clock
    <2>3. CASE x = s
      <3>1. x \in Nat /\ slot[x] \in Nat /\ Shortest \in Nat /\ Margin \in Nat /\ Skew \in Nat
        BY PeriodAssumption, ClockAssumption DEF SlotsInv, TypeOK, Starts
      <3>2. slot[x] + Skew < Clock(r) /\ Clock(r) \in Int
        BY <2>3, ClockAssumption DEF SweepSlot, Expired, Clock, SlotsInv, TypeOK
      <3>3. x + Shortest + Margin =< slot[x] => Past(x)
        BY <3>1, <3>2 DEF Past
      <3> QED
        BY <2>1, <2>2, <3>3 DEF SweepSlot
    <2>4. CASE x # s
      BY <2>1, <2>2, <2>4 DEF SweepSlot, SlotsInv, TypeOK
    <2> QED
      BY <2>3, <2>4
  <1> QED
    BY <1>1, <1>2 DEF SlotsInv, Spent

\* Time goes on only while no pass would stall longer than it can, and a slot
\* that is past stays past.
LEMMA TimeKeeps == SlotsInv /\ Time => SlotsInv'
  <1> SUFFICES ASSUME SlotsInv, Time PROVE SlotsInv'
    OBVIOUS
  <1>1. now \in Nat /\ now' = now + 1 /\ Offset \in [Replicas -> 0 .. Spread] /\ Spread \in Nat
    BY ClockAssumption DEF Time, SlotsInv, TypeOK
  <1>2. TypeOK'
    BY <1>1 DEF Time, SlotsInv, TypeOK
  <1>3. PassFresh'
    BY <1>1, ClockAssumption DEF Time, SlotsInv, PassFresh, TypeOK, PassType
  <1>4. \A x \in Starts : Past(x) => Past(x)'
    <2> SUFFICES ASSUME NEW x \in Starts, NEW q \in Replicas,
                        x + Shortest + Margin + Skew < now + Offset[q]
                 PROVE  x + Shortest + Margin + Skew < now' + Offset[q]
      BY DEF Past, Clock
    <2> QED
      BY <1>1, PeriodAssumption, ClockAssumption DEF Starts
  <1>5. Spent'
    BY <1>4 DEF Time, SlotsInv, Spent
  <1> QED
    BY <1>2, <1>3, <1>5 DEF SlotsInv

LEMMA PolicyKeeps ==
    ASSUME SlotsInv, ChangePolicy \/ \E r \in Replicas : DeliverPolicy(r)
    PROVE  SlotsInv'
  <1>1. TypeOK'
    BY DEF ChangePolicy, DeliverPolicy, SlotsInv, TypeOK
  <1>2. PassFresh' /\ Spent'
    BY DEF ChangePolicy, DeliverPolicy, SlotsInv, PassFresh, Spent, Past, Clock
  <1> QED
    BY <1>1, <1>2 DEF SlotsInv

LEMMA NextSlotsInv == SlotsInv /\ [Next]_vars => SlotsInv'
  <1> SUFFICES ASSUME SlotsInv, [Next]_vars PROVE SlotsInv'
    OBVIOUS
  <1>1. CASE UNCHANGED vars
    BY <1>1 DEF vars, SlotsInv, TypeOK, PassFresh, Spent, Past, Clock
  <1>2. CASE Next
    BY <1>2, BeginKeeps, SkipKeeps, CreateSlotKeeps, SweepSlotKeeps, TimeKeeps, PolicyKeeps DEF Next
  <1> QED
    BY <1>1, <1>2

\* Every reachable state satisfies the invariant, and with it the types.
THEOREM SlotsTypeCorrect == Spec => []TypeOK
  <1>1. SlotsInv => TypeOK
    BY DEF SlotsInv
  <1> QED
    BY InitSlotsInv, NextSlotsInv, <1>1, PTL DEF Spec

\* For any replicas, periods and clocks within the assumptions, and for all
\* time, at most one publication is begun for a slot (createSlot, sweepSlots).
THEOREM OncePerSlotHolds == Spec => []OncePerSlot
  <1>1. SlotsInv => OncePerSlot
    BY DEF SlotsInv, Spent, OncePerSlot
  <1> QED
    BY InitSlotsInv, NextSlotsInv, <1>1, PTL DEF Spec

-----------------------------------------------------------------------------
(* Artifacts.                                                              *)

\* The types.
States == {"running", "completed", "ended", "expired", "absent"}

Recs == [state: States, attempt: Nat, art: Nat]

Copies == [state: States, art: Nat]

Stages == {"none", "sampling", "stored", "committed", "discard", "over"}

\* A write as its callers make it.
Proper(w) ==
    /\ w.kind \in {"finish", "put", "deleteObj"} => w.obj \in Objects
    /\ w.kind = "finish" => w.from = "running"
    /\ w.kind = "flip" => w.from = "completed"
    /\ w.kind = "deleteRec" => w.from \in Retirable
    /\ w.kind \in {"put", "deleteObj"} => w.from = ""

Writes ==
    {w \in [kind: {"finish", "flip", "deleteRec", "put", "deleteObj"},
            obj: Ids \X (0 .. MaxAttempts), from: States \cup {""}] : Proper(w)}

\* What a pass of the sweeper and a request carry from step to step.
Passes ==
    [pc: {"idle", "expire", "flip", "retire", "orphans", "delete"},
     jobs: [Ids -> Copies] \cup {<<>>}, listed: BOOLEAN, list: SUBSET Objects,
     todo: (SUBSET Ids) \cup (SUBSET Objects)]

Reads ==
    [pc: {"idle", "walk", "open", "flip", "stream", "none", "served", "failed"}, latest: BOOLEAN,
     cand: SUBSET Ids, page: SUBSET Ids, left: SUBSET Ids, id: Nat, art: Nat, got: Seq(Nat), next: Nat]

StoreTypes ==
    /\ rec \in [Ids -> Recs]
    /\ due \in [Ids -> BOOLEAN]
    /\ objects \subseteq Objects
    /\ late \subseteq Writes
    /\ work \in [Objects -> Stages]

-----------------------------------------------------------------------------
(* The facts that stay true.                                               *)

\* Nobody will put o (again).
Sealed(o) == work[o] \notin {"none", "sampling"} /\ PutObj(o) \notin late

\* o is not there and will not come back.
Gone(o) == Sealed(o) /\ o \notin objects

\* i's record is finished: completed or expired, under the object a names.
Finished(i, a) ==
    \/ rec[i].state = "absent"
    \/ rec[i].state \in {"completed", "expired"} /\ rec[i].art = a

\* i has no artifact and will not have one again.
Over(i) ==
    \/ rec[i].state = "absent"
    \/ rec[i].state \in {"completed", "expired"} /\ Gone(ObjectOf(i, rec[i]))

\* Nobody may count on o: its retention ended, its record does without it, or
\* its owner has given up.
Doomed(o) == due[o[1]] \/ GivenUp(o) \/ work[o] = "over"

-----------------------------------------------------------------------------
(* The invariant.                                                          *)

\* A record and the object it names: sealed once the record is finished, gone
\* once it is expired, there as long as it is kept.
RecOK(i) ==
    /\ rec[i].state \in {"completed", "expired"} =>
         rec[i].art \in Attempts /\ Sealed(ObjectOf(i, rec[i]))
    /\ rec[i].state = "expired" => ObjectOf(i, rec[i]) \notin objects
    /\ rec[i].state = "running" => \A k \in Attempts : k > rec[i].attempt => work[<<i, k>>] = "none"
    /\ due[i] => rec[i].state \notin {"running", "ended"}
    /\ rec[i].state = "completed" /\ ~due[i] /\ work[ObjectOf(i, rec[i])] = "committed" =>
         ObjectOf(i, rec[i]) \in objects

\* An owner that may still commit has its object.
WorkOK(o) == work[o] = "stored" /\ rec[o[1]].state = "running" => o \in objects

\* What an outstanding write was decided on.
WriteOK(w) ==
    /\ w.kind = "put" => work[w.obj] = "over"
    /\ w.kind = "finish" => Sealed(w.obj) /\ work[w.obj] \in {"discard", "over"}
    /\ w.kind = "flip" => Over(w.obj[1])
    /\ w.kind = "deleteObj" => Doomed(w.obj)

\* A copy of a record that was read or delivered at some time.
JobOK(c, i) == c.state \in {"completed", "expired"} => c.art \in Attempts /\ Finished(i, c.art)

\* What a pass of the sweeper remembers.
PassOK(p) ==
    /\ p \in Passes
    /\ p.pc \in {"expire", "flip", "retire"} =>
         /\ p.jobs \in [Ids -> Copies] /\ p.todo \subseteq Ids
         /\ \A i \in Ids : JobOK(p.jobs[i], i)
    /\ p.pc \in {"expire", "flip"} => \A i \in p.todo : p.jobs[i].state = "completed"
    /\ p.pc = "flip" => p.todo # {} /\ Over(Min(p.todo))
    /\ p.pc = "retire" => \A i \in p.todo : p.jobs[i].state \in Retirable
    /\ p.pc \in {"orphans", "delete"} => p.todo \subseteq Objects
    /\ p.pc = "delete" => \A o \in p.list : GivenUp(o)

\* What a request remembers: the page holds the newest candidates, those it
\* passed over are over, the ones it has still to visit are older than the one
\* it opens, and its chunks are the first ones in order.
ReadOK(q) ==
    /\ q \in Reads
    /\ q.pc = "idle" => q = NoRead
    /\ q.pc \in {"open", "flip", "stream"} => q.id \in Ids
    /\ q.pc \in {"open", "flip"} => q.art \in Attempts /\ Finished(q.id, q.art)
    /\ q.pc \in {"walk", "open", "flip"} =>
         /\ \A i \in q.cand : rec[i].state \notin {"running", "ended"}
         /\ q.left \subseteq q.page /\ q.page \subseteq q.cand
         /\ \A i \in q.cand \ q.page, j \in q.page : i < j
    /\ q.pc = "walk" => \A i \in q.page \ q.left : Over(i)
    /\ q.pc = "open" => \A i \in q.page \ q.left : i = q.id \/ Over(i)
    /\ q.pc = "flip" => Over(q.id) /\ \A i \in q.page \ q.left : Over(i)
    /\ q.pc \in {"open", "flip"} => \A i \in q.left : i < q.id
    /\ q.pc = "open" => \A i \in q.cand \ q.page : i < q.id
    /\ q.pc = "stream" => \A i \in q.cand : Over(i)
    /\ q.pc = "none" => \A i \in q.page : Over(i)
    /\ q.pc # "stream" => q.got = <<>> /\ q.next = 0
    /\ q.pc = "stream" =>
         /\ Len(q.got) < Chunks /\ \A n \in 1 .. Len(q.got) : q.got[n] = n
         /\ q.next \in {0, Len(q.got) + 1}

\* The inductive invariant.
ArtifactsInv ==
    /\ StoreTypes
    /\ \A i \in Ids : RecOK(i)
    /\ \A o \in Objects : WorkOK(o)
    /\ \A w \in late : WriteOK(w)
    /\ cached \in [Ids -> Copies] /\ \A i \in Ids : JobOK(cached[i], i)
    /\ PassOK(swp)
    /\ ReadOK(rd)

-----------------------------------------------------------------------------
(* What a step may do to the store and to the owners.                      *)

\* A record runs, is completed under a sealed object or ended, expires when it
\* has no artifact any more, and is retired.
RecStep(i) ==
    \/ rec'[i] = rec[i]
    \/ /\ rec[i].state = "running"
       /\ \/ /\ rec'[i].state = "running" /\ rec'[i].art = rec[i].art
             /\ rec'[i].attempt >= rec[i].attempt
          \/ rec'[i].state = "ended"
          \/ /\ rec'[i].state = "completed" /\ rec'[i].art \in Attempts
             /\ Sealed(<<i, rec'[i].art>>) /\ work[<<i, rec'[i].art>>] # "committed"
    \/ /\ rec[i].state = "completed" /\ rec'[i].state = "expired" /\ rec'[i].art = rec[i].art
       /\ Over(i)
    \/ rec[i].state \in Retirable /\ rec'[i].state = "absent"

\* An owner samples, stores and commits or gives up.
WorkStep(o) ==
    \/ work'[o] = work[o]
    \/ /\ work[o] = "none" /\ work'[o] = "sampling"
       /\ rec[o[1]].state = "running" => rec'[o[1]].attempt >= o[2]
    \/ work[o] = "sampling" /\ work'[o] = "stored" /\ o \in objects'
    \/ work[o] \in {"sampling", "stored", "discard"} /\ work'[o] = "over"
    \/ work[o] = "stored" /\ work'[o] = "discard"
    \/ /\ work[o] = "stored" /\ work'[o] = "committed"
       /\ rec[o[1]].state = "running" /\ objects' = objects

\* An object appears only while its owner, or its late put, may write it, and
\* goes only when nobody counts on it.
ObjStep(o) ==
    /\ o \in objects' => o \in objects \/ work[o] = "sampling" \/ PutObj(o) \in late
    /\ o \in objects \ objects' => Doomed(o) \/ work[o] = "discard"
    /\ PutObj(o) \in late' => PutObj(o) \in late \/ work[o] = "sampling"

\* Every step of the specification.
Evolves ==
    /\ \A i \in Ids : RecStep(i)
    /\ \A i \in Ids : due'[i] = due[i] \/ (due'[i] /\ rec[i].state = "completed")
    /\ \A o \in Objects : WorkStep(o) /\ ObjStep(o)

-----------------------------------------------------------------------------

\* The constants as sets of numbers.
LEMMA Constants ==
  /\ Ids \subseteq Nat \ {0} /\ Attempts \subseteq Nat \ {0} /\ 1 \in Attempts
  /\ MaxAttempts \in Nat /\ Chunks \in Nat \ {0} /\ Last \in Nat /\ Done \subseteq Ids
  BY ArtifactsAssumption DEF Ids, Attempts

\* An object is its Collection and its attempt.
LEMMA ObjectIs ==
  /\ \A o \in Objects : o[1] \in Ids /\ o[2] \in Attempts /\ o = <<o[1], o[2]>>
  /\ \A i \in Ids, k \in Attempts : <<i, k>> \in Objects /\ <<i, k>>[1] = i /\ <<i, k>>[2] = k
  BY DEF Objects

\* The kinds of writes do not meet.
LEMMA WriteIs ==
  /\ \A o \in Objects : Finish(o) \in Writes /\ PutObj(o) \in Writes /\ DeleteObj(o) \in Writes
  /\ \A i \in Ids : Flip(i) \in Writes /\ \A s \in Retirable : DeleteRec(i, s) \in Writes
  /\ \A w \in Writes : w.kind = "put" => w = PutObj(w.obj)
  <1>1. \A o \in Objects : o \in Ids \X (0 .. MaxAttempts)
    BY Constants DEF Objects, Attempts
  <1>2. \A i \in Ids : <<i, 0>> \in Ids \X (0 .. MaxAttempts)
    BY Constants
  <1>3. \A o \in Objects : Finish(o) \in Writes /\ PutObj(o) \in Writes /\ DeleteObj(o) \in Writes
    BY <1>1 DEF Finish, PutObj, DeleteObj, Writes, Proper, States
  <1>4. \A i \in Ids : Flip(i) \in Writes
    BY <1>2 DEF Flip, Writes, Proper, States
  <1>5. \A i \in Ids, s \in Retirable : DeleteRec(i, s) \in Writes
    BY <1>2 DEF DeleteRec, Writes, Proper, States, Retirable
  <1>6. \A w \in Writes : w.kind = "put" => w = PutObj(w.obj)
    <2> SUFFICES ASSUME NEW w \in Writes, w.kind = "put" PROVE w = PutObj(w.obj)
      OBVIOUS
    <2>1. w \in [kind: {"finish", "flip", "deleteRec", "put", "deleteObj"},
                 obj: Ids \X (0 .. MaxAttempts), from: States \cup {""}]
      BY DEF Writes
    <2>2. w.from = ""
      BY DEF Writes, Proper
    <2>3. w = [kind |-> w.kind, obj |-> w.obj, from |-> w.from]
      BY <2>1
    <2> QED
      BY <2>2, <2>3 DEF PutObj
  <1> QED
    BY <1>3, <1>4, <1>5, <1>6

\* The first of a set of numbers, and the last of a bounded one.
LEMMA MinIs ==
  ASSUME NEW S, S \subseteq Nat, S # {}
  PROVE  Min(S) \in S /\ \A y \in S : Min(S) =< y
  <1> DEFINE R == {ss \in Nat \X Nat : ss[1] < ss[2]}
  <1>1. IsWellFoundedOn(R, Nat)
    BY NatLessThanWellFounded DEF OpToRel
  <1>2. PICK x \in S : \A y \in S : ~(<<y, x>> \in R)
    <2> HIDE DEF R
    <2> QED
      BY <1>1, WFMin
  <1>3. \A y \in S : x =< y
    <2> SUFFICES ASSUME NEW y \in S PROVE x =< y
      OBVIOUS
    <2>1. x \in Nat /\ y \in Nat
      OBVIOUS
    <2>2. ~(y < x)
      <3>1. SUFFICES ASSUME y < x PROVE FALSE
        OBVIOUS
      <3>2. <<y, x>> \in R
        BY <2>1, <3>1
      <3> QED
        BY <1>2, <3>2
    <2> QED
      BY <2>1, <2>2
  <1> QED
    BY <1>3 DEF Min

\* Max is the largest of a nonempty set of ids.
LEMMA MaxIs ==
  ASSUME NEW S, S \subseteq Ids, S # {}
  PROVE  Max(S) \in S /\ \A y \in S : Max(S) >= y
  <1> DEFINE T == {n \in Nat : Last - n \in S}
  <1>1. S \subseteq Nat /\ \A y \in S : y =< Last /\ Last - y \in Nat /\ Last - (Last - y) = y
    BY Constants DEF Ids
  <1>2. T \subseteq Nat /\ T # {}
    BY <1>1
  <1>3. Min(T) \in T /\ \A y \in T : Min(T) =< y
    <2> HIDE DEF T
    <2> QED
      BY <1>2, MinIs
  <1>4. PICK x \in S : x = Last - Min(T)
    BY <1>3
  <1>5. Min(T) \in Nat
    BY <1>2, <1>3
  <1>6. \A y \in S : x >= y
    <2> SUFFICES ASSUME NEW y \in S PROVE x >= y
      OBVIOUS
    <2>1. Last - y \in T
      BY <1>1
    <2>2. Min(T) =< Last - y
      BY <1>3, <2>1
    <2> HIDE DEF T
    <2> QED
      BY <1>1, <1>4, <1>5, <2>2, Constants
  <1> QED
    BY <1>6 DEF Max

\* A sealed object stays sealed, a gone one gone.
LEMMA SealedStays ==
  ASSUME ArtifactsInv, Evolves, NEW o \in Objects, Sealed(o)
  PROVE  Sealed(o)' /\ (o \notin objects => o \notin objects')
  BY DEF Sealed, Evolves, WorkStep, ObjStep

\* So does an object its record does without.
LEMMA GivenUpStays ==
  ASSUME ArtifactsInv, Evolves, NEW o \in Objects, GivenUp(o)
  PROVE  GivenUp(o)'
  <1>1. o[1] \in Ids /\ RecStep(o[1])
    BY ObjectIs DEF Evolves
  <1> QED
    BY <1>1 DEF GivenUp, RecStep, ObjectOf, Terminal, Retirable

\* And one nobody may count on.
LEMMA DoomedStays ==
  ASSUME ArtifactsInv, Evolves, NEW o \in Objects, Doomed(o)
  PROVE  Doomed(o)'
  <1>1. o[1] \in Ids
    BY ObjectIs
  <1>2. due[o[1]] => due'[o[1]]
    BY <1>1 DEF Evolves
  <1>3. work[o] = "over" => work'[o] = "over"
    BY DEF Evolves, WorkStep
  <1> QED
    BY <1>2, <1>3, GivenUpStays DEF Doomed

\* A finished record keeps its object's name until it is deleted.
LEMMA FinishedStays ==
  ASSUME ArtifactsInv, Evolves, NEW i \in Ids, NEW a, Finished(i, a)
  PROVE  Finished(i, a)'
  BY DEF Finished, Evolves, RecStep, Retirable

\* A record that is over stays over.
LEMMA OverStays ==
  ASSUME ArtifactsInv, Evolves, NEW i \in Ids, Over(i)
  PROVE  Over(i)'
  <1>1. CASE rec[i].state = "absent"
    BY <1>1 DEF Over, Evolves, RecStep, Retirable
  <1>2. CASE rec[i].state \in {"completed", "expired"} /\ Gone(ObjectOf(i, rec[i]))
    <2>1. PICK a \in Attempts : a = rec[i].art
      BY <1>2 DEF ArtifactsInv, RecOK
    <2>2. <<i, a>> \in Objects /\ Sealed(<<i, a>>) /\ <<i, a>> \notin objects
      BY <1>2, <2>1, ObjectIs DEF Gone, ObjectOf
    <2>3. Sealed(<<i, a>>)' /\ <<i, a>> \notin objects'
      BY <2>2, SealedStays
    <2>4. \/ rec'[i].state = "absent"
          \/ rec'[i].state \in {"completed", "expired"} /\ rec'[i].art = a
      BY <1>2, <2>1 DEF Evolves, RecStep, Retirable
    <2> QED
      BY <2>3, <2>4 DEF Over, Gone, ObjectOf, Sealed
  <1> QED
    BY <1>1, <1>2 DEF Over

\* What was outstanding is still decided on what is true.
LEMMA WriteStays ==
  ASSUME ArtifactsInv, Evolves, NEW w \in Writes, WriteOK(w)
  PROVE  WriteOK(w)'
  <1>1. w.kind \in {"put", "finish", "deleteObj"} => w.obj \in Objects
    BY DEF Writes, Proper
  <1>2. w.obj[1] \in Ids
    BY DEF Writes
  <1>3. w.kind = "put" => work'[w.obj] = "over"
    BY <1>1 DEF WriteOK, Evolves, WorkStep
  <1>4. w.kind = "finish" => Sealed(w.obj)' /\ work'[w.obj] \in {"discard", "over"}
    BY <1>1, SealedStays DEF WriteOK, Evolves, WorkStep
  <1>5. w.kind = "flip" => Over(w.obj[1])'
    BY <1>2, OverStays DEF WriteOK
  <1>6. w.kind = "deleteObj" => Doomed(w.obj)'
    BY <1>1, DoomedStays DEF WriteOK
  <1> QED
    BY <1>3, <1>4, <1>5, <1>6 DEF WriteOK

\* A copy stays a copy of what is or was.
LEMMA JobStays ==
  ASSUME ArtifactsInv, Evolves, NEW i \in Ids, NEW c, JobOK(c, i)
  PROVE  JobOK(c, i)'
  <1>1. PICK a : a = c.art
    OBVIOUS
  <1>2. CASE c.state \in {"completed", "expired"}
    <2>1. a \in Attempts /\ Finished(i, a)
      BY <1>1, <1>2 DEF JobOK
    <2>2. Finished(i, a)'
      BY <2>1, FinishedStays
    <2> QED
      BY <1>1, <2>1, <2>2 DEF JobOK, Finished
  <1> QED
    BY <1>2 DEF JobOK

\* The sweeper's pass and the request remember what is still true.
LEMMA PassStays ==
  ASSUME ArtifactsInv, Evolves, NEW p, PassOK(p)
  PROVE  PassOK(p)'
  <1>1. p.pc \in {"expire", "flip", "retire"} => \A i \in Ids : JobOK(p.jobs[i], i)'
    BY JobStays DEF PassOK
  <1>2. p.pc = "flip" => Over(Min(p.todo))'
    <2> SUFFICES ASSUME p.pc = "flip" PROVE Over(Min(p.todo))'
      OBVIOUS
    <2>1. p.todo # {} /\ Over(Min(p.todo)) /\ p.todo \subseteq Ids
      BY DEF PassOK
    <2>2. Min(p.todo) \in Ids
      BY <2>1, MinIs, Constants
    <2> QED
      BY <2>1, <2>2, OverStays
  <1>3. p.pc = "delete" => \A o \in p.list : GivenUp(o)'
    BY GivenUpStays DEF PassOK, Passes
  <1> QED
    BY <1>1, <1>2, <1>3 DEF PassOK

\* What a request remembers stays true.
LEMMA ReadStays ==
  ASSUME ArtifactsInv, Evolves, NEW q, ReadOK(q)
  PROVE  ReadOK(q)'
  <1>1. q \in Reads /\ q.cand \subseteq Ids /\ q.page \subseteq Ids
    BY DEF ReadOK, Reads
  <1>2. \A i \in Ids : rec[i].state \notin {"running", "ended"} => rec'[i].state \notin {"running", "ended"}
    BY DEF Evolves, RecStep, Retirable
  <1>3. \A i \in Ids : Over(i) => Over(i)'
    BY OverStays
  <1>4. \A i \in Ids, a \in Attempts : Finished(i, a) => Finished(i, a)'
    BY FinishedStays
  <1> QED
    BY <1>1, <1>2, <1>3, <1>4 DEF ReadOK

\* A step keeps the records' and the owners' part of the invariant.
LEMMA CoreStep ==
  ASSUME ArtifactsInv, StoreTypes', Evolves
  PROVE  /\ \A i \in Ids : RecOK(i)'
         /\ \A o \in Objects : WorkOK(o)'
  <1>1. \A o \in Objects : WorkOK(o)'
    <2> SUFFICES ASSUME NEW o \in Objects, work'[o] = "stored", rec'[o[1]].state = "running"
                 PROVE  o \in objects'
      BY DEF WorkOK
    <2>1. o[1] \in Ids /\ WorkStep(o) /\ ObjStep(o) /\ RecStep(o[1])
      BY ObjectIs DEF Evolves
    <2>2. rec[o[1]].state = "running"
      BY <2>1 DEF RecStep
    <2>3. CASE work[o] = "sampling" /\ o \in objects'
      BY <2>3
    <2>4. CASE work[o] = "stored"
      <3>1. o \in objects
        BY <2>2, <2>4 DEF ArtifactsInv, WorkOK
      <3>2. ~Doomed(o)
        BY <2>1, <2>2, <2>4 DEF ArtifactsInv, RecOK, Doomed, GivenUp, Terminal
      <3> QED
        BY <2>1, <2>4, <3>1, <3>2 DEF ObjStep
    <2> QED
      BY <2>1, <2>3, <2>4 DEF WorkStep
  <1>2. ASSUME NEW i \in Ids PROVE RecOK(i)'
    <2>1. RecOK(i) /\ RecStep(i) /\ rec[i] \in Recs /\ rec'[i] \in Recs
      BY DEF ArtifactsInv, Evolves, StoreTypes
    <2>2. rec'[i].state \in {"completed", "expired"} =>
            rec'[i].art \in Attempts /\ Sealed(<<i, rec'[i].art>>)
      BY <2>1 DEF RecOK, RecStep, ObjectOf, Retirable
    <2>3. PICK a : a = rec'[i].art
      OBVIOUS
    <2>4. rec'[i].state \in {"completed", "expired"} => <<i, a>> \in Objects /\ Sealed(<<i, a>>)
      BY <2>2, <2>3, ObjectIs
    <2>5. rec'[i].state \in {"completed", "expired"} => rec'[i].art \in Attempts /\ Sealed(<<i, a>>)'
      BY <2>2, <2>4, SealedStays
    <2>6. rec'[i].state = "expired" => <<i, a>> \notin objects'
      <3> SUFFICES ASSUME rec'[i].state = "expired" PROVE <<i, a>> \notin objects'
        OBVIOUS
      <3>1. <<i, a>> \notin objects
        BY <2>1, <2>3 DEF RecStep, RecOK, Over, Gone, ObjectOf, Retirable
      <3> QED
        BY <2>4, <3>1, SealedStays
    <2>7. rec'[i].state = "running" =>
            \A k \in Attempts : k > rec'[i].attempt => work'[<<i, k>>] = "none"
      <3> SUFFICES ASSUME rec'[i].state = "running", NEW k \in Attempts, k > rec'[i].attempt
                   PROVE  work'[<<i, k>>] = "none"
        OBVIOUS
      <3>1. rec[i].state = "running" /\ rec'[i].attempt >= rec[i].attempt
        BY <2>1 DEF RecStep, Recs
      <3>2. k > rec[i].attempt
        BY <2>1, <3>1, Constants DEF Recs
      <3>3. work[<<i, k>>] = "none"
        BY <2>1, <3>1, <3>2 DEF RecOK
      <3>4. WorkStep(<<i, k>>) /\ <<i, k>>[1] = i /\ <<i, k>>[2] = k
        BY ObjectIs DEF Evolves
      <3>5. ~(rec'[i].attempt >= k)
        BY <2>1, Constants DEF Recs
      <3> QED
        BY <3>1, <3>3, <3>4, <3>5 DEF WorkStep
    <2>8. due'[i] => rec'[i].state \notin {"running", "ended"}
      <3>1. due'[i] => rec[i].state \notin {"running", "ended"}
        BY <2>1 DEF Evolves, RecOK
      <3> QED
        BY <2>1, <3>1 DEF RecStep, Retirable
    <2>9. ASSUME rec'[i].state = "completed", ~due'[i], work'[<<i, a>>] = "committed"
          PROVE  <<i, a>> \in objects'
      <3>1. <<i, a>> \in Objects /\ <<i, a>>[1] = i /\ a \in Attempts
        BY <2>2, <2>3, <2>9, ObjectIs
      <3>2. WorkStep(<<i, a>>) /\ ObjStep(<<i, a>>) /\ WorkOK(<<i, a>>)
        BY <3>1 DEF Evolves, ArtifactsInv
      <3>3. ~due[i]
        BY <2>9 DEF Evolves
      <3>4. \/ rec[i].state = "completed" /\ rec[i].art = a
            \/ rec[i].state = "running" /\ work[<<i, a>>] # "committed"
        BY <2>1, <2>3, <2>9 DEF RecStep
      <3>5. CASE work[<<i, a>>] = "committed"
        <4>1. rec[i].state = "completed" /\ rec[i].art = a
          BY <3>4, <3>5
        <4>2. <<i, a>> \in objects
          BY <2>1, <3>3, <3>5, <4>1 DEF RecOK, ObjectOf
        <4>3. ~Doomed(<<i, a>>)
          BY <3>1, <3>3, <3>5, <4>1 DEF Doomed, GivenUp, ObjectOf
        <4> QED
          BY <3>2, <3>5, <4>2, <4>3 DEF ObjStep
      <3>6. CASE work[<<i, a>>] # "committed"
        <4>1. work[<<i, a>>] = "stored" /\ rec[i].state = "running" /\ objects' = objects
          BY <2>9, <3>1, <3>2, <3>6 DEF WorkStep
        <4> QED
          BY <3>1, <3>2, <4>1 DEF WorkOK
      <3> QED
        BY <3>5, <3>6
    <2> QED
      BY <2>3, <2>5, <2>6, <2>7, <2>8, <2>9 DEF RecOK, ObjectOf, Sealed
  <1> QED
    BY <1>1, <1>2

\* The store's part of a step.
StoreStep ==
    /\ rec' \in [Ids -> Recs] /\ objects' \subseteq Objects /\ late' \subseteq Writes
    /\ \A i \in Ids : RecStep(i)
    /\ \A o \in Objects : ObjStep(o)

\* What a write needs to be true when it lands.
CallOK(w) ==
    /\ w.kind = "put" => work[w.obj] = "sampling" \/ w \in late
    /\ w.kind = "finish" => Sealed(w.obj) /\ work[w.obj] # "committed"
    /\ w.kind = "flip" => Over(w.obj[1])
    /\ w.kind = "deleteObj" => Doomed(w.obj) \/ work[w.obj] = "discard"

\* A write that lands does what a step may do.
LEMMA Landing ==
  ASSUME ArtifactsInv, NEW w \in Writes, CallOK(w), Takes(w), Commit(w), late' \subseteq late
  PROVE  StoreStep
  <1> DEFINE i == w.obj[1]
  <1>1. /\ i \in Ids /\ rec \in [Ids -> Recs] /\ rec[i] \in Recs /\ late \subseteq Writes
        /\ w.kind \in {"finish", "flip", "deleteRec", "put", "deleteObj"} /\ Proper(w)
    BY DEF Writes, ArtifactsInv, StoreTypes
  <1>2. CASE w.kind = "finish"
    <2>1. w.obj \in Objects /\ w.from = "running"
      BY <1>1, <1>2 DEF Proper
    <2>2. w.obj[2] \in Attempts /\ w.obj[2] \in Nat /\ <<i, w.obj[2]>> = w.obj
      BY <2>1, ObjectIs, Constants
    <2>3. rec[i].state = "running"
      BY <2>1 DEF Takes
    <2>4. rec' = [rec EXCEPT ![i].state = "completed", ![i].art = w.obj[2]] /\ objects' = objects
      BY <1>2 DEF Commit, Written
    <2>5. rec' \in [Ids -> Recs] /\ rec'[i].state = "completed" /\ rec'[i].art = w.obj[2]
      BY <1>1, <2>2, <2>4 DEF Recs, States
    <2>6. \A j \in Ids : j # i => rec'[j] = rec[j]
      BY <1>1, <2>4
    <2>7. RecStep(i)
      BY <1>2, <2>2, <2>3, <2>5 DEF RecStep, CallOK
    <2>8. \A j \in Ids : RecStep(j)
      BY <2>6, <2>7 DEF RecStep
    <2> QED
      BY <1>1, <2>4, <2>5, <2>8 DEF StoreStep, ObjStep, ArtifactsInv, StoreTypes
  <1>3. CASE w.kind = "flip"
    <2>1. w.from = "completed" /\ rec[i].state = "completed"
      BY <1>1, <1>3 DEF Proper, Takes
    <2>2. rec' = [rec EXCEPT ![i].state = "expired"] /\ objects' = objects
      BY <1>3 DEF Commit, Written
    <2>3. rec' \in [Ids -> Recs] /\ rec'[i].state = "expired" /\ rec'[i].art = rec[i].art
      BY <1>1, <2>2 DEF Recs, States
    <2>4. \A j \in Ids : j # i => rec'[j] = rec[j]
      BY <1>1, <2>2
    <2>5. RecStep(i)
      BY <1>3, <2>1, <2>3 DEF RecStep, CallOK
    <2>6. \A j \in Ids : RecStep(j)
      BY <2>4, <2>5 DEF RecStep
    <2> QED
      BY <1>1, <2>2, <2>3, <2>6 DEF StoreStep, ObjStep, ArtifactsInv, StoreTypes
  <1>4. CASE w.kind = "deleteRec"
    <2>1. rec[i].state \in Retirable
      BY <1>1, <1>4 DEF Proper, Takes, Retirable
    <2> DEFINE none == [state |-> "absent", attempt |-> 1, art |-> 0]
    <2>2. rec' = [rec EXCEPT ![i] = none] /\ objects' = objects
      BY <1>4 DEF Commit, Written
    <2>3. none \in Recs /\ none.state = "absent"
      BY DEF Recs, States
    <2> HIDE DEF none
    <2>4. rec' \in [Ids -> Recs] /\ rec'[i] = none /\ \A j \in Ids : j # i => rec'[j] = rec[j]
      BY <1>1, <2>2, <2>3
    <2>5. \A j \in Ids : RecStep(j)
      BY <2>1, <2>3, <2>4 DEF RecStep
    <2> QED
      BY <1>1, <2>2, <2>4, <2>5 DEF StoreStep, ObjStep, ArtifactsInv, StoreTypes
  <1>5. CASE w.kind = "put"
    <2>1. w.obj \in Objects /\ w = PutObj(w.obj)
      BY <1>1, <1>5, WriteIs DEF Proper
    <2>2. rec' = rec /\ objects' = objects \cup {w.obj}
      BY <1>5 DEF Commit, Written
    <2>3. work[w.obj] = "sampling" \/ PutObj(w.obj) \in late
      BY <1>5, <2>1 DEF CallOK
    <2> QED
      BY <1>1, <2>1, <2>2, <2>3 DEF StoreStep, RecStep, ObjStep, ArtifactsInv, StoreTypes
  <1>6. CASE w.kind = "deleteObj"
    <2>1. rec' = rec /\ objects' = objects \ {w.obj}
      BY <1>6 DEF Commit, Written
    <2>2. Doomed(w.obj) \/ work[w.obj] = "discard"
      BY <1>6 DEF CallOK
    <2>3. \A o \in Objects : ObjStep(o)
      BY <2>1, <2>2 DEF ObjStep
    <2> QED
      BY <1>1, <2>1, <2>3 DEF StoreStep, RecStep, ArtifactsInv, StoreTypes
  <1> QED
    BY <1>1, <1>2, <1>3, <1>4, <1>5, <1>6

\* So does a call, whatever its answer.
LEMMA CallSteps ==
  ASSUME ArtifactsInv, NEW w \in Writes, CallOK(w), NEW answer, Call(w, answer)
  PROVE  StoreStep /\ late' \subseteq late \cup {w} /\ (answer # "ok" => objects' = objects)
  <1>1. StoreTypes
    BY DEF ArtifactsInv
  <1>2. CASE answer = "ok" /\ Takes(w) /\ Commit(w) /\ late' = late
    BY <1>2, Landing
  <1>3. CASE rec' = rec /\ objects' = objects /\ late' = late
    BY <1>1, <1>3 DEF StoreStep, RecStep, ObjStep, StoreTypes
  <1>4. CASE rec' = rec /\ objects' = objects /\ late' = late \cup {w}
    <2>1. \A o \in Objects : PutObj(o) = w => work[o] = "sampling" \/ PutObj(o) \in late
      <3> SUFFICES ASSUME NEW o \in Objects, PutObj(o) = w
                   PROVE  work[o] = "sampling" \/ w \in late
        OBVIOUS
      <3>1. w.kind = "put" /\ w.obj = o
        BY DEF PutObj
      <3> QED
        BY <3>1 DEF CallOK
    <2>2. \A o \in Objects : ObjStep(o)
      BY <1>4, <2>1 DEF ObjStep
    <2> QED
      BY <1>1, <1>4, <2>2 DEF StoreStep, RecStep, StoreTypes
  <1> QED
    BY <1>2, <1>3, <1>4 DEF Call, Quiet, Still, Mishap

-----------------------------------------------------------------------------
(* One step.                                                               *)

\* The parts of the invariant together.
LEMMA Assemble ==
  ASSUME ArtifactsInv, StoreTypes', Evolves,
         \A w \in late' : w \in late \/ WriteOK(w)',
         \/ cached' = cached
         \/ cached' \in [Ids -> Copies] /\ \A i \in Ids : JobOK(cached[i], i)',
         swp' = swp \/ PassOK(swp)',
         rd' = rd \/ ReadOK(rd)'
  PROVE  ArtifactsInv'
  <1>1. (\A i \in Ids : RecOK(i)') /\ (\A o \in Objects : WorkOK(o)')
    BY CoreStep
  <1>2. \A w \in late' : WriteOK(w)'
    BY WriteStays DEF ArtifactsInv, StoreTypes
  <1>3. cached' \in [Ids -> Copies] /\ \A i \in Ids : JobOK(cached[i], i)'
    <2>1. CASE cached' = cached
      <3>1. PICK c : c = cached
        OBVIOUS
      <3>2. c \in [Ids -> Copies] /\ \A i \in Ids : JobOK(c[i], i)
        BY <3>1 DEF ArtifactsInv
      <3>3. \A i \in Ids : JobOK(c[i], i)'
        BY <3>2, JobStays
      <3> QED
        BY <2>1, <3>1, <3>2, <3>3 DEF JobOK
    <2> QED
      BY <2>1
  <1>4. PassOK(swp)'
    <2>1. CASE swp' = swp
      <3>1. PICK p : p = swp
        OBVIOUS
      <3>2. PassOK(p)'
        BY <3>1, PassStays DEF ArtifactsInv
      <3> QED
        BY <2>1, <3>1, <3>2
    <2> QED
      BY <2>1
  <1>5. ReadOK(rd)'
    <2>1. CASE rd' = rd
      <3>1. PICK q : q = rd
        OBVIOUS
      <3>2. ReadOK(q)'
        BY <3>1, ReadStays DEF ArtifactsInv
      <3> QED
        BY <2>1, <3>1, <3>2
    <2> QED
      BY <2>1
  <1> QED
    BY <1>1, <1>2, <1>3, <1>4, <1>5 DEF ArtifactsInv

\* A step of the sweeper or of a request changes the store only.
LEMMA StoreOnly ==
  ASSUME ArtifactsInv, StoreStep, due' = due, work' = work
  PROVE  Evolves /\ StoreTypes'
  BY DEF ArtifactsInv, StoreTypes, StoreStep, Evolves, WorkStep

\* Or not even that.
LEMMA QuietStep ==
  ASSUME ArtifactsInv, Still, due' = due, work' = work
  PROVE  Evolves /\ StoreTypes'
  <1>1. StoreStep
    BY DEF Still, StoreStep, RecStep, ObjStep, ArtifactsInv, StoreTypes
  <1> QED
    BY <1>1, StoreOnly

\* An owner's step.
LEMMA OwnerStep ==
  ASSUME ArtifactsInv, NEW o \in Objects, NEW to \in Stages, StoreStep, Owner(o, to), Beside,
         WorkStep(o), \A w \in late' : w \in late \/ WriteOK(w)'
  PROVE  ArtifactsInv'
  <1>1. work \in [Objects -> Stages] /\ due \in [Ids -> BOOLEAN]
    BY DEF ArtifactsInv, StoreTypes
  <1>2. work' \in [Objects -> Stages] /\ \A x \in Objects : x # o => work'[x] = work[x]
    BY <1>1 DEF Owner
  <1>3. \A x \in Objects : WorkStep(x)
    BY <1>2 DEF WorkStep
  <1>4. Evolves /\ StoreTypes'
    BY <1>1, <1>2, <1>3 DEF Evolves, StoreTypes, StoreStep, Beside
  <1> QED
    BY <1>4, Assemble DEF Beside

\* The owners' actions.
LEMMA WorkKeeps ==
  ASSUME ArtifactsInv, NEW o \in Objects, Work(o)
  PROVE  ArtifactsInv'
  <1>1. StoreTypes /\ work[o] \in Stages /\ work \in [Objects -> Stages]
    BY DEF ArtifactsInv, StoreTypes
  <1>2. \A to : Owner(o, to) => work'[o] = to
    BY <1>1 DEF Owner
  <1>3. Finish(o) \in Writes /\ PutObj(o) \in Writes /\ DeleteObj(o) \in Writes
    BY WriteIs
  <1>4. work[o] # "over" => PutObj(o) \notin late
    <2> SUFFICES ASSUME PutObj(o) \in late PROVE work[o] = "over"
      OBVIOUS
    <2>1. WriteOK(PutObj(o)) /\ PutObj(o).kind = "put" /\ PutObj(o).obj = o
      BY DEF ArtifactsInv, PutObj
    <2> QED
      BY <2>1 DEF WriteOK
  <1>5. ASSUME Quiet PROVE StoreStep /\ late' = late
    BY <1>1, <1>5 DEF Quiet, Still, StoreStep, RecStep, ObjStep, StoreTypes
  <1>6. CASE PutArtifact(o)
    <2>1. work[o] = "sampling" /\ Beside
      BY <1>6 DEF PutArtifact
    <2>2. PutObj(o).kind = "put" /\ PutObj(o).obj = o
      BY DEF PutObj
    <2>3. CallOK(PutObj(o))
      BY <2>1, <2>2 DEF CallOK
    <2>4. CASE Call(PutObj(o), "ok") /\ Owner(o, "stored")
      <3>1. StoreStep /\ Commit(PutObj(o)) /\ late' = late
        BY <1>3, <2>3, <2>4, CallSteps DEF Call
      <3>2. o \in objects'
        BY <2>2, <3>1 DEF Commit
      <3>3. WorkStep(o)
        BY <1>2, <2>1, <2>4, <3>2 DEF WorkStep
      <3> QED
        BY <2>1, <2>4, <3>1, <3>3, OwnerStep DEF Stages
    <2>5. CASE Call(PutObj(o), "unavailable") /\ Owner(o, "over")
      <3>1. StoreStep /\ late' \subseteq late \cup {PutObj(o)}
        BY <1>3, <2>3, <2>5, CallSteps
      <3>2. work'[o] = "over"
        BY <1>2, <2>5
      <3>3. WriteOK(PutObj(o))'
        BY <2>2, <3>2 DEF WriteOK
      <3>4. WorkStep(o)
        BY <2>1, <3>2 DEF WorkStep
      <3>5. \A w \in late' : w \in late \/ WriteOK(w)'
        BY <3>1, <3>3
      <3> QED
        BY <2>1, <2>5, <3>1, <3>4, <3>5, OwnerStep DEF Stages
    <2> QED
      BY <1>6, <2>4, <2>5 DEF PutArtifact
  <1>7. CASE FinishUpdate(o)
    <2>1. work[o] = "stored" /\ Beside
      BY <1>7 DEF FinishUpdate
    <2>2. Finish(o).kind = "finish" /\ Finish(o).obj = o /\ Finish(o).from = "running"
      BY DEF Finish
    <2>3. Sealed(o)
      BY <1>4, <2>1 DEF Sealed
    <2>4. CallOK(Finish(o))
      BY <2>1, <2>2, <2>3 DEF CallOK
    <2>5. CASE Call(Finish(o), "ok") /\ Owner(o, "committed")
      <3>1. StoreStep /\ Takes(Finish(o)) /\ Commit(Finish(o)) /\ late' = late
        BY <1>3, <2>4, <2>5, CallSteps DEF Call
      <3>2. rec[o[1]].state = "running" /\ objects' = objects
        BY <2>2, <3>1 DEF Takes, Commit
      <3>3. WorkStep(o)
        BY <1>2, <2>1, <2>5, <3>2 DEF WorkStep
      <3> QED
        BY <2>1, <2>5, <3>1, <3>3, OwnerStep DEF Stages
    <2>6. ASSUME NEW answer \in {"refused", "unavailable"},
                 Call(Finish(o), answer), Owner(o, "discard")
          PROVE  ArtifactsInv'
      <3>1. StoreStep /\ late' \subseteq late \cup {Finish(o)}
        BY <1>3, <2>4, <2>6, CallSteps
      <3>2. work'[o] = "discard"
        BY <1>2, <2>6
      <3>3. PutObj(o) # Finish(o)
        <4>1. PutObj(o).kind = "put"
          BY DEF PutObj
        <4> QED
          BY <2>2, <4>1
      <3>4. WriteOK(Finish(o))'
        BY <2>2, <2>3, <3>1, <3>2, <3>3 DEF WriteOK, Sealed
      <3>5. WorkStep(o)
        BY <2>1, <3>2 DEF WorkStep
      <3>6. \A w \in late' : w \in late \/ WriteOK(w)'
        BY <3>1, <3>4
      <3> QED
        BY <2>1, <2>6, <3>1, <3>5, <3>6, OwnerStep DEF Stages
    <2> QED
      BY <1>7, <2>5, <2>6 DEF FinishUpdate
  <1>8. CASE FinishSkip(o)
    <2>1. work[o] = "stored" /\ Beside /\ Quiet /\ Owner(o, "discard")
      BY <1>8 DEF FinishSkip
    <2>2. WorkStep(o)
      BY <1>2, <2>1 DEF WorkStep
    <2> QED
      BY <1>5, <2>1, <2>2, OwnerStep DEF Stages
  <1>9. CASE DiscardArtifact(o)
    <2>1. work[o] = "discard" /\ Beside /\ Owner(o, "over")
      BY <1>9 DEF DiscardArtifact
    <2>2. DeleteObj(o).kind = "deleteObj" /\ DeleteObj(o).obj = o
      BY DEF DeleteObj
    <2>3. CallOK(DeleteObj(o))
      BY <2>1, <2>2 DEF CallOK
    <2>4. PICK answer \in {"ok", "unavailable"} : Call(DeleteObj(o), answer)
      BY <1>9 DEF DiscardArtifact
    <2>5. StoreStep /\ late' \subseteq late \cup {DeleteObj(o)}
      BY <1>3, <2>3, <2>4, CallSteps
    <2>6. work'[o] = "over"
      BY <1>2, <2>1
    <2>7. WriteOK(DeleteObj(o))'
      BY <2>2, <2>6 DEF WriteOK, Doomed
    <2>8. WorkStep(o)
      BY <2>1, <2>6 DEF WorkStep
    <2>9. \A w \in late' : w \in late \/ WriteOK(w)'
      BY <2>5, <2>7
    <2> QED
      BY <2>1, <2>5, <2>8, <2>9, OwnerStep DEF Stages
  <1>10. CASE OwnerDies(o)
    <2>1. /\ work[o] \in {"sampling", "stored", "discard"} /\ Beside /\ Quiet
          /\ Owner(o, "over")
      BY <1>10 DEF OwnerDies
    <2>2. WorkStep(o)
      BY <1>2, <2>1 DEF WorkStep
    <2> QED
      BY <1>5, <2>1, <2>2, OwnerStep DEF Stages
  <1> QED
    BY <1>6, <1>7, <1>8, <1>9, <1>10 DEF Work

\* The records' actions: a claim, an ending, the end of the retention, and the
\* delivery to the cache.
LEMMA RecordKeeps ==
  ASSUME ArtifactsInv, NEW i \in Ids, Reclaim(i) \/ EndRecord(i) \/ RetentionEnds(i) \/ Deliver(i)
  PROVE  ArtifactsInv'
  <1>1. /\ StoreTypes /\ RecOK(i) /\ rec \in [Ids -> Recs] /\ rec[i] \in Recs
        /\ work \in [Objects -> Stages] /\ due \in [Ids -> BOOLEAN]
    BY DEF ArtifactsInv, StoreTypes
  <1>2. CASE Reclaim(i)
    <2>1. PICK k : k = rec[i].attempt + 1
      OBVIOUS
    <2>2. /\ rec[i].state = "running" /\ k =< MaxAttempts
          /\ rec' = [rec EXCEPT ![i].attempt = k]
          /\ work' = [work EXCEPT ![<<i, k>>] = "sampling"]
          /\ UNCHANGED <<due, objects, late, cached, swp, rd>>
      BY <1>2, <2>1 DEF Reclaim, Claimed
    <2>3. k \in Nat /\ k > rec[i].attempt /\ k \in Attempts
      BY <1>1, <2>1, <2>2, Constants DEF Recs, Attempts
    <2>4. <<i, k>> \in Objects /\ <<i, k>>[1] = i /\ <<i, k>>[2] = k /\ work[<<i, k>>] = "none"
      BY <1>1, <2>2, <2>3, ObjectIs DEF RecOK
    <2>5. /\ rec' \in [Ids -> Recs] /\ rec'[i].state = "running" /\ rec'[i].art = rec[i].art
          /\ rec'[i].attempt = k
      BY <1>1, <2>2, <2>3 DEF Recs
    <2>6. \A j \in Ids : j # i => rec'[j] = rec[j]
      BY <1>1, <2>2
    <2>7. RecStep(i)
      <3>1. k >= rec[i].attempt
        BY <1>1, <2>3 DEF Recs
      <3> QED
        BY <2>2, <2>5, <3>1 DEF RecStep
    <2>8. \A j \in Ids : RecStep(j)
      BY <2>6, <2>7 DEF RecStep
    <2>9. work' \in [Objects -> Stages] /\ work'[<<i, k>>] = "sampling"
      BY <1>1, <2>2, <2>4 DEF Stages
    <2>10. WorkStep(<<i, k>>)
      <3>1. rec'[i].attempt >= k
        BY <2>3, <2>5
      <3> QED
        BY <2>4, <2>9, <3>1 DEF WorkStep
    <2>11. \A o \in Objects : o # <<i, k>> => work'[o] = work[o]
      BY <1>1, <2>2
    <2>12. \A o \in Objects : WorkStep(o)
      BY <2>10, <2>11 DEF WorkStep
    <2>13. \A o \in Objects : ObjStep(o)
      BY <2>2 DEF ObjStep
    <2>14. Evolves /\ StoreTypes'
      BY <1>1, <2>2, <2>5, <2>8, <2>9, <2>12, <2>13 DEF Evolves, StoreTypes
    <2> QED
      BY <2>2, <2>14, Assemble
  <1>3. CASE EndRecord(i)
    <2>1. /\ rec[i].state = "running" /\ rec' = [rec EXCEPT ![i].state = "ended"]
          /\ UNCHANGED <<due, objects, late, work, cached, swp, rd>>
      BY <1>3 DEF EndRecord
    <2>2. rec' \in [Ids -> Recs] /\ rec'[i].state = "ended" /\ \A j \in Ids : j # i => rec'[j] = rec[j]
      BY <1>1, <2>1 DEF Recs, States
    <2>3. \A j \in Ids : RecStep(j)
      BY <2>1, <2>2 DEF RecStep
    <2>4. StoreStep
      BY <1>1, <2>1, <2>2, <2>3 DEF StoreStep, ObjStep, StoreTypes
    <2> QED
      BY <2>1, <2>4, StoreOnly, Assemble
  <1>4. CASE RetentionEnds(i)
    <2>1. /\ rec[i].state = "completed" /\ due' = [due EXCEPT ![i] = TRUE]
          /\ UNCHANGED <<rec, objects, late, work, cached, swp, rd>>
      BY <1>4 DEF RetentionEnds, Quiet, Still
    <2>2. /\ due' \in [Ids -> BOOLEAN]
          /\ \A j \in Ids : due'[j] = due[j] \/ (due'[j] /\ rec[j].state = "completed")
      BY <1>1, <2>1
    <2>3. Evolves /\ StoreTypes'
      BY <1>1, <2>1, <2>2 DEF Evolves, StoreTypes, RecStep, WorkStep, ObjStep
    <2> QED
      BY <2>1, <2>3, Assemble
  <1>5. CASE Deliver(i)
    <2>1. /\ cached' = [cached EXCEPT ![i] = CachedJob(rec[i])]
          /\ UNCHANGED <<rec, due, objects, late, work, swp, rd>>
      BY <1>5 DEF Deliver, Quiet, Still
    <2>2. Evolves /\ StoreTypes'
      BY <2>1, QuietStep DEF Still
    <2>3. PICK c : c = CachedJob(rec[i])
      OBVIOUS
    <2>4. c \in Copies /\ c.state = rec[i].state /\ c.art = rec[i].art
      BY <1>1, <2>3 DEF CachedJob, Copies, Recs
    <2>5. JobOK(c, i)
      BY <1>1, <2>4 DEF JobOK, RecOK, Finished
    <2>6. PICK new : new = cached'
      OBVIOUS
    <2>7. /\ cached \in [Ids -> Copies] /\ \A j \in Ids : JobOK(cached[j], j)
          /\ new = [cached EXCEPT ![i] = c]
      BY <2>1, <2>3, <2>6 DEF ArtifactsInv
    <2>8. new \in [Ids -> Copies] /\ \A j \in Ids : JobOK(new[j], j)
      BY <2>4, <2>5, <2>7 DEF JobOK
    <2>9. \A j \in Ids : JobOK(new[j], j)'
      BY <2>2, <2>8, JobStays
    <2>10. cached' \in [Ids -> Copies] /\ \A j \in Ids : JobOK(cached[j], j)'
      BY <2>6, <2>8, <2>9 DEF JobOK
    <2> QED
      BY <2>1, <2>2, <2>10, Assemble
  <1> QED
    BY <1>2, <1>3, <1>4, <1>5

\* A write that arrives late.
LEMMA LateKeeps ==
  ASSUME ArtifactsInv, LateArrival
  PROVE  ArtifactsInv'
  <1>1. PICK w \in late :
          /\ late' = late \ {w}
          /\ IF Takes(w) THEN Commit(w) ELSE UNCHANGED <<rec, objects>>
          /\ UNCHANGED <<due, work, cached, swp, rd>>
    BY DEF LateArrival
  <1>2. StoreTypes /\ w \in Writes /\ WriteOK(w)
    BY DEF ArtifactsInv, StoreTypes
  <1>3. CallOK(w)
    BY <1>2 DEF WriteOK, CallOK
  <1>4. StoreStep
    <2>1. CASE Takes(w)
      BY <1>1, <1>2, <1>3, <2>1, Landing
    <2>2. CASE ~Takes(w)
      <3>1. rec' = rec /\ objects' = objects /\ late' \subseteq late
        BY <1>1, <2>2
      <3> QED
        BY <1>2, <3>1 DEF StoreStep, RecStep, ObjStep, StoreTypes
    <2> QED
      BY <2>1, <2>2
  <1> QED
    BY <1>1, <1>4, StoreOnly, Assemble

\* A call of the sweeper or of a reader, decided on what stays true.
LEMMA RemoteCall ==
  ASSUME ArtifactsInv, NEW w \in Writes, WriteOK(w), w.kind \in {"flip", "deleteRec", "deleteObj"},
         NEW answer, Call(w, answer), due' = due, work' = work
  PROVE  Evolves /\ StoreTypes' /\ (\A x \in late' : x \in late \/ WriteOK(x)')
  <1>1. CallOK(w)
    BY DEF WriteOK, CallOK
  <1>2. StoreStep /\ late' \subseteq late \cup {w}
    BY <1>1, CallSteps
  <1>3. Evolves /\ StoreTypes'
    BY <1>2, StoreOnly
  <1>4. WriteOK(w)'
    BY <1>3, WriteStays
  <1> QED
    BY <1>2, <1>3, <1>4

\* The pass goes on with what is true now.
LEMMA PassTo ==
  ASSUME ArtifactsInv, Evolves, StoreTypes', \A w \in late' : w \in late \/ WriteOK(w)',
         Others, NEW p, PassOK(p), swp' = p
  PROVE  ArtifactsInv'
  <1>1. PassOK(p)'
    BY PassStays
  <1>2. PassOK(swp)'
    BY <1>1
  <1> QED
    BY <1>2, Assemble DEF Others

\* And so does the request.
LEMMA ReadTo ==
  ASSUME ArtifactsInv, Evolves, StoreTypes', \A w \in late' : w \in late \/ WriteOK(w)',
         Bystand, NEW q, ReadOK(q), rd' = q
  PROVE  ArtifactsInv'
  <1>1. ReadOK(q)'
    BY ReadStays
  <1>2. ReadOK(rd)'
    BY <1>1
  <1> QED
    BY <1>2, Assemble DEF Bystand

\* The parts of a pass.
LEMMA OrphansOK ==
  ASSUME NEW todo \in SUBSET Objects
  PROVE  PassOK(Orphans(todo))
  <1>1. NoPass \in Passes /\ NoPass.pc = "idle"
    BY DEF NoPass, Passes
  <1>2. PassOK(NoPass)
    BY <1>1 DEF PassOK
  <1>3. PICK p : p = [NoPass EXCEPT !.pc = "orphans", !.todo = todo]
    OBVIOUS
  <1>4. p \in Passes /\ p.pc = "orphans" /\ p.todo = todo
    BY <1>1, <1>3 DEF Passes
  <1>5. PassOK(p)
    BY <1>4 DEF PassOK
  <1> QED
    BY <1>2, <1>3, <1>5 DEF Orphans

\* The records to retire, or the orphans after them.
LEMMA RetiringOK ==
  ASSUME NEW p \in Passes, p.jobs \in [Ids -> Copies], \A i \in Ids : JobOK(p.jobs[i], i),
         NEW todo \in SUBSET Ids, \A i \in todo : p.jobs[i].state \in Retirable
  PROVE  PassOK(Retiring(p, todo))
  <1>1. PassOK(Orphans(p.list \ Named(p.jobs)))
    <2>1. p.list \ Named(p.jobs) \in SUBSET Objects
      BY DEF Passes
    <2> QED
      BY <2>1, OrphansOK
  <1>2. PICK q : q = [p EXCEPT !.pc = "retire", !.todo = todo]
    OBVIOUS
  <1>3. q \in Passes /\ q.pc = "retire" /\ q.todo = todo /\ q.jobs = p.jobs
    BY <1>2 DEF Passes
  <1>4. PassOK(q)
    BY <1>3 DEF PassOK
  <1> QED
    BY <1>1, <1>2, <1>4 DEF Retiring

\* The records to expire, or the ones to retire after them.
LEMMA ExpiringOK ==
  ASSUME NEW p \in Passes, p.jobs \in [Ids -> Copies], \A i \in Ids : JobOK(p.jobs[i], i),
         NEW todo \in SUBSET Ids, \A i \in todo : p.jobs[i].state = "completed"
  PROVE  PassOK(Expiring(p, todo))
  <1>1. PassOK(Retiring(p, {i \in Ids : p.jobs[i].state \in Retirable}))
    BY RetiringOK
  <1>2. PICK q : q = [p EXCEPT !.pc = "expire", !.todo = todo]
    OBVIOUS
  <1>3. q \in Passes /\ q.pc = "expire" /\ q.todo = todo /\ q.jobs = p.jobs
    BY <1>2 DEF Passes
  <1>4. PassOK(q)
    BY <1>3 DEF PassOK
  <1> QED
    BY <1>1, <1>2, <1>4 DEF Expiring

\* The record a copy is of, and what its object's absence means.
LEMMA CopyIs ==
  ASSUME ArtifactsInv, NEW i \in Ids, NEW a \in Attempts, Finished(i, a)
  PROVE  /\ <<i, a>> \in Objects /\ <<i, a>>[1] = i
         /\ rec[i].state = "absent" \/ Sealed(<<i, a>>)
         /\ <<i, a>> \notin objects => Over(i)
  <1>1. <<i, a>> \in Objects /\ <<i, a>>[1] = i
    BY ObjectIs
  <1>2. RecOK(i)
    BY DEF ArtifactsInv
  <1>3. rec[i].state = "absent" \/ Sealed(<<i, a>>)
    BY <1>2 DEF Finished, RecOK, ObjectOf
  <1>4. <<i, a>> \notin objects => Over(i)
    BY <1>3 DEF Finished, Over, Gone, ObjectOf
  <1> QED
    BY <1>1, <1>3, <1>4

\* The sweeper's actions.
LEMMA SweepKeeps ==
  ASSUME ArtifactsInv, Sweep
  PROVE  ArtifactsInv'
  <1>1. PassOK(swp) /\ swp \in Passes /\ StoreTypes
    BY DEF ArtifactsInv, PassOK
  <1>2. ASSUME swp.pc \in {"expire", "flip", "retire"}, swp.todo # {}
        PROVE  /\ Visit \in Ids /\ Visit \in swp.todo /\ Rest \in SUBSET Ids /\ Rest \subseteq swp.todo
               /\ swp.jobs \in [Ids -> Copies] /\ \A i \in Ids : JobOK(swp.jobs[i], i)
    <2>1. swp.todo \subseteq Ids /\ swp.jobs \in [Ids -> Copies] /\ \A i \in Ids : JobOK(swp.jobs[i], i)
      BY <1>1, <1>2 DEF PassOK
    <2>2. Min(swp.todo) \in swp.todo
      BY <1>2, <2>1, MinIs, Constants
    <2> QED
      BY <2>1, <2>2 DEF Visit, Rest
  <1>3. ASSUME swp.pc \in {"expire", "flip"}, swp.todo # {}
        PROVE  PassOK(Expiring(swp, Rest)) /\ swp.jobs[Visit].state = "completed"
    <2>1. \A i \in swp.todo : swp.jobs[i].state = "completed"
      BY <1>1, <1>3 DEF PassOK
    <2> QED
      BY <1>1, <1>2, <1>3, <2>1, ExpiringOK
  <1>4. ASSUME swp.pc = "expire", swp.todo # {}, NEW p, p = [swp EXCEPT !.pc = "flip"]
        PROVE  /\ p \in Passes /\ p.pc = "flip" /\ p.jobs = swp.jobs /\ p.todo = swp.todo
               /\ Over(Visit) => PassOK(p)
    <2>1. p \in Passes /\ p.pc = "flip" /\ p.jobs = swp.jobs /\ p.todo = swp.todo
      BY <1>1, <1>4 DEF Passes
    <2> QED
      BY <1>1, <1>4, <2>1 DEF PassOK, Visit
  <1>5. ASSUME Still, Others
        PROVE  /\ Evolves /\ StoreTypes' /\ \A w \in late' : w \in late \/ WriteOK(w)'
    BY <1>5, QuietStep DEF Still, Others
  <1>6. CASE BeginPass
    <2>1. PICK listed \in BOOLEAN :
            swp' = Expiring([NoPass EXCEPT !.jobs = cached, !.listed = listed,
                                           !.list = IF listed THEN objects ELSE {}],
                            Completed(cached))
      BY <1>6 DEF BeginPass
    <2>2. PICK l : l = IF listed THEN objects ELSE {}
      OBVIOUS
    <2>3. l \in SUBSET Objects
      BY <1>1, <2>2 DEF StoreTypes
    <2>4. PICK p : p = [NoPass EXCEPT !.jobs = cached, !.listed = listed, !.list = l]
      OBVIOUS
    <2>5. cached \in [Ids -> Copies] /\ \A i \in Ids : JobOK(cached[i], i)
      BY DEF ArtifactsInv
    <2>6. p \in Passes /\ p.jobs = cached
      <3>1. NoPass \in Passes
        BY DEF NoPass, Passes
      <3> QED
        BY <2>3, <2>4, <2>5, <3>1 DEF Passes
    <2>7. Completed(cached) \in SUBSET Ids /\ \A i \in Completed(cached) : p.jobs[i].state = "completed"
      BY <2>6 DEF Completed
    <2>8. PassOK(Expiring(p, Completed(cached)))
      BY <2>5, <2>6, <2>7, ExpiringOK
    <2>9. swp' = Expiring(p, Completed(cached))
      BY <2>1, <2>2, <2>4
    <2>10. PICK q : q = Expiring(p, Completed(cached))
      OBVIOUS
    <2>11. Still /\ Others
      BY <1>6 DEF BeginPass
    <2> QED
      BY <1>5, <2>8, <2>9, <2>10, <2>11, PassTo
  <1>7. CASE ExpireDue
    <2>1. PICK i : i = Visit
      OBVIOUS
    <2>2. PICK a : a = swp.jobs[i].art
      OBVIOUS
    <2>3. PICK answer \in {"ok", "unavailable"} :
            /\ swp.pc = "expire" /\ swp.todo # {} /\ due[i]
            /\ Call(DeleteObj(<<i, a>>), answer)
            /\ swp' = IF MayFlip(answer) THEN [swp EXCEPT !.pc = "flip"] ELSE Expiring(swp, Rest)
            /\ Others
      BY <1>7, <2>1, <2>2 DEF ExpireDue, ObjectOf
    <2>4. i \in Ids /\ a \in Attempts /\ Finished(i, a)
      BY <1>2, <1>3, <2>1, <2>2, <2>3 DEF JobOK
    <2>5. <<i, a>> \in Objects /\ <<i, a>>[1] = i
      BY <2>4, CopyIs
    <2>6. PICK w : w = DeleteObj(<<i, a>>)
      OBVIOUS
    <2>7. w \in Writes /\ w.kind = "deleteObj" /\ w.obj = <<i, a>>
      BY <2>5, <2>6, WriteIs DEF DeleteObj
    <2>8. WriteOK(w)
      BY <2>3, <2>5, <2>7 DEF WriteOK, Doomed
    <2>9. Evolves /\ StoreTypes' /\ \A x \in late' : x \in late \/ WriteOK(x)'
      BY <2>3, <2>6, <2>7, <2>8, RemoteCall DEF Others
    <2>10. CASE answer = "ok"
      <3>1. Commit(w) /\ late' = late
        BY <2>3, <2>6, <2>10 DEF Call
      <3>2. rec' = rec /\ <<i, a>> \notin objects'
        BY <2>7, <3>1 DEF Commit, Written
      <3>3. PICK p : p = [swp EXCEPT !.pc = "flip"]
        OBVIOUS
      <3>4. swp' = p
        BY <2>3, <2>10, <3>3 DEF MayFlip
      <3>5. Over(i)'
        <4>1. Finished(i, a)'
          BY <2>4, <2>9, FinishedStays
        <4>2. CASE rec[i].state = "absent"
          BY <3>2, <4>2 DEF Over
        <4>3. CASE Sealed(<<i, a>>)
          <5>1. Sealed(<<i, a>>)'
            BY <2>5, <2>9, <4>3, SealedStays
          <5> QED
            BY <3>2, <4>1, <5>1 DEF Over, Finished, Gone, ObjectOf, Sealed
        <4> QED
          BY <2>4, <4>2, <4>3, CopyIs
      <3>6. PassOK(swp)'
        <4>1. p \in Passes /\ p.pc = "flip" /\ p.jobs = swp.jobs /\ p.todo = swp.todo
          BY <1>4, <2>3, <3>3
        <4>2. PICK s : s = swp
          OBVIOUS
        <4>3. PassOK(s)'
          BY <1>1, <2>9, <4>2, PassStays
        <4>4. i = Min(p.todo)
          BY <2>1, <4>1 DEF Visit
        <4>5. PassOK(p)'
          BY <2>3, <3>5, <4>1, <4>2, <4>3, <4>4 DEF PassOK
        <4> QED
          BY <3>4, <4>5
      <3> QED
        BY <2>3, <2>9, <3>6, Assemble DEF Others
    <2>11. CASE answer = "unavailable"
      <3>1. PICK q : q = Expiring(swp, Rest)
        OBVIOUS
      <3> QED
        BY <1>3, <2>3, <2>9, <2>11, <3>1, PassTo DEF MayFlip
    <2> QED
      BY <2>3, <2>10, <2>11
  <1>8. CASE ExpireGone
    <2>1. PICK i : i = Visit
      OBVIOUS
    <2>2. PICK a : a = swp.jobs[i].art
      OBVIOUS
    <2>3. /\ swp.pc = "expire" /\ swp.todo # {} /\ Still /\ Others
          /\ \/ <<i, a>> \notin objects /\ swp' = [swp EXCEPT !.pc = "flip"]
             \/ swp' = Expiring(swp, Rest)
      BY <1>8, <2>1, <2>2 DEF ExpireGone, ObjectOf
    <2>4. i \in Ids /\ a \in Attempts /\ Finished(i, a)
      BY <1>2, <1>3, <2>1, <2>2, <2>3 DEF JobOK
    <2>5. PICK p : p = [swp EXCEPT !.pc = "flip"]
      OBVIOUS
    <2>6. PICK q : q = Expiring(swp, Rest)
      OBVIOUS
    <2>7. <<i, a>> \notin objects => PassOK(p)
      BY <1>4, <2>1, <2>3, <2>4, <2>5, CopyIs
    <2>8. PassOK(q)
      BY <1>3, <2>3, <2>6
    <2> QED
      BY <1>5, <2>3, <2>5, <2>6, <2>7, <2>8, PassTo
  <1>9. CASE FlipExpired
    <2>1. PICK i : i = Visit
      OBVIOUS
    <2>2. PICK answer : Call(Flip(i), answer)
      BY <1>9, <2>1 DEF FlipExpired
    <2>3. swp.pc = "flip" /\ swp' = Expiring(swp, Rest) /\ Others
      BY <1>9 DEF FlipExpired
    <2>4. swp.todo # {} /\ Over(i)
      BY <1>1, <2>1, <2>3 DEF PassOK, Visit
    <2>5. i \in Ids
      BY <1>2, <2>1, <2>3, <2>4
    <2>6. PICK w : w = Flip(i)
      OBVIOUS
    <2>7. w \in Writes /\ w.kind = "flip" /\ w.obj[1] = i
      BY <2>5, <2>6, WriteIs DEF Flip
    <2>8. WriteOK(w)
      BY <2>4, <2>7 DEF WriteOK
    <2>9. Evolves /\ StoreTypes' /\ \A x \in late' : x \in late \/ WriteOK(x)'
      BY <2>2, <2>3, <2>6, <2>7, <2>8, RemoteCall DEF Others
    <2>10. PICK q : q = Expiring(swp, Rest)
      OBVIOUS
    <2> QED
      BY <1>3, <2>3, <2>4, <2>9, <2>10, PassTo
  <1>10. CASE Retire
    <2>1. PICK i : i = Visit
      OBVIOUS
    <2>2. PICK s : s = swp.jobs[i].state
      OBVIOUS
    <2>3. swp.pc = "retire" /\ swp.todo # {} /\ swp' = Retiring(swp, Rest) /\ Others
      BY <1>10 DEF Retire
    <2>4. \A j \in swp.todo : swp.jobs[j].state \in Retirable
      BY <1>1, <2>3 DEF PassOK
    <2>5. i \in Ids /\ s \in Retirable
      BY <1>2, <2>1, <2>2, <2>3, <2>4
    <2>6. PICK q : q = Retiring(swp, Rest)
      OBVIOUS
    <2>7. PassOK(q)
      BY <1>1, <1>2, <2>3, <2>4, <2>6, RetiringOK
    <2>8. PICK w : w = DeleteRec(i, s)
      OBVIOUS
    <2>9. w \in Writes /\ w.kind = "deleteRec"
      BY <2>5, <2>8, WriteIs DEF DeleteRec
    <2>10. WriteOK(w)
      BY <2>9 DEF WriteOK
    <2>11. CASE Still
      BY <1>5, <2>3, <2>6, <2>7, <2>11, PassTo
    <2>12. ASSUME NEW answer, Call(w, answer) PROVE ArtifactsInv'
      <3>1. Evolves /\ StoreTypes' /\ \A x \in late' : x \in late \/ WriteOK(x)'
        BY <2>3, <2>9, <2>10, <2>12, RemoteCall DEF Others
      <3> QED
        BY <2>3, <2>6, <2>7, <3>1, PassTo
    <2> QED
      BY <1>10, <2>1, <2>2, <2>8, <2>11, <2>12 DEF Retire, Quiet
  <1>11. CASE OrphanDelete
    <2>1. PICK o \in swp.list, answer \in {"ok", "unavailable"} : Call(DeleteObj(o), answer)
      BY <1>11 DEF OrphanDelete
    <2>2. swp.pc = "delete" /\ swp' = Orphans(swp.todo \ swp.list) /\ Others
      BY <1>11 DEF OrphanDelete
    <2>3. o \in Objects /\ GivenUp(o) /\ swp.todo \subseteq Objects
      BY <1>1, <2>2 DEF PassOK, Passes
    <2>4. PICK w : w = DeleteObj(o)
      OBVIOUS
    <2>5. w \in Writes /\ w.kind = "deleteObj" /\ w.obj = o
      BY <2>3, <2>4, WriteIs DEF DeleteObj
    <2>6. WriteOK(w)
      BY <2>3, <2>5 DEF WriteOK, Doomed
    <2>7. Evolves /\ StoreTypes' /\ \A x \in late' : x \in late \/ WriteOK(x)'
      BY <2>1, <2>2, <2>4, <2>5, <2>6, RemoteCall DEF Others
    <2>8. PICK q : q = Orphans(swp.todo \ swp.list)
      OBVIOUS
    <2>9. PassOK(q)
      BY <2>3, <2>8, OrphansOK
    <2> QED
      BY <2>2, <2>7, <2>8, <2>9, PassTo
  <1>12. ASSUME NEW o \in Objects, OrphanRead(o) PROVE ArtifactsInv'
    <2>1. swp.pc = "orphans" /\ Still /\ Others
      BY <1>12 DEF OrphanRead, Quiet
    <2>2. swp.todo \subseteq Objects
      BY <1>1, <2>1 DEF PassOK
    <2>3. PICK p : p = [swp EXCEPT !.pc = "delete", !.list = {o}]
      OBVIOUS
    <2>4. p \in Passes /\ p.pc = "delete" /\ p.list = {o} /\ p.todo = swp.todo
      BY <1>1, <2>3 DEF Passes
    <2>5. GivenUp(o) => PassOK(p)
      BY <2>2, <2>4 DEF PassOK
    <2>6. PICK q : q = Orphans(swp.todo \ {o})
      OBVIOUS
    <2>7. PassOK(q)
      BY <2>2, <2>6, OrphansOK
    <2>8. (swp' = p /\ PassOK(p)) \/ swp' = q
      BY <1>12, <2>3, <2>5, <2>6 DEF OrphanRead
    <2> QED
      BY <1>5, <2>1, <2>7, <2>8, PassTo
  <1> QED
    BY <1>6, <1>7, <1>8, <1>9, <1>10, <1>11, <1>12 DEF Sweep

\* A request that was answered remembers nothing.
LEMMA AnsweredOK ==
  ASSUME NEW a \in {"failed", "served"}
  PROVE  ReadOK([NoRead EXCEPT !.pc = a])
  <1>1. NoRead \in Reads /\ NoRead.got = <<>> /\ NoRead.next = 0
    BY DEF NoRead, Reads
  <1>2. PICK q : q = [NoRead EXCEPT !.pc = a]
    OBVIOUS
  <1>3. q \in Reads /\ q.pc = a /\ q.got = <<>> /\ q.next = 0
    BY <1>1, <1>2 DEF Reads
  <1>4. ReadOK(q)
    BY <1>3 DEF ReadOK
  <1> QED
    BY <1>2, <1>4

\* A record that the page left out is older than every one of it.
LEMMA PageIsNewest ==
  ASSUME NEW rs, NEW i \in Completed(rs) \ Page(rs), NEW j \in Page(rs)
  PROVE  i < j
  <1> DEFINE held == {k \in Ids : rs[k].state # "absent"}
             After(k) == {m \in held : m > k}
  <1>1. i \in held /\ j \in held /\ i \in Nat /\ j \in Nat /\ i # j
    BY Constants DEF Page, Completed
  <1>2. IsFiniteSet(Ids)
    BY FS_Interval, ArtifactsAssumption DEF Ids
  <1>3. \A k \in held : IsFiniteSet(After(k)) /\ Cardinality(After(k)) \in Nat
    BY <1>2, FS_Subset, FS_CardinalityType
  <1>4. ~(Cardinality(After(i)) < MaxListCollections) /\ Cardinality(After(j)) < MaxListCollections
    BY <1>1 DEF Page
  <1>5. MaxListCollections \in Nat
    BY ArtifactsAssumption
  <1>6. CASE j < i
    <2>1. After(i) \subseteq After(j)
      <3> SUFFICES ASSUME NEW m \in held, m > i PROVE m > j
        OBVIOUS
      <3>1. m \in Nat
        BY Constants
      <3> QED
        BY <1>1, <1>6, <3>1
    <2>2. Cardinality(After(i)) =< Cardinality(After(j))
      BY <1>1, <1>3, <2>1, FS_Subset
    <2> HIDE DEF After
    <2> QED
      BY <1>1, <1>3, <1>4, <1>5, <2>2
  <1> QED
    BY <1>1, <1>6

\* The request's actions.
LEMMA RequestKeeps ==
  ASSUME ArtifactsInv, Request
  PROVE  ArtifactsInv'
  <1>1. /\ ReadOK(rd) /\ rd \in Reads /\ rec \in [Ids -> Recs] /\ \A i \in Ids : RecOK(i)
    BY DEF ArtifactsInv, ReadOK, StoreTypes
  <1>2. ASSUME Quiet, Bystand, NEW q, ReadOK(q), rd' = q PROVE ArtifactsInv'
    <2>1. Evolves /\ StoreTypes' /\ late' = late
      BY <1>2, QuietStep DEF Quiet, Still, Bystand
    <2> QED
      BY <1>2, <2>1, ReadTo
  <1>3. ASSUME Quiet, Bystand, NEW a \in {"failed", "served"}, Answer(a) PROVE ArtifactsInv'
    <2>1. PICK q : q = [NoRead EXCEPT !.pc = a]
      OBVIOUS
    <2> QED
      BY <1>2, <1>3, <2>1, AnsweredOK DEF Answer, Read
  <1>4. ASSUME rd.pc = "idle"
        PROVE  rd = NoRead /\ rd.cand = {} /\ rd.page = {} /\ rd.left = {} /\ rd.got = <<>> /\ rd.next = 0
    BY <1>1, <1>4 DEF ReadOK, NoRead
  <1>5. ASSUME NEW i \in Ids, Download(i) PROVE ArtifactsInv'
    <2>1. /\ rd.pc = "idle" /\ rec[i].state = "completed" /\ Quiet /\ Bystand
          /\ rd' = [rd EXCEPT !.pc = "open", !.id = i, !.art = rec[i].art]
      BY <1>5 DEF Download, Read
    <2>2. rec[i].art \in Attempts /\ rec[i].art \in Nat /\ i \in Nat
      BY <1>1, <2>1, Constants DEF RecOK
    <2>3. PICK q : q = rd'
      OBVIOUS
    <2>4. /\ q \in Reads /\ q.pc = "open" /\ q.id = i /\ q.art = rec[i].art
          /\ q.cand = {} /\ q.page = {} /\ q.left = {} /\ q.got = <<>> /\ q.next = 0
      BY <1>1, <1>4, <2>1, <2>2, <2>3 DEF Reads
    <2>5. ReadOK(q)
      BY <2>1, <2>2, <2>4 DEF ReadOK, Finished
    <2> QED
      BY <1>2, <2>1, <2>3, <2>5
  <1>6. CASE Latest
    <2>1. PICK c : c = Completed(cached)
      OBVIOUS
    <2>2. PICK p : p = Page(cached) \cap Completed(cached)
      OBVIOUS
    <2>3. /\ rd.pc = "idle" /\ Quiet /\ Bystand
          /\ rd' = [rd EXCEPT !.pc = "walk", !.latest = TRUE, !.cand = c, !.page = p, !.left = p]
      BY <1>6, <2>1, <2>2 DEF Latest, Read
    <2>4. /\ c \subseteq Ids /\ p \subseteq c
          /\ \A i \in c : rec[i].state \notin {"running", "ended"}
      BY <2>1, <2>2 DEF Completed, ArtifactsInv, JobOK, Finished
    <2>5. \A i \in c \ p, j \in p : i < j
      BY <2>1, <2>2, PageIsNewest
    <2>6. PICK q : q = rd'
      OBVIOUS
    <2>7. /\ q \in Reads /\ q.pc = "walk" /\ q.cand = c /\ q.page = p /\ q.left = p
          /\ q.got = <<>> /\ q.next = 0
      BY <1>1, <1>4, <2>3, <2>4, <2>6 DEF Reads
    <2>8. ReadOK(q)
      BY <2>4, <2>5, <2>7 DEF ReadOK
    <2> QED
      BY <1>2, <2>3, <2>6, <2>8
  <1>7. CASE WalkRead
    <2>1. rd.pc = "walk" /\ rd.left # {} /\ Quiet /\ Bystand /\ rd.left \subseteq Ids /\ rd.cand \subseteq Ids
      BY <1>1, <1>7 DEF WalkRead, Reads
    <2>2. PICK i : i = Max(rd.left)
      OBVIOUS
    <2>3. i \in rd.left /\ i \in Ids /\ i \in Nat /\ \A j \in rd.left : i >= j
      BY <2>1, <2>2, MaxIs, Constants
    <2>4. /\ rd.got = <<>> /\ rd.next = 0 /\ \A j \in rd.page \ rd.left : Over(j)
          /\ \A j \in rd.cand : rec[j].state \notin {"running", "ended"}
          /\ rd.left \subseteq rd.page /\ rd.page \subseteq rd.cand
          /\ \A j \in rd.cand \ rd.page, k \in rd.page : j < k
      BY <1>1, <2>1 DEF ReadOK
    <2>5. CASE /\ rec[i].state = "completed"
               /\ rd' = [rd EXCEPT !.pc = "open", !.id = i, !.art = rec[i].art, !.left = @ \ {i}]
      <3>1. rec[i].art \in Attempts /\ rec[i].art \in Nat
        BY <1>1, <2>3, <2>5, Constants DEF RecOK
      <3>2. PICK q : q = rd'
        OBVIOUS
      <3>3. /\ q \in Reads /\ q.pc = "open" /\ q.id = i /\ q.art = rec[i].art
            /\ q.cand = rd.cand /\ q.page = rd.page /\ q.left = rd.left \ {i}
            /\ q.got = <<>> /\ q.next = 0
        BY <1>1, <2>1, <2>3, <2>4, <2>5, <3>1, <3>2 DEF Reads
      <3>4. \A j \in q.left : j < i
        <4> SUFFICES ASSUME NEW j \in q.left PROVE j < i
          OBVIOUS
        <4>1. j \in Nat /\ i >= j /\ j # i
          BY <2>1, <2>3, <3>3, Constants
        <4> QED
          BY <2>3, <4>1
      <3>5. ReadOK(q)
        BY <2>1, <2>3, <2>4, <2>5, <3>1, <3>3, <3>4 DEF ReadOK, Finished
      <3> QED
        BY <1>2, <2>1, <3>2, <3>5
    <2>6. CASE rec[i].state # "completed" /\ rd' = [rd EXCEPT !.left = @ \ {i}]
      <3>1. Over(i)
        <4>1. rec[i].state \in {"absent", "expired"}
          BY <1>1, <2>3, <2>4, <2>6 DEF Recs, States
        <4> QED
          BY <1>1, <2>3, <4>1 DEF Over, RecOK, Gone
      <3>2. PICK q : q = rd'
        OBVIOUS
      <3>3. /\ q \in Reads /\ q.pc = "walk" /\ q.cand = rd.cand /\ q.page = rd.page
            /\ q.left = rd.left \ {i} /\ q.got = <<>> /\ q.next = 0
        BY <1>1, <2>1, <2>4, <2>6, <3>2 DEF Reads
      <3>4. ReadOK(q)
        BY <2>4, <3>1, <3>3 DEF ReadOK
      <3> QED
        BY <1>2, <2>1, <3>2, <3>4
    <2>7. CASE Answer("failed")
      BY <1>3, <2>1, <2>7
    <2> QED
      BY <1>7, <2>2, <2>5, <2>6, <2>7 DEF WalkRead, Read, Unread
  <1>8. CASE WalkOver
    <2>1. /\ rd.pc = "walk" /\ rd.left = {} /\ Quiet /\ Bystand
          /\ rd' = [NoRead EXCEPT !.pc = "none", !.cand = rd.cand, !.page = rd.page]
      BY <1>8 DEF WalkOver, Read
    <2>2. \A j \in rd.page : Over(j)
      BY <1>1, <2>1 DEF ReadOK
    <2>3. PICK q : q = rd'
      OBVIOUS
    <2>4. NoRead \in Reads /\ NoRead.got = <<>> /\ NoRead.next = 0
      BY DEF NoRead, Reads
    <2>5. q \in Reads /\ q.pc = "none" /\ q.page = rd.page /\ q.got = <<>> /\ q.next = 0
      BY <1>1, <2>1, <2>3, <2>4 DEF Reads
    <2>6. ReadOK(q)
      BY <2>2, <2>5 DEF ReadOK
    <2> QED
      BY <1>2, <2>1, <2>3, <2>6

  <1>9. CASE Open
    <2>1. /\ rd.pc = "open" /\ Quiet /\ Bystand /\ rd.id \in Ids /\ rd.art \in Attempts
          /\ Finished(rd.id, rd.art) /\ rd.got = <<>> /\ rd.next = 0
          /\ \A j \in rd.cand : rec[j].state \notin {"running", "ended"}
          /\ rd.left \subseteq rd.page /\ rd.page \subseteq rd.cand
          /\ \A j \in rd.cand \ rd.page, k \in rd.page : j < k
          /\ \A j \in rd.page \ rd.left : j = rd.id \/ Over(j)
          /\ \A j \in rd.left : j < rd.id
          /\ \A j \in rd.cand \ rd.page : j < rd.id
      BY <1>1, <1>9 DEF Open, ReadOK
    <2>2. rd.cand \subseteq Ids /\ rd.left \subseteq Ids /\ rd.id \in Nat /\ Ids \subseteq Nat
      BY <1>1, Constants DEF Reads
    <2>3. CASE rd' = [rd EXCEPT !.pc = "stream", !.page = {}, !.left = {}, !.next = 1, !.cand = {i \in @ : i > rd.id}]
      <3>1. PICK c : c = {i \in rd.cand : i > rd.id}
        OBVIOUS
      <3>2. PICK q : q = rd'
        OBVIOUS
      <3>3. q = [rd EXCEPT !.pc = "stream", !.page = {}, !.left = {}, !.next = 1, !.cand = c]
        BY <2>3, <3>1, <3>2
      <3>4. c \in SUBSET Ids
        BY <2>2, <3>1
      <3>5. /\ q \in Reads /\ q.pc = "stream" /\ q.id = rd.id /\ q.cand = c
            /\ q.got = <<>> /\ q.next = 1
        BY <1>1, <2>1, <3>3, <3>4 DEF Reads
      <3>6. \A j \in c : Over(j)
        <4> SUFFICES ASSUME NEW j \in c PROVE Over(j)
          OBVIOUS
        <4>1. j \in rd.cand /\ j > rd.id /\ j \in Nat
          BY <2>2, <3>1
        <4>2. ~(j < rd.id) /\ j # rd.id
          BY <2>2, <4>1
        <4> QED
          BY <2>1, <4>1, <4>2
      <3>7. Len(q.got) = 0 /\ 0 < Chunks
        BY <3>5, Constants
      <3>8. ReadOK(q)
        BY <2>1, <3>5, <3>6, <3>7 DEF ReadOK
      <3> QED
        BY <1>2, <2>1, <3>2, <3>8
    <2>4. CASE <<rd.id, rd.art>> \notin objects /\ Go("flip")
      <3>1. PICK q : q = [rd EXCEPT !.pc = "flip"]
        OBVIOUS
      <3>2. /\ q \in Reads /\ q.pc = "flip" /\ q.id = rd.id /\ q.art = rd.art /\ q.cand = rd.cand
            /\ q.page = rd.page /\ q.left = rd.left /\ q.got = <<>> /\ q.next = 0
        BY <1>1, <2>1, <3>1 DEF Reads
      <3>3. Over(rd.id)
        BY <2>1, <2>4, CopyIs
      <3>4. ReadOK(q)
        BY <2>1, <3>2, <3>3 DEF ReadOK
      <3> QED
        BY <1>2, <2>1, <2>4, <3>1, <3>4 DEF Go, Read
    <2>5. CASE Answer("failed")
      BY <1>3, <2>1, <2>5
    <2> QED
      BY <1>9, <2>3, <2>4, <2>5 DEF Open, Read
  <1>10. CASE ExpireGoneArtifact
    <2>1. /\ rd.pc = "flip" /\ Bystand /\ rd.id \in Ids /\ Over(rd.id) /\ rd.got = <<>> /\ rd.next = 0
          /\ \A j \in rd.cand : rec[j].state \notin {"running", "ended"}
          /\ rd.left \subseteq rd.page /\ rd.page \subseteq rd.cand
          /\ \A j \in rd.cand \ rd.page, k \in rd.page : j < k
          /\ \A j \in rd.page \ rd.left : Over(j)
      BY <1>1, <1>10 DEF ExpireGoneArtifact, ReadOK
    <2>2. PICK answer : Call(Flip(rd.id), answer)
      BY <1>10 DEF ExpireGoneArtifact
    <2>3. PICK w : w = Flip(rd.id)
      OBVIOUS
    <2>4. w \in Writes /\ w.kind = "flip" /\ w.obj[1] = rd.id
      BY <2>1, <2>3, WriteIs DEF Flip
    <2>5. WriteOK(w)
      BY <2>1, <2>4 DEF WriteOK
    <2>6. Evolves /\ StoreTypes' /\ \A x \in late' : x \in late \/ WriteOK(x)'
      BY <2>1, <2>2, <2>3, <2>4, <2>5, RemoteCall DEF Bystand
    <2>7. CASE Go("walk")
      <3>1. PICK q : q = [rd EXCEPT !.pc = "walk"]
        OBVIOUS
      <3>2. /\ q \in Reads /\ q.pc = "walk" /\ q.cand = rd.cand /\ q.page = rd.page
            /\ q.left = rd.left /\ q.got = <<>> /\ q.next = 0
        BY <1>1, <2>1, <3>1 DEF Reads
      <3>3. ReadOK(q)
        BY <2>1, <3>2 DEF ReadOK
      <3> QED
        BY <2>1, <2>6, <2>7, <3>1, <3>3, ReadTo DEF Go, Read
    <2>8. CASE Answer("failed")
      <3>1. PICK q : q = [NoRead EXCEPT !.pc = "failed"]
        OBVIOUS
      <3> QED
        BY <2>1, <2>6, <2>8, <3>1, AnsweredOK, ReadTo DEF Answer, Read
    <2> QED
      BY <1>10, <2>7, <2>8 DEF ExpireGoneArtifact
  <1>11. ASSUME rd.pc = "stream"
         PROVE  /\ rd.id \in Ids /\ (\A i \in rd.cand : Over(i))
                /\ rd.got \in Seq(Nat) /\ Len(rd.got) \in Nat /\ Len(rd.got) < Chunks /\ Chunks \in Nat
                /\ \A n \in 1 .. Len(rd.got) : rd.got[n] = n
                /\ rd.next \in {0, Len(rd.got) + 1} /\ rd.next \in Nat
    BY <1>1, <1>11, Constants DEF ReadOK, Reads
  <1>12. CASE PullChunk
    <2>1. PICK g : g = Append(rd.got, rd.next)
      OBVIOUS
    <2>2. /\ rd.pc = "stream" /\ rd.next # 0 /\ Quiet /\ Bystand
          /\ IF rd.next < Chunks THEN rd' = [rd EXCEPT !.got = g, !.next = @ + 1]
             ELSE Answer(IF g = Whole THEN "served" ELSE "mismatch")
      BY <1>12, <2>1 DEF PullChunk, Read
    <2>3. /\ rd.next = Len(rd.got) + 1 /\ g \in Seq(Nat) /\ Len(g) = rd.next
          /\ \A n \in 1 .. rd.next : g[n] = n
      BY <1>11, <2>1, <2>2
    <2>4. CASE rd.next < Chunks
      <3>1. PICK q : q = rd'
        OBVIOUS
      <3>2. /\ q \in Reads /\ q.pc = "stream" /\ q.id = rd.id /\ q.cand = rd.cand
            /\ q.got = g /\ q.next = rd.next + 1
        <4>1. PICK m \in Nat : m = rd.next + 1
          BY <1>11, <2>2
        <4>2. q = [rd EXCEPT !.got = g, !.next = m]
          BY <2>2, <2>4, <3>1, <4>1
        <4> QED
          BY <1>1, <2>2, <2>3, <4>1, <4>2 DEF Reads
      <3>3. Len(q.got) < Chunks /\ q.next = Len(q.got) + 1 /\ \A n \in 1 .. Len(q.got) : q.got[n] = n
        BY <2>3, <2>4, <3>2
      <3>4. ReadOK(q)
        BY <1>11, <2>2, <3>2, <3>3 DEF ReadOK
      <3> QED
        BY <1>2, <2>2, <3>1, <3>4
    <2>5. CASE ~(rd.next < Chunks)
      <3>1. Len(g) = Chunks
        BY <1>11, <2>2, <2>3, <2>5
      <3>2. g = Whole
        BY <2>3, <3>1 DEF Whole
      <3> QED
        BY <1>3, <2>2, <2>5, <3>2
    <2> QED
      BY <2>4, <2>5
  <1>13. CASE ConsumerRemoved \/ RecreateConsumer
    <2>1. rd.pc = "stream" /\ Quiet /\ Bystand
      BY <1>13 DEF ConsumerRemoved, RecreateConsumer
    <2>2. PICK m \in {0, Len(rd.got) + 1} : rd' = [rd EXCEPT !.next = m]
      BY <1>13 DEF ConsumerRemoved, RecreateConsumer, Read, Resume
    <2>3. m \in Nat
      BY <1>11, <2>1, <2>2
    <2>4. PICK q : q = rd'
      OBVIOUS
    <2>5. /\ q \in Reads /\ q.pc = "stream" /\ q.id = rd.id /\ q.cand = rd.cand
          /\ q.got = rd.got /\ q.next = m
      BY <1>1, <2>1, <2>2, <2>3, <2>4 DEF Reads
    <2>6. ReadOK(q)
      BY <1>11, <2>1, <2>2, <2>5 DEF ReadOK
    <2> QED
      BY <1>2, <2>1, <2>4, <2>6
  <1>14. CASE Cut
    BY <1>3, <1>14 DEF Cut
  <1> QED
    BY <1>5, <1>6, <1>7, <1>8, <1>9, <1>10, <1>12, <1>13, <1>14 DEF Request

-----------------------------------------------------------------------------
(* The theorems.                                                           *)

\* The invariant holds at the start.
LEMMA ArtifactsStart ==
  ASSUME ArtifactsInit
  PROVE  ArtifactsInv
  <1> DEFINE old == [state |-> "completed", attempt |-> 1, art |-> 1]
             new == [state |-> "running", attempt |-> 1, art |-> 0]
  <1>1. old \in Recs /\ new \in Recs
    BY DEF Recs, States
  <1>2. /\ rec = [i \in Ids |-> IF i \in Done THEN old ELSE new]
        /\ due = [i \in Ids |-> FALSE] /\ objects = Done \X {1} /\ late = {}
        /\ work = [o \in Objects |-> IF o[2] # 1 THEN "none"
                                     ELSE IF o[1] \in Done THEN "committed" ELSE "sampling"]
        /\ cached = [i \in Ids |-> CachedJob(rec[i])] /\ swp = NoPass /\ rd = NoRead
    BY DEF ArtifactsInit
  <1>3. \A i \in Ids : rec[i] = (IF i \in Done THEN old ELSE new)
    BY <1>2
  <1>4. old.state = "completed" /\ old.art = 1 /\ new.state = "running" /\ new.attempt = 1
    OBVIOUS
  <1> HIDE DEF old, new
  <1>5. rec \in [Ids -> Recs]
    BY <1>1, <1>2
  <1>6. StoreTypes
    <2>1. objects \subseteq Objects
      BY <1>2, Constants DEF Objects
    <2> QED
      BY <1>2, <1>5, <2>1 DEF StoreTypes, Stages
  <1>7. ASSUME NEW i \in Ids PROVE RecOK(i)
    <2>1. ~due[i]
      BY <1>2
    <2>2. CASE i \in Done
      <3>1. rec[i].state = "completed" /\ rec[i].art = 1
        BY <1>3, <1>4, <2>2
      <3>2. <<i, 1>> \in Objects /\ <<i, 1>>[1] = i /\ <<i, 1>>[2] = 1 /\ 1 \in Attempts
        BY ObjectIs, Constants
      <3>3. work[<<i, 1>>] = "committed" /\ <<i, 1>> \in objects
        BY <1>2, <2>2, <3>2
      <3> QED
        BY <1>2, <2>1, <3>1, <3>2, <3>3 DEF RecOK, ObjectOf, Sealed
    <2>3. CASE i \notin Done
      <3>1. rec[i].state = "running" /\ rec[i].attempt = 1
        BY <1>3, <1>4, <2>3
      <3>2. \A k \in Attempts : k > 1 => work[<<i, k>>] = "none"
        <4> SUFFICES ASSUME NEW k \in Attempts, k > 1 PROVE work[<<i, k>>] = "none"
          OBVIOUS
        <4>1. <<i, k>> \in Objects /\ <<i, k>>[2] = k /\ k # 1
          BY ObjectIs, Constants
        <4> QED
          BY <1>2, <4>1
      <3> QED
        BY <2>1, <3>1, <3>2 DEF RecOK
    <2> QED
      BY <2>2, <2>3
  <1>8. \A o \in Objects : WorkOK(o)
    BY <1>2 DEF WorkOK
  <1>9. cached \in [Ids -> Copies] /\ \A i \in Ids : JobOK(cached[i], i)
    <2>1. \A i \in Ids : /\ CachedJob(rec[i]) \in Copies /\ CachedJob(rec[i]).state = rec[i].state
                         /\ CachedJob(rec[i]).art = rec[i].art
      BY <1>5 DEF CachedJob, Copies, Recs
    <2>2. \A i \in Ids : JobOK(CachedJob(rec[i]), i)
      BY <1>7, <2>1 DEF JobOK, RecOK, Finished
    <2> QED
      BY <1>2, <2>1, <2>2
  <1>10. PassOK(swp)
    <2>1. NoPass \in Passes /\ NoPass.pc = "idle"
      BY DEF NoPass, Passes
    <2> QED
      BY <1>2, <2>1 DEF PassOK
  <1>11. ReadOK(rd)
    <2>1. NoRead \in Reads /\ NoRead.pc = "idle" /\ NoRead.got = <<>> /\ NoRead.next = 0
      BY DEF NoRead, Reads
    <2> QED
      BY <1>2, <2>1 DEF ReadOK
  <1> QED
    BY <1>2, <1>6, <1>7, <1>8, <1>9, <1>10, <1>11 DEF ArtifactsInv

\* The invariant holds in every reachable state: what the sweeper, a reader and
\* a late write act on is true when they act (expire, retire, sweepOrphans,
\* discardArtifact, LatestCompleted, ExpireGoneArtifact, pumpChunks).
THEOREM ArtifactsInvHolds == ArtifactsSpec => []ArtifactsInv
  <1>1. ArtifactsInit => ArtifactsInv
    BY ArtifactsStart
  <1>2. ArtifactsInv /\ [ArtifactsNext]_artifactVars => ArtifactsInv'
    <2> SUFFICES ASSUME ArtifactsInv, [ArtifactsNext]_artifactVars PROVE ArtifactsInv'
      OBVIOUS
    <2>1. CASE UNCHANGED artifactVars
      <3>1. UNCHANGED <<rec, due, objects, late, work, cached, swp, rd>>
        BY <2>1 DEF artifactVars
      <3>2. Evolves /\ StoreTypes'
        BY <3>1, QuietStep DEF Still
      <3> QED
        BY <3>1, <3>2, Assemble
    <2>2. CASE ArtifactsNext
      BY <2>2, RecordKeeps, WorkKeeps, SweepKeeps, RequestKeeps, LateKeeps DEF ArtifactsNext
    <2> QED
      BY <2>1, <2>2
  <1> QED
    BY <1>1, <1>2, PTL DEF ArtifactsSpec

\* An artifact whose owner saw its record completed stays until its retention
\* ends, whatever the orphan sweep, a losing attempt or a late delete does
\* (sweepOrphans, discardArtifact).
THEOREM CommittedIsKeptHolds == ArtifactsSpec => []CommittedIsKept
  <1>1. ArtifactsInv => CommittedIsKept
    BY DEF ArtifactsInv, RecOK, CommittedIsKept, Completed, Stored
  <1> QED
    BY <1>1, ArtifactsInvHolds, PTL

\* An expired record's object is gone for good (expire, dropArtifact,
\* ExpireGoneArtifact).
THEOREM ExpiredHasNoObjectHolds == ArtifactsSpec => []ExpiredHasNoObject
  <1>1. ArtifactsInv => ExpiredHasNoObject
    BY DEF ArtifactsInv, RecOK, ExpiredHasNoObject, Stored
  <1> QED
    BY <1>1, ArtifactsInvHolds, PTL

\* The latest route serves the newest Collection of the cache that still has its
\* artifact, and answers that there is none only when none of the page it read
\* has one (LatestCompleted, Caches.Collections).
THEOREM LatestIsNewestHolds == ArtifactsSpec => []LatestIsNewest
  <1>1. ArtifactsInv => LatestIsNewest
    BY DEF ArtifactsInv, ReadOK, LatestIsNewest, NewestOf, Over, Gone, Stored
  <1> QED
    BY <1>1, ArtifactsInvHolds, PTL

\* A download that ends has every chunk in order, however often the consumer
\* was made anew (pumpChunks).
THEOREM NoSpoiltReadHolds == ArtifactsSpec => []NoSpoiltRead
  <1>1. ArtifactsInv => NoSpoiltRead
    BY DEF ArtifactsInv, ReadOK, Reads, NoSpoiltRead
  <1> QED
    BY <1>1, ArtifactsInvHolds, PTL
=============================================================================
