--------------------------- MODULE BarrierProofs ---------------------------
(***************************************************************************)
(* What a replica's caches answer: a read behind the barrier is a point in *)
(* the stream, for any number of kinds, keys, writes and lost connections. *)
(*                                                                         *)
(* Between the store and a cache an entry passes three places: the         *)
(* subscription, the watch's hand and the channel.  The proof reads them   *)
(* as one pipe and says what the pipe holds while its watch is fresh, that *)
(* is attached under the current generation: until the marker is applied,  *)
(* entries that bring the cache to the contents the watch was opened at,   *)
(* the marker, and then the stream from there; after it, the rest of the   *)
(* stream.  Entries of an earlier generation may lie before, and are       *)
(* forgotten with the first entry of the current one.                      *)
(***************************************************************************)
EXTENDS Barrier, FiniteSetTheorems, SequenceTheorems, TLAPS

Entry == [key: Keys, val: Vals]
Item  == Entry \cup {Marker}

WatchPCs == {"none", "first", "check", "select", "send", "moving", "reopen", "opening"}

Watching == [pc: WatchPCs, gen: Nat, mark: Int, sub: Seq(Item), on: BOOLEAN,
             closed: BOOLEAN, since: Nat, hold: Item]
Sent     == [gen: Nat, e: Item]
Lefts    == [writes: Int, drops: Int, losses: Int, fails: Int]

\* The types.
Typed ==
    /\ conn \in {"up", "down", "lost"} /\ gen \in Nat
    /\ mover \in {Nobody, Connection} \cup Kinds
    /\ log \in [Kinds -> Seq(Entry)]
    /\ watch \in [Kinds -> Watching]
    /\ chan \in [Kinds -> Seq(Sent)]
    /\ cache \in [Kinds -> [gen: Nat, synced: BOOLEAN, val: [Keys -> Vals]]]
    /\ attempt \in [pc: {"idle", "opening", "running", "abandon"}, gen: Nat, next: Nat]
    /\ left \in Lefts

-----------------------------------------------------------------------------
(* The pipe of a kind.                                                     *)

InHand(k) == IF watch[k].pc = "send" THEN 1 ELSE 0

\* The items of the channel c, the h items in hand, which are e, and those of
\* the subscription s.
Length(c, h, s) == Len(c) + h + Len(s)

Pieces(c, h, e, s) ==
    [i \in 1 .. Length(c, h, s) |->
        IF i =< Len(c) THEN c[i].e ELSE IF i =< Len(c) + h THEN e ELSE s[i - Len(c) - h]]

Total(k) == Length(chan[k], InHand(k), watch[k].sub)
Pipe(k)  == Pieces(chan[k], InHand(k), watch[k].hold, watch[k].sub)

\* Attached under the current generation.
Fresh(k) == Subscribed(k) /\ watch[k].on /\ watch[k].gen = gen

\* What the entries of the current generation are applied to.
Basis(k) == IF cache[k].gen = gen THEN cache[k].val ELSE Empty

IsSynced(k) == cache[k].gen = gen /\ cache[k].synced

\* The pipe p of length n carries, after z entries of earlier generations, what
\* brings the basis b to the contents of l after s writes; the marker, at m;
\* and l from there.
Filling(l, s, p, n, b, z, m) ==
    /\ z < m /\ m =< n
    /\ p[m] = Marker
    /\ n - m = Len(l) - s
    /\ \A i \in m + 1 .. n : p[i] = l[s + i - m]
    /\ \A i \in z + 1 .. m - 1 : p[i] \in Entry /\ p[i].val = After(l, s)[p[i].key]
    /\ \A x \in Keys : (\A i \in z + 1 .. m - 1 : p[i].key # x) => b[x] = After(l, s)[x]

\* The cache is l as of a write no earlier than s; the pipe carries the rest.
Settled(l, s, p, n, b) ==
    /\ n =< Len(l) - s
    /\ \A i \in 1 .. n : p[i] = l[Len(l) - n + i]
    /\ b = After(l, Len(l) - n)

Line(k) ==
    Fresh(k) =>
        /\ watch[k].since =< Len(log[k])
        /\ IF IsSynced(k)
           THEN Settled(log[k], watch[k].since, Pipe(k), Total(k), cache[k].val)
           ELSE \E z \in 0 .. Len(chan[k]), m \in 1 .. Total(k) :
                   /\ \A i \in 1 .. Len(chan[k]) : chan[k][i].gen < gen <=> i =< z
                   /\ Filling(log[k], watch[k].since, Pipe(k), Total(k), Basis(k), z, m)

-----------------------------------------------------------------------------
(* Generations, cuts and attempts.                                         *)

\* Generations only grow along the pipe.
Ordered(k) ==
    /\ cache[k].gen =< gen
    /\ \A i \in 1 .. Len(chan[k]) :
          /\ cache[k].gen =< chan[k][i].gen /\ chan[k][i].gen =< gen
          /\ \A j \in 1 .. Len(chan[k]) : i =< j => chan[k][i].gen =< chan[k][j].gen
    /\ watch[k].pc # "none" =>
          /\ cache[k].gen =< watch[k].gen /\ watch[k].gen =< gen
          /\ \A i \in 1 .. Len(chan[k]) : chan[k][i].gen =< watch[k].gen

\* Nothing of the current generation has come through.
Behind(k) ==
    /\ cache[k].gen < gen
    /\ \A i \in 1 .. Len(chan[k]) : chan[k][i].gen < gen

\* A watch that is cut, and does not say so, is one of an earlier generation.
Cuts(k) ==
    /\ watch[k].pc \in {"reopen", "opening"} /\ conn # "down" => Behind(k)
    /\ watch[k].pc = "moving" => Behind(k)
    /\ mover = k => watch[k].pc = "moving"
    /\ Subscribed(k) /\ ~watch[k].on /\ ~watch[k].closed /\ conn # "down" => watch[k].gen < gen
    /\ Subscribed(k) /\ conn = "lost" => watch[k].gen < gen
    /\ watch[k].on => Subscribed(k) /\ ~watch[k].closed /\ conn = "up"
    /\ watch[k].pc \in {"none", "first", "reopen", "opening"} => ~watch[k].closed

\* A call of Caches.Run that has not opened every watch has synced not every cache.
Attempts(k) ==
    /\ attempt.next \in 1 .. KindCount + 1
    /\ attempt.pc # "running" => attempt.next \in Kinds
    /\ attempt.pc = "idle" => watch[k].pc = "none" /\ chan[k] = <<>>
    /\ attempt.pc # "running" /\ k >= attempt.next =>
          chan[k] = <<>> /\ ~cache[k].synced /\ watch[k].pc \in {"none", "first"}
    /\ attempt.pc = "running" \/ (attempt.pc = "opening" /\ k < attempt.next) =>
          watch[k].pc \notin {"none", "first"}
    /\ watch[k].pc = "first" => attempt.pc = "opening" /\ attempt.next = k

InLog(k, x) == \E m \in 1 .. Len(log[k]) : log[k][m].key = x

KnownItem(k, e) == e # Marker => InLog(k, e.key)

\* Where a stream is never recreated, what was ever delivered is of a key the
\* stream has; where Run is called once, a cache not opened yet is empty.
Known(k) ==
    IF Reruns
    THEN /\ left.losses = 0
         /\ \A x \in Keys : cache[k].val[x] # "gone" => InLog(k, x)
         /\ \A i \in 1 .. Len(chan[k]) : KnownItem(k, chan[k][i].e)
         /\ KnownItem(k, watch[k].hold)
         /\ \A i \in 1 .. Len(watch[k].sub) : KnownItem(k, watch[k].sub[i])
    ELSE attempt.pc = "idle" \/ (attempt.pc = "opening" /\ k >= attempt.next) =>
            cache[k].val = Empty

Sound(k) == Ordered(k) /\ Cuts(k) /\ Attempts(k) /\ Known(k) /\ Line(k)

\* The inductive invariant.
BarrierInv == Typed /\ \A k \in Kinds : Sound(k)

-----------------------------------------------------------------------------
(* The contents of a stream.                                               *)

\* A set of natural numbers that is not empty has a least element.
LEMMA LeastNumber ==
  ASSUME NEW T, T \subseteq Nat, T # {}
  PROVE  \E x \in T : \A y \in T : x =< y
  <1>1. \E x \in T : \A y \in T : ~(<<y, x>> \in OpToRel(<, Nat))
    BY NatLessThanWellFounded, WFMin
  <1>2. PICK x \in T : \A y \in T : ~(<<y, x>> \in OpToRel(<, Nat))
    BY <1>1
  <1>3. \A y \in T : ~(y < x)
    BY <1>2 DEF OpToRel
  <1> QED
    BY <1>3

\* The last of some positions.
LEMMA LastOf ==
  ASSUME NEW n \in Nat, NEW T, \A t \in T : t \in 1 .. n, T # {}
  PROVE  Max(T) \in T /\ \A y \in T : y =< Max(T)
  <1> DEFINE U == {n - t : t \in T}
  <1>1. U \subseteq Nat /\ U # {}
    <2>1. \A t \in T : n - t \in Nat
      OBVIOUS
    <2> QED
      BY <2>1
  <1>2. PICK u \in U : \A v \in U : u =< v
    BY <1>1, LeastNumber
  <1>3. PICK t \in T : u = n - t
    OBVIOUS
  <1>4. \A y \in T : y =< t
    <2> SUFFICES ASSUME NEW y \in T PROVE y =< t
      OBVIOUS
    <2>1. n - y \in U
      OBVIOUS
    <2>2. n - t =< n - y
      BY <1>2, <1>3, <2>1
    <2> QED
      BY <2>2
  <1>5. \E x \in T : \A y \in T : x >= y
    BY <1>4
  <1> QED
    BY <1>5 DEF Max

\* The contents are those one write earlier, changed at that write's key.
LEMMA AfterOneMore ==
  ASSUME NEW l \in Seq(Entry), NEW n \in Nat, n < Len(l), NEW x \in Keys
  PROVE  After(l, n + 1)[x] = IF l[n + 1].key = x THEN l[n + 1].val ELSE After(l, n)[x]
  <1> DEFINE at(m) == {i \in 1 .. m : l[i].key = x}
  <1>0. \A m : After(l, m)[x] = IF at(m) = {} THEN "gone" ELSE l[Max(at(m))].val
    BY DEF After
  <1>1. CASE l[n + 1].key = x
    <2>1. n + 1 \in at(n + 1) /\ \A i \in at(n + 1) : i \in 1 .. n + 1
      BY <1>1
    <2> HIDE DEF at
    <2>2. Max(at(n + 1)) \in at(n + 1) /\ n + 1 =< Max(at(n + 1))
      BY <2>1, LastOf
    <2>3. Max(at(n + 1)) = n + 1
      BY <2>1, <2>2
    <2> QED
      BY <1>0, <1>1, <2>1, <2>3
  <1>2. CASE l[n + 1].key # x
    <2>1. at(n + 1) = at(n)
      BY <1>2
    <2> QED
      BY <1>0, <1>2, <2>1
  <1> QED
    BY <1>1, <1>2

\* They are a function of the keys.
LEMMA AfterType ==
  ASSUME NEW l \in Seq(Entry), NEW n \in Nat, n =< Len(l)
  PROVE  After(l, n) \in [Keys -> Vals]
  <1> SUFFICES ASSUME NEW x \in Keys
               PROVE  After(l, n)[x] \in Vals
    BY DEF After
  <1> DEFINE at == {i \in 1 .. n : l[i].key = x}
  <1>1. After(l, n)[x] = IF at = {} THEN "gone" ELSE l[Max(at)].val
    BY DEF After
  <1>2. at # {} => Max(at) \in 1 .. n
    BY LastOf
  <1>3. \A i \in 1 .. n : l[i].val \in Vals
    <2>1. \A i \in 1 .. n : l[i] \in Entry
      BY ElementOfSeq
    <2> QED
      BY <2>1 DEF Entry
  <1> QED
    BY <1>1, <1>2, <1>3 DEF Vals

\* What follows does not change what was.
LEMMA AfterPrefix ==
  ASSUME NEW l \in Seq(Entry), NEW k \in Seq(Entry), NEW n \in Nat,
         \A i \in 1 .. n : l[i] = k[i]
  PROVE  After(l, n) = After(k, n)
  <1>1. ASSUME NEW x \in Keys
        PROVE  After(l, n)[x] = After(k, n)[x]
    <2> DEFINE at(s) == {i \in 1 .. n : s[i].key = x}
    <2>1. \A s : After(s, n)[x] = IF at(s) = {} THEN "gone" ELSE s[Max(at(s))].val
      BY DEF After
    <2>2. at(l) = at(k)
      OBVIOUS
    <2>3. at(l) # {} => Max(at(l)) \in 1 .. n
      BY LastOf
    <2> QED
      BY <2>1, <2>2, <2>3
  <1> QED
    BY <1>1 DEF After

\* What the whole stream says of a key is what its last entry says.
LEMMA AfterAll ==
  ASSUME NEW l \in Seq(Entry), NEW m \in 1 .. Len(l),
         \A n \in 1 .. Len(l) : l[n].key = l[m].key => n =< m
  PROVE  After(l, Len(l))[l[m].key] = l[m].val
  <1> DEFINE x == l[m].key
  <1> DEFINE at == {i \in 1 .. Len(l) : l[i].key = x}
  <1>1. x \in Keys
    <2>1. l[m] \in Entry
      BY ElementOfSeq
    <2> QED
      BY <2>1 DEF Entry
  <1>2. m \in at /\ \A i \in at : i =< m
    OBVIOUS
  <1>3. Max(at) \in at /\ m =< Max(at)
    <2>1. Len(l) \in Nat /\ \A i \in at : i \in 1 .. Len(l)
      OBVIOUS
    <2> HIDE DEF at
    <2> QED
      BY <1>2, <2>1, LastOf
  <1>4. Max(at) = m
    BY <1>2, <1>3
  <1> QED
    BY <1>1, <1>2, <1>4 DEF After

\* An empty stream has nothing.
LEMMA AfterNothing == \A l : After(l, 0) = Empty
  <1>1. \A l, x : {m \in 1 .. 0 : l[m].key = x} = {}
    OBVIOUS
  <1> QED
    BY <1>1 DEF After, Empty


\* Two elements of a finite set of numbers do not have as many below them.
LEMMA RanksDiffer ==
  ASSUME NEW T, T \subseteq Nat, IsFiniteSet(T), NEW m \in T, NEW o \in T,
         Cardinality({n \in T : n =< m}) = Cardinality({n \in T : n =< o})
  PROVE  m = o
  <1> DEFINE upTo(x) == {n \in T : n =< x}
  <1>1. ASSUME NEW x \in T, NEW y \in T, x < y
        PROVE  Cardinality(upTo(x)) # Cardinality(upTo(y))
    <2>0. x \in Nat /\ y \in Nat /\ \A n \in T : n \in Nat
      OBVIOUS
    <2>1. upTo(x) \in SUBSET upTo(y) /\ y \in upTo(y) /\ y \notin upTo(x)
      <3>1. \A n \in T : n =< x => n =< y
        BY <1>1, <2>0
      <3>2. y \in upTo(y) /\ y \notin upTo(x)
        BY <1>1, <2>0
      <3> QED
        BY <3>1, <3>2
    <2>2. IsFiniteSet(upTo(y))
      <3>1. upTo(y) \in SUBSET T
        OBVIOUS
      <3> QED
        BY <3>1, FS_Subset
    <2> HIDE DEF upTo
    <2> QED
      BY <2>1, <2>2, FS_Subset
  <1>2. ~(m < o) /\ ~(o < m)
    BY <1>1
  <1> QED
    BY <1>2

\* Counting up to an element orders a finite set of numbers: every position has
\* one.
LEMMA EveryRankIsTaken ==
  ASSUME NEW T, T \subseteq Nat, IsFiniteSet(T), NEW i \in 1 .. Cardinality(T)
  PROVE  \E m \in T : Cardinality({n \in T : n =< m}) = i
  <1> DEFINE C == Cardinality(T)
  <1> DEFINE upTo(m) == {n \in T : n =< m}
  <1> DEFINE rank == [m \in T |-> Cardinality(upTo(m))]
  <1>1. C \in Nat /\ IsFiniteSet(1 .. C) /\ Cardinality(1 .. C) = C
    BY FS_CardinalityType, FS_Interval
  <1>2. ASSUME NEW m \in T
        PROVE  Cardinality(upTo(m)) \in 1 .. C
    <2>1. m \in upTo(m) /\ upTo(m) \in SUBSET T
      OBVIOUS
    <2>2. IsFiniteSet(upTo(m)) /\ Cardinality(upTo(m)) =< C
      BY <2>1, FS_Subset
    <2>3. Cardinality(upTo(m)) \in Nat /\ Cardinality(upTo(m)) # 0
      BY <2>1, <2>2, FS_CardinalityType, FS_EmptySet
    <2> HIDE DEF upTo
    <2> QED
      BY <1>1, <2>1, <2>2, <2>3
  <1>3. rank \in [T -> 1 .. C]
    BY <1>2
  <1>4. IsInjective(rank)
    BY RanksDiffer DEF IsInjective
  <1>5. rank \in Injection(T, 1 .. C)
    BY <1>3, <1>4 DEF Injection
  <1> HIDE DEF rank
  <1>6. rank \in Surjection(T, 1 .. C)
    BY <1>1, <1>5, FS_Injection
  <1>7. \E m \in T : rank[m] = i
    BY <1>6 DEF Surjection
  <1> QED
    BY <1>7 DEF rank

\* What a watch delivers first: for every key the stream has, and no other, what
\* the stream says of it now.
LEMMA ReplayIsTheContents ==
  ASSUME NEW l \in Seq(Entry)
  PROVE  /\ Replay(l) \in Seq(Entry)
         /\ \A i \in 1 .. Len(Replay(l)) :
               /\ Replay(l)[i].val = After(l, Len(l))[Replay(l)[i].key]
               /\ \E m \in 1 .. Len(l) : l[m].key = Replay(l)[i].key
         /\ \A m \in 1 .. Len(l) :
               \E i \in 1 .. Len(Replay(l)) : Replay(l)[i].key = l[m].key
  <1> DEFINE last == {m \in DOMAIN l : \A n \in DOMAIN l : l[n].key = l[m].key => n =< m}
  <1> DEFINE nth(i) == CHOOSE m \in last : Cardinality({n \in last : n =< m}) = i
  <1> DEFINE C == Cardinality(last)
  <1>1. DOMAIN l = 1 .. Len(l) /\ Len(l) \in Nat
    OBVIOUS
  <1>2. last \subseteq Nat /\ last \in SUBSET (1 .. Len(l))
    BY <1>1
  <1>3. IsFiniteSet(1 .. Len(l))
    BY <1>1, FS_Interval
  <1>4. IsFiniteSet(last) /\ C \in Nat
    BY <1>2, <1>3, FS_Subset, FS_CardinalityType
  <1>5. \A i \in 1 .. C : nth(i) \in last /\ Cardinality({n \in last : n =< nth(i)}) = i
    <2> SUFFICES ASSUME NEW i \in 1 .. C
                 PROVE  nth(i) \in last /\ Cardinality({n \in last : n =< nth(i)}) = i
      OBVIOUS
    <2> HIDE DEF last
    <2>1. \E m \in last : Cardinality({n \in last : n =< m}) = i
      BY <1>2, <1>4, EveryRankIsTaken
    <2> QED
      BY <2>1
  <1>6. ASSUME NEW m \in last
        PROVE  \E i \in 1 .. C : nth(i) = m
    <2> DEFINE upTo == {n \in last : n =< m}
    <2>1. upTo \in SUBSET last /\ m \in upTo
      BY <1>2
    <2>2. IsFiniteSet(upTo) /\ Cardinality(upTo) =< C /\ Cardinality(upTo) \in Nat
      BY <1>4, <2>1, FS_Subset, FS_CardinalityType
    <2>3. Cardinality(upTo) \in 1 .. C
      <3>1. Cardinality(upTo) # 0
        BY <2>1, <2>2, FS_EmptySet
      <3> HIDE DEF upTo, C
      <3> QED
        BY <2>2, <3>1, <1>4
    <2> HIDE DEF last
    <2>4. nth(Cardinality(upTo)) = m
      BY <1>2, <1>4, <1>5, <2>3, RanksDiffer
    <2> QED
      BY <2>3, <2>4
  <1>7. Replay(l) = [i \in 1 .. C |-> l[nth(i)]]
    BY DEF Replay
  <1> HIDE DEF nth, C
  <1>8. \A i \in 1 .. C : l[nth(i)] \in Entry
    <2>1. \A i \in 1 .. C : nth(i) \in 1 .. Len(l)
      BY <1>1, <1>5
    <2> QED
      BY <2>1, ElementOfSeq
  <1>9. Replay(l) \in Seq(Entry) /\ Len(Replay(l)) = C
    BY <1>4, <1>7, <1>8
  <1>10. ASSUME NEW i \in 1 .. C
         PROVE  /\ Replay(l)[i].val = After(l, Len(l))[Replay(l)[i].key]
                /\ \E m \in 1 .. Len(l) : l[m].key = Replay(l)[i].key
    <2>1. nth(i) \in last
      BY <1>5
    <2>2. nth(i) \in 1 .. Len(l) /\ \A n \in 1 .. Len(l) : l[n].key = l[nth(i)].key => n =< nth(i)
      BY <1>1, <2>1
    <2>3. Replay(l)[i] = l[nth(i)]
      BY <1>7
    <2> QED
      BY <2>2, <2>3, AfterAll
  <1>11. ASSUME NEW m \in 1 .. Len(l)
         PROVE  \E i \in 1 .. C : Replay(l)[i].key = l[m].key
    <2> DEFINE at == {i \in 1 .. Len(l) : l[i].key = l[m].key}
    <2>1. m \in at /\ \A i \in at : i \in 1 .. Len(l)
      OBVIOUS
    <2>2. Max(at) \in at /\ \A y \in at : y =< Max(at)
      <3> HIDE DEF at
      <3> QED
        BY <1>1, <2>1, LastOf
    <2> DEFINE o == Max(at)
    <2>3. o \in 1 .. Len(l) /\ l[o].key = l[m].key
      BY <2>2
    <2>4. \A n \in 1 .. Len(l) : l[n].key = l[o].key => n =< o
      BY <2>2, <2>3
    <2>5. o \in last
      BY <1>1, <2>3, <2>4
    <2>6. PICK i \in 1 .. C : nth(i) = o
      BY <1>6, <2>5
    <2> QED
      BY <1>7, <2>3, <2>6
  <1> QED
    BY <1>9, <1>10, <1>11


-----------------------------------------------------------------------------
(* What happens to a pipe.                                                 *)

\* q is p without its first item.
Shifts(p, n, q) == \A i \in 1 .. n - 1 : q[i] = p[i + 1]

\* q is p with one more item.
Extends(p, n, q, e) == (\A i \in 1 .. n : q[i] = p[i]) /\ q[n + 1] = e

\* An item is taken from the subscription ...
LEMMA ItemIsTaken ==
  ASSUME NEW c \in Seq(Sent), NEW e, NEW s \in Seq(Item), s # <<>>
  PROVE  /\ Length(c, 1, Tail(s)) = Length(c, 0, s)
         /\ Pieces(c, 1, Head(s), Tail(s)) = Pieces(c, 0, e, s)
  <1> DEFINE t == Tail(s)
  <1>1. /\ Head(s) = s[1] /\ Len(t) = Len(s) - 1 /\ Len(s) \in Nat /\ Len(s) > 0 /\ Len(c) \in Nat
        /\ \A i \in 1 .. Len(t) : t[i] = s[i + 1]
    BY HeadTailProperties, EmptySeq, LenProperties
  <1> HIDE DEF t
  <1>2. Length(c, 1, t) = Length(c, 0, s) /\ Length(c, 0, s) \in Nat
    BY <1>1 DEF Length
  <1>3. ASSUME NEW i \in 1 .. Length(c, 0, s)
        PROVE  Pieces(c, 1, Head(s), t)[i] = Pieces(c, 0, e, s)[i]
    <2>1. CASE i =< Len(c)
      BY <1>2, <2>1 DEF Pieces
    <2>2. CASE i = Len(c) + 1
      BY <1>1, <1>2, <2>2 DEF Pieces
    <2>3. CASE i > Len(c) + 1
      <3>1. /\ i - Len(c) - 1 \in 1 .. Len(t) /\ (i - Len(c) - 1) + 1 = i - Len(c) - 0
            /\ ~(i =< Len(c)) /\ ~(i =< Len(c) + 1) /\ ~(i =< Len(c) + 0)
        BY <1>1, <1>2, <2>3 DEF Length
      <3> QED
        BY <1>1, <1>2, <3>1 DEF Pieces
    <2> QED
      BY <1>1, <1>2, <2>1, <2>2, <2>3
  <1>4. Pieces(c, 1, Head(s), t) = Pieces(c, 0, e, s)
    BY <1>2, <1>3 DEF Pieces
  <1> QED
    BY <1>2, <1>4 DEF t

\* ... and sent.
LEMMA ItemIsSent ==
  ASSUME NEW c \in Seq(Sent), NEW g \in Nat, NEW e \in Item, NEW f, NEW s \in Seq(Item)
  PROVE  /\ Length(Append(c, [gen |-> g, e |-> e]), 0, s) = Length(c, 1, s)
         /\ Pieces(Append(c, [gen |-> g, e |-> e]), 0, f, s) = Pieces(c, 1, e, s)
  <1> DEFINE x == [gen |-> g, e |-> e]
  <1> DEFINE d == Append(c, x)
  <1>0. x \in Sent /\ x.e = e
    BY DEF Sent
  <1>1. /\ Len(c) \in Nat /\ Len(d) = Len(c) + 1 /\ Len(s) \in Nat
        /\ \A i \in 1 .. Len(c) : d[i] = c[i]
        /\ d[Len(c) + 1] = x
    <2> HIDE DEF x
    <2> QED
      BY <1>0, AppendProperties, LenProperties
  <1> HIDE DEF d, x
  <1>2. Length(d, 0, s) = Length(c, 1, s) /\ Length(c, 1, s) \in Nat
    BY <1>1 DEF Length
  <1>3. ASSUME NEW i \in 1 .. Length(c, 1, s)
        PROVE  Pieces(d, 0, f, s)[i] = Pieces(c, 1, e, s)[i]
    <2>1. CASE i =< Len(c)
      BY <1>1, <1>2, <2>1 DEF Pieces
    <2>2. CASE i = Len(c) + 1
      BY <1>0, <1>1, <1>2, <2>2 DEF Pieces
    <2>3. CASE i > Len(c) + 1
      <3>1. /\ i - Len(d) - 0 = i - Len(c) - 1
            /\ ~(i =< Len(c)) /\ ~(i =< Len(c) + 1) /\ ~(i =< Len(d)) /\ ~(i =< Len(d) + 0)
        BY <1>1, <1>2, <2>3 DEF Length
      <3> QED
        BY <1>1, <1>2, <3>1 DEF Pieces
    <2> QED
      BY <1>1, <1>2, <2>1, <2>2, <2>3
  <1>4. Pieces(d, 0, f, s) = Pieces(c, 1, e, s)
    BY <1>2, <1>3 DEF Pieces
  <1> QED
    BY <1>2, <1>4 DEF d, x

\* The first item of the channel is applied.
LEMMA ItemIsApplied ==
  ASSUME NEW c \in Seq(Sent), c # <<>>, NEW h \in {0, 1}, NEW e, NEW s \in Seq(Item)
  PROVE  /\ Length(Tail(c), h, s) = Length(c, h, s) - 1
         /\ Pieces(c, h, e, s)[1] = Head(c).e
         /\ Shifts(Pieces(c, h, e, s), Length(c, h, s), Pieces(Tail(c), h, e, s))
  <1> DEFINE t == Tail(c)
  <1> DEFINE n == Length(c, h, s)
  <1>1. /\ Head(c) = c[1] /\ Len(t) = Len(c) - 1 /\ Len(c) \in Nat /\ Len(c) > 0 /\ Len(s) \in Nat
        /\ \A i \in 1 .. Len(t) : t[i] = c[i + 1]
    BY HeadTailProperties, EmptySeq, LenProperties
  <1> HIDE DEF t
  <1>2. Length(t, h, s) = n - 1 /\ n \in Nat /\ n > 0
    BY <1>1 DEF Length
  <1>3. ASSUME NEW i \in 1 .. n - 1
        PROVE  Pieces(t, h, e, s)[i] = Pieces(c, h, e, s)[i + 1]
    <2>0. i \in 1 .. Length(t, h, s) /\ i + 1 \in 1 .. n
      BY <1>2
    <2> HIDE DEF n
    <2>1. CASE i =< Len(t)
      BY <1>1, <2>0, <2>1 DEF Pieces, n
    <2>2. CASE i > Len(t) /\ i =< Len(t) + h
      BY <1>1, <2>0, <2>2 DEF Pieces, n
    <2>3. CASE i > Len(t) + h
      <3>1. /\ i - Len(t) - h = (i + 1) - Len(c) - h
            /\ ~(i =< Len(t)) /\ ~(i =< Len(t) + h) /\ ~(i + 1 =< Len(c)) /\ ~(i + 1 =< Len(c) + h)
        BY <1>1, <2>0, <2>3
      <3> QED
        BY <2>0, <3>1 DEF Pieces, n
    <2> QED
      BY <1>1, <2>0, <2>1, <2>2, <2>3
  <1>4. Pieces(c, h, e, s)[1] = Head(c).e
    BY <1>1, <1>2 DEF Pieces
  <1> QED
    BY <1>2, <1>3, <1>4 DEF t, Shifts

\* A write reaches the subscription.
LEMMA ItemIsWritten ==
  ASSUME NEW c \in Seq(Sent), NEW h \in {0, 1}, NEW e, NEW s \in Seq(Item), NEW x \in Item
  PROVE  /\ Length(c, h, Append(s, x)) = Length(c, h, s) + 1
         /\ Extends(Pieces(c, h, e, s), Length(c, h, s), Pieces(c, h, e, Append(s, x)), x)
  <1> DEFINE t == Append(s, x)
  <1> DEFINE n == Length(c, h, s)
  <1>1. /\ Len(c) \in Nat /\ Len(s) \in Nat /\ Len(t) = Len(s) + 1
        /\ \A i \in 1 .. Len(s) : t[i] = s[i]
        /\ t[Len(s) + 1] = x
    BY AppendProperties, LenProperties
  <1> HIDE DEF t
  <1>2. Length(c, h, t) = n + 1 /\ n \in Nat
    BY <1>1 DEF Length
  <1>3. ASSUME NEW i \in 1 .. n
        PROVE  Pieces(c, h, e, t)[i] = Pieces(c, h, e, s)[i]
    <2>1. i \in 1 .. Length(c, h, t)
      BY <1>2
    <2>2. CASE i =< Len(c) + h
      BY <1>1, <1>3, <2>1, <2>2 DEF Pieces
    <2>3. CASE i > Len(c) + h
      <3>1. i - Len(c) - h \in 1 .. Len(s)
        BY <1>1, <1>2, <2>3 DEF Length
      <3> QED
        BY <1>1, <1>3, <2>1, <3>1 DEF Pieces
    <2> QED
      BY <1>1, <1>2, <2>2, <2>3
  <1>4. Pieces(c, h, e, t)[n + 1] = x
    <2>1. /\ n + 1 \in 1 .. Length(c, h, t) /\ n + 1 - Len(c) - h = Len(s) + 1
          /\ ~(n + 1 =< Len(c)) /\ ~(n + 1 =< Len(c) + h)
      BY <1>1, <1>2 DEF Length
    <2> HIDE DEF n
    <2>2. ASSUME NEW i \in 1 .. Length(c, h, t), ~(i =< Len(c)), ~(i =< Len(c) + h)
          PROVE  Pieces(c, h, e, t)[i] = t[i - Len(c) - h]
      BY <2>2 DEF Pieces
    <2>3. Pieces(c, h, e, t)[n + 1] = t[n + 1 - Len(c) - h]
      BY <1>1, <1>2, <2>1, <2>2
    <2> QED
      BY <1>1, <2>1, <2>3
  <1> QED
    BY <1>2, <1>3, <1>4 DEF t, Extends

\* The marker is no entry.
LEMMA MarkerIsNoEntry == Marker \notin Entry
  BY BarrierAssumption DEF Marker, Entry

\* A stream with one more write.
LEMMA StreamGrows ==
  ASSUME NEW l \in Seq(Entry), NEW e \in Entry
  PROVE  /\ Append(l, e) \in Seq(Entry) /\ Len(Append(l, e)) = Len(l) + 1
         /\ \A i \in 1 .. Len(l) : Append(l, e)[i] = l[i]
         /\ Append(l, e)[Len(l) + 1] = e
         /\ \A n \in Nat : n =< Len(l) => After(Append(l, e), n) = After(l, n)
  <1>1. /\ Append(l, e) \in Seq(Entry) /\ Len(Append(l, e)) = Len(l) + 1
        /\ \A i \in 1 .. Len(l) : Append(l, e)[i] = l[i]
        /\ Append(l, e)[Len(l) + 1] = e
    BY AppendProperties
  <1>2. ASSUME NEW n \in Nat, n =< Len(l)
        PROVE  After(Append(l, e), n) = After(l, n)
    <2>1. \A i \in 1 .. n : Append(l, e)[i] = l[i]
      BY <1>1, <1>2
    <2> QED
      BY <1>1, <2>1, AfterPrefix
  <1> QED
    BY <1>1, <1>2

\* A subscription just opened, behind c entries of earlier generations.
LEMMA FillingStarts ==
  ASSUME NEW l \in Seq(Entry), NEW b, NEW q, NEW c \in Nat, NEW n \in Nat,
         n = c + Len(Replay(l)) + 1,
         \A i \in 1 .. Len(Replay(l)) : q[c + i] = Replay(l)[i],
         q[n] = Marker,
         \A x \in Keys : b[x] = "gone" \/ \E m \in 1 .. Len(l) : l[m].key = x
  PROVE  Filling(l, Len(l), q, n, b, c, n)
  <1> DEFINE r == Replay(l)
  <1> DEFINE L == Len(l)
  <1>1. /\ r \in Seq(Entry) /\ Len(r) \in Nat /\ L \in Nat
        /\ \A i \in 1 .. Len(r) : r[i].val = After(l, L)[r[i].key]
        /\ \A m \in 1 .. L : \E i \in 1 .. Len(r) : r[i].key = l[m].key
    BY ReplayIsTheContents
  <1> HIDE DEF r
  <1>2. n = c + Len(r) + 1 /\ \A i \in 1 .. Len(r) : q[c + i] = r[i]
    BY DEF r
  <1>3. ASSUME NEW i \in c + 1 .. n - 1
        PROVE  q[i] \in Entry /\ q[i].val = After(l, L)[q[i].key]
    <2>1. i - c \in 1 .. Len(r) /\ q[c + (i - c)] = r[i - c]
      BY <1>1, <1>2
    <2>2. q[i] = r[i - c]
      BY <1>1, <2>1
    <2> QED
      BY <1>1, <2>1, <2>2, ElementOfSeq
  <1>4. ASSUME NEW x \in Keys, \A i \in c + 1 .. n - 1 : q[i].key # x
        PROVE  b[x] = After(l, L)[x]
    <2>1. \A i \in 1 .. Len(r) : r[i].key # x
      <3> SUFFICES ASSUME NEW i \in 1 .. Len(r) PROVE r[i].key # x
        OBVIOUS
      <3>1. c + i \in c + 1 .. n - 1 /\ q[c + i] = r[i]
        BY <1>1, <1>2
      <3> QED
        BY <1>4, <3>1
    <2>2. \A m \in 1 .. L : l[m].key # x
      BY <1>1, <2>1
    <2>3. {m \in 1 .. L : l[m].key = x} = {}
      BY <2>2
    <2>4. After(l, L)[x] = "gone"
      BY <2>3 DEF After
    <2> QED
      BY <2>2, <2>4
  <1>5. n - n = L - L /\ c < n /\ n =< n /\ (n + 1 .. n) = {}
    BY <1>1, <1>2
  <1> QED
    BY <1>3, <1>4, <1>5 DEF Filling

\* An entry of an earlier generation is taken.
LEMMA FillingDropsStale ==
  ASSUME NEW l \in Seq(Entry), NEW s \in Nat, NEW p, NEW q, NEW n \in Nat, NEW b,
         NEW z \in Nat, NEW m \in Nat, z > 0,
         Filling(l, s, p, n, b, z, m), Shifts(p, n, q)
  PROVE  Filling(l, s, q, n - 1, b, z - 1, m - 1)
  <1>1. z < m /\ m =< n /\ Len(l) \in Nat
    BY DEF Filling
  <1>2. q[m - 1] = Marker /\ n - 1 - (m - 1) = Len(l) - s
    <2>1. m - 1 \in 1 .. n - 1 /\ m - 1 + 1 = m
      BY <1>1
    <2> QED
      BY <1>1, <2>1 DEF Filling, Shifts
  <1>3. ASSUME NEW i \in (m - 1) + 1 .. n - 1
        PROVE  q[i] = l[s + i - (m - 1)]
    <2>1. i + 1 \in m + 1 .. n /\ i \in 1 .. n - 1 /\ s + (i + 1) - m = s + i - (m - 1)
      BY <1>1
    <2> QED
      BY <2>1 DEF Filling, Shifts
  <1>4. \A i \in (z - 1) + 1 .. (m - 1) - 1 : i + 1 \in z + 1 .. m - 1 /\ q[i] = p[i + 1]
    BY <1>1 DEF Shifts
  <1>5. \A j \in z + 1 .. m - 1 : j - 1 \in (z - 1) + 1 .. (m - 1) - 1 /\ q[j - 1] = p[j]
    <2> SUFFICES ASSUME NEW j \in z + 1 .. m - 1
                 PROVE  j - 1 \in (z - 1) + 1 .. (m - 1) - 1 /\ q[j - 1] = p[j]
      OBVIOUS
    <2>1. j - 1 \in 1 .. n - 1 /\ (j - 1) + 1 = j
      BY <1>1
    <2> QED
      BY <1>1, <2>1 DEF Shifts
  <1>6. ASSUME NEW i \in (z - 1) + 1 .. (m - 1) - 1
        PROVE  q[i] \in Entry /\ q[i].val = After(l, s)[q[i].key]
    BY <1>4 DEF Filling
  <1>7. ASSUME NEW x \in Keys, \A i \in (z - 1) + 1 .. (m - 1) - 1 : q[i].key # x
        PROVE  b[x] = After(l, s)[x]
    <2>1. \A j \in z + 1 .. m - 1 : p[j].key # x
      BY <1>5, <1>7
    <2> QED
      BY <2>1 DEF Filling
  <1> QED
    BY <1>1, <1>2, <1>3, <1>6, <1>7 DEF Filling


\* An entry of the contents is applied.
LEMMA FillingTakesEntry ==
  ASSUME NEW l \in Seq(Entry), NEW s \in Nat, NEW p, NEW q, NEW n \in Nat,
         NEW b \in [Keys -> Vals], NEW m \in Nat, m > 1,
         Filling(l, s, p, n, b, 0, m), Shifts(p, n, q)
  PROVE  /\ p[1] \in Entry
         /\ Filling(l, s, q, n - 1, [b EXCEPT ![p[1].key] = p[1].val], 0, m - 1)
  <1> DEFINE c == [b EXCEPT ![p[1].key] = p[1].val]
  <1>1. m =< n /\ Len(l) \in Nat /\ 1 \in 0 + 1 .. m - 1
    BY DEF Filling
  <1>2. q[m - 1] = Marker /\ n - 1 - (m - 1) = Len(l) - s
    <2>1. m - 1 \in 1 .. n - 1 /\ m - 1 + 1 = m
      BY <1>1
    <2> QED
      BY <1>1, <2>1 DEF Filling, Shifts
  <1>3. ASSUME NEW i \in (m - 1) + 1 .. n - 1
        PROVE  q[i] = l[s + i - (m - 1)]
    <2>1. i + 1 \in m + 1 .. n /\ i \in 1 .. n - 1 /\ s + (i + 1) - m = s + i - (m - 1)
      BY <1>1
    <2> QED
      BY <2>1 DEF Filling, Shifts
  <1>4. p[1] \in Entry /\ p[1].val = After(l, s)[p[1].key]
    BY <1>1 DEF Filling
  <1>5. p[1].key \in Keys
    BY <1>4 DEF Entry
  <1>6. ASSUME NEW i \in 0 + 1 .. (m - 1) - 1
        PROVE  q[i] \in Entry /\ q[i].val = After(l, s)[q[i].key]
    <2>1. i + 1 \in 0 + 1 .. m - 1 /\ i \in 1 .. n - 1
      BY <1>1
    <2> QED
      BY <2>1 DEF Filling, Shifts
  <1>7. ASSUME NEW x \in Keys, \A i \in 0 + 1 .. (m - 1) - 1 : q[i].key # x
        PROVE  c[x] = After(l, s)[x]
    <2>1. CASE x = p[1].key
      BY <1>4, <2>1
    <2>2. CASE x # p[1].key
      <3>1. \A j \in 0 + 1 .. m - 1 : p[j].key # x
        <4> SUFFICES ASSUME NEW j \in 0 + 1 .. m - 1, j # 1 PROVE p[j].key # x
          BY <2>2
        <4>1. j - 1 \in 0 + 1 .. (m - 1) - 1 /\ j - 1 \in 1 .. n - 1 /\ (j - 1) + 1 = j
          BY <1>1
        <4> QED
          BY <1>7, <4>1 DEF Shifts
      <3>2. b[x] = After(l, s)[x]
        BY <3>1 DEF Filling
      <3> QED
        BY <2>2, <3>2
    <2> QED
      BY <2>1, <2>2
  <1> HIDE DEF c
  <1>8. Filling(l, s, q, n - 1, c, 0, m - 1)
    BY <1>1, <1>2, <1>3, <1>6, <1>7 DEF Filling
  <1> QED
    BY <1>4, <1>8 DEF c

\* The marker is applied: the contents are those the watch was opened at.
LEMMA FillingEnds ==
  ASSUME NEW l \in Seq(Entry), NEW s \in Nat, s =< Len(l), NEW p, NEW q, NEW n \in Nat,
         NEW b \in [Keys -> Vals], Filling(l, s, p, n, b, 0, 1), Shifts(p, n, q)
  PROVE  p[1] = Marker /\ Settled(l, s, q, n - 1, b)
  <1>1. 1 =< n /\ Len(l) \in Nat /\ n - 1 = Len(l) - s /\ p[1] = Marker
    BY DEF Filling
  <1>2. ASSUME NEW i \in 1 .. n - 1
        PROVE  q[i] = l[Len(l) - (n - 1) + i]
    <2>1. i + 1 \in 1 + 1 .. n /\ s + (i + 1) - 1 = Len(l) - (n - 1) + i
      BY <1>1
    <2>2. p[i + 1] = l[s + (i + 1) - 1]
      BY <2>1 DEF Filling
    <2> QED
      BY <2>1, <2>2 DEF Shifts
  <1>3. \A x \in Keys : b[x] = After(l, s)[x]
    <2>1. (0 + 1 .. 1 - 1) = {}
      OBVIOUS
    <2> QED
      BY <2>1 DEF Filling
  <1>4. b = After(l, s)
    <2>1. After(l, s) \in [Keys -> Vals]
      BY AfterType
    <2> QED
      BY <1>3, <2>1
  <1>5. Len(l) - (n - 1) = s
    BY <1>1
  <1> QED
    BY <1>1, <1>2, <1>4, <1>5 DEF Settled

\* A write joins the pipe.
LEMMA FillingGrows ==
  ASSUME NEW l \in Seq(Entry), NEW s \in Nat, s =< Len(l), NEW p, NEW q, NEW n \in Nat, NEW b,
         NEW z \in Nat, NEW m \in Nat, NEW e \in Entry,
         Filling(l, s, p, n, b, z, m), Extends(p, n, q, e)
  PROVE  Filling(Append(l, e), s, q, n + 1, b, z, m)
  <1> DEFINE k == Append(l, e)
  <1>1. /\ Len(l) \in Nat /\ Len(k) = Len(l) + 1
        /\ \A i \in 1 .. Len(l) : k[i] = l[i]
        /\ k[Len(l) + 1] = e
        /\ After(k, s) = After(l, s)
    BY StreamGrows
  <1> HIDE DEF k
  <1>2. z < m /\ m =< n /\ n - m = Len(l) - s /\ q[m] = Marker
    BY DEF Filling, Extends
  <1>3. ASSUME NEW i \in m + 1 .. n + 1
        PROVE  q[i] = k[s + i - m]
    <2>1. CASE i = n + 1
      <3>1. s + i - m = Len(l) + 1
        BY <1>1, <1>2, <2>1
      <3> QED
        BY <1>1, <2>1, <3>1 DEF Extends
    <2>2. CASE i # n + 1
      <3>1. i \in m + 1 .. n /\ i \in 1 .. n /\ s + i - m \in 1 .. Len(l)
        BY <1>1, <1>2, <2>2
      <3> QED
        BY <1>1, <3>1 DEF Extends, Filling
    <2> QED
      BY <2>1, <2>2
  <1>4. \A i \in z + 1 .. m - 1 : q[i] = p[i]
    BY <1>2 DEF Extends
  <1>5. z < m /\ m =< n + 1 /\ q[m] = Marker /\ n + 1 - m = Len(k) - s
    BY <1>1, <1>2
  <1>6. /\ \A i \in z + 1 .. m - 1 : q[i] \in Entry /\ q[i].val = After(k, s)[q[i].key]
        /\ \A x \in Keys : (\A i \in z + 1 .. m - 1 : q[i].key # x) => b[x] = After(k, s)[x]
    BY <1>1, <1>4 DEF Filling
  <1>7. Filling(k, s, q, n + 1, b, z, m)
    BY <1>3, <1>5, <1>6 DEF Filling
  <1> QED
    BY <1>7 DEF k

\* Behind the marker, an entry of the stream is applied.
LEMMA SettledTakesEntry ==
  ASSUME NEW l \in Seq(Entry), NEW s \in Nat, NEW p, NEW q, NEW n \in Nat, n > 0,
         NEW b \in [Keys -> Vals], Settled(l, s, p, n, b), Shifts(p, n, q)
  PROVE  /\ p[1] \in Entry
         /\ Settled(l, s, q, n - 1, [b EXCEPT ![p[1].key] = p[1].val])
  <1> DEFINE a == Len(l) - n
  <1> DEFINE c == [b EXCEPT ![p[1].key] = p[1].val]
  <1>1. /\ Len(l) \in Nat /\ a \in Nat /\ a < Len(l) /\ a + 1 =< Len(l)
        /\ a + 1 \in 1 .. Len(l) /\ Len(l) - (n - 1) = a + 1
    BY DEF Settled
  <1>2. p[1] = l[a + 1] /\ b = After(l, a)
    <2>1. 1 \in 1 .. n
      OBVIOUS
    <2> QED
      BY <2>1 DEF Settled
  <1>3. p[1] \in Entry /\ p[1].key \in Keys
    <2>1. l[a + 1] \in Entry
      <3> HIDE DEF a
      <3> QED
        BY <1>1, ElementOfSeq
    <2> QED
      BY <1>2, <2>1 DEF Entry
  <1>4. ASSUME NEW i \in 1 .. n - 1
        PROVE  q[i] = l[Len(l) - (n - 1) + i]
    <2>1. i + 1 \in 1 .. n /\ Len(l) - n + (i + 1) = Len(l) - (n - 1) + i
      BY <1>1
    <2> QED
      BY <2>1 DEF Settled, Shifts
  <1>5. c = After(l, a + 1)
    <2>1. After(l, a + 1) \in [Keys -> Vals]
      BY <1>1, AfterType
    <2>2. \A x \in Keys : After(l, a + 1)[x] = IF l[a + 1].key = x THEN l[a + 1].val ELSE b[x]
      BY <1>1, <1>2, AfterOneMore
    <2>3. \A x \in Keys : c[x] = After(l, a + 1)[x]
      BY <1>2, <2>2
    <2> QED
      BY <2>1, <2>3
  <1>6. n - 1 =< Len(l) - s
    BY <1>1 DEF Settled
  <1> HIDE DEF c, a
  <1>7. Settled(l, s, q, n - 1, c)
    BY <1>1, <1>4, <1>5, <1>6 DEF Settled
  <1> QED
    BY <1>3, <1>7 DEF c

\* And a write joins the pipe.
LEMMA SettledGrows ==
  ASSUME NEW l \in Seq(Entry), NEW s \in Nat, s =< Len(l), NEW p, NEW q, NEW n \in Nat, NEW b,
         NEW e \in Entry, Settled(l, s, p, n, b), Extends(p, n, q, e)
  PROVE  Settled(Append(l, e), s, q, n + 1, b)
  <1> DEFINE k == Append(l, e)
  <1> DEFINE a == Len(l) - n
  <1>0. Len(l) \in Nat /\ a \in Nat /\ a =< Len(l)
    BY DEF Settled
  <1>1. /\ Len(k) = Len(l) + 1
        /\ \A i \in 1 .. Len(l) : k[i] = l[i]
        /\ k[Len(l) + 1] = e
        /\ After(k, a) = After(l, a)
    BY <1>0, StreamGrows
  <1> HIDE DEF k
  <1>2. Len(k) - (n + 1) = a /\ n + 1 =< Len(k) - s
    BY <1>0, <1>1 DEF Settled
  <1>3. ASSUME NEW i \in 1 .. n + 1
        PROVE  q[i] = k[Len(k) - (n + 1) + i]
    <2>1. CASE i = n + 1
      <3>1. Len(k) - (n + 1) + i = Len(l) + 1
        BY <1>0, <1>1, <2>1
      <3> QED
        BY <1>1, <2>1, <3>1 DEF Extends
    <2>2. CASE i # n + 1
      <3>1. i \in 1 .. n /\ a + i \in 1 .. Len(l)
        BY <1>0, <2>2
      <3>2. q[i] = l[a + i]
        BY <3>1 DEF Extends, Settled
      <3> QED
        BY <1>1, <1>2, <3>1, <3>2
    <2> QED
      BY <2>1, <2>2
  <1>4. b = After(k, a)
    BY <1>1 DEF Settled
  <1>5. Settled(k, s, q, n + 1, b)
    BY <1>2, <1>3, <1>4 DEF Settled
  <1> QED
    BY <1>5 DEF k


-----------------------------------------------------------------------------
(* The types are kept.                                                     *)

\* The marker is an item, and no watch is a watch.
LEMMA NoWatchIsAWatch == Marker \in Item /\ NoWatch \in Watching
  <1>1. <<>> \in Seq(Item)
    BY EmptySeq
  <1> QED
    BY <1>1 DEF Item, NoWatch, Watching, WatchPCs

\* So is a watch that is to be opened again.
LEMMA ReopeningIsAWatch == ASSUME NEW w \in Watching PROVE Reopening(w) \in Watching
  <1>1. <<>> \in Seq(Item)
    BY EmptySeq
  <1> QED
    BY <1>1 DEF Reopening, Watching, WatchPCs

\* And one just opened.
LEMMA OpenedIsAWatch ==
  ASSUME Typed, NEW k \in Kinds
  PROVE  /\ Opened(k) \in Watching
         /\ Replay(log[k]) \in Seq(Item)
         /\ Opened(k).sub = Append(Replay(log[k]), Marker)
  <1>1. log[k] \in Seq(Entry) /\ watch[k] \in Watching
    BY DEF Typed
  <1>2. Replay(log[k]) \in Seq(Item)
    <2>1. Replay(log[k]) \in Seq(Entry)
      BY <1>1, ReplayIsTheContents
    <2> QED
      BY <2>1, SeqMonotonic DEF Item
  <1>3. Append(Replay(log[k]), Marker) \in Seq(Item)
    BY <1>2, NoWatchIsAWatch, AppendProperties
  <1>4. Len(log[k]) \in Nat
    BY <1>1, LenProperties
  <1> QED
    BY <1>1, <1>2, <1>3, <1>4 DEF Opened, Watching, WatchPCs

\* An open that fails costs at most one of the failures that are left.
LEMMA FailureCosts ==
  ASSUME left \in Lefts, OpenFails
  PROVE  left' \in Lefts /\ left'.losses = left.losses
  BY DEF OpenFails, Lefts

\* Steps of the store and the connection.
LEMMA TypedStore ==
  ASSUME Typed,
         \/ \E k \in Kinds, x \in Keys, v \in Vals : Write(k, x, v)
         \/ Disconnect \/ Reconnect \/ StreamLost \/ BumpGeneration \/ Report
  PROVE  Typed'
  <1> USE DEF Nobody, Connection
  <1>0. watch \in [Kinds -> Watching]
    BY DEF Typed
  <1>1. ASSUME NEW k \in Kinds, NEW x \in Keys, NEW v \in Vals, Write(k, x, v)
        PROVE  Typed'
    <2> DEFINE e == [key |-> x, val |-> v]
    <2>1. e \in Entry /\ e \in Item
      BY DEF Entry, Item
    <2>2. log[k] \in Seq(Entry) /\ watch[k].sub \in Seq(Item)
      BY DEF Typed, Watching
    <2>3. Append(log[k], e) \in Seq(Entry) /\ Append(watch[k].sub, e) \in Seq(Item)
      BY <2>1, <2>2, AppendProperties
    <2> HIDE DEF e
    <2>4. log' = [log EXCEPT ![k] = Append(@, e)]
      BY <1>1 DEF Write, e
    <2>5. log' \in [Kinds -> Seq(Entry)]
      BY <2>3, <2>4 DEF Typed
    <2>6. watch' \in [Kinds -> Watching]
      <3>1. watch' = IF watch[k].on THEN [watch EXCEPT ![k].sub = Append(@, e)] ELSE watch
        BY <1>1 DEF Write, e
      <3> QED
        BY <1>0, <2>3, <3>1 DEF Watching
    <2>7. left' \in Lefts
      <3>1. left \in Lefts /\ left' = [left EXCEPT !.writes = @ - 1]
        BY <1>1 DEF Write, Typed
      <3> QED
        BY <3>1 DEF Lefts
    <2> QED
      BY <1>1, <2>5, <2>6, <2>7 DEF Write, Typed
  <1>2. CASE Disconnect
    <2>1. watch' \in [Kinds -> Watching]
      BY <1>0, <1>2 DEF Disconnect, Watching
    <2>2. left' \in Lefts
      <3>1. left \in Lefts /\ left' = [left EXCEPT !.drops = @ - 1]
        BY <1>2 DEF Disconnect, Typed
      <3> QED
        BY <3>1 DEF Lefts
    <2> QED
      BY <1>2, <2>1, <2>2 DEF Disconnect, Typed
  <1>3. CASE Reconnect
    BY <1>3 DEF Reconnect, Typed
  <1>4. CASE StreamLost
    <2>1. watch' \in [Kinds -> Watching]
      BY <1>0, <1>4 DEF StreamLost, Watching
    <2>2. log' \in [Kinds -> Seq(Entry)]
      BY <1>4, EmptySeq DEF StreamLost
    <2>3. left' \in Lefts
      <3>1. left \in Lefts /\ left' = [left EXCEPT !.losses = @ - 1]
        BY <1>4 DEF StreamLost, Typed
      <3> QED
        BY <3>1 DEF Lefts
    <2> QED
      BY <1>4, <2>1, <2>2, <2>3 DEF StreamLost, Typed
  <1>5. CASE BumpGeneration
    BY <1>5 DEF BumpGeneration, Move, Typed
  <1>6. CASE Report
    <2>1. watch' \in [Kinds -> Watching]
      BY <1>0, <1>6, ReopeningIsAWatch DEF Report
    <2> QED
      BY <1>6, <2>1 DEF Report, Typed
  <1> QED
    BY <1>1, <1>2, <1>3, <1>4, <1>5, <1>6

\* Steps of the watches.
LEMMA TypedWatch ==
  ASSUME Typed, NEW k \in Kinds, WatchStep(k) \/ ReopenFailed(k)
  PROVE  Typed'
  <1>0. watch \in [Kinds -> Watching] /\ watch[k] \in Watching
    BY DEF Typed
  <1>w. SUFFICES ASSUME watch' \in [Kinds -> Watching] => Typed'
                 PROVE  watch' \in [Kinds -> Watching]
    <2>1. CASE Send(k)
      <3>1. chan[k] \in Seq(Sent) /\ [gen |-> watch[k].gen, e |-> watch[k].hold] \in Sent
        BY DEF Typed, Watching, Sent
      <3>2. Append(chan[k], [gen |-> watch[k].gen, e |-> watch[k].hold]) \in Seq(Sent)
        BY <3>1, AppendProperties
      <3>3. chan' = [chan EXCEPT ![k] = Append(@, [gen |-> watch[k].gen, e |-> watch[k].hold])]
        BY <2>1 DEF Send
      <3>4. chan' \in [Kinds -> Seq(Sent)]
        BY <3>2, <3>3 DEF Typed
      <3> QED
        BY <2>1, <3>4 DEF Send, Keep, Typed
    <2>2. CASE SelectClosed(k)
      BY <2>2 DEF SelectClosed, Keep, Move, Typed
    <2>3. CASE ReopenFailed(k)
      BY <2>3, FailureCosts DEF ReopenFailed, Typed
    <2>4. CASE Check(k) \/ SelectMoved(k) \/ SelectEntry(k) \/ GenState(k) \/ OpenWatcher(k)
      BY <2>4 DEF Check, SelectMoved, SelectEntry, GenState, OpenWatcher, Keep, Typed
    <2> QED
      BY <2>1, <2>2, <2>3, <2>4 DEF WatchStep
  <1>1. CASE Check(k)
    BY <1>0, <1>1, ReopeningIsAWatch DEF Check, Watching, WatchPCs
  <1>2. CASE SelectMoved(k)
    BY <1>0, <1>2, ReopeningIsAWatch DEF SelectMoved
  <1>3. CASE SelectEntry(k)
    <2>1. Head(watch[k].sub) \in Item /\ Tail(watch[k].sub) \in Seq(Item)
      BY <1>0, <1>3, HeadTailProperties DEF SelectEntry, Watching
    <2> DEFINE mark == IF Head(watch[k].sub) = Marker THEN watch[k].gen ELSE watch[k].mark
    <2>2. mark \in Int
      BY <1>0 DEF Watching
    <2>3. watch' = [watch EXCEPT ![k].pc = "send", ![k].hold = Head(watch[k].sub),
                                 ![k].sub = Tail(@), ![k].mark = mark]
      BY <1>3 DEF SelectEntry
    <2> HIDE DEF mark
    <2> QED
      BY <1>0, <2>1, <2>2, <2>3 DEF Watching, WatchPCs
  <1>4. CASE SelectClosed(k)
    <2>1. [watch[k] EXCEPT !.pc = "moving"] \in Watching
      BY <1>0 DEF Watching, WatchPCs
    <2> QED
      BY <1>0, <1>4, <2>1, ReopeningIsAWatch DEF SelectClosed
  <1>5. CASE Send(k)
    BY <1>0, <1>5, NoWatchIsAWatch DEF Send, Watching, WatchPCs
  <1>6. CASE GenState(k)
    BY <1>0, <1>6 DEF GenState, Watching, WatchPCs, Typed
  <1>7. CASE OpenWatcher(k)
    BY <1>0, <1>7, OpenedIsAWatch DEF OpenWatcher
  <1>8. CASE ReopenFailed(k)
    BY <1>0, <1>8 DEF ReopenFailed, Watching, WatchPCs
  <1> QED
    BY <1>1, <1>2, <1>3, <1>4, <1>5, <1>6, <1>7, <1>8 DEF WatchStep


\* Steps of Caches.Run and of the caches.
LEMMA TypedRun ==
  ASSUME Typed,
         \/ RunStart \/ RunReturns
         \/ \E k \in Kinds : RunWatch(k) \/ RunOpened(k) \/ WatchDone(k) \/ RunFails(k)
  PROVE  Typed'
  <1>0. watch \in [Kinds -> Watching] /\ KindCount \in Nat
    BY BarrierAssumption DEF Typed
  <1>1. CASE RunStart
    <2>1. cache' \in [Kinds -> [gen: Nat, synced: BOOLEAN, val: [Keys -> Vals]]]
      BY <1>1 DEF RunStart, Typed
    <2>2. attempt' \in [pc: {"idle", "opening", "running", "abandon"}, gen: Nat, next: Nat]
      BY <1>1 DEF RunStart, Typed
    <2> QED
      BY <1>1, <2>1, <2>2 DEF RunStart, Typed
  <1>2. CASE RunReturns
    BY <1>2 DEF RunReturns, Typed
  <1>3. ASSUME NEW k \in Kinds, RunWatch(k)
        PROVE  Typed'
    <2>1. watch' \in [Kinds -> Watching]
      <3>1. [NoWatch EXCEPT !.pc = "first", !.gen = gen] \in Watching
        BY NoWatchIsAWatch DEF Watching, WatchPCs, Typed
      <3> QED
        BY <1>0, <1>3, <3>1 DEF RunWatch
    <2>2. attempt' \in [pc: {"idle", "opening", "running", "abandon"}, gen: Nat, next: Nat]
      BY <1>3 DEF RunWatch, Typed
    <2> QED
      BY <1>3, <2>1, <2>2 DEF RunWatch, Typed
  <1>4. ASSUME NEW k \in Kinds, RunOpened(k)
        PROVE  Typed'
    <2>1. watch' \in [Kinds -> Watching]
      BY <1>0, <1>4, OpenedIsAWatch DEF RunOpened
    <2>2. attempt' \in [pc: {"idle", "opening", "running", "abandon"}, gen: Nat, next: Nat]
      <3>1. k + 1 \in Nat
        BY <1>0 DEF Kinds
      <3> QED
        BY <1>4, <3>1 DEF RunOpened, Typed
    <2> QED
      BY <1>4, <2>1, <2>2 DEF RunOpened, Typed
  <1>5. ASSUME NEW k \in Kinds, WatchDone(k)
        PROVE  Typed'
    BY <1>5, NoWatchIsAWatch DEF WatchDone, Typed
  <1>6. ASSUME NEW k \in Kinds, RunFails(k)
        PROVE  Typed'
    <2>1. left' \in Lefts
      BY <1>6, FailureCosts DEF RunFails, Typed
    <2>2. attempt' \in [pc: {"idle", "opening", "running", "abandon"}, gen: Nat, next: Nat]
      BY <1>6 DEF RunFails, Typed
    <2> QED
      BY <1>6, <2>1, <2>2, NoWatchIsAWatch DEF RunFails, Typed
  <1> QED
    BY <1>1, <1>2, <1>3, <1>4, <1>5, <1>6

\* An item that is applied.
LEMMA TypedApply ==
  ASSUME Typed, NEW k \in Kinds, Apply(k)
  PROVE  Typed'
  <1> DEFINE h == Head(chan[k])
  <1> DEFINE c == Rebuilt(cache[k], h.gen)
  <1>1. h \in Sent /\ Tail(chan[k]) \in Seq(Sent)
    BY HeadTailProperties DEF Apply, Typed
  <1>2. c \in [gen: Nat, synced: BOOLEAN, val: [Keys -> Vals]]
    <2>1. Empty \in [Keys -> Vals]
      BY DEF Empty, Vals
    <2> QED
      BY <1>1, <2>1 DEF Rebuilt, Typed, Sent
  <1>3. chan' \in [Kinds -> Seq(Sent)]
    BY <1>1 DEF Apply, Typed
  <1>4. cache' = [cache EXCEPT ![k] = IF h.e = Marker THEN [c EXCEPT !.synced = TRUE]
                                                      ELSE [c EXCEPT !.val[h.e.key] = h.e.val]]
    BY DEF Apply
  <1>5. h.e # Marker => h.e.key \in Keys /\ h.e.val \in Vals
    BY <1>1 DEF Sent, Item, Entry
  <1> HIDE DEF h, c
  <1>6. cache' \in [Kinds -> [gen: Nat, synced: BOOLEAN, val: [Keys -> Vals]]]
    BY <1>2, <1>4, <1>5 DEF Typed
  <1> QED
    BY <1>3, <1>6 DEF Apply, Typed


-----------------------------------------------------------------------------
(* What a step leaves alone.                                               *)

\* The step does not touch what lies between the store and the cache of k.
Same(k) == UNCHANGED <<log[k], watch[k], chan[k], cache[k]>>

\* Then the pipe is the same.
LEMMA PipeIsSame ==
  ASSUME NEW k \in Kinds, Same(k)
  PROVE  /\ Pipe(k)' = Pipe(k) /\ Total(k)' = Total(k)
         /\ gen' = gen => (Fresh(k)' <=> Fresh(k)) /\ (IsSynced(k)' <=> IsSynced(k))
                          /\ Basis(k)' = Basis(k)
  BY DEF Same, Pipe, Pieces, Length, Total, InHand, Fresh, Basis, IsSynced, Subscribed

\* And in one generation the line holds on.
LEMMA LineIsSame ==
  ASSUME NEW k \in Kinds, Same(k), gen' = gen, Line(k)
  PROVE  Line(k)'
  <1>1. UNCHANGED <<log[k], watch[k], chan[k], cache[k], Pipe(k), Total(k), Basis(k)>>
    BY PipeIsSame DEF Same
  <1>2. (Fresh(k)' <=> Fresh(k)) /\ (IsSynced(k)' <=> IsSynced(k))
    BY PipeIsSame
  <1>3. Settled(log[k], watch[k].since, Pipe(k), Total(k), cache[k].val)'
           <=> Settled(log[k], watch[k].since, Pipe(k), Total(k), cache[k].val)
    BY <1>1 DEF Settled
  <1>4. \A z, m : Filling(log[k], watch[k].since, Pipe(k), Total(k), Basis(k), z, m)'
           <=> Filling(log[k], watch[k].since, Pipe(k), Total(k), Basis(k), z, m)
    BY <1>1 DEF Filling
  <1> QED
    BY <1>1, <1>2, <1>3, <1>4 DEF Line

\* Everything that is said of the kind holds on, if the step does not touch the
\* rest either.
LEMMA SoundIsSame ==
  ASSUME NEW k \in Kinds, Same(k), Sound(k), UNCHANGED <<conn, gen, mover, attempt>>,
         left'.losses = left.losses
  PROVE  Sound(k)'
  <1>1. Line(k)'
    BY LineIsSame DEF Sound
  <1>2. Ordered(k)'
    BY DEF Sound, Same, Ordered
  <1>3. Cuts(k)'
    BY DEF Sound, Same, Cuts, Subscribed, Behind
  <1>4. Attempts(k)'
    BY DEF Sound, Same, Attempts
  <1>5. Known(k)'
    BY DEF Sound, Same, Known, KnownItem, InLog
  <1> QED
    BY <1>1, <1>2, <1>3, <1>4, <1>5 DEF Sound


\* A watch that moves an item along keeps its line.
LEMMA LineIsKept ==
  ASSUME NEW k \in Kinds, Typed, Line(k), UNCHANGED <<log[k], cache[k], gen>>,
         Fresh(k)' =>
            /\ Fresh(k)
            /\ watch'[k].since = watch[k].since
            /\ Pipe(k)' = Pipe(k) /\ Total(k)' = Total(k)
            /\ Len(chan[k]) =< Len(chan'[k]) /\ Len(chan'[k]) \in Nat
            /\ \A i \in 1 .. Len(chan'[k]) :
                  chan'[k][i].gen < gen <=> i =< Len(chan[k]) /\ chan[k][i].gen < gen
  PROVE  Line(k)'
  <1> SUFFICES ASSUME Fresh(k)'
               PROVE  (/\ watch[k].since =< Len(log[k])
                       /\ IF IsSynced(k)
                          THEN Settled(log[k], watch[k].since, Pipe(k), Total(k), cache[k].val)
                          ELSE \E z \in 0 .. Len(chan[k]), m \in 1 .. Total(k) :
                                  /\ \A i \in 1 .. Len(chan[k]) : chan[k][i].gen < gen <=> i =< z
                                  /\ Filling(log[k], watch[k].since, Pipe(k), Total(k), Basis(k), z, m))'
    BY DEF Line
  <1>0. chan[k] \in Seq(Sent) /\ Len(chan[k]) \in Nat
    BY LenProperties DEF Typed
  <1>1. UNCHANGED <<log[k], cache[k], gen, Pipe(k), Total(k), Basis(k), watch[k].since>>
    BY DEF Basis
  <1>2. IsSynced(k)' <=> IsSynced(k)
    BY DEF IsSynced
  <1>3. Settled(log[k], watch[k].since, Pipe(k), Total(k), cache[k].val)'
           <=> Settled(log[k], watch[k].since, Pipe(k), Total(k), cache[k].val)
    BY <1>1 DEF Settled
  <1>4. \A z, m : Filling(log[k], watch[k].since, Pipe(k), Total(k), Basis(k), z, m)'
           <=> Filling(log[k], watch[k].since, Pipe(k), Total(k), Basis(k), z, m)
    BY <1>1 DEF Filling
  <1>5. CASE IsSynced(k)
    BY <1>1, <1>2, <1>3, <1>5 DEF Line
  <1>6. CASE ~IsSynced(k)
    <2>1. PICK z \in 0 .. Len(chan[k]), m \in 1 .. Total(k) :
             /\ \A i \in 1 .. Len(chan[k]) : chan[k][i].gen < gen <=> i =< z
             /\ Filling(log[k], watch[k].since, Pipe(k), Total(k), Basis(k), z, m)
      BY <1>6 DEF Line
    <2>2. z \in 0 .. Len(chan'[k]) /\ \A i \in 1 .. Len(chan'[k]) : chan'[k][i].gen < gen' <=> i =< z
      BY <1>0, <2>1, SMTT(30)
    <2>3. Filling(log[k], watch[k].since, Pipe(k), Total(k), Basis(k), z, m)'
      BY <1>4, <2>1
    <2>4. m \in 1 .. Total(k)' /\ watch'[k].since =< Len(log'[k])
      BY <1>1 DEF Line
    <2> QED
      BY <1>2, <1>6, <2>2, <2>3, <2>4
  <1> QED
    BY <1>5, <1>6

\* A step of one watch is no step of another.
LEMMA OneWatchSteps ==
  ASSUME NEW k \in Kinds, NEW j \in Kinds, j # k, Typed, Sound(j),
         UNCHANGED <<conn, gen, mover, attempt, log, cache>>, left'.losses = left.losses,
         watch'[j] = watch[j], chan'[j] = chan[j]
  PROVE  Sound(j)'
  BY SoundIsSame DEF Same


-----------------------------------------------------------------------------
(* The steps of a watch inside one generation.                             *)

\* Its subscription goes, or is about to: what it delivered was of an earlier
\* generation.
LEMMA WatchReopens ==
  ASSUME NEW k \in Kinds, Typed, Sound(k), UNCHANGED <<conn, gen, mover, attempt, log, cache, chan>>,
         left'.losses = left.losses, watch[k].pc \notin {"none", "first", "moving"},
         watch'[k] = Reopening(watch[k]),
         conn # "down" => Behind(k)
  PROVE  Sound(k)'
  <1>0. watch[k] \in Watching
    BY DEF Typed
  <1>1. /\ watch'[k].pc = "reopen" /\ watch'[k].gen = watch[k].gen /\ watch'[k].sub = <<>>
        /\ watch'[k].on = FALSE /\ watch'[k].closed = FALSE /\ watch'[k].hold = watch[k].hold
    BY <1>0 DEF Reopening, Watching
  <1>2. Ordered(k)'
    BY <1>1 DEF Sound, Ordered
  <1>3. Cuts(k)'
    BY <1>1 DEF Sound, Cuts, Behind, Subscribed
  <1>4. Attempts(k)'
    BY <1>1 DEF Sound, Attempts
  <1>5. Known(k)'
    <2>1. Len(watch'[k].sub) = 0
      BY <1>1, EmptySeq
    <2> QED
      BY <1>1, <2>1 DEF Sound, Known, KnownItem, InLog
  <1>6. Line(k)'
    BY <1>1 DEF Line, Fresh, Subscribed
  <1> QED
    BY <1>2, <1>3, <1>4, <1>5, <1>6 DEF Sound

\* An earlier generation's watch has delivered nothing of this one.
LEMMA EarlierIsBehind ==
  ASSUME NEW k \in Kinds, Typed, Ordered(k), watch[k].pc # "none", watch[k].gen < gen
  PROVE  Behind(k)
  <1>1. gen \in Nat /\ watch[k].gen \in Nat /\ cache[k].gen \in Nat
    BY DEF Typed, Watching
  <1>2. \A i \in 1 .. Len(chan[k]) : chan[k][i].gen \in Nat
    <2>1. chan[k] \in Seq(Sent)
      BY DEF Typed
    <2>2. \A i \in 1 .. Len(chan[k]) : chan[k][i] \in Sent
      BY <2>1, ElementOfSeq
    <2> QED
      BY <2>2 DEF Sent
  <1> QED
    BY <1>1, <1>2 DEF Ordered, Behind


\* Looking, and finding the generation as it was.
LEMMA WatchLooks ==
  ASSUME NEW k \in Kinds, Typed, Sound(k), Check(k), watch[k].gen = gen
  PROVE  Sound(k)'
  <1>0. watch[k] \in Watching /\ watch \in [Kinds -> Watching]
    BY DEF Typed
  <1>1. watch[k].pc = "check" /\ watch'[k] = [watch[k] EXCEPT !.pc = "select"]
    BY <1>0 DEF Check
  <1>2. /\ watch'[k].pc = "select" /\ watch'[k].gen = watch[k].gen
        /\ watch'[k].sub = watch[k].sub /\ watch'[k].on = watch[k].on
        /\ watch'[k].closed = watch[k].closed /\ watch'[k].hold = watch[k].hold
        /\ watch'[k].since = watch[k].since
    BY <1>0, <1>1 DEF Watching
  <1>3. UNCHANGED <<conn, gen, mover, attempt, log, cache, chan, left>>
    BY DEF Check, Keep
  <1>4. Ordered(k)'
    BY <1>1, <1>2, <1>3 DEF Sound, Ordered
  <1>5. Cuts(k)'
    BY <1>1, <1>2, <1>3 DEF Sound, Cuts, Behind, Subscribed
  <1>6. Attempts(k)'
    BY <1>1, <1>2, <1>3 DEF Sound, Attempts
  <1>7. Known(k)'
    BY <1>1, <1>2, <1>3 DEF Sound, Known, KnownItem, InLog
  <1>8. Line(k)'
    <2>1. Fresh(k)' => Fresh(k)
      BY <1>1, <1>2, <1>3 DEF Fresh, Subscribed
    <2>2. Pipe(k)' = Pipe(k) /\ Total(k)' = Total(k)
      BY <1>1, <1>2, <1>3 DEF Pipe, Total, InHand, Pieces, Length
    <2>3. Len(chan[k]) =< Len(chan'[k]) /\ Len(chan'[k]) \in Nat
      BY <1>3, LenProperties DEF Typed
    <2> QED
      BY <1>2, <1>3, <2>1, <2>2, <2>3, LineIsKept DEF Sound
  <1> QED
    BY <1>4, <1>5, <1>6, <1>7, <1>8 DEF Sound

\* Taking an item from the subscription.
LEMMA WatchTakes ==
  ASSUME NEW k \in Kinds, Typed, Sound(k), SelectEntry(k)
  PROVE  Sound(k)'
  <1> DEFINE s == watch[k].sub
  <1>0. watch[k] \in Watching /\ watch \in [Kinds -> Watching] /\ s \in Seq(Item) /\ s # <<>>
    BY DEF Typed, SelectEntry, Watching
  <1>1. Head(s) = s[1] /\ Len(Tail(s)) = Len(s) - 1 /\ Len(s) \in Nat /\ Len(s) > 0
        /\ \A i \in 1 .. Len(Tail(s)) : Tail(s)[i] = s[i + 1]
    BY <1>0, HeadTailProperties, EmptySeq, LenProperties
  <1>2. /\ watch[k].pc = "select"
        /\ watch'[k].pc = "send" /\ watch'[k].gen = watch[k].gen
        /\ watch'[k].sub = Tail(s) /\ watch'[k].on = watch[k].on
        /\ watch'[k].closed = watch[k].closed /\ watch'[k].hold = Head(s)
        /\ watch'[k].since = watch[k].since
    BY <1>0 DEF SelectEntry, Watching
  <1>3. UNCHANGED <<conn, gen, mover, attempt, log, cache, chan, left>>
    BY DEF SelectEntry, Keep
  <1> HIDE DEF s
  <1>4. Ordered(k)'
    BY <1>2, <1>3 DEF Sound, Ordered
  <1>5. Cuts(k)'
    BY <1>2, <1>3 DEF Sound, Cuts, Behind, Subscribed
  <1>6. Attempts(k)'
    BY <1>2, <1>3 DEF Sound, Attempts
  <1>7. Known(k)'
    <2>1. CASE Reruns
      <3>1. \A i \in 1 .. Len(s) : KnownItem(k, s[i])
        BY <2>1 DEF Sound, Known, s
      <3>2. KnownItem(k, Head(s)) /\ \A i \in 1 .. Len(Tail(s)) : KnownItem(k, Tail(s)[i])
        <4>1. 1 \in 1 .. Len(s) /\ \A i \in 1 .. Len(Tail(s)) : i + 1 \in 1 .. Len(s)
          BY <1>1
        <4> QED
          BY <1>1, <3>1, <4>1
      <3> QED
        BY <2>1, <1>2, <1>3, <3>2 DEF Sound, Known, KnownItem, InLog
    <2>2. CASE ~Reruns
      BY <2>2, <1>3 DEF Sound, Known
    <2> QED
      BY <2>1, <2>2
  <1>8. Line(k)'
    <2>1. Fresh(k)' => Fresh(k)
      BY <1>2, <1>3 DEF Fresh, Subscribed
    <2>3. Len(chan[k]) =< Len(chan'[k]) /\ Len(chan'[k]) \in Nat /\ Len(chan[k]) \in Nat
      BY <1>3, LenProperties DEF Typed
    <2>2. Pipe(k)' = Pipe(k) /\ Total(k)' = Total(k)
      <3>1. /\ InHand(k) = 0 /\ InHand(k)' = 1
            /\ Pipe(k)' = Pieces(chan[k], 1, Head(s), Tail(s)) /\ Pipe(k) = Pieces(chan[k], 0, watch[k].hold, s)
            /\ Total(k)' = Length(chan[k], 1, Tail(s)) /\ Total(k) = Length(chan[k], 0, s)
        BY <1>2, <1>3 DEF InHand, Pipe, Total, Pieces, Length, s
      <3> QED
        BY <1>0, <3>1, ItemIsTaken DEF Typed
    <2> QED
      BY <1>2, <1>3, <2>1, <2>2, <2>3, LineIsKept DEF Sound
  <1> QED
    BY <1>4, <1>5, <1>6, <1>7, <1>8 DEF Sound


\* Sending the item in hand.
LEMMA WatchSends ==
  ASSUME NEW k \in Kinds, Typed, Sound(k), Send(k)
  PROVE  Sound(k)'
  <1> DEFINE x == [gen |-> watch[k].gen, e |-> watch[k].hold]
  <1> DEFINE c == chan[k]
  <1>0. watch[k] \in Watching /\ watch \in [Kinds -> Watching] /\ c \in Seq(Sent)
        /\ chan \in [Kinds -> Seq(Sent)]
    BY DEF Typed
  <1>1. x \in Sent /\ x.gen = watch[k].gen /\ x.e = watch[k].hold
    BY <1>0 DEF Sent, Watching
  <1>2. /\ watch[k].pc = "send"
        /\ watch'[k].pc = "check" /\ watch'[k].gen = watch[k].gen
        /\ watch'[k].sub = watch[k].sub /\ watch'[k].on = watch[k].on
        /\ watch'[k].closed = watch[k].closed /\ watch'[k].hold = Marker
        /\ watch'[k].since = watch[k].since
    BY <1>0 DEF Send, Watching
  <1>3. UNCHANGED <<conn, gen, mover, attempt, log, cache, left>> /\ chan'[k] = Append(c, x)
    BY <1>0 DEF Send, Keep
  <1> HIDE DEF x, c
  <1>4. /\ Append(c, x) \in Seq(Sent) /\ Len(Append(c, x)) = Len(c) + 1 /\ Len(c) \in Nat
        /\ \A i \in 1 .. Len(c) : Append(c, x)[i] = c[i]
        /\ Append(c, x)[Len(c) + 1] = x
    BY <1>0, <1>1, AppendProperties, LenProperties
  <1>5. \A i \in 1 .. Len(chan'[k]) :
            \/ i \in 1 .. Len(c) /\ chan'[k][i] = c[i]
            \/ i = Len(c) + 1 /\ chan'[k][i] = x
    BY <1>3, <1>4
  <1>6. Ordered(k)'
    <2>1. \A i \in 1 .. Len(c) : cache[k].gen =< c[i].gen /\ c[i].gen =< gen /\ c[i].gen =< x.gen
      BY <1>1, <1>2 DEF Sound, Ordered, c
    <2>2. cache[k].gen =< x.gen /\ x.gen =< gen /\ x.gen \in Nat
      BY <1>0, <1>1, <1>2 DEF Sound, Ordered, Watching
    <2>3. \A i, j \in 1 .. Len(c) : i =< j => c[i].gen =< c[j].gen
      BY DEF Sound, Ordered, c
    <2>4. \A i \in 1 .. Len(chan'[k]) :
             cache[k].gen =< chan'[k][i].gen /\ chan'[k][i].gen =< gen /\ chan'[k][i].gen =< x.gen
      BY <1>5, <2>1, <2>2
    <2>5. \A i, j \in 1 .. Len(chan'[k]) : i =< j => chan'[k][i].gen =< chan'[k][j].gen
      <3> SUFFICES ASSUME NEW i \in 1 .. Len(chan'[k]), NEW j \in 1 .. Len(chan'[k]), i =< j
                   PROVE  chan'[k][i].gen =< chan'[k][j].gen
        OBVIOUS
      <3>1. CASE j = Len(c) + 1
        BY <1>4, <1>5, <2>4, <3>1
      <3>2. CASE j # Len(c) + 1
        BY <1>3, <1>4, <1>5, <2>3, <3>2
      <3> QED
        BY <3>1, <3>2
    <2>6. cache[k].gen =< gen
      BY DEF Sound, Ordered
    <2> QED
      BY <1>1, <1>2, <1>3, <2>2, <2>4, <2>5, <2>6 DEF Ordered
  <1>7. Cuts(k)'
    BY <1>2, <1>3 DEF Sound, Cuts, Subscribed
  <1>8. Attempts(k)'
    BY <1>2, <1>3 DEF Sound, Attempts
  <1>9. Known(k)'
    <2>1. CASE Reruns
      <3>1. KnownItem(k, x.e) /\ \A i \in 1 .. Len(c) : KnownItem(k, c[i].e)
        BY <1>1, <2>1 DEF Sound, Known, c
      <3>2. \A i \in 1 .. Len(chan'[k]) : KnownItem(k, chan'[k][i].e)
        BY <1>5, <3>1
      <3> QED
        BY <2>1, <1>2, <1>3, <3>2, SMTT(30) DEF Sound, Known, KnownItem, InLog
    <2>2. CASE ~Reruns
      BY <2>2, <1>3 DEF Sound, Known
    <2> QED
      BY <2>1, <2>2
  <1>10. Line(k)'
    <2>1. Fresh(k)' => Fresh(k) /\ x.gen = gen
      BY <1>1, <1>2, <1>3 DEF Fresh, Subscribed
    <2>2. Pipe(k)' = Pipe(k) /\ Total(k)' = Total(k)
      <3>1. /\ Pipe(k)' = Pieces(Append(c, x), 0, Marker, watch[k].sub)
            /\ Pipe(k) = Pieces(c, 1, watch[k].hold, watch[k].sub)
            /\ Total(k)' = Length(Append(c, x), 0, watch[k].sub)
            /\ Total(k) = Length(c, 1, watch[k].sub)
        BY <1>2, <1>3 DEF InHand, Pipe, Total, Pieces, Length, c
      <3>2. watch[k].gen \in Nat /\ watch[k].hold \in Item /\ watch[k].sub \in Seq(Item)
        BY <1>0 DEF Watching
      <3> QED
        BY <1>0, <3>1, <3>2, ItemIsSent DEF x
    <2>3. \A i \in 1 .. Len(chan'[k]) :
             x.gen = gen => (chan'[k][i].gen < gen <=> i =< Len(c) /\ c[i].gen < gen)
      <3>1. gen \in Nat
        BY DEF Typed
      <3> QED
        BY <1>4, <1>5, <3>1
    <2> QED
      BY <1>2, <1>3, <1>4, <2>1, <2>2, <2>3, LineIsKept, SMTT(30) DEF Sound, c
  <1> QED
    BY <1>6, <1>7, <1>8, <1>9, <1>10 DEF Sound

\* Reading the generation before opening again.
LEMMA WatchReads ==
  ASSUME NEW k \in Kinds, Typed, Sound(k), GenState(k) \/ ReopenFailed(k)
  PROVE  Sound(k)'
  <1>0. watch[k] \in Watching /\ watch \in [Kinds -> Watching] /\ gen \in Nat
    BY DEF Typed
  <1>1. /\ watch[k].pc \in {"reopen", "opening"} /\ watch'[k].pc \in {"reopen", "opening"}
        /\ watch'[k].gen \in {watch[k].gen, gen}
        /\ watch'[k].sub = watch[k].sub /\ watch'[k].on = watch[k].on
        /\ watch'[k].closed = watch[k].closed /\ watch'[k].hold = watch[k].hold
    BY <1>0 DEF GenState, ReopenFailed, Watching
  <1>2. UNCHANGED <<conn, gen, mover, attempt, log, cache, chan>> /\ left'.losses = left.losses
    BY FailureCosts DEF GenState, ReopenFailed, Keep, Typed
  <1>3. Ordered(k)'
    BY <1>0, <1>1, <1>2 DEF Sound, Ordered
  <1>4. Cuts(k)'
    BY <1>1, <1>2 DEF Sound, Cuts, Behind, Subscribed
  <1>5. Attempts(k)'
    BY <1>1, <1>2 DEF Sound, Attempts
  <1>6. Known(k)'
    BY <1>1, <1>2 DEF Sound, Known, KnownItem, InLog
  <1>7. Line(k)'
    BY <1>1 DEF Line, Fresh, Subscribed
  <1> QED
    BY <1>3, <1>4, <1>5, <1>6, <1>7 DEF Sound


\* A subscription just opened holds the contents, the marker, and items of keys
\* the stream has.
LEMMA OpenedHolds ==
  ASSUME NEW k \in Kinds, Typed
  PROVE  /\ Opened(k).pc = "check" /\ Opened(k).on = TRUE /\ Opened(k).since = Len(log[k])
         /\ Opened(k).gen = watch[k].gen /\ Opened(k).closed = watch[k].closed
         /\ Opened(k).hold = watch[k].hold
         /\ Opened(k).sub = Append(Replay(log[k]), Marker)
         /\ Len(Opened(k).sub) = Len(Replay(log[k])) + 1 /\ Len(Replay(log[k])) \in Nat
         /\ \A i \in 1 .. Len(Replay(log[k])) : Opened(k).sub[i] = Replay(log[k])[i]
         /\ Opened(k).sub[Len(Replay(log[k])) + 1] = Marker
         /\ \A i \in 1 .. Len(Opened(k).sub) : KnownItem(k, Opened(k).sub[i])
  <1> DEFINE r == Replay(log[k])
  <1>0. watch[k] \in Watching /\ log[k] \in Seq(Entry)
    BY DEF Typed
  <1>1. /\ Opened(k).pc = "check" /\ Opened(k).on = TRUE /\ Opened(k).since = Len(log[k])
        /\ Opened(k).gen = watch[k].gen /\ Opened(k).closed = watch[k].closed
        /\ Opened(k).hold = watch[k].hold
        /\ Opened(k).sub = Append(r, Marker)
    BY <1>0 DEF Opened, Watching
  <1>2. r \in Seq(Item) /\ Marker \in Item
    BY OpenedIsAWatch, NoWatchIsAWatch
  <1>3. \A i \in 1 .. Len(r) : \E m \in 1 .. Len(log[k]) : log[k][m].key = r[i].key
    BY <1>0, ReplayIsTheContents
  <1> HIDE DEF r
  <1>4. /\ Len(Append(r, Marker)) = Len(r) + 1 /\ Len(r) \in Nat
        /\ \A i \in 1 .. Len(r) : Append(r, Marker)[i] = r[i]
        /\ Append(r, Marker)[Len(r) + 1] = Marker
    BY <1>2, AppendProperties, LenProperties
  <1>5. \A i \in 1 .. Len(Append(r, Marker)) : KnownItem(k, Append(r, Marker)[i])
    BY <1>3, <1>4 DEF KnownItem, InLog
  <1> QED
    BY <1>1, <1>4, <1>5 DEF r

\* Then its line holds, if the cache has nothing that the stream has not.
LEMMA LineOpens ==
  ASSUME NEW k \in Kinds, Typed, watch'[k] = Opened(k),
         UNCHANGED <<gen, log[k], cache[k], chan[k]>>,
         watch[k].gen = gen => ~IsSynced(k) /\ \A i \in 1 .. Len(chan[k]) : chan[k][i].gen < gen,
         \A x \in Keys : Basis(k)[x] = "gone" \/ InLog(k, x)
  PROVE  Line(k)'
  <1> SUFFICES ASSUME watch[k].gen = gen PROVE Line(k)'
    BY OpenedHolds DEF Line, Fresh
  <1>1. log[k] \in Seq(Entry) /\ chan[k] \in Seq(Sent) /\ Len(chan[k]) \in Nat /\ Len(log[k]) \in Nat
    BY LenProperties DEF Typed
  <1>2. /\ watch'[k].sub = Opened(k).sub /\ watch'[k].since = Len(log[k]) /\ watch'[k].pc = "check"
        /\ watch'[k].hold = watch[k].hold
        /\ Len(Opened(k).sub) = Len(Replay(log[k])) + 1 /\ Len(Replay(log[k])) \in Nat
        /\ \A i \in 1 .. Len(Replay(log[k])) : Opened(k).sub[i] = Replay(log[k])[i]
        /\ Opened(k).sub[Len(Replay(log[k])) + 1] = Marker
    BY OpenedHolds
  <1>3. PICK l, r, u, d, e :
           l = log[k] /\ r = Replay(l) /\ u = Opened(k).sub /\ d = chan[k] /\ e = watch[k].hold
    OBVIOUS
  <1>4. /\ Len(u) = Len(r) + 1 /\ Len(r) \in Nat /\ u[Len(r) + 1] = Marker /\ Len(d) \in Nat
        /\ \A i \in 1 .. Len(r) : u[i] = r[i]
    BY <1>1, <1>2, <1>3
  <1>c. PICK c \in Nat : c = Len(d)
    BY <1>4
  <1>n. PICK n \in Nat : n = c + Len(r) + 1
    BY <1>4
  <1> DEFINE q == Pieces(d, 0, e, u)
  <1>5. Length(d, 0, u) = n /\ n > 0
    BY <1>c, <1>n, <1>4 DEF Length
  <1>6. InHand(k)' = 0 /\ Total(k)' = n /\ Pipe(k)' = q
    BY <1>2, <1>3, <1>5 DEF InHand, Total, Pipe, Pieces, Length
  <1>7. ASSUME NEW h \in 1 .. n, ~(h =< c), ~(h =< c + 0)
        PROVE  q[h] = u[h - c - 0]
    BY <1>c, <1>n, <1>3, <1>5, <1>7 DEF Pieces
  <1> HIDE DEF q
  <1>8. ASSUME NEW i \in 1 .. Len(r)
        PROVE  q[c + i] = r[i]
    <2>1. /\ c + i \in 1 .. n /\ c + i - c - 0 = i /\ ~(c + i =< c) /\ ~(c + i =< c + 0)
      BY <1>c, <1>n, <1>4
    <2>2. q[c + i] = u[c + i - c - 0]
      BY <1>n, <1>7, <2>1
    <2> QED
      BY <1>4, <2>1, <2>2
  <1>9. q[n] = Marker
    <2>1. /\ n \in 1 .. n /\ n - c - 0 = Len(r) + 1 /\ ~(n =< c) /\ ~(n =< c + 0)
      BY <1>c, <1>n, <1>4
    <2> QED
      BY <1>n, <1>4, <1>7, <2>1
  <1>10. \A x \in Keys : Basis(k)[x] = "gone" \/ \E m \in 1 .. Len(l) : l[m].key = x
    BY <1>3 DEF InLog
  <1>11. Filling(l, Len(l), q, n, Basis(k), c, n)
    <2>1. l \in Seq(Entry) /\ n = c + Len(Replay(l)) + 1
          /\ \A i \in 1 .. Len(Replay(l)) : q[c + i] = Replay(l)[i]
      BY <1>n, <1>1, <1>3, <1>8
    <2> QED
      BY <1>n, <1>9, <1>10, <2>1, FillingStarts
  <1>12. /\ log'[k] = l /\ Basis(k)' = Basis(k) /\ gen' = gen /\ ~IsSynced(k)'
         /\ watch'[k].since = Len(l) /\ chan'[k] = d
    BY <1>2, <1>3 DEF Basis, IsSynced
  <1>13. Filling(log[k], watch[k].since, Pipe(k), Total(k), Basis(k), c, n)'
    BY <1>6, <1>11, <1>12 DEF Filling
  <1>14. Len(l) \in Nat
    BY <1>1, <1>3
  <1>15. c \in 0 .. Len(chan'[k]) /\ n \in 1 .. Total(k)' /\ watch'[k].since =< Len(log'[k])
    BY <1>c, <1>5, <1>6, <1>12, <1>14
  <1>16. \A i \in 1 .. Len(chan'[k]) : chan'[k][i].gen < gen' <=> i =< c
    BY <1>c, <1>3, <1>12
  <1> QED
    BY <1>12, <1>13, <1>15, <1>16 DEF Line


\* Opening again.
LEMMA WatchOpens ==
  ASSUME NEW k \in Kinds, Typed, Sound(k), OpenWatcher(k)
  PROVE  Sound(k)'
  <1>1. watch[k].pc = "opening" /\ conn = "up" /\ watch'[k] = Opened(k)
    BY DEF OpenWatcher, Typed
  <1>2. UNCHANGED <<conn, gen, mover, attempt, log, cache, chan, left>>
    BY DEF OpenWatcher, Keep
  <1>3. /\ watch'[k].pc = "check" /\ watch'[k].on = TRUE /\ watch'[k].gen = watch[k].gen
        /\ watch'[k].closed = watch[k].closed /\ watch'[k].hold = watch[k].hold
        /\ \A i \in 1 .. Len(watch'[k].sub) : KnownItem(k, watch'[k].sub[i])
    BY <1>1, OpenedHolds
  <1>4. Ordered(k)'
    BY <1>1, <1>2, <1>3 DEF Sound, Ordered
  <1>5. Cuts(k)'
    BY <1>1, <1>2, <1>3 DEF Sound, Cuts, Subscribed
  <1>6. Attempts(k)'
    BY <1>1, <1>2, <1>3 DEF Sound, Attempts
  <1>7. Known(k)'
    BY <1>1, <1>2, <1>3 DEF Sound, Known, KnownItem, InLog
  <1>8. Line(k)'
    <2>1. Behind(k)
      BY <1>1 DEF Sound, Cuts
    <2>2. ~IsSynced(k) /\ Basis(k) = Empty
      BY <2>1 DEF Behind, IsSynced, Basis, Typed
    <2>3. \A x \in Keys : Basis(k)[x] = "gone"
      BY <2>2 DEF Empty
    <2> QED
      BY <1>1, <1>2, <2>1, <2>2, <2>3, LineOpens DEF Behind
  <1> QED
    BY <1>4, <1>5, <1>6, <1>7, <1>8 DEF Sound

\* Going, with the attempt that is abandoned.
LEMMA WatchGoes ==
  ASSUME NEW k \in Kinds, Typed, Sound(k), attempt.pc = "abandon" \/ watch[k].pc = "first",
         watch[k].pc # "moving", attempt'.pc = "abandon", attempt'.next = attempt.next,
         watch'[k] = NoWatch, UNCHANGED <<conn, gen, mover, log, cache, chan>>,
         left'.losses = left.losses
  PROVE  Sound(k)'
  <1>1. /\ watch'[k].pc = "none" /\ watch'[k].on = FALSE /\ watch'[k].closed = FALSE
        /\ watch'[k].hold = Marker /\ watch'[k].sub = <<>>
    BY DEF NoWatch
  <1>2. Ordered(k)'
    BY <1>1 DEF Sound, Ordered
  <1>3. Cuts(k)'
    BY <1>1 DEF Sound, Cuts, Subscribed
  <1>4. Attempts(k)'
    BY <1>1 DEF Sound, Attempts
  <1>5. Known(k)'
    <2>1. Len(watch'[k].sub) = 0
      BY <1>1, EmptySeq
    <2> QED
      BY <1>1, <2>1 DEF Sound, Known, KnownItem, InLog
  <1>6. Line(k)'
    BY <1>1 DEF Line, Fresh, Subscribed
  <1> QED
    BY <1>2, <1>3, <1>4, <1>5, <1>6 DEF Sound

\* A step of one watch inside one generation keeps what is said of it ...
LEMMA WatchSteps ==
  ASSUME NEW k \in Kinds, Typed, Sound(k),
         \/ Check(k) \/ SelectMoved(k) \/ SelectEntry(k) \/ Send(k) \/ GenState(k)
         \/ OpenWatcher(k) \/ ReopenFailed(k) \/ WatchDone(k)
         \/ SelectClosed(k) /\ conn # "up"
  PROVE  Sound(k)'
  <1>0. watch \in [Kinds -> Watching] /\ gen \in Nat /\ watch[k].gen \in Nat
    BY DEF Typed, Watching
  <1>1. ASSUME watch[k].pc \in {"check", "select"}, watch[k].gen # gen
        PROVE  Behind(k)
    <2>1. watch[k].gen < gen
      BY <1>0, <1>1 DEF Sound, Ordered
    <2> QED
      BY <1>1, <2>1, EarlierIsBehind DEF Sound
  <1>2. CASE Check(k) /\ watch[k].gen = gen
    BY <1>2, WatchLooks
  <1>3. CASE Check(k) /\ watch[k].gen # gen
    <2>1. watch'[k] = Reopening(watch[k]) /\ watch[k].pc = "check"
      BY <1>0, <1>3 DEF Check
    <2>2. UNCHANGED <<conn, gen, mover, attempt, log, cache, chan, left>>
      BY <1>3 DEF Check, Keep
    <2> QED
      BY <1>1, <1>3, <2>1, <2>2, WatchReopens
  <1>4. CASE SelectMoved(k)
    <2>1. watch'[k] = Reopening(watch[k]) /\ watch[k].pc = "select" /\ watch[k].gen # gen
      BY <1>0, <1>4 DEF SelectMoved
    <2>2. UNCHANGED <<conn, gen, mover, attempt, log, cache, chan, left>>
      BY <1>4 DEF SelectMoved, Keep
    <2> QED
      BY <1>1, <2>1, <2>2, WatchReopens
  <1>5. CASE SelectEntry(k)
    BY <1>5, WatchTakes
  <1>6. CASE Send(k)
    BY <1>6, WatchSends
  <1>7. CASE GenState(k) \/ ReopenFailed(k)
    BY <1>7, WatchReads
  <1>8. CASE OpenWatcher(k)
    BY <1>8, WatchOpens
  <1>9. CASE WatchDone(k)
    <2>1. watch'[k] = NoWatch /\ attempt.pc = "abandon" /\ watch[k].pc # "moving"
      BY <1>0, <1>9 DEF WatchDone
    <2>2. UNCHANGED <<conn, gen, mover, attempt, log, cache, chan, left>>
      BY <1>9 DEF WatchDone
    <2> QED
      BY <2>1, <2>2, WatchGoes
  <1>10. CASE SelectClosed(k) /\ conn # "up"
    <2>1. watch'[k] = Reopening(watch[k]) /\ watch[k].pc = "select"
      BY <1>0, <1>10 DEF SelectClosed
    <2>2. UNCHANGED <<conn, gen, mover, attempt, log, cache, chan, left>>
      BY <1>10 DEF SelectClosed, Keep
    <2>3. conn # "down" => watch[k].gen < gen
      BY <1>10, <2>1 DEF Sound, Cuts, Subscribed, Typed
    <2>4. conn # "down" => Behind(k)
      BY <2>1, <2>3, EarlierIsBehind DEF Sound
    <2> QED
      BY <2>1, <2>2, <2>4, WatchReopens
  <1> QED
    BY <1>2, <1>3, <1>4, <1>5, <1>6, <1>7, <1>8, <1>9, <1>10

\* ... and of every other.
LEMMA WatchStepsAlone ==
  ASSUME NEW k \in Kinds, NEW j \in Kinds, j # k, Typed, Sound(j),
         \/ Check(k) \/ SelectMoved(k) \/ SelectEntry(k) \/ Send(k) \/ GenState(k)
         \/ OpenWatcher(k) \/ ReopenFailed(k) \/ WatchDone(k)
         \/ SelectClosed(k) /\ conn # "up"
  PROVE  Sound(j)'
  <1>1. watch'[j] = watch[j]
    BY DEF Check, SelectMoved, SelectEntry, Send, GenState, OpenWatcher, ReopenFailed, WatchDone,
           SelectClosed, Typed
  <1>2. chan'[j] = chan[j]
    BY DEF Check, SelectMoved, SelectEntry, Send, GenState, OpenWatcher, ReopenFailed, WatchDone,
           SelectClosed, Typed
  <1>3. UNCHANGED <<conn, gen, mover, attempt, log, cache>> /\ left'.losses = left.losses
    BY FailureCosts DEF Check, SelectMoved, SelectEntry, Send, GenState, OpenWatcher, ReopenFailed, WatchDone,
           SelectClosed, Keep, Typed
  <1> QED
    BY <1>1, <1>2, <1>3, OneWatchSteps


-----------------------------------------------------------------------------
(* The generation moves, and the connection and the streams with it.       *)

\* When the generation moves, everything in a pipe becomes of an earlier one.
LEMMA GenerationMoves ==
  ASSUME NEW k \in Kinds, Typed, Sound(k), gen' = gen + 1,
         UNCHANGED <<attempt, log, cache, chan, left>>,
         \/ /\ conn = "down" /\ conn' = "lost" /\ mover' # k
            /\ watch'[k] = watch[k]
         \/ /\ conn' = conn /\ mover' # k
            /\ watch'[k] = watch[k]
         \/ /\ conn' = conn /\ mover' = k /\ watch[k].pc = "select" /\ watch[k].closed
            /\ watch'[k] = [watch[k] EXCEPT !.pc = "moving"]
  PROVE  Sound(k)'
  <1>0. watch[k] \in Watching /\ gen \in Nat /\ cache[k].gen \in Nat /\ watch[k].gen \in Nat
    BY DEF Typed, Watching
  <1>1. /\ watch'[k].gen = watch[k].gen /\ watch'[k].on = watch[k].on
        /\ watch'[k].closed = watch[k].closed /\ watch'[k].sub = watch[k].sub
        /\ watch'[k].hold = watch[k].hold
        /\ watch'[k].pc = watch[k].pc \/ (watch[k].pc = "select" /\ watch'[k].pc = "moving"
                                          /\ watch[k].closed)
        /\ mover' = k => watch'[k].pc = "moving"
    BY <1>0 DEF Watching
  <1>2. \A i \in 1 .. Len(chan[k]) : chan[k][i].gen \in Nat
    <2>1. chan[k] \in Seq(Sent)
      BY DEF Typed
    <2>2. \A i \in 1 .. Len(chan[k]) : chan[k][i] \in Sent
      BY <2>1, ElementOfSeq
    <2> QED
      BY <2>2 DEF Sent
  <1>3. Behind(k)'
    BY <1>0, <1>2 DEF Sound, Ordered, Behind
  <1>4. Ordered(k)'
    BY <1>0, <1>1, <1>2 DEF Sound, Ordered
  <1>5. watch'[k].pc # "none" => watch'[k].gen < gen'
    BY <1>0, <1>1 DEF Sound, Ordered
  <1>6. Cuts(k)'
    BY <1>1, <1>3, <1>5 DEF Sound, Cuts, Subscribed
  <1>7. Attempts(k)'
    BY <1>1 DEF Sound, Attempts
  <1>8. Known(k)'
    BY <1>1 DEF Sound, Known, KnownItem, InLog
  <1>9. Line(k)'
    BY <1>0, <1>5 DEF Line, Fresh, Subscribed
  <1> QED
    BY <1>4, <1>6, <1>7, <1>8, <1>9 DEF Sound

\* The report, after which the watch that moved the generation opens again.
LEMMA ReportIsSound ==
  ASSUME Typed, \A k \in Kinds : Sound(k), Report, NEW k \in Kinds
  PROVE  Sound(k)'
  <1>0. watch[k] \in Watching /\ watch \in [Kinds -> Watching]
    BY DEF Typed
  <1>1. UNCHANGED <<conn, gen, log, chan, cache, attempt, left>> /\ mover' = Nobody /\ Nobody \notin Kinds
    BY BarrierAssumption DEF Report, Nobody, Kinds
  <1>2. CASE mover # k
    <2>1. watch'[k] = watch[k]
      BY <1>0, <1>2 DEF Report
    <2>2. Line(k)'
      BY <1>1, <2>1, LineIsSame DEF Same, Sound
    <2> QED
      BY <1>1, <2>1, <2>2 DEF Sound, Ordered, Cuts, Behind, Subscribed, Attempts, Known, KnownItem, InLog
  <1>3. CASE mover = k
    <2>1. watch'[k] = Reopening(watch[k]) /\ watch[k].pc = "moving"
      BY <1>0, <1>3 DEF Report, Sound, Cuts
    <2>2. /\ watch'[k].pc = "reopen" /\ watch'[k].gen = watch[k].gen /\ watch'[k].sub = <<>>
          /\ watch'[k].on = FALSE /\ watch'[k].closed = FALSE /\ watch'[k].hold = watch[k].hold
      BY <1>0, <2>1 DEF Reopening, Watching
    <2>3. Ordered(k)'
      BY <1>1, <2>1, <2>2 DEF Sound, Ordered
    <2>4. Cuts(k)'
      BY <1>1, <2>1, <2>2 DEF Sound, Cuts, Behind, Subscribed
    <2>5. Attempts(k)'
      BY <1>1, <2>1, <2>2 DEF Sound, Attempts
    <2>6. Known(k)'
      <3>1. Len(watch'[k].sub) = 0
        BY <2>2, EmptySeq
      <3> QED
        BY <1>1, <2>2, <3>1 DEF Sound, Known, KnownItem, InLog
    <2>7. Line(k)'
      BY <2>2 DEF Line, Fresh, Subscribed
    <2> QED
      BY <2>3, <2>4, <2>5, <2>6, <2>7 DEF Sound
  <1> QED
    BY <1>2, <1>3

\* A connection lost, one that is back, and a stream that is recreated.
LEMMA CutIsSound ==
  ASSUME Typed, \A k \in Kinds : Sound(k), Disconnect \/ Reconnect \/ StreamLost, NEW k \in Kinds
  PROVE  Sound(k)'
  <1>0. watch[k] \in Watching /\ left \in Lefts
    BY DEF Typed
  <1>1. CASE Disconnect
    <2>1. /\ watch'[k].pc = watch[k].pc /\ watch'[k].gen = watch[k].gen /\ watch'[k].on = FALSE
          /\ watch'[k].closed = watch[k].closed /\ watch'[k].sub = watch[k].sub
          /\ watch'[k].hold = watch[k].hold
      BY <1>0, <1>1 DEF Disconnect, Watching
    <2>2. /\ UNCHANGED <<gen, mover, log, chan, cache, attempt>> /\ conn' = "down"
          /\ left'.losses = left.losses
      BY <1>0, <1>1 DEF Disconnect, Lefts
    <2>3. Ordered(k)'
      BY <2>1, <2>2 DEF Sound, Ordered
    <2>4. Cuts(k)'
      BY <2>1, <2>2 DEF Sound, Cuts, Behind, Subscribed
    <2>5. Attempts(k)'
      BY <2>1, <2>2 DEF Sound, Attempts
    <2>6. Known(k)'
      BY <2>1, <2>2 DEF Sound, Known, KnownItem, InLog
    <2>7. Line(k)'
      BY <2>1 DEF Line, Fresh
    <2> QED
      BY <2>3, <2>4, <2>5, <2>6, <2>7 DEF Sound
  <1>2. CASE Reconnect
    <2>1. UNCHANGED <<gen, mover, log, chan, cache, attempt, left, watch>> /\ conn = "lost" /\ conn' = "up"
      BY <1>2 DEF Reconnect
    <2>2. Line(k)'
      BY <2>1, LineIsSame DEF Same, Sound
    <2>3. Cuts(k)'
      BY <2>1 DEF Sound, Cuts, Behind, Subscribed
    <2> QED
      BY <2>1, <2>2, <2>3 DEF Sound, Ordered, Attempts, Known, KnownItem, InLog
  <1>3. CASE StreamLost
    <2>1. /\ watch'[k].pc = watch[k].pc /\ watch'[k].gen = watch[k].gen
          /\ watch'[k].sub = watch[k].sub /\ watch'[k].hold = watch[k].hold
          /\ Subscribed(k) => watch'[k].on = FALSE /\ watch'[k].closed = TRUE
          /\ ~Subscribed(k) => watch'[k] = watch[k]
      BY <1>0, <1>3 DEF StreamLost, Watching
    <2>2. UNCHANGED <<gen, mover, conn, chan, cache, attempt>> /\ left.losses > 0
      BY <1>3 DEF StreamLost
    <2>3. Ordered(k)'
      BY <2>1, <2>2 DEF Sound, Ordered
    <2>4. Cuts(k)'
      BY <2>1, <2>2 DEF Sound, Cuts, Behind, Subscribed
    <2>5. Attempts(k)'
      BY <2>1, <2>2 DEF Sound, Attempts
    <2>6. Known(k)'
      BY <2>1, <2>2 DEF Sound, Known
    <2>7. Line(k)'
      BY <2>1 DEF Line, Fresh, Subscribed
    <2> QED
      BY <2>3, <2>4, <2>5, <2>6, <2>7 DEF Sound
  <1> QED
    BY <1>1, <1>2, <1>3


\* A write: what a fresh watch is to deliver grows with the stream.
LEMMA LineGrows ==
  ASSUME NEW k \in Kinds, Typed, Line(k), NEW e \in Entry,
         UNCHANGED <<gen, cache[k], chan[k]>>,
         log'[k] = Append(log[k], e),
         watch'[k].pc = watch[k].pc, watch'[k].on = watch[k].on, watch'[k].gen = watch[k].gen,
         watch'[k].since = watch[k].since, watch'[k].hold = watch[k].hold,
         watch[k].on => watch'[k].sub = Append(watch[k].sub, e)
  PROVE  Line(k)'
  <1> SUFFICES ASSUME Fresh(k), Fresh(k)'
               PROVE  Line(k)'
    BY DEF Line, Fresh, Subscribed
  <1>1. PICK l, u, d, w, b, h, p, q, v :
           /\ l = log[k] /\ u = watch[k].sub /\ d = chan[k] /\ w = watch[k].hold /\ b = Basis(k)
           /\ h = InHand(k) /\ p = Pipe(k) /\ q = Pipe(k)' /\ v = cache[k].val
    OBVIOUS
  <1>2. l \in Seq(Entry) /\ u \in Seq(Item) /\ d \in Seq(Sent) /\ watch[k].since \in Nat /\ h \in {0, 1}
    BY <1>1 DEF Typed, Watching, InHand
  <1>3. e \in Item
    BY DEF Item
  <1>4. PICK n \in Nat, s \in Nat : n = Length(d, h, u) /\ s = watch[k].since
    <2>1. Len(d) \in Nat /\ Len(u) \in Nat
      BY <1>2, LenProperties
    <2> QED
      BY <1>2, <2>1 DEF Length
  <1>5. p = Pieces(d, h, w, u) /\ q = Pieces(d, h, w, Append(u, e)) /\ Total(k) = n
        /\ Total(k)' = Length(d, h, Append(u, e))
    BY <1>1, <1>4 DEF Pipe, Total, InHand, Pieces, Length, Fresh
  <1>6. Length(d, h, Append(u, e)) = n + 1 /\ Extends(p, n, q, e)
    BY <1>2, <1>3, <1>4, <1>5, ItemIsWritten
  <1>7. s =< Len(l) /\ Len(l) \in Nat /\ Len(Append(l, e)) = Len(l) + 1
    <2>1. s =< Len(l)
      BY <1>1, <1>4 DEF Line
    <2> QED
      BY <1>2, <2>1, StreamGrows, LenProperties
  <1>8. /\ log'[k] = Append(l, e) /\ Basis(k)' = b /\ Total(k)' = n + 1 /\ watch'[k].since = s
        /\ Pipe(k)' = q /\ cache'[k].val = v /\ chan'[k] = d /\ gen' = gen
    BY <1>1, <1>4, <1>5, <1>6 DEF Basis
  <1>9. IsSynced(k)' <=> IsSynced(k)
    BY DEF IsSynced
  <1>10. s =< Len(Append(l, e))
    BY <1>7
  <1>11. CASE IsSynced(k)
    <2>1. Settled(l, s, p, n, v)
      BY <1>1, <1>4, <1>5, <1>11 DEF Line
    <2>2. Settled(Append(l, e), s, q, n + 1, v)
      BY <1>2, <1>6, <1>7, <2>1, SettledGrows
    <2>3. Settled(log[k], watch[k].since, Pipe(k), Total(k), cache[k].val)'
      BY <1>8, <2>2 DEF Settled
    <2> QED
      BY <1>8, <1>9, <1>10, <1>11, <2>3 DEF Line
  <1>12. CASE ~IsSynced(k)
    <2>1. PICK z \in 0 .. Len(d), m \in 1 .. n :
             /\ \A i \in 1 .. Len(d) : d[i].gen < gen <=> i =< z
             /\ Filling(l, s, p, n, b, z, m)
      BY <1>1, <1>4, <1>5, <1>12 DEF Line
    <2>2. z \in Nat /\ m \in Nat /\ m \in 1 .. n + 1
      OBVIOUS
    <2>3. Filling(Append(l, e), s, q, n + 1, b, z, m)
      BY <1>2, <1>6, <1>7, <2>1, <2>2, FillingGrows
    <2>4. Filling(log[k], watch[k].since, Pipe(k), Total(k), Basis(k), z, m)'
      BY <1>8, <2>3 DEF Filling
    <2>5. /\ z \in 0 .. Len(chan'[k]) /\ m \in 1 .. Total(k)'
          /\ \A i \in 1 .. Len(chan'[k]) : chan'[k][i].gen < gen' <=> i =< z
      BY <1>8, <2>1, <2>2
    <2> QED
      BY <1>8, <1>9, <1>10, <1>12, <2>4, <2>5 DEF Line
  <1> QED
    BY <1>11, <1>12

LEMMA WriteIsSound ==
  ASSUME Typed, \A k \in Kinds : Sound(k), NEW k \in Kinds, NEW x \in Keys, NEW v \in Vals,
         Write(k, x, v), NEW j \in Kinds
  PROVE  Sound(j)'
  <1> DEFINE e == [key |-> x, val |-> v]
  <1>0. watch[k] \in Watching /\ watch \in [Kinds -> Watching] /\ log \in [Kinds -> Seq(Entry)]
        /\ left \in Lefts
    BY DEF Typed
  <1>1. UNCHANGED <<conn, gen, mover, chan, cache, attempt>> /\ left'.losses = left.losses
    BY <1>0 DEF Write, Lefts
  <1>2. CASE j # k
    <2>1. Same(j)
      BY <1>0, <1>1, <1>2 DEF Write, Same
    <2> QED
      BY <1>1, <2>1, SoundIsSame
  <1>3. CASE j = k
    <2>1. e \in Entry /\ e \in Item /\ e.key = x
      BY DEF Entry, Item
    <2>2. log'[k] = Append(log[k], e) /\ log[k] \in Seq(Entry) /\ watch[k].sub \in Seq(Item)
      BY <1>0 DEF Write, Watching
    <2>3. /\ watch'[k].pc = watch[k].pc /\ watch'[k].on = watch[k].on
          /\ watch'[k].gen = watch[k].gen /\ watch'[k].since = watch[k].since
          /\ watch'[k].hold = watch[k].hold /\ watch'[k].closed = watch[k].closed
      BY <1>0 DEF Write, Watching
    <2>4. watch'[k].sub = IF watch[k].on THEN Append(watch[k].sub, e) ELSE watch[k].sub
      BY <1>0 DEF Write, Watching
    <2> HIDE DEF e
    <2>5. Line(k)'
      BY <1>1, <2>1, <2>2, <2>3, <2>4, LineGrows DEF Sound
    <2>6. Ordered(k)'
      BY <1>1, <2>3 DEF Sound, Ordered
    <2>7. Cuts(k)'
      BY <1>1, <2>3 DEF Sound, Cuts, Behind, Subscribed
    <2>8. Attempts(k)'
      BY <1>1, <2>3 DEF Sound, Attempts
    <2>9. Known(k)'
      <3>1. CASE Reruns
        <4>1. \A y : InLog(k, y) \/ y = x => InLog(k, y)'
          BY <2>1, <2>2, StreamGrows DEF InLog
        <4>2. \A i : KnownItem(k, i) \/ i = e => KnownItem(k, i)'
          BY <2>1, <4>1 DEF KnownItem
        <4>3. \A i \in 1 .. Len(watch'[k].sub) :
                 \/ watch'[k].sub[i] = e
                 \/ i \in 1 .. Len(watch[k].sub) /\ watch'[k].sub[i] = watch[k].sub[i]
          <5>1. \A i \in 1 .. Len(Append(watch[k].sub, e)) :
                   \/ Append(watch[k].sub, e)[i] = e
                   \/ i \in 1 .. Len(watch[k].sub) /\ Append(watch[k].sub, e)[i] = watch[k].sub[i]
            BY <2>1, <2>2, AppendProperties, LenProperties
          <5> QED
            BY <2>4, <5>1
        <4>4. (\A i \in 1 .. Len(watch[k].sub) : KnownItem(k, watch[k].sub[i]))'
          <5>1. \A i \in 1 .. Len(watch[k].sub) : KnownItem(k, watch[k].sub[i])
            BY <3>1 DEF Sound, Known
          <5>2. \A i \in 1 .. Len(watch'[k].sub) :
                   KnownItem(k, watch'[k].sub[i]) \/ watch'[k].sub[i] = e
            BY <4>3, <5>1
          <5>3. \A i : i # Marker => (KnownItem(k, i) \/ i = e => InLog(k, i.key)')
            BY <2>1, <4>1 DEF KnownItem
          <5> QED
            BY <5>2, <5>3 DEF KnownItem
        <4>5. (\A i \in 1 .. Len(chan[k]) : KnownItem(k, chan[k][i].e))'
          BY <1>1, <3>1, <4>2 DEF Sound, Known
        <4>6. KnownItem(k, watch[k].hold)'
          BY <2>3, <3>1, <4>2 DEF Sound, Known
        <4>7. (\A y \in Keys : cache[k].val[y] # "gone" => InLog(k, y))'
          BY <1>1, <3>1, <4>1 DEF Sound, Known
        <4>8. left'.losses = 0
          BY <1>1, <3>1 DEF Sound, Known
        <4> QED
          BY <3>1, <4>4, <4>5, <4>6, <4>7, <4>8 DEF Known
      <3>2. CASE ~Reruns
        BY <1>1, <3>2 DEF Sound, Known
      <3> QED
        BY <3>1, <3>2
    <2> QED
      BY <1>3, <2>5, <2>6, <2>7, <2>8, <2>9 DEF Sound
  <1> QED
    BY <1>2, <1>3


-----------------------------------------------------------------------------
(* Caches.Run.                                                             *)

\* What the stream, the watch, the channel and the values of a cache keep.
LEMMA KnownIsKept ==
  ASSUME NEW k \in Kinds, Reruns, Known(k), UNCHANGED <<log[k], watch[k], chan[k]>>,
         cache'[k].val = cache[k].val, left'.losses = left.losses
  PROVE  Known(k)'
  <1>1. \A y : InLog(k, y)' <=> InLog(k, y)
    BY DEF InLog
  <1>2. \A i : KnownItem(k, i) => KnownItem(k, i)'
    BY <1>1 DEF KnownItem
  <1>3. /\ left.losses = 0
        /\ \A x \in Keys : cache[k].val[x] # "gone" => InLog(k, x)
        /\ \A i \in 1 .. Len(chan[k]) : KnownItem(k, chan[k][i].e)
        /\ KnownItem(k, watch[k].hold)
        /\ \A i \in 1 .. Len(watch[k].sub) : KnownItem(k, watch[k].sub[i])
    BY DEF Known
  <1>4. (\A x \in Keys : cache[k].val[x] # "gone" => InLog(k, x))'
    BY <1>1, <1>3
  <1>5. (\A i \in 1 .. Len(chan[k]) : KnownItem(k, chan[k][i].e))'
    BY <1>2, <1>3
  <1>6. KnownItem(k, watch[k].hold)'
    BY <1>2, <1>3
  <1>7. (\A i \in 1 .. Len(watch[k].sub) : KnownItem(k, watch[k].sub[i]))'
    BY <1>2, <1>3
  <1> QED
    BY <1>3, <1>4, <1>5, <1>6, <1>7 DEF Known

\* A step of Run that does not touch the kind.
LEMMA RunElsewhere ==
  ASSUME NEW k \in Kinds, Same(k), Sound(k), UNCHANGED <<conn, gen, mover>>,
         left'.losses = left.losses, Attempts(k)', ~Reruns => Known(k)'
  PROVE  Sound(k)'
  <1>1. Line(k)'
    BY LineIsSame DEF Sound
  <1>2. Ordered(k)'
    BY DEF Sound, Same, Ordered
  <1>3. Cuts(k)'
    BY DEF Sound, Same, Cuts, Subscribed, Behind
  <1>4. Known(k)'
    BY KnownIsKept DEF Sound, Same
  <1> QED
    BY <1>1, <1>2, <1>3, <1>4 DEF Sound

\* The attempt starts, and returns.
LEMMA AttemptIsSound ==
  ASSUME Typed, \A k \in Kinds : Sound(k), RunStart \/ RunReturns, NEW k \in Kinds
  PROVE  Sound(k)'
  <1>0. /\ cache[k] \in [gen: Nat, synced: BOOLEAN, val: [Keys -> Vals]] /\ 1 \in Kinds
        /\ KindCount \in Nat /\ k >= 1
        /\ attempt \in [pc: {"idle", "opening", "running", "abandon"}, gen: Nat, next: Nat]
    <2>1. 1 \in Kinds /\ KindCount \in Nat /\ k >= 1
      BY BarrierAssumption DEF Kinds
    <2>2. cache \in [Kinds -> [gen: Nat, synced: BOOLEAN, val: [Keys -> Vals]]]
      BY DEF Typed
    <2>3. attempt \in [pc: {"idle", "opening", "running", "abandon"}, gen: Nat, next: Nat]
      BY DEF Typed
    <2> QED
      BY <2>1, <2>2, <2>3
  <1>1. CASE RunStart
    <2>1. /\ attempt.pc = "idle" /\ attempt'.pc = "opening" /\ attempt'.next = 1
          /\ cache'[k].gen = cache[k].gen /\ cache'[k].val = cache[k].val /\ cache'[k].synced = FALSE
          /\ UNCHANGED <<conn, gen, mover, log, watch, chan, left>>
      BY <1>0, <1>1 DEF RunStart
    <2>2. watch[k].pc = "none" /\ chan[k] = <<>>
      BY <2>1 DEF Sound, Attempts
    <2>3. Ordered(k)'
      BY <2>1 DEF Sound, Ordered
    <2>4. Cuts(k)'
      BY <2>1 DEF Sound, Cuts, Behind, Subscribed
    <2>5. Attempts(k)'
      BY <1>0, <2>1, <2>2 DEF Attempts, Kinds
    <2>6. Known(k)'
      <3>1. CASE Reruns
        BY <2>1, <3>1, KnownIsKept DEF Sound
      <3>2. CASE ~Reruns
        BY <2>1, <3>2 DEF Sound, Known
      <3> QED
        BY <3>1, <3>2
    <2>7. Line(k)'
      BY <2>1, <2>2 DEF Line, Fresh, Subscribed
    <2> QED
      BY <2>3, <2>4, <2>5, <2>6, <2>7 DEF Sound
  <1>2. CASE RunReturns
    <2>1. /\ attempt.pc = "abandon" /\ attempt'.pc = "idle" /\ attempt'.next = attempt.next
          /\ UNCHANGED <<conn, gen, mover, log, watch, chan, left, cache>> /\ Reruns
          /\ watch[k].pc = "none" /\ chan[k] = <<>>
      BY <1>0, <1>2 DEF RunReturns
    <2>2. Attempts(k)'
      BY <2>1 DEF Sound, Attempts
    <2> QED
      BY <2>1, <2>2, RunElsewhere DEF Same
  <1> QED
    BY <1>1, <1>2

\* A view is asked for a watch.
LEMMA RunWatchIsSound ==
  ASSUME Typed, \A k \in Kinds : Sound(k), NEW k \in Kinds, RunWatch(k), NEW j \in Kinds
  PROVE  Sound(j)'
  <1>0. /\ watch[k] \in Watching /\ watch \in [Kinds -> Watching] /\ gen \in Nat
        /\ attempt \in [pc: {"idle", "opening", "running", "abandon"}, gen: Nat, next: Nat]
    BY DEF Typed
  <1>1. /\ UNCHANGED <<conn, gen, mover, log, chan, cache, left>>
        /\ attempt.pc = "opening" /\ attempt.next = k /\ watch[k].pc = "none" /\ k >= attempt.next
    BY DEF RunWatch, Kinds
  <1>2. CASE attempt.gen # gen
    <2>1. UNCHANGED watch /\ attempt'.pc = "abandon" /\ attempt'.next = attempt.next
      BY <1>0, <1>2 DEF RunWatch
    <2>2. Attempts(j)'
      BY <1>1, <2>1 DEF Sound, Attempts
    <2>3. ~Reruns => Known(j)'
      BY <2>1 DEF Known
    <2> QED
      BY <1>1, <2>1, <2>2, <2>3, RunElsewhere DEF Same
  <1>3. CASE attempt.gen = gen /\ j # k
    <2>1. attempt' = attempt /\ watch'[j] = watch[j]
      BY <1>0, <1>3 DEF RunWatch
    <2> QED
      BY <1>1, <2>1, SoundIsSame DEF Same
  <1>4. CASE attempt.gen = gen /\ j = k
    <2>1. /\ attempt' = attempt
          /\ watch'[k].pc = "first" /\ watch'[k].gen = gen /\ watch'[k].on = FALSE
          /\ watch'[k].closed = FALSE /\ watch'[k].hold = Marker /\ watch'[k].sub = <<>>
      <3>1. attempt' = attempt /\ watch'[k] = [NoWatch EXCEPT !.pc = "first", !.gen = gen]
        BY <1>0, <1>4 DEF RunWatch
      <3> QED
        BY <3>1 DEF NoWatch
    <2>2. Ordered(k)'
      BY <1>0, <1>1, <2>1 DEF Sound, Ordered
    <2>3. Cuts(k)'
      BY <1>1, <2>1 DEF Sound, Cuts, Subscribed
    <2>4. Attempts(k)'
      BY <1>1, <2>1 DEF Sound, Attempts
    <2>5. Known(k)'
      <3>1. Len(watch'[k].sub) = 0
        BY <2>1, EmptySeq
      <3> QED
        BY <1>1, <2>1, <3>1 DEF Sound, Known, KnownItem, InLog
    <2>6. Line(k)'
      BY <2>1 DEF Line, Fresh
    <2> QED
      BY <1>4, <2>2, <2>3, <2>4, <2>5, <2>6 DEF Sound
  <1> QED
    BY <1>2, <1>3, <1>4

\* A first open fails.
LEMMA RunFailsIsSound ==
  ASSUME Typed, \A k \in Kinds : Sound(k), NEW k \in Kinds, RunFails(k), NEW j \in Kinds
  PROVE  Sound(j)'
  <1>0. /\ watch \in [Kinds -> Watching]
        /\ attempt \in [pc: {"idle", "opening", "running", "abandon"}, gen: Nat, next: Nat]
    BY DEF Typed
  <1>1. /\ UNCHANGED <<conn, gen, mover, log, chan, cache>> /\ left'.losses = left.losses
        /\ watch[k].pc = "first" /\ attempt'.pc = "abandon" /\ attempt'.next = attempt.next
        /\ watch'[k] = NoWatch
    BY <1>0, FailureCosts DEF RunFails, Typed
  <1>2. CASE j = k
    BY <1>1, <1>2, WatchGoes
  <1>3. CASE j # k
    <2>1. watch'[j] = watch[j] /\ attempt.pc = "opening" /\ attempt.next = k
      BY <1>0, <1>1, <1>3 DEF RunFails, Sound, Attempts
    <2>2. Attempts(j)'
      BY <1>1, <1>3, <2>1 DEF Sound, Attempts
    <2>3. ~Reruns => Known(j)'
      BY <1>1 DEF Known
    <2> QED
      BY <1>1, <2>1, <2>2, <2>3, RunElsewhere DEF Same
  <1> QED
    BY <1>2, <1>3

\* A first open succeeds: the cache holds nothing the stream has not.
LEMMA RunOpenedIsSound ==
  ASSUME Typed, \A k \in Kinds : Sound(k), NEW k \in Kinds, RunOpened(k), NEW j \in Kinds
  PROVE  Sound(j)'
  <1>0. /\ watch \in [Kinds -> Watching] /\ k \in Nat /\ KindCount \in Nat /\ k =< KindCount /\ j \in Nat
        /\ 1 =< k /\ j =< KindCount
        /\ attempt \in [pc: {"idle", "opening", "running", "abandon"}, gen: Nat, next: Nat]
    <2>1. KindCount \in Nat
      BY BarrierAssumption
    <2> QED
      BY <2>1 DEF Typed, Kinds
  <1>1. /\ UNCHANGED <<conn, gen, mover, log, chan, cache, left>> /\ conn = "up"
        /\ watch[k].pc = "first" /\ attempt'.next = k + 1 /\ watch'[k] = Opened(k)
        /\ attempt'.pc = IF k = KindCount THEN "running" ELSE attempt.pc
    BY <1>0 DEF RunOpened
  <1>2. attempt.pc = "opening" /\ attempt.next = k
    BY <1>1 DEF Sound, Attempts
  <1>3. /\ attempt'.next \in 1 .. KindCount + 1
        /\ attempt'.pc # "running" => attempt'.next \in Kinds
    BY <1>0, <1>1 DEF Kinds
  <1>4. CASE j # k
    <2>1. watch'[j] = watch[j]
      BY <1>0, <1>4 DEF RunOpened
    <2>2. k = KindCount => j < k
      BY <1>0, <1>4
    <2>3. Attempts(j)'
      BY <1>0, <1>1, <1>2, <1>3, <1>4, <2>1, <2>2 DEF Sound, Attempts
    <2>4. ~Reruns => Known(j)'
      BY <1>0, <1>1, <1>2 DEF Sound, Known
    <2> QED
      BY <1>1, <2>1, <2>3, <2>4, RunElsewhere DEF Same
  <1>5. CASE j = k
    <2>1. /\ watch'[k].pc = "check" /\ watch'[k].on = TRUE /\ watch'[k].gen = watch[k].gen
          /\ watch'[k].closed = watch[k].closed /\ watch'[k].hold = watch[k].hold
          /\ \A i \in 1 .. Len(watch'[k].sub) : KnownItem(k, watch'[k].sub[i])
      BY <1>1, OpenedHolds
    <2>2. chan[k] = <<>> /\ ~cache[k].synced
      BY <1>0, <1>2 DEF Sound, Attempts
    <2>3. Ordered(k)'
      BY <1>1, <2>1 DEF Sound, Ordered
    <2>4. Cuts(k)'
      BY <1>1, <2>1 DEF Sound, Cuts, Subscribed
    <2>5. Attempts(k)'
      BY <1>0, <1>1, <1>2, <1>3, <2>1 DEF Attempts
    <2>6. Known(k)'
      <3>1. CASE Reruns
        BY <1>1, <2>1, <3>1 DEF Sound, Known, KnownItem, InLog
      <3>2. CASE ~Reruns
        BY <1>0, <1>1, <1>2, <3>2 DEF Known
      <3> QED
        BY <3>1, <3>2
    <2>7. Line(k)'
      <3>1. Len(chan[k]) = 0 /\ ~IsSynced(k)
        BY <2>2, EmptySeq DEF IsSynced
      <3>2. \A x \in Keys : Basis(k)[x] = "gone" \/ InLog(k, x)
        BY <1>0, <1>2 DEF Sound, Known, Basis, Empty
      <3> QED
        BY <1>1, <3>1, <3>2, LineOpens
    <2> QED
      BY <1>5, <2>3, <2>4, <2>5, <2>6, <2>7 DEF Sound
  <1> QED
    BY <1>4, <1>5


-----------------------------------------------------------------------------
(* apply.                                                                  *)

\* What an item that is applied leaves in the cache, and in the channel.
LEMMA ApplyLeaves ==
  ASSUME Typed, NEW k \in Kinds, Apply(k)
  PROVE  /\ chan[k] \in Seq(Sent) /\ chan[k] # <<>> /\ Len(chan[k]) \in Nat /\ Len(chan[k]) > 0
         /\ chan[k][1] \in Sent /\ Head(chan[k]) = chan[k][1]
         /\ chan'[k] = Tail(chan[k]) /\ Len(chan'[k]) = Len(chan[k]) - 1
         /\ \A i \in 1 .. Len(chan'[k]) : chan'[k][i] = chan[k][i + 1]
         /\ cache'[k].gen = chan[k][1].gen
         /\ cache'[k].synced = (chan[k][1].e = Marker \/ (cache[k].gen = chan[k][1].gen /\ cache[k].synced))
         /\ LET b == IF cache[k].gen = chan[k][1].gen THEN cache[k].val ELSE Empty IN
            /\ b \in [Keys -> Vals]
            /\ cache'[k].val = IF chan[k][1].e = Marker THEN b
                               ELSE [b EXCEPT ![chan[k][1].e.key] = chan[k][1].e.val]
  <1> DEFINE h == Head(chan[k])
  <1> DEFINE c == Rebuilt(cache[k], h.gen)
  <1>0. chan[k] \in Seq(Sent) /\ chan[k] # <<>> /\ chan \in [Kinds -> Seq(Sent)]
    BY DEF Apply, Typed
  <1>1. /\ h = chan[k][1] /\ h \in Sent /\ Len(chan[k]) \in Nat /\ Len(chan[k]) > 0
        /\ Len(Tail(chan[k])) = Len(chan[k]) - 1
        /\ \A i \in 1 .. Len(Tail(chan[k])) : Tail(chan[k])[i] = chan[k][i + 1]
    BY <1>0, HeadTailProperties, EmptySeq, LenProperties
  <1>2. chan'[k] = Tail(chan[k])
    BY <1>0 DEF Apply
  <1>3. cache[k] \in [gen: Nat, synced: BOOLEAN, val: [Keys -> Vals]]
        /\ cache \in [Kinds -> [gen: Nat, synced: BOOLEAN, val: [Keys -> Vals]]]
    BY DEF Typed
  <1>4. Empty \in [Keys -> Vals]
    BY DEF Empty, Vals
  <1>5. /\ c \in [gen: Nat, synced: BOOLEAN, val: [Keys -> Vals]]
        /\ c.gen = h.gen /\ c.synced = (cache[k].gen = h.gen /\ cache[k].synced)
        /\ c.val = IF cache[k].gen = h.gen THEN cache[k].val ELSE Empty
    <2>1. h.gen \in Nat
      BY <1>1 DEF Sent
    <2>2. CASE cache[k].gen = h.gen
      BY <1>3, <2>1, <2>2 DEF Rebuilt
    <2>3. CASE cache[k].gen # h.gen
      BY <1>3, <1>4, <2>1, <2>3 DEF Rebuilt
    <2> QED
      BY <2>2, <2>3
  <1>6. cache'[k] = IF h.e = Marker THEN [c EXCEPT !.synced = TRUE]
                                    ELSE [c EXCEPT !.val[h.e.key] = h.e.val]
    BY <1>3 DEF Apply
  <1> HIDE DEF h, c
  <1>7. /\ cache'[k].gen = c.gen
        /\ cache'[k].synced = (h.e = Marker \/ c.synced)
        /\ cache'[k].val = IF h.e = Marker THEN c.val ELSE [c.val EXCEPT ![h.e.key] = h.e.val]
    <2>1. CASE h.e = Marker
      BY <1>5, <1>6, <2>1
    <2>2. CASE h.e # Marker
      BY <1>5, <1>6, <2>2
    <2> QED
      BY <2>1, <2>2
  <1>8. c.val \in [Keys -> Vals]
    BY <1>5
  <1> QED
    BY <1>0, <1>1, <1>2, <1>5, <1>7, <1>8 DEF h

\* What is left in the pipe brings the cache where the pipe did.
LEMMA LineApplies ==
  ASSUME NEW k \in Kinds, Typed, Ordered(k), Line(k), Apply(k)
  PROVE  Line(k)'
  <1>0. UNCHANGED <<gen, log, watch>>
    BY DEF Apply
  <1> SUFFICES ASSUME Fresh(k)
               PROVE  Line(k)'
    BY <1>0 DEF Line, Fresh, Subscribed
  <1>1. PICK l, u, d, w, p, q, v, g :
           /\ l = log[k] /\ u = watch[k].sub /\ d = chan[k] /\ w = watch[k].hold
           /\ p = Pipe(k) /\ q = Pipe(k)' /\ v = cache[k].val /\ g = gen
    OBVIOUS
  <1>h. PICK h \in {0, 1} : h = InHand(k)
    BY DEF InHand
  <1>2. l \in Seq(Entry) /\ u \in Seq(Item) /\ watch[k].since \in Nat /\ g \in Nat /\ cache[k].gen \in Nat
    BY <1>1 DEF Typed, Watching
  <1>3. /\ d \in Seq(Sent) /\ d # <<>> /\ Len(d) \in Nat /\ Len(d) > 0
        /\ d[1] \in Sent /\ Head(d) = d[1]
        /\ chan'[k] = Tail(d) /\ Len(chan'[k]) = Len(d) - 1
        /\ \A i \in 1 .. Len(chan'[k]) : chan'[k][i] = d[i + 1]
        /\ cache'[k].gen = d[1].gen
        /\ cache'[k].synced = (d[1].e = Marker \/ (cache[k].gen = d[1].gen /\ cache[k].synced))
    BY <1>1, ApplyLeaves
  <1>4. LET b == IF cache[k].gen = d[1].gen THEN v ELSE Empty IN
            /\ b \in [Keys -> Vals]
            /\ cache'[k].val = IF d[1].e = Marker THEN b ELSE [b EXCEPT ![d[1].e.key] = d[1].e.val]
    BY <1>1, ApplyLeaves
  <1>5. PICK n \in Nat : n = Length(d, h, u)
    <2>1. Len(u) \in Nat
      BY <1>2, LenProperties
    <2> QED
      BY <1>3, <2>1 DEF Length
  <1>s. PICK s \in Nat : s = watch[k].since
    BY <1>2
  <1>6. p = Pieces(d, h, w, u) /\ q = Pieces(Tail(d), h, w, u) /\ Total(k) = n
        /\ Total(k)' = Length(Tail(d), h, u)
    <2>1. InHand(k)' = h /\ watch'[k].sub = u /\ watch'[k].hold = w /\ chan'[k] = Tail(d)
      BY <1>0, <1>1, <1>3, <1>h DEF InHand
    <2>2. Pipe(k)' = Pieces(Tail(d), h, w, u) /\ Total(k)' = Length(Tail(d), h, u)
      BY <2>1 DEF Pipe, Total, Pieces, Length
    <2> QED
      BY <1>1, <1>5, <1>h, <2>2 DEF Pipe, Total
  <1>7. /\ Length(Tail(d), h, u) = n - 1 /\ Shifts(p, n, q) /\ p[1] = d[1].e /\ n > 0
    <2>1. /\ Length(Tail(d), h, u) = n - 1 /\ p[1] = Head(d).e /\ Shifts(p, n, q)
      BY <1>2, <1>3, <1>5, <1>6, ItemIsApplied
    <2>2. n > 0
      <3>1. Len(u) \in Nat
        BY <1>2, LenProperties
      <3> QED
        BY <1>3, <1>5, <3>1 DEF Length
    <2> QED
      BY <1>3, <2>1, <2>2
  <1>8. /\ log'[k] = l /\ Total(k)' = n - 1 /\ watch'[k].since = s /\ Pipe(k)' = q /\ gen' = g
    BY <1>0, <1>1, <1>s, <1>6, <1>7
  <1>9. s =< Len(l) /\ Len(l) \in Nat
    BY <1>1, <1>2, <1>s, LenProperties DEF Line
  <1>10. \A i \in 1 .. Len(d) : d[i].gen \in Nat /\ cache[k].gen =< d[i].gen /\ d[i].gen =< g
    <2>1. \A i \in 1 .. Len(d) : d[i].gen \in Nat
      <3>1. \A i \in 1 .. Len(d) : d[i] \in Sent
        BY <1>3, ElementOfSeq
      <3> QED
        BY <3>1 DEF Sent
    <2> QED
      BY <1>1, <2>1 DEF Ordered
  <1>11. d[1].gen \in Nat /\ cache[k].gen =< d[1].gen /\ d[1].gen =< g
    <2>1. 1 \in 1 .. Len(d)
      BY <1>3
    <2> QED
      BY <1>10, <2>1
  <1>12. CASE IsSynced(k)
    <2>1. Settled(l, s, p, n, v)
      BY <1>1, <1>6, <1>12, <1>s DEF Line
    <2>2. cache[k].gen = g /\ cache[k].synced /\ d[1].gen = g
      BY <1>1, <1>2, <1>11, <1>12 DEF IsSynced
    <2>3. v \in [Keys -> Vals]
      BY <1>4, <2>2
    <2>4. /\ p[1] \in Entry
          /\ Settled(l, s, q, n - 1, [v EXCEPT ![p[1].key] = p[1].val])
      BY <1>2, <1>7, <2>1, <2>3, SettledTakesEntry
    <2>5. d[1].e # Marker
      BY <1>7, <2>4, MarkerIsNoEntry
    <2>6. cache'[k].val = [v EXCEPT ![p[1].key] = p[1].val]
      BY <1>4, <1>7, <2>2, <2>5
    <2>7. IsSynced(k)'
      BY <1>3, <1>8, <2>2 DEF IsSynced
    <2>8. Settled(log[k], watch[k].since, Pipe(k), Total(k), cache[k].val)'
      BY <1>8, <2>4, <2>6 DEF Settled
    <2> QED
      BY <1>8, <1>9, <2>7, <2>8 DEF Line
  <1>13. CASE ~IsSynced(k)
    <2>1. PICK z \in 0 .. Len(d), m \in 1 .. n :
             /\ \A i \in 1 .. Len(d) : d[i].gen < g <=> i =< z
             /\ Filling(l, s, p, n, Basis(k), z, m)
      BY <1>1, <1>6, <1>13, <1>s DEF Line
    <2>2. z \in Nat /\ m \in Nat /\ z < m /\ m =< n
      BY <2>1 DEF Filling
    <2>3. d[1].gen < g <=> z > 0
      <3>1. 1 \in 1 .. Len(d)
        BY <1>3
      <3> QED
        BY <2>1, <2>2, <3>1
    <2>4. CASE z > 0
      <3>1. d[1].gen # g /\ cache[k].gen # g
        BY <1>2, <1>11, <2>3, <2>4
      <3>2. Basis(k) = Empty /\ Basis(k)' = Empty /\ ~IsSynced(k)'
        BY <1>1, <1>3, <1>8, <3>1 DEF Basis, IsSynced
      <3>3. Filling(l, s, q, n - 1, Basis(k), z - 1, m - 1)
        BY <1>2, <1>7, <2>1, <2>2, <2>4, FillingDropsStale
      <3>4. Filling(log[k], watch[k].since, Pipe(k), Total(k), Basis(k), z - 1, m - 1)'
        BY <1>8, <3>2, <3>3 DEF Filling
      <3>5. z - 1 \in 0 .. Len(chan'[k]) /\ m - 1 \in 1 .. Total(k)'
        BY <1>3, <1>8, <2>1, <2>2, <2>4
      <3>6. \A i \in 1 .. Len(chan'[k]) : chan'[k][i].gen < gen' <=> i =< z - 1
        <4> SUFFICES ASSUME NEW i \in 1 .. Len(chan'[k])
                     PROVE  chan'[k][i].gen < g <=> i =< z - 1
          BY <1>8
        <4>1. i + 1 \in 1 .. Len(d) /\ chan'[k][i] = d[i + 1]
          BY <1>3
        <4>2. chan'[k][i].gen < g <=> i + 1 =< z
          BY <2>1, <4>1
        <4> QED
          BY <2>2, <4>2
      <3> QED
        BY <1>8, <1>9, <3>2, <3>4, <3>5, <3>6 DEF Line
    <2>5. CASE z = 0
      <3>1. d[1].gen = g
        BY <1>2, <1>11, <2>3, <2>5
      <3>2. Filling(l, s, p, n, Basis(k), 0, m)
        BY <2>1, <2>5
      <3>3. Basis(k) = (IF cache[k].gen = d[1].gen THEN v ELSE Empty) /\ Basis(k) \in [Keys -> Vals]
        BY <1>1, <1>4, <3>1 DEF Basis
      <3>4. ~(cache[k].gen = d[1].gen /\ cache[k].synced)
        BY <1>1, <1>13, <3>1 DEF IsSynced
      <3>5. CASE m = 1
        <4>1. p[1] = Marker /\ Settled(l, s, q, n - 1, Basis(k))
          BY <1>2, <1>7, <1>9, <3>2, <3>3, <3>5, FillingEnds
        <4>2. cache'[k].val = Basis(k) /\ IsSynced(k)'
          BY <1>3, <1>4, <1>7, <1>8, <3>1, <3>3, <4>1 DEF IsSynced
        <4>3. Settled(log[k], watch[k].since, Pipe(k), Total(k), cache[k].val)'
          BY <1>8, <4>1, <4>2 DEF Settled
        <4> QED
          BY <1>8, <1>9, <4>2, <4>3 DEF Line
      <3>6. CASE m > 1
        <4>1. PICK b \in [Keys -> Vals] : b = Basis(k)
          BY <3>3
        <4>2. /\ p[1] \in Entry
              /\ Filling(l, s, q, n - 1, [b EXCEPT ![p[1].key] = p[1].val], 0, m - 1)
          BY <1>2, <1>7, <2>2, <3>2, <3>6, <4>1, FillingTakesEntry
        <4>3. d[1].e # Marker
          BY <1>7, <4>2, MarkerIsNoEntry
        <4>4. cache'[k].val = [b EXCEPT ![p[1].key] = p[1].val]
          BY <1>4, <1>7, <3>3, <4>1, <4>3
        <4>5. Basis(k)' = [b EXCEPT ![p[1].key] = p[1].val] /\ ~IsSynced(k)'
          BY <1>3, <1>8, <3>1, <3>4, <4>3, <4>4 DEF Basis, IsSynced
        <4>6. Filling(log[k], watch[k].since, Pipe(k), Total(k), Basis(k), 0, m - 1)'
          BY <1>8, <4>2, <4>5 DEF Filling
        <4>7. 0 \in 0 .. Len(chan'[k]) /\ m - 1 \in 1 .. Total(k)'
          BY <1>3, <1>8, <2>2, <3>6
        <4>8. \A i \in 1 .. Len(chan'[k]) : chan'[k][i].gen < gen' <=> i =< 0
          <5> SUFFICES ASSUME NEW i \in 1 .. Len(chan'[k])
                       PROVE  chan'[k][i].gen < g <=> i =< 0
            BY <1>8
          <5>1. i + 1 \in 1 .. Len(d) /\ chan'[k][i] = d[i + 1]
            BY <1>3
          <5>2. chan'[k][i].gen < g <=> i + 1 =< z
            BY <2>1, <5>1
          <5> QED
            BY <2>5, <5>2
        <4> QED
          BY <1>8, <1>9, <4>5, <4>6, <4>7, <4>8 DEF Line
      <3> QED
        BY <2>2, <2>5, <3>5, <3>6
    <2> QED
      BY <2>2, <2>4, <2>5
  <1> QED
    BY <1>12, <1>13


LEMMA ApplyIsSound ==
  ASSUME Typed, \A k \in Kinds : Sound(k), NEW k \in Kinds, Apply(k), NEW j \in Kinds
  PROVE  Sound(j)'
  <1>1. UNCHANGED <<conn, gen, mover, log, watch, attempt, left>>
    BY DEF Apply
  <1>2. CASE j # k
    <2>1. chan'[j] = chan[j] /\ cache'[j] = cache[j]
      BY <1>2 DEF Apply, Typed
    <2> QED
      BY <1>1, <2>1, SoundIsSame DEF Same
  <1>3. CASE j = k
    <2>1. /\ chan[k] # <<>> /\ Len(chan[k]) \in Nat /\ Len(chan[k]) > 0
          /\ chan[k][1] \in Sent /\ Len(chan'[k]) = Len(chan[k]) - 1
          /\ \A i \in 1 .. Len(chan'[k]) : chan'[k][i] = chan[k][i + 1]
          /\ cache'[k].gen = chan[k][1].gen
      BY ApplyLeaves
    <2>2. /\ 1 \in 1 .. Len(chan[k])
          /\ \A i \in 1 .. Len(chan'[k]) : i + 1 \in 1 .. Len(chan[k]) /\ 1 =< i + 1
      BY <2>1
    <2>3. Ordered(k)'
      <3>1. \A i \in 1 .. Len(chan'[k]) :
               /\ chan[k][1].gen =< chan'[k][i].gen /\ chan'[k][i].gen =< gen
               /\ watch[k].pc # "none" => chan'[k][i].gen =< watch[k].gen
               /\ \A h \in 1 .. Len(chan'[k]) : i =< h => chan'[k][i].gen =< chan'[k][h].gen
        <4> SUFFICES ASSUME NEW i \in 1 .. Len(chan'[k]), NEW h \in 1 .. Len(chan'[k])
                     PROVE  /\ chan[k][1].gen =< chan'[k][i].gen /\ chan'[k][i].gen =< gen
                            /\ watch[k].pc # "none" => chan'[k][i].gen =< watch[k].gen
                            /\ i =< h => chan'[k][i].gen =< chan'[k][h].gen
          OBVIOUS
        <4>1. /\ chan'[k][i] = chan[k][i + 1] /\ chan'[k][h] = chan[k][h + 1]
              /\ i + 1 \in 1 .. Len(chan[k]) /\ h + 1 \in 1 .. Len(chan[k]) /\ 1 =< i + 1
              /\ i =< h => i + 1 =< h + 1
          BY <2>1, <2>2, SMTT(30)
        <4> QED
          BY <2>2, <4>1 DEF Sound, Ordered
      <3>2. chan[k][1].gen =< gen /\ (watch[k].pc # "none" =>
               chan[k][1].gen =< watch[k].gen /\ watch[k].gen =< gen)
        BY <2>2 DEF Sound, Ordered
      <3> QED
        BY <1>1, <2>1, <3>1, <3>2 DEF Ordered
    <2>4. Behind(k) => Behind(k)'
      BY <1>1, <2>1, <2>2 DEF Behind
    <2>5. Cuts(k)'
      BY <1>1, <2>4 DEF Sound, Cuts, Subscribed
    <2>6. attempt.pc # "idle" /\ (attempt.pc # "running" => ~(k >= attempt.next))
      BY <2>1 DEF Sound, Attempts
    <2>7. Attempts(k)'
      BY <1>1, <2>6 DEF Sound, Attempts
    <2>8. Known(k)'
      <3>1. CASE Reruns
        <4>1. KnownItem(k, chan[k][1].e)
              /\ \A i \in 1 .. Len(chan'[k]) : KnownItem(k, chan'[k][i].e)
          BY <2>1, <2>2, <3>1 DEF Sound, Known
        <4>2. \A x \in Keys : cache'[k].val[x] # "gone" => InLog(k, x)
          <5> DEFINE b == IF cache[k].gen = chan[k][1].gen THEN cache[k].val ELSE Empty
          <5>1. /\ b \in [Keys -> Vals]
                /\ cache'[k].val = IF chan[k][1].e = Marker THEN b
                                   ELSE [b EXCEPT ![chan[k][1].e.key] = chan[k][1].e.val]
            BY ApplyLeaves
          <5>2. \A x \in Keys : b[x] # "gone" => InLog(k, x)
            BY <3>1 DEF Sound, Known, Empty
          <5> HIDE DEF b
          <5> QED
            BY <4>1, <5>1, <5>2 DEF KnownItem
        <4>3. \A x : InLog(k, x)' <=> InLog(k, x)
          BY <1>1 DEF InLog
        <4>4. KnownItem(k, watch[k].hold) /\ left.losses = 0
              /\ \A i \in 1 .. Len(watch[k].sub) : KnownItem(k, watch[k].sub[i])
          BY <3>1 DEF Sound, Known
        <4>5. (\A i \in 1 .. Len(watch[k].sub) : KnownItem(k, watch[k].sub[i]))'
              /\ KnownItem(k, watch[k].hold)'
          BY <1>1, <4>4 DEF KnownItem, InLog
        <4>6. (\A i \in 1 .. Len(chan[k]) : KnownItem(k, chan[k][i].e))'
          BY <1>1, <4>1 DEF KnownItem, InLog
        <4>7. (\A x \in Keys : cache[k].val[x] # "gone" => InLog(k, x))'
          BY <4>2, <4>3
        <4> QED
          BY <1>1, <3>1, <4>4, <4>5, <4>6, <4>7 DEF Known
      <3>2. CASE ~Reruns
        BY <1>1, <2>6, <3>2 DEF Known
      <3> QED
        BY <3>1, <3>2
    <2>9. Line(k)'
      BY LineApplies DEF Sound
    <2> QED
      BY <1>3, <2>3, <2>5, <2>7, <2>8, <2>9 DEF Sound
  <1> QED
    BY <1>2, <1>3

-----------------------------------------------------------------------------
(* The invariant.                                                          *)

\* The initial states.
LEMMA InitIsSound ==
  ASSUME Init, ~Reruns \/ MaxLosses = 0
  PROVE  BarrierInv
  <1>0. /\ KindCount \in Nat /\ 1 \in Kinds
        /\ MaxWrites \in Nat /\ MaxDrops \in Nat /\ MaxLosses \in Nat /\ MaxFails \in Nat
    <2>1. KindCount \in Nat \ {0} /\ MaxWrites \in Nat /\ MaxDrops \in Nat /\ MaxLosses \in Nat
          /\ MaxFails \in Nat
      BY BarrierAssumption
    <2> QED
      BY <2>1 DEF Kinds
  <1>1. Empty \in [Keys -> Vals] /\ \A x \in Keys : Empty[x] = "gone"
    BY DEF Empty, Vals
  <1>2. Typed
    <2>1. log \in [Kinds -> Seq(Entry)] /\ chan \in [Kinds -> Seq(Sent)]
      BY EmptySeq DEF Init
    <2>2. watch \in [Kinds -> Watching]
      BY NoWatchIsAWatch DEF Init
    <2>3. cache \in [Kinds -> [gen: Nat, synced: BOOLEAN, val: [Keys -> Vals]]]
      BY <1>1 DEF Init
    <2>4. left \in Lefts /\ attempt \in [pc: {"idle", "opening", "running", "abandon"}, gen: Nat, next: Nat]
      BY <1>0 DEF Init, Lefts
    <2> QED
      BY <2>1, <2>2, <2>3, <2>4 DEF Init, Typed
  <1>3. ASSUME NEW k \in Kinds
        PROVE  Sound(k)
    <2>1. /\ watch[k] = NoWatch /\ chan[k] = <<>> /\ log[k] = <<>> /\ gen = 0 /\ conn = "up"
          /\ cache[k].gen = 0 /\ cache[k].synced = FALSE /\ cache[k].val = Empty
          /\ attempt.pc = "idle" /\ attempt.next = 1 /\ left.losses = MaxLosses /\ mover = 0
      BY DEF Init, Nobody
    <2>2. /\ watch[k].pc = "none" /\ watch[k].on = FALSE /\ watch[k].closed = FALSE
          /\ watch[k].hold = Marker /\ Len(watch[k].sub) = 0 /\ Len(chan[k]) = 0
      BY <2>1, EmptySeq DEF NoWatch
    <2>3. Ordered(k)
      BY <2>1, <2>2 DEF Ordered
    <2>4. Cuts(k)
      BY <2>1, <2>2 DEF Cuts, Subscribed, Kinds
    <2>5. Attempts(k)
      BY <1>0, <2>1, <2>2 DEF Attempts, Kinds
    <2>6. Known(k)
      BY <1>1, <2>1, <2>2 DEF Known, KnownItem
    <2>7. Line(k)
      BY <2>2 DEF Line, Fresh
    <2> QED
      BY <2>3, <2>4, <2>5, <2>6, <2>7 DEF Sound
  <1> QED
    BY <1>2, <1>3 DEF BarrierInv

\* Every step keeps it.
LEMMA StepIsSound == BarrierInv /\ [Next]_vars => BarrierInv'
  <1> SUFFICES ASSUME BarrierInv, [Next]_vars
               PROVE  BarrierInv'
    OBVIOUS
  <1>0. Typed /\ \A k \in Kinds : Sound(k)
    BY DEF BarrierInv
  <1>1. ASSUME UNCHANGED <<conn, gen, mover, log, watch, chan, cache, attempt, left>>
        PROVE  BarrierInv'
    <2>1. Typed'
      BY <1>0, <1>1 DEF Typed
    <2> QED
      BY <1>0, <1>1, <2>1, SoundIsSame DEF Same, BarrierInv
  <1>2. ASSUME NEW k \in Kinds, NEW x \in Keys, NEW v \in Vals, Write(k, x, v)
        PROVE  BarrierInv'
    BY <1>0, <1>2, TypedStore, WriteIsSound DEF BarrierInv
  <1>3. CASE Disconnect \/ Reconnect \/ StreamLost
    BY <1>0, <1>3, TypedStore, CutIsSound DEF BarrierInv
  <1>4. CASE BumpGeneration
    <2>1. /\ gen' = gen + 1 /\ conn = "down" /\ conn' = "lost" /\ mover' = -1
          /\ UNCHANGED <<attempt, log, watch, cache, chan, left>>
      BY <1>4 DEF BumpGeneration, Move, Connection
    <2>2. \A k \in Kinds : mover' # k /\ watch'[k] = watch[k]
      BY <2>1 DEF Kinds
    <2>3. ASSUME NEW k \in Kinds PROVE Sound(k)'
      BY <1>0, <2>1, <2>2, GenerationMoves
    <2> QED
      BY <1>0, <1>4, <2>3, TypedStore DEF BarrierInv
  <1>5. CASE Report
    BY <1>0, <1>5, TypedStore, ReportIsSound DEF BarrierInv
  <1>6. ASSUME NEW k \in Kinds,
               \/ Check(k) \/ SelectMoved(k) \/ SelectEntry(k) \/ Send(k) \/ GenState(k)
               \/ OpenWatcher(k) \/ ReopenFailed(k) \/ WatchDone(k)
               \/ SelectClosed(k) /\ conn # "up"
        PROVE  BarrierInv'
    <2>1. Typed'
      BY <1>0, <1>6, TypedWatch, TypedRun DEF WatchStep
    <2>2. ASSUME NEW j \in Kinds PROVE Sound(j)'
      BY <1>0, <1>6, WatchSteps, WatchStepsAlone
    <2> QED
      BY <2>1, <2>2 DEF BarrierInv
  <1>7. ASSUME NEW k \in Kinds, SelectClosed(k), conn = "up"
        PROVE  BarrierInv'
    <2>1. /\ gen' = gen + 1 /\ mover' = k /\ watch[k].pc = "select" /\ watch[k].closed
          /\ watch' = [watch EXCEPT ![k].pc = "moving"]
          /\ UNCHANGED <<conn, attempt, log, cache, chan, left>>
      BY <1>7 DEF SelectClosed, Move, Keep
    <2>2. /\ watch'[k] = [watch[k] EXCEPT !.pc = "moving"]
          /\ \A j \in Kinds : j # k => watch'[j] = watch[j]
      BY <1>0, <2>1 DEF Typed
    <2>3. ASSUME NEW j \in Kinds PROVE Sound(j)'
      BY <1>0, <2>1, <2>2, GenerationMoves
    <2> QED
      BY <1>0, <1>7, <2>3, TypedWatch DEF BarrierInv, WatchStep
  <1>8. CASE RunStart \/ RunReturns
    BY <1>0, <1>8, TypedRun, AttemptIsSound DEF BarrierInv
  <1>9. ASSUME NEW k \in Kinds, RunWatch(k)
        PROVE  BarrierInv'
    BY <1>0, <1>9, TypedRun, RunWatchIsSound DEF BarrierInv
  <1>10. ASSUME NEW k \in Kinds, RunOpened(k)
         PROVE  BarrierInv'
    BY <1>0, <1>10, TypedRun, RunOpenedIsSound DEF BarrierInv
  <1>11. ASSUME NEW k \in Kinds, RunFails(k)
         PROVE  BarrierInv'
    BY <1>0, <1>11, TypedRun, RunFailsIsSound DEF BarrierInv
  <1>12. ASSUME NEW k \in Kinds, Apply(k)
         PROVE  BarrierInv'
    BY <1>0, <1>12, TypedApply, ApplyIsSound DEF BarrierInv
  <1>13. ASSUME NEW q \in Requests, Ask(q) \/ Answered(q) \/ WakeTimer(q) \/ WakeLeft(q)
         PROVE  BarrierInv'
    <2>1. Asked
      BY <1>13 DEF Ask, Answered, WakeTimer, WakeLeft, Capture, ReadGeneration, Session, Baseline,
                   Subscribe, Get, Decide, WakePulse, WakeMoved
    <2> QED
      BY <1>1, <2>1 DEF Asked
  <1>14. CASE UNCHANGED vars
    BY <1>1, <1>14 DEF vars
  <1> QED
    BY <1>2, <1>3, <1>4, <1>5, <1>6, <1>7, <1>8, <1>9, <1>10, <1>11, <1>12, <1>13, <1>14
       DEF Next, RunStep, WatchStep

\* Where every watch and every cache is of one generation, the point a cache is
\* at lies behind the one its watch was opened at.
LEMMA SoundReadsAreAPoint == BarrierInv => GuardedReadIsAPoint
  <1> SUFFICES ASSUME BarrierInv, CachesSynced(gen), NEW k \in Kinds, ~CutUnnoticed(k)
               PROVE  \E n \in watch[k].since .. Len(log[k]) : cache[k].val = After(log[k], n)
    BY DEF GuardedReadIsAPoint
  <1>0. Typed /\ \A j \in Kinds : Sound(j) /\ cache[j].synced /\ cache[j].gen = gen
    BY DEF BarrierInv, CachesSynced
  <1>1. KindCount \in Kinds
    <2>1. KindCount \in Nat \ {0}
      BY BarrierAssumption
    <2> QED
      BY <2>1 DEF Kinds
  <1>2. attempt.pc = "running"
    <2>1. attempt.pc # "running" => attempt.next \in Kinds
      BY <1>0, <1>1 DEF Sound, Attempts
    <2>2. attempt.pc # "running" => KindCount >= attempt.next
      BY <2>1 DEF Kinds
    <2> QED
      BY <1>0, <1>1, <2>2 DEF Sound, Attempts
  <1>3. watch[k].pc \notin {"none", "first", "moving"}
    BY <1>0, <1>2 DEF Sound, Attempts, CutUnnoticed
  <1>4. ~Behind(k)
    BY <1>0 DEF Behind, Typed
  <1>5. watch[k].pc \in {"check", "select", "send"}
    BY <1>0, <1>3, <1>4 DEF Sound, Cuts, CutUnnoticed, Typed, Watching, WatchPCs
  <1>6. watch[k].gen = gen
    <2>1. cache[k].gen =< watch[k].gen /\ watch[k].gen =< gen /\ watch[k].gen \in Nat /\ gen \in Nat
      BY <1>0, <1>3 DEF Sound, Ordered, Typed, Watching
    <2> QED
      BY <1>0, <2>1
  <1>7. watch[k].on
    BY <1>0, <1>5, <1>6 DEF Sound, Cuts, Subscribed, CutUnnoticed, Typed
  <1>8. /\ watch[k].since =< Len(log[k])
        /\ Settled(log[k], watch[k].since, Pipe(k), Total(k), cache[k].val)
    BY <1>0, <1>5, <1>6, <1>7 DEF Sound, Line, Fresh, Subscribed, IsSynced
  <1>9. Total(k) \in Nat /\ Len(log[k]) \in Nat /\ watch[k].since \in Nat
    <2>1. chan[k] \in Seq(Sent) /\ watch[k].sub \in Seq(Item) /\ log[k] \in Seq(Entry)
          /\ watch[k].since \in Nat
      BY <1>0 DEF Typed, Watching
    <2>2. Len(chan[k]) \in Nat /\ Len(watch[k].sub) \in Nat /\ Len(log[k]) \in Nat
      BY <2>1, LenProperties
    <2>3. InHand(k) \in Nat
      BY DEF InHand
    <2>4. Total(k) = Len(chan[k]) + InHand(k) + Len(watch[k].sub)
      BY DEF Total, Length
    <2> QED
      BY <2>1, <2>2, <2>3, <2>4
  <1>10. Len(log[k]) - Total(k) \in watch[k].since .. Len(log[k])
    BY <1>8, <1>9 DEF Settled
  <1> QED
    BY <1>8, <1>10 DEF Settled

\* A read that is let through by the barrier is of one point in the stream, no
\* earlier than the one its watch was opened at, whatever is cut, moved, retried
\* or written meanwhile: for any number of prefixes, keys and writes.  Run may
\* be called again, or a bucket's stream be recreated, but not both: the
\* contents a failed attempt leaves are kept by the next one.
THEOREM BarrierHolds ==
  ASSUME ~Reruns \/ MaxLosses = 0
  PROVE  Spec => []GuardedReadIsAPoint
  <1>1. Init => BarrierInv
    BY InitIsSound
  <1> QED
    BY <1>1, StepIsSound, SoundReadsAreAPoint, PTL DEF Spec
=============================================================================
