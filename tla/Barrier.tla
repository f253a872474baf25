------------------------------ MODULE Barrier ------------------------------
(***************************************************************************)
(* How one replica knows the store: the store generation and the watches   *)
(* of internal/natskv/client.go, the watched caches of                     *)
(* internal/pgo/caches.go, and a request of internal/httpapi that waits    *)
(* for a Collection to move (pgo_collections.go, waitForCollection).       *)
(*                                                                         *)
(* Every watch, every cache's consumer and every request is a goroutine of *)
(* its own.  The connection drops, a bucket's stream is recreated and an   *)
(* open fails; other replicas write all the while.                         *)
(***************************************************************************)
EXTENDS Integers, Sequences, FiniteSets, FiniteSetsExt

CONSTANTS
    KindCount,   \* cacheCount: the watched prefixes, opened in this order
    Keys,        \* keys under each prefix
    Requests,    \* requests that wait for the record Wanted
    Wanted,      \* the record they wait for
    Buffer,      \* watchBuffer: entries between a watch and its cache
    MaxWrites,   \* bound: writes to the watched prefixes
    MaxDrops,    \* bound: connections lost
    MaxLosses,   \* bound: times the bucket's stream is recreated
    MaxFails,    \* bound: opens that fail under a live connection
    Reruns       \* bound: FALSE explores one call of Caches.Run only

ASSUME BarrierAssumption ==
    /\ {KindCount, Buffer} \subseteq Nat \ {0}
    /\ {MaxWrites, MaxDrops, MaxLosses, MaxFails} \subseteq Nat
    /\ Reruns \in BOOLEAN
    /\ Wanted \in Keys /\ "marker" \notin Keys

Kinds == 1 .. KindCount
Jobs  == 1               \* cacheJobs: the prefix whose keys are records

VARIABLES
    conn,      \* "up"; "down", the callback due; "lost", the callback has run
    gen,       \* client.gen
    reported,  \* moves Runtime.MoveGeneration was told of
    mover,     \* who holds moveMu: nobody, the connection, or a watch
    log,       \* the stream behind each prefix
    watch,     \* the goroutine and subscription of each watch
    chan,      \* the entries between each watch and its cache
    cache,     \* Caches, per kind
    attempt,   \* Caches.Run, called again when it fails
    req,       \* the waiting requests
    left       \* what is left of each bound

vars == <<conn, gen, reported, mover, log, watch, chan, cache, attempt, req, left>>

-----------------------------------------------------------------------------
(* The store.  A key holds a record that is live or ended, or nothing.     *)

Vals   == {"gone", "live", "ended"}
Empty  == [x \in Keys |-> "gone"]
Marker == [key |-> "marker", val |-> "gone"]

\* The contents after the first n writes.
After(l, n) ==
    [x \in Keys |->
        LET at == {m \in 1 .. n : l[m].key = x} IN
        IF at = {} THEN "gone" ELSE l[Max(at)].val]

Stored(k) == After(log[k], Len(log[k]))

\* A watch first delivers the last entry of every key, a deleted one's too, in
\* the order of the stream.
Replay(l) ==
    LET last  == {m \in DOMAIN l : \A n \in DOMAIN l : l[n].key = l[m].key => n =< m}
        nth(i) == CHOOSE m \in last : Cardinality({n \in last : n =< m}) = i
    IN [i \in 1 .. Cardinality(last) |-> l[nth(i)]]

Follows == {<<"gone", "live">>, <<"live", "live">>, <<"live", "ended">>,
            <<"live", "gone">>, <<"ended", "gone">>}

NoWatch == [pc |-> "none", gen |-> 0, mark |-> -1, sub |-> <<>>, on |-> FALSE,
            closed |-> FALSE, since |-> 0, hold |-> Marker]

Subscribed(k) == watch[k].pc \in {"check", "select", "send"}

\* Another replica writes; the subscriptions that are still attached see it.
Write(k, x, v) ==
    /\ left.writes > 0
    /\ <<Stored(k)[x], v>> \in Follows
    /\ LET e == [key |-> x, val |-> v] IN
         /\ log' = [log EXCEPT ![k] = Append(@, e)]
         /\ watch' = IF watch[k].on THEN [watch EXCEPT ![k].sub = Append(@, e)] ELSE watch
    /\ left' = [left EXCEPT !.writes = @ - 1]
    /\ UNCHANGED <<conn, gen, reported, mover, chan, cache, attempt, req>>

\* The connection drops: what a subscription has not received it may never.
Disconnect ==
    /\ conn = "up"
    /\ left.drops > 0
    /\ conn' = "down"
    /\ watch' = [k \in Kinds |-> [watch[k] EXCEPT !.on = FALSE]]
    /\ left' = [left EXCEPT !.drops = @ - 1]
    /\ UNCHANGED <<gen, reported, mover, log, chan, cache, attempt, req>>

Reconnect ==
    /\ conn = "lost"
    /\ conn' = "up"
    /\ UNCHANGED <<gen, reported, mover, log, watch, chan, cache, attempt, req, left>>

\* The bucket's stream is deleted and recreated: its subscriptions close.
StreamLost ==
    /\ left.losses > 0
    /\ log' = [k \in Kinds |-> <<>>]
    /\ watch' = [k \in Kinds |-> IF Subscribed(k)
                                 THEN [watch[k] EXCEPT !.on = FALSE, !.closed = TRUE]
                                 ELSE watch[k]]
    /\ left' = [left EXCEPT !.losses = @ - 1]
    /\ UNCHANGED <<conn, gen, reported, mover, chan, cache, attempt, req>>

-----------------------------------------------------------------------------
(* moveGeneration: the increment, which closes genMoved, and then the      *)
(* report, both under moveMu.                                              *)

Nobody     == 0
Connection == -1

Move(who) ==
    /\ mover = Nobody
    /\ gen' = gen + 1
    /\ mover' = who

\* bumpGeneration: nats.go's disconnected callback, which runs before the
\* connection is usable again.
BumpGeneration ==
    /\ conn = "down"
    /\ Move(Connection)
    /\ conn' = "lost"
    /\ UNCHANGED <<reported, log, watch, chan, cache, attempt, req, left>>

Reopening(w) == [w EXCEPT !.pc = "reopen", !.sub = <<>>, !.on = FALSE, !.closed = FALSE]

\* onGenerationMove, and moveMu is free again.
Report ==
    /\ mover # Nobody
    /\ mover' = Nobody
    /\ reported' = reported + 1
    /\ watch' = IF mover \in Kinds THEN [watch EXCEPT ![mover] = Reopening(@)] ELSE watch
    /\ UNCHANGED <<conn, gen, log, chan, cache, attempt, req, left>>

-----------------------------------------------------------------------------
(* runWatch and consumeWatcher of one watch.  Its waits are left out: a    *)
(* re-open may come at any time.                                           *)

Keep == UNCHANGED <<conn, log, cache, attempt, req, left>>

\* A moved generation wins over what the subscription has buffered ...
Check(k) ==
    /\ watch[k].pc = "check"
    /\ watch' = [watch EXCEPT ![k] = IF @.gen = gen THEN [@ EXCEPT !.pc = "select"]
                                                    ELSE Reopening(@)]
    /\ Keep /\ UNCHANGED <<gen, reported, mover, chan>>

\* Mutant of SelectMoved: only a closed subscription ends the wait.
SelectMovedClosed(k) ==
    /\ watch[k].pc = "select"
    /\ watch[k].gen # gen /\ watch[k].closed
    /\ watch' = [watch EXCEPT ![k] = Reopening(@)]
    /\ Keep /\ UNCHANGED <<gen, reported, mover, chan>>

\* ... and ends the wait for more.
SelectMoved(k) ==
    /\ watch[k].pc = "select"
    /\ watch[k].gen # gen
    /\ watch' = [watch EXCEPT ![k] = Reopening(@)]
    /\ Keep /\ UNCHANGED <<gen, reported, mover, chan>>

\* markSynced comes before the marker is readable from the channel.
SelectEntry(k) ==
    /\ watch[k].pc = "select"
    /\ watch[k].sub # <<>>
    /\ LET e == Head(watch[k].sub) IN
         watch' = [watch EXCEPT ![k].pc = "send", ![k].hold = e, ![k].sub = Tail(@),
                                ![k].mark = IF e = Marker THEN watch[k].gen ELSE @]
    /\ Keep /\ UNCHANGED <<gen, reported, mover, chan>>

\* A subscription that ends under a live connection moves the generation too.
SelectClosed(k) ==
    /\ watch[k].pc = "select"
    /\ watch[k].sub = <<>> /\ watch[k].closed
    /\ \/ /\ conn = "up"
          /\ Move(k)
          /\ watch' = [watch EXCEPT ![k].pc = "moving"]
       \/ /\ conn # "up"
          /\ watch' = [watch EXCEPT ![k] = Reopening(@)]
          /\ UNCHANGED <<gen, mover>>
    /\ Keep /\ UNCHANGED <<reported, chan>>

Send(k) ==
    /\ watch[k].pc = "send"
    /\ Len(chan[k]) < Buffer
    /\ chan' = [chan EXCEPT ![k] = Append(@, [gen |-> watch[k].gen, e |-> watch[k].hold])]
    /\ watch' = [watch EXCEPT ![k].pc = "check", ![k].hold = Marker]
    /\ Keep /\ UNCHANGED <<gen, reported, mover>>

\* The generation a re-open delivers under is read before it opens.
GenState(k) ==
    /\ watch[k].pc = "reopen"
    /\ watch' = [watch EXCEPT ![k].pc = "opening", ![k].gen = gen]
    /\ Keep /\ UNCHANGED <<gen, reported, mover, chan>>

Opened(k) == [watch[k] EXCEPT !.pc = "check", !.sub = Append(Replay(log[k]), Marker),
                              !.on = TRUE, !.since = Len(log[k])]

OpenWatcher(k) ==
    /\ watch[k].pc = "opening"
    /\ conn = "up"
    /\ watch' = [watch EXCEPT ![k] = Opened(k)]
    /\ Keep /\ UNCHANGED <<gen, reported, mover, chan>>

\* An open fails without a connection, and may fail with one.
OpenFails ==
    \/ conn # "up" /\ UNCHANGED left
    \/ conn = "up" /\ left.fails > 0 /\ left' = [left EXCEPT !.fails = @ - 1]

ReopenFailed(k) ==
    /\ watch[k].pc = "opening"
    /\ OpenFails
    /\ watch' = [watch EXCEPT ![k].pc = "reopen"]
    /\ UNCHANGED <<conn, gen, reported, mover, log, chan, cache, attempt, req>>

-----------------------------------------------------------------------------
(* Caches.Run: the watches are opened one after the other; one that fails  *)
(* ends the others and the call, and runCaches calls again.                *)

\* startAttempt and View: the flags go, the contents and generations stay.
RunStart ==
    /\ attempt.pc = "idle"
    /\ attempt' = [pc |-> "opening", gen |-> gen, next |-> 1]
    /\ cache' = [k \in Kinds |-> [cache[k] EXCEPT !.synced = FALSE]]
    /\ UNCHANGED <<conn, gen, reported, mover, log, watch, chan, req, left>>

\* kvView.Watch: refused when the view is stale.
RunWatch(k) ==
    /\ attempt.pc = "opening" /\ attempt.next = k
    /\ watch[k].pc = "none"
    /\ IF attempt.gen = gen
       THEN /\ watch' = [watch EXCEPT ![k] = [NoWatch EXCEPT !.pc = "first", !.gen = gen]]
            /\ UNCHANGED attempt
       ELSE /\ attempt' = [attempt EXCEPT !.pc = "abandon"]
            /\ UNCHANGED watch
    /\ UNCHANGED <<conn, gen, reported, mover, log, chan, cache, req, left>>

RunOpened(k) ==
    /\ watch[k].pc = "first"
    /\ conn = "up"
    /\ watch' = [watch EXCEPT ![k] = Opened(k)]
    /\ attempt' = [attempt EXCEPT !.pc = IF k = KindCount THEN "running" ELSE @,
                                  !.next = k + 1]
    /\ UNCHANGED <<conn, gen, reported, mover, log, chan, cache, req, left>>

RunFails(k) ==
    /\ watch[k].pc = "first"
    /\ OpenFails
    /\ watch' = [watch EXCEPT ![k] = NoWatch]
    /\ attempt' = [attempt EXCEPT !.pc = "abandon"]
    /\ UNCHANGED <<conn, gen, reported, mover, log, chan, cache, req>>

\* The context of a failed attempt ends its watches; an entry that was being
\* sent may be dropped.
WatchDone(k) ==
    /\ attempt.pc = "abandon"
    /\ watch[k].pc \notin {"none", "moving"}
    /\ watch' = [watch EXCEPT ![k] = NoWatch]
    /\ UNCHANGED <<conn, gen, reported, mover, log, chan, cache, attempt, req, left>>

\* The consumers have drained what was sent.
RunReturns ==
    /\ Reruns
    /\ attempt.pc = "abandon"
    /\ \A k \in Kinds : watch[k].pc = "none" /\ chan[k] = <<>>
    /\ attempt' = [attempt EXCEPT !.pc = "idle"]
    /\ UNCHANGED <<conn, gen, reported, mover, log, watch, chan, cache, req, left>>

-----------------------------------------------------------------------------
(* apply, and the reads it serves.                                         *)

Registered(q) == req[q].pc \in {"get", "got", "parked"}

\* Mutant of Pulsed: only an entry that leaves a record wakes its waiters.
PulsedByRecords(k, e) ==
    IF k = Jobs /\ e.key = Wanted /\ e.val # "gone" THEN {q \in Requests : Registered(q)} ELSE {}

\* pulseSubscribers: the requests a job entry wakes, a deletion included.
Pulsed(k, e) ==
    IF k = Jobs /\ e.key = Wanted THEN {q \in Requests : Registered(q)} ELSE {}

\* Mutant of Rebuilt: what the cache held is patched.
Patched(c, g) == IF c.gen = g THEN c ELSE [c EXCEPT !.gen = g, !.synced = FALSE]

\* A cache drops everything it held under another generation.
Rebuilt(c, g) == IF c.gen = g THEN c ELSE [gen |-> g, synced |-> FALSE, val |-> Empty]

Apply(k) ==
    /\ chan[k] # <<>>
    /\ LET e == Head(chan[k]).e
           c == Rebuilt(cache[k], Head(chan[k]).gen)
       IN /\ cache' = [cache EXCEPT ![k] = IF e = Marker
                                            THEN [c EXCEPT !.synced = TRUE]
                                            ELSE [c EXCEPT !.val[e.key] = e.val]]
          /\ req' = [q \in Requests |-> IF q \in Pulsed(k, e)
                                        THEN [req[q] EXCEPT !.pulse = TRUE]
                                        ELSE req[q]]
    /\ chan' = [chan EXCEPT ![k] = Tail(@)]
    /\ UNCHANGED <<conn, gen, reported, mover, log, watch, attempt, left>>

\* client.Synced: every watch this client has, under the current generation.
SeamSynced(g) ==
    /\ g = gen
    /\ \A k \in Kinds : watch[k].pc \notin {"none", "first"} => watch[k].mark = g

\* Caches.Synced.
CachesSynced(g) == \A k \in Kinds : cache[k].synced /\ cache[k].gen = g

-----------------------------------------------------------------------------
(* A request that waits for the record Wanted.                             *)

Asked == UNCHANGED <<conn, gen, reported, mover, log, watch, chan, cache, attempt, left>>

Goes(q, pc) == req' = [req EXCEPT ![q].pc = pc]

\* Session captures the broadcast before it reads the generation ...
Capture(q) ==
    /\ req[q].pc = "idle"
    /\ req' = [req EXCEPT ![q].pc = "captured", ![q].moved = reported]
    /\ Asked

ReadGeneration(q) ==
    /\ req[q].pc = "captured"
    /\ req' = [req EXCEPT ![q].pc = "bound", ![q].gen = gen]
    /\ Asked

\* ... then both halves of the barrier and the view decide.
Session(q) ==
    /\ req[q].pc = "bound"
    /\ Goes(q, IF conn = "up" /\ SeamSynced(req[q].gen) /\ CachesSynced(req[q].gen)
               THEN "admitted" ELSE "done")
    /\ Asked

\* The realm read is the baseline; a record that is not there is a 404.
Baseline(q) ==
    /\ req[q].pc = "admitted"
    /\ \/ /\ conn = "up" /\ gen = req[q].gen /\ Stored(Jobs)[Wanted] # "gone"
          /\ req' = [req EXCEPT ![q].pc = "subscribe", ![q].base = Stored(Jobs)[Wanted]]
       \/ Goes(q, "done")
    /\ Asked

\* The request registers before it reads again.
Subscribe(q) ==
    /\ req[q].pc = "subscribe"
    /\ Goes(q, "get")
    /\ Asked

\* kvView.Get: the view must be current before the store is asked ...
Get(q) ==
    /\ req[q].pc = "get"
    /\ IF conn = "up" /\ gen = req[q].gen
       THEN req' = [req EXCEPT ![q].pc = "got", ![q].got = Stored(Jobs)[Wanted]]
       ELSE Goes(q, "done")
    /\ Asked

\* ... and after it has answered; then a record that moved, ended or is gone,
\* or the deadline, ends the wait.
Decide(q) ==
    /\ req[q].pc = "got"
    /\ Goes(q, IF \/ gen # req[q].gen
                  \/ req[q].got # req[q].base
                  \/ req[q].got = "ended"
                  \/ req[q].deadline
               THEN "done" ELSE "parked")
    /\ Asked

WakePulse(q) ==
    /\ req[q].pc = "parked" /\ req[q].pulse
    /\ req' = [req EXCEPT ![q].pc = "get", ![q].pulse = FALSE]
    /\ Asked

\* The broadcast the session captured, not the one current now.
WakeMoved(q) ==
    /\ req[q].pc = "parked" /\ reported > req[q].moved
    /\ Goes(q, "done")
    /\ Asked

WakeTimer(q) ==
    /\ req[q].pc = "parked"
    /\ req' = [req EXCEPT ![q].pc = "get", ![q].deadline = TRUE]
    /\ Asked

\* The replica drains, or the client left.
WakeLeft(q) ==
    /\ req[q].pc = "parked"
    /\ Goes(q, "done")
    /\ Asked

-----------------------------------------------------------------------------

Init ==
    /\ conn = "up" /\ gen = 0 /\ reported = 0 /\ mover = Nobody
    /\ log = [k \in Kinds |-> <<>>]
    /\ watch = [k \in Kinds |-> NoWatch]
    /\ chan = [k \in Kinds |-> <<>>]
    /\ cache = [k \in Kinds |-> [gen |-> 0, synced |-> FALSE, val |-> Empty]]
    /\ attempt = [pc |-> "idle", gen |-> 0, next |-> 1]
    /\ req = [q \in Requests |-> [pc |-> "idle", moved |-> 0, gen |-> 0, base |-> "gone",
                                  got |-> "gone", pulse |-> FALSE, deadline |-> FALSE]]
    /\ left = [writes |-> MaxWrites, drops |-> MaxDrops, losses |-> MaxLosses,
               fails |-> MaxFails]

WatchStep(k) ==
    \/ Check(k) \/ SelectMoved(k) \/ SelectEntry(k) \/ SelectClosed(k) \/ Send(k)
    \/ GenState(k) \/ OpenWatcher(k)

RunStep ==
    \/ RunStart \/ RunReturns
    \/ \E k \in Kinds : RunWatch(k) \/ RunOpened(k) \/ WatchDone(k)

Answered(q) == Get(q) \/ Decide(q) \/ WakePulse(q) \/ WakeMoved(q)

Ask(q) == Capture(q) \/ ReadGeneration(q) \/ Session(q) \/ Baseline(q) \/ Subscribe(q)

Next ==
    \/ \E k \in Kinds, x \in Keys, v \in Vals : Write(k, x, v)
    \/ Disconnect \/ Reconnect \/ StreamLost \/ BumpGeneration \/ Report
    \/ RunStep
    \/ \E k \in Kinds : WatchStep(k) \/ ReopenFailed(k) \/ RunFails(k) \/ Apply(k)
    \/ \E q \in Requests : Ask(q) \/ Answered(q) \/ WakeTimer(q) \/ WakeLeft(q)

Spec == Init /\ [][Next]_vars

\* Every goroutine that can go on does, nats.go runs its callback and keeps
\* reconnecting, and a select that has something to take takes it.  A request's
\* timer is not relied on.
Fairness ==
    /\ WF_vars(BumpGeneration) /\ WF_vars(Report) /\ WF_vars(Reconnect)
    /\ WF_vars(RunStep)
    /\ \A k \in Kinds : WF_vars(WatchStep(k)) /\ WF_vars(Apply(k))
    /\ \A q \in Requests : WF_vars(Answered(q))

FairSpec == Spec /\ Fairness

-----------------------------------------------------------------------------
(* Properties.                                                             *)

CutUnnoticed(k) == conn = "down" \/ watch[k].closed \/ watch[k].pc = "moving"

\* What a reader behind the barrier of the current generation is answered, by
\* any of the caches, is complete as of one point in the stream, no earlier than
\* the one its watch was opened at: never half a replay, never a key deleted
\* behind a gap.  Excepted is the moment between a cut and the move it is about
\* to cause (Caches, apply, syncedLocked; consumeWatcher).
GuardedReadIsAPoint ==
    CachesSynced(gen) => \A k \in Kinds : ~CutUnnoticed(k) =>
        \E n \in watch[k].since .. Len(log[k]) : cache[k].val = After(log[k], n)

\* A request is never left asleep over a record that has moved: the entry, or
\* the broadcast of the generation it was admitted under, wakes it without the
\* help of its deadline, whatever is cut or recreated meanwhile
\* (waitForCollection, Subscribe, MoveGeneration).
NeverLeftAsleep ==
    \A q \in Requests :
        (req[q].pc = "parked" /\ Stored(Jobs)[Wanted] # req[q].base) ~> (req[q].pc # "parked")

\* After the last cut the barrier opens again and stays open: every watch
\* replays under one generation, however many of them moved it (runWatch,
\* markSynced, Caches.Run).
BarrierReopens == <>[](conn = "up" /\ SeamSynced(gen) /\ CachesSynced(gen))

=============================================================================
