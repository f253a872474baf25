------------------------------ MODULE Sampling ------------------------------
(***************************************************************************)
(* The work of one attempt (internal/pgo/rounds.go): rounds of samplers    *)
(* over the Service's Pods, merged one by one into a running profile.      *)
(* Targets come from informer caches that lag behind the API server; each  *)
(* Pod is confirmed there before it is profiled.  A Pod that is replaced   *)
(* keeps its name and address, as a StatefulSet's may; between the         *)
(* confirmation and the dial an address is taken not to change hands       *)
(* (docs/specs/gateway.md, section 5.6, accepts that window).              *)
(***************************************************************************)
EXTENDS Naturals, FiniteSets

CONSTANTS
    Fleet,          \* how many Pods the Service has
    SampleRounds,   \* sampling.rounds
    Wanted,         \* sampling.replicas, within pgo.limits.maxTargetsPerRound
    MaxParallel,    \* sampling.maxParallel
    Pins,           \* target.version, or 0 for none
    MaxRolls        \* bound: Pods replaced

ASSUME SamplingAssumption ==
    /\ {Fleet, SampleRounds, Wanted, MaxParallel} \subseteq Nat \ {0}
    /\ MaxRolls \in Nat /\ Pins \subseteq 0 .. 2

VARIABLES
    api,      \* each Pod: its uid and the version it runs
    lists,    \* the same as the informer cache holds it
    feed,     \* targets not handed to a sampler yet
    sampler,  \* the round's sampling goroutines
    att,      \* run: where it is, the round, the resolved version, the reason
    merged,   \* the samples in the running profile
    manifest, \* the manifest's samples and the progress counters
    cut       \* the work context has ended, or the deadline has passed

sampleVars == <<api, lists, feed, sampler, att, merged, manifest, cut>>

Pods     == 1 .. Fleet   \* names, each with an address of its own
Samplers == 1 .. MaxParallel
Gone     == [pc |-> "gone", pod |-> 0, uid |-> 0, by |-> 0, version |-> 0]
Parked   == [Gone EXCEPT !.pc = "parked"]
Uids     == 1 .. Fleet + MaxRolls

\* A rollout may be under way from the start.
SampleInit ==
    /\ \E v \in [Pods -> 1 .. 2] : api = [p \in Pods |-> [uid |-> p, version |-> v[p]]]
    /\ lists = api
    /\ feed = {}
    /\ sampler = [s \in Samplers |-> Gone]
    /\ \E pin \in Pins :
          att = [pc |-> "round", round |-> 0, pin |-> pin, resolved |-> 0, ok |-> 0,
                 out |-> Gone, failure |-> "none", reason |-> "none"]
    /\ merged = {}
    /\ manifest = [samples |-> {}, ok |-> 0, failed |-> 0]
    /\ cut = FALSE

-----------------------------------------------------------------------------
(* The cluster, and the owner loop that ends the work.                     *)

Replaced(p) ==
    LET used == {api[q].uid : q \in Pods} \cup {lists[q].uid : q \in Pods}
                \cup {m.uid : m \in manifest.samples} \cup {sampler[s].uid : s \in Samplers}
    IN
    /\ \E u \in Uids : /\ \A x \in used : x < u
                       /\ api' = [api EXCEPT ![p] = [uid |-> u, version |-> 2]]
    /\ UNCHANGED <<lists, feed, sampler, att, merged, manifest, cut>>

CacheSees(p) ==
    /\ lists[p] # api[p]
    /\ lists' = [lists EXCEPT ![p] = api[p]]
    /\ UNCHANGED <<api, feed, sampler, att, merged, manifest, cut>>

CutShort ==
    /\ ~cut /\ att.pc # "done"
    /\ cut' = TRUE
    /\ UNCHANGED <<api, lists, feed, sampler, att, merged, manifest>>

-----------------------------------------------------------------------------
(* run.                                                                    *)

Fail(reason) == [att EXCEPT !.pc = "done", !.reason = reason]

\* ResolveVersion: round 0's Pods agree on one version, or the pin decides.
Versions == {lists[p].version : p \in Pods} \cap (IF att.pin = 0 THEN Nat ELSE {att.pin})

ResolveVersion(v) ==
    IF att.round > 0 THEN v = att.resolved ELSE Versions = {v}

\* Every listed Pod.
TargetsAny(v) == Pods

\* Only the resolved version's Pods.
TargetsFor(v) == {p \in Pods : lists[p].version = v}

\* The shuffle and the cap: any Wanted of them, or all.  Discovery may fail instead, and
\* so may the version rule.
Fan(v) ==
    /\ att.pc = "round" /\ ~cut /\ ResolveVersion(v) /\ TargetsFor(v) # {}
    /\ \E ts \in SUBSET TargetsFor(v) :
          /\ Cardinality(ts) = Wanted \/ (ts = TargetsFor(v) /\ Cardinality(ts) < Wanted)
          /\ feed' = {[pod |-> p, uid |-> lists[p].uid] : p \in ts}
          /\ sampler' = [s \in Samplers |-> IF s <= Cardinality(ts) THEN Parked ELSE Gone]
    /\ att' = [att EXCEPT !.pc = "fan", !.resolved = v, !.ok = 0]
    /\ UNCHANGED <<api, lists, merged, manifest, cut>>

NoFan ==
    /\ att.pc = "round"
    /\ \/ cut /\ att' = Fail("deadline_exceeded")
       \/ ~cut /\ att' = Fail("no_targets")   \* discovery failed, or none is left
       \/ /\ ~cut /\ att.round = 0 /\ Cardinality(Versions) # 1
          /\ att' = Fail(IF Versions = {} THEN "version_missing" ELSE "version_conflict")
    /\ UNCHANGED <<api, lists, feed, sampler, merged, manifest, cut>>

\* The channel is closed once every sampler has left, not before.
DrainedAtFailure == att.out = Gone /\ (att.failure # "none" \/ \A s \in Samplers : sampler[s] = Gone)

Drained == att.out = Gone /\ \A s \in Samplers : sampler[s] = Gone

RoundEnds ==
    /\ att.pc = "fan" /\ Drained
    /\ att' = IF att.failure # "none" THEN Fail(att.failure)
              ELSE IF att.ok = 0 THEN Fail("no_samples")
              ELSE [att EXCEPT !.pc = IF att.round + 1 < SampleRounds THEN "sleep" ELSE "finish"]
    /\ UNCHANGED <<api, lists, feed, sampler, merged, manifest, cut>>

Sleeps ==
    /\ att.pc = "sleep"
    /\ att' = IF cut THEN Fail("deadline_exceeded")
              ELSE [att EXCEPT !.pc = "round", !.round = @ + 1]
    /\ UNCHANGED <<api, lists, feed, sampler, merged, manifest, cut>>

\* Compact, the size, the encoding and the Put may each fail.
FinishRounds ==
    /\ att.pc = "finish"
    /\ att' \in {Fail(r) : r \in {"none", "merged_too_large", "serialize_failed", "artifact_store_failed"}}
    /\ UNCHANGED <<api, lists, feed, sampler, merged, manifest, cut>>

-----------------------------------------------------------------------------
(* runRound: the feeder, the samplers and the loop that absorbs.           *)

TakesTarget(s, t) ==
    /\ sampler[s].pc = "parked" /\ t \in feed
    /\ feed' = feed \ {t}
    /\ sampler' = [sampler EXCEPT ![s] = [pc |-> "confirm", pod |-> t.pod, uid |-> t.uid,
                                         by |-> 0, version |-> 0]]
    /\ UNCHANGED <<api, lists, att, merged, manifest, cut>>

FeederQuits ==
    /\ cut /\ feed # {}
    /\ feed' = {}
    /\ UNCHANGED <<api, lists, sampler, att, merged, manifest, cut>>

SamplerLeaves(s) ==
    /\ \/ sampler[s].pc = "parked" /\ feed = {}
       \/ sampler[s].pc = "send" /\ cut     \* its outcome is dropped
    /\ sampler' = [sampler EXCEPT ![s] = Gone]
    /\ UNCHANGED <<api, lists, feed, att, merged, manifest, cut>>

\* By name and address alone.
ConfirmsName(s) == TRUE

\* Confirm: the Pod behind the name is still the one selected.
Confirms(s) == api[sampler[s].pod].uid = sampler[s].uid

Confirm(s) ==
    /\ sampler[s].pc = "confirm"
    /\ \/ /\ Confirms(s)
          /\ sampler' = [sampler EXCEPT ![s].pc = "fetch", ![s].by = api[sampler[s].pod].uid]
       \/ sampler' = [sampler EXCEPT ![s].pc = "send"]   \* changed, or the read failed
    /\ UNCHANGED <<api, lists, feed, att, merged, manifest, cut>>

\* The proxy's transfer and decodeSample: a profile, or a failure of either.
Fetch(s) ==
    LET p == sampler[s].pod IN
    /\ sampler[s].pc = "fetch"
    /\ \/ /\ api[p].uid = sampler[s].by
          /\ sampler' = [sampler EXCEPT ![s].pc = "send", ![s].version = api[p].version]
       \/ sampler' = [sampler EXCEPT ![s].pc = "send"]
    /\ UNCHANGED <<api, lists, feed, att, merged, manifest, cut>>

\* The channel is unbuffered: the sampler goes on once its outcome is taken.
Receives(s) ==
    /\ sampler[s].pc = "send" /\ att.pc = "fan" /\ att.out = Gone
    /\ att' = [att EXCEPT !.out = sampler[s]]
    /\ sampler' = [sampler EXCEPT ![s] = Parked]
    /\ UNCHANGED <<api, lists, feed, merged, manifest, cut>>

SampleEntry(o, good) == [round |-> att.round, uid |-> o.uid, ok |-> good]

\* A sample that does not merge leaves the running profile as it was; one that
\* does is measured, and a profile grown too large ends the round.
Absorb ==
    LET o == att.out IN
    /\ o # Gone /\ att.failure = "none"
    /\ \/ /\ o.version # 0
          /\ merged' = merged \cup {[round |-> att.round, uid |-> o.uid, version |-> o.version]}
          /\ manifest' = [manifest EXCEPT !.samples = @ \cup {SampleEntry(o, TRUE)}, !.ok = @ + 1]
          /\ \E f \in {"none", "merged_too_large"} :
                att' = [att EXCEPT !.out = Gone, !.ok = @ + 1, !.failure = f]
       \/ /\ o.version # 0 => merged # {}
          /\ manifest' = [manifest EXCEPT !.samples = @ \cup {SampleEntry(o, FALSE)}, !.failed = @ + 1]
          /\ att' = [att EXCEPT !.out = Gone]
          /\ UNCHANGED merged
    /\ UNCHANGED <<api, lists, feed, sampler, cut>>

\* After a failure the rest of the round is drained, not merged.
Drains ==
    /\ att.out # Gone /\ att.failure # "none"
    /\ att' = [att EXCEPT !.out = Gone]
    /\ UNCHANGED <<api, lists, feed, sampler, merged, manifest, cut>>

SampleNext ==
    \/ \E p \in Pods : Replaced(p) \/ CacheSees(p)
    \/ \E v \in 1 .. 2 : Fan(v)
    \/ \E s \in Samplers : \/ \E t \in feed : TakesTarget(s, t)
                           \/ SamplerLeaves(s) \/ Confirm(s) \/ Fetch(s) \/ Receives(s)
    \/ CutShort \/ NoFan \/ RoundEnds \/ Sleeps \/ FinishRounds \/ FeederQuits \/ Absorb \/ Drains

SampleSpec == SampleInit /\ [][SampleNext]_sampleVars

-----------------------------------------------------------------------------
\* The running profile holds exactly the samples the manifest lists as ok, all
\* of the one resolved version, and an attempt that ends well has one of each
\* round.  The counters agree with the manifest.
ArtifactIsItsManifest ==
    /\ {[round |-> m.round, uid |-> m.uid] : m \in merged}
         = {[round |-> e.round, uid |-> e.uid] : e \in {e \in manifest.samples : e.ok}}
    /\ \A m \in merged : m.version = att.resolved
    /\ manifest.ok = Cardinality({e \in manifest.samples : e.ok})
    /\ manifest.failed = Cardinality({e \in manifest.samples : ~e.ok})
    /\ att.pc = "done" /\ att.reason = "none"
         => \A r \in 0 .. SampleRounds - 1 : \E m \in merged : m.round = r

\* No sampler outlives its round: nothing profiles a Pod, and nothing decoded waits to
\* be merged, while the attempt sleeps, stores or has returned, though the round had
\* failed or was cut short with samplers still at work (runRound's drain of results).
RoundIsBounded ==
    att.pc # "fan" => att.out = Gone /\ \A s \in Samplers : sampler[s] = Gone

\* As runRound's comment has it: the results channel is unbuffered, so at most
\* maxParallel decoded profiles are in flight.  A sampler whose outcome was taken goes
\* on to the next Pod while that outcome is still being merged, so one more may be.
AtMostMaxParallel ==
    Cardinality({s \in Samplers : sampler[s].version # 0})
      + (IF att.out.version # 0 THEN 1 ELSE 0) <= MaxParallel
=============================================================================
