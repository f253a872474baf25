----------------------------- MODULE MCSweeper -----------------------------
(***************************************************************************)
(* An instance for TLC of what the sweeper forgets: artifacts and their    *)
(* records, and the scheduler's slot keys.  The two share no state, so one *)
(* run explores them side by side: the machine chosen in the initial state *)
(* is the one that moves.                                                  *)
(***************************************************************************)
EXTENDS Slots, Artifacts, TLC

CONSTANTS r1, r2

VARIABLE machine

all == <<machine, vars, artifactVars>>

TheSlots(A)     == machine = "slots" /\ A /\ UNCHANGED <<machine, artifactVars>>
TheArtifacts(A) == machine = "artifacts" /\ A /\ UNCHANGED <<machine, vars>>

\* Later in a behaviour of Artifacts, when the Collections are in these states:
\* what is absent was swept before.
Meanwhile(states) ==
    /\ rec = [i \in Ids |-> [state |-> states[i], attempt |-> 1,
                             art |-> IF states[i] = "completed" THEN 1 ELSE 0]]
    /\ due = [i \in Ids |-> states[i] = "absent"]
    /\ objects = Completed(rec) \X {1}
    /\ late = {}
    /\ work = [o \in Objects |-> IF o[2] # 1 THEN "none"
                                ELSE CASE states[o[1]] = "running" -> "sampling"
                                       [] states[o[1]] = "ended"   -> "over"
                                       [] OTHER                    -> "committed"]
    /\ cached = [i \in Ids |-> CachedJob(rec[i])]
    /\ swp = NoPass
    /\ budget = MaxMishaps

\* A request meets artifacts that expire, under a failed Collection that takes a
\* place of the page until it is swept; or attempts at one Collection go on beside
\* the sweep of another, and no request is about.
Requested == Meanwhile(<<"completed", "completed", "ended">>) /\ rd = NoRead
Attempted == Meanwhile(<<"completed", "running", "absent">>) /\ rd = [NoRead EXCEPT !.pc = "failed"]

EachInit ==
    /\ machine \in {"slots", "artifacts"} /\ Init
    /\ Requested \/ (machine = "artifacts" /\ Attempted)
    /\ machine # "slots" => every = Shortest

EachNext == TheSlots(Next) \/ TheArtifacts(ArtifactsNext)

\* The fairness of Slots and of Artifacts, each while it is the machine chosen.
EachFairness ==
    /\ WF_all(TheSlots(Time))
    /\ \A r \in Replicas : WF_all(TheSlots(Skip(r) \/ CreateSlot(r)))
    /\ WF_all(TheSlots(\E r \in Replicas, s \in Starts : SweepSlot(r, s)))
    /\ WF_all(TheArtifacts(\E i \in Ids : EndRecord(i)))
    /\ WF_all(TheArtifacts(\E i \in Ids : Deliver(i)))
    /\ WF_all(TheArtifacts(Sweep))
    /\ SF_all(TheArtifacts(\E o \in Objects : OrphanRead(o) /\ swp'.pc = "delete"))

EachSpec == EachInit /\ [][EachNext]_all /\ EachFairness

-----------------------------------------------------------------------------
OneAhead == r1 :> 0 @@ r2 :> 1

\* Every jitter offset occurs.
Spreading == [s \in Starts |-> s]

\* Nothing is kept for good: slot keys go once no clock needs them, and the
\* bucket ends with the objects of completed records alone, whatever attempts,
\* lost answers and crashes put there (the sweeper's passes).
SweptInTheEnd == KeysReclaimed /\ BucketSettles
=============================================================================
