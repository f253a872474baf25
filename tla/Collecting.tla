----------------------------- MODULE Collecting -----------------------------
(***************************************************************************)
(* One run of `profgate collect` (cmd/profgate/collect.go over             *)
(* internal/client/collect.go) against the handlers of Publication: the    *)
(* create under one idempotency key, its retries while the result is       *)
(* unknown, and what the user is told.  --wait, which goes on to read the  *)
(* record, changes nothing.  An attempt whose answer is lost goes on in    *)
(* its replica: once its record is written a publication no longer depends *)
(* on its client.                                                          *)
(***************************************************************************)
EXTENDS Publication

CONSTANT MaxAttempts   \* bound: creates the 30-second window has room for

VARIABLE
    cmd   \* the command: where it is, its attempts and the one it waits for with
          \* what that one's handler answered, the identifier it was told, its exit

collectVars == <<vars, cmd>>

Command == [pc |-> "create", sent |-> {}, at |-> NoId, answer |-> "none", id |-> NoId, exit |-> "none"]

CollectInit ==
    /\ Init
    /\ cmd = Command

-----------------------------------------------------------------------------
(* The handlers, with the answer each way to end one gives.                *)

\* The step is one before the first write, and writes nothing.
WritesNothing(i) ==
    /\ pub[i].pc \in {"lookup", "lookupRecord", "clearStale", "createJob"}
    /\ job' = job /\ late' = late

\* What the handler answers when its next step is its last.  Until its first
\* write it may refuse for many reasons, a cache that shows the Service live among
\* them; later it fails, or dies ("cut"), and a loser of the active key without a
\* binding is refused (refuseLoser).
Answers(i) ==
    IF pub'[i].pc # "done" THEN {"none"}
    ELSE IF pub'[i].answer # NoId THEN {"ok"}
    ELSE IF pub'[i] # Blank("done", NoId) THEN {"busy"}
    ELSE {"unavailable", "cut"} \cup {s \in {"refused"} : WritesNothing(i)}

Handler(i) ==
    /\ pub[i].pc # "idle"
    /\ Publisher(i)
    /\ \E s \in Answers(i) : cmd' = IF cmd.at = i THEN [cmd EXCEPT !.answer = s] ELSE cmd

-----------------------------------------------------------------------------
(* Client.Create.                                                          *)

Post(i) ==
    /\ cmd.pc = "create"
    /\ Start(i)
    /\ cmd' = [cmd EXCEPT !.pc = "sent", !.at = i, !.sent = @ \cup {i}]

Rests(pc) == [cmd EXCEPT !.pc = pc, !.at = NoId, !.answer = "none"]
Exit(why) == [Rests("ended") EXCEPT !.exit = why]

\* Mutant of CreateIndeterminate: a 5xx is taken for a refusal.
CreateIndeterminateCut(s) == s = "cut"

\* A 5xx settles nothing, any 4xx does.
CreateIndeterminate(s) == s \in {"unavailable", "cut"}

\* The window is over, or the user interrupts the sleep: the command says that a
\* Collection may exist.
Retry == IF Cardinality(cmd.sent) < MaxAttempts
         THEN {Rests("create"), Exit("unknown")}
         ELSE {Exit("unknown")}

\* No answer, or half of one: the connection, a proxy or the user's interrupt.
LoseAnswer ==
    /\ cmd.pc = "sent"
    /\ cmd' \in Retry
    /\ UNCHANGED vars

Hear ==
    LET s == cmd.answer IN
    /\ cmd.pc = "sent" /\ s \notin {"none", "cut"}
    /\ \/ /\ CreateIndeterminate(s)
          /\ cmd' \in Retry
       \/ /\ s = "ok"
          /\ cmd' = [Exit("told") EXCEPT !.id = pub[cmd.at].answer]
       \/ /\ s # "ok" /\ ~CreateIndeterminate(s)
          /\ cmd' = Exit(s)
    /\ UNCHANGED vars

-----------------------------------------------------------------------------
(* Owners (a claim, a renewal, an outcome), scans, cancels and sweeps, at  *)
(* the one step of each that takes effect; Publication has their reads and *)
(* their failures (Agent).                                                 *)

Elsewhere(i) ==
    LET record == job[i]
        key    == active[ServiceOf[i]]
        held   == receipt[KeyOf[i]]
    IN
    /\ \/ \E to \in Successors(record.state) :
            /\ to = "running" => record.rev < MaxRev
            /\ Commit(UpdateJob(i, record.rev, to))
       \/ record.state \in Retirable /\ Commit(DeleteJob(i, record.rev))
       \/ key.id = i /\ record.state \in Terminal \cup {"absent"} /\ Commit(DeleteActive(i, key.rev))
       \/ held.id = i /\ record.state = "absent" /\ Commit(DeleteReceipt(i, held.rev))
    /\ UNCHANGED <<pub, agent, late, cmd>>

-----------------------------------------------------------------------------

CollectNext ==
    \/ \E i \in Ids : Post(i) \/ Handler(i) \/ Elsewhere(i)
    \/ LoseAnswer \/ Hear
    \/ LateArrival /\ UNCHANGED cmd

CollectSpec == CollectInit /\ [][CollectNext]_collectVars

-----------------------------------------------------------------------------
\* However often a create is sent again, one run of collect has at most one
\* Collection standing (Create posts the same key), and the one it is told of is
\* one its own attempts created.  A command that was refused on its only attempt
\* has none and will get none, whatever its handler left behind.
CollectsOnce ==
    /\ Cardinality({i \in cmd.sent : job[i].state \in Standing}) <= 1
    /\ cmd.id # NoId => cmd.id \in cmd.sent
    /\ Cardinality(cmd.sent) = 1 /\ cmd.exit \notin {"none", "told", "unknown"}
         => cmd.sent \cap published = {}
=============================================================================
