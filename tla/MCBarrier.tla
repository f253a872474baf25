----------------------------- MODULE MCBarrier -----------------------------
(***************************************************************************)
(* Instances of Barrier for TLC.  Barrier_recreated.cfg begins as the      *)
(* module does.  Barrier.cfg begins later in such behaviours, with the     *)
(* record written by another replica before this one starts (Cold) or once *)
(* its watches have replayed (Warm), and with as many mishaps left as the  *)
(* scenario is about: a request meets one kind of cut, a start the other   *)
(* mishaps, a replica that is up both kinds of cut.                        *)
(***************************************************************************)
EXTENDS Barrier

TheRecord == [k \in Kinds |-> IF k = Jobs THEN <<[key |-> Wanted, val |-> "live"]>> ELSE <<>>]

\* The request is yet to come, or has been answered.
Request(pc) == [q \in Requests |-> [pc |-> pc, moved |-> 0, gen |-> 0, base |-> "gone",
                                    got |-> "gone", pulse |-> FALSE, deadline |-> FALSE]]

Quiet ==
    /\ conn = "up" /\ gen = 0 /\ reported = 0 /\ mover = Nobody
    /\ log = TheRecord
    /\ chan = [k \in Kinds |-> <<>>]

Cold ==
    /\ watch = [k \in Kinds |-> NoWatch]
    /\ cache = [k \in Kinds |-> [gen |-> 0, synced |-> FALSE, val |-> Empty]]
    /\ attempt = [pc |-> "idle", gen |-> 0, next |-> 1]

Warm ==
    /\ watch = [k \in Kinds |-> [NoWatch EXCEPT !.pc = "select", !.mark = 0, !.on = TRUE,
                                                !.since = Len(TheRecord[k])]]
    /\ cache = [k \in Kinds |-> [gen |-> 0, synced |-> TRUE, val |-> Stored(k)]]
    /\ attempt = [pc |-> "running", gen |-> 0, next |-> KindCount + 1]

Left(w, d, l, f) == [writes |-> w, drops |-> d, losses |-> l, fails |-> f]

ScenarioInit ==
    /\ Quiet
    /\ \/ Warm /\ req = Request("idle") /\ left \in {Left(1, 1, 0, 0), Left(1, 0, 1, 0)}
       \/ Warm /\ req = Request("done") /\ left = Left(1, 1, 1, 0)
       \/ Cold /\ req = Request("done")
               /\ left \in {Left(1, 1, 0, 0), Left(1, 0, 1, 0), Left(0, 1, 0, 1)}

Scenarios == ScenarioInit /\ [][Next]_vars /\ Fairness
=============================================================================
