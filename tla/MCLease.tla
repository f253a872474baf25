------------------------------ MODULE MCLease ------------------------------
(***************************************************************************)
(* Instances of Lease.tla for TLC.                                         *)
(***************************************************************************)
EXTENDS Lease, TLC

CONSTANTS r1, r2

\* Clocks one unit apart, the most the margins allow with one unit of Slack.
OneAhead == r1 :> 0 @@ r2 :> 1

\* One replica on true time.
OnTime == r1 :> 0

\* While a replica runs the Collection ends, although owners die or hang, and a
\* drain returns although a merge no context interrupts is still at work (scan,
\* Overdue, Worker.Drain).
WorkEnds == Ends /\ DrainReturns

=============================================================================
