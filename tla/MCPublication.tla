--------------------------- MODULE MCPublication ---------------------------
(* Instances of Publication for TLC: who carries which key. *)
EXTENDS Publication, TLC

CONSTANTS i1, i2, s1, k1

OneService == [i \in Ids |-> s1]

SharedKey == [i \in Ids |-> k1]

SameHash == [i \in Ids |-> "same"]

\* Identifiers with the same key are interchangeable.
SwapIds == Permutations(Ids)

\* What a publication that died anywhere left behind is reclaimed: the active
\* key frees its Service and the receipt goes (visit's publish grace,
\* sweepActive, reconcileReceipts).
NothingIsLeft == ServiceFreed /\ ReceiptReclaimed
=============================================================================
