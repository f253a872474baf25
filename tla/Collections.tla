---------------------------- MODULE Collections ----------------------------
(***************************************************************************)
(* What the publication protocol of profgate's PGO mode promises, with no  *)
(* store, no replicas and no failures in sight.                            *)
(*                                                                         *)
(* A Collection is published once, is live until it ends, stays readable   *)
(* until its record is retired, and is then forgotten.  Two promises hold  *)
(* over all of them:                                                       *)
(*   - a Service has at most one live Collection;                          *)
(*   - an idempotency key stands for at most one Collection until that     *)
(*     Collection is forgotten.                                            *)
(*                                                                         *)
(* Publication.tla shows that the writes of the code implement this.       *)
(***************************************************************************)

CONSTANTS
    Ids,         \* Collection identifiers; each one is one publication
    NoKey,       \* the key of a Collection created without Idempotency-Key
    ServiceOf,   \* [Ids -> Services]: the Service a publication is for
    KeyOf        \* [Ids -> Keys \cup {NoKey}]: its idempotency key

VARIABLE status  \* [Ids -> Statuses]

Statuses == {"unpublished", "live", "ended", "forgotten"}

TypeOK == status \in [Ids -> Statuses]

SameService(i, j) == ServiceOf[i] = ServiceOf[j]
SameKey(i, j)     == KeyOf[i] # NoKey /\ KeyOf[i] = KeyOf[j]

Init == status = [i \in Ids |-> "unpublished"]

\* A Collection becomes claimable: its Service has no live Collection and its
\* key stands for nothing.
Publish(i) ==
    /\ status[i] = "unpublished"
    /\ \A j \in Ids : SameService(i, j) => status[j] # "live"
    /\ \A j \in Ids : SameKey(i, j) => status[j] \notin {"live", "ended"}
    /\ status' = [status EXCEPT ![i] = "live"]

\* It completes, fails or is cancelled.
End(i) ==
    /\ status[i] = "live"
    /\ status' = [status EXCEPT ![i] = "ended"]

\* Its record reaches the end of its retention.
Forget(i) ==
    /\ status[i] = "ended"
    /\ status' = [status EXCEPT ![i] = "forgotten"]

Next == \E i \in Ids : Publish(i) \/ End(i) \/ Forget(i)

Spec == Init /\ [][Next]_status
=============================================================================
