----------------------------- MODULE MCReplica -----------------------------
(***************************************************************************)
(* An instance for TLC of what replicas take over from one another: the    *)
(* work on one Collection - the eligibility of the Pods it samples, the    *)
(* lease that lets one replica sample, the rounds that replica runs - and  *)
(* of all, the browser sessions and the walks through a listing.  They     *)
(* meet only where a module already allows every outcome (the lease cuts   *)
(* the rounds short at any moment; a Pod or a record may change at any     *)
(* moment), so one run explores them side by side: the machine chosen in   *)
(* the initial state is the one that moves.                                *)
(***************************************************************************)
EXTENDS MCLease, Sampling, Eligibility, Sessions, Listing, TLC

VARIABLE machine

all == <<machine, vars, sampleVars, eligVars, sessionVars, listVars>>

TheLease(A)    == machine = "lease" /\ A /\ UNCHANGED <<machine, sampleVars, eligVars, sessionVars, listVars>>
TheRounds(A)   == machine = "rounds" /\ A /\ UNCHANGED <<machine, vars, eligVars, sessionVars, listVars>>
TheTargets(A)  == machine = "targets" /\ A /\ UNCHANGED <<machine, vars, sampleVars, sessionVars, listVars>>
TheSessions(A) == machine = "sessions" /\ A /\ UNCHANGED <<machine, vars, sampleVars, eligVars, listVars>>
TheListing(A)  == machine = "listing" /\ A /\ UNCHANGED <<machine, vars, sampleVars, eligVars, sessionVars>>

\* Nothing to discover: where Eligibility stays while another machine moves.
NoDiscovery ==
    /\ services = "none" /\ endpoints = <<>> /\ pods = [p \in PodNames |-> NoPod] /\ events = 0
    /\ look = NewLook(CHOOSE ask \in Asks : TRUE)

\* Pods differ by their versions only, so those are taken in order.
EachInit ==
    /\ machine \in {"lease", "rounds", "targets", "sessions", "listing"}
    /\ Init /\ SampleInit /\ SessionsInit /\ ListInit
    /\ machine # "rounds" => att.pin = 0 /\ \A p \in Pods : api[p].version = 1
    /\ \A p, q \in Pods : p < q => api[p].version =< api[q].version
    /\ IF machine = "targets" THEN EligInit ELSE NoDiscovery
    /\ machine # "listing" => history = <<[id \in Records |-> Missing]>>

EachNext ==
    \/ TheLease(Next)
    \/ TheRounds(SampleNext)
    \/ TheTargets(EligNext)
    \/ TheSessions(SessionsNext)
    \/ TheListing(ListNext)

EachSpec == EachInit /\ [][EachNext]_all

\* The replicas that share the cookie keys are alike, and so are those that serve
\* the pages; as only one machine moves, they share two names.
SwapGateways == Permutations(Gateways)

-----------------------------------------------------------------------------
\* Pods in every state, two of them with two addresses; slices that name a
\* Pod twice, with a stale uid, without a reference, and in both families.
Pod(u, label, state, ips, named) ==
    [uid |-> u, label |-> label, deleting |-> state = "deleting", running |-> state # "pending",
     ready |-> state \in {"up", "deleting"}, ips |-> ips, named |-> named, version |-> u % 2]
SomePods ==
    {Pod(1, "app", "up", {"x"}, TRUE), Pod(1, "app", "unready", {"x"}, TRUE),
     Pod(1, "app", "pending", {"x"}, TRUE),
     Pod(2, "app", "up", {"x", "y"}, TRUE), Pod(2, "app", "up", {"x", "y"}, FALSE),
     Pod(2, "other", "up", {"x"}, TRUE), Pod(3, "app", "deleting", {"x"}, TRUE)}
Ep(name, u, ready, addr) == [ref |-> TRUE, name |-> name, uid |-> u, ready |-> ready, addr |-> addr]
Slice(family, eps) == [family |-> family, eps |-> eps]
SomeEps ==
    {Ep("p", 1, TRUE, "x"), Ep("p", 2, TRUE, "x"), Ep("p", 2, TRUE, "y"),
     Ep("p", 2, FALSE, "x"), Ep("q", 1, TRUE, "y")}
SomeSlices ==
    {<<Slice("IPv4", <<d, e>>)>> : d, e \in SomeEps}
      \cup {<<Slice("IPv6", <<Ep("p", 2, TRUE, "y")>>),
              Slice("IPv4", <<e, Ep("q", 1, TRUE, "x")>>)>> : e \in SomeEps}
      \cup {<<>>, <<Slice("IPv6", <<[Ep("p", 1, TRUE, "x") EXCEPT !.ref = FALSE],
                                   Ep("p", 2, TRUE, "x"), Ep("q", 1, TRUE, "x")>>)>>}

Ask(explain, named, v, name) == [explain |-> explain, named |-> named, version |-> v, pod |-> name]
SomeAsks == {Ask(FALSE, TRUE, 0, AnyPod), Ask(FALSE, FALSE, 1, "p"), Ask(FALSE, TRUE, 0, "q"),
             Ask(TRUE, TRUE, 0, AnyPod), Ask(TRUE, FALSE, 0, "p"), Ask(TRUE, TRUE, 1, "q")}

\* Listing: the first two records share an instant.
Instants == <<2, 2, 3>>
Origins  == <<"api", "schedule", "api">>
NoFilter == [states |-> {}, since |-> 0, origin |-> AnyOrigin]
SomeFilters == {NoFilter, [NoFilter EXCEPT !.states = {"completed"}],
                [NoFilter EXCEPT !.since = 3], [NoFilter EXCEPT !.origin = "api"]}
=============================================================================
