----------------------------- MODULE MCClients -----------------------------
(***************************************************************************)
(* An instance for TLC of what a client carries from one request to the    *)
(* next - a bearer token, a cached credential, an ETag, an idempotency key *)
(* - each presented to a system that has moved on meanwhile.  The four     *)
(* share no state, so one run explores them side by side: the machine      *)
(* chosen in the initial state is the one that moves.                      *)
(***************************************************************************)
EXTENDS SigningKeys, Credentials, Policies, Collecting, TLC

VARIABLE machine

all == <<machine, keyVars, credVars, policyVars, collectVars>>

TheKeys(A)     == machine = "keys" /\ A /\ UNCHANGED <<machine, credVars, policyVars, collectVars>>
TheCommands(A) == machine = "commands" /\ A /\ UNCHANGED <<machine, keyVars, policyVars, collectVars>>
ThePolicies(A) == machine = "policies" /\ A /\ UNCHANGED <<machine, keyVars, credVars, collectVars>>
TheCollect(A)  == machine = "collect" /\ A /\ UNCHANGED <<machine, keyVars, credVars, policyVars>>

EachInit ==
    /\ machine \in {"keys", "commands", "policies", "collect"}
    /\ KeysInit /\ CredInit /\ PoliciesInit /\ CollectInit
    /\ machine # "commands" => file.current = Absent

EachNext ==
    \/ TheKeys(KeysNext) \/ TheCommands(CredNext)
    \/ ThePolicies(PoliciesNext) \/ TheCollect(CollectNext)

EachSpec == EachInit /\ [][EachNext]_all

-----------------------------------------------------------------------------
\* Every machine has two actors that are alike - verifications, commands,
\* editors, attempts of one create - and as only one machine moves, they share
\* two names.
Interchangeable == Permutations(Verifications)

\* The issuer's key sets: the second withdraws the first's key.
KeySets == <<{1}, {2}>>

\* Overrides: an empty one, which every replica takes, and one that some refuse.
Override(e, r, t) == [f \in {"every", "rounds", "retention"} |->
                         CASE f = "every" -> e [] f = "rounds" -> r [] OTHER -> t]
SomeBodies   == {Override(0, 0, 0), Override(3, 0, 3)}
TheDefaults  == Override(1, 1, 2)
CeilingsOf(m) == [minEvery |-> 1, maxEvery |-> m, maxRounds |-> 2, maxRetention |-> 4]
TwoCeilings  == {CeilingsOf(2), CeilingsOf(3)}

\* Creates: the attempts of one command name one Service, one key, one body.
OneService == [i \in Ids |-> CHOOSE s \in Services : TRUE]
SharedKey  == [i \in Ids |-> CHOOSE k \in Keys : TRUE]
SameHash   == [i \in Ids |-> 1]
=============================================================================
