----------------------------- MODULE MCGateway -----------------------------
(***************************************************************************)
(* An instance for TLC of the gateway's process and of the files it reads  *)
(* again while it runs.  The two share no state, so one run explores them  *)
(* side by side: the machine chosen in the initial state is the one that   *)
(* moves.  One tick of Gateway is ten seconds of the source.               *)
(***************************************************************************)
EXTENDS Gateway, Reload, TLC

CONSTANTS r1, r2

VARIABLE machine

all == <<machine, gatewayVars, reloadVars>>

TheGateway(A) == machine = "gateway" /\ A /\ UNCHANGED <<machine, reloadVars>>
TheFiles(A)   == machine = "files" /\ A /\ UNCHANGED <<machine, gatewayVars>>

EachInit == machine \in {"gateway", "files"} /\ GatewayInit /\ ReloadInit

EachNext == TheGateway(GatewayNext) \/ TheFiles(ReloadNext)

\* The fairness of Gateway and of Reload, each while it is the machine chosen.
EachFairness ==
    /\ WF_all(TheGateway(Ticks)) /\ WF_all(TheGateway(Drain))
    /\ WF_all(TheGateway(\E r \in Requests : Alive /\ Forced(r)))
    /\ WF_all(TheFiles(Refreshes)) /\ WF_all(TheFiles(PollUsers))

EachSpec == EachInit /\ [][EachNext]_all /\ EachFairness

-----------------------------------------------------------------------------
\* Certificates: the second renews the first over the same private key.
Renewed == 1 :> 1 @@ 2 :> 1 @@ 3 :> 2

\* Users: one inline; files that are valid, empty, clash with the inline user,
\* mix bcrypt costs, name no realm, or do not parse.
User(n, c, r) == [name |-> n, cost |-> c, realm |-> r]
UsersFile(us) == [parses |-> TRUE, users |-> us]
InlineUsers   == {User("a", 10, "x")}
NoFileUsers   == UsersFile({})
SomeUserFiles ==
    {NoFileUsers, [parses |-> FALSE, users |-> {}]}
        \cup {UsersFile({u}) : u \in {User("b", 10, "x"), User("a", 10, "x"),
                                      User("b", 11, "x"), User("b", 10, "y")}}
=============================================================================
