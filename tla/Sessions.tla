------------------------------ MODULE Sessions ------------------------------
(***************************************************************************)
(* Browser logins over several replicas (internal/auth: browser.go,        *)
(* cookie.go, poll.go).  A login in flight and a session live in sealed    *)
(* cookies; no replica keeps them.  What the replicas share is the cookie  *)
(* key file, which each re-reads on its own cycle from a volume that       *)
(* follows the Secret in its own time.  The operator, external, rotates    *)
(* the keys by the five documented steps.                                  *)
(***************************************************************************)
EXTENDS Naturals, FiniteSets

CONSTANTS
    Gateways,     \* the replicas
    Browsers,
    SessionTTL, TransactionTTL,
    MaxSpan,      \* bound: the clock
    MaxLogins,    \* bound: logins started
    MaxBadWrites  \* bound: unreadable key files the operator writes

ASSUME SessionsAssumption ==
    /\ {SessionTTL, TransactionTTL} \subseteq Nat \ {0}
    /\ {MaxSpan, MaxLogins, MaxBadWrites} \subseteq Nat

VARIABLES
    span,     \* the clock
    secret,   \* the key file as the operator wrote it
    volume,   \* the file each replica's volume holds
    sealer,   \* the keys each replica has loaded
    rotation, \* the operator's step, since when it waits, bad files written
    jar,      \* the browsers' cookies, and the state parameter of each login page
    logins,   \* logins started
    calls     \* the callback each replica is serving

sessionVars == <<span, secret, volume, sealer, rotation, jar, logins, calls>>

-----------------------------------------------------------------------------
(* The key file: one key or two, the first seals, both open.  Keys are     *)
(* numbered; 0 is no key.  A file that does not parse is BadFile.          *)

OldKey  == 1
NewKey  == 2
BadFile == [current |-> 0, previous |-> 0]

File(c, p) == [current |-> c, previous |-> p]

Parses(f) == f # BadFile

NoCookie == [key |-> 0, exp |-> 0, state |-> 0]
NoCall   == [of |-> "none", state |-> 0, exp |-> 0]

SessionsInit ==
    /\ span = 0
    /\ secret = File(OldKey, 0)
    /\ volume = [r \in Gateways |-> File(OldKey, 0)]
    /\ sealer = [r \in Gateways |-> File(OldKey, 0)]
    /\ rotation = [step |-> 0, since |-> 0, bad |-> 0]
    /\ jar = [b \in Browsers |-> [session |-> NoCookie, txn |-> NoCookie, page |-> 0]]
    /\ logins = 0
    /\ calls = [r \in Gateways |-> NoCall]

Seal(r, exp, st) == [key |-> sealer[r].current, exp |-> exp, state |-> st]

\* Only the current key opens.
OpensCurrent(r, c) == c.key = sealer[r].current

Opens(r, c) == c.key \in {sealer[r].current, sealer[r].previous}

Lives(c) == c # NoCookie /\ c.exp > span

-----------------------------------------------------------------------------
(* The files.                                                              *)

VolumeSyncs(r) ==
    /\ volume[r] # secret
    /\ volume' = [volume EXCEPT ![r] = secret]
    /\ UNCHANGED <<span, secret, sealer, rotation, jar, logins, calls>>

\* The file poller: bytes that do not parse leave the loaded keys in place.
Poll(r) ==
    /\ volume[r] # sealer[r] /\ Parses(volume[r])
    /\ sealer' = [sealer EXCEPT ![r] = volume[r]]
    /\ UNCHANGED <<span, secret, volume, rotation, jar, logins, calls>>

\* A new Pod's volume holds the Secret of the moment; a file that does not
\* parse fails the start, so the replica that serves has loaded one.
Restarted(r) ==
    /\ Parses(secret) /\ <<volume[r], sealer[r]>> # <<secret, secret>>
    /\ volume' = [volume EXCEPT ![r] = secret]
    /\ sealer' = [sealer EXCEPT ![r] = secret]
    /\ calls' = [calls EXCEPT ![r] = NoCall]
    /\ UNCHANGED <<span, secret, rotation, jar, logins>>

\* The operator's steps: write old,new; wait until every replica reports both;
\* write new,old; wait one sessionTTL after every replica reports the new key
\* as current (the third step to the fourth writes nothing); write new alone.
FileOf(step) == CASE step = 0 -> File(OldKey, 0)
                  [] step = 1 -> File(OldKey, NewKey)
                  [] step \in {2, 3} -> File(NewKey, OldKey)
                  [] step = 4 -> File(NewKey, 0)

Reported == \A r \in Gateways : sealer[r] = FileOf(rotation.step)

Rotate ==
    /\ rotation.step < 4 /\ Reported /\ Parses(secret)
    /\ rotation.step = 3 => span >= rotation.since + SessionTTL
    /\ secret' = FileOf(rotation.step + 1)
    /\ rotation' = [rotation EXCEPT !.step = @ + 1, !.since = span]
    /\ UNCHANGED <<span, volume, sealer, jar, logins, calls>>

WriteBad ==
    /\ rotation.bad < MaxBadWrites /\ Parses(secret)
    /\ secret' = BadFile
    /\ rotation' = [rotation EXCEPT !.bad = @ + 1]
    /\ UNCHANGED <<span, volume, sealer, jar, logins, calls>>

WriteAgain ==
    /\ ~Parses(secret)
    /\ secret' = FileOf(rotation.step)
    /\ UNCHANGED <<span, volume, sealer, rotation, jar, logins, calls>>

-----------------------------------------------------------------------------
(* The routes, at any replica.                                             *)

\* /auth/login: the transaction cookie replaces the one of another tab.
Login(b, r) ==
    /\ logins < MaxLogins
    /\ logins' = logins + 1
    /\ jar' = [jar EXCEPT ![b].txn = Seal(r, span + TransactionTTL, logins + 1),
                          ![b].page = logins + 1]
    /\ UNCHANGED <<span, secret, volume, sealer, rotation, calls>>

\* /auth/callback, up to the code exchange.  Every failure deletes the
\* transaction cookie.
Callback(b, r) ==
    LET c == jar[b].txn IN
    /\ jar[b].page # 0 /\ calls[r] = NoCall
    /\ \/ /\ Lives(c) /\ Opens(r, c) /\ c.state = jar[b].page
          /\ calls' = [calls EXCEPT ![r] = [of |-> b, state |-> c.state, exp |-> 0]]
          /\ jar' = [jar EXCEPT ![b].page = 0]
       \/ /\ UNCHANGED calls    \* no such cookie, or the issuer's error parameter
          /\ jar' = [jar EXCEPT ![b].txn = NoCookie, ![b].page = 0]
    /\ UNCHANGED <<span, secret, volume, sealer, rotation, logins>>

\* The code was exchanged, the ID token verified and mapped: the session's end
\* is fixed before the cookie is sealed.
Exchanged(r) ==
    /\ calls[r] # NoCall /\ calls[r].exp = 0
    /\ calls' = [calls EXCEPT ![r].exp = span + SessionTTL]
    /\ UNCHANGED <<span, secret, volume, sealer, rotation, jar, logins>>

ExchangeFails(r) ==
    /\ calls[r] # NoCall
    /\ jar' = [jar EXCEPT ![calls[r].of].txn = NoCookie]
    /\ calls' = [calls EXCEPT ![r] = NoCall]
    /\ UNCHANGED <<span, secret, volume, sealer, rotation, logins>>

Mint(r) ==
    /\ calls[r] # NoCall /\ calls[r].exp # 0
    /\ jar' = [jar EXCEPT ![calls[r].of].session = Seal(r, calls[r].exp, 0),
                          ![calls[r].of].txn = NoCookie]
    /\ calls' = [calls EXCEPT ![r] = NoCall]
    /\ UNCHANGED <<span, secret, volume, sealer, rotation, logins>>

\* A request whose session cookie does not open, or has ended, clears it.
Session(b, r) ==
    /\ jar[b].session # NoCookie
    /\ ~(Lives(jar[b].session) /\ Opens(r, jar[b].session))
    /\ jar' = [jar EXCEPT ![b].session = NoCookie]
    /\ UNCHANGED <<span, secret, volume, sealer, rotation, logins, calls>>

Logout(b) ==
    /\ jar[b].session # NoCookie
    /\ jar' = [jar EXCEPT ![b].session = NoCookie]
    /\ UNCHANGED <<span, secret, volume, sealer, rotation, logins, calls>>

SessionsTick ==
    /\ span < MaxSpan
    /\ span' = span + 1
    /\ UNCHANGED <<secret, volume, sealer, rotation, jar, logins, calls>>

SessionsNext ==
    \/ \E r \in Gateways : \/ VolumeSyncs(r) \/ Poll(r) \/ Restarted(r)
                           \/ Exchanged(r) \/ ExchangeFails(r) \/ Mint(r)
                           \/ \E b \in Browsers : Login(b, r) \/ Callback(b, r) \/ Session(b, r)
    \/ \E b \in Browsers : Logout(b)
    \/ Rotate \/ WriteBad \/ WriteAgain \/ SessionsTick

SessionsSpec == SessionsInit /\ [][SessionsNext]_sessionVars

-----------------------------------------------------------------------------
\* A rotation by the documented steps loses no session: every replica opens every
\* session cookie that has not ended, whichever replica sealed it and whatever each
\* has read of the key file by then.  A login in flight is safe for one sessionTTL, the
\* time the fourth step waits; the configuration bounds transactionTTL by nothing but
\* its own range, so a login begun under the old key may live longer than that.
EveryReplicaOpens ==
    \A b \in Browsers, r \in Gateways :
        /\ Lives(jar[b].session) => Opens(r, jar[b].session)
        /\ Lives(jar[b].txn) /\ jar[b].txn.exp + SessionTTL > span + TransactionTTL
             => Opens(r, jar[b].txn)
=============================================================================
