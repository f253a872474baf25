------------------------------- MODULE Reload -------------------------------
(***************************************************************************)
(* Files the gateway re-reads while it runs: the certificate and its key   *)
(* (internal/tlscert/loader.go) and the users file (internal/auth: poll.go,*)
(* users.go, and config/users.go).  The two halves of the pair are two     *)
(* reads, and whoever renews them may write between the two.               *)
(***************************************************************************)
EXTENDS Naturals, FiniteSets

CONSTANTS
    Certs, PrivateKeys,  \* numbers above 0; a renewal may keep the key
    SignedFor,           \* [Certs -> PrivateKeys]
    UserFiles,           \* contents of the users file: [parses, users]
    Inline, Realms,      \* the startup snapshot the file is judged against
    FirstCert, FirstUsers,
    MaxEdits             \* bound: writes to the files

Unreadable == 0   \* missing, half-written or not PEM

Pair(c, k) == [cert |-> c, key |-> k]

\* tls.X509KeyPair.
Matches(c, k) == c \in Certs /\ k \in PrivateKeys /\ SignedFor[c] = k

\* ValidateBasicUsers: one user at least, names unique over both halves, one
\* bcrypt cost, realms that exist.  A user is a record [name, cost, realm].
ValidateBasicUsers(file) ==
    LET all == Inline \cup file IN
    /\ all # {} /\ Inline \cap file = {}
    /\ \A u, w \in all : u.name = w.name => u = w
    /\ Cardinality({u.cost : u \in all}) = 1
    /\ \A u \in all : u.realm \in Realms

Accepted(f) == f.parses /\ ValidateBasicUsers(f.users)

ASSUME ReloadAssumption ==
    /\ FirstCert \in Certs /\ SignedFor \in [Certs -> PrivateKeys]
    /\ Unreadable \notin Certs \cup PrivateKeys
    /\ FirstUsers \in UserFiles /\ Accepted(FirstUsers)
    /\ MaxEdits \in Nat

VARIABLES
    disk,    \* the three files
    reading, \* the certificate refresh has read and not yet paired, or Unreadable
    served,  \* the pair new handshakes are given
    users,   \* the users file in effect
    edits    \* writes made

reloadVars == <<disk, reading, served, users, edits>>

\* New and NewBasic refuse to start on a file that does not load.
ReloadInit ==
    /\ disk = [cert |-> FirstCert, key |-> SignedFor[FirstCert], users |-> FirstUsers]
    /\ reading = Unreadable
    /\ served = Pair(FirstCert, SignedFor[FirstCert])
    /\ users = FirstUsers
    /\ edits = 0

-----------------------------------------------------------------------------
(* Whoever renews: file by file, or both at once behind one link.          *)

Edit(d) ==
    /\ edits < MaxEdits /\ d # disk
    /\ disk' = d /\ edits' = edits + 1
    /\ UNCHANGED <<reading, served, users>>

WriteCert  == \E c \in Certs \cup {Unreadable} : Edit([disk EXCEPT !.cert = c])
WriteKey   == \E k \in PrivateKeys \cup {Unreadable} : Edit([disk EXCEPT !.key = k])
SwapPair   == \E c \in Certs : Edit([disk EXCEPT !.cert = c, !.key = SignedFor[c]])
WriteUsers == \E f \in UserFiles : Edit([disk EXCEPT !.users = f])

-----------------------------------------------------------------------------
(* The loader's refresh.                                                   *)

\* A failed read ends the refresh.
ReadCert ==
    /\ reading = Unreadable /\ disk.cert # Unreadable
    /\ reading' = disk.cert
    /\ UNCHANGED <<disk, served, users, edits>>

\* Only the key is compared.
FingerprintOfKey(p) == p.key

\* Of both files: a pair that did not load leaves no trace.
Fingerprint(p) == p

ReadKey ==
    LET p == Pair(reading, disk.key) IN
    /\ reading # Unreadable
    /\ reading' = Unreadable
    /\ served' = IF Matches(p.cert, p.key) /\ Fingerprint(p) # Fingerprint(served)
                 THEN p ELSE served
    /\ UNCHANGED <<disk, users, edits>>

\* The users file's poll: a file that is refused leaves the set and its sum.
PollUsers ==
    /\ disk.users # users /\ Accepted(disk.users)
    /\ users' = disk.users
    /\ UNCHANGED <<disk, reading, served, edits>>

Edits      == WriteCert \/ WriteKey \/ SwapPair \/ WriteUsers
Refreshes  == ReadCert \/ ReadKey
ReloadNext == Edits \/ Refreshes \/ PollUsers

\* Both loops have a ticker of their own.
ReloadSpec == /\ ReloadInit /\ [][ReloadNext]_reloadVars
              /\ WF_reloadVars(Refreshes) /\ WF_reloadVars(PollUsers)

-----------------------------------------------------------------------------
\* Once the writes stop, a pair that matches and a users file that is valid are
\* in effect for good, whatever half-written or mixed state was read before.
LastGoodIsServed ==
    <>[](/\ Matches(disk.cert, disk.key) => served = Pair(disk.cert, disk.key)
         /\ Accepted(disk.users) => users = disk.users)
=============================================================================
