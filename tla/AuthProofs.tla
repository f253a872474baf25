----------------------------- MODULE AuthProofs -----------------------------
(***************************************************************************)
(* Proofs about what the gateway trusts in a request: the cookies that its *)
(* replicas seal for one another (Sessions), and the copy of the issuer's  *)
(* signing keys (SigningKeys), for every number of replicas, browsers,     *)
(* verifications and key sets.                                             *)
(***************************************************************************)
EXTENDS SigningKeys, Sessions, Integers, TLAPS

(* Sessions: a rotation of the cookie keys.  A replica is at most one step *)
(* of the rotation behind, a cookie under the new key exists only once     *)
(* every replica opens it, and when the old key goes nothing sealed under  *)
(* it is alive.                                                            *)

\* The types.
Steps   == 0 .. 4
Files   == [current: 0 .. 2, previous: 0 .. 2]
Cookies == [key: 0 .. 2, exp: Nat, state: Nat]
Jars    == [session: Cookies, txn: Cookies, page: Nat]

\* The file of the step before.
Prev(n) == IF n = 0 THEN FileOf(0) ELSE FileOf(n - 1)

SessionTypes ==
    /\ span \in Nat /\ logins \in Nat
    /\ secret \in Files
    /\ volume \in [Gateways -> Files] /\ sealer \in [Gateways -> Files]
    /\ rotation \in [step: Steps, since: Nat, bad: Nat]
    /\ jar \in [Browsers -> Jars]
    /\ calls \in [Gateways -> [of: Browsers \cup {"none"}, state: Nat, exp: Nat]]

\* A replica has loaded the file of this step or of the one before, and will
\* not go back.
ReplicaOK(r) ==
    /\ sealer[r] \in {FileOf(rotation.step), Prev(rotation.step)}
    /\ volume[r] \in {BadFile, FileOf(rotation.step), Prev(rotation.step)}
    /\ sealer[r] = FileOf(rotation.step) => volume[r] \in {BadFile, FileOf(rotation.step)}

\* Only the keys of the step and the one before seal, and a cookie under the
\* old key is dead when the key goes, or was sealed a sessionTTL before.
CookieOK(c, ttl) ==
    /\ c.key = 0 => c = NoCookie
    /\ c.exp =< span + ttl
    /\ c.key = NewKey => rotation.step >= 2
    /\ c.key = OldKey /\ rotation.step = 3 => c.exp =< rotation.since + ttl
    /\ c.key = OldKey /\ rotation.step = 4 => c.exp + SessionTTL =< span + ttl

\* The inductive invariant of Sessions.
SessionsInv ==
    /\ SessionTypes
    /\ secret \in {BadFile, FileOf(rotation.step)}
    /\ \A r \in Gateways : ReplicaOK(r)
    /\ \A b \in Browsers : CookieOK(jar[b].session, SessionTTL) /\ CookieOK(jar[b].txn, TransactionTTL)
    /\ \A r \in Gateways : /\ calls[r] # NoCall => calls[r].of \in Browsers
                           /\ calls[r].exp =< span + SessionTTL

-----------------------------------------------------------------------------

\* The files of the rotation.
LEMMA FilesAre ==
  /\ \A n \in Steps : FileOf(n) \in Files /\ Prev(n) \in Files /\ FileOf(n) # BadFile /\ Prev(n) # BadFile
  /\ \A n \in Steps : n < 4 => n + 1 \in Steps /\ Prev(n + 1) = FileOf(n)
  /\ \A n \in Steps : n < 4 /\ n # 2 => FileOf(n + 1) # FileOf(n)
  /\ FileOf(3) = FileOf(2)
  <1>1. /\ FileOf(0) = [current |-> 1, previous |-> 0] /\ FileOf(1) = [current |-> 1, previous |-> 2]
        /\ FileOf(2) = [current |-> 2, previous |-> 1] /\ FileOf(3) = [current |-> 2, previous |-> 1]
        /\ FileOf(4) = [current |-> 2, previous |-> 0]
    BY DEF FileOf, File, OldKey, NewKey
  <1>2. \A n \in Steps : FileOf(n) \in Files /\ FileOf(n) # BadFile
    <2> SUFFICES ASSUME NEW n \in Steps PROVE FileOf(n) \in Files /\ FileOf(n) # BadFile
      OBVIOUS
    <2>1. n = 0 \/ n = 1 \/ n = 2 \/ n = 3 \/ n = 4
      BY DEF Steps
    <2> QED
      BY <1>1, <2>1 DEF Files, BadFile
  <1>3. \A n \in Steps : Prev(n) \in Files /\ Prev(n) # BadFile
    BY <1>2 DEF Steps, Prev
  <1>4. \A n \in Steps : n < 4 => n + 1 \in Steps /\ Prev(n + 1) = FileOf(n)
    BY DEF Steps, Prev
  <1>5. \A n \in Steps : n < 4 /\ n # 2 => FileOf(n + 1) # FileOf(n)
    <2> SUFFICES ASSUME NEW n \in Steps, n < 4, n # 2 PROVE FileOf(n + 1) # FileOf(n)
      OBVIOUS
    <2>1. n = 0 \/ n = 1 \/ n = 3
      BY DEF Steps
    <2> QED
      BY <1>1, <2>1
  <1> QED
    BY <1>1, <1>2, <1>3, <1>4, <1>5

\* What a replica seals with and opens at each step.
LEMMA KeysAre ==
  ASSUME NEW n \in Steps, NEW f, f \in {FileOf(n), Prev(n)}
  PROVE  /\ f.current \in {OldKey, NewKey}
         /\ n =< 1 => f.current = OldKey
         /\ n >= 3 => f.current = NewKey
         /\ n \in {2, 3} => {f.current, f.previous} = {OldKey, NewKey}
  <1>1. /\ FileOf(0) = [current |-> 1, previous |-> 0] /\ FileOf(1) = [current |-> 1, previous |-> 2]
        /\ FileOf(2) = [current |-> 2, previous |-> 1] /\ FileOf(3) = [current |-> 2, previous |-> 1]
        /\ FileOf(4) = [current |-> 2, previous |-> 0]
    BY DEF FileOf, File, OldKey, NewKey
  <1>2. n = 0 \/ n = 1 \/ n = 2 \/ n = 3 \/ n = 4
    BY DEF Steps
  <1>3. CASE n = 0
    BY <1>1, <1>3 DEF Prev, OldKey, NewKey
  <1>4. CASE n = 1
    BY <1>1, <1>4 DEF Prev, OldKey, NewKey
  <1>5. CASE n = 2
    BY <1>1, <1>5 DEF Prev, OldKey, NewKey
  <1>6. CASE n = 3
    BY <1>1, <1>6 DEF Prev, OldKey, NewKey
  <1>7. CASE n = 4
    BY <1>1, <1>7 DEF Prev, OldKey, NewKey
  <1> QED
    BY <1>2, <1>3, <1>4, <1>5, <1>6, <1>7

\* Every replica opens what is alive.
LEMMA InvOpens ==
  ASSUME SessionsInv
  PROVE  EveryReplicaOpens
  <1>0. /\ span \in Nat /\ SessionTTL \in Nat /\ TransactionTTL \in Nat
        /\ \A b \in Browsers : /\ jar[b].session \in Cookies /\ CookieOK(jar[b].session, SessionTTL)
                              /\ jar[b].txn \in Cookies /\ CookieOK(jar[b].txn, TransactionTTL)
    BY SessionsAssumption DEF SessionsInv, SessionTypes, Jars
  <1> SUFFICES ASSUME NEW r \in Gateways, NEW c \in Cookies, NEW ttl \in Nat, CookieOK(c, ttl),
                      Lives(c), c.exp + SessionTTL > span + ttl
               PROVE  Opens(r, c)
    BY <1>0 DEF EveryReplicaOpens, Lives, Cookies
  <1>1. c # NoCookie /\ c.exp > span
    BY DEF Lives
  <1>2. PICK n \in Steps : n = rotation.step
    BY DEF SessionsInv, SessionTypes
  <1>3. PICK f : f = sealer[r]
    OBVIOUS
  <1>4. f \in {FileOf(n), Prev(n)}
    BY <1>2, <1>3 DEF SessionsInv, ReplicaOK
  <1>5. c.key = OldKey \/ c.key = NewKey
    BY <1>1 DEF CookieOK, Cookies, OldKey, NewKey
  <1>6. CASE n =< 1
    <2>1. c.key = OldKey /\ f.current = OldKey
      BY <1>1, <1>2, <1>4, <1>5, <1>6, KeysAre DEF CookieOK, Steps
    <2> QED
      BY <1>3, <2>1 DEF Opens
  <1>7. CASE n \in {2, 3}
    BY <1>3, <1>4, <1>5, <1>7, KeysAre DEF Opens
  <1>8. CASE n = 4
    <2>1. rotation.step = 4 /\ f.current = NewKey
      BY <1>2, <1>4, <1>8, KeysAre
    <2>2. c.key # OldKey
      BY <1>0, <2>1 DEF CookieOK, Cookies
    <2> QED
      BY <1>3, <1>5, <2>1, <2>2 DEF Opens
  <1> QED
    BY <1>6, <1>7, <1>8 DEF Steps

\* A cookie a replica seals now.
LEMMA SealOK ==
  ASSUME SessionsInv, NEW r \in Gateways, NEW ttl \in Nat, NEW exp \in Nat, exp =< span + ttl, NEW st \in Nat
  PROVE  Seal(r, exp, st) \in Cookies /\ CookieOK(Seal(r, exp, st), ttl)
  <1>1. PICK n \in Steps : n = rotation.step
    BY DEF SessionsInv, SessionTypes
  <1>2. PICK f : f = sealer[r]
    OBVIOUS
  <1>3. f \in {FileOf(n), Prev(n)}
    BY <1>1, <1>2 DEF SessionsInv, ReplicaOK
  <1>4. f.current \in {OldKey, NewKey} /\ (n =< 1 => f.current = OldKey) /\ (n >= 3 => f.current = NewKey)
    BY <1>3, KeysAre
  <1>5. PICK c : c = Seal(r, exp, st)
    OBVIOUS
  <1>6. c.key = f.current /\ c.exp = exp /\ c \in Cookies
    BY <1>2, <1>4, <1>5 DEF Seal, Cookies, OldKey, NewKey
  <1>7. CookieOK(c, ttl)
    BY <1>1, <1>4, <1>6 DEF CookieOK, Steps, OldKey, NewKey
  <1> QED
    BY <1>5, <1>6, <1>7

\* No cookie at all.
LEMMA NoCookieOK ==
  ASSUME SessionsInv
  PROVE  /\ NoCookie \in Cookies
         /\ CookieOK(NoCookie, SessionTTL) /\ CookieOK(NoCookie, TransactionTTL)
  BY SessionsAssumption DEF SessionsInv, SessionTypes, NoCookie, Cookies, CookieOK, OldKey, NewKey

\* The files' actions, at one replica.
LEMMA FilesKeep ==
  ASSUME SessionsInv, NEW r \in Gateways, VolumeSyncs(r) \/ Poll(r) \/ Restarted(r)
  PROVE  SessionsInv'
  <1>1. /\ SessionTypes /\ secret \in {BadFile, FileOf(rotation.step)} /\ rotation.step \in Steps
        /\ (\A x \in Gateways : ReplicaOK(x))
        /\ (\A b \in Browsers : CookieOK(jar[b].session, SessionTTL) /\ CookieOK(jar[b].txn, TransactionTTL))
        /\ \A x \in Gateways : /\ calls[x] # NoCall => calls[x].of \in Browsers
                               /\ calls[x].exp =< span + SessionTTL
    BY DEF SessionsInv, SessionTypes
  <1>2. ASSUME UNCHANGED <<span, secret, rotation, jar, logins>>,
               volume' \in [Gateways -> Files], sealer' \in [Gateways -> Files],
               \A x \in Gateways : x # r => volume'[x] = volume[x] /\ sealer'[x] = sealer[x],
               ReplicaOK(r)', calls' = calls \/ calls' = [calls EXCEPT ![r] = NoCall]
        PROVE  SessionsInv'
    <2>1. \A x \in Gateways : ReplicaOK(x)'
      BY <1>1, <1>2 DEF ReplicaOK
    <2>2. NoCall \in [of: Browsers \cup {"none"}, state: Nat, exp: Nat] /\ NoCall.exp = 0
      BY DEF NoCall
    <2>3. SessionTypes'
      BY <1>1, <1>2, <2>2 DEF SessionTypes
    <2>4. \A x \in Gateways : /\ calls'[x] # NoCall => calls'[x].of \in Browsers
                              /\ calls'[x].exp =< span' + SessionTTL
      <3>1. 0 =< span + SessionTTL
        BY <1>1, SessionsAssumption DEF SessionTypes
      <3>2. \A x \in Gateways : calls'[x] = calls[x] \/ calls'[x] = NoCall
        BY <1>1, <1>2 DEF SessionTypes
      <3> QED
        BY <1>1, <1>2, <2>2, <3>1, <3>2
    <2> QED
      BY <1>1, <1>2, <2>1, <2>3, <2>4 DEF SessionsInv, CookieOK
  <1>3. CASE VolumeSyncs(r)
    <2>1. volume' = [volume EXCEPT ![r] = secret] /\ UNCHANGED <<span, secret, sealer, rotation, jar, logins, calls>>
      BY <1>3 DEF VolumeSyncs
    <2>2. volume' \in [Gateways -> Files] /\ volume'[r] = secret /\ \A x \in Gateways : x # r => volume'[x] = volume[x]
      BY <1>1, <2>1 DEF SessionTypes
    <2>3. ReplicaOK(r)'
      BY <1>1, <2>1, <2>2 DEF ReplicaOK
    <2> QED
      BY <1>1, <1>2, <2>1, <2>2, <2>3 DEF SessionTypes
  <1>4. CASE Poll(r)
    <2>1. /\ sealer' = [sealer EXCEPT ![r] = volume[r]] /\ volume[r] # BadFile
          /\ UNCHANGED <<span, secret, volume, rotation, jar, logins, calls>>
      BY <1>4 DEF Poll, Parses
    <2>2. /\ sealer' \in [Gateways -> Files] /\ sealer'[r] = volume[r]
          /\ \A x \in Gateways : x # r => sealer'[x] = sealer[x]
      BY <1>1, <2>1 DEF SessionTypes
    <2>3. ReplicaOK(r)'
      BY <1>1, <2>1, <2>2 DEF ReplicaOK
    <2> QED
      BY <1>1, <1>2, <2>1, <2>2, <2>3 DEF SessionTypes
  <1>5. CASE Restarted(r)
    <2>1. /\ volume' = [volume EXCEPT ![r] = secret] /\ sealer' = [sealer EXCEPT ![r] = secret]
          /\ calls' = [calls EXCEPT ![r] = NoCall] /\ secret # BadFile
          /\ UNCHANGED <<span, secret, rotation, jar, logins>>
      BY <1>5 DEF Restarted, Parses
    <2>2. /\ volume' \in [Gateways -> Files] /\ sealer' \in [Gateways -> Files]
          /\ volume'[r] = secret /\ sealer'[r] = secret
          /\ \A x \in Gateways : x # r => volume'[x] = volume[x] /\ sealer'[x] = sealer[x]
      BY <1>1, <2>1 DEF SessionTypes
    <2>3. ReplicaOK(r)'
      BY <1>1, <2>1, <2>2 DEF ReplicaOK
    <2> QED
      BY <1>2, <2>1, <2>2, <2>3
  <1> QED
    BY <1>3, <1>4, <1>5

\* The operator's actions.
LEMMA OperatorKeeps ==
  ASSUME SessionsInv, Rotate \/ WriteBad \/ WriteAgain
  PROVE  SessionsInv'
  <1>1. /\ SessionTypes /\ secret \in {BadFile, FileOf(rotation.step)} /\ rotation.step \in Steps
        /\ (\A x \in Gateways : ReplicaOK(x)) /\ span \in Nat /\ SessionTTL \in Nat /\ TransactionTTL \in Nat
        /\ (\A b \in Browsers : /\ CookieOK(jar[b].session, SessionTTL) /\ CookieOK(jar[b].txn, TransactionTTL)
                                /\ jar[b].session \in Cookies /\ jar[b].txn \in Cookies)
    BY SessionsAssumption DEF SessionsInv, SessionTypes, Jars
  <1>2. BadFile \in Files
    BY DEF BadFile, Files
  <1>3. CASE Rotate
    <2>1. PICK n \in Steps : n = rotation.step
      BY <1>1
    <2>2. /\ n < 4 /\ (\A r \in Gateways : sealer[r] = FileOf(n))
          /\ n = 3 => span >= rotation.since + SessionTTL
          /\ secret' = FileOf(n + 1)
          /\ rotation' = [rotation EXCEPT !.step = n + 1, !.since = span]
          /\ UNCHANGED <<span, volume, sealer, jar, logins, calls>>
      BY <1>3, <2>1 DEF Rotate, Reported
    <2>3. n + 1 \in Steps /\ Prev(n + 1) = FileOf(n) /\ FileOf(n + 1) \in Files
      BY <2>2, FilesAre
    <2>4. /\ rotation' \in [step: Steps, since: Nat, bad: Nat]
          /\ rotation'.step = n + 1 /\ rotation'.since = span
      BY <1>1, <2>2, <2>3 DEF SessionTypes
    <2>5. SessionTypes'
      BY <1>1, <2>2, <2>3, <2>4 DEF SessionTypes
    <2>6. ASSUME NEW r \in Gateways PROVE ReplicaOK(r)'
      <3>1. sealer[r] = FileOf(n) /\ volume[r] \in {BadFile, FileOf(n)}
        BY <1>1, <2>1, <2>2 DEF ReplicaOK
      <3>2. FileOf(n + 1) = FileOf(n) \/ sealer[r] # FileOf(n + 1)
        BY <2>2, <3>1, FilesAre
      <3> QED
        BY <2>2, <2>3, <2>4, <3>1, <3>2 DEF ReplicaOK
    <2>7. ASSUME NEW c \in Cookies, NEW ttl \in Nat, CookieOK(c, ttl) PROVE CookieOK(c, ttl)'
      <3>1. c.key = NewKey => n + 1 >= 2
        BY <2>1, <2>7 DEF CookieOK, Steps
      <3>2. c.key = OldKey /\ n + 1 = 4 => c.exp + SessionTTL =< span + ttl
        <4> SUFFICES ASSUME c.key = OldKey, n + 1 = 4 PROVE c.exp + SessionTTL =< span + ttl
          OBVIOUS
        <4>1. n = 3
          BY DEF Steps
        <4>2. c.exp =< rotation.since + ttl /\ span >= rotation.since + SessionTTL
          BY <2>1, <2>2, <2>7, <4>1 DEF CookieOK
        <4> QED
          BY <1>1, <4>2 DEF Cookies, SessionTypes
      <3> QED
        BY <2>2, <2>4, <2>7, <3>1, <3>2 DEF CookieOK
    <2>8. \A b \in Browsers : CookieOK(jar[b].session, SessionTTL)' /\ CookieOK(jar[b].txn, TransactionTTL)'
      <3> SUFFICES ASSUME NEW b \in Browsers PROVE CookieOK(jar[b].session, SessionTTL)' /\ CookieOK(jar[b].txn, TransactionTTL)'
        OBVIOUS
      <3>1. PICK s \in Cookies : s = jar[b].session
        BY <1>1
      <3>2. PICK t \in Cookies : t = jar[b].txn
        BY <1>1
      <3>3. CookieOK(s, SessionTTL)' /\ CookieOK(t, TransactionTTL)'
        BY <1>1, <2>7, <3>1, <3>2
      <3>4. s = jar'[b].session /\ t = jar'[b].txn
        BY <2>2, <3>1, <3>2
      <3> QED
        BY <3>3, <3>4
    <2> QED
      BY <2>2, <2>4, <2>5, <2>6, <2>8 DEF SessionsInv
  <1>4. CASE WriteBad
    <2>1. /\ secret' = BadFile /\ rotation' = [rotation EXCEPT !.bad = @ + 1]
          /\ UNCHANGED <<span, volume, sealer, jar, logins, calls>>
      BY <1>4 DEF WriteBad
    <2>2. /\ rotation' \in [step: Steps, since: Nat, bad: Nat]
          /\ rotation'.step = rotation.step /\ rotation'.since = rotation.since
      BY <1>1, <2>1 DEF SessionTypes
    <2>3. SessionTypes'
      BY <1>1, <1>2, <2>1, <2>2 DEF SessionTypes
    <2> QED
      BY <2>1, <2>2, <2>3 DEF SessionsInv, ReplicaOK, CookieOK
  <1>5. CASE WriteAgain
    <2>1. secret' = FileOf(rotation.step) /\ UNCHANGED <<span, volume, sealer, rotation, jar, logins, calls>>
      BY <1>5 DEF WriteAgain
    <2>2. SessionTypes'
      BY <1>1, <2>1, FilesAre DEF SessionTypes
    <2> QED
      BY <2>1, <2>2 DEF SessionsInv, ReplicaOK, CookieOK
  <1> QED
    BY <1>3, <1>4, <1>5

\* Any step of the routes that leaves good cookies.
LEMMA RouteStep ==
  ASSUME SessionsInv, UNCHANGED <<span, secret, volume, sealer, rotation>>, logins' \in Nat,
         jar' \in [Browsers -> Jars],
         \A b \in Browsers : CookieOK(jar'[b].session, SessionTTL) /\ CookieOK(jar'[b].txn, TransactionTTL),
         calls' \in [Gateways -> [of: Browsers \cup {"none"}, state: Nat, exp: Nat]],
         \A x \in Gateways : /\ calls'[x] # NoCall => calls'[x].of \in Browsers
                             /\ calls'[x].exp =< span + SessionTTL
  PROVE  SessionsInv'
  <1>1. SessionTypes'
    BY DEF SessionsInv, SessionTypes
  <1>2. \A b \in Browsers : CookieOK(jar[b].session, SessionTTL)' /\ CookieOK(jar[b].txn, TransactionTTL)'
    BY DEF CookieOK
  <1>3. \A r \in Gateways : ReplicaOK(r)'
    BY DEF SessionsInv, ReplicaOK
  <1> QED
    BY <1>1, <1>2, <1>3 DEF SessionsInv

\* The routes.
LEMMA RoutesKeep ==
  ASSUME SessionsInv,
         \/ \E r \in Gateways : \/ Exchanged(r) \/ ExchangeFails(r) \/ Mint(r)
                                \/ \E b \in Browsers : Login(b, r) \/ Callback(b, r) \/ Session(b, r)
         \/ \E b \in Browsers : Logout(b)
  PROVE  SessionsInv'
  <1> DEFINE CallType == [of: Browsers \cup {"none"}, state: Nat, exp: Nat]
  <1>1. /\ span \in Nat /\ logins \in Nat /\ jar \in [Browsers -> Jars]
        /\ calls \in [Gateways -> CallType] /\ SessionTTL \in Nat /\ TransactionTTL \in Nat
        /\ (\A b \in Browsers : CookieOK(jar[b].session, SessionTTL) /\ CookieOK(jar[b].txn, TransactionTTL))
        /\ \A x \in Gateways : /\ calls[x] # NoCall => calls[x].of \in Browsers
                               /\ calls[x].exp =< span + SessionTTL
    BY SessionsAssumption DEF SessionsInv, SessionTypes
  <1>2. NoCookie \in Cookies /\ CookieOK(NoCookie, SessionTTL) /\ CookieOK(NoCookie, TransactionTTL)
    BY NoCookieOK
  <1>3. NoCall \in CallType /\ NoCall.exp = 0 /\ 0 =< span + SessionTTL
    BY <1>1 DEF NoCall
  <1>4. ASSUME NEW r \in Gateways, calls' = [calls EXCEPT ![r] = NoCall]
        PROVE  /\ calls' \in [Gateways -> CallType]
               /\ \A x \in Gateways : /\ calls'[x] # NoCall => calls'[x].of \in Browsers
                                      /\ calls'[x].exp =< span + SessionTTL
    <2> HIDE DEF CallType
    <2>1. calls' \in [Gateways -> CallType] /\ \A x \in Gateways : calls'[x] = calls[x] \/ calls'[x] = NoCall
      BY <1>1, <1>3, <1>4
    <2> QED
      BY <1>1, <1>3, <2>1
  <1>5. ASSUME NEW b \in Browsers, jar' \in [Browsers -> Jars],
               \A x \in Browsers : x # b => jar'[x] = jar[x],
               CookieOK(jar'[b].session, SessionTTL), CookieOK(jar'[b].txn, TransactionTTL)
        PROVE  \A x \in Browsers : CookieOK(jar'[x].session, SessionTTL) /\ CookieOK(jar'[x].txn, TransactionTTL)
    BY <1>1, <1>5
  <1>6. \A b \in Browsers : jar[b] \in Jars /\ jar[b].session \in Cookies /\ jar[b].txn \in Cookies
    BY <1>1 DEF Jars
  <1>7. ASSUME NEW r \in Gateways, NEW b \in Browsers, Login(b, r) PROVE SessionsInv'
    <2>1. PICK c : c = Seal(r, span + TransactionTTL, logins + 1)
      OBVIOUS
    <2>2. c \in Cookies /\ CookieOK(c, TransactionTTL)
      BY <1>1, <2>1, SealOK
    <2>3. /\ logins' = logins + 1 /\ jar' = [jar EXCEPT ![b].txn = c, ![b].page = logins + 1]
          /\ UNCHANGED <<span, secret, volume, sealer, rotation, calls>>
      BY <1>7, <2>1 DEF Login
    <2>4. PICK p \in Nat : p = logins + 1
      BY <1>1
    <2>5. jar' = [jar EXCEPT ![b].txn = c, ![b].page = p]
      BY <2>3, <2>4
    <2>6. /\ jar' \in [Browsers -> Jars] /\ (\A x \in Browsers : x # b => jar'[x] = jar[x])
          /\ jar'[b].session = jar[b].session /\ jar'[b].txn = c
      BY <1>1, <2>2, <2>4, <2>5 DEF Jars
    <2>7. \A x \in Browsers : CookieOK(jar'[x].session, SessionTTL) /\ CookieOK(jar'[x].txn, TransactionTTL)
      BY <1>1, <1>5, <2>2, <2>6
    <2> QED
      BY <1>1, <2>3, <2>4, <2>6, <2>7, RouteStep
  <1>8. ASSUME NEW r \in Gateways, NEW b \in Browsers, Callback(b, r) PROVE SessionsInv'
    <2>1. UNCHANGED <<span, secret, volume, sealer, rotation, logins>>
      BY <1>8 DEF Callback
    <2>2. CASE /\ calls' = [calls EXCEPT ![r] = [of |-> b, state |-> jar[b].txn.state, exp |-> 0]]
               /\ jar' = [jar EXCEPT ![b].page = 0]
      <3>1. /\ jar' \in [Browsers -> Jars] /\ (\A x \in Browsers : x # b => jar'[x] = jar[x])
            /\ jar'[b].session = jar[b].session /\ jar'[b].txn = jar[b].txn
        <4>1. PICK z \in Nat : z = 0
          OBVIOUS
        <4>2. jar' = [jar EXCEPT ![b].page = z]
          BY <2>2, <4>1
        <4> QED
          BY <1>1, <4>2 DEF Jars
      <3>2. \A x \in Browsers : CookieOK(jar'[x].session, SessionTTL) /\ CookieOK(jar'[x].txn, TransactionTTL)
        BY <1>1, <1>5, <3>1
      <3>3. PICK k : k = [of |-> b, state |-> jar[b].txn.state, exp |-> 0]
        OBVIOUS
      <3>4. k \in CallType /\ k.of = b /\ k.exp = 0
        BY <1>6, <3>3 DEF Cookies
      <3>5. calls' \in [Gateways -> CallType] /\ \A x \in Gateways : calls'[x] = calls[x] \/ calls'[x] = k
        <4> HIDE DEF CallType
        <4> QED
          BY <1>1, <2>2, <3>3, <3>4
      <3>6. \A x \in Gateways : /\ calls'[x] # NoCall => calls'[x].of \in Browsers
                                /\ calls'[x].exp =< span + SessionTTL
        BY <1>1, <1>3, <3>4, <3>5
      <3> QED
        BY <1>1, <2>1, <3>1, <3>2, <3>5, <3>6, RouteStep
    <2>3. CASE UNCHANGED calls /\ jar' = [jar EXCEPT ![b].txn = NoCookie, ![b].page = 0]
      <3>1. /\ jar' \in [Browsers -> Jars] /\ (\A x \in Browsers : x # b => jar'[x] = jar[x])
            /\ jar'[b].session = jar[b].session /\ jar'[b].txn = NoCookie
        <4>1. PICK z \in Nat : z = 0
          OBVIOUS
        <4>2. jar' = [jar EXCEPT ![b].txn = NoCookie, ![b].page = z]
          BY <2>3, <4>1
        <4> QED
          BY <1>1, <1>2, <4>2 DEF Jars
      <3>2. \A x \in Browsers : CookieOK(jar'[x].session, SessionTTL) /\ CookieOK(jar'[x].txn, TransactionTTL)
        BY <1>1, <1>2, <1>5, <3>1
      <3> QED
        BY <1>1, <2>1, <2>3, <3>1, <3>2, RouteStep
    <2> QED
      BY <1>8, <2>2, <2>3 DEF Callback
  <1>9. ASSUME NEW r \in Gateways, Exchanged(r) PROVE SessionsInv'
    <2>1. /\ calls[r] # NoCall /\ calls' = [calls EXCEPT ![r].exp = span + SessionTTL]
          /\ UNCHANGED <<span, secret, volume, sealer, rotation, jar, logins>>
      BY <1>9 DEF Exchanged
    <2>2. PICK e \in Nat : e = span + SessionTTL
      BY <1>1
    <2>3. /\ calls' \in [Gateways -> CallType]
          /\ calls'[r].of = calls[r].of /\ calls'[r].exp = e
          /\ \A x \in Gateways : x # r => calls'[x] = calls[x]
      BY <1>1, <2>1, <2>2
    <2>4. \A x \in Gateways : /\ calls'[x] # NoCall => calls'[x].of \in Browsers
                              /\ calls'[x].exp =< span + SessionTTL
      <3> HIDE DEF CallType
      <3> QED
        BY <1>1, <2>1, <2>2, <2>3
    <2> QED
      BY <1>1, <2>1, <2>3, <2>4, RouteStep
  <1>10. ASSUME NEW r \in Gateways, ExchangeFails(r) \/ Mint(r) PROVE SessionsInv'
    <2>1. PICK b \in Browsers : b = calls[r].of
      BY <1>1, <1>10 DEF ExchangeFails, Mint
    <2>2. PICK c : c = Seal(r, calls[r].exp, 0)
      OBVIOUS
    <2>3. c \in Cookies /\ CookieOK(c, SessionTTL)
      BY <1>1, <2>2, SealOK
    <2>4. /\ calls' = [calls EXCEPT ![r] = NoCall]
          /\ UNCHANGED <<span, secret, volume, sealer, rotation, logins>>
          /\ \/ jar' = [jar EXCEPT ![b].txn = NoCookie]
             \/ jar' = [jar EXCEPT ![b].session = c, ![b].txn = NoCookie]
      BY <1>10, <2>1, <2>2 DEF ExchangeFails, Mint
    <2>5. /\ jar' \in [Browsers -> Jars] /\ (\A x \in Browsers : x # b => jar'[x] = jar[x])
          /\ jar'[b].session \in {jar[b].session, c} /\ jar'[b].txn = NoCookie
      BY <1>1, <1>2, <2>3, <2>4 DEF Jars
    <2>6. \A x \in Browsers : CookieOK(jar'[x].session, SessionTTL) /\ CookieOK(jar'[x].txn, TransactionTTL)
      BY <1>1, <1>2, <1>5, <2>3, <2>5
    <2> QED
      BY <1>1, <1>4, <2>4, <2>5, <2>6, RouteStep
  <1>11. ASSUME NEW b \in Browsers, Logout(b) \/ \E r \in Gateways : Session(b, r) PROVE SessionsInv'
    <2>1. /\ jar' = [jar EXCEPT ![b].session = NoCookie]
          /\ UNCHANGED <<span, secret, volume, sealer, rotation, logins, calls>>
      BY <1>11 DEF Logout, Session
    <2>2. /\ jar' \in [Browsers -> Jars] /\ (\A x \in Browsers : x # b => jar'[x] = jar[x])
          /\ jar'[b].session = NoCookie /\ jar'[b].txn = jar[b].txn
      BY <1>1, <1>2, <2>1 DEF Jars
    <2>3. \A x \in Browsers : CookieOK(jar'[x].session, SessionTTL) /\ CookieOK(jar'[x].txn, TransactionTTL)
      BY <1>1, <1>2, <1>5, <2>2
    <2> QED
      BY <1>1, <2>1, <2>2, <2>3, RouteStep
  <1> QED
    BY <1>7, <1>8, <1>9, <1>10, <1>11

\* Time.
LEMMA TickKeeps ==
  ASSUME SessionsInv, SessionsTick
  PROVE  SessionsInv'
  <1>1. span' = span + 1 /\ UNCHANGED <<secret, volume, sealer, rotation, jar, logins, calls>>
    BY DEF SessionsTick
  <1>2. SessionTypes /\ span \in Nat /\ SessionTTL \in Nat /\ TransactionTTL \in Nat
    BY SessionsAssumption DEF SessionsInv, SessionTypes
  <1>3. SessionTypes'
    BY <1>1, <1>2 DEF SessionTypes
  <1>4. ASSUME NEW c \in Cookies, NEW ttl \in Nat, CookieOK(c, ttl) PROVE CookieOK(c, ttl)'
    BY <1>1, <1>2, <1>4 DEF CookieOK, Cookies
  <1>5. \A b \in Browsers : CookieOK(jar[b].session, SessionTTL)' /\ CookieOK(jar[b].txn, TransactionTTL)'
    <2> SUFFICES ASSUME NEW b \in Browsers PROVE CookieOK(jar[b].session, SessionTTL)' /\ CookieOK(jar[b].txn, TransactionTTL)'
      OBVIOUS
    <2>1. PICK s \in Cookies : s = jar[b].session
      BY <1>2 DEF SessionTypes, Jars
    <2>2. PICK t \in Cookies : t = jar[b].txn
      BY <1>2 DEF SessionTypes, Jars
    <2>3. CookieOK(s, SessionTTL)' /\ CookieOK(t, TransactionTTL)'
      <3>1. CookieOK(s, SessionTTL) /\ CookieOK(t, TransactionTTL)
        BY <2>1, <2>2 DEF SessionsInv
      <3> QED
        BY <1>2, <1>4, <3>1
    <2> QED
      BY <1>1, <2>1, <2>2, <2>3
  <1>6. \A r \in Gateways : /\ calls'[r] # NoCall => calls'[r].of \in Browsers
                            /\ calls'[r].exp =< span' + SessionTTL
    BY <1>1, <1>2 DEF SessionsInv, SessionTypes
  <1> QED
    BY <1>1, <1>3, <1>5, <1>6 DEF SessionsInv, ReplicaOK

\* The invariant of the rotation holds at the start.
LEMMA SessionsStart ==
  ASSUME SessionsInit
  PROVE  SessionsInv
  <1>1. NoCookie \in Cookies /\ NoCookie.key = 0 /\ NoCookie.exp = 0
    BY DEF NoCookie, Cookies
  <1>2. FileOf(0) \in Files /\ FileOf(0) = File(OldKey, 0)
    BY FilesAre DEF Steps, FileOf
  <1>3. NoCall \in [of: Browsers \cup {"none"}, state: Nat, exp: Nat] /\ NoCall.exp = 0
    BY DEF NoCall
  <1>4. PICK z : z = [step |-> 0, since |-> 0, bad |-> 0]
    OBVIOUS
  <1>5. z \in [step: Steps, since: Nat, bad: Nat] /\ z.step = 0
    BY <1>4 DEF Steps
  <1>6. PICK j : j = [session |-> NoCookie, txn |-> NoCookie, page |-> 0]
    OBVIOUS
  <1>7. j \in Jars /\ j.session = NoCookie /\ j.txn = NoCookie
    BY <1>1, <1>6 DEF Jars
  <1>8. /\ span = 0 /\ secret = FileOf(0) /\ volume = [r \in Gateways |-> FileOf(0)]
        /\ sealer = [r \in Gateways |-> FileOf(0)] /\ rotation = z /\ jar = [b \in Browsers |-> j]
        /\ logins = 0 /\ calls = [r \in Gateways |-> NoCall]
    BY <1>2, <1>4, <1>6 DEF SessionsInit
  <1>9. SessionTypes
    BY <1>2, <1>3, <1>5, <1>7, <1>8 DEF SessionTypes
  <1>10. CookieOK(NoCookie, SessionTTL) /\ CookieOK(NoCookie, TransactionTTL)
    BY <1>1, <1>8, SessionsAssumption DEF CookieOK, OldKey, NewKey
  <1>11. \A r \in Gateways : ReplicaOK(r)
    BY <1>5, <1>8 DEF ReplicaOK
  <1>12. \A r \in Gateways : calls[r] = NoCall /\ calls[r].exp =< span + SessionTTL
    BY <1>3, <1>8, SessionsAssumption
  <1> QED
    BY <1>5, <1>7, <1>8, <1>9, <1>10, <1>11, <1>12 DEF SessionsInv

\* A rotation of the cookie keys by the documented steps loses no session, and no login
\* within one sessionTTL of its start, whichever replica sealed the cookie, however late
\* each one's volume follows the Secret, and whatever unreadable files are written in
\* between (cookie.go, poll.go, browser.go).
THEOREM EveryReplicaOpensHolds == SessionsSpec => []EveryReplicaOpens
  <1>1. SessionsInit => SessionsInv
    BY SessionsStart
  <1>2. SessionsInv /\ [SessionsNext]_sessionVars => SessionsInv'
    <2> SUFFICES ASSUME SessionsInv, [SessionsNext]_sessionVars PROVE SessionsInv'
      OBVIOUS
    <2>1. CASE SessionsNext
      BY <2>1, FilesKeep, OperatorKeeps, RoutesKeep, TickKeeps DEF SessionsNext
    <2>2. CASE UNCHANGED sessionVars
      BY <2>2 DEF sessionVars, SessionsInv, SessionTypes, ReplicaOK, CookieOK
    <2> QED
      BY <2>1, <2>2
  <1>3. SessionsInv => EveryReplicaOpens
    BY InvOpens
  <1> QED
    BY <1>1, <1>2, <1>3, PTL DEF SessionsSpec

-----------------------------------------------------------------------------
(* SigningKeys: the copy of the issuer's keys.  Fetches exclude each other *)
(* and one is answered with what the issuer publishes while it runs, so    *)
(* each set held is at least as new as the last, names every key published *)
(* before its fetch began, and none that was gone by then.                 *)

\* The types.
Sets   == 1 .. Len(Published)
Labels == {"none", "load", "recheck", "wait", "select", "again", "accepted", "denied", "refused",
           "unavailable"}
Tokens == [pc: Labels, key: Signers \cup {0}, kid: BOOLEAN, next: {"none", "recheck", "again"},
           ks: Sets \cup {0}]
Fetch  == [on: BOOLEAN, set: Sets \cup {0}, since: Nat]

KeyTypes ==
    /\ kNow \in 0 .. MaxNow
    /\ iss \in [set: Sets, since: [Signers -> Nat], gone: [Signers -> Nat]]
    /\ held \in [set: Sets \cup {0}, at: Nat]
    /\ fetch \in [Fetchers -> Fetch]
    /\ attempt \in Nat /\ due \in Nat /\ failures \in Nat
    /\ token \in [Verifications -> Tokens]

\* The set s, and every one published after it, has the keys the issuer has
\* published since before t.
Covers(s, t) ==
    \A k \in Signers : iss.gone[k] = Never /\ iss.since[k] < t =>
        \A j \in Sets : s =< j /\ j =< iss.set => k \in Published[j]

\* No key of the set s was gone before t.
Kept(s, t) == \A k \in Published[s] : iss.gone[k] = Never \/ iss.gone[k] >= t

\* What the issuer publishes now, and since when.
PubOK(k) ==
    /\ k \in Published[iss.set] <=> iss.gone[k] = Never /\ iss.since[k] # Never
    /\ iss.since[k] = Never \/ iss.since[k] =< kNow
    /\ iss.gone[k] = Never \/ iss.gone[k] =< kNow

\* A fetch that is on is the only one; what it was answered is no older than
\* the set held, and was published while it ran.
FetchOK(w) ==
    /\ ~fetch[w].on => fetch[w].set = 0
    /\ fetch[w].on =>
         /\ fetch[w].since =< kNow /\ kNow =< fetch[w].since + FetchTime
         /\ w # Timer => token[w].pc = "wait"
         /\ \A x \in Fetchers : fetch[x].on => x = w
    /\ fetch[w].set # 0 =>
         /\ held.set =< fetch[w].set /\ fetch[w].set =< iss.set
         /\ Covers(fetch[w].set, fetch[w].since) /\ Kept(fetch[w].set, fetch[w].since)

\* The verification that made the last attempt has not had its answer.
Pending ==
    \E u \in Verifications : token[u].pc = "wait" /\ (fetch[u].on => fetch[u].since >= attempt)

\* A verification t.
TokenOK(t) ==
    /\ t.pc # "none" => t.key \in Signers
    /\ t.pc \in {"recheck", "wait", "select", "again"} => held.set # 0
    /\ t.pc = "select" =>
         /\ t.ks # 0 /\ (t.ks = held.set \/ held.at = kNow)
         /\ \A k \in Published[t.ks] :
               iss.gone[k] = Never \/ kNow =< iss.gone[k] + MaxStale + FetchTime
    /\ t.pc = "wait" => t.next # "none" /\ attempt # Never
    /\ t.pc = "again" \/ (t.pc = "wait" /\ t.next = "again") =>
         t.kid /\ t.ks # 0 /\ t.key \notin Published[t.ks]
    /\ t.pc = "again" /\ failures = 0 => Covers(held.set, kNow - FetchTime)

\* The inductive invariant of SigningKeys.
KeysInv ==
    /\ KeyTypes
    /\ \A k \in Signers : PubOK(k)
    /\ \A w \in Fetchers : FetchOK(w)
    /\ held.set =< iss.set /\ held.at =< kNow
    /\ held.set # 0 => Kept(held.set, held.at - FetchTime)
    /\ attempt = Never \/ attempt =< kNow
    /\ due =< kNow + RefreshEvery
    /\ attempt # Never /\ failures = 0 => Pending \/ Covers(held.set, attempt)
    /\ \A v \in Verifications : TokenOK(token[v])

\* How long an on-demand refresh takes when the cooldown outlasts two fetches:
\* one that was under way, one of the timer, and its own.  First the wait for
\* the others' fetches.
WaitsItsTurn(v) ==
    token[v].pc = "wait" /\ ~fetch[v].on =>
        /\ \A u \in Verifications : u # v /\ token[u].pc = "wait" => fetch[u].on
        /\ token[v].next = "again" => token[v].ks = held.set \/ held.at >= attempt
        /\ due =< attempt + RefreshEvery + FetchTime
        /\ IF due =< attempt + RefreshEvery
           THEN /\ kNow =< attempt + FetchTime
                /\ \A w \in Fetchers : fetch[w].on => fetch[w].since =< attempt
           ELSE /\ kNow + RefreshEvery =< due + FetchTime
                /\ \A w \in Fetchers : fetch[w].on => fetch[w].since + RefreshEvery =< due

\* Then its own fetch, the second look, and what is accepted of it.
ItsOwnFetch(v) ==
    token[v].pc = "wait" /\ fetch[v].on /\ token[v].next = "again" =>
        token[v].ks = held.set \/ held.at + 2 * FetchTime >= fetch[v].since

LooksAgain(v) ==
    token[v].pc = "again" => token[v].ks = held.set \/ held.at + 3 * FetchTime >= kNow

AcceptedInTime(v) ==
    token[v].pc = "accepted" =>
        \/ iss.gone[token[v].key] = Never
        \/ kNow =< iss.gone[token[v].key] + MaxStale + FetchTime

\* The invariant that goes with KeysInv when the cooldown outlasts two fetches.
WaitInv ==
    \A v \in Verifications : WaitsItsTurn(v) /\ ItsOwnFetch(v) /\ LooksAgain(v) /\ AcceptedInTime(v)

\* Whatever the cooldown: since the set of a verification that waits was
\* swapped, only fetches that failed have passed.  The fetch under way began,
\* and with none under way it is, no later than those took.
Queued(v) ==
    token[v].pc = "wait" /\ token[v].next = "again" =>
        \/ token[v].ks = held.set
        \/ /\ \A w \in Fetchers : fetch[w].on => fetch[w].since =< held.at + failures * FetchTime
           /\ Fetching \/ kNow =< held.at + failures * FetchTime

LooksLate(v) ==
    token[v].pc = "again" => token[v].ks = held.set \/ kNow =< held.at + failures * FetchTime

AcceptedLate(v) ==
    token[v].pc = "accepted" =>
        \/ iss.gone[token[v].key] = Never
        \/ kNow =< iss.gone[token[v].key] + MaxStale + FetchTime
        \/ kNow =< iss.gone[token[v].key] + FetchTime + failures * FetchTime

\* The invariant that goes with KeysInv under any cooldown.
QueueInv == \A v \in Verifications : Queued(v) /\ LooksLate(v) /\ AcceptedLate(v)

-----------------------------------------------------------------------------

\* The constants.
LEMMA KeyConstants ==
  /\ FetchTime \in Nat \ {0} /\ RefreshEvery \in Nat \ {0} /\ RefreshMin \in Nat /\ MaxStale \in Nat
  /\ MaxNow \in Nat /\ Never \in Nat /\ \A n \in 0 .. MaxNow : n \in Nat /\ n < Never
  /\ MaxStale >= RefreshEvery /\ RefreshEvery >= 3 * FetchTime
  /\ Timer \notin Verifications /\ Timer \in Fetchers /\ Verifications \subseteq Fetchers
  /\ Sets \subseteq Nat \ {0} /\ 1 \in Sets /\ \A s \in Sets : Published[s] \subseteq Signers
  <1>1. /\ FetchTime \in Nat \ {0} /\ RefreshEvery \in Nat \ {0} /\ RefreshMin \in Nat /\ MaxStale \in Nat
        /\ MaxNow \in Nat /\ MaxStale >= RefreshEvery /\ RefreshEvery >= 3 * FetchTime
    BY SigningKeysAssumption
  <1>2. Never \in Nat /\ \A n \in 0 .. MaxNow : n \in Nat /\ n < Never
    BY <1>1 DEF Never
  <1>3. Timer \notin Verifications /\ Timer \in Fetchers /\ Verifications \subseteq Fetchers
    BY SigningKeysAssumption DEF Timer, Fetchers
  <1>4. DOMAIN Published = Sets /\ Len(Published) \in Nat \ {0}
    BY SigningKeysAssumption DEF Sets
  <1>5. Sets \subseteq Nat \ {0} /\ 1 \in Sets
    BY <1>4 DEF Sets
  <1>6. \A s \in Sets : Published[s] \subseteq Signers
    BY <1>4 DEF Signers
  <1> QED
    BY <1>1, <1>2, <1>3, <1>5, <1>6

\* What KeysInv says of the types of the parts.
LEMMA KeyParts ==
  ASSUME KeyTypes
  PROVE  /\ kNow \in Nat /\ kNow =< MaxNow /\ kNow < Never
         /\ iss.set \in Sets /\ iss.set \in Nat
         /\ \A k \in Signers : iss.since[k] \in Nat /\ iss.gone[k] \in Nat
         /\ held.set \in Sets \cup {0} /\ held.set \in Nat /\ held.at \in Nat
         /\ \A w \in Fetchers : /\ fetch[w] \in Fetch /\ fetch[w].on \in BOOLEAN /\ fetch[w].since \in Nat
                                /\ fetch[w].set \in Sets \cup {0} /\ fetch[w].set \in Nat
         /\ \A v \in Verifications : /\ token[v] \in Tokens /\ token[v].pc \in Labels
                                     /\ token[v].ks \in Sets \cup {0}
  <1>1. kNow \in Nat /\ kNow =< MaxNow /\ kNow < Never
    BY KeyConstants DEF KeyTypes
  <1>2. \A n \in Sets \cup {0} : n \in Nat
    BY KeyConstants
  <1>3. iss.set \in Sets /\ \A k \in Signers : iss.since[k] \in Nat /\ iss.gone[k] \in Nat
    BY DEF KeyTypes
  <1>4. held.set \in Sets \cup {0} /\ held.at \in Nat
    BY DEF KeyTypes
  <1>5. \A w \in Fetchers : /\ fetch[w] \in Fetch /\ fetch[w].on \in BOOLEAN /\ fetch[w].since \in Nat
                            /\ fetch[w].set \in Sets \cup {0}
    BY DEF KeyTypes, Fetch
  <1>6. \A v \in Verifications : /\ token[v] \in Tokens /\ token[v].pc \in Labels
                                 /\ token[v].ks \in Sets \cup {0}
    BY DEF KeyTypes, Tokens
  <1> QED
    BY <1>1, <1>2, <1>3, <1>4, <1>5, <1>6

\* Newer sets cover as much, and earlier times less.
LEMMA CoversMore ==
  ASSUME KeyTypes, NEW s \in Nat, NEW s2 \in Nat, s =< s2, NEW t \in Int, NEW t2 \in Int, t2 =< t, Covers(s, t)
  PROVE  Covers(s2, t2)
  <1> SUFFICES ASSUME NEW k \in Signers, iss.gone[k] = Never, iss.since[k] < t2,
                      NEW j \in Sets, s2 =< j, j =< iss.set
               PROVE  k \in Published[j]
    BY DEF Covers
  <1>1. iss.since[k] < t /\ s =< j
    BY KeyParts, KeyConstants
  <1> QED
    BY <1>1 DEF Covers

\* A set that was kept longer was kept as long.
LEMMA KeptLess ==
  ASSUME KeyTypes, NEW s \in Sets, NEW t \in Int, NEW t2 \in Int, t2 =< t, Kept(s, t)
  PROVE  Kept(s, t2)
  <1>1. \A k \in Published[s] : iss.gone[k] \in Nat
    BY KeyParts, KeyConstants
  <1> QED
    BY <1>1 DEF Kept

\* What the issuer publishes now covers everything published before now, and
\* nothing in it is gone.
LEMMA ServedNow ==
  ASSUME KeysInv, NEW t \in Nat, t =< kNow
  PROVE  Covers(iss.set, t) /\ Kept(iss.set, t)
  <1>1. KeyTypes /\ \A k \in Signers : PubOK(k)
    BY DEF KeysInv
  <1>2. Kept(iss.set, t)
    BY <1>1, KeyParts, KeyConstants DEF Kept, PubOK
  <1>3. Covers(iss.set, t)
    <2> SUFFICES ASSUME NEW k \in Signers, iss.gone[k] = Never, iss.since[k] < t,
                        NEW j \in Sets, iss.set =< j, j =< iss.set
                 PROVE  k \in Published[j]
      BY DEF Covers
    <2>1. j = iss.set
      BY <1>1, KeyParts, KeyConstants
    <2>2. iss.since[k] # Never
      BY <1>1, KeyParts, KeyConstants
    <2> QED
      BY <1>1, <2>1, <2>2 DEF PubOK
  <1> QED
    BY <1>2, <1>3

\* The issuer publishes its next set.
LEMMA PublishKeeps ==
  ASSUME KeysInv, Publishes
  PROVE  KeysInv'
  <1> DEFINE old == Published[iss.set]
             new == Published[iss.set + 1]
             since == [k \in Signers |-> IF k \in new \ old THEN kNow ELSE iss.since[k]]
             gone == [k \in Signers |-> IF k \in new THEN Never
                                        ELSE IF k \in old THEN kNow ELSE iss.gone[k]]
  <1>1. KeyTypes /\ (\A k \in Signers : PubOK(k)) /\ UNCHANGED <<kNow, held, fetch, attempt, due, token, failures>>
    BY DEF KeysInv, Publishes
  <1>2. iss' = [set |-> iss.set + 1, since |-> since, gone |-> gone] /\ iss.set < Len(Published)
    BY DEF Publishes
  <1>3. iss.set + 1 \in Sets
    BY <1>1, <1>2, KeyParts, KeyConstants, SigningKeysAssumption DEF Sets
  <1>4. since \in [Signers -> Nat] /\ gone \in [Signers -> Nat]
    BY <1>1, KeyParts, KeyConstants
  <1>5. iss'.set = iss.set + 1 /\ iss'.since = since /\ iss'.gone = gone
    BY <1>2
  <1>6. KeyTypes'
    <2> HIDE DEF since, gone
    <2> QED
      BY <1>1, <1>2, <1>3, <1>4 DEF KeyTypes
  <1>7. \A k \in Signers : /\ iss'.since[k] = IF k \in new \ old THEN kNow ELSE iss.since[k]
                           /\ iss'.gone[k] = IF k \in new THEN Never
                                             ELSE IF k \in old THEN kNow ELSE iss.gone[k]
    BY <1>5
  <1> HIDE DEF since, gone
  <1>8. \A k \in Signers : PubOK(k)'
    <2> SUFFICES ASSUME NEW k \in Signers PROVE PubOK(k)'
      OBVIOUS
    <2>1. PubOK(k) /\ kNow \in Nat /\ kNow < Never /\ Never \in Nat
      BY <1>1, KeyParts, KeyConstants
    <2> QED
      BY <1>1, <1>5, <1>7, <2>1 DEF PubOK
  <1>9. ASSUME NEW s \in Nat, NEW t \in Int, t =< kNow, Covers(s, t) PROVE Covers(s, t)'
    <2> SUFFICES ASSUME NEW k \in Signers, iss'.gone[k] = Never, iss'.since[k] < t,
                        NEW j \in Sets, s =< j, j =< iss'.set
                 PROVE  k \in Published[j]
      BY <1>9 DEF Covers
    <2>1. kNow \in Nat /\ kNow < Never /\ Never \in Nat /\ PubOK(k) /\ j \in Nat /\ iss.set \in Nat
      BY <1>1, KeyParts, KeyConstants
    <2>2. k \notin new \ old /\ iss.since[k] < t /\ iss.since[k] # Never
      BY <1>7, <1>9, <2>1
    <2>3. k \in new
      BY <1>7, <2>1, <2>2 DEF PubOK
    <2>4. k \in old /\ iss.gone[k] = Never
      BY <2>1, <2>2, <2>3 DEF PubOK
    <2>5. CASE j =< iss.set
      BY <1>9, <2>2, <2>4, <2>5 DEF Covers
    <2>6. CASE j = iss.set + 1
      BY <2>3, <2>6
    <2> QED
      BY <1>5, <2>1, <2>5, <2>6
  <1>10. ASSUME NEW s \in Sets, NEW t \in Int, t =< kNow, Kept(s, t) PROVE Kept(s, t)'
    <2>1. \A k \in Published[s] : k \in Signers
      BY KeyConstants
    <2> QED
      BY <1>1, <1>7, <1>10, <2>1, KeyParts DEF Kept
  <1>11. ASSUME NEW w \in Fetchers PROVE FetchOK(w)'
    <2>1. FetchOK(w) /\ iss.set \in Nat
      BY <1>1, KeyParts DEF KeysInv
    <2>2. PICK n \in Nat : n = fetch[w].set
      BY <1>1, KeyParts
    <2>3. PICK t \in Nat : t = fetch[w].since
      BY <1>1, KeyParts
    <2>4. n # 0 => n \in Sets /\ t =< kNow
      BY <1>1, <2>1, <2>2, <2>3, KeyParts DEF FetchOK
    <2>5. n # 0 => Covers(n, t)' /\ Kept(n, t)'
      BY <1>9, <1>10, <2>1, <2>2, <2>3, <2>4 DEF FetchOK
    <2>6. n # 0 => n =< iss'.set
      BY <1>5, <2>1, <2>2 DEF FetchOK
    <2>7. fetch'[w].set = n /\ fetch'[w].since = t
      BY <1>1, <2>2, <2>3
    <2>8. n # 0 => Covers(fetch[w].set, fetch[w].since)' /\ Kept(fetch[w].set, fetch[w].since)'
      BY <2>5, <2>7 DEF Covers, Kept
    <2> QED
      BY <1>1, <2>1, <2>2, <2>6, <2>8 DEF FetchOK
  <1>12. held'.set =< iss'.set /\ (held'.set # 0 => Kept(held.set, held.at - FetchTime)')
    <2>1. PICK n \in Nat : n = held.set
      BY <1>1, KeyParts
    <2>2. PICK t \in Int : t = held.at - FetchTime
      BY <1>1, KeyParts, KeyConstants
    <2>3. held'.set = n /\ held'.at - FetchTime = t /\ t =< kNow /\ (n # 0 => n \in Sets)
      BY <1>1, <2>1, <2>2, KeyParts, KeyConstants DEF KeysInv
    <2>4. n # 0 => Kept(n, t)'
      BY <1>10, <2>1, <2>2, <2>3 DEF KeysInv
    <2>5. n =< iss.set + 1
      BY <1>1, <2>1, KeyParts DEF KeysInv
    <2> QED
      BY <1>5, <2>3, <2>4, <2>5 DEF Kept
  <1>13. attempt' # Never /\ failures' = 0 => Pending' \/ Covers(held.set, attempt)'
    <2> SUFFICES ASSUME attempt # Never, failures = 0, ~Pending PROVE Covers(held.set, attempt)'
      BY <1>1 DEF Pending
    <2>1. PICK n \in Nat : n = held.set
      BY <1>1, KeyParts
    <2>2. PICK t \in Nat : t = attempt
      BY <1>1 DEF KeyTypes
    <2>3. Covers(n, t) /\ t =< kNow
      BY <2>1, <2>2 DEF KeysInv
    <2>4. Covers(n, t)' /\ n = held'.set /\ t = attempt'
      BY <1>1, <1>9, <2>1, <2>2, <2>3
    <2> QED
      BY <2>4 DEF Covers
  <1>14. ASSUME NEW v \in Verifications PROVE TokenOK(token[v])'
    <2>1. PICK t \in Tokens : t = token[v]
      BY <1>1, KeyParts
    <2>2. TokenOK(t)
      BY <2>1 DEF KeysInv
    <2>3. ASSUME t.pc = "select", NEW k \in Published[t.ks]
          PROVE  iss'.gone[k] = Never \/ kNow =< iss'.gone[k] + MaxStale + FetchTime
      <3>1. t.ks \in Sets /\ k \in Signers
        BY <2>2, <2>3, KeyConstants DEF TokenOK, Tokens
      <3>2. iss.gone[k] = Never \/ kNow =< iss.gone[k] + MaxStale + FetchTime
        BY <2>2, <2>3 DEF TokenOK
      <3> QED
        BY <1>1, <1>7, <3>1, <3>2, KeyParts, KeyConstants
    <2>4. t.pc = "again" /\ failures = 0 => Covers(held.set, kNow - FetchTime)'
      <3> SUFFICES ASSUME t.pc = "again", failures = 0 PROVE Covers(held.set, kNow - FetchTime)'
        OBVIOUS
      <3>1. PICK n \in Nat : n = held.set
        BY <1>1, KeyParts
      <3>2. PICK x \in Int : x = kNow - FetchTime
        BY <1>1, KeyParts, KeyConstants
      <3>3. x =< kNow
        BY <1>1, <3>2, KeyParts, KeyConstants
      <3>4. Covers(n, x)
        BY <2>2, <3>1, <3>2 DEF TokenOK
      <3>5. Covers(n, x)' /\ n = held'.set /\ x = kNow' - FetchTime
        BY <1>1, <1>9, <3>1, <3>2, <3>3, <3>4
      <3> QED
        BY <3>5 DEF Covers
    <2>5. TokenOK(t)'
      BY <1>1, <2>2, <2>3, <2>4 DEF TokenOK
    <2>6. t = token'[v]
      BY <1>1, <2>1
    <2> QED
      BY <2>5, <2>6
  <1> QED
    BY <1>1, <1>6, <1>8, <1>11, <1>12, <1>13, <1>14 DEF KeysInv

\* A step of one verification that is not waiting.
LEMMA TokenStep ==
  ASSUME KeysInv, NEW v \in Verifications, NEW t \in Tokens, token' = [token EXCEPT ![v] = t],
         UNCHANGED <<kNow, iss, held, fetch, due, failures>>, token[v].pc # "wait", TokenOK(t)',
         attempt' = attempt \/ (attempt' = kNow /\ t.pc = "wait")
  PROVE  KeysInv'
  <1>1. KeyTypes
    BY DEF KeysInv
  <1>2. token' \in [Verifications -> Tokens] /\ token'[v] = t /\ \A u \in Verifications : u # v => token'[u] = token[u]
    BY <1>1 DEF KeyTypes
  <1>3. KeyTypes'
    BY <1>1, <1>2, KeyParts DEF KeyTypes
  <1>4. ~fetch[v].on
    BY KeyConstants DEF KeysInv, FetchOK
  <1>5. \A k \in Signers : PubOK(k)'
    BY DEF KeysInv, PubOK
  <1>6. ASSUME NEW w \in Fetchers PROVE FetchOK(w)'
    <2>1. FetchOK(w)
      BY DEF KeysInv
    <2>2. fetch[w].on /\ w # Timer => token'[w] = token[w]
      BY <1>2, <1>4 DEF Fetchers
    <2> QED
      BY <2>1, <2>2 DEF FetchOK, Covers, Kept
  <1>7. attempt' = Never \/ attempt' =< kNow'
    BY <1>1, KeyParts DEF KeysInv
  <1>8. attempt' # Never /\ failures' = 0 => Pending' \/ Covers(held.set, attempt)'
    <2>1. CASE attempt' = attempt
      <3>1. Pending => Pending'
        BY <1>2, <2>1 DEF Pending
      <3>2. Covers(held.set, attempt) => Covers(held.set, attempt)'
        BY <2>1 DEF Covers
      <3> QED
        BY <2>1, <3>1, <3>2 DEF KeysInv
    <2>2. CASE attempt' = kNow /\ t.pc = "wait"
      BY <1>2, <1>4, <2>2 DEF Pending
    <2> QED
      BY <2>1, <2>2
  <1>9. ASSUME NEW u \in Verifications PROVE TokenOK(token[u])'
    <2>1. CASE u = v
      BY <1>2, <2>1
    <2>2. CASE u # v
      <3>1. PICK x : x = token[u]
        OBVIOUS
      <3>2. TokenOK(x) /\ x = token'[u]
        BY <1>2, <2>2, <3>1 DEF KeysInv
      <3>3. attempt # Never => attempt' # Never
        BY <1>1, KeyParts
      <3>4. TokenOK(x)'
        BY <3>2, <3>3 DEF TokenOK, Covers
      <3> QED
        BY <3>2, <3>4
    <2> QED
      BY <2>1, <2>2
  <1>10. (held'.set # 0 => Kept(held.set, held.at - FetchTime)') /\ held'.set =< iss'.set /\ held'.at =< kNow'
    BY DEF KeysInv, Kept
  <1> QED
    BY <1>3, <1>5, <1>6, <1>7, <1>8, <1>9, <1>10 DEF KeysInv

\* A set that is not stale may be used now.
LEMMA LoadedOK ==
  ASSUME KeysInv, ~TooOld(held), NEW t \in Tokens, t.pc = "select", t.ks = held.set, t.key \in Signers
  PROVE  TokenOK(t)
  <1>1. KeyTypes /\ held.set # 0 /\ kNow - held.at =< MaxStale
    BY KeyParts, KeyConstants DEF TooOld, KeysInv
  <1>2. Kept(held.set, held.at - FetchTime)
    BY <1>1 DEF KeysInv
  <1>3. ASSUME NEW k \in Published[held.set]
        PROVE  iss.gone[k] = Never \/ kNow =< iss.gone[k] + MaxStale + FetchTime
    <2>1. iss.gone[k] \in Nat
      BY <1>1, KeyParts, KeyConstants
    <2>2. iss.gone[k] = Never \/ iss.gone[k] >= held.at - FetchTime
      BY <1>2 DEF Kept
    <2> QED
      BY <1>1, <2>1, <2>2, KeyParts, KeyConstants
  <1> QED
    BY <1>1, <1>3 DEF TokenOK

\* A verification's own steps.
LEMMA VerifyKeeps ==
  ASSUME KeysInv, NEW v \in Verifications,
         \/ \E k \in Signers, kid \in BOOLEAN : Arrive(v, k, kid)
         \/ LoadKeys(v) \/ ReloadKeys(v) \/ Select(v) \/ Answered(v)
  PROVE  KeysInv'
  <1>1. /\ KeyTypes /\ token \in [Verifications -> Tokens] /\ token[v] \in Tokens /\ TokenOK(token[v])
        /\ held.set \in Sets \cup {0} /\ kNow # Never
    BY KeyParts, KeyConstants DEF KeysInv, KeyTypes
  <1>2. ASSUME NEW t \in Tokens, token' = [token EXCEPT ![v] = t], TokenOK(t),
               UNCHANGED <<kNow, iss, held, fetch, attempt, due, failures>>, token[v].pc # "wait"
        PROVE  KeysInv'
    <2>1. TokenOK(t)'
      BY <1>2 DEF TokenOK, Covers
    <2> QED
      BY <1>2, <2>1, TokenStep
  <1>3. ASSUME NEW pc \in {"accepted", "denied", "refused", "unavailable", "recheck"},
               token' = TokenAt(v, pc), pc = "recheck" => held.set # 0, token[v].pc \notin {"wait", "none"},
               UNCHANGED <<kNow, iss, held, fetch, attempt, due, failures>>
        PROVE  KeysInv'
    <2>1. PICK t : t = [token[v] EXCEPT !.pc = pc]
      OBVIOUS
    <2>2. t \in Tokens /\ t.pc = pc /\ t.key = token[v].key
      BY <1>1, <2>1 DEF Tokens, Labels
    <2>3. TokenOK(t)
      BY <1>1, <1>3, <2>2 DEF TokenOK
    <2>4. token' = [token EXCEPT ![v] = t]
      BY <1>1, <1>3, <2>1 DEF TokenAt
    <2> QED
      BY <1>2, <1>3, <2>2, <2>3, <2>4
  <1>4. ASSUME NEW l \in {"unavailable", "select"}, token' = LoadedAt(v, l), l = "select" => ~TooOld(held),
               token[v].pc \notin {"wait", "none"}, UNCHANGED <<kNow, iss, held, fetch, attempt, due, failures>>
        PROVE  KeysInv'
    <2>1. PICK t : t = [token[v] EXCEPT !.pc = l, !.ks = held.set]
      OBVIOUS
    <2>2. t \in Tokens /\ t.pc = l /\ t.key = token[v].key /\ t.ks = held.set
      BY <1>1, <2>1 DEF Tokens, Labels
    <2>3. TokenOK(t)
      <3>1. CASE l = "select"
        BY <1>1, <1>4, <2>2, <3>1, LoadedOK DEF TokenOK
      <3>2. CASE l = "unavailable"
        BY <1>1, <1>4, <2>2, <3>2 DEF TokenOK
      <3> QED
        BY <3>1, <3>2
    <2>4. token' = [token EXCEPT ![v] = t]
      BY <1>1, <1>4, <2>1 DEF LoadedAt
    <2> QED
      BY <1>2, <1>4, <2>2, <2>3, <2>4
  <1>5. ASSUME NEW next \in {"recheck", "again"},
               token' = [token EXCEPT ![v].pc = "wait", ![v].next = next], attempt' = kNow,
               held.set # 0, token[v].pc \notin {"wait", "none"},
               next = "again" => token[v].kid /\ token[v].ks # 0 /\ token[v].key \notin Published[token[v].ks],
               UNCHANGED <<kNow, iss, held, fetch, due, failures>>
        PROVE  KeysInv'
    <2>1. PICK t : t = [token[v] EXCEPT !.pc = "wait", !.next = next]
      OBVIOUS
    <2>2. /\ t \in Tokens /\ t.pc = "wait" /\ t.next = next /\ t.key = token[v].key /\ t.kid = token[v].kid
          /\ t.ks = token[v].ks
      BY <1>1, <2>1 DEF Tokens, Labels
    <2>3. TokenOK(t)'
      BY <1>1, <1>5, <2>2 DEF TokenOK
    <2>4. token' = [token EXCEPT ![v] = t]
      BY <1>1, <1>5, <2>1
    <2> QED
      BY <1>5, <2>2, <2>3, <2>4, TokenStep
  <1>6. ASSUME NEW k \in Signers, NEW kid \in BOOLEAN, Arrive(v, k, kid) PROVE KeysInv'
    <2>1. PICK t : t = [NoToken EXCEPT !.pc = "load", !.key = k, !.kid = kid]
      OBVIOUS
    <2>2. t \in Tokens /\ t.pc = "load" /\ t.key = k
      BY <2>1 DEF NoToken, Tokens, Labels
    <2>3. TokenOK(t)
      BY <2>2 DEF TokenOK
    <2> QED
      BY <1>2, <1>6, <2>1, <2>2, <2>3 DEF Arrive
  <1>7. CASE LoadKeys(v)
    <2>1. token[v].pc = "load" /\ UNCHANGED <<kNow, iss, held, fetch, due, failures>>
      BY <1>7 DEF LoadKeys
    <2>2. CASE held.set # 0 /\ TooOld(held)
      <3>1. OnDemand(v, [refused |-> "recheck", ran |-> "recheck"])
        BY <1>7, <2>2 DEF LoadKeys
      <3>2. CASE InCooldown
        BY <1>3, <2>1, <2>2, <3>1, <3>2 DEF OnDemand
      <3>3. CASE ~InCooldown
        BY <1>5, <2>1, <2>2, <3>1, <3>3 DEF OnDemand
      <3> QED
        BY <3>2, <3>3
    <2>3. CASE held.set = 0
      <3>1. token' = LoadedAt(v, "unavailable") /\ UNCHANGED attempt
        BY <1>7, <2>3 DEF LoadKeys
      <3> QED
        BY <1>4, <2>1, <3>1
    <2>4. CASE held.set # 0 /\ ~TooOld(held)
      <3>1. token' = LoadedAt(v, "select") /\ UNCHANGED attempt
        BY <1>7, <2>4 DEF LoadKeys
      <3> QED
        BY <1>4, <2>1, <2>4, <3>1
    <2> QED
      BY <2>2, <2>3, <2>4
  <1>8. CASE ReloadKeys(v)
    <2>1. /\ token[v].pc = "recheck" /\ UNCHANGED <<kNow, iss, held, fetch, attempt, due, failures>>
          /\ token' = LoadedAt(v, Recheck(v))
      BY <1>8 DEF ReloadKeys
    <2>2. PICK l \in {"unavailable", "select"} : l = Recheck(v) /\ (l = "select" => ~TooOld(held))
      BY DEF Recheck
    <2>3. token' = LoadedAt(v, l)
      BY <2>1, <2>2
    <2> QED
      BY <1>4, <2>1, <2>2, <2>3
  <1>9. CASE Select(v)
    <2>1. token[v].pc \in {"select", "again"} /\ UNCHANGED <<kNow, iss, held, fetch, due, failures>>
      BY <1>9 DEF Select
    <2>2. \/ \E pc \in {"accepted", "denied", "refused"} : token' = TokenAt(v, pc) /\ UNCHANGED attempt
          \/ /\ token[v].pc = "select" /\ token[v].kid /\ ~Selects(v, token[v].ks)
             /\ OnDemand(v, [refused |-> "refused", ran |-> "again"])
      BY <1>9 DEF Select
    <2>3. ASSUME NEW pc \in {"accepted", "denied", "refused"}, token' = TokenAt(v, pc), UNCHANGED attempt
          PROVE  KeysInv'
      BY <1>3, <2>1, <2>3
    <2>4. CASE /\ token[v].pc = "select" /\ token[v].kid /\ ~Selects(v, token[v].ks)
               /\ OnDemand(v, [refused |-> "refused", ran |-> "again"])
      <3>1. CASE InCooldown
        BY <2>3, <2>4, <3>1 DEF OnDemand
      <3>2. CASE ~InCooldown
        <4>1. /\ token' = [token EXCEPT ![v].pc = "wait", ![v].next = "again"] /\ attempt' = kNow
          BY <2>4, <3>2 DEF OnDemand
        <4>2. held.set # 0 /\ token[v].ks # 0 /\ token[v].key \notin Published[token[v].ks]
          BY <1>1, <2>4 DEF TokenOK, Selects
        <4> QED
          BY <1>5, <2>1, <2>4, <4>1, <4>2
      <3> QED
        BY <3>1, <3>2
    <2> QED
      BY <2>2, <2>3, <2>4
  <1>10. CASE Answered(v)
    <2>1. PICK t : t = NoToken
      OBVIOUS
    <2>2. t \in Tokens /\ t.pc = "none"
      BY <2>1 DEF NoToken, Tokens, Labels
    <2>3. TokenOK(t)
      BY <2>2 DEF TokenOK
    <2> QED
      BY <1>2, <1>10, <2>1, <2>2, <2>3 DEF Answered
  <1> QED
    BY <1>6, <1>7, <1>8, <1>9, <1>10

\* A fetch begins, the timer's or a verification's.
LEMMA BeginKeeps ==
  ASSUME KeysInv, TimerFires \/ \E v \in Verifications : OnDemandFetch(v)
  PROVE  KeysInv'
  <1>1. KeyTypes
    BY DEF KeysInv
  <1>2. PICK w \in Fetchers : RefreshBegins(w) /\ (w # Timer => token[w].pc = "wait")
    BY KeyConstants DEF TimerFires, OnDemandFetch
  <1>3. UNCHANGED <<kNow, iss, held, attempt, token, failures>> /\ (due' = due \/ due' = kNow + RefreshEvery)
    BY DEF TimerFires, OnDemandFetch
  <1>4. PICK f : f = [on |-> TRUE, set |-> 0, since |-> kNow]
    OBVIOUS
  <1>5. f \in Fetch /\ f.on /\ f.set = 0 /\ f.since = kNow
    BY <1>1, <1>4, KeyParts DEF Fetch
  <1>6. (\A x \in Fetchers : ~fetch[x].on) /\ fetch' = [fetch EXCEPT ![w] = f]
    BY <1>2, <1>4 DEF RefreshBegins, LockFetch, Fetching
  <1>7. fetch' \in [Fetchers -> Fetch] /\ fetch'[w] = f /\ \A x \in Fetchers : x # w => fetch'[x] = fetch[x]
    BY <1>1, <1>5, <1>6 DEF KeyTypes
  <1>8. due' \in Nat /\ due' =< kNow + RefreshEvery
    BY <1>1, <1>3, KeyParts, KeyConstants DEF KeysInv, KeyTypes
  <1>9. KeyTypes'
    BY <1>1, <1>3, <1>7, <1>8 DEF KeyTypes
  <1>10. ASSUME NEW x \in Fetchers PROVE FetchOK(x)'
    <2>1. CASE x = w
      <3>1. kNow =< kNow + FetchTime /\ kNow =< kNow
        BY <1>1, KeyParts, KeyConstants
      <3> QED
        BY <1>2, <1>3, <1>5, <1>6, <1>7, <2>1, <3>1 DEF FetchOK
    <2>2. CASE x # w
      <3>1. ~fetch'[x].on /\ fetch'[x].set = 0
        BY <1>6, <1>7, <2>2 DEF KeysInv, FetchOK
      <3> QED
        BY <3>1 DEF FetchOK
    <2> QED
      BY <2>1, <2>2
  <1>11. attempt' # Never /\ failures' = 0 => Pending' \/ Covers(held.set, attempt)'
    <2> SUFFICES ASSUME attempt # Never, failures = 0 PROVE Pending' \/ Covers(held.set, attempt)'
      BY <1>3
    <2>1. CASE Pending
      <3>1. PICK u \in Verifications : token[u].pc = "wait"
        BY <2>1 DEF Pending
      <3>2. fetch'[u].on => fetch'[u].since >= attempt
        BY <1>1, <1>5, <1>6, <1>7, <3>1, KeyConstants, KeyParts DEF KeysInv, KeyTypes
      <3> QED
        BY <1>3, <3>1, <3>2 DEF Pending
    <2>2. CASE Covers(held.set, attempt)
      BY <1>3, <2>2 DEF Covers
    <2> QED
      BY <2>1, <2>2 DEF KeysInv
  <1> QED
    BY <1>3, <1>8, <1>9, <1>10, <1>11 DEF KeysInv, PubOK, TokenOK, Covers, Kept

\* The issuer answers.
LEMMA ServeKeeps ==
  ASSUME KeysInv, NEW w \in Fetchers, FetchServed(w)
  PROVE  KeysInv'
  <1>1. KeyTypes /\ FetchOK(w)
    BY DEF KeysInv
  <1>2. /\ fetch[w].on /\ fetch' = [fetch EXCEPT ![w].set = iss.set]
        /\ UNCHANGED <<kNow, iss, held, attempt, due, token, failures>>
    BY DEF FetchServed
  <1>3. /\ fetch' \in [Fetchers -> Fetch] /\ fetch'[w].set = iss.set /\ fetch'[w].on
        /\ fetch'[w].since = fetch[w].since /\ \A x \in Fetchers : x # w => fetch'[x] = fetch[x]
    <2>1. fetch \in [Fetchers -> Fetch] /\ iss.set \in Sets \cup {0}
      BY <1>1, KeyParts DEF KeyTypes
    <2> QED
      BY <1>2, <2>1 DEF Fetch
  <1>4. KeyTypes'
    BY <1>1, <1>2, <1>3 DEF KeyTypes
  <1>5. ASSUME NEW x \in Fetchers PROVE FetchOK(x)'
    <2>1. CASE x = w
      <3>1. PICK n : n = iss.set
        OBVIOUS
      <3>2. PICK t \in Nat : t = fetch[w].since
        BY <1>1, KeyParts
      <3>3. t =< kNow
        BY <1>1, <1>2, <3>2 DEF FetchOK
      <3>4. Covers(n, t) /\ Kept(n, t)
        BY <3>1, <3>2, <3>3, ServedNow
      <3>5. Covers(n, t)' /\ Kept(n, t)'
        BY <1>2, <3>4 DEF Covers, Kept
      <3>6. Covers(fetch[w].set, fetch[w].since)' /\ Kept(fetch[w].set, fetch[w].since)'
        BY <1>3, <3>1, <3>2, <3>5 DEF Covers, Kept
      <3>7. held.set =< iss.set /\ iss.set =< iss.set
        BY <1>1, KeyParts DEF KeysInv
      <3>8. \A y \in Fetchers : fetch'[y].on => y = w
        BY <1>1, <1>2, <1>3 DEF FetchOK
      <3> QED
        BY <1>1, <1>2, <1>3, <2>1, <3>6, <3>7, <3>8 DEF FetchOK
    <2>2. CASE x # w
      <3>1. FetchOK(x) /\ ~fetch[x].on
        BY <1>1, <1>2, <2>2 DEF KeysInv, FetchOK
      <3> QED
        BY <1>3, <2>2, <3>1 DEF FetchOK
    <2> QED
      BY <2>1, <2>2
  <1>6. Pending => Pending'
    <2>1. \A x \in Fetchers : fetch'[x].on => fetch[x].on /\ fetch'[x].since = fetch[x].since
      BY <1>2, <1>3
    <2> QED
      BY <1>2, <2>1, KeyConstants DEF Pending
  <1>7. attempt' # Never /\ failures' = 0 => Pending' \/ Covers(held.set, attempt)'
    BY <1>2, <1>6 DEF KeysInv, Covers
  <1> QED
    BY <1>2, <1>4, <1>5, <1>7 DEF KeysInv, PubOK, TokenOK, Covers, Kept

\* What a fetch that returns leaves: nobody fetches, and its verification goes
\* on.
LEMMA ReturnIs ==
  ASSUME KeysInv, NEW w \in Fetchers, fetch[w].on, RefreshReturns(w)
  PROVE  /\ fetch' \in [Fetchers -> Fetch] /\ \A x \in Fetchers : ~fetch'[x].on /\ fetch'[x].set = 0
         /\ token' \in [Verifications -> Tokens]
         /\ \A u \in Verifications : u # w => token'[u] = token[u]
         /\ w # Timer => /\ w \in Verifications /\ token[w].pc = "wait" /\ TokenOK(token[w])
                         /\ token'[w] = [token[w] EXCEPT !.pc = token[w].next]
                         /\ token'[w].pc = token[w].next /\ token'[w].pc \in {"recheck", "again"}
                         /\ token'[w].key = token[w].key /\ token'[w].kid = token[w].kid
                         /\ token'[w].ks = token[w].ks
  <1>1. KeyTypes /\ (\A x \in Fetchers : FetchOK(x)) /\ \A v \in Verifications : TokenOK(token[v])
    BY DEF KeysInv
  <1>2. NoFetch \in Fetch /\ ~NoFetch.on /\ NoFetch.set = 0
    BY DEF NoFetch, Fetch
  <1>3. fetch' = [fetch EXCEPT ![w] = NoFetch] /\ fetch \in [Fetchers -> Fetch]
    BY <1>1 DEF RefreshReturns, KeyTypes
  <1>4. fetch' \in [Fetchers -> Fetch] /\ \A x \in Fetchers : ~fetch'[x].on /\ fetch'[x].set = 0
    <2>1. \A x \in Fetchers : x # w => ~fetch[x].on /\ fetch[x].set = 0
      BY <1>1 DEF FetchOK
    <2>2. fetch' \in [Fetchers -> Fetch] /\ fetch'[w] = NoFetch /\ \A x \in Fetchers : x # w => fetch'[x] = fetch[x]
      BY <1>2, <1>3
    <2> QED
      BY <1>2, <2>1, <2>2
  <1>5. CASE w = Timer
    BY <1>1, <1>4, <1>5 DEF RefreshReturns, KeyTypes
  <1>6. CASE w # Timer
    <2>1. w \in Verifications /\ token[w].pc = "wait" /\ TokenOK(token[w]) /\ token[w] \in Tokens
      BY <1>1, <1>6, KeyParts DEF Fetchers, FetchOK
    <2>2. token[w].next \in {"recheck", "again"}
      BY <2>1 DEF TokenOK, Tokens
    <2>3. PICK t : t = [token[w] EXCEPT !.pc = token[w].next]
      OBVIOUS
    <2>4. t \in Tokens /\ t.pc = token[w].next /\ t.key = token[w].key /\ t.kid = token[w].kid /\ t.ks = token[w].ks
      BY <2>1, <2>2, <2>3 DEF Tokens, Labels
    <2>5. token' = [token EXCEPT ![w] = t] /\ token \in [Verifications -> Tokens]
      BY <1>1, <1>6, <2>1, <2>3 DEF RefreshReturns, TokenAt, KeyTypes
    <2> QED
      BY <1>4, <2>1, <2>2, <2>3, <2>4, <2>5
  <1> QED
    BY <1>5, <1>6

\* The answer is stored.
LEMMA StoreKeeps ==
  ASSUME KeysInv, NEW w \in Fetchers, FetchStored(w)
  PROVE  KeysInv'
  <1>1. KeyTypes /\ FetchOK(w) /\ \A v \in Verifications : TokenOK(token[v])
    BY DEF KeysInv
  <1>2. PICK n : n = fetch[w].set
    OBVIOUS
  <1>3. PICK t : t = fetch[w].since
    OBVIOUS
  <1>4. /\ n # 0 /\ fetch[w].on /\ held' = [set |-> n, at |-> kNow] /\ RefreshReturns(w)
        /\ UNCHANGED <<kNow, iss, attempt, due, failures>>
    BY <1>1, <1>2 DEF FetchStored, FetchOK
  <1>5. /\ n \in Sets /\ n \in Nat /\ t \in Nat /\ t =< kNow /\ kNow - FetchTime =< t
        /\ held.set =< n /\ n =< iss.set /\ Covers(n, t) /\ Kept(n, t)
    BY <1>1, <1>2, <1>3, <1>4, KeyParts, KeyConstants DEF FetchOK
  <1>6. held'.set = n /\ held'.at = kNow
    BY <1>4
  <1>7. PICK e \in Int : e = kNow - FetchTime
    BY <1>1, KeyParts, KeyConstants
  <1>8. Covers(n, e) /\ Kept(n, e)
    BY <1>1, <1>5, <1>7, CoversMore, KeptLess
  <1>9. /\ (\A x \in Fetchers : ~fetch'[x].on /\ fetch'[x].set = 0) /\ fetch' \in [Fetchers -> Fetch]
        /\ token' \in [Verifications -> Tokens]
        /\ \A u \in Verifications : u # w => token'[u] = token[u]
    BY <1>4, ReturnIs
  <1>10. KeyTypes'
    BY <1>1, <1>4, <1>5, <1>9, KeyParts DEF KeyTypes
  <1>11. \A x \in Fetchers : FetchOK(x)'
    BY <1>9 DEF FetchOK
  <1>12. held'.set =< iss'.set /\ held'.at =< kNow' /\ Kept(held.set, held.at - FetchTime)'
    <2>1. kNow =< kNow
      BY <1>1, KeyParts
    <2> QED
      BY <1>4, <1>5, <1>6, <1>7, <1>8, <2>1 DEF Kept
  <1>13. attempt' # Never /\ failures' = 0 => Pending' \/ Covers(held.set, attempt)'
    <2> SUFFICES ASSUME attempt # Never, failures = 0 PROVE Pending' \/ Covers(held.set, attempt)'
      BY <1>4
    <2>1. attempt \in Nat /\ held.set \in Nat
      BY <1>1, KeyParts DEF KeyTypes
    <2>2. ASSUME Covers(n, attempt) PROVE Covers(held.set, attempt)'
      BY <1>4, <1>6, <2>2 DEF Covers
    <2>3. CASE Covers(held.set, attempt)
      <3>1. Covers(n, attempt)
        BY <1>1, <1>5, <2>1, <2>3, CoversMore
      <3> QED
        BY <2>2, <3>1
    <2>4. ASSUME NEW u \in Verifications, token[u].pc = "wait", fetch[u].on => fetch[u].since >= attempt
          PROVE  Pending' \/ Covers(held.set, attempt)'
      <3>1. CASE u = w
        <4>1. attempt =< t
          BY <1>3, <1>4, <1>5, <2>1, <2>4, <3>1
        <4>2. Covers(n, attempt)
          BY <1>1, <1>5, <2>1, <4>1, CoversMore
        <4> QED
          BY <2>2, <4>2
      <3>2. CASE u # w
        BY <1>9, <2>4, <3>2, KeyConstants DEF Pending
      <3> QED
        BY <3>1, <3>2
    <2> QED
      BY <2>3, <2>4 DEF KeysInv, Pending
  <1>14. ASSUME NEW u \in Verifications PROVE TokenOK(token[u])'
    <2>1. Covers(held.set, kNow - FetchTime)'
      BY <1>4, <1>6, <1>7, <1>8 DEF Covers
    <2>2. CASE u = w
      <3>1. /\ TokenOK(token[w]) /\ token[w].pc = "wait" /\ token'[w].pc \in {"recheck", "again"}
            /\ token'[w].pc = token[w].next /\ token'[w].key = token[w].key
            /\ token'[w].kid = token[w].kid /\ token'[w].ks = token[w].ks
        BY <1>4, <2>2, ReturnIs, KeyConstants
      <3> QED
        BY <1>4, <1>6, <2>1, <2>2, <3>1 DEF TokenOK
    <2>3. CASE u # w
      <3>1. TokenOK(token[u]) /\ token'[u] = token[u]
        BY <1>1, <1>9, <2>3
      <3> QED
        BY <1>4, <1>6, <2>1, <3>1 DEF TokenOK
    <2> QED
      BY <2>2, <2>3
  <1>15. \A k \in Signers : PubOK(k)'
    BY <1>4 DEF KeysInv, PubOK
  <1> QED
    BY <1>4, <1>10, <1>11, <1>12, <1>13, <1>14, <1>15 DEF KeysInv

\* The fetch fails.
LEMMA FailKeeps ==
  ASSUME KeysInv, NEW w \in Fetchers, FetchFails(w)
  PROVE  KeysInv'
  <1>1. KeyTypes /\ \A v \in Verifications : TokenOK(token[v])
    BY DEF KeysInv
  <1>2. /\ fetch[w].on /\ failures' = failures + 1 /\ RefreshReturns(w) /\ (due' = kNow \/ due' = due)
        /\ UNCHANGED <<kNow, iss, held, attempt>>
    BY DEF FetchFails
  <1>3. failures' \in Nat /\ failures' # 0 /\ due' \in Nat /\ due' =< kNow + RefreshEvery
    BY <1>1, <1>2, KeyParts, KeyConstants DEF KeyTypes, KeysInv
  <1>4. /\ (\A x \in Fetchers : ~fetch'[x].on /\ fetch'[x].set = 0) /\ fetch' \in [Fetchers -> Fetch]
        /\ token' \in [Verifications -> Tokens]
        /\ \A u \in Verifications : u # w => token'[u] = token[u]
    BY <1>2, ReturnIs
  <1>5. KeyTypes'
    BY <1>1, <1>2, <1>3, <1>4 DEF KeyTypes
  <1>6. \A x \in Fetchers : FetchOK(x)'
    BY <1>4 DEF FetchOK
  <1>7. ASSUME NEW u \in Verifications PROVE TokenOK(token[u])'
    <2>1. CASE u = w
      <3>1. /\ TokenOK(token[w]) /\ token[w].pc = "wait" /\ token'[w].pc \in {"recheck", "again"}
            /\ token'[w].pc = token[w].next /\ token'[w].key = token[w].key
            /\ token'[w].kid = token[w].kid /\ token'[w].ks = token[w].ks
        BY <1>2, <2>1, ReturnIs, KeyConstants
      <3> QED
        BY <1>2, <1>3, <2>1, <3>1 DEF TokenOK
    <2>2. CASE u # w
      <3>1. TokenOK(token[u]) /\ token'[u] = token[u]
        BY <1>1, <1>4, <2>2
      <3> QED
        BY <1>2, <1>3, <3>1 DEF TokenOK
    <2> QED
      BY <2>1, <2>2
  <1> QED
    BY <1>2, <1>3, <1>5, <1>6, <1>7 DEF KeysInv, PubOK, Kept

\* Time.
LEMMA KeysTickKeeps ==
  ASSUME KeysInv, KeysTick
  PROVE  KeysInv'
  <1>1. KeyTypes
    BY DEF KeysInv
  <1>2. /\ kNow < MaxNow /\ kNow' = kNow + 1 /\ UNCHANGED <<iss, held, fetch, attempt, due, token, failures>>
        /\ \A w \in Fetchers : fetch[w].on => kNow < fetch[w].since + FetchTime
        /\ \A v \in Verifications : token[v].pc \in {"none", "wait"}
    BY DEF KeysTick
  <1>3. KeyTypes'
    BY <1>1, <1>2, KeyParts, KeyConstants DEF KeyTypes
  <1>4. \A k \in Signers : PubOK(k)'
    BY <1>1, <1>2, KeyParts DEF KeysInv, PubOK
  <1>5. ASSUME NEW w \in Fetchers PROVE FetchOK(w)'
    <2>1. FetchOK(w) /\ fetch[w].since \in Nat /\ kNow \in Nat
      BY <1>1, KeyParts DEF KeysInv
    <2>2. fetch[w].on => kNow' =< fetch[w].since + FetchTime /\ fetch[w].since =< kNow'
      BY <1>2, <2>1, KeyConstants DEF FetchOK
    <2>3. Covers(fetch[w].set, fetch[w].since) => Covers(fetch[w].set, fetch[w].since)'
      BY <1>2 DEF Covers
    <2>4. Kept(fetch[w].set, fetch[w].since) => Kept(fetch[w].set, fetch[w].since)'
      BY <1>2 DEF Kept
    <2> QED
      BY <1>2, <2>1, <2>2, <2>3, <2>4 DEF FetchOK
  <1>6. /\ held'.at =< kNow' /\ due' =< kNow' + RefreshEvery /\ (attempt' = Never \/ attempt' =< kNow')
    BY <1>1, <1>2, KeyParts, KeyConstants DEF KeysInv, KeyTypes
  <1>7. attempt' # Never /\ failures' = 0 => Pending' \/ Covers(held.set, attempt)'
    BY <1>2 DEF KeysInv, Pending, Covers
  <1>8. \A v \in Verifications : TokenOK(token[v])'
    BY <1>2 DEF KeysInv, TokenOK
  <1> QED
    BY <1>2, <1>3, <1>4, <1>5, <1>6, <1>7, <1>8 DEF KeysInv, Kept

\* The invariant holds at the start.
LEMMA KeysStart ==
  ASSUME KeysInit
  PROVE  KeysInv
  <1>1. /\ kNow = 0 /\ attempt = Never /\ due = 0 /\ failures = 0
        /\ iss = [set |-> 1, since |-> [k \in Signers |-> IF k \in Published[1] THEN 0 ELSE Never],
                  gone |-> [k \in Signers |-> Never]]
        /\ held = [set |-> 0, at |-> 0] /\ fetch = [w \in Fetchers |-> NoFetch]
        /\ token = [v \in Verifications |-> NoToken]
    BY DEF KeysInit
  <1>2. NoFetch \in Fetch /\ ~NoFetch.on /\ NoFetch.set = 0
    BY DEF NoFetch, Fetch
  <1>3. NoToken \in Tokens /\ NoToken.pc = "none"
    BY DEF NoToken, Tokens, Labels
  <1>4. /\ iss.set = 1 /\ \A k \in Signers : iss.gone[k] = Never /\ iss.since[k] = IF k \in Published[1] THEN 0 ELSE Never
    BY <1>1
  <1>5. KeyTypes
    <2>1. PICK s : s = [k \in Signers |-> IF k \in Published[1] THEN 0 ELSE Never]
      OBVIOUS
    <2>2. PICK g : g = [k \in Signers |-> Never]
      OBVIOUS
    <2>3. s \in [Signers -> Nat] /\ g \in [Signers -> Nat]
      BY <2>1, <2>2, KeyConstants
    <2>4. iss \in [set: Sets, since: [Signers -> Nat], gone: [Signers -> Nat]]
      BY <1>1, <2>1, <2>2, <2>3, KeyConstants
    <2>5. held \in [set: Sets \cup {0}, at: Nat]
      BY <1>1
    <2>6. fetch \in [Fetchers -> Fetch] /\ token \in [Verifications -> Tokens]
      BY <1>1, <1>2, <1>3
    <2> QED
      BY <1>1, <2>4, <2>5, <2>6, KeyConstants DEF KeyTypes
  <1>6. \A k \in Signers : PubOK(k)
    BY <1>1, <1>4, KeyConstants DEF PubOK, Never
  <1>7. \A w \in Fetchers : FetchOK(w)
    BY <1>1, <1>2 DEF FetchOK
  <1>8. \A v \in Verifications : TokenOK(token[v])
    BY <1>1, <1>3 DEF TokenOK
  <1> QED
    BY <1>1, <1>4, <1>5, <1>6, <1>7, <1>8, KeyConstants DEF KeysInv

\* Every step keeps the invariant.
LEMMA KeysStep ==
  ASSUME KeysInv, [KeysNext]_keyVars
  PROVE  KeysInv'
  <1>1. CASE UNCHANGED keyVars
    BY <1>1 DEF keyVars, KeysInv, KeyTypes, PubOK, FetchOK, TokenOK, Pending, Covers, Kept
  <1>2. CASE KeysNext
    BY <1>2, VerifyKeeps, BeginKeeps, ServeKeeps, StoreKeeps, FailKeeps, PublishKeeps, KeysTickKeeps DEF KeysNext
  <1> QED
    BY <1>1, <1>2

\* What a verification's own step does.
LEMMA VerifyIs ==
  ASSUME KeysInv, NEW v \in Verifications,
         \/ \E k \in Signers, kid \in BOOLEAN : Arrive(v, k, kid)
         \/ LoadKeys(v) \/ ReloadKeys(v) \/ Select(v) \/ Answered(v)
  PROVE  /\ token[v].pc # "wait" /\ (\A u \in Verifications : u # v => token'[u] = token[u])
         /\ UNCHANGED <<kNow, iss, held, fetch, due, failures>>
         /\ \/ attempt' = attempt /\ token'[v].pc \notin {"wait", "again"}
            \/ /\ ~InCooldown /\ attempt' = kNow /\ token'[v].pc = "wait"
               /\ token'[v].next = "again" => token[v].pc = "select" /\ token'[v].ks = token[v].ks
         /\ token'[v].pc = "accepted" =>
              /\ token'[v].key = token[v].key
              /\ \/ token[v].pc = "select" /\ Selects(v, token[v].ks)
                 \/ token[v].pc = "again" /\ Selects(v, held.set)
         /\ token'[v].pc = "refused" /\ token[v].kid =>
              \/ token[v].pc = "select" /\ ~Selects(v, token[v].ks) /\ InCooldown
              \/ token[v].pc = "again" /\ ~Selects(v, held.set)
  <1>1. token \in [Verifications -> Tokens] /\ token[v] \in Tokens
    BY DEF KeysInv, KeyTypes
  <1>2. UNCHANGED <<kNow, iss, held, fetch, due, failures>> /\ token[v].pc # "wait"
    BY DEF Arrive, LoadKeys, ReloadKeys, Select, Answered
  <1>3. ASSUME NEW l, token' = TokenAt(v, l)
        PROVE  /\ token'[v].pc = l /\ token'[v].key = token[v].key
               /\ \A u \in Verifications : u # v => token'[u] = token[u]
    BY <1>1, <1>3 DEF TokenAt, Tokens
  <1>4. ASSUME NEW l, token' = LoadedAt(v, l)
        PROVE  token'[v].pc = l /\ \A u \in Verifications : u # v => token'[u] = token[u]
    BY <1>1, <1>4 DEF LoadedAt, Tokens
  <1>5. ASSUME NEW l, token' = [token EXCEPT ![v].pc = "wait", ![v].next = l]
        PROVE  /\ token'[v].pc = "wait" /\ token'[v].next = l /\ token'[v].ks = token[v].ks
               /\ \A u \in Verifications : u # v => token'[u] = token[u]
    BY <1>1, <1>5 DEF Tokens
  <1>6. ASSUME NEW t, token' = [token EXCEPT ![v] = t]
        PROVE  token'[v] = t /\ \A u \in Verifications : u # v => token'[u] = token[u]
    BY <1>1, <1>6
  <1>7. ASSUME NEW k \in Signers, NEW kid \in BOOLEAN, Arrive(v, k, kid)
        PROVE  /\ token'[v].pc = "load" /\ attempt' = attempt
               /\ \A u \in Verifications : u # v => token'[u] = token[u]
    <2>1. PICK t : t = [NoToken EXCEPT !.pc = "load", !.key = k, !.kid = kid]
      OBVIOUS
    <2>2. t.pc = "load"
      BY <2>1 DEF NoToken
    <2>3. token' = [token EXCEPT ![v] = t] /\ attempt' = attempt
      BY <1>7, <2>1 DEF Arrive
    <2> QED
      BY <1>6, <2>2, <2>3
  <1>8. CASE Answered(v)
    <2>1. NoToken.pc = "none" /\ token' = [token EXCEPT ![v] = NoToken] /\ attempt' = attempt
      BY <1>8 DEF Answered, NoToken
    <2> QED
      BY <1>2, <1>6, <2>1
  <1>9. CASE LoadKeys(v)
    <2>1. token[v].pc = "load"
      BY <1>9 DEF LoadKeys
    <2>2. \/ token' = TokenAt(v, "recheck") /\ attempt' = attempt
          \/ ~InCooldown /\ attempt' = kNow /\ token' = [token EXCEPT ![v].pc = "wait", ![v].next = "recheck"]
          \/ \E l \in {"unavailable", "select"} : token' = LoadedAt(v, l) /\ attempt' = attempt
      BY <1>9 DEF LoadKeys, OnDemand
    <2> QED
      BY <1>2, <1>3, <1>4, <1>5, <2>1, <2>2
  <1>10. CASE ReloadKeys(v)
    <2>1. \E l \in {"unavailable", "select"} : token' = LoadedAt(v, l) /\ attempt' = attempt
      BY <1>10 DEF ReloadKeys, Recheck
    <2> QED
      BY <1>2, <1>4, <2>1
  <1>11. CASE Select(v)
    <2>1. PICK s : s = IF token[v].pc = "again" THEN held.set ELSE token[v].ks
      OBVIOUS
    <2>2. token[v].pc \in {"select", "again"}
      BY <1>11 DEF Select
    <2>3. \/ /\ Selects(v, s) /\ attempt' = attempt
             /\ \E claims \in {"accepted", "denied"} : token' = TokenAt(v, claims)
          \/ /\ ~Selects(v, s) /\ token[v].kid /\ token[v].pc = "select" /\ InCooldown
             /\ token' = TokenAt(v, "refused") /\ attempt' = attempt
          \/ /\ ~Selects(v, s) /\ token[v].kid /\ token[v].pc = "select" /\ ~InCooldown
             /\ attempt' = kNow /\ token' = [token EXCEPT ![v].pc = "wait", ![v].next = "again"]
          \/ /\ ~Selects(v, s) /\ ~(token[v].kid /\ token[v].pc = "select")
             /\ token' = TokenAt(v, "refused") /\ attempt' = attempt
      BY <1>11, <2>1 DEF Select, OnDemand
    <2>4. CASE /\ Selects(v, s) /\ attempt' = attempt
               /\ \E claims \in {"accepted", "denied"} : token' = TokenAt(v, claims)
      BY <1>2, <1>3, <2>1, <2>2, <2>4
    <2>5. CASE /\ ~Selects(v, s) /\ token[v].kid /\ token[v].pc = "select" /\ InCooldown
               /\ token' = TokenAt(v, "refused") /\ attempt' = attempt
      BY <1>2, <1>3, <2>1, <2>5
    <2>6. CASE /\ ~Selects(v, s) /\ token[v].kid /\ token[v].pc = "select" /\ ~InCooldown
               /\ attempt' = kNow /\ token' = [token EXCEPT ![v].pc = "wait", ![v].next = "again"]
      BY <1>2, <1>5, <2>6
    <2>7. CASE /\ ~Selects(v, s) /\ ~(token[v].kid /\ token[v].pc = "select")
               /\ token' = TokenAt(v, "refused") /\ attempt' = attempt
      BY <1>2, <1>3, <2>1, <2>2, <2>7
    <2> QED
      BY <2>3, <2>4, <2>5, <2>6, <2>7
  <1> QED
    BY <1>2, <1>7, <1>8, <1>9, <1>10, <1>11

\* A key published long enough is not refused.
LEMMA FoundInTime ==
  ASSUME KeysInv, [KeysNext]_keyVars
  PROVE  PublishedIsFound
  <1>1. KeyTypes /\ kNow \in Nat /\ kNow < Never /\ attempt \in Nat /\ RefreshMin \in Nat /\ FetchTime \in Nat
    BY KeyParts, KeyConstants DEF KeysInv, KeyTypes
  <1>2. SUFFICES ASSUME NEW v \in Verifications, token[v].pc # "refused", token'[v].pc = "refused",
                        token[v].kid, failures = 0, ~Fetching,
                        \A u \in Verifications : token[u].pc # "wait",
                        ~(token[v].pc = "select" /\ token[v].ks # held.set),
                        iss.gone[token[v].key] = Never
                 PROVE  kNow =< iss.since[token[v].key] + RefreshMin + FetchTime
    BY DEF PublishedIsFound
  <1>3. TokenOK(token[v]) /\ token[v] \in Tokens
    BY <1>1, KeyParts DEF KeysInv
  <1>4. \/ token[v].pc = "select" /\ ~Selects(v, token[v].ks) /\ InCooldown
        \/ token[v].pc = "again" /\ ~Selects(v, held.set)
    <2>1. CASE UNCHANGED token
      BY <1>2, <2>1
    <2>2. ASSUME NEW u \in Verifications,
                 \/ \E k \in Signers, kid \in BOOLEAN : Arrive(u, k, kid)
                 \/ LoadKeys(u) \/ ReloadKeys(u) \/ Select(u) \/ Answered(u)
          PROVE  \/ token[v].pc = "select" /\ ~Selects(v, token[v].ks) /\ InCooldown
                 \/ token[v].pc = "again" /\ ~Selects(v, held.set)
      <3>1. u = v
        BY <1>2, <2>2, VerifyIs
      <3> QED
        BY <1>2, <2>2, <3>1, VerifyIs
    <2>3. ASSUME NEW w \in Fetchers, FetchStored(w) \/ FetchFails(w) PROVE FALSE
      <3>1. ~fetch[w].on /\ FetchOK(w)
        BY <1>2 DEF Fetching, KeysInv
      <3> QED
        BY <2>3, <3>1 DEF FetchStored, FetchFails, FetchOK
    <2>4. CASE TimerFires \/ KeysTick \/ Publishes
      BY <2>1, <2>4 DEF TimerFires, KeysTick, Publishes
    <2>5. ASSUME NEW w \in Fetchers, FetchServed(w) PROVE UNCHANGED token
      BY <2>5 DEF FetchServed
    <2>6. ASSUME NEW u \in Verifications, OnDemandFetch(u) PROVE UNCHANGED token
      BY <2>6 DEF OnDemandFetch
    <2>7. CASE UNCHANGED keyVars
      BY <2>1, <2>7 DEF keyVars
    <2> QED
      BY <2>1, <2>2, <2>3, <2>4, <2>5, <2>6, <2>7 DEF KeysNext
  <1>5. PICK k \in Signers : k = token[v].key
    BY <1>3, <1>4 DEF TokenOK
  <1>6. k \notin Published[held.set] /\ held.set \in Sets /\ held.set \in Nat /\ held.set =< iss.set
    <2>1. held.set # 0 /\ held.set \in Sets \cup {0} /\ held.set \in Nat /\ held.set =< iss.set
      BY <1>1, <1>3, <1>4, KeyParts DEF TokenOK, KeysInv
    <2> QED
      BY <1>2, <1>4, <1>5, <2>1 DEF Selects
  <1>7. iss.since[k] \in Nat /\ iss.gone[k] = Never
    BY <1>1, <1>2, <1>5, KeyParts
  <1>8. ASSUME NEW t \in Int, Covers(held.set, t) PROVE t =< iss.since[k]
    <2>1. ~(iss.since[k] < t)
      <3>1. held.set =< held.set
        BY <1>6
      <3> QED
        BY <1>6, <1>7, <1>8, <3>1 DEF Covers
    <2> QED
      BY <1>7, <1>8, <2>1
  <1>9. CASE token[v].pc = "select" /\ InCooldown
    <2>1. attempt # Never /\ kNow - attempt < RefreshMin
      BY <1>9 DEF InCooldown
    <2>2. ~Pending
      BY <1>2 DEF Pending
    <2>3. Covers(held.set, attempt)
      BY <1>2, <2>1, <2>2 DEF KeysInv
    <2>4. attempt =< iss.since[k]
      BY <1>1, <1>8, <2>3
    <2> QED
      BY <1>1, <1>5, <1>7, <2>1, <2>4
  <1>10. CASE token[v].pc = "again"
    <2>1. Covers(held.set, kNow - FetchTime)
      BY <1>2, <1>3, <1>10 DEF TokenOK
    <2>2. kNow - FetchTime =< iss.since[k]
      BY <1>1, <1>8, <2>1
    <2> QED
      BY <1>1, <1>5, <1>7, <2>2
  <1> QED
    BY <1>4, <1>9, <1>10

\* The copy of the issuer's keys only moves forward, and a token whose key has
\* been published for a cooldown and a fetch is not refused for want of it, as
\* long as no fetch failed (jwksCache.Refresh, refreshOnDemand, verify).
THEOREM CopyFollows == KeysSpec => CopyFollowsTheIssuer
  <1>1. KeysInit => KeysInv
    BY KeysStart
  <1>2. KeysInv /\ [KeysNext]_keyVars => KeysInv'
    BY KeysStep
  <1>3. KeysInv /\ [KeysNext]_keyVars => [NeverBack /\ PublishedIsFound]_keyVars
    <2> SUFFICES ASSUME KeysInv, [KeysNext]_keyVars PROVE NeverBack /\ PublishedIsFound
      OBVIOUS
    <2>1. held.set \in Nat
      BY KeyParts DEF KeysInv
    <2>2. ASSUME held' = held PROVE NeverBack
      BY <2>1, <2>2 DEF NeverBack
    <2>3. ASSUME NEW w \in Fetchers, FetchStored(w) PROVE held'.set >= held.set
      <3>1. FetchOK(w) /\ fetch[w].set \in Nat
        BY KeyParts DEF KeysInv
      <3>2. fetch[w].set # 0 /\ held'.set = fetch[w].set
        BY <2>3 DEF FetchStored
      <3>3. held.set =< fetch[w].set
        BY <3>1, <3>2 DEF FetchOK
      <3> QED
        BY <2>1, <3>1, <3>2, <3>3
    <2>4. NeverBack
      <3>1. ASSUME NEW v \in Verifications,
                   \/ \E k \in Signers, kid \in BOOLEAN : Arrive(v, k, kid)
                   \/ LoadKeys(v) \/ ReloadKeys(v) \/ Select(v) \/ Answered(v) \/ OnDemandFetch(v)
            PROVE  held' = held
        BY <3>1 DEF Arrive, LoadKeys, ReloadKeys, Select, Answered, OnDemandFetch
      <3>2. ASSUME NEW w \in Fetchers, FetchServed(w) \/ FetchFails(w) PROVE held' = held
        BY <3>2 DEF FetchServed, FetchFails
      <3>3. ASSUME TimerFires \/ Publishes \/ KeysTick \/ UNCHANGED keyVars PROVE held' = held
        BY <3>3 DEF TimerFires, Publishes, KeysTick, keyVars
      <3> QED
        BY <2>2, <2>3, <3>1, <3>2, <3>3 DEF KeysNext, NeverBack
    <2> QED
      BY <2>4, FoundInTime
  <1> QED
    BY <1>1, <1>2, <1>3, PTL DEF KeysSpec, CopyFollowsTheIssuer

-----------------------------------------------------------------------------
(* How late a withdrawn key is accepted.  With the cooldown longer than    *)
(* two fetches, a verification that waits for its refresh is within the    *)
(* cooldown, so no other one joins it, and the set it looks at again is at *)
(* most three fetches old.                                                 *)

\* A verification that waits for its turn is within the cooldown.
LEMMA WaiterInCooldown ==
  ASSUME KeysInv, RefreshMin > 2 * FetchTime, NEW v \in Verifications, WaitsItsTurn(v),
         token[v].pc = "wait", ~fetch[v].on
  PROVE  /\ attempt # Never /\ attempt \in Nat /\ attempt =< kNow /\ kNow =< attempt + 2 * FetchTime
         /\ InCooldown
  <1>1. /\ kNow \in Nat /\ attempt \in Nat /\ due \in Nat /\ FetchTime \in Nat /\ RefreshEvery \in Nat
        /\ RefreshMin \in Nat
    BY KeyParts, KeyConstants DEF KeysInv, KeyTypes
  <1>2. attempt # Never /\ attempt =< kNow
    BY DEF KeysInv, TokenOK
  <1>3. kNow =< attempt + 2 * FetchTime
    BY <1>1 DEF WaitsItsTurn
  <1> QED
    BY <1>1, <1>2, <1>3 DEF InCooldown

\* The timer's fetch begins.
LEMMA WaitTimer ==
  ASSUME KeysInv, WaitInv, TimerFires
  PROVE  WaitInv'
  <1>1. /\ kNow \in Nat /\ attempt \in Nat /\ due \in Nat /\ FetchTime \in Nat \ {0} /\ RefreshEvery \in Nat
        /\ RefreshEvery >= 3 * FetchTime /\ fetch \in [Fetchers -> Fetch] /\ Timer \in Fetchers
    BY KeyParts, KeyConstants DEF KeysInv, KeyTypes
  <1>2. /\ due =< kNow /\ due' = kNow + RefreshEvery /\ UNCHANGED <<kNow, iss, held, attempt, token>>
        /\ fetch' = [fetch EXCEPT ![Timer] = [on |-> TRUE, set |-> 0, since |-> kNow]]
        /\ \A w \in Fetchers : ~fetch[w].on
    BY DEF TimerFires, RefreshBegins, LockFetch, Fetching
  <1>3. \A w \in Fetchers : fetch'[w].on => fetch'[w].since = kNow
    BY <1>1, <1>2
  <1> SUFFICES ASSUME NEW v \in Verifications
               PROVE  (WaitsItsTurn(v) /\ ItsOwnFetch(v) /\ LooksAgain(v) /\ AcceptedInTime(v))'
    BY DEF WaitInv
  <1>4. v # Timer /\ \A u \in Verifications : fetch'[u] = fetch[u]
    BY <1>1, <1>2, KeyConstants
  <1>5. (ItsOwnFetch(v) /\ LooksAgain(v) /\ AcceptedInTime(v))'
    BY <1>2, <1>4 DEF WaitInv, ItsOwnFetch, LooksAgain, AcceptedInTime
  <1>6. WaitsItsTurn(v)'
    <2> SUFFICES ASSUME token[v].pc = "wait", ~fetch[v].on PROVE WaitsItsTurn(v)'
      BY <1>2, <1>4 DEF WaitsItsTurn
    <2>1. WaitsItsTurn(v)
      BY DEF WaitInv
    <2>2. due =< attempt + RefreshEvery /\ kNow =< attempt + FetchTime
      BY <1>1, <1>2, <2>1 DEF WaitsItsTurn
    <2>3. /\ due' =< attempt' + RefreshEvery + FetchTime /\ kNow' =< attempt' + FetchTime
          /\ kNow' + RefreshEvery =< due' + FetchTime
      BY <1>1, <1>2, <2>2
    <2>4. \A w \in Fetchers : fetch'[w].on =>
             /\ fetch'[w].since + RefreshEvery =< due'
             /\ due' =< attempt' + RefreshEvery => fetch'[w].since =< attempt'
      BY <1>1, <1>2, <1>3
    <2>5. /\ \A u \in Verifications : u # v /\ token'[u].pc = "wait" => fetch'[u].on
          /\ token'[v].next = "again" => token'[v].ks = held'.set \/ held'.at >= attempt'
      BY <1>2, <1>4, <2>1 DEF WaitsItsTurn
    <2> QED
      BY <2>3, <2>4, <2>5 DEF WaitsItsTurn
  <1> QED
    BY <1>5, <1>6

\* A verification's own fetch begins: it was the only one to wait.
LEMMA WaitFetch ==
  ASSUME KeysInv, WaitInv, RefreshMin > 2 * FetchTime, NEW x \in Verifications, OnDemandFetch(x)
  PROVE  WaitInv'
  <1>1. /\ kNow \in Nat /\ FetchTime \in Nat /\ held.at \in Nat /\ fetch \in [Fetchers -> Fetch] /\ x \in Fetchers
    BY KeyParts, KeyConstants DEF KeysInv, KeyTypes
  <1>2. /\ token[x].pc = "wait" /\ UNCHANGED <<kNow, iss, held, attempt, due, token>>
        /\ fetch' = [fetch EXCEPT ![x] = [on |-> TRUE, set |-> 0, since |-> kNow]]
        /\ \A w \in Fetchers : ~fetch[w].on
    BY DEF OnDemandFetch, RefreshBegins, LockFetch, Fetching
  <1> SUFFICES ASSUME NEW v \in Verifications
               PROVE  (WaitsItsTurn(v) /\ ItsOwnFetch(v) /\ LooksAgain(v) /\ AcceptedInTime(v))'
    BY DEF WaitInv
  <1>3. (LooksAgain(v) /\ AcceptedInTime(v))'
    BY <1>2 DEF WaitInv, LooksAgain, AcceptedInTime
  <1>4. WaitsItsTurn(v) /\ v \in Fetchers
    BY KeyConstants DEF WaitInv
  <1>5. CASE v = x
    <2>1. fetch'[v].on /\ fetch'[v].since = kNow
      BY <1>1, <1>2, <1>5
    <2>2. attempt \in Nat /\ kNow =< attempt + 2 * FetchTime
      BY <1>2, <1>4, <1>5, WaiterInCooldown
    <2>3. token[v].next = "again" => token[v].ks = held.set \/ held.at >= attempt
      BY <1>2, <1>4, <1>5 DEF WaitsItsTurn
    <2>4. ItsOwnFetch(v)'
      BY <1>1, <1>2, <2>1, <2>2, <2>3 DEF ItsOwnFetch
    <2> QED
      BY <1>3, <2>1, <2>4 DEF WaitsItsTurn
  <1>6. CASE v # x
    <2>1. fetch'[v] = fetch[v] /\ ~fetch[v].on
      BY <1>1, <1>2, <1>4, <1>6
    <2>2. token[v].pc # "wait"
      BY <1>1, <1>2, <1>4, <1>6 DEF WaitsItsTurn
    <2> QED
      BY <1>2, <1>3, <2>1, <2>2 DEF WaitsItsTurn, ItsOwnFetch
  <1> QED
    BY <1>5, <1>6

\* The issuer's answer moves no time.
LEMMA WaitServed ==
  ASSUME KeysInv, WaitInv, NEW x \in Fetchers, FetchServed(x)
  PROVE  WaitInv'
  <1>1. /\ fetch \in [Fetchers -> Fetch] /\ UNCHANGED <<kNow, iss, held, attempt, due, token>>
        /\ fetch' = [fetch EXCEPT ![x].set = iss.set] /\ Verifications \subseteq Fetchers
    BY KeyConstants DEF KeysInv, KeyTypes, FetchServed
  <1>2. \A w \in Fetchers : fetch'[w].on = fetch[w].on /\ fetch'[w].since = fetch[w].since
    BY <1>1 DEF Fetch
  <1> SUFFICES ASSUME NEW v \in Verifications
               PROVE  (WaitsItsTurn(v) /\ ItsOwnFetch(v) /\ LooksAgain(v) /\ AcceptedInTime(v))'
    BY DEF WaitInv
  <1>3. WaitsItsTurn(v) /\ ItsOwnFetch(v) /\ LooksAgain(v) /\ AcceptedInTime(v) /\ v \in Fetchers
    BY <1>1 DEF WaitInv
  <1>4. WaitsItsTurn(v)'
    BY <1>1, <1>2, <1>3 DEF WaitsItsTurn
  <1> QED
    BY <1>1, <1>2, <1>3, <1>4 DEF ItsOwnFetch, LooksAgain, AcceptedInTime

\* A fetch is over: the one it was for looks again, and every other one that
\* waits is still in its turn.
LEMMA WaitReturn ==
  ASSUME KeysInv, WaitInv, NEW x \in Fetchers, FetchStored(x) \/ FetchFails(x)
  PROVE  WaitInv'
  <1>1. /\ kNow \in Nat /\ FetchTime \in Nat /\ held.at \in Nat /\ attempt \in Nat
        /\ Verifications \subseteq Fetchers /\ FetchOK(x) /\ fetch[x].since \in Nat
    BY KeyParts, KeyConstants DEF KeysInv, KeyTypes
  <1>2. fetch[x].on /\ RefreshReturns(x) /\ UNCHANGED <<kNow, iss, attempt>>
    BY <1>1 DEF FetchStored, FetchFails, FetchOK
  <1>3. \/ held'.at = kNow /\ due' = due
        \/ held' = held /\ (held.set # 0 => due' = due)
    BY DEF FetchStored, FetchFails
  <1>4. /\ \A w \in Fetchers : ~fetch'[w].on
        /\ \A u \in Verifications : u # x => token'[u] = token[u]
        /\ x # Timer => /\ x \in Verifications /\ token[x].pc = "wait"
                        /\ token'[x].pc = token[x].next /\ token'[x].pc \in {"recheck", "again"}
                        /\ token'[x].ks = token[x].ks
    BY <1>2, ReturnIs
  <1>5. \A w \in Fetchers : fetch[w].on => w = x
    BY <1>1, <1>2 DEF FetchOK
  <1> SUFFICES ASSUME NEW v \in Verifications
               PROVE  (WaitsItsTurn(v) /\ ItsOwnFetch(v) /\ LooksAgain(v) /\ AcceptedInTime(v))'
    BY DEF WaitInv
  <1>6. v \in Fetchers /\ v # Timer /\ WaitsItsTurn(v) /\ ItsOwnFetch(v) /\ LooksAgain(v) /\ AcceptedInTime(v)
    BY KeyConstants DEF WaitInv
  <1>7. ItsOwnFetch(v)'
    BY <1>4, <1>6 DEF ItsOwnFetch
  <1>8. CASE v = x
    <2>1. token'[v].pc \in {"recheck", "again"} /\ token'[v].pc = token[v].next /\ token'[v].ks = token[v].ks
      BY <1>4, <1>6, <1>8
    <2>2. WaitsItsTurn(v)' /\ AcceptedInTime(v)'
      BY <2>1 DEF WaitsItsTurn, AcceptedInTime
    <2>3. LooksAgain(v)'
      <3> SUFFICES ASSUME token[v].next = "again"
                   PROVE  token[v].ks = held'.set \/ held'.at + 3 * FetchTime >= kNow
        BY <1>2, <2>1 DEF LooksAgain
      <3>1. kNow =< fetch[x].since + FetchTime
        BY <1>1, <1>2 DEF FetchOK
      <3>2. token[v].ks = held.set \/ held.at + 2 * FetchTime >= fetch[x].since
        BY <1>2, <1>4, <1>6, <1>8 DEF ItsOwnFetch
      <3>3. CASE held'.at = kNow
        BY <1>1, <3>3
      <3>4. CASE held' = held
        BY <1>1, <3>1, <3>2, <3>4
      <3> QED
        BY <1>3, <3>3, <3>4
    <2> QED
      BY <1>7, <2>2, <2>3
  <1>9. CASE v # x
    <2>1. token'[v] = token[v] /\ ~fetch[v].on
      BY <1>4, <1>5, <1>6, <1>9
    <2>2. AcceptedInTime(v)'
      BY <1>2, <1>6, <2>1 DEF AcceptedInTime
    <2>3. LooksAgain(v)'
      <3>1. CASE held'.at = kNow
        BY <1>1, <1>2, <3>1 DEF LooksAgain
      <3>2. CASE held' = held
        BY <1>2, <1>6, <2>1, <3>2 DEF LooksAgain
      <3> QED
        BY <1>3, <3>1, <3>2
    <2>4. WaitsItsTurn(v)'
      <3> SUFFICES ASSUME token[v].pc = "wait" PROVE WaitsItsTurn(v)'
        BY <2>1 DEF WaitsItsTurn
      <3>1. held.set # 0 /\ attempt # Never /\ attempt =< kNow
        BY DEF KeysInv, TokenOK
      <3>2. \A u \in Verifications : u # v => token'[u].pc # "wait"
        <4> SUFFICES ASSUME NEW u \in Verifications, u # v, token'[u].pc = "wait" PROVE FALSE
          OBVIOUS
        <4>1. u # x
          <5>1. CASE u = x
            <6>1. x # Timer
              BY <5>1, KeyConstants
            <6> QED
              BY <1>4, <5>1, <6>1
          <5> QED
            BY <5>1
        <4>2. fetch[u].on
          BY <1>4, <1>6, <2>1, <4>1 DEF WaitsItsTurn
        <4> QED
          BY <1>1, <1>5, <4>1, <4>2
      <3>3. due' = due
        BY <1>3, <3>1
      <3>4. token[v].next = "again" => token[v].ks = held'.set \/ held'.at >= attempt
        <4>1. CASE held'.at = kNow
          BY <1>1, <3>1, <4>1
        <4>2. CASE held' = held
          BY <1>6, <2>1, <4>2 DEF WaitsItsTurn
        <4> QED
          BY <1>3, <4>1, <4>2
      <3>5. /\ due =< attempt + RefreshEvery + FetchTime
            /\ IF due =< attempt + RefreshEvery THEN kNow =< attempt + FetchTime
                                                ELSE kNow + RefreshEvery =< due + FetchTime
        BY <1>6, <2>1 DEF WaitsItsTurn
      <3> QED
        BY <1>2, <1>4, <2>1, <3>2, <3>3, <3>4, <3>5 DEF WaitsItsTurn
    <2> QED
      BY <1>7, <2>2, <2>3, <2>4
  <1> QED
    BY <1>8, <1>9

\* Time passes only while every waiting one waits for a fetch.
LEMMA WaitTick ==
  ASSUME KeysInv, WaitInv, KeysTick
  PROVE  WaitInv'
  <1>1. /\ kNow \in Nat /\ FetchTime \in Nat /\ attempt \in Nat /\ due \in Nat /\ RefreshEvery \in Nat
        /\ \A w \in Fetchers : fetch[w].since \in Nat
    BY KeyParts, KeyConstants DEF KeysInv, KeyTypes
  <1>2. /\ kNow' = kNow + 1 /\ UNCHANGED <<iss, held, fetch, attempt, due, token, failures>>
        /\ \A w \in Fetchers : fetch[w].on => kNow < fetch[w].since + FetchTime
        /\ \A v \in Verifications : token[v].pc = "none" \/ (token[v].pc = "wait" /\ Fetching)
    BY DEF KeysTick
  <1> SUFFICES ASSUME NEW v \in Verifications
               PROVE  (WaitsItsTurn(v) /\ ItsOwnFetch(v) /\ LooksAgain(v) /\ AcceptedInTime(v))'
    BY DEF WaitInv
  <1>3. WaitsItsTurn(v) /\ ItsOwnFetch(v)
    BY DEF WaitInv
  <1>4. (ItsOwnFetch(v) /\ LooksAgain(v) /\ AcceptedInTime(v))'
    BY <1>2, <1>3 DEF ItsOwnFetch, LooksAgain, AcceptedInTime
  <1>5. WaitsItsTurn(v)'
    <2> SUFFICES ASSUME token[v].pc = "wait", ~fetch[v].on PROVE WaitsItsTurn(v)'
      BY <1>2 DEF WaitsItsTurn
    <2>1. PICK w \in Fetchers : fetch[w].on
      BY <1>2 DEF Fetching
    <2>2. fetch[w].since \in Nat /\ kNow < fetch[w].since + FetchTime
      BY <1>1, <1>2, <2>1
    <2>3. CASE due =< attempt + RefreshEvery
      <3>1. fetch[w].since =< attempt
        BY <1>3, <2>1, <2>3 DEF WaitsItsTurn
      <3>2. kNow' =< attempt + FetchTime
        BY <1>1, <1>2, <2>2, <3>1
      <3> QED
        BY <1>2, <1>3, <2>3, <3>2 DEF WaitsItsTurn
    <2>4. CASE ~(due =< attempt + RefreshEvery)
      <3>1. fetch[w].since + RefreshEvery =< due
        BY <1>3, <2>1, <2>4 DEF WaitsItsTurn
      <3>2. kNow' + RefreshEvery =< due + FetchTime
        BY <1>1, <1>2, <2>2, <3>1
      <3> QED
        BY <1>2, <1>3, <2>4, <3>2 DEF WaitsItsTurn
    <2> QED
      BY <2>3, <2>4
  <1> QED
    BY <1>4, <1>5

\* A key set is published: a key that is withdrawn is withdrawn now.
LEMMA WaitPublish ==
  ASSUME KeysInv, WaitInv, Publishes
  PROVE  WaitInv'
  <1>1. /\ kNow \in Nat /\ FetchTime \in Nat /\ MaxStale \in Nat
        /\ UNCHANGED <<kNow, held, fetch, attempt, due, token>>
    BY KeyParts, KeyConstants DEF KeysInv, KeyTypes, Publishes
  <1>2. \A k \in Signers : iss'.gone[k] \in {Never, kNow, iss.gone[k]}
    BY DEF Publishes
  <1> SUFFICES ASSUME NEW v \in Verifications
               PROVE  (WaitsItsTurn(v) /\ ItsOwnFetch(v) /\ LooksAgain(v) /\ AcceptedInTime(v))'
    BY DEF WaitInv
  <1>3. WaitsItsTurn(v) /\ ItsOwnFetch(v) /\ LooksAgain(v) /\ AcceptedInTime(v)
    BY DEF WaitInv
  <1>4. (WaitsItsTurn(v) /\ ItsOwnFetch(v) /\ LooksAgain(v))'
    BY <1>1, <1>3 DEF WaitsItsTurn, ItsOwnFetch, LooksAgain
  <1>5. AcceptedInTime(v)'
    <2> SUFFICES ASSUME token[v].pc = "accepted" PROVE AcceptedInTime(v)'
      BY <1>1 DEF AcceptedInTime
    <2>1. PICK k \in Signers : k = token[v].key
      BY DEF KeysInv, TokenOK
    <2>2. iss.gone[k] = Never \/ kNow =< iss.gone[k] + MaxStale + FetchTime
      BY <1>3, <2>1 DEF AcceptedInTime
    <2>3. iss'.gone[k] = Never \/ kNow =< iss'.gone[k] + MaxStale + FetchTime
      BY <1>1, <1>2, <2>2
    <2> QED
      BY <1>1, <2>1, <2>3 DEF AcceptedInTime
  <1> QED
    BY <1>4, <1>5

\* What a verification accepts, it accepts on a set fetched recently enough.
LEMMA AcceptsInTime ==
  ASSUME KeysInv, NEW v \in Verifications, LooksAgain(v), NEW k, k = token[v].key,
         \/ token[v].pc = "select" /\ Selects(v, token[v].ks)
         \/ token[v].pc = "again" /\ Selects(v, held.set)
  PROVE  iss.gone[k] = Never \/ kNow =< iss.gone[k] + MaxStale + FetchTime
  <1>1. KeyTypes /\ TokenOK(token[v]) /\ (held.set # 0 => Kept(held.set, held.at - FetchTime))
    BY DEF KeysInv
  <1>2. CASE token[v].pc = "select" /\ Selects(v, token[v].ks)
    <2>1. k \in Published[token[v].ks]
      BY <1>2 DEF Selects
    <2> QED
      BY <1>1, <1>2, <2>1 DEF TokenOK
  <1>3. CASE token[v].pc = "again" /\ Selects(v, held.set)
    <2>1. k \in Published[held.set] /\ k \notin Published[token[v].ks] /\ held.set # 0
      BY <1>1, <1>3 DEF Selects, TokenOK
    <2>2. held.at + 3 * FetchTime >= kNow
      BY <1>3, <2>1 DEF LooksAgain
    <2>3. iss.gone[k] = Never \/ iss.gone[k] >= held.at - FetchTime
      BY <1>1, <2>1 DEF Kept
    <2>4. k \in Signers
      BY <1>1, <2>1, KeyParts, KeyConstants
    <2>5. /\ iss.gone[k] \in Nat /\ kNow \in Nat /\ held.at \in Nat /\ FetchTime \in Nat /\ MaxStale \in Nat
          /\ MaxStale >= 3 * FetchTime
      <3>1. RefreshEvery \in Nat /\ MaxStale \in Nat /\ FetchTime \in Nat /\ MaxStale >= RefreshEvery
            /\ RefreshEvery >= 3 * FetchTime
        BY KeyConstants
      <3>2. MaxStale >= 3 * FetchTime
        BY <3>1
      <3> QED
        BY <1>1, <2>4, <3>1, <3>2, KeyParts
    <2> QED
      BY <2>2, <2>3, <2>5
  <1> QED
    BY <1>2, <1>3

\* A verification's own step: it asks for a refresh only out of the cooldown,
\* when no other one waits for its turn.
LEMMA WaitVerify ==
  ASSUME KeysInv, WaitInv, RefreshMin > 2 * FetchTime, NEW x \in Verifications,
         \/ \E k \in Signers, kid \in BOOLEAN : Arrive(x, k, kid)
         \/ LoadKeys(x) \/ ReloadKeys(x) \/ Select(x) \/ Answered(x)
  PROVE  WaitInv'
  <1>1. /\ kNow \in Nat /\ FetchTime \in Nat /\ RefreshEvery \in Nat /\ due \in Nat /\ held.at \in Nat
        /\ KeyTypes /\ Verifications \subseteq Fetchers
    BY KeyParts, KeyConstants DEF KeysInv, KeyTypes
  <1>2. /\ token[x].pc # "wait" /\ (\A u \in Verifications : u # x => token'[u] = token[u])
        /\ UNCHANGED <<kNow, iss, held, fetch, due, failures>>
        /\ \/ attempt' = attempt /\ token'[x].pc \notin {"wait", "again"}
           \/ /\ ~InCooldown /\ attempt' = kNow /\ token'[x].pc = "wait"
              /\ token'[x].next = "again" => token[x].pc = "select" /\ token'[x].ks = token[x].ks
        /\ token'[x].pc = "accepted" =>
             /\ token'[x].key = token[x].key
             /\ \/ token[x].pc = "select" /\ Selects(x, token[x].ks)
                \/ token[x].pc = "again" /\ Selects(x, held.set)
    BY VerifyIs
  <1>3. ~fetch[x].on /\ \A w \in Fetchers : fetch[w].on => fetch[w].since =< kNow
    <2>1. x \in Fetchers /\ x # Timer /\ FetchOK(x) /\ \A w \in Fetchers : FetchOK(w)
      BY KeyConstants DEF KeysInv
    <2>2. \A w \in Fetchers : fetch[w].on => fetch[w].since =< kNow
      BY <2>1 DEF FetchOK
    <2> QED
      BY <1>2, <2>1, <2>2 DEF FetchOK
  <1> SUFFICES ASSUME NEW v \in Verifications
               PROVE  (WaitsItsTurn(v) /\ ItsOwnFetch(v) /\ LooksAgain(v) /\ AcceptedInTime(v))'
    BY DEF WaitInv
  <1>4. WaitsItsTurn(v) /\ ItsOwnFetch(v) /\ LooksAgain(v) /\ AcceptedInTime(v)
    BY DEF WaitInv
  <1>5. CASE v # x
    <2>1. token'[v] = token[v]
      BY <1>2, <1>5
    <2>2. (ItsOwnFetch(v) /\ LooksAgain(v) /\ AcceptedInTime(v))'
      BY <1>2, <1>4, <2>1 DEF ItsOwnFetch, LooksAgain, AcceptedInTime
    <2>3. WaitsItsTurn(v)'
      <3> SUFFICES ASSUME token[v].pc = "wait", ~fetch[v].on PROVE WaitsItsTurn(v)'
        BY <1>2, <2>1 DEF WaitsItsTurn
      <3>1. InCooldown
        BY <1>4, WaiterInCooldown
      <3>2. attempt' = attempt /\ token'[x].pc # "wait"
        BY <1>2, <3>1
      <3>3. \A u \in Verifications : u # v /\ token'[u].pc = "wait" => fetch'[u].on
        BY <1>2, <1>4, <3>2 DEF WaitsItsTurn
      <3> QED
        BY <1>2, <1>4, <2>1, <3>2, <3>3 DEF WaitsItsTurn
    <2> QED
      BY <2>2, <2>3
  <1>6. CASE v = x
    <2>1. ItsOwnFetch(v)' /\ LooksAgain(v)'
      BY <1>2, <1>3, <1>6 DEF ItsOwnFetch, LooksAgain
    <2>2. AcceptedInTime(v)'
      <3> SUFFICES ASSUME token'[v].pc = "accepted" PROVE AcceptedInTime(v)'
        BY DEF AcceptedInTime
      <3>1. PICK k : k = token[v].key
        OBVIOUS
      <3>2. iss.gone[k] = Never \/ kNow =< iss.gone[k] + MaxStale + FetchTime
        BY <1>2, <1>4, <1>6, <3>1, AcceptsInTime
      <3>3. token'[v].key = k
        BY <1>2, <1>6, <3>1
      <3> QED
        BY <1>2, <3>2, <3>3 DEF AcceptedInTime
    <2>3. WaitsItsTurn(v)'
      <3> SUFFICES ASSUME token'[v].pc = "wait" PROVE WaitsItsTurn(v)'
        BY DEF WaitsItsTurn
      <3>1. ~InCooldown /\ attempt' = kNow
        BY <1>2, <1>6
      <3>2. \A u \in Verifications : u # v /\ token'[u].pc = "wait" => fetch'[u].on
        <4> SUFFICES ASSUME NEW u \in Verifications, u # v, token'[u].pc = "wait", ~fetch[u].on PROVE FALSE
          BY <1>2
        <4>1. token[u].pc = "wait" /\ WaitsItsTurn(u)
          BY <1>2, <1>6 DEF WaitInv
        <4> QED
          BY <3>1, <4>1, WaiterInCooldown
      <3>3. token'[v].next = "again" => token'[v].ks = held'.set \/ held'.at >= attempt'
        <4> SUFFICES ASSUME token'[v].next = "again" PROVE token'[v].ks = held.set \/ held.at >= kNow
          BY <1>2, <3>1
        <4>1. token[v].pc = "select" /\ token'[v].ks = token[v].ks
          BY <1>2, <1>6
        <4>2. token[v].ks = held.set \/ held.at = kNow
          BY <4>1 DEF KeysInv, TokenOK
        <4> QED
          BY <1>1, <4>1, <4>2
      <3>4. due' =< attempt' + RefreshEvery
        BY <1>2, <3>1 DEF KeysInv
      <3>5. due' =< attempt' + RefreshEvery + FetchTime /\ kNow' =< attempt' + FetchTime
        BY <1>1, <1>2, <3>1, <3>4
      <3>6. \A w \in Fetchers : fetch'[w].on => fetch'[w].since =< attempt'
        BY <1>2, <1>3, <3>1
      <3> QED
        BY <3>2, <3>3, <3>4, <3>5, <3>6 DEF WaitsItsTurn
    <2> QED
      BY <2>1, <2>2, <2>3
  <1> QED
    BY <1>5, <1>6

\* The bound of a cooldown that outlasts two fetches.
LEMMA RefusedInTime ==
  ASSUME RefreshMin > 2 * FetchTime
  PROVE  KeysSpec => []WithdrawnIsRefused
  <1>1. KeysInit => KeysInv /\ WaitInv
    <2>1. KeysInit => WaitInv
      <3> SUFFICES ASSUME KeysInit, NEW v \in Verifications PROVE token[v].pc = "none"
        BY DEF WaitInv, WaitsItsTurn, ItsOwnFetch, LooksAgain, AcceptedInTime
      <3> QED
        BY DEF KeysInit, NoToken
    <2> QED
      BY <2>1, KeysStart
  <1>2. KeysInv /\ WaitInv /\ [KeysNext]_keyVars => KeysInv' /\ WaitInv'
    <2> SUFFICES ASSUME KeysInv, WaitInv, [KeysNext]_keyVars PROVE WaitInv'
      BY KeysStep
    <2>1. CASE TimerFires
      BY <2>1, WaitTimer
    <2>2. ASSUME NEW w \in Fetchers, FetchServed(w) PROVE WaitInv'
      BY <2>2, WaitServed
    <2>3. ASSUME NEW w \in Fetchers, FetchStored(w) \/ FetchFails(w) PROVE WaitInv'
      BY <2>3, WaitReturn
    <2>4. ASSUME NEW v \in Verifications, OnDemandFetch(v) PROVE WaitInv'
      BY <2>4, WaitFetch
    <2>5. ASSUME NEW v \in Verifications,
                 \/ \E k \in Signers, kid \in BOOLEAN : Arrive(v, k, kid)
                 \/ LoadKeys(v) \/ ReloadKeys(v) \/ Select(v) \/ Answered(v)
          PROVE  WaitInv'
      BY <2>5, WaitVerify
    <2>6. CASE Publishes
      BY <2>6, WaitPublish
    <2>7. CASE KeysTick
      BY <2>7, WaitTick
    <2>8. CASE UNCHANGED keyVars
      BY <2>8 DEF keyVars, WaitInv, WaitsItsTurn, ItsOwnFetch, LooksAgain, AcceptedInTime
    <2> QED
      BY <2>1, <2>2, <2>3, <2>4, <2>5, <2>6, <2>7, <2>8 DEF KeysNext
  <1>3. WaitInv => WithdrawnIsRefused
    BY DEF WithdrawnIsRefused, WaitInv, AcceptedInTime
  <1> QED
    BY <1>1, <1>2, <1>3, PTL DEF KeysSpec

-----------------------------------------------------------------------------
(* Any cooldown.  Between a swap of the set and a second look that finds   *)
(* the key in it, time passes only under fetches, and one that succeeds    *)
(* makes the set new again: the set is as old as the fetches that failed.  *)

\* A fetch more is a fetch longer.
LEMMA OneMoreFailure ==
  ASSUME failures \in Nat
  PROVE  /\ failures * FetchTime \in Nat /\ (failures + 1) * FetchTime \in Nat
         /\ (failures + 1) * FetchTime = failures * FetchTime + FetchTime
  <1>1. FetchTime \in Nat
    BY KeyConstants
  <1> QED
    BY <1>1

\* A fetch begins, with none under way.
LEMMA QueueBegins ==
  ASSUME KeysInv, QueueInv, NEW x \in Fetchers, RefreshBegins(x),
         UNCHANGED <<kNow, iss, held, token, failures>>
  PROVE  QueueInv'
  <1>1. /\ fetch \in [Fetchers -> Fetch] /\ \A w \in Fetchers : ~fetch[w].on
        /\ fetch' = [fetch EXCEPT ![x] = [on |-> TRUE, set |-> 0, since |-> kNow]]
    BY DEF KeysInv, KeyTypes, RefreshBegins, LockFetch, Fetching
  <1>2. (\A w \in Fetchers : fetch'[w].on => fetch'[w].since = kNow) /\ fetch'[x].on
    BY <1>1
  <1>3. Fetching' /\ ~Fetching
    BY <1>1, <1>2 DEF Fetching
  <1> SUFFICES ASSUME NEW v \in Verifications PROVE (Queued(v) /\ LooksLate(v) /\ AcceptedLate(v))'
    BY DEF QueueInv
  <1>4. Queued(v) /\ LooksLate(v) /\ AcceptedLate(v)
    BY DEF QueueInv
  <1>5. Queued(v)'
    BY <1>2, <1>3, <1>4 DEF Queued
  <1> QED
    BY <1>4, <1>5 DEF LooksLate, AcceptedLate

\* A fetch is over: the set is new, or one more has failed.
LEMMA QueueReturns ==
  ASSUME KeysInv, QueueInv, NEW x \in Fetchers, FetchStored(x) \/ FetchFails(x)
  PROVE  QueueInv'
  <1>1. /\ kNow \in Nat /\ FetchTime \in Nat /\ held.at \in Nat /\ failures \in Nat /\ MaxStale \in Nat
        /\ Verifications \subseteq Fetchers /\ FetchOK(x) /\ fetch[x].since \in Nat
        /\ failures * FetchTime \in Nat
        /\ (failures + 1) * FetchTime = failures * FetchTime + FetchTime
    BY KeyParts, KeyConstants, OneMoreFailure DEF KeysInv, KeyTypes
  <1>2. fetch[x].on /\ RefreshReturns(x) /\ UNCHANGED <<kNow, iss>>
    BY <1>1 DEF FetchStored, FetchFails, FetchOK
  <1>3. \/ held'.at = kNow /\ failures' = failures
        \/ held' = held /\ failures' = failures + 1
    BY DEF FetchStored, FetchFails
  <1>4. /\ \A w \in Fetchers : ~fetch'[w].on
        /\ \A u \in Verifications : u # x => token'[u] = token[u]
        /\ x # Timer => /\ x \in Verifications /\ token[x].pc = "wait"
                        /\ token'[x].pc = token[x].next /\ token'[x].pc \in {"recheck", "again"}
                        /\ token'[x].ks = token[x].ks
    BY <1>2, ReturnIs
  <1>5. kNow =< fetch[x].since + FetchTime
    BY <1>1, <1>2 DEF FetchOK
  <1> SUFFICES ASSUME NEW v \in Verifications PROVE (Queued(v) /\ LooksLate(v) /\ AcceptedLate(v))'
    BY DEF QueueInv
  <1>6. v \in Fetchers /\ v # Timer /\ Queued(v) /\ LooksLate(v) /\ AcceptedLate(v)
    BY KeyConstants DEF QueueInv
  <1>7. \/ token'[v] = token[v]
        \/ /\ token[v].pc = "wait" /\ token'[v].pc = token[v].next
           /\ token'[v].pc \in {"recheck", "again"} /\ token'[v].ks = token[v].ks
    BY <1>4, <1>6
  <1>8. ASSUME token[v].pc = "again" \/ (token[v].pc = "wait" /\ token[v].next = "again")
        PROVE  token[v].ks = held'.set \/ kNow =< held'.at + failures' * FetchTime
    <2>1. CASE held'.at = kNow /\ failures' = failures
      BY <1>1, <2>1
    <2>2. CASE held' = held /\ failures' = failures + 1
      <3>1. token[v].ks = held.set \/ kNow =< held.at + failures * FetchTime
            \/ fetch[x].since =< held.at + failures * FetchTime
        BY <1>2, <1>6, <1>8 DEF Queued, LooksLate
      <3>2. failures' * FetchTime = failures * FetchTime + FetchTime
        BY <1>1, <2>2
      <3>3. ASSUME NEW m \in Nat, m = failures * FetchTime,
                   kNow =< held.at + m \/ fetch[x].since =< held.at + m
            PROVE  kNow =< held.at + (m + FetchTime)
        BY <1>1, <1>5, <3>3
      <3> QED
        BY <1>1, <2>2, <3>1, <3>2, <3>3
    <2> QED
      BY <1>3, <2>1, <2>2
  <1>9. Queued(v)' /\ LooksLate(v)'
    BY <1>2, <1>4, <1>7, <1>8 DEF Queued, LooksLate
  <1>10. AcceptedLate(v)'
    <2> SUFFICES ASSUME token'[v].pc = "accepted" PROVE AcceptedLate(v)'
      BY DEF AcceptedLate
    <2>1. token'[v] = token[v] /\ token[v].pc = "accepted"
      BY <1>7
    <2>2. PICK k \in Signers : k = token[v].key
      BY <2>1 DEF KeysInv, TokenOK
    <2>3. iss.gone[k] \in Nat
      BY KeyParts DEF KeysInv
    <2>4. failures' * FetchTime \in Nat /\ failures * FetchTime =< failures' * FetchTime
      BY <1>1, <1>3
    <2>5. \/ iss.gone[k] = Never \/ kNow =< iss.gone[k] + MaxStale + FetchTime
          \/ kNow =< iss.gone[k] + FetchTime + failures * FetchTime
      BY <1>6, <2>1, <2>2 DEF AcceptedLate
    <2>6. ASSUME NEW m \in Nat, NEW n \in Nat, m =< n, kNow =< iss.gone[k] + FetchTime + m
          PROVE  kNow =< iss.gone[k] + FetchTime + n
      BY <1>1, <2>3, <2>6
    <2>7. \/ iss.gone[k] = Never \/ kNow =< iss.gone[k] + MaxStale + FetchTime
          \/ kNow =< iss.gone[k] + FetchTime + failures' * FetchTime
      BY <1>1, <2>4, <2>5, <2>6
    <2> QED
      BY <1>2, <2>1, <2>2, <2>7 DEF AcceptedLate
  <1> QED
    BY <1>9, <1>10

\* A verification's own step.
LEMMA QueueVerify ==
  ASSUME KeysInv, QueueInv, NEW x \in Verifications,
         \/ \E k \in Signers, kid \in BOOLEAN : Arrive(x, k, kid)
         \/ LoadKeys(x) \/ ReloadKeys(x) \/ Select(x) \/ Answered(x)
  PROVE  QueueInv'
  <1>1. /\ kNow \in Nat /\ FetchTime \in Nat /\ held.at \in Nat /\ MaxStale \in Nat
        /\ KeyTypes /\ failures * FetchTime \in Nat
        /\ \A w \in Fetchers : fetch[w].on => fetch[w].since \in Nat /\ fetch[w].since =< kNow
    <2>1. \A w \in Fetchers : FetchOK(w)
      BY DEF KeysInv
    <2> QED
      BY <2>1, KeyParts, KeyConstants, OneMoreFailure DEF KeysInv, KeyTypes, FetchOK
  <1>2. /\ token[x].pc # "wait" /\ (\A u \in Verifications : u # x => token'[u] = token[u])
        /\ UNCHANGED <<kNow, iss, held, fetch, due, failures>>
        /\ \/ token'[x].pc \notin {"wait", "again"}
           \/ /\ token'[x].pc = "wait"
              /\ token'[x].next = "again" => token[x].pc = "select" /\ token'[x].ks = token[x].ks
        /\ token'[x].pc = "accepted" =>
             /\ token'[x].key = token[x].key
             /\ \/ token[x].pc = "select" /\ Selects(x, token[x].ks)
                \/ token[x].pc = "again" /\ Selects(x, held.set)
    BY VerifyIs
  <1> SUFFICES ASSUME NEW v \in Verifications PROVE (Queued(v) /\ LooksLate(v) /\ AcceptedLate(v))'
    BY DEF QueueInv
  <1>3. Queued(v) /\ LooksLate(v) /\ AcceptedLate(v)
    BY DEF QueueInv
  <1>4. Fetching' = Fetching
    BY <1>2 DEF Fetching
  <1>5. CASE v # x
    BY <1>2, <1>3, <1>4, <1>5 DEF Queued, LooksLate, AcceptedLate
  <1>6. CASE v = x
    <2>1. LooksLate(v)'
      BY <1>2, <1>6 DEF LooksLate
    <2>2. Queued(v)'
      <3> SUFFICES ASSUME token'[v].pc = "wait", token'[v].next = "again" PROVE Queued(v)'
        BY DEF Queued
      <3>1. token[v].pc = "select" /\ token'[v].ks = token[v].ks
        BY <1>2, <1>6
      <3>2. token[v].ks = held.set \/ held.at = kNow
        BY <3>1 DEF KeysInv, TokenOK
      <3>3. CASE token[v].ks = held.set
        BY <1>2, <3>1, <3>3 DEF Queued
      <3>4. CASE held.at = kNow
        <4>1. kNow =< held.at + failures * FetchTime
              /\ \A w \in Fetchers : fetch[w].on => fetch[w].since =< held.at + failures * FetchTime
          BY <1>1, <3>4
        <4> QED
          BY <1>2, <4>1 DEF Queued
      <3> QED
        BY <3>2, <3>3, <3>4
    <2>3. AcceptedLate(v)'
      <3> SUFFICES ASSUME token'[v].pc = "accepted" PROVE AcceptedLate(v)'
        BY DEF AcceptedLate
      <3>1. PICK k : k = token[v].key
        OBVIOUS
      <3>2. /\ token'[v].key = k
            /\ \/ token[v].pc = "select" /\ Selects(v, token[v].ks)
               \/ token[v].pc = "again" /\ Selects(v, held.set)
        BY <1>2, <1>6, <3>1
      <3>3. TokenOK(token[v]) /\ (held.set # 0 => Kept(held.set, held.at - FetchTime))
        BY DEF KeysInv
      <3>4. CASE token[v].pc = "select" /\ Selects(v, token[v].ks)
        <4>1. k \in Published[token[v].ks]
          BY <3>1, <3>4 DEF Selects
        <4>2. iss.gone[k] = Never \/ kNow =< iss.gone[k] + MaxStale + FetchTime
          BY <3>3, <3>4, <4>1 DEF TokenOK
        <4> QED
          BY <1>2, <3>2, <4>2 DEF AcceptedLate
      <3>5. CASE token[v].pc = "again" /\ Selects(v, held.set)
        <4>1. k \in Published[held.set] /\ k \notin Published[token[v].ks] /\ held.set # 0
          BY <3>1, <3>3, <3>5 DEF Selects, TokenOK
        <4>2. kNow =< held.at + failures * FetchTime
          BY <1>3, <3>5, <4>1 DEF LooksLate
        <4>3. iss.gone[k] = Never \/ iss.gone[k] >= held.at - FetchTime
          BY <3>3, <4>1 DEF Kept
        <4>4. iss.gone[k] \in Nat
          <5>1. k \in Signers
            BY <1>1, <4>1, KeyParts, KeyConstants
          <5> QED
            BY <1>1, <5>1, KeyParts
        <4>5. ASSUME NEW m \in Nat, kNow =< held.at + m, iss.gone[k] >= held.at - FetchTime
              PROVE  kNow =< iss.gone[k] + FetchTime + m
          BY <1>1, <4>4, <4>5
        <4>6. iss.gone[k] = Never \/ kNow =< iss.gone[k] + FetchTime + failures * FetchTime
          BY <1>1, <4>2, <4>3, <4>5
        <4> QED
          BY <1>2, <3>2, <4>6 DEF AcceptedLate
      <3> QED
        BY <3>2, <3>4, <3>5
    <2> QED
      BY <2>1, <2>2, <2>3
  <1> QED
    BY <1>5, <1>6

\* A key set is published, or time passes under a fetch.
LEMMA QueuePasses ==
  ASSUME KeysInv, QueueInv, Publishes \/ KeysTick
  PROVE  QueueInv'
  <1>1. kNow \in Nat /\ FetchTime \in Nat /\ MaxStale \in Nat /\ failures * FetchTime \in Nat
    BY KeyParts, KeyConstants, OneMoreFailure DEF KeysInv, KeyTypes
  <1> SUFFICES ASSUME NEW v \in Verifications PROVE (Queued(v) /\ LooksLate(v) /\ AcceptedLate(v))'
    BY DEF QueueInv
  <1>2. Queued(v) /\ LooksLate(v) /\ AcceptedLate(v)
    BY DEF QueueInv
  <1>3. CASE Publishes
    <2>1. UNCHANGED <<kNow, held, fetch, token, failures>> /\ Fetching' = Fetching
      BY <1>3 DEF Publishes, Fetching
    <2>2. \A k \in Signers : iss'.gone[k] \in {Never, kNow, iss.gone[k]}
      BY <1>3 DEF Publishes
    <2>3. (Queued(v) /\ LooksLate(v))'
      BY <1>2, <2>1 DEF Queued, LooksLate
    <2>4. AcceptedLate(v)'
      <3> SUFFICES ASSUME token[v].pc = "accepted" PROVE AcceptedLate(v)'
        BY <2>1 DEF AcceptedLate
      <3>1. PICK k \in Signers : k = token[v].key
        BY DEF KeysInv, TokenOK
      <3>2. \/ iss.gone[k] = Never \/ kNow =< iss.gone[k] + MaxStale + FetchTime
            \/ kNow =< iss.gone[k] + FetchTime + failures * FetchTime
        BY <1>2, <3>1 DEF AcceptedLate
      <3>3. iss'.gone[k] = kNow => kNow =< iss'.gone[k] + MaxStale + FetchTime
        BY <1>1
      <3>4. \/ iss'.gone[k] = Never \/ kNow =< iss'.gone[k] + MaxStale + FetchTime
            \/ kNow =< iss'.gone[k] + FetchTime + failures * FetchTime
        BY <2>2, <3>2, <3>3
      <3> QED
        BY <2>1, <3>1, <3>4 DEF AcceptedLate
    <2> QED
      BY <2>3, <2>4
  <1>4. CASE KeysTick
    <2>1. UNCHANGED <<held, fetch, token, failures>> /\ Fetching' = Fetching
          /\ (token[v].pc = "none" \/ (token[v].pc = "wait" /\ Fetching))
      BY <1>4 DEF KeysTick, Fetching
    <2> QED
      BY <1>2, <2>1 DEF Queued, LooksLate, AcceptedLate
  <1> QED
    BY <1>3, <1>4

\* The bound of any cooldown.
LEMMA RefusedLate ==
  ASSUME ~(RefreshMin > 2 * FetchTime)
  PROVE  KeysSpec => []WithdrawnIsRefused
  <1>1. KeysInit => KeysInv /\ QueueInv
    <2>1. KeysInit => QueueInv
      <3> SUFFICES ASSUME KeysInit, NEW v \in Verifications PROVE token[v].pc = "none"
        BY DEF QueueInv, Queued, LooksLate, AcceptedLate
      <3> QED
        BY DEF KeysInit, NoToken
    <2> QED
      BY <2>1, KeysStart
  <1>2. KeysInv /\ QueueInv /\ [KeysNext]_keyVars => KeysInv' /\ QueueInv'
    <2> SUFFICES ASSUME KeysInv, QueueInv, [KeysNext]_keyVars PROVE QueueInv'
      BY KeysStep
    <2>1. CASE TimerFires
      BY <2>1, QueueBegins, KeyConstants DEF TimerFires
    <2>2. ASSUME NEW w \in Fetchers, FetchServed(w) PROVE QueueInv'
      <3>1. /\ fetch \in [Fetchers -> Fetch] /\ UNCHANGED <<kNow, iss, held, token, failures>>
            /\ fetch' = [fetch EXCEPT ![w].set = iss.set]
        BY <2>2 DEF KeysInv, KeyTypes, FetchServed
      <3>2. \A u \in Fetchers : fetch'[u].on = fetch[u].on /\ fetch'[u].since = fetch[u].since
        BY <3>1 DEF Fetch
      <3>3. Fetching' = Fetching
        BY <3>2 DEF Fetching
      <3>4. \A v \in Verifications : (Queued(v) /\ LooksLate(v) /\ AcceptedLate(v))'
        BY <3>1, <3>2, <3>3 DEF QueueInv, Queued, LooksLate, AcceptedLate
      <3> QED
        BY <3>4 DEF QueueInv
    <2>3. ASSUME NEW w \in Fetchers, FetchStored(w) \/ FetchFails(w) PROVE QueueInv'
      BY <2>3, QueueReturns
    <2>4. ASSUME NEW v \in Verifications, OnDemandFetch(v) PROVE QueueInv'
      BY <2>4, QueueBegins, KeyConstants DEF OnDemandFetch
    <2>5. ASSUME NEW v \in Verifications,
                 \/ \E k \in Signers, kid \in BOOLEAN : Arrive(v, k, kid)
                 \/ LoadKeys(v) \/ ReloadKeys(v) \/ Select(v) \/ Answered(v)
          PROVE  QueueInv'
      BY <2>5, QueueVerify
    <2>6. CASE Publishes \/ KeysTick
      BY <2>6, QueuePasses
    <2>7. CASE UNCHANGED keyVars
      BY <2>7 DEF keyVars, QueueInv, Queued, LooksLate, AcceptedLate, Fetching
    <2> QED
      BY <2>1, <2>2, <2>3, <2>4, <2>5, <2>6, <2>7 DEF KeysNext
  <1>3. QueueInv => WithdrawnIsRefused
    <2>1. RefreshMin <= 2 * FetchTime
      BY KeyConstants
    <2> QED
      BY <2>1 DEF WithdrawnIsRefused, QueueInv, AcceptedLate
  <1> QED
    BY <1>1, <1>2, <1>3, PTL DEF KeysSpec

\* A token signed by a key that the issuer has withdrawn is not accepted once
\* the copy could be jwksMaxStale and one fetch old, if the cooldown outlasts two
\* fetches (jwksRefreshMin is a minute unless set, issuerRequestTimeout ten
\* seconds), and under any cooldown once it could also be as old as the fetches
\* that failed (jwksCache.Verify, refreshOnDemand).
THEOREM WithdrawnIsRefusedHolds == KeysSpec => []WithdrawnIsRefused
  BY RefusedInTime, RefusedLate
=============================================================================
