---------------------------- MODULE SigningKeys ----------------------------
(***************************************************************************)
(* Bearer tokens and the issuer's signing keys (internal/auth: jwks.go,    *)
(* verify.go, oidc.go).  The issuer, external, publishes one key set after *)
(* another; the gateway holds a copy, which a timer and any verification   *)
(* that finds no key replace.  A fetch takes up to FetchTime; between two  *)
(* fetches a verification takes none.                                      *)
(***************************************************************************)
EXTENDS Naturals, Sequences, FiniteSets

CONSTANTS
    Verifications,   \* the tokens under verification
    Published,       \* the key sets, in the order the issuer publishes them
    RefreshEvery, RefreshMin, MaxStale,  \* jwksRefresh, jwksRefreshMin, jwksMaxStale
    FetchTime,       \* issuerRequestTimeout
    MaxNow,          \* bound: the clock
    MaxFailures      \* bound: fetches that fail

ASSUME SigningKeysAssumption ==
    /\ Len(Published) \in Nat \ {0} /\ DOMAIN Published = 1 .. Len(Published)
    /\ \A i \in DOMAIN Published : Published[i] # {}
    /\ "timer" \notin Verifications
    /\ {RefreshEvery, RefreshMin, MaxStale, FetchTime} \subseteq Nat \ {0}
    /\ {MaxNow, MaxFailures} \subseteq Nat
    /\ MaxStale >= RefreshEvery
    /\ RefreshEvery >= 3 * FetchTime    \* at least a minute, and ten seconds

VARIABLES
    kNow,     \* the clock
    iss,      \* the set the issuer publishes, since when, and what was withdrawn when
    held,     \* the set held: its number (0: discovery has not published one) and fetched
    fetch,    \* whose fetch is under way, since when, and what the issuer answered
    attempt,  \* lastAttempt of the on-demand refresh
    due,      \* when the timer fires next
    token,    \* the verifications
    failures  \* fetches that failed

keyVars == <<kNow, iss, held, fetch, attempt, due, token, failures>>

Signers  == UNION {Published[i] : i \in DOMAIN Published}
Timer    == "timer"
Fetchers == Verifications \cup {Timer}
NoFetch  == [on |-> FALSE, set |-> 0, since |-> 0]
Never    == MaxNow + 1

\* ks: the set the verification has loaded, which a later swap does not change.
NoToken == [pc |-> "none", key |-> 0, kid |-> FALSE, next |-> "none", ks |-> 0]

KeysInit ==
    /\ kNow = 0
    /\ iss = [set |-> 1, since |-> [k \in Signers |-> IF k \in Published[1] THEN 0 ELSE Never],
              gone |-> [k \in Signers |-> Never]]
    /\ held = [set |-> 0, at |-> 0]
    /\ fetch = [w \in Fetchers |-> NoFetch]
    /\ attempt = Never
    /\ due = 0
    /\ token = [v \in Verifications |-> NoToken]
    /\ failures = 0

-----------------------------------------------------------------------------
(* Refresh: fetchMu is held from before the request until the set is       *)
(* stored, and fetched is the clock when the answer has come.  The first   *)
(* fetch is discovery's: the document and the keys are published together. *)

TooOld(h) == h.set = 0 \/ kNow - h.at > MaxStale

TokenAt(v, l) == [token EXCEPT ![v].pc = l]

Fetching == \E w \in Fetchers : fetch[w].on

\* The mutex is not taken.
LockFetchShared(w) == ~fetch[w].on

LockFetch(w) == ~Fetching

RefreshBegins(w) ==
    /\ LockFetch(w)
    /\ fetch' = [fetch EXCEPT ![w] = [on |-> TRUE, set |-> 0, since |-> kNow]]

\* Discover, retried with backoff until it succeeds, and then Run's ticker.
TimerFires ==
    /\ due <= kNow
    /\ RefreshBegins(Timer)
    /\ due' = kNow + RefreshEvery
    /\ UNCHANGED <<kNow, iss, held, attempt, token, failures>>

\* The issuer answers with what it publishes at that moment.
FetchServed(w) ==
    /\ fetch[w].on /\ fetch[w].set = 0
    /\ fetch' = [fetch EXCEPT ![w].set = iss.set]
    /\ UNCHANGED <<kNow, iss, held, attempt, due, token, failures>>

\* The fetch is over, and whoever waited for it goes on.
RefreshReturns(w) ==
    /\ token' = IF w = Timer THEN token ELSE TokenAt(w, token[w].next)
    /\ fetch' = [fetch EXCEPT ![w] = NoFetch]

FetchStored(w) ==
    /\ fetch[w].set # 0
    /\ held' = [set |-> fetch[w].set, at |-> kNow]
    /\ RefreshReturns(w)
    /\ UNCHANGED <<kNow, iss, attempt, due, failures>>

\* The issuer does not answer, the set has no usable key or two of one kid, or
\* the request whose context it runs under ends.  Discovery is retried at once.
FetchFails(w) ==
    /\ fetch[w].on /\ failures < MaxFailures
    /\ failures' = failures + 1
    /\ RefreshReturns(w)
    /\ due' = IF held.set = 0 THEN kNow ELSE due
    /\ UNCHANGED <<kNow, iss, held, attempt>>

-----------------------------------------------------------------------------
(* verify.  A token of the wrong shape or algorithm is refused before the  *)
(* keys are looked at, and one whose claims fail after the signature was   *)
(* checked; neither touches the keys.                                      *)

\* The token may name a key that is not published yet, or no longer.
Arrive(v, k, kid) ==
    /\ token[v].pc = "none"
    /\ token' = [token EXCEPT ![v] =
                    [NoToken EXCEPT !.pc = "load", !.key = k, !.kid = kid]]
    /\ UNCHANGED <<kNow, iss, held, fetch, attempt, due, failures>>

\* The cooldown does not end.
InCooldownForever == attempt # Never

\* refreshOnDemand: the attempt is recorded before the fetch starts.
InCooldown == attempt # Never /\ kNow - attempt < RefreshMin

\* Reports a refresh it did not run, or runs one.
OnDemand(v, next) ==
    IF InCooldown
    THEN token' = TokenAt(v, next.refused) /\ UNCHANGED attempt
    ELSE /\ attempt' = kNow
         /\ token' = [token EXCEPT ![v].pc = "wait", ![v].next = next.ran]

\* The set held now is the one this verification goes on with.
LoadedAt(v, l) == [token EXCEPT ![v].pc = l, ![v].ks = held.set]

LoadKeys(v) ==
    /\ token[v].pc = "load"
    /\ IF held.set # 0 /\ TooOld(held)
       THEN OnDemand(v, [refused |-> "recheck", ran |-> "recheck"])
       ELSE token' = LoadedAt(v, IF held.set = 0 THEN "unavailable" ELSE "select")
            /\ UNCHANGED attempt
    /\ UNCHANGED <<kNow, iss, held, fetch, due, failures>>

\* Goes on with the set that is too old.
RecheckSkipped(v) == "select"

Recheck(v) == IF TooOld(held) THEN "unavailable" ELSE "select"

ReloadKeys(v) ==
    /\ token[v].pc = "recheck"
    /\ token' = LoadedAt(v, Recheck(v))
    /\ UNCHANGED <<kNow, iss, held, fetch, attempt, due, failures>>

OnDemandFetch(v) ==
    /\ token[v].pc = "wait"
    /\ RefreshBegins(v)
    /\ UNCHANGED <<kNow, iss, held, attempt, due, token, failures>>

\* The key named by kid, or the one key there is: never every key in turn.
Selects(v, set) == IF token[v].kid THEN token[v].key \in Published[set]
                   ELSE Published[set] = {token[v].key}

\* Only a kid that is not in the loaded set asks for a refresh, once; what it
\* fetched is loaded again.  With the key, the signature and then the claims
\* decide.
Select(v) ==
    LET found == Selects(v, IF token[v].pc = "again" THEN held.set ELSE token[v].ks) IN
    /\ token[v].pc \in {"select", "again"}
    /\ \/ /\ found /\ UNCHANGED attempt
          /\ \E claims \in {"accepted", "denied"} : token' = TokenAt(v, claims)
       \/ /\ ~found
          /\ IF token[v].kid /\ token[v].pc = "select"
             THEN OnDemand(v, [refused |-> "refused", ran |-> "again"])
             ELSE token' = TokenAt(v, "refused") /\ UNCHANGED attempt
    /\ UNCHANGED <<kNow, iss, held, fetch, due, failures>>

\* The outcome is reported and forgotten.
Answered(v) ==
    /\ token[v].pc \in {"accepted", "denied", "refused", "unavailable"}
    /\ token' = [token EXCEPT ![v] = NoToken]
    /\ UNCHANGED <<kNow, iss, held, fetch, attempt, due, failures>>

-----------------------------------------------------------------------------
(* The issuer and time.                                                    *)

\* A key that is published again counts from then.
Publishes ==
    LET old == Published[iss.set]
        new == Published[iss.set + 1]
    IN
    /\ iss.set < Len(Published)
    /\ iss' = [set   |-> iss.set + 1,
               since |-> [k \in Signers |-> IF k \in new \ old THEN kNow ELSE iss.since[k]],
               gone  |-> [k \in Signers |-> IF k \in new THEN Never
                                            ELSE IF k \in old THEN kNow ELSE iss.gone[k]]]
    /\ UNCHANGED <<kNow, held, fetch, attempt, due, token, failures>>

KeysTick ==
    /\ kNow < MaxNow
    /\ \A w \in Fetchers : fetch[w].on => kNow < fetch[w].since + FetchTime
    /\ due > kNow \/ Fetching
    /\ \A v \in Verifications : \/ token[v].pc = "none"
                                \/ token[v].pc = "wait" /\ Fetching
    /\ kNow' = kNow + 1
    /\ UNCHANGED <<iss, held, fetch, attempt, due, token, failures>>

KeysNext ==
    \/ TimerFires
    \/ \E w \in Fetchers : FetchServed(w) \/ FetchStored(w) \/ FetchFails(w)
    \/ \E v \in Verifications :
          \/ \E k \in Signers, kid \in BOOLEAN : Arrive(v, k, kid)
          \/ LoadKeys(v) \/ ReloadKeys(v) \/ OnDemandFetch(v) \/ Select(v) \/ Answered(v)
    \/ Publishes \/ KeysTick

KeysSpec == KeysInit /\ [][KeysNext]_keyVars

-----------------------------------------------------------------------------
\* A key that the issuer has withdrawn signs no accepted token once the set
\* could be MaxStale old, counted from when its fetch began.  That is for a
\* cooldown that outlasts two fetches, as the default of a minute does: one
\* verification waits for its refresh at a time.  jwksRefreshMin may be as short
\* as a second; then several wait for the mutex in turn, the set a second look
\* finds is not checked for its age, and it may be as old as the fetches that
\* failed before that.
WithdrawnIsRefused ==
    \A v \in Verifications :
        LET gone == iss.gone[token[v].key] IN
        token[v].pc = "accepted" /\ gone # Never
          => \/ kNow <= gone + MaxStale + FetchTime
             \/ RefreshMin <= 2 * FetchTime /\ kNow <= gone + FetchTime + failures * FetchTime

\* The set held never goes back to one the issuer published earlier: a slow
\* answer does not land after a later one.
NeverBack == held'.set >= held.set

\* Unless a fetch failed, one is under way or the set was swapped while the
\* token was looked at, a token whose kid the issuer has published for a
\* cooldown and one fetch is not refused for want of its key.
PublishedIsFound ==
    \A v \in Verifications :
        LET k == token[v].key IN
        token[v].pc # "refused" /\ token'[v].pc = "refused" /\ token[v].kid /\ failures = 0
          => \/ iss.gone[k] # Never
             \/ kNow <= iss.since[k] + RefreshMin + FetchTime
             \/ Fetching \/ \E u \in Verifications : token[u].pc = "wait"
             \/ token[v].pc = "select" /\ token[v].ks # held.set

\* No step breaks one of the two above: the copy held follows the issuer
\* forward, and soon enough.
CopyFollowsTheIssuer == [][NeverBack /\ PublishedIsFound]_keyVars
=============================================================================
