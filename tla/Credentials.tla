---------------------------- MODULE Credentials ----------------------------
(***************************************************************************)
(* The command line's credentials (internal/client, cmd/profgate): several *)
(* profgate processes of one user share a token cache, one file per        *)
(* context with a lock file beside it, and one contexts file that has no   *)
(* lock.  The identity provider is external: it hands out a token and a    *)
(* refresh token, may rotate the refresh token when it is used, and then   *)
(* honours the old one no longer.                                          *)
(*                                                                         *)
(* A process runs one command.  A file is read and replaced atomically     *)
(* (atomic.go renames a temporary file); everything between two file or    *)
(* network operations belongs to the step before it.                       *)
(***************************************************************************)
EXTENDS Naturals

CONSTANTS
    Procs,          \* the processes
    Contexts,       \* names of the contexts file
    AdHoc,          \* the cache name of --server alone, which no context names
    Known,          \* the contexts a login has recorded already
    Issuers,        \* the issuers a gateway may report
    MaxGrants,      \* bound: grants the issuer makes
    MaxMishaps,     \* bound: deaths, lost answers, writes that fail
    PollDeadline    \* in poll intervals: the code's expiry or --login-timeout

ASSUME CredentialsAssumption ==
    /\ AdHoc \notin Contexts /\ Known \subseteq Contexts /\ \A m, n \in Known : m = n
    /\ MaxMishaps \in Nat /\ {MaxGrants, PollDeadline} \subseteq Nat \ {0}

VARIABLES
    file,   \* the contexts file: each context's auth block, and the selected one
    cache,  \* the token cache: one entry a name
    locks,  \* the names whose lock file exists
    proc,   \* the processes
    idp     \* the issuer, with the outcome of every refresh token's use

credVars == <<file, cache, locks, proc, idp>>

Names    == Contexts \cup {AdHoc}
Absent   == "absent"
\* A context's auth block: none recorded yet, a mode, or oidc by its issuer.
Snaps    == {"unset", "disabled", "basic"} \cup Issuers
NoEntry  == [token |-> 0, refresh |-> 0, issuer |-> "none", stamp |-> 0]

-----------------------------------------------------------------------------
(* The issuer.  old: tokens no longer 30 seconds from expiry.  live:       *)
(* refresh tokens honoured; spent: rotated away;                           *)
(* over: past the expiry the client recorded for it; lost: spent, and the  *)
(* answer that replaced it reached no file.                                *)

Grants == 1 .. MaxGrants

\* One grant has been made: the entry of Init.
Idp0 == [granted |-> 1, stamps |-> 0, old |-> {}, live |-> {1},
         spent |-> {}, over |-> {}, lost |-> {}, mishaps |-> 0]

CanMishap == idp.mishaps < MaxMishaps

Fresh(e) == e.token \notin idp.old

\* What a command reads of the context its settings resolved to.
SnapOf(f, n) == IF n \in Contexts /\ f.ctx[n] # Absent THEN f.ctx[n] ELSE "unset"

\* With no recorded snapshot the entry carries its own values.
Usable(e, snap) == snap = "unset" \/ e.issuer = snap

Idle == [cmd |-> "none", pc |-> "idle", name |-> AdHoc, snap |-> "unset",
         loaded |-> [ctx |-> [n \in Contexts |-> Absent], current |-> Absent],
         held |-> NoEntry, answer |-> NoEntry, at |-> 0, every |-> 0]

\* The process goes on to l, and forgets what it no longer reads.
Exits(p)    == [proc EXCEPT ![p] = [Idle EXCEPT !.pc = "done"]]
GoTo(p, l)  == [proc EXCEPT ![p].pc = l,
                  ![p].held   = IF l \in {"refused", "busy"} THEN @ ELSE NoEntry,
                  ![p].answer = IF l = "locked" THEN @ ELSE NoEntry]
Underway(p) == proc[p].pc \notin {"idle", "done", "dead"}

\* The user has logged in to the contexts of Known through one issuer.
CredInit ==
    /\ \E i \in Issuers :
          /\ \E sel \in Known \cup {Absent} :
                file = [ctx |-> [n \in Contexts |-> IF n \in Known THEN i ELSE Absent],
                        current |-> sel]
          /\ cache = [n \in Names |-> IF n \notin Known THEN NoEntry ELSE
                         [token |-> 1, refresh |-> 1, issuer |-> i, stamp |-> 0]]
    /\ locks = {}
    /\ proc = [p \in Procs |-> Idle]
    /\ idp = Idp0

-----------------------------------------------------------------------------
(* Starting a command.  The contexts file is read once, here: what a login *)
(* or a context command saves later is this copy, changed.  A context that *)
(* the file does not hold needs a server from elsewhere, and is refused    *)
(* where the command requires it.                                          *)

RequireContext(n) == n \in Contexts /\ file.ctx[n] # Absent

Begin(p, c, n, l) ==
    /\ proc[p].pc = "idle"
    /\ proc' = [proc EXCEPT ![p] = [Idle EXCEPT !.cmd = c, !.pc = l, !.name = n,
                    !.snap = SnapOf(file, n),
                    !.loaded = IF c \in {"call", "logout"} THEN @ ELSE file]]
    /\ UNCHANGED <<file, cache, locks, idp>>

StartCall(p, n)   == Begin(p, "call", n, "apply")
StartLogin(p, n)  == Begin(p, "login", n, "auth")
StartLogout(p, n) == Begin(p, "logout", n, "lock")
StartDelete(p, n) == RequireContext(n) /\ Begin(p, "delete", n, "lock")
StartUse(p, n)    == RequireContext(n) /\ Begin(p, "use", n, "save")

\* ResolveCredential and Apply: a mode that caches nothing sends no cached
\* token; a fresh one is sent without the lock; one that cannot be refreshed
\* needs a login.  Only a token inside the window goes on to the refresh.
Apply(p) ==
    LET e == cache[proc[p].name] IN
    /\ proc[p].pc = "apply"
    /\ proc' = IF \/ proc[p].snap \in {"disabled", "basic"}
                  \/ e = NoEntry \/ ~Usable(e, proc[p].snap)
                  \/ Fresh(e)
                  \/ e.refresh = 0 \/ e.refresh \in idp.over
               THEN Exits(p) ELSE GoTo(p, "lock")
    /\ UNCHANGED <<file, cache, locks, idp>>

-----------------------------------------------------------------------------
(* The lock: a file created exclusively.  A process that finds it waits up *)
(* to 30 seconds and then gives up; it never breaks one.  A process that   *)
(* dies leaves its own, which the user removes as the message says: when   *)
(* no other profgate is running.                                           *)

\* The lock file is opened, not created exclusively.
LockShared(p) ==
    /\ proc[p].pc = "lock"
    /\ locks' = locks \cup {proc[p].name}
    /\ proc' = GoTo(p, "locked")
    /\ UNCHANGED <<file, cache, idp>>

Lock(p) ==
    /\ proc[p].pc = "lock" /\ proc[p].name \notin locks
    /\ locks' = locks \cup {proc[p].name}
    /\ proc' = GoTo(p, "locked")
    /\ UNCHANGED <<file, cache, idp>>

GiveUp(p) ==
    /\ proc[p].pc = "lock" /\ proc[p].name \in locks
    /\ proc' = Exits(p)
    /\ UNCHANGED <<file, cache, locks, idp>>

Release(p) ==
    /\ proc[p].pc = "release"
    /\ locks' = locks \ {proc[p].name}
    /\ proc' = IF proc[p].cmd = "login" THEN GoTo(p, "whoami") ELSE Exits(p)
    /\ UNCHANGED <<file, cache, idp>>

RemoveLock(n) ==
    /\ n \in locks /\ \A p \in Procs : ~Underway(p)
    /\ locks' = locks \ {n}
    /\ UNCHANGED <<file, cache, proc, idp>>

-----------------------------------------------------------------------------
(* The refresh, under the lock: the entry is read again, and only one that *)
(* is still inside the window is presented to the issuer.                  *)

NeedsRefresh(p, e) ==
    e # NoEntry /\ Usable(e, proc[p].snap) /\ ~Fresh(e) /\ e.refresh # 0

Refresh(p) ==
    LET e == cache[proc[p].name] IN
    /\ proc[p].pc = "locked" /\ proc[p].cmd = "call"
    /\ \/ proc' = [proc EXCEPT ![p].pc = "post", ![p].held = e] /\ NeedsRefresh(p, e)
       \/ proc' = GoTo(p, "release")    \* not needed, or discovery failed
    /\ UNCHANGED <<file, cache, locks, idp>>

\* The issuer honours the token: it may rotate it, and the response may leave
\* out the token the context's token type selects.
Honours(p) ==
    LET e == proc[p].held
        k == idp.granted + 1
    IN
    /\ proc[p].pc = "post" /\ e.refresh \in idp.live /\ k \in Grants
    /\ \E rotates, carries \in BOOLEAN :
          /\ idp' = [idp EXCEPT !.granted = k,
                        !.live  = IF rotates THEN (@ \ {e.refresh}) \cup {k} ELSE @,
                        !.spent = IF rotates THEN @ \cup {e.refresh} ELSE @]
          /\ proc' = [proc EXCEPT ![p].pc = "answered",
                        ![p].answer = [e EXCEPT
                            !.token   = IF carries THEN k ELSE @,
                            !.refresh = IF rotates THEN k ELSE @]]
    /\ UNCHANGED <<file, cache, locks>>

\* A 4xx, for whatever reason: a dead token, or one the issuer would honour another
\* time (the client, the scope or the request was refused, or a proxy answered).
Refuses(p) ==
    /\ proc[p].pc = "post"
    /\ proc' = GoTo(p, "refused")
    /\ UNCHANGED <<file, cache, locks, idp>>

\* 429: the issuer asks for time.
Busy(p) ==
    /\ proc[p].pc = "post" /\ CanMishap
    /\ proc' = GoTo(p, "busy")
    /\ idp' = [idp EXCEPT !.mishaps = @ + 1]
    /\ UNCHANGED <<file, cache, locks>>

\* A transport failure, a 5xx or an unreadable body: the issuer may have
\* acted or not, and the file is left as it was.
Unanswered(p) ==
    /\ proc[p].pc \in {"post", "answered"} /\ CanMishap
    /\ proc' = GoTo(p, "release")
    /\ idp' = [idp EXCEPT !.mishaps = @ + 1,
                  !.lost = IF proc[p].held.refresh \in idp.spent
                           THEN @ \cup {proc[p].held.refresh} ELSE @]
    /\ UNCHANGED <<file, cache, locks>>

\* An ID token whose expiry cannot be read ends the command before the
\* write; so does a write that fails (Unanswered stands for both).
Record(p) ==
    /\ proc[p].pc = "answered"
    /\ cache' = [cache EXCEPT ![proc[p].name] =
                    [proc[p].answer EXCEPT !.stamp = idp.stamps + 1]]
    /\ idp' = [idp EXCEPT !.stamps = @ + 1]
    /\ proc' = GoTo(p, "release")
    /\ UNCHANGED <<file, locks>>

\* 429 taken for a refusal.
PermanentAny(answer) == answer \in {"refused", "busy"}

\* Every 4xx but 429.
Permanent(answer) == answer = "refused"

\* refused: a permanent refusal deletes the entry the token came from.
Refused(p) ==
    LET n == proc[p].name IN
    /\ proc[p].pc \in {"refused", "busy"}
    /\ cache' = IF Permanent(proc[p].pc) /\ cache[n].stamp = proc[p].held.stamp
                THEN [cache EXCEPT ![n] = NoEntry] ELSE cache
    /\ proc' = GoTo(p, "release")
    /\ UNCHANGED <<file, locks, idp>>

-----------------------------------------------------------------------------
(* profgate login.  The gateway's mode decides; under oidc the device grant *)
(* is polled until a token, a refusal or the deadline, the entry is written *)
(* under the lock, whoami confirms it, and the contexts file is saved.      *)

\* gatewayAuth: what /v1/auth reports, or the context's block or the flags.
GatewayAuth(p) ==
    /\ proc[p].pc = "auth"
    /\ \/ \E m \in Snaps \ {"unset"} :
             proc' = [proc EXCEPT ![p].snap = m,
                         ![p].every = IF m \in Issuers THEN 1 ELSE 0,
                         ![p].pc = IF m \in Issuers THEN "poll" ELSE "whoami"]
       \/ proc' = Exits(p)
    /\ UNCHANGED <<file, cache, locks, idp>>

\* authorization_pending, slow_down (one interval more), a 5xx or a
\* transport failure: wait, unless the next poll would not be before the
\* deadline.  A request takes time of its own (late).
PollAgain(p) ==
    /\ proc[p].pc = "poll"
    /\ \E slow, late \in 0 .. 1 :
          LET every == proc[p].every + slow
              next  == proc[p].at + late + every
          IN proc' = IF next < PollDeadline
                     THEN [proc EXCEPT ![p].at = next, ![p].every = every]
                     ELSE Exits(p)
    /\ UNCHANGED <<file, cache, locks, idp>>

\* access_denied, expired_token, any other 4xx, no token of the type asked.
PollStops(p) ==
    /\ proc[p].pc = "poll"
    /\ proc' = Exits(p)
    /\ UNCHANGED <<file, cache, locks, idp>>

\* The grant, with a refresh token or without.
PollGranted(p) ==
    LET k == idp.granted + 1 IN
    /\ proc[p].pc = "poll" /\ k \in Grants
    /\ \E r \in {0, k} :
          /\ idp' = [idp EXCEPT !.granted = k, !.live = @ \cup ({r} \ {0})]
          /\ proc' = [proc EXCEPT ![p].pc = "lock", ![p].at = 0, ![p].every = 0,
                         ![p].answer = [token |-> k, refresh |-> r, stamp |-> 0,
                                        issuer |-> proc[p].snap]]
    /\ UNCHANGED <<file, cache, locks>>

WriteEntry(p) ==
    /\ proc[p].pc = "locked" /\ proc[p].cmd = "login"
    /\ cache' = [cache EXCEPT ![proc[p].name] =
                    [proc[p].answer EXCEPT !.stamp = idp.stamps + 1]]
    /\ idp' = [idp EXCEPT !.stamps = @ + 1]
    /\ proc' = GoTo(p, "release")
    /\ UNCHANGED <<file, locks>>

\* The answer of whoami, which the lock no longer covers.  The entry stays
\* when it fails; --server alone has no context to record.
Whoami(p) ==
    /\ proc[p].pc = "whoami"
    /\ \/ proc' = GoTo(p, "save") /\ proc[p].name \in Contexts
       \/ proc' = Exits(p)
    /\ UNCHANGED <<file, cache, locks, idp>>

-----------------------------------------------------------------------------
(* Saving the contexts file: the copy read at the start, with the change.  *)

Changed(p) ==
    LET f == proc[p].loaded
        n == proc[p].name
    IN CASE proc[p].cmd = "login"  -> [f EXCEPT !.ctx[n] = proc[p].snap]
         [] proc[p].cmd = "use"    -> [f EXCEPT !.current = n]
         [] proc[p].cmd = "delete" -> [f EXCEPT !.ctx[n] = Absent,
                                          !.current = IF @ = n THEN Absent ELSE @]

\* validateFile refuses a selected context that the file does not hold.
Valid(f) == f.current # Absent => f.ctx[f.current] # Absent

Save(p) ==
    /\ proc[p].pc = "save"
    /\ \/ Valid(Changed(p)) /\ file' = Changed(p)
       \/ file' = file
    /\ proc' = IF proc[p].cmd = "delete" THEN GoTo(p, "release") ELSE Exits(p)
    /\ UNCHANGED <<cache, locks, idp>>

-----------------------------------------------------------------------------
(* profgate logout and profgate context delete, under the entry's lock.    *)

\* Revocation is a warning when it fails or is not offered.
Revoke(p) ==
    LET e == cache[proc[p].name] IN
    /\ proc[p].pc = "locked" /\ proc[p].cmd = "logout"
    /\ proc' = GoTo(p, IF e = NoEntry THEN "release" ELSE "drop")
    /\ idp' \in {idp, [idp EXCEPT !.live = @ \ {e.refresh}]}
    /\ UNCHANGED <<file, cache, locks>>

LogoutDeletes(p) ==
    /\ proc[p].pc = "drop"
    /\ \/ cache' = [cache EXCEPT ![proc[p].name] = NoEntry] /\ UNCHANGED idp
       \/ CanMishap /\ idp' = [idp EXCEPT !.mishaps = @ + 1] /\ UNCHANGED cache
    /\ proc' = GoTo(p, "release")
    /\ UNCHANGED <<file, locks>>

\* The file is saved although the entry remains.
DeleteContextSaving(p) ==
    /\ proc[p].pc = "locked" /\ proc[p].cmd = "delete"
    /\ \/ cache' = [cache EXCEPT ![proc[p].name] = NoEntry] /\ UNCHANGED idp
       \/ CanMishap /\ idp' = [idp EXCEPT !.mishaps = @ + 1] /\ UNCHANGED cache
    /\ proc' = GoTo(p, "save")
    /\ UNCHANGED <<file, locks>>

\* The entry goes first: when its deletion fails the file is not saved.
DeleteContext(p) ==
    /\ proc[p].pc = "locked" /\ proc[p].cmd = "delete"
    /\ \/ cache' = [cache EXCEPT ![proc[p].name] = NoEntry]
          /\ proc' = GoTo(p, "save") /\ UNCHANGED idp
       \/ CanMishap /\ idp' = [idp EXCEPT !.mishaps = @ + 1]
          /\ proc' = GoTo(p, "release") /\ UNCHANGED cache
    /\ UNCHANGED <<file, locks>>

-----------------------------------------------------------------------------
(* What happens around the processes.                                      *)

\* Killed, or the machine fails: the lock file stays.
Die(p) ==
    /\ Underway(p) /\ CanMishap
    /\ proc' = [proc EXCEPT ![p] = [Idle EXCEPT !.pc = "dead"]]
    /\ idp' = [idp EXCEPT !.mishaps = @ + 1,
                  !.lost = IF proc[p].pc = "answered" /\ proc[p].held.refresh \in idp.spent
                           THEN @ \cup {proc[p].held.refresh} ELSE @]
    /\ UNCHANGED <<file, cache, locks>>

\* Time passes for a token that some file or process holds.
Age(t) ==
    /\ t \notin idp.old
    /\ \/ \E n \in Names : cache[n].token = t
       \/ \E p \in Procs : t \in {proc[p].held.token, proc[p].answer.token}
    /\ idp' = [idp EXCEPT !.old = @ \cup {t}]
    /\ UNCHANGED <<file, cache, locks, proc>>

RefreshTokenEnds(r) ==
    /\ r \in idp.live
    /\ idp' = [idp EXCEPT !.live = @ \ {r}, !.over = @ \cup {r}]
    /\ UNCHANGED <<file, cache, locks, proc>>

StartCommand(p) ==
    \E n \in Names : \/ StartCall(p, n) \/ StartLogin(p, n) \/ StartLogout(p, n)
                     \/ StartDelete(p, n) \/ StartUse(p, n)

Step(p) ==
    \/ Apply(p) \/ Lock(p) \/ GiveUp(p) \/ Release(p)
    \/ Refresh(p) \/ Honours(p) \/ Refuses(p) \/ Busy(p) \/ Unanswered(p)
    \/ Record(p) \/ Refused(p)
    \/ GatewayAuth(p) \/ PollAgain(p) \/ PollStops(p) \/ PollGranted(p)
    \/ WriteEntry(p) \/ Whoami(p) \/ Save(p)
    \/ Revoke(p) \/ LogoutDeletes(p) \/ DeleteContext(p)

CredNext ==
    \/ \E p \in Procs : StartCommand(p) \/ Step(p) \/ Die(p)
    \/ \E n \in Names : RemoveLock(n)
    \/ \E t \in Grants : Age(t) \/ RefreshTokenEnds(t)

CredSpec == CredInit /\ [][CredNext]_credVars

-----------------------------------------------------------------------------
\* A refresh token that the issuer has rotated away is presented again only
\* when the answer that replaced it reached no file: it was lost, could not be
\* recorded, or its process died.  Two processes never present one token in
\* turn, which an issuer answers by ending the login.
SpentOnlyWhenLost ==
    \A p \in Procs : proc[p].pc = "post" /\ proc[p].held.refresh \in idp.spent
                        => proc[p].held.refresh \in idp.lost

\* After a logout, a deleted context or a refused refresh, an entry comes back
\* only by a login: no refresh that was under way writes it again.
OnlyALoginCreates ==
    \A n \in Names : cache[n] = NoEntry /\ cache'[n] # NoEntry
        => \E p \in Procs : proc[p].cmd = "login" /\ proc'[p] # proc[p]

\* A credential leaves the disk by a logout, a deleted context, or a permanent
\* refusal of that very credential: never because the issuer asked for time or did not
\* answer, nor for the refusal of an older one (permanent, refused).
OnlyAnEndDeletes ==
    \A n \in Names : cache[n] # NoEntry /\ cache'[n] = NoEntry
        => \E p \in Procs : /\ proc[p].name = n /\ proc'[p] # proc[p]
                            /\ \/ proc[p].cmd \in {"logout", "delete"}
                               \/ proc[p].pc = "refused" /\ proc[p].held = cache[n]

Orphan(n) == cache[n] # NoEntry /\ file.ctx[n] = Absent

\* A credential is left with no context that names it only by a login that is
\* yet to record its context, or by a save of a copy that is no longer the
\* file (the contexts file has no lock): never by deleting the context.
NoOrphanByDelete ==
    \A n \in Contexts : Orphan(n)' /\ ~Orphan(n)
        => \E p \in Procs : /\ proc'[p] # proc[p]
                            /\ \/ proc[p].cmd = "login" /\ proc[p].name = n
                               \/ proc[p].pc = "save" /\ proc[p].loaded # file

\* No step breaks one of the three above: the cache holds a credential from a
\* login until the user, or a 4xx of the issuer other than 429, ends it, whatever
\* commands other processes run meanwhile.
CacheFollowsTheUser == [][OnlyALoginCreates /\ OnlyAnEndDeletes /\ NoOrphanByDelete]_credVars
=============================================================================
