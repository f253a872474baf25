------------------------------ MODULE Policies ------------------------------
(***************************************************************************)
(* A Service's policy override (pgo/policy.go, pgo/runtime.go) edited      *)
(* through the conditional routes (httpapi/pgo_policy.go) by the command   *)
(* line's read-then-write (cmd/profgate/policy.go).  The handler reads     *)
(* again before it writes, so an edit is three store calls with others     *)
(* between them; a call may go unanswered, and its write land later.       *)
(***************************************************************************)
EXTENDS Naturals, FiniteSets

CONSTANTS
    Editors,       \* callers with pgo.config
    Bodies,        \* overrides they send: [every, rounds, retention], 0 is unset
    Defaults,      \* pgo.defaults
    Ceilings,      \* the pgo.limits of the replicas: [minEvery, maxEvery, maxRounds, maxRetention]
    MinRetention,  \* minRetention
    MaxRevisions,  \* bound: writes to the key
    MaxUnanswered  \* bound: calls without an answer

ASSUME PoliciesAssumption ==
    /\ {MaxRevisions, MaxUnanswered, MinRetention} \subseteq Nat
    /\ Bodies \subseteq [{"every", "rounds", "retention"} -> Nat]

NoOverride == [f \in {"every", "rounds", "retention"} |-> 0]

VARIABLES
    stored,   \* service.<ns>.<svc>: the override, its revision, what its writer had read
    flying,   \* writes whose caller was told ErrUnavailable and that may still land
    editor,   \* the edits
    unanswered

policyVars == <<stored, flying, editor, unanswered>>

\* What a read returns: the override and its ETag, none for a Service on
\* defaults.  An empty override is stored as one, so presence is its own field.
Absence    == [present |-> FALSE, val |-> NoOverride, rev |-> 0]
Read(s)    == IF s.present THEN [present |-> TRUE, val |-> s.val, rev |-> s.rev] ELSE Absence

NoEdit == [pc |-> "idle", saw |-> Absence, kind |-> "put", body |-> NoOverride]

PoliciesInit ==
    /\ stored = [present |-> FALSE, val |-> NoOverride, rev |-> 0, basis |-> Absence]
    /\ flying = {}
    /\ editor = [e \in Editors |-> NoEdit]
    /\ unanswered = 0

-----------------------------------------------------------------------------
(* The pure part.                                                          *)

\* Field by field: what the override leaves unset is the defaults'.
Effective(o) == [f \in DOMAIN Defaults |-> IF o[f] # 0 THEN o[f] ELSE Defaults[f]]

\* Validate finds no violation.  The other fields have bounds of their own kind.
Fits(p, lim) ==
    /\ p.every \in lim.minEvery .. lim.maxEvery
    /\ p.rounds \in 1 .. lim.maxRounds
    /\ p.retention \in MinRetention .. lim.maxRetention /\ p.retention >= p.every

-----------------------------------------------------------------------------
(* The command: the read for its ETag, then one write under it.            *)

ReadETag(e) ==
    /\ editor[e].pc = "idle"
    /\ editor' = [editor EXCEPT ![e] = [NoEdit EXCEPT !.pc = "read", !.saw = Read(stored)]]
    /\ UNCHANGED <<stored, flying, unanswered>>

\* PUT: a replica judges the effective policy by its own ceilings first.
SetPolicy(e, b, lim) ==
    /\ editor[e].pc = "read"
    /\ editor' = [editor EXCEPT ![e].kind = "put", ![e].body = b,
                                ![e].pc = IF Fits(Effective(b), lim) THEN "sent" ELSE "limit_exceeded"]
    /\ UNCHANGED <<stored, flying, unanswered>>

DeletePolicy(e) ==
    /\ editor[e].pc = "read"
    /\ editor' = [editor EXCEPT ![e].kind = "delete", ![e].pc = "sent"]
    /\ UNCHANGED <<stored, flying, unanswered>>

-----------------------------------------------------------------------------
(* servePolicyWrite and servePolicyDelete: the handler's own read.         *)

Verdict(w) ==
    IF ~stored.present
    THEN IF w.kind = "delete" THEN "not_found"
         ELSE IF w.saw.present THEN "precondition_failed" ELSE "create"
    ELSE IF ~w.saw.present THEN "precondition_required"
         ELSE IF w.saw.rev # stored.rev THEN "precondition_failed" ELSE "write"

ServeRead(e) ==
    /\ editor[e].pc = "sent"
    /\ editor' = [editor EXCEPT ![e].pc = Verdict(editor[e])]
    /\ UNCHANGED <<stored, flying, unanswered>>

\* The handler's comparison is trusted, and the write carries no revision.
LandsUnconditionally(w) == w.pc = "create" \/ stored.present

\* Create where no value is; Update and Delete at the revision If-Match named.
Lands(w) == IF w.pc = "create" THEN ~stored.present
            ELSE stored.present /\ stored.rev = w.saw.rev

CommitEdit(w) ==
    /\ stored.rev < MaxRevisions
    /\ stored' = [present |-> w.kind = "put", rev |-> stored.rev + 1, basis |-> w.saw,
                  val |-> IF w.kind = "put" THEN w.body ELSE NoOverride]

ServeWrite(e) ==
    LET w == editor[e] IN
    /\ w.pc \in {"create", "write"}
    /\ \/ /\ Lands(w) /\ CommitEdit(w)
          /\ editor' = [editor EXCEPT ![e].pc = "ok"]
       \/ /\ ~Lands(w) /\ UNCHANGED stored
          /\ editor' = [editor EXCEPT ![e].pc = "precondition_failed"]
    /\ UNCHANGED <<flying, unanswered>>

\* pgo_unavailable: the write has landed, lands later, or never does.
Unavailable(e) ==
    /\ editor[e].pc \in {"sent", "create", "write"} /\ unanswered < MaxUnanswered
    /\ flying' = IF editor[e].pc = "sent" THEN flying ELSE flying \cup {editor[e]}
    /\ editor' = [editor EXCEPT ![e].pc = "unavailable"]
    /\ unanswered' = unanswered + 1
    /\ UNCHANGED stored

Arrives(w) ==
    /\ flying' = flying \ {w}
    /\ IF Lands(w) THEN CommitEdit(w) ELSE UNCHANGED stored
    /\ UNCHANGED <<editor, unanswered>>

\* Nothing retries; the caller reads again and decides.
Over(e) ==
    /\ editor[e].pc \notin {"idle", "read", "sent", "create", "write"}
    /\ editor' = [editor EXCEPT ![e] = NoEdit]
    /\ UNCHANGED <<stored, flying, unanswered>>

PoliciesNext ==
    \/ \E e \in Editors : \/ ReadETag(e) \/ DeletePolicy(e) \/ ServeRead(e) \/ ServeWrite(e)
                          \/ Unavailable(e) \/ Over(e)
                          \/ \E b \in Bodies, lim \in Ceilings : SetPolicy(e, b, lim)
    \/ \E w \in flying : Arrives(w)

PoliciesSpec == PoliciesInit /\ [][PoliciesNext]_policyVars

-----------------------------------------------------------------------------
\* No edit is lost: what a write replaces or deletes, whenever it lands, is
\* exactly what its caller had read before deciding.
NoEditIsLost == [][stored' # stored => stored'.basis = Read(stored)]_policyVars
=============================================================================
