--------------------------- MODULE ClientsProofs ---------------------------
(***************************************************************************)
(* Proofs about what a client carries from one request to the next: the    *)
(* ETag of a policy (Policies), the cached credential (Credentials) and    *)
(* the cursor of a listing (Listing), for any number of editors, processes,*)
(* contexts, grants, lost answers, records and replicas.                   *)
(***************************************************************************)
EXTENDS Policies, Credentials, Listing, FiniteSetTheorems, SequenceTheorems, TLAPS

(* Policies: no edit is lost.  The revision alone does not say so: a       *)
(* handler compares a revision its caller read long before, and a write    *)
(* may land after its caller gave up.  What makes it true is that          *)
(* revisions only grow, so a revision read while a value was there names   *)
(* that value for good (Faithful), and that a handler creates only for a   *)
(* caller that saw none.                                                   *)

\* The types of what an edit reads, of an edit, and of the state.
Overrides == [{"every", "rounds", "retention"} -> Nat]
Sights    == [present: BOOLEAN, val: Overrides, rev: Nat]
Stages    == {"idle", "read", "sent", "create", "write", "ok", "unavailable", "limit_exceeded",
              "not_found", "precondition_failed", "precondition_required"}
Edits     == [pc: Stages, saw: Sights, kind: {"put", "delete"}, body: Overrides]

Types ==
    /\ stored \in [present: BOOLEAN, val: Overrides, rev: Nat, basis: Sights]
    /\ flying \subseteq Edits
    /\ editor \in [Editors -> Edits]

\* An edit still knows what it read: an absent override, or the one the store
\* holds as long as the revision is the one it saw.
Faithful(w) ==
    /\ w.saw.rev =< stored.rev
    /\ ~w.saw.present => w.saw = Absence
    /\ w.saw.present /\ stored.present /\ w.saw.rev = stored.rev => w.saw = Read(stored)
    /\ w.pc = "create" => ~w.saw.present
    /\ w.pc = "write" => w.saw.present

\* The inductive invariant of the edits.
PoliciesInv ==
    /\ Types
    /\ \A e \in Editors : Faithful(editor[e])
    /\ \A w \in flying : Faithful(w) /\ w.pc \in {"create", "write"}

-----------------------------------------------------------------------------

\* What an edit starts from has its type.
LEMMA AbsenceIsASight == Absence \in Sights /\ NoOverride \in Overrides
  BY DEF Absence, Sights, NoOverride, Overrides

\* So has an edit that has not begun.
LEMMA NoEditIsAnEdit == NoEdit \in Edits
  BY AbsenceIsASight DEF NoEdit, Edits, Stages

\* And what a read returns.
LEMMA ReadIsASight ==
  ASSUME Types
  PROVE  Read(stored) \in Sights
  BY AbsenceIsASight DEF Types, Read, Sights

\* A caller that has read nothing yet knows nothing wrong.
LEMMA NoEditIsFaithful ==
  ASSUME stored.rev \in Nat
  PROVE  Faithful(NoEdit)
  BY DEF Faithful, NoEdit, Absence

\* Keeping what was seen and the store, an edit stays faithful under any
\* program counter that is neither create nor write.
LEMMA FaithfulMoves ==
  ASSUME NEW v, NEW w, Faithful(v), w.saw = v.saw, w.pc \notin {"create", "write"}
  PROVE  Faithful(w)
  BY DEF Faithful

\* What lands was decided on what it replaces.
LEMMA LandsOnWhatItSaw ==
  ASSUME Types, NEW w \in Edits, Faithful(w), w.pc \in {"create", "write"}, Lands(w)
  PROVE  w.saw = Read(stored)
  BY DEF Types, Faithful, Lands, Read, Edits, Sights

\* A commit leaves every edit faithful: the revision passes all it saw.
LEMMA CommitKeepsFaith ==
  ASSUME Types, NEW v \in Edits, CommitEdit(v), NEW w \in Edits, Faithful(w)
  PROVE  Faithful(w)'
  <1>1. stored.rev \in Nat /\ stored'.rev = stored.rev + 1 /\ w.saw.rev \in Nat
    BY DEF Types, CommitEdit, Edits, Sights
  <1>2. w' = w /\ w.saw.rev =< stored'.rev /\ w.saw.rev # stored'.rev
    BY <1>1 DEF Faithful
  <1> QED
    BY <1>1, <1>2 DEF Faithful

\* A commit stores an override, its revision and what its writer had read.
LEMMA CommitKeepsTypes ==
  ASSUME Types, NEW v \in Edits, CommitEdit(v)
  PROVE  stored' \in [present: BOOLEAN, val: Overrides, rev: Nat, basis: Sights]
  BY AbsenceIsASight DEF Types, CommitEdit, Edits

-----------------------------------------------------------------------------

\* A step of the editors that writes nothing: one edit e becomes w.
LEMMA EditorMoves ==
  ASSUME PoliciesInv, NEW e \in Editors, NEW w \in Edits, Faithful(w),
         editor' = [editor EXCEPT ![e] = w], UNCHANGED <<stored, flying>>
  PROVE  PoliciesInv'
  <1>1. editor' \in [Editors -> Edits]
    BY DEF PoliciesInv, Types
  <1>2. Types'
    BY <1>1 DEF PoliciesInv, Types
  <1>3. ASSUME NEW d \in Editors
        PROVE  Faithful(editor[d])'
    <2>1. editor'[d] = IF d = e THEN w ELSE editor[d]
      BY DEF PoliciesInv, Types
    <2> QED
      BY <2>1 DEF PoliciesInv, Faithful, Read
  <1>4. \A v \in flying' : Faithful(v)' /\ v.pc \in {"create", "write"}
    BY DEF PoliciesInv, Faithful, Read
  <1> QED
    BY <1>2, <1>3, <1>4 DEF PoliciesInv

\* Init establishes the invariant.
LEMMA InitInv == PoliciesInit => PoliciesInv
  <1> SUFFICES ASSUME PoliciesInit PROVE PoliciesInv
    OBVIOUS
  <1>1. stored \in [present: BOOLEAN, val: Overrides, rev: Nat, basis: Sights]
    BY AbsenceIsASight DEF PoliciesInit
  <1>2. Types
    BY <1>1, NoEditIsAnEdit DEF PoliciesInit, Types
  <1>3. \A e \in Editors : Faithful(editor[e])
    BY <1>1, NoEditIsFaithful DEF PoliciesInit
  <1> QED
    BY <1>2, <1>3 DEF PoliciesInv, PoliciesInit

\* A landing of w keeps the invariant and replaces what w saw.
LEMMA Landing ==
  ASSUME PoliciesInv, NEW w \in Edits, Faithful(w), w.pc \in {"create", "write"}, Lands(w), CommitEdit(w)
  PROVE  /\ stored' \in [present: BOOLEAN, val: Overrides, rev: Nat, basis: Sights]
         /\ stored'.basis = Read(stored)
         /\ \A v \in Edits : Faithful(v) => Faithful(v)'
  <1>1. stored'.basis = w.saw
    BY DEF CommitEdit
  <1>2. w.saw = Read(stored)
    BY LandsOnWhatItSaw DEF PoliciesInv
  <1>3. \A v \in Edits : Faithful(v) => Faithful(v)'
    BY CommitKeepsFaith DEF PoliciesInv
  <1> QED
    BY <1>1, <1>2, <1>3, CommitKeepsTypes DEF PoliciesInv

-----------------------------------------------------------------------------

\* Every step keeps the invariant, and a step that changes the override was
\* decided on the override it changes.
LEMMA StepInv ==
  ASSUME PoliciesInv, [PoliciesNext]_policyVars
  PROVE  PoliciesInv' /\ (stored' # stored => stored'.basis = Read(stored))
  <1> USE DEF PoliciesInv
  <1>1. ASSUME NEW e \in Editors, ReadETag(e)
        PROVE  PoliciesInv' /\ stored' = stored
    <2> DEFINE w == [NoEdit EXCEPT !.pc = "read", !.saw = Read(stored)]
    <2>1. w \in Edits
      BY NoEditIsAnEdit, ReadIsASight DEF Edits, Stages
    <2>2. Faithful(w)
      BY NoEditIsAnEdit DEF Faithful, NoEdit, Read, Absence, Types, Edits
    <2> QED
      BY <1>1, <2>1, <2>2, EditorMoves DEF ReadETag
  <1>2. ASSUME NEW e \in Editors, NEW b \in Bodies, NEW lim \in Ceilings, SetPolicy(e, b, lim)
        PROVE  PoliciesInv' /\ stored' = stored
    <2> DEFINE pc == IF Fits(Effective(b), lim) THEN "sent" ELSE "limit_exceeded"
               w  == [editor[e] EXCEPT !.kind = "put", !.body = b, !.pc = pc]
    <2>0. b \in Overrides /\ pc \in {"sent", "limit_exceeded"} /\ editor[e] \in Edits
      BY PoliciesAssumption DEF Types, Overrides
    <2>1. w \in Edits /\ w.saw = editor[e].saw /\ w.pc \notin {"create", "write"}
      <3> HIDE DEF pc
      <3> QED
        BY <2>0 DEF Edits, Stages
    <2>2. Faithful(w)
      BY <2>1, FaithfulMoves
    <2>3. editor' = [editor EXCEPT ![e] = w]
      BY <1>2 DEF SetPolicy, Types, Edits
    <2> QED
      BY <1>2, <2>1, <2>2, <2>3, EditorMoves DEF SetPolicy
  <1>3. ASSUME NEW e \in Editors, DeletePolicy(e)
        PROVE  PoliciesInv' /\ stored' = stored
    <2> DEFINE w == [editor[e] EXCEPT !.kind = "delete", !.pc = "sent"]
    <2>1. w \in Edits /\ w.saw = editor[e].saw /\ w.pc \notin {"create", "write"}
      BY DEF Types, Edits, Stages
    <2>2. Faithful(w)
      BY <2>1, FaithfulMoves
    <2>3. editor' = [editor EXCEPT ![e] = w]
      BY <1>3 DEF DeletePolicy, Types, Edits
    <2> QED
      BY <1>3, <2>1, <2>2, <2>3, EditorMoves DEF DeletePolicy
  <1>4. ASSUME NEW e \in Editors, ServeRead(e)
        PROVE  PoliciesInv' /\ stored' = stored
    <2> DEFINE w == [editor[e] EXCEPT !.pc = Verdict(editor[e])]
    <2>1. w \in Edits
      BY DEF Types, Edits, Stages, Verdict
    <2>2. Faithful(w)
      <3>1. /\ w.saw = editor[e].saw /\ w.pc = Verdict(editor[e])
            /\ Faithful(editor[e]) /\ editor[e] \in Edits /\ stored.present \in BOOLEAN
        BY DEF Types, Edits
      <3>2. w.pc = "create" => ~w.saw.present
        BY <3>1 DEF Verdict, Edits, Sights
      <3>3. w.pc = "write" => w.saw.present
        BY <3>1 DEF Verdict, Edits, Sights
      <3> QED
        BY <3>1, <3>2, <3>3 DEF Faithful
    <2> QED
      BY <1>4, <2>1, <2>2, EditorMoves DEF ServeRead
  <1>5. ASSUME NEW e \in Editors, ServeWrite(e)
        PROVE  PoliciesInv' /\ (stored' # stored => stored'.basis = Read(stored))
    <2>1. editor[e] \in Edits /\ Faithful(editor[e]) /\ flying' = flying
      BY <1>5 DEF Types, ServeWrite
    <2>2. CASE ~Lands(editor[e]) /\ stored' = stored
      <3> DEFINE w == [editor[e] EXCEPT !.pc = "precondition_failed"]
      <3>1. w \in Edits /\ w.saw = editor[e].saw /\ w.pc \notin {"create", "write"}
        BY <2>1 DEF Edits, Stages
      <3>2. Faithful(w)
        BY <2>1, <3>1, FaithfulMoves
      <3> QED
        BY <1>5, <2>1, <2>2, <3>1, <3>2, EditorMoves DEF ServeWrite
    <2>3. CASE Lands(editor[e]) /\ CommitEdit(editor[e]) /\ editor' = [editor EXCEPT ![e].pc = "ok"]
      <3> DEFINE w == [editor[e] EXCEPT !.pc = "ok"]
      <3>1. w \in Edits /\ w.saw = editor[e].saw /\ w.pc \notin {"create", "write"}
        BY <2>1 DEF Edits, Stages
      <3>2. Faithful(w)
        BY <2>1, <3>1, FaithfulMoves
      <3>3. /\ stored' \in [present: BOOLEAN, val: Overrides, rev: Nat, basis: Sights]
            /\ stored'.basis = Read(stored)
            /\ \A v \in Edits : Faithful(v) => Faithful(v)'
        BY <1>5, <2>1, <2>3, Landing DEF ServeWrite
      <3>4. editor' \in [Editors -> Edits]
        BY <2>3, <3>1 DEF Types
      <3>5. ASSUME NEW d \in Editors
            PROVE  Faithful(editor[d])'
        <4>1. PICK u \in Edits : u = editor'[d]
          BY <3>4
        <4>2. Faithful(u)
          BY <2>3, <3>2, <4>1 DEF Types
        <4>3. Faithful(u)'
          BY <3>3, <4>2
        <4> QED
          BY <4>1, <4>3 DEF Faithful
      <3>6. \A v \in flying' : Faithful(v)' /\ v.pc \in {"create", "write"}
        BY <2>1, <3>3 DEF Types
      <3> QED
        BY <2>1, <3>3, <3>4, <3>5, <3>6 DEF Types
    <2> QED
      BY <1>5, <2>2, <2>3 DEF ServeWrite
  <1>6. ASSUME NEW e \in Editors, Unavailable(e)
        PROVE  PoliciesInv' /\ stored' = stored
    <2> DEFINE w == [editor[e] EXCEPT !.pc = "unavailable"]
    <2>1. editor[e] \in Edits /\ Faithful(editor[e]) /\ stored' = stored
      BY <1>6 DEF Types, Unavailable
    <2>2. w \in Edits /\ w.saw = editor[e].saw /\ w.pc \notin {"create", "write"}
      BY <2>1 DEF Edits, Stages
    <2>3. Faithful(w)
      BY <2>1, <2>2, FaithfulMoves
    <2>4. editor' = [editor EXCEPT ![e] = w]
      BY <1>6 DEF Unavailable
    <2>5. Types'
      BY <1>6, <2>1, <2>2, <2>4 DEF Types, Unavailable
    <2>6. ASSUME NEW d \in Editors
          PROVE  Faithful(editor[d])'
      <3>1. editor'[d] = IF d = e THEN w ELSE editor[d]
        BY <2>4 DEF Types
      <3> QED
        BY <2>1, <2>3, <3>1 DEF Faithful, Read
    <2>7. ASSUME NEW v \in flying'
          PROVE  Faithful(v)' /\ v.pc \in {"create", "write"}
      <3>1. Faithful(v) /\ v.pc \in {"create", "write"}
        BY <1>6, <2>1 DEF Unavailable
      <3> QED
        BY <2>1, <3>1 DEF Faithful, Read
    <2> QED
      BY <2>1, <2>5, <2>6, <2>7
  <1>7. ASSUME NEW e \in Editors, Over(e)
        PROVE  PoliciesInv' /\ stored' = stored
    BY <1>7, NoEditIsAnEdit, NoEditIsFaithful, EditorMoves DEF Over, Types
  <1>8. ASSUME NEW w \in flying, Arrives(w)
        PROVE  PoliciesInv' /\ (stored' # stored => stored'.basis = Read(stored))
    <2>1. w \in Edits /\ Faithful(w) /\ w.pc \in {"create", "write"} /\ editor' = editor
      BY <1>8 DEF Types, Arrives
    <2>2. CASE ~Lands(w)
      <3>1. stored' = stored /\ flying' \subseteq flying
        BY <1>8, <2>2 DEF Arrives
      <3> QED
        BY <2>1, <3>1 DEF Types, Faithful, Read
    <2>3. CASE Lands(w)
      <3>1. /\ stored' \in [present: BOOLEAN, val: Overrides, rev: Nat, basis: Sights]
            /\ stored'.basis = Read(stored)
            /\ \A v \in Edits : Faithful(v) => Faithful(v)'
        BY <1>8, <2>1, <2>3, Landing DEF Arrives
      <3>2. Types' /\ flying' \subseteq flying
        BY <1>8, <2>1, <3>1 DEF Types, Arrives
      <3>3. ASSUME NEW d \in Editors
            PROVE  Faithful(editor[d])'
        <4>1. editor[d] \in Edits /\ Faithful(editor[d]) /\ editor'[d] = editor[d]
          BY <2>1 DEF Types
        <4> QED
          BY <3>1, <4>1 DEF Faithful
      <3>4. \A v \in flying' : Faithful(v)' /\ v.pc \in {"create", "write"}
        BY <3>1, <3>2 DEF Types
      <3> QED
        BY <3>1, <3>2, <3>3, <3>4
    <2> QED
      BY <2>2, <2>3
  <1>9. CASE UNCHANGED policyVars
    BY <1>9 DEF policyVars, Types, Faithful, Read
  <1> QED
    BY <1>1, <1>2, <1>3, <1>4, <1>5, <1>6, <1>7, <1>8, <1>9 DEF PoliciesNext

-----------------------------------------------------------------------------

\* What every edit of a policy knows is true of the store it will write to, or
\* its write will be refused, at every moment (pgo_policy.go's two reads).
THEOREM EditsAreFaithful == PoliciesSpec => []PoliciesInv
  <1>1. PoliciesInv /\ [PoliciesNext]_policyVars => PoliciesInv'
    BY StepInv
  <1> QED
    BY InitInv, <1>1, PTL DEF PoliciesSpec

\* No edit is lost, whenever a write lands (servePolicyWrite, servePolicyDelete).
THEOREM EditsAreKept == PoliciesSpec => NoEditIsLost
  <1>1. PoliciesInv /\ [PoliciesNext]_policyVars
          => [stored' # stored => stored'.basis = Read(stored)]_policyVars
    BY StepInv
  <1> QED
    BY EditsAreFaithful, <1>1, PTL DEF PoliciesSpec, NoEditIsLost

-----------------------------------------------------------------------------
(* Credentials: no refresh token is presented twice.  The lock says who    *)
(* may touch an entry (Exclusive), and a token sits in one place: in one   *)
(* entry, or on its way to one (EntryOK, AnswerOK).                        *)

\* The types: auth blocks, cache entries, copies of the contexts file, a
\* process's command and place, and the issuer.
Blocks  == Snaps \cup {"none", Absent}
Entries == [token: Nat, refresh: Nat, issuer: Blocks, stamp: Nat]
FileCopies == [ctx: [Contexts -> Blocks], current: Names \cup {Absent}]
Commands == {"none", "call", "login", "logout", "delete", "use"}
Places  == {"idle", "done", "dead", "apply", "lock", "locked", "post", "answered", "refused",
            "busy", "release", "auth", "poll", "whoami", "save", "drop"}
Runs    == [cmd: Commands, pc: Places, name: Names, snap: Blocks, loaded: FileCopies,
            held: Entries, answer: Entries, at: Nat, every: Nat]
Tokens  == [granted: Nat, stamps: Nat, old: SUBSET Nat, live: SUBSET Nat, spent: SUBSET Nat,
            over: SUBSET Nat, lost: SUBSET Nat, mishaps: Nat]

CredTypes ==
    /\ file \in FileCopies
    /\ cache \in [Names -> Entries]
    /\ locks \subseteq Names
    /\ proc \in [Procs -> Runs]
    /\ idp \in Tokens

\* The process has created the lock file of its name and not removed it.
Holding(s) == \/ s.pc \in {"locked", "post", "answered", "refused", "busy", "release", "drop"}
              \/ s.pc = "save" /\ s.cmd = "delete"

\* The process carries an answer of the issuer that no file has.
Carrying(s) == s.pc = "answered" \/ (s.cmd = "login" /\ s.pc \in {"lock", "locked"})

\* What a command is doing where it is.
CommandOK(s) ==
    /\ s.pc \in {"apply", "post", "answered", "refused", "busy"} => s.cmd = "call"
    /\ s.pc = "drop" => s.cmd = "logout"
    /\ s.pc = "save" => s.cmd \in {"login", "use", "delete"}
    /\ s.pc \in {"auth", "poll", "whoami"} => s.cmd = "login"

\* Under the lock the entry is the one that was read there.
HeldOK(s) ==
    /\ s.pc \in {"post", "answered", "refused", "busy"} => s.held = cache[s.name] /\ s.held.refresh # 0
    /\ s.pc = "save" /\ s.cmd = "delete" => cache[s.name] = NoEntry

\* A lock has one holder.
Exclusive(p) ==
    Holding(proc[p]) => /\ proc[p].name \in locks
                        /\ \A q \in Procs : Holding(proc[q]) /\ proc[q].name = proc[p].name => q = p

\* What the issuer has handed out: a new grant is new to everybody.
IdpOK ==
    /\ \A r \in idp.live \cup idp.spent : r =< idp.granted /\ r # 0
    /\ idp.live \cap idp.spent = {}
    /\ \A n \in Names : cache[n].refresh =< idp.granted
    /\ \A p \in Procs : Carrying(proc[p]) => proc[p].answer.refresh =< idp.granted

\* A refresh token on disk has one place, and is spent only if its successor is
\* lost or on its way to that place.
EntryOK(n) ==
    /\ \A m \in Names : cache[m].refresh = cache[n].refresh /\ m # n => cache[n].refresh = 0
    /\ cache[n].refresh \in idp.spent =>
          \/ cache[n].refresh \in idp.lost
          \/ \E p \in Procs : proc[p].pc = "answered" /\ proc[p].name = n

\* A refresh token on its way is good, and is nowhere else but in the entry it
\* is kept from.
AnswerOK(p) ==
    Carrying(proc[p]) =>
      /\ proc[p].answer.refresh \notin idp.spent
      /\ proc[p].answer.refresh # 0 =>
           /\ \A n \in Names : cache[n].refresh = proc[p].answer.refresh
                                 => proc[p].pc = "answered" /\ proc[p].name = n
           /\ \A q \in Procs : Carrying(proc[q]) /\ q # p
                                 => proc[q].answer.refresh # proc[p].answer.refresh

\* The inductive invariant of the credentials.
CredInv ==
    /\ CredTypes
    /\ IdpOK
    /\ \A p \in Procs : CommandOK(proc[p]) /\ HeldOK(proc[p]) /\ Exclusive(p) /\ AnswerOK(p)
    /\ \A n \in Names : EntryOK(n)


-----------------------------------------------------------------------------

\* The constants of the module.
LEMMA EntryTypes ==
  /\ NoEntry \in Entries /\ NoEntry.refresh = 0 /\ NoEntry.stamp = 0
  /\ AdHoc \in Names /\ Contexts \subseteq Names /\ Issuers \subseteq Blocks
  /\ {"unset", "disabled", "basic", Absent} \subseteq Blocks
  BY DEF NoEntry, Entries, Blocks, Names, Snaps

\* A process that has not begun.
LEMMA IdleIs ==
  /\ Idle \in Runs /\ Idle.cmd = "none" /\ Idle.pc = "idle" /\ Idle.held = NoEntry /\ Idle.answer = NoEntry
  BY EntryTypes DEF Idle, Runs, Commands, Places, FileCopies

\* A process that has ended.
LEMMA EndedIs ==
  ASSUME CredTypes, NEW p \in Procs
  PROVE  \E s \in Runs : Exits(p) = [proc EXCEPT ![p] = s] /\ s.pc = "done"
  <1> DEFINE s == [Idle EXCEPT !.pc = "done"]
  <1>1. s \in Runs /\ s.pc = "done"
    BY IdleIs DEF Runs, Places
  <1> QED
    BY <1>1 DEF Exits

\* A process that goes on.
LEMMA AtIs ==
  ASSUME CredTypes, NEW p \in Procs, NEW l \in Places
  PROVE  \E s \in Runs :
           /\ GoTo(p, l) = [proc EXCEPT ![p] = s]
           /\ s.pc = l /\ s.cmd = proc[p].cmd /\ s.name = proc[p].name
           /\ s.loaded = proc[p].loaded
           /\ l \in {"refused", "busy"} => s.held = proc[p].held
           /\ l = "locked" => s.answer = proc[p].answer
  <1>1. PICK h \in Entries : h = IF l \in {"refused", "busy"} THEN proc[p].held ELSE NoEntry
    BY EntryTypes DEF CredTypes, Runs
  <1>2. PICK a \in Entries : a = IF l = "locked" THEN proc[p].answer ELSE NoEntry
    BY EntryTypes DEF CredTypes, Runs
  <1> DEFINE s == [proc[p] EXCEPT !.pc = l, !.held = h, !.answer = a]
  <1>3. proc[p] \in Runs
    BY DEF CredTypes
  <1>4. /\ s \in Runs /\ s.pc = l /\ s.cmd = proc[p].cmd /\ s.name = proc[p].name
        /\ s.loaded = proc[p].loaded /\ s.held = h /\ s.answer = a
    BY <1>3 DEF Runs
  <1>5. GoTo(p, l) = [proc EXCEPT ![p] = s]
    BY <1>1, <1>2 DEF GoTo, CredTypes, Runs
  <1> QED
    BY <1>1, <1>2, <1>4, <1>5

\* A process moves, the cache stays, and the issuer grants nothing: what has
\* to be shown of the process is its own state, that a lock it takes was free,
\* and that an answer it drops is lost or was none.
LEMMA Moves ==
  ASSUME CredInv, NEW p \in Procs, NEW s \in Runs, proc' = [proc EXCEPT ![p] = s],
         cache' = cache, file' \in FileCopies, idp' \in Tokens,
         idp'.granted = idp.granted, idp'.live \subseteq idp.live, idp'.spent = idp.spent,
         idp.lost \subseteq idp'.lost,
         CommandOK(s), HeldOK(s)',
         Carrying(s) => /\ Carrying(proc[p]) /\ s.answer = proc[p].answer /\ s.name = proc[p].name
                        /\ s.pc = "answered" <=> proc[p].pc = "answered",
         proc[p].pc = "answered" /\ proc[p].held.refresh \in idp.spent
            => s.pc = "answered" \/ proc[p].held.refresh \in idp'.lost,
         \/ locks' = locks /\ (Holding(s) => Holding(proc[p]) /\ s.name = proc[p].name)
         \/ s.name \notin locks /\ locks' = locks \cup {s.name}
         \/ Holding(proc[p]) /\ locks' = locks \ {proc[p].name} /\ ~Holding(s)
  PROVE  CredInv'
  <1>1. proc'[p] = s /\ \A q \in Procs \ {p} : proc'[q] = proc[q]
    BY DEF CredInv, CredTypes
  <1>2. CredTypes'
    BY DEF CredInv, CredTypes, Runs
  <1>3. IdpOK'
    <2>1. \A r \in idp'.live \cup idp'.spent : r =< idp'.granted /\ r # 0
      BY DEF CredInv, IdpOK
    <2>2. idp'.live \cap idp'.spent = {}
      BY DEF CredInv, IdpOK
    <2>3. \A q \in Procs : Carrying(proc'[q]) => proc'[q].answer.refresh =< idp'.granted
      BY <1>1 DEF CredInv, IdpOK
    <2> QED
      BY <2>1, <2>2, <2>3 DEF CredInv, IdpOK
  <1>4. ASSUME NEW q \in Procs PROVE CommandOK(proc[q])' /\ HeldOK(proc[q])'
    <2>1. CASE q = p
      BY <1>1, <2>1
    <2>2. CASE q # p
      BY <1>1, <2>2 DEF CredInv, CommandOK, HeldOK
    <2> QED
      BY <2>1, <2>2
  <1>5. ASSUME NEW q \in Procs PROVE Exclusive(q)'
    <2>1. \A x, y \in Procs : Holding(proc[x]) => /\ proc[x].name \in locks
             /\ (Holding(proc[y]) /\ proc[y].name = proc[x].name => y = x)
      BY DEF CredInv, Exclusive
    <2> QED
      BY <1>1, <2>1 DEF Exclusive
  <1>6. ASSUME NEW q \in Procs PROVE AnswerOK(q)'
    <2>1. AnswerOK(q)
      BY DEF CredInv
    <2>2. ASSUME Carrying(proc'[q])
          PROVE  /\ Carrying(proc[q]) /\ proc'[q].answer = proc[q].answer
                 /\ proc'[q].name = proc[q].name
                 /\ proc'[q].pc = "answered" <=> proc[q].pc = "answered"
      BY <1>1, <2>2
    <2>3. \A x \in Procs : Carrying(proc'[x]) => Carrying(proc[x]) /\ proc'[x].answer = proc[x].answer
      BY <1>1
    <2> QED
      BY <2>1, <2>2, <2>3 DEF AnswerOK
  <1>7. ASSUME NEW n \in Names PROVE EntryOK(n)'
    <2>1. EntryOK(n)
      BY DEF CredInv
    <2>2. ASSUME NEW q \in Procs, proc[q].pc = "answered", proc[q].name = n,
                 cache[n].refresh \in idp.spent
          PROVE  cache[n].refresh \in idp'.lost \/ (proc'[q].pc = "answered" /\ proc'[q].name = n)
      <3>1. proc[q].held = cache[n]
        BY <2>2 DEF CredInv, HeldOK
      <3>2. CASE q # p
        BY <1>1, <2>2, <3>2
      <3>3. CASE q = p /\ s.pc = "answered"
        BY <1>1, <2>2, <3>3 DEF Carrying
      <3>4. CASE q = p /\ s.pc # "answered"
        BY <2>2, <3>1, <3>4
      <3> QED
        BY <3>2, <3>3, <3>4
    <2> QED
      BY <2>1, <2>2 DEF EntryOK
  <1> QED
    BY <1>2, <1>3, <1>4, <1>5, <1>6, <1>7 DEF CredInv

\* The holder of a lock writes its entry: what it carries, or nothing.
LEMMA Writes ==
  ASSUME CredInv, NEW p \in Procs, NEW s \in Runs, proc' = [proc EXCEPT ![p] = s],
         NEW e \in Entries, cache' = [cache EXCEPT ![proc[p].name] = e],
         file' = file, locks' = locks, idp' \in Tokens,
         idp'.granted = idp.granted, idp'.live = idp.live, idp'.spent = idp.spent, idp'.lost = idp.lost,
         Holding(proc[p]), s.name = proc[p].name, CommandOK(s), HeldOK(s)', ~Carrying(s),
         e.refresh = 0 \/ (Carrying(proc[p]) /\ e.refresh = proc[p].answer.refresh)
  PROVE  CredInv'
  <1>1. proc'[p] = s /\ \A q \in Procs \ {p} : proc'[q] = proc[q]
    BY DEF CredInv, CredTypes
  <1>2. PICK c \in Names : c = proc[p].name
    BY DEF CredInv, CredTypes, Runs
  <1>3. cache'[c] = e /\ \A n \in Names \ {c} : cache'[n] = cache[n]
    BY <1>2 DEF CredInv, CredTypes
  <1>4. CredTypes'
    BY <1>2 DEF CredInv, CredTypes
  <1>5. e.refresh =< idp.granted /\ e.refresh \notin idp.spent
    BY DEF CredInv, IdpOK, AnswerOK, CredTypes, Tokens
  <1>6. IdpOK'
    <2>1. \A n \in Names : cache'[n].refresh =< idp'.granted
      BY <1>3, <1>5 DEF CredInv, IdpOK
    <2>2. \A q \in Procs : Carrying(proc'[q]) => proc'[q].answer.refresh =< idp'.granted
      BY <1>1 DEF CredInv, IdpOK
    <2> QED
      BY <2>1, <2>2 DEF CredInv, IdpOK
  <1>7. \A q \in Procs \ {p} : Holding(proc[q]) => proc[q].name # c
    BY <1>2 DEF CredInv, Exclusive
  <1>8. ASSUME NEW q \in Procs PROVE CommandOK(proc[q])' /\ HeldOK(proc[q])'
    <2>1. CASE q = p
      BY <1>1, <2>1
    <2>2. CASE q # p
      <3>1. CommandOK(proc[q]) /\ HeldOK(proc[q]) /\ proc[q].name \in Names
        BY DEF CredInv, CredTypes, Runs
      <3>2. Holding(proc[q]) => cache'[proc[q].name] = cache[proc[q].name]
        BY <1>3, <1>7, <2>2, <3>1
      <3> QED
        BY <1>1, <2>2, <3>1, <3>2 DEF CommandOK, HeldOK, Holding
    <2> QED
      BY <2>1, <2>2
  <1>9. ASSUME NEW q \in Procs PROVE Exclusive(q)'
    <2>1. \A x, y \in Procs : Holding(proc[x]) => /\ proc[x].name \in locks
             /\ (Holding(proc[y]) /\ proc[y].name = proc[x].name => y = x)
      BY DEF CredInv, Exclusive
    <2> QED
      BY <1>1, <2>1 DEF Exclusive
  <1>10. ASSUME NEW q \in Procs PROVE AnswerOK(q)'
    <2>1. AnswerOK(q) /\ AnswerOK(p)
      BY DEF CredInv
    <2>2. \A x \in Procs : Carrying(proc'[x]) => x # p /\ proc'[x] = proc[x]
      BY <1>1
    <2>3. SUFFICES ASSUME Carrying(proc'[q]) PROVE AnswerOK(q)'
      BY DEF AnswerOK
    <2>4. q # p /\ proc'[q] = proc[q] /\ Carrying(proc[q])
      BY <2>2, <2>3
    <2>5. proc[q].answer.refresh # 0 => proc[q].answer.refresh # e.refresh
      BY <2>1, <2>4 DEF AnswerOK
    <2>6. \A n \in Names : cache'[n].refresh = proc[q].answer.refresh /\ proc[q].answer.refresh # 0
                             => proc[q].pc = "answered" /\ proc[q].name = n
      BY <1>3, <2>1, <2>4, <2>5 DEF AnswerOK
    <2> QED
      BY <2>1, <2>2, <2>4, <2>6 DEF AnswerOK
  <1>11. ASSUME NEW n \in Names PROVE EntryOK(n)'
    <2>1. EntryOK(n) /\ AnswerOK(p)
      BY DEF CredInv
    <2>2. \A m \in Names \ {c} : cache[m].refresh = e.refresh => e.refresh = 0
      BY <1>2, <2>1 DEF AnswerOK
    <2>3. \A m \in Names : cache'[m].refresh = cache'[n].refresh /\ m # n => cache'[n].refresh = 0
      BY <1>3, <2>1, <2>2 DEF EntryOK
    <2>4. CASE n = c
      BY <1>3, <1>5, <2>3, <2>4 DEF EntryOK
    <2>5. CASE n # c
      <3>1. \A q \in Procs : proc[q].pc = "answered" /\ proc[q].name = n => proc'[q] = proc[q]
        BY <1>1, <1>2, <2>5
      <3>2. cache'[n] = cache[n]
        BY <1>3, <2>5
      <3> QED
        BY <2>1, <2>3, <3>1, <3>2 DEF EntryOK
    <2> QED
      BY <2>4, <2>5
  <1> QED
    BY <1>4, <1>6, <1>8, <1>9, <1>10, <1>11 DEF CredInv

\* The issuer makes a grant: for a login, or for a refresh token it honours and
\* may rotate.
LEMMA Granted ==
  ASSUME CredInv, NEW p \in Procs, NEW s \in Runs, proc' = [proc EXCEPT ![p] = s],
         cache' = cache, file' = file, locks' = locks, idp' \in Tokens,
         idp'.granted = idp.granted + 1, idp'.live \subseteq idp.live \cup {idp.granted + 1},
         idp'.lost = idp.lost,
         \/ idp'.spent = idp.spent
         \/ /\ idp'.spent = idp.spent \cup {proc[p].held.refresh}
            /\ proc[p].held.refresh \notin idp'.live
            /\ s.pc = "answered" /\ s.answer.refresh = idp.granted + 1,
         \/ s.answer.refresh \in {0, idp.granted + 1}
         \/ s.pc = "answered" /\ s.answer.refresh = proc[p].held.refresh,
         s.pc = "answered" => proc[p].pc = "post" /\ proc[p].held.refresh \in idp.live,
         s.name = proc[p].name, Holding(s) <=> Holding(proc[p]), ~Carrying(proc[p]),
         CommandOK(s), HeldOK(s)'
  PROVE  CredInv'
  <1>14. PICK r \in Nat, k \in Nat : r = proc[p].held.refresh /\ k = idp.granted + 1
    BY DEF CredInv, CredTypes, Runs, Entries, Tokens
  <1>15. /\ idp'.granted = k /\ idp'.live \subseteq idp.live \cup {k}
         /\ \/ idp'.spent = idp.spent
            \/ idp'.spent = idp.spent \cup {r} /\ r \notin idp'.live /\ s.pc = "answered" /\ s.answer.refresh = k
         /\ s.answer.refresh \in {0, k} \/ (s.pc = "answered" /\ s.answer.refresh = r)
         /\ s.pc = "answered" => proc[p].pc = "post" /\ r \in idp.live
    BY <1>14
  <1> USE <1>14, <1>15
  <1>1. proc'[p] = s /\ \A q \in Procs \ {p} : proc'[q] = proc[q]
    BY DEF CredInv, CredTypes
  <1>2. CredTypes'
    BY DEF CredInv, CredTypes
  <1>3. k \in Nat /\ idp.granted \in Nat /\ k > idp.granted /\ k # 0
    BY DEF CredInv, CredTypes, Tokens
  <1>4. \A n \in Names : cache[n].refresh \in Nat /\ cache[n].refresh =< idp.granted
    BY DEF CredInv, CredTypes, IdpOK, Entries
  <1>5. PICK c \in Names : c = proc[p].name
    BY DEF CredInv, CredTypes, Runs
  <1>6. s.pc = "answered" => r = cache[c].refresh /\ r # 0 /\ r \notin idp.spent /\ r \in idp.live
    BY <1>5 DEF CredInv, HeldOK, IdpOK
  <1>7. \A x \in idp.live \cup idp.spent : x \in Nat /\ x =< idp.granted /\ x # 0
    BY DEF CredInv, IdpOK, CredTypes, Tokens
  <1>8. ASSUME NEW q \in Procs, q # p, Carrying(proc[q])
        PROVE  /\ proc[q].answer.refresh \in Nat /\ proc[q].answer.refresh =< idp.granted
               /\ s.pc = "answered" => proc[q].answer.refresh # r
    <2>1. proc[q].answer.refresh \in Nat /\ proc[q].answer.refresh =< idp.granted
      BY <1>8 DEF CredInv, IdpOK, CredTypes, Runs, Entries
    <2>2. ASSUME s.pc = "answered", proc[q].answer.refresh = r PROVE FALSE
      <3>1. AnswerOK(q) /\ Exclusive(p)
        BY DEF CredInv
      <3>2. proc[q].pc = "answered" /\ proc[q].name = c
        BY <1>6, <1>8, <2>2, <3>1 DEF AnswerOK
      <3> QED
        BY <1>5, <1>8, <2>2, <3>1, <3>2 DEF Exclusive, Holding
    <2> QED
      BY <2>1, <2>2
  <1>9. IdpOK'
    <2>1. \A x \in idp'.live \cup idp'.spent : x =< idp'.granted /\ x # 0
      BY <1>3, <1>6, <1>7
    <2>2. idp'.live \cap idp'.spent = {}
      BY <1>3, <1>7 DEF CredInv, IdpOK
    <2>3. \A n \in Names : cache'[n].refresh =< idp'.granted
      BY <1>3, <1>4
    <2>4. \A q \in Procs : Carrying(proc'[q]) => proc'[q].answer.refresh =< idp'.granted
      BY <1>1, <1>3, <1>4, <1>6, <1>8
    <2> QED
      BY <2>1, <2>2, <2>3, <2>4 DEF IdpOK
  <1>10. ASSUME NEW q \in Procs PROVE CommandOK(proc[q])' /\ HeldOK(proc[q])'
    <2>1. CASE q = p
      BY <1>1, <2>1
    <2>2. CASE q # p
      <3>1. CommandOK(proc[q]) /\ HeldOK(proc[q]) /\ proc[q].name \in Names
        BY DEF CredInv, CredTypes, Runs
      <3> QED
        BY <1>1, <2>2, <3>1 DEF CommandOK, HeldOK
    <2> QED
      BY <2>1, <2>2
  <1>11. ASSUME NEW q \in Procs PROVE Exclusive(q)'
    <2>1. \A x, y \in Procs : Holding(proc[x]) => /\ proc[x].name \in locks
             /\ (Holding(proc[y]) /\ proc[y].name = proc[x].name => y = x)
      BY DEF CredInv, Exclusive
    <2> QED
      BY <1>1, <2>1 DEF Exclusive
  <1>12. ASSUME NEW q \in Procs PROVE AnswerOK(q)'
    <2>1. CASE q = p
      <3>1. s.answer.refresh \notin idp'.spent
        BY <1>3, <1>6, <1>7
      <3>2. ASSUME NEW n \in Names, cache[n].refresh = s.answer.refresh, s.answer.refresh # 0
            PROVE  s.pc = "answered" /\ s.name = n
        <4>1. s.answer.refresh # k
          BY <1>3, <1>4, <3>2
        <4>2. s.pc = "answered" /\ s.answer.refresh = cache[c].refresh /\ EntryOK(n)
          BY <1>6, <3>2, <4>1 DEF CredInv
        <4> QED
          BY <1>5, <3>2, <4>2 DEF EntryOK
      <3>3. \A x \in Procs : Carrying(proc'[x]) /\ x # p /\ s.answer.refresh # 0
                               => proc'[x].answer.refresh # s.answer.refresh
        BY <1>1, <1>3, <1>8
      <3> QED
        BY <1>1, <2>1, <3>1, <3>2, <3>3 DEF AnswerOK
    <2>2. CASE q # p
      <3>1. AnswerOK(q) /\ proc'[q] = proc[q]
        BY <1>1, <2>2 DEF CredInv
      <3>2. Carrying(proc[q]) => proc[q].answer.refresh \notin idp'.spent
        BY <1>8, <2>2, <3>1 DEF AnswerOK
      <3>3. \A x \in Procs : Carrying(proc[q]) /\ Carrying(proc'[x]) /\ x # q /\ proc[q].answer.refresh # 0
                               => proc'[x].answer.refresh # proc[q].answer.refresh
        BY <1>1, <1>3, <1>8, <2>2, <3>1 DEF AnswerOK
      <3> QED
        BY <3>1, <3>2, <3>3 DEF AnswerOK
    <2> QED
      BY <2>1, <2>2
  <1>13. ASSUME NEW n \in Names PROVE EntryOK(n)'
    <2>1. EntryOK(n) /\ proc[p].pc # "answered"
      BY DEF CredInv, Carrying
    <2>2. CASE cache[n].refresh \in idp.spent
      BY <1>1, <2>1, <2>2 DEF EntryOK
    <2>3. CASE cache[n].refresh \notin idp.spent /\ cache[n].refresh \in idp'.spent
      <3>1. s.pc = "answered" /\ cache[n].refresh = r
        BY <2>3
      <3>2. n = c
        BY <1>6, <2>1, <3>1 DEF EntryOK
      <3> QED
        BY <1>1, <1>5, <2>1, <3>1, <3>2 DEF EntryOK
    <2> QED
      BY <2>1, <2>2, <2>3 DEF EntryOK
  <1> QED
    BY <1>2, <1>9, <1>10, <1>11, <1>12, <1>13 DEF CredInv

\* A process moves and nothing else does; it takes no lock and carries nothing.
LEMMA Quietly ==
  ASSUME CredInv, NEW p \in Procs, NEW s \in Runs, proc' = [proc EXCEPT ![p] = s],
         UNCHANGED <<file, cache, locks, idp>>, proc[p].pc # "answered",
         CommandOK(s), HeldOK(s), ~Carrying(s),
         Holding(s) => Holding(proc[p]) /\ s.name = proc[p].name
  PROVE  CredInv'
  <1>1. HeldOK(s)'
    BY DEF HeldOK
  <1> QED
    BY <1>1, Moves DEF CredInv, CredTypes

\* A command begins with the lock of nothing.
LEMMA BeginKeeps ==
  ASSUME CredInv, NEW p \in Procs, NEW n \in Names, NEW c \in Commands, NEW l \in Places,
         Begin(p, c, n, l), CommandOK([cmd |-> c, pc |-> l]),
         l \in {"apply", "auth", "lock", "save"}, c # "login" \/ l = "auth", ~(l = "save" /\ c = "delete")
  PROVE  CredInv'
  <1>1. PICK f \in FileCopies : f = IF c \in {"call", "logout"} THEN Idle.loaded ELSE file
    BY IdleIs DEF CredInv, CredTypes, Runs
  <1>2. SnapOf(file, n) \in Blocks
    BY EntryTypes DEF SnapOf, CredInv, CredTypes, FileCopies
  <1> DEFINE s == [Idle EXCEPT !.cmd = c, !.pc = l, !.name = n, !.snap = SnapOf(file, n), !.loaded = f]
  <1>3. s \in Runs /\ s.cmd = c /\ s.pc = l /\ s.name = n
    BY <1>1, <1>2, IdleIs DEF Runs
  <1>4. proc' = [proc EXCEPT ![p] = s] /\ proc[p].pc = "idle"
    BY <1>1 DEF Begin
  <1>5. CommandOK(s) /\ HeldOK(s) /\ ~Carrying(s) /\ ~Holding(s)
    BY <1>3 DEF CommandOK, HeldOK, Carrying, Holding
  <1> QED
    BY <1>3, <1>4, <1>5, Quietly DEF Begin

\* Any command begins.
LEMMA StartKeeps ==
  ASSUME CredInv, NEW p \in Procs, StartCommand(p)
  PROVE  CredInv'
  <1>1. PICK n \in Names : \/ StartCall(p, n) \/ StartLogin(p, n) \/ StartLogout(p, n)
                           \/ StartDelete(p, n) \/ StartUse(p, n)
    BY DEF StartCommand
  <1>2. CASE StartCall(p, n)
    BY <1>2, BeginKeeps DEF StartCall, CommandOK, Commands, Places
  <1>3. CASE StartLogin(p, n)
    BY <1>3, BeginKeeps DEF StartLogin, CommandOK, Commands, Places
  <1>4. CASE StartLogout(p, n)
    BY <1>4, BeginKeeps DEF StartLogout, CommandOK, Commands, Places
  <1>5. CASE StartDelete(p, n)
    BY <1>5, BeginKeeps DEF StartDelete, CommandOK, Commands, Places
  <1>6. CASE StartUse(p, n)
    BY <1>6, BeginKeeps DEF StartUse, CommandOK, Commands, Places
  <1> QED
    BY <1>1, <1>2, <1>3, <1>4, <1>5, <1>6

\* A process that ends, where it has no lock to leave and no answer to lose.
LEMMA EndKeeps ==
  ASSUME CredInv, NEW p \in Procs, proc' = Exits(p), UNCHANGED <<file, cache, locks, idp>>,
         proc[p].pc # "answered"
  PROVE  CredInv'
  <1>1. PICK s \in Runs : proc' = [proc EXCEPT ![p] = s] /\ s.pc = "done"
    BY EndedIs DEF CredInv
  <1>2. CommandOK(s) /\ HeldOK(s) /\ ~Carrying(s) /\ ~Holding(s)
    BY <1>1 DEF CommandOK, HeldOK, Carrying, Holding
  <1> QED
    BY <1>1, <1>2, Quietly

\* A process that goes on and takes or leaves nothing.
LEMMA GoKeeps ==
  ASSUME CredInv, NEW p \in Procs, NEW l \in Places, proc' = GoTo(p, l),
         UNCHANGED <<file, cache, locks, idp>>, proc[p].pc # "answered",
         \/ l = "lock" /\ proc[p].cmd # "login"
         \/ l = "release" /\ Holding(proc[p])
         \/ l = "save" /\ proc[p].cmd \in {"login", "use"}
         \/ l = "refused" /\ proc[p].pc = "post"
  PROVE  CredInv'
  <1>1. PICK s \in Runs : /\ proc' = [proc EXCEPT ![p] = s] /\ s.pc = l /\ s.cmd = proc[p].cmd
                          /\ s.name = proc[p].name
                          /\ l \in {"refused", "busy"} => s.held = proc[p].held
    BY AtIs DEF CredInv
  <1>2. CommandOK(proc[p]) /\ HeldOK(proc[p])
    BY DEF CredInv
  <1>3. CommandOK(s) /\ HeldOK(s) /\ ~Carrying(s)
    BY <1>1, <1>2 DEF CommandOK, HeldOK, Carrying
  <1>4. Holding(s) => Holding(proc[p]) /\ s.name = proc[p].name
    BY <1>1 DEF Holding
  <1> QED
    BY <1>1, <1>3, <1>4, Quietly

\* The places of a process by name.
LEMMA PlacesAre ==
  {"lock", "locked", "release", "save", "refused", "busy", "whoami", "drop"} \subseteq Places
  BY DEF Places

\* The steps without a write: the request, the login up to its grant, and the
\* answers that leave everything as it was.
LEMMA WaitingKeeps ==
  ASSUME CredInv, NEW p \in Procs,
         \/ Apply(p) \/ GiveUp(p) \/ Refresh(p) \/ Refuses(p)
         \/ GatewayAuth(p) \/ PollAgain(p) \/ PollStops(p) \/ Whoami(p)
  PROVE  CredInv'
  <1>1. proc[p] \in Runs /\ CommandOK(proc[p]) /\ HeldOK(proc[p])
    BY DEF CredInv, CredTypes
  <1>2. CASE Apply(p)
    <2>1. proc' = Exits(p) \/ proc' = GoTo(p, "lock")
      BY <1>2 DEF Apply
    <2>2. proc[p].pc = "apply" /\ proc[p].cmd = "call" /\ UNCHANGED <<file, cache, locks, idp>>
      BY <1>1, <1>2 DEF Apply, CommandOK
    <2> QED
      BY <2>1, <2>2, EndKeeps, GoKeeps, PlacesAre
  <1>3. CASE GiveUp(p)
    BY <1>3, EndKeeps DEF GiveUp
  <1>4. CASE Refresh(p)
    <2>1. proc[p].pc = "locked" /\ proc[p].cmd = "call" /\ UNCHANGED <<file, cache, locks, idp>>
      BY <1>4 DEF Refresh
    <2>2. CASE proc' = GoTo(p, "release")
      BY <2>1, <2>2, GoKeeps, PlacesAre DEF Holding
    <2>3. CASE /\ proc' = [proc EXCEPT ![p].pc = "post", ![p].held = cache[proc[p].name]]
               /\ NeedsRefresh(p, cache[proc[p].name])
      <3>1. PICK c \in Names : c = proc[p].name
        BY <1>1 DEF Runs
      <3>2. cache[c] \in Entries /\ cache[c].refresh # 0
        BY <2>3, <3>1 DEF NeedsRefresh, CredInv, CredTypes
      <3> DEFINE s == [proc[p] EXCEPT !.pc = "post", !.held = cache[c]]
      <3>3. /\ s \in Runs /\ s.pc = "post" /\ s.cmd = "call" /\ s.name = c /\ s.held = cache[c]
            /\ proc' = [proc EXCEPT ![p] = s]
        BY <1>1, <2>1, <2>3, <3>1, <3>2 DEF Runs, Places, CredInv, CredTypes
      <3>4. CommandOK(s) /\ HeldOK(s) /\ ~Carrying(s) /\ Holding(proc[p])
        BY <2>1, <3>2, <3>3 DEF CommandOK, HeldOK, Carrying, Holding
      <3> QED
        BY <2>1, <3>1, <3>3, <3>4, Quietly
    <2> QED
      BY <1>4, <2>2, <2>3 DEF Refresh
  <1>5. CASE Refuses(p)
    BY <1>5, GoKeeps, PlacesAre DEF Refuses
  <1>6. CASE GatewayAuth(p)
    <2>1. proc[p].pc = "auth" /\ proc[p].cmd = "login" /\ UNCHANGED <<file, cache, locks, idp>>
      BY <1>1, <1>6 DEF GatewayAuth, CommandOK
    <2>2. CASE proc' = Exits(p)
      BY <2>1, <2>2, EndKeeps
    <2>3. ASSUME NEW m \in Snaps \ {"unset"},
                 proc' = [proc EXCEPT ![p].snap = m,
                         ![p].every = IF m \in Issuers THEN 1 ELSE 0,
                         ![p].pc = IF m \in Issuers THEN "poll" ELSE "whoami"]
          PROVE  CredInv'
      <3>1. PICK e \in Nat : e = IF m \in Issuers THEN 1 ELSE 0
        OBVIOUS
      <3>2. PICK l \in {"poll", "whoami"} : l = IF m \in Issuers THEN "poll" ELSE "whoami"
        OBVIOUS
      <3> DEFINE s == [proc[p] EXCEPT !.snap = m, !.every = e, !.pc = l]
      <3>3. s \in Runs /\ s.pc = l /\ s.cmd = "login" /\ s.name = proc[p].name
        BY <1>1, <2>1, <3>1, <3>2 DEF Runs, Places, Blocks
      <3>4. proc' = [proc EXCEPT ![p] = s]
        BY <1>1, <2>3, <3>1, <3>2 DEF Runs, CredInv, CredTypes
      <3>5. CommandOK(s) /\ HeldOK(s) /\ ~Carrying(s) /\ ~Holding(s)
        BY <3>2, <3>3 DEF CommandOK, HeldOK, Carrying, Holding
      <3> QED
        BY <2>1, <3>3, <3>4, <3>5, Quietly
    <2> QED
      BY <1>6, <2>2, <2>3 DEF GatewayAuth
  <1>7. CASE PollAgain(p)
    <2>1. proc[p].pc = "poll" /\ proc[p].cmd = "login" /\ UNCHANGED <<file, cache, locks, idp>>
      BY <1>1, <1>7 DEF PollAgain, CommandOK
    <2>2. CASE proc' = Exits(p)
      BY <2>1, <2>2, EndKeeps
    <2>3. ASSUME NEW t \in Nat, NEW e \in Nat, proc' = [proc EXCEPT ![p].at = t, ![p].every = e]
          PROVE  CredInv'
      <3> DEFINE s == [proc[p] EXCEPT !.at = t, !.every = e]
      <3>1. s \in Runs /\ s.pc = "poll" /\ s.cmd = "login" /\ s.name = proc[p].name
            /\ proc' = [proc EXCEPT ![p] = s]
        BY <1>1, <2>1, <2>3 DEF Runs, CredInv, CredTypes
      <3>2. CommandOK(s) /\ HeldOK(s) /\ ~Carrying(s) /\ ~Holding(s)
        BY <3>1 DEF CommandOK, HeldOK, Carrying, Holding
      <3> QED
        BY <2>1, <3>1, <3>2, Quietly
    <2>4. PICK slow \in 0 .. 1, latency \in 0 .. 1 :
             LET every == proc[p].every + slow
                 next  == proc[p].at + latency + every
             IN proc' = IF next < PollDeadline
                        THEN [proc EXCEPT ![p].at = next, ![p].every = every]
                        ELSE Exits(p)
      BY <1>7 DEF PollAgain
    <2>5. proc[p].every + slow \in Nat /\ proc[p].at + latency + (proc[p].every + slow) \in Nat
      BY <1>1 DEF Runs
    <2> QED
      BY <2>2, <2>3, <2>4, <2>5
  <1>8. CASE PollStops(p)
    BY <1>8, EndKeeps DEF PollStops
  <1>9. CASE Whoami(p)
    <2>1. proc[p].pc = "whoami" /\ proc[p].cmd = "login" /\ UNCHANGED <<file, cache, locks, idp>>
      BY <1>1, <1>9 DEF Whoami, CommandOK
    <2>2. proc' = GoTo(p, "save") \/ proc' = Exits(p)
      BY <1>9 DEF Whoami
    <2> QED
      BY <2>1, <2>2, EndKeeps, GoKeeps, PlacesAre
  <1> QED
    BY <1>2, <1>3, <1>4, <1>5, <1>6, <1>7, <1>8, <1>9

\* The lock is taken and removed.
LEMMA LockKeeps ==
  ASSUME CredInv, NEW p \in Procs, Lock(p) \/ Release(p)
  PROVE  CredInv'
  <1>1. proc[p] \in Runs /\ CommandOK(proc[p]) /\ HeldOK(proc[p])
    BY DEF CredInv, CredTypes
  <1>2. CASE Lock(p)
    <2>1. PICK s \in Runs : /\ proc' = [proc EXCEPT ![p] = s] /\ s.pc = "locked"
                            /\ s.cmd = proc[p].cmd /\ s.name = proc[p].name
                            /\ s.answer = proc[p].answer
      BY <1>2, AtIs, PlacesAre DEF CredInv, Lock
    <2>2. proc[p].pc = "lock" /\ proc[p].name \notin locks /\ locks' = locks \cup {proc[p].name}
          /\ UNCHANGED <<file, cache, idp>>
      BY <1>2 DEF Lock
    <2>3. CommandOK(s) /\ HeldOK(s)'
      BY <2>1 DEF CommandOK, HeldOK
    <2>4. Carrying(s) => Carrying(proc[p])
      BY <2>1, <2>2 DEF Carrying
    <2> QED
      BY <2>1, <2>2, <2>3, <2>4, Moves DEF CredInv, CredTypes
  <1>3. CASE Release(p)
    <2>1. proc[p].pc = "release" /\ locks' = locks \ {proc[p].name} /\ UNCHANGED <<file, cache, idp>>
      BY <1>3 DEF Release
    <2>2. PICK s \in Runs : /\ proc' = [proc EXCEPT ![p] = s]
                            /\ s.pc = "done" \/ (s.pc = "whoami" /\ s.cmd = "login")
      <3>1. CASE proc[p].cmd = "login"
        <4>1. proc' = GoTo(p, "whoami")
          BY <1>3, <3>1 DEF Release
        <4> QED
          BY <3>1, <4>1, AtIs, PlacesAre DEF CredInv
      <3>2. CASE proc[p].cmd # "login"
        <4>1. proc' = Exits(p)
          BY <1>3, <3>2 DEF Release
        <4> QED
          BY <4>1, EndedIs DEF CredInv
      <3> QED
        BY <3>1, <3>2
    <2>3. CommandOK(s) /\ HeldOK(s)' /\ ~Carrying(s) /\ ~Holding(s) /\ Holding(proc[p])
      BY <2>1, <2>2 DEF CommandOK, HeldOK, Carrying, Holding
    <2> QED
      BY <2>1, <2>2, <2>3, Moves DEF CredInv, CredTypes
  <1> QED
    BY <1>2, <1>3

\* What an idp record looks like when only its counters or its lost set change.
LEMMA MishapIs ==
  ASSUME CredTypes, NEW x \in SUBSET Nat, NEW i, i = [idp EXCEPT !.mishaps = @ + 1, !.lost = x]
  PROVE  /\ i \in Tokens /\ i.granted = idp.granted /\ i.live = idp.live /\ i.spent = idp.spent
         /\ i.lost = x
  <1>1. idp \in Tokens
    BY DEF CredTypes
  <1>2. idp.mishaps + 1 \in Nat
    BY <1>1 DEF Tokens
  <1> QED
    BY <1>1, <1>2 DEF Tokens

\* A mishap: no answer, a request for time, a death.
LEMMA MishapKeeps ==
  ASSUME CredInv, NEW p \in Procs, Busy(p) \/ Unanswered(p) \/ Die(p)
  PROVE  CredInv'
  <1>1. proc[p] \in Runs /\ CommandOK(proc[p]) /\ HeldOK(proc[p]) /\ idp \in Tokens
    BY DEF CredInv, CredTypes
  <1>2. CASE Busy(p)
    <2>1. idp' = [idp EXCEPT !.mishaps = @ + 1] /\ UNCHANGED <<file, cache, locks>> /\ proc[p].pc = "post"
      BY <1>2 DEF Busy
    <2>2. PICK s \in Runs : /\ proc' = [proc EXCEPT ![p] = s] /\ s.pc = "busy"
                            /\ s.cmd = proc[p].cmd /\ s.name = proc[p].name /\ s.held = proc[p].held
      BY <1>2, AtIs, PlacesAre DEF CredInv, Busy
    <2>3. /\ idp' \in Tokens /\ idp'.granted = idp.granted /\ idp'.live = idp.live
          /\ idp'.spent = idp.spent /\ idp'.lost = idp.lost
      BY <1>1, <2>1 DEF Tokens
    <2>4. CommandOK(s) /\ HeldOK(s)' /\ ~Carrying(s) /\ Holding(proc[p])
      BY <1>1, <2>1, <2>2 DEF CommandOK, HeldOK, Carrying, Holding
    <2> QED
      BY <2>1, <2>2, <2>3, <2>4, Moves DEF CredInv, CredTypes
  <1>3. ASSUME NEW x \in SUBSET Nat, idp' = [idp EXCEPT !.mishaps = @ + 1, !.lost = x],
               idp.lost \subseteq x,
               proc[p].pc = "answered" /\ proc[p].held.refresh \in idp.spent => proc[p].held.refresh \in x,
               UNCHANGED <<file, cache, locks>>,
               NEW s \in Runs, proc' = [proc EXCEPT ![p] = s],
               s.pc = "dead" \/ (s.pc = "release" /\ Holding(proc[p]) /\ s.name = proc[p].name)
        PROVE  CredInv'
    <2>1. /\ idp' \in Tokens /\ idp'.granted = idp.granted /\ idp'.live = idp.live
          /\ idp'.spent = idp.spent /\ idp'.lost = x
      BY <1>3, MishapIs DEF CredInv
    <2>2. CommandOK(s) /\ HeldOK(s)' /\ ~Carrying(s) /\ (Holding(s) => Holding(proc[p]) /\ s.name = proc[p].name)
      BY <1>3 DEF CommandOK, HeldOK, Carrying, Holding
    <2> QED
      BY <1>3, <2>1, <2>2, Moves DEF CredInv, CredTypes
  <1>4. CASE Unanswered(p)
    <2>1. PICK x : x = IF proc[p].held.refresh \in idp.spent
                       THEN idp.lost \cup {proc[p].held.refresh} ELSE idp.lost
      OBVIOUS
    <2>2. x \in SUBSET Nat /\ idp.lost \subseteq x
          /\ (proc[p].held.refresh \in idp.spent => proc[p].held.refresh \in x)
      BY <1>1, <2>1 DEF Tokens
    <2>3. idp' = [idp EXCEPT !.mishaps = @ + 1, !.lost = x]
      BY <1>4, <2>1 DEF Unanswered
    <2>4. PICK s \in Runs : proc' = [proc EXCEPT ![p] = s] /\ s.pc = "release" /\ s.name = proc[p].name
      BY <1>4, AtIs, PlacesAre DEF CredInv, Unanswered
    <2>5. Holding(proc[p]) /\ UNCHANGED <<file, cache, locks>>
      BY <1>4 DEF Unanswered, Holding
    <2> QED
      BY <1>3, <2>2, <2>3, <2>4, <2>5
  <1>5. CASE Die(p)
    <2>1. PICK x : x = IF proc[p].pc = "answered" /\ proc[p].held.refresh \in idp.spent
                       THEN idp.lost \cup {proc[p].held.refresh} ELSE idp.lost
      OBVIOUS
    <2>2. x \in SUBSET Nat /\ idp.lost \subseteq x
          /\ (proc[p].pc = "answered" /\ proc[p].held.refresh \in idp.spent => proc[p].held.refresh \in x)
      BY <1>1, <2>1 DEF Tokens
    <2>3. idp' = [idp EXCEPT !.mishaps = @ + 1, !.lost = x]
      BY <1>5, <2>1 DEF Die
    <2> DEFINE s == [Idle EXCEPT !.pc = "dead"]
    <2>4. s \in Runs /\ proc' = [proc EXCEPT ![p] = s] /\ s.pc = "dead"
      BY <1>5, IdleIs DEF Die, Runs, Places
    <2> QED
      BY <1>3, <1>5, <2>2, <2>3, <2>4 DEF Die
  <1> QED
    BY <1>2, <1>4, <1>5

\* The contexts file is saved.
LEMMA SaveKeeps ==
  ASSUME CredInv, NEW p \in Procs, Save(p)
  PROVE  CredInv'
  <1>1. proc[p] \in Runs /\ CommandOK(proc[p]) /\ HeldOK(proc[p]) /\ file \in FileCopies
    BY DEF CredInv, CredTypes
  <1>2. proc[p].pc = "save" /\ UNCHANGED <<cache, locks, idp>>
    BY DEF Save
  <1>3. Changed(p) \in FileCopies
    <2>1. PICK f \in FileCopies, n \in Names, b \in Blocks :
             f = proc[p].loaded /\ n = proc[p].name /\ b = proc[p].snap
      BY <1>1 DEF Runs
    <2>2. CASE proc[p].cmd = "login"
      <3>1. Changed(p) = [f EXCEPT !.ctx[n] = b]
        BY <2>1, <2>2 DEF Changed
      <3> QED
        BY <3>1 DEF FileCopies
    <2>3. CASE proc[p].cmd = "use"
      <3>1. Changed(p) = [f EXCEPT !.current = n]
        BY <2>1, <2>3 DEF Changed
      <3> QED
        BY <3>1 DEF FileCopies
    <2>4. CASE proc[p].cmd = "delete"
      <3>1. PICK c \in Names \cup {Absent} : c = IF f.current = n THEN Absent ELSE f.current
        BY DEF FileCopies
      <3>2. Changed(p) = [f EXCEPT !.ctx[n] = Absent, !.current = c]
        BY <2>1, <2>4, <3>1 DEF Changed
      <3> QED
        BY <3>2, EntryTypes DEF FileCopies
    <2> QED
      BY <1>1, <1>2, <2>2, <2>3, <2>4 DEF CommandOK
  <1>4. file' \in FileCopies
    BY <1>1, <1>3 DEF Save
  <1>5. PICK s \in Runs : /\ proc' = [proc EXCEPT ![p] = s]
                          /\ \/ s.pc = "done"
                             \/ s.pc = "release" /\ proc[p].cmd = "delete" /\ s.name = proc[p].name
    <2>1. CASE proc[p].cmd = "delete"
      <3>1. proc' = GoTo(p, "release")
        BY <2>1 DEF Save
      <3> QED
        BY <2>1, <3>1, AtIs, PlacesAre DEF CredInv
    <2>2. CASE proc[p].cmd # "delete"
      <3>1. proc' = Exits(p)
        BY <2>2 DEF Save
      <3> QED
        BY <3>1, EndedIs DEF CredInv
    <2> QED
      BY <2>1, <2>2
  <1>6. CommandOK(s) /\ HeldOK(s)' /\ ~Carrying(s) /\ (Holding(s) => Holding(proc[p]) /\ s.name = proc[p].name)
    BY <1>2, <1>5 DEF CommandOK, HeldOK, Carrying, Holding
  <1> QED
    BY <1>2, <1>4, <1>5, <1>6, Moves DEF CredInv, CredTypes

\* A logout or a deletion that finds nothing, revokes, or fails.
LEMMA RevokeKeeps ==
  ASSUME CredInv, NEW p \in Procs,
         \/ Revoke(p)
         \/ (LogoutDeletes(p) \/ DeleteContext(p)) /\ UNCHANGED cache /\ proc' = GoTo(p, "release")
  PROVE  CredInv'
  <1>1. proc[p] \in Runs /\ idp \in Tokens
    BY DEF CredInv, CredTypes
  <1>2. PICK l \in {"release", "drop"} : proc' = GoTo(p, l) /\ (l = "drop" => proc[p].cmd = "logout")
    BY DEF Revoke, LogoutDeletes, DeleteContext
  <1>3. PICK s \in Runs : /\ proc' = [proc EXCEPT ![p] = s] /\ s.pc = l
                          /\ s.cmd = proc[p].cmd /\ s.name = proc[p].name
    BY <1>2, AtIs, PlacesAre DEF CredInv
  <1>4. /\ idp' \in Tokens /\ idp'.granted = idp.granted /\ idp'.live \subseteq idp.live
        /\ idp'.spent = idp.spent /\ idp'.lost = idp.lost
    <2>1. \/ idp' = idp \/ idp' = [idp EXCEPT !.mishaps = @ + 1]
          \/ idp' = [idp EXCEPT !.live = @ \ {cache[proc[p].name].refresh}]
      BY DEF Revoke, LogoutDeletes, DeleteContext
    <2> QED
      BY <1>1, <2>1 DEF Tokens
  <1>5. proc[p].pc \in {"locked", "drop"} /\ UNCHANGED <<file, cache, locks>>
    BY DEF Revoke, LogoutDeletes, DeleteContext
  <1>6. CommandOK(s) /\ HeldOK(s)' /\ ~Carrying(s) /\ Holding(proc[p])
    BY <1>2, <1>3, <1>5 DEF CommandOK, HeldOK, Carrying, Holding
  <1> QED
    BY <1>3, <1>4, <1>5, <1>6, Moves DEF CredInv, CredTypes

\* An entry goes: by a logout, a deleted context, or the issuer's refusal.
LEMMA DeletionKeeps ==
  ASSUME CredInv, NEW p \in Procs, LogoutDeletes(p) \/ DeleteContext(p) \/ Refused(p)
  PROVE  CredInv'
  <1>1. proc[p] \in Runs /\ CommandOK(proc[p]) /\ idp \in Tokens
    BY DEF CredInv, CredTypes
  <1>2. ASSUME cache' = [cache EXCEPT ![proc[p].name] = NoEntry], idp' = idp,
               UNCHANGED <<file, locks>>, Holding(proc[p]),
               proc' = GoTo(p, "release") \/ (proc' = GoTo(p, "save") /\ proc[p].cmd = "delete")
        PROVE  CredInv'
    <2>1. PICK s \in Runs : /\ proc' = [proc EXCEPT ![p] = s]
                            /\ s.cmd = proc[p].cmd /\ s.name = proc[p].name
                            /\ s.pc = "release" \/ (s.pc = "save" /\ proc[p].cmd = "delete")
      BY <1>2, AtIs, PlacesAre DEF CredInv
    <2>2. PICK c \in Names : c = proc[p].name
      BY <1>1 DEF Runs
    <2>3. cache'[c] = NoEntry
      BY <1>2, <2>2 DEF CredInv, CredTypes
    <2>4. CommandOK(s) /\ HeldOK(s)' /\ ~Carrying(s)
      BY <2>1, <2>2, <2>3 DEF CommandOK, HeldOK, Carrying
    <2> QED
      BY <1>1, <1>2, <2>1, <2>4, EntryTypes, Writes
  <1>3. CASE LogoutDeletes(p)
    <2>1. proc' = GoTo(p, "release") /\ proc[p].pc = "drop" /\ UNCHANGED <<file, locks>>
      BY <1>3 DEF LogoutDeletes
    <2>2. CASE UNCHANGED cache
      BY <1>3, <2>1, <2>2, RevokeKeeps
    <2>3. CASE cache' = [cache EXCEPT ![proc[p].name] = NoEntry] /\ UNCHANGED idp
      BY <1>2, <2>1, <2>3 DEF Holding
    <2> QED
      BY <1>3, <2>2, <2>3 DEF LogoutDeletes
  <1>4. CASE DeleteContext(p)
    <2>1. proc[p].pc = "locked" /\ proc[p].cmd = "delete" /\ UNCHANGED <<file, locks>>
      BY <1>4 DEF DeleteContext
    <2>2. CASE proc' = GoTo(p, "release") /\ UNCHANGED cache
      BY <1>4, <2>2, RevokeKeeps
    <2>3. CASE cache' = [cache EXCEPT ![proc[p].name] = NoEntry] /\ proc' = GoTo(p, "save") /\ UNCHANGED idp
      BY <1>2, <2>1, <2>3 DEF Holding
    <2> QED
      BY <1>4, <2>2, <2>3 DEF DeleteContext
  <1>5. CASE Refused(p)
    <2>1. proc[p].pc \in {"refused", "busy"} /\ proc' = GoTo(p, "release") /\ UNCHANGED <<file, locks, idp>>
      BY <1>5 DEF Refused
    <2>2. CASE UNCHANGED cache
      BY <2>1, <2>2, GoKeeps, PlacesAre DEF Holding
    <2>3. CASE cache' = [cache EXCEPT ![proc[p].name] = NoEntry]
      BY <1>2, <2>1, <2>3 DEF Holding
    <2> QED
      BY <1>5, <2>2, <2>3 DEF Refused
  <1> QED
    BY <1>3, <1>4, <1>5

\* An answer reaches its entry.
LEMMA RecordKeeps ==
  ASSUME CredInv, NEW p \in Procs, Record(p) \/ WriteEntry(p)
  PROVE  CredInv'
  <1>1. proc[p] \in Runs /\ idp \in Tokens
    BY DEF CredInv, CredTypes
  <1> DEFINE e == [proc[p].answer EXCEPT !.stamp = idp.stamps + 1]
  <1>2. e \in Entries /\ e.refresh = proc[p].answer.refresh
    BY <1>1 DEF Runs, Entries, Tokens
  <1>3. /\ cache' = [cache EXCEPT ![proc[p].name] = e]
        /\ idp' = [idp EXCEPT !.stamps = @ + 1] /\ proc' = GoTo(p, "release") /\ UNCHANGED <<file, locks>>
        /\ Carrying(proc[p]) /\ Holding(proc[p])
    BY DEF Record, WriteEntry, Carrying, Holding
  <1>4. /\ idp' \in Tokens /\ idp'.granted = idp.granted /\ idp'.live = idp.live
        /\ idp'.spent = idp.spent /\ idp'.lost = idp.lost
    BY <1>1, <1>3 DEF Tokens
  <1>5. PICK s \in Runs : proc' = [proc EXCEPT ![p] = s] /\ s.pc = "release" /\ s.name = proc[p].name
    BY <1>3, AtIs, PlacesAre DEF CredInv
  <1>6. CommandOK(s) /\ HeldOK(s)' /\ ~Carrying(s)
    BY <1>5 DEF CommandOK, HeldOK, Carrying
  <1> QED
    BY <1>2, <1>3, <1>4, <1>5, <1>6, Writes

\* The issuer answers a refresh or a poll with a grant.
LEMMA GrantKeeps ==
  ASSUME CredInv, NEW p \in Procs, Honours(p) \/ PollGranted(p)
  PROVE  CredInv'
  <1>1. proc[p] \in Runs /\ idp \in Tokens /\ CommandOK(proc[p]) /\ HeldOK(proc[p])
    BY DEF CredInv, CredTypes
  <1>2. PICK k \in Nat : k = idp.granted + 1
    BY <1>1 DEF Tokens
  <1>3. CASE Honours(p)
    <2>1. PICK r \in Nat : r = proc[p].held.refresh
      BY <1>1 DEF Runs, Entries
    <2>2. PICK rotates \in BOOLEAN, carries \in BOOLEAN :
          /\ idp' = [idp EXCEPT !.granted = k,
                        !.live  = IF rotates THEN (@ \ {r}) \cup {k} ELSE @,
                        !.spent = IF rotates THEN @ \cup {r} ELSE @]
          /\ proc' = [proc EXCEPT ![p].pc = "answered",
                        ![p].answer = [proc[p].held EXCEPT
                            !.token   = IF carries THEN k ELSE @,
                            !.refresh = IF rotates THEN k ELSE @]]
      BY <1>2, <1>3, <2>1 DEF Honours
    <2>3. proc[p].pc = "post" /\ r \in idp.live /\ UNCHANGED <<file, cache, locks>>
      BY <1>3, <2>1 DEF Honours
    <2>4. PICK x \in Nat, y \in Nat : /\ x = IF rotates THEN k ELSE r
                                      /\ y = IF carries THEN k ELSE proc[p].held.token
      BY <1>1 DEF Runs, Entries
    <2>5. PICK li \in SUBSET Nat, sp \in SUBSET Nat :
             /\ li = IF rotates THEN (idp.live \ {r}) \cup {k} ELSE idp.live
             /\ sp = IF rotates THEN idp.spent \cup {r} ELSE idp.spent
      BY <1>1 DEF Tokens
    <2>6. idp' = [idp EXCEPT !.granted = k, !.live = li, !.spent = sp]
      BY <1>1, <2>2, <2>5 DEF Tokens
    <2>7. /\ idp' \in Tokens /\ idp'.granted = k /\ idp'.live = li /\ idp'.spent = sp
          /\ idp'.lost = idp.lost
      BY <1>1, <2>6 DEF Tokens
    <2>8. PICK a : a = [proc[p].held EXCEPT !.token = y, !.refresh = x]
      OBVIOUS
    <2>15. a \in Entries /\ a.refresh = x
      BY <1>1, <2>8 DEF Runs, Entries
    <2>9. a = [proc[p].held EXCEPT !.token = IF carries THEN k ELSE @, !.refresh = IF rotates THEN k ELSE @]
      BY <1>1, <2>1, <2>4, <2>8 DEF Runs, Entries
    <2>16. PICK s : s = [proc[p] EXCEPT !.pc = "answered", !.answer = a]
      OBVIOUS
    <2>10. /\ s \in Runs /\ s.pc = "answered" /\ s.answer = a /\ s.name = proc[p].name
           /\ s.cmd = proc[p].cmd /\ s.held = proc[p].held
      BY <1>1, <2>15, <2>16 DEF Runs, Places
    <2>11. proc' = [proc EXCEPT ![p] = s]
      BY <1>1, <2>2, <2>9, <2>16 DEF CredInv, CredTypes, Runs
    <2>12. CommandOK(s) /\ HeldOK(s)' /\ Holding(s) /\ Holding(proc[p]) /\ ~Carrying(proc[p])
      BY <1>1, <2>3, <2>10 DEF CommandOK, HeldOK, Holding, Carrying
    <2>13. r =< idp.granted /\ r # k
      <3>1. IdpOK /\ idp.granted \in Nat
        BY <1>1 DEF CredInv, Tokens
      <3>2. r =< idp.granted
        BY <2>3, <3>1 DEF IdpOK
      <3> QED
        BY <1>2, <2>1, <3>1, <3>2
    <2>14. /\ idp'.live \subseteq idp.live \cup {k}
           /\ \/ idp'.spent = idp.spent
              \/ idp'.spent = idp.spent \cup {r} /\ r \notin idp'.live /\ s.pc = "answered" /\ s.answer.refresh = k
           /\ s.answer.refresh \in {0, k} \/ (s.pc = "answered" /\ s.answer.refresh = r)
      BY <2>4, <2>5, <2>7, <2>15, <2>10, <2>13
    <2> QED
      BY <1>2, <2>1, <2>3, <2>7, <2>10, <2>11, <2>12, <2>14, Granted
  <1>4. CASE PollGranted(p)
    <2>1. PICK r \in {0, k} :
          /\ idp' = [idp EXCEPT !.granted = k, !.live = @ \cup ({r} \ {0})]
          /\ proc' = [proc EXCEPT ![p].pc = "lock", ![p].at = 0, ![p].every = 0,
                         ![p].answer = [token |-> k, refresh |-> r, stamp |-> 0,
                                        issuer |-> proc[p].snap]]
      BY <1>2, <1>4 DEF PollGranted
    <2>2. proc[p].pc = "poll" /\ UNCHANGED <<file, cache, locks>>
      BY <1>4 DEF PollGranted
    <2>10. PICK a : a = [token |-> k, refresh |-> r, stamp |-> 0, issuer |-> proc[p].snap]
      OBVIOUS
    <2>11. PICK s : s = [proc[p] EXCEPT !.pc = "lock", !.at = 0, !.every = 0, !.answer = a]
      OBVIOUS
    <2>3. a \in Entries /\ a.refresh = r
      BY <1>1, <2>1, <2>10 DEF Runs, Entries
    <2>4. /\ s \in Runs /\ s.pc = "lock" /\ s.answer = a /\ s.name = proc[p].name
          /\ s.cmd = proc[p].cmd
      BY <1>1, <2>3, <2>11 DEF Runs, Places
    <2>5. proc' = [proc EXCEPT ![p] = s]
      BY <1>1, <2>1, <2>10, <2>11 DEF CredInv, CredTypes, Runs
    <2>6. CommandOK(s) /\ HeldOK(s)' /\ ~Holding(s) /\ ~Holding(proc[p]) /\ ~Carrying(proc[p])
      BY <2>2, <2>4 DEF CommandOK, HeldOK, Holding, Carrying
    <2>7. /\ idp' \in Tokens /\ idp'.granted = k /\ idp'.live \subseteq idp.live \cup {k}
          /\ idp'.spent = idp.spent /\ idp'.lost = idp.lost
      BY <1>1, <2>1 DEF Tokens
    <2>8. PICK h \in Nat : h = proc[p].held.refresh
      BY <1>1 DEF Runs, Entries
    <2>9. s.answer.refresh \in {0, k} /\ s.pc # "answered" /\ (Holding(s) <=> Holding(proc[p]))
      BY <2>1, <2>3, <2>4, <2>6
    <2> QED
      BY <1>2, <2>2, <2>4, <2>5, <2>6, <2>7, <2>8, <2>9, Granted
  <1> QED
    BY <1>3, <1>4

\* What happens around the processes: a lock file left behind is removed, a
\* token or a refresh token grows old.
LEMMA AroundKeeps ==
  ASSUME CredInv, UNCHANGED <<file, cache, proc>>,
         \/ (\A p \in Procs : ~Underway(p)) /\ locks' \subseteq locks /\ idp' = idp
         \/ /\ locks' = locks /\ idp' \in Tokens /\ idp'.granted = idp.granted
            /\ idp'.live \subseteq idp.live /\ idp'.spent = idp.spent /\ idp'.lost = idp.lost
  PROVE  CredInv'
  <1>1. CredTypes' /\ idp'.live \subseteq idp.live /\ idp'.spent = idp.spent /\ idp'.lost = idp.lost
        /\ idp'.granted = idp.granted
    BY DEF CredInv, CredTypes
  <1>2. IdpOK'
    <2>1. idp'.live \cap idp'.spent = {} /\ \A r \in idp'.live \cup idp'.spent : r =< idp'.granted /\ r # 0
      BY <1>1 DEF CredInv, IdpOK
    <2> QED
      BY <1>1, <2>1 DEF CredInv, IdpOK
  <1>3. ASSUME NEW p \in Procs
        PROVE  CommandOK(proc[p])' /\ HeldOK(proc[p])' /\ AnswerOK(p)'
    BY <1>1 DEF CredInv, CommandOK, HeldOK, AnswerOK
  <1>4. ASSUME NEW p \in Procs PROVE Exclusive(p)'
    BY DEF CredInv, Exclusive, Underway, Holding
  <1>5. ASSUME NEW n \in Names PROVE EntryOK(n)'
    BY <1>1 DEF CredInv, EntryOK
  <1> QED
    BY <1>1, <1>2, <1>3, <1>4, <1>5 DEF CredInv

\* One context at most is logged in to at the start, and nothing is under way.
LEMMA CredStart == CredInit => CredInv
  <1> SUFFICES ASSUME CredInit PROVE CredInv
    OBVIOUS
  <1>1. PICK i \in Issuers, sel \in Known \cup {Absent} :
          /\ file = [ctx |-> [n \in Contexts |-> IF n \in Known THEN i ELSE Absent], current |-> sel]
          /\ cache = [n \in Names |-> IF n \notin Known THEN NoEntry ELSE
                         [token |-> 1, refresh |-> 1, issuer |-> i, stamp |-> 0]]
    BY DEF CredInit
  <1> DEFINE e == [token |-> 1, refresh |-> 1, issuer |-> i, stamp |-> 0]
  <1>2. e \in Entries /\ e.refresh = 1 /\ i \in Blocks
    BY EntryTypes DEF Entries
  <1>3. Known \subseteq Contexts
    BY CredentialsAssumption
  <1>4. file \in FileCopies
    BY <1>1, <1>2, <1>3, EntryTypes DEF FileCopies
  <1>5. cache \in [Names -> Entries]
    BY <1>1, <1>2, EntryTypes
  <1>6. /\ idp \in Tokens /\ idp.granted = 1 /\ idp.live = {1} /\ idp.spent = {}
    BY DEF CredInit, Idp0, Tokens
  <1>7. CredTypes
    BY <1>4, <1>5, <1>6, IdleIs DEF CredTypes, CredInit
  <1>8. \A n \in Names : cache[n].refresh \in {0, 1} /\ (cache[n].refresh # 0 => n \in Known)
    BY <1>1, <1>2, EntryTypes
  <1>9. \A p \in Procs : proc[p] = Idle
    BY DEF CredInit
  <1>10. IdpOK
    BY <1>6, <1>8, <1>9, IdleIs DEF IdpOK, Carrying
  <1>11. \A p \in Procs : CommandOK(proc[p]) /\ HeldOK(proc[p]) /\ Exclusive(p) /\ AnswerOK(p)
    BY <1>9, IdleIs DEF CommandOK, HeldOK, Exclusive, AnswerOK, Holding, Carrying
  <1>12. \A n, m \in Known : n = m
    BY CredentialsAssumption
  <1>13. \A n \in Names : EntryOK(n)
    BY <1>6, <1>8, <1>12 DEF EntryOK
  <1> QED
    BY <1>7, <1>10, <1>11, <1>13 DEF CredInv

\* Every step keeps the invariant.
LEMMA CredStep == CredInv /\ [CredNext]_credVars => CredInv'
  <1> SUFFICES ASSUME CredInv, [CredNext]_credVars PROVE CredInv'
    OBVIOUS
  <1>1. ASSUME NEW p \in Procs, Step(p) PROVE CredInv'
    BY <1>1, WaitingKeeps, LockKeeps, MishapKeeps, SaveKeeps, RevokeKeeps, DeletionKeeps,
       RecordKeeps, GrantKeeps DEF Step
  <1>2. ASSUME NEW n \in Names, RemoveLock(n) PROVE CredInv'
    BY <1>2, AroundKeeps DEF RemoveLock
  <1>3. ASSUME NEW t \in Grants, Age(t) \/ RefreshTokenEnds(t) PROVE CredInv'
    <2>1. UNCHANGED <<file, cache, locks, proc>>
          /\ \/ idp' = [idp EXCEPT !.old = @ \cup {t}]
             \/ idp' = [idp EXCEPT !.live = @ \ {t}, !.over = @ \cup {t}]
      BY <1>3 DEF Age, RefreshTokenEnds
    <2>3. idp \in Tokens /\ t \in Nat
      BY CredentialsAssumption DEF CredInv, CredTypes, Grants
    <2>4. idp.old \cup {t} \in SUBSET Nat /\ idp.live \ {t} \in SUBSET Nat /\ idp.over \cup {t} \in SUBSET Nat
      BY <2>3 DEF Tokens
    <2>2. /\ idp' \in Tokens /\ idp'.granted = idp.granted /\ idp'.live \subseteq idp.live
          /\ idp'.spent = idp.spent /\ idp'.lost = idp.lost
      <3>1. CASE idp' = [idp EXCEPT !.old = @ \cup {t}]
        BY <2>3, <2>4, <3>1 DEF Tokens
      <3>2. CASE idp' = [idp EXCEPT !.live = @ \ {t}, !.over = @ \cup {t}]
        BY <2>3, <2>4, <3>2 DEF Tokens
      <3> QED
        BY <2>1, <3>1, <3>2
    <2> QED
      BY <2>1, <2>2, AroundKeeps
  <1>4. CASE UNCHANGED credVars
    <2>1. UNCHANGED <<file, cache, locks, proc, idp>> /\ idp \in Tokens
      BY <1>4 DEF credVars, CredInv, CredTypes
    <2> QED
      BY <2>1, AroundKeeps
  <1> QED
    BY <1>1, <1>2, <1>3, <1>4, StartKeeps, MishapKeeps DEF CredNext

\* The process writes the answer it carries to its entry.
Replaces(p) == Record(p) \/ WriteEntry(p)
\* The process deletes its entry: for the user, or because the issuer refused it.
Deletes(p) ==
    /\ cache' = [cache EXCEPT ![proc[p].name] = NoEntry]
    /\ \/ LogoutDeletes(p) \/ DeleteContext(p)
       \/ Refused(p) /\ Permanent(proc[p].pc)

\* Whose step it is that changes the cache, or the contexts file.
LEMMA WhoChanges ==
  ASSUME CredInv, [CredNext]_credVars
  PROVE  /\ cache' = cache \/ \E p \in Procs : Replaces(p) \/ Deletes(p)
         /\ file' = file \/ \E p \in Procs : Save(p) /\ file' = Changed(p)
  <1>1. CASE UNCHANGED <<cache, file>>
    BY <1>1
  <1>2. ASSUME NEW p \in Procs, StartCommand(p) \/ Die(p) PROVE UNCHANGED <<cache, file>>
    BY <1>2 DEF StartCommand, StartCall, StartLogin, StartLogout, StartDelete, StartUse, Begin, Die
  <1>3. (\E n \in Names : RemoveLock(n)) \/ (\E t \in Grants : Age(t) \/ RefreshTokenEnds(t))
        \/ UNCHANGED credVars => UNCHANGED <<cache, file>>
    BY DEF RemoveLock, Age, RefreshTokenEnds, credVars
  <1>4. ASSUME NEW p \in Procs, Step(p)
        PROVE  \/ UNCHANGED <<cache, file>>
               \/ (Replaces(p) \/ Deletes(p)) /\ file' = file
               \/ Save(p) /\ cache' = cache
    <2>1. CASE Record(p) \/ WriteEntry(p)
      BY <2>1 DEF Record, WriteEntry, Replaces
    <2>2. CASE LogoutDeletes(p)
      BY <2>2 DEF LogoutDeletes, Deletes
    <2>3. CASE DeleteContext(p)
      BY <2>3 DEF DeleteContext, Deletes
    <2>4. CASE Refused(p)
      BY <2>4 DEF Refused, Deletes
    <2>5. CASE Save(p)
      BY <2>5 DEF Save
    <2>6. CASE \/ Apply(p) \/ Lock(p) \/ GiveUp(p) \/ Release(p)
               \/ Refresh(p) \/ Honours(p) \/ Refuses(p) \/ Busy(p) \/ Unanswered(p)
               \/ GatewayAuth(p) \/ PollAgain(p) \/ PollStops(p) \/ PollGranted(p)
               \/ Whoami(p) \/ Revoke(p)
      BY <2>6 DEF Apply, Lock, GiveUp, Release, Refresh, Honours, Refuses, Busy, Unanswered,
                  GatewayAuth, PollAgain, PollStops, PollGranted, Whoami, Revoke
    <2> QED
      BY <1>4, <2>1, <2>2, <2>3, <2>4, <2>5, <2>6 DEF Step
  <1>5. ASSUME NEW p \in Procs, Save(p) PROVE file' = file \/ file' = Changed(p)
    BY <1>5 DEF Save
  <1> QED
    BY <1>1, <1>2, <1>3, <1>4, <1>5 DEF CredNext

\* A step changes no entry but by a login, a logout, a deleted context or the
\* issuer's refusal, and leaves no credential that no context names.
LEMMA StepFollows ==
  ASSUME CredInv, [CredNext]_credVars
  PROVE  OnlyALoginCreates /\ OnlyAnEndDeletes /\ NoOrphanByDelete
  <1>1. \A n \in Names : cache[n] \in Entries
    BY DEF CredInv, CredTypes
  <1>2. \A p \in Procs : proc[p] \in Runs /\ CommandOK(proc[p]) /\ HeldOK(proc[p])
    BY DEF CredInv, CredTypes
  <1>3. ASSUME NEW p \in Procs, Replaces(p)
        PROVE  /\ \A n \in Names : n # proc[p].name => cache'[n] = cache[n]
               /\ cache'[proc[p].name] # NoEntry
               /\ cache[proc[p].name] = NoEntry => proc[p].cmd = "login" /\ proc'[p] # proc[p]
               /\ file' = file
    <2>1. PICK c \in Names : c = proc[p].name
      BY <1>2 DEF Runs
    <2> DEFINE e == [proc[p].answer EXCEPT !.stamp = idp.stamps + 1]
    <2>2. cache' = [cache EXCEPT ![c] = e] /\ proc' = GoTo(p, "release") /\ file' = file
      BY <1>3, <2>1 DEF Replaces, Record, WriteEntry
    <2>3. e.stamp # 0
      BY <1>2 DEF CredInv, CredTypes, Tokens, Runs, Entries
    <2>4. cache'[c] = e /\ \A n \in Names \ {c} : cache'[n] = cache[n]
      BY <2>2 DEF CredInv, CredTypes
    <2>5. proc'[p].pc = "release" /\ proc[p].pc # "release"
      <3>1. PICK s \in Runs : proc' = [proc EXCEPT ![p] = s] /\ s.pc = "release"
        BY <2>2, AtIs, PlacesAre DEF CredInv
      <3> QED
        BY <1>3, <3>1 DEF Replaces, Record, WriteEntry, CredInv, CredTypes
    <2>6. proc[p].pc = "answered" => cache[c].refresh # 0
      BY <1>2, <2>1 DEF HeldOK
    <2>7. cache[c] = NoEntry => proc[p].cmd = "login"
      BY <1>3, <2>6, EntryTypes DEF Replaces, Record, WriteEntry
    <2> QED
      BY <2>1, <2>2, <2>3, <2>4, <2>5, <2>7, EntryTypes
  <1>4. ASSUME NEW p \in Procs, Deletes(p)
        PROVE  /\ \A n \in Names : n # proc[p].name => cache'[n] = cache[n]
               /\ cache'[proc[p].name] = NoEntry
               /\ proc'[p] # proc[p]
               /\ \/ proc[p].cmd \in {"logout", "delete"}
                  \/ proc[p].pc = "refused" /\ proc[p].held = cache[proc[p].name]
               /\ file' = file
    <2>1. PICK c \in Names : c = proc[p].name
      BY <1>2 DEF Runs
    <2>2. cache'[c] = NoEntry /\ \A n \in Names \ {c} : cache'[n] = cache[n]
      BY <1>4, <2>1 DEF Deletes, CredInv, CredTypes
    <2>3. file' = file
      BY <1>4 DEF Deletes, LogoutDeletes, DeleteContext, Refused
    <2>4. CASE Refused(p) /\ Permanent(proc[p].pc)
      <3>1. proc[p].pc = "refused" /\ proc[p].held = cache[c] /\ proc' = GoTo(p, "release")
        BY <1>2, <2>1, <2>4 DEF Permanent, HeldOK, Refused
      <3>2. PICK s \in Runs : proc' = [proc EXCEPT ![p] = s] /\ s.pc = "release"
        BY <3>1, AtIs, PlacesAre DEF CredInv
      <3>3. proc'[p] # proc[p]
        BY <3>1, <3>2 DEF CredInv, CredTypes
      <3> QED
        BY <2>1, <2>2, <2>3, <3>1, <3>3
    <2>5. CASE LogoutDeletes(p) \/ DeleteContext(p)
      <3>1. PICK l \in {"release", "save"} : proc' = GoTo(p, l)
        BY <2>5 DEF LogoutDeletes, DeleteContext
      <3>2. PICK s \in Runs : proc' = [proc EXCEPT ![p] = s] /\ s.pc = l
        BY <3>1, AtIs, PlacesAre DEF CredInv
      <3>3. proc'[p].pc = l /\ proc[p].pc \in {"drop", "locked"} /\ proc[p].cmd \in {"logout", "delete"}
        BY <1>2, <2>5, <3>2 DEF LogoutDeletes, DeleteContext, CommandOK, CredInv, CredTypes
      <3> QED
        BY <2>1, <2>2, <2>3, <3>3
    <2> QED
      BY <1>4, <2>4, <2>5 DEF Deletes
  <1>5. OnlyALoginCreates
    BY <1>3, <1>4, WhoChanges DEF OnlyALoginCreates
  <1>6. OnlyAnEndDeletes
    BY <1>1, <1>3, <1>4, WhoChanges DEF OnlyAnEndDeletes
  <1>7. NoOrphanByDelete
    <2> SUFFICES ASSUME NEW n \in Contexts, Orphan(n)', ~Orphan(n)
                 PROVE  \E p \in Procs : /\ proc'[p] # proc[p]
                                         /\ \/ proc[p].cmd = "login" /\ proc[p].name = n
                                            \/ proc[p].pc = "save" /\ proc[p].loaded # file
      BY DEF NoOrphanByDelete
    <2>1. n \in Names /\ cache'[n] # NoEntry /\ file'.ctx[n] = Absent
          /\ (cache[n] = NoEntry \/ file.ctx[n] # Absent)
      BY EntryTypes DEF Orphan
    <2>2. CASE cache[n] = NoEntry
      <3>1. PICK p \in Procs : Replaces(p)
        BY <1>4, <2>1, <2>2, WhoChanges
      <3> QED
        BY <1>3, <2>1, <2>2, <3>1
    <2>3. CASE cache[n] # NoEntry /\ file.ctx[n] # Absent
      <3>1. PICK p \in Procs : Save(p) /\ file' = Changed(p)
        BY <2>1, <2>3, WhoChanges
      <3>2. proc[p].pc = "save" /\ proc[p].cmd \in {"login", "use", "delete"}
        BY <1>2, <3>1 DEF Save, CommandOK
      <3>3. proc'[p] # proc[p]
        <4>1. proc' = GoTo(p, "release") \/ proc' = Exits(p)
          BY <3>1 DEF Save
        <4>2. PICK s \in Runs : proc' = [proc EXCEPT ![p] = s] /\ s.pc \in {"release", "done"}
          BY <4>1, AtIs, EndedIs, PlacesAre DEF CredInv
        <4> QED
          BY <3>2, <4>2 DEF CredInv, CredTypes
      <3>4. SUFFICES ASSUME ~(proc[p].cmd = "login" /\ proc[p].name = n), proc[p].loaded = file
                     PROVE  FALSE
        BY <3>2, <3>3
      <3>5. PICK c \in Names, b \in Blocks : c = proc[p].name /\ b = proc[p].snap
        BY <1>2 DEF Runs
      <3>6. file \in FileCopies
        BY DEF CredInv, CredTypes
      <3>7. CASE proc[p].cmd = "login"
        <4>1. file' = [file EXCEPT !.ctx[c] = b] /\ c # n
          BY <3>1, <3>4, <3>5, <3>7 DEF Changed
        <4> QED
          BY <2>1, <2>3, <3>6, <4>1 DEF FileCopies
      <3>8. CASE proc[p].cmd = "use"
        <4>1. file' = [file EXCEPT !.current = c]
          BY <3>1, <3>4, <3>5, <3>8 DEF Changed
        <4> QED
          BY <2>1, <2>3, <3>6, <4>1 DEF FileCopies
      <3>9. CASE proc[p].cmd = "delete"
        <4>1. cache[c] = NoEntry /\ c # n
          BY <1>2, <2>3, <3>2, <3>5, <3>9 DEF HeldOK
        <4>2. PICK x : file' = [file EXCEPT !.ctx[c] = Absent, !.current = x]
          BY <3>1, <3>4, <3>5, <3>9 DEF Changed
        <4> QED
          BY <2>1, <2>3, <3>6, <4>1, <4>2 DEF FileCopies
      <3> QED
        BY <3>2, <3>7, <3>8, <3>9
    <2> QED
      BY <2>1, <2>2, <2>3
  <1> QED
    BY <1>5, <1>6, <1>7

\* The invariant holds in every state the commands of a user reach: a token on
\* disk is spent only if its successor is lost or on its way there, and only
\* under the lock (refresh.go, cache.go).
THEOREM CredInvHolds == CredSpec => []CredInv
  BY CredStart, CredStep, PTL DEF CredSpec

\* No refresh token that was rotated away is presented again unless its
\* successor was lost (Refresh under the lock, Record).
THEOREM SpentOnlyWhenLostHolds == CredSpec => []SpentOnlyWhenLost
  <1>1. CredInv => SpentOnlyWhenLost
    <2> SUFFICES ASSUME CredInv, NEW p \in Procs, proc[p].pc = "post",
                        proc[p].held.refresh \in idp.spent
                 PROVE  proc[p].held.refresh \in idp.lost
      BY DEF SpentOnlyWhenLost
    <2>1. PICK n \in Names : n = proc[p].name /\ proc[p].held = cache[n] /\ EntryOK(n)
      BY DEF CredInv, CredTypes, Runs, HeldOK
    <2>2. \A q \in Procs : ~(proc[q].pc = "answered" /\ proc[q].name = n)
      BY <2>1 DEF CredInv, Exclusive, Holding
    <2> QED
      BY <2>1, <2>2 DEF EntryOK
  <1> QED
    BY <1>1, CredInvHolds, PTL

\* A credential comes by a login and leaves by a logout, with its context, or by a
\* refusal of its own refresh token (refused, logout, context delete).
THEOREM CacheFollows == CredSpec => CacheFollowsTheUser
  <1>1. CredInv /\ [CredNext]_credVars =>
          [OnlyALoginCreates /\ OnlyAnEndDeletes /\ NoOrphanByDelete]_credVars
    BY StepFollows
  <1> QED
    BY <1>1, CredInvHolds, PTL DEF CredSpec, CacheFollowsTheUser


-----------------------------------------------------------------------------
(* Listing: a walk is whole.  A page is what lies behind its cursor, the   *)
(* last row shown, so it suffices that what a page leaves out lies behind  *)
(* the cursor it returns: then nothing steady is ever on the wrong side.   *)

\* The listing's order is total on the identifiers.
LEMMA SortsAfterOrders ==
  /\ \A a, b \in Records : SortsAfter(a, b) => ~SortsAfter(b, a) /\ a # b
  /\ \A a, b \in Records : a = b \/ SortsAfter(a, b) \/ SortsAfter(b, a)
  /\ \A a, b, c \in Records : SortsAfter(a, b) /\ SortsAfter(b, c) => SortsAfter(a, c)
  <1>1. \A a \in Records : CreatedAt[a] \in Nat /\ a \in Nat
    BY ListingAssumption
  <1> QED
    BY <1>1 DEF SortsAfter

\* Newer identifiers have fewer at or above them.
LEMMA PlacesDiffer ==
  ASSUME NEW T \in SUBSET Records, IsFiniteSet(T), NEW a \in T, NEW b \in T, SortsAfter(b, a)
  PROVE  LET above(x) == {o \in T : ~SortsAfter(o, x)} IN
         /\ Cardinality(above(a)) \in Nat /\ Cardinality(above(b)) \in Nat
         /\ Cardinality(above(a)) < Cardinality(above(b))
  <1> DEFINE above(x) == {o \in T : ~SortsAfter(o, x)}
  <1>0. a \in Records /\ b \in Records /\ \A o \in T : o \in Records
    OBVIOUS
  <1>1. above(a) \in SUBSET above(b)
    <2> SUFFICES ASSUME NEW o \in T, ~SortsAfter(o, a), SortsAfter(o, b)
                 PROVE  FALSE
      OBVIOUS
    <2> QED
      BY <1>0, SortsAfterOrders
  <1>2. b \in above(b) /\ b \notin above(a)
    BY <1>0, SortsAfterOrders
  <1>3. above(a) \in SUBSET T /\ above(b) \in SUBSET T
    OBVIOUS
  <1> HIDE DEF above
  <1>4. IsFiniteSet(above(a)) /\ IsFiniteSet(above(b))
    BY <1>3, FS_Subset
  <1>5. Cardinality(above(a)) \in Nat /\ Cardinality(above(b)) \in Nat
    BY <1>4, FS_CardinalityType
  <1>6. Cardinality(above(a)) =< Cardinality(above(b)) /\ Cardinality(above(a)) # Cardinality(above(b))
    BY <1>1, <1>2, <1>4, FS_Subset
  <1>7. Cardinality(above(a)) < Cardinality(above(b))
    BY <1>5, <1>6
  <1> QED
    BY <1>5, <1>7 DEF above

\* A finite set of identifiers has a sequence in the order of the listing.
LEMMA ListingExists ==
  ASSUME NEW T \in SUBSET Records, IsFiniteSet(T)
  PROVE  \E s \in [1 .. Cardinality(T) -> T] :
            \A i, j \in DOMAIN s : i < j => s[i] # s[j] /\ ~SortsAfter(s[i], s[j])
  <1> DEFINE C == Cardinality(T)
  <1> DEFINE above(x) == {o \in T : ~SortsAfter(o, x)}
  <1> DEFINE place == [x \in T |-> Cardinality(above(x))]
  <1>0. \A o \in T : o \in Records
    OBVIOUS
  <1>1. C \in Nat /\ IsFiniteSet(1 .. C) /\ Cardinality(1 .. C) = C
    BY FS_CardinalityType, FS_Interval
  <1>2. ASSUME NEW x \in T
        PROVE  Cardinality(above(x)) \in 1 .. C
    <2>1. x \in above(x) /\ above(x) \in SUBSET T
      BY <1>0, SortsAfterOrders
    <2>2. IsFiniteSet(above(x)) /\ Cardinality(above(x)) =< C
      BY <2>1, FS_Subset
    <2>3. Cardinality(above(x)) \in Nat /\ Cardinality(above(x)) # 0
      BY <2>1, <2>2, FS_CardinalityType, FS_EmptySet
    <2> HIDE DEF above, C
    <2> QED
      BY <1>1, <2>2, <2>3
  <1>3. place \in [T -> 1 .. C]
    BY <1>2
  <1>4. ASSUME NEW x \in T, NEW y \in T, SortsAfter(y, x)
        PROVE  place[x] < place[y]
    BY <1>4, PlacesDiffer
  <1> HIDE DEF place
  <1>5. \A x, y \in T : place[x] = place[y] => x = y
    <2> SUFFICES ASSUME NEW x \in T, NEW y \in T, place[x] = place[y], x # y
                 PROVE  FALSE
      OBVIOUS
    <2>1. SortsAfter(x, y) \/ SortsAfter(y, x)
      BY <1>0, SortsAfterOrders
    <2>2. place[x] \in Nat /\ place[y] \in Nat
      BY <1>3
    <2> QED
      BY <1>4, <2>1, <2>2
  <1>6. place \in Injection(T, 1 .. C)
    BY <1>3, <1>5 DEF Injection, IsInjective
  <1>7. place \in Surjection(T, 1 .. C)
    BY <1>1, <1>6, FS_Injection
  <1>8. \A i \in 1 .. C : \E x \in T : place[x] = i
    BY <1>7 DEF Surjection
  <1> DEFINE s == [i \in 1 .. C |-> CHOOSE x \in T : place[x] = i]
  <1>9. s \in [1 .. C -> T] /\ \A i \in 1 .. C : place[s[i]] = i
    BY <1>8
  <1>10. DOMAIN s = 1 .. C
    OBVIOUS
  <1> HIDE DEF s
  <1>11. ASSUME NEW i \in 1 .. C, NEW j \in 1 .. C, i < j
         PROVE  s[i] # s[j] /\ ~SortsAfter(s[i], s[j])
    <2>1. s[i] \in T /\ s[j] \in T /\ place[s[i]] = i /\ place[s[j]] = j
      BY <1>9
    <2>2. ~(j < i) /\ i # j
      BY <1>11
    <2> QED
      BY <1>4, <2>1, <2>2
  <1> QED
    BY <1>9, <1>10, <1>11

\* What lies behind a position, each once and in the order of the listing.
Behind(r, f, after) == {id \in Listed(r, f) : after = Head0 \/ SortsAfter(id, after)}

LEMMA PageLists ==
  ASSUME NEW r, NEW f, NEW after
  PROVE  /\ Page(r, f, after) \in Seq(Records)
         /\ \A i, j \in 1 .. Len(Page(r, f, after)) :
               i < j => SortsAfter(Page(r, f, after)[j], Page(r, f, after)[i])
         /\ \A id : id \in Behind(r, f, after)
               <=> \E i \in 1 .. Len(Page(r, f, after)) : Page(r, f, after)[i] = id
  <1> DEFINE T == Behind(r, f, after)
  <1> DEFINE C == Cardinality(T)
  <1> DEFINE P == Page(r, f, after)
  <1>1. T \in SUBSET Records
    BY DEF Behind, Listed
  <1>2. IsFiniteSet(T)
    BY <1>1, ListingAssumption, FS_Subset
  <1>3. P = CHOOSE s \in [1 .. C -> T] :
               \A i, j \in DOMAIN s : i < j => s[i] # s[j] /\ ~SortsAfter(s[i], s[j])
    BY DEF Page, Behind
  <1> HIDE DEF T, P
  <1>4. \E s \in [1 .. C -> T] :
           \A i, j \in DOMAIN s : i < j => s[i] # s[j] /\ ~SortsAfter(s[i], s[j])
    BY <1>1, <1>2, ListingExists
  <1>5. /\ P \in [1 .. C -> T]
        /\ \A i, j \in DOMAIN P : i < j => P[i] # P[j] /\ ~SortsAfter(P[i], P[j])
    BY <1>3, <1>4
  <1>6. C \in Nat /\ IsFiniteSet(1 .. C) /\ Cardinality(1 .. C) = C
    BY <1>2, FS_CardinalityType, FS_Interval
  <1> HIDE DEF C
  <1>7. P \in Seq(Records) /\ Len(P) = C /\ DOMAIN P = 1 .. C
    BY <1>1, <1>5, <1>6
  <1>8. \A i, j \in 1 .. C : i < j => SortsAfter(P[j], P[i])
    <2> SUFFICES ASSUME NEW i \in 1 .. C, NEW j \in 1 .. C, i < j
                 PROVE  SortsAfter(P[j], P[i])
      OBVIOUS
    <2>1. P[i] \in Records /\ P[j] \in Records /\ P[i] # P[j] /\ ~SortsAfter(P[i], P[j])
      BY <1>1, <1>5, <1>7
    <2> QED
      BY <2>1, SortsAfterOrders
  <1>9. \A i, j \in 1 .. C : P[i] = P[j] => i = j
    BY <1>5, <1>6, <1>7
  <1>10. P \in Injection(1 .. C, T)
    BY <1>5, <1>9 DEF Injection, IsInjective
  <1>11. P \in Surjection(1 .. C, T)
    BY <1>2, <1>6, <1>10, FS_Injection DEF C
  <1>12. \A id : id \in T <=> \E i \in 1 .. C : P[i] = id
    BY <1>5, <1>11 DEF Surjection
  <1> QED
    BY <1>7, <1>8, <1>12 DEF P, T


\* The types of a walk.
WalkTypes ==
    /\ walk.rows \in Seq(Records)
    /\ walk.cursor \in Records \cup {Head0}
    /\ walk.steady \subseteq Records
    /\ walk = [pc |-> walk.pc, filter |-> walk.filter, cursor |-> walk.cursor, minted |-> walk.minted,
               requested |-> walk.requested, rows |-> walk.rows, steady |-> walk.steady]

\* Rows come in the order of the listing.
RowsSorted == \A i, j \in 1 .. Len(walk.rows) : i < j => SortsAfter(walk.rows[j], walk.rows[i])

Shown(id) == \E i \in 1 .. Len(walk.rows) : walk.rows[i] = id

\* A cursor is the last row; what is steady and was not shown lies behind it.
\* A walk without one has shown nothing.
Leaving ==
    walk.pc = "page" =>
        IF walk.cursor = Head0
        THEN walk.rows = <<>>
        ELSE /\ walk.rows # <<>> /\ walk.cursor = walk.rows[Len(walk.rows)]
             /\ walk.minted = walk.filter =>
                   \A id \in walk.steady : SortsAfter(id, walk.cursor) \/ Shown(id)

\* The inductive invariant.
WalkInv ==
    /\ WalkTypes /\ RowsSorted /\ Leaving
    /\ walk.pc = "whole" => \A id \in walk.steady : Shown(id)

\* A walk that has not begun.
LEMMA NoWalkInv ==
  ASSUME walk = NoWalk
  PROVE  WalkInv
  <1>1. /\ walk.pc = "idle" /\ walk.rows = <<>> /\ walk.cursor = Head0 /\ walk.steady = Records
        /\ walk = [pc |-> walk.pc, filter |-> walk.filter, cursor |-> walk.cursor, minted |-> walk.minted,
                   requested |-> walk.requested, rows |-> walk.rows, steady |-> walk.steady]
    BY DEF NoWalk
  <1>2. <<>> \in Seq(Records) /\ Len(<<>>) = 0
    BY EmptySeq
  <1>3. WalkTypes
    BY <1>1, <1>2 DEF WalkTypes
  <1>4. RowsSorted
    BY <1>1, <1>2 DEF RowsSorted
  <1>5. Leaving
    BY <1>1 DEF Leaving
  <1>6. walk.pc # "whole"
    BY <1>1
  <1> QED
    BY <1>3, <1>4, <1>5, <1>6 DEF WalkInv

\* The rows after a page: the page's follow those before.
LEMMA RowsFollow ==
  ASSUME NEW s \in Seq(Records), NEW p \in Seq(Records)
  PROVE  /\ s \o p \in Seq(Records) /\ Len(s \o p) = Len(s) + Len(p)
         /\ \A i \in 1 .. Len(s) : (s \o p)[i] = s[i] /\ i \in 1 .. Len(s \o p)
         /\ \A i \in 1 .. Len(p) : (s \o p)[Len(s) + i] = p[i] /\ Len(s) + i \in 1 .. Len(s \o p)
         /\ \A i \in 1 .. Len(s \o p) : i \in 1 .. Len(s) \/ i - Len(s) \in 1 .. Len(p)
  <1>1. Len(s) \in Nat /\ Len(p) \in Nat /\ s \o p \in Seq(Records) /\ Len(s \o p) = Len(s) + Len(p)
    BY ConcatProperties, LenProperties
  <1>2. \A i \in 1 .. Len(s) + Len(p) : (s \o p)[i] = IF i =< Len(s) THEN s[i] ELSE p[i - Len(s)]
    BY ConcatProperties
  <1>3. ASSUME NEW i \in 1 .. Len(s)
        PROVE  (s \o p)[i] = s[i] /\ i \in 1 .. Len(s \o p)
    <2>1. i \in 1 .. Len(s) + Len(p) /\ i =< Len(s)
      BY <1>1
    <2> QED
      BY <1>1, <1>2, <2>1
  <1>4. ASSUME NEW i \in 1 .. Len(p)
        PROVE  (s \o p)[Len(s) + i] = p[i] /\ Len(s) + i \in 1 .. Len(s \o p)
    <2>1. Len(s) + i \in 1 .. Len(s) + Len(p) /\ ~(Len(s) + i =< Len(s)) /\ Len(s) + i - Len(s) = i
      BY <1>1
    <2> QED
      BY <1>1, <1>2, <2>1
  <1>5. \A i \in 1 .. Len(s \o p) : i \in 1 .. Len(s) \/ i - Len(s) \in 1 .. Len(p)
    BY <1>1
  <1> QED
    BY <1>1, <1>3, <1>4, <1>5

\* A page is answered.
LEMMA ServedKeeps ==
  ASSUME WalkInv, NEW r, NEW limit \in Nat \ {0}, Served(r, limit)
  PROVE  WalkInv'
  <1>1. PICK all, f, s, c, rows : all = Page(r, f, c) /\ f = walk.filter /\ s = walk.steady /\ c = walk.cursor
                                  /\ rows = walk.rows
    OBVIOUS
  <1>2. /\ rows \in Seq(Records) /\ c \in Records \cup {Head0} /\ \A id \in s : id \in Records
        /\ Len(rows) \in Nat
    BY <1>1, LenProperties DEF WalkInv, WalkTypes
  <1>3. /\ all \in Seq(Records) /\ Len(all) \in Nat
        /\ \A i, j \in 1 .. Len(all) : i < j => SortsAfter(all[j], all[i])
        /\ \A id : id \in Behind(r, f, c) <=> \E i \in 1 .. Len(all) : all[i] = id
    BY <1>1, PageLists, LenProperties
  <1>4. PICK n : n \in 0 .. Len(all) /\ n = IF Len(all) > limit THEN limit ELSE Len(all)
    <2>1. (IF Len(all) > limit THEN limit ELSE Len(all)) \in 0 .. Len(all)
      BY <1>3
    <2> QED
      BY <2>1
  <1>5. PICK page : /\ page \in Seq(Records) /\ page = SubSeq(all, 1, n) /\ Len(page) = n
                    /\ \A i \in 1 .. n : page[i] = all[i]
    <2>1. n \in Nat /\ n =< Len(all)
      BY <1>3, <1>4
    <2>2. /\ SubSeq(all, 1, n) \in Seq(Records) /\ Len(SubSeq(all, 1, n)) = n
          /\ \A i \in 1 .. n : SubSeq(all, 1, n)[i] = all[i]
      <3>1. \A i \in 1 .. n : all[i] \in Records
        BY <1>3, <2>1, ElementOfSeq
      <3>2. SubSeq(all, 1, n) = [i \in 1 .. n |-> all[i]]
        BY <1>3, <2>1
      <3> QED
        BY <2>1, <3>1, <3>2
    <2> QED
      BY <2>2
  <1> DEFINE more == Len(all) > limit
  <1>6. /\ more => n = limit /\ n \in 1 .. Len(all)
        /\ ~more => n = Len(all)
    BY <1>3, <1>4
  <1> HIDE DEF more
  <1>7. more => n = limit /\ n \in 1 .. Len(all) /\ page[n] \in Records /\ page[n] = all[n]
    <2>1. more => n \in 1 .. Len(page) /\ n \in 1 .. n
      BY <1>5, <1>6
    <2> QED
      BY <1>5, <1>6, <2>1, ElementOfSeq
  <1>8. ~more => n = Len(all)
    BY <1>6
  <1>9. /\ walk.pc = "page" /\ (c # Head0 => walk.minted = f)
        /\ walk'.rows = rows \o page
        /\ walk'.steady = s \cap Listed(r, f)
        /\ walk'.cursor = IF more THEN page[n] ELSE c
        /\ walk'.minted = f /\ walk'.filter = f
        /\ walk'.pc \in {"page", "failed"} <=> more
        /\ walk'.pc = "whole" <=> ~more
        /\ walk' = [pc |-> walk'.pc, filter |-> walk'.filter, cursor |-> walk'.cursor, minted |-> walk'.minted,
                    requested |-> walk'.requested, rows |-> walk'.rows, steady |-> walk'.steady]
    <2>1. walk.pc = "page" /\ (c # Head0 => walk.minted = f)
      BY <1>1 DEF Served, CursorHonoured
    <2>2. walk' = [walk EXCEPT
                  !.rows = @ \o page,
                  !.steady = @ \cap Listed(r, f),
                  !.cursor = IF more THEN page[n] ELSE @,
                  !.minted = f,
                  !.requested = IF more THEN @ \cup {page[n]} ELSE @,
                  !.pc = IF ~more THEN "whole" ELSE IF page[n] \in walk.requested THEN "failed" ELSE "page"]
      BY <1>1, <1>4, <1>5 DEF Served, more
    <2>3. walk = [pc |-> walk.pc, filter |-> f, cursor |-> c, minted |-> walk.minted,
                  requested |-> walk.requested, rows |-> rows, steady |-> s]
      BY <1>1 DEF WalkInv, WalkTypes
    <2>4. walk' = [pc |-> IF ~more THEN "whole" ELSE IF page[n] \in walk.requested THEN "failed" ELSE "page",
                   filter |-> f, cursor |-> IF more THEN page[n] ELSE c, minted |-> f,
                   requested |-> IF more THEN walk.requested \cup {page[n]} ELSE walk.requested,
                   rows |-> rows \o page, steady |-> s \cap Listed(r, f)]
      BY <1>1, <2>2, <2>3
    <2> QED
      BY <2>1, <2>4
  <1>10. /\ rows \o page \in Seq(Records) /\ Len(rows \o page) = Len(rows) + n
         /\ \A i \in 1 .. Len(rows) : (rows \o page)[i] = rows[i] /\ i \in 1 .. Len(rows \o page)
         /\ \A i \in 1 .. n : (rows \o page)[Len(rows) + i] = all[i] /\ Len(rows) + i \in 1 .. Len(rows \o page)
         /\ \A i \in 1 .. Len(rows \o page) : i \in 1 .. Len(rows) \/ i - Len(rows) \in 1 .. n
    BY <1>2, <1>5, RowsFollow
  <1>11. WalkTypes'
    BY <1>2, <1>7, <1>9, <1>10 DEF WalkTypes
  <1>12. \A i, j \in 1 .. Len(rows) : i < j => SortsAfter(rows[j], rows[i])
    BY <1>1 DEF WalkInv, RowsSorted
  <1>13. \A i \in 1 .. Len(rows), j \in 1 .. Len(all) : SortsAfter(all[j], rows[i])
    <2> SUFFICES ASSUME NEW i \in 1 .. Len(rows), NEW j \in 1 .. Len(all)
                 PROVE  SortsAfter(all[j], rows[i])
      OBVIOUS
    <2>1. rows # <<>>
      BY EmptySeq
    <2>2. c # Head0 /\ c = rows[Len(rows)]
      BY <1>1, <1>9, <2>1 DEF WalkInv, Leaving
    <2>3. all[j] \in Behind(r, f, c)
      BY <1>3
    <2>4. SortsAfter(all[j], c)
      BY <2>2, <2>3 DEF Behind
    <2>5. c \in Records /\ all[j] \in Records /\ rows[i] \in Records
      BY <1>2, <1>3, <2>2, ElementOfSeq
    <2>6. i = Len(rows) \/ SortsAfter(c, rows[i])
      <3>1. Len(rows) \in 1 .. Len(rows)
        BY <1>2
      <3> QED
        BY <1>2, <1>12, <2>2, <3>1
    <2> QED
      BY <2>2, <2>4, <2>5, <2>6, SortsAfterOrders
  <1>14. RowsSorted'
    <2> SUFFICES ASSUME NEW i \in 1 .. Len(rows \o page), NEW j \in 1 .. Len(rows \o page), i < j
                 PROVE  SortsAfter((rows \o page)[j], (rows \o page)[i])
      BY <1>9 DEF RowsSorted
    <2>1. CASE j \in 1 .. Len(rows)
      <3>1. i \in 1 .. Len(rows)
        BY <2>1
      <3> QED
        BY <1>10, <1>12, <2>1, <3>1
    <2>2. CASE j - Len(rows) \in 1 .. n /\ i \in 1 .. Len(rows)
      <3>1. Len(rows) + (j - Len(rows)) = j /\ j - Len(rows) \in 1 .. Len(all)
        BY <1>2, <1>4, <2>2
      <3>2. (rows \o page)[j] = all[j - Len(rows)]
        BY <1>10, <2>2, <3>1
      <3> QED
        BY <1>10, <1>13, <2>2, <3>1, <3>2
    <2>3. CASE j - Len(rows) \in 1 .. n /\ i - Len(rows) \in 1 .. n
      <3>1. /\ Len(rows) + (j - Len(rows)) = j /\ j - Len(rows) \in 1 .. Len(all)
            /\ Len(rows) + (i - Len(rows)) = i /\ i - Len(rows) \in 1 .. Len(all)
            /\ i - Len(rows) < j - Len(rows)
        BY <1>2, <1>4, <2>3
      <3>2. (rows \o page)[j] = all[j - Len(rows)] /\ (rows \o page)[i] = all[i - Len(rows)]
        BY <1>10, <2>3, <3>1
      <3> QED
        BY <1>3, <3>1, <3>2
    <2> QED
      BY <1>10, <2>1, <2>2, <2>3
  <1>15. \A id : (\E i \in 1 .. Len(rows) : rows[i] = id) \/ (\E i \in 1 .. n : all[i] = id) => Shown(id)'
    BY <1>9, <1>10 DEF Shown
  <1>16. ASSUME NEW id \in walk'.steady
         PROVE  Shown(id)' \/ \E i \in 1 .. Len(all) : all[i] = id /\ ~(i =< n)
    <2>1. id \in s /\ id \in Listed(r, f)
      BY <1>9
    <2>2. CASE \E i \in 1 .. Len(rows) : rows[i] = id
      BY <1>15, <2>2
    <2>3. CASE id \in Behind(r, f, c)
      <3>1. PICK i \in 1 .. Len(all) : all[i] = id
        BY <1>3, <2>3
      <3>2. i =< n => i \in 1 .. n
        BY <1>4
      <3> QED
        BY <1>15, <3>1, <3>2
    <2>4. c # Head0 => SortsAfter(id, c) \/ \E i \in 1 .. Len(rows) : rows[i] = id
      BY <1>1, <1>9, <2>1 DEF WalkInv, Leaving, Shown
    <2> QED
      BY <2>1, <2>2, <2>3, <2>4 DEF Behind
  <1>17. walk'.pc = "whole" => \A id \in walk'.steady : Shown(id)'
    <2>1. n = Len(all) => \A i \in 1 .. Len(all) : i =< n
      BY <1>3
    <2> QED
      BY <1>8, <1>9, <1>16, <2>1
  <1>18. Leaving'
    <2> SUFFICES ASSUME more
                 PROVE  /\ walk'.cursor # Head0 /\ walk'.rows # <<>>
                        /\ walk'.cursor = walk'.rows[Len(walk'.rows)]
                        /\ \A id \in walk'.steady : SortsAfter(id, walk'.cursor) \/ Shown(id)'
      BY <1>9 DEF Leaving, Shown
    <2>1. page[n] \in Records /\ page[n] = all[n] /\ n \in 1 .. n /\ n \in 1 .. Len(all) /\ n > 0
      BY <1>7
    <2>2. page[n] # Head0
      BY <2>1, ListingAssumption DEF Head0
    <2>3. Len(rows \o page) > 0 /\ (rows \o page)[Len(rows \o page)] = all[n]
      BY <1>2, <1>10, <2>1
    <2>4. rows \o page # <<>>
      BY <2>3, EmptySeq
    <2>5. \A id \in walk'.steady : SortsAfter(id, all[n]) \/ Shown(id)'
      <3> SUFFICES ASSUME NEW id \in walk'.steady, NEW i \in 1 .. Len(all), all[i] = id, ~(i =< n)
                   PROVE  SortsAfter(id, all[n])
        BY <1>16
      <3>1. n < i
        BY <2>1
      <3> QED
        BY <1>3, <2>1, <3>1
    <2> QED
      BY <1>9, <2>1, <2>2, <2>3, <2>4, <2>5
  <1> QED
    BY <1>11, <1>14, <1>17, <1>18 DEF WalkInv


\* Other filters beside the cursor: nothing is claimed of it any more.
LEMMA RefiltersKeeps ==
  ASSUME WalkInv, NEW f, Refilters(f)
  PROVE  WalkInv'
  <1>1. /\ walk.pc = "page" /\ walk.cursor # Head0 /\ f # walk.minted
        /\ walk' = [pc |-> walk.pc, filter |-> f, cursor |-> walk.cursor, minted |-> walk.minted,
                    requested |-> walk.requested, rows |-> walk.rows, steady |-> Records]
    <2>1. walk.pc = "page" /\ walk.cursor # Head0 /\ f # walk.minted
      BY DEF Refilters
    <2>2. walk' = [walk EXCEPT !.filter = f, !.steady = Records]
      BY DEF Refilters
    <2>3. walk = [pc |-> walk.pc, filter |-> walk.filter, cursor |-> walk.cursor, minted |-> walk.minted,
                  requested |-> walk.requested, rows |-> walk.rows, steady |-> walk.steady]
      BY DEF WalkInv, WalkTypes
    <2> QED
      BY <2>1, <2>2, <2>3
  <1>2. /\ walk'.pc = "page" /\ walk'.cursor = walk.cursor /\ walk'.rows = walk.rows
        /\ walk'.minted # walk'.filter /\ walk'.steady = Records
        /\ walk' = [pc |-> walk'.pc, filter |-> walk'.filter, cursor |-> walk'.cursor, minted |-> walk'.minted,
                    requested |-> walk'.requested, rows |-> walk'.rows, steady |-> walk'.steady]
    BY <1>1
  <1>3. WalkTypes'
    BY <1>2 DEF WalkInv, WalkTypes
  <1>4. RowsSorted'
    BY <1>2 DEF WalkInv, RowsSorted
  <1>5. Leaving'
    BY <1>1, <1>2 DEF WalkInv, Leaving
  <1> QED
    BY <1>2, <1>3, <1>4, <1>5 DEF WalkInv

\* A walk that begins, or that shows nothing any more.
LEMMA NoWalkInvNext ==
  ASSUME NEW p \in {"page", "failed"}, NEW f, walk' = [NoWalk EXCEPT !.pc = p, !.filter = f]
  PROVE  WalkInv'
  <1>1. /\ walk'.pc = p /\ walk'.rows = <<>> /\ walk'.cursor = Head0 /\ walk'.steady = Records
        /\ walk' = [pc |-> walk'.pc, filter |-> walk'.filter, cursor |-> walk'.cursor, minted |-> walk'.minted,
                    requested |-> walk'.requested, rows |-> walk'.rows, steady |-> walk'.steady]
    BY DEF NoWalk
  <1>2. <<>> \in Seq(Records) /\ Len(<<>>) = 0
    BY EmptySeq
  <1>3. WalkTypes'
    BY <1>1, <1>2 DEF WalkTypes
  <1>4. RowsSorted'
    BY <1>1, <1>2 DEF RowsSorted
  <1>5. Leaving'
    BY <1>1 DEF Leaving
  <1>6. walk'.pc # "whole"
    BY <1>1
  <1> QED
    BY <1>3, <1>4, <1>5, <1>6 DEF WalkInv

LEMMA WalkStep ==
  ASSUME WalkInv, [ListNext]_listVars
  PROVE  WalkInv'
  <1>1. CASE walk' = walk
    BY <1>1 DEF WalkInv, WalkTypes, RowsSorted, Leaving, Shown
  <1>2. ASSUME NEW id, NEW s, StoreWrite(id, s)
        PROVE  walk' = walk
    BY <1>2 DEF StoreWrite
  <1>3. ASSUME NEW r, WatchDelivers(r)
        PROVE  walk' = walk
    BY <1>3 DEF WatchDelivers
  <1>4. ASSUME NEW r, NEW l \in Limits, Served(r, l)
        PROVE  WalkInv'
    BY <1>4, ServedKeeps, ListingAssumption
  <1>5. ASSUME NEW f, Begins(f)
        PROVE  WalkInv'
    BY <1>5, NoWalkInvNext DEF Begins
  <1>6. ASSUME NEW f, Refilters(f)
        PROVE  WalkInv'
    BY <1>6, RefiltersKeeps
  <1>7. ASSUME PageRefused \/ Unsynced
        PROVE  WalkInv'
    <2>1. walk' = [NoWalk EXCEPT !.pc = "failed"]
      BY <1>7 DEF PageRefused, Unsynced
    <2>2. walk' = [NoWalk EXCEPT !.pc = "failed", !.filter = NoWalk.filter]
      BY <2>1 DEF NoWalk
    <2> QED
      BY <2>2, NoWalkInvNext
  <1>8. CASE UNCHANGED listVars
    BY <1>1, <1>8 DEF listVars
  <1> QED
    BY <1>1, <1>2, <1>3, <1>4, <1>5, <1>6, <1>7, <1>8 DEF ListNext

\* A cursor neither skips nor repeats (walkCollections over serveCollectionList):
\* whatever replica answers each page, however far its cache lags, and whatever
\* is written between two pages, a walk shows no record twice and none before a
\* newer one, and one that ends shows every record that passed its filters
\* whenever a page was answered under them.
THEOREM WalkIsWholeHolds == ListSpec => []WalkIsWhole
  <1>1. ListInit => WalkInv
    <2> SUFFICES ASSUME ListInit PROVE WalkInv
      OBVIOUS
    <2>1. walk = NoWalk
      BY DEF ListInit
    <2> QED
      BY <2>1, NoWalkInv
  <1>2. WalkInv /\ [ListNext]_listVars => WalkInv'
    BY WalkStep
  <1>3. WalkInv => WalkIsWhole
    <2> SUFFICES ASSUME WalkInv PROVE WalkIsWhole
      OBVIOUS
    <2>1. walk.rows \in Seq(Records) /\ DOMAIN walk.rows = 1 .. Len(walk.rows)
      BY LenProperties DEF WalkInv, WalkTypes
    <2>2. ASSUME NEW i \in DOMAIN walk.rows, NEW j \in DOMAIN walk.rows, i < j
          PROVE  /\ walk.rows[i] # walk.rows[j]
                 /\ CreatedAt[walk.rows[i]] >= CreatedAt[walk.rows[j]]
      <3>1. PICK a, b \in Records : a = walk.rows[i] /\ b = walk.rows[j]
        BY <2>1, ElementOfSeq
      <3>2. SortsAfter(b, a)
        BY <2>1, <2>2, <3>1 DEF WalkInv, RowsSorted
      <3>3. a \in Nat /\ b \in Nat /\ CreatedAt[a] \in Nat /\ CreatedAt[b] \in Nat
        BY <3>1, ListingAssumption
      <3>4. a # b /\ CreatedAt[a] >= CreatedAt[b]
        BY <3>2, <3>3 DEF SortsAfter
      <3> QED
        BY <3>1, <3>4
    <2>3. walk.pc = "whole" => walk.steady \subseteq Range(walk.rows)
      BY <2>1 DEF WalkInv, Shown, Range
    <2> QED
      BY <2>2, <2>3 DEF WalkIsWhole
  <1> QED
    BY <1>1, <1>2, <1>3, PTL DEF ListSpec
=============================================================================
