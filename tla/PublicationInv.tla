-------------------------- MODULE PublicationInv ---------------------------
(***************************************************************************)
(* The inductive invariant of Publication: why a Service is never freed    *)
(* under its live Collection and a standing receipt is never deleted.      *)
(*                                                                         *)
(* Every delete anyone holds, or left behind in an indeterminate call,     *)
(* names a revision that is either no longer current or the revision of a  *)
(* key whose Collection can never be published again.                      *)
(***************************************************************************)
EXTENDS Publication

\* Where a publication stands.
Unwritten == {"idle", "lookup", "lookupRecord", "clearStale", "createJob"}
Holding   == {"createReceipt", "retryReceipt", "readReceipt", "readBound",
              "deleteBound", "recreateReceipt", "publish"}
Written   == Holding \cup {"createActive", "discard", "withdrawJob", "withdrawActive"}
Withdrawn == {"withdrawJob", "withdrawActive", "done"}
HasRead   == {"lookupRecord", "clearStale", "loserRecord", "readBound", "deleteBound"}

\* The write that publishes i is still under way.
PublishLate(i) == UpdateJob(i, 1, "pending") \in late

CanPublish(i) == pub[i].pc \in Holding \/ PublishLate(i)

\* The record was written and has ended; nothing brings it back.
Dead(i) == job[i].state \in Terminal \cup {"absent"} /\ job[i].rev >= 2

\* Deleted, or failed before it became claimable.
StaleDead(i) == Stale(job[i].state) /\ job[i].rev >= 2

\* Ended, or given up on before it was published.
GivenUp(i) == /\ pub[i].pc \in Withdrawn
              /\ ~PublishLate(i)
              /\ i \notin published
Released(i) == Dead(i) \/ GivenUp(i)

\* i is entitled to its Service, and to its key.
NeedsActive(i) ==
    \/ job[i].state \in Live
    \/ job[i].state = "initializing" /\ CanPublish(i)
NeedsReceipt(i) ==
    /\ Keyed(i)
    /\ \/ job[i].state \in Standing
       \/ job[i].state = "initializing" /\ (At(i, "publish") \/ PublishLate(i))

\* Revision r of the key was read holding i: it still does, or r is past.
ActiveSeen(s, i, r) ==
    /\ r <= active[s].rev
    /\ r = active[s].rev /\ active[s].id # NoId => active[s].id = i
ReceiptSeen(k, i, r) ==
    /\ r <= receipt[k].rev
    /\ r = receipt[k].rev /\ receipt[k].id # NoId => receipt[k].id = i

\* A delete at revision r harms nobody.
ActiveDoomed(s, r) ==
    /\ r <= active[s].rev
    /\ r = active[s].rev /\ active[s].id # NoId => Released(active[s].id)
ReceiptDoomed(k, r) ==
    /\ r <= receipt[k].rev
    /\ r = receipt[k].rev /\ receipt[k].id # NoId => StaleDead(receipt[k].id)

-----------------------------------------------------------------------------

\* The revision of a record tells how far it is.
RecordOK(i) ==
    /\ job[i].rev = 0 => job[i].state = "absent"
    /\ job[i].rev = 1 <=> job[i].state = "initializing"
    /\ i \notin published => job[i].state \in {"absent", "initializing", "notPublished"}
    /\ i \in published => job[i].state \in Standing \cup {"absent"} /\ job[i].rev >= 2

\* A key names a Collection of its own whose record was written.
NamesOK ==
    /\ \A s \in Services : active[s].id # NoId =>
            job[active[s].id].rev > 0 /\ ServiceOf[active[s].id] = s
    /\ \A k \in Keys : receipt[k].id # NoId =>
            job[receipt[k].id].rev > 0 /\ KeyOf[receipt[k].id] = k

\* What a publication knows at each point.
PubOK(i) ==
    LET p == pub[i] IN
    /\ p.pc \in Unwritten => job[i].rev = 0 /\ i \notin published
    /\ p.pc \in Written => job[i].rev >= 1 /\ p.rev = 1 /\ i \notin published
    /\ p.pc \in Holding \cup {"withdrawJob", "withdrawActive"} =>
          ActiveSeen(ServiceOf[i], i, p.arev)
    /\ p.pc \in (Holding \ {"publish"}) \cup HasRead \cup {"lookup", "loserLookup"} =>
          Keyed(i)
    /\ p.pc \in HasRead =>
          /\ p.rid \in Ids /\ KeyOf[p.rid] = KeyOf[i] /\ job[p.rid].rev > 0
          /\ ReceiptSeen(KeyOf[i], p.rid, p.rrev)
    /\ p.pc \in {"clearStale", "deleteBound"} => StaleDead(p.rid)
    /\ p.answer # NoId /\ Keyed(i) => KeyOf[p.answer] = KeyOf[i]

\* What an agent knows at each point.
AgentOK(a) ==
    LET g == agent[a] IN
    /\ g.pc # "idle" => g.id \in Ids /\ job[g.id].rev > 0
    /\ g.pc = "write" =>
          /\ g.rev <= job[g.id].rev /\ g.rev > 0
          /\ g.rev = job[g.id].rev => job[g.id].state = g.state
    /\ g.pc = "releaseRead" => Dead(g.id)
    /\ g.pc = "sweepRead" => ActiveSeen(ServiceOf[g.id], g.id, g.rev)
    /\ g.pc = "deleteActive" =>
          ActiveSeen(ServiceOf[g.id], g.id, g.rev) /\ Dead(g.id)
    /\ g.pc \in {"dropRead", "reconcileRead", "deleteReceipt"} => Keyed(g.id)
    /\ g.pc = "dropRead" => StaleDead(g.id)
    /\ g.pc = "reconcileRead" => ReceiptSeen(KeyOf[g.id], g.id, g.rev)
    /\ g.pc = "deleteReceipt" =>
          ReceiptSeen(KeyOf[g.id], g.id, g.rev) /\ StaleDead(g.id)

\* A record write that was not the publication's own create or publish, at a
\* revision that is past or that still allows it.
Overtaken(i) ==
    /\ pub[i].pc \in Withdrawn \cup {"loserLookup", "loserRecord"}
    /\ ~PublishLate(i)
    /\ i \notin published
UpdateOK(w) ==
    /\ w.to \notin {"absent", "initializing", "pending"}
    /\ w.rev > 0 /\ w.rev <= job[w.id].rev
    /\ w.rev = job[w.id].rev => w.to \in Successors(job[w.id].state)
DeleteOK(w) ==
    /\ w.to = "absent"
    /\ w.rev > 0 /\ w.rev <= job[w.id].rev
    /\ w.rev = job[w.id].rev => job[w.id].state \in Retirable \/ Overtaken(w.id)

\* What an indeterminate write can still do.
LateOK(w) ==
    /\ w.op = "createJob" =>
          w = CreateJob(w.id) /\ job[w.id].rev = 0 /\ At(w.id, "done")
    /\ w.op \notin {"createJob", "deleteReceipt"} => job[w.id].rev > 0
    /\ w.op = "updateJob" =>
          \/ /\ w = UpdateJob(w.id, 1, "pending")
             /\ At(w.id, "done") /\ w.id \notin published
          \/ UpdateOK(w)
    /\ w.op = "deleteJob" => DeleteOK(w)
    /\ w.op = "createActive" => w.to = "absent" /\ At(w.id, "done") /\ Overtaken(w.id)
    /\ w.op = "deleteActive" => w.to = "absent" /\ ActiveDoomed(ServiceOf[w.id], w.rev)
    /\ w.op \in {"createReceipt", "deleteReceipt"} => w.to = "absent" /\ Keyed(w.id)
    /\ w.op = "deleteReceipt" => ReceiptDoomed(KeyOf[w.id], w.rev)

\* Who is entitled to a Service or a key has it.
Entitled(i) ==
    /\ NeedsActive(i) => active[ServiceOf[i]].id = i
    /\ NeedsReceipt(i) => receipt[KeyOf[i]].id = i

IInv ==
    /\ TypeOK
    /\ \A i \in Ids : RecordOK(i) /\ PubOK(i) /\ Entitled(i)
    /\ NamesOK
    /\ \A a \in Agents : AgentOK(a)
    /\ \A w \in late : LateOK(w)
=============================================================================
