------------------------------- MODULE Slots -------------------------------
(***************************************************************************)
(* When a Service is sampled: the slot arithmetic and the slot keys of     *)
(* internal/pgo/scheduler.go, and the sweep that forgets old keys          *)
(* (internal/pgo/sweeper.go, sweepSlots), on replicas whose clocks         *)
(* disagree, whose passes stall and whose view of the policy lags.         *)
(*                                                                         *)
(* One Service.  Whether it may be published at all is Ceiling's subject:  *)
(* here a pass that wins the slot key publishes.                           *)
(***************************************************************************)
EXTENDS Integers

CONSTANTS
    Replicas,
    Offset,      \* [Replicas -> Nat]: how far each clock is ahead of the last one
    Spread,      \* how far the clocks disagree
    Periods,     \* the values of schedule.every the limits allow
    Shortest,    \* pgo.limits.minEvery
    Hash,        \* [slots -> Nat]: FNV-1a of the Service and the slot
    Margin,      \* slotRetentionMargin
    Skew,        \* skewMargin
    MaxStall,    \* how long after reading the clock a pass may still write
    MaxChanges,  \* bound: changes of the policy
    LastTick,    \* bound: no pass begins after this time
    MaxTime      \* bound: true time ends here

Starts == 0 .. LastTick + Spread     \* slots a pass can compute

\* The retention covers every period the limits allow (pgo.limits.maxEvery is
\* at most slotRetentionMargin).
ASSUME PeriodAssumption ==
    /\ Periods # {} /\ Shortest \in Nat \ {0} /\ Margin \in Nat
    /\ \A e \in Periods : e \in Nat /\ Shortest =< e /\ e =< Margin

\* A pass, whose calls carry deadlines, writes its slot key within the shortest
\* period and the margin of reading its clock, less what the clocks disagree
\* by; times are whole units.
ASSUME ClockAssumption ==
    /\ {Skew, MaxStall, Spread} \subseteq Nat
    /\ Offset \in [Replicas -> 0 .. Spread]
    /\ MaxStall + Spread =< Shortest + Skew + 1

ASSUME OtherAssumption ==
    /\ Hash \in [Starts -> Nat]
    /\ {MaxChanges, LastTick, MaxTime} \subseteq Nat

VARIABLES
    now,      \* true time
    every,    \* the stored override's schedule.every
    known,    \* each replica's cached override
    slot,     \* schedule.<ns>.<svc>.<slot>: its retainUntil, 0 when absent
    pass,     \* each replica's pass over the Service
    fired,    \* publications begun for each slot
    left      \* policy changes still to come

vars == <<now, every, known, slot, pass, fired, left>>

Clock(r) == now + Offset[r]
Idle     == [slot |-> -1, every |-> 0, began |-> 0]

-----------------------------------------------------------------------------
(* Slot arithmetic.                                                        *)

\* Mutant of SlotFor: the number of the slot for its start.
SlotForIndex(t, e) == t \div e

\* floor(now / every) * every.
SlotFor(t, e) == t - (t % e)

\* The widest jitter Validate allows is half the period.
Jitter(e) == e \div 2

OffsetOf(s, e) == IF Jitter(e) = 0 THEN 0 ELSE Hash[s] % Jitter(e)

\* Mutant of RetainUntil: kept for a fixed time, whatever the period.
RetainUntilFixed(s, e) == s + Margin

RetainUntil(s, e) == s + e + Margin

-----------------------------------------------------------------------------
\* tick and consider: one reading of the clock decides the slot.
Begin(r) ==
    LET t == Clock(r)
        s == SlotFor(t, known[r])
    IN  /\ now =< LastTick
        /\ pass[r] = Idle
        /\ t >= s + OffsetOf(s, known[r])
        /\ pass' = [pass EXCEPT ![r] = [slot |-> s, every |-> known[r], began |-> now]]
        /\ UNCHANGED <<now, every, known, slot, fired, left>>

\* The pass was refused by the caches or the ceiling, or the view is past.
Skip(r) ==
    /\ pass[r] # Idle
    /\ pass' = [pass EXCEPT ![r] = Idle]
    /\ UNCHANGED <<now, every, known, slot, fired, left>>

Present(s) == slot[s] > 0
Key(s, e)  == slot' = [slot EXCEPT ![s] = RetainUntil(s, e)]
Publish(s) == fired' = [fired EXCEPT ![s] = @ + 1]

\* createSlot: won and published; lost; or without an answer, when the key may
\* be there but nothing is published for it.
CreateSlot(r) ==
    LET s == pass[r].slot
        e == pass[r].every
    IN  /\ pass[r] # Idle
        /\ \/ ~Present(s) /\ Key(s, e) /\ Publish(s)
           \/ Present(s) /\ UNCHANGED <<slot, fired>>
           \/ ~Present(s) /\ Key(s, e) /\ UNCHANGED fired
        /\ pass' = [pass EXCEPT ![r] = Idle]
        /\ UNCHANGED <<now, every, known, left>>

\* Mutant of Expired: the current policy decides, as if slots never overlapped.
ExpiredByPolicy(r, s) == Present(s) /\ s % known[r] = 0 /\ slot[s] + Skew < Clock(r)

Expired(r, s) == Present(s) /\ slot[s] + Skew < Clock(r)

\* sweepSlots: the key's own value decides.  The delete is conditional, so one
\* decided from a cached key the store has moved past changes nothing.
SweepSlot(r, s) ==
    /\ Expired(r, s)
    /\ slot' = [slot EXCEPT ![s] = 0]
    /\ UNCHANGED <<now, every, known, pass, fired, left>>

-----------------------------------------------------------------------------
(* The policy and time.                                                    *)

DeliverPolicy(r) ==
    /\ known[r] # every
    /\ known' = [known EXCEPT ![r] = every]
    /\ UNCHANGED <<now, every, slot, pass, fired, left>>

ChangePolicy ==
    /\ left > 0
    /\ every' \in Periods \ {every}
    /\ left' = left - 1
    /\ UNCHANGED <<now, known, slot, pass, fired>>

\* A pass is over before its stall would exceed the bound.
Time ==
    /\ now < MaxTime
    /\ \A r \in Replicas : pass[r] # Idle => now < pass[r].began + MaxStall
    /\ now' = now + 1
    /\ UNCHANGED <<every, known, slot, pass, fired, left>>

Init ==
    /\ now = 0
    /\ every \in Periods
    /\ known = [r \in Replicas |-> every]
    /\ slot = [s \in Starts |-> 0]
    /\ pass = [r \in Replicas |-> Idle]
    /\ fired = [s \in Starts |-> 0]
    /\ left = MaxChanges

Next ==
    \/ \E r \in Replicas :
          \/ Begin(r) \/ Skip(r) \/ CreateSlot(r) \/ DeliverPolicy(r)
          \/ \E s \in Starts : SweepSlot(r, s)
    \/ ChangePolicy \/ Time

Spec == Init /\ [][Next]_vars

\* Time passes, a pass ends and sweeps recur.
Fairness ==
    /\ WF_vars(Time)
    /\ \A r \in Replicas : WF_vars(Skip(r) \/ CreateSlot(r))
    /\ WF_vars(\E r \in Replicas, s \in Starts : SweepSlot(r, s))

FairSpec == Spec /\ Fairness

-----------------------------------------------------------------------------
(* Properties.                                                             *)

PassType == [slot : Starts \cup {-1}, every : Periods \cup {0}, began : Nat]

\* Types; a pass is about a slot its clock had reached and not yet left.
TypeOK ==
    /\ now \in Nat /\ every \in Periods /\ known \in [Replicas -> Periods]
    /\ slot \in [Starts -> Nat] /\ fired \in [Starts -> Nat] /\ left \in Nat
    /\ pass \in [Replicas -> PassType]
    /\ \A r \in Replicas : pass[r] # Idle =>
          /\ pass[r].slot \in Starts /\ pass[r].every \in Periods
          /\ pass[r].slot =< pass[r].began + Offset[r]
          /\ pass[r].began + Offset[r] < pass[r].slot + pass[r].every

\* At most one publication is begun for a slot, by all replicas together and
\* for all time: not by a clock that is behind, not by a pass that stalls past
\* the end of its slot, not after the policy changed the slot's length, and
\* not after the sweep forgot the key (Scheduler, createSlot, sweepSlots).
OncePerSlot == \A s \in Starts : fired[s] =< 1

\* Once passes stop, every slot key is forgotten in the end, also one whose
\* create was never answered or whose period the policy left (sweepSlots).
KeysReclaimed == <>[](\A s \in Starts : ~Present(s))

=============================================================================
