------------------------------ MODULE PollTimers ------------------------------
(***************************************************************************)
(* The clock of one poll: the timer columns of its row, the host's Start,  *)
(* Pause, Extend and Advance, and the sweeper that advances rounds whose   *)
(* time is up (service.go, StartTimer .. SweepDueTimers, advanceCore;      *)
(* httpapi/timer.go).                                                      *)
(*                                                                         *)
(* Every operation loads the whole row, works on its copy and writes all   *)
(* timer columns back by id (UpdatePollTimers); only the round itself is   *)
(* claimed by a compare and set.  A slot of Slots is one such operation;   *)
(* the sweeper is the slot Sweeper.  Time is a bounded counter.            *)
(***************************************************************************)
EXTENDS Naturals

CONSTANTS
  Slots,      \* operations that may be in flight at once
  Sweeper,    \* the slot of the background sweeper
  None,       \* NULL
  Horizon,    \* bounds the clock and every stored time
  MaxAborts   \* bounds how often an operation is cut short

ASSUME SweeperAssumption == Sweeper \in Slots
ASSUME NoneAssumption == None \notin Nat
ASSUME BoundsAssumption == Horizon \in Nat \ {0} /\ MaxAborts \in Nat

VARIABLES
  row,        \* the poll's stage and timer columns
  now,        \* the wall clock
  op,         \* op[s]: what slot s is doing
  aborts,     \* operations cut short so far
  disturbed   \* history: an operation was cut short, or took effect on a
              \* row that is no longer the one it loaded

vars == <<row, now, op, aborts, disturbed>>

Rounds == {1, 2}
Closed == 3
Time == 0 .. 2 * Horizon

Row == [stage : Rounds \cup {Closed},
        mode : {"quick", "scheduled"},
        dur : [Rounds -> Time],                     \* 0: untimed
        closes : [Rounds -> Time \cup {None}],      \* None: no running timer
        paused : Time]                              \* 0: not paused

\* at: "idle", "claim" (the compare and set of the stage) or "write"
\* (UpdatePollTimers); p: its copy of the row; to: the stage it claims or
\* has claimed; stale (history): the row has changed since it was loaded.
Op == [at : {"idle", "claim", "write"}, p : Row \cup {None},
       to : Rounds \cup {Closed, None}, stale : BOOLEAN]

Idle == [at |-> "idle", p |-> None, to |-> None, stale |-> FALSE]

\* applyDeadlineConfig: durations, of which one is set, or close times in the
\* future, of which one is set and the first is before the second.
Created(r) ==
  /\ r.stage = 1 /\ r.paused = 0
  /\ \/ /\ r.mode = "quick"
        /\ \E i \in Rounds : r.dur[i] > 0
        /\ \A i \in Rounds : r.closes[i] = None /\ r.dur[i] < Horizon
     \/ /\ r.mode = "scheduled"
        /\ \A i \in Rounds : r.dur[i] = 0
        /\ \E i \in Rounds : r.closes[i] # None
        /\ \A i \in Rounds : r.closes[i] # None => r.closes[i] \in 1 .. Horizon
        /\ None \notin {r.closes[1], r.closes[2]} => r.closes[1] < r.closes[2]

Init ==
  /\ row \in Row /\ Created(row)
  /\ now = 0
  /\ op = [s \in Slots |-> Idle]
  /\ aborts = 0
  /\ disturbed = FALSE

-----------------------------------------------------------------------------
(* The active round of a row. *)

ActiveClosesAt(p) == IF p.stage = Closed THEN None ELSE p.closes[p.stage]

ActiveDuration(p) == IF p.stage = Closed THEN 0 ELSE p.dur[p.stage]

SetActiveClosesAt(p, t) == [p EXCEPT !.closes[p.stage] = t]

Due(p) == ActiveClosesAt(p) # None /\ ActiveClosesAt(p) <= now

-----------------------------------------------------------------------------
(* Operation s goes on as o; if it changed the row, the copies that other    *)
(* operations hold are stale now.                                           *)

Proceed(s, o) ==
  op' = [t \in Slots |->
           IF t = s THEN o
           ELSE IF op[t] = Idle THEN Idle
           ELSE [op[t] EXCEPT !.stale = @ \/ row' # row]]

-----------------------------------------------------------------------------
(* The host's timer controls: load, work out the new row, write it.         *)

Prepare(s, p) ==
  /\ s # Sweeper /\ op[s] = Idle
  /\ op' = [op EXCEPT ![s] = [Idle EXCEPT !.at = "write", !.p = p]]
  /\ UNCHANGED <<row, now, aborts, disturbed>>

\* Resume a paused timer with what was left, or start an armed one.
StartTimer(s) ==
  /\ row.stage # Closed
  /\ \/ /\ row.paused > 0
        /\ Prepare(s, [SetActiveClosesAt(row, now + row.paused) EXCEPT !.paused = 0])
     \/ /\ row.paused = 0 /\ ActiveClosesAt(row) = None /\ ActiveDuration(row) > 0
        /\ Prepare(s, SetActiveClosesAt(row, now + ActiveDuration(row)))

\* Faulty variant: no floor.
RemainingExact(t) == t - now

\* At least one second is left, even when the time is up.
Remaining(t) == IF t > now THEN t - now ELSE 1

PauseTimer(s) ==
  /\ ActiveClosesAt(row) # None
  /\ Prepare(s, [SetActiveClosesAt(row, None)
                   EXCEPT !.paused = Remaining(ActiveClosesAt(row))])

\* One more second; no stored time grows beyond Horizon.
ExtendTimer(s) ==
  \/ /\ row.paused \in 1 .. Horizon - 1
     /\ Prepare(s, [row EXCEPT !.paused = @ + 1])
  \/ /\ row.paused = 0 /\ ActiveClosesAt(row) \in 0 .. Horizon - 1
     /\ Prepare(s, SetActiveClosesAt(row, ActiveClosesAt(row) + 1))
  \/ /\ row.paused = 0 /\ ActiveClosesAt(row) = None
     /\ ActiveDuration(row) \in 1 .. Horizon - 1
     /\ Prepare(s, [row EXCEPT !.dur[row.stage] = @ + 1])

\* UpdatePollTimers: all timer columns, whatever the row has become.
UpdatePollTimers(s) ==
  /\ op[s].at = "write"
  /\ row' = [op[s].p EXCEPT !.stage = row.stage]
  /\ disturbed' = (disturbed \/ op[s].stale)
  /\ Proceed(s, Idle)
  /\ UNCHANGED <<now, aborts>>

-----------------------------------------------------------------------------
(* Leaving a round: load, claim the stage, and on entering round 2 write    *)
(* the timers.  Whether round 1 leads to round 2 or straight to the end     *)
(* depends on the nominations (PollLifecycle).                              *)

BeginAdvance(s) ==
  /\ op[s] = Idle
  /\ row.stage # Closed
  /\ \E to \in {row.stage + 1, Closed} :
       op' = [op EXCEPT ![s] = [at |-> "claim", p |-> row, to |-> to, stale |-> FALSE]]
  /\ UNCHANGED <<row, now, aborts, disturbed>>

HostAdvance(s) == s # Sweeper /\ BeginAdvance(s)

\* Faulty variant: a round is swept one second early.
SweepEarly ==
  /\ ActiveClosesAt(row) # None /\ ActiveClosesAt(row) <= now + 1
  /\ BeginAdvance(Sweeper)

\* Faulty variant: only polls in round 1 are listed.
SweepRound1 == row.stage = 1 /\ Due(row) /\ BeginAdvance(Sweeper)

\* SweepDueTimers: the list it works through was read once, so the claim
\* below may come after the polls before this one took their time.
Sweep == Due(row) /\ BeginAdvance(Sweeper)

\* Faulty variant: the pause of round 1 is carried over.
EnterRound2Paused(p) ==
  LET q == [p EXCEPT !.stage = 2]
  IN IF p.mode = "quick" /\ p.dur[2] > 0
       THEN SetActiveClosesAt(q, now + p.dur[2]) ELSE q

\* Faulty variant: the voting clock waits for the host.
EnterRound2Armed(p) == [p EXCEPT !.stage = 2, !.paused = 0]

\* Entering round 2 ends a pause; a quick poll's voting clock starts.
EnterRound2(p) ==
  LET q == [p EXCEPT !.stage = 2, !.paused = 0]
  IN IF p.mode = "quick" /\ p.dur[2] > 0
       THEN SetActiveClosesAt(q, now + p.dur[2]) ELSE q

\* CompareAndSetStatus
ClaimStage(s) ==
  LET o == op[s] IN
  /\ o.at = "claim"
  /\ IF row.stage # o.p.stage
       THEN op' = [op EXCEPT ![s] = Idle] /\ UNCHANGED <<row, disturbed>>
       ELSE /\ row' = [row EXCEPT !.stage = o.to]
            /\ disturbed' = (disturbed \/ o.stale)
            /\ Proceed(s, IF o.to = 2
                            THEN [o EXCEPT !.at = "write", !.p = EnterRound2(o.p)]
                            ELSE Idle)
  /\ UNCHANGED <<now, aborts>>

-----------------------------------------------------------------------------

Tick == now < Horizon /\ now' = now + 1 /\ UNCHANGED <<row, op, aborts, disturbed>>

\* The request's context is cancelled, a statement fails or the process dies.
Abort(s) ==
  /\ aborts < MaxAborts
  /\ op[s] # Idle
  /\ op' = [op EXCEPT ![s] = Idle]
  /\ aborts' = aborts + 1
  /\ disturbed' = TRUE
  /\ UNCHANGED <<row, now>>

Host(s) == StartTimer(s) \/ PauseTimer(s) \/ ExtendTimer(s) \/ HostAdvance(s)

Continue(s) == UpdatePollTimers(s) \/ ClaimStage(s)

Rest == row.stage = Closed /\ now = Horizon /\ UNCHANGED vars

Next ==
  \/ \E s \in Slots : Host(s) \/ Continue(s) \/ Abort(s)
  \/ Sweep \/ Tick \/ Rest

\* Time passes, the sweeper's ticker fires for ever and what was started is
\* carried on; the host is free.
Fairness ==
  /\ WF_vars(Tick) /\ WF_vars(Sweep)
  /\ \A s \in Slots : WF_vars(Continue(s))

Spec == Init /\ [][Next]_vars /\ Fairness

-----------------------------------------------------------------------------
(* Properties. *)

TypeOK ==
  /\ row \in Row
  /\ now \in 0 .. Horizon
  /\ op \in [Slots -> Op]
  /\ aborts \in 0 .. MaxAborts
  /\ disturbed \in BOOLEAN

\* Round 2 is claimed, its timers are not written yet.
Opening == \E s \in Slots : op[s].at = "write" /\ op[s].to = 2

\* types.go: "TimerPausedSec > 0 means the active round's timer is paused".  A
\* pause of round 1 ends with it and none survives a resume, until an operation
\* takes effect on a row that another one changed.
PauseStopsClock ==
  disturbed \/ Opening \/ (row.paused > 0 => ActiveClosesAt(row) = None)

\* A quick poll that times its voting round has a clock there, running or
\* paused, once the operation that opened the round is through.
VotingIsTimed ==
  (~disturbed /\ ~Opening /\ row.stage = 2 /\ row.mode = "quick" /\ row.dur[2] > 0)
     => ActiveClosesAt(row) # None \/ row.paused > 0

\* SweepDueTimers "advances every poll whose active round's timer has run out",
\* and no other, however late the claim comes after the list and whatever was
\* cut short or overwritten before.  Only where the row changed after this sweep
\* read it (the list is stale) may a round be ended whose time is not up.
SweepsOnlyDueRounds ==
  [][(op[Sweeper].at = "claim" /\ op'[Sweeper].at # "claim" /\ row'.stage # row.stage)
       => Due(row) \/ op[Sweeper].stale]_vars

\* A round whose time is up does not stay that way: the sweeper ends it
\* unless the host gives it more time.
DueRoundIsLeft == Due(row) ~> ~Due(row)

=============================================================================
