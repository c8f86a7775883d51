----------------------------- MODULE PollSweeper -----------------------------
(***************************************************************************)
(* The two background loops over all polls: the sweeper that ends rounds   *)
(* whose time is up and tells the pages (service.go, SweepDueTimers and    *)
(* advanceCore; httpapi/timer.go, RunTimerSweeper), and the one that       *)
(* deletes old polls (admin.go, RunRetentionSweeper; store.go,             *)
(* DeleteClosedPollsBefore).  A sweep reads all due polls at once and then *)
(* works through its copies; an error ends it.                             *)
(*                                                                         *)
(* What the host does to one clock is PollTimers' subject: here it happens *)
(* in a step.  Time is counted in half seconds, the precision that matters *)
(* when times are compared as text.                                        *)
(***************************************************************************)
EXTENDS Integers, FiniteSets

CONSTANTS
  Polls,
  None,
  Retention,    \* half seconds that a closed poll is kept (whole days)
  Horizon,      \* bounds the clock and all deadlines
  MaxTouches,   \* bounds how often hosts set clocks
  MaxFailures   \* bounds failing statements and crashes

ASSUME SweeperAssumption ==
  /\ None \notin Nat
  /\ Retention \in Nat /\ Retention % 2 = 0
  /\ Horizon \in Nat \ {0} /\ {MaxTouches, MaxFailures} \subseteq Nat

VARIABLES
  row,        \* the polls' rows
  now,        \* the wall clock
  sw,         \* the sweeper
  owed,       \* history: polls the sweeper moved on and has not told of since
  lost,       \* history: those of which no sweep is going to tell, since the
              \* write after the claim failed or the process died
  touches, failures

told == <<owed, lost>>
vars == <<row, now, sw, owed, lost, touches, failures>>

Closed == 3
Deleted == 4
Time == 0 .. Horizon + 1

\* ends: when the active round ends, if its clock runs; vote: the end, or else
\* the length, that round 2 is given when it opens (scheduled and quick polls).
\* What a round that is over had for an end is never read again and left out.
NoVote == [at |-> None, dur |-> 0]
Scheduled == [at |-> 2, dur |-> 0]
Quick == [at |-> None, dur |-> 1]
Vote == {NoVote, Scheduled, Quick}
Row == [stage : {1, 2, Closed, Deleted}, ends : Time \cup {None}, vote : Vote,
        closedAt : Time \cup {None}]

Gone == [stage |-> Deleted, ends |-> None, vote |-> NoVote, closedAt |-> None]

\* What a sweep goes by of a row it has read.
Copy == [poll : Polls, stage : {1, 2}, vote : Vote]

\* at: "wait" for a tick, "list", "next" poll, "claim" its stage, "reload" it,
\* write its "timers" or its "winner", "tell"; tick: the time of the tick;
\* todo: due polls not begun; cur, to, ends: the poll at hand, where it goes
\* and the end of its round 2;
\* changed: the polls to tell of; failed: an error ended the loop;
\* found (history): the polls that were due, as they were listed.
Sweeper == [at : {"wait", "list", "next", "claim", "reload", "timers",
                  "winner", "tell"},
            tick : Time, todo : SUBSET Copy, found : SUBSET Copy,
            cur : Copy \cup {None}, to : {2, Closed, None},
            ends : Time \cup {None}, changed : SUBSET Polls, failed : BOOLEAN]

Waiting == [at |-> "wait", tick |-> 0, todo |-> {}, found |-> {},
            cur |-> None, to |-> None, ends |-> None,
            changed |-> {}, failed |-> FALSE]

\* Both rounds of every poll are timed, by a schedule or by lengths.
Init ==
  /\ row \in [Polls -> [stage : {1}, ends : {1}, closedAt : {None},
                        vote : {Scheduled, Quick}]]
  /\ now = 0
  /\ sw = Waiting
  /\ owed = {} /\ lost = {}
  /\ touches = 0 /\ failures = 0

-----------------------------------------------------------------------------
(* What statements do to a row.                                             *)

Due(r, t) == r.ends # None /\ r.ends <= t

\* Faulty variant: closed_at is left out.
ClaimedUnstamped(r, to) ==
  [stage |-> to, ends |-> IF to = 2 THEN r.vote.at ELSE None, vote |-> NoVote,
   closedAt |-> None]

\* CompareAndSetStatus: closing stamps closed_at; round 2 of a scheduled poll
\* has its end already.
Claimed(r, to) ==
  [stage |-> to, ends |-> IF to = 2 THEN r.vote.at ELSE None, vote |-> NoVote,
   closedAt |-> IF to = Closed THEN now ELSE None]

\* The end that advanceCore writes for a round 2 it has opened.
VoteEnds(vote) == IF vote.dur > 0 THEN now + vote.dur ELSE vote.at

-----------------------------------------------------------------------------
(* The hosts and the admin.                                                 *)

\* Start, Pause and Extend give the active round another end or none; a later
\* end than the next tick adds nothing.
TouchClock(p) ==
  /\ touches < MaxTouches
  /\ row[p].stage \in {1, 2}
  /\ \E t \in {now + 1, None} : row' = [row EXCEPT ![p].ends = t]
  /\ touches' = touches + 1
  /\ UNCHANGED <<now, sw, told, failures>>

\* handleAdvance, handleAdminAdvance
Advance(p) ==
  /\ row[p].stage \in {1, 2}
  /\ \E to \in {row[p].stage + 1, Closed} :
       row' = [row EXCEPT ![p] =
                 IF to = 2 THEN [Claimed(@, 2) EXCEPT !.ends = VoteEnds(row[p].vote)]
                 ELSE Claimed(@, Closed)]
  /\ UNCHANGED <<now, sw, told, touches, failures>>

Delete(p) ==
  /\ row[p].stage # Deleted
  /\ row' = [row EXCEPT ![p] = Gone]
  /\ UNCHANGED <<now, sw, told, touches, failures>>

-----------------------------------------------------------------------------
(* The timer sweeper.                                                       *)

Turn(s) == sw' = s

\* The ticker's time is the one that rounds are due by.
Tick ==
  /\ sw.at = "wait"
  /\ Turn([Waiting EXCEPT !.at = "list", !.tick = now])
  /\ UNCHANGED <<row, now, told, touches, failures>>

\* ListActiveTimedPolls; the loop passes over those that are not due.
List ==
  LET due == {[poll |-> p, stage |-> row[p].stage, vote |-> row[p].vote] :
                p \in {q \in Polls : Due(row[q], sw.tick)}} IN
  /\ sw.at = "list"
  /\ Turn([sw EXCEPT !.at = "next", !.tick = 0, !.todo = due, !.found = due])
  /\ UNCHANGED <<row, now, told, touches, failures>>

\* Faulty variant: the rounds that opened are looked at again before anybody
\* is told of them.
SweepAgain ==
  [sw EXCEPT !.at = IF sw.changed = {} THEN "tell" ELSE "list", !.tick = now]

\* All polls are through: what follows is telling.
SweepDone == [sw EXCEPT !.at = "tell"]

\* Faulty variant: one poll a sweep.
AfterAdvance1(c) ==
  [sw EXCEPT !.at = "next", !.changed = @ \cup {c.poll}, !.todo = {},
             !.cur = None, !.to = None, !.ends = None]

\* advanceCore returned a poll: it is one to tell of.
AfterAdvance(c) ==
  [sw EXCEPT !.at = "next", !.changed = @ \cup {c.poll},
             !.cur = None, !.to = None, !.ends = None]

\* Faulty variant: after an error nobody is told.
GiveUpSweep == Waiting

\* Faulty variant: an error ends the goroutine.
StopSweeping == [Waiting EXCEPT !.at = "stopped"]

\* An error ends the loop; the polls before it are told of.
EndSweep ==
  [sw EXCEPT !.at = "tell", !.failed = TRUE, !.todo = {},
             !.cur = None, !.to = None, !.ends = None]

\* The next poll, in no particular order; where round 1 leads depends on its
\* nominations, which are read first.
NextPoll ==
  /\ sw.at = "next"
  /\ \/ /\ sw.todo = {}
        /\ Turn(SweepDone)
     \/ \E c \in sw.todo : \E to \in {c.stage + 1, Closed} :
          Turn([sw EXCEPT !.at = "claim", !.todo = @ \ {c}, !.cur = c, !.to = to])
  /\ UNCHANGED <<row, now, told, touches, failures>>

\* CompareAndSetStatus; who loses the claim reads the poll again.
Claim ==
  LET c == sw.cur  p == sw.cur.poll IN
  /\ sw.at = "claim"
  /\ IF row[p].stage # c.stage
       THEN Turn([sw EXCEPT !.at = "reload"]) /\ UNCHANGED <<row, told>>
       ELSE /\ row' = [row EXCEPT ![p] = Claimed(@, sw.to)]
            /\ owed' = owed \cup {p} /\ lost' = lost \ {p}
            /\ \/ /\ sw.to = 2
                  /\ Turn([sw EXCEPT !.at = "timers", !.ends = VoteEnds(c.vote)])
               \/ /\ sw.to = Closed /\ c.stage = 1   \* a nomination won
                  /\ Turn([sw EXCEPT !.at = "winner"])
               \/ /\ sw.to = Closed                      \* none is set
                  /\ Turn(AfterAdvance(c))
  /\ UNCHANGED <<now, touches, failures>>

\* GetPollByID: a poll that was deleted is an error.
Reload ==
  /\ sw.at = "reload"
  /\ Turn(IF row[sw.cur.poll].stage = Deleted THEN EndSweep ELSE AfterAdvance(sw.cur))
  /\ UNCHANGED <<row, now, told, touches, failures>>

\* UpdatePollTimers or SetPollWinner: no row affected is an error.
Write ==
  LET p == sw.cur.poll IN
  /\ sw.at \in {"timers", "winner"}
  /\ IF row[p].stage = Deleted
       THEN lost' = lost \cup {p} /\ Turn(EndSweep) /\ UNCHANGED row
       ELSE /\ row' = IF sw.at = "timers" /\ row[p].stage = 2
                        THEN [row EXCEPT ![p].ends = sw.ends] ELSE row
            /\ Turn(AfterAdvance(sw.cur))
            /\ UNCHANGED lost
  /\ UNCHANGED <<now, owed, touches, failures>>

\* The statement at hand fails, or the list of nominations before the claim;
\* the poll is none to tell of.
Fail ==
  /\ failures < MaxFailures
  /\ sw.at \in {"list", "claim", "reload", "timers", "winner"}
  /\ Turn(EndSweep)
  /\ lost' = IF sw.at \in {"timers", "winner"} THEN lost \cup {sw.cur.poll} ELSE lost
  /\ failures' = failures + 1
  /\ UNCHANGED <<row, now, owed, touches>>

\* broadcast, and autoRequestWinners for a closed poll (SeerrRequests).
Tell ==
  /\ sw.at = "tell"
  /\ IF sw.changed = {} THEN Turn(Waiting) /\ UNCHANGED told
     ELSE \E p \in sw.changed :
            /\ Turn([sw EXCEPT !.changed = @ \ {p}])
            /\ owed' = owed \ {p} /\ lost' = lost \ {p}
  /\ UNCHANGED <<row, now, touches, failures>>

\* The process dies; the next one starts with a sweep of its own.
Crash ==
  /\ failures < MaxFailures
  /\ failures' = failures + 1
  /\ Turn(Waiting)
  /\ lost' = lost \cup owed
  /\ UNCHANGED <<row, now, owed, touches>>

-----------------------------------------------------------------------------
(* The retention sweeper.                                                   *)

\* Times as RFC3339Nano text: seconds in order, but "05.5Z" before "05Z", for
\* the fraction of a whole second is left out and "." comes before "Z".
TextBefore(t, u) ==
  \/ t \div 2 < u \div 2
  \/ t \div 2 = u \div 2 /\ t % 2 = 1 /\ u % 2 = 0

\* Faulty variant: the days of retention are taken for half days.
CutoffShort == now - Retention \div 2

Cutoff == now - Retention

\* DeleteClosedPollsBefore; all times are of this century.
Purge ==
  /\ Cutoff >= 0
  /\ row' = [p \in Polls |->
               IF row[p].stage = Closed /\ TextBefore(row[p].closedAt, Cutoff)
                 THEN Gone ELSE row[p]]
  /\ UNCHANGED <<now, sw, told, touches, failures>>

-----------------------------------------------------------------------------

Pass == now < Horizon /\ now' = now + 1 /\ UNCHANGED <<row, sw, told, touches, failures>>

Sweep == Tick \/ List \/ NextPoll \/ Claim \/ Reload \/ Write \/ Tell

Next ==
  \/ \E p \in Polls : TouchClock(p) \/ Advance(p) \/ Delete(p)
  \/ Sweep \/ Fail \/ Crash
  \/ Purge
  \/ Pass

\* Time passes and the sweeper, a loop in a goroutine of its own, goes on for
\* ever; everybody else is free.
Fairness == WF_vars(Pass) /\ WF_vars(Sweep)

Spec == Init /\ [][Next]_vars /\ Fairness

-----------------------------------------------------------------------------
(* Properties. *)

TypeOK ==
  /\ row \in [Polls -> Row]
  /\ \A p \in Polls : row[p].stage = Closed <=> row[p].closedAt # None
  /\ now \in 0 .. Horizon
  /\ sw \in Sweeper
  /\ owed \subseteq Polls /\ lost \subseteq Polls
  /\ touches \in 0 .. MaxTouches /\ failures \in 0 .. MaxFailures

\* A sweep that no error ended has left no poll in the round in which it found
\* it due: losing a claim to a host, or a poll that is gone, stops nothing.
NothingDueIsLeft ==
  (sw.at = "tell" /\ ~sw.failed) =>
    \A c \in sw.found : row[c.poll].stage > c.stage

\* timer.go: "broadcasting each change so connected clients refetch".  Before
\* it waits again the sweeper has told of every round it ended, also when an
\* error at a later poll cut the sweep short.  What it has not told of is lost:
\* the very poll whose write after the claim failed or found no row, and what a
\* crash interrupted.
SweptChangesAreTold == sw.at = "wait" => owed \subseteq lost

\* A voting round that the sweeper opened is announced before the sweeper
\* closes it, also when its time was up from the start: after a long downtime,
\* or because nominations were extended past the end of voting.  A round whose
\* announcement is lost is excused: when UpdatePollTimers failed after the claim
\* of round 2, or the process died before the broadcast, the next sweep may
\* close a voting round of which no page was ever told.
OpenedIsToldBeforeClosed ==
  [][(sw.at = "claim" /\ sw'.at # "claim" /\ row' # row)
       => (sw.cur.poll \in owed => sw.cur.poll \in lost)]_vars

\* store.go: "deletes closed polls whose end time is before cutoff".  Comparing
\* times as text, a purge takes whatever closed in a second before the cutoff's
\* and nothing that closed in a later one; inside the cutoff's own second the
\* text order is not that of time.
PurgeIsRightToTheSecond ==
  [][Purge => \A p \in Polls : row[p].stage = Closed =>
       LET end == row[p].closedAt \div 2  cut == (now - Retention) \div 2 IN
       /\ end < cut => row'[p].stage = Deleted
       /\ row'[p].stage = Deleted => end <= cut]_vars

\* Every round whose time is up is left, or its host gives it more time, as
\* failures come to an end: no poll keeps the sweeper from another for ever.
DueRoundsAreLeft ==
  \A p \in Polls : Due(row[p], now) ~> ~Due(row[p], now)

=============================================================================
