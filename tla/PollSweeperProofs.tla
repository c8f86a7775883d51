--------------------------- MODULE PollSweeperProofs ---------------------------
(***************************************************************************)
(* Proofs about PollSweeper, for any number of polls and any bounds: what  *)
(* a sweep leaves behind and tells, and which polls a purge takes.         *)
(***************************************************************************)
EXTENDS PollSweeper, TLAPS

\* Only a round that is on has an end.
ClocksRun == \A p \in Polls : row[p].ends # None => row[p].stage \in {1, 2}

Working == {"claim", "reload", "timers", "winner"}

\* The poll at hand is one that was found and is not among those to come, it is
\* moved forward, and a sweep that is through, or failed, has no poll to come.
InHand ==
  /\ sw.todo \subseteq sw.found
  /\ \A c, d \in sw.found : c.poll = d.poll => c = d
  /\ sw.failed => sw.at = "tell"
  /\ sw.at = "tell" => sw.todo = {}
  /\ sw.at \in Working => /\ sw.cur \in sw.found \ sw.todo
                           /\ sw.to \in {2, Closed} /\ sw.cur.stage < sw.to

\* A poll that was found has moved on, or its turn is still to come.
Left ==
  \A c \in sw.found :
    /\ row[c.poll].stage >= c.stage
    /\ \/ row[c.poll].stage > c.stage
       \/ sw.failed
       \/ c \in sw.todo
       \/ sw.at = "claim" /\ c = sw.cur

\* The sweeper is going to tell of all that it owes and is not lost; a poll whose
\* turn is to come is none of those.
GoingToTell ==
  /\ \A p \in owed \ lost : p \in sw.changed \/ (sw.at \in {"timers", "winner"} /\ p = sw.cur.poll)
  /\ sw.at \in {"wait", "list"} => sw.changed = {}
  /\ \A c \in sw.todo : c.poll \notin sw.changed
  /\ sw.at \in {"claim", "timers", "winner"} => sw.cur.poll \notin sw.changed

\* The inductive invariant.
IInv == TypeOK /\ ClocksRun /\ InHand /\ Left /\ GoingToTell

-----------------------------------------------------------------------------

LEMMA Start == Init => IInv
<1> SUFFICES ASSUME Init PROVE IInv
  OBVIOUS
<1> USE SweeperAssumption DEF Init
<1>1. 0 \in Time /\ 1 \in Time
  BY DEF Time
<1>2. TypeOK
  BY <1>1 DEF TypeOK, Row, Vote, Sweeper, Waiting, Closed, Deleted
<1>3. ClocksRun /\ InHand /\ Left /\ GoingToTell
  BY DEF ClocksRun, InHand, Left, GoingToTell, Waiting, Working
<1> QED BY <1>2, <1>3 DEF IInv

\* What every step may do to the rows: they keep their form, and no poll goes
\* back to an earlier stage.
RowsKept ==
  /\ row' \in [Polls -> Row]
  /\ \A p \in Polls :
       /\ row'[p].stage >= row[p].stage
       /\ row'[p].stage = Closed <=> row'[p].closedAt # None
       /\ row'[p].ends # None => row'[p].stage \in {1, 2}

\* A step that gives one poll a row of the right form that is no step back.
LEMMA OneRow ==
  ASSUME TypeOK, ClocksRun, NEW p \in Polls, NEW r \in Row,
         row' \in [Polls -> Row],
         row'[p] = r /\ \A q \in Polls : q # p => row'[q] = row[q],
         r.stage >= row[p].stage,
         r.stage = Closed <=> r.closedAt # None,
         r.ends # None => r.stage \in {1, 2}
  PROVE  RowsKept
<1>1. \A q \in Polls : row[q].stage \in {1, 2, 3, 4}
  BY DEF TypeOK, Row, Closed, Deleted
<1> QED BY <1>1 DEF RowsKept, TypeOK, ClocksRun

\* The end that a voting round gets.
LEMMA VoteEndsInTime ==
  ASSUME TypeOK, NEW vote \in Vote
  PROVE  VoteEnds(vote) \in Time \cup {None}
<1> USE SweeperAssumption
<1>1. now \in 0 .. Horizon
  BY DEF TypeOK
<1>2. now + 1 \in Time /\ 2 \in Time
  BY <1>1 DEF Time
<1>3. vote = NoVote \/ vote = Scheduled \/ vote = Quick
  BY DEF Vote
<1> QED BY <1>2, <1>3 DEF VoteEnds, NoVote, Scheduled, Quick

\* The form of a claimed row.
LEMMA ClaimedRow ==
  ASSUME TypeOK, NEW r \in Row, NEW to \in {2, Closed}, r.stage \in {1, 2}, r.stage < to
  PROVE  /\ Claimed(r, to) \in Row /\ Claimed(r, to).stage = to
         /\ Claimed(r, to).closedAt # None <=> to = Closed
         /\ Claimed(r, to).ends # None => to = 2
         /\ VoteEnds(r.vote) \in Time \cup {None}
<1> USE SweeperAssumption
<1>1. now \in Time /\ now + 1 \in Time /\ now \in Nat /\ 1 \in Time
  BY DEF TypeOK, Time
<1>2. now # None
  BY <1>1
<1>3. r.vote \in Vote
  BY DEF Row
<1>4. r.vote.at \in Time \cup {None} /\ VoteEnds(r.vote) \in Time \cup {None}
  BY <1>3, VoteEndsInTime DEF Vote, NoVote, Scheduled, Quick, Time
<1>6. NoVote \in Vote
  BY DEF Vote
<1> QED BY <1>1, <1>2, <1>4, <1>6 DEF Claimed, Row, Closed, Deleted

LEMMA RowsStep ==
  ASSUME IInv, [Next]_vars
  PROVE  RowsKept
<1> USE SweeperAssumption DEF IInv
<1>row. row \in [Polls -> Row]
  BY DEF TypeOK
<1>form. \A p \in Polls : /\ row[p].stage \in {1, 2, 3, 4}
                           /\ row[p].stage = Closed <=> row[p].closedAt # None
  BY DEF TypeOK, Row, Closed, Deleted
<1>types. TypeOK /\ ClocksRun
  OBVIOUS
<1> DEFINE Only(p, r) == /\ row' \in [Polls -> Row]
                         /\ row'[p] = r /\ \A q \in Polls : q # p => row'[q] = row[q]
<1>same. ASSUME UNCHANGED row PROVE RowsKept
  <2>1. \A p \in Polls : row[p].stage \in {1, 2, 3, 4}
    BY <1>row DEF Row, Closed, Deleted
  <2> QED BY <1>same, <2>1, <1>row DEF RowsKept, ClocksRun, TypeOK
<1>1. ASSUME NEW p \in Polls, TouchClock(p) PROVE RowsKept
  <2>1. PICK t \in {now + 1, None} : row' = [row EXCEPT ![p].ends = t]
    BY <1>1 DEF TouchClock
  <2>2. t \in Time \cup {None}
    BY DEF TypeOK, Time
  <2> DEFINE r == [row[p] EXCEPT !.ends = t]
  <2>3. r \in Row /\ row' = [row EXCEPT ![p] = r]
    BY <1>row, <2>1, <2>2 DEF Row
  <2>6. Only(p, r)
    BY <1>row, <2>3
  <2>4. /\ r.stage = row[p].stage /\ r.stage \in {1, 2}
        /\ r.closedAt = row[p].closedAt
    BY <1>row, <1>1 DEF Row, TouchClock
  <2>5. r.stage >= row[p].stage /\ r.closedAt = None
    BY <1>form, <2>4 DEF Closed
  <2> HIDE DEF r
  <2> QED BY <1>types, <2>3, <2>4, <2>5, <2>6, OneRow DEF Closed
<1>2. ASSUME NEW p \in Polls, Advance(p) PROVE RowsKept
  <2>1. row[p].stage \in {1, 2} /\ row[p] \in Row
    BY <1>2, <1>row DEF Advance
  <2>2. CASE row' = [row EXCEPT ![p] = [Claimed(row[p], 2) EXCEPT !.ends = VoteEnds(row[p].vote)]]
             /\ row[p].stage = 1
    <3> DEFINE r == [Claimed(row[p], 2) EXCEPT !.ends = VoteEnds(row[p].vote)]
    <3>1. Claimed(row[p], 2) \in Row /\ Claimed(row[p], 2).stage = 2
          /\ Claimed(row[p], 2).closedAt = None /\ VoteEnds(row[p].vote) \in Time \cup {None}
      BY <2>1, <2>2, ClaimedRow DEF Closed
    <3>2. r \in Row /\ r.stage = 2 /\ r.closedAt = None
      BY <3>1 DEF Row
    <3>3. Only(p, r) /\ r.stage >= row[p].stage
      BY <1>row, <2>2, <3>2
    <3> HIDE DEF r
    <3> QED BY <1>types, <3>2, <3>3, OneRow DEF Closed
  <2>3. CASE row' = [row EXCEPT ![p] = Claimed(row[p], Closed)]
    <3> DEFINE r == Claimed(row[p], Closed)
    <3>1. row[p].stage < Closed
      BY <2>1 DEF Closed
    <3>2. r \in Row /\ r.stage = Closed /\ r.closedAt # None /\ r.ends = None
      BY <1>types, <2>1, <3>1, ClaimedRow DEF Closed
    <3>3. Only(p, r) /\ r.stage >= row[p].stage
      BY <1>row, <2>1, <2>3, <3>2 DEF Closed
    <3> HIDE DEF r
    <3> QED BY <1>types, <3>2, <3>3, OneRow
  <2>4. PICK to \in {row[p].stage + 1, Closed} :
          row' = [row EXCEPT ![p] =
                    IF to = 2 THEN [Claimed(@, 2) EXCEPT !.ends = VoteEnds(row[p].vote)]
                    ELSE Claimed(@, Closed)]
    BY <1>2 DEF Advance
  <2>5. CASE to = 2
    BY <2>1, <2>2, <2>4, <2>5 DEF Closed
  <2>6. CASE to # 2
    BY <2>3, <2>4, <2>6
  <2> QED BY <2>5, <2>6
<1>gone. /\ Gone \in Row /\ Gone.stage = Deleted /\ Gone.closedAt = None /\ Gone.ends = None
         /\ \A p \in Polls : row[p].stage \in {1, 2, 3, 4}
  BY <1>row DEF Gone, Row, Vote, Closed, Deleted
<1>3. ASSUME NEW p \in Polls, Delete(p) PROVE RowsKept
  <2>1. Only(p, Gone) /\ Gone.stage >= row[p].stage
    BY <1>3, <1>row, <1>gone DEF Delete, Deleted
  <2> QED BY <1>types, <1>gone, <2>1, OneRow DEF Closed, Deleted
<1>4. CASE Claim
  <2> DEFINE p == sw.cur.poll
  <2>1. sw.cur \in Copy /\ sw.to \in {2, Closed} /\ sw.cur.stage < sw.to
    BY <1>4 DEF Claim, InHand, Working, TypeOK, Sweeper
  <2>2. p \in Polls /\ sw.cur.stage \in {1, 2} /\ row[p] \in Row
    BY <2>1, <1>row DEF Copy
  <2>3. CASE row[p].stage = sw.cur.stage /\ row' = [row EXCEPT ![p] = Claimed(row[p], sw.to)]
    <3> DEFINE r == Claimed(row[p], sw.to)
    <3>1. /\ r \in Row /\ r.stage = sw.to
          /\ r.closedAt # None <=> sw.to = Closed
          /\ r.ends # None => sw.to = 2
      BY <1>types, <2>1, <2>2, <2>3, ClaimedRow
    <3>2. Only(p, r) /\ r.stage >= row[p].stage
      BY <1>row, <2>1, <2>2, <2>3, <3>1 DEF Closed
    <3> HIDE DEF r
    <3> QED BY <1>types, <2>2, <3>1, <3>2, OneRow
  <2> QED BY <1>4, <1>same, <2>3 DEF Claim
<1>5. CASE Write
  <2> DEFINE p == sw.cur.poll
  <2>1. sw.cur \in Copy /\ sw.ends \in Time \cup {None}
    BY <1>5 DEF Write, InHand, Working, TypeOK, Sweeper
  <2>2. p \in Polls /\ row[p] \in Row
    BY <2>1, <1>row DEF Copy
  <2>3. CASE row[p].stage = 2 /\ row' = [row EXCEPT ![p].ends = sw.ends]
    <3> DEFINE r == [row[p] EXCEPT !.ends = sw.ends]
    <3>1. /\ r \in Row /\ Only(p, r)
          /\ r.stage = 2 /\ r.closedAt = row[p].closedAt
      BY <1>row, <2>1, <2>2, <2>3 DEF Row
    <3>2. r.stage >= row[p].stage /\ r.closedAt = None
      BY <1>form, <2>2, <2>3, <3>1 DEF Closed
    <3> HIDE DEF r
    <3> QED BY <1>types, <2>2, <3>1, <3>2, OneRow DEF Closed
  <2> QED BY <1>5, <2>3, <1>same DEF Write
<1>6. CASE Purge
  BY <1>6, <1>row, <1>gone DEF Purge, RowsKept, TypeOK, ClocksRun, Closed, Deleted
<1>7. CASE Pass \/ Fail \/ Crash \/ Tick \/ List \/ NextPoll \/ Reload \/ Tell \/ UNCHANGED vars
  BY <1>7, <1>same DEF Pass, Fail, Crash, Tick, List, NextPoll, Reload, Tell, vars
<1> QED BY <1>1, <1>2, <1>3, <1>4, <1>5, <1>6, <1>7 DEF Next, Sweep

-----------------------------------------------------------------------------
(* The sweeper.                                                             *)

\* Every step keeps every variable in its type.
LEMMA TypeStep == IInv /\ [Next]_vars => TypeOK'
<1> SUFFICES ASSUME IInv, [Next]_vars PROVE TypeOK'
  OBVIOUS
<1> USE SweeperAssumption DEF told
<1>1. row' \in [Polls -> Row] /\ \A p \in Polls : (row[p].stage = Closed <=> row[p].closedAt # None)'
  BY RowsStep DEF RowsKept
<1>type. /\ now \in 0 .. Horizon /\ sw \in Sweeper /\ owed \subseteq Polls /\ lost \subseteq Polls
         /\ touches \in 0 .. MaxTouches /\ failures \in 0 .. MaxFailures
         /\ row \in [Polls -> Row] /\ now \in Time
  BY DEF IInv, TypeOK, Time, told
<1>2. /\ now' = now \/ (now < Horizon /\ now' = now + 1)
      /\ touches' = touches \/ (touches < MaxTouches /\ touches' = touches + 1)
      /\ failures' = failures \/ (failures < MaxFailures /\ failures' = failures + 1)
  BY DEF Next, Sweep, TouchClock, Advance, Delete, Tick, List, NextPoll, Claim,
     Reload, Write, Tell, Fail, Crash, Purge, Pass, vars
<1>waiting. Waiting \in Sweeper
  BY DEF Waiting, Sweeper, Time
<1>cur. sw.at \in Working => /\ sw.cur \in Copy /\ sw.cur.poll \in Polls
                             /\ sw.cur.stage \in {1, 2} /\ sw.to \in {2, Closed}
                             /\ sw.cur.vote \in Vote
  BY <1>type DEF IInv, InHand, Sweeper, Copy
<1>after. sw.at \in Working => AfterAdvance(sw.cur) \in Sweeper
  BY <1>type, <1>cur DEF AfterAdvance, Sweeper
<1>end. EndSweep \in Sweeper
  BY <1>type DEF EndSweep, Sweeper
<1>3. sw' \in Sweeper /\ owed' \subseteq Polls /\ lost' \subseteq Polls
  <2>1. CASE Tick
    BY <2>1, <1>type, <1>waiting DEF Tick, Turn, Sweeper
  <2>2. CASE List
    <3> DEFINE due == {[poll |-> p, stage |-> row[p].stage, vote |-> row[p].vote] :
                         p \in {q \in Polls : Due(row[q], sw.tick)}}
    <3>1. due \subseteq Copy
      BY <1>type DEF Copy, Due, IInv, ClocksRun, Row
    <3>2. 0 \in Time
      BY DEF Time
    <3> HIDE DEF due
    <3>3. [sw EXCEPT !.at = "next", !.tick = 0, !.todo = due, !.found = due] \in Sweeper
      BY <3>1, <3>2, <1>type DEF Sweeper
    <3> QED BY <2>2, <3>3, <1>type DEF List, Turn, due
  <2>3. CASE NextPoll
    <3>1. CASE sw' = SweepDone
      BY <3>1, <2>3, <1>type DEF NextPoll, SweepDone, Sweeper
    <3>2. ASSUME NEW c \in sw.todo, NEW to \in {c.stage + 1, Closed},
                 Turn([sw EXCEPT !.at = "claim", !.todo = @ \ {c}, !.cur = c, !.to = to])
          PROVE  sw' \in Sweeper
      <4>1. c \in Copy /\ to \in {2, Closed}
        BY <1>type DEF Sweeper, Copy, Closed
      <4> QED BY <3>2, <4>1, <1>type DEF Turn, Sweeper
    <3> QED BY <2>3, <3>1, <3>2, <1>type DEF NextPoll, Turn
  <2>4. CASE Claim
    <3>1. ASSUME sw' = [sw EXCEPT !.at = "timers", !.ends = VoteEnds(sw.cur.vote)]
          PROVE  sw' \in Sweeper
      <4>1. VoteEnds(sw.cur.vote) \in Time \cup {None}
        <5>1. sw.cur.vote \in Vote
          BY <2>4, <1>cur DEF Claim, Working
        <5> QED BY <5>1, VoteEndsInTime DEF IInv
      <4> QED BY <3>1, <4>1, <1>type DEF Sweeper
    <3>2. ASSUME sw' \in {[sw EXCEPT !.at = "reload"], [sw EXCEPT !.at = "winner"]}
          PROVE  sw' \in Sweeper
      BY <3>2, <1>type DEF Sweeper
    <3>3. sw.cur.poll \in Polls /\ AfterAdvance(sw.cur) \in Sweeper
      BY <2>4, <1>cur, <1>after DEF Claim, Working
    <3> QED BY <2>4, <3>1, <3>2, <3>3, <1>type DEF Claim, Turn
  <2>5. CASE Reload
    BY <2>5, <1>type, <1>after, <1>end DEF Reload, Turn, Working
  <2>6. CASE Write
    BY <2>6, <1>type, <1>cur, <1>after, <1>end DEF Write, Turn, Working
  <2>7. CASE Tell
    <3>1. ASSUME NEW p, sw' = [sw EXCEPT !.changed = @ \ {p}] PROVE sw' \in Sweeper
      BY <3>1, <1>type DEF Sweeper
    <3> QED BY <2>7, <3>1, <1>type, <1>waiting DEF Tell, Turn
  <2>8. CASE Fail
    BY <2>8, <1>type, <1>cur, <1>end DEF Fail, Turn, Working
  <2>9. CASE Crash
    BY <2>9, <1>type, <1>waiting DEF Crash, Turn
  <2>10. CASE UNCHANGED <<sw, told>>
    BY <2>10, <1>type
  <2> QED BY <2>1, <2>2, <2>3, <2>4, <2>5, <2>6, <2>7, <2>8, <2>9, <2>10
          DEF Next, Sweep, TouchClock, Advance, Delete, Purge, Pass, vars
<1>4. now' \in 0 .. Horizon /\ touches' \in 0 .. MaxTouches /\ failures' \in 0 .. MaxFailures
  BY <1>2, <1>type
<1> QED BY <1>1, <1>3, <1>4 DEF TypeOK

\* Every step keeps what the sweeper has in hand in order.
LEMMA HandStep == IInv /\ [Next]_vars => InHand' /\ Left' /\ GoingToTell'
<1> SUFFICES ASSUME IInv, [Next]_vars PROVE InHand' /\ Left' /\ GoingToTell'
  OBVIOUS
<1> USE DEF Turn, told
<1>inv. InHand /\ Left /\ GoingToTell
  BY DEF IInv
<1>type. sw \in Sweeper /\ sw.found \subseteq Copy /\ row \in [Polls -> Row]
  BY DEF IInv, TypeOK, Sweeper
<1>copy. \A c \in Copy : c.poll \in Polls /\ c.stage \in {1, 2}
  BY DEF Copy
<1>rows. \A p \in Polls : /\ row[p].stage \in {1, 2, 3, 4} /\ row'[p].stage \in {1, 2, 3, 4}
                          /\ row'[p].stage >= row[p].stage
  BY RowsStep DEF RowsKept, Row, IInv, TypeOK, Closed, Deleted
\* What was true of the polls that were found stays true as rows move on.
<1>on. /\ \A c \in sw.found : row'[c.poll].stage >= c.stage
       /\ \A c \in sw.found : row[c.poll].stage > c.stage => row'[c.poll].stage > c.stage
  BY <1>inv, <1>type, <1>copy, <1>rows DEF Left
<1>cur. sw.at \in Working => /\ sw.cur \in sw.found \ sw.todo /\ sw.cur.poll \in Polls
                             /\ sw.cur.stage \in {1, 2}
  BY <1>inv, <1>type, <1>copy DEF InHand
<1>waiting. sw' = Waiting /\ owed' \subseteq lost' => InHand' /\ Left' /\ GoingToTell'
  BY DEF Waiting, InHand, Left, GoingToTell, Working
<1>same. ASSUME UNCHANGED <<sw, told>> PROVE InHand' /\ Left' /\ GoingToTell'
  BY <1>same, <1>inv, <1>on DEF InHand, Left, GoingToTell
\* The poll at hand is through.
<1>after. ASSUME sw.at \in Working, sw' = AfterAdvance(sw.cur),
                 row'[sw.cur.poll].stage > sw.cur.stage,
                 owed' \ lost' \subseteq (owed \ lost) \cup {sw.cur.poll}
          PROVE  InHand' /\ Left' /\ GoingToTell'
  <2>1. /\ sw'.at = "next" /\ sw'.todo = sw.todo /\ sw'.found = sw.found
        /\ sw'.changed = sw.changed \cup {sw.cur.poll} /\ sw'.failed = sw.failed
    BY <1>after, <1>type DEF AfterAdvance, Sweeper
  <2>2. InHand'
    BY <1>inv, <1>after, <2>1 DEF InHand, Working
  <2>3. Left'
    BY <1>inv, <1>after, <1>on, <2>1 DEF Left
  <2>4. GoingToTell'
    BY <1>inv, <1>after, <1>cur, <2>1 DEF GoingToTell, InHand
  <2> QED BY <2>2, <2>3, <2>4
\* An error ends the loop.
<1>end. ASSUME sw' = EndSweep, owed' \ lost' \subseteq sw.changed
        PROVE  InHand' /\ Left' /\ GoingToTell'
  <2>1. /\ sw'.at = "tell" /\ sw'.todo = {} /\ sw'.found = sw.found
        /\ sw'.changed = sw.changed /\ sw'.failed = TRUE
    BY <1>end, <1>type DEF EndSweep, Sweeper
  <2>2. InHand'
    BY <1>inv, <2>1 DEF InHand, Working
  <2>3. Left'
    BY <1>on, <2>1 DEF Left
  <2>4. GoingToTell'
    BY <1>end, <2>1 DEF GoingToTell
  <2> QED BY <2>2, <2>3, <2>4
<1>moved. sw.at \in Working \ {"claim"} => row'[sw.cur.poll].stage > sw.cur.stage
  BY <1>inv, <1>on, <1>cur DEF InHand, Left, Working
<1>1. CASE Tick
  <2>1. owed' \ lost' = {}
    BY <1>1, <1>inv DEF Tick, GoingToTell, told
  <2>2. /\ sw'.at = "list" /\ sw'.todo = {} /\ sw'.found = {} /\ sw'.changed = {}
        /\ sw'.failed = FALSE
    BY <1>1 DEF Tick, Waiting
  <2> QED BY <2>1, <2>2 DEF InHand, Left, GoingToTell, Working
<1>2. CASE List
  <2> DEFINE due == {[poll |-> p, stage |-> row[p].stage, vote |-> row[p].vote] :
                       p \in {q \in Polls : Due(row[q], sw.tick)}}
  <2>1. /\ sw'.at = "next" /\ sw'.todo = due /\ sw'.found = due /\ sw'.failed = sw.failed
        /\ sw'.changed = sw.changed /\ UNCHANGED told /\ row' = row /\ sw.at = "list"
    BY <1>2, <1>type DEF List, Sweeper
  <2>2. \A c \in due : c.poll \in Polls /\ c.stage = row[c.poll].stage
    OBVIOUS
  <2>3. \A c, d \in due : c.poll = d.poll => c = d
    OBVIOUS
  <2> HIDE DEF due
  <2>4. InHand'
    BY <2>1, <2>3, <1>inv DEF InHand, Working
  <2>5. Left'
    BY <2>1, <2>2, <1>rows DEF Left
  <2>6. GoingToTell'
    BY <2>1, <1>inv DEF GoingToTell
  <2> QED BY <2>4, <2>5, <2>6
<1>3. CASE NextPoll
  <2>1. CASE sw.todo = {} /\ sw' = SweepDone
    <3>1. /\ sw'.at = "tell" /\ sw'.todo = {} /\ sw'.found = sw.found
          /\ sw'.failed = sw.failed /\ sw'.changed = sw.changed
          /\ UNCHANGED told /\ sw.at = "next"
      BY <1>3, <2>1, <1>type DEF NextPoll, SweepDone, Sweeper
    <3> QED BY <2>1, <3>1, <1>inv, <1>on DEF InHand, Left, GoingToTell, Working
  <2>2. ASSUME NEW c \in sw.todo, NEW to \in {c.stage + 1, Closed},
               sw' = [sw EXCEPT !.at = "claim", !.todo = @ \ {c}, !.cur = c, !.to = to]
        PROVE  InHand' /\ Left' /\ GoingToTell'
    <3>1. /\ sw'.at = "claim" /\ sw'.todo = sw.todo \ {c} /\ sw'.found = sw.found
          /\ sw'.failed = sw.failed /\ sw'.changed = sw.changed /\ sw'.cur = c
          /\ sw'.to = to /\ UNCHANGED told /\ sw.at = "next"
      BY <1>3, <2>2, <1>type DEF NextPoll, Sweeper
    <3>2. c \in sw.found /\ to \in {2, Closed} /\ c.stage < to
      BY <1>inv, <1>type, <1>copy DEF InHand, Closed
    <3>3. InHand'
      BY <3>1, <3>2, <1>inv DEF InHand, Working
    <3>4. Left'
      BY <3>1, <1>inv, <1>on DEF Left
    <3>5. GoingToTell'
      BY <3>1, <1>inv DEF GoingToTell
    <3> QED BY <3>3, <3>4, <3>5
  <2> QED BY <1>3, <2>1, <2>2 DEF NextPoll
<1>4. CASE Claim
  <2>1. sw.at = "claim" /\ sw.at \in Working /\ sw.cur \in sw.found \ sw.todo
    BY <1>4, <1>cur DEF Claim, Working
  <2>2. CASE row[sw.cur.poll].stage # sw.cur.stage
    <3>1. /\ sw'.at = "reload" /\ sw'.todo = sw.todo /\ sw'.found = sw.found
          /\ sw'.failed = sw.failed /\ sw'.changed = sw.changed /\ sw'.cur = sw.cur
          /\ sw'.to = sw.to /\ UNCHANGED told
      BY <1>4, <2>2, <1>type DEF Claim, Sweeper
    <3>2. row'[sw.cur.poll].stage > sw.cur.stage
      BY <2>1, <2>2, <1>inv, <1>cur, <1>rows DEF Left
    <3>3. InHand'
      BY <2>1, <3>1, <1>inv DEF InHand, Working
    <3>4. Left'
      BY <3>1, <3>2, <1>inv, <1>on DEF Left
    <3>5. GoingToTell'
      BY <2>1, <3>1, <1>inv DEF GoingToTell
    <3> QED BY <3>3, <3>4, <3>5
  <2>3. CASE row[sw.cur.poll].stage = sw.cur.stage
    <3>1. /\ row' = [row EXCEPT ![sw.cur.poll] = Claimed(@, sw.to)]
          /\ owed' = owed \cup {sw.cur.poll} /\ lost' = lost \ {sw.cur.poll}
      BY <1>4, <2>3 DEF Claim
    <3>2. row'[sw.cur.poll].stage = sw.to
      BY <2>1, <3>1, <1>cur, <1>type DEF Claimed
    <3>3. row'[sw.cur.poll].stage > sw.cur.stage
      BY <2>1, <3>2, <1>inv, <1>cur DEF InHand, Closed
    <3>4. CASE sw' = AfterAdvance(sw.cur)
      BY <2>1, <3>1, <3>3, <3>4, <1>after
    <3>5. ASSUME NEW at \in {"timers", "winner"},
                 /\ sw'.at = at /\ sw'.todo = sw.todo /\ sw'.found = sw.found
                 /\ sw'.failed = sw.failed /\ sw'.changed = sw.changed
                 /\ sw'.cur = sw.cur /\ sw'.to = sw.to
          PROVE  InHand' /\ Left' /\ GoingToTell'
      <4>1. InHand'
        BY <2>1, <3>5, <1>inv DEF InHand, Working
      <4>2. Left'
        BY <3>3, <3>5, <1>inv, <1>on DEF Left
      <4>3. GoingToTell'
        BY <2>1, <3>1, <3>5, <1>inv DEF GoingToTell
      <4> QED BY <4>1, <4>2, <4>3
    <3>6. CASE sw' = [sw EXCEPT !.at = "timers", !.ends = VoteEnds(sw.cur.vote)]
      BY <3>5, <3>6, <1>type DEF Sweeper
    <3>7. CASE sw' = [sw EXCEPT !.at = "winner"]
      BY <3>5, <3>7, <1>type DEF Sweeper
    <3> QED BY <1>4, <2>3, <3>4, <3>6, <3>7 DEF Claim
  <2> QED BY <2>2, <2>3
<1>5. CASE Reload
  <2>1. sw.at = "reload" /\ sw.at \in Working \ {"claim"} /\ UNCHANGED told
    BY <1>5 DEF Reload, Working
  <2>2. owed \ lost \subseteq sw.changed
    BY <2>1, <1>inv DEF GoingToTell
  <2> QED BY <1>5, <2>1, <2>2, <1>after, <1>end, <1>moved DEF Reload
<1>6. CASE Write
  <2>1. sw.at \in {"timers", "winner"} /\ sw.at \in Working \ {"claim"}
    BY <1>6 DEF Write, Working
  <2>2. owed \ lost \subseteq sw.changed \cup {sw.cur.poll}
    BY <2>1, <1>inv DEF GoingToTell
  <2>3. CASE owed' = owed /\ lost' = lost \cup {sw.cur.poll} /\ sw' = EndSweep
    BY <2>2, <2>3, <1>end
  <2>4. CASE UNCHANGED told /\ sw' = AfterAdvance(sw.cur)
    BY <2>1, <2>4, <1>after, <1>moved
  <2> QED BY <1>6, <2>3, <2>4 DEF Write
<1>7. CASE Tell
  <2>1. sw.at = "tell"
    BY <1>7 DEF Tell
  <2>2. owed \ lost \subseteq sw.changed
    BY <2>1, <1>inv DEF GoingToTell
  <2>3. CASE sw' = Waiting /\ UNCHANGED told /\ sw.changed = {}
    BY <2>2, <2>3, <1>waiting
  <2>4. ASSUME NEW p, sw' = [sw EXCEPT !.changed = @ \ {p}], owed' = owed \ {p}, lost' = lost \ {p}
        PROVE  InHand' /\ Left' /\ GoingToTell'
    <3>1. /\ sw'.at = "tell" /\ sw'.todo = sw.todo /\ sw'.found = sw.found
          /\ sw'.failed = sw.failed /\ sw'.changed = sw.changed \ {p}
      BY <2>1, <2>4, <1>type DEF Sweeper
    <3>2. InHand' /\ Left'
      BY <2>1, <3>1, <1>inv, <1>on DEF InHand, Left, Working
    <3>3. GoingToTell'
      BY <2>2, <2>4, <3>1, <1>inv DEF GoingToTell
    <3> QED BY <3>2, <3>3
  <2> QED BY <1>7, <2>3, <2>4 DEF Tell
<1>8. CASE Fail
  <2>1. owed' \ lost' \subseteq sw.changed
    BY <1>8, <1>inv DEF Fail, GoingToTell
  <2> QED BY <1>8, <2>1, <1>end DEF Fail
<1>9. CASE Crash
  BY <1>9, <1>waiting DEF Crash
<1>10. CASE UNCHANGED <<sw, told>>
  BY <1>10, <1>same
<1> QED BY <1>1, <1>2, <1>3, <1>4, <1>5, <1>6, <1>7, <1>8, <1>9, <1>10
        DEF Next, Sweep, TouchClock, Advance, Delete, Purge, Pass, vars

LEMMA Invariance == Spec => []IInv
<1>1. IInv /\ [Next]_vars => ClocksRun'
  BY RowsStep DEF RowsKept, ClocksRun
<1>2. IInv /\ [Next]_vars => IInv'
  BY <1>1, TypeStep, HandStep DEF IInv
<1> QED BY <1>2, Start, PTL DEF Spec

-----------------------------------------------------------------------------
(* The results.                                                             *)

\* Every variable keeps its type, and a poll has an end exactly when closed.
THEOREM SweeperTypeCorrect == Spec => []TypeOK
<1>1. IInv => TypeOK
  BY DEF IInv
<1> QED BY <1>1, Invariance, PTL

\* SweepDueTimers: a sweep that no error ended has left no poll in the round in
\* which it found it due.
THEOREM SweepsAll == Spec => []NothingDueIsLeft
<1>1. IInv => NothingDueIsLeft
  <2> SUFFICES ASSUME IInv, sw.at = "tell", ~sw.failed, NEW c \in sw.found,
                      ~(row[c.poll].stage > c.stage)
               PROVE  FALSE
    BY DEF NothingDueIsLeft
  <2>1. c \in sw.todo
    BY DEF IInv, Left
  <2>2. sw.todo = {}
    BY DEF IInv, InHand
  <2> QED BY <2>1, <2>2
<1> QED BY <1>1, Invariance, PTL

\* RunTimerSweeper: before it waits again the sweeper has told of every round
\* that it ended, but for those whose announcement a failed write or a crash lost.
THEOREM SweepsAreTold == Spec => []SweptChangesAreTold
<1>1. IInv => SweptChangesAreTold
  BY DEF IInv, GoingToTell, SweptChangesAreTold
<1> QED BY <1>1, Invariance, PTL

\* A voting round that the sweeper opened is told of before the sweeper closes
\* it, unless the write after its claim failed or the process died before.
THEOREM OpenedIsTold == Spec => OpenedIsToldBeforeClosed
<1>1. IInv => (sw.at = "claim" /\ sw.cur.poll \in owed => sw.cur.poll \in lost)
  BY DEF IInv, GoingToTell
<1> QED BY <1>1, Invariance, PTL DEF OpenedIsToldBeforeClosed, Spec

\* DeleteClosedPollsBefore: comparing times as text errs only within the
\* cutoff's own second.
THEOREM PurgeRightToTheSecond == Spec => PurgeIsRightToTheSecond
<1>1. ASSUME TypeOK, Purge, NEW p \in Polls, row[p].stage = Closed
      PROVE  LET end == row[p].closedAt \div 2  cut == (now - Retention) \div 2 IN
             /\ end < cut => row'[p].stage = Deleted
             /\ row'[p].stage = Deleted => end <= cut
  <2>1. row[p].closedAt \in Nat /\ now - Retention \in Nat
    BY <1>1, SweeperAssumption DEF TypeOK, Row, Time, Purge, Cutoff
  <2>2. row'[p] = IF TextBefore(row[p].closedAt, Cutoff) THEN Gone ELSE row[p]
    BY <1>1 DEF Purge
  <2>3. row[p].closedAt \div 2 \in Int /\ (now - Retention) \div 2 \in Int
    BY <2>1
  <2>4. row'[p].stage = Deleted <=> TextBefore(row[p].closedAt, Cutoff)
    BY <1>1, <2>2 DEF Gone, Closed, Deleted
  <2> QED BY <2>3, <2>4 DEF TextBefore, Cutoff
<1>2. TypeOK => [Purge => \A p \in Polls : row[p].stage = Closed =>
                   LET end == row[p].closedAt \div 2  cut == (now - Retention) \div 2 IN
                   /\ end < cut => row'[p].stage = Deleted
                   /\ row'[p].stage = Deleted => end <= cut]_vars
  BY <1>1
<1> QED BY <1>2, SweeperTypeCorrect, PTL DEF PurgeIsRightToTheSecond

=============================================================================
