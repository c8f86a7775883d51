---------------------------- MODULE PollTimersProofs ----------------------------
(***************************************************************************)
(* Proofs about PollTimers, for any number of concurrent operations, any   *)
(* horizon and any number of operations cut short.                         *)
(***************************************************************************)
EXTENDS PollTimers, TLAPS

\* A row, or a copy of one, none of whose times is further away than
\* Horizon at time t.
Near(p, t) ==
  /\ p \in Row /\ p.paused <= Horizon
  /\ \A i \in Rounds : /\ p.dur[i] <= Horizon
                       /\ p.closes[i] # None => p.closes[i] <= t + Horizon

\* Where the timer is paused no clock runs, and a timed vote has a clock.
Sound(p) ==
  /\ p.paused > 0 => ActiveClosesAt(p) = None
  /\ (p.stage = 2 /\ p.mode = "quick" /\ p.dur[2] > 0) =>
       ActiveClosesAt(p) # None \/ p.paused > 0

\* What an operation in flight carries.
Carried ==
  \A s \in Slots :
    /\ op[s].at \in {"claim", "write"} => Near(op[s].p, now)
    /\ op[s].at = "claim" => /\ op[s].p.stage \in Rounds /\ op[s].to \in {2, Closed}
                             /\ op[s].p.stage < op[s].to
    /\ op[s].at = "write" => \/ op[s].to = None
                             \/ op[s].to = 2 /\ op[s].p.stage = 2 /\ Sound(op[s].p)

\* The row is sound, or round 2 has been claimed and the operation that did so
\* will write a sound one; what was read from such a row in between is stale
\* by then.
SoundRow == Opening \/ Sound(row)

SoundCopies ==
  \A s \in Slots : op[s].at = "write" /\ ~op[s].stale =>
    /\ op[s].p.stage = row.stage
    /\ Sound(op[s].p) \/ (Opening /\ ~Sound(row))

\* While its copy is fresh the sweeper's round is due.
SweptIsDue == op[Sweeper].at = "claim" /\ ~op[Sweeper].stale => Due(row)

\* The inductive invariant.
IInv == /\ TypeOK /\ Near(row, now) /\ Carried /\ SweptIsDue
        /\ disturbed \/ (SoundRow /\ SoundCopies)

-----------------------------------------------------------------------------
(* What the operations make of a row.                                       *)

LEMMA Bounds ==
  /\ Horizon \in Nat /\ Horizon > 0 /\ MaxAborts \in Nat
  /\ 0 \in Time /\ 1 \in Time /\ None \notin Time
  /\ \A t, d \in 0 .. Horizon : t + d \in Time
BY BoundsAssumption, NoneAssumption DEF Time

LEMMA NearLater ==
  ASSUME NEW p, NEW t \in Nat, NEW u \in Nat, t <= u, Near(p, t)
  PROVE  Near(p, u)
<1>1. \A i \in Rounds : p.closes[i] # None => p.closes[i] \in Nat
  BY Bounds DEF Near, Row, Time
<1> QED BY <1>1, Bounds DEF Near

\* SetActiveClosesAt changes the close time of the active round and no more.
LEMMA SetActive ==
  ASSUME NEW p \in Row, p.stage \in Rounds, NEW t \in Time \cup {None}
  PROVE  LET q == SetActiveClosesAt(p, t) IN
         /\ q \in Row
         /\ q.stage = p.stage /\ q.mode = p.mode /\ q.dur = p.dur /\ q.paused = p.paused
         /\ q.closes = [p.closes EXCEPT ![p.stage] = t]
         /\ ActiveClosesAt(q) = t
BY DEF SetActiveClosesAt, Row, ActiveClosesAt, Rounds, Closed

\* A row with another close time for the active round, or another pause.
LEMMA Retimed ==
  ASSUME NEW p, NEW t \in 0 .. Horizon, Near(p, t), p.stage \in Rounds,
         NEW q \in Row, q.stage = p.stage, q.mode = p.mode,
         q.paused <= Horizon, q.dur = p.dur,
         NEW c \in Time \cup {None}, c # None => c <= t + Horizon,
         q.closes = [p.closes EXCEPT ![p.stage] = c]
  PROVE  Near(q, t) /\ ActiveClosesAt(q) = c
BY DEF Near, Row, ActiveClosesAt, Rounds, Closed

\* The active round of a row that is near: its end and its length.
LEMMA Active ==
  ASSUME NEW p, NEW t \in 0 .. Horizon, Near(p, t), p.stage # Closed
  PROVE  /\ p \in Row /\ p.stage \in Rounds
         /\ p.paused \in 0 .. Horizon /\ ActiveDuration(p) \in 0 .. Horizon
         /\ ActiveClosesAt(p) \in Time \cup {None}
         /\ ActiveClosesAt(p) # None => ActiveClosesAt(p) <= t + Horizon
BY Bounds DEF Near, Row, Time, ActiveClosesAt, ActiveDuration, Rounds, Closed

\* Opening round 2 ends the pause and gives a timed vote its clock.
LEMMA EnterRound2Sound ==
  ASSUME NEW p, now \in 0 .. Horizon, Near(p, now), p.stage # Closed
  PROVE  LET q == EnterRound2(p) IN Near(q, now) /\ q.stage = 2 /\ q.paused = 0 /\ Sound(q)
<1> DEFINE q == [p EXCEPT !.stage = 2, !.paused = 0]
<1>1. p \in Row /\ p.dur[2] \in 0 .. Horizon
  BY Bounds DEF Near, Row, Time, Rounds
<1>2. /\ q \in Row /\ q.stage = 2 /\ q.paused = 0
      /\ q.mode = p.mode /\ q.dur = p.dur /\ q.closes = p.closes
  BY <1>1, Bounds DEF Row, Rounds
<1>3. Near(q, now)
  BY <1>2, Bounds DEF Near
<1>4. q.stage \in Rounds
  BY <1>2 DEF Rounds
<1> HIDE DEF q
<1>5. CASE p.mode = "quick" /\ p.dur[2] > 0
  <2> DEFINE c == now + p.dur[2]
             r == SetActiveClosesAt(q, c)
  <2>1. c \in Time /\ c # None /\ c <= now + Horizon
    BY <1>1, Bounds DEF Time
  <2> HIDE DEF c
  <2>2. /\ r \in Row /\ r.stage = 2 /\ r.mode = q.mode /\ r.dur = q.dur /\ r.paused = 0
        /\ r.closes = [q.closes EXCEPT ![q.stage] = c] /\ ActiveClosesAt(r) = c
    BY <1>2, <1>4, <2>1, SetActive
  <2> HIDE DEF r
  <2>3. Near(r, now)
    BY <1>2, <1>3, <1>4, <2>1, <2>2, Bounds, Retimed
  <2>4. Sound(r)
    BY <2>1, <2>2 DEF Sound
  <2>5. EnterRound2(p) = r
    BY <1>5 DEF EnterRound2, q, r, c
  <2> QED BY <2>2, <2>3, <2>4, <2>5
<1>6. CASE ~(p.mode = "quick" /\ p.dur[2] > 0)
  <2>1. EnterRound2(p) = q
    BY <1>6 DEF EnterRound2, q
  <2>2. Sound(q)
    BY <1>2, <1>6 DEF Sound
  <2> QED BY <1>2, <1>3, <2>1, <2>2
<1> QED BY <1>5, <1>6

\* What Start, Pause and Extend are going to write is near, for the round they
\* found, and sound when they found the row sound.
Fine(q) == Near(q, now) /\ q.stage = row.stage /\ (Sound(row) => Sound(q))

LEMMA HostPrepares ==
  ASSUME TypeOK, Near(row, now), NEW s \in Slots,
         StartTimer(s) \/ PauseTimer(s) \/ ExtendTimer(s)
  PROVE  \E q : Prepare(s, q) /\ Fine(q)
<1>now. now \in 0 .. Horizon
  BY DEF TypeOK
<1>row. row \in Row
  BY DEF TypeOK
\* The active round gets another end, and the pause is as given.
<1>clock. ASSUME row.stage # Closed,
                 NEW c \in Time \cup {None}, c # None => c <= now + Horizon,
                 NEW paused \in 0 .. Horizon,
                 IF c = None THEN paused > 0 ELSE paused = 0
          PROVE  LET q == [SetActiveClosesAt(row, c) EXCEPT !.paused = paused] IN
                 Near(q, now) /\ q.stage = row.stage /\ Sound(q)
  <2> DEFINE r == SetActiveClosesAt(row, c)
             q == [r EXCEPT !.paused = paused]
  <2>1. row.stage \in Rounds /\ paused \in Time
    BY <1>clock, <1>row, Bounds DEF Row, Closed, Time
  <2>2. /\ r \in Row /\ r.stage = row.stage /\ r.mode = row.mode /\ r.dur = row.dur
        /\ r.closes = [row.closes EXCEPT ![row.stage] = c]
    BY <1>clock, <1>row, <2>1, SetActive
  <2> HIDE DEF r
  <2>3. /\ q \in Row /\ q.stage = row.stage /\ q.mode = row.mode /\ q.dur = row.dur
        /\ q.paused = paused
        /\ q.closes = [row.closes EXCEPT ![row.stage] = c]
    BY <2>1, <2>2 DEF Row
  <2> HIDE DEF q
  <2>4. Near(q, now) /\ ActiveClosesAt(q) = c
    BY <1>clock, <1>now, <2>1, <2>3, Retimed
  <2>5. Sound(q)
    BY <1>clock, <2>3, <2>4 DEF Sound
  <2> QED BY <2>3, <2>4, <2>5 DEF q, r
\* The same where the pause stays 0.
<1>start. ASSUME row.stage # Closed, row.paused = 0, NEW c \in Time, c <= now + Horizon
          PROVE  Fine(SetActiveClosesAt(row, c))
  <2> DEFINE r == SetActiveClosesAt(row, c)
  <2>1. row.stage \in Rounds /\ c # None
    BY <1>start, <1>row, Bounds DEF Row, Closed
  <2>2. /\ r \in Row /\ r.stage = row.stage /\ r.mode = row.mode /\ r.dur = row.dur
        /\ r.paused = 0
        /\ r.closes = [row.closes EXCEPT ![row.stage] = c]
    BY <1>start, <1>row, <2>1, SetActive
  <2> HIDE DEF r
  <2>3. Near(r, now) /\ ActiveClosesAt(r) = c
    BY <1>start, <1>now, <2>1, <2>2, Bounds, Retimed
  <2>4. Sound(r)
    BY <2>1, <2>2, <2>3 DEF Sound
  <2> QED BY <2>2, <2>3, <2>4 DEF Fine, r
\* The active round's end is a time, and the poll is not closed then.
<1>running. ASSUME ActiveClosesAt(row) # None
            PROVE  /\ row.stage # Closed /\ ActiveClosesAt(row) \in Time
                   /\ ActiveClosesAt(row) <= now + Horizon
  <2>1. row.stage # Closed
    BY <1>running DEF ActiveClosesAt
  <2> QED BY <1>running, <1>now, <2>1, Active
<1>armed. ASSUME ActiveDuration(row) > 0
          PROVE  row.stage # Closed /\ ActiveDuration(row) \in 1 .. Horizon
  <2>1. row.stage # Closed
    BY <1>armed DEF ActiveDuration
  <2> QED BY <1>armed, <1>now, <2>1, Active, Bounds
<1>paused. row.paused \in 0 .. Horizon
  BY <1>row, Bounds DEF Near, Row, Time
<1>1. CASE StartTimer(s)
  <2>1. CASE /\ row.stage # Closed /\ row.paused > 0
             /\ Prepare(s, [SetActiveClosesAt(row, now + row.paused) EXCEPT !.paused = 0])
    <3>1. /\ now + row.paused \in Time /\ now + row.paused # None
          /\ now + row.paused <= now + Horizon /\ 0 \in 0 .. Horizon
      BY <1>now, <1>paused, Bounds
    <3>2. Fine([SetActiveClosesAt(row, now + row.paused) EXCEPT !.paused = 0])
      BY <2>1, <3>1, <1>clock DEF Fine
    <3> QED BY <2>1, <3>2
  <2>2. CASE /\ row.paused = 0 /\ ActiveDuration(row) > 0
             /\ Prepare(s, SetActiveClosesAt(row, now + ActiveDuration(row)))
    <3>1. /\ now + ActiveDuration(row) \in Time /\ row.stage # Closed
          /\ now + ActiveDuration(row) <= now + Horizon
      BY <1>now, <1>armed, <2>2, Bounds
    <3> QED BY <2>2, <3>1, <1>start
  <2> QED BY <1>1, <2>1, <2>2 DEF StartTimer
<1>2. CASE PauseTimer(s)
  <2>1. ActiveClosesAt(row) # None
    BY <1>2 DEF PauseTimer
  <2>2. Remaining(ActiveClosesAt(row)) \in 1 .. Horizon
    BY <1>now, <1>running, <2>1, Bounds DEF Remaining, Time
  <2>3. Fine([SetActiveClosesAt(row, None) EXCEPT !.paused = Remaining(ActiveClosesAt(row))])
    BY <1>clock, <1>running, <2>1, <2>2 DEF Fine
  <2> QED BY <1>2, <2>3 DEF PauseTimer
<1>3. CASE ExtendTimer(s)
  <2>1. CASE row.paused \in 1 .. Horizon - 1 /\ Prepare(s, [row EXCEPT !.paused = @ + 1])
    <3> DEFINE q == [row EXCEPT !.paused = @ + 1]
    <3>1. /\ q \in Row /\ q.stage = row.stage /\ q.mode = row.mode /\ q.dur = row.dur
          /\ q.closes = row.closes /\ q.paused = row.paused + 1
          /\ q.paused \in 1 .. Horizon
      BY <1>row, <2>1, Bounds DEF Row, Time
    <3> HIDE DEF q
    <3>2. Near(q, now)
      BY <3>1, Bounds DEF Near
    <3>3. Sound(row) => Sound(q)
      BY <2>1, <3>1 DEF Sound, ActiveClosesAt
    <3> QED BY <2>1, <3>1, <3>2, <3>3 DEF Fine, q
  <2>2. CASE /\ row.paused = 0 /\ ActiveClosesAt(row) \in 0 .. Horizon - 1
             /\ Prepare(s, SetActiveClosesAt(row, ActiveClosesAt(row) + 1))
    <3>1. /\ row.stage # Closed /\ ActiveClosesAt(row) + 1 \in Time
          /\ ActiveClosesAt(row) + 1 <= now + Horizon
      <4>1. ActiveClosesAt(row) # None
        BY <2>2, NoneAssumption
      <4> QED BY <2>2, <4>1, <1>running, <1>now, Bounds DEF Time
    <3> QED BY <2>2, <3>1, <1>start
  <2>3. CASE /\ row.paused = 0 /\ ActiveClosesAt(row) = None
             /\ ActiveDuration(row) \in 1 .. Horizon - 1
             /\ Prepare(s, [row EXCEPT !.dur[row.stage] = @ + 1])
    <3> DEFINE q == [row EXCEPT !.dur[row.stage] = @ + 1]
    <3>1. row.stage \in Rounds /\ row.dur[row.stage] \in 1 .. Horizon - 1
      BY <2>3, <1>armed, <1>row DEF ActiveDuration, Row, Closed
    <3>2. row.dur[row.stage] + 1 \in Time /\ row.dur[row.stage] + 1 <= Horizon
      BY <3>1, Bounds DEF Time
    <3>3. /\ q \in Row /\ q.stage = row.stage /\ q.mode = row.mode
          /\ q.dur = [row.dur EXCEPT ![row.stage] = @ + 1]
          /\ q.closes = row.closes /\ q.paused = row.paused
      BY <1>row, <3>1, <3>2 DEF Row
    <3> HIDE DEF q
    <3>4. Near(q, now)
      BY <1>row, <3>1, <3>2, <3>3 DEF Near, Row
    <3>5. Sound(row) => Sound(q)
      BY <1>row, <2>3, <3>1, <3>3 DEF Sound, ActiveClosesAt, Row, Rounds, Closed
    <3> QED BY <2>3, <3>3, <3>4, <3>5 DEF Fine, q
  <2> QED BY <1>3, <2>1, <2>2, <2>3 DEF ExtendTimer
<1> QED BY <1>1, <1>2, <1>3

-----------------------------------------------------------------------------
(* What the steps do to the operations.                                     *)

\* The operations other than s go on, and their copies are stale if the row
\* has changed.
Others(s) ==
  \A t \in Slots \ {s} :
    /\ op'[t].at = op[t].at
    /\ op[t].at # "idle" => /\ op'[t].p = op[t].p /\ op'[t].to = op[t].to
                            /\ op'[t].stale <=> (op[t].stale \/ row' # row)

\* An operation has loaded the row, to change the timer or to leave the round.
Begins(s) ==
  /\ Others(s) /\ UNCHANGED <<row, now, disturbed>>
  /\ op[s].at = "idle" /\ ~op'[s].stale
  /\ \/ s # Sweeper /\ op'[s].at = "write" /\ op'[s].to = None /\ Fine(op'[s].p)
     \/ /\ op'[s].at = "claim" /\ op'[s].p = row
        /\ row.stage \in Rounds /\ op'[s].to \in {2, Closed} /\ row.stage < op'[s].to
        /\ s = Sweeper => Due(row)

\* It is over without having written: another one was first, or it was cut short.
Ends(s) ==
  /\ Others(s) /\ UNCHANGED <<row, now>>
  /\ op'[s].at = "idle"
  /\ disturbed' \/ (op[s].at = "claim" /\ UNCHANGED disturbed)

\* It writes its copy.
Writes(s) ==
  /\ Others(s) /\ UNCHANGED now
  /\ op[s].at = "write" /\ op'[s].at = "idle"
  /\ row' = [op[s].p EXCEPT !.stage = row.stage]
  /\ disturbed' <=> (disturbed \/ op[s].stale)

\* It leaves the round, and goes on to write the timers of round 2.
Leaves(s) ==
  /\ Others(s) /\ UNCHANGED now
  /\ op[s].at = "claim" /\ row.stage = op[s].p.stage
  /\ row' = [row EXCEPT !.stage = op[s].to]
  /\ disturbed' <=> (disturbed \/ op[s].stale)
  /\ \/ op[s].to = Closed /\ op'[s].at = "idle"
     \/ /\ op[s].to = 2 /\ op'[s].to = 2
        /\ op'[s].at = "write" /\ op'[s].p = EnterRound2(op[s].p)

Stays ==
  /\ UNCHANGED <<row, disturbed, op>>
  /\ now' = now \/ now' = now + 1

LEMMA Steps ==
  ASSUME IInv, [Next]_vars
  PROVE  /\ op' \in [Slots -> Op] /\ disturbed' \in BOOLEAN
         /\ aborts' \in 0 .. MaxAborts /\ now' \in 0 .. Horizon
         /\ \/ Stays
            \/ \E s \in Slots : Begins(s) \/ Ends(s) \/ Writes(s) \/ Leaves(s)
<1>type. /\ op \in [Slots -> Op] /\ row \in Row /\ disturbed \in BOOLEAN
         /\ aborts \in 0 .. MaxAborts /\ now \in 0 .. Horizon
  BY DEF IInv, TypeOK
<1>idle. Idle \in Op /\ Idle.at = "idle"
  BY DEF Idle, Op
<1>except. ASSUME NEW s \in Slots, NEW o \in Op, op' = [op EXCEPT ![s] = o], row' = row
           PROVE  op' \in [Slots -> Op] /\ op'[s] = o /\ Others(s)
  BY <1>except, <1>type DEF Others
<1>proceed. ASSUME NEW s \in Slots, NEW o \in Op, Proceed(s, o)
            PROVE  op' \in [Slots -> Op] /\ op'[s] = o /\ Others(s)
  <2>1. ASSUME NEW t \in Slots, t # s, op[t] = Idle
        PROVE  op'[t] \in Op /\ op'[t].at = op[t].at /\ op[t].at = "idle"
    BY <2>1, <1>proceed, <1>idle DEF Proceed
  <2>2. ASSUME NEW t \in Slots, t # s, op[t] # Idle
        PROVE  /\ op'[t] \in Op /\ op'[t].at = op[t].at
               /\ op'[t].p = op[t].p /\ op'[t].to = op[t].to
               /\ op'[t].stale <=> (op[t].stale \/ row' # row)
    <3>1. op'[t] = [op[t] EXCEPT !.stale = op[t].stale \/ row' # row]
      BY <2>2, <1>proceed DEF Proceed
    <3>2. op[t] \in Op
      BY <1>type
    <3> QED BY <3>1, <3>2 DEF Op
  <2>3. op'[s] = o
    BY <1>proceed DEF Proceed
  <2>4. op' \in [Slots -> Op]
    BY <1>proceed, <2>1, <2>2, <2>3 DEF Proceed
  <2> QED BY <2>1, <2>2, <2>3, <2>4 DEF Others
<1>1. ASSUME NEW s \in Slots, StartTimer(s) \/ PauseTimer(s) \/ ExtendTimer(s)
      PROVE  op' \in [Slots -> Op] /\ Begins(s) /\ UNCHANGED <<now, aborts, disturbed>>
  <2>1. PICK q : Prepare(s, q) /\ Fine(q)
    BY <1>1, HostPrepares DEF IInv
  <2>2. [Idle EXCEPT !.at = "write", !.p = q] \in Op
    BY <2>1 DEF Idle, Op, Fine, Near
  <2>3. op'[s] = [Idle EXCEPT !.at = "write", !.p = q] /\ op' \in [Slots -> Op] /\ Others(s)
    BY <2>1, <2>2, <1>except DEF Prepare
  <2>4. op'[s].at = "write" /\ op'[s].p = q /\ op'[s].to = None /\ ~op'[s].stale
    BY <2>3 DEF Idle
  <2> QED BY <1>idle, <2>1, <2>3, <2>4 DEF Begins, Prepare
<1>2. ASSUME NEW s \in Slots, BeginAdvance(s), s = Sweeper => Due(row)
      PROVE  op' \in [Slots -> Op] /\ Begins(s) /\ UNCHANGED <<now, aborts, disturbed>>
  <2>1. PICK to \in {row.stage + 1, Closed} :
          op' = [op EXCEPT ![s] = [at |-> "claim", p |-> row, to |-> to, stale |-> FALSE]]
    BY <1>2 DEF BeginAdvance
  <2>2. row.stage \in Rounds /\ to \in {2, Closed} /\ row.stage < to
    BY <1>2, <1>type, <2>1 DEF BeginAdvance, Row, Rounds, Closed
  <2>3. [at |-> "claim", p |-> row, to |-> to, stale |-> FALSE] \in Op
    BY <1>type, <2>2 DEF Op, Rounds
  <2>4. /\ op'[s] = [at |-> "claim", p |-> row, to |-> to, stale |-> FALSE]
        /\ op' \in [Slots -> Op] /\ Others(s)
    BY <1>2, <2>1, <2>3, <1>except DEF BeginAdvance
  <2> QED BY <1>2, <1>idle, <2>2, <2>4 DEF Begins, BeginAdvance
<1>3. ASSUME NEW s \in Slots, UpdatePollTimers(s)
      PROVE  /\ op' \in [Slots -> Op] /\ Writes(s)
             /\ UNCHANGED <<now, aborts>> /\ disturbed' \in BOOLEAN
  BY <1>3, <1>idle, <1>proceed, <1>type DEF UpdatePollTimers, Writes
<1>4. ASSUME NEW s \in Slots, ClaimStage(s)
      PROVE  /\ op' \in [Slots -> Op] /\ (Ends(s) \/ Leaves(s))
             /\ UNCHANGED <<now, aborts>> /\ disturbed' \in BOOLEAN
  <2>1. op[s].at = "claim"
    BY <1>4 DEF ClaimStage
  <2>2. CASE row.stage # op[s].p.stage
    BY <1>4, <2>2, <1>idle, <1>except, <1>type DEF ClaimStage, Ends
  <2>3. CASE row.stage = op[s].p.stage
    <3>1. CASE op[s].to = 2
      <4> DEFINE o == [op[s] EXCEPT !.at = "write", !.p = EnterRound2(op[s].p)]
      <4>1. EnterRound2(op[s].p) \in Row
        BY <2>1, <1>type, EnterRound2Sound DEF IInv, Carried, Near, Rounds, Closed
      <4>2. o \in Op /\ o.at = "write" /\ o.to = 2 /\ o.p = EnterRound2(op[s].p)
        BY <4>1, <3>1, <1>type DEF Op
      <4>3. Proceed(s, o)
        BY <1>4, <2>3, <3>1 DEF ClaimStage
      <4> HIDE DEF o
      <4>4. op' \in [Slots -> Op] /\ op'[s] = o /\ Others(s)
        BY <4>2, <4>3, <1>proceed
      <4> QED BY <1>4, <2>3, <3>1, <4>2, <4>4, <1>type DEF ClaimStage, Leaves
    <3>2. CASE op[s].to # 2
      <4>1. op[s].to = Closed
        BY <2>1, <3>2 DEF IInv, Carried
      <4>2. Proceed(s, Idle)
        BY <1>4, <2>3, <3>2 DEF ClaimStage
      <4>3. op' \in [Slots -> Op] /\ op'[s] = Idle /\ Others(s)
        BY <4>2, <1>idle, <1>proceed
      <4> QED BY <1>4, <2>3, <4>1, <4>3, <1>idle, <1>type DEF ClaimStage, Leaves
    <3> QED BY <3>1, <3>2
  <2> QED BY <2>2, <2>3
<1>5. ASSUME NEW s \in Slots, Abort(s)
      PROVE  /\ op' \in [Slots -> Op] /\ Ends(s) /\ aborts' \in 0 .. MaxAborts
             /\ disturbed' \in BOOLEAN /\ now' = now
  <2>1. op' \in [Slots -> Op] /\ op'[s] = Idle /\ Others(s)
    BY <1>5, <1>idle, <1>except DEF Abort
  <2>2. disturbed' = TRUE /\ UNCHANGED <<row, now>>
    BY <1>5 DEF Abort
  <2>3. aborts' \in 0 .. MaxAborts
    BY <1>5, <1>type, Bounds DEF Abort
  <2> QED BY <2>1, <2>2, <2>3, <1>idle DEF Ends
<1>6. CASE Tick
  BY <1>6, <1>type, Bounds DEF Tick, Stays
<1>7. CASE Rest \/ UNCHANGED vars
  BY <1>7, <1>type DEF Rest, vars, Stays
<1>8. CASE Sweep
  BY <1>8, <1>2, <1>type, SweeperAssumption DEF Sweep
<1>9. ASSUME NEW s \in Slots, Host(s)
      PROVE  op' \in [Slots -> Op] /\ Begins(s) /\ UNCHANGED <<now, aborts, disturbed>>
  BY <1>9, <1>1, <1>2 DEF Host, HostAdvance
<1> QED BY <1>3, <1>4, <1>5, <1>6, <1>7, <1>8, <1>9, <1>type DEF Next, Continue

-----------------------------------------------------------------------------
(* The invariant.                                                           *)

LEMMA Start == Init => IInv
<1> SUFFICES ASSUME Init PROVE IInv
  OBVIOUS
<1>1. /\ row \in Row /\ row.stage = 1 /\ row.paused = 0
      /\ \A i \in Rounds : /\ row.dur[i] <= Horizon
                           /\ row.closes[i] # None => row.closes[i] <= Horizon
  BY Bounds DEF Init, Created, Row, Time
<1>2. now = 0 /\ aborts = 0 /\ disturbed = FALSE
  BY DEF Init
<1>3. \A s \in Slots : op[s] = Idle /\ Idle \in Op /\ Idle.at = "idle"
  BY DEF Init, Idle, Op
<1>4. TypeOK
  <2>1. op \in [Slots -> Op]
    BY <1>3 DEF Init
  <2>2. now \in 0 .. Horizon /\ aborts \in 0 .. MaxAborts
    BY <1>2, Bounds
  <2>3. disturbed \in BOOLEAN
    BY <1>2
  <2> QED BY <1>1, <2>1, <2>2, <2>3 DEF TypeOK
<1>5. Near(row, now)
  BY <1>1, <1>2, Bounds DEF Near
<1>6. Carried /\ SweptIsDue /\ SoundCopies
  BY <1>3, SweeperAssumption DEF Carried, SweptIsDue, SoundCopies
<1>7. SoundRow
  BY <1>1 DEF SoundRow, Sound
<1> QED BY <1>4, <1>5, <1>6, <1>7 DEF IInv

\* A row in another stage.
LEMMA Staged ==
  ASSUME NEW p, NEW t, Near(p, t), NEW g \in Rounds \cup {Closed}
  PROVE  LET q == [p EXCEPT !.stage = g] IN
         /\ Near(q, t) /\ q.stage = g
         /\ p.stage = g => q = p
         /\ g = Closed => Sound(q)
<1> DEFINE q == [p EXCEPT !.stage = g]
<1>1. /\ q \in Row /\ q.stage = g /\ q.mode = p.mode /\ q.dur = p.dur
      /\ q.closes = p.closes /\ q.paused = p.paused
  BY DEF Near, Row
<1>2. p.stage = g => q = p
  BY DEF Near, Row
<1> HIDE DEF q
<1>3. Near(q, t)
  BY <1>1 DEF Near
<1>4. g = Closed => Sound(q)
  BY <1>1 DEF Sound, ActiveClosesAt, Closed
<1> QED BY <1>1, <1>2, <1>3, <1>4 DEF q

\* Time only goes on.
LEMMA Later ==
  ASSUME IInv, [Next]_vars
  PROVE  now \in Nat /\ now' \in Nat /\ now <= now'
<1>1. now \in 0 .. Horizon /\ now' \in 0 .. Horizon
  BY Steps DEF IInv, TypeOK
<1>2. now' = now \/ now' = now + 1
  BY Steps DEF Stays, Begins, Ends, Writes, Leaves
<1> QED BY <1>1, <1>2, Bounds

LEMMA NearStep ==
  ASSUME IInv, [Next]_vars
  PROVE  Near(row', now')
<1>near. Near(row, now) /\ row \in Row
  BY DEF IInv, Near
<1>1. ASSUME row' = row PROVE Near(row', now')
  BY <1>1, <1>near, Later, NearLater
<1>2. ASSUME NEW s \in Slots, Writes(s) PROVE Near(row', now')
  <2>1. Near(op[s].p, now)
    BY <1>2 DEF IInv, Carried, Writes
  <2>2. Near(row', now)
    BY <1>2, <1>near, <2>1, Staged DEF Writes, Row
  <2> QED BY <2>2, Later, NearLater
<1>3. ASSUME NEW s \in Slots, Leaves(s) PROVE Near(row', now')
  <2>1. op[s].to \in Rounds \cup {Closed}
    BY <1>3 DEF IInv, Carried, Leaves, Rounds
  <2>2. Near(row', now)
    BY <1>3, <1>near, <2>1, Staged DEF Leaves
  <2> QED BY <2>2, Later, NearLater
<1> QED BY <1>1, <1>2, <1>3, Steps DEF Stays, Begins, Ends

LEMMA CarriedStep ==
  ASSUME IInv, [Next]_vars
  PROVE  Carried'
<1> DEFINE Holds(o, t) ==
      /\ o.at \in {"claim", "write"} => Near(o.p, t)
      /\ o.at = "claim" => /\ o.p.stage \in Rounds /\ o.to \in {2, Closed}
                           /\ o.p.stage < o.to
      /\ o.at = "write" => \/ o.to = None
                           \/ o.to = 2 /\ o.p.stage = 2 /\ Sound(o.p)
<1>carried. \A s \in Slots : Holds(op[s], now)
  BY DEF IInv, Carried
<1>near. Near(row, now) /\ now' = now => Near(row, now')
  OBVIOUS
\* What is not touched stays.
<1>kept. ASSUME NEW t \in Slots,
                op'[t].at = op[t].at,
                op[t].at # "idle" => op'[t].p = op[t].p /\ op'[t].to = op[t].to
         PROVE  Holds(op'[t], now')
  <2>1. Holds(op[t], now)
    BY <1>carried
  <2>2. op[t].at \in {"claim", "write"} => Near(op[t].p, now')
    BY <2>1, Later, NearLater
  <2> QED BY <2>1, <2>2, <1>kept
<1>own. ASSUME NEW s \in Slots, Begins(s) \/ Ends(s) \/ Writes(s) \/ Leaves(s)
        PROVE  Holds(op'[s], now')
  <2>1. CASE Begins(s)
    <3>1. now' = now /\ (op'[s].at = "write" \/ op'[s].at = "claim")
      BY <2>1 DEF Begins
    <3>2. CASE op'[s].at = "write"
      BY <2>1, <3>1, <3>2 DEF Begins, Fine
    <3>3. CASE op'[s].at = "claim"
      BY <2>1, <3>1, <3>3 DEF Begins, IInv
    <3> QED BY <3>1, <3>2, <3>3
  <2>2. CASE Ends(s) \/ Writes(s)
    BY <2>2 DEF Ends, Writes
  <2>3. CASE Leaves(s)
    <3>1. Near(op[s].p, now) /\ op[s].p.stage # Closed /\ now \in 0 .. Horizon /\ now' = now
      BY <2>3, <1>carried DEF Leaves, IInv, TypeOK, Rounds, Closed
    <3>2. LET q == EnterRound2(op[s].p) IN Near(q, now) /\ q.stage = 2 /\ Sound(q)
      BY <3>1, EnterRound2Sound
    <3> QED BY <2>3, <3>1, <3>2 DEF Leaves
  <2> QED BY <1>own, <2>1, <2>2, <2>3
<1>1. \A t \in Slots : Holds(op'[t], now')
  <2>1. CASE Stays
    BY <2>1, <1>kept DEF Stays
  <2>2. ASSUME NEW s \in Slots, Begins(s) \/ Ends(s) \/ Writes(s) \/ Leaves(s)
        PROVE  \A t \in Slots : Holds(op'[t], now')
    <3>1. Others(s)
      BY <2>2 DEF Begins, Ends, Writes, Leaves
    <3>2. ASSUME NEW t \in Slots, t # s PROVE Holds(op'[t], now')
      <4>1. /\ op'[t].at = op[t].at
            /\ op[t].at # "idle" => op'[t].p = op[t].p /\ op'[t].to = op[t].to
        BY <3>1, <3>2 DEF Others
      <4> QED BY <4>1, <1>kept
    <3>3. Holds(op'[s], now')
      BY <2>2, <1>own
    <3> QED BY <3>2, <3>3
  <2> QED BY <2>1, <2>2, Steps
<1> QED BY <1>1 DEF Carried

LEMMA DueStep ==
  ASSUME IInv, [Next]_vars
  PROVE  SweptIsDue'
<1> SUFFICES ASSUME op'[Sweeper].at = "claim", ~op'[Sweeper].stale
             PROVE  Due(row)'
  BY DEF SweptIsDue
<1>1. ASSUME Due(row), row' = row PROVE Due(row)'
  <2>1. /\ ActiveClosesAt(row) # None /\ ActiveClosesAt(row) <= now
        /\ ActiveClosesAt(row') = ActiveClosesAt(row)
    BY <1>1 DEF Due
  <2>2. ActiveClosesAt(row) \in Nat
    <3>1. row.stage # Closed
      BY <2>1 DEF ActiveClosesAt
    <3>2. ActiveClosesAt(row) \in Time
      BY <2>1, <3>1, Active DEF IInv, TypeOK
    <3> QED BY <3>2, Bounds DEF Time
  <2> QED BY <2>1, <2>2, Later DEF Due
<1>2. CASE Stays
  BY <1>1, <1>2 DEF Stays, IInv, SweptIsDue
<1>3. ASSUME NEW s \in Slots, s # Sweeper, Others(s) PROVE Due(row)'
  <2>1. op[Sweeper].at = "claim" /\ ~op[Sweeper].stale /\ row' = row
    BY <1>3, SweeperAssumption DEF Others
  <2> QED BY <1>1, <2>1 DEF IInv, SweptIsDue
<1>4. CASE Begins(Sweeper)
  BY <1>1, <1>4 DEF Begins
<1>5. CASE Ends(Sweeper) \/ Writes(Sweeper) \/ Leaves(Sweeper)
  BY <1>5 DEF Ends, Writes, Leaves
<1> QED BY <1>2, <1>3, <1>4, <1>5, Steps DEF Begins, Ends, Writes, Leaves

LEMMA SoundStep ==
  ASSUME IInv, [Next]_vars
  PROVE  disturbed' \/ (SoundRow /\ SoundCopies)'
<1> SUFFICES ASSUME ~disturbed' PROVE SoundRow' /\ SoundCopies'
  OBVIOUS
<1> DEFINE Fits(o, r, opening) ==
      o.at = "write" /\ ~o.stale =>
        o.p.stage = r.stage /\ (Sound(o.p) \/ (opening /\ ~Sound(r)))
<1>carried. Carried /\ row \in Row /\ now \in 0 .. Horizon
  BY DEF IInv, TypeOK
<1>sound. ASSUME ~disturbed
          PROVE  (Opening \/ Sound(row)) /\ \A t \in Slots : Fits(op[t], row, Opening)
  BY <1>sound DEF IInv, SoundRow, SoundCopies
<1>goal. ASSUME Opening' \/ Sound(row'), \A t \in Slots : Fits(op'[t], row', Opening')
         PROVE  SoundRow' /\ SoundCopies'
  BY <1>goal DEF SoundRow, SoundCopies
\* Where the row is as it was, and what opens round 2 still does so, nothing
\* changes for the others.
<1>others. ASSUME NEW s \in Slots, Others(s), row' = row, ~disturbed, Opening => Opening'
           PROVE  \A t \in Slots \ {s} : Fits(op'[t], row', Opening')
  BY <1>others, <1>sound DEF Others
<1>opening. ASSUME NEW s \in Slots, Others(s), Opening, op[s].at # "write" \/ op[s].to # 2
            PROVE  Opening'
  <2>1. PICK t \in Slots : op[t].at = "write" /\ op[t].to = 2
    BY <1>opening DEF Opening
  <2>2. t # s
    BY <1>opening, <2>1
  <2>3. op'[t].at = "write" /\ op'[t].to = 2
    BY <1>opening, <2>1, <2>2 DEF Others
  <2> QED BY <2>3 DEF Opening
<1>1. CASE Stays
  <2>1. Opening' <=> Opening
    BY <1>1 DEF Stays, Opening
  <2>2. ~disturbed /\ row' = row /\ op' = op
    BY <1>1 DEF Stays
  <2> QED BY <1>goal, <1>sound, <2>1, <2>2
<1>2. ASSUME NEW s \in Slots, Begins(s) PROVE SoundRow' /\ SoundCopies'
  <2>1. Others(s) /\ row' = row /\ ~disturbed /\ op[s].at = "idle"
    BY <1>2 DEF Begins
  <2>2. Opening => Opening'
    BY <2>1, <1>opening
  <2>3. Fits(op'[s], row', Opening')
    <3>1. op'[s].at = "write" => op'[s].p.stage = row.stage /\ (Sound(row) => Sound(op'[s].p))
      BY <1>2 DEF Begins, Fine
    <3> QED BY <3>1, <2>1, <2>2, <1>sound
  <2> QED BY <2>1, <2>2, <2>3, <1>goal, <1>sound, <1>others
<1>3. ASSUME NEW s \in Slots, Ends(s) PROVE SoundRow' /\ SoundCopies'
  <2>1. Others(s) /\ row' = row /\ ~disturbed /\ op[s].at = "claim" /\ op'[s].at = "idle"
    BY <1>3 DEF Ends
  <2>2. Opening => Opening'
    BY <2>1, <1>opening
  <2>3. Fits(op'[s], row', Opening')
    BY <2>1
  <2> QED BY <2>1, <2>2, <2>3, <1>goal, <1>sound, <1>others
<1>4. ASSUME NEW s \in Slots, Writes(s) PROVE SoundRow' /\ SoundCopies'
  <2>1. /\ Others(s) /\ ~disturbed /\ ~op[s].stale
        /\ op[s].at = "write" /\ op'[s].at = "idle"
    BY <1>4 DEF Writes
  <2>2. op[s].p.stage = row.stage /\ (Sound(op[s].p) \/ (Opening /\ ~Sound(row)))
    BY <2>1, <1>sound
  <2>3. row' = op[s].p
    <3>1. Near(op[s].p, now) /\ row.stage \in Rounds \cup {Closed}
      BY <2>1, <1>carried DEF Carried, Row
    <3> QED BY <1>4, <2>2, <3>1, Staged DEF Writes
  \* Either the row is sound now, or it was not and another operation opens
  \* round 2.
  <2>4. Sound(row') \/ (Opening' /\ ~Sound(row))
    <3>1. CASE Sound(op[s].p)
      BY <2>3, <3>1
    <3>2. CASE ~Sound(op[s].p)
      <4>1. op[s].to # 2
        BY <2>1, <3>2, <1>carried, NoneAssumption DEF Carried
      <4> QED BY <2>1, <2>2, <3>2, <4>1, <1>opening
    <3> QED BY <3>1, <3>2
  <2>5. ASSUME NEW t \in Slots, t # s, op'[t].at = "write", ~op'[t].stale
        PROVE  op'[t].p.stage = row'.stage /\ (Sound(op'[t].p) \/ (Opening' /\ ~Sound(row')))
    <3>1. op[t].at = "write" /\ ~op[t].stale /\ row' = row /\ op'[t].p = op[t].p
      BY <2>1, <2>5 DEF Others
    <3>2. op[t].p.stage = row.stage /\ (Sound(op[t].p) \/ ~Sound(row))
      BY <3>1, <2>1, <1>sound
    <3> QED BY <2>4, <3>1, <3>2
  <2>6. \A t \in Slots : Fits(op'[t], row', Opening')
    BY <2>1, <2>5
  <2> QED BY <2>4, <2>6, <1>goal
<1>5. ASSUME NEW s \in Slots, Leaves(s) PROVE SoundRow' /\ SoundCopies'
  <2>1. /\ op[s].at = "claim" /\ op[s].p.stage = row.stage
        /\ row' = [row EXCEPT !.stage = op[s].to] /\ Others(s)
    BY <1>5 DEF Leaves
  <2>2. /\ Near(op[s].p, now) /\ op[s].p.stage \in Rounds /\ op[s].to \in {2, Closed}
        /\ op[s].p.stage < op[s].to
    BY <2>1, <1>carried DEF Carried
  <2>3. row'.stage = op[s].to /\ row' # row
    BY <2>1, <2>2, <1>carried DEF Row, Rounds, Closed
  <2>4. \A t \in Slots \ {s} : Fits(op'[t], row', Opening')
    BY <2>1, <2>3 DEF Others
  <2>5. CASE op[s].to = Closed /\ op'[s].at = "idle"
    <3>1. Sound(row')
      BY <2>1, <2>5, Staged DEF IInv
    <3>2. Fits(op'[s], row', Opening')
      BY <2>5
    <3> QED BY <2>4, <3>1, <3>2, <1>goal
  <2>6. CASE /\ op[s].to = 2 /\ op'[s].to = 2
             /\ op'[s].at = "write" /\ op'[s].p = EnterRound2(op[s].p)
    <3>1. op'[s].p.stage = 2 /\ Sound(op'[s].p)
      BY <2>2, <2>6, <1>carried, EnterRound2Sound DEF Rounds, Closed
    <3>2. Opening'
      BY <2>6 DEF Opening
    <3>3. Fits(op'[s], row', Opening')
      BY <2>3, <2>6, <3>1
    <3> QED BY <2>4, <3>2, <3>3, <1>goal
  <2> QED BY <1>5, <2>5, <2>6 DEF Leaves
<1> QED BY <1>1, <1>2, <1>3, <1>4, <1>5, Steps

LEMMA Invariance == Spec => []IInv
<1>1. ASSUME IInv, [Next]_vars PROVE IInv'
  <2>1. TypeOK'
    BY <1>1, Steps, NearStep DEF TypeOK, Near
  <2>2. Near(row, now)'
    BY <1>1, NearStep
  <2> QED BY <1>1, <2>1, <2>2, CarriedStep, DueStep, SoundStep DEF IInv
<1> QED BY <1>1, Start, PTL DEF Spec

-----------------------------------------------------------------------------
(* Theorems.                                                                *)

\* Every stored time, also one an operation has computed from a row that has
\* changed since, stays within the bounds the model gives it.
THEOREM TimersTypeCorrect == Spec => []TypeOK
<1>1. IInv => TypeOK
  BY DEF IInv
<1> QED BY <1>1, Invariance, PTL

\* However many operations run at once, a poll whose timer is paused has no
\* running clock in its active round, while every operation took effect on
\* the row it loaded (StartTimer, PauseTimer, advanceCore).
THEOREM PausesAreStops == Spec => []PauseStopsClock
<1>1. IInv => PauseStopsClock
  BY DEF IInv, SoundRow, Sound, PauseStopsClock
<1> QED BY <1>1, Invariance, PTL

\* A quick poll that times its vote has a clock once round 2 is opened, with
\* any number of hosts and the sweeper at work (advanceCore).
THEOREM VotesAreTimed == Spec => []VotingIsTimed
<1>1. IInv => VotingIsTimed
  BY DEF IInv, SoundRow, Sound, VotingIsTimed
<1> QED BY <1>1, Invariance, PTL

\* The sweeper's compare and set ends only a round whose time is up, unless the
\* row changed since this sweep read the list (SweepDueTimers): neither an
\* operation cut short nor an earlier overwritten row lets it end another.
THEOREM SweptRoundsAreDue == Spec => SweepsOnlyDueRounds
<1>1. ASSUME IInv, [Next]_vars
      PROVE  [(op[Sweeper].at = "claim" /\ op'[Sweeper].at # "claim"
                 /\ row'.stage # row.stage) => Due(row) \/ op[Sweeper].stale]_vars
  <2> SUFFICES ASSUME op[Sweeper].at = "claim", op'[Sweeper].at # "claim",
                      row'.stage # row.stage
               PROVE  Due(row) \/ op[Sweeper].stale
    OBVIOUS
  <2>1. PICK s \in Slots : Writes(s) \/ Leaves(s)
    BY <1>1, Steps DEF Stays, Begins, Ends
  <2>2. ~Writes(s)
    <3>1. Writes(s) => Near(op[s].p, now) /\ row.stage \in Rounds \cup {Closed}
      BY <1>1 DEF Writes, IInv, Carried, TypeOK, Row
    <3>2. Writes(s) => row'.stage = row.stage
      BY <3>1, Staged DEF Writes
    <3> QED BY <3>2
  <2>3. s = Sweeper
    BY <2>1, <2>2, SweeperAssumption DEF Leaves, Others
  <2> QED BY <1>1, <2>1, <2>2, <2>3 DEF Leaves, IInv, SweptIsDue
<1> QED BY <1>1, Invariance, PTL DEF Spec, SweepsOnlyDueRounds

=============================================================================
