-------------------------- MODULE SeerrRequestsProofs --------------------------
(***************************************************************************)
(* Proofs about SeerrRequests, for any number of titles, handlers and      *)
(* failing calls.                                                          *)
(***************************************************************************)
EXTENDS SeerrRequests, TLAPS

\* A handler in the middle of its work has one of the titles in hand.
TitleInHand ==
  \A h \in Handlers : run[h].at \in {"check", "ask", "record"} => run[h].title \in Titles

\* What is about to be recorded was made.
RecordsWhatWasMade ==
  /\ RecordedWereMade
  /\ \A h \in Handlers : run[h].at = "record" => made[run[h].title] > 0

\* Handler h has found nothing recorded for t and is about to change that.
WorksOn(h, t) == run[h].title = t /\ run[h].at \in {"ask", "record"}

\* A title that nothing disturbed: one handler at most works on it, it asks for
\* what was not made, and what was made is recorded or about to be.
Orderly(t) ==
  /\ \A g, h \in Handlers : WorksOn(g, t) /\ WorksOn(h, t) => g = h
  /\ \A h \in Handlers : run[h].title = t /\ run[h].at = "ask" => made[t] = 0
  /\ made[t] <= 1
  /\ made[t] = 1 => \/ t \in recorded
                    \/ \E h \in Handlers : run[h].title = t /\ run[h].at = "record"

Undisturbed == \A t \in Titles \ (spoilt \cup shared) : Orderly(t)

\* The inductive invariant.
IInv == TypeOK /\ TitleInHand /\ RecordsWhatWasMade /\ Undisturbed

-----------------------------------------------------------------------------
(* What the steps do to the handlers.                                       *)

\* Handler h moves and no other one.
Moves(h) == run' \in [Handlers -> Run] /\ \A g \in Handlers \ {h} : run'[g] = run[g]

\* It leaves the title it had in hand, for another one or for good.
Leaves(h) ==
  /\ Moves(h)
  /\ run'[h].at = "done" \/ (run'[h].at = "check" /\ run'[h].title \in Titles)

\* It goes on with its title.
Goes(h, at) == Moves(h) /\ run'[h].at = at /\ run'[h].title = run[h].title

LEMMA NextTitleLeaves ==
  ASSUME TypeOK, NEW h \in Handlers, NEW todo \in SUBSET Titles, NEW failed,
         NextTitle(h, todo, failed)
  PROVE  Leaves(h)
<1>run. run \in [Handlers -> Run]
  BY DEF TypeOK
<1>1. CASE run' = [run EXCEPT ![h] = [at |-> "done", title |-> None, todo |-> {}]]
  <2>1. [at |-> "done", title |-> None, todo |-> {}] \in Run
    BY DEF Run
  <2> QED BY <1>1, <1>run, <2>1 DEF Leaves, Moves
<1>2. ASSUME NEW t \in todo,
             run' = [run EXCEPT ![h] = [at |-> "check", title |-> t, todo |-> todo \ {t}]]
      PROVE  Leaves(h)
  <2>1. [at |-> "check", title |-> t, todo |-> todo \ {t}] \in Run /\ t \in Titles
    BY DEF Run
  <2> QED BY <1>2, <1>run, <2>1 DEF Leaves, Moves
<1> QED BY <1>1, <1>2 DEF NextTitle

LEMMA GoesOn ==
  ASSUME TypeOK, NEW h \in Handlers, NEW at \in {"ask", "record"},
         run' = [run EXCEPT ![h].at = at]
  PROVE  Goes(h, at)
<1>1. run \in [Handlers -> Run] /\ [run[h] EXCEPT !.at = at] \in Run
  BY DEF TypeOK, Run
<1> QED BY <1>1 DEF Goes, Moves, Run

\* What one more request does to the counts.
LEMMA MadeOneMore ==
  ASSUME TypeOK, TitleInHand, NEW h \in Handlers, run[h].at = "ask", Made(h)
  PROVE  /\ run[h].title \in Titles
         /\ made' \in [Titles -> Nat]
         /\ made'[run[h].title] = made[run[h].title] + 1
         /\ \A t \in Titles : t # run[h].title => made'[t] = made[t]
BY DEF TypeOK, TitleInHand, Made

\* Every step, but for those that change nothing, is of one of these kinds.
Step(h) ==
  \* h leaves its title, with an error if it had not recorded a request
  \/ /\ Leaves(h)
     /\ UNCHANGED <<recorded, made, shared>>
     /\ spoilt \subseteq spoilt'
     /\ run[h].at = "record" => run[h].title \in spoilt'
  \* h leaves its title with an error, and Seerr has the request
  \/ /\ Leaves(h) /\ run[h].at = "ask" /\ Made(h)
     /\ UNCHANGED <<recorded, shared>>
     /\ spoilt' = spoilt \cup {run[h].title}
  \* h finds nothing recorded
  \/ /\ Goes(h, "ask") /\ run[h].at = "check" /\ run[h].title \notin recorded
     /\ UNCHANGED <<recorded, made, spoilt>>
     /\ shared' = IF Busy(run[h].title, h) THEN shared \cup {run[h].title} ELSE shared
  \* h makes the request
  \/ /\ Goes(h, "record") /\ run[h].at = "ask" /\ Made(h)
     /\ UNCHANGED <<recorded, spoilt, shared>>
  \* h records it
  \/ /\ Leaves(h) /\ run[h].at = "record"
     /\ recorded' = recorded \cup {run[h].title}
     /\ UNCHANGED <<made, spoilt, shared>>

Frame ==
  /\ faults' \in 0 .. MaxFaults
  /\ spoilt' \subseteq Titles /\ shared' \subseteq Titles

LEMMA Steps ==
  ASSUME TypeOK, TitleInHand, [Next]_vars
  PROVE  Frame /\ (UNCHANGED <<recorded, made, run, spoilt, shared>> \/ \E h \in Handlers : Step(h))
<1> USE FaultsAssumption, WinnersAssumption, HandlersAssumption
<1>type. /\ run \in [Handlers -> Run] /\ faults \in 0 .. MaxFaults
         /\ spoilt \subseteq Titles /\ shared \subseteq Titles
  BY DEF TypeOK
<1>fault. faults < MaxFaults => faults + 1 \in 0 .. MaxFaults
  BY <1>type
<1>title. \A h \in Handlers : /\ run[h].at \in {"check", "ask", "record"} => run[h].title \in Titles
                              /\ run[h].todo \in SUBSET Titles
  BY <1>type DEF TitleInHand, Run
<1>1. ASSUME NEW h \in Handlers, AutoRequest(h) PROVE Frame /\ Step(h)
  BY <1>1, <1>type, NextTitleLeaves DEF AutoRequest, Frame, Step
<1>2. ASSUME NEW h \in Handlers, HostRequest(h) PROVE Frame /\ Step(h)
  BY <1>2, <1>type, NextTitleLeaves DEF HostRequest, Frame, Step
<1>3. ASSUME NEW h \in Handlers, GetSeerrRequest(h) PROVE Frame /\ Step(h)
  <2>1. CASE run[h].title \in recorded
    BY <1>3, <2>1, <1>type, <1>title, NextTitleLeaves DEF GetSeerrRequest, Frame, Step
  <2>2. CASE run[h].title \notin recorded
    BY <1>3, <2>2, <1>type, <1>title, GoesOn DEF GetSeerrRequest, Frame, Step
  <2> QED BY <2>1, <2>2
<1>4. ASSUME NEW h \in Handlers, CreateRequest(h) PROVE Frame /\ Step(h)
  BY <1>4, <1>type, GoesOn DEF CreateRequest, Frame, Step
<1>5. ASSUME NEW h \in Handlers, CreateFails(h) PROVE Frame /\ Step(h)
  <2>1. Leaves(h)
    BY <1>5, <1>title, NextTitleLeaves DEF CreateFails
  <2> QED BY <1>5, <2>1, <1>type, <1>title, <1>fault DEF CreateFails, Frame, Step
<1>6. ASSUME NEW h \in Handlers, StoreFails(h) PROVE Frame /\ Step(h)
  <2>1. Leaves(h)
    BY <1>6, <1>title, NextTitleLeaves DEF StoreFails
  <2> QED BY <1>6, <2>1, <1>type, <1>title, <1>fault DEF StoreFails, Frame, Step
<1>7. ASSUME NEW h \in Handlers, RecordSeerrRequest(h) PROVE Frame /\ Step(h)
  <2>1. Leaves(h)
    BY <1>7, <1>title, NextTitleLeaves DEF RecordSeerrRequest
  <2> QED BY <1>7, <2>1, <1>type DEF RecordSeerrRequest, Frame, Step
<1>8. ASSUME NEW h \in Handlers, Interrupt(h) PROVE Frame /\ Step(h)
  <2>1. [at |-> "done", title |-> None, todo |-> {}] \in Run
    BY DEF Run
  <2>2. Leaves(h)
    BY <1>8, <2>1, <1>type DEF Interrupt, Leaves, Moves
  <2>3. spoilt' \subseteq Titles /\ spoilt \subseteq spoilt'
        /\ (run[h].at = "record" => run[h].title \in spoilt')
    BY <1>8, <1>type, <1>title DEF Interrupt
  <2> QED BY <1>8, <2>2, <2>3, <1>type, <1>fault DEF Interrupt, Frame, Step
<1>9. CASE Rest \/ UNCHANGED vars
  BY <1>9, <1>type DEF Rest, vars, Frame
<1> QED BY <1>1, <1>2, <1>3, <1>4, <1>5, <1>6, <1>7, <1>8, <1>9 DEF Next, Continue

-----------------------------------------------------------------------------
(* The invariant.                                                           *)

LEMMA Start == Init => IInv
<1> SUFFICES ASSUME Init PROVE IInv
  OBVIOUS
<1>1. TypeOK
  BY FaultsAssumption DEF Init, TypeOK, Run
<1>2. TitleInHand /\ RecordsWhatWasMade /\ Undisturbed
  BY DEF Init, TitleInHand, RecordsWhatWasMade, RecordedWereMade, Undisturbed, Orderly, WorksOn
<1> QED BY <1>1, <1>2 DEF IInv

LEMMA TypeStep ==
  ASSUME TypeOK, TitleInHand, [Next]_vars
  PROVE  TypeOK' /\ TitleInHand'
<1>1. CASE UNCHANGED <<recorded, made, run, spoilt, shared>>
  BY <1>1, Steps DEF TypeOK, TitleInHand, Frame
<1>2. ASSUME NEW h \in Handlers, Step(h) PROVE TypeOK' /\ TitleInHand'
  <2>1. run' \in [Handlers -> Run]
    BY <1>2 DEF Step, Leaves, Goes, Moves
  <2>2. made' \in [Titles -> Nat]
    BY <1>2, MadeOneMore DEF Step, TypeOK
  <2>3. recorded' \subseteq Titles
    BY <1>2 DEF Step, TypeOK, TitleInHand
  <2>4. TitleInHand'
    BY <1>2 DEF Step, Leaves, Goes, Moves, TitleInHand
  <2> QED BY <2>1, <2>2, <2>3, <2>4, Steps DEF TypeOK, Frame
<1> QED BY <1>1, <1>2, Steps

\* Requests are never taken back, so what was made for a recorded title stays.
LEMMA RecordStep ==
  ASSUME TypeOK, TitleInHand, RecordsWhatWasMade, [Next]_vars
  PROVE  RecordsWhatWasMade'
<1> USE DEF RecordsWhatWasMade, RecordedWereMade
<1>1. CASE UNCHANGED <<recorded, made, run, spoilt, shared>>
  BY <1>1
<1>2. ASSUME NEW h \in Handlers, Step(h) PROVE RecordsWhatWasMade'
  <2>1. \A t \in Titles : made[t] \in Nat /\ (made[t] > 0 => made'[t] > 0)
    BY <1>2, MadeOneMore DEF Step, TypeOK
  <2>2. \A t \in recorded' : made'[t] > 0
    BY <1>2, <2>1 DEF Step, TypeOK, TitleInHand
  <2>3. ASSUME NEW g \in Handlers, run'[g].at = "record" PROVE made'[run'[g].title] > 0
    <3>1. CASE g # h
      BY <1>2, <2>1, <2>3, <3>1 DEF Step, Leaves, Goes, Moves, TitleInHand
    <3>2. CASE g = h
      <4>1. Goes(h, "record") /\ run[h].at = "ask" /\ Made(h)
        BY <1>2, <2>3, <3>2 DEF Step, Leaves, Goes
      <4> QED BY <4>1, <3>2, <2>1, MadeOneMore DEF Goes
    <3> QED BY <3>1, <3>2
  <2> QED BY <2>2, <2>3
<1> QED BY <1>1, <1>2, Steps

\* A title that nothing disturbs stays in order.
LEMMA UndisturbedStep ==
  ASSUME TypeOK, TitleInHand, Undisturbed, [Next]_vars
  PROVE  Undisturbed'
<1>1. CASE UNCHANGED <<recorded, made, run, spoilt, shared>>
  BY <1>1 DEF Undisturbed, Orderly, WorksOn
<1>2. ASSUME NEW h \in Handlers, Step(h),
             NEW t \in Titles, t \notin spoilt', t \notin shared'
      PROVE  Orderly(t)'
  <2> DEFINE mine == run[h].title = t
  <2>1. Orderly(t) /\ t \notin spoilt \cup shared
    BY <1>2 DEF Step, Undisturbed
  <2>2. made[t] \in Nat /\ \A g \in Handlers \ {h} : run'[g] = run[g]
    BY <1>2 DEF TypeOK, Step, Leaves, Goes, Moves
  \* h leaves a title that it does not leave open.
  <2>3. ASSUME Leaves(h), made'[t] = made[t], recorded \subseteq recorded',
               mine /\ run[h].at = "record" => t \in recorded'
        PROVE  Orderly(t)'
    <3>1. ~WorksOn(h, t)' /\ run'[h].at # "ask" /\ run'[h].at # "record"
      BY <2>3 DEF Leaves, WorksOn
    <3>2. \A g, k \in Handlers : WorksOn(g, t)' /\ WorksOn(k, t)' => g = k
      BY <2>1, <2>2, <3>1 DEF Orderly, WorksOn
    <3>3. \A g \in Handlers : run'[g].title = t /\ run'[g].at = "ask" => made'[t] = 0
      BY <2>1, <2>2, <2>3, <3>1 DEF Orderly
    <3>4. made'[t] = 1 => \/ t \in recorded'
                          \/ \E g \in Handlers : run'[g].title = t /\ run'[g].at = "record"
      BY <2>1, <2>2, <2>3 DEF Orderly
    <3>5. made'[t] <= 1
      BY <2>1, <2>3 DEF Orderly
    <3> QED BY <3>2, <3>3, <3>4, <3>5 DEF Orderly
  <2>4. CASE /\ Leaves(h) /\ UNCHANGED <<recorded, made, shared>>
             /\ run[h].at = "record" => run[h].title \in spoilt'
    BY <1>2, <2>3, <2>4
  <2>5. CASE /\ Leaves(h) /\ run[h].at = "ask" /\ Made(h)
             /\ UNCHANGED <<recorded, shared>> /\ spoilt' = spoilt \cup {run[h].title}
    <3>1. run[h].title # t
      BY <1>2, <2>5
    <3> QED BY <2>3, <2>5, <3>1, MadeOneMore
  <2>6. CASE /\ Goes(h, "ask") /\ run[h].at = "check" /\ run[h].title \notin recorded
             /\ UNCHANGED <<recorded, made, spoilt>>
             /\ shared' = IF Busy(run[h].title, h) THEN shared \cup {run[h].title} ELSE shared
    <3>1. mine => \A g \in Handlers : ~WorksOn(g, t)
      BY <1>2, <2>6 DEF Busy, WorksOn
    <3>2. mine => made[t] = 0
      BY <2>1, <2>2, <2>6, <3>1 DEF Orderly, WorksOn
    <3>3. \A g, k \in Handlers : WorksOn(g, t)' /\ WorksOn(k, t)' => g = k
      BY <2>1, <2>2, <2>6, <3>1 DEF Orderly, WorksOn, Goes
    <3>4. \A g \in Handlers : run'[g].title = t /\ run'[g].at = "ask" => made'[t] = 0
      BY <2>1, <2>2, <2>6, <3>2 DEF Orderly, Goes
    <3>5. made'[t] = 1 => \/ t \in recorded'
                          \/ \E g \in Handlers : run'[g].title = t /\ run'[g].at = "record"
      BY <2>1, <2>2, <2>6 DEF Orderly
    <3>6. made'[t] <= 1
      BY <2>1, <2>6 DEF Orderly
    <3> QED BY <3>3, <3>4, <3>5, <3>6 DEF Orderly
  <2>7. CASE /\ Goes(h, "record") /\ run[h].at = "ask" /\ Made(h)
             /\ UNCHANGED <<recorded, spoilt, shared>>
    <3>1. mine => made[t] = 0 /\ made'[t] = 1
      BY <2>1, <2>7, MadeOneMore DEF Orderly
    <3>2. ~mine => made'[t] = made[t]
      BY <2>7, MadeOneMore
    <3>3. mine => \A g \in Handlers \ {h} : ~WorksOn(g, t)
      BY <2>1, <2>7 DEF Orderly, WorksOn
    <3>4. \A g, k \in Handlers : WorksOn(g, t)' /\ WorksOn(k, t)' => g = k
      BY <2>1, <2>2, <2>7, <3>3 DEF Orderly, WorksOn, Goes
    <3>5. \A g \in Handlers : run'[g].title = t /\ run'[g].at = "ask" => made'[t] = 0
      BY <2>1, <2>2, <2>7, <3>2, <3>3 DEF Orderly, WorksOn, Goes
    <3>6. made'[t] = 1 => \/ t \in recorded'
                          \/ \E g \in Handlers : run'[g].title = t /\ run'[g].at = "record"
      BY <2>1, <2>2, <2>7, <3>2 DEF Orderly, Goes
    <3>7. made'[t] <= 1
      BY <2>1, <3>1, <3>2 DEF Orderly
    <3> QED BY <3>4, <3>5, <3>6, <3>7 DEF Orderly
  <2>8. CASE /\ Leaves(h) /\ run[h].at = "record"
             /\ recorded' = recorded \cup {run[h].title}
             /\ UNCHANGED <<made, spoilt, shared>>
    BY <2>3, <2>8
  <2> HIDE DEF mine
  <2> QED BY <1>2, <2>4, <2>5, <2>6, <2>7, <2>8 DEF Step
<1>3. (\E h \in Handlers : Step(h)) => Undisturbed'
  BY <1>2 DEF Undisturbed
<1> QED BY <1>1, <1>3, Steps

LEMMA Invariance == Spec => []IInv
<1>1. IInv /\ [Next]_vars => IInv'
  BY TypeStep, RecordStep, UndisturbedStep DEF IInv
<1> QED BY <1>1, Start, PTL DEF Spec

-----------------------------------------------------------------------------
(* The results.                                                             *)

\* Every variable keeps its type.
THEOREM RequestsTypeCorrect == Spec => []TypeOK
<1>1. IInv => TypeOK
  BY DEF IInv
<1> QED BY <1>1, Invariance, PTL

\* requestWriteIn: what seerr_requests has, Seerr has.
THEOREM RecordsAreTrue == Spec => []RecordedWereMade
<1>1. IInv => RecordedWereMade
  BY DEF IInv, RecordsWhatWasMade
<1> QED BY <1>1, Invariance, PTL

\* A title is requested once, but for two handlers that overlap on it or a call
\* that failed in between.
THEOREM OnceEach == Spec => []OnceUnlessDisturbed
<1>1. IInv => OnceUnlessDisturbed
  BY DEF IInv, TypeOK, Undisturbed, Orderly, OnceUnlessDisturbed
<1> QED BY <1>1, Invariance, PTL

=============================================================================
