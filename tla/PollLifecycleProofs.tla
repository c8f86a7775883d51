------------------------- MODULE PollLifecycleProofs -------------------------
(***************************************************************************)
(* Proofs about PollLifecycle, for any number of participants, titles,     *)
(* rows, concurrent requests and interrupted requests.                     *)
(***************************************************************************)
EXTENDS PollLifecycle, FiniteSetTheorems, TLAPS

\* The state every variable has the type of, at the start.
LEMMA TypeInit == Init => TypeOK
  BY HostAssumption, NoneAssumption, RulesAssumption
  DEF Init, TypeOK, Status, Request, Points, Idle

\* Every step keeps every variable in its type.
LEMMA TypeStep == TypeOK /\ FieldsSet /\ [Next]_vars => TypeOK'
<1> SUFFICES ASSUME TypeOK, FieldsSet, [Next]_vars PROVE TypeOK'
  OBVIOUS
<1> USE NoneAssumption, AbortsAssumption DEF TypeOK, rows
<1>idle. Idle \in Request
  BY DEF Idle, Request, Points
<1>goto. ASSUME NEW r \in Requests, NEW at \in Points, Goto(r, at)
         PROVE  req' \in [Requests -> Request]
  BY <1>goto DEF Goto, Request
<1>keep. ASSUME NEW r \in Requests, NEW at \in Points, NEW ids \in SUBSET Noms,
                Keep(r, at, ids)
         PROVE  req' \in [Requests -> Request]
  <2>1. [[req[r] EXCEPT !.at = at] EXCEPT !.ids = ids] \in Request
    BY DEF Request
  <2>2. req' = [req EXCEPT ![r] = [[req[r] EXCEPT !.at = at] EXCEPT !.ids = ids]]
    BY <1>keep DEF Keep
  <2> QED BY <2>1, <2>2
<1>reply. ASSUME NEW r \in Requests, Reply(r)
          PROVE  req' \in [Requests -> Request]
  BY <1>reply, <1>idle DEF Reply
<1>admit. ASSUME NEW r \in Requests, NEW f \in Request, Admit(r, f)
          PROVE  req' \in [Requests -> Request]
  BY <1>admit DEF Admit
<1>1. ASSUME NEW r \in Requests, Begin(r) PROVE TypeOK'
  <2>1. CASE BeginJoin(r)
    <3>1. [Idle EXCEPT !.at = "join"] \in Request
      BY DEF Idle, Request, Points
    <3> QED BY <2>1, <3>1, <1>admit DEF BeginJoin
  <2>2. CASE BeginNominate(r)
    <3>1. ASSUME NEW p \in joined, NEW i \in Items
          PROVE [Idle EXCEPT !.at = IF rules.cap > 0 THEN "count" ELSE "add",
                             !.who = p, !.item = i] \in Request
      BY <3>1 DEF Idle, Request, Points
    <3> QED BY <2>2, <3>1, <1>admit DEF BeginNominate
  <2>3. CASE BeginWithdraw(r)
    <3>1. ASSUME NEW p \in joined, NEW n \in used
          PROVE [Idle EXCEPT !.at = "withdraw", !.who = p, !.pick = n] \in Request
      BY <3>1 DEF Idle, Request, Points
    <3> QED BY <2>3, <3>1, <1>admit DEF BeginWithdraw
  <2>4. CASE BeginVote(r)
    <3>1. ASSUME NEW p \in joined
          PROVE [Idle EXCEPT !.at = "listVote", !.who = p] \in Request
      BY <3>1 DEF Idle, Request, Points
    <3> QED BY <2>4, <3>1, <1>admit DEF BeginVote
  <2>5. ASSUME NEW lenient \in BOOLEAN, BeginAdvance(r, lenient)
        PROVE  req' \in [Requests -> Request]
    <3>1. /\ [Idle EXCEPT !.at = "listNoms", !.lenient = lenient] \in Request
          /\ [Idle EXCEPT !.at = "close2"] \in Request
      BY DEF Idle, Request, Points
    <3> QED BY <2>5, <3>1, <1>admit DEF BeginAdvance
  <2>6. rules.timed \in BOOLEAN
    BY DEF Rules
  <2>7. CASE HostAdvance(r)
    BY <2>7, <2>5, <2>6 DEF HostAdvance
  <2>8. CASE AdminAdvance(r)
    BY <2>8, <2>5 DEF AdminAdvance
  <2>9. CASE SweepAdvance(r)
    BY <2>9, <2>5 DEF SweepAdvance
  <2>10. CASE BeginBreakTie(r)
    <3>1. [Idle EXCEPT !.at = "tieNoms"] \in Request
      BY DEF Idle, Request, Points
    <3> QED BY <2>10, <3>1, <1>admit DEF BeginBreakTie
  <2> QED BY <1>1, <2>1, <2>2, <2>3, <2>4, <2>7, <2>8, <2>9, <2>10 DEF Begin
<1>2. ASSUME NEW r \in Requests, Continue(r) PROVE TypeOK'
  <2> USE <1>idle
  <2>1. CASE CreateParticipant(r)
    BY <2>1, <1>reply DEF CreateParticipant
  <2>2. CASE CountNominations(r)
    BY <2>2, <1>goto DEF CountNominations, Points
  <2>3. CASE AlreadyNominated(r)
    BY <2>3, <1>goto, <1>reply DEF AlreadyNominated, Points
  <2>4. CASE AddNomination(r)
    <3>1. req' \in [Requests -> Request]
      BY <2>4, <1>reply DEF AddNomination
    <3>2. req[r].who \in Participants /\ req[r].item \in Items
      BY <2>4 DEF AddNomination, FieldsSet
    <3> QED BY <2>4, <3>1, <3>2 DEF AddNomination
  <2>5. CASE WithdrawNomination(r)
    <3>1. req[r].pick \in Noms
      BY <2>5 DEF WithdrawNomination, FieldsSet
    <3> QED BY <2>5, <3>1, <1>reply DEF WithdrawNomination
  <2>6. CASE ListForVote(r)
    BY <2>6, <1>keep DEF ListForVote, Points, Live
  <2>7. CASE ValidateBallot(r)
    <3>1. req[r].ids \subseteq Noms
      BY DEF Request
    <3> QED BY <2>7, <3>1, <1>keep DEF ValidateBallot, Points
  <2>8. CASE ReplaceVotes(r)
    BY <2>8, <1>reply DEF ReplaceVotes, Request
  <2>9. CASE ListToAdvance(r)
    BY <2>9, <1>goto, <1>reply DEF ListToAdvance, Request, Points, Live
  <2>10. CASE CloseRound1(r)
    BY <2>10, <1>goto, <1>reply DEF CloseRound1, Points, Status
  <2>11. CASE SetPollWinner(r)
    BY <2>11, <1>reply DEF SetPollWinner, Request
  <2>12. CASE OpenRound2(r)
    BY <2>12, <1>reply DEF OpenRound2, Status
  <2>13. CASE CloseRound2(r)
    BY <2>13, <1>reply DEF CloseRound2, Status
  <2>14. CASE ListForTie(r)
    BY <2>14, <1>keep DEF ListForTie, Points, Live
  <2>15. CASE DrawFromTie(r)
    BY <2>15, <1>reply DEF DrawFromTie, Request, Points, TopVoted
  <2>16. CASE SetPollWinnerIfUnset(r)
    BY <2>16, <1>reply DEF SetPollWinnerIfUnset, Request
  <2> QED
    BY <1>2, <2>1, <2>2, <2>3, <2>4, <2>5, <2>6, <2>7, <2>8, <2>9, <2>10,
       <2>11, <2>12, <2>13, <2>14, <2>15, <2>16 DEF Continue
<1>3. ASSUME NEW r \in Requests, Abort(r) PROVE TypeOK'
  BY <1>3, <1>reply DEF Abort
<1>4. CASE DeletePoll \/ PurgeExpired
  BY <1>4 DEF DeletePoll, PurgeExpired, Vanish, Status
<1>5. CASE Crash
  BY <1>5, <1>idle DEF Crash
<1>6. CASE Rest \/ UNCHANGED vars
  BY <1>6 DEF Rest, vars
<1> QED BY <1>1, <1>2, <1>3, <1>4, <1>5, <1>6 DEF Next

\* A request has the fields its next statement uses.
LEMMA FieldsInit == Init => FieldsSet
  BY DEF Init, FieldsSet, Idle

LEMMA FieldsStep == TypeOK /\ FieldsSet /\ [Next]_vars => FieldsSet'
<1> SUFFICES ASSUME TypeOK, FieldsSet, [Next]_vars PROVE FieldsSet'
  OBVIOUS
<1>type. req \in [Requests -> Request] /\ joined \subseteq Participants /\ used \subseteq Noms
  BY DEF TypeOK
<1> DEFINE Set(f) ==
             /\ f.at \in {"count", "already", "add"} =>
                  f.who \in Participants /\ f.item \in Items
             /\ f.at \in {"withdraw", "listVote", "listOwn", "replace"} =>
                  f.who \in Participants
             /\ f.at \in {"withdraw", "crown", "tieSet"} => f.pick \in Noms
<1>set. \A r \in Requests : Set(req[r])
  BY DEF FieldsSet
<1>only. ASSUME NEW r \in Requests, NEW f, Set(f), req' = [req EXCEPT ![r] = f]
         PROVE  FieldsSet'
  BY <1>only, <1>set, <1>type DEF FieldsSet
<1> HIDE DEF Set
<1>idle. Set(Idle)
  BY DEF Set, Idle
<1>reply. ASSUME NEW r \in Requests, Reply(r) PROVE FieldsSet'
  BY <1>reply, <1>only, <1>idle DEF Reply
<1>same. ASSUME UNCHANGED req PROVE FieldsSet'
  BY <1>same DEF FieldsSet
\* A request that goes to a statement that uses no more than the last one did.
<1>goto. ASSUME NEW r \in Requests, NEW at,
                \/ at \in {"already", "add"} /\ req[r].at \in {"count", "already"}
                \/ at = "open"
                \/ at = "crown" /\ req[r].pick \in Noms,
                Goto(r, at)
         PROVE  FieldsSet'
  <2>1. Set([req[r] EXCEPT !.at = at])
    BY <1>goto, <1>set, <1>type DEF Set, Request
  <2>2. req' = [req EXCEPT ![r] = [req[r] EXCEPT !.at = at]]
    BY <1>goto DEF Goto
  <2> QED BY <2>1, <2>2, <1>only
<1>keep. ASSUME NEW r \in Requests, NEW at, NEW ids,
                \/ at \in {"listOwn", "replace"} /\ req[r].at \in {"listVote", "listOwn"}
                \/ at = "tieVotes",
                Keep(r, at, ids)
         PROVE  FieldsSet'
  <2>1. Set([[req[r] EXCEPT !.at = at] EXCEPT !.ids = ids])
    BY <1>keep, <1>set, <1>type DEF Set, Request
  <2>2. req' = [req EXCEPT ![r] = [[req[r] EXCEPT !.at = at] EXCEPT !.ids = ids]]
    BY <1>keep DEF Keep
  <2> QED BY <2>1, <2>2, <1>only
<1>1. ASSUME NEW r \in Requests, Begin(r) PROVE FieldsSet'
  <2> SUFFICES \E f : Set(f) /\ Admit(r, f)
    BY <1>only DEF Admit
  <2>1. CASE BeginJoin(r)
    <3>1. Set([Idle EXCEPT !.at = "join"])
      BY DEF Set, Idle
    <3> QED BY <2>1, <3>1 DEF BeginJoin
  <2>2. CASE BeginNominate(r)
    <3>1. ASSUME NEW p \in joined, NEW i \in Items
          PROVE  Set([Idle EXCEPT !.at = IF rules.cap > 0 THEN "count" ELSE "add",
                                  !.who = p, !.item = i])
      BY <1>type DEF Set, Idle
    <3> QED BY <2>2, <3>1 DEF BeginNominate
  <2>3. CASE BeginWithdraw(r)
    <3>1. ASSUME NEW p \in joined, NEW n \in used
          PROVE  Set([Idle EXCEPT !.at = "withdraw", !.who = p, !.pick = n])
      BY <1>type DEF Set, Idle
    <3> QED BY <2>3, <3>1 DEF BeginWithdraw
  <2>4. CASE BeginVote(r)
    <3>1. ASSUME NEW p \in joined
          PROVE  Set([Idle EXCEPT !.at = "listVote", !.who = p])
      BY <1>type DEF Set, Idle
    <3> QED BY <2>4, <3>1 DEF BeginVote
  <2>5. ASSUME NEW lenient, BeginAdvance(r, lenient)
        PROVE  \E f : Set(f) /\ Admit(r, f)
    <3>1. /\ Set([Idle EXCEPT !.at = "listNoms", !.lenient = lenient])
          /\ Set([Idle EXCEPT !.at = "close2"])
      BY DEF Set, Idle
    <3> QED BY <2>5, <3>1 DEF BeginAdvance
  <2>6. CASE HostAdvance(r) \/ AdminAdvance(r) \/ SweepAdvance(r)
    BY <2>6, <2>5 DEF HostAdvance, AdminAdvance, SweepAdvance
  <2>7. CASE BeginBreakTie(r)
    <3>1. Set([Idle EXCEPT !.at = "tieNoms"])
      BY DEF Set, Idle
    <3> QED BY <2>7, <3>1 DEF BeginBreakTie
  <2> QED BY <1>1, <2>1, <2>2, <2>3, <2>4, <2>6, <2>7 DEF Begin
<1>2. ASSUME NEW r \in Requests, Continue(r) PROVE FieldsSet'
  <2>1. CASE CountNominations(r)
    BY <2>1, <1>goto DEF CountNominations
  <2>2. CASE AlreadyNominated(r)
    BY <2>2, <1>goto, <1>reply DEF AlreadyNominated
  <2>3. CASE ListForVote(r)
    BY <2>3, <1>keep DEF ListForVote
  <2>4. CASE ValidateBallot(r)
    BY <2>4, <1>keep DEF ValidateBallot
  <2>5. CASE ListToAdvance(r)
    <3>1. ASSUME NEW n, req' = [req EXCEPT ![r].at = "close1", ![r].pick = n]
          PROVE  FieldsSet'
      <4>1. Set([[req[r] EXCEPT !.at = "close1"] EXCEPT !.pick = n])
        BY <1>type DEF Set, Request
      <4>2. req' = [req EXCEPT ![r] = [[req[r] EXCEPT !.at = "close1"] EXCEPT !.pick = n]]
        BY <3>1
      <4> QED BY <4>1, <4>2, <1>only
    <3> QED BY <2>5, <3>1, <1>goto, <1>reply DEF ListToAdvance
  <2>6. CASE CloseRound1(r)
    <3>1. req[r].pick = None \/ req[r].pick \in Noms
      BY <1>type DEF Request
    <3> QED BY <2>6, <3>1, <1>goto, <1>reply DEF CloseRound1
  <2>7. CASE ListForTie(r)
    BY <2>7, <1>keep DEF ListForTie
  <2>8. CASE DrawFromTie(r)
    <3>1. ASSUME NEW n \in Noms, req' = [req EXCEPT ![r].at = "tieSet", ![r].pick = n]
          PROVE  FieldsSet'
      <4>1. Set([[req[r] EXCEPT !.at = "tieSet"] EXCEPT !.pick = n])
        BY <1>type DEF Set, Request
      <4>2. req' = [req EXCEPT ![r] = [[req[r] EXCEPT !.at = "tieSet"] EXCEPT !.pick = n]]
        BY <3>1
      <4> QED BY <4>1, <4>2, <1>only
    <3>2. TopVoted(req[r].ids) \subseteq Noms
      BY <1>type DEF TopVoted, Request
    <3> QED BY <2>8, <3>1, <3>2, <1>reply DEF DrawFromTie
  <2>9. CASE Reply(r)
    BY <2>9, <1>reply
  <2> QED
    BY <1>2, <2>1, <2>2, <2>3, <2>4, <2>5, <2>6, <2>7, <2>8, <2>9
    DEF Continue, CreateParticipant, AddNomination, WithdrawNomination,
        ReplaceVotes, SetPollWinner, OpenRound2, CloseRound2, SetPollWinnerIfUnset
<1>3. ASSUME NEW r \in Requests, Abort(r) PROVE FieldsSet'
  BY <1>3, <1>reply DEF Abort
<1>4. CASE Crash
  BY <1>4 DEF Crash, FieldsSet, Idle
<1>5. CASE DeletePoll \/ PurgeExpired \/ Rest \/ UNCHANGED vars
  BY <1>5, <1>same DEF DeletePoll, PurgeExpired, Vanish, Rest, vars
<1> QED BY <1>1, <1>2, <1>3, <1>4, <1>5 DEF Next

\* Type correctness of the specification.
THEOREM TypeCorrect == Spec => []TypeOK
<1>1. Init => TypeOK /\ FieldsSet
  BY TypeInit, FieldsInit
<1>2. TypeOK /\ FieldsSet /\ [Next]_vars => (TypeOK /\ FieldsSet)'
  BY TypeStep, FieldsStep
<1> QED BY <1>1, <1>2, PTL DEF Spec

-----------------------------------------------------------------------------

\* Who is not named by any ballot has no support: a tally without votes has
\* no winners, so it is no tie (Results of a poll nobody voted in).
LEMMA NoVotesNoTie ==
  ASSUME NoVotes, NEW ids
  PROVE  Few(TopVoted(ids))
<1>1. \A n \in ids : {p \in Participants : n \in vote[p]} = {}
  BY DEF NoVotes
<1>2. \A n \in ids : Support(n) = 0
  BY <1>1, FS_EmptySet DEF Support
<1> QED BY <1>2 DEF TopVoted, Few

\* The parts of IInv beyond the types.
Phases == Round1IsFresh /\ WinnerOnClosed /\ TieOnClosed /\ CrownAlone

LEMMA PhasesInit == Init => Phases
  BY DEF Init, Idle, Phases, Round1IsFresh, NoVotes, AfterRound1, WinnerOnClosed,
         TieOnClosed, CrownAlone

\* The steps that leave the poll's row alone.
LEMMA PhasesQuiet ==
  ASSUME TypeOK, Phases, NEW r \in Requests,
         UNCHANGED <<status, winner>>,
         NoVotes => NoVotes',
         \A q \in Requests : q # r => req'[q] = req[q],
         \/ req'[r].at \notin AfterRound1
         \/ req'[r].at \in {"listVote", "close2"} /\ status = "round2"
         \/ req'[r].at \in {"listOwn", "replace"} /\ req[r].at \in {"listVote", "listOwn"}
         \/ req'[r].at = "tieNoms" /\ status = "closed"
         \/ req'[r].at = "tieVotes" /\ req[r].at = "tieNoms"
         \/ req'[r].at = "tieSet" /\ req[r].at = "tieVotes" /\ ~NoVotes
  PROVE  Phases'
<1>1. Round1IsFresh'
  BY DEF Phases, Round1IsFresh, AfterRound1
<1>2. WinnerOnClosed'
  BY DEF Phases, WinnerOnClosed
<1>3. TieOnClosed'
  BY DEF Phases, TieOnClosed, AfterRound1
<1>4. CrownAlone'
  BY DEF Phases, CrownAlone, AfterRound1
<1> QED BY <1>1, <1>2, <1>3, <1>4 DEF Phases

\* Every step preserves the phases.
LEMMA PhasesStep == TypeOK /\ FieldsSet /\ Phases /\ [Next]_vars => Phases'
<1> SUFFICES ASSUME TypeOK, FieldsSet, Phases, [Next]_vars PROVE Phases'
  OBVIOUS
<1>type. req \in [Requests -> Request] /\ vote \in [Participants -> SUBSET Noms]
  BY DEF TypeOK
<1>move. ASSUME NEW r \in Requests, NEW f, req' = [req EXCEPT ![r] = f]
         PROVE  req'[r] = f /\ \A q \in Requests : q # r => req'[q] = req[q]
  BY <1>move, <1>type
<1>goto. ASSUME NEW r \in Requests, NEW at, Goto(r, at)
         PROVE  req'[r].at = at /\ \A q \in Requests : q # r => req'[q] = req[q]
  BY <1>goto, <1>type DEF Goto, Request
<1>keep. ASSUME NEW r \in Requests, NEW at, NEW ids, Keep(r, at, ids)
         PROVE  req'[r].at = at /\ \A q \in Requests : q # r => req'[q] = req[q]
  BY <1>keep, <1>type DEF Keep, Request
<1>pick. ASSUME NEW r \in Requests, NEW at, NEW n,
                req' = [req EXCEPT ![r].at = at, ![r].pick = n]
         PROVE  req'[r].at = at /\ \A q \in Requests : q # r => req'[q] = req[q]
  BY <1>pick, <1>type DEF Request
<1>reply. ASSUME NEW r \in Requests, Reply(r)
          PROVE  /\ req'[r].at = "idle" /\ req'[r].at \notin AfterRound1
                 /\ \A q \in Requests : q # r => req'[q] = req[q]
  <2>1. req' = [req EXCEPT ![r] = Idle]
    BY <1>reply DEF Reply
  <2>2. Idle.at = "idle" /\ "idle" \notin AfterRound1
    BY DEF Idle, AfterRound1
  <2> QED BY <2>1, <2>2, <1>type
<1>1. ASSUME NEW r \in Requests, Begin(r) PROVE Phases'
  <2>admit. ASSUME NEW f, Admit(r, f), UNCHANGED <<status, winner, vote>>,
                   \/ f.at \notin AfterRound1
                   \/ f.at \in {"listVote", "close2"} /\ status = "round2"
                   \/ f.at = "tieNoms" /\ status = "closed"
            PROVE  Phases'
    <3>1. req'[r] = f /\ \A q \in Requests : q # r => req'[q] = req[q]
      BY <2>admit, <1>move DEF Admit
    <3> QED BY <2>admit, <3>1, PhasesQuiet DEF NoVotes
  <2>1. CASE BeginJoin(r)
    <3>1. [Idle EXCEPT !.at = "join"].at \notin AfterRound1
      BY DEF Idle, AfterRound1
    <3> QED BY <2>1, <3>1, <2>admit DEF BeginJoin
  <2>2. CASE BeginNominate(r)
    <3>1. PICK p \in joined, i \in Items :
            Admit(r, [Idle EXCEPT !.at = IF rules.cap > 0 THEN "count" ELSE "add",
                                  !.who = p, !.item = i])
      BY <2>2 DEF BeginNominate
    <3>2. [Idle EXCEPT !.at = IF rules.cap > 0 THEN "count" ELSE "add",
                       !.who = p, !.item = i].at \notin AfterRound1
      BY DEF Idle, AfterRound1
    <3> QED BY <2>2, <3>1, <3>2, <2>admit DEF BeginNominate
  <2>3. CASE BeginWithdraw(r)
    <3>1. PICK p \in joined, n \in used :
            Admit(r, [Idle EXCEPT !.at = "withdraw", !.who = p, !.pick = n])
      BY <2>3 DEF BeginWithdraw
    <3>2. [Idle EXCEPT !.at = "withdraw", !.who = p, !.pick = n].at \notin AfterRound1
      BY DEF Idle, AfterRound1
    <3> QED BY <2>3, <3>1, <3>2, <2>admit DEF BeginWithdraw
  <2>4. CASE BeginVote(r)
    <3>1. PICK p \in joined : Admit(r, [Idle EXCEPT !.at = "listVote", !.who = p])
      BY <2>4 DEF BeginVote
    <3>2. [Idle EXCEPT !.at = "listVote", !.who = p].at = "listVote"
      BY DEF Idle
    <3> QED BY <2>4, <3>1, <3>2, <2>admit DEF BeginVote
  <2>5. ASSUME NEW lenient, BeginAdvance(r, lenient), UNCHANGED <<status, winner, vote>>
        PROVE  Phases'
    <3>1. /\ [Idle EXCEPT !.at = "listNoms", !.lenient = lenient].at \notin AfterRound1
          /\ [Idle EXCEPT !.at = "close2"].at = "close2"
      BY DEF Idle, AfterRound1
    <3> QED BY <2>5, <3>1, <2>admit DEF BeginAdvance
  <2>6. CASE HostAdvance(r) \/ AdminAdvance(r) \/ SweepAdvance(r)
    BY <2>6, <2>5 DEF HostAdvance, AdminAdvance, SweepAdvance
  <2>7. CASE BeginBreakTie(r)
    <3>1. [Idle EXCEPT !.at = "tieNoms"].at = "tieNoms"
      BY DEF Idle
    <3> QED BY <2>7, <3>1, <2>admit DEF BeginBreakTie
  <2> QED BY <1>1, <2>1, <2>2, <2>3, <2>4, <2>6, <2>7 DEF Begin
<1>2. ASSUME NEW r \in Requests, Continue(r) PROVE Phases'
  <2>1. CASE CreateParticipant(r) \/ AddNomination(r)
    BY <2>1, <1>reply, PhasesQuiet DEF CreateParticipant, AddNomination, NoVotes
  <2>2. CASE CountNominations(r)
    BY <2>2, <1>goto, PhasesQuiet DEF CountNominations, AfterRound1, NoVotes
  <2>3. CASE AlreadyNominated(r)
    BY <2>3, <1>goto, <1>reply, PhasesQuiet DEF AlreadyNominated, AfterRound1, NoVotes
  <2>4. CASE WithdrawNomination(r)
    <3>1. NoVotes => NoVotes'
      BY <2>4 DEF WithdrawNomination, NoVotes
    <3> QED BY <2>4, <3>1, <1>reply, PhasesQuiet DEF WithdrawNomination
  <2>5. CASE ListForVote(r)
    BY <2>5, <1>keep, PhasesQuiet DEF ListForVote, NoVotes
  <2>6. CASE ValidateBallot(r)
    <3>1. PICK ballot : Keep(r, "replace", ballot)
      BY <2>6 DEF ValidateBallot
    <3> QED BY <2>6, <3>1, <1>keep, PhasesQuiet DEF ValidateBallot, NoVotes
  <2>7. CASE ReplaceVotes(r)
    <3>1. req[r].at = "replace" /\ req'[r].at = "idle"
          /\ UNCHANGED <<status, winner>>
          /\ \A q \in Requests : q # r => req'[q] = req[q]
      BY <2>7, <1>reply DEF ReplaceVotes
    <3>2. status # "round1" /\ \A q \in Requests : req[q].at # "crown"
      BY <3>1 DEF Phases, Round1IsFresh, CrownAlone, AfterRound1
    <3>3. Round1IsFresh' /\ CrownAlone'
      BY <3>1, <3>2 DEF Round1IsFresh, CrownAlone
    <3> QED BY <3>1, <3>3 DEF Phases, WinnerOnClosed, TieOnClosed
  <2>8. CASE ListToAdvance(r)
    <3>1. /\ UNCHANGED <<status, winner, vote>>
          /\ req'[r].at \notin AfterRound1
          /\ \A q \in Requests : q # r => req'[q] = req[q]
      BY <2>8, <1>goto, <1>reply, <1>pick DEF ListToAdvance, AfterRound1
    <3> QED BY <3>1, PhasesQuiet DEF NoVotes
  <2>9. CASE CloseRound1(r)
    <3>1. CASE status = "round1"
      <4>1. /\ status' = "closed" /\ winner' = None /\ NoVotes'
            /\ req'[r].at \in {"idle", "crown"}
            /\ \A q \in Requests : q # r => /\ req'[q] = req[q]
                                            /\ req[q].at \notin AfterRound1
        BY <2>9, <3>1, <1>goto, <1>reply
        DEF CloseRound1, Claims, Phases, Round1IsFresh, NoVotes
      <4>2. CrownAlone'
        BY <4>1 DEF CrownAlone, AfterRound1
      <4> QED BY <4>1, <4>2 DEF Phases, Round1IsFresh, WinnerOnClosed, TieOnClosed
    <3>2. CASE status # "round1"
      BY <2>9, <3>2, <1>reply, PhasesQuiet DEF CloseRound1, Claims, NoVotes
    <3> QED BY <3>1, <3>2
  <2>10. CASE SetPollWinner(r)
    <3>1. /\ req[r].at = "crown" /\ req'[r].at = "idle"
          /\ UNCHANGED <<status, vote>>
          /\ status \in {"closed", "gone"}
          /\ winner = None
          /\ winner' # None => status = "closed"
          /\ \A q \in Requests : q # r => req'[q] = req[q] /\ req[q].at # "crown"
      BY <2>10, <1>reply DEF SetPollWinner, Phases, CrownAlone
    <3> QED BY <3>1 DEF Phases, Round1IsFresh, WinnerOnClosed, TieOnClosed, CrownAlone
  <2>11. CASE OpenRound2(r)
    <3>1. CASE status = "round1"
      <4>1. /\ status' = "round2" /\ winner' = None
            /\ \A q \in Requests : req'[q].at \notin AfterRound1
        BY <2>11, <3>1, <1>reply
        DEF OpenRound2, Claims, Phases, Round1IsFresh
      <4> QED BY <4>1 DEF Phases, Round1IsFresh, WinnerOnClosed, TieOnClosed,
                          CrownAlone, AfterRound1
    <3>2. CASE status # "round1"
      BY <2>11, <3>2, <1>reply, PhasesQuiet DEF OpenRound2, Claims, NoVotes
    <3> QED BY <3>1, <3>2
  <2>12. CASE CloseRound2(r)
    <3>1. CASE status = "round2"
      <4>1. /\ status' = "closed" /\ winner' = None
            /\ \A q \in Requests : req'[q].at # "crown"
        BY <2>12, <3>1, <1>reply
        DEF CloseRound2, Claims, Phases, CrownAlone, WinnerOnClosed
      <4> QED BY <4>1 DEF Phases, Round1IsFresh, WinnerOnClosed, TieOnClosed, CrownAlone
    <3>2. CASE status # "round2"
      BY <2>12, <3>2, <1>reply, PhasesQuiet DEF CloseRound2, Claims, NoVotes
    <3> QED BY <3>1, <3>2
  <2>13. CASE ListForTie(r)
    BY <2>13, <1>keep, PhasesQuiet DEF ListForTie, NoVotes
  <2>14. CASE DrawFromTie(r)
    <3>1. CASE Reply(r)
      BY <2>14, <3>1, <1>reply, PhasesQuiet DEF DrawFromTie, NoVotes
    <3>2. CASE ~Few(TopVoted(req[r].ids))
      <4>1. ~NoVotes
        BY <3>2, NoVotesNoTie
      <4>2. req'[r].at = "tieSet" /\ \A q \in Requests : q # r => req'[q] = req[q]
        BY <2>14, <3>2, <1>pick DEF DrawFromTie
      <4> QED BY <2>14, <4>1, <4>2, PhasesQuiet DEF DrawFromTie
    <3> QED BY <2>14, <3>1, <3>2 DEF DrawFromTie
  <2>15. CASE SetPollWinnerIfUnset(r)
    <3>1. /\ req[r].at = "tieSet" /\ req'[r].at = "idle"
          /\ UNCHANGED <<status, vote>>
          /\ status \in {"closed", "gone"}
          /\ winner' # None => status = "closed"
          /\ \A q \in Requests : /\ q # r => req'[q] = req[q]
                                 /\ req'[q].at # "crown"
      BY <2>15, <1>reply
      DEF SetPollWinnerIfUnset, WinnerUnset, Phases, CrownAlone, TieOnClosed, WinnerOnClosed
    <3> QED BY <3>1 DEF Phases, Round1IsFresh, WinnerOnClosed, TieOnClosed, CrownAlone
  <2> QED
    BY <1>2, <2>1, <2>2, <2>3, <2>4, <2>5, <2>6, <2>7, <2>8, <2>9, <2>10,
       <2>11, <2>12, <2>13, <2>14, <2>15 DEF Continue
<1>3. ASSUME NEW r \in Requests, Abort(r) PROVE Phases'
  BY <1>3, <1>reply, PhasesQuiet DEF Abort, NoVotes
<1>4. CASE DeletePoll \/ PurgeExpired
  BY <1>4 DEF DeletePoll, PurgeExpired, Vanish, Phases, Round1IsFresh, NoVotes,
              WinnerOnClosed, TieOnClosed, CrownAlone
<1>5. CASE Crash
  BY <1>5 DEF Crash, Idle, Phases, Round1IsFresh, NoVotes, AfterRound1,
              WinnerOnClosed, TieOnClosed, CrownAlone
<1>6. CASE Rest \/ UNCHANGED vars
  BY <1>6 DEF Rest, vars, Phases, Round1IsFresh, NoVotes, WinnerOnClosed,
              TieOnClosed, CrownAlone
<1> QED BY <1>1, <1>2, <1>3, <1>4, <1>5, <1>6 DEF Next

\* The inductive invariant holds in every reachable state.
LEMMA Invariance == Spec => []IInv
<1>1. Init => IInv
  BY TypeInit, FieldsInit, PhasesInit DEF IInv, Phases
<1>2. IInv /\ [Next]_vars => IInv'
  BY TypeStep, FieldsStep, PhasesStep DEF IInv, Phases
<1> QED BY <1>1, <1>2, PTL DEF Spec

\* SetPollWinner, which overwrites whatever winner is there, never finds one,
\* nor a rival: CrownIsUndisputed in every reachable state.
THEOREM CrownUndisputed == Spec => []CrownIsUndisputed
<1>1. IInv => CrownIsUndisputed
  BY DEF IInv, CrownAlone, CrownIsUndisputed, NoVotes
<1> QED BY <1>1, Invariance, PTL

-----------------------------------------------------------------------------

\* However requests interleave, are cut short or die with the process, the
\* poll moves forward only and its winner is set once, on a closed poll, and
\* stays: PollLifecycle implements PollDecision.
THEOREM LifecycleImplementsDecision == Spec => ImplementsDecision
<1>1. Init => Decision!Init
  BY DEF Init, Decision!Init
<1>2. IInv /\ [Next]_vars => [Decision!Next]_(Decision!decision)
  <2> SUFFICES ASSUME IInv, [Next]_vars
               PROVE  Decision!Next \/ UNCHANGED <<status, winner>>
    BY DEF Decision!decision
  <2> USE DEF IInv
  <2>1. ASSUME NEW r \in Requests, Begin(r) PROVE UNCHANGED <<status, winner>>
    BY <2>1 DEF Begin, BeginJoin, BeginNominate, BeginWithdraw, BeginVote,
                HostAdvance, AdminAdvance, SweepAdvance, BeginBreakTie
  <2>2. ASSUME NEW r \in Requests, Continue(r)
        PROVE  Decision!Next \/ UNCHANGED <<status, winner>>
    <3>1. CASE CloseRound1(r)
      BY <3>1 DEF CloseRound1, Claims, Decision!Next, Decision!Close
    <3>2. CASE SetPollWinner(r)
      <4>1. winner = None /\ status \in {"closed", "gone"} /\ req[r].pick \in Noms
        BY <3>2 DEF SetPollWinner, CrownAlone, FieldsSet
      <4> QED BY <3>2, <4>1 DEF SetPollWinner, Decision!Next, Decision!Decide
    <3>3. CASE OpenRound2(r)
      BY <3>3 DEF OpenRound2, Claims, Decision!Next, Decision!Open
    <3>4. CASE CloseRound2(r)
      BY <3>4 DEF CloseRound2, Claims, Decision!Next, Decision!Close
    <3>5. CASE SetPollWinnerIfUnset(r)
      <4>1. status \in {"closed", "gone"} /\ req[r].pick \in Noms
        BY <3>5 DEF SetPollWinnerIfUnset, TieOnClosed, FieldsSet
      <4> QED BY <3>5, <4>1 DEF SetPollWinnerIfUnset, WinnerUnset,
                                Decision!Next, Decision!Decide
    <3>6. CASE UNCHANGED <<status, winner>>
      BY <3>6
    <3> QED
      BY <2>2, <3>1, <3>2, <3>3, <3>4, <3>5, <3>6
      DEF Continue, CreateParticipant, CountNominations, AlreadyNominated,
          AddNomination, WithdrawNomination, ListForVote, ValidateBallot,
          ReplaceVotes, ListToAdvance, ListForTie, DrawFromTie
  <2>3. CASE DeletePoll \/ PurgeExpired
    BY <2>3 DEF DeletePoll, PurgeExpired, Vanish, Decision!Next, Decision!Delete
  <2>4. CASE Crash \/ Rest \/ UNCHANGED vars \/ \E r \in Requests : Abort(r)
    BY <2>4 DEF Crash, Rest, vars, Abort
  <2> QED BY <2>1, <2>2, <2>3, <2>4 DEF Next
<1> QED BY <1>1, <1>2, Invariance, PTL DEF Spec, ImplementsDecision, Decision!Spec

-----------------------------------------------------------------------------

\* A ballot that lands late, or a withdrawal that crosses it, leaves no vote
\* row without its nomination: the steps that write votes or rows keep
\* VotesNameRows, the others touch neither.
THEOREM VotesAlwaysNameRows == Spec => []VotesNameRows
<1>1. Init => VotesNameRows
  BY DEF Init, VotesNameRows
<1>2. IInv /\ VotesNameRows /\ [Next]_vars => VotesNameRows'
  <2> SUFFICES ASSUME IInv, VotesNameRows, [Next]_vars PROVE VotesNameRows'
    OBVIOUS
  <2> USE DEF IInv, TypeOK, VotesNameRows, Live, rows
  <2>1. ASSUME UNCHANGED <<key, vote>> PROVE VotesNameRows'
    BY <2>1
  <2>2. ASSUME NEW r \in Requests, Begin(r) PROVE VotesNameRows'
    BY <2>2, <2>1 DEF Begin, BeginJoin, BeginNominate, BeginWithdraw, BeginVote,
                      HostAdvance, AdminAdvance, SweepAdvance, BeginBreakTie
  <2>3. ASSUME NEW r \in Requests, Continue(r) PROVE VotesNameRows'
    <3>1. CASE AddNomination(r)
      <4>1. req[r].item \in Items
        BY <3>1 DEF AddNomination, FieldsSet
      <4>2. \A n \in Noms : key[n] # None => key'[n] # None
        BY <3>1, <4>1, NoneAssumption DEF AddNomination
      <4> QED BY <3>1, <4>2 DEF AddNomination
    <3>2. CASE WithdrawNomination(r)
      <4>1. req[r].pick \in Noms
        BY <3>2 DEF WithdrawNomination, FieldsSet
      <4> QED BY <3>2, <4>1 DEF WithdrawNomination
    <3>3. CASE ReplaceVotes(r)
      BY <3>3 DEF ReplaceVotes
    <3>4. CASE UNCHANGED <<key, vote>>
      BY <3>4, <2>1
    <3> QED
      BY <2>3, <3>1, <3>2, <3>3, <3>4
      DEF Continue, CreateParticipant, CountNominations, AlreadyNominated,
          ListForVote, ValidateBallot, ListToAdvance, CloseRound1, SetPollWinner,
          OpenRound2, CloseRound2, ListForTie, DrawFromTie, SetPollWinnerIfUnset
  <2>4. CASE DeletePoll \/ PurgeExpired
    BY <2>4 DEF DeletePoll, PurgeExpired, Vanish
  <2>5. CASE Crash \/ Rest \/ UNCHANGED vars \/ \E r \in Requests : Abort(r)
    BY <2>5, <2>1 DEF Crash, Rest, vars, Abort
  <2> QED BY <2>2, <2>3, <2>4, <2>5 DEF Next
<1> QED BY <1>1, <1>2, Invariance, PTL DEF Spec

-----------------------------------------------------------------------------

\* Whatever nominations and withdrawals of a title cross, it has one row, which
\* stands exactly as long as somebody nominates it (AddNomination,
\* RemoveNominator).
THEOREM NominationsAreBacked == Spec => []NominationsBacked
<1>1. Init => NominationsBacked
  BY DEF Init, NominationsBacked, Live
<1>2. IInv /\ NominationsBacked /\ [Next]_vars => NominationsBacked'
  <2> SUFFICES ASSUME IInv, NominationsBacked, [Next]_vars PROVE NominationsBacked'
    OBVIOUS
  <2> USE DEF IInv, TypeOK, NominationsBacked, Live, rows
  <2>1. ASSUME UNCHANGED <<key, nominators>> PROVE NominationsBacked'
    BY <2>1
  <2>2. ASSUME NEW r \in Requests, Begin(r) PROVE NominationsBacked'
    BY <2>2, <2>1 DEF Begin, BeginJoin, BeginNominate, BeginWithdraw, BeginVote,
                      HostAdvance, AdminAdvance, SweepAdvance, BeginBreakTie
  <2>3. ASSUME NEW r \in Requests, Continue(r) PROVE NominationsBacked'
    <3>1. CASE AddNomination(r)
      <4>1. req[r].item \in Items /\ req[r].item # None /\ req[r].who \in Participants
        BY <3>1, NoneAssumption DEF AddNomination, FieldsSet
      <4>2. ASSUME NEW n \in Noms, key[n] = req[r].item, key' = key,
                   nominators' = [nominators EXCEPT ![n] = @ \cup {req[r].who}]
            PROVE  NominationsBacked'
        BY <4>1, <4>2
      <4>3. ASSUME NEW n \in Noms, \A m \in Noms : key[m] # req[r].item,
                   key' = [key EXCEPT ![n] = req[r].item],
                   nominators' = [nominators EXCEPT ![n] = {req[r].who}]
            PROVE  NominationsBacked'
        BY <4>1, <4>3
      <4> QED BY <3>1, <4>2, <4>3, <2>1 DEF AddNomination
    <3>2. CASE WithdrawNomination(r)
      <4> DEFINE n == req[r].pick
                 left == nominators[n] \ {req[r].who}
      <4>1. n \in Noms /\ nominators' = [nominators EXCEPT ![n] = left]
        BY <3>2 DEF WithdrawNomination, FieldsSet
      <4>2. left = {} => key' = [key EXCEPT ![n] = None]
        BY <3>2 DEF WithdrawNomination
      <4>3. left # {} => key' = key /\ nominators[n] # {}
        BY <3>2 DEF WithdrawNomination
      <4> HIDE DEF n, left
      <4> QED BY <4>1, <4>2, <4>3
    <3>3. CASE UNCHANGED <<key, nominators>>
      BY <3>3, <2>1
    <3> QED
      BY <2>3, <3>1, <3>2, <3>3
      DEF Continue, CreateParticipant, CountNominations, AlreadyNominated,
          ListForVote, ValidateBallot, ReplaceVotes, ListToAdvance, CloseRound1,
          SetPollWinner, OpenRound2, CloseRound2, ListForTie, DrawFromTie,
          SetPollWinnerIfUnset
  <2>4. CASE DeletePoll \/ PurgeExpired
    BY <2>4 DEF DeletePoll, PurgeExpired, Vanish
  <2>5. CASE Crash \/ Rest \/ UNCHANGED vars \/ \E r \in Requests : Abort(r)
    BY <2>5, <2>1 DEF Crash, Rest, vars, Abort
  <2> QED BY <2>2, <2>3, <2>4, <2>5 DEF Next
<1> QED BY <1>1, <1>2, Invariance, PTL DEF Spec

=============================================================================
