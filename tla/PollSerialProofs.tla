---------------------------- MODULE PollSerialProofs ----------------------------
(***************************************************************************)
(* What PollLifecycle keeps when one request runs at a time, proved for    *)
(* any number of participants, titles and rows.  The poll may still be     *)
(* deleted, and the process may die, between two statements.               *)
(***************************************************************************)
EXTENDS PollLifecycleProofs

OneAtATime == \A q, r \in Requests : q = r

\* What a request f has read still holds when its next statement runs, or the
\* poll is gone.
UpToDate(f) ==
  /\ f.at \in {"count", "already", "add", "withdraw"} => status \in {"round1", "gone"}
  /\ (f.at = "add" /\ rules.cap > 0 /\ status = "round1") =>
       Cardinality(MadeBy(f.who)) < rules.cap \/ \E n \in Noms : key[n] = f.item
  /\ f.at \in {"listVote", "listOwn", "replace"} => status \in {"round2", "gone"}
  /\ (f.at = "replace" /\ ~rules.selfVote) => f.ids \cap MadeBy(f.who) = {}
  /\ (f.at = "open" /\ status = "round1") => ~rules.decides /\ ~Few(Live)
  /\ (f.at = "close1" /\ status = "round1") =>
       (rules.decides \/ Few(Live)) /\ f.pick \in Live \cup {None}
  /\ (f.at = "crown" /\ status = "closed") => f.pick \in Live
  /\ (f.at = "tieVotes" /\ status = "closed") => f.ids = Live
  /\ (f.at = "tieSet" /\ status = "closed") =>
       f.pick \in TopVoted(Live) /\ ~Few(TopVoted(Live))

\* A deleted poll has no rows left.
GoneIsEmpty ==
  status = "gone" => NoVotes /\ \A n \in Noms : key[n] = None /\ nominators[n] = {}

\* The inductive invariant, with IInv and NominationsBacked.
SInv == GoneIsEmpty /\ NoSelfVotes /\ \A r \in Requests : UpToDate(req[r])

-----------------------------------------------------------------------------
(* How a request moves on.                                                  *)

LEMMA Moves ==
  ASSUME TypeOK, NEW r \in Requests
  PROVE  /\ \A f : req' = [req EXCEPT ![r] = f] => req'[r] = f
         /\ Reply(r) => req'[r].at = "idle"
         /\ \A at : Goto(r, at) =>
              /\ req'[r].at = at /\ req'[r].who = req[r].who
              /\ req'[r].item = req[r].item /\ req'[r].pick = req[r].pick
         /\ \A at, ids : Keep(r, at, ids) =>
              req'[r].at = at /\ req'[r].ids = ids /\ req'[r].who = req[r].who
         /\ \A at, n : req' = [req EXCEPT ![r].at = at, ![r].pick = n] =>
              req'[r].at = at /\ req'[r].pick = n
<1>1. req \in [Requests -> Request]
  BY DEF TypeOK
<1> QED BY <1>1 DEF Reply, Idle, Goto, Keep, Request

\* A request with nothing to rely on.
LEMMA Relaxed ==
  ASSUME NEW f, f.at \in {"idle", "join", "listNoms", "close2", "tieNoms"}
  PROVE  UpToDate(f)
BY DEF UpToDate

\* Steps that read only.
LEMMA ReadsOnly ==
  ASSUME OneAtATime, SInv, NEW r \in Requests, UpToDate(req'[r]),
         UNCHANGED <<rules, status, key, nominators, vote>>
  PROVE  SInv'
<1>1. UpToDate(req[r])'
  BY DEF UpToDate, Few, Live, MadeBy, TopVoted, Support
<1>2. \A q \in Requests : UpToDate(req[q])'
  BY <1>1 DEF OneAtATime
<1>3. GoneIsEmpty'
  BY DEF SInv, GoneIsEmpty, NoVotes
<1>4. NoSelfVotes'
  BY DEF SInv, NoSelfVotes, MadeBy
<1> QED BY <1>2, <1>3, <1>4 DEF SInv

\* Steps that answer.
LEMMA Answered ==
  ASSUME OneAtATime, TypeOK, NEW r \in Requests, Reply(r), GoneIsEmpty', NoSelfVotes'
  PROVE  SInv'
<1>1. req'[r].at = "idle"
  BY Moves
<1>2. \A q \in Requests : UpToDate(req[q])'
  BY <1>1 DEF UpToDate, OneAtATime
<1> QED BY <1>2 DEF SInv

LEMMA SerialBegins ==
  ASSUME OneAtATime, TypeOK, SInv, NEW r \in Requests, Begin(r)
  PROVE  SInv'
<1>admit. ASSUME NEW f, Admit(r, f), UpToDate(f), UNCHANGED <<rules, status, key, nominators, vote>>
          PROVE  SInv'
  <2>1. req'[r] = f
    BY <1>admit, Moves DEF Admit
  <2> QED BY <1>admit, <2>1, ReadsOnly
<1>1. CASE BeginJoin(r)
  <2>1. UpToDate([Idle EXCEPT !.at = "join"])
    BY Relaxed DEF Idle
  <2> QED BY <1>1, <2>1, <1>admit DEF BeginJoin, rows
<1>2. CASE BeginNominate(r)
  <2>1. PICK p \in joined, i \in Items :
          Admit(r, [Idle EXCEPT !.at = IF rules.cap > 0 THEN "count" ELSE "add",
                                !.who = p, !.item = i])
    BY <1>2 DEF BeginNominate
  <2> DEFINE f == [Idle EXCEPT !.at = IF rules.cap > 0 THEN "count" ELSE "add",
                               !.who = p, !.item = i]
  <2>2. f.at = (IF rules.cap > 0 THEN "count" ELSE "add") /\ status = "round1"
    BY <1>2 DEF Idle, BeginNominate
  <2> HIDE DEF f
  <2>3. UpToDate(f)
    BY <2>2 DEF UpToDate
  <2> QED BY <1>2, <2>1, <2>3, <1>admit DEF BeginNominate, f, rows
<1>3. CASE BeginWithdraw(r)
  <2>1. PICK p \in joined, n \in used :
          Admit(r, [Idle EXCEPT !.at = "withdraw", !.who = p, !.pick = n])
    BY <1>3 DEF BeginWithdraw
  <2> DEFINE f == [Idle EXCEPT !.at = "withdraw", !.who = p, !.pick = n]
  <2>2. f.at = "withdraw" /\ status = "round1"
    BY <1>3 DEF Idle, BeginWithdraw
  <2> HIDE DEF f
  <2>3. UpToDate(f)
    BY <2>2 DEF UpToDate
  <2> QED BY <1>3, <2>1, <2>3, <1>admit DEF BeginWithdraw, f, rows
<1>4. CASE BeginVote(r)
  <2>1. PICK p \in joined : Admit(r, [Idle EXCEPT !.at = "listVote", !.who = p])
    BY <1>4 DEF BeginVote
  <2> DEFINE f == [Idle EXCEPT !.at = "listVote", !.who = p]
  <2>2. f.at = "listVote" /\ status = "round2"
    BY <1>4 DEF Idle, BeginVote
  <2> HIDE DEF f
  <2>3. UpToDate(f)
    BY <2>2 DEF UpToDate
  <2> QED BY <1>4, <2>1, <2>3, <1>admit DEF BeginVote, f, rows
<1>5. ASSUME NEW lenient, BeginAdvance(r, lenient),
             UNCHANGED <<rules, status, key, nominators, vote>>
      PROVE  SInv'
  <2>1. UpToDate([Idle EXCEPT !.at = "listNoms", !.lenient = lenient])
    <3> DEFINE f == [Idle EXCEPT !.at = "listNoms", !.lenient = lenient]
    <3>1. f.at = "listNoms"
      BY DEF Idle
    <3> HIDE DEF f
    <3>2. UpToDate(f)
      BY <3>1, Relaxed
    <3> QED BY <3>2 DEF f
  <2>2. UpToDate([Idle EXCEPT !.at = "close2"])
    BY Relaxed DEF Idle
  <2> QED BY <1>5, <2>1, <2>2, <1>admit DEF BeginAdvance
<1>6. CASE HostAdvance(r) \/ AdminAdvance(r) \/ SweepAdvance(r)
  BY <1>6, <1>5 DEF HostAdvance, AdminAdvance, SweepAdvance, rows
<1>7. CASE BeginBreakTie(r)
  <2>1. UpToDate([Idle EXCEPT !.at = "tieNoms"])
    BY Relaxed DEF Idle
  <2> QED BY <1>7, <2>1, <1>admit DEF BeginBreakTie, rows
<1> QED BY <1>1, <1>2, <1>3, <1>4, <1>6, <1>7 DEF Begin

\* The statements that read, and decide what comes next.
LEMMA SerialReads ==
  ASSUME OneAtATime, IInv, SInv, NEW r \in Requests,
         \/ CountNominations(r) \/ AlreadyNominated(r)
         \/ ListForVote(r) \/ ValidateBallot(r) \/ ListToAdvance(r)
         \/ ListForTie(r) \/ DrawFromTie(r)
  PROVE  SInv'
<1>type. TypeOK /\ rules \in Rules /\ req[r] \in Request
  BY DEF IInv, TypeOK
<1>fresh. UpToDate(req[r])
  BY DEF SInv
<1>quiet. UNCHANGED <<rules, status, key, nominators, vote>>
  BY DEF CountNominations, AlreadyNominated, ListForVote, ValidateBallot,
         ListToAdvance, ListForTie, DrawFromTie, rows
<1>reply. Reply(r) => UpToDate(req'[r])
  BY <1>type, Moves, Relaxed
<1> SUFFICES UpToDate(req'[r])
  BY <1>quiet, ReadsOnly
<1>1. CASE CountNominations(r)
  <2>1. /\ req[r].at = "count" /\ req'[r].at \in {"already", "add"}
        /\ req'[r].who = req[r].who
        /\ req'[r].at = "add" => ~AtCap(req[r].who)
    BY <1>1, <1>type, Moves DEF CountNominations
  <2>2. Cardinality(MadeBy(req[r].who)) \in Nat /\ rules.cap \in Nat
    BY <1>type, FiniteAssumption, FS_Subset, FS_CardinalityType DEF MadeBy, Rules
  <2>3. req'[r].at = "add" => Cardinality(MadeBy(req'[r].who)) < rules.cap
    BY <2>1, <2>2 DEF AtCap
  <2> QED BY <2>1, <2>3, <1>fresh DEF UpToDate
<1>2. CASE AlreadyNominated(r)
  <2>1. CASE \E n \in Noms : key[n] = req[r].item
    <3>1. req[r].at = "already" /\ req'[r].at = "add" /\ req'[r].item = req[r].item
      BY <1>2, <2>1, <1>type, Moves DEF AlreadyNominated
    <3> QED BY <2>1, <3>1, <1>fresh DEF UpToDate
  <2>2. CASE ~ \E n \in Noms : key[n] = req[r].item
    BY <1>2, <2>2, <1>reply DEF AlreadyNominated
  <2> QED BY <2>1, <2>2
<1>3. CASE ListForVote(r)
  <2>1. req[r].at = "listVote" /\ req'[r].at = "listOwn"
    BY <1>3, <1>type, Moves DEF ListForVote
  <2> QED BY <2>1, <1>fresh DEF UpToDate
<1>4. CASE ValidateBallot(r)
  <2>1. PICK ballot : /\ rules.selfVote \/ ballot \cap MadeBy(req[r].who) = {}
                      /\ Keep(r, "replace", ballot)
    BY <1>4 DEF ValidateBallot
  <2>2. /\ req[r].at = "listOwn" /\ req'[r].at = "replace"
        /\ req'[r].ids = ballot /\ req'[r].who = req[r].who
    BY <1>4, <2>1, <1>type, Moves DEF ValidateBallot
  <2> QED BY <2>1, <2>2, <1>fresh DEF UpToDate
<1>5. CASE ListToAdvance(r)
  <2>1. ASSUME rules.decides \/ Few(Live), NEW n \in IF Live = {} THEN {None} ELSE Live,
               req' = [req EXCEPT ![r].at = "close1", ![r].pick = n]
        PROVE  UpToDate(req'[r])
    <3>1. req'[r].at = "close1" /\ req'[r].pick = n /\ n \in Live \cup {None}
      BY <2>1, <1>type, Moves
    <3> QED BY <2>1, <3>1 DEF UpToDate
  <2>2. ASSUME ~Few(Live), ~rules.decides, Goto(r, "open")
        PROVE  UpToDate(req'[r])
    <3>1. req'[r].at = "open"
      BY <2>2, <1>type, Moves
    <3> QED BY <2>2, <3>1 DEF UpToDate
  <2> QED BY <1>5, <2>1, <2>2, <1>reply DEF ListToAdvance
<1>6. CASE ListForTie(r)
  <2>1. req'[r].at = "tieVotes" /\ req'[r].ids = Live
    BY <1>6, <1>type, Moves DEF ListForTie
  <2> QED BY <2>1 DEF UpToDate
<1>7. CASE DrawFromTie(r)
  <2>1. ASSUME ~Few(TopVoted(req[r].ids)), NEW n \in TopVoted(req[r].ids),
               req' = [req EXCEPT ![r].at = "tieSet", ![r].pick = n]
        PROVE  UpToDate(req'[r])
    <3>1. req'[r].at = "tieSet" /\ req'[r].pick = n /\ req[r].at = "tieVotes"
      BY <1>7, <2>1, <1>type, Moves DEF DrawFromTie
    <3>2. status = "closed" => req[r].ids = Live
      BY <3>1, <1>fresh DEF UpToDate
    <3> QED BY <2>1, <3>1, <3>2 DEF UpToDate
  <2> QED BY <1>7, <2>1, <1>reply DEF DrawFromTie
<1> QED BY <1>1, <1>2, <1>3, <1>4, <1>5, <1>6, <1>7

\* The statements that write.
LEMMA SerialWrites ==
  ASSUME OneAtATime, IInv, SInv, NEW r \in Requests,
         \/ CreateParticipant(r) \/ AddNomination(r) \/ WithdrawNomination(r)
         \/ ReplaceVotes(r) \/ CloseRound1(r) \/ SetPollWinner(r)
         \/ OpenRound2(r) \/ CloseRound2(r) \/ SetPollWinnerIfUnset(r)
  PROVE  SInv'
<1>type. /\ TypeOK /\ req[r] \in Request
         /\ vote \in [Participants -> SUBSET Noms]
         /\ key \in [Noms -> Items \cup {None}]
         /\ nominators \in [Noms -> SUBSET Participants]
  BY DEF IInv, TypeOK
<1>fresh. UpToDate(req[r])
  BY DEF SInv
\* Until somebody votes, nobody can have voted for themselves.
<1>early. status \in {"round1", "gone"} => NoVotes
  BY DEF IInv, Round1IsFresh, SInv, GoneIsEmpty
<1>unvoted. NoVotes' => NoSelfVotes'
  BY DEF NoVotes, NoSelfVotes
\* The statements that move the poll on and write no rows.
<1>rows. ASSUME Reply(r), UNCHANGED <<rules, key, nominators, vote>>,
                status' \in {status, "round2", "closed"}
         PROVE  SInv'
  <2>1. GoneIsEmpty'
    BY <1>rows DEF SInv, GoneIsEmpty, NoVotes
  <2>2. NoSelfVotes'
    BY <1>rows DEF SInv, NoSelfVotes, MadeBy
  <2> QED BY <1>rows, <1>type, <2>1, <2>2, Answered
<1>1. CASE \/ CreateParticipant(r) \/ SetPollWinner(r) \/ OpenRound2(r)
           \/ CloseRound2(r) \/ SetPollWinnerIfUnset(r)
  BY <1>1, <1>rows DEF CreateParticipant, SetPollWinner, OpenRound2, CloseRound2,
                       SetPollWinnerIfUnset, rows
<1>2. CASE AddNomination(r)
  <2>1. NoVotes /\ Reply(r) /\ UNCHANGED <<status, vote>>
    BY <1>2, <1>early, <1>fresh DEF AddNomination, UpToDate
  <2>2. NoSelfVotes'
    BY <2>1, <1>unvoted DEF NoVotes
  <2>3. GoneIsEmpty'
    BY <1>2, <2>1 DEF AddNomination, SInv, GoneIsEmpty, NoVotes
  <2> QED BY <1>type, <2>1, <2>2, <2>3, Answered
<1>3. CASE WithdrawNomination(r)
  <2> DEFINE n == req[r].pick
             left == nominators[n] \ {req[r].who}
  <2>1. /\ n \in Noms /\ nominators' = [nominators EXCEPT ![n] = left]
        /\ IF left = {}
             THEN /\ key' = [key EXCEPT ![n] = None]
                  /\ vote' = [p \in Participants |-> vote[p] \ {n}]
             ELSE UNCHANGED <<key, vote>>
        /\ Reply(r) /\ UNCHANGED status
        /\ NoVotes
    BY <1>3, <1>early, <1>fresh DEF WithdrawNomination, UpToDate, IInv, FieldsSet
  <2>2. \A m \in Noms : nominators[m] = {} => nominators'[m] = {}
    BY <2>1, <1>type
  <2> HIDE DEF n, left
  <2>3. NoVotes'
    BY <2>1, <1>type DEF NoVotes
  <2>4. \A m \in Noms : key[m] = None => key'[m] = None
    BY <2>1, <1>type
  <2>5. GoneIsEmpty'
    BY <2>1, <2>2, <2>3, <2>4 DEF SInv, GoneIsEmpty
  <2> QED BY <1>type, <2>1, <2>3, <2>5, <1>unvoted, Answered
<1>4. CASE ReplaceVotes(r)
  <2>1. /\ req[r].at = "replace" /\ status \in {"round2", "gone"}
        /\ vote' = IF req[r].ids \subseteq Live
                     THEN [vote EXCEPT ![req[r].who] = req[r].ids] ELSE vote
        /\ Reply(r) /\ UNCHANGED <<rules, status, key, nominators>>
    BY <1>4, <1>fresh DEF ReplaceVotes, UpToDate, rows
  <2>2. GoneIsEmpty'
    <3>1. ASSUME status = "gone" PROVE NoVotes'
      <4>1. NoVotes /\ Live = {}
        BY <3>1 DEF SInv, GoneIsEmpty, Live
      <4> QED BY <2>1, <4>1, <1>type DEF NoVotes
    <3> QED BY <2>1, <3>1 DEF SInv, GoneIsEmpty
  <2>3. NoSelfVotes'
    <3>1. ASSUME ~rules.selfVote, NEW p \in Participants
          PROVE  vote'[p] \cap MadeBy(p) = {}
      <4>1. vote[p] \cap MadeBy(p) = {}
        BY <3>1 DEF SInv, NoSelfVotes
      <4>2. req[r].ids \cap MadeBy(req[r].who) = {}
        BY <3>1, <2>1, <1>fresh DEF UpToDate
      <4>3. vote'[p] = vote[p] \/ (p = req[r].who /\ vote'[p] = req[r].ids)
        BY <2>1, <1>type
      <4> QED BY <4>1, <4>2, <4>3
    <3> QED BY <2>1, <3>1 DEF NoSelfVotes, MadeBy
  <2> QED BY <1>type, <2>1, <2>2, <2>3, Answered
<1>5. CASE CloseRound1(r)
  <2>1. CASE status = "round1" /\ req[r].pick # None
    <3>1. /\ req[r].at = "close1" /\ req'[r].at = "crown" /\ req'[r].pick = req[r].pick
          /\ status' = "closed" /\ UNCHANGED <<rules, key, nominators, vote>>
      BY <1>5, <2>1, <1>type, Moves DEF CloseRound1, Claims, rows
    <3>2. req[r].pick \in Live
      BY <2>1, <3>1, <1>fresh DEF UpToDate
    <3>3. UpToDate(req[r])'
      BY <3>1, <3>2 DEF UpToDate, Live
    <3>4. \A q \in Requests : UpToDate(req[q])'
      BY <3>3 DEF OneAtATime
    <3>5. GoneIsEmpty' /\ NoSelfVotes'
      BY <3>1 DEF SInv, GoneIsEmpty, NoSelfVotes, MadeBy
    <3> QED BY <3>4, <3>5 DEF SInv
  <2>2. CASE ~(status = "round1" /\ req[r].pick # None)
    BY <1>5, <2>2, <1>rows DEF CloseRound1, Claims, rows
  <2> QED BY <2>1, <2>2
<1> QED BY <1>1, <1>2, <1>3, <1>4, <1>5

LEMMA SerialInit == Init => SInv
<1> SUFFICES ASSUME Init PROVE SInv
  OBVIOUS
<1>1. GoneIsEmpty /\ NoSelfVotes
  BY DEF Init, GoneIsEmpty, NoSelfVotes
<1>2. \A r \in Requests : UpToDate(req[r])
  BY Relaxed DEF Init, Idle
<1> QED BY <1>1, <1>2 DEF SInv

LEMMA SerialStep ==
  ASSUME OneAtATime, IInv, SInv, [Next]_vars
  PROVE  SInv'
<1>1. ASSUME NEW r \in Requests, Begin(r) PROVE SInv'
  BY <1>1, SerialBegins DEF IInv
<1>2. ASSUME NEW r \in Requests, Continue(r) PROVE SInv'
  BY <1>2, SerialReads, SerialWrites DEF Continue
<1>3. ASSUME NEW r \in Requests, Abort(r) PROVE SInv'
  <2>1. Reply(r) /\ UNCHANGED <<rules, status, key, nominators, vote>>
    BY <1>3 DEF Abort, rows
  <2>2. UpToDate(req'[r])
    BY <2>1, Moves, Relaxed DEF IInv
  <2> QED BY <2>1, <2>2, ReadsOnly
<1>4. CASE DeletePoll \/ PurgeExpired
  <2>1. /\ status' = "gone" /\ UNCHANGED <<rules, req>>
        /\ \A n \in Noms : key'[n] = None /\ nominators'[n] = {}
        /\ \A p \in Participants : vote'[p] = {}
    BY <1>4 DEF DeletePoll, PurgeExpired, Vanish
  <2>2. GoneIsEmpty' /\ NoSelfVotes'
    BY <2>1 DEF GoneIsEmpty, NoSelfVotes, NoVotes
  <2>3. ASSUME NEW r \in Requests PROVE UpToDate(req[r])'
    <3>1. \A p : {n \in Noms : p \in nominators'[n]} = {}
      BY <2>1
    <3>2. /\ req[r].at \in {"listVote", "listOwn", "replace"} => status' \in {"round2", "gone"}
          /\ req[r].at \in {"count", "already", "add", "withdraw"} =>
               status' \in {"round1", "gone"}
      BY <2>1
    <3> QED BY <2>1, <3>1, <3>2 DEF UpToDate, MadeBy
  <2> QED BY <2>2, <2>3 DEF SInv
<1>5. CASE Crash
  <2>1. UNCHANGED <<rules, status, key, nominators, vote>> /\ \A r \in Requests : req'[r] = Idle
    BY <1>5 DEF Crash, rows
  <2>2. CASE Requests = {}
    <3>1. GoneIsEmpty' /\ NoSelfVotes'
      BY <2>1 DEF SInv, GoneIsEmpty, NoSelfVotes, NoVotes, MadeBy
    <3> QED BY <2>2, <3>1 DEF SInv
  <2>3. ASSUME NEW r \in Requests PROVE SInv'
    <3>1. UpToDate(req'[r])
      BY <2>1, Relaxed DEF Idle
    <3> QED BY <2>1, <3>1, ReadsOnly
  <2> QED BY <2>2, <2>3
<1>6. CASE Rest \/ UNCHANGED vars
  <2>1. UNCHANGED <<rules, status, winner, key, nominators, vote, req>>
    BY <1>6 DEF Rest, vars, rows
  <2>2. GoneIsEmpty' /\ NoSelfVotes'
    BY <2>1 DEF SInv, GoneIsEmpty, NoSelfVotes, NoVotes, MadeBy
  <2>3. ASSUME NEW r \in Requests PROVE SInv'
    <3>1. UpToDate(req'[r])
      BY <2>1 DEF SInv
    <3> QED BY <2>1, <3>1, ReadsOnly
  <2> QED BY <2>2, <2>3 DEF SInv
<1> QED BY <1>1, <1>2, <1>3, <1>4, <1>5, <1>6 DEF Next

LEMMA SerialInvariance ==
  ASSUME OneAtATime
  PROVE  Spec => []SInv
<1>1. IInv /\ SInv /\ [Next]_vars => SInv'
  BY SerialStep
<1> QED BY <1>1, SerialInit, Invariance, PTL DEF Spec

-----------------------------------------------------------------------------
(* Theorems.                                                                *)

\* One request at a time: nobody supports their own nomination unless the poll
\* lets them, whatever is withdrawn, aborted or deleted in between
\* (ValidateBallot, selfVoteLimit).
THEOREM NobodyVotesForThemselves ==
  ASSUME OneAtATime
  PROVE  Spec => []NoSelfVotes
<1>1. SInv => NoSelfVotes
  BY DEF SInv
<1> QED BY <1>1, SerialInvariance, PTL

\* One request at a time: a new row never takes a participant beyond the cap
\* (SubmitNomination counts, addNomination inserts).
THEOREM CapBoundsNewRows ==
  ASSUME OneAtATime
  PROVE  Spec => NewRowsWithinCap
<1>1. ASSUME IInv, NominationsBacked, SInv, [Next]_vars
      PROVE  [\A n \in Noms, p \in Participants :
                (key[n] = None /\ p \in nominators'[n] /\ rules.cap > 0)
                  => Cardinality(MadeBy(p)) < rules.cap]_vars
  <2> SUFFICES ASSUME NEW n \in Noms, NEW p \in Participants,
                      key[n] = None, p \in nominators'[n], rules.cap > 0
               PROVE  Cardinality(MadeBy(p)) < rules.cap
    OBVIOUS
  <2>1. nominators[n] = {}
    BY <1>1 DEF NominationsBacked
  <2>type. nominators \in [Noms -> SUBSET Participants]
    BY <1>1 DEF IInv, TypeOK
  \* Only an insert gives nominators to a row that had none.
  <2>2. PICK r \in Requests : AddNomination(r)
    <3>1. ASSUME ~UNCHANGED nominators PROVE \E r \in Requests : AddNomination(r)
      <4>1. ~(DeletePoll \/ PurgeExpired)
        BY DEF DeletePoll, PurgeExpired, Vanish
      <4>2. ASSUME NEW r \in Requests, WithdrawNomination(r) PROVE FALSE
        BY <1>1, <2>1, <2>type, <4>2 DEF WithdrawNomination, IInv, FieldsSet
      <4> QED
        BY <1>1, <3>1, <4>1, <4>2
        DEF Next, vars, rows, Begin, BeginJoin, BeginNominate, BeginWithdraw, BeginVote,
            HostAdvance, AdminAdvance, SweepAdvance, BeginBreakTie,
            Continue, CreateParticipant, CountNominations, AlreadyNominated,
            ListForVote, ValidateBallot, ReplaceVotes, ListToAdvance, CloseRound1,
            SetPollWinner, OpenRound2, CloseRound2, ListForTie, DrawFromTie,
            SetPollWinnerIfUnset, Abort, Crash, Rest
    <3> QED BY <2>1, <3>1
  <2>3. req[r].at = "add" /\ req[r].item # None
    BY <1>1, <2>2, NoneAssumption DEF AddNomination, IInv, FieldsSet
  <2>4. /\ status # "gone" /\ p = req[r].who
        /\ \A m \in Noms : key[m] # req[r].item
    BY <2>1, <2>2, <2>3, <2>type DEF AddNomination
  <2> QED BY <1>1, <2>3, <2>4 DEF SInv, UpToDate
<1> QED BY <1>1, SerialInvariance, Invariance, NominationsAreBacked, PTL
        DEF Spec, NewRowsWithinCap

\* A set of two is more than few, and a set of fewer is not.
LEMMA FewIsLessThanTwo ==
  ASSUME NEW S, IsFiniteSet(S)
  PROVE  Few(S) <=> Cardinality(S) < 2
<1>1. Cardinality(S) \in Nat /\ (Cardinality(S) = 0 <=> S = {})
  BY FS_CardinalityType, FS_EmptySet
<1>2. ASSUME NEW x \in S
      PROVE  /\ Cardinality(S \ {x}) = Cardinality(S) - 1
             /\ Cardinality(S \ {x}) = 0 <=> S \ {x} = {}
             /\ Cardinality(S \ {x}) \in Nat
  BY FS_RemoveElement, FS_EmptySet, FS_CardinalityType
<1>3. CASE S = {}
  BY <1>1, <1>3 DEF Few
<1>4. ASSUME NEW x \in S PROVE Few(S) <=> Cardinality(S) < 2
  <2>1. Few(S) <=> S \ {x} = {}
    BY DEF Few
  <2>2. S \ {x} = {} => Cardinality(S) < 2
    <3>1. S \ {x} = {} => Cardinality(S \ {x}) = 0
      BY <1>2
    <3>2. Cardinality(S \ {x}) = 0 => Cardinality(S) < 2
      BY <1>1, <1>2
    <3> QED BY <3>1, <3>2
  <2>3. Cardinality(S) < 2 => S \ {x} = {}
    <3>1. Cardinality(S) < 2 => Cardinality(S \ {x}) = 0
      BY <1>1, <1>2
    <3> QED BY <3>1, <1>2
  <2> QED BY <2>1, <2>2, <2>3
<1> QED BY <1>3, <1>4

\* The contract counts as the model does.
LEMMA ContractCounts == \A S : Contract!Cardinality(S) = Cardinality(S)
BY DEF Contract!Cardinality, Cardinality

LEMMA ContractScores == \A n : Contract!Score(n) = Support(n)
BY ContractCounts DEF Contract!Score, Support

\* The refinement of PollContract, step by step.
LEMMA ContractStep ==
  ASSUME OneAtATime, IInv, SInv, [Next]_vars
  PROVE  Contract!Next \/ UNCHANGED <<rules, status, Live, vote, winner>>
<1>type. /\ TypeOK
         /\ rules \in Rules
         /\ vote \in [Participants -> SUBSET Noms]
         /\ key \in [Noms -> Items \cup {None}]
         /\ nominators \in [Noms -> SUBSET Participants]
         /\ req \in [Requests -> Request]
  BY DEF IInv, TypeOK
<1>live. Live \subseteq Noms /\ IsFiniteSet(Live)
  BY FiniteAssumption, FS_Subset DEF Live
<1>fresh. \A r \in Requests : UpToDate(req[r])
  BY DEF SInv
<1>early. status \in {"round1", "gone"} => NoVotes
  BY DEF IInv, Round1IsFresh, SInv, GoneIsEmpty
<1>same. ASSUME UNCHANGED <<rules, status, winner, key, vote>>
         PROVE  UNCHANGED <<rules, status, Live, vote, winner>>
  BY <1>same DEF Live
<1>1. ASSUME NEW r \in Requests, AddNomination(r)
      PROVE  Contract!Next \/ UNCHANGED <<rules, status, Live, vote, winner>>
  <2>1. status = "gone" \/ status = "round1"
    BY <1>1, <1>fresh DEF AddNomination, UpToDate
  <2>2. CASE UNCHANGED key
    BY <1>1, <2>2, <1>same DEF AddNomination
  <2>3. CASE status = "round1" /\ ~UNCHANGED key
    <3>1. PICK n \in Noms : key' = [key EXCEPT ![n] = req[r].item]
      BY <1>1, <2>3 DEF AddNomination
    <3>2. req[r].item # None
      BY <1>1, NoneAssumption DEF AddNomination, IInv, FieldsSet
    <3>3. Live' = Live \cup {n}
      BY <1>type, <3>1, <3>2 DEF Live
    <3> QED BY <1>1, <2>3, <3>3 DEF AddNomination, Contract!Next, Contract!Nominate
  <2>4. status = "gone" => UNCHANGED key
    BY <1>1 DEF AddNomination
  <2> QED BY <2>1, <2>2, <2>3, <2>4
<1>2. ASSUME NEW r \in Requests, WithdrawNomination(r)
      PROVE  Contract!Next \/ UNCHANGED <<rules, status, Live, vote, winner>>
  <2> DEFINE n == req[r].pick
  <2>1. /\ status \in {"round1", "gone"} /\ n \in Noms
        /\ key' = key \/ key' = [key EXCEPT ![n] = None]
        /\ vote' = vote \/ vote' = [p \in Participants |-> vote[p] \ {n}]
        /\ UNCHANGED <<rules, status, winner>>
    BY <1>2, <1>fresh DEF WithdrawNomination, UpToDate, IInv, FieldsSet
  <2> HIDE DEF n
  <2>2. vote' = vote
    BY <2>1, <1>early, <1>type DEF NoVotes
  <2>3. CASE status = "gone"
    <3>1. key' = key
      BY <2>1, <2>3, <1>type DEF SInv, GoneIsEmpty
    <3> QED BY <2>1, <2>2, <3>1, <1>same
  <2>4. CASE status = "round1"
    <3>1. Live' = Live \/ Live' = Live \ {n}
      BY <2>1, <1>type DEF Live
    <3> QED BY <2>1, <2>2, <2>4, <3>1 DEF Contract!Next, Contract!Nominate
  <2> QED BY <2>1, <2>3, <2>4
<1>3. ASSUME NEW r \in Requests, ReplaceVotes(r)
      PROVE  Contract!Next \/ UNCHANGED <<rules, status, Live, vote, winner>>
  <2>1. /\ req[r].who \in Participants /\ status \in {"round2", "gone"}
        /\ UNCHANGED <<rules, status, key, winner>>
        /\ vote' = IF req[r].ids \subseteq Live
                     THEN [vote EXCEPT ![req[r].who] = req[r].ids] ELSE vote
    BY <1>3, <1>fresh DEF ReplaceVotes, UpToDate, IInv, FieldsSet, rows
  <2>2. Live' = Live
    BY <2>1 DEF Live
  <2>3. CASE status = "round2" /\ req[r].ids \subseteq Live
    BY <2>1, <2>2, <2>3 DEF Contract!Next, Contract!Vote
  <2>4. CASE ~(req[r].ids \subseteq Live)
    BY <2>1, <2>2, <2>4
  <2>5. CASE status = "gone" /\ req[r].ids \subseteq Live
    <3>1. req[r].ids = {} /\ vote[req[r].who] = {}
      BY <2>1, <2>5 DEF SInv, GoneIsEmpty, NoVotes, Live
    <3>2. vote' = vote
      BY <2>1, <2>5, <3>1, <1>type
    <3> QED BY <2>1, <2>2, <3>2
  <2> QED BY <2>1, <2>3, <2>4, <2>5
<1>4. ASSUME NEW r \in Requests, CloseRound1(r)
      PROVE  Contract!Next \/ UNCHANGED <<rules, status, Live, vote, winner>>
  <2>1. req[r].at = "close1" /\ UNCHANGED <<rules, winner, key, vote>> /\ Live' = Live
    BY <1>4 DEF CloseRound1, rows, Live
  <2>2. CASE status = "round1"
    <3>1. rules.decides \/ Cardinality(Live) < 2
      BY <2>1, <2>2, <1>fresh, <1>live, FewIsLessThanTwo DEF UpToDate
    <3>2. status' = "closed"
      BY <1>4, <2>2 DEF CloseRound1, Claims
    <3> QED BY <2>1, <2>2, <3>1, <3>2, ContractCounts DEF Contract!Next, Contract!Close
  <2>3. CASE status # "round1"
    BY <1>4, <2>1, <2>3 DEF CloseRound1, Claims
  <2> QED BY <2>2, <2>3
<1>5. ASSUME NEW r \in Requests, OpenRound2(r)
      PROVE  Contract!Next \/ UNCHANGED <<rules, status, Live, vote, winner>>
  <2>1. req[r].at = "open" /\ UNCHANGED <<rules, winner, key, vote>> /\ Live' = Live
    BY <1>5 DEF OpenRound2, rows, Live
  <2>2. CASE status = "round1"
    <3>1. ~rules.decides /\ Cardinality(Live) >= 2
      <4>1. ~rules.decides /\ ~(Cardinality(Live) < 2)
        BY <2>1, <2>2, <1>fresh, <1>live, FewIsLessThanTwo DEF UpToDate
      <4>2. Cardinality(Live) \in Nat
        BY <1>live, FS_CardinalityType
      <4> QED BY <4>1, <4>2
    <3>2. status' = "round2"
      BY <1>5, <2>2 DEF OpenRound2, Claims
    <3> QED BY <2>1, <2>2, <3>1, <3>2, ContractCounts DEF Contract!Next, Contract!Open
  <2>3. CASE status # "round1"
    BY <1>5, <2>1, <2>3 DEF OpenRound2, Claims
  <2> QED BY <2>2, <2>3
<1>6. ASSUME NEW r \in Requests, CloseRound2(r)
      PROVE  Contract!Next \/ UNCHANGED <<rules, status, Live, vote, winner>>
  <2>1. UNCHANGED <<rules, winner, key, vote>> /\ Live' = Live
    BY <1>6 DEF CloseRound2, rows, Live
  <2> QED BY <1>6, <2>1 DEF CloseRound2, Claims, Contract!Next, Contract!Close
<1>7. ASSUME NEW r \in Requests, SetPollWinner(r)
      PROVE  Contract!Next \/ UNCHANGED <<rules, status, Live, vote, winner>>
  <2>1. /\ req[r].at = "crown" /\ status \in {"closed", "gone"} /\ winner = None /\ NoVotes
        /\ UNCHANGED <<rules, status, key, vote>> /\ Live' = Live
        /\ winner' = IF status = "gone" THEN winner ELSE req[r].pick
    BY <1>7 DEF SetPollWinner, IInv, CrownAlone, rows, Live
  <2>2. CASE status = "closed"
    <3>1. req[r].pick \in Live
      BY <2>1, <2>2, <1>fresh DEF UpToDate
    <3>2. vote = [p \in Participants |-> {}]
      BY <2>1, <1>type DEF NoVotes
    <3> QED BY <2>1, <2>2, <3>1, <3>2 DEF Contract!Next, Contract!Decide, Contract!NoBallots
  <2>3. CASE status = "gone"
    BY <2>1, <2>3
  <2> QED BY <2>1, <2>2, <2>3
<1>8. ASSUME NEW r \in Requests, SetPollWinnerIfUnset(r)
      PROVE  Contract!Next \/ UNCHANGED <<rules, status, Live, vote, winner>>
  <2>1. /\ req[r].at = "tieSet" /\ status \in {"closed", "gone"}
        /\ UNCHANGED <<rules, status, key, vote>> /\ Live' = Live
        /\ winner' = IF WinnerUnset THEN req[r].pick ELSE winner
    BY <1>8 DEF SetPollWinnerIfUnset, IInv, TieOnClosed, rows, Live
  <2>2. CASE WinnerUnset
    <3>1. status = "closed" /\ winner = None /\ winner' = req[r].pick
      BY <2>1, <2>2 DEF WinnerUnset
    <3>2. winner' \in TopVoted(Live) /\ ~Few(TopVoted(Live))
      BY <2>1, <3>1, <1>fresh DEF UpToDate
    <3>3. PICK m \in TopVoted(Live) : m # winner'
      BY <3>2 DEF Few
    <3>4. \A n : Support(n) \in Nat
      BY FiniteAssumption, FS_Subset, FS_CardinalityType DEF Support
    <3>5. Support(m) = Support(winner')
      BY <3>2, <3>3, <3>4 DEF TopVoted
    <3>6. /\ winner' \in Live /\ m \in Live
          /\ \A n \in Live : Support(n) <= Support(winner')
      BY <3>2, <3>3 DEF TopVoted
    <3> QED BY <2>1, <3>1, <3>3, <3>5, <3>6, ContractScores DEF Contract!Next, Contract!Decide
  <2>3. CASE ~WinnerUnset
    BY <2>1, <2>3
  <2> QED BY <2>2, <2>3
<1>9. CASE DeletePoll \/ PurgeExpired
  <2>1. /\ status # "gone" /\ status' = "gone" /\ winner' = None /\ UNCHANGED rules
        /\ vote' = [p \in Participants |-> {}] /\ Live' = {}
    BY <1>9 DEF DeletePoll, PurgeExpired, Vanish, Live
  <2> QED BY <2>1 DEF Contract!Next, Contract!Delete, Contract!NoBallots
<1>10. ASSUME NEW r \in Requests, Begin(r)
       PROVE  UNCHANGED <<rules, status, winner, key, vote>>
  BY <1>10 DEF Begin, BeginJoin, BeginNominate, BeginWithdraw, BeginVote,
               HostAdvance, AdminAdvance, SweepAdvance, BeginBreakTie, rows
<1>11. ASSUME NEW r \in Requests, Continue(r)
       PROVE  Contract!Next \/ UNCHANGED <<rules, status, Live, vote, winner>>
  BY <1>11, <1>1, <1>2, <1>3, <1>4, <1>5, <1>6, <1>7, <1>8, <1>same
  DEF Continue, CreateParticipant, CountNominations, AlreadyNominated, ListForVote,
      ValidateBallot, ListToAdvance, ListForTie, DrawFromTie, rows
<1>12. CASE Crash \/ Rest \/ UNCHANGED vars \/ \E r \in Requests : Abort(r)
  BY <1>12, <1>same DEF Crash, Rest, vars, Abort, rows
<1> QED BY <1>9, <1>10, <1>11, <1>12, <1>same DEF Next

\* One request at a time, with deletions, aborts and crashes in between, the poll
\* keeps its contract: nominations move in round 1 and ballots in round 2 only,
\* and the winner is a nomination, drawn among the best supported when there
\* was a vote.  PollLifecycle implements PollContract.
THEOREM LifecycleImplementsContract ==
  ASSUME OneAtATime
  PROVE  Spec => ImplementsContract
<1>1. Init => Contract!Init
  BY RulesAssumption DEF Init, Live, Rules, Contract!Init, Contract!NoBallots
<1>2. IInv /\ SInv /\ [Next]_vars => [Contract!Next]_(Contract!contract)
  <2> SUFFICES ASSUME IInv, SInv, [Next]_vars
               PROVE  Contract!Next \/ UNCHANGED <<rules.decides, status, Live, vote, winner>>
    BY DEF Contract!contract
  <2>1. UNCHANGED <<rules, status, Live, vote, winner>>
          => UNCHANGED <<rules.decides, status, Live, vote, winner>>
    OBVIOUS
  <2> QED BY <2>1, ContractStep
<1> QED BY <1>1, <1>2, SerialInvariance, Invariance, PTL
        DEF Spec, ImplementsContract, Contract!Spec

=============================================================================
