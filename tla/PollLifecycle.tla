---------------------------- MODULE PollLifecycle ----------------------------
(***************************************************************************)
(* One poll, and the HTTP handlers, the admin and the background sweepers  *)
(* that work on it (internal/poll/service.go over internal/store/store.go).*)
(*                                                                         *)
(* The store keeps one database connection (SetMaxOpenConns(1)), so a      *)
(* statement or a transaction is atomic and requests interleave only       *)
(* between them.  A request is admitted on the poll row it loaded          *)
(* (pollFromCode): the checks the service makes on that row are the guards *)
(* of the Begin... actions, since nothing is read again before the next    *)
(* statement.  req[r].at names the statement request r runs next and the   *)
(* other fields of req[r] hold what it read or was sent.                   *)
(*                                                                         *)
(* A refused request changes nothing and is left out.  The timer columns   *)
(* are the state of module PollTimers.  A ballot is the set of nominations *)
(* it supports, tallied as the approval method does.                       *)
(***************************************************************************)
EXTENDS Naturals, FiniteSets

CONSTANTS
  Participants,   \* participant ids, the host's included
  Host,           \* the participant with role "host"
  Items,          \* item keys that can be nominated (jellyfin_item_id)
  Noms,           \* ids of nomination rows; bounds how many are ever created
  Requests,       \* request slots; bounds how many handlers run at once
  None,           \* "" or NULL
  RuleSets,       \* the polls a host may create
  MaxAborts       \* bounds how often requests are cut short

\* The columns of a poll that never change after CreatePoll.
Rules == [decides : BOOLEAN,    \* voting_method is an AutoDecider (random)
          timed : BOOLEAN,      \* deadline_mode is "quick" or "scheduled"
          selfVote : BOOLEAN,   \* voting_config lets you support your own
          cap : Nat]            \* submission_rules.effectiveMax(); 0: no cap

ASSUME FiniteAssumption == IsFiniteSet(Participants) /\ IsFiniteSet(Noms)
ASSUME HostAssumption == Host \in Participants
ASSUME NoneAssumption == None \notin Participants \cup Items \cup Noms
ASSUME RulesAssumption == RuleSets \subseteq Rules
ASSUME AbortsAssumption == MaxAborts \in Nat

VARIABLES
  rules,       \* the poll's immutable columns
  status,      \* polls.status, or "gone" once the row is deleted
  winner,      \* polls.winner_nomination_id
  joined,      \* the participants that have a row
  key,         \* key[n] is the row's jellyfin_item_id, None if there is no row
  nominators,  \* nominators[n]: the nomination_nominators rows of n
  used,        \* row ids handed out so far (NewID never repeats one)
  vote,        \* vote[p]: the nominations that p's vote rows name
  req,         \* the requests in flight
  aborts       \* how many requests were cut short (bounded by MaxAborts)

rows == <<joined, key, nominators, used>>
vars == <<rules, status, winner, rows, vote, req, aborts>>

Status == {"round1", "round2", "closed", "gone"}

\* The statement a request runs next.
Points == {"idle", "join", "count", "already", "add", "withdraw",
           "listVote", "listOwn", "replace",
           "listNoms", "close1", "crown", "open", "close2",
           "tieNoms", "tieVotes", "tieSet"}

Request == [at : Points, who : Participants \cup {None}, item : Items \cup {None},
            ids : SUBSET Noms, pick : Noms \cup {None}, lenient : BOOLEAN]

Idle == [at |-> "idle", who |-> None, item |-> None,
         ids |-> {}, pick |-> None, lenient |-> FALSE]

\* CreatePoll inserts the poll and its host in one transaction.
Init ==
  /\ rules \in RuleSets
  /\ status = "round1"
  /\ winner = None
  /\ joined = {Host}
  /\ key = [n \in Noms |-> None]
  /\ nominators = [n \in Noms |-> {}]
  /\ used = {}
  /\ vote = [p \in Participants |-> {}]
  /\ req = [r \in Requests |-> Idle]
  /\ aborts = 0

-----------------------------------------------------------------------------
(* What the statements read. *)

Live == {n \in Noms : key[n] # None}

MadeBy(p) == {n \in Noms : p \in nominators[n]}

\* Faulty variant: one nomination is enough to vote on.
FewIsNone(ids) == ids = {}

Few(ids) == \A m, n \in ids : m = n

Support(n) == Cardinality({p \in Participants : n \in vote[p]})

\* rankByScore: all that share the top, strictly positive score.
TopVoted(ids) ==
  {n \in ids : Support(n) > 0 /\ \A m \in ids : Support(m) <= Support(n)}

-----------------------------------------------------------------------------
(* How a request is admitted, moves on and is answered. *)

Admit(r, fields) == req[r] = Idle /\ req' = [req EXCEPT ![r] = fields]

Goto(r, at) == req' = [req EXCEPT ![r].at = at]

Keep(r, at, ids) == req' = [req EXCEPT ![r].at = at, ![r].ids = ids]

Reply(r) == req' = [req EXCEPT ![r] = Idle]

Pending(points) == Cardinality({r \in Requests : req[r].at \in points})

\* Faulty variant: UpdatePollStatus, which compares nothing.
ClaimsBlindly(from) == status # "gone"

\* CompareAndSetStatus: the UPDATE ... WHERE status = from finds the row.
Claims(from) == status = from

-----------------------------------------------------------------------------
(* Joining. *)

BeginJoin(r) ==
  /\ status \in {"round1", "round2"}
  /\ Cardinality(joined) + Pending({"join"}) < Cardinality(Participants)
  /\ Admit(r, [Idle EXCEPT !.at = "join"])
  /\ UNCHANGED <<rules, status, winner, rows, vote, aborts>>

CreateParticipant(r) ==
  /\ req[r].at = "join"
  /\ IF status = "gone" THEN UNCHANGED joined
     ELSE \E p \in Participants \ joined : joined' = joined \cup {p}
  /\ Reply(r)
  /\ UNCHANGED <<rules, status, winner, key, nominators, used, vote, aborts>>

-----------------------------------------------------------------------------
(* Round 1: nominating and withdrawing. *)

\* SubmitNomination and SubmitWriteIn up to the first statement of
\* addNomination; the library or Seerr lookup in between takes a while and
\* writes nothing.  An uncapped poll is not counted.
BeginNominate(r) ==
  /\ status = "round1"
  /\ Cardinality(used) + Pending({"count", "already", "add"}) < Cardinality(Noms)
  /\ \E p \in joined, i \in Items :
       Admit(r, [Idle EXCEPT !.at = IF rules.cap > 0 THEN "count" ELSE "add",
                             !.who = p, !.item = i])
  /\ UNCHANGED <<rules, status, winner, rows, vote, aborts>>

\* Faulty variant: off by one.
AboveCap(p) == Cardinality(MadeBy(p)) > rules.cap

AtCap(p) == Cardinality(MadeBy(p)) >= rules.cap

CountNominations(r) ==
  /\ req[r].at = "count"
  /\ Goto(r, IF AtCap(req[r].who) THEN "already" ELSE "add")
  /\ UNCHANGED <<rules, status, winner, rows, vote, aborts>>

\* At the cap only a title that somebody has nominated goes through.
AlreadyNominated(r) ==
  /\ req[r].at = "already"
  /\ IF \E n \in Noms : key[n] = req[r].item THEN Goto(r, "add") ELSE Reply(r)
  /\ UNCHANGED <<rules, status, winner, rows, vote, aborts>>

\* One transaction: find or insert the row, then the nominator.  Without the
\* poll the foreign key refuses the insert.
AddNomination(r) ==
  /\ req[r].at = "add"
  /\ \/ /\ status = "gone"
        /\ UNCHANGED <<key, nominators, used>>
     \/ /\ status # "gone"
        /\ \E n \in Noms :
             /\ key[n] = req[r].item
             /\ nominators' = [nominators EXCEPT ![n] = @ \cup {req[r].who}]
        /\ UNCHANGED <<key, used>>
     \/ /\ status # "gone"
        /\ \A n \in Noms : key[n] # req[r].item
        /\ \E n \in Noms \ used :
             /\ key' = [key EXCEPT ![n] = req[r].item]
             /\ nominators' = [nominators EXCEPT ![n] = {req[r].who}]
             /\ used' = used \cup {n}
  /\ Reply(r)
  /\ UNCHANGED <<rules, status, winner, joined, vote, aborts>>

BeginWithdraw(r) ==
  /\ status = "round1"
  /\ \E p \in joined, n \in used :
       Admit(r, [Idle EXCEPT !.at = "withdraw", !.who = p, !.pick = n])
  /\ UNCHANGED <<rules, status, winner, rows, vote, aborts>>

\* Faulty variant: the row is left behind without nominators.
WithdrawNominatorOnly(r) ==
  /\ req[r].at = "withdraw"
  /\ nominators' = [nominators EXCEPT ![req[r].pick] = @ \ {req[r].who}]
  /\ Reply(r)
  /\ UNCHANGED <<rules, status, winner, joined, key, used, vote, aborts>>

\* One transaction: drop the nominator, then the row if none is left; the
\* row's votes go with it (ON DELETE CASCADE).
WithdrawNomination(r) ==
  LET n == req[r].pick
      left == nominators[n] \ {req[r].who}
  IN
  /\ req[r].at = "withdraw"
  /\ nominators' = [nominators EXCEPT ![n] = left]
  /\ IF left = {}
       THEN /\ key' = [key EXCEPT ![n] = None]
            /\ vote' = [p \in Participants |-> vote[p] \ {n}]
       ELSE UNCHANGED <<key, vote>>
  /\ Reply(r)
  /\ UNCHANGED <<rules, status, winner, joined, used, aborts>>

-----------------------------------------------------------------------------
(* Round 2: voting. *)

BeginVote(r) ==
  /\ status = "round2"
  /\ \E p \in joined : Admit(r, [Idle EXCEPT !.at = "listVote", !.who = p])
  /\ UNCHANGED <<rules, status, winner, rows, vote, aborts>>

\* ListNominations reads the rows first and their nominators second.
ListForVote(r) ==
  /\ req[r].at = "listVote"
  /\ Keep(r, "listOwn", Live)
  /\ UNCHANGED <<rules, status, winner, rows, vote, aborts>>

\* Faulty variant: the voter's own nominations are not looked for.
ValidateWithoutOwn(r) ==
  /\ req[r].at = "listOwn"
  /\ \E ballot \in SUBSET req[r].ids : Keep(r, "replace", ballot)
  /\ UNCHANGED <<rules, status, winner, rows, vote, aborts>>

\* ValidateBallot against what was listed; the ballot replaces the list.
ValidateBallot(r) ==
  /\ req[r].at = "listOwn"
  /\ \E ballot \in SUBSET req[r].ids :
       /\ rules.selfVote \/ ballot \cap MadeBy(req[r].who) = {}
       /\ Keep(r, "replace", ballot)
  /\ UNCHANGED <<rules, status, winner, rows, vote, aborts>>

\* Faulty variant: foreign keys are off.
ReplaceUnchecked(r) ==
  /\ req[r].at = "replace"
  /\ vote' = [vote EXCEPT ![req[r].who] = req[r].ids]
  /\ Reply(r)
  /\ UNCHANGED <<rules, status, winner, rows, aborts>>

\* One transaction: delete p's votes, insert the ballot; a row that is gone
\* fails the foreign key and rolls everything back.
ReplaceVotes(r) ==
  /\ req[r].at = "replace"
  /\ vote' = IF req[r].ids \subseteq Live
               THEN [vote EXCEPT ![req[r].who] = req[r].ids] ELSE vote
  /\ Reply(r)
  /\ UNCHANGED <<rules, status, winner, rows, aborts>>

-----------------------------------------------------------------------------
(* Advancing the poll: the host, the admin (ForceAdvance) and the timer     *)
(* sweeper share advanceCore.  A lenient caller may leave round 1 with      *)
(* fewer than two nominations.                                              *)

BeginAdvance(r, lenient) ==
  \/ /\ status = "round1"
     /\ Admit(r, [Idle EXCEPT !.at = "listNoms", !.lenient = lenient])
  \/ /\ status = "round2"
     /\ Admit(r, [Idle EXCEPT !.at = "close2"])

HostAdvance(r) ==
  /\ BeginAdvance(r, rules.timed)
  /\ UNCHANGED <<rules, status, winner, rows, vote, aborts>>

AdminAdvance(r) ==
  /\ BeginAdvance(r, TRUE)
  /\ UNCHANGED <<rules, status, winner, rows, vote, aborts>>

\* Whether the clock has run out is the business of module PollTimers.
SweepAdvance(r) ==
  /\ rules.timed
  /\ BeginAdvance(r, TRUE)
  /\ UNCHANGED <<rules, status, winner, rows, vote, aborts>>

\* What round 1 becomes, from the nominations that are listed here: nothing
\* (refused), closed with the only nomination or none, closed with a draw,
\* or round 2.
ListToAdvance(r) ==
  /\ req[r].at = "listNoms"
  /\ \/ Few(Live) /\ ~req[r].lenient /\ Reply(r)
     \/ /\ \/ Few(Live) /\ req[r].lenient
           \/ ~Few(Live) /\ rules.decides
        /\ \E n \in IF Live = {} THEN {None} ELSE Live :
             req' = [req EXCEPT ![r].at = "close1", ![r].pick = n]
     \/ ~Few(Live) /\ ~rules.decides /\ Goto(r, "open")
  /\ UNCHANGED <<rules, status, winner, rows, vote, aborts>>

CloseRound1(r) ==
  /\ req[r].at = "close1"
  /\ \/ /\ Claims("round1")
        /\ status' = "closed"
        /\ IF req[r].pick = None THEN Reply(r) ELSE Goto(r, "crown")
     \/ ~Claims("round1") /\ Reply(r) /\ UNCHANGED status
  /\ UNCHANGED <<rules, winner, rows, vote, aborts>>

\* SetPollWinner: by id alone, so it overwrites whatever is there.
SetPollWinner(r) ==
  /\ req[r].at = "crown"
  /\ winner' = IF status = "gone" THEN winner ELSE req[r].pick
  /\ Reply(r)
  /\ UNCHANGED <<rules, status, rows, vote, aborts>>

OpenRound2(r) ==
  /\ req[r].at = "open"
  /\ status' = IF Claims("round1") THEN "round2" ELSE status
  /\ Reply(r)
  /\ UNCHANGED <<rules, winner, rows, vote, aborts>>

CloseRound2(r) ==
  /\ req[r].at = "close2"
  /\ status' = IF Claims("round2") THEN "closed" ELSE status
  /\ Reply(r)
  /\ UNCHANGED <<rules, winner, rows, vote, aborts>>

-----------------------------------------------------------------------------
(* Breaking a tie. *)

BeginBreakTie(r) ==
  /\ status = "closed"
  /\ winner = None
  /\ Admit(r, [Idle EXCEPT !.at = "tieNoms"])
  /\ UNCHANGED <<rules, status, winner, rows, vote, aborts>>

ListForTie(r) ==
  /\ req[r].at = "tieNoms"
  /\ Keep(r, "tieVotes", Live)
  /\ UNCHANGED <<rules, status, winner, rows, vote, aborts>>

\* Results over the votes read now and the nominations read before.
DrawFromTie(r) ==
  /\ req[r].at = "tieVotes"
  /\ \/ Few(TopVoted(req[r].ids)) /\ Reply(r)
     \/ /\ ~Few(TopVoted(req[r].ids))
        /\ \E n \in TopVoted(req[r].ids) :
             req' = [req EXCEPT ![r].at = "tieSet", ![r].pick = n]
  /\ UNCHANGED <<rules, status, winner, rows, vote, aborts>>

\* Faulty variant: the draw overwrites like SetPollWinner does.
WinnerOverwritten == status # "gone"

\* The UPDATE ... WHERE winner_nomination_id = '' finds the row.
WinnerUnset == status # "gone" /\ winner = None

SetPollWinnerIfUnset(r) ==
  /\ req[r].at = "tieSet"
  /\ winner' = IF WinnerUnset THEN req[r].pick ELSE winner
  /\ Reply(r)
  /\ UNCHANGED <<rules, status, rows, vote, aborts>>

-----------------------------------------------------------------------------
(* Deleting, and requests that end early. *)

\* Faulty variant: a soft delete, a status the code does not know.
VanishSoftly ==
  /\ status' = "deleted"
  /\ UNCHANGED <<rules, winner, rows, vote, req, aborts>>

\* Everything that belongs to the poll goes with it (ON DELETE CASCADE).
Vanish ==
  /\ status' = "gone"
  /\ winner' = None
  /\ joined' = {}
  /\ key' = [n \in Noms |-> None]
  /\ nominators' = [n \in Noms |-> {}]
  /\ vote' = [p \in Participants |-> {}]
  /\ UNCHANGED <<rules, used, req, aborts>>

DeletePoll == status # "gone" /\ Vanish

PurgeExpired == status = "closed" /\ Vanish

\* The client went away (the request's context is cancelled) or a statement
\* failed: the handler returns from wherever it was.
Abort(r) ==
  /\ aborts < MaxAborts
  /\ req[r] # Idle
  /\ Reply(r)
  /\ aborts' = aborts + 1
  /\ UNCHANGED <<rules, status, winner, rows, vote>>

\* The process dies and comes back: only the database is left.
Crash ==
  /\ aborts < MaxAborts
  /\ req' = [r \in Requests |-> Idle]
  /\ aborts' = aborts + 1
  /\ UNCHANGED <<rules, status, winner, rows, vote>>

-----------------------------------------------------------------------------

Begin(r) ==
  \/ BeginJoin(r) \/ BeginNominate(r) \/ BeginWithdraw(r) \/ BeginVote(r)
  \/ HostAdvance(r) \/ AdminAdvance(r) \/ SweepAdvance(r) \/ BeginBreakTie(r)

\* The next statement of a request that was admitted.
Continue(r) ==
  \/ CreateParticipant(r)
  \/ CountNominations(r) \/ AlreadyNominated(r) \/ AddNomination(r)
  \/ WithdrawNomination(r)
  \/ ListForVote(r) \/ ValidateBallot(r) \/ ReplaceVotes(r)
  \/ ListToAdvance(r) \/ CloseRound1(r) \/ SetPollWinner(r)
  \/ OpenRound2(r) \/ CloseRound2(r)
  \/ ListForTie(r) \/ DrawFromTie(r) \/ SetPollWinnerIfUnset(r)

\* A poll that has ended may be left alone for good.
Rest ==
  /\ status \in {"closed", "gone"}
  /\ \A r \in Requests : req[r] = Idle
  /\ UNCHANGED vars

Next ==
  \/ \E r \in Requests : Begin(r) \/ Continue(r) \/ Abort(r)
  \/ DeletePoll \/ PurgeExpired \/ Crash \/ Rest

\* A handler that was started is a goroutine that runs to its end; nobody is
\* obliged to start one.
Fairness == \A r \in Requests : WF_vars(Continue(r))

Spec == Init /\ [][Next]_vars /\ Fairness

-----------------------------------------------------------------------------
(* Properties. *)

TypeOK ==
  /\ rules \in Rules
  /\ status \in Status
  /\ winner \in Noms \cup {None}
  /\ joined \subseteq Participants
  /\ key \in [Noms -> Items \cup {None}]
  /\ nominators \in [Noms -> SUBSET Participants]
  /\ used \subseteq Noms
  /\ vote \in [Participants -> SUBSET Noms]
  /\ req \in [Requests -> Request]
  /\ aborts \in Nat

\* No vote row names a nomination that is gone, however late a ballot or a
\* withdrawal lands (ReplaceVotes checks nothing itself; store.go's foreign
\* keys do).
VotesNameRows == \A p \in Participants : vote[p] \subseteq Live

\* A title has one row per poll, and a row stands exactly as long as somebody
\* nominates it, whatever nominations and withdrawals of it cross.
NominationsBacked ==
  /\ \A n \in Noms : key[n] # None <=> nominators[n] # {}
  /\ \A m, n \in Live : key[m] = key[n] => m = n

\* SetPollWinner overwrites blindly.  That is safe because the request that
\* is about to crown a nomination finds a closed poll with no winner and no
\* ballot, which BreakTie therefore refuses, and is the only one to do so.
CrownIsUndisputed ==
  \A r \in Requests : req[r].at = "crown" =>
    /\ status \in {"closed", "gone"}
    /\ winner = None
    /\ \A p \in Participants : vote[p] = {}
    /\ \A q \in Requests : req[q].at \in {"crown", "tieSet"} => q = r

\* The strengthening of CrownIsUndisputed that every step preserves: a request
\* has the fields its next statement uses, nothing
\* that belongs to a later phase is in flight in round 1, a tie is only broken
\* on a closed poll, and while a crowning is in flight no ballot and no drawn
\* tie is.
AfterRound1 == {"listVote", "listOwn", "replace", "close2", "crown",
                "tieNoms", "tieVotes", "tieSet"}

NoVotes == \A p \in Participants : vote[p] = {}

Round1IsFresh ==
  status = "round1" =>
    winner = None /\ NoVotes /\ \A r \in Requests : req[r].at \notin AfterRound1

WinnerOnClosed == winner # None => status = "closed"

TieOnClosed ==
  \A r \in Requests :
    req[r].at \in {"tieNoms", "tieVotes", "tieSet"} => status \in {"closed", "gone"}

FieldsSet ==
  \A r \in Requests :
    /\ req[r].at \in {"count", "already", "add"} =>
         req[r].who \in Participants /\ req[r].item \in Items
    /\ req[r].at = "withdraw" => req[r].who \in Participants
    /\ req[r].at \in {"listVote", "listOwn", "replace"} => req[r].who \in Participants
    /\ req[r].at \in {"withdraw", "crown", "tieSet"} => req[r].pick \in Noms

CrownAlone ==
  \A r \in Requests : req[r].at = "crown" =>
    /\ status \in {"closed", "gone"}
    /\ winner = None
    /\ NoVotes
    /\ \A q \in Requests :
         /\ req[q].at \notin {"listVote", "listOwn", "replace", "tieSet"}
         /\ req[q].at = "crown" => q = r

IInv == /\ TypeOK /\ FieldsSet /\ Round1IsFresh /\ WinnerOnClosed
        /\ TieOnClosed /\ CrownAlone

\* Status moves forward only and the announced winner never changes, for
\* every interleaving of the handlers (abstract specification PollDecision).
Decision == INSTANCE PollDecision
ImplementsDecision == Decision!Spec

\* With one request at a time the poll keeps the contract its types and error
\* messages state (abstract specification PollContract).
Contract == INSTANCE PollContract
  WITH Voters <- Participants, draws <- rules.decides, phase <- status,
       noms <- Live, ballots <- vote
ImplementsContract == Contract!Spec

\* With one request at a time a new row never takes a participant beyond the
\* cap: what a nomination adds to someone else's row is not bounded.
NewRowsWithinCap ==
  [][\A n \in Noms, p \in Participants :
       (key[n] = None /\ p \in nominators'[n] /\ rules.cap > 0)
         => Cardinality(MadeBy(p)) < rules.cap]_vars

\* With one request at a time nobody supports their own nomination unless the
\* poll lets them (voting.go, selfVoteLimit).
NoSelfVotes ==
  rules.selfVote \/ \A p \in Participants : vote[p] \cap MadeBy(p) = {}

\* What the repository says of the poll, and the interleaved handlers break.

\* types.go: "closed // finished; results final".  The ballots of a closed
\* poll stay as they are.
ResultsFinal == [][status = "closed" /\ status' = "closed" => vote' = vote]_vars

\* service.go: "exactly one nomination is crowned the winner", and README: the
\* draw is persisted.  Whoever closes round 1 with a pick sees it recorded.
PickIsRecorded ==
  \A r \in Requests :
    (req[r].at = "crown") ~> (winner # None \/ status = "gone")

=============================================================================
