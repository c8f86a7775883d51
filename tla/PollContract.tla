----------------------------- MODULE PollContract -----------------------------
(***************************************************************************)
(* What the poll promises while nobody else is in the middle of a request: *)
(* nominations move in round 1 only, ballots in round 2 only, every round  *)
(* change fits the nominations there are, and the winner is one of them,   *)
(* drawn among the best supported when there was a vote.                   *)
(***************************************************************************)
EXTENDS FiniteSets, Naturals

CONSTANTS Voters, Noms, None

VARIABLES
  draws,    \* the method draws its winner from the nominations
  phase,    \* "round1", "round2", "closed" or "gone"
  noms,     \* the nominations that stand
  ballots,  \* ballots[p]: the nominations voter p supports
  winner    \* the decided winner, or None

contract == <<draws, phase, noms, ballots, winner>>

NoBallots == [p \in Voters |-> {}]

Init ==
  /\ draws \in BOOLEAN
  /\ phase = "round1"
  /\ noms = {}
  /\ ballots = NoBallots
  /\ winner = None

Nominate ==
  /\ phase = "round1"
  /\ \E n \in Noms : noms' \in {noms \cup {n}, noms \ {n}}
  /\ UNCHANGED <<draws, phase, ballots, winner>>

\* Voting needs something to choose between.
Open ==
  /\ phase = "round1" /\ ~draws /\ Cardinality(noms) >= 2
  /\ phase' = "round2"
  /\ UNCHANGED <<draws, noms, ballots, winner>>

Vote ==
  /\ phase = "round2"
  /\ \E p \in Voters, b \in SUBSET noms : ballots' = [ballots EXCEPT ![p] = b]
  /\ UNCHANGED <<draws, phase, noms, winner>>

Close ==
  /\ \/ phase = "round1" /\ (draws \/ Cardinality(noms) < 2)
     \/ phase = "round2"
  /\ phase' = "closed"
  /\ UNCHANGED <<draws, noms, ballots, winner>>

Score(n) == Cardinality({p \in Voters : n \in ballots[p]})

\* A poll without a vote crowns a nomination, a vote that ended in a tie
\* draws from the tie.
Decide ==
  /\ phase = "closed" /\ winner = None
  /\ winner' \in noms
  /\ ballots # NoBallots =>
       /\ \A n \in noms : Score(n) <= Score(winner')
       /\ \E n \in noms \ {winner'} : Score(n) = Score(winner')
  /\ UNCHANGED <<draws, phase, noms, ballots>>

Delete ==
  /\ phase # "gone"
  /\ phase' = "gone" /\ noms' = {} /\ ballots' = NoBallots /\ winner' = None
  /\ UNCHANGED draws

Next == Nominate \/ Open \/ Vote \/ Close \/ Decide \/ Delete

Spec == Init /\ [][Next]_contract

=============================================================================
