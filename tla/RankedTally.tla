------------------------------ MODULE RankedTally ------------------------------
(***************************************************************************)
(* The instant runoff of a ranked poll (voting/ranked.go): Tally is given  *)
(* the stored ballots, goes through its rounds and ranks the candidates.   *)
(* A candidate is its id's place in the order of ids.                      *)
(***************************************************************************)
EXTENDS Naturals, SequencesExt

CONSTANTS
  Candidates,  \* the poll's nominations, as naturals
  Voters,      \* whoever has ballots stored
  MaxRanked,   \* how many candidates a ballot may rank, 0 for all (max_ranked)
  Elections    \* the ballots that a tally may be given

ASSUME CandidatesAssumption == IsFiniteSet(Candidates) /\ Candidates \subseteq Nat
ASSUME VotersAssumption == IsFiniteSet(Voters) /\ MaxRanked \in Nat

\* ValidateBallot: b[c] is the rank of c, 0 if it has none, and no two have the
\* same.
Ballots ==
  {b \in [Candidates -> Nat] :
     /\ \A c, d \in Candidates : b[c] > 0 /\ b[c] = b[d] => c = d
     /\ MaxRanked > 0 => Cardinality({c \in Candidates : b[c] > 0}) <= MaxRanked}

ASSUME ElectionsAssumption == Elections \subseteq [Voters -> Ballots]

VARIABLES
  ballot,  \* ballot[v]: what voter v has stored
  phase,   \* "counting" and "deciding" in turn, then "done"
  active,  \* the candidates not eliminated
  gone,    \* elimOrder: those eliminated, in that order
  count,   \* finalCount: a candidate's votes in the last round it took part in
  winners

vars == <<ballot, phase, active, gone, count, winners>>

Init ==
  /\ ballot \in Elections
  /\ phase = "counting"
  /\ active = Candidates
  /\ gone = <<>>
  /\ count = [c \in Candidates |-> 0]
  /\ winners = {}

-----------------------------------------------------------------------------
(* One round. *)

\* rankedOrder: the lowest rank first, and only those that have one.
Before(b, c, d) == b[c] > 0 /\ (b[d] = 0 \/ b[c] < b[d])

\* Faulty variant: the ballot goes to the candidate it likes least.
BacksLast(b, c) == c \in active /\ b[c] > 0 /\ \A d \in active \ {c} : b[d] < b[c]

\* Faulty variant: a ballot whose first choice is gone counts for nobody.
BacksFirst(b, c) == c \in active /\ b[c] > 0 /\ \A d \in Candidates \ {c} : Before(b, c, d)

\* The ballot counts for the first of its candidates that is still active.
Backs(b, c) == c \in active /\ b[c] > 0 /\ \A d \in active \ {c} : Before(b, c, d)

Backers(c) == {v \in Voters : Backs(ballot[v], c)}

CountBallots ==
  /\ phase = "counting"
  /\ phase' = "deciding"
  /\ count' = [c \in Candidates |->
       IF c \in active THEN Cardinality(Backers(c)) ELSE count[c]]
  /\ UNCHANGED <<ballot, active, gone, winners>>

\* totalActive: the ballots that count for anybody.
Counted == {v \in Voters : \E c \in active : Backs(ballot[v], c)}
Total == Cardinality(Counted)

Top == {c \in active : \A d \in active : count[c] >= count[d]}
Bottom == {c \in active : \A d \in active : count[c] <= count[d]}

Majority == Cardinality(active) = 1 \/ \E c \in active : 2 * count[c] > Total

End(elected) ==
  /\ phase = "deciding"
  /\ phase' = "done"
  /\ winners' = elected
  /\ UNCHANGED <<ballot, active, gone, count>>

\* No candidate or no vote left.
NobodyWins == Total = 0 /\ End({})

Elect == Total > 0 /\ Majority /\ End(Top)

\* Faulty variant: a tie of all that are left elects nobody.
TieElectsNobody == Total > 0 /\ ~ Majority /\ Top = Bottom /\ End({})

Tie == Total > 0 /\ ~ Majority /\ Top = Bottom /\ End(active)

Undecided == phase = "deciding" /\ Total > 0 /\ ~ Majority /\ Top # Bottom

\* Faulty variant: the loop goes on without having eliminated anybody.
EliminateNobody ==
  /\ Undecided
  /\ phase' = "counting"
  /\ UNCHANGED <<ballot, active, gone, count, winners>>

\* Faulty variant: whoever has the fewest votes goes, and all of them at once.
EliminateBottom ==
  /\ Undecided
  /\ phase' = "counting"
  /\ active' = active \ Bottom
  /\ gone' = Append(gone, Min(Bottom))
  /\ UNCHANGED <<ballot, count, winners>>

\* One candidate with the fewest votes goes, the first in the order of ids.
Eliminate ==
  /\ Undecided
  /\ phase' = "counting"
  /\ active' = active \ {Min(Bottom)}
  /\ gone' = Append(gone, Min(Bottom))
  /\ UNCHANGED <<ballot, count, winners>>

\* The results are there.
Finished == phase = "done" /\ UNCHANGED vars

Next == CountBallots \/ NobodyWins \/ Elect \/ Tie \/ Eliminate \/ Finished

\* Tally is a loop nothing interrupts.
Spec == Init /\ [][Next]_vars /\ WF_vars(CountBallots \/ NobodyWins \/ Elect \/ Tie \/ Eliminate)

-----------------------------------------------------------------------------
(* The order of the results. *)

\* byCountThenID: more votes first, then the lower id.
Better(c, d) == count[c] > count[d] \/ (count[c] = count[d] /\ c < d)

\* The members of S in that order: each has as many before it as are better.
Sorted(S) ==
  [i \in 1 .. Cardinality(S) |->
     CHOOSE c \in S : Cardinality({d \in S : Better(d, c)}) = i - 1]

\* Faulty variant: the first candidate eliminated comes before the later ones.
RankingUnreversed == Sorted(winners) \o Sorted(active \ winners) \o gone

\* orderRanked: winners, other survivors, then the last eliminated first.
Ranking == Sorted(winners) \o Sorted(active \ winners) \o Reverse(gone)

-----------------------------------------------------------------------------
(* Properties. *)

\* Every candidate is either active or in the order of elimination, once.
TypeOK ==
  /\ ballot \in [Voters -> Ballots]
  /\ phase \in {"counting", "deciding", "done"}
  /\ active \subseteq Candidates
  /\ gone \in Seq(Candidates) /\ IsInjective(gone) /\ ToSet(gone) = Candidates \ active
  /\ count \in [Candidates -> 0 .. Cardinality(Voters)]
  /\ winners \subseteq active

\* The ballots that rank anybody, and those that rank c first.
Cast == {v \in Voters : \E c \in Candidates : ballot[v][c] > 0}
FirstFor(c) ==
  {v \in Voters : /\ ballot[v][c] > 0
                  /\ \A d \in Candidates \ {c} : Before(ballot[v], c, d)}

\* Who has the first choice of more than half the ballots wins, alone.
MajorityWins ==
  phase = "done" =>
    \A c \in Candidates :
      2 * Cardinality(FirstFor(c)) > Cardinality(Cast) => winners = {c}

\* How many ballots prefer c to d, whom they rank to whom they do not.
Prefer(c, d) == Cardinality({v \in Voters : Before(ballot[v], c, d)})

\* The runoff is a comparison of pairs in the end: a sole winner is preferred by
\* more ballots to each candidate that survived beside it, and two candidates left
\* in a tie are preferred to each other by as many.
WinnersAreUnbeaten ==
  phase = "done" =>
    \A w \in winners : \A c \in active \ {w} :
      /\ winners = {w} => Prefer(w, c) > Prefer(c, w)
      /\ winners = {w, c} /\ active = {w, c} => Prefer(w, c) = Prefer(c, w)

\* The results list every candidate once, winners first, and no candidate below
\* one with fewer votes, although the votes shown are of different rounds.
BestFirst ==
  phase = "done" =>
    /\ IsInjective(Ranking) /\ ToSet(Ranking) = Candidates
    /\ ToSet(SubSeq(Ranking, 1, Cardinality(winners))) = winners
    /\ \A i \in 1 .. Len(Ranking) - 1 : count[Ranking[i]] >= count[Ranking[i + 1]]

\* Whoever is eliminated, the votes never run out: somebody wins if anybody
\* ranked a candidate.
SomebodyWins == phase = "done" => (winners = {} <=> Cast = {})

\* The loop, which has no bound, ends.
RunoffEnds == phase = "counting" ~> phase = "done"

=============================================================================
