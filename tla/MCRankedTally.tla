---------------------------- MODULE MCRankedTally ----------------------------
(* A small instance of RankedTally.  A tally does not tell voters apart, so   *)
(* that one election stands for all with the same ballots.                    *)
EXTENDS RankedTally

\* The ballot with number n: its ranks are the digits of n.
Numbered(n) ==
  LET base == MaxRanked + 1 IN
  [c \in Candidates |-> (n \div base ^ (c - 1)) % base]

\* The ballots that use the ranks from 1 on without a gap.
Kinds ==
  {n \in 0 .. (MaxRanked + 1) ^ Cardinality(Candidates) - 1 :
     LET b == Numbered(n) IN
     \A c, d \in Candidates :
       /\ b[c] > 0 /\ b[c] = b[d] => c = d
       /\ b[c] > 1 => \E e \in Candidates : b[e] = b[c] - 1}

\* Elections of n voters, no later voter with a lower ballot than an earlier.
InOrder[n \in Nat] ==
  IF n = 0 THEN {<<>>}
  ELSE {s \in {Append(r, k) : r \in InOrder[n - 1], k \in Kinds} :
          n > 1 => s[n - 1] <= s[n]}

OneOfEach == {[v \in Voters |-> Numbered(s[v])] : s \in InOrder[Cardinality(Voters)]}

=============================================================================
