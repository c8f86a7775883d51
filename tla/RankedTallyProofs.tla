--------------------------- MODULE RankedTallyProofs ---------------------------
(***************************************************************************)
(* Proofs about RankedTally, for any finite sets of candidates and voters, *)
(* any limit on ranks and any valid ballots.                               *)
(***************************************************************************)
EXTENDS RankedTally, FiniteSetTheorems, SequenceTheorems, TLAPS

\* The votes of those still active never fall, and once they are counted they
\* are what is shown.
CountsRise ==
  \A c \in active :
    /\ count[c] <= Cardinality(Backers(c))
    /\ phase # "counting" => count[c] = Cardinality(Backers(c))

\* Nobody who is gone had more votes than those who went later or stayed.
GoneHadFewer ==
  /\ \A i \in DOMAIN gone : \A c \in active : count[gone[i]] <= count[c]
  /\ \A i, j \in DOMAIN gone : i < j => count[gone[i]] <= count[gone[j]]

\* Somebody who is active has a vote, as long as anybody ever had one.
VotesRemain == Cast # {} => Counted # {}

\* If most ballots rank c first, the first round is the last.
FirstChoicesDecide ==
  \A c \in Candidates :
    2 * Cardinality(FirstFor(c)) > Cardinality(Cast) => gone = <<>>

\* How the loop ended.
Verdict ==
  /\ phase # "done" => winners = {}
  /\ phase = "done" =>
       \/ Total = 0 /\ winners = {}
       \/ Total > 0 /\ Majority /\ winners = Top
       \/ Total > 0 /\ ~ Majority /\ Top = Bottom /\ winners = active

\* The inductive invariant.
IInv == TypeOK /\ CountsRise /\ GoneHadFewer /\ VotesRemain /\ FirstChoicesDecide /\ Verdict

-----------------------------------------------------------------------------
(* Numbers and sets.                                                        *)

LEMMA LeastExists ==
  ASSUME NEW S \in SUBSET Nat, S # {}
  PROVE  \E x \in S : \A y \in S : x <= y
<1>1. PICK x \in S : \A y \in S : <<y, x>> \notin OpToRel(<, Nat)
  BY NatLessThanWellFounded, WFMin
<1>2. \A y \in S : ~ (y < x)
  BY <1>1 DEF OpToRel
<1> QED BY <1>2

LEMMA MinIsLeast ==
  ASSUME NEW S \in SUBSET Nat, S # {}
  PROVE  Min(S) \in S /\ \A y \in S : Min(S) <= y
BY LeastExists DEF Min

\* Sets of voters can be counted.
LEMMA VotersCount ==
  ASSUME NEW S \in SUBSET Voters
  PROVE  IsFiniteSet(S) /\ Cardinality(S) \in 0 .. Cardinality(Voters)
<1>1. IsFiniteSet(S) /\ Cardinality(S) <= Cardinality(Voters)
  BY VotersAssumption, FS_Subset
<1> QED BY <1>1, VotersAssumption, FS_CardinalityType

LEMMA MoreVoters ==
  ASSUME NEW S \in SUBSET Voters, NEW T \in SUBSET S
  PROVE  Cardinality(T) <= Cardinality(S)
BY VotersCount, FS_Subset

LEMMA NobodyCounts ==
  ASSUME NEW S \in SUBSET Voters
  PROVE  Cardinality(S) = 0 <=> S = {}
BY VotersCount, FS_EmptySet

LEMMA TwoGroups ==
  ASSUME NEW U \in SUBSET Voters, NEW S \in SUBSET U, NEW T \in SUBSET U, S \cap T = {}
  PROVE  Cardinality(S) + Cardinality(T) <= Cardinality(U)
<1>1. /\ IsFiniteSet(S) /\ IsFiniteSet(T) /\ S \cup T \in SUBSET U
      /\ Cardinality(S) \in Nat /\ Cardinality(T) \in Nat
  BY VotersCount
<1>2. Cardinality(S \cup T) = Cardinality(S) + Cardinality(T) - Cardinality(S \cap T)
  BY <1>1, FS_Union
<1>3. Cardinality(S \cap T) = 0
  BY FS_EmptySet
<1> QED BY <1>1, <1>2, <1>3, MoreVoters

-----------------------------------------------------------------------------
(* Sorting.                                                                 *)

\* By votes, then by id: any two candidates compare, and the order is transitive.
LEMMA BetterIsTotal ==
  ASSUME count \in [Candidates -> Nat], NEW c \in Candidates, NEW d \in Candidates
  PROVE  /\ ~ (Better(c, d) /\ Better(d, c))
         /\ c # d => Better(c, d) \/ Better(d, c)
         /\ \A e \in Candidates : Better(c, d) /\ Better(d, e) => Better(c, e)
BY CandidatesAssumption DEF Better

\* Sorted lists every member once, better ones first: how many are better than a
\* member is another number for each.
LEMMA SortedLists ==
  ASSUME count \in [Candidates -> Nat], NEW S \in SUBSET Candidates
  PROVE  /\ Cardinality(S) \in Nat
         /\ Sorted(S) \in [1 .. Cardinality(S) -> S]
         /\ \A c \in S : \E i \in 1 .. Cardinality(S) : Sorted(S)[i] = c
         /\ \A i, j \in 1 .. Cardinality(S) : i < j => Better(Sorted(S)[i], Sorted(S)[j])
<1> DEFINE n == Cardinality(S)
           Ahead(c) == {d \in S : Better(d, c)}
           f == [c \in S |-> Cardinality(Ahead(c)) + 1]
<1>1. IsFiniteSet(S) /\ n \in Nat
  BY CandidatesAssumption, FS_Subset, FS_CardinalityType
<1>2. ASSUME NEW c \in S PROVE /\ IsFiniteSet(Ahead(c)) /\ Cardinality(Ahead(c)) \in Nat
                               /\ Ahead(c) \subseteq S /\ c \notin Ahead(c)
  BY <1>1, BetterIsTotal, FS_Subset, FS_CardinalityType
<1>f. f = [c \in S |-> f[c]] /\ \A c \in S : f[c] = Cardinality(Ahead(c)) + 1
  OBVIOUS
<1>a. \A c, d \in S : Better(c, d) => Ahead(c) \cup {c} \in SUBSET Ahead(d)
  BY BetterIsTotal
<1> HIDE DEF f, Ahead
<1>3. ASSUME NEW c \in S PROVE f[c] \in 1 .. n
  <2>1. Ahead(c) \cup {c} \in SUBSET S
    BY <1>2
  <2>2. Cardinality(Ahead(c) \cup {c}) = Cardinality(Ahead(c)) + 1
    BY <1>2, FS_AddElement
  <2>3. Cardinality(Ahead(c) \cup {c}) <= n
    BY <1>1, <2>1, FS_Subset
  <2> QED BY <1>1, <1>2, <1>f, <2>2, <2>3
<1>4. ASSUME NEW c \in S, NEW d \in S, Better(c, d) PROVE f[c] < f[d]
  <2>1. Ahead(c) \cup {c} \in SUBSET Ahead(d)
    BY <1>4, <1>a
  <2>2. Cardinality(Ahead(c) \cup {c}) = Cardinality(Ahead(c)) + 1
    BY <1>2, FS_AddElement
  <2>3. Cardinality(Ahead(c) \cup {c}) <= Cardinality(Ahead(d))
    BY <1>2, <2>1, FS_Subset
  <2> QED BY <1>2, <1>f, <2>2, <2>3
<1>5. f \in Injection(S, 1 .. n)
  <2>1. f \in [S -> 1 .. n]
    BY <1>3, <1>f
  <2>2. ASSUME NEW c \in S, NEW d \in S, f[c] = f[d] PROVE c = d
    <3>1. f[c] \in Nat /\ c \in Candidates /\ d \in Candidates
      BY <1>1, <1>3
    <3> QED BY <1>4, <2>2, <3>1, BetterIsTotal
  <2> QED BY <2>1, <2>2 DEF Injection, IsInjective
<1>6. f \in Surjection(S, 1 .. n)
  <2>1. IsFiniteSet(1 .. n) /\ Cardinality(1 .. n) = n
    BY <1>1, FS_Interval
  <2> QED BY <1>5, <2>1, FS_Injection
<1>7. ASSUME NEW i \in 1 .. n PROVE Sorted(S)[i] \in S /\ f[Sorted(S)[i]] = i
  <2>1. PICK c \in S : f[c] = i
    BY <1>6 DEF Surjection
  <2>2. \E d \in S : Cardinality(Ahead(d)) = i - 1
    BY <1>2, <1>f, <2>1
  <2>3. Sorted(S)[i] = CHOOSE d \in S : Cardinality(Ahead(d)) = i - 1
    BY DEF Sorted, Ahead
  <2>4. Sorted(S)[i] \in S /\ Cardinality(Ahead(Sorted(S)[i])) = i - 1
    BY <2>2, <2>3
  <2> QED BY <1>f, <2>4
<1>8. Sorted(S) \in [1 .. n -> S]
  BY <1>7 DEF Sorted
<1>9. ASSUME NEW c \in S PROVE \E i \in 1 .. n : Sorted(S)[i] = c
  BY <1>3, <1>5, <1>7 DEF Injection, IsInjective
<1>10. ASSUME NEW i \in 1 .. n, NEW j \in 1 .. n, i < j
       PROVE  Better(Sorted(S)[i], Sorted(S)[j])
  <2>1. Sorted(S)[i] # Sorted(S)[j] /\ ~ Better(Sorted(S)[j], Sorted(S)[i])
    <3>1. /\ Sorted(S)[i] \in S /\ f[Sorted(S)[i]] = i
          /\ Sorted(S)[j] \in S /\ f[Sorted(S)[j]] = j
      BY <1>7
    <3>2. i \in Nat /\ j \in Nat /\ ~ (j < i)
      BY <1>1, <1>10
    <3> QED BY <1>4, <1>10, <3>1, <3>2
  <2> QED BY <1>7, <2>1, BetterIsTotal
<1> QED BY <1>1, <1>8, <1>9, <1>10

-----------------------------------------------------------------------------
(* What a round counts.                                                     *)

\* A ballot counts for one candidate, and does so if it ranks one who is active.
LEMMA OneChoice ==
  ASSUME TypeOK, NEW v \in Voters
  PROVE  /\ \A c, d \in active : Backs(ballot[v], c) /\ Backs(ballot[v], d) => c = d
         /\ \A c \in active : ballot[v][c] > 0 => v \in Counted
<1>b. ballot[v] \in [Candidates -> Nat]
  BY DEF TypeOK, Ballots
<1>d. \A c, d \in Candidates : ballot[v][c] > 0 /\ ballot[v][c] = ballot[v][d] => c = d
  BY DEF TypeOK, Ballots
<1>1. \A c, d \in active : Backs(ballot[v], c) /\ Backs(ballot[v], d) => c = d
  BY <1>b DEF TypeOK, Backs, Before
<1>2. ASSUME NEW c \in active, ballot[v][c] > 0 PROVE v \in Counted
  <2> DEFINE R == {ballot[v][d] : d \in {d \in active : ballot[v][d] > 0}}
  <2>1. R \in SUBSET Nat /\ R # {}
    <3>1. \A d \in active : ballot[v][d] \in Nat
      BY <1>b DEF TypeOK
    <3>2. ballot[v][c] \in R
      BY <1>2
    <3> QED BY <3>1, <3>2
  <2>2. PICK r \in R : \A q \in R : r <= q
    BY <2>1, LeastExists
  <2>3. PICK d \in active : ballot[v][d] > 0 /\ r = ballot[v][d]
    BY <2>2
  <2>4. ASSUME NEW e \in active \ {d} PROVE Before(ballot[v], d, e)
    <3>1. ballot[v][e] \in Nat /\ ballot[v][d] \in Nat /\ ballot[v][e] # ballot[v][d]
      BY <1>b, <1>d, <2>3 DEF TypeOK
    <3>2. ballot[v][e] > 0 => ballot[v][d] <= ballot[v][e]
      BY <2>2, <2>3
    <3> QED BY <2>3, <3>1, <3>2 DEF Before
  <2> QED BY <2>3, <2>4 DEF Counted, Backs
<1> QED BY <1>1, <1>2

\* The groups of voters, and what they have to do with each other.
LEMMA Groups ==
  ASSUME TypeOK
  PROVE  /\ Counted \in SUBSET Cast /\ Cast \in SUBSET Voters
         /\ Total \in 0 .. Cardinality(Voters) /\ (Total = 0 <=> Counted = {})
         /\ \A c \in active :
              /\ Backers(c) \in SUBSET Counted
              /\ Cardinality(Backers(c)) \in 0 .. Cardinality(Voters)
              /\ Cardinality(Backers(c)) <= Total
         /\ \A c, d \in active :
              c # d => Cardinality(Backers(c)) + Cardinality(Backers(d)) <= Total
         /\ Counted # {} => \E c \in active : Backers(c) # {}
<1>1. Counted \in SUBSET Cast /\ Cast \in SUBSET Voters
  BY DEF Counted, Cast, Backs, TypeOK
<1>2. \A c \in active : Backers(c) \in SUBSET Counted
  BY DEF Backers, Counted
<1>3. \A c, d \in active : c # d => Backers(c) \cap Backers(d) = {}
  BY OneChoice DEF Backers
<1>4. Counted # {} => \E c \in active : Backers(c) # {}
  BY DEF Counted, Backers
<1>5. Total \in 0 .. Cardinality(Voters) /\ (Total = 0 <=> Counted = {})
  BY <1>1, VotersCount, NobodyCounts DEF Total
<1>6. \A c \in active : /\ Cardinality(Backers(c)) \in 0 .. Cardinality(Voters)
                        /\ Cardinality(Backers(c)) <= Total
  BY <1>1, <1>2, VotersCount, MoreVoters DEF Total
<1>7. ASSUME NEW c \in active, NEW d \in active, c # d
      PROVE  Cardinality(Backers(c)) + Cardinality(Backers(d)) <= Total
  BY <1>1, <1>2, <1>3, <1>7, TwoGroups DEF Total
<1> QED BY <1>1, <1>2, <1>4, <1>5, <1>6, <1>7

\* Whose first choice is somebody active backs them.
LEMMA FirstChoicesBack ==
  ASSUME TypeOK, NEW c \in active
  PROVE  /\ FirstFor(c) \in SUBSET Backers(c)
         /\ FirstFor(c) \in SUBSET Voters
         /\ Cardinality(FirstFor(c)) \in Nat /\ Cardinality(Cast) \in Nat
         /\ Cardinality(FirstFor(c)) <= Cardinality(Backers(c))
         /\ Total <= Cardinality(Cast)
<1>1. FirstFor(c) \in SUBSET Backers(c) /\ Backers(c) \in SUBSET Voters
  BY DEF FirstFor, Backers, Backs, TypeOK
<1>2. Cardinality(FirstFor(c)) <= Cardinality(Backers(c))
  BY <1>1, MoreVoters
<1>3. Total <= Cardinality(Cast)
  BY Groups, MoreVoters DEF Total
<1>4. Cardinality(FirstFor(c)) \in Nat /\ Cardinality(Cast) \in Nat
  BY <1>1, VotersCount, Groups
<1> QED BY <1>1, <1>2, <1>3, <1>4

\* While the loop goes on, the candidate to leave exists, has the fewest votes, and
\* leaves somebody with more behind.
LEMMA LowestFound ==
  ASSUME TypeOK, Undecided
  PROVE  /\ Min(Bottom) \in active
         /\ \A c \in active : count[Min(Bottom)] <= count[c]
         /\ \E c \in active \ {Min(Bottom)} : count[c] > 0
<1>c. \A c \in active : c \in Nat /\ count[c] \in Nat
  BY CandidatesAssumption DEF TypeOK
<1>1. active # {}
  BY Groups DEF Undecided, Counted
<1>2. PICK e \in active : \A d \in active : count[e] <= count[d]
  <2> DEFINE R == {count[d] : d \in active}
  <2>1. R \in SUBSET Nat /\ R # {}
    BY <1>c, <1>1
  <2>2. PICK r \in R : \A q \in R : r <= q
    BY <2>1, LeastExists
  <2> QED BY <2>2
<1>3. Bottom \in SUBSET Nat /\ Bottom # {}
  BY <1>c, <1>2 DEF Bottom
<1>4. Min(Bottom) \in Bottom
  BY <1>3, MinIsLeast
<1>5. Min(Bottom) \in active /\ \A c \in active : count[Min(Bottom)] <= count[c]
  BY <1>4 DEF Bottom
<1>6. \E c \in active \ {Min(Bottom)} : count[c] > 0
  <2>1. SUFFICES ASSUME \A c \in active \ {Min(Bottom)} : count[c] = 0 PROVE Top = Bottom
    BY <1>c DEF Undecided
  <2>2. PICK c \in active : c # Min(Bottom)
    <3>1. SUFFICES ASSUME active = {Min(Bottom)} PROVE FALSE
      BY <1>5
    <3>2. Cardinality(active) = 1
      BY <3>1, FS_Singleton
    <3> QED BY <3>2 DEF Undecided, Majority
  <2>3. count[Min(Bottom)] = 0
    BY <1>c, <1>5, <2>1, <2>2
  <2>4. \A d \in active : count[d] = 0
    BY <2>1, <2>3
  <2> QED BY <2>4 DEF Top, Bottom
<1> QED BY <1>5, <1>6

-----------------------------------------------------------------------------
(* The steps.                                                               *)

LEMMA Start == Init => IInv
<1> SUFFICES ASSUME Init PROVE IInv
  OBVIOUS
<1>1. TypeOK
  <2>1. 0 \in 0 .. Cardinality(Voters)
    BY VotersAssumption, FS_CardinalityType
  <2> QED BY <2>1, ElectionsAssumption DEF Init, TypeOK, IsInjective, ToSet
<1>2. CountsRise
  BY <1>1, Groups DEF Init, CountsRise, TypeOK
<1>3. VotesRemain
  BY <1>1, OneChoice DEF Init, VotesRemain, Cast
<1> QED BY <1>1, <1>2, <1>3 DEF Init, IInv, GoneHadFewer, FirstChoicesDecide, Verdict

\* A round is counted.
LEMMA CountStep ==
  ASSUME IInv, CountBallots
  PROVE  IInv'
<1> USE DEF IInv
<1>0. /\ UNCHANGED <<ballot, active, gone, winners>> /\ phase = "counting"
      /\ phase' = "deciding"
      /\ \A c \in Candidates :
           count'[c] = IF c \in active THEN Cardinality(Backers(c)) ELSE count[c]
  BY DEF CountBallots
<1>1. \A c \in active : count'[c] = Cardinality(Backers(c)) /\ count'[c] >= count[c]
  BY <1>0 DEF TypeOK, CountsRise
<1>2. TypeOK'
  <2>1. count' \in [Candidates -> 0 .. Cardinality(Voters)]
    BY Groups DEF TypeOK, CountBallots
  <2> QED BY <1>0, <2>1 DEF TypeOK
<1>3. CountsRise'
  <2>1. \A c : Backers(c)' = Backers(c)
    BY <1>0 DEF Backers, Backs
  <2>2. \A c \in active : Cardinality(Backers(c)) \in Nat
    BY Groups
  <2> QED BY <1>0, <1>1, <2>1, <2>2 DEF CountsRise
<1>4. GoneHadFewer'
  <2>1. \A i \in DOMAIN gone : gone[i] \in Candidates \ active
    BY DEF TypeOK, ToSet
  <2>2. \A i \in DOMAIN gone : count'[gone[i]] = count[gone[i]] /\ count[gone[i]] \in Nat
    BY <1>0, <2>1 DEF TypeOK
  <2>3. \A c \in active : count[c] \in Nat /\ count'[c] \in Nat
    BY <1>1, Groups DEF TypeOK
  <2> QED BY <1>0, <1>1, <2>2, <2>3 DEF GoneHadFewer
<1>5. VotesRemain' /\ FirstChoicesDecide'
  BY <1>0 DEF VotesRemain, FirstChoicesDecide, Cast, Counted, Backs, FirstFor
<1>6. Verdict'
  BY <1>0 DEF Verdict
<1> QED BY <1>2, <1>3, <1>4, <1>5, <1>6

\* The loop ends.
LEMMA EndStep ==
  ASSUME IInv, NobodyWins \/ Elect \/ Tie
  PROVE  IInv'
<1> USE DEF IInv
<1>0. /\ UNCHANGED <<ballot, active, gone, count>> /\ phase = "deciding" /\ phase' = "done"
      /\ \/ Total = 0 /\ winners' = {}
         \/ Total > 0 /\ Majority /\ winners' = Top
         \/ Total > 0 /\ ~ Majority /\ Top = Bottom /\ winners' = active
  BY DEF NobodyWins, Elect, Tie, End
<1>1. winners' \subseteq active
  BY <1>0 DEF Top
<1>2. TypeOK'
  BY <1>0, <1>1 DEF TypeOK
<1>3. CountsRise' /\ GoneHadFewer' /\ VotesRemain' /\ FirstChoicesDecide'
  BY <1>0 DEF CountsRise, GoneHadFewer, VotesRemain, FirstChoicesDecide, Backers, Counted,
              Cast, FirstFor, Backs
<1>4. Verdict'
  <2>1. Counted' = Counted /\ Top' = Top /\ Bottom' = Bottom
    BY <1>0 DEF Counted, Backs, Top, Bottom
  <2>2. Total' = Total /\ Majority' = Majority
    BY <1>0, <2>1 DEF Total, Majority
  <2> QED BY <1>0, <2>1, <2>2 DEF Verdict
<1> QED BY <1>2, <1>3, <1>4

\* Somebody leaves.  It had the fewest votes, and all that backed others still do.
LEMMA EliminateStep ==
  ASSUME IInv, Eliminate
  PROVE  IInv' /\ Cardinality(active') < Cardinality(active)
<1> USE DEF IInv
<1> DEFINE m == Min(Bottom)
<1>0. /\ UNCHANGED <<ballot, count, winners>> /\ phase = "deciding" /\ phase' = "counting"
      /\ active' = active \ {m} /\ gone' = Append(gone, m) /\ Undecided
  BY DEF Eliminate, Undecided
<1>1. /\ m \in active /\ m \in Candidates /\ active \subseteq Candidates
      /\ \A c \in active : count[m] <= count[c]
      /\ \E c \in active \ {m} : count[c] > 0
  BY <1>0, LowestFound DEF TypeOK
<1> HIDE DEF m
<1>g. /\ gone \in Seq(Candidates) /\ gone' \in Seq(Candidates)
      /\ Len(gone) \in Nat /\ Len(gone') = Len(gone) + 1 /\ gone'[Len(gone) + 1] = m
      /\ DOMAIN gone = 1 .. Len(gone) /\ DOMAIN gone' = 1 .. Len(gone) + 1
      /\ \A i \in 1 .. Len(gone) : gone'[i] = gone[i] /\ gone[i] \in Candidates \ active
  BY <1>0, <1>1 DEF TypeOK, ToSet
<1>2. TypeOK'
  <2>1. IsInjective(gone')
    <3>1. \A i, j \in 1 .. Len(gone) : gone[i] = gone[j] => i = j
      BY <1>g DEF TypeOK, IsInjective
    <3>2. \A i \in 1 .. Len(gone) : gone[i] # m
      BY <1>1, <1>g
    <3>3. ASSUME NEW i \in 1 .. Len(gone) + 1, NEW j \in 1 .. Len(gone) + 1,
                 gone'[i] = gone'[j]
          PROVE  i = j
      BY <1>g, <3>1, <3>2, <3>3
    <3> QED BY <1>g, <3>3 DEF IsInjective
  <2>2. ToSet(gone') = Candidates \ active'
    <3>1. ToSet(gone') = ToSet(gone) \cup {m}
      BY <1>g DEF ToSet
    <3> QED BY <1>0, <1>1, <3>1 DEF TypeOK
  <2>3. winners' = {}
    BY <1>0 DEF Verdict
  <2> QED BY <1>0, <1>g, <2>1, <2>2, <2>3 DEF TypeOK
<1>3. \A c \in active' : Backers(c) \in SUBSET Backers(c)' /\ Backers(c)' \in SUBSET Voters
  BY <1>0 DEF Backers, Backs
<1>4. CountsRise'
  <2>1. ASSUME NEW c \in active' PROVE count[c] <= Cardinality(Backers(c)')
    <3>1. Cardinality(Backers(c)) <= Cardinality(Backers(c)')
      BY <1>3, MoreVoters
    <3>2. count[c] = Cardinality(Backers(c)) /\ count[c] \in Nat
      BY <1>0 DEF CountsRise, TypeOK
    <3>3. Cardinality(Backers(c)') \in Nat
      BY <1>3, VotersCount
    <3> QED BY <3>1, <3>2, <3>3
  <2> QED BY <1>0, <2>1 DEF CountsRise
<1>5. GoneHadFewer'
  <2>1. \A i \in 1 .. Len(gone) : \A c \in active : count[gone[i]] <= count[c]
    BY <1>g DEF GoneHadFewer
  <2>2. \A i, j \in 1 .. Len(gone) : i < j => count[gone[i]] <= count[gone[j]]
    BY <1>g DEF GoneHadFewer
  <2>3. ASSUME NEW i \in 1 .. Len(gone) + 1, NEW c \in active'
        PROVE  count[gone'[i]] <= count[c]
    BY <1>0, <1>1, <1>g, <2>1
  <2>4. ASSUME NEW i \in 1 .. Len(gone) + 1, NEW j \in 1 .. Len(gone) + 1, i < j
        PROVE  count[gone'[i]] <= count[gone'[j]]
    BY <1>1, <1>g, <2>1, <2>2, <2>4
  <2> QED BY <1>0, <1>g, <2>3, <2>4 DEF GoneHadFewer
<1>6. VotesRemain'
  <2>1. PICK c \in active' : count[c] > 0
    BY <1>0, <1>1
  <2>2. Cardinality(Backers(c)) > 0
    BY <1>0, <2>1 DEF CountsRise
  <2>3. Backers(c) # {}
    BY <2>2, FS_EmptySet
  <2>4. Backers(c)' # {}
    BY <1>3, <2>3
  <2> QED BY <2>4 DEF VotesRemain, Counted, Backers
<1>7. FirstChoicesDecide'
  <2>1. SUFFICES ASSUME NEW c \in Candidates,
                        2 * Cardinality(FirstFor(c)) > Cardinality(Cast)
                 PROVE  FALSE
    BY <1>0 DEF FirstChoicesDecide, FirstFor, Cast
  <2>2. c \in active
    BY <2>1 DEF FirstChoicesDecide, TypeOK, ToSet
  <2>3. count[c] = Cardinality(Backers(c))
    BY <1>0, <2>2 DEF CountsRise
  <2>4. 2 * count[c] > Total
    BY <2>1, <2>2, <2>3, FirstChoicesBack, Groups
  <2> QED BY <1>0, <2>2, <2>4 DEF Undecided, Majority
<1>8. Verdict'
  BY <1>0 DEF Verdict
<1>9. Cardinality(active') < Cardinality(active)
  <2>1. IsFiniteSet(active) /\ Cardinality(active) \in Nat
    BY <1>1, CandidatesAssumption, FS_Subset, FS_CardinalityType
  <2>2. Cardinality(active') = Cardinality(active) - 1
    BY <1>0, <1>1, <2>1, FS_RemoveElement
  <2> QED BY <2>1, <2>2
<1> QED BY <1>2, <1>4, <1>5, <1>6, <1>7, <1>8, <1>9

LEMMA Stutter == IInv /\ UNCHANGED vars => IInv'
<1> SUFFICES ASSUME IInv, UNCHANGED vars PROVE IInv'
  OBVIOUS
<1> USE DEF vars
<1>1. /\ Counted' = Counted /\ Cast' = Cast /\ Top' = Top /\ Bottom' = Bottom
      /\ \A c : Backers(c)' = Backers(c) /\ FirstFor(c)' = FirstFor(c)
  BY DEF Counted, Cast, Top, Bottom, Backers, FirstFor, Backs
<1>2. Total' = Total /\ Majority' = Majority
  BY <1>1 DEF Total, Majority
<1>3. TypeOK' /\ GoneHadFewer' /\ Verdict'
  BY <1>1, <1>2 DEF IInv, TypeOK, GoneHadFewer, Verdict
<1>4. CountsRise' /\ VotesRemain' /\ FirstChoicesDecide'
  BY <1>1 DEF IInv, CountsRise, VotesRemain, FirstChoicesDecide
<1> QED BY <1>3, <1>4 DEF IInv

LEMMA Invariance == Spec => []IInv
<1>1. IInv /\ [Next]_vars => IInv'
  BY CountStep, EndStep, EliminateStep, Stutter DEF Next, Finished
<1> QED BY <1>1, Start, PTL DEF Spec

-----------------------------------------------------------------------------
(* Theorems.                                                                *)

\* A candidate is active or was eliminated, once, and never both (Tally).
THEOREM RunoffTypeCorrect == Spec => []TypeOK
<1>1. IInv => TypeOK
  BY DEF IInv
<1> QED BY <1>1, Invariance, PTL

\* The first choice of more than half the ballots is elected, alone, however many
\* candidates and voters there are (Tally).
THEOREM MajoritiesWin == Spec => []MajorityWins
<1>1. IInv => MajorityWins
  <2> SUFFICES ASSUME IInv, phase = "done", NEW c \in Candidates,
                      2 * Cardinality(FirstFor(c)) > Cardinality(Cast)
               PROVE  winners = {c}
    BY DEF MajorityWins
  <2> USE DEF IInv
  <2>1. c \in active
    BY DEF FirstChoicesDecide, TypeOK, ToSet
  <2>2. \A d \in active : count[d] = Cardinality(Backers(d)) /\ count[d] \in Nat
    BY Groups DEF CountsRise, TypeOK
  <2>3. 2 * count[c] > Total /\ Total \in Nat
    BY <2>1, <2>2, FirstChoicesBack, Groups
  <2>4. \A d \in active \ {c} : count[d] + count[c] <= Total
    BY <2>1, <2>2, Groups
  <2>5. \A d \in active \ {c} : count[d] < count[c]
    BY <2>1, <2>2, <2>3, <2>4
  <2>6. Top = {c}
    BY <2>1, <2>2, <2>5 DEF Top
  <2>7. Total > 0
    <3>1. count[c] <= Total /\ count[c] \in Nat
      BY <2>1, <2>2, Groups
    <3> QED BY <2>3, <3>1
  <2>8. Majority
    BY <2>1, <2>3 DEF Majority
  <2> QED BY <2>6, <2>7, <2>8, <2>3 DEF Verdict
<1> QED BY <1>1, Invariance, PTL

\* A sole winner beats every other survivor pairwise, and two left in a tie are
\* even: the ballots that were transferred are those that prefer it (Tally).
THEOREM SurvivorsDoNotBeat == Spec => []WinnersAreUnbeaten
<1>1. IInv => WinnersAreUnbeaten
  <2> SUFFICES ASSUME IInv, phase = "done", NEW w \in winners, NEW c \in active \ {w}
               PROVE  /\ winners = {w} => Prefer(w, c) > Prefer(c, w)
                      /\ winners = {w, c} /\ active = {w, c} => Prefer(w, c) = Prefer(c, w)
    BY DEF WinnersAreUnbeaten
  <2> USE DEF IInv
  <2> DEFINE For(a, b) == {v \in Voters : Before(ballot[v], a, b)}
  <2>a. w \in active /\ c \in active /\ w # c
    BY DEF TypeOK
  <2>b. \A d \in active : count[d] = Cardinality(Backers(d)) /\ count[d] \in Nat
    BY Groups DEF CountsRise, TypeOK
  <2>1. ASSUME NEW a \in active, NEW b \in active, a # b
        PROVE  /\ Backers(a) \in SUBSET For(a, b) /\ For(a, b) \in SUBSET Counted
               /\ Backers(a) \cap For(b, a) = {}
               /\ For(a, b) \in SUBSET Voters /\ Prefer(a, b) = Cardinality(For(a, b))
    <3>1. \A v \in Voters : ballot[v][a] \in Nat /\ ballot[v][b] \in Nat
      BY <2>1 DEF TypeOK, Ballots
    <3>2. Backers(a) \in SUBSET For(a, b)
      BY <2>1 DEF Backers, Backs
    <3>3. For(a, b) \in SUBSET Counted
      BY <2>1, OneChoice DEF Before
    <3>4. Backers(a) \cap For(b, a) = {}
      BY <2>1, <3>1 DEF Backers, Backs, Before
    <3> QED BY <3>2, <3>3, <3>4 DEF Prefer
  <2> HIDE DEF For
  <2>2. /\ Prefer(w, c) \in Nat /\ Prefer(c, w) \in Nat /\ Total \in Nat
        /\ count[w] <= Prefer(w, c)
        /\ count[w] + Prefer(c, w) <= Total
    <3>1. Prefer(w, c) \in Nat /\ Prefer(c, w) \in Nat /\ Total \in Nat
      BY <2>a, <2>1, VotersCount, Groups
    <3>2. count[w] <= Prefer(w, c)
      BY <2>a, <2>b, <2>1, MoreVoters
    <3>3. /\ Counted \in SUBSET Voters /\ Backers(w) \in SUBSET Counted
          /\ For(c, w) \in SUBSET Counted /\ Backers(w) \cap For(c, w) = {}
      BY <2>a, <2>1, Groups
    <3>4. Cardinality(Backers(w)) + Cardinality(For(c, w)) <= Total
      BY <3>3, TwoGroups DEF Total
    <3> QED BY <2>a, <2>b, <2>1, <3>1, <3>2, <3>4
  <2>3. ASSUME winners = {w} PROVE Prefer(w, c) > Prefer(c, w)
    <3>1. Majority /\ winners = Top
      BY <2>a, <2>3 DEF Verdict
    <3>2. Cardinality(active) # 1
      <4>1. IsFiniteSet(active)
        BY CandidatesAssumption, FS_Subset DEF TypeOK
      <4> QED BY <2>a, <4>1, FS_Singleton
    <3>3. PICK d \in active : 2 * count[d] > Total
      BY <3>1, <3>2 DEF Majority
    <3>4. count[w] >= count[d]
      BY <2>3, <3>1 DEF Top
    <3>5. 2 * count[w] > Total
      BY <2>a, <2>b, <2>2, <3>3, <3>4
    <3> QED BY <2>a, <2>b, <2>2, <3>5
  <2>4. ASSUME winners = {w, c}, active = {w, c} PROVE Prefer(w, c) = Prefer(c, w)
    <3>1. For(w, c) = Backers(w) /\ For(c, w) = Backers(c)
      <4>1. \A v \in Voters : Before(ballot[v], w, c) => Backs(ballot[v], w)
        BY <2>4 DEF Backs, Before
      <4>2. \A v \in Voters : Before(ballot[v], c, w) => Backs(ballot[v], c)
        BY <2>4 DEF Backs, Before
      <4> QED BY <2>a, <2>1, <4>1, <4>2 DEF For, Backers
    <3>2. count[w] = count[c]
      <4>1. count[w] \in Nat /\ count[c] \in Nat
        BY <2>a, <2>b
      <4>2. CASE winners = Top
        <5>1. w \in Top /\ c \in Top
          BY <2>4, <4>2
        <5> QED BY <2>a, <4>1, <5>1 DEF Top
      <4>3. CASE Top = Bottom
        <5>1. count[w] >= count[c] => w \in Top
          BY <2>4, <4>1 DEF Top
        <5>2. count[c] >= count[w] => c \in Top
          BY <2>4, <4>1 DEF Top
        <5> QED BY <2>a, <4>1, <4>3, <5>1, <5>2 DEF Bottom
      <4> QED BY <2>4, <4>2, <4>3 DEF Verdict
    <3> QED BY <2>a, <2>b, <2>1, <3>1, <3>2
  <2> QED BY <2>3, <2>4
<1> QED BY <1>1, Invariance, PTL

\* A tally ends without a winner only if nobody ranked anybody (Tally).
THEOREM SomebodyIsElected == Spec => []SomebodyWins
<1>1. IInv => SomebodyWins
  <2> SUFFICES ASSUME IInv, phase = "done" PROVE winners = {} <=> Cast = {}
    BY DEF SomebodyWins
  <2> USE DEF IInv
  <2>1. Total = 0 <=> Cast = {}
    BY Groups DEF VotesRemain
  <2>2. \A d \in active : count[d] = Cardinality(Backers(d)) /\ count[d] \in Nat
    BY Groups DEF CountsRise, TypeOK
  <2>3. ASSUME Total > 0 PROVE winners # {}
    <3>1. active # {}
      BY <2>3, Groups DEF Counted
    <3>2. CASE winners = active
      BY <3>1, <3>2
    <3>3. CASE Majority /\ winners = Top
      <4>1. CASE Cardinality(active) = 1
        <5>1. IsFiniteSet(active)
          BY CandidatesAssumption, FS_Subset DEF TypeOK
        <5>2. PICK c : active = {c}
          BY <4>1, <5>1, FS_Singleton
        <5> QED BY <2>2, <3>3, <5>2 DEF Top
      <4>2. ASSUME NEW c \in active, 2 * count[c] > Total PROVE c \in Top
        <5>1. \A d \in active \ {c} : count[c] + count[d] <= Total /\ Total \in Nat
          BY <2>2, Groups
        <5>2. \A d \in active : count[c] >= count[d]
          BY <2>2, <4>2, <5>1
        <5> QED BY <5>2 DEF Top
      <4> QED BY <3>3, <4>1, <4>2 DEF Majority
    <3> QED BY <2>3, <3>2, <3>3 DEF Verdict
  <2>4. Total \in Nat
    BY Groups
  <2> QED BY <2>1, <2>3, <2>4 DEF Verdict
<1> QED BY <1>1, Invariance, PTL

\* Every pass of the loop that does not end it leaves a candidate less.  So the
\* loop, which has no bound of its own, makes no more passes than there are
\* candidates (Tally).
LoopShrinks ==
  [][phase = "deciding" /\ phase' # phase
       => phase' = "done" \/ Cardinality(active') < Cardinality(active)]_vars

THEOREM PassesShrink == Spec => LoopShrinks
<1>1. IInv /\ [Next]_vars =>
        [phase = "deciding" /\ phase' # phase
           => phase' = "done" \/ Cardinality(active') < Cardinality(active)]_vars
  BY EliminateStep DEF Next, CountBallots, NobodyWins, Elect, Tie, End, Finished, vars
<1> QED BY <1>1, Invariance, PTL DEF Spec, LoopShrinks

\* Where the best are the worst, all have as many votes.
LEMMA AllTied ==
  ASSUME TypeOK, Top = Bottom, NEW c \in active, NEW d \in active
  PROVE  count[c] >= count[d]
<1>c. \A e \in active : e \in Candidates /\ count[e] \in Nat
  BY DEF TypeOK
<1>1. PICK e \in active : \A f \in active : count[e] <= count[f]
  <2> DEFINE N == {count[f] : f \in active}
  <2>1. N \in SUBSET Nat /\ N # {}
    BY <1>c
  <2>2. PICK n \in N : \A m \in N : n <= m
    BY <2>1, LeastExists
  <2> QED BY <2>2
<1>2. e \in Top
  BY <1>1 DEF Bottom
<1> QED BY <1>c, <1>1, <1>2 DEF Top

\* What the parts of the ranking are.
LEMMA RankingParts ==
  ASSUME TypeOK
  PROVE  LET p == Cardinality(winners)
             q == Cardinality(active \ winners)
             r == Len(gone)
         IN  /\ p \in Nat /\ q \in Nat /\ r \in Nat
             /\ Ranking \in Seq(Candidates) /\ Len(Ranking) = p + q + r
             /\ \A i \in 1 .. p : Ranking[i] = Sorted(winners)[i]
             /\ \A i \in 1 .. q : Ranking[p + i] = Sorted(active \ winners)[i]
             /\ \A i \in 1 .. r : Ranking[p + q + i] = gone[r - i + 1]
<1> DEFINE p == Cardinality(winners)
           q == Cardinality(active \ winners)
           r == Len(gone)
           W == Sorted(winners)
           A == Sorted(active \ winners)
           G == Reverse(gone)
<1>c. count \in [Candidates -> Nat] /\ winners \in SUBSET Candidates
      /\ active \ winners \in SUBSET Candidates
  BY DEF TypeOK
<1>1. p \in Nat /\ W \in Seq(Candidates) /\ Len(W) = p
  <2>1. p \in Nat /\ W \in [1 .. p -> winners]
    BY <1>c, SortedLists
  <2> QED BY <1>c, <2>1
<1>2. q \in Nat /\ A \in Seq(Candidates) /\ Len(A) = q
  <2>1. q \in Nat /\ A \in [1 .. q -> active \ winners]
    BY <1>c, SortedLists
  <2>2. A \in [1 .. q -> Candidates]
    BY <1>c, <2>1
  <2> HIDE DEF A, q
  <2> QED BY <2>1, <2>2
<1>3. r \in Nat /\ G \in Seq(Candidates) /\ Len(G) = r /\ \A i \in 1 .. r : G[i] = gone[r - i + 1]
  BY DEF TypeOK, Reverse
<1>4. Ranking = (W \o A) \o G
  BY DEF Ranking
<1> HIDE DEF p, q, r, W, A, G
<1>5. /\ Ranking \in Seq(Candidates) /\ Len(Ranking) = p + q + r
      /\ \A i \in 1 .. p : Ranking[i] = W[i]
      /\ \A i \in 1 .. q : Ranking[p + i] = A[i]
      /\ \A i \in 1 .. r : Ranking[p + q + i] = G[i]
  <2> DEFINE X == W \o A
  <2>1. /\ X \in Seq(Candidates) /\ Len(X) = p + q
        /\ \A i \in 1 .. p : X[i] = W[i]
        /\ \A i \in 1 .. q : X[p + i] = A[i]
    BY <1>1, <1>2
  <2> HIDE DEF X
  <2>2. /\ X \o G \in Seq(Candidates) /\ Len(X \o G) = p + q + r
        /\ \A i \in 1 .. p + q : (X \o G)[i] = X[i]
        /\ \A i \in 1 .. r : (X \o G)[p + q + i] = G[i]
    <3>1. /\ X \o G \in Seq(Candidates) /\ Len(X \o G) = Len(X) + Len(G)
          /\ \A i \in 1 .. Len(X) + Len(G) :
               (X \o G)[i] = IF i <= Len(X) THEN X[i] ELSE G[i - Len(X)]
      BY <1>3, <2>1, ConcatProperties
    <3>2. Len(X) = p + q /\ Len(G) = r /\ p + q \in Nat /\ r \in Nat
      BY <1>1, <1>2, <1>3, <2>1
    <3>3. ASSUME NEW i \in 1 .. p + q PROVE (X \o G)[i] = X[i]
      BY <3>1, <3>2
    <3>4. ASSUME NEW i \in 1 .. r PROVE (X \o G)[p + q + i] = G[i]
      <4> DEFINE k == p + q + i
      <4>1. k \in 1 .. Len(X) + Len(G) /\ ~ (k <= Len(X)) /\ k - Len(X) = i
        BY <3>2
      <4> QED BY <3>1, <4>1
    <3> QED BY <3>1, <3>2, <3>3, <3>4
  <2>3. Ranking = X \o G
    BY <1>4 DEF X
  <2>4. \A i \in 1 .. p : i \in 1 .. p + q
    BY <1>1, <1>2
  <2>5. \A i \in 1 .. q : p + i \in 1 .. p + q
    BY <1>1, <1>2
  <2> QED BY <2>1, <2>2, <2>3, <2>4, <2>5
<1> QED BY <1>1, <1>2, <1>3, <1>5 DEF p, q, r, W, A

\* The results are in order, although the votes shown are those of each one's last
\* round: the lowest count never falls from round to round (orderRanked).
THEOREM ResultsInOrder == Spec => []BestFirst
<1>1. IInv => BestFirst
  <2> SUFFICES ASSUME IInv, phase = "done" PROVE BestFirst
    BY DEF BestFirst
  <2> USE DEF IInv
  <2> DEFINE p == Cardinality(winners)
             q == Cardinality(active \ winners)
             r == Len(gone)
             W == Sorted(winners)
             A == Sorted(active \ winners)
             R == Ranking
  <2>n. /\ p \in Nat /\ q \in Nat /\ r \in Nat
        /\ R \in Seq(Candidates) /\ Len(R) = p + q + r
        /\ \A i \in 1 .. p : R[i] = W[i]
        /\ \A i \in 1 .. q : R[p + i] = A[i]
        /\ \A i \in 1 .. r : R[p + q + i] = gone[r - i + 1]
    BY RankingParts
  <2>c. /\ count \in [Candidates -> Nat] /\ winners \in SUBSET Candidates
        /\ active \ winners \in SUBSET Candidates /\ winners \subseteq active
        /\ active \subseteq Candidates
    BY DEF TypeOK
  <2>w. /\ W \in [1 .. p -> winners] /\ \A c \in winners : \E i \in 1 .. p : W[i] = c
        /\ \A i, j \in 1 .. p : i < j => Better(W[i], W[j])
    BY <2>c, SortedLists
  <2>a. /\ A \in [1 .. q -> active \ winners]
        /\ \A c \in active \ winners : \E i \in 1 .. q : A[i] = c
        /\ \A i, j \in 1 .. q : i < j => Better(A[i], A[j])
    BY <2>c, SortedLists
  <2>g. /\ DOMAIN gone = 1 .. r /\ \A i \in 1 .. r : gone[i] \in Candidates \ active
        /\ \A c \in Candidates \ active : \E i \in 1 .. r : gone[i] = c
        /\ \A i, j \in 1 .. r : gone[i] = gone[j] => i = j
    BY DEF TypeOK, ToSet, IsInjective
  <2>v. \A w \in winners, c \in active : count[w] >= count[c]
    <3>1. CASE winners = Top
      BY <3>1 DEF Top
    <3>2. CASE Top = Bottom /\ winners = active
      BY <2>c, <3>2, AllTied
    <3> QED BY <3>1, <3>2 DEF Verdict
  <2> HIDE DEF p, q, r, W, A, R
  <2>b. /\ \A i, j \in 1 .. p : W[i] = W[j] => i = j
        /\ \A i, j \in 1 .. q : A[i] = A[j] => i = j
    <3>1. \A c \in Candidates : ~ Better(c, c)
      BY <2>c, BetterIsTotal
    <3>2. (\A i \in 1 .. p : W[i] \in Candidates) /\ (\A i \in 1 .. q : A[i] \in Candidates)
      BY <2>c, <2>w, <2>a
    <3> QED BY <2>n, <2>w, <2>a, <3>1, <3>2
  <2>d. DOMAIN R = 1 .. p + q + r
    BY <2>n
  <2>0. /\ p \in Nat /\ q \in Nat /\ r \in Nat
        /\ \A i \in DOMAIN R : i \in Nat
    BY <2>n, <2>d
  \* A place is among the winners, the other survivors, or those gone.
  <2> DEFINE First(i) == i \in 1 .. p /\ R[i] = W[i] /\ R[i] \in winners
             n(i) == i - p
             Second(i) == /\ i > p /\ n(i) \in 1 .. q /\ R[i] = A[n(i)]
                          /\ R[i] \in active \ winners
             m(i) == r - (i - p - q) + 1
             Third(i) == /\ i > p + q /\ m(i) \in 1 .. r /\ R[i] = gone[m(i)]
                         /\ R[i] \in Candidates \ active
  <2>1. ASSUME NEW i \in DOMAIN R PROVE First(i) \/ Second(i) \/ Third(i)
    <3>1. CASE i <= p
      BY <2>n, <2>d, <2>w, <3>1
    <3>2. CASE p < i /\ i <= p + q
      <4>1. n(i) \in 1 .. q /\ p + n(i) = i
        BY <2>n, <2>d, <3>2
      <4> HIDE DEF n
      <4>2. R[p + n(i)] = A[n(i)] /\ A[n(i)] \in active \ winners
        BY <2>n, <2>a, <4>1
      <4> QED BY <3>2, <4>1, <4>2
    <3>3. CASE p + q < i
      <4>1. i - p - q \in 1 .. r /\ p + q + (i - p - q) = i
        BY <2>n, <2>d, <3>3
      <4>2. m(i) \in 1 .. r
        BY <2>n, <4>1
      <4>3. R[p + q + (i - p - q)] = gone[m(i)]
        BY <2>n, <4>1
      <4> HIDE DEF m
      <4> QED BY <2>g, <3>3, <4>1, <4>2, <4>3
    <3> QED BY <2>n, <2>d, <3>1, <3>2, <3>3
  <2>m. \A i, j \in DOMAIN R :
          /\ m(i + 1) = m(i) - 1 /\ (m(i) = m(j) => i = j)
          /\ n(i) < n(i + 1) /\ (n(i) = n(j) => i = j)
          /\ i > p + q => ~ n(i) \in 1 .. q
    BY <2>0
  <2> HIDE DEF m, n
  <2>2. IsInjective(R)
    <3>1. SUFFICES ASSUME NEW i \in DOMAIN R, NEW j \in DOMAIN R, R[i] = R[j] PROVE i = j
      BY DEF IsInjective
    <3>2. CASE First(i) /\ First(j)
      BY <2>b, <3>1, <3>2
    <3>3. CASE Second(i) /\ Second(j)
      <4>1. n(i) = n(j)
        BY <2>b, <3>1, <3>3
      <4> QED BY <2>m, <4>1
    <3>4. CASE Third(i) /\ Third(j)
      <4>1. m(i) = m(j)
        BY <2>g, <3>1, <3>4
      <4> QED BY <2>m, <4>1
    <3> QED BY <2>1, <2>c, <3>1, <3>2, <3>3, <3>4
  <2>3. ToSet(R) = Candidates
    <3>1. ASSUME NEW c \in Candidates PROVE \E i \in DOMAIN R : R[i] = c
      <4>1. CASE c \in winners
        <5>1. PICK i \in 1 .. p : W[i] = c
          BY <2>w, <4>1
        <5> QED BY <2>n, <2>d, <5>1
      <4>2. CASE c \in active \ winners
        <5>1. PICK i \in 1 .. q : A[i] = c
          BY <2>a, <4>2
        <5> QED BY <2>n, <2>d, <5>1
      <4>3. CASE c \notin active
        <5>1. PICK i \in 1 .. r : gone[i] = c
          BY <2>g, <4>3
        <5>2. r - i + 1 \in 1 .. r /\ r - (r - i + 1) + 1 = i
          BY <2>n
        <5>3. R[p + q + (r - i + 1)] = c
          BY <2>n, <5>1, <5>2
        <5>4. p + q + (r - i + 1) \in DOMAIN R
          BY <2>n, <2>d, <5>2
        <5> QED BY <5>3, <5>4
      <4> QED BY <4>1, <4>2, <4>3
    <3>2. \A i \in DOMAIN R : R[i] \in Candidates
      BY <2>1, <2>c
    <3> QED BY <3>1, <3>2 DEF ToSet
  <2>4. ToSet(SubSeq(R, 1, p)) = winners
    <3>1. /\ DOMAIN SubSeq(R, 1, p) = 1 .. p
          /\ \A i \in 1 .. p : SubSeq(R, 1, p)[i] = R[i]
      <4>1. \A i \in 1 .. p : R[i] \in Candidates
        BY <2>n, <2>w, <2>c
      <4>2. /\ SubSeq(R, 1, p) \in Seq(Candidates)
            /\ Len(SubSeq(R, 1, p)) = IF 1 <= p THEN p - 1 + 1 ELSE 0
            /\ \A i \in 1 .. p - 1 + 1 : SubSeq(R, 1, p)[i] = R[1 + i - 1]
        BY <2>0, <4>1, SubSeqProperties
      <4>3. Len(SubSeq(R, 1, p)) = p
        BY <2>0, <4>2
      <4>4. \A i \in 1 .. p : 1 + i - 1 = i /\ i \in 1 .. p - 1 + 1
        BY <2>0
      <4> QED BY <4>2, <4>3, <4>4
    <3> DEFINE Q == SubSeq(R, 1, p)
    <3> HIDE DEF Q
    <3>2. \A i \in 1 .. p : Q[i] = W[i] /\ W[i] \in winners
      BY <2>n, <2>w, <3>1 DEF Q
    <3>3. DOMAIN Q = 1 .. p
      BY <3>1 DEF Q
    <3>4. \A c \in winners : \E i \in 1 .. p : Q[i] = c
      BY <2>w, <3>2
    <3>5. ToSet(Q) = winners
      BY <3>2, <3>3, <3>4 DEF ToSet
    <3> QED BY <3>5 DEF Q
  <2>5. ASSUME NEW i \in 1 .. Len(R) - 1 PROVE count[R[i]] >= count[R[i + 1]]
    <3>i. i \in DOMAIN R /\ i + 1 \in DOMAIN R /\ i \in Nat
      BY <2>n, <2>d
    <3>n. \A c \in Candidates : count[c] \in Nat
      BY <2>c
    <3>1. CASE First(i) /\ First(i + 1)
      <4>1. Better(W[i], W[i + 1])
        BY <2>w, <3>1, <3>i
      <4> QED BY <2>c, <3>1, <3>n, <4>1 DEF Better
    <3>2. CASE First(i) /\ ~ Third(i + 1)
      BY <2>1, <2>c, <2>v, <3>1, <3>2, <3>i
    <3>3. CASE Second(i) /\ Second(i + 1)
      <4> DEFINE k == n(i)
                 l == n(i + 1)
      <4>1. k \in 1 .. q /\ l \in 1 .. q /\ k < l
        BY <2>m, <3>3, <3>i
      <4>2. R[i] = A[k] /\ R[i + 1] = A[l]
        BY <3>3
      <4> HIDE DEF k, l
      <4>3. Better(A[k], A[l]) /\ A[k] \in Candidates /\ A[l] \in Candidates
        BY <2>a, <2>c, <4>1
      <4> QED BY <3>n, <4>2, <4>3 DEF Better
    <3>4. CASE Third(i + 1) /\ ~ Third(i)
      <4>1. \A k \in 1 .. r, c \in active : count[c] >= count[gone[k]]
        BY <2>g, <2>c, <3>n DEF GoneHadFewer
      <4>2. R[i] \in active
        BY <2>1, <2>c, <3>4, <3>i
      <4> QED BY <3>4, <4>1, <4>2
    <3>5. CASE Third(i) /\ Third(i + 1)
      <4>1. /\ m(i) \in 1 .. r /\ m(i + 1) \in 1 .. r /\ m(i + 1) = m(i) - 1
            /\ R[i] = gone[m(i)] /\ R[i + 1] = gone[m(i + 1)]
        BY <2>m, <3>5, <3>i
      <4> DEFINE k == m(i)
                 l == m(i + 1)
      <4>2. k \in 1 .. r /\ l \in 1 .. r /\ l < k
        BY <2>0, <4>1
      <4>3. R[i] = gone[k] /\ R[i + 1] = gone[l]
        BY <4>1
      <4> HIDE DEF k, l
      <4>4. count[gone[l]] <= count[gone[k]]
        BY <2>g, <4>2 DEF GoneHadFewer
      <4> QED BY <2>g, <3>n, <4>2, <4>3, <4>4
    <3>6. i > p => i + 1 > p /\ ~ First(i + 1)
      BY <2>0, <3>i
    <3>7. i > p + q => i > p /\ i + 1 > p + q
      BY <2>0, <3>i
    <3>8. i + 1 > p + q => ~ Second(i + 1)
      BY <2>m, <3>i
    <3> QED BY <2>1, <3>i, <3>1, <3>2, <3>3, <3>4, <3>5, <3>6, <3>7, <3>8
  <2> QED BY <2>2, <2>3, <2>4, <2>5 DEF BestFirst, R, p
<1> QED BY <1>1, Invariance, PTL

=============================================================================
