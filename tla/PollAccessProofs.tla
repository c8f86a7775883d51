--------------------------- MODULE PollAccessProofs ---------------------------
(***************************************************************************)
(* Proofs about PollAccess and its login limiter, for any number of        *)
(* browsers, polls, codes, requests and keys, and any window and limit.    *)
(***************************************************************************)
EXTENDS PollAccess, FiniteSetTheorems, TLAPS

-----------------------------------------------------------------------------
(* The login limiter.                                                       *)

LimiterNext == (\E k \in Keys, ok \in BOOLEAN : Allow(k, ok)) \/ LimiterRestart

\* Attempt i of key k is remembered, with a time that is not too old.
Remembered(k, i) ==
  \E h \in hits[k] : h.nr = i /\ h.time >= admitted[k][i] - Delay

\* The inductive invariant: the attempts admitted less than a window, without
\* the delay, ago are all still remembered.
LimiterInv ==
  /\ now \in Nat
  /\ hits \in [Keys -> SUBSET Hit]
  /\ admitted \in [Keys -> Seq(Nat)]
  /\ \A k \in Keys :
       /\ IsFiniteSet(hits[k])
       /\ Cardinality(hits[k]) <= MaxLogins
       /\ \A i \in 1 .. Len(admitted[k]) :
            /\ admitted[k][i] <= now
            /\ \A j \in i .. Len(admitted[k]) : admitted[k][i] <= admitted[k][j]
            /\ now - admitted[k][i] < Window - Delay => Remembered(k, i)
  /\ LoginsWithinLimit

\* As many numbers as there are hits with, so many hits there are.
LEMMA DistinctHits ==
  ASSUME NEW S \in SUBSET Hit, IsFiniteSet(S), NEW a \in Nat, NEW b \in Nat,
         \A i \in a .. b : \E h \in S : h.nr = i
  PROVE  Cardinality(a .. b) <= Cardinality(S)
<1> DEFINE T == {h \in S : h.nr \in a .. b}
           f == [h \in T |-> h.nr]
<1>1. IsFiniteSet(T) /\ Cardinality(T) <= Cardinality(S)
  BY FS_Subset
<1>2. f \in Surjection(T, a .. b)
  BY DEF Surjection
<1>3. Cardinality(a .. b) <= Cardinality(T)
  BY <1>1, <1>2, FS_Surjection
<1>4. IsFiniteSet(a .. b)
  BY <1>1, <1>2, FS_Surjection
<1> HIDE DEF T
<1>5. Cardinality(S) \in Nat
  BY FS_CardinalityType
<1>6. Cardinality(T) \in Nat
  BY <1>1, FS_CardinalityType
<1>7. Cardinality(a .. b) \in Nat
  BY <1>4, FS_CardinalityType
<1> QED BY <1>1, <1>3, <1>5, <1>6, <1>7

LEMMA LimiterStart == LimiterInit => LimiterInv
  BY FS_EmptySet, LimiterAssumption
  DEF LimiterInit, LimiterInv, LoginsWithinLimit, Hit

\* Arithmetic: what comes later than y, or not after u, is as recent.
LEMMA Recent ==
  ASSUME NEW u \in Int, NEW v \in Int, NEW x \in Int, NEW y \in Int,
         NEW w \in Int, NEW d \in Int, v <= u, y <= x, u - y < w - d
  PROVE  v - x < w - d /\ u - x < w - d
  OBVIOUS

\* Arithmetic: a time read in the last w is after the cutoff.
LEMMA AfterCutoff ==
  ASSUME NEW u \in Int, NEW t \in Int, NEW x \in Int, NEW h \in Int,
         NEW w \in Int, NEW d \in Int, t <= u, h >= x - d, u - x < w - d
  PROVE  h > t - w
  OBVIOUS

\* An attempt is admitted only when the one MaxLogins before it is long ago.
LEMMA AdmittedLate ==
  ASSUME LimiterInv, NEW k \in Keys, NEW u \in Nat, NEW t \in Nat,
         now <= u, t \in u - Delay .. u, Len(admitted[k]) >= MaxLogins,
         ~AtLimit(Cardinality(Kept(k, t)))
  PROVE  u - admitted[k][(Len(admitted[k]) + 1) - MaxLogins] >= Window - Delay
<1> DEFINE a == admitted[k]
           n == Len(a)
           first == (n + 1) - MaxLogins
<1>a. a \in Seq(Nat) /\ now \in Nat
  BY DEF LimiterInv
<1>b. n \in Nat /\ \A i \in 1 .. n : a[i] \in Nat
  BY <1>a
<1>c. \A i \in 1 .. n : \A j \in i .. n : a[i] <= a[j]
  BY DEF LimiterInv
<1>d. \A i \in 1 .. n : a[i] <= now /\ (now - a[i] < Window - Delay => Remembered(k, i))
  BY DEF LimiterInv
<1>e. n >= MaxLogins
  OBVIOUS
<1>f. \A i \in 1 .. n : Remembered(k, i) =>
        \E h \in hits[k] : h.nr = i /\ h.time >= a[i] - Delay
  BY DEF Remembered
<1> HIDE DEF n, a
<1>1. /\ first \in 1 .. n /\ MaxLogins \in Nat \ {0}
      /\ Window \in Nat /\ Delay \in Nat /\ first = (n + 1) - MaxLogins
  BY <1>b, <1>e, LimiterAssumption
<1> HIDE DEF first
<1>2. Kept(k, t) \in SUBSET Hit /\ IsFiniteSet(Kept(k, t))
      /\ Cardinality(Kept(k, t)) \in Nat
  <2>1. hits[k] \in SUBSET Hit /\ IsFiniteSet(hits[k])
    BY DEF LimiterInv
  <2>2. Kept(k, t) \in SUBSET hits[k]
    BY DEF Kept
  <2>3. IsFiniteSet(Kept(k, t))
    BY <2>1, <2>2, FS_Subset
  <2>4. Cardinality(Kept(k, t)) \in Nat
    BY <2>3, FS_CardinalityType
  <2> QED BY <2>1, <2>2, <2>3, <2>4
<1>g. u - a[first] \in Int /\ Window - Delay \in Int
  BY <1>1, <1>b
<1> SUFFICES ASSUME u - a[first] < Window - Delay PROVE FALSE
  BY <1>1, <1>g DEF a, n, first
<1>3. ASSUME NEW i \in first .. n PROVE \E h \in Kept(k, t) : h.nr = i
  <2>1. i \in 1 .. n /\ first \in 1 .. n /\ i \in first .. n
    BY <1>1, <1>b, <1>3
  <2>2. a[i] \in Nat /\ a[first] \in Nat /\ a[first] <= a[i] /\ a[i] <= now
    BY <2>1, <1>b, <1>c, <1>d
  <2>3. now - a[i] < Window - Delay /\ u - a[i] < Window - Delay
    <3>1. /\ u \in Int /\ now \in Int /\ a[i] \in Int /\ a[first] \in Int
          /\ Window \in Int /\ Delay \in Int
      BY <1>1, <1>a, <2>2
    <3> QED BY <3>1, <2>2, Recent
  <2>4. PICK h \in hits[k] : h.nr = i /\ h.time >= a[i] - Delay
    BY <1>d, <1>f, <2>1, <2>3
  <2>5. h.time \in Nat
    BY <2>4 DEF LimiterInv, Hit
  <2>6. h.time > t - Window
    <3>1. /\ u \in Int /\ t \in Int /\ a[i] \in Int /\ h.time \in Int /\ t <= u
          /\ Window \in Int /\ Delay \in Int
      BY <1>1, <2>2, <2>5
    <3> QED BY <3>1, <2>3, <2>4, AfterCutoff
  <2> QED BY <2>4, <2>6 DEF Kept
<1>4. Cardinality(first .. n) <= Cardinality(Kept(k, t))
  <2>1. first \in Nat
    BY <1>1
  <2> QED BY <2>1, <1>b, <1>2, <1>3, DistinctHits
<1>5. Cardinality(first .. n) = MaxLogins
  <2>1. first \in Int /\ n \in Int /\ first <= n /\ n - first + 1 = MaxLogins
    BY <1>1, <1>b
  <2> QED BY <2>1, FS_Interval
<1> QED BY <1>1, <1>2, <1>4, <1>5 DEF AtLimit


\* What the cutoff drops is not among the recent ones: k remembers the same.
LEMMA KeptRemembers ==
  ASSUME LimiterInv, NEW k \in Keys, NEW u \in Nat, NEW t \in Nat,
         t \in u - Delay .. u, NEW i \in 1 .. Len(admitted[k]),
         now <= u, u - admitted[k][i] < Window - Delay
  PROVE  \E h \in Kept(k, t) : h.nr = i /\ h.time >= admitted[k][i] - Delay
<1>1. /\ now \in Nat /\ admitted[k] \in Seq(Nat) /\ hits[k] \in SUBSET Hit
      /\ Window \in Int /\ Delay \in Int
  BY LimiterAssumption DEF LimiterInv
<1>2. /\ admitted[k][i] \in Int /\ u \in Int /\ now \in Int /\ t \in Int /\ t <= u
      /\ admitted[k][i] <= admitted[k][i]
  BY <1>1
<1>3. now - admitted[k][i] < Window - Delay
  BY <1>1, <1>2, Recent
<1>4. Remembered(k, i)
  BY <1>3 DEF LimiterInv
<1>5. PICK h \in hits[k] : h.nr = i /\ h.time >= admitted[k][i] - Delay
  BY <1>4 DEF Remembered
<1>6. h.time \in Int
  BY <1>1, <1>5 DEF Hit
<1>7. h.time > t - Window
  BY <1>1, <1>2, <1>5, <1>6, AfterCutoff
<1> QED BY <1>5, <1>7 DEF Kept

\* The times kept are finitely many, and no more than before.
LEMMA KeptFew ==
  ASSUME LimiterInv, NEW k \in Keys, NEW t \in Nat
  PROVE  /\ Kept(k, t) \in SUBSET hits[k] /\ Kept(k, t) \in SUBSET Hit
         /\ IsFiniteSet(Kept(k, t)) /\ Cardinality(Kept(k, t)) \in Nat
         /\ Cardinality(Kept(k, t)) <= MaxLogins
<1>1. hits[k] \in SUBSET Hit /\ IsFiniteSet(hits[k]) /\ Cardinality(hits[k]) <= MaxLogins
  BY DEF LimiterInv
<1>2. Kept(k, t) \in SUBSET hits[k]
  BY DEF Kept
<1>3. IsFiniteSet(Kept(k, t)) /\ Cardinality(Kept(k, t)) <= Cardinality(hits[k])
  BY <1>1, <1>2, FS_Subset
<1>4. Cardinality(Kept(k, t)) \in Nat
  BY <1>3, FS_CardinalityType
<1>5. Cardinality(hits[k]) \in Nat
  BY <1>1, FS_CardinalityType
<1> QED BY <1>1, <1>2, <1>3, <1>4, <1>5, LimiterAssumption

\* What the invariant says of one key.
KeyInv(k) ==
  /\ IsFiniteSet(hits[k])
  /\ Cardinality(hits[k]) <= MaxLogins
  /\ \A i \in 1 .. Len(admitted[k]) :
       /\ admitted[k][i] <= now
       /\ \A j \in i .. Len(admitted[k]) : admitted[k][i] <= admitted[k][j]
       /\ now - admitted[k][i] < Window - Delay => Remembered(k, i)
  /\ \A i \in 1 .. Len(admitted[k]) - MaxLogins :
       admitted[k][i + MaxLogins] - admitted[k][i] >= Window - Delay

LEMMA LimiterInvByKey ==
  LimiterInv <=> /\ now \in Nat
                 /\ hits \in [Keys -> SUBSET Hit]
                 /\ admitted \in [Keys -> Seq(Nat)]
                 /\ \A k \in Keys : KeyInv(k)
  BY DEF LimiterInv, KeyInv, LoginsWithinLimit

\* The clock moves on and nothing else happens to a key.
LEMMA KeyWaits ==
  ASSUME LimiterInv, NEW k \in Keys, now' \in Nat, now <= now',
         hits'[k] = hits[k], admitted'[k] = admitted[k]
  PROVE  KeyInv(k)'
<1>1. KeyInv(k) /\ now \in Nat /\ admitted[k] \in Seq(Nat)
      /\ Window \in Int /\ Delay \in Int
  BY LimiterInvByKey, LimiterAssumption
<1>2. ASSUME NEW i \in 1 .. Len(admitted[k])
      PROVE  /\ admitted[k][i] <= now'
             /\ now' - admitted[k][i] < Window - Delay => Remembered(k, i)'
  <2>1. admitted[k][i] \in Nat /\ admitted[k][i] <= now
    BY <1>1 DEF KeyInv
  <2>2. ASSUME now' - admitted[k][i] < Window - Delay PROVE Remembered(k, i)'
    <3>1. now - admitted[k][i] < Window - Delay
      BY <1>1, <2>1, <2>2, Recent
    <3> QED BY <3>1, <1>1 DEF KeyInv, Remembered
  <2> QED BY <1>1, <2>1, <2>2
<1> QED BY <1>1, <1>2 DEF KeyInv


\* A refused attempt drops what is past the cutoff.
LEMMA KeyRefused ==
  ASSUME LimiterInv, NEW k \in Keys, NEW u \in Nat, NEW t \in Nat,
         t \in u - Delay .. u, now <= u, now' = u,
         hits'[k] = Kept(k, t), admitted'[k] = admitted[k]
  PROVE  KeyInv(k)'
<1>1. KeyInv(k) /\ now \in Nat /\ admitted[k] \in Seq(Nat)
  BY LimiterInvByKey
<1>2. ASSUME NEW i \in 1 .. Len(admitted[k])
      PROVE  /\ admitted[k][i] <= u
             /\ u - admitted[k][i] < Window - Delay => Remembered(k, i)'
  <2>1. admitted[k][i] \in Nat /\ admitted[k][i] <= now
    BY <1>1 DEF KeyInv
  <2>2. u - admitted[k][i] < Window - Delay => Remembered(k, i)'
    BY KeptRemembers DEF Remembered
  <2> QED BY <1>1, <2>1, <2>2
<1>3. IsFiniteSet(hits'[k]) /\ Cardinality(hits'[k]) <= MaxLogins
  BY KeptFew
<1> QED BY <1>1, <1>2, <1>3 DEF KeyInv

\* Arithmetic: what is not last among the attempts was there before.
LEMMA Earlier ==
  ASSUME NEW n \in Nat, NEW m \in Nat \ {0}, NEW i \in 1 .. (n + 1) - m,
         i # (n + 1) - m
  PROVE  i \in 1 .. n - m /\ i \in 1 .. n /\ i + m \in 1 .. n
  OBVIOUS

\* An admitted attempt comes late enough, and is remembered.
LEMMA KeyAdmitted ==
  ASSUME LimiterInv, NEW k \in Keys, NEW u \in Nat, NEW t \in Nat,
         t \in u - Delay .. u, now <= u, now' = u,
         ~AtLimit(Cardinality(Kept(k, t))),
         NEW hit, hit = [nr |-> Len(admitted[k]) + 1, time |-> t],
         hits'[k] = Kept(k, t) \cup {hit},
         admitted'[k] = Append(admitted[k], u)
  PROVE  KeyInv(k)'
<1> DEFINE a == admitted[k]
           n == Len(a)
           b == admitted'[k]
<1>1. /\ KeyInv(k) /\ now \in Nat /\ a \in Seq(Nat) /\ n \in Nat
      /\ Window \in Int /\ Delay \in Nat /\ MaxLogins \in Nat \ {0}
  BY LimiterInvByKey, LimiterAssumption
<1>2. /\ b \in Seq(Nat) /\ Len(b) = n + 1 /\ b[n + 1] = u
      /\ \A i \in 1 .. n : b[i] = a[i] /\ b[i] \in Nat /\ b[i] <= u
  <2>1. \A i \in 1 .. n : a[i] \in Nat /\ a[i] <= now
    BY <1>1 DEF KeyInv
  <2> QED BY <1>1, <2>1
<1>3. IsFiniteSet(hits'[k]) /\ Cardinality(hits'[k]) <= MaxLogins
  <2>1. IsFiniteSet(Kept(k, t)) /\ Cardinality(Kept(k, t)) \in Nat
    BY KeptFew
  <2>2. Cardinality(Kept(k, t)) < MaxLogins
    BY <1>1, <2>1 DEF AtLimit
  <2>3. /\ IsFiniteSet(Kept(k, t) \cup {hit})
        /\ \/ Cardinality(Kept(k, t) \cup {hit}) = Cardinality(Kept(k, t))
           \/ Cardinality(Kept(k, t) \cup {hit}) = Cardinality(Kept(k, t)) + 1
    BY <2>1, FS_AddElement
  <2> QED BY <1>1, <2>1, <2>2, <2>3
<1>4. ASSUME NEW i \in 1 .. n + 1
      PROVE  /\ b[i] <= u
             /\ \A j \in i .. n + 1 : b[i] <= b[j]
             /\ u - b[i] < Window - Delay => Remembered(k, i)'
  <2>1. CASE i = n + 1
    <3>1. hit.nr = i /\ hit.time >= b[i] - Delay /\ hit \in hits'[k]
      BY <1>1, <1>2, <2>1
    <3>2. Remembered(k, i)'
      BY <3>1 DEF Remembered
    <3> QED BY <1>1, <1>2, <2>1, <3>2
  <2>2. CASE i \in 1 .. n
    <3>1. \A j \in i .. n : a[i] <= a[j]
      BY <1>1, <2>2 DEF KeyInv
    <3>2. \A j \in i .. n + 1 : b[i] <= b[j]
      <4> SUFFICES ASSUME NEW j \in i .. n + 1 PROVE b[i] <= b[j]
        OBVIOUS
      <4>1. j = n + 1 \/ (j \in i .. n /\ j \in 1 .. n)
        BY <1>1, <2>2
      <4> QED BY <1>2, <2>2, <3>1, <4>1
    <3>3. u - a[i] < Window - Delay => Remembered(k, i)'
      <4> SUFFICES ASSUME u - a[i] < Window - Delay PROVE Remembered(k, i)'
        OBVIOUS
      <4>1. PICK h \in Kept(k, t) : h.nr = i /\ h.time >= a[i] - Delay
        BY <2>2, KeptRemembers
      <4> QED BY <1>2, <2>2, <4>1 DEF Remembered
    <3> QED BY <1>2, <2>2, <3>2, <3>3
  <2> QED BY <1>1, <2>1, <2>2
<1>5. ASSUME NEW i \in 1 .. (n + 1) - MaxLogins
      PROVE  b[i + MaxLogins] - b[i] >= Window - Delay
  <2>1. CASE i = (n + 1) - MaxLogins
    <3>1. n >= MaxLogins /\ i + MaxLogins = n + 1 /\ i \in 1 .. n
      BY <1>1, <2>1
    <3>2. u - a[i] >= Window - Delay
      BY <2>1, <3>1, AdmittedLate
    <3> QED BY <1>2, <3>1, <3>2
  <2>2. CASE i # (n + 1) - MaxLogins
    <3>1. i \in 1 .. n - MaxLogins /\ i \in 1 .. n /\ i + MaxLogins \in 1 .. n
      BY <1>1, <2>2, Earlier
    <3>2. a[i + MaxLogins] - a[i] >= Window - Delay
      BY <1>1, <3>1 DEF KeyInv
    <3> QED BY <1>2, <3>1, <3>2
  <2> QED BY <2>1, <2>2
<1>6. \A i \in 1 .. Len(b) :
        /\ b[i] <= now'
        /\ \A j \in i .. Len(b) : b[i] <= b[j]
        /\ now' - b[i] < Window - Delay => Remembered(k, i)'
  BY <1>2, <1>4
<1>7. \A i \in 1 .. Len(b) - MaxLogins : b[i + MaxLogins] - b[i] >= Window - Delay
  BY <1>2, <1>5
<1> QED BY <1>3, <1>6, <1>7 DEF KeyInv

LEMMA LimiterStep == LimiterInv /\ [LimiterNext]_limiterVars => LimiterInv'
<1> SUFFICES ASSUME LimiterInv, [LimiterNext]_limiterVars PROVE LimiterInv'
  OBVIOUS
<1>1. now \in Nat /\ hits \in [Keys -> SUBSET Hit] /\ admitted \in [Keys -> Seq(Nat)]
  BY LimiterInvByKey
<1> SUFFICES /\ now' \in Nat
             /\ hits' \in [Keys -> SUBSET Hit]
             /\ admitted' \in [Keys -> Seq(Nat)]
             /\ \A k \in Keys : KeyInv(k)'
  BY DEF LimiterInv, KeyInv, LoginsWithinLimit
<1>2. ASSUME NEW k \in Keys, NEW ok \in BOOLEAN, Allow(k, ok)
      PROVE  /\ now' \in Nat
             /\ hits' \in [Keys -> SUBSET Hit]
             /\ admitted' \in [Keys -> Seq(Nat)]
             /\ \A l \in Keys : KeyInv(l)'
  <2>0. PICK u \in now .. Horizon : \E t \in u - Delay .. u :
          /\ t >= 0 /\ now' = u
          /\ ok = ~AtLimit(Cardinality(Kept(k, t)))
          /\ IF ok THEN Admit(k, t, u) ELSE Refuse(k, t)
    BY <1>2 DEF Allow
  <2>1. PICK t \in u - Delay .. u :
          /\ t >= 0 /\ now' = u
          /\ ok = ~AtLimit(Cardinality(Kept(k, t)))
          /\ IF ok THEN Admit(k, t, u) ELSE Refuse(k, t)
    BY <2>0
  <2>2. u \in Nat /\ t \in Nat /\ now <= u
    BY <1>1, <2>1, LimiterAssumption
  <2>3. Kept(k, t) \in SUBSET Hit
    BY <2>2, KeptFew
  <2>4. CASE ok
    <3> DEFINE hit == [nr |-> Len(admitted[k]) + 1, time |-> t]
    <3>1. /\ hits' = [hits EXCEPT ![k] = Kept(k, t) \cup {hit}]
          /\ admitted' = [admitted EXCEPT ![k] = Append(admitted[k], u)]
      BY <2>1, <2>4 DEF Admit
    <3>2. hit \in Hit
      BY <1>1, <2>2 DEF Hit
    <3>3. hits' \in [Keys -> SUBSET Hit] /\ admitted' \in [Keys -> Seq(Nat)]
      BY <1>1, <2>2, <2>3, <3>1, <3>2
    <3>4. KeyInv(k)'
      <4>1. hits'[k] = Kept(k, t) \cup {hit} /\ admitted'[k] = Append(admitted[k], u)
        BY <1>1, <3>1
      <4>2. ~AtLimit(Cardinality(Kept(k, t)))
        BY <2>1, <2>4
      <4> QED BY <2>1, <2>2, <4>1, <4>2, KeyAdmitted
    <3>5. ASSUME NEW l \in Keys, l # k PROVE KeyInv(l)'
      BY <1>1, <2>1, <2>2, <3>1, <3>5, KeyWaits
    <3> QED BY <2>1, <2>2, <3>3, <3>4, <3>5
  <2>5. CASE ~ok
    <3>1. hits' = [hits EXCEPT ![k] = Kept(k, t)] /\ admitted' = admitted
      BY <2>1, <2>5 DEF Refuse
    <3>2. hits' \in [Keys -> SUBSET Hit]
      BY <1>1, <2>3, <3>1
    <3>3. KeyInv(k)'
      BY <1>1, <2>1, <2>2, <3>1, KeyRefused
    <3>4. ASSUME NEW l \in Keys, l # k PROVE KeyInv(l)'
      BY <1>1, <2>1, <2>2, <3>1, <3>4, KeyWaits
    <3> QED BY <1>1, <2>1, <2>2, <3>1, <3>2, <3>3, <3>4
  <2> QED BY <2>4, <2>5
<1>3. CASE LimiterRestart
  BY <1>1, <1>3, FS_EmptySet, LimiterAssumption DEF LimiterRestart, KeyInv, Hit
<1>4. CASE UNCHANGED limiterVars
  <2>1. now' = now /\ hits' = hits /\ admitted' = admitted
    BY <1>4 DEF limiterVars
  <2> QED BY <1>1, <2>1, KeyWaits
<1> QED BY <1>2, <1>3, <1>4 DEF LimiterNext


-----------------------------------------------------------------------------
(* The limiter within PollAccess.                                           *)

\* A step of PollAccess is a step of the limiter or does not concern it.
LEMMA AccessStepsLimiter == [Next]_vars => [LimiterNext]_limiterVars
  BY DEF Next, vars, limiterVars, LimiterNext, BeginLogin, BeginCreate, BeginJoin,
         Logout, Authenticate, DrawCode, InsertPoll, CurrentParticipant,
         CreateParticipant, Receive, Lose, InsertPollElsewhere, DeletePoll, Restart

\* However login attempts fall, one process admits no more of a key than the
\* limit in any stretch shorter than the window less the delay.
THEOREM LoginsLimited == Spec => []LoginsWithinLimit
<1>1. Init => LimiterInv
  BY LimiterStart DEF Init
<1>2. LimiterInv /\ [Next]_vars => LimiterInv'
  BY LimiterStep, AccessStepsLimiter
<1>3. LimiterInv => LoginsWithinLimit
  BY DEF LimiterInv
<1> QED BY <1>1, <1>2, <1>3, PTL DEF Spec

-----------------------------------------------------------------------------
(* Share codes.                                                             *)

\* The polls table with its key and its unique column.
CodesInv ==
  /\ polls = [p \in Polls |-> polls[p]]
  /\ CodesNameOnePoll

\* Inserting a poll is the one step that gives out a code, and it looks at the
\* table as it is then.
LEMMA CreatePollKeepsCodes ==
  ASSUME CodesInv, NEW p \in Polls, NEW b, NEW c, CreatePoll(p, b, c)
  PROVE  CodesInv'
<1>1. polls' = [polls EXCEPT ![p] = [is |-> "live", code |-> c]] /\ DOMAIN polls = Polls
  BY DEF CreatePoll, CodesInv
<1>2. polls'[p] = [is |-> "live", code |-> c]
  BY <1>1
<1>3. \A q \in Polls \ {p} : polls'[q] = polls[q]
  BY <1>1
<1>4. polls' = [q \in Polls |-> polls'[q]]
  BY <1>1
<1>5. \A q \in Polls : polls[q].is = "live" => polls[q].code # c
  BY DEF CreatePoll, CodeIsUnique, Taken, Live
<1>6. ASSUME NEW q \in Polls, NEW r \in Polls,
             polls'[q].is = "live", polls'[r].is = "live", polls'[q].code = polls'[r].code
      PROVE  q = r
  <2>1. CASE q = p \/ r = p
    BY <1>2, <1>3, <1>5, <1>6, <2>1
  <2>2. CASE q # p /\ r # p
    BY <1>3, <1>6, <2>2 DEF CodesInv, CodesNameOnePoll, Live
  <2> QED BY <2>1, <2>2
<1> QED BY <1>4, <1>6 DEF CodesInv, CodesNameOnePoll, Live

LEMMA DeletePollKeepsCodes ==
  ASSUME CodesInv, NEW p \in Polls, DeletePoll(p)
  PROVE  CodesInv'
<1>0. [NoRow EXCEPT !.is = "gone"] = [is |-> "gone", code |-> None]
  BY DEF NoRow
<1>1. /\ polls' = [polls EXCEPT ![p] = [is |-> "gone", code |-> None]]
      /\ DOMAIN polls = Polls
  BY <1>0 DEF DeletePoll, CodesInv
<1>2. polls'[p].is = "gone" /\ \A q \in Polls \ {p} : polls'[q] = polls[q]
  BY <1>1
<1>3. polls' = [q \in Polls |-> polls'[q]]
  BY <1>1
<1> QED BY <1>2, <1>3 DEF CodesInv, CodesNameOnePoll, Live

LEMMA CodesStep == CodesInv /\ [Next]_vars => CodesInv'
<1> SUFFICES ASSUME CodesInv, [Next]_vars PROVE CodesInv'
  OBVIOUS
<1>1. ASSUME UNCHANGED polls PROVE CodesInv'
  BY <1>1 DEF CodesInv, CodesNameOnePoll, Live
<1>2. ASSUME NEW r \in Requests, InsertPoll(r) PROVE CodesInv'
  BY <1>1, <1>2, CreatePollKeepsCodes DEF InsertPoll
<1>3. ASSUME NEW p \in Polls, NEW c \in Codes, InsertPollElsewhere(p, c) PROVE CodesInv'
  BY <1>3, CreatePollKeepsCodes DEF InsertPollElsewhere
<1>4. ASSUME NEW p \in Polls, DeletePoll(p) PROVE CodesInv'
  BY <1>4, DeletePollKeepsCodes
<1>5. \/ UNCHANGED polls
      \/ \E r \in Requests : InsertPoll(r)
      \/ \E p \in Polls, c \in Codes : InsertPollElsewhere(p, c)
      \/ \E p \in Polls : DeletePoll(p)
  BY DEF Next, vars, accessVars, BeginLogin, BeginCreate, BeginJoin, Logout,
         Authenticate, DrawCode, CurrentParticipant, CreateParticipant,
         Receive, Lose, Restart
<1> QED BY <1>1, <1>2, <1>3, <1>4, <1>5

\* A share code leads to one poll: a code that was free when it was looked up is
\* compared again by the insertion.
THEOREM CodesStayUnique == Spec => []CodesNameOnePoll
<1>1. Init => CodesInv
  BY DEF Init, CodesInv, CodesNameOnePoll, Live, NoRow
<1>2. CodesInv => CodesNameOnePoll
  BY DEF CodesInv
<1> QED BY <1>1, <1>2, CodesStep, PTL DEF Spec

-----------------------------------------------------------------------------
(* Types.                                                                   *)

\* A request carries what its next step uses.
Ready(o) ==
  /\ o.at # "idle" => o.by \in Browsers
  /\ o.at \in {"member", "seat", "told"} => o.poll \in Polls
  /\ o.at = "draw" => o.tries < Attempts

TypeInv ==
  /\ settings \in [login : BOOLEAN, configured : BOOLEAN]
  /\ secret \in Secrets
  /\ polls \in [Polls -> Row]
  /\ seats \in [Polls -> SUBSET Token]
  /\ jar \in [Browsers -> Jar]
  /\ req \in [Requests -> Request]
  /\ received \in [Browsers -> Tokens]
  /\ crossed \subseteq Browsers /\ lost \subseteq Browsers
  /\ \A r \in Requests : Ready(req[r])
  /\ \A p \in Polls : polls[p] = NoRow => seats[p] = {}

LEMMA IdleReady == Idle \in Request /\ Ready(Idle) /\ NoTokens \in Tokens
  BY AccessAssumption DEF Idle, Request, Ready, NoTokens, Tokens

\* An answer that is well formed leaves the requests so.
LEMMA Responded ==
  ASSUME req \in [Requests -> Request], \A r \in Requests : Ready(req[r]),
         NEW s \in Requests, NEW o \in Request, Ready(o), Respond(s, o)
  PROVE  req' \in [Requests -> Request] /\ \A r \in Requests : Ready(req'[r])
  BY DEF Respond

LEMMA ReadTokensType ==
  ASSUME TypeInv, NEW b \in Browsers
  PROVE  ReadTokens(b) \in Tokens
  BY IdleReady DEF ReadTokens, TypeInv, Jar

\* A browser has finitely many tokens, and the next one is new to the poll.
LEMMA FreshToken ==
  ASSUME NEW p \in Polls, NEW b \in Browsers \cup {None},
         seats[p] \in SUBSET Token, Room(b, p) \/ seats[p] = {}
  PROVE  Fresh(b, p) \in Token
<1> DEFINE T == {t \in Token : t.by = b}
           S == {t \in seats[p] : t.by = b}
           f == [n \in 1 .. MaxSeats |-> [by |-> b, nr |-> n]]
<1>1. MaxSeats \in Nat \ {0}
  BY AccessAssumption
<1>2. f \in Surjection(1 .. MaxSeats, T)
  BY DEF Surjection, Token
<1>3. IsFiniteSet(1 .. MaxSeats)
  BY <1>1, FS_Interval
<1>4. IsFiniteSet(T)
  BY <1>2, <1>3, FS_Surjection
<1>5. IsFiniteSet(S)
  BY <1>4, FS_Subset
<1>6. Cardinality(S) \in Nat
  BY <1>5, FS_CardinalityType
<1>7. Cardinality(S) < MaxSeats
  <2>1. CASE Room(b, p)
    BY <2>1 DEF Room
  <2>2. CASE seats[p] = {}
    <3>1. S = {}
      BY <2>2
    <3> HIDE DEF S
    <3> QED BY <1>1, <3>1, FS_EmptySet
  <2> QED BY <2>1, <2>2
<1>8. Cardinality(S) + 1 \in 1 .. MaxSeats
  <2> HIDE DEF S
  <2> QED BY <1>1, <1>6, <1>7
<1> QED BY <1>8 DEF Fresh, Token

LEMMA SetTokenType ==
  ASSUME NEW o \in Request, Ready(o), o.at # "idle", secret \in Secrets,
         NEW p \in Polls, NEW t \in Token
  PROVE  SetToken(o, p, t) \in Request /\ Ready(SetToken(o, p, t))
<1>1. [o.sent EXCEPT ![p] = t] \in Tokens
  BY DEF Request, Tokens
<1>2. SetToken(o, p, t) = [o EXCEPT !.at = "told", !.poll = p,
                             !.sent = [o.sent EXCEPT ![p] = t], !.key = secret]
  BY DEF SetToken, Request
<1> QED BY <1>1, <1>2 DEF Request, Ready

LEMMA CreatePollType ==
  ASSUME TypeInv, NEW p \in Polls, NEW b \in Browsers \cup {None},
         NEW c \in Codes \cup {None}, CreatePoll(p, b, c)
  PROVE  /\ Fresh(b, p) \in Token
         /\ polls' \in [Polls -> Row] /\ seats' \in [Polls -> SUBSET Token]
         /\ \A q \in Polls : polls'[q] = NoRow => seats'[q] = {}
<1>1. Fresh(b, p) \in Token
  BY FreshToken DEF TypeInv, CreatePoll
<1>2. [is |-> "live", code |-> c] \in Row /\ [is |-> "live", code |-> c] # NoRow
  BY DEF Row, NoRow
<1> QED BY <1>1, <1>2 DEF TypeInv, CreatePoll

\* Moving on without touching what Ready is about.
LEMMA MovedOn ==
  ASSUME TypeInv, NEW r \in Requests, req[r].at # "idle"
  PROVE  /\ LET o == [req[r] EXCEPT !.at = "user", !.key = secret]
            IN  o \in Request /\ Ready(o)
         /\ req[r].at = "member" =>
              LET o == [req[r] EXCEPT !.at = "seat"]
              IN  o \in Request /\ Ready(o)
<1>1. req[r] \in Request /\ Ready(req[r])
  BY DEF TypeInv
<1> QED BY <1>1 DEF TypeInv, Request, Ready

LEMMA TypeStep == TypeInv /\ [Next]_vars => TypeInv'
<1> SUFFICES ASSUME TypeInv, [Next]_vars PROVE TypeInv'
  OBVIOUS
<1> USE IdleReady, AccessAssumption
<1>1. ASSUME NEW r \in Requests, NEW b \in Browsers, BeginLogin(r, b) PROVE TypeInv'
  <2>1. [Idle EXCEPT !.at = "auth", !.by = b] \in Request
        /\ Ready([Idle EXCEPT !.at = "auth", !.by = b])
    BY DEF Idle, Request, Ready
  <2>2. \E o \in Request : Ready(o) /\ Respond(r, o)
    BY <1>1, <2>1 DEF BeginLogin
  <2>3. req' \in [Requests -> Request] /\ \A s \in Requests : Ready(req'[s])
    BY <2>2, Responded DEF TypeInv
  <2> QED BY <1>1, <2>3 DEF BeginLogin, TypeInv
<1>2. ASSUME NEW r \in Requests, NEW b \in Browsers, BeginCreate(r, b) PROVE TypeInv'
  <2> DEFINE o == [Idle EXCEPT !.at = "draw", !.by = b, !.sent = ReadTokens(b)]
  <2>1. o \in Request /\ Ready(o)
    <3>1. /\ o.at = "draw" /\ o.by = b /\ o.tries = 0
          /\ o \in Request
      BY ReadTokensType DEF Idle, Request
    <3>2. 0 < Attempts
      OBVIOUS
    <3> QED BY <3>1, <3>2 DEF Ready
  <2>2. Respond(r, o)
    BY <1>2 DEF BeginCreate
  <2>3. req' \in [Requests -> Request] /\ \A s \in Requests : Ready(req'[s])
    BY <2>1, <2>2, Responded DEF TypeInv
  <2>4. crossed' \subseteq Browsers
    BY <1>2 DEF BeginCreate, Cross, TypeInv
  <2> QED BY <1>2, <2>3, <2>4 DEF BeginCreate, TypeInv
<1>3. ASSUME NEW r \in Requests, NEW b \in Browsers, BeginJoin(r, b) PROVE TypeInv'
  <2>1. PICK p \in Live, may \in BOOLEAN :
          Respond(r, [Idle EXCEPT !.at = "member", !.by = b, !.poll = p,
                        !.sent = ReadTokens(b), !.may = may])
    BY <1>3 DEF BeginJoin
  <2> DEFINE o == [Idle EXCEPT !.at = "member", !.by = b, !.poll = p,
                        !.sent = ReadTokens(b), !.may = may]
  <2>2. o \in Request /\ Ready(o)
    BY ReadTokensType DEF Idle, Request, Ready, Live
  <2>3. req' \in [Requests -> Request] /\ \A s \in Requests : Ready(req'[s])
    BY <2>1, <2>2, Responded DEF TypeInv
  <2>4. crossed' \subseteq Browsers
    BY <1>3 DEF BeginJoin, Cross, TypeInv
  <2> QED BY <1>3, <2>3, <2>4 DEF BeginJoin, TypeInv
<1>4. ASSUME NEW b \in Browsers, Logout(b) PROVE TypeInv'
  BY <1>4 DEF Logout, TypeInv, Jar
<1>5. ASSUME NEW r \in Requests, Authenticate(r) PROVE TypeInv'
  <2>1. \E o \in Request : Ready(o) /\ Respond(r, o)
    BY <1>5, MovedOn DEF Authenticate
  <2>2. req' \in [Requests -> Request] /\ \A s \in Requests : Ready(req'[s])
    BY <2>1, Responded DEF TypeInv
  <2> QED BY <1>5, <2>2 DEF Authenticate, TypeInv
<1>6. ASSUME NEW r \in Requests, DrawCode(r) PROVE TypeInv'
  <2>0. req[r] \in Request /\ req[r].at = "draw" /\ Ready(req[r])
    BY <1>6 DEF DrawCode, TypeInv
  <2>1. \A c \in Codes :
          LET o == [req[r] EXCEPT !.at = "insert", !.code = c]
          IN  o \in Request /\ Ready(o)
    BY <2>0 DEF Request, Ready
  <2>2. ASSUME req[r].tries + 1 # Attempts
        PROVE  LET o == [req[r] EXCEPT !.tries = req[r].tries + 1]
               IN  o \in Request /\ Ready(o)
    <3>1. /\ req[r].tries \in 0 .. Attempts /\ req[r].tries < Attempts
          /\ Attempts \in Nat
      BY <2>0 DEF Request, Ready
    <3>2. req[r].tries + 1 \in 0 .. Attempts /\ req[r].tries + 1 < Attempts
      BY <2>2, <3>1
    <3> QED BY <2>0, <3>2 DEF Request, Ready
  <2>3. \E o \in Request : Ready(o) /\ Respond(r, o)
    BY <1>6, <2>1, <2>2 DEF DrawCode
  <2>4. req' \in [Requests -> Request] /\ \A s \in Requests : Ready(req'[s])
    BY <2>3, Responded DEF TypeInv
  <2> QED BY <1>6, <2>4 DEF DrawCode, TypeInv
<1>7. ASSUME NEW r \in Requests, InsertPoll(r) PROVE TypeInv'
  <2>0. /\ req[r] \in Request /\ req[r].at = "insert" /\ Ready(req[r])
        /\ req[r].by \in Browsers /\ req[r].code \in Codes \cup {None}
    BY <1>7 DEF InsertPoll, TypeInv, Request, Ready
  <2>1. CASE \E p \in Polls : /\ CreatePoll(p, req[r].by, req[r].code)
                              /\ Respond(r, SetToken(req[r], p, Fresh(req[r].by, p)))
    <3>1. PICK p \in Polls : /\ CreatePoll(p, req[r].by, req[r].code)
                             /\ Respond(r, SetToken(req[r], p, Fresh(req[r].by, p)))
      BY <2>1
    <3>2. /\ Fresh(req[r].by, p) \in Token
          /\ polls' \in [Polls -> Row] /\ seats' \in [Polls -> SUBSET Token]
          /\ \A q \in Polls : polls'[q] = NoRow => seats'[q] = {}
      BY <2>0, <3>1, CreatePollType
    <3>3. req' \in [Requests -> Request] /\ \A s \in Requests : Ready(req'[s])
      BY <2>0, <3>1, <3>2, SetTokenType, Responded DEF TypeInv
    <3> QED BY <1>7, <3>2, <3>3 DEF InsertPoll, TypeInv
  <2>2. CASE Respond(r, Idle) /\ UNCHANGED <<polls, seats>>
    <3>1. req' \in [Requests -> Request] /\ \A s \in Requests : Ready(req'[s])
      BY <2>2, Responded DEF TypeInv
    <3> QED BY <1>7, <2>2, <3>1 DEF InsertPoll, TypeInv
  <2> QED BY <1>7, <2>1, <2>2 DEF InsertPoll
<1>8. ASSUME NEW r \in Requests, CurrentParticipant(r) PROVE TypeInv'
  <2>0. /\ req[r].at = "member" /\ req[r].by \in Browsers
    BY <1>8 DEF CurrentParticipant, TypeInv, Ready
  <2>1. \E o \in Request : Ready(o) /\ Respond(r, o)
    BY <1>8, <2>0, MovedOn DEF CurrentParticipant
  <2>2. req' \in [Requests -> Request] /\ \A s \in Requests : Ready(req'[s])
    BY <2>1, Responded DEF TypeInv
  <2>3. lost' \subseteq Browsers
    BY <1>8, <2>0 DEF CurrentParticipant, TypeInv
  <2> QED BY <1>8, <2>2, <2>3 DEF CurrentParticipant, TypeInv
<1>9. ASSUME NEW r \in Requests, CreateParticipant(r) PROVE TypeInv'
  <2>0. /\ req[r] \in Request /\ req[r].at = "seat" /\ Ready(req[r])
        /\ req[r].by \in Browsers /\ req[r].poll \in Polls
    BY <1>9 DEF CreateParticipant, TypeInv, Ready
  <2>1. CASE req[r].poll \notin Live
    <3>1. Respond(r, Idle) /\ UNCHANGED seats
      BY <1>9, <2>1 DEF CreateParticipant
    <3>2. req' \in [Requests -> Request] /\ \A s \in Requests : Ready(req'[s])
      BY <3>1, Responded DEF TypeInv
    <3> QED BY <1>9, <3>1, <3>2 DEF CreateParticipant, TypeInv
  <2>2. CASE req[r].poll \in Live
    <3> DEFINE p == req[r].poll
               t == Fresh(req[r].by, p)
    <3>1. /\ Room(req[r].by, p) /\ seats' = [seats EXCEPT ![p] = seats[p] \cup {t}]
          /\ Respond(r, SetToken(req[r], p, t)) /\ UNCHANGED polls
      BY <1>9, <2>2 DEF CreateParticipant
    <3>2. t \in Token
      BY <2>0, <3>1, FreshToken DEF TypeInv
    <3>3. req' \in [Requests -> Request] /\ \A s \in Requests : Ready(req'[s])
      BY <2>0, <3>1, <3>2, SetTokenType, Responded DEF TypeInv
    <3>4. polls[p] # NoRow
      BY <2>2 DEF Live, NoRow
    <3> HIDE DEF t
    <3>5. /\ seats' \in [Polls -> SUBSET Token]
          /\ \A q \in Polls : polls'[q] = NoRow => seats'[q] = {}
      BY <2>0, <3>1, <3>2, <3>4 DEF TypeInv
    <3> QED BY <1>9, <3>3, <3>5 DEF CreateParticipant, TypeInv
  <2> QED BY <2>1, <2>2
<1>10. ASSUME NEW r \in Requests, Receive(r) PROVE TypeInv'
  <2>1. req' \in [Requests -> Request] /\ \A s \in Requests : Ready(req'[s])
    BY <1>10, Responded DEF TypeInv, Receive
  <2>2. jar' \in [Browsers -> Jar]
    <3>1. req[r] \in Request
      BY DEF TypeInv
    <3> QED BY <1>10, <3>1 DEF Receive, TypeInv, Jar, Request
  <2>3. received' \in [Browsers -> Tokens]
    <3>1. CASE received' = received
      BY <3>1 DEF TypeInv
    <3>2. CASE /\ req[r].at = "told"
               /\ received' = [received EXCEPT ![req[r].by][req[r].poll]
                                                 = req[r].sent[req[r].poll]]
      <4>1. /\ req[r].by \in Browsers /\ req[r].poll \in Polls
            /\ req[r].sent \in Tokens
        BY <3>2 DEF TypeInv, Ready, Request
      <4> QED BY <3>2, <4>1 DEF TypeInv, Tokens
    <3> QED BY <1>10, <3>1, <3>2 DEF Receive
  <2> QED BY <1>10, <2>1, <2>2, <2>3 DEF Receive, TypeInv
<1>11. ASSUME NEW r \in Requests, Lose(r) PROVE TypeInv'
  <2>1. req' \in [Requests -> Request] /\ \A s \in Requests : Ready(req'[s])
    BY <1>11, Responded DEF TypeInv, Lose
  <2>2. lost' \subseteq Browsers
    BY <1>11 DEF Lose, TypeInv, Ready
  <2> QED BY <1>11, <2>1, <2>2 DEF Lose, TypeInv
<1>12. ASSUME NEW p \in Polls, NEW c \in Codes, InsertPollElsewhere(p, c) PROVE TypeInv'
  BY <1>12, CreatePollType DEF InsertPollElsewhere, TypeInv
<1>13. ASSUME NEW p \in Polls, DeletePoll(p) PROVE TypeInv'
  <2>1. [NoRow EXCEPT !.is = "gone"] \in Row
    BY DEF NoRow, Row
  <2> QED BY <1>13, <2>1 DEF DeletePoll, TypeInv
<1>14. CASE Restart
  <2>1. req' \in [Requests -> Request] /\ \A s \in Requests : Ready(req'[s])
    BY <1>14 DEF Restart, TypeInv
  <2>2. received' \in [Browsers -> Tokens]
    BY <1>14 DEF Restart, TypeInv
  <2> QED BY <1>14, <2>1, <2>2 DEF Restart, TypeInv
<1>15. CASE UNCHANGED vars
  BY <1>15 DEF vars, accessVars, TypeInv
<1> QED BY <1>1, <1>2, <1>3, <1>4, <1>5, <1>6, <1>7, <1>8, <1>9, <1>10, <1>11,
           <1>12, <1>13, <1>14, <1>15 DEF Next

LEMMA TypeStart == Init => TypeInv
  BY IdleReady, AccessAssumption
  DEF Init, TypeInv, Secrets, Row, NoRow, Jar, EmptyJar, Ready

\* Every variable keeps its type, and no poll has participants before it exists.
THEOREM AccessTypeCorrect == Spec => []TypeOK
<1>1. Init => TypeInv /\ LimiterInv
  BY TypeStart, LimiterStart DEF Init
<1>2. TypeInv /\ LimiterInv /\ [Next]_vars => TypeInv' /\ LimiterInv'
  BY TypeStep, LimiterStep, AccessStepsLimiter
<1>3. TypeInv /\ LimiterInv => TypeOK
  BY DEF TypeInv, LimiterInv, TypeOK, LimiterTypeOK
<1> QED BY <1>1, <1>2, <1>3, PTL DEF Spec

-----------------------------------------------------------------------------
(* Membership.                                                              *)

SeatingBy(o, b) == o.by = b /\ o.at \in {"draw", "insert", "member", "seat", "told"}

\* The cookie that o works with, or answers with, has b's seat in p, or its
\* answer brings another.
Remembers(o, b, p) ==
  /\ o.at = "told" => o.key = secret
  /\ o.sent[p] = received[b][p] \/ (o.at = "told" /\ p = o.poll)

\* The inductive invariant: as long as requests of b do not overlap, one at most
\* is about to bring a cookie, and wherever b's tokens are, in the jar or with
\* that request, the seats it was told of are among them.
Steady(b) ==
  /\ \A r, s \in Requests : SeatingBy(req[r], b) /\ SeatingBy(req[s], b) => r = s
  /\ \A p \in Polls : received[b][p] # None =>
       /\ jar[b].key = secret /\ jar[b].tokens[p] = received[b][p]
       /\ \A r \in Requests : SeatingBy(req[r], b) => Remembers(req[r], b, p)

\* A step of one request that leaves the browser's cookies alone.
LEMMA Answered ==
  ASSUME NEW b \in Browsers, Steady(b), req \in [Requests -> Request],
         NEW r \in Requests, NEW o, Respond(r, o),
         UNCHANGED <<secret, received[b], jar[b].key, jar[b].tokens>>,
         SeatingBy(o, b) =>
           /\ SeatingBy(req[r], b) \/ ~Seating(b)
           /\ \A p \in Polls :
                /\ received[b][p] # None
                /\ jar[b].key = secret /\ jar[b].tokens[p] = received[b][p]
                /\ SeatingBy(req[r], b) => Remembers(req[r], b, p)
                => Remembers(o, b, p)
  PROVE  Steady(b)'
<1>1. req'[r] = o /\ \A s \in Requests \ {r} : req'[s] = req[s]
  BY DEF Respond
<1>2. \A s \in Requests : SeatingBy(req[s], b) => Seating(b)
  BY DEF SeatingBy, Seating
<1>3. \A s \in Requests \ {r} : SeatingBy(o, b) => ~SeatingBy(req[s], b)
  BY <1>2 DEF Steady
<1>4. \A s, t \in Requests : SeatingBy(req'[s], b) /\ SeatingBy(req'[t], b) => s = t
  BY <1>1, <1>3 DEF Steady
<1>5. ASSUME NEW p \in Polls, received'[b][p] # None
      PROVE  /\ jar'[b].key = secret' /\ jar'[b].tokens[p] = received'[b][p]
             /\ \A s \in Requests : SeatingBy(req'[s], b) => Remembers(req[s], b, p)'
  <2>1. /\ received[b][p] # None
        /\ jar[b].key = secret /\ jar[b].tokens[p] = received[b][p]
        /\ \A s \in Requests : SeatingBy(req[s], b) => Remembers(req[s], b, p)
    BY <1>5 DEF Steady
  <2>2. SeatingBy(o, b) => Remembers(o, b, p)
    BY <2>1
  <2>3. ASSUME NEW s \in Requests, SeatingBy(req'[s], b) PROVE Remembers(req[s], b, p)'
    <3>1. CASE s = r
      BY <1>1, <2>2, <2>3, <3>1 DEF Remembers
    <3>2. CASE s # r
      BY <1>1, <2>1, <2>3, <3>2 DEF Remembers
    <3> QED BY <3>1, <3>2
  <2> QED BY <2>1, <2>3
<1> QED BY <1>4, <1>5 DEF Steady, SeatingBy

LEMMA SteadyStep ==
  ASSUME TypeInv, [Next]_vars, NEW b \in Browsers \ crossed', Steady(b)
  PROVE  Steady(b)'
<1>0. req \in [Requests -> Request] /\ b \in Browsers
  BY DEF TypeInv
\* A request that is not about to bring a seat.
<1>Plain. ASSUME NEW r \in Requests, NEW o, Respond(r, o),
                 o.at \in {"idle", "auth", "user"}, UNCHANGED <<secret, received, jar>>
          PROVE  Steady(b)'
  BY <1>0, <1>Plain, Answered DEF SeatingBy
\* A request that begins with the browser's cookie.
<1>Starts. ASSUME NEW r \in Requests, NEW o, Respond(r, o), o.at \in {"draw", "member"},
                  o.sent = ReadTokens(o.by), o.by = b => ~Seating(b),
                  UNCHANGED <<secret, received, jar>>
           PROVE  Steady(b)'
  BY <1>0, <1>Starts, Answered DEF SeatingBy, Remembers, ReadTokens
\* A request that goes on with what it was sent.
<1>GoesOn. ASSUME NEW r \in Requests, NEW o, Respond(r, o),
                  o.at \in {"draw", "insert", "seat"}, req[r].at \in {"draw", "member"},
                  o.by = req[r].by, o.sent = req[r].sent,
                  UNCHANGED <<secret, received, jar>>
           PROVE  Steady(b)'
  BY <1>0, <1>GoesOn, Answered DEF SeatingBy, Remembers
<1>Idles. Idle.at = "idle"
  BY DEF Idle
<1>1. ASSUME NEW r \in Requests, NEW x \in Browsers, BeginLogin(r, x) PROVE Steady(b)'
  <2>1. [Idle EXCEPT !.at = "auth", !.by = x].at = "auth"
    BY DEF Idle
  <2> QED BY <1>1, <1>Plain, <1>Idles, <2>1 DEF BeginLogin
<1>2. ASSUME NEW r \in Requests, NEW x \in Browsers, BeginCreate(r, x) PROVE Steady(b)'
  <2> DEFINE o == [Idle EXCEPT !.at = "draw", !.by = x, !.sent = ReadTokens(x)]
  <2>1. o.at = "draw" /\ o.by = x /\ o.sent = ReadTokens(x)
    BY DEF Idle
  <2>2. Respond(r, o) /\ UNCHANGED <<secret, received, jar>>
    BY <1>2 DEF BeginCreate
  <2>3. x = b => ~Seating(b)
    BY <1>2 DEF BeginCreate, Cross
  <2> HIDE DEF o
  <2> QED BY <1>Starts, <2>1, <2>2, <2>3
<1>3. ASSUME NEW r \in Requests, NEW x \in Browsers, BeginJoin(r, x) PROVE Steady(b)'
  <2>1. PICK p \in Live, may \in BOOLEAN :
          Respond(r, [Idle EXCEPT !.at = "member", !.by = x, !.poll = p,
                        !.sent = ReadTokens(x), !.may = may])
    BY <1>3 DEF BeginJoin
  <2> DEFINE o == [Idle EXCEPT !.at = "member", !.by = x, !.poll = p,
                        !.sent = ReadTokens(x), !.may = may]
  <2>2. o.at = "member" /\ o.by = x /\ o.sent = ReadTokens(x)
    BY DEF Idle
  <2>3. Respond(r, o) /\ UNCHANGED <<secret, received, jar>>
    BY <1>3, <2>1 DEF BeginJoin
  <2>4. x = b => ~Seating(b)
    BY <1>3 DEF BeginJoin, Cross
  <2> HIDE DEF o
  <2> QED BY <1>Starts, <2>2, <2>3, <2>4
<1>4. ASSUME NEW x \in Browsers, Logout(x) PROVE Steady(b)'
  <2>1. jar'[b].key = jar[b].key /\ jar'[b].tokens = jar[b].tokens
    BY <1>4 DEF Logout, TypeInv, Jar
  <2> QED BY <1>4, <2>1 DEF Logout, Steady, SeatingBy, Remembers
<1>5. ASSUME NEW r \in Requests, Authenticate(r) PROVE Steady(b)'
  <2>1. [req[r] EXCEPT !.at = "user", !.key = secret].at = "user"
    BY <1>0 DEF Request
  <2> QED BY <1>5, <1>Plain, <1>Idles, <2>1 DEF Authenticate
<1>6. ASSUME NEW r \in Requests, DrawCode(r) PROVE Steady(b)'
  <2>1. UNCHANGED <<secret, received, jar>> /\ req[r].at = "draw"
    BY <1>6 DEF DrawCode
  <2>2. ASSUME NEW c \in Codes, Respond(r, [req[r] EXCEPT !.at = "insert", !.code = c])
        PROVE  Steady(b)'
    <3> DEFINE o == [req[r] EXCEPT !.at = "insert", !.code = c]
    <3>1. o.at = "insert" /\ o.by = req[r].by /\ o.sent = req[r].sent /\ Respond(r, o)
      BY <1>0, <2>2 DEF Request
    <3> HIDE DEF o
    <3> QED BY <1>GoesOn, <2>1, <3>1
  <2>3. ASSUME Respond(r, [req[r] EXCEPT !.tries = req[r].tries + 1])
        PROVE  Steady(b)'
    <3> DEFINE o == [req[r] EXCEPT !.tries = req[r].tries + 1]
    <3>1. o.at = "draw" /\ o.by = req[r].by /\ o.sent = req[r].sent /\ Respond(r, o)
      BY <1>0, <2>1, <2>3 DEF Request
    <3> HIDE DEF o
    <3> QED BY <1>GoesOn, <2>1, <3>1
  <2>4. CASE Respond(r, Idle)
    BY <1>Plain, <1>Idles, <2>1, <2>4
  <2> QED BY <1>6, <2>2, <2>3, <2>4 DEF DrawCode
<1>7. ASSUME NEW r \in Requests, NEW p \in Polls, NEW t,
             Respond(r, SetToken(req[r], p, t)), req[r].at \in {"insert", "seat"},
             UNCHANGED <<secret, received, jar>>
      PROVE  Steady(b)'
  <2> DEFINE o == SetToken(req[r], p, t)
  <2>1. /\ o.at = "told" /\ o.by = req[r].by /\ o.poll = p /\ o.key = secret
        /\ \A q \in Polls \ {p} : o.sent[q] = req[r].sent[q]
    BY <1>0 DEF SetToken, Request, Tokens
  <2> HIDE DEF o
  <2> QED BY <1>0, <1>7, <2>1, Answered DEF SeatingBy, Remembers, o
<1>8. ASSUME NEW r \in Requests, Respond(r, Idle), UNCHANGED <<secret, received, jar>>
      PROVE  Steady(b)'
  BY <1>8, <1>Plain, <1>Idles
<1>9. ASSUME NEW r \in Requests, InsertPoll(r) PROVE Steady(b)'
  BY <1>7, <1>8, <1>9 DEF InsertPoll
<1>10. ASSUME NEW r \in Requests, CurrentParticipant(r) PROVE Steady(b)'
  <2> DEFINE o == [req[r] EXCEPT !.at = "seat"]
  <2>1. o.at = "seat" /\ o.by = req[r].by /\ o.sent = req[r].sent
    BY <1>0 DEF Request
  <2>2. /\ req[r].at = "member" /\ UNCHANGED <<secret, received, jar>>
        /\ Respond(r, o) \/ Respond(r, Idle)
    BY <1>10 DEF CurrentParticipant
  <2> HIDE DEF o
  <2> QED BY <1>8, <1>GoesOn, <2>1, <2>2
<1>11. ASSUME NEW r \in Requests, CreateParticipant(r) PROVE Steady(b)'
  <2>1. req[r].poll \in Polls
    BY <1>11 DEF CreateParticipant, TypeInv, Ready
  <2> QED BY <1>7, <1>8, <1>11, <2>1 DEF CreateParticipant
<1>12. ASSUME NEW r \in Requests, Receive(r) PROVE Steady(b)'
  <2>1. Respond(r, Idle) /\ Idle.at = "idle" /\ secret' = secret
    BY <1>12 DEF Receive, Idle
  <2>2. req'[r].at = "idle" /\ \A s \in Requests \ {r} : req'[s] = req[s]
    BY <1>0, <2>1 DEF Respond
  <2>3. CASE req[r].by = b /\ req[r].at = "told"
    <3> DEFINE q == req[r].poll
    <3>1. /\ q \in Polls /\ req[r].sent \in Tokens /\ SeatingBy(req[r], b)
      BY <1>0, <2>3 DEF TypeInv, Ready, Request, SeatingBy
    <3>2. jar'[b].key = req[r].key /\ jar'[b].tokens = req[r].sent
      BY <1>0, <1>12, <2>3 DEF Receive, TypeInv, Jar
    <3>3. \A s \in Requests : ~SeatingBy(req'[s], b)
      BY <2>2, <3>1 DEF Steady, SeatingBy
    <3>4. ASSUME NEW p \in Polls, received'[b][p] # None
          PROVE  jar'[b].key = secret' /\ jar'[b].tokens[p] = received'[b][p]
      <4>1. CASE req[r].key = secret
        <5>1. received' = [received EXCEPT ![b][q] = req[r].sent[q]]
          BY <1>12, <2>3, <4>1 DEF Receive
        <5>2. received'[b] = [received[b] EXCEPT ![q] = req[r].sent[q]]
          BY <1>0, <5>1 DEF TypeInv
        <5>3. CASE p = q
          BY <1>0, <2>1, <3>1, <3>2, <4>1, <5>2, <5>3 DEF TypeInv, Tokens
        <5>4. CASE p # q
          <6>1. received'[b][p] = received[b][p]
            BY <1>0, <3>1, <5>2, <5>4 DEF TypeInv, Tokens
          <6>2. Remembers(req[r], b, p)
            BY <3>1, <3>4, <6>1 DEF Steady
          <6> QED BY <2>1, <3>2, <4>1, <5>4, <6>1, <6>2 DEF Remembers
        <5> QED BY <5>3, <5>4
      <4>2. CASE req[r].key # secret
        <5>1. received' = received
          BY <1>12, <2>3, <4>2 DEF Receive
        <5>2. Remembers(req[r], b, p)
          BY <3>1, <3>4, <5>1 DEF Steady
        <5> QED BY <2>3, <4>2, <5>2 DEF Remembers
      <4> QED BY <4>1, <4>2
    <3> QED BY <3>3, <3>4 DEF Steady, SeatingBy
  <2>4. CASE ~(req[r].by = b /\ req[r].at = "told")
    <3>1. received'[b] = received[b]
      BY <1>0, <1>12, <2>4 DEF Receive, TypeInv
    <3>2. jar'[b].key = jar[b].key /\ jar'[b].tokens = jar[b].tokens
      BY <1>0, <1>12, <2>4 DEF Receive, TypeInv, Jar
    <3> QED BY <1>0, <2>1, <3>1, <3>2, Answered DEF SeatingBy
  <2> QED BY <2>3, <2>4
<1>13. ASSUME NEW r \in Requests, Lose(r) PROVE Steady(b)'
  BY <1>8, <1>13 DEF Lose
<1>14. ASSUME UNCHANGED <<secret, received, jar, req>> PROVE Steady(b)'
  BY <1>14 DEF Steady, SeatingBy, Remembers
<1>15. CASE Restart
  <2>1. \A r \in Requests : SeatingBy(req'[r], b) => req'[r] = req[r]
    BY <1>15 DEF Restart, SeatingBy, Idle
  <2>2. CASE settings.configured
    <3>1. UNCHANGED <<secret, received, jar>>
      BY <1>15, <2>2 DEF Restart, LoadSecret
    <3> QED BY <2>1, <3>1 DEF Steady, SeatingBy, Remembers
  <2>3. CASE ~settings.configured
    <3>1. \A p \in Polls : received'[b][p] = None
      BY <1>0, <1>15, <2>3 DEF Restart, NoTokens
    <3> QED BY <2>1, <3>1 DEF Steady, SeatingBy
  <2> QED BY <2>2, <2>3
<1> QED BY <1>1, <1>2, <1>3, <1>4, <1>5, <1>6, <1>9, <1>10, <1>11, <1>12, <1>13, <1>14,
           <1>15 DEF Next, vars, accessVars, InsertPollElsewhere, DeletePoll

\* What befell a browser is not forgotten.
LEMMA HistoryGrows == [Next]_vars => crossed \subseteq crossed' /\ lost \subseteq lost'
<1> SUFFICES ASSUME [Next]_vars PROVE crossed \subseteq crossed' /\ lost \subseteq lost'
  OBVIOUS
<1>1. crossed \subseteq crossed'
  BY DEF Next, vars, accessVars, BeginLogin, BeginCreate, BeginJoin, Cross, Logout,
         Authenticate, DrawCode, InsertPoll, CurrentParticipant, CreateParticipant,
         Receive, Lose, InsertPollElsewhere, DeletePoll, Restart
<1>2. lost \subseteq lost'
  BY DEF Next, vars, accessVars, BeginLogin, BeginCreate, BeginJoin, Logout,
         Authenticate, DrawCode, InsertPoll, CurrentParticipant, CreateParticipant,
         Receive, Lose, InsertPollElsewhere, DeletePoll, Restart
<1> QED BY <1>1, <1>2

\* The first secret does not come back.
LEMMA FirstSecret == TypeInv /\ [Next]_vars /\ secret' = 0 => secret = 0
<1> SUFFICES ASSUME TypeInv, [Next]_vars, secret' = 0 PROVE secret = 0
  OBVIOUS
<1>1. Restart \/ secret' = secret
  BY DEF Next, vars, accessVars, BeginLogin, BeginCreate, BeginJoin, Logout,
         Authenticate, DrawCode, InsertPoll, CurrentParticipant, CreateParticipant,
         Receive, Lose, InsertPollElsewhere, DeletePoll
<1>2. CASE Restart
  BY <1>2 DEF Restart, LoadSecret, TypeInv, Secrets
<1> QED BY <1>1, <1>2

\* What a browser whose requests do not overlap was told it is in stays in its
\* cookie, under a signature that verifies, whatever happens to its other
\* requests and to the process.
THEOREM MembershipStays == Spec => []MembershipKept
<1> DEFINE Inv == TypeInv /\ \A b \in Browsers \ crossed : Steady(b)
<1>1. Init => Inv
  <2>1. Init => \A b \in Browsers : Steady(b)
    BY AccessAssumption DEF Init, Steady, SeatingBy, Idle, NoTokens
  <2> QED BY <2>1, TypeStart
<1>2. Inv /\ [Next]_vars => Inv'
  <2> SUFFICES ASSUME Inv, [Next]_vars PROVE Inv'
    OBVIOUS
  <2>1. TypeInv'
    BY TypeStep
  <2>2. crossed \subseteq crossed'
    BY HistoryGrows
  <2>3. \A b \in Browsers \ crossed' : Steady(b)'
    BY <2>2, SteadyStep
  <2> QED BY <2>1, <2>3
<1>3. Inv => MembershipKept
  BY DEF Steady, MembershipKept
<1> QED BY <1>1, <1>2, <1>3, PTL DEF Spec

-----------------------------------------------------------------------------
(* One seat each.                                                           *)

Seats(b, p) == {t \in seats[p] : t.by = b}

Tells(o, b, p) == o.by = b /\ o.at = "told" /\ o.poll = p

\* The inductive invariant for a browser none of whose requests overlapped, whose
\* answers all came and whose look-ups all succeeded: its seat in p, if it has
\* one, is the one it was told of or is being told of, and a request that is about
\* to seat it finds none.
Seated(b) ==
  \A p \in Polls :
    /\ \A t, u \in Seats(b, p) : t = u
    /\ \A t \in Seats(b, p) :
         /\ \A r \in Requests : Tells(req[r], b, p) => req[r].sent[p] = t
         /\ received[b][p] = t \/ \E r \in Requests : Tells(req[r], b, p)
    /\ \A r \in Requests :
         /\ Tells(req[r], b, p) => req[r].key = secret
         /\ req[r].by = b /\ req[r].at = "seat" /\ req[r].poll = p => Seats(b, p) = {}

\* A step of one request that gives b no seat and tells it of none.
LEMMA NotSeated ==
  ASSUME NEW b \in Browsers, Seated(b), req \in [Requests -> Request],
         NEW r \in Requests, NEW o, Respond(r, o),
         UNCHANGED <<secret, received[b]>>,
         \A p \in Polls : Seats(b, p)' = Seats(b, p),
         \A p \in Polls : ~Tells(req[r], b, p) /\ ~Tells(o, b, p),
         o.by = b /\ o.at = "seat" => Seats(b, o.poll) = {}
  PROVE  Seated(b)'
<1>1. req'[r] = o /\ \A s \in Requests \ {r} : req'[s] = req[s]
  BY DEF Respond
<1>2. \A p \in Polls, s \in Requests : Tells(req'[s], b, p) <=> Tells(req[s], b, p)
  BY <1>1
<1>3. \A p \in Polls, s \in Requests : Tells(req'[s], b, p) => req'[s] = req[s]
  BY <1>1
<1> SUFFICES ASSUME NEW p \in Polls
             PROVE  /\ \A t, u \in Seats(b, p) : t = u
                    /\ \A t \in Seats(b, p) :
                         /\ \A s \in Requests : Tells(req'[s], b, p) => req'[s].sent[p] = t
                         /\ \/ received[b][p] = t
                            \/ \E s \in Requests : Tells(req'[s], b, p)
                    /\ \A s \in Requests :
                         /\ Tells(req'[s], b, p) => req'[s].key = secret
                         /\ req'[s].by = b /\ req'[s].at = "seat" /\ req'[s].poll = p
                              => Seats(b, p) = {}
  BY DEF Seated, Tells
<1> QED BY <1>1, <1>2, <1>3 DEF Seated

\* b is seated in p, where it had no seat, and about to be told.
LEMMA NewlySeated ==
  ASSUME TypeInv, NEW b \in Browsers, Seated(b), Steady(b),
         NEW r \in Requests, NEW p \in Polls, NEW t \in Token,
         SeatingBy(req[r], b), req[r].at # "told",
         Respond(r, SetToken(req[r], p, t)),
         UNCHANGED <<secret, received>>,
         t.by = b, Seats(b, p) = {}, seats' = [seats EXCEPT ![p] = seats[p] \cup {t}]
  PROVE  Seated(b)'
<1> DEFINE o == SetToken(req[r], p, t)
<1>1. req[r] \in Request /\ req \in [Requests -> Request]
  BY DEF TypeInv
<1>2. /\ o.at = "told" /\ o.by = b /\ o.poll = p /\ o.key = secret
      /\ o.sent[p] = t
  BY <1>1 DEF SetToken, Request, Tokens, SeatingBy
<1>3. req'[r] = o /\ \A s \in Requests \ {r} : req'[s] = req[s]
  BY <1>1 DEF Respond
<1> HIDE DEF o
<1>4. \A s \in Requests \ {r} : ~SeatingBy(req[s], b)
  BY DEF Steady
<1>5. \A s \in Requests \ {r}, q \in Polls :
        ~Tells(req'[s], b, q) /\ ~(req'[s].by = b /\ req'[s].at = "seat")
  BY <1>3, <1>4 DEF SeatingBy, Tells
<1>6. \A q \in Polls : ~Tells(req[r], b, q)
  BY DEF Tells
<1>7. \A s \in Requests, q \in Polls : ~Tells(req[s], b, q)
  BY <1>4, <1>6 DEF Tells, SeatingBy
<1>8. Seats(b, p)' = {t} /\ \A q \in Polls \ {p} : Seats(b, q)' = Seats(b, q)
  BY DEF Seats, TypeInv
<1>9. \A s \in Requests, q \in Polls : Tells(req'[s], b, q) <=> s = r /\ q = p
  BY <1>2, <1>3, <1>5 DEF Tells
<1>10. ASSUME NEW q \in Polls, q # p
       PROVE  /\ \A x, y \in Seats(b, q) : x = y
              /\ \A x \in Seats(b, q) : received[b][q] = x
  BY <1>7, <1>10 DEF Seated
<1>11. ASSUME NEW s \in Requests PROVE ~(req'[s].by = b /\ req'[s].at = "seat")
  BY <1>2, <1>3, <1>5
<1> SUFFICES ASSUME NEW q \in Polls
             PROVE  /\ \A x, y \in Seats(b, q)' : x = y
                    /\ \A x \in Seats(b, q)' :
                         /\ \A s \in Requests : Tells(req'[s], b, q) => req'[s].sent[q] = x
                         /\ \/ received[b][q] = x
                            \/ \E s \in Requests : Tells(req'[s], b, q)
                    /\ \A s \in Requests :
                         /\ Tells(req'[s], b, q) => req'[s].key = secret
                         /\ req'[s].by = b /\ req'[s].at = "seat" /\ req'[s].poll = q
                              => Seats(b, q)' = {}
  BY DEF Seated, Tells
<1>12. CASE q = p
  BY <1>2, <1>3, <1>8, <1>9, <1>11, <1>12
<1>13. CASE q # p
  BY <1>8, <1>9, <1>10, <1>11, <1>13
<1> QED BY <1>12, <1>13

LEMMA SeatedStep ==
  ASSUME TypeInv, [Next]_vars, NEW b \in Browsers \ (crossed' \cup lost'),
         secret' = 0, Steady(b), Seated(b)
  PROVE  Seated(b)'
<1>0. /\ req \in [Requests -> Request] /\ seats \in [Polls -> SUBSET Token]
      /\ b \in Browsers /\ b # None
  BY AccessAssumption DEF TypeInv
<1>Idles. Idle.at = "idle"
  BY DEF Idle
\* A request that neither is about to seat anybody nor tells of a seat.
<1>Plain. ASSUME NEW r \in Requests, NEW o, Respond(r, o), o.at \notin {"seat", "told"},
                 req[r].at # "told" \/ req[r].by # b, UNCHANGED <<secret, received, seats>>
          PROVE  Seated(b)'
  <2>1. \A p \in Polls : Seats(b, p)' = Seats(b, p)
    BY <1>Plain DEF Seats
  <2>2. \A p \in Polls : ~Tells(req[r], b, p) /\ ~Tells(o, b, p)
    BY <1>Plain DEF Tells
  <2> QED BY <1>0, <1>Plain, <2>1, <2>2, NotSeated
\* Nothing that concerns b's seats.
<1>Still. ASSUME UNCHANGED <<secret, received, req>>,
                 \A p \in Polls : Seats(b, p)' = Seats(b, p) \/ Seats(b, p)' = {}
          PROVE  Seated(b)'
  BY <1>Still DEF Seated, Tells
<1>1. ASSUME NEW r \in Requests, NEW x \in Browsers, BeginLogin(r, x) PROVE Seated(b)'
  <2>1. [Idle EXCEPT !.at = "auth", !.by = x].at = "auth"
    BY DEF Idle
  <2> QED BY <1>1, <1>Plain, <1>Idles, <2>1 DEF BeginLogin
<1>2. ASSUME NEW r \in Requests, NEW x \in Browsers, BeginCreate(r, x) PROVE Seated(b)'
  <2>1. [Idle EXCEPT !.at = "draw", !.by = x, !.sent = ReadTokens(x)].at = "draw"
    BY DEF Idle
  <2> QED BY <1>2, <1>Plain, <1>Idles, <2>1 DEF BeginCreate
<1>3. ASSUME NEW r \in Requests, NEW x \in Browsers, BeginJoin(r, x) PROVE Seated(b)'
  <2>1. PICK p \in Live, may \in BOOLEAN :
          Respond(r, [Idle EXCEPT !.at = "member", !.by = x, !.poll = p,
                        !.sent = ReadTokens(x), !.may = may])
    BY <1>3 DEF BeginJoin
  <2>2. [Idle EXCEPT !.at = "member", !.by = x, !.poll = p,
            !.sent = ReadTokens(x), !.may = may].at = "member"
    BY DEF Idle
  <2> QED BY <1>3, <1>Plain, <1>Idles, <2>1, <2>2 DEF BeginJoin
<1>4. ASSUME NEW x \in Browsers, Logout(x) PROVE Seated(b)'
  BY <1>4, <1>Still DEF Logout, Seats
<1>5. ASSUME NEW r \in Requests, Authenticate(r) PROVE Seated(b)'
  <2>1. [req[r] EXCEPT !.at = "user", !.key = secret].at = "user"
    BY <1>0 DEF Request
  <2> QED BY <1>5, <1>Plain, <1>Idles, <2>1 DEF Authenticate
<1>6. ASSUME NEW r \in Requests, DrawCode(r) PROVE Seated(b)'
  <2>1. UNCHANGED <<secret, received, seats>> /\ req[r].at = "draw"
    BY <1>6 DEF DrawCode
  <2>2. \A c \in Codes : [req[r] EXCEPT !.at = "insert", !.code = c].at = "insert"
    BY <1>0 DEF Request
  <2>3. [req[r] EXCEPT !.tries = req[r].tries + 1].at = "draw"
    BY <1>0, <2>1 DEF Request
  <2> QED BY <1>6, <1>Plain, <1>Idles, <2>1, <2>2, <2>3 DEF DrawCode
\* A seat for the request's browser, in a poll where it has none.
<1>7. ASSUME NEW r \in Requests, NEW p \in Polls, NEW t \in Token, t.by = req[r].by,
             Respond(r, SetToken(req[r], p, t)), req[r].at \in {"insert", "seat"},
             UNCHANGED <<secret, received>>,
             seats' = [seats EXCEPT ![p] = seats[p] \cup {t}],
             req[r].by = b => Seats(b, p) = {}
      PROVE  Seated(b)'
  <2>1. CASE req[r].by = b
    <3>1. SeatingBy(req[r], b) /\ req[r].at # "told"
      BY <1>7, <2>1 DEF SeatingBy
    <3> QED BY <1>7, <2>1, <3>1, NewlySeated
  <2>2. CASE req[r].by # b
    <3> DEFINE o == SetToken(req[r], p, t)
    <3>1. o.at = "told" /\ o.by = req[r].by
      BY <1>0 DEF SetToken, Request
    <3>2. \A q \in Polls : Seats(b, q)' = Seats(b, q)
      BY <1>0, <1>7, <2>2 DEF Seats
    <3>3. \A q \in Polls : ~Tells(req[r], b, q) /\ ~Tells(o, b, q)
      BY <2>2, <3>1 DEF Tells
    <3>4. Respond(r, o) /\ UNCHANGED <<secret, received[b]>>
      BY <1>7
    <3> HIDE DEF o
    <3> QED BY <1>0, <2>2, <3>1, <3>2, <3>3, <3>4, NotSeated
  <2> QED BY <2>1, <2>2
<1>8. ASSUME NEW p \in Polls, NEW x \in Browsers \cup {None}, NEW c \in Codes \cup {None},
             CreatePoll(p, x, c)
      PROVE  /\ Fresh(x, p) \in Token /\ Fresh(x, p).by = x
             /\ seats[p] = {} /\ Seats(b, p) = {}
             /\ seats' = [seats EXCEPT ![p] = seats[p] \cup {Fresh(x, p)}]
  BY <1>8, CreatePollType DEF CreatePoll, TypeInv, Fresh, Seats
<1>9. ASSUME NEW r \in Requests, InsertPoll(r) PROVE Seated(b)'
  <2>0. /\ req[r].at = "insert" /\ UNCHANGED <<secret, received>>
        /\ req[r].by \in Browsers /\ req[r].code \in Codes \cup {None}
    BY <1>0, <1>9 DEF InsertPoll, TypeInv, Request, Ready
  <2>1. CASE Respond(r, Idle) /\ UNCHANGED <<polls, seats>>
    BY <1>Plain, <1>Idles, <2>0, <2>1
  <2>2. ASSUME NEW p \in Polls, CreatePoll(p, req[r].by, req[r].code),
               Respond(r, SetToken(req[r], p, Fresh(req[r].by, p)))
        PROVE  Seated(b)'
    BY <1>7, <1>8, <2>0, <2>2
  <2> QED BY <1>9, <2>1, <2>2 DEF InsertPoll
<1>10. ASSUME NEW r \in Requests, CurrentParticipant(r) PROVE Seated(b)'
  <2> DEFINE o == [req[r] EXCEPT !.at = "seat"]
             p == req[r].poll
  <2>0. /\ o.at = "seat" /\ o.by = req[r].by /\ o.poll = req[r].poll
        /\ req[r].at = "member" /\ p \in Polls
        /\ UNCHANGED <<secret, received, seats>>
    BY <1>0, <1>10 DEF CurrentParticipant, TypeInv, Request, Ready
  <2>1. CASE Respond(r, Idle)
    BY <1>Plain, <1>Idles, <2>0, <2>1
  <2>2. CASE Respond(r, o) /\ (req[r].by = b => ~IsParticipant(req[r]))
    <3>1. \A q \in Polls : ~Tells(req[r], b, q) /\ ~Tells(o, b, q)
      BY <2>0 DEF Tells
    <3>2. ASSUME req[r].by = b PROVE Seats(b, p) = {}
      <4>1. SUFFICES ASSUME NEW t \in Seats(b, p) PROVE FALSE
        OBVIOUS
      <4>2. \A s \in Requests : ~Tells(req[s], b, p)
        BY <2>0, <3>2 DEF Steady, SeatingBy, Tells
      <4>3. received[b][p] = t
        BY <2>0, <4>2 DEF Seated
      <4>4. t \in seats[p] /\ t \in Token
        BY <1>0, <2>0 DEF Seats
      <4>5. t # None
        BY <4>4, AccessAssumption DEF Token
      <4>6. req[r].sent[p] = t
        BY <2>0, <3>2, <4>3, <4>5 DEF Steady, SeatingBy, Remembers
      <4> QED BY <2>2, <3>2, <4>4, <4>6 DEF IsParticipant
    <3>3. \A q \in Polls : Seats(b, q)' = Seats(b, q)
      BY <2>0 DEF Seats
    <3> QED BY <1>0, <2>0, <2>2, <3>1, <3>2, <3>3, NotSeated
  <2>3. CASE Respond(r, o) /\ lost' = lost \cup {req[r].by}
    <3>1. req[r].by # b
      BY <2>3
    <3> QED BY <2>2, <2>3, <3>1
  <2> QED BY <1>10, <2>1, <2>2, <2>3 DEF CurrentParticipant
<1>11. ASSUME NEW r \in Requests, CreateParticipant(r) PROVE Seated(b)'
  <2> DEFINE p == req[r].poll
             t == Fresh(req[r].by, p)
  <2>0. /\ req[r].at = "seat" /\ req[r].by \in Browsers /\ p \in Polls
        /\ UNCHANGED <<secret, received>>
    BY <1>11 DEF CreateParticipant, TypeInv, Ready
  <2>1. CASE p \notin Live
    <3>1. Respond(r, Idle) /\ UNCHANGED seats
      BY <1>11, <2>1 DEF CreateParticipant
    <3> QED BY <1>Plain, <1>Idles, <2>0, <3>1
  <2>2. CASE p \in Live
    <3>1. /\ Room(req[r].by, p) /\ seats' = [seats EXCEPT ![p] = seats[p] \cup {t}]
          /\ Respond(r, SetToken(req[r], p, t))
      BY <1>11, <2>2 DEF CreateParticipant
    <3>2. t \in Token /\ t.by = req[r].by
      BY <1>0, <2>0, <3>1, FreshToken DEF Fresh
    <3>3. req[r].by = b => Seats(b, p) = {}
      BY <2>0 DEF Seated
    <3> QED BY <1>7, <2>0, <3>1, <3>2, <3>3
  <2> QED BY <2>1, <2>2
<1>12. ASSUME NEW r \in Requests, Receive(r) PROVE Seated(b)'
  <2>0. /\ Respond(r, Idle) /\ UNCHANGED <<secret, seats>> /\ req[r].at \in {"user", "told"}
    BY <1>12 DEF Receive
  <2>1. CASE req[r].at = "told" /\ req[r].by = b
    <3> DEFINE q == req[r].poll
    <3>1. q \in Polls /\ Tells(req[r], b, q) /\ SeatingBy(req[r], b)
      BY <2>1 DEF TypeInv, Ready, Tells, SeatingBy
    <3>2. req[r].key = secret
      BY <3>1 DEF Seated
    <3>3. received' = [received EXCEPT ![b][q] = req[r].sent[q]]
      BY <1>12, <2>1, <3>2 DEF Receive
    <3>4. /\ received'[b][q] = req[r].sent[q]
          /\ \A p \in Polls \ {q} : received'[b][p] = received[b][p]
      BY <1>0, <3>1, <3>3 DEF TypeInv, Tokens
    <3>5. \A s \in Requests : ~SeatingBy(req'[s], b)
      BY <1>0, <1>Idles, <2>0, <3>1 DEF Respond, Steady, SeatingBy
    <3>6. \A p \in Polls \ {q} : \A s \in Requests : ~Tells(req[s], b, p)
      BY <3>1 DEF Steady, SeatingBy, Tells
    <3>7. \A p \in Polls : Seats(b, p)' = Seats(b, p)
      BY <2>0 DEF Seats
    <3>8. ASSUME NEW p \in Polls
          PROVE  /\ \A t, u \in Seats(b, p) : t = u
                 /\ \A t \in Seats(b, p) : received'[b][p] = t
      <4>1. CASE p = q
        BY <3>1, <3>4, <4>1 DEF Seated
      <4>2. CASE p # q
        BY <3>4, <3>6, <4>2 DEF Seated
      <4> QED BY <4>1, <4>2
    <3> QED BY <3>5, <3>7, <3>8 DEF Seated, Tells, SeatingBy
  <2>2. CASE ~(req[r].at = "told" /\ req[r].by = b)
    <3>1. received'[b] = received[b]
      BY <1>0, <1>12, <2>2 DEF Receive, TypeInv
    <3>2. \A p \in Polls : Seats(b, p)' = Seats(b, p)
      BY <2>0 DEF Seats
    <3>3. \A p \in Polls : ~Tells(req[r], b, p) /\ ~Tells(Idle, b, p)
      BY <1>Idles, <2>2 DEF Tells
    <3> QED BY <1>0, <1>Idles, <2>0, <3>1, <3>2, <3>3, NotSeated
  <2> QED BY <2>1, <2>2
<1>13. ASSUME NEW r \in Requests, Lose(r) PROVE Seated(b)'
  <2>1. req[r].at # "told" \/ req[r].by # b
    BY <1>13 DEF Lose
  <2> QED BY <1>13, <1>Plain, <1>Idles, <2>1 DEF Lose
<1>14. ASSUME NEW p \in Polls, NEW c \in Codes, InsertPollElsewhere(p, c) PROVE Seated(b)'
  <2>1. /\ Fresh(None, p).by = None
        /\ seats' = [seats EXCEPT ![p] = seats[p] \cup {Fresh(None, p)}]
    BY <1>8, <1>14 DEF InsertPollElsewhere
  <2>2. \A q \in Polls : Seats(b, q)' = Seats(b, q)
    BY <1>0, <2>1 DEF Seats
  <2> QED BY <1>14, <1>Still, <2>2 DEF InsertPollElsewhere
<1>15. ASSUME NEW p \in Polls, DeletePoll(p) PROVE Seated(b)'
  <2>1. \A q \in Polls : Seats(b, q)' = Seats(b, q) \/ Seats(b, q)' = {}
    BY <1>0, <1>15 DEF DeletePoll, Seats
  <2> QED BY <1>15, <1>Still, <2>1 DEF DeletePoll
<1>16. CASE Restart
  <2>1. settings.configured
    BY <1>16 DEF Restart, LoadSecret, TypeInv, Secrets
  <2>2. UNCHANGED <<secret, received, seats>>
    BY <1>16, <2>1 DEF Restart, LoadSecret
  <2>3. \A s \in Requests : \/ req'[s] = req[s]
                            \/ req'[s] = Idle /\ req[s].at \notin {"user", "told"}
    BY <1>16 DEF Restart
  <2>4. \A s \in Requests, p \in Polls : Tells(req'[s], b, p) <=> Tells(req[s], b, p)
    BY <1>Idles, <2>3 DEF Tells
  <2>5. \A s \in Requests : req'[s].at \in {"seat", "told"} => req'[s] = req[s]
    BY <1>Idles, <2>3
  <2> QED BY <2>2, <2>4, <2>5 DEF Seated, Seats, Tells
<1>17. CASE UNCHANGED vars
  BY <1>17, <1>Still DEF vars, accessVars, Seats
<1> QED BY <1>1, <1>2, <1>3, <1>4, <1>5, <1>6, <1>9, <1>10, <1>11, <1>12, <1>13, <1>14,
           <1>15, <1>16, <1>17 DEF Next

\* A browser has one participant, and so one vote, in a poll, unless its own
\* requests overlapped, an answer was lost, a look-up failed or the secret changed.
THEOREM OneSeat == Spec => []OneSeatEach
<1> DEFINE Inv == /\ TypeInv
                  /\ \A b \in Browsers \ crossed : Steady(b)
                  /\ secret = 0 => \A b \in Browsers \ (crossed \cup lost) : Seated(b)
<1>1. Init => Inv
  <2>1. Init => \A b \in Browsers : Steady(b)
    BY AccessAssumption DEF Init, Steady, SeatingBy, Idle, NoTokens
  <2>2. Init => \A b \in Browsers : Seated(b)
    BY AccessAssumption DEF Init, Seated, Seats, Tells, Idle
  <2> QED BY <2>1, <2>2, TypeStart
<1>2. Inv /\ [Next]_vars => Inv'
  <2> SUFFICES ASSUME Inv, [Next]_vars PROVE Inv'
    OBVIOUS
  <2>1. TypeInv'
    BY TypeStep
  <2>2. crossed \subseteq crossed' /\ lost \subseteq lost' /\ (secret' = 0 => secret = 0)
    BY HistoryGrows, FirstSecret
  <2>3. \A b \in Browsers \ crossed' : Steady(b)'
    BY <2>2, SteadyStep
  <2>4. ASSUME secret' = 0 PROVE \A b \in Browsers \ (crossed' \cup lost') : Seated(b)'
    BY <2>2, <2>4, SeatedStep
  <2> QED BY <2>1, <2>3, <2>4
<1>3. Inv => OneSeatEach
  <2> SUFFICES ASSUME Inv, secret = 0, NEW b \in Browsers \ (crossed \cup lost), NEW p \in Polls
               PROVE  Cardinality(Seats(b, p)) <= 1
    BY DEF OneSeatEach, Seats
  <2>1. \A t, u \in Seats(b, p) : t = u
    BY DEF Seated
  <2>2. CASE Seats(b, p) = {}
    BY <2>2, FS_EmptySet
  <2>3. ASSUME NEW t \in Seats(b, p) PROVE Cardinality(Seats(b, p)) <= 1
    <3>1. Seats(b, p) = {t}
      BY <2>1, <2>3
    <3>2. Cardinality({t}) = 1
      BY FS_Singleton
    <3> QED BY <3>1, <3>2
  <2> QED BY <2>2, <2>3
<1> QED BY <1>1, <1>2, <1>3, PTL DEF Spec

=============================================================================
