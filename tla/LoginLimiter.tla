---------------------------- MODULE LoginLimiter ----------------------------
(***************************************************************************)
(* The limiter in front of the login endpoint (userauth.go, loginLimiter): *)
(* per key the times of the admitted attempts, of which those inside the   *)
(* window count.  allow reads the clock before it takes the mutex, so the  *)
(* time it works with may be up to Delay older than its turn.              *)
(*                                                                         *)
(* Nothing but an attempt looks at the clock, which is therefore moved on  *)
(* by the attempts.                                                        *)
(***************************************************************************)
EXTENDS Integers, Sequences, FiniteSets

CONSTANTS
  Keys,       \* client addresses
  Window,     \* ticks an admitted attempt counts (a minute)
  MaxLogins,  \* attempts admitted per window (10)
  Delay,      \* most ticks between reading the clock and having the mutex
  Horizon     \* bounds the clock

ASSUME LimiterAssumption ==
  /\ Window \in Nat /\ Delay \in Nat /\ Delay < Window
  /\ MaxLogins \in Nat \ {0}
  /\ Horizon \in Nat

VARIABLES
  now,        \* the time of the latest attempt
  hits,       \* hits[k]: what is remembered of k, a list that is filtered and
              \* appended to only, here a set of numbered times
  admitted    \* history: when the attempts that this process admitted for k
              \* had the mutex; their numbers are the ones in hits

limiterVars == <<now, hits, admitted>>

Hit == [nr : Nat \ {0}, time : Nat]

LimiterInit ==
  /\ now = 0
  /\ hits = [k \in Keys |-> {}]
  /\ admitted = [k \in Keys |-> <<>>]

\* Faulty variant: a window that starts afresh at fixed times.
KeptFixed(k, t) == {h \in hits[k] : h.time \div Window = t \div Window}

\* What is after the cutoff.
Kept(k, t) == {h \in hits[k] : h.time > t - Window}

\* Faulty variant: one more.
AboveLimit(n) == n > MaxLogins

AtLimit(n) == n >= MaxLogins

Refuse(k, t) ==
  /\ hits' = [hits EXCEPT ![k] = Kept(k, t)]
  /\ UNCHANGED admitted

\* An attempt that read the clock at time t and has the mutex at time u.
Admit(k, t, u) ==
  LET hit == [nr |-> Len(admitted[k]) + 1, time |-> t] IN
  /\ hits' = [hits EXCEPT ![k] = Kept(k, t) \cup {hit}]
  /\ admitted' = [admitted EXCEPT ![k] = Append(@, u)]

\* allow: ok is its answer.
Allow(k, ok) ==
  \E u \in now .. Horizon : \E t \in u - Delay .. u :
    /\ t >= 0
    /\ ok = ~AtLimit(Cardinality(Kept(k, t)))
    /\ now' = u
    /\ IF ok THEN Admit(k, t, u) ELSE Refuse(k, t)

\* A process starts with an empty map.
LimiterRestart ==
  /\ hits' = [k \in Keys |-> {}]
  /\ admitted' = [k \in Keys |-> <<>>]
  /\ UNCHANGED now

-----------------------------------------------------------------------------

LimiterTypeOK ==
  /\ now \in Nat
  /\ hits \in [Keys -> SUBSET Hit]
  /\ admitted \in [Keys -> Seq(Nat)]
  /\ \A k \in Keys : Cardinality(hits[k]) <= MaxLogins

\* userauth.go: "per-key limiter guarding the public login endpoint".  However
\* attempts fall, and in whichever order they get the mutex, one process admits
\* no more than MaxLogins of a key in any stretch shorter than a window, less
\* what lies between reading the clock and the mutex; there is no boundary at
\* which two full bursts meet.
LoginsWithinLimit ==
  \A k \in Keys : \A i \in 1 .. Len(admitted[k]) - MaxLogins :
    admitted[k][i + MaxLogins] - admitted[k][i] >= Window - Delay

=============================================================================
