--------------------------- MODULE MCPollLifecycle ---------------------------
(* Small instances of PollLifecycle for TLC. *)
EXTENDS PollLifecycle, TLC

Kind(decides, timed, selfVote, cap) ==
  [decides |-> decides, timed |-> timed, selfVote |-> selfVote, cap |-> cap]

\* Without a cap, a host-driven vote and a timed draw.
TwoKinds == {Kind(FALSE, FALSE, TRUE, 0), Kind(TRUE, TRUE, TRUE, 0)}

\* Every switch, with the tightest cap.
AllKinds == [decides : BOOLEAN, timed : BOOLEAN, selfVote : BOOLEAN, cap : {0, 1}]

Symmetry == Permutations(Noms) \cup Permutations(Items) \cup Permutations(Requests)

=============================================================================
