---------------------------- MODULE MCPollAccess ----------------------------
(* A small instance of PollAccess: what it is symmetric in. *)
EXTENDS PollAccess, TLC

Symmetry ==
  Permutations(Browsers) \cup Permutations(Polls)
    \cup Permutations(Codes) \cup Permutations(Requests)

=============================================================================
