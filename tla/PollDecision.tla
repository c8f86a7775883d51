----------------------------- MODULE PollDecision -----------------------------
(***************************************************************************)
(* What everyone who watches a poll may rely on, however requests are      *)
(* interleaved or cut short: the poll only moves forward, and a winner is  *)
(* set at most once, on a closed poll, and never changes while the poll    *)
(* exists (service.go, advanceCore and BreakTie).                          *)
(***************************************************************************)
CONSTANTS Noms, None

VARIABLES status, winner

decision == <<status, winner>>

Init == status = "round1" /\ winner = None

Open == status = "round1" /\ status' = "round2" /\ UNCHANGED winner

Close ==
  /\ status \in {"round1", "round2"}
  /\ status' = "closed"
  /\ UNCHANGED winner

Decide ==
  /\ status = "closed"
  /\ winner = None
  /\ winner' \in Noms
  /\ UNCHANGED status

Delete == status # "gone" /\ status' = "gone" /\ winner' = None

Next == Open \/ Close \/ Decide \/ Delete

Spec == Init /\ [][Next]_decision

=============================================================================
