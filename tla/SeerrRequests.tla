----------------------------- MODULE SeerrRequests -----------------------------
(***************************************************************************)
(* Requesting the winning write-ins of a closed poll from Seerr            *)
(* (httpapi/handlers.go, requestWriteIn, autoRequestWinners and            *)
(* handleRequestWinner; httpapi/timer.go).                                 *)
(*                                                                         *)
(* Whoever sees the poll closed runs autoRequestWinners: the handler that  *)
(* closed it, and the sweeper when it lost the race and read the closed    *)
(* poll back.  The host may ask for any write-in besides.  Each looks for  *)
(* a recorded request, asks Seerr, and records the answer: three calls     *)
(* that others get between.  Seerr itself is external: it makes a request  *)
(* and answers, refuses, or makes it and the answer is lost.               *)
(***************************************************************************)
EXTENDS Naturals, FiniteSets

CONSTANTS
  Titles,     \* the poll's write-in nominations
  Winners,    \* those among the poll's winners
  Autos,      \* the runs of autoRequestWinners
  Closer,     \* the one of the handler that closed the poll
  Hosts,      \* the host's requests (handleRequestWinner), tabs or retries
  None,
  MaxFaults   \* bounds refusals, lost answers and interrupted handlers

ASSUME WinnersAssumption == Winners \subseteq Titles
ASSUME HandlersAssumption == Closer \in Autos /\ Autos \cap Hosts = {}
ASSUME NoneAssumption == None \notin Titles
ASSUME FaultsAssumption == MaxFaults \in Nat

VARIABLES
  recorded,  \* titles with a row in seerr_requests
  made,      \* made[t]: how many requests Seerr has for t
  run,       \* run[h]: what handler h is doing
  faults,    \* how many calls failed
  spoilt,    \* history: titles for which a call failed in some handler
  shared     \* history: titles that two handlers worked on at once

vars == <<recorded, made, run, faults, spoilt, shared>>

Handlers == Autos \cup Hosts

\* at: "start", "check" (GetSeerrRequest), "ask" (CreateRequest), "record"
\* (RecordSeerrRequest) or "done"; todo: the titles still to go through.
Run == [at : {"start", "check", "ask", "record", "done"},
        title : Titles \cup {None}, todo : SUBSET Titles]

Init ==
  /\ recorded = {}
  /\ made = [t \in Titles |-> 0]
  /\ run = [h \in Handlers |-> [at |-> "start", title |-> None, todo |-> {}]]
  /\ faults = 0 /\ spoilt = {} /\ shared = {}

-----------------------------------------------------------------------------

\* Faulty variant: the first title that fails ends the loop.
GiveUp(h, todo, failed) ==
  run' = [run EXCEPT ![h] =
    IF todo = {} \/ failed
      THEN [at |-> "done", title |-> None, todo |-> {}]
      ELSE LET t == CHOOSE x \in todo : TRUE
           IN [at |-> "check", title |-> t, todo |-> todo \ {t}]]

\* On to the next title, if any; a failure is only logged.
NextTitle(h, todo, failed) ==
  IF todo = {}
    THEN run' = [run EXCEPT ![h] = [at |-> "done", title |-> None, todo |-> {}]]
    ELSE \E t \in todo :
           run' = [run EXCEPT ![h] = [at |-> "check", title |-> t, todo |-> todo \ {t}]]

\* The winners are read from Results once, before the first call.
AutoRequest(h) ==
  /\ h \in Autos /\ run[h].at = "start"
  /\ NextTitle(h, Winners, FALSE)
  /\ UNCHANGED <<recorded, made, faults, spoilt, shared>>

\* Faulty variant: an id that is none of the poll's titles is not refused.
HostRequestAny(h) ==
  /\ h \in Hosts /\ run[h].at = "start"
  /\ \E t \in Titles \cup {None} : NextTitle(h, {t}, FALSE)
  /\ UNCHANGED <<recorded, made, faults, spoilt, shared>>

HostRequest(h) ==
  /\ h \in Hosts /\ run[h].at = "start"
  /\ \E t \in Titles : NextTitle(h, {t}, FALSE)
  /\ UNCHANGED <<recorded, made, faults, spoilt, shared>>

\* Somebody else has found nothing recorded for t and is about to change that.
Busy(t, h) ==
  \E g \in Handlers \ {h} : run[g].title = t /\ run[g].at \in {"ask", "record"}

\* Faulty variant: what is recorded is not looked at.
CheckNothing(h) ==
  /\ run[h].at = "check"
  /\ run' = [run EXCEPT ![h].at = "ask"]
  /\ shared' = shared \cup {t \in {run[h].title} : Busy(t, h)}
  /\ UNCHANGED <<recorded, made, faults, spoilt>>

GetSeerrRequest(h) ==
  LET t == run[h].title IN
  /\ run[h].at = "check"
  /\ IF t \in recorded
       THEN NextTitle(h, run[h].todo, FALSE) /\ UNCHANGED shared
       ELSE /\ run' = [run EXCEPT ![h].at = "ask"]
            /\ shared' = IF Busy(t, h) THEN shared \cup {t} ELSE shared
  /\ UNCHANGED <<recorded, made, faults, spoilt>>

Made(h) == made' = [made EXCEPT ![run[h].title] = @ + 1]

CreateRequest(h) ==
  /\ run[h].at = "ask"
  /\ Made(h)
  /\ run' = [run EXCEPT ![h].at = "record"]
  /\ UNCHANGED <<recorded, faults, spoilt, shared>>

\* Faulty variant: the error is logged and the outcome recorded all the same.
CreateFailsIgnored(h) ==
  /\ run[h].at = "ask" /\ faults < MaxFaults
  /\ Made(h) \/ UNCHANGED made
  /\ run' = [run EXCEPT ![h].at = "record"]
  /\ faults' = faults + 1 /\ spoilt' = spoilt \cup {run[h].title}
  /\ UNCHANGED <<recorded, shared>>

\* The error path of CreateRequest, with or without a request made.
CreateFails(h) ==
  /\ run[h].at = "ask" /\ faults < MaxFaults
  /\ Made(h) \/ UNCHANGED made
  /\ NextTitle(h, run[h].todo, TRUE)
  /\ faults' = faults + 1 /\ spoilt' = spoilt \cup {run[h].title}
  /\ UNCHANGED <<recorded, shared>>

\* The store's own error paths, at the look-up or at the record.
StoreFails(h) ==
  /\ run[h].at \in {"check", "record"} /\ faults < MaxFaults
  /\ NextTitle(h, run[h].todo, TRUE)
  /\ faults' = faults + 1 /\ spoilt' = spoilt \cup {run[h].title}
  /\ UNCHANGED <<recorded, made, shared>>

\* Faulty variant: the upsert of another handler's row is lost.
RecordNothing(h) ==
  /\ run[h].at = "record"
  /\ NextTitle(h, run[h].todo, FALSE)
  /\ UNCHANGED <<recorded, made, faults, spoilt, shared>>

RecordSeerrRequest(h) ==
  /\ run[h].at = "record"
  /\ recorded' = recorded \cup {run[h].title}
  /\ NextTitle(h, run[h].todo, FALSE)
  /\ UNCHANGED <<made, faults, spoilt, shared>>

\* The client leaves or the process dies: every later call fails too.
Interrupt(h) ==
  /\ faults < MaxFaults
  /\ \/ run[h].at = "start" /\ h \in Autos /\ spoilt' = spoilt \cup Winners
     \/ /\ run[h].at \in {"check", "ask", "record"}
        /\ spoilt' = spoilt \cup run[h].todo \cup {run[h].title}
  /\ run' = [run EXCEPT ![h] = [at |-> "done", title |-> None, todo |-> {}]]
  /\ faults' = faults + 1
  /\ UNCHANGED <<recorded, made, shared>>

Continue(h) ==
  \/ GetSeerrRequest(h) \/ CreateRequest(h) \/ RecordSeerrRequest(h)
  \/ CreateFails(h) \/ StoreFails(h)

Rest == (\A h \in Handlers : run[h].at = "done") /\ UNCHANGED vars

Next ==
  \/ \E h \in Handlers :
       AutoRequest(h) \/ HostRequest(h) \/ Continue(h) \/ Interrupt(h)
  \/ Rest

\* A handler that runs goes on to its end, and whoever closed the poll runs one.
\* That the sweeper runs another, or that the host asks, may happen or not.
Fairness ==
  /\ WF_vars(AutoRequest(Closer))
  /\ \A h \in Handlers : WF_vars(Continue(h))

Spec == Init /\ [][Next]_vars /\ Fairness

-----------------------------------------------------------------------------
(* Properties. *)

TypeOK ==
  /\ recorded \subseteq Titles
  /\ made \in [Titles -> Nat]
  /\ run \in [Handlers -> Run]
  /\ faults \in 0 .. MaxFaults
  /\ spoilt \subseteq Titles /\ shared \subseteq Titles

\* A recorded request was made: "already requested" is never told of a title
\* Seerr never heard of, however handlers and failures cross.
RecordedWereMade == \A t \in recorded : made[t] > 0

\* Two requests for a title take two handlers in the middle of it at once, or
\* a call that failed in between; handlers that follow each other ask once.
OnceUnlessDisturbed ==
  \A t \in Titles : made[t] > 1 => t \in spoilt \cup shared

\* One title of several failing does not keep the others from being requested.
WinnersRequested ==
  \A t \in Winners : <>(t \in recorded \/ t \in spoilt)

\* handlers.go: requestWriteIn records the outcome "so it fires at most once".
AtMostOnce == \A t \in Titles : made[t] <= 1

=============================================================================
