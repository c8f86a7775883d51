-------------------------------- MODULE PollHub --------------------------------
(***************************************************************************)
(* How the pages that show one poll hear of its changes                    *)
(* (httpapi/sse.go, the handlers that broadcast and the one that does not, *)
(* respondView, and the web client's poll page).                           *)
(*                                                                         *)
(* A handler commits its change, then publishes an event to the channel of *)
(* every connected page, dropping it where the channel is full, records    *)
(* the Seerr requests of a poll that it closed, and answers its own page   *)
(* with a view.  Joining and those records are published to nobody.  A     *)
(* page opens by asking for the poll and for a stream of events at once,   *)
(* and asks again on every event; each answer replaces what it shows, in   *)
(* the order they arrive, and a fetch that fails puts an error there.      *)
(*                                                                         *)
(* Events carry no state, so a channel is a count, and what a page shows   *)
(* is the number of the last change it has for certain.                    *)
(***************************************************************************)
EXTENDS Naturals

CONSTANTS
  Pages,       \* open poll pages
  Handlers,    \* the changes that may be under way at once
  Others,      \* everybody else: the sweeper, the admin, readers of other pages
  Capacity,    \* of a channel (8 in the code)
  LastVersion, \* bounds the changes
  MaxBreaks    \* bounds what fails: handlers, fetches and streams

ASSUME OthersAssumption == Others \notin Pages
ASSUME BoundsAssumption ==
  Capacity \in Nat \ {0} /\ LastVersion \in Nat \ {0} /\ MaxBreaks \in Nat

VARIABLES
  version,   \* the poll as the database has it
  members,   \* the pages whose reader has joined
  act,       \* act[h]: what handler h is doing
  stream,    \* stream[p]: p's event stream
  buffer,    \* buffer[p]: events in p's channel or on their way to p
  asked,     \* asked[p]: fetches of p the server has not read the poll for
  answers,   \* answers[p][v]: answers to fetches on their way to p: views of
             \* version v or, where v is 0, errors
  shown,     \* shown[p]: the version p shows; 0: none yet, or an error
  breaks,    \* how much went wrong so far
  announced, \* history: the version that was broadcast last
  owed       \* history: owed[p]: the version p is to show once all is quiet

vars == <<version, members, act, stream, buffer, asked, answers, shown, breaks,
          announced, owed>>

\* The hub and the connections; what a page waits for and shows.
hub == <<stream, buffer>>
page == <<asked, answers, shown>>
told == <<announced, owed>>

Versions == 1 .. LastVersion

\* at: "join" and "commit" before the change, "publish" and "record" after it,
\* "view" before the view is read and "reply" while it travels; seen: the
\* version loaded and, in a reply, the one it shows.
Act == [at : {"idle", "join", "commit", "publish", "record", "view", "reply"},
        who : Pages \cup {Others}, seen : Versions \cup {0}]

Idle == [at |-> "idle", who |-> Others, seen |-> 0]

\* refresh and events are called together when the page opens.
Init ==
  /\ version = 1
  /\ members \in SUBSET Pages
  /\ act = [h \in Handlers |-> Idle]
  /\ stream = [p \in Pages |-> "connecting"]
  /\ buffer = [p \in Pages |-> 0]
  /\ asked = [p \in Pages |-> 1]
  /\ answers = [p \in Pages |-> [v \in 0 .. LastVersion |-> 0]]
  /\ shown = [p \in Pages |-> 0]
  /\ breaks = 0
  /\ announced = 1
  /\ owed = [p \in Pages |-> 0]

-----------------------------------------------------------------------------
(* Changing the poll.                                                       *)

\* The handler loads the row, to change the poll or to have w join it.  A page
\* that shows no poll has no button to press; only members get past
\* requireParticipant, and for them handleJoin changes nothing.
Load(h, w, at) ==
  /\ act[h] = Idle /\ version < LastVersion
  /\ w \in Pages => shown[w] > 0 /\ (at = "commit" <=> w \in members)
  /\ act' = [act EXCEPT ![h] = [at |-> at, who |-> w, seen |-> version]]
  /\ UNCHANGED <<version, members, hub, page, breaks, told>>

Change == version < LastVersion /\ version' = version + 1

\* The handler's own copy of the row has its change in it, but nobody else's.
Changed(o) == [o EXCEPT !.seen = IF @ = version THEN version + 1 ELSE @]

\* Only the answer is left, if it goes to one of Pages.
Done(o) == IF o.who = Others THEN Idle ELSE [o EXCEPT !.at = "view"]

\* Nominations, withdrawals, votes, the host's and the admin's controls, the
\* sweeper's rounds: all these are broadcast.
Commit(h) ==
  /\ act[h].at = "commit"
  /\ Change
  /\ act' = [act EXCEPT ![h] = [Changed(@) EXCEPT !.at = "publish"]]
  /\ UNCHANGED <<members, hub, page, breaks, told>>

\* handleJoin: every view counts the participants, but nobody is told.
InsertParticipant(h) ==
  /\ act[h].at = "join"
  /\ Change
  /\ act' = [act EXCEPT ![h] = Done(Changed(@))]
  /\ members' = members \cup ({act[h].who} \cap Pages)
  /\ UNCHANGED <<hub, page, breaks, told>>

\* What comes after the broadcast, for every page with a stream: it is owed the
\* poll as it is now, even where its event was dropped.
Published(h) ==
  /\ act' = [act EXCEPT ![h].at = "record"]
  /\ announced' = version
  /\ owed' = [p \in Pages |-> IF stream[p] = "open" THEN version ELSE owed[p]]
  /\ UNCHANGED <<version, members, stream, page, breaks>>

\* Faulty variant: the capacity is not looked at.
PublishBlindly(h) ==
  /\ act[h].at = "publish"
  /\ buffer' = [p \in Pages |-> buffer[p] + IF stream[p] = "open" THEN 1 ELSE 0]
  /\ Published(h)

\* Faulty variant: the acting page gets its view and no event.
PublishToOthers(h) ==
  /\ act[h].at = "publish"
  /\ buffer' = [p \in Pages |->
       IF stream[p] = "open" /\ p # act[h].who /\ buffer[p] < Capacity
         THEN buffer[p] + 1 ELSE buffer[p]]
  /\ Published(h)

\* broadcast: a non-blocking send to every subscriber, under the hub's lock.
Publish(h) ==
  /\ act[h].at = "publish"
  /\ buffer' = [p \in Pages |->
       IF stream[p] = "open" /\ buffer[p] < Capacity THEN buffer[p] + 1 ELSE buffer[p]]
  /\ Published(h)

\* autoRequestWinners, where the change closed the poll: each record shows in
\* the results, and no broadcast follows.
Record(h) ==
  /\ act[h].at = "record"
  /\ Change
  /\ act' = [act EXCEPT ![h] = Changed(@)]
  /\ UNCHANGED <<members, hub, page, breaks, told>>

\* Nothing is left to record, or there was nothing.
Finish(h) ==
  /\ act[h].at = "record"
  /\ act' = [act EXCEPT ![h] = Done(@)]
  /\ UNCHANGED <<version, members, hub, page, breaks, told>>

\* respondView joins the row loaded at the start with tables read now: after
\* somebody else's change the view may be as old as that row.
RespondView(h) ==
  /\ act[h].at = "view"
  /\ \E v \in {version, act[h].seen} :
       act' = [act EXCEPT ![h].at = "reply", ![h].seen = v]
  /\ UNCHANGED <<version, members, hub, page, breaks, told>>

\* The handler is cut short: a statement fails, the request is cancelled or the
\* process dies (which then also breaks every stream and fetch).  What it has
\* changed stays, and without a broadcast nobody is told.
Fail(h) ==
  /\ act[h].at # "idle" /\ breaks < MaxBreaks
  /\ act' = [act EXCEPT ![h] = Idle]
  /\ breaks' = breaks + 1
  /\ UNCHANGED <<version, members, hub, page, told>>

-----------------------------------------------------------------------------
(* A page's stream of events.                                               *)

\* A new channel; an EventSource whose stream broke comes back here.
Subscribe(p) ==
  /\ stream[p] = "connecting"
  /\ stream' = [stream EXCEPT ![p] = "open"]
  /\ UNCHANGED <<version, members, act, buffer, page, breaks, told>>

\* pollFromCode fails: an EventSource gives up on any status but 200.
Refuse(p) ==
  /\ stream[p] = "connecting" /\ breaks < MaxBreaks
  /\ stream' = [stream EXCEPT ![p] = "closed"]
  /\ breaks' = breaks + 1
  /\ UNCHANGED <<version, members, act, buffer, page, told>>

\* The stream breaks, and the channel goes with what is in it.
Disconnect(p) ==
  /\ stream[p] = "open" /\ breaks < MaxBreaks
  /\ stream' = [stream EXCEPT ![p] = "connecting"]
  /\ buffer' = [buffer EXCEPT ![p] = 0]
  /\ breaks' = breaks + 1
  /\ owed' = [owed EXCEPT ![p] = IF buffer[p] > 0 THEN 0 ELSE @]
  /\ UNCHANGED <<version, members, act, page, announced>>

\* Faulty variant: one fetch at a time, an event in the meantime is ignored.
HearUnlessBusy(p) ==
  /\ buffer[p] > 0
  /\ buffer' = [buffer EXCEPT ![p] = @ - 1]
  /\ asked' = [asked EXCEPT ![p] =
       IF @ > 0 \/ \E v \in 0 .. LastVersion : answers[p][v] > 0 THEN @ ELSE @ + 1]
  /\ UNCHANGED <<version, members, act, stream, answers, shown, breaks, told>>

\* Every event makes the page fetch, whatever else it waits for.
Hear(p) ==
  /\ buffer[p] > 0
  /\ buffer' = [buffer EXCEPT ![p] = @ - 1]
  /\ asked' = [asked EXCEPT ![p] = @ + 1]
  /\ UNCHANGED <<version, members, act, stream, answers, shown, breaks, told>>

-----------------------------------------------------------------------------
(* A page's fetches.                                                        *)

Answer(p, v) ==
  /\ asked[p] > 0
  /\ asked' = [asked EXCEPT ![p] = @ - 1]
  /\ answers' = [answers EXCEPT ![p][v] = @ + 1]
  /\ UNCHANGED <<version, members, act, hub, shown, announced>>

\* handleGetPoll loads the row; what the view joins with it is no older.
Serve(p) ==
  /\ Answer(p, version)
  /\ owed' = [owed EXCEPT ![p] = version]
  /\ UNCHANGED breaks

\* The poll is not loaded, the view is not built or the network is down.
FailFetch(p) ==
  /\ breaks < MaxBreaks
  /\ Answer(p, 0)
  /\ breaks' = breaks + 1
  /\ UNCHANGED owed

\* Page p showed what it was owed, and an older view arrives after that.
Overtaken(p, v) == v < owed[p] /\ owed[p] <= shown[p]

\* refresh: answers arrive in any order and the last one stays; an error takes
\* the poll's place and nothing fetches again.
Show(p) ==
  \E v \in 0 .. LastVersion :
    /\ answers[p][v] > 0
    /\ answers' = [answers EXCEPT ![p][v] = @ - 1]
    /\ shown' = [shown EXCEPT ![p] = v]
    /\ owed' = [owed EXCEPT ![p] = IF v = 0 \/ Overtaken(p, v) THEN 0 ELSE @]
    /\ UNCHANGED <<version, members, act, hub, asked, breaks, announced>>

\* update: the view that answers a page's own change, behind an error that the
\* page may show.
ShowReply(h) ==
  LET p == act[h].who  v == act[h].seen IN
  /\ act[h].at = "reply"
  /\ act' = [act EXCEPT ![h] = Idle]
  /\ IF shown[p] = 0 THEN UNCHANGED <<shown, owed>>
     ELSE /\ shown' = [shown EXCEPT ![p] = v]
          /\ owed' = [owed EXCEPT ![p] = IF Overtaken(p, v) THEN 0 ELSE @]
  /\ UNCHANGED <<version, members, hub, asked, answers, breaks, announced>>

-----------------------------------------------------------------------------

Proceed(h) ==
  Commit(h) \/ InsertParticipant(h) \/ Publish(h) \/ Record(h) \/ Finish(h)
    \/ RespondView(h) \/ ShowReply(h)

Connect(p) == Subscribe(p) \/ Hear(p)
Refresh(p) == Serve(p) \/ Show(p)

Break(p) == Refuse(p) \/ Disconnect(p) \/ FailFetch(p)

\* Nothing is on its way to p.
Settled(p) ==
  buffer[p] = 0 /\ asked[p] = 0 /\ \A v \in 0 .. LastVersion : answers[p][v] = 0

\* The bound on the changes is reached; a handler before its change waits there.
Rest ==
  /\ version = LastVersion
  /\ \A h \in Handlers : act[h].at \in {"idle", "join", "commit"}
  /\ \A p \in Pages : Settled(p) /\ stream[p] # "connecting"
  /\ UNCHANGED vars

Next ==
  \/ \E h \in Handlers :
       \/ Proceed(h) \/ Fail(h)
       \/ \E w \in Pages \cup {Others}, at \in {"commit", "join"} : Load(h, w, at)
  \/ \E p \in Pages : Connect(p) \/ Refresh(p) \/ Break(p)
  \/ Rest

\* Handlers run to their end, and a page's connections make progress.
Fairness ==
  /\ \A h \in Handlers : WF_vars(Proceed(h))
  /\ \A p \in Pages :
       WF_vars(Subscribe(p)) /\ WF_vars(Hear(p)) /\ WF_vars(Serve(p)) /\ WF_vars(Show(p))

Spec == Init /\ [][Next]_vars /\ Fairness

-----------------------------------------------------------------------------
(* Properties.                                                              *)

\* Types; and no page, view, answer or debt is ahead of the database.
TypeOK ==
  /\ version \in Versions
  /\ members \subseteq Pages
  /\ act \in [Handlers -> Act]
  /\ stream \in [Pages -> {"connecting", "open", "closed"}]
  /\ buffer \in [Pages -> 0 .. Capacity]
  /\ asked \in [Pages -> Nat]
  /\ answers \in [Pages -> [0 .. LastVersion -> Nat]]
  /\ shown \in [Pages -> 0 .. version]
  /\ breaks \in 0 .. MaxBreaks
  /\ announced \in 1 .. version
  /\ owed \in [Pages -> 0 .. version]
  /\ \A h \in Handlers : act[h].seen <= version
  /\ \A p \in Pages : \A v \in 0 .. LastVersion : answers[p][v] > 0 => v <= version

\* sse.go: listeners whose buffer is full "catch up on their next refetch".  A
\* dropped event costs nothing: once all is quiet, a page shows at least what was
\* in the database at the last broadcast while its stream was open, dropped event
\* or not, and when the server last answered it.  It is owed nothing more than
\* that: not a join or a Seerr record after the last broadcast, a change cut short
\* before its broadcast, or what was broadcast while its stream was not open.  And
\* nothing is owed any longer once an error took the poll's place, an event was
\* lost with its stream, or an older view arrived after a newer one.
DroppedEventsAreHarmless ==
  \A p \in Pages : Settled(p) => shown[p] >= owed[p]

\* The same as a promise: in the end every page shows for good what it is owed,
\* however its fetches, its own replies and others' changes cross.
PagesCatchUp == \A p \in Pages : <>[](shown[p] >= owed[p])

\* docs/go-walkthrough/07: a dropped event is harmless, since "the next event, or
\* the periodic refetch, brings it current".  The page has no periodic refetch:
\* even one that lost nothing on the way (it is owed what it saw) may never show
\* what was broadcast between its first fetch and its subscription.
EveryPageComesCurrent ==
  \A p \in Pages : <>[](shown[p] >= announced \/ owed[p] = 0)

=============================================================================
