----------------------------- MODULE PollHubProofs -----------------------------
(***************************************************************************)
(* Proofs about PollHub, for any number of pages, of handlers at once, of  *)
(* changes and of failures, and for any capacity of the channels.          *)
(***************************************************************************)
EXTENDS PollHub, TLAPS

\* Page p shows what it is owed, or is going to fetch, or waits for an answer
\* that is no older, or for an error, which ends the debt.
Told(p) ==
  \/ shown[p] >= owed[p]
  \/ buffer[p] > 0 \/ asked[p] > 0
  \/ \E v \in 0 .. LastVersion : answers[p][v] > 0 /\ (v = 0 \/ v >= owed[p])

\* A handler that has seen no more than version n, and answers only a page.
Sane(o, n) ==
  /\ o \in Act /\ o.seen <= n
  /\ o.at \in {"view", "reply"} => o.who \in Pages

\* The inductive invariant.
IInv == TypeOK /\ (\A h \in Handlers : Sane(act[h], version)) /\ \A p \in Pages : Told(p)

-----------------------------------------------------------------------------
(* Helpers.                                                                 *)

LEMMA Numbers ==
  ASSUME TypeOK
  PROVE  /\ version \in Nat /\ version \in 1 .. LastVersion /\ LastVersion \in Nat
         /\ Capacity \in Nat /\ Capacity > 0 /\ MaxBreaks \in Nat
         /\ \A p \in Pages : /\ shown[p] \in Nat /\ owed[p] \in Nat /\ asked[p] \in Nat
                              /\ buffer[p] \in Nat
                              /\ \A v \in 0 .. LastVersion : answers[p][v] \in Nat
BY BoundsAssumption DEF TypeOK, Versions

\* One more, or one less, answer of version v on its way to p.
LEMMA Answers ==
  ASSUME NEW f \in [Pages -> [0 .. LastVersion -> Nat]], NEW p \in Pages,
         NEW v \in 0 .. LastVersion, NEW n \in Nat
  PROVE  LET g == [f EXCEPT ![p][v] = n] IN
         /\ g \in [Pages -> [0 .. LastVersion -> Nat]]
         /\ g[p][v] = n
         /\ \A q \in Pages, w \in 0 .. LastVersion : q # p \/ w # v => g[q][w] = f[q][w]
OBVIOUS

LEMMA AllSane ==
  ASSUME IInv, NEW h \in Handlers, NEW o, Sane(o, version'),
         version' \in {version, version + 1},
         act' = [act EXCEPT ![h] = o]
  PROVE  /\ act' \in [Handlers -> Act]
         /\ \A g \in Handlers : act'[g].seen <= version' /\ Sane(act'[g], version')
<1>1. \A g \in Handlers : act[g].seen \in Nat /\ Sane(act[g], version)
  BY DEF IInv, TypeOK, Act, Versions
<1>2. version \in Nat /\ act \in [Handlers -> Act]
  BY Numbers DEF IInv, TypeOK
<1> QED BY <1>1, <1>2 DEF Sane

\* What is left of a handler after its change.
LEMMA DoneSane ==
  ASSUME NEW o \in Act, NEW n \in Nat, o.seen <= n
  PROVE  Sane(Done(o), n) /\ Sane(Idle, n)
<1>1. Idle \in Act /\ Idle.seen = 0 /\ Idle.at = "idle"
  BY DEF Idle, Act
<1>2. CASE o.who = Others
  BY <1>1, <1>2 DEF Done, Sane
<1>3. CASE o.who # Others
  <2> DEFINE d == [o EXCEPT !.at = "view"]
  <2>1. d \in Act /\ d.seen = o.seen /\ d.who \in Pages
    BY <1>3 DEF Act
  <2> QED BY <1>1, <1>3, <2>1 DEF Done, Sane
<1> QED BY <1>2, <1>3

LEMMA ChangedTyped ==
  ASSUME TypeOK, Change, NEW h \in Handlers
  PROVE  /\ Changed(act[h]) \in Act
         /\ Changed(act[h]).seen <= version' /\ version' = version + 1 /\ version' \in Versions
<1>1. act[h] \in Act /\ act[h].seen <= version /\ act[h].seen \in Nat
  BY DEF TypeOK, Act, Versions
<1>2. version + 1 \in Versions /\ version \in Nat /\ version' = version + 1
  BY Numbers DEF Change, Versions
<1> QED BY <1>1, <1>2 DEF Changed, Act

\* A step of a handler that concerns no page.
LEMMA Apart ==
  ASSUME IInv, NEW h \in Handlers, NEW o, Sane(o, version'),
         act' = [act EXCEPT ![h] = o],
         \/ version' = version
         \/ version' = version + 1 /\ version' \in Versions,
         members' \subseteq Pages, breaks' \in 0 .. MaxBreaks,
         UNCHANGED <<hub, page, told>>
  PROVE  IInv'
<1>1. TypeOK /\ version \in Nat
  BY Numbers DEF IInv
<1>2. /\ act' \in [Handlers -> Act]
      /\ \A g \in Handlers : act'[g].seen <= version' /\ Sane(act'[g], version')
  BY <1>1, AllSane
<1>3. /\ version' \in Versions
      /\ 0 .. version \subseteq 0 .. version' /\ 1 .. version \subseteq 1 .. version'
  BY <1>1 DEF TypeOK
<1>4. \A p \in Pages : \A v \in 0 .. LastVersion : answers[p][v] > 0 => v <= version'
  BY <1>1 DEF TypeOK
<1>5. /\ shown \in [Pages -> 0 .. version'] /\ owed \in [Pages -> 0 .. version']
      /\ announced \in 1 .. version'
  BY <1>1, <1>3 DEF TypeOK
<1>6. TypeOK'
  BY <1>1, <1>2, <1>3, <1>4, <1>5 DEF TypeOK, hub, page, told
<1>7. \A p \in Pages : Told(p)'
  BY DEF IInv, Told, hub, page, told
<1> QED BY <1>2, <1>6, <1>7 DEF IInv

\* A step that leaves the handlers and all pages but p alone keeps the debts of
\* the others.
LEMMA OtherPages ==
  ASSUME IInv, NEW p \in Pages, NEW q \in Pages, q # p,
         shown'[q] = shown[q], owed'[q] = owed[q], buffer'[q] = buffer[q],
         asked'[q] = asked[q],
         \A v \in 0 .. LastVersion : answers'[q][v] = answers[q][v]
  PROVE  Told(q)'
BY DEF IInv, Told

-----------------------------------------------------------------------------
(* The handlers.                                                            *)

LEMMA LoadStep ==
  ASSUME IInv, NEW h \in Handlers, NEW w \in Pages \cup {Others},
         NEW at \in {"commit", "join"}, Load(h, w, at)
  PROVE  IInv'
<1> DEFINE o == [at |-> at, who |-> w, seen |-> version]
<1>1. TypeOK /\ version \in Nat
  BY Numbers DEF IInv
<1>2. Sane(o, version)
  BY <1>1 DEF Act, TypeOK, Sane
<1>3. act' = [act EXCEPT ![h] = o]
  BY DEF Load
<1> HIDE DEF o
<1> QED BY <1>1, <1>2, <1>3, Apart DEF Load, TypeOK

LEMMA ChangeStep ==
  ASSUME IInv, NEW h \in Handlers, Commit(h) \/ InsertParticipant(h) \/ Record(h)
  PROVE  IInv'
<1>1. TypeOK /\ Change
  BY DEF IInv, Commit, InsertParticipant, Record
<1> DEFINE o == Changed(act[h])
<1>2. /\ o \in Act /\ o.seen <= version' /\ version' = version + 1 /\ version' \in Versions
      /\ version' \in Nat
  BY <1>1, ChangedTyped DEF Versions
<1>3. breaks' \in 0 .. MaxBreaks /\ members' \subseteq Pages /\ UNCHANGED <<hub, page, told>>
  BY <1>1 DEF TypeOK, Commit, InsertParticipant, Record
<1> HIDE DEF o
<1>4. CASE Commit(h)
  <2> DEFINE d == [o EXCEPT !.at = "publish"]
  <2>1. Sane(d, version')
    BY <1>2 DEF Act, Sane
  <2>2. act' = [act EXCEPT ![h] = d]
    BY <1>4 DEF Commit, o
  <2> HIDE DEF d
  <2> QED BY <1>2, <1>3, <2>1, <2>2, Apart
<1>5. CASE InsertParticipant(h)
  <2>1. Sane(Done(o), version')
    BY <1>2, DoneSane
  <2>2. act' = [act EXCEPT ![h] = Done(o)]
    BY <1>5 DEF InsertParticipant, o
  <2> QED BY <1>2, <1>3, <2>1, <2>2, Apart
<1>6. CASE Record(h)
  <2>1. act' = [act EXCEPT ![h] = o]
    BY <1>6 DEF Record, o
  <2>2. o.at = "record"
    BY <1>6 DEF Record, o, Changed, IInv, TypeOK, Act
  <2>3. Sane(o, version')
    BY <1>2, <2>2 DEF Sane
  <2> QED BY <1>2, <1>3, <2>1, <2>3, Apart
<1> QED BY <1>4, <1>5, <1>6

LEMMA PublishStep ==
  ASSUME IInv, NEW h \in Handlers, Publish(h)
  PROVE  IInv'
<1>1. /\ TypeOK /\ version \in Nat /\ version \in 1 .. LastVersion
      /\ Capacity \in Nat /\ Capacity > 0
  BY Numbers DEF IInv
<1>2. /\ version' = version /\ UNCHANGED <<members, stream, page, breaks>>
      /\ announced' = version
      /\ owed' = [p \in Pages |-> IF stream[p] = "open" THEN version ELSE owed[p]]
      /\ buffer' = [p \in Pages |->
           IF stream[p] = "open" /\ buffer[p] < Capacity THEN buffer[p] + 1 ELSE buffer[p]]
  BY DEF Publish, Published
<1> DEFINE o == [act[h] EXCEPT !.at = "record"]
<1>3. Sane(o, version')
  BY <1>1, <1>2 DEF TypeOK, Act, Sane
<1>4. act' = [act EXCEPT ![h] = o]
  BY DEF Publish, Published
<1> HIDE DEF o
<1>5. /\ act' \in [Handlers -> Act]
      /\ \A g \in Handlers : act'[g].seen <= version' /\ Sane(act'[g], version')
  BY <1>1, <1>2, <1>3, <1>4, AllSane
<1>6. ASSUME NEW p \in Pages
      PROVE  /\ buffer'[p] \in 0 .. Capacity
             /\ stream[p] = "open" => buffer'[p] > 0
             /\ stream[p] # "open" => buffer'[p] = buffer[p] /\ owed'[p] = owed[p]
             /\ owed'[p] \in 0 .. version
  BY <1>1, <1>2 DEF TypeOK
<1>7. TypeOK'
  <2>1. buffer' \in [Pages -> 0 .. Capacity] /\ owed' \in [Pages -> 0 .. version]
    BY <1>2, <1>6
  <2>2. announced' \in 1 .. version
    BY <1>1, <1>2
  <2> QED BY <1>1, <1>2, <1>5, <2>1, <2>2 DEF TypeOK, page
<1>8. ASSUME NEW p \in Pages PROVE Told(p)'
  <2>1. CASE stream[p] = "open"
    BY <1>6, <2>1 DEF Told
  <2>2. CASE stream[p] # "open"
    <3>1. buffer'[p] = buffer[p] /\ owed'[p] = owed[p]
      BY <1>6, <2>2
    <3> QED BY <1>2, <3>1 DEF IInv, Told, page
  <2> QED BY <2>1, <2>2
<1> QED BY <1>2, <1>5, <1>7, <1>8 DEF IInv

LEMMA EndStep ==
  ASSUME IInv, NEW h \in Handlers, Finish(h) \/ RespondView(h) \/ Fail(h)
  PROVE  IInv'
<1>1. TypeOK /\ version \in Nat /\ version \in Versions
  BY Numbers DEF IInv, TypeOK
<1>2. /\ version' = version /\ members' \subseteq Pages /\ UNCHANGED <<hub, page, told>>
      /\ breaks' \in 0 .. MaxBreaks
  BY <1>1, BoundsAssumption DEF TypeOK, Finish, RespondView, Fail
<1>3. act[h] \in Act /\ act[h].seen <= version /\ act[h].seen \in Versions \cup {0}
  BY <1>1 DEF TypeOK, Act
<1>4. Sane(Done(act[h]), version) /\ Sane(Idle, version)
  BY <1>1, <1>3, DoneSane
<1>5. CASE Finish(h)
  BY <1>2, <1>4, <1>5, Apart DEF Finish
<1>6. CASE Fail(h)
  BY <1>2, <1>4, <1>6, Apart DEF Fail
<1>7. CASE RespondView(h)
  <2>1. PICK v \in {version, act[h].seen} :
          act' = [act EXCEPT ![h].at = "reply", ![h].seen = v]
    BY <1>7 DEF RespondView
  <2> DEFINE o == [act[h] EXCEPT !.at = "reply", !.seen = v]
  <2>4. v \in Versions \cup {0} /\ v <= version
    BY <1>1, <1>3
  <2>5. act[h].who \in Pages
    BY <1>7 DEF RespondView, IInv, Sane
  <2>2. Sane(o, version)
    BY <1>3, <2>4, <2>5 DEF Act, Sane
  <2>3. act' = [act EXCEPT ![h] = o]
    BY <2>1
  <2> HIDE DEF o
  <2> QED BY <1>2, <2>2, <2>3, Apart
<1> QED BY <1>5, <1>6, <1>7

-----------------------------------------------------------------------------
(* What pages show.                                                         *)

\* Page p shows version v now, which may have been one of the answers on their
\* way to it: the debt ends, or what it waits for is still on its way.
LEMMA Showing ==
  ASSUME TypeOK, NEW p \in Pages, Told(p), NEW v \in 0 .. LastVersion,
         shown'[p] = v, buffer'[p] = buffer[p], asked'[p] = asked[p],
         \/ owed'[p] = 0
         \/ /\ owed'[p] = owed[p] /\ ~ Overtaken(p, v)
            /\ \A w \in 0 .. LastVersion :
                 answers'[p][w] = answers[p][w] \/ (w = v /\ v # 0)
  PROVE  Told(p)'
<1>1. /\ owed[p] \in Nat /\ shown[p] \in Nat /\ LastVersion \in Nat
      /\ buffer[p] \in Nat /\ asked[p] \in Nat
  BY Numbers
<1>2. CASE owed'[p] = 0 \/ (owed'[p] = owed[p] /\ v >= owed[p])
  BY <1>1, <1>2 DEF Told
\* An older view arrives before what p is owed: that is still to come.
<1>3. CASE /\ owed'[p] = owed[p] /\ ~ Overtaken(p, v) /\ v < owed[p]
           /\ \A w \in 0 .. LastVersion :
                answers'[p][w] = answers[p][w] \/ (w = v /\ v # 0)
  <2>1. ~ (shown[p] >= owed[p])
    BY <1>1, <1>3 DEF Overtaken
  <2>2. CASE buffer[p] > 0 \/ asked[p] > 0
    BY <2>2 DEF Told
  <2>3. CASE \E w \in 0 .. LastVersion : answers[p][w] > 0 /\ (w = 0 \/ w >= owed[p])
    <3>1. PICK w \in 0 .. LastVersion : answers[p][w] > 0 /\ (w = 0 \/ w >= owed[p])
      BY <2>3
    <3>2. ~ (w = v /\ v # 0)
      BY <1>1, <1>3, <3>1
    <3>3. answers'[p][w] > 0 /\ (w = 0 \/ w >= owed'[p])
      BY <1>3, <3>1, <3>2
    <3> QED BY <3>3 DEF Told
  <2> QED BY <2>1, <2>2, <2>3 DEF Told
<1> QED BY <1>1, <1>2, <1>3

LEMMA ShowStep ==
  ASSUME IInv, NEW p \in Pages, Show(p)
  PROVE  IInv'
<1>1. TypeOK /\ version \in Nat
  BY Numbers DEF IInv
<1>2. PICK v \in 0 .. LastVersion :
        /\ answers[p][v] > 0
        /\ answers' = [answers EXCEPT ![p][v] = answers[p][v] - 1]
        /\ shown' = [shown EXCEPT ![p] = v]
        /\ owed' = [owed EXCEPT ![p] = IF v = 0 \/ Overtaken(p, v) THEN 0 ELSE owed[p]]
        /\ UNCHANGED <<version, members, act, hub, asked, breaks, announced>>
  BY DEF Show
<1>3. answers[p][v] - 1 \in Nat /\ v <= version /\ answers \in [Pages -> [0 .. LastVersion -> Nat]]
  <2>1. answers[p][v] \in Nat
    BY <1>1, Numbers
  <2> QED BY <1>1, <1>2, <2>1 DEF TypeOK
<1>4. /\ answers' \in [Pages -> [0 .. LastVersion -> Nat]]
      /\ answers'[p][v] = answers[p][v] - 1
      /\ \A q \in Pages, w \in 0 .. LastVersion : q # p \/ w # v => answers'[q][w] = answers[q][w]
  BY <1>2, <1>3, Answers
<1>5. TypeOK'
  <2>1. shown' \in [Pages -> 0 .. version] /\ owed' \in [Pages -> 0 .. version]
    BY <1>1, <1>2, <1>3 DEF TypeOK
  <2>2. ASSUME NEW q \in Pages, NEW w \in 0 .. LastVersion, answers'[q][w] > 0
        PROVE  w <= version
    BY <1>1, <1>3, <1>4, <2>2 DEF TypeOK
  <2> QED BY <1>1, <1>2, <1>4, <2>1, <2>2 DEF TypeOK, hub
<1>6. ASSUME NEW q \in Pages PROVE Told(q)'
  <2>1. CASE q # p
    BY <1>1, <1>2, <1>4, <2>1, OtherPages DEF TypeOK, hub
  <2>2. CASE q = p
    <3>1. shown'[p] = v /\ owed'[p] = IF v = 0 \/ Overtaken(p, v) THEN 0 ELSE owed[p]
      BY <1>1, <1>2 DEF TypeOK
    <3>2. buffer'[p] = buffer[p] /\ asked'[p] = asked[p]
      BY <1>2 DEF hub
    <3>3. Told(p)
      BY DEF IInv
    <3>4. \A w \in 0 .. LastVersion : w # v => answers'[p][w] = answers[p][w]
      BY <1>4
    <3> QED BY <1>1, <2>2, <3>1, <3>2, <3>3, <3>4, Showing
  <2> QED BY <2>1, <2>2
<1> QED BY <1>2, <1>5, <1>6 DEF IInv

LEMMA ReplyStep ==
  ASSUME IInv, NEW h \in Handlers, ShowReply(h)
  PROVE  IInv'
<1> DEFINE p == act[h].who
           v == act[h].seen
<1>1. TypeOK /\ version \in Nat /\ v \in 0 .. LastVersion /\ v <= version /\ v \in Nat
  BY Numbers DEF IInv, TypeOK, Act, Versions
<1>page. p \in Pages
  BY DEF ShowReply, IInv, Sane
<1>2. /\ act' = [act EXCEPT ![h] = Idle]
      /\ UNCHANGED <<version, members, hub, asked, answers, breaks, announced>>
  BY DEF ShowReply
<1>3. \/ UNCHANGED <<shown, owed>>
      \/ /\ shown' = [shown EXCEPT ![p] = v]
         /\ owed' = [owed EXCEPT ![p] = IF Overtaken(p, v) THEN 0 ELSE owed[p]]
  BY DEF ShowReply
<1>4. Sane(Idle, version')
  BY <1>1, <1>2 DEF Idle, Act, Sane
<1>5. /\ act' \in [Handlers -> Act]
      /\ \A g \in Handlers : act'[g].seen <= version' /\ Sane(act'[g], version')
  BY <1>1, <1>2, <1>4, AllSane
<1>6. TypeOK'
  <2>1. v \in 0 .. version /\ 0 \in 0 .. version /\ owed[p] \in 0 .. version
    BY <1>1, <1>page DEF TypeOK
  <2>2. shown' \in [Pages -> 0 .. version] /\ owed' \in [Pages -> 0 .. version]
    BY <1>1, <1>3, <2>1 DEF TypeOK
  <2> QED BY <1>1, <1>2, <1>5, <2>2 DEF TypeOK, hub
<1>7. ASSUME NEW q \in Pages PROVE Told(q)'
  <2>1. CASE UNCHANGED <<shown, owed>>
    BY <1>2, <2>1 DEF IInv, Told, hub
  <2>2. CASE q # p /\ shown' = [shown EXCEPT ![p] = v]
             /\ owed' = [owed EXCEPT ![p] = IF Overtaken(p, v) THEN 0 ELSE owed[p]]
    BY <1>1, <1>page, <1>2, <2>2, OtherPages DEF TypeOK, hub
  <2>3. CASE q = p /\ shown' = [shown EXCEPT ![p] = v]
             /\ owed' = [owed EXCEPT ![p] = IF Overtaken(p, v) THEN 0 ELSE owed[p]]
    <3>1. shown'[p] = v /\ owed'[p] = IF Overtaken(p, v) THEN 0 ELSE owed[p]
      BY <1>1, <1>page, <2>3 DEF TypeOK
    <3>2. /\ buffer'[p] = buffer[p] /\ asked'[p] = asked[p] /\ answers' = answers
          /\ Told(p)
      BY <1>2, <1>page DEF hub, IInv
    <3> QED BY <1>1, <1>page, <2>3, <3>1, <3>2, Showing
  <2> QED BY <1>3, <2>1, <2>2, <2>3
<1> QED BY <1>2, <1>5, <1>6, <1>7 DEF IInv

-----------------------------------------------------------------------------
(* Streams and fetches.                                                     *)

LEMMA StreamStep ==
  ASSUME IInv, NEW p \in Pages, Subscribe(p) \/ Refuse(p)
  PROVE  IInv'
<1>1. UNCHANGED <<version, members, act, buffer, page, told>>
  BY DEF Subscribe, Refuse
<1>2. stream' \in [Pages -> {"connecting", "open", "closed"}]
  BY DEF Subscribe, Refuse, IInv, TypeOK
<1>3. breaks' \in 0 .. MaxBreaks
  BY BoundsAssumption DEF Subscribe, Refuse, IInv, TypeOK
<1> QED BY <1>1, <1>2, <1>3 DEF IInv, TypeOK, Told, page, told

LEMMA DisconnectStep ==
  ASSUME IInv, NEW p \in Pages, Disconnect(p)
  PROVE  IInv'
<1>1. /\ buffer' = [buffer EXCEPT ![p] = 0]
      /\ owed' = [owed EXCEPT ![p] = IF buffer[p] > 0 THEN 0 ELSE owed[p]]
      /\ UNCHANGED <<version, members, act, page, announced>>
  BY DEF Disconnect
<1>2. TypeOK /\ buffer[p] \in Nat /\ shown[p] \in Nat /\ version \in Nat
  BY Numbers DEF IInv
<1>3. TypeOK'
  <2>1. stream' \in [Pages -> {"connecting", "open", "closed"}] /\ breaks' \in 0 .. MaxBreaks
    BY BoundsAssumption DEF Disconnect, IInv, TypeOK
  <2>2. buffer' \in [Pages -> 0 .. Capacity] /\ owed' \in [Pages -> 0 .. version]
    BY <1>1, <1>2, BoundsAssumption DEF TypeOK
  <2> QED BY <1>1, <1>2, <2>1, <2>2 DEF TypeOK, page
<1>4. ASSUME NEW q \in Pages PROVE Told(q)'
  <2>1. CASE q # p
    BY <1>1, <1>2, <2>1, OtherPages DEF TypeOK, page
  \* What is lost with the channel is owed no longer.
  <2>2. CASE q = p /\ buffer[p] > 0
    BY <1>1, <1>2, <2>2 DEF Told, TypeOK, page
  <2>3. CASE q = p /\ ~ (buffer[p] > 0)
    BY <1>1, <1>2, <2>3 DEF Told, IInv, TypeOK, page
  <2> QED BY <2>1, <2>2, <2>3
<1> QED BY <1>1, <1>3, <1>4 DEF IInv

LEMMA HearStep ==
  ASSUME IInv, NEW p \in Pages, Hear(p)
  PROVE  IInv'
<1>1. /\ buffer[p] > 0
      /\ buffer' = [buffer EXCEPT ![p] = buffer[p] - 1]
      /\ asked' = [asked EXCEPT ![p] = asked[p] + 1]
      /\ UNCHANGED <<version, members, act, stream, answers, shown, breaks, told>>
  BY DEF Hear
<1>2. TypeOK /\ asked[p] \in Nat /\ buffer[p] \in Nat
  BY Numbers DEF IInv
<1>3. TypeOK'
  <2>1. buffer' \in [Pages -> 0 .. Capacity] /\ asked' \in [Pages -> Nat]
    BY <1>1, <1>2, BoundsAssumption DEF TypeOK
  <2> QED BY <1>1, <1>2, <2>1 DEF TypeOK, told
<1>4. ASSUME NEW q \in Pages PROVE Told(q)'
  <2>1. CASE q # p
    BY <1>1, <1>2, <2>1, OtherPages DEF TypeOK, told
  <2>2. CASE q = p
    BY <1>1, <1>2, <2>2 DEF Told, TypeOK
  <2> QED BY <2>1, <2>2
<1> QED BY <1>1, <1>3, <1>4 DEF IInv

LEMMA AnswerStep ==
  ASSUME IInv, NEW p \in Pages, Serve(p) \/ FailFetch(p)
  PROVE  IInv'
<1>1. TypeOK /\ version \in 1 .. LastVersion /\ LastVersion \in Nat /\ asked[p] \in Nat
  BY Numbers DEF IInv
<1>2. PICK v \in {0, version} :
        /\ Answer(p, v)
        /\ \/ v = 0 /\ UNCHANGED owed
           \/ v = version /\ owed' = [owed EXCEPT ![p] = version]
        /\ breaks' \in 0 .. MaxBreaks
  BY <1>1, BoundsAssumption DEF Serve, FailFetch, TypeOK
<1>3. /\ asked[p] > 0
      /\ asked' = [asked EXCEPT ![p] = asked[p] - 1]
      /\ answers' = [answers EXCEPT ![p][v] = answers[p][v] + 1]
      /\ UNCHANGED <<version, members, act, hub, shown, announced>>
      /\ v \in 0 .. LastVersion /\ v <= version /\ answers[p][v] + 1 \in Nat
      /\ answers[p][v] + 1 > 0
  <2>1. v \in 0 .. LastVersion
    BY <1>1
  <2>2. answers[p][v] \in Nat
    BY <1>1, <2>1, Numbers
  <2> QED BY <1>1, <1>2, <2>1, <2>2 DEF Answer
<1>4. /\ answers' \in [Pages -> [0 .. LastVersion -> Nat]]
      /\ answers'[p][v] > 0
      /\ \A q \in Pages, w \in 0 .. LastVersion : q # p \/ w # v => answers'[q][w] = answers[q][w]
  <2>1. answers \in [Pages -> [0 .. LastVersion -> Nat]]
    BY <1>1 DEF TypeOK
  <2>2. /\ answers' \in [Pages -> [0 .. LastVersion -> Nat]]
        /\ answers'[p][v] = answers[p][v] + 1
        /\ \A q \in Pages, w \in 0 .. LastVersion : q # p \/ w # v => answers'[q][w] = answers[q][w]
    BY <1>3, <2>1, Answers
  <2> QED BY <1>3, <2>2
<1>5. TypeOK'
  <2>3. asked' \in [Pages -> Nat]
    BY <1>1, <1>3 DEF TypeOK
  <2>4. owed' \in [Pages -> 0 .. version]
    <3>1. version \in 0 .. version /\ owed \in [Pages -> 0 .. version]
      BY <1>1 DEF TypeOK
    <3> QED BY <1>2, <3>1
  <2>2. ASSUME NEW q \in Pages, NEW w \in 0 .. LastVersion, answers'[q][w] > 0
        PROVE  w <= version
    BY <1>1, <1>3, <1>4, <2>2 DEF TypeOK
  <2> QED BY <1>1, <1>2, <1>3, <1>4, <2>2, <2>3, <2>4 DEF TypeOK, hub
<1>6. ASSUME NEW q \in Pages PROVE Told(q)'
  <2>1. CASE q # p
    BY <1>1, <1>2, <1>3, <1>4, <2>1, OtherPages DEF TypeOK, hub
  \* The answer has what p is owed now, or is an error.
  <2>2. CASE q = p
    <3>1. v = 0 \/ v >= owed'[p]
      BY <1>1, <1>2 DEF TypeOK
    <3> QED BY <1>3, <1>4, <2>2, <3>1 DEF Told
  <2> QED BY <2>1, <2>2
<1> QED BY <1>3, <1>5, <1>6 DEF IInv

-----------------------------------------------------------------------------
(* The invariant.                                                           *)

LEMMA Start == Init => IInv
<1> SUFFICES ASSUME Init PROVE IInv
  OBVIOUS
<1>1. /\ 1 \in Versions /\ LastVersion \in Nat /\ Capacity \in Nat /\ MaxBreaks \in Nat
      /\ Idle \in Act /\ Idle.at = "idle" /\ Idle.seen = 0
  BY BoundsAssumption DEF Versions, Idle, Act
<1>2. TypeOK
  BY <1>1 DEF Init, TypeOK
<1>3. \A h \in Handlers : Sane(act[h], version)
  BY <1>1 DEF Init, Sane
<1>4. ASSUME NEW p \in Pages PROVE Told(p)
  <2>1. asked[p] = 1
    BY DEF Init
  <2> QED BY <2>1 DEF Told
<1> QED BY <1>2, <1>3, <1>4 DEF IInv

LEMMA Invariance == Spec => []IInv
<1>1. ASSUME IInv, [Next]_vars PROVE IInv'
  <2>1. CASE Rest \/ UNCHANGED vars
    <3>1. UNCHANGED vars
      BY <2>1 DEF Rest
    <3> QED BY <1>1, <3>1 DEF vars, IInv, TypeOK, Told
  <2>2. ASSUME NEW h \in Handlers, Proceed(h) \/ Fail(h) PROVE IInv'
    BY <1>1, <2>2, ChangeStep, PublishStep, EndStep, ReplyStep DEF Proceed
  <2>3. ASSUME NEW h \in Handlers, NEW w \in Pages \cup {Others},
               NEW at \in {"commit", "join"}, Load(h, w, at)
        PROVE  IInv'
    BY <1>1, <2>3, LoadStep
  <2>4. ASSUME NEW p \in Pages, Connect(p) \/ Refresh(p) \/ Break(p) PROVE IInv'
    BY <1>1, <2>4, StreamStep, DisconnectStep, HearStep, AnswerStep, ShowStep
       DEF Connect, Refresh, Break
  <2> QED BY <1>1, <2>1, <2>2, <2>3, <2>4 DEF Next
<1> QED BY <1>1, Start, PTL DEF Spec

-----------------------------------------------------------------------------
(* Theorems.                                                                *)

\* Channels never hold more than their capacity, and no page, view or answer on
\* its way is ahead of the database (broadcast, respondView, handleGetPoll).
THEOREM HubTypeCorrect == Spec => []TypeOK
<1>1. IInv => TypeOK
  BY DEF IInv
<1> QED BY <1>1, Invariance, PTL

\* However many pages are open and however full their channels, once all is
\* quiet a page shows at least what was in the database at the last broadcast
\* with its stream open and at its last answer, unless an error, a broken stream
\* or an older answer took that from it (broadcast, refresh).
THEOREM DropsAreHarmless == Spec => []DroppedEventsAreHarmless
<1>1. IInv => DroppedEventsAreHarmless
  <2> SUFFICES ASSUME IInv, NEW p \in Pages, Settled(p)
               PROVE  shown[p] >= owed[p]
    BY DEF DroppedEventsAreHarmless
  <2> QED BY DEF IInv, Told, Settled
<1> QED BY <1>1, Invariance, PTL

=============================================================================
