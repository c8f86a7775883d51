----------------------------- MODULE PollAccess -----------------------------
(***************************************************************************)
(* How browsers get into polls: signing in, creating a poll under a fresh  *)
(* share code, joining it, and the two signed cookies that remember it     *)
(* (userauth.go, sessions.go, codes.go; handlers.go, handleCreatePoll and  *)
(* handleJoin; server.go, readTokens .. currentParticipant).               *)
(*                                                                         *)
(* A request works with the cookies it was sent with and its answer        *)
(* replaces the browser's; answers arrive in any order or are lost.        *)
(* A signature is the secret it was made with: secrets are numbered, and a *)
(* restart makes a new one unless one is configured.                       *)
(*                                                                         *)
(* Browsers are the ones that are followed; None stands for all the others *)
(* and only creates polls, in a step each: what leads to the insertion     *)
(* changes nothing.                                                        *)
(***************************************************************************)
EXTENDS LoginLimiter

CONSTANTS
  Browsers, Polls, Codes,
  Requests,    \* requests that may be in flight at once
  Attempts,    \* codes drawn before giving up (10)
  MaxSeats,    \* bounds the participants a browser comes to have in a poll
  MaxSecrets,  \* bounds how often a restart makes a new secret
  None

ASSUME AccessAssumption ==
  /\ {Attempts, MaxSeats} \subseteq Nat \ {0} /\ MaxSecrets \in Nat
  /\ None \notin Nat \cup Browsers
  /\ None \notin [by : Browsers \cup {None}, nr : Nat]   \* a token

VARIABLES
  settings,   \* is there a login; is a secret configured
  secret,     \* the number of the process's secret
  polls,      \* the polls table
  seats,      \* seats[p]: the participants of p, named by their tokens
  jar,        \* jar[b]: the cookies of browser b
  req,        \* req[r]: what request r is doing
  received,   \* history: the seats b was told of, under this secret
  crossed,    \* history: browsers of which two such requests overlapped
  lost        \* history: browsers that were never told of a seat of theirs, or
              \* whose seat was not found for an error

accessVars == <<settings, secret, polls, seats, jar, req, received, crossed, lost>>
vars == <<accessVars, limiterVars>>

Secrets == 0 .. MaxSecrets
Token == [by : Browsers \cup {None}, nr : 1 .. MaxSeats]
Tokens == [Polls -> Token \cup {None}]
NoTokens == [p \in Polls |-> None]

Row == [is : {"unused", "live", "gone"}, code : Codes \cup {None}]
NoRow == [is |-> "unused", code |-> None]
Live == {p \in Polls : polls[p].is = "live"}

\* user: the secret that signs the login; tokens: what key signs.
Jar == [user : Secrets \cup {None}, key : Secrets \cup {None}, tokens : Tokens]
EmptyJar == [user |-> None, key |-> None, tokens |-> NoTokens]

\* at: "auth" (Jellyfin is asked), "draw" and "insert" (creating), "member"
\* and "seat" (joining), "user" and "told" (answers with a cookie);
\* sent: the tokens that verified; may: the poll lets it join; key: what
\* signs the answer.
Request == [at : {"idle", "auth", "draw", "insert", "member", "seat",
                  "user", "told"},
            by : Browsers \cup {None}, sent : Tokens, poll : Polls \cup {None},
            may : BOOLEAN, tries : 0 .. Attempts, code : Codes \cup {None},
            key : Secrets \cup {None}]

Idle == [at |-> "idle", by |-> None, sent |-> NoTokens, poll |-> None,
         may |-> FALSE, tries |-> 0, code |-> None, key |-> None]

Init ==
  /\ LimiterInit
  /\ settings \in [login : BOOLEAN, configured : BOOLEAN]
  /\ secret = 0
  /\ polls = [p \in Polls |-> NoRow]
  /\ seats = [p \in Polls |-> {}]
  /\ jar = [b \in Browsers |-> EmptyJar]
  /\ req = [r \in Requests |-> Idle]
  /\ received = [b \in Browsers |-> NoTokens]
  /\ crossed = {}
  /\ lost = {}

-----------------------------------------------------------------------------
(* Cookies. *)

\* Faulty variant: a cookie starts over with every answer.
ReadNothing(b) == NoTokens

\* readTokens: a cookie that does not verify is as good as none.
ReadTokens(b) == IF jar[b].key = secret THEN jar[b].tokens ELSE NoTokens

CurrentUser(b) == jar[b].user = secret

\* A seat for b in p that no other participant has the token of.
Fresh(b, p) ==
  [by |-> b, nr |-> Cardinality({t \in seats[p] : t.by = b}) + 1]

Room(b, p) == Cardinality({t \in seats[p] : t.by = b}) < MaxSeats

\* The answer of o seats its browser in p: setToken adds to what was sent.
SetToken(o, p, t) ==
  [o EXCEPT !.at = "told", !.poll = p, !.sent[p] = t, !.key = secret]

Seating(b) ==
  \E r \in Requests : req[r].by = b
     /\ req[r].at \in {"draw", "insert", "member", "seat", "told"}

\* Bound: what a browser begins after its requests have overlapped is not
\* followed; nothing is promised to it any more.
Cross(b) == b \notin crossed /\ crossed' = IF Seating(b) THEN crossed \cup {b} ELSE crossed

-----------------------------------------------------------------------------
(* Signing in and out. *)

Respond(r, o) == req' = [req EXCEPT ![r] = o]

BeginLogin(r, b) ==
  /\ settings.login /\ req[r] = Idle /\ b \notin crossed
  /\ \E k \in Keys, ok \in BOOLEAN :
       /\ Allow(k, ok)
       /\ Respond(r, IF ok THEN [Idle EXCEPT !.at = "auth", !.by = b] ELSE Idle)
  /\ UNCHANGED <<settings, secret, polls, seats, jar, received, crossed, lost>>

\* AuthenticateByName: Jellyfin knows the user, or not.
Authenticate(r) ==
  /\ req[r].at = "auth"
  /\ \/ Respond(r, [req[r] EXCEPT !.at = "user", !.key = secret])
     \/ Respond(r, Idle)
  /\ UNCHANGED <<settings, secret, polls, seats, jar, received, crossed, lost, limiterVars>>

\* The answer clears the cookie; the server keeps nothing of a login.
Logout(b) ==
  /\ jar[b].user # None
  /\ jar' = [jar EXCEPT ![b].user = None]
  /\ UNCHANGED <<settings, secret, polls, seats, req, received, crossed, lost, limiterVars>>

-----------------------------------------------------------------------------
(* Creating a poll.                                                         *)

BeginCreate(r, b) ==
  /\ req[r] = Idle
  /\ settings.login => CurrentUser(b)
  /\ Respond(r, [Idle EXCEPT !.at = "draw", !.by = b, !.sent = ReadTokens(b)])
  /\ Cross(b)
  /\ UNCHANGED <<settings, secret, polls, seats, jar, received, lost, limiterVars>>

Taken(c) == \E p \in Live : polls[p].code = c

\* GenerateUnique: draw a code and look it up, until one is free or the
\* attempts are used up.
DrawCode(r) ==
  /\ req[r].at = "draw"
  /\ \E c \in Codes :
       Respond(r, IF ~Taken(c) THEN [req[r] EXCEPT !.at = "insert", !.code = c]
                  ELSE IF req[r].tries + 1 = Attempts THEN Idle
                  ELSE [req[r] EXCEPT !.tries = @ + 1])
  /\ UNCHANGED <<settings, secret, polls, seats, jar, received, crossed, lost, limiterVars>>

\* Faulty variant: the look-up alone keeps codes apart.
CodeIsFree(c) == TRUE

\* The unique column: the code may have been taken since it was looked up.
CodeIsUnique(c) == ~Taken(c)

\* CreatePoll: the poll and its host in one transaction.
CreatePoll(p, b, c) ==
  /\ polls[p] = NoRow
  /\ CodeIsUnique(c)
  /\ polls' = [polls EXCEPT ![p] = [is |-> "live", code |-> c]]
  /\ seats' = [seats EXCEPT ![p] = {Fresh(b, p)}]

\* The insertion, or its error.
InsertPoll(r) ==
  LET o == req[r] IN
  /\ o.at = "insert"
  /\ \/ \E p \in Polls :
          CreatePoll(p, o.by, o.code) /\ Respond(r, SetToken(o, p, Fresh(o.by, p)))
     \/ ~CodeIsUnique(o.code) /\ Respond(r, Idle) /\ UNCHANGED <<polls, seats>>
  /\ UNCHANGED <<settings, secret, jar, received, crossed, lost, limiterVars>>

InsertPollElsewhere(p, c) ==
  /\ CreatePoll(p, None, c)
  /\ UNCHANGED <<settings, secret, jar, req, received, crossed, lost, limiterVars>>

-----------------------------------------------------------------------------
(* Joining a poll.                                                          *)

\* pollFromCode; whether the row that was read lets guests in, has not ended
\* and has no passcode or the one that was sent is settled with it, and free
\* here: may.
BeginJoin(r, b) ==
  /\ req[r] = Idle
  /\ \E p \in Live, may \in BOOLEAN :
       Respond(r, [Idle EXCEPT !.at = "member", !.by = b, !.poll = p,
                     !.sent = ReadTokens(b), !.may = may])
  /\ Cross(b)
  /\ UNCHANGED <<settings, secret, polls, seats, jar, received, lost, limiterVars>>

\* Faulty variant: every join makes a new participant.
NoParticipant(o) == FALSE

\* currentParticipant: the token sent for this poll is one of its participants'.
IsParticipant(o) == o.sent[o.poll] \in seats[o.poll]

\* A participant is shown the poll; others are let in or refused.  A look-up
\* that fails is taken for one that found nobody.
CurrentParticipant(r) ==
  LET o == req[r] IN
  /\ o.at = "member"
  /\ \/ /\ Respond(r, IF ~IsParticipant(o) /\ o.may
                        THEN [o EXCEPT !.at = "seat"] ELSE Idle)
        /\ UNCHANGED lost
     \/ /\ IsParticipant(o) /\ o.may
        /\ Respond(r, [o EXCEPT !.at = "seat"])
        /\ lost' = lost \cup {o.by}
  /\ UNCHANGED <<settings, secret, polls, seats, jar, received, crossed, limiterVars>>

\* CreateParticipant: the foreign key refuses a poll that is gone.
CreateParticipant(r) ==
  LET o == req[r] IN
  /\ o.at = "seat"
  /\ IF o.poll \notin Live
       THEN Respond(r, Idle) /\ UNCHANGED seats
       ELSE LET t == Fresh(o.by, o.poll) IN
            /\ Room(o.by, o.poll)
            /\ seats' = [seats EXCEPT ![o.poll] = @ \cup {t}]
            /\ Respond(r, SetToken(o, o.poll, t))
  /\ UNCHANGED <<settings, secret, polls, jar, received, crossed, lost, limiterVars>>

-----------------------------------------------------------------------------
(* Answers, and what befalls requests.                                      *)

\* A cookie that a browser receives replaces the one of that name.
Receive(r) ==
  LET o == req[r] IN
  /\ \/ /\ o.at = "user"
        /\ jar' = [jar EXCEPT ![o.by].user = o.key]
        /\ UNCHANGED received
     \/ /\ o.at = "told"
        /\ jar' = [jar EXCEPT ![o.by].key = o.key, ![o.by].tokens = o.sent]
        /\ received' = IF o.key = secret
                         THEN [received EXCEPT ![o.by][o.poll] = o.sent[o.poll]]
                         ELSE received
  /\ Respond(r, Idle)
  /\ UNCHANGED <<settings, secret, polls, seats, crossed, lost, limiterVars>>

\* The browser gives up or the connection breaks: the request is cancelled,
\* or its answer gets lost.
Lose(r) ==
  /\ req[r] # Idle
  /\ lost' = IF req[r].at = "told" THEN lost \cup {req[r].by} ELSE lost
  /\ Respond(r, Idle)
  /\ UNCHANGED <<settings, secret, polls, seats, jar, received, crossed, limiterVars>>

\* By the admin or the retention sweeper; the participants go with the poll.
DeletePoll(p) ==
  /\ p \in Live
  /\ polls' = [polls EXCEPT ![p] = [NoRow EXCEPT !.is = "gone"]]
  /\ seats' = [seats EXCEPT ![p] = {}]
  /\ UNCHANGED <<settings, secret, jar, req, received, crossed, lost, limiterVars>>

\* loadSecret: without a configured one it is new, and all cookies are void.
LoadSecret == IF settings.configured THEN secret ELSE secret + 1

\* The process dies and a new one starts; answers on their way still arrive.
Restart ==
  /\ LoadSecret \in Secrets
  /\ secret' = LoadSecret
  /\ req' = [r \in Requests |->
               IF req[r].at \in {"user", "told"} THEN req[r] ELSE Idle]
  /\ received' = IF settings.configured THEN received
                 ELSE [b \in Browsers |-> NoTokens]
  /\ LimiterRestart
  /\ UNCHANGED <<settings, polls, seats, jar, crossed, lost>>

Next ==
  \/ \E r \in Requests, b \in Browsers :
       BeginLogin(r, b) \/ BeginCreate(r, b) \/ BeginJoin(r, b)
  \/ \E b \in Browsers : Logout(b)
  \/ \E r \in Requests :
       \/ Authenticate(r) \/ DrawCode(r) \/ InsertPoll(r)
       \/ CurrentParticipant(r) \/ CreateParticipant(r)
       \/ Receive(r) \/ Lose(r)
  \/ \E p \in Polls, c \in Codes : InsertPollElsewhere(p, c)
  \/ \E p \in Polls : DeletePoll(p)
  \/ Restart

Spec == Init /\ [][Next]_vars

-----------------------------------------------------------------------------
(* Properties. *)

TypeOK ==
  /\ LimiterTypeOK
  /\ settings \in [login : BOOLEAN, configured : BOOLEAN]
  /\ secret \in Secrets
  /\ polls \in [Polls -> Row]
  /\ seats \in [Polls -> SUBSET Token]
  /\ jar \in [Browsers -> Jar]
  /\ req \in [Requests -> Request]
  /\ received \in [Browsers -> Tokens]
  /\ crossed \subseteq Browsers /\ lost \subseteq Browsers

\* sessions.go: "A single cookie can carry membership in several polls at once".
\* What a browser was told it is in stays in its cookie and the cookie stays
\* valid: whatever else it joins, creates, signs into or fails to hear of, and
\* over restarts with a configured secret.  Only two of its own requests at
\* once make it forget.
MembershipKept ==
  \A b \in Browsers \ crossed : \A p \in Polls :
    received[b][p] # None =>
      jar[b].key = secret /\ jar[b].tokens[p] = received[b][p]

\* handlers.go: "already joined; idempotent".  A browser has one participant in
\* a poll, and so one vote, however often it joins or creates, unless its
\* requests overlapped, an answer was lost, a look-up failed or the secret changed.
OneSeatEach ==
  \A b \in Browsers \ (crossed \cup lost) : \A p \in Polls :
    secret = 0 => Cardinality({t \in seats[p] : t.by = b}) <= 1

\* A share code leads to one poll, although it is looked up some time before it
\* is stored, and codes of deleted polls come back.
CodesNameOnePoll ==
  \A p, q \in Live : polls[p].code = polls[q].code => p = q

=============================================================================
