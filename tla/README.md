# seeurchin in TLA+

seeurchin lets a group choose what to watch: a host opens a poll, everyone
nominates titles from the Jellyfin library (or writes in titles Seerr could
fetch), the group votes, and the winner is shown and, if it is a write-in,
requested from Seerr. The server is one Go process with one SQLite database;
pages hear about changes over server-sent events and fetch the poll again.

This directory holds TLA+ models of that server, the TLC runs that check them on
small instances, and TLAPS proofs of their main safety properties. Paths below
are relative to the repository root.

## The system

| Component | State | Operations | Talks to |
| --- | --- | --- | --- |
| Poll lifecycle `internal/poll/service.go` | none of its own: every call gets the `*Poll` its handler loaded | create, join, nominate, write in, withdraw, advance (host, admin, sweeper), vote, results, break tie, delete, purge | store |
| Poll timers, same file and `httpapi/timer.go` | timer columns of the poll; a 1 s ticker | start, pause, extend, sweep | store, lifecycle |
| Store `internal/store/store.go` | SQLite: polls, participants, nominations, nominators, votes, Seerr requests | one statement or one transaction per method, over one connection (`SetMaxOpenConns(1)`) | |
| Handlers `internal/httpapi/*.go` | per request: the poll and the participant it loaded | route, check, call the service, broadcast, answer with a view | all |
| Seerr requests `httpapi/handlers.go` | `seerr_requests` rows | look up, ask, record; automatic at closing or by the host | store, Seerr |
| Live updates `httpapi/sse.go`, web client | a set of buffered channels per poll | subscribe, publish (drops when full), cancel; the page refetches on every event | handlers |
| Voting methods `internal/voting` | none | validate a ballot, tally, draw | lifecycle |
| Join codes `internal/codes` | none | generate until free, normalise | store |
| Sessions, logins `internal/auth`, `httpapi/userauth.go` | signed cookies; a map of recent login attempts | encode, decode, allow | |
| Retention `httpapi/admin.go` | an hourly ticker | delete closed polls past their age | store |
| Jellyfin client, views, previews, configuration, web client | | read only, or rendering | |

### What is hard here

* **Checks on a loaded row.** A handler loads the poll once. Every status check is
  made on that copy, and the statements that follow are separate: list, validate,
  insert. The database is consistent within a statement and free to change
  between two of them.
* **Three parties advance a round**: the host, the admin, the sweeper. Only
  `CompareAndSetStatus` keeps them apart; what follows it (`SetPollWinner`,
  `UpdatePollTimers`) compares nothing.
* **Requests end early.** Every statement runs under the request's context; a
  browser that leaves cancels whatever is still to come. So does a crash.
* **The clock** is a handful of columns that are read, changed and written back
  as a whole.
* **Seerr** is asked between a look-up and a record that others get between.
* **Events are dropped and refetches overlap.**
* **Cookies are replaced whole.** A join adds its token to the cookie it was sent
  with; requests of one browser overlap, answers get lost, and without a
  configured secret a restart voids all of them.
* **One loop serves all polls.** An error at one of them ends the sweep.
* **Times** are compared as text, and read before the mutex that orders them.

### What makes each part correct

* *Lifecycle*: the status moves forward; at most one winner, set on a closed poll,
  never changed; a winner the closing promises is recorded; one row per title,
  with a nominator as long as it stands; votes name rows that exist; results of a
  closed poll are final; caps and self-vote rules hold.
* *Timers*: a pause stops the clock; a timed voting round has a clock; the sweeper
  ends a round only when it is due, and in the end does.
* *Seerr*: a winner is requested, once, and what is recorded was made.
* *Live updates*: every page ends up with the last state that was broadcast.
* *Voting*: tallies agree with their definitions, ties included.
* *Codes, sessions, limiter, sweepers*: codes stay unique; a join is not forgotten;
  no more than the limit in any window; one poll does not hold up another, and every
  change is announced; only polls old enough are purged.

## The modules

| Module | Models | Role |
| --- | --- | --- |
| `PollLifecycle` | `service.go` over `store.go`, one poll | the core |
| `PollDecision` | what any watcher may rely on | abstract; `PollLifecycle` implements it under any interleaving |
| `PollContract` | what the poll promises to requests that follow each other | abstract; `PollLifecycle` implements it with one request slot |
| `MCPollLifecycle` | | kinds of polls and the symmetry set for TLC |
| `PollLifecycleProofs` | | theorems about `PollLifecycle` |
| `PollSerialProofs` | | its theorems for one request at a time, `PollContract` among them; extends `PollLifecycleProofs` |
| `PollTimers` | the timer columns, the host's controls, the sweeper | |
| `PollTimersProofs` | | theorems about `PollTimers` |
| `SeerrRequests` | requesting the winning write-ins | |
| `SeerrRequestsProofs` | | theorems about `SeerrRequests` |
| `PollHub` | the event hub, the handlers that broadcast and the one that does not, the poll page's fetches | |
| `PollHubProofs` | | theorems about `PollHub` |
| `RankedTally` | the instant runoff of ranked polls and its ranking | |
| `MCRankedTally` | | the elections TLC goes through |
| `RankedTallyProofs` | | theorems about `RankedTally` |
| `LoginLimiter` | the sliding window in front of the login endpoint | part of `PollAccess` |
| `PollAccess` | signing in, creating under a fresh code, joining, the two cookies, restarts | extends `LoginLimiter` |
| `MCPollAccess` | | the symmetry set for TLC |
| `PollAccessProofs` | | theorems about `PollAccess` and `LoginLimiter` |
| `PollSweeper` | the timer sweep over several polls, its announcements, the retention purge | |
| `PollSweeperProofs` | | theorems about `PollSweeper` |

An operator introduced by the comment "Faulty variant" is a plausible mistake in
the code, defined just before the definition it would replace; the specifications
do not use it. Each property is shown to notice one of them.

### PollLifecycle

A request lives in a slot of `Requests`. Its `at` names the statement it runs next,
so each action after the first is one statement or transaction of the store: the
unit that really is atomic, since the store holds one connection. The first action
(`Begin...`) stands for loading the poll and all checks made on that copy: nothing
else is read before the next statement, so they take effect at the load.

| Request | Actions | Code |
| --- | --- | --- |
| join | `BeginJoin`, `CreateParticipant` | `JoinAsGuest` |
| nominate, write in | `BeginNominate`, [`CountNominations`, [`AlreadyNominated`]], `AddNomination` | `SubmitNomination`, `SubmitWriteIn`, `addNomination` |
| withdraw | `BeginWithdraw`, `WithdrawNomination` | `WithdrawNomination` |
| vote | `BeginVote`, `ListForVote`, `ValidateBallot`, `ReplaceVotes` | `CastVotes`, `ListNominations` (rows first, nominators second) |
| advance | `HostAdvance`, `AdminAdvance` or `SweepAdvance`; `ListToAdvance`; then `CloseRound1` and `SetPollWinner`, or `OpenRound2`; or `CloseRound2` | `Advance`, `ForceAdvance`, `SweepDueTimers`, `advanceCore`, `resolveSparseRound1` |
| break a tie | `BeginBreakTie`, `ListForTie`, `DrawFromTie`, `SetPollWinnerIfUnset` | `BreakTie`, `Results` |
| delete, purge | `DeletePoll`, `PurgeExpired` | one statement each, with the cascades |

`Abort` ends a request between two statements (cancelled context, failed
statement); `Crash` ends them all. Only the database survives.

Abstractions. A title is an item key; the snapshot stored with it is left out. A
ballot is the set of nominations it supports, which is what approval stores and
what score and ranked ballots add values to; the tally is approval's. Polls differ
in four ways that guards look at (`Rules`): the method draws, the poll is timed,
self votes are allowed, the cap. Refused requests change nothing and are left out.
`UpdatePollTimers`, which `advanceCore` runs after opening round 2, writes columns
this module has not; it is in `PollTimers`. A slow sweeper list needs no state
here, because a claim compares the status anyway.

### PollTimers

`row` is the poll's stage and timer columns. An operation in a slot of `Slots`
holds its copy `p` of the row and either claims the stage (`CompareAndSetStatus`)
or writes all columns back (`UpdatePollTimers`). `now` ticks to `Horizon`. Which
stage a round leads to depends on nominations and is a free choice here. Two
history variables serve the properties: `stale`, the row has changed since an
operation loaded it, and `disturbed`, such an operation has taken effect or one
was cut short.

### SeerrRequests

A handler goes through its titles and for each looks for a record
(`GetSeerrRequest`), asks (`CreateRequest`) and records (`RecordSeerrRequest`).
`Closer` is the handler that closed the poll. The sweeper, having lost the race to
close it, reads a closed poll back and runs `autoRequestWinners` too, or does not;
the host may ask for any write-in. Seerr is external: it makes a request and
answers, refuses, or makes it and the answer is lost. `spoilt` and `shared` are
history: titles some call failed for, titles two handlers were busy with at once.

### PollHub

The poll is a `version`, the number of its last change. Events carry no state: a
channel is a count (`buffer`), full at `Capacity`, which also stands for what the
stream has not delivered yet. `Pages` are the pages that are followed, `Others` is
everybody else who changes the poll: the sweeper, the admin, readers of other pages.
Several requests may be under way at once (`Handlers`), also of one page.

| Step | Action | Code |
| --- | --- | --- |
| load the row | `Load` | `pollFromCode` |
| change and broadcast it | `Commit`, `Publish` | the broadcasting handlers; `publish` never blocks |
| join: change it, tell nobody | `InsertParticipant` | `handleJoin` |
| store Seerr requests after the broadcast, tell nobody | `Record`, `Finish` | `autoRequestWinners` |
| answer with a view | `RespondView`, `ShowReply` | `respondView`, `update` |
| be cut short, changed or not, told or not | `Fail` | any error, cancelled request or crash |
| connect, be refused, break | `Subscribe`, `Refuse`, `Disconnect` | `handleEvents`, `EventSource` |
| fetch on every event | `Hear` | the `update` listener |
| answer a fetch, or fail to | `Serve`, `FailFetch` | `handleGetPoll` |
| show what arrives, in any order | `Show` | `refresh` and its `catch` |

A page asks for the poll and for a stream at once (`Init`). The view that answers a
change joins the row of the load with tables read now, so it may be as old as the row
if somebody else has changed the poll since. An error takes the poll's place on the
page (`shown` is 0) until a later fetch succeeds, and nothing fetches again because of
it. A stream that breaks loses its channel with what is in it; the browser subscribes
again, and does not fetch; a refused stream stays closed.

Two history variables: `announced`, what was broadcast last, and `owed[p]`, the version
page p is to show once nothing is on its way to it. A page comes to be owed the poll as
it is by a broadcast while its stream is open, even if its event was dropped, and by an
answer of the server. The debt ends when an error takes the poll's place, when the
stream breaks with an event in it, and when an older answer replaces what was owed.
Nobody owes a page what was never announced, such as joins and Seerr records.

Left out: the deletion of the poll, after which there is nothing to show, and requests
that broadcast without having changed anything, which only add events.

### RankedTally

A ballot is what the code stores, its `Selections`: a rank for some of the candidates
(here 0 for the others). `Ballots` is `ValidateBallot`: no rank twice, at most
`MaxRanked` candidates. A tally is given one of the `Elections`, a ballot for each of
`Voters`, and nothing changes it: `Tally` is a function without state of its own. One
pass of the loop is `CountBallots`, then one of `NobodyWins`, `Elect`, `Tie`,
`Eliminate`. `rankedOrder` sorts a ballot and the loop takes the first candidate that is
active; `Backs` says which one that is (`Before` is the order), so a candidate's votes
are the number of its `Backers`. `gone` is `elimOrder`, `count` is `finalCount`. A
candidate is the place of its id in the order of ids, which decides who leaves first.
`Ranking` is `orderRanked`; `Sorted` gives the result of its sort, each member at the
place that those who are better leave it.

### LoginLimiter and PollAccess

`hits[k]` is what the limiter remembers of an address, `admitted[k]` (history) when
it let an attempt through. `Allow` is `allow`: it reads the clock, waits up to
`Delay` for the mutex, drops what is outside the window, counts, and remembers the
time it read, which is why times can be out of order. The clock is lazy: nothing
but an attempt looks at it, so an attempt moves it on by any amount.

A request in `PollAccess` holds the tokens it was sent (`sent`), and answers with a
cookie made of those and one more (`SetToken`). `Receive` replaces the browser's
cookie by it, in any order of answers; `Lose` is a request cancelled at any point or
an answer that does not arrive. A signature is the number of the secret that made
it; `Restart` kills all requests, keeps answers already sent, and has a new secret
unless one is configured (`LoadSecret`).

| Request | Actions | Code |
| --- | --- | --- |
| sign in, out | `BeginLogin`, `Authenticate`; `Logout` | `handleUserLogin`, `handleUserLogout` |
| create | `BeginCreate`, `DrawCode`, `InsertPoll` | `requireUser`, `handleCreatePoll`, `GenerateUnique`, `CreatePoll` |
| join | `BeginJoin`, `CurrentParticipant`, `CreateParticipant` | `handleJoin`, `JoinAsGuest` |
| delete | `DeletePoll` | admin or retention, with the cascade |

`CurrentParticipant` includes the case in which the look-up fails, which the code
takes for "not joined". What a join's passcode, the guests setting and the poll's
status allow is settled by the row the request read and is one free choice, `may`.
Browsers other than those that are followed (`None`) only create polls, which is how
a code that was looked up comes to be taken. Three history variables: `received`,
the seats a browser was told of; `crossed`, browsers of which two requests that
bring a cookie overlapped; `lost`, browsers that were not told of a seat, or whose
seat was not found for an error.

### PollSweeper

The timer loop is a process with a program counter (`sw.at`): `Tick`, `List` the due
polls (copies of their rows), and for each `NextPoll`, `Claim` the stage, then
`Reload` after a lost claim or `Write` the clock of round 2 or the winner; `Tell`
broadcasts for the polls that changed. `Fail` is an error of any statement; like a
deleted poll met by `Reload` or `Write` it ends the loop, and what was changed before
is still told. `Crash` starts over. Hosts set and stop clocks (`TouchClock`), hosts
and the admin advance and delete in one step each: how their own requests
interleave is the subject of `PollTimers` and `PollLifecycle`. `Purge` deletes closed
polls by `TextBefore`, the order of RFC 3339 texts, in which a whole second comes
after its fractions; this is why time here is in half seconds. `owed`
is history: polls of which this sweep ended a round and has not told yet; `lost`: those
whose announcement was lost, as the write after the claim failed or found no row, or the
process died.

## The runs

| Run | Instance | Shows |
| --- | --- | --- |
| `lifecycle_safety` | 2 participants, 2 titles, 2 rows, 3 requests at once, 1 interruption | the invariants below and `ImplementsDecision` under every interleaving |
| `lifecycle_serial` | 1 request at a time, 3 rows, all 16 kinds of polls, 1 interruption | `ImplementsContract`, `NoSelfVotes`, `NewRowsWithinCap` |
| `lifecycle_late_vote` | 2 requests | **violated**: `ResultsFinal` |
| `lifecycle_lost_pick` | 1 request, 1 interruption | **violated**: `PickIsRecorded` |
| `timers` | one host operation and the sweeper, clock 0..3, 1 interruption | pauses and clocks, no round ended before its time but on a stale list, every due round left |
| `seerr` | 3 write-ins, 2 of them winners, closer, sweeper and host, 1 failure | safety, and every winner is requested |
| `seerr_twice` | no failures | **violated**: `AtMostOnce` |
| `hub` | 1 page and everybody else, 2 handlers at once, a channel of 1, 4 versions, 1 failure of a handler, a fetch or a stream | a dropped event costs nothing; the page comes to show what it is owed |
| `hub_stale` | 1 page, 1 handler, nothing fails | **violated**: `EveryPageComesCurrent` |
| `ranked` | 4 candidates, every election of 5 ballots of at most 2 ranks | the runoff's results |
| `access` | 1 browser with 2 requests at once, 2 polls, 2 codes, 1 new secret, 1 address, a window of 2 ticks | what is said of cookies, seats, codes and logins below |
| `sweeper` | 2 polls, scheduled or quick, clock 0..4 half seconds, retention of 1 second, 1 host setting, 1 failure or crash | sweeps are complete, told of but for lost announcements, and go on for ever; what a purge takes |

*Bounds.* Three requests are enough for a claim to be lost to another request while
a third is about to crown, vote or break the tie. Two rows make a tie; the third
row of the serial run brings the case of a nomination after the cap was reached.
Two participants make a row shared and a row one's own. `Noms` bounds how many
rows are ever created (ids are never reused), `MaxAborts` and `MaxFaults` how
often something fails: one failure is enough for each broken promise the runs
show, and what holds in spite of failures is proved for any number of them. A
clock of 3 orders two close times, a pause and an extension in every way. Channels
hold one event (eight in the code), so that two changes fill one; a channel that
holds more only drops less. One page is enough for `hub`, since a page meets others
only through the changes their readers make, and `Others` makes all of those at any
time; four versions are a join or a record and two broadcasts that meet a full channel,
while two handlers of the page overlap. Four candidates are the fewest from which two are
eliminated, and with five ballots a transferred ballot overturns a plurality. A ballot
may rank nobody, so fewer ballots are among the elections too. `OneOfEach` has one
election for all that differ in the voters' names or in gaps between ranks, neither of
which the tally looks at.
In `access` two requests are what it takes to overlap; the second poll is the one
whose token must survive; with two codes and two attempts a draw meets a taken code
and gives up or goes on; `None` takes a code between look-up and insertion;
`MaxSeats` of 2 lets a second seat happen. A browser whose requests have crossed is
not followed further, since nothing is promised to it. `MaxLogins` of 1 and a window
of 2 put two bursts on either side of any boundary. In `sweeper` two polls are enough for one to
fail, vanish or be claimed by its host before the other; a horizon of four half
seconds lets round 2 of both kinds begin and end, or be over when it opens, and
puts a closing time on either side of a cutoff within one second. Every safety
property of these runs is also proved, for any value of the
bounds (see The proofs).

*Symmetry* is used in `lifecycle_safety` (rows, titles, request slots) and `access`
(polls, codes, requests), which have no liveness property; no definition tells
those values apart. Deadlock is not checked in `access`: nobody has to use the
server, and the bounds on time and secrets stop it.

*Fairness.* A handler that was started is a goroutine and runs to its end
(`WF_vars(Continue(r))`), unless it is cut short, which is an action of its own.
Nobody is obliged to start a request. In `PollTimers` time passes and the sweeper's
ticker fires for ever. In `SeerrRequests` the handler that closed the poll runs
`autoRequestWinners`; that the sweeper runs another is not assumed. In `PollHub`
handlers end and a page's fetches, answers and connection attempts make progress, each
on its own; nobody has to change the poll, and what fails does so finitely often. In `RankedTally` the loop runs on. In `PollSweeper` time passes and
the sweeper's goroutine runs on; statements fail finitely often, hosts and the admin
are free. There is no strong fairness.

### What holds

* `CrownIsUndisputed`: `SetPollWinner` overwrites the winner by id. That is safe,
  because the request about to do so has claimed the step from round 1 to closed,
  nobody else did or can, no winner is set, and no ballot exists or is on its way,
  so `BreakTie` finds no tie to draw from.
* `ImplementsDecision`: forward only, one winner.
* `VotesNameRows`, `NominationsBacked`: ballots and withdrawals that cross leave
  neither dangling votes nor rows without nominators nor two rows of one title.
* `ImplementsContract`, `NewRowsWithinCap`, `NoSelfVotes`: with one request at a
  time only. Two requests break each of them: a round closes on a list that has
  changed, a participant nominates twice at the cap, a nomination is shared after
  the voter's own were looked up.
* `PauseStopsClock`, `VotingIsTimed`: until an operation acted on a stale row or was cut
  short; after that neither is promised.
* `SweepsOnlyDueRounds`: a round ends before its time only if it changed since that very
  sweep listed it, whatever happened earlier. `DueRoundIsLeft`: due rounds end in any
  case.
* `RecordedWereMade`, `OnceUnlessDisturbed`, `WinnersRequested`.
* `DroppedEventsAreHarmless`, `PagesCatchUp`: an event dropped at a full channel is
  made good by those before it, because a page fetches after every event it reads. This
  is about events only. What is not broadcast is promised to nobody: a join, a Seerr
  record after the closing broadcast, the change of a handler cut short, and whatever
  was broadcast while a page had no stream. Nor is anything promised to a page that shows an error, lost
  an event with its stream, or had a newer answer replaced by an older one.
* `MajorityWins`, `WinnersAreUnbeaten`, `SomebodyWins`, `BestFirst`, `RunoffEnds`: the
  runoff finds the first choice of a majority, elects somebody if anybody ranked, agrees
  with a pairwise comparison of those who are left, and scores of different rounds
  still come out in order, since the lowest count never falls from round to round.

* `MembershipKept`: a browser keeps every seat it was told of, whatever else it joins,
  creates or fails to hear of, and over restarts with a configured secret, as long as
  its requests do not overlap. Two joins at once both answer with the cookie they were
  sent plus one token, and the later answer wins.
* `OneSeatEach`: one participant, so one vote, per browser and poll; the excuses are
  named: requests that overlapped, an answer that was lost, a look-up that failed, a
  new secret. Each of them does make a second seat (remove it from the property and
  TLC shows how).
* `CodesNameOnePoll`: the look-up alone would not do; the unique column refuses the
  second of two creations that drew the same code, which then fails.
* `LoginsWithinLimit`: no boundary at which two bursts meet, although
  `userauth.go:182` calls the limiter "fixed-window"; the delay between clock and
  mutex is all that the window loses.
* `NothingDueIsLeft`, `SweptChangesAreTold`, `OpenedIsToldBeforeClosed`,
  `DueRoundsAreLeft`: a lost claim, a deleted poll or an error neither hides a change
  that was made nor holds up other polls for good. An error may hold them up for a
  tick, and the poll whose write failed is not announced: if that was the opening of
  round 2, or the process died before the broadcast, a later sweep may close a voting
  round that no page was ever told of. The properties name this (`lost`).
* `PurgeIsRightToTheSecond`: the text order of times is that of time except within one
  second (`store.go:528-529` says it is chronological), so a purge errs by less than a
  second.

### What does not hold

1. `ResultsFinal`. A ballot admitted in round 2 is stored after the poll closed:
   "finished; results final" (`internal/poll/types.go:24`) is not so for as long
   as a vote is in flight.
2. `PickIsRecorded`. Closing round 1 and storing the winner are two statements. If
   the request ends in between, the poll stays closed without a winner; `BreakTie`
   refuses, since there is no tie.
3. `AtMostOnce`. Two handlers both find no recorded request and both make one.
4. `EveryPageComesCurrent`. A change broadcast between a page's first fetch and its
   subscription reaches nobody, and the page has no periodic refetch, on which
   `docs/go-walkthrough/07-concurrency-sessions-and-sse.md:129` relies.

Two more exceptions are named in the properties rather than shown by a run of their
own. A pause of round 1 written after the sweeper opened round 2 leaves a poll marked
as paused whose clock runs (`disturbed` in `PauseStopsClock`). Extending round 1 of a
scheduled poll is not checked against the end of round 2, so a voting round may be
over when it opens; `OpenedIsToldBeforeClosed` says what is kept in that case.

## The proofs

Every safety property a passing run checks is a theorem of the specification, for all
values of the constants. What is assumed of the constants are the `ASSUME`s of the
modules, which TLC evaluates on every run: that the sets of participants, rows,
candidates and voters are finite, as those of a database are (cardinality is counted),
that candidates are natural numbers, which stand for the order of ids, that the ballots
given to a tally are valid, that bounds are natural numbers, the clock's positive, that a
retention is of whole seconds, and that `None` is no member of the sets it stands beside.
The numbers of requests, polls, failures and crashes are arbitrary.

Each proof module has one shape: the inductive invariant, `Start` or `...Init` for the
initial states, step lemmas with one step per action, `Invariance`, and the theorems,
which only draw conclusions from it. The invariants were checked by TLC on the run's
instance before they were proved.

### PollLifecycle

`PollLifecycleProofs` proves, for any number of concurrent requests and interruptions:

* `TypeCorrect`: `Spec => []TypeOK`;
* `CrownUndisputed`: `Spec => []CrownIsUndisputed`;
* `LifecycleImplementsDecision`: `Spec => Decision!Spec`;
* `VotesAlwaysNameRows`: `Spec => []VotesNameRows`;
* `NominationsAreBacked`: `Spec => []NominationsBacked`.

`CrownIsUndisputed` is not inductive: from a state in which a crowning is in flight
and so is a stray ballot, the next step breaks it. The inductive invariant `IInv`
says what rules that out:

* `FieldsSet`: a request carries what its next statement uses;
* `Round1IsFresh`: in round 1 there is no winner, no vote, and no request of a later
  phase in flight; this is where a crowning starts from;
* `WinnerOnClosed`, `TieOnClosed`: winners and drawn ties exist on closed polls only;
* `CrownAlone`: while a crowning is in flight there is no winner, no vote and no
  request that could bring one.

The argument: only the request that wins `CompareAndSetStatus` from round 1 to
closed gets to crown. `Round1IsFresh` gives it a clean poll at that moment; no vote
can begin on a closed poll, a tie without votes has no winners (`NoVotesNoTie`, the
strictly positive score of `rankByScore`), so `CrownAlone` persists until it is
done. `TypeStep`, `FieldsStep` and `PhasesStep` go through the actions one by one.
The refinement then only has to look at the steps that write `status` or `winner`.
`VotesNameRows` and `NominationsBacked` are inductive given the types: an insert looks
for the title, and a removal for other nominators, within its own transaction.

`PollSerialProofs` is about requests that follow each other. Its theorems have the
hypothesis `OneAtATime`, that `Requests` has at most one slot, since two requests break all
three (see What holds). It is the only hypothesis beyond those of the module: the
poll may still be deleted or purged, the request aborted, or the process die, between any
two statements.

* `NobodyVotesForThemselves`: `Spec => []NoSelfVotes`;
* `CapBoundsNewRows`: `Spec => NewRowsWithinCap`;
* `LifecycleImplementsContract`: `Spec => Contract!Spec`, the second refinement.

The invariant `SInv` adds to the above that a deleted poll has no rows (`GoneIsEmpty`) and
that what the one request has read still holds when its next statement runs, or the poll
is gone (`UpToDate`): the count under the cap, the list a round is closed on, the
voter's own nominations, the tie that is about to be drawn. `UpToDate` is a table of what
each handler relies on; it is exactly what concurrent requests invalidate.
`ContractScores` and `ContractCounts` say that the scores and counts of the
code are those of the contract.

### PollTimers

`PollTimersProofs` proves, for any number of operations at once (any `Slots`), any
horizon and any number of operations cut short:

* `TimersTypeCorrect`: `Spec => []TypeOK`. This needs `Near` and `Carried`: every time
  in the row and in a copy, however old, is at most a horizon away, so that no sum of a
  stored time and a remainder leaves its range.
* `PausesAreStops` and `VotesAreTimed`: `Spec => []PauseStopsClock` and
  `Spec => []VotingIsTimed`. Neither is inductive: a write puts a row back that was computed
  earlier. The invariant says that, until something was disturbed, the row is `Sound`, or
  its opening of round 2 is still to be completed (`SoundRow`), and a copy that is about to be
  written and is not stale is sound and of the row's stage, or was taken from a row still
  opening, whose completion will make it stale (`SoundCopies`).
* `SweptRoundsAreDue`: `Spec => SweepsOnlyDueRounds`. Earlier aborts and stale writes are no
  excuse, only the sweeper's own copy is, since the sweeper's round is due while
  its copy is fresh (`SweptIsDue`).

### PollSweeper

`PollSweeperProofs` proves, for any number of polls and any bounds:

* `SweeperTypeCorrect`: `Spec => []TypeOK`;
* `SweepsAll`: `Spec => []NothingDueIsLeft`. `Left`: a poll that was found has moved on,
  or its turn is to come, or it is being claimed, or the sweep failed. A lost claim
  counts as moved on because stages never go back (`RowsKept`);
* `SweepsAreTold`: `Spec => []SweptChangesAreTold`, and `OpenedIsTold`:
  `Spec => OpenedIsToldBeforeClosed`. `GoingToTell`: what is owed and not lost is in the list
  of changes or is the poll whose row is being written, and no poll whose turn is to come is in that
  list, as a sweep lists a poll once (`InHand`);
* `PurgeRightToTheSecond`: `Spec => PurgeIsRightToTheSecond`, arithmetic on `TextBefore`.

### SeerrRequests

`SeerrRequestsProofs` proves, for any titles, handlers and failing calls:

* `RequestsTypeCorrect`: `Spec => []TypeOK`;
* `RecordsAreTrue`: `Spec => []RecordedWereMade`, with what is about to be recorded made as
  well (`RecordsWhatWasMade`);
* `OnceEach`: `Spec => []OnceUnlessDisturbed`. `Orderly`: of a title that nothing spoilt or
  shared, one handler at most is past its look-up, it asks only for what was not made, and
  what was made is recorded or about to be; the look-up of the next handler finds it.

### PollHub

`PollHubProofs` proves, for any pages, any number of handlers at once, any capacity, and
any number of changes and failures:

* `HubTypeCorrect`: `Spec => []TypeOK`, which includes that nothing a page, a handler or an
  answer holds is newer than the database, and that nothing newer is owed. `Sane` adds what
  a handler about to answer needs: that it answers one of `Pages`;
* `DropsAreHarmless`: `Spec => []DroppedEventsAreHarmless`. `Told(p)`: page p shows what it is
  owed, or has an event or a fetch to come, or an answer on its way that is no older than
  that, or an error, which ends the debt. It is the reason why dropping an event is safe: a
  channel that is full has an event to come. And it is why older answers may cross newer
  ones: whatever arrives first, the one that matters is still on its way (`Showing`).

### PollAccess

`PollAccessProofs` proves every property of the `access` run, for any sets of
browsers, polls, codes, requests and addresses, any window, limit and delay, any
number of restarts and failures (the assumptions are `AccessAssumption` and
`LimiterAssumption`):

* `AccessTypeCorrect`: `Spec => []TypeOK`, by `TypeInv` and `LimiterInv`. `TypeInv` adds
  that a request carries what its next step uses (`Ready`), and that a poll has no
  participants before it is inserted.
* `LoginsLimited`: `Spec => []LoginsWithinLimit`. `LimiterInv` adds that attempts
  admitted within the last window, less the delay, are all still remembered, each
  with a time at most `Delay` before its turn; so when one more is admitted, the one
  `MaxLogins` before it must be that old. `DistinctHits` counts them.
* `CodesStayUnique`: `Spec => []CodesNameOnePoll`; inductive, given that the table is a
  function on the polls.
* `MembershipStays`: `Spec => []MembershipKept`. `Steady(b)` adds that at most one request
  of b is about to bring a cookie and that the tokens it works with include every
  seat b was told of; a new request starts from the jar, where they are.
* `OneSeat`: `Spec => []OneSeatEach`. `Seated(b)` adds that b's seat is the one it was told
  of or the one an answer on its way tells of, and that a request about to insert a
  seat has found none; `Steady` then gives that a seat is always found by its token.

### RankedTally

`RankedTallyProofs` proves, for any finite sets of candidates and voters, any limit on ranks
and any ballots that `ValidateBallot` admits (the assumptions are `CandidatesAssumption`,
`VotersAssumption` and `ElectionsAssumption`):

* `RunoffTypeCorrect`: `Spec => []TypeOK`. Whoever is eliminated was active: `Bottom` is not
  empty and has a least member, because the order of the naturals is well-founded
  (`LeastExists`, `MinIsLeast`).
* `ResultsInOrder`: `Spec => []BestFirst`. `CountsRise`: the votes of those who stay never
  fall, since a ballot leaves only the candidate that was eliminated; so whoever is
  eliminated has no more votes than those who stay get later (`GoneHadFewer`), and the votes
  of different rounds are still in order. `SortedLists` says that `Sorted` lists each member
  once and in order, by counting who is better; `RankingParts` puts the three lists together.
* `MajoritiesWin`: `Spec => []MajorityWins`. `FirstChoicesDecide`: if most ballots rank c
  first, nobody is ever eliminated, since in the first round c has those ballots, and they
  are most of those counted.
* `SurvivorsDoNotBeat`: `Spec => []WinnersAreUnbeaten`. `Verdict` says how the loop ended. A
  sole winner among several has more than half of the ballots counted; those prefer it, and
  who prefers another survivor is among the ballots counted for others (`OneChoice`,
  `TwoGroups`).
* `SomebodyIsElected`: `Spec => []SomebodyWins`. `VotesRemain`: who is eliminated is not the
  only one with a vote, so a vote is counted in every round if in the first.
* `PassesShrink`: `Spec => LoopShrinks`. A pass ends the loop or leaves fewer candidates:
  there are no more passes than candidates. With fairness this is why `RunoffEnds` holds.

### Only model-checked

* Liveness (`DueRoundIsLeft`, `WinnersRequested`, `PagesCatchUp`, `RunoffEnds`,
  `DueRoundsAreLeft`): it needs fairness and `ENABLED`, which the prover does not have.
  Of `RunoffEnds` the safety half is proved (`PassesShrink`).

## Not modelled

* The Jellyfin client, views, previews, configuration and the web pages but for the
  poll page's fetches: they read and render.
* Routing, JSON and access checks, other than "is a participant" and "is the host".
* Cryptography of the cookies and passcodes, and the age at which browsers drop a
  cookie. Passcode hashes are keyed by the session secret, so a new secret locks
  polls with a passcode for newcomers; no document promises otherwise.
* The forgiving spelling of typed codes.
* The snapshot, genre and library rules of a nomination: they refuse requests.
* Score voting, the limits on self votes of a ranked ballot, and the validation of
  configurations: sums and range checks without state.
* Several polls at once, other than in the sweeper's loop and the cookies: polls share
  nothing else but the database connection.

## Plan

Built: the lifecycle with its two abstract specifications and their refinement proofs,
timers, Seerr requests, live updates, access, the sweepers and the runoff, each with proofs
of its safety properties. Left are the self-vote limits of the three kinds of ballots,
and score, as operators against reference definitions.
