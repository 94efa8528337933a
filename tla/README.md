# TLA+ models of Russkiy

Russkiy is an adaptive platform for learning Russian: a Go API over PostgreSQL
(`src/services/api`), a Python service that classifies errors
(`src/services/ml`), a Next.js web application and an Expo mobile application
(`src/apps`). This directory models the parts of it that keep state and are
shared between goroutines, requests or processes.

| Module | Models | Checked by | Proved in |
|---|---|---|---|
| `EventBroker` | `internal/event` | `MCEventBroker`, `Broker*.cfg` | `EventBrokerProofs` |
| `SessionLifecycle` | `internal/handler/session.go` and its stores | `MCSessionLifecycle`, `Session*.cfg` | `SessionLifecycleProofs` |
| `Auth` | `internal/auth`, `internal/handler/auth.go` | `MCAuth`, `Auth*.cfg` | `AuthProofs` |
| `RateLimiter` | `internal/middleware/ratelimit.go` | `MCRateLimiter`, `RateLimit*.cfg` | `RateLimiterProofs` |
| `SessionLedger` | what a session backend promises (abstract) | – | – |
| `SessionRefinement` | the mapping of SessionLifecycle to the ledger | `SessionSequential.cfg` | `SessionLifecycleProofs` |
| `Fsrs` | `internal/engine/fsrs.go` | through LearnerSkills | `LearnerSkillsProofs` |
| `SessionPlanner` | `internal/engine/session.go` | through LearnerSkills, AdaptiveSession | `LearnerSkillsProofs` |
| `Placement` | `internal/handler/placement.go`, the placement page | `MCPlacement`, `PlacementLetters.cfg` | – |
| `LearnerSkills` | `internal/store/skill.go` and the handlers that use it | `MCLearnerSkills`, `LearnerSkills.cfg`, `SkillSchedule.cfg` | `LearnerSkillsProofs` |
| `ContentSelector` | `internal/engine/content_selector.go` | through AdaptiveSession | `AdaptiveSessionProofs` |
| `SessionComposer` | `internal/engine/session_composer.go` | through AdaptiveSession | `AdaptiveSessionProofs` |
| `AdaptiveSession` | a session of the composition engine | `MCAdaptiveSession`, `Adaptive*.cfg` | `AdaptiveSessionProofs` |
| `DualWrite` | `internal/database/pgstore.go` | `MCDualWrite`, `DualWrite*.cfg` | `DualWriteProofs` |

LearnerSkills extends Placement (which extends SessionPlanner) and Fsrs;
AdaptiveSession extends SessionComposer, ContentSelector, SessionPlanner, each
the one before. SessionRefinement extends SessionLifecycle and
instantiates SessionLedger.

Paths below are relative to `src/services/api`. `tlc -config X.cfg M` runs a
configuration of module M, `tlapm M.tla` checks the proofs of M.
`PROJECT.json` maps every definition to the lines it models.

## The system

**Event broker** (`internal/event`). State: topics (partition logs, a leader per
partition), killed brokers, committed offsets per consumer group and partition,
an idempotency log per group, subscriber channels. Operations: CreateTopic,
Publish, Subscribe, Consume, ConsumeAll, MarkProcessed, KillBroker,
ElectNewLeader, RunConsumer. Producers, workers and the administrator are
goroutines that share one Broker; it has one lock of its own, one per topic,
per partition and per group, and most operations take several of them one after
another. Hard: what happens between two critical sections; hand-out and
acknowledgement under overlapping workers; routing to the dead-letter topic.
Correct when no record is passed over, no event is applied twice, a key's
records stay in order, and acknowledged records survive a failover.

**Session lifecycle** (`internal/handler/session.go`, `internal/store`,
`internal/engine/xp.go`). State: the tables sessions, session_items,
exercise_results, learner_skills, learner_streaks. Operations: Generate, Submit,
Complete; each is a sequence of autocommitted SQL statements, most of whose
errors are dropped. Hard: overlapping submissions (a double tap, a retry), a
completion racing the last submission, a statement failing or the process
stopping half-way. Correct when counters agree with the saved results, nothing
is credited twice, completion is final and the streak is the run of active days.

**Accounts and tokens** (`internal/auth`, `internal/handler/auth.go`). State:
users (PostgreSQL), and in the process the lockout table, the revocation list
and the signing keys. Operations: Register, Login, Refresh, restart. Hard:
check-then-act across bcrypt and across two acquisitions of a mutex; what a
restart forgets. Correct when a presented string is exchanged once and is dead
afterwards, a lock holds until its time, and an address has one account.

**Rate limiter** (`internal/middleware/ratelimit.go`). State: a window per user.
One critical section per request. Hard: boundaries (the end of a window, whole
seconds in Retry-After, several tiers of one user).

**Skill rows** (`internal/engine/fsrs.go`, `internal/store/skill.go`, and the
handlers of profiles, sessions and placement). State: one row per learner and
skill, and the learner's level. Operations: create a profile, answer (read the
row, reschedule it in Go, write it back whole), plan a session (five queries,
then `SelectSkills` and `BuildSession`), submit a placement test (level, rows,
one grant per right answer). Hard: whole-row writes of overlapping requests;
plans made of several queries; statements that fail and are only logged; values
the code computes and the column refuses. Correct when rows mean what their
status says, a learner has the rows of the level, and plans are sound.

**Placement test**. The server makes questions per stage; the web page keeps the
test's state, decides after each stage whether to go on, and submits. Correct
when nobody is stopped by a stage nobody can pass, and the level is not above
what was shown.

**Composition engine** (`internal/engine/content_selector.go`,
`session_composer.go`). Pure functions, driven by the engine's tests: select
content phase by phase under a time budget, arrange it in an arc, and after each
answer adapt what is left and trim it. Hard: boundaries (few slots, nothing left
of a kind) and long sequences of adaptations, each working on what the last one
left. Correct when nothing chosen is lost, the budget is kept, and what was
answered is not touched.

**Simulated databases** (`internal/database/pgstore.go`, used by its tests). Two
stores, each with a lock, and a service that writes to both. Hard: indexes kept
by every insert and used by cascading deletion; calls that overlap between the
two stores; initialising a learner twice. Correct when the stores agree and a
deletion leaves nothing behind and takes nothing else.

Profiles, statistics and content queries other than those above, the teacher
API (mostly canned answers), the development server (a stand-in for the API over
maps behind one mutex), the gateway, configuration, the error classifier
(stateless string processing), the seed migrations, the mobile application and
the rendering in the web application hold no protocol to check.

## EventBroker

An action is one critical section: the code between acquiring a lock and
releasing it. Where a section commutes with every step that can fall in
between, it is merged with its neighbour and the action's comment says so. So
Publish is StartPublish (lookup, leader), PublishCheck (killed flag),
PublishAppend, PublishSubs, one PublishNotify per subscriber, PublishReturn;
Consume is ConsumeLookup, ConsumeOffset, ConsumeFetch, ConsumeCommit; a
RunConsumer iteration continues with Dispatch (idempotency check and handler),
MarkProcessed, or RouteToDlq, the Publish steps and DlqReturn. `pub` and `cons`
hold each goroutine's program counter and local variables.

Records are abstracted to their key, event ID, whether they are JSON, and the
publish that made them (`src`, `seq`); a dead-letter record names the record it
wraps. The FNV hash is a constant function of the key. A topic created again is
a new incarnation: goroutines that looked the old one up keep using it. The
handler is the caller's function, so its result is any. `handed`, `applied`,
`failed` and `acked` are history variables.

Runs:

- `BrokerGroup`: two workers of one group, one partition, two publishes, a
  subscriber with a channel of one. TypeOK, NoSkip, EventuallyHanded. One partition
  is the hard case of NoSkip and of the hand-out: offsets of different partitions
  are separate map entries.
- `BrokerWorker`: one worker that may be stopped and started again, with a
  dead-letter topic, two partitions, duplicates under one key and under two, payloads
  that are not JSON; two brokers, one of which dies, and elections. AckedReadable
  and KeyOrder are about what the producer and the worker (its letters) publish
  while leaders change under them. AppliedOnce and OffsetsAdvance need the worker
  to be alone in its group. DlqOnlyFailures: a dead letter lies in its worker's
  dead-letter topic, under the key of a record that worker failed on, wraps it, and
  is the only letter for that failure. DlqKeepsFailures: while the brokers are up, a
  failure whose dead-letter topic existed is in it or about to be. `failed` numbers
  each worker's failures, and a letter carries the number.

Two configurations beside the runs pass as well: `BrokerFailover` (AckedReadable and
KeyOrder with two producers and a subscriber) and `BrokerSolo` (the worker's
properties on one broker, with ConsumeAll reading the dead letters in a group of its
own). The proofs cover both.

Counterexamples beside the runs: each configuration checks one definition, and TLC
refutes it. Three are about something the code's comments or tests say:

- `BrokerExactlyOnce`: AppliedOnce with two workers of a group, which the tests
  run ("Consumer Group Processes Events Exactly Once"). Both read a record before
  either commits, and both pass the idempotency check before either marks it.
- `BrokerDlqComplete`: a failure is lost if Publish refuses its letter (no
  dead-letter topic, dead leader), because RunConsumer drops the error.
- `BrokerDlqPayload`: a payload that is not JSON is dead-lettered empty.

The others are `BrokerSharedGroup` (a group of two topics skips records),
`BrokerRecreate` (so does a group of a topic created again) and `BrokerDeadLeader`
(an append after the leader died).

Fairness (`FairSpec`, for EventuallyHanded only): weak fairness of a goroutine
that is inside Publish or RunConsumer. No step of theirs blocks: every lock is
released before the next is taken, sends to subscribers are non-blocking and
handlers return. Nobody is obliged to call, to receive or to kill. The property
asks only for records of a partition with a running worker.

Bounds: MaxPub (publishes per producer), MaxGen (creations per topic name),
MaxStops (done channels closed), Mortal (brokers that may die). Two publishes
give a record behind another, which is where skipping and reordering start.
Checking deadlock is off only where everybody may be finished (`BrokerFailover`,
`BrokerDeadLeader`).

Proved for all values of the constants:

- `TypeCorrect`: TypeOK is inductive. Besides types it says that a call in
  progress holds the incarnation, record and event ID its next section needs.
- `NothingSkipped`: NoSkip when each group reads one topic and topics are created
  once (`BrokerSharedGroup` and `BrokerRecreate` show both are needed). Strengthening `HandOutInv`:
  everything below a committed offset was handed out, and everything below the
  offset a worker *read* was. The second half is what makes a stale commit
  harmless: a worker writes back at most one more than it read.
- `SoloOffsetsAdvance`, `SoloAppliedOnce`: with one consumer per group, the offset
  read is still the committed one (`OffsetInv`), and an applied event is marked or
  its only consumer is about to mark it (`AppliedInv`).
- `KeyOrdered`: KeyOrder, from `KeyInv`: a record lies in its key's partition,
  carries a number its publisher has used, and a publisher's numbers ascend in
  every log; a Publish in progress carries the publisher's latest number.
- `AckedStaysReadable`: AckedReadable when topics are created once; creating one
  again replaces its logs, so the hypothesis is needed. `AckedInv`, which needs no
  hypothesis, adds the Publish calls between their append and their return: each
  holds a record that its log stores where the call says, and logs only grow.
- `DeadLettersHonest`: DlqOnlyFailures, for any consumers. A letter is judged when
  it is stored, but its failure was put on file before the worker built it, so
  `HonestInv` says the same of a letter that waits in a Publish call, and
  `LettersInv` that the next letter a worker publishes is for its last failure.
  `NumberedInv` (with KeyInv) keeps the numbers of stored letters apart.
- `FailuresKept`: DlqKeepsFailures, for any workers, groups, topics and elections.
  `KeptInv` follows a failure from the handler to the append: until its letter is
  filed, its own worker holds the record and its call carries the letter. A worker
  may fail on one record twice, so the letter is told by its number.

EventuallyHanded is liveness and stays with TLC.

## SessionLifecycle

An action is one SQL statement (or transaction) of one request, with the Go code
up to the next statement. `req` holds the local variables: the session row, the
skill counter and the XP total the request read. A statement may fail (`Fault`)
and the action shows what the handler does about it: answer 500, log, or go on.
Stop cuts off all requests in flight. There is one learner, since no statement
touches two learners' rows. Accuracy is in thousandths, rounded to nearest, as
DECIMAL(4,3) stores it. XP values come from a set per outcome (CalculateXP's
bonuses depend on what another request may change); level thresholds are a
constant. The item count BuildSession returns is any of `ItemCounts`, 0 included.
The skill row is its attempt counter. `StreaksUsable` says whether
learner_streaks has the columns StreakStore names.

Runs:

- `SessionSequential`: one request at a time, up to three answers and three
  completions over four days, midnight at any point, bonus XP. ProgressExact,
  LevelMatchesXP, SummaryWithinOne, StreakHonest, KeepsLedger. Three answers make
  accuracies whose rounding accumulates; four days allow two runs with a gap.
  This is the schema StreakStore is written for (`StreaksUsable = TRUE`).
- `SessionStreakTable` expects a violation, of StreakUpdated ("updates streak after
  a completed session"): migration 001 creates learner_streaks without the columns
  last_active, total_sessions and current_level, 004's CREATE TABLE IF NOT EXISTS
  does nothing, and Complete drops the error of RecordActivity. One session,
  completed once, shows it (`StreaksUsable = FALSE`).
- `SessionConcurrent`: two overlapping requests, one fault or stop. TypeOK,
  NeverOvercounts, XPNeverOvercounts, CompletedStays.

Beside the runs, `SessionShipped` checks KeepsLedger for the schema the migrations
make, of the ledger that credits nothing (two sessions; it passes). Counterexamples
beside the runs: `SessionLostUpdate` (ProgressExact with two
requests: both write index + 1 and one answer is lost), `SessionDoubleComplete` (a
session completed twice is credited twice) and `SessionOrphan` (a session without
items).

Exactness holds one request at a time; with overlapping requests only the upper
bounds do, and the level and the streak may lag. Deadlock checking is off: the
bounds on calls end every behaviour. No liveness is claimed: nothing in the code
retries, so nothing must eventually happen.

Proved: `TypeCorrect`, `CompletedForever` (no action writes a status other than
completed into a row that has it, Generate's insert being for a fresh ID) and
`NothingOvercounted`. For the last, NeverOvercounts is not inductive: a request
between its SaveResult and its UpdateSessionState owes the session one step.
`IndexInv` adds the number of such requests to the index, for the row in the
table and for every row a request holds a copy of; `AttemptInv` does the same for
the skill counter; `LifeInv` says that a session is inserted once.
`XPNeverInvented` is the same for XP, where what requests still owe is a sum and not
a number of requests: `Due` is a pile of pairs, one per request and point of XP
it has saved with a result and not yet added to the session's row, and `XPInv`
bounds the row's XP, and every copy of it a request holds, together with the size
of that pile.

Proved in `SessionLifecycleProofs`, of a learner whose requests come one at a time
(`OneRequest`; `SessionLostUpdate` shows that it is needed):

- `ProgressIsExact`, if no statement fails (`NoFaults`). `RowsInv`: a session's row
  and the results agree, except while a Submit is between its insert and its
  update, when the row is one answer behind and the request holds the difference.
- `StreakIsHonest`, with failing statements and stops allowed. `StreakInv`: the
  last active day of the row is the latest day on which activity was recorded,
  the current run ends there, and a request's date lies between it and today;
  midnight may pass while a request holds its date.
- `LevelIsThatOfXP`, if no statement fails and no level is free (`LevelsEarned`).
  `LevelInv` admits the one moment between RecordActivity and UpdateLevel.
- `SummaryIsWithinOne`, if no statement fails and sessions are short
  (`ShortSessions`). Each answer rounds the stored accuracy once more; the errors
  add up to less than one right answer as long as n * (n + 1) < 4 * Unit, which is
  62 items. `SessionItems` plans 5 to 20.
- `APIKeepsLedger`, see the next section.

## SessionLedger

`SessionLedger` is the account the API keeps of practice: a session
belongs to one learner, an answer adds one to its progress and something to its
XP, and completing it credits its learner with all it has earned. It says what
the code promises, not what one might wish: a completed session may be answered
and completed again, and is then credited again.

`SessionRefinement` maps SessionLifecycle to it. Between CompleteSession and
RecordActivity the XP that was written is owed (`Uncredited`), so the abstract
credit is the stored total and what is owed. The ledger's constant `Credits` is
StreaksUsable: the schema StreakStore is written for gives the ledger described
above, and the one the migrations make, where nothing is ever owed, a ledger whose
completions credit nobody. `KeepsLedger` is checked by `SessionSequential` for the
first and by `SessionShipped` for the second; it needs one request at a time and no
failing statement but those the schema fails (`SessionLostUpdate` shows why). Under
these two hypotheses `APIKeepsLedger` proves it for either schema: every SQL
statement is one step of the ledger or a stutter. That a Complete credits
what its session earned follows from `RowsInv`; `CreditInv` adds that XP is stored
only with a day (so that a learner's first activity credits onto nothing) and that
an answer in flight earns what one may earn.

## Auth

An action is one call of LockoutManager, MemoryTokenStore or UserStore with the
code up to the next. `tokens` records the pairs of an access and a refresh token
that were issued: whose, signed with which key pair, when each expires, and the
string the pair was given for. What a client presents, and what the token store
keeps, is a string: a pair's number, the kind of token (neither Refresh nor
RotateRefreshToken looks at a token's type, so both kinds pass) and one of
`Spellings`, the strings that the JWT library, which is not modelled, reads as one
token. Access tokens carry no ID: those a user is given within a second are one
token (`Canonical`). Revocation, reuse and the properties are about strings: that
a string is spent says nothing of another string for the same token, since the
code keeps the string (auth.go:169). Passwords are right or wrong. Hashing, e-mail
syntax and the use of access tokens elsewhere are left out. Restart empties the lockout table and the token store and replaces the key
pair, as `cmd/server/main.go` does; users survive.

Run: `AuthConcurrent` (two overlapping requests, a restart, locks and tokens that
expire): TypeOK, AncestorsRevoked, SpentStaysSpent, AnswersBounded,
OneAccountPerAddress. Counterexamples beside it: `AuthRotateRace` (RotatedOnce: two
overlapping refreshes exchange one string for two pairs) and `AuthLockRace`
(LockHonoured: a login that passed the check before the lock was set removes it).
MaxFailedAttempts is 2 and durations are 2 ticks of 4, so that a lock or a token
expires and a second one follows; an access token expires before the refresh
token issued with it. Three pairs are a chain of two rotations or a fork, and two
spellings suffice for a spent string and an unspent one of the same token. Requests
and spellings are interchangeable, and TLC uses that symmetry.

Proved in `AuthProofs`, with overlapping requests, restarts and expiry, for all
constants: `TypeCorrect`, `RotationRevokes` (AncestorsRevoked), `SpentIsDead`
(SpentStaysSpent), `GuessesBounded` (AnswersBounded) and `RegisteredOnce`
(OneAccountPerAddress). The invariant has three parts. `InFlight`: a request that is
about to exchange a token holds one the running process signed, since a restart
cuts off requests and replaces the key pair together. `TokenInv`: the strings that
pairs of the running process were given for, and the spent strings for its tokens,
are on the revocation list; those for tokens of an earlier one need not be, because
nothing accepts their signature. `CountInv`: the
answers 401 since a login last succeeded are no more than the failures the lockout
table counts.

Both refuted properties hold one request at a time, which is proved too:
`RefreshedOnce` (RotatedOnce; `ChainInv`: a string that a pair was given for is
spent, and a request past the check for revoked strings presents an unspent one) and
`LocksStand` (LockHonoured; `UnlockedInv`: a login about to lift a lock found
none, and time can only unlock).

## RateLimiter

A request is one step, as in the code (one mutex). Time is in ticks,
TicksPerSecond of them a second, so that Retry-After's whole seconds round.
`RateLimit`: two users, one with both tiers; windows of 3 ticks with 2 per second
over 9 ticks, three windows. BurstBounded is twice the limit in a window length;
`RateLimitSliding`, beside the runs, shows that one limit, as the code's comment
"sliding window" says, does not hold.
Proved: `RetryAfterHonest`, that the advice outlasts the window it was given in,
for all limits, windows and granularities (`RetryAfterOutlasts` is the arithmetic,
the invariant relates each advice to the current window), and `TypeCorrect`.
`BurstsBounded` proves BurstBounded over the history of admitted requests:
`BurstInv` ties the history to the current window: all but the requests it has let
through came before it began, and all but those and one limit's worth more before
the window before it began. The bound alone (`Spread`) would not be inductive. All
three assume that the clock starts (MaxTime >= 1).

## Fsrs, Placement, LearnerSkills

`Fsrs` is the scheduler as operators. Numbers are scaled to the columns that
store them (confidence in thousandths, stability in hundredths of a day,
difficulty in hundredths) and rounded as the columns round. Time enters as the
recall r, in percent, an answer comes at; that a row is due is a field of it.

`Placement` is the page: introduction, questions, stage by stage, result. Its
stage table is a constant; `MCPlacement` gives it the handler's. Stages are
numbered from 1 here, from 0 in the code.

`LearnerSkills` puts them around the rows of one learner. An action is one
statement of one request with the Go code up to the next; `req` holds the local
variables. Statements that write may fail, and a failure is only logged.
`UpsertLearnerSkill` also fails on a status the column type `skill_status` does
not have (`Storable`). Queries answer in any order their ORDER BY allows. The
page shares nothing with the requests until it submits, so its steps are taken
while none is in flight. Planning goes on to the items of the session
(`SelectSkills`, the content queries, `BuildSession`); SessionLifecycle takes over
there. Failing *reads* of a plan are not modelled: they leave a query empty.

Run `LearnerSkills`: two overlapping requests, two skills on two levels of which
one needs the other, up to three answers at two recalls (right, right by
avoidance, wrong), one plan, one placement test; mastery after two right
answers.

- StatusHonest: rows keep their columns' types, `new` is never answered, and
  mastered is as many right answers in a row as it says, whichever of an answer
  and a placement wrote last. It depends on Granted setting four columns together.
- SeededUpToLevel: a level comes with its rows, unless an insert failed.
- PlanSound: a plan takes no skill twice, although its reads may see as many
  states of the rows. A skill new to the plan, or one never attempted, is taken
  only if the learner knew each prerequisite with a confidence of 0.3 at the last
  read (the history field `knew`): an answer between the reads may unlock a skill
  or lock it. A review of a skill attempted before may be locked, as the code has
  it. The items repeat content only when nothing else is left.

Run `SkillSchedule` (expected to fail): ReviewedIsStable says, with
`fsrs_test.go`, that an answered skill has a stability above 0. Rows are seeded at
stability 0, not at `InitialStability`, and growth multiplies it; the one thing
that would lift it to the minimum, a lapse, comes with the status `relearning`,
which the column refuses. The theorem `NothingScheduled` (below) says how far this
goes: no row is ever scheduled, every skill of every learner is always due.

The bound of three answers covers mastery, a lapse, and an answer that overlaps
another of the same skill. A fourth status change is only `fossilized`, which
needs lapses to be stored. The requests are symmetric. Deadlock checking is off:
the bounds end every behaviour.

Run `PlacementLetters` (expected to fail): LettersLead says that who answers every
letter question right is not stopped there. The stage names one skill, so there
is one question, and two right answers are required.

Proved in `LearnerSkillsProofs`, for all skills, levels, requests, answers and
thresholds: `HonestStatuses`, `NothingScheduled` and `LevelSeeded`. The invariant
`Inv` has two halves: `RowInv` for stored rows, and `PendingInv` for rows in a
request's hands, since an upsert writes what was read before. A pending row may
have a schedule (after a lapse), but only with a status that cannot be stored;
this is what makes `StillDue` (every row due, at stability 0, without a lapse),
the statement of `NothingScheduled`, inductive. It rests on lemmas about the scheduler:
the range of each number (`DifficultyType`, `StabilityType`, `ConfidenceType`),
`UpdateHonest` and `UpdateUnscheduled`. `SeedInv` adds to SeededUpToLevel the
requests that are about to insert the missing rows.

`PlansSound` proves PlanSound, for any number of skills, any prerequisites and any
content. What a plan reads goes stale: while a request collects its five answers,
others insert and rewrite rows. `PlanInv` says what survives: each answer a request
holds lists rows without a repetition (`IsRows`), and a finished plan takes, of the
rows it holds, no skill twice and, but for reviews of attempted skills, none whose
prerequisites the learner did not know when the plan was made. The rest is about the functions: `SelectIs`
(SelectSkills: its buckets, its order, the cut at MaxItems) and `BuildIs`
(BuildSession: the items chosen so far and the content they have used). Both are
inductions over sequences, by way of a least counterexample (`SetInduction`, from
the library's well-foundedness of the natural numbers), since the library's
induction theorems take operators. The proof assumes that the skills are finitely
many and that SkillOrder, the order of the table's rows, has none twice.

## The composition engine

`SessionPlanner`, `ContentSelector` and `SessionComposer` are operators, one per
function or phase. `sort.Slice` is stable below thirteen elements (`Ordered`), so
inputs stay below that where order matters. `AdaptiveSession` drives them as the
engine's tests do: select, compose, then answer after answer. A call is a step,
since one goroutine owns a session. An atom is its ID, skills, level, difficulty,
time, type and tags.

Run `AdaptiveSession`: catalogues of none to sixteen atoms in `MCAdaptiveSession`,
chosen for the short, standard and intensive templates at different sizes, all
phases of the selector, missing time estimates, seen content, an assignment that
overruns the budget, and types that come in runs; up to seven answers, right,
right and fast, or wrong. Seven cover a fast run of five with two adaptations, and
several times three mistakes.

- SelectionSound: the phases do not undo each other's checks. The assignment phase
  ignores the budget, so the budget is promised only where its items fit.
- RunsOnlyAtTheEnd: four of a type in a row only where nothing else is left.
  It is what the sweeps achieve; their comment says more (see below).
- ComposedWhole: composing loses, repeats and invents nothing, for every template
  and size. The standard template leaves the cooldown out at four and six
  items, the intensive one at six and seven; the tests ask for it only of longer and of short sessions.
- BudgetKept: the running total is the sum of the items, and no adaptation takes a
  session over its budget.
- AnsweredFrozen: what was answered stays, as long as the session fitted its
  budget; a session over it from the beginning may lose answered items when it is
  trimmed, since trimming does not look at what was answered.
- AdaptsTheRightWay: not harder after three mistakes, not easier after five fast
  right answers.

`AdaptiveVariety`, beside the runs, is refuted: VarietyKept says, with the comment on
enforceVariety, that no more than three items of one type come in a row, and asks
it only of selections that can be so ordered. A sweep swaps an item with a later
one, so a run at the end stays, although an item before it could break it.

Proved in `AdaptiveSessionProofs`, for every catalogue, learner, assignment, budget and
pool of variants, and any number of answers: all of the above. `InputsAssumption` asks
only that the inputs are sequences of atoms with integer times and difficulties.
`SessionInv` is inductive; what it needs of each function is a lemma:

- `SelectionKept` (SelectionSound): each phase of the selector keeps `IsChoice` (no atom
  twice, only atoms of the catalogue, no more than the estimate, the running time is
  that of what was chosen), whatever the phases before chose; the phases after the
  assignment's stop within the budget.
- `RunsBroken` (RunsOnlyAtTheEnd): `TidyUpTo` says that a run of four that begins where
  the sweep has been is followed by nothing of another type; a later swap keeps it so.
- `NothingDropped` (ComposedWhole): templates as counts of slots, for every number of
  items; placing is a one-to-one map of selections to slots.
- `BudgetAlwaysKept`, `AnsweredKept`, `AdaptedTheRightWay` (the action properties): a
  session is `Sound` when its total is the sum of its items and a warm-up, if there is
  one, comes first. Replacing items keeps it so, trimming ends within the budget or
  with nothing left to trim, and neither goes behind the answers unless it was over
  its budget when it was composed.
- `SessionTyped` (TypeOK).

## DualWrite

A call on one store is a step (each store has one lock), a call of the service is
several. IDs are fresh, so a row is inserted once and a deleted ID does not come
back. A learner's skills may be initialised without a profile, as the tests do. A
skill is its confidence and its status in both stores; PgStore writes them together,
the graph one after the other (`UpdateProperty`, `UpdateStatus`). The time of the
update, which the graph gets last, is left out. The graph's nodes are keyed by
learner and skill, as the code's node names are. `FindPath` is the code's breadth-first search as a function on the number of
nodes taken from the queue (`SearchSteps`), each round a function on the edges
followed (`VisitSteps`); the path is read off the parents (`BackSteps`).

Run `DualWrite`: two users, two profiles, one session, one result, a chain of
three skills, two writers and two service calls, of which no two are about one
learner at once. StoresAgree, PathsFound, CascadeComplete. Two profiles are needed
for a deletion to take too much; two calls for an initialisation after another,
which creates its edges again. IDs, addresses and writers are symmetric.
`DualWriteOverlap`, beside the runs, shows StoresAgree refuted when calls about one
learner overlap.

Deletion takes nothing from the graph: the nodes of deleted learners stay. The
queries of content and the simulated Citus cluster (a hash to a worker, fixed
answers) are not modelled.

Proved in `DualWriteProofs`, for all constants: `DeletionsComplete`
(CascadeComplete), with overlapping calls, from `IndexInv`: the indexes of
addresses, profiles and sessions find exactly the rows that name their key; the
index of results finds at least those, since a result goes with its session, which
may be another learner's. A cascade that follows the indexes therefore deletes what
a scan of the tables would. `StoresStayEqual` (StoresAgree) assumes
that no two calls about one learner overlap; `AgreeInv` relates the stores while a
call is between its writes (`Agreed`: what one store already has is what the call is
about to write to the other, the confidence before the status).

`PathsAreFound` (PathsFound, under the same hypothesis, for all skills, prerequisites
and levels) has two halves. `GraphInv` is about the graph: edges join a learner's
skill to one that needs it, and a learner no initialisation is about has, with each
skill, all skills of its level or below and the edges into it. That second part is
why initialising again at another level leaves no gap: a node that an
initialisation adds is at no higher level than what was asked for, so a skill above
that level cannot lack an edge from it. `PathIs` is about the search of any finite
graph: the visited nodes form a `Tree` (no node queued twice, each reached along an
edge from its parent, ranked by the order of visits, inside every set no edge
leaves), each round takes one node more, so that `Rounds` rounds suffice, and reading
back descends the ranks. That a node is reachable is stated without paths: it is in
every set that has the first node and that no edge leaves.

## Mutants

Definitions commented "Mutant of X (P)" are variants of X with a plausible bug;
with X replaced by the mutant, the run that checks P finds P violated. They are
used nowhere else.

## Limits

Every invariant and every action property that a passing run checks is proved.
Three runs refute one property each (`PlacementLetters`, `SessionStreakTable`,
`SkillSchedule`). One property is liveness: EventuallyHanded, under fairness, which TLAPS does not reason
about, is model-checked only, on the small instance of `BrokerGroup`.

A hypothesis of a theorem about the order of calls (one request at a time, one
consumer per group, topics created once, one call per learner at a time) is needed:
a configuration shows what happens without it.

Floating-point arithmetic is modelled by the rounding the database applies.
Failures of PostgreSQL other than a failed statement, and more than one API
process, are not modelled.

## Not modelled

- The teacher API, the gateway and the token middleware, configuration, the
  statistics and catalogue handlers: stateless, or one statement without a protocol.
- The OAuth exchange: its UserLookup has no implementation outside the tests.
- The error classifier and its client: stateless, and Submit ignores its failure.
- The learn page: any client's overlapping requests are allowed by SessionLifecycle.
- The development server: one critical section per request, nothing persisted.
- QueryContent and the Citus simulation of `pgstore.go`; CalculateStats.
- The mobile application, shared types, deployment and seed data.

## Plan

1. An abstract single-use token family that Auth implements one request at a time,
   and an at-least-once queue that EventBroker implements.
2. The teacher API, once it does more than answer from canned data.
