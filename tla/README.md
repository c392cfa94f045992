# Verification of the coding club backend

TLA+ models of `src/`, the Django backend of a student coding club: accounts, forms,
events and, by far the largest part, hackathons. The models are translated from the
code; where a doc or a comment says otherwise, the disagreement is recorded as a
finding. `PROJECT.json` maps every definition to the lines it stands for and lists,
under "hazards", the places where this code is hard to test and the properties that
watch them.

The code's own difficulty is not in any single handler but in how they meet. The
`Procfile` starts gunicorn with three workers on PostgreSQL at its default isolation
(READ COMMITTED), and the settings have no `ATOMIC_REQUESTS`: requests overlap, each
service method opens its own `transaction.atomic()`, and what it excludes is exactly
what it has selected FOR UPDATE. Files live in an object store no transaction covers.
Background work runs on daemon threads of the same process (`core/tasks.py`) and is
lost with it. The models are about those overlaps and about long sequences of legal
calls; the unit tests run one call after the other.

## 1. Inventory

Paths are below `src/apps/`.

### Hackathons

| component | state it keeps | operations | hard because | correct when |
|---|---|---|---|---|
| team formation: `TeamService` in `hackathons/services.py`, `finder.py`, `finder_admin.py`, `signals.py` | `Team` (status, leader, looking_for_members), `TeamMember` (role), `TeamInvite`, `TeamEmailInvite`, `TeamJoinRequest` | create, invite (account or address), accept, decline, claim on sign-up, request, decide, leave, remove, transfer, withdraw, delete, organizers' overrides | seven ways onto a team; leader stored twice; status stored, not computed; accounts appear without the team's lock; the claim hook runs after a commit | one team per person, one leader in both places, status follows size, slots are reserved by whatever waits for an answer |
| seats: `registration.py`, `WaitlistService`, settings and delete handlers of `views.py` | `Hackathon.max_teams/max_participants/waitlist_enabled`, `Team.is_waitlisted/queued_at` | capacity check, queue, promote, change limits, override, delete | promotion and deletion do not take the hackathon's lock; a promotion runs after the commit that made room for it | limits hold, the queue is served oldest first, free room is used |
| registration payments: `payments.py` | `TeamPayment` (status, screenshot, transaction id), the team's payment statuses | submit, verify, reject, reopen, remove, cancel, remind | two rows move in lockstep while organizers set statuses by hand; a team deleted under its payment | payment and team agree; no payment outlives its team unnoticed |
| withdrawals and creation limits: `withdrawals.py` | `WithdrawalRequest`, `TeamAllowance`, counters derived from teams | request, decide, withdraw, grant, counting of created teams | decided long after it was asked; counts derived from rows others delete | a team that holds a place goes only with an approval |
| rounds and shortlists: `RoundService`, `round_rules.py`, `celebrate.py` | `Round`, `RoundEntry` (decision), congratulation cards | populate, add, remove, decide, auto-shortlist, publish, take back, advance | cards are awarded after the commit and retracted from several places | cards tell the truth, the next round has the shortlisted teams |
| round judging: `round_judging.py`, `views_round_judging.py` | `RoundJudge`, `RoundAssignment`, `RoundReview`, rubric, `Round.evaluation_status`, scores and ranks on `RoundEntry` | configure, set rubric and panel, assign, start, submit, recuse, close, reopen | edits, recusals, removals and reopenings in any order; other requests hold old copies of the round | kept scores are the reviews', ranks follow them, one rubric, published results stand |
| hackathon-wide judging and access: `judging.py`, `access.py`, `submissions.py`, `judge_invites.py` | judges, criteria, `SubmissionReview`, averages kept on projects | score, replace criteria, invite and revoke judges, publish | averages kept apart from reviews; a new rubric re-totals old reviews | the leaderboard is that of the reviews |
| ideas and files: `ideas.py`, `idea_files.py` | `IdeaSubmission`, `IdeaFile`, stored objects | submit, review, upload, attach, discard, quarantine, sweep | a review meets a save; object store and database commit separately | a decision stands; the files an idea names exist |
| problem statements: `ProblemStatementService`, statement views | `ProblemStatement` (active, max_teams), the teams' choice | create, import, edit, delete, choose | counted under one lock, deleted under none | a statement is not over-filled or taken away unforced |
| check-in: `checkin.py`, `check_in_sessions.py` | sessions, records, batches | sync sessions, scan, replay offline scans, undo | scans late, twice, out of order; nothing is locked | arrival precedes what needs it; no record is lost with its session |
| announcements and mail: `services.py`, `team_emails.py` | `emailed_at`, outgoing mail | publish, claim, send | stamped before sent, sent from a thread | at most once; what may be lost is known |
| the rest: stages, winners, certificates, cloning, exports, analytics | single rows | edits and reads | little; ordering and code generation | pure functions |

### Other applications

| component | state | operations | hard because | correct when |
|---|---|---|---|---|
| forms: submissions, drafts, capacity | `Response`, drafts, `Form.status` | submit, edit, enter by hand, cancel, delete, open and close | limits and status read before the lock; closing and reopening race | a submission goes over no limit, a form closed for being full is full |
| forms: uploads | objects, `FormUpload` | presign, complete, attach, replace, quarantine, sweep | three systems, retries, a sweep that races an attach | an answer's files are attached and there |
| forms: builder and versions | `FormField`, `FormVersion`, the version each answer names | save, publish, schedule, delete, restore, copy | answers outlive the questions they were given to | answers keep their meaning |
| forms: validation, conditional logic | definitions | publish check, layout of a submission | a bounded fixpoint; rules that exclude each other | every accepted form can be answered |
| forms: analytics, spam | queries | | | |
| events: registration, reminders | registrations, capacity, `EventReminder` | register, cancel, reopen, remind | cancelling races closing; two cron runs | cap holds; reminded once |
| attendance | sessions, badges, scans | save the schedule, issue, scan | a schedule changes under scans | scans are reported |
| accounts: e-mail verification, password setup | tokens, invites of judges | issue, supersede, consume, dispute | the user is not locked | a verified address was proved, one live setup link |
| accounts: club ids | counter, reserved, retired ids, holders | assign, replace, move, clear, reserve, release, register, edit, import | uniqueness over three tables, looked up without a lock, and three doors that bypass the registry | an affiliate has an id; a kept id is nobody's, though requests that overlap break this |
| accounts: reconciliation | sheet lines, outcomes, resolutions | compare, recheck, link, invite, use the sheet, bulk | classified once, acted on later | the sheet takes an id from nobody |
| accounts: import; core: backup importers | attempts, rows | preview, commit, retry | repeated commits, a process that dies in between | an account comes in once, an import as a whole |
| core: background work, exports, maintenance, idempotency | job rows, files, records | start, finish, expire, resume | a restart between the act and the row | the row says what happened |
| celebrations, notifications; content apps; configuration | single rows | CRUD | nothing several steps long | |

How they interact: every hackathon service reads `Hackathon` settings and most lock its
row; accounts call into hackathons by one `post_save` signal; teams, payments and
seats share `Team` rows and end in `WaitlistService.promote`; rounds read teams and
rounds before them; deleting a team cascades into payments (SET_NULL), entries,
assignments and reviews. An event's capacity is written through to its form; a form's
save regenerates the attendance sessions; imports, membership forms and the
reconciliation all write club ids. Otherwise the applications share only users, the
idempotency store and the background threads.

## 2. Modules

| module | what it is |
|---|---|
| `Membership` | abstract: who is on a team and who leads it |
| `TeamFormation` | teams of one hackathon, one action per handler; implements `Membership` |
| `TeamFormationProofs` | eleven theorems about it |
| `Places` | abstract: who takes part, with how many people, and in which order they queue |
| `SeatAllocation` | places, queue, payments and the settings that govern them; implements `Places` |
| `SeatAllocationProofs` | eight theorems about it |
| `RoundJudging` | one judged round and the requests that change it from outside |
| `RoundJudgingProofs` | nine theorems about it |
| `Shortlists`, `Withdrawals`, `Problems`, `Ideas`, `Judging`, `CheckIn`, `Attendance` | further parts of a hackathon and its event, each on its own rows |
| `Submissions`, `Reminders`, `Uploads`, `FormLogic`, `FormHistory`, `QuestionRules` | forms and events |
| `ClubIds`, `Reconciliation` (which extends it), `AccountLinks`, `Imports`, `Jobs` | accounts and the club's data |
| `Hackathon`, `Forms`, `Accounts` | the parts of the three rows above, side by side |
| `DecisionProofs`, `ParticipantProofs`, `HackathonProofs` | inductive invariants of the parts of `Hackathon`, and eight theorems about it |
| `FormsProofs`, `AccountsProofs` | eight theorems about `Forms`, six about `Accounts` |
| `MCTeamFormation`, `MCSeatAllocation`, `MCRoundJudging` | values of the constants, symmetry, bounds |
| `MCHackathon`, `MCForms`, `MCAccounts` | the sizes of the parts, and symmetry |

Everywhere an action is one database transaction unless the code leaves a window in
it, and the window is why a request sometimes takes two steps: one that reads or
decides, and remembers what it saw (`busy`, `req`, `request`, `pend`, `save`,
`saving`, `checked`, `picking`, `starting`), and one that commits. Where such windows break a
promise that holds without them, the module has a constant `Overlap` (or the number of
requests at a time): with it off, what interferes waits; with it on, it comes
between. Properties then say which of the two they are about. A save and what the
signals write after it in the same request are one step.
Mutated copies of some definitions (marked *Mutant*) stand before the original: each
is a plausible bug that one of the properties catches. They are no part of any
specification.

### TeamFormation and Membership

`_lock_team` selects the team FOR UPDATE joined with its hackathon, so the rows of both
are locked and team transactions of a hackathon run one after the other: one action
each. Three things are not covered by that lock and are split:

* an account is created (`SignUp`) under no lock at all;
* its hook claims e-mailed invites (`ClaimEmailInvites`) after that commit, or is lost
  with its process or by a logged exception (`LoseClaim`);
* `invite_by_email` reads the accounts (`InviteByEmail`) before its row is visible
  (`CommitEmailInvite`); `emailing` holds the row and, with it, the locks.

`finder.py` locks the team only; `TeamFree` and `HackathonFree` say which lock a
handler waits for. `status`, `leader`, `members`, `leaderRole`, `invites`,
`requests`, `emailInvites` are the tables; `phase` stands for the registration window
and `team_edits_locked`. `Admit`, `NewTeam`, `Drop` and `Recomputed` are the private
helpers the handlers share (`_admit`, `_recompute_status` and so on).

`Membership` promises what is left when invites, requests, statuses and windows are
forgotten: one person joins or leaves a team, a lead is handed to a member, or a whole
team goes. `TeamFormation` instantiates it with `roster <- members` and `lead <-
leader`; `ImplementsMembership` is its specification as a property. Every handler that
touches a roster is one such step, and all the others are stutters.

Abstracted: names, problem statements (`Problems`), notifications, the 24 hours after a
declined request. A hackathon here has no capacity and no fee (`SeatAllocation`). Who
may withdraw when, and how many teams a person may create, is `Withdrawals`;
`WithdrawTeam` is the outcome of both ways, alone or approved.

### SeatAllocation and Places

A request is served by one of `Workers`. Handlers that lock the hackathon are one step
when nothing else can see their middle, else two: a decision (`CreateTeam`,
`VerifyPayment`, `JoinTeam`) and a commit (`CommitPlace`, `CommitJoin`), because the
two transactions that do not take that lock (`WaitlistService.promote` and the delete
handler) may run in between. A promotion is what a worker does after the transaction
that freed a place: `StartPromotion` locks the waiting teams, `ConsiderNext` is an
iteration of the loop, `CommitPromotion` writes. It runs with the settings the request
had loaded, so they are part of `busy[w]`. `EditSettings` validates against the loaded
row and `SaveSettings` writes all of it back.

FORMING/REGISTERED are one status and so are DISQUALIFIED/WITHDRAWN: capacity does not
tell them apart. A row is used once, so that a deleted team's payment stays visible.
`line` holds the order of `queued_at` among the teams that wait: whoever joins the queue
comes after everybody in it.

`Places` promises what is left when payments, deletions and requests in the middle are
forgotten. A team enters (`Enter`), placed or queued by the limits of that instant, or an
organizer's hand lets it in; it grows, shrinks and leaves; the settings change;
and `Promote` places, at one instant, exactly those of the queue that fit when their
turn comes (`Fits` looks at the placed and the chosen before it). `Desk` is the
instance and `ImplementsPlaces` its specification as a property: the read of a
request, the iterations of a promotion and a promotion that dies are stutters, the
commits are its steps. A team is taken to be running while its row is `ACTIVE`, and a
team taken out keeps its turn until its row goes, as `queued_at` does.

### RoundJudging

Every operation of `RoundJudgingService` locks the round's row: one step each. The
organizers' other requests do not, and are two: `BeginAdd`/`CommitAdd` for populate,
add and advance, `BeginRemove`/`CommitRemove`, and `BeginEdit`/`CommitEdit` for the
PATCH of a round whose serializer saves every column it had loaded. `FailAdd` is the
insert that the database refuses because a row it refers to has gone. `DropEntry` is
the cascade from a `RoundEntry`.

`Fill` is `_fill`. It is stated as the set of outcomes that satisfy what the loop
does team by team (in the order of names, the least busy first, ids break ties); there
is exactly one such outcome, so the model has no choice the code does not have. `Rank`
is `_rank` with its tie-break on the heaviest criterion, `Average` the rounding of
kept scores. A review's score is its total and the heaviest criterion's.

`Queues` says whether the hackathon has a waitlist, so that a team may be put back into
it (`ChangeTeam`). Left out, because they can only refuse a request: the deadline, permissions, the rule
about judges who take part.

### The other parts of a hackathon

* `Shortlists`: rounds in their order, entries and decisions, the automatic shortlist
  with its limit, publishing, advancing, deleting, and the celebration cards. One
  organizer works at a time; what is concurrent is the card. It is awarded by an
  `on_commit` hook (`due`), which looks at the team again and may be lost.
  `dropped` marks the entries whose deletion retracts no card.
* `Withdrawals`: teams with what decides about letting them go (status, members, who
  made them, rounds, arrivals, payment reference). The policy, the deadline and the fee
  are read at the moment they are used, so they are chosen there. The creation limit is
  counted from the rows as the code counts it, allowances and cooldown included; so is
  the uniqueness of a transaction id. It implements `Membership` too: `Hackathon`
  instantiates it with the teams of this part (`ImplementsMembership`), so paying,
  cancelling, an approval long after the request and an organizer's hand promise what
  team formation promises.
* `Problems`: statements with their code, state and maximum, and each team's choice in
  three steps (load, count under the lock, save), two teams at a time.
* `Ideas`: one idea and its files. A save locks, copies objects, commits, then deletes
  the replaced objects (`due`), or rolls back and leaves its copies; the leader's and an
  organizer's may overlap.
* `Judging`: reviews, kept averages and a rubric that is replaced under them. A review
  and a replacement are each a read and a commit.
* `CheckIn`: `session`, `record` and what each request has looked up. Nothing is locked
  there; the foreign keys (restrict for a session, cascade for a team) are what decides.
* `Attendance`: an event's sessions by day and position, badges and scans. Saving the
  form regenerates the sessions in two steps.

### Forms and events

* `Submissions`: a submission, an edit and a cancellation are each two steps
  (`BeginSubmit`/`CommitSubmit` and so on); limits and options are those read at the
  first. `by` remembers what gave the form its status: an organizer, the clock, being
  full, room that came back.
* `Reminders`: a cron run lists, claims each `EventReminder` by an insert that only one
  can make, and sends; it may die anywhere, and the event may move.
* `Uploads`: rows, objects under temporary and final keys, and the answer that names
  them. A submission resolves and attaches; an admin replaces or removes; quarantine
  and sweep. A new pick reads the picks before it without a lock (`BeginPick`) and
  writes them off in its own transaction (`CommitPick`), so a submission may attach one
  of them in between, which `Overlap` lets happen.
* `FormLogic`: all forms of a few questions and page breaks, with rules of one condition
  each, that the publish check accepts (trees of AND and OR, and conditions that compare
  two answers, by which a rule watches several questions, are not modelled), and the layout a submission computes, pass by pass: the passes over the
  questions (`passes`) within the rounds over the pages (`rounds`), both bounded as in
  the code.
* `FormHistory`: questions, the versions kept of them, and what was answered under which.
* `QuestionRules`: the bounds and switches of one question, the verdict of the publish
  check, and what the submission validator would accept. There is no behaviour but the
  one check: the state space is the table of rules. What the builder may write, what a date is
  (`Moments`), the limits of the platform (`Limits`) and how far an answer may go
  (`Reach`) are constants; `BoundsReadable` says what `_check_bounds_parse` and
  `NON_NEGATIVE_KEYS` leave of them. Numbers are counted in halves, so that there is
  one between two bounds; a bound that is itself a fraction is not modelled.

### Accounts and data

* `ClubIds`: ids are numbers under the year's counter. A request begins, keeps what it is
  about to write in `pend`, and commits or is rolled back: between the two it holds the
  row of its person (`RowLocking`) or the counter (`Numbering`), but nothing holds the
  id. What locks all it reads is one step (`Reassign`, `Clear`, `Release`, `SetCounter`).
  Registration makes the account and attaches a kept id in two commits; `upsert_member`
  also has a step at which it looks for the counter (`TakeNumber`) and one at which it
  finds that the account has been made meanwhile (`FindMade`). `Write` is what the
  signals do on every save (claim the reservation, retire a cleared id). `Requests` is how
  many run at once.
* `Reconciliation` EXTENDS it: lines of a sheet, the outcome of each, and the actions on
  one line or, listed first and then one by one, in bulk. An action locks its line
  (`acting`) and begins a request of the registry, whose commit is its own.
* `AccountLinks`: verification, change and setup links with their accounts; `proved` is
  history: mail to this address was used for this account.
* `Imports`: attempts of any domain from preview to commit, the preview's three commits,
  and a process that may die between any two. Accounts are unique by their address.
  Events are only looked for, by title and date: `undated` has the titles that a row gives
  no date, which may be made by every commit, and `unseen` what was not there when an
  overlapping commit began.
* `Jobs`: e-mail jobs, exports and maintenance runs, the row of each written by its
  thread; `Restart` ends every thread. A mail job and its recipients are two commits
  (`CreateJob`, `AddRecipients`), so a restart may leave a job with no recipients.

### Composition: Hackathon, Forms and Accounts

`Hackathon`, `Forms` and `Accounts` declare the variables of all their parts, a variable
`part` and a variable `size`. A size is a record of the values of a part's constants, and
each part is an INSTANCE with a size as its parameter: `Desk(s)` is `CheckIn` with
`People <- s.people` and so on. `Init` picks one part and one of the sizes that part
is given, sets its variables by its own `Init` and all others to `Unused`; a step is a step
of that part, and the others stutter. The state space is the sum, and not the product, of
the parts': they share no rows, so a product would show nothing more. Variables of the
same name are shared between parts that never run together.

The sets of sizes (`ShortlistSizes`, `SeatSizes`, ...) are the constants of these modules,
and `HackathonAssumption`, `FormsAssumption` and `AccountsAssumption` ask of each size what
the part needs: finite sets where the code counts rows, numbers where it compares them,
names for "nobody" that nobody has. The runs choose a few small sizes; the theorems are
about every set of sizes.

## 3. Runs

Eight runs show that properties hold, four show a disagreement (section 5).

| run | bounds | asks |
|---|---|---|
| `team_formation` | 3 users (one without account), 2 teams, sizes 2..2, 1 open request per person, at most 2 pending rows (`PendingBound`); 233,028 states | type, `OneTeamPerUser`, `RowsAgree`, `NoInviteForMember`, `SizesHold`, `ImplementsMembership` |
| `seat_allocation` | 3 teams, one worker, cap 1 or 2, at most 3 people, teams up to 2, fees, overrides, lost promotions, organizers who put up to 3 people on a team; 656,141 states | type, `PaymentMatchesTeam`, `PlacesAreFair` (`PlacesWithinCaps` and `OldestFirst`), `ImplementsPlaces` |
| `seat_overlap` | 3 teams, two workers, cap 1 or 2, overrides, fair workers; 363,419 states | `PromotionHoldsItsTeams`, `RoomIsFilled` (liveness) |
| `round_judging` | 2 teams, 2 judges, balanced (one judge each) or by hand (two each), 2 rubrics, scores that tie but for the heaviest criterion, one unlocked request at a time, no waitlist; 1,234,008 states | type, `RanksAreEarned`, `OneRubric`, `PublishedResultsStand` |
| `round_edited` | 1 team, 3 judges, balanced or all of them for every team, an organizer who saves old copies of the round, a waitlist; 2,048,672 states | `ScoresAreSound` (`EntryMatchesReviews` and `NoScoreFromRecused`), `ReviewsAreKept` |
| `hackathon_parts` | see below; 548,708 states | type, `CardsAreTrue`, `ArrivedFirst`, `HeldFilesExist`, `LeaderboardFollowsReviews`, `CheckInsAreKept`, `DecisionsStand`, `ImplementsMembership` |
| `forms_parts` | see below; 841,686 states | type, `ClosedFormIsFull`, `RemindedOnce`, `AnswerNamesItsFiles`, `LayoutSettles`, `AnswersKeepMeaning`, `RulesJudged`, `LimitsHold` |
| `accounts_parts` | see below; 913,825 states | type, `IdsAreSound`, `SheetIsFollowed`, `LinksProve`, `ImportsAreWhole`, `JobsTellTruth` |
| `overbooked` | `seat_overlap` without overrides | `TeamsWithinCap` fails |
| `rubric_swapped` | `round_judging` with edits of the round | `OneRubric` fails |
| `routes_unsettled` | 5 fields, 2 of them page breaks | `RoutesSettle` fails |
| `request_left` | 2 people, 2 teams | `RequestsAwaitATeam` fails |

Why the bounds are enough to meet the hazards. `team_formation`: two teams let one
person be wanted twice, size 2 makes a team full with one invite, three people let a
leader, a member and a newcomer meet; one of them has no account, so an invite, an
e-mailed one and a claim compete for one slot. The bound on pending rows cuts only
states with three or more at once. `seat_allocation`: three teams for one place
give a queue of two, with 3 people and teams of 2 the older of them may be too big.
`seat_overlap` needs two promotions and a third team. `round_judging`: two teams tie
or do not, a judge who steps aside is replaced, teams join and leave in the middle;
`round_edited` has the third judge that replacing one takes, the mode in which nobody
replaces, and any stale status.

The parts of `hackathon_parts`, with the sizes of `MCHackathon`:

| part | module, sizes | why it is enough |
|---|---|---|
| `SHORTLISTS` | `Shortlists`, 1 team in 2 rounds, or 2 teams in 1; limit 1 | advancing and reordering need two rounds, the limit two teams, one scored and one not |
| `CHECK_IN` | `CheckIn`, 1 person, 2 teams, a scheduled session, one request at a time; or 1 team, an added session, two requests | arrival, a session that needs it, a person who changes team; a scan between the look and the deletion |
| `IDEAS` | `Ideas`, 2 decks, 1 screenshot, leader and organizer | a file replaced by another while the other side saves |
| `JUDGING` | `Judging`, 2 teams, 1 person, or 1 team, 2 people; 1 criterion, one request | two averages to order, a judge who joins a team |
| `ATTENDANCE` | `Attendance`, 2 responses of a person, 2 days, `Overlap` off | a schedule moved and shortened under a scan |
| `WITHDRAWALS` | `Withdrawals`, 2 people, 1 team; or 1 person, 2 teams | a leader asks, another takes over, the policy changes; somebody wanted by two teams |
| `PROBLEMS` | `Problems`, 2 teams, 2 statements, maximum none or 1, `Overlap` off | two teams ask for a last place |

Those of `forms_parts`, with the sizes of `MCForms`:

| part | module, sizes | why it is enough |
|---|---|---|
| `SEATS` | `Submissions`, 2 people, 3 responses: one request, caps 0, 1 and 2, all positions of the clock; two that overlap, cap 2, an option with one place; two that overlap, caps 1 and 2, two responses a person | a form that fills, closes and opens again by each of its causes; two requests for a last place, of the form, of the person and of the option |
| `REMIND` | `Reminders`, 2 people, 2 runs, the event moved once | both runs list the same people, one dies, the event is due again |
| `FILES` | `Uploads`, 2 files and an admin's, two requests; at most 1 file, one request; or at most 1 file, a pick that overlaps a submission | a file replaced while another is attached, a retry, a file written off while it is attached |
| `LOGIC` | `FormLogic`, 5 fields, 2 of them page breaks; or 3 questions, all four actions | a page that is jumped over, questions that hide and require one another |
| `HISTORY` | `FormHistory`, 2 questions of three types that watch or use one another, 3 versions of which 2 are kept | an answer whose version is dropped, a type changed back |
| `RULES` | `QuestionRules`, ten kinds of question | each kind with bounds at, below and above the limits of the platform, and an answer beyond each |

And those of `accounts_parts`, with the sizes of `MCAccounts`:

| part | module, sizes | why it is enough |
|---|---|---|
| `IDS` | `ClubIds`, 2 people: 2 numbers, requests in turn; or 1 number, two requests at once | a swap, an id kept for one and worn by another; two requests for one number, or for one person |
| `SHEET` | `Reconciliation`, 2 people, 2 numbers, 1 line; 1 person, 1 number: 2 lines in turn, or 1 line, two requests at once | a line that wants what somebody else has; a bulk action over two lines; a line acted on while its id is given elsewhere |
| `LINKS` | `AccountLinks`, 2 accounts, 2 addresses, 2 links, 1 setup; or 1 account, 2 setups that overlap | an address that changes hands, a link superseded or disputed, two live setups |
| `FILES` | `Imports`, 2 attempts of five domains, 2 rows, 2 keys; or two that overlap, 1 row | a preview and a commit of the same rows, dated and undated; two commits that look for one event |
| `JOBS` | `Jobs`, 2 mails and 2 runs; 2 exports, 2 seconds; two starts of one task | a restart at every step of each; two exports in one second |

Symmetry: teams and existing users (`team_formation`), teams (`seat_allocation`),
rubrics (rounds) and, in the composed runs, the sets their `Symmetry` names are never
compared but for equality (parts share the same few values, as a small group is faster); teams and judges of a round, responses, ids and lines are
ordered and are numbers. The liveness run uses no symmetry.

Deadlock is checked in the runs of the first three modules: some operation is always
possible. The composed runs, `routes_unsettled` and `request_left` do not check it: a
form that has been laid out, a rule that has been judged and rows that are used once
are at their end.

**Fairness.** `FairSpec` of `SeatAllocation` asks that a worker goes on with a request it has
begun (`WF_vars(Continue(w))`): a gunicorn worker runs a request to its end, and the
locks it waits for are held by requests that also end. Nothing makes anybody send a
request. Under it `RoomIsFilled` says that room a promotion is due for is filled or
goes to somebody else. A request killed with its process, or by gunicorn's timeout of 120
seconds, is never resumed: the liveness run excludes it (`Failures` FALSE) and
`seat_allocation` includes it. No other module states fairness: what else must
eventually happen in this system waits for a person, a cron job or a restart, and the
code promises nothing about those.

## 4. Proofs

TLAPS checks 50 theorems in eight modules. They state every property of the passing runs
but one, for every value of the constants: any users, teams, sizes, files, forms and any
number of requests at a time. Where a property needs requests one at a time, the theorem
says so as the run does.

`TeamFormationProofs` (from `ActorsAssumption`, `SizesAssumption`, `SettingsAssumption`):
`TypeCorrect`, `OneTeamPerUserHolds`, `LeaderIsTheLeadingMemberHolds`,
`StatusFollowsSizeHolds`, `RowsAgreeHolds`, `LeaderStays`, `ImplementsMembershipHolds`,
`NoInviteForMemberHolds`, `SizeWithinLimitHolds`, `InvitesReserveSlotsHolds`,
`SizesHoldAlways`.

* `TypeOK` is inductive and includes that a claim is pending only for an account that
  exists, without which `NoInviteForMember` and the claim could not be argued.
* `TeamChanges` and `OneJoins` sort the steps: each way onto a team ends in `NewTeam`,
  `Admit` or `AdminAddMember`, and all of them check that the person is on no team.
  The safety theorems use the classification instead of the thirty actions.
* The refinement maps every step to one of `Membership` or to a stutter. A new team's
  first member must *join* an empty roster and a row is used again after a deletion, so
  the argument needs `AbsentTeamsAreEmpty`, an invariant of its own: a team that is not
  there has no members and no leader.
* Sizes need finite rosters, and users may be infinitely many: `FiniteTeams` and
  `FiniteInvites` are invariants, not assumptions; rows come one at a time.
* `InvitesReserveSlots` needs `PlaceHeldByEmail`: between the read and the commit of
  `invite_by_email` the slot it counted is still free, because it holds the team and the
  hackathon (`EmailingContinues`). A claim turns one waiting row into another
  (`ClaimMovesInvites`).

`SeatAllocationProofs` (from `TeamsAssumption`, `SettingsAssumption`): `TypeCorrect`,
`SizesStayWithinCap`, `PaymentsMatchTeams`, `PromotionsHoldTheirTeams` with any number of
workers;
`PlacesStayWithinCaps`, `OldestGoFirst`, `PlacesGoFairly`, `ImplementsPlacesHolds`
with one (`OneRequest`).

* `SizesStayWithinCap` is about `max_team_size`, beyond which only `AdminAddMember` takes
  a team, as the code lets it. How far it goes is `SizeBound`, a bound of the model, and
  `TypeCorrect` claims no more than that.
* `LocksInv` says what the row locks are worth: one request holds the hackathon, what it
  read of its team still holds (`DecidersAreRight`), and the teams a promotion holds
  still wait (`PromotersAreRight`). `UnheldTeamStep` carries it through all the
  steps that touch one team nobody holds.
* `SerialInv` adds, with one request at a time, that a place promised is a place free
  (`PlacesAreFree`) and that a promotion has gone through the queue in its order
  (`PromotionsFollowQueue`): whoever it passed over is bigger than those it chose after.
  `queued_at` is the order `line` of the rows, not clock readings, so no bound on time
  is needed. People are counted over finite sets of (team, member number) pairs, and the
  caps follow from lemmas about their cardinality (`PeopleOfOneMore`, `PeopleGrowBy`).
* The refinement needs one invariant more, `CommitsAreDecided`: what a request is about to
  commit is what one step of `Places` would decide now. For a promotion this is a
  statement about each waiting team it has looked at: it is among the chosen if and only
  if it fits with those chosen before it (`TakenBefore`, from the order in which the loop
  went), and the loop has looked at all when it commits. Then every action is a step of
  `Places` or a stutter.

`RoundJudgingProofs` (from `RoundAssumption`): `EntryMatchesReviewsHolds`,
`NoScoreFromRecusedHolds`, `ScoresAreSoundHolds`, `PublishedResultsStandHolds`,
`ReviewsAreKeptHolds`, `TypeCorrect`, with edits of the round or without;
`OneRubricHolds`, `RankedEnoughHolds` and `RanksAreEarnedHolds` for a round nobody edits
meanwhile (`Edits = FALSE`; `rubric_swapped` shows why).

* `RowsOK` has the references between rows and is strengthened by one fact, that an
  assignment with a review is not stepped aside from; that makes it inductive, through
  `SetPanel`, which deletes assignments, and `CommitAdd`, which brings stale ones.
* `ScoresOK` states `EntryMatchesReviews` of all teams, those outside the round too:
  they must come in with nothing. What a sum is, is not needed, only that it depends
  on no other team's reviews (`SameScore`). That it is a number, which `TypeCorrect`
  needs, is argued by counting: total points are stated as the number of
  points given, a cardinality.
* `RubricOK` adds that no review precedes the start and that the start fixes a rubric;
  `RankOK` that there are no ranks before the round is closed. `RanksAreEarned` rests on
  all of them: nothing a removal or a late addition does touches what two ranked teams
  are compared by.

`HackathonProofs` (from `HackathonAssumption`, on the lemmas of `DecisionProofs` and
`ParticipantProofs`): `TypeCorrect`, `CardsStayTrue`, `ArrivalsComeFirst`,
`HeldFilesStay`, `LeaderboardIsCurrent`, `CheckInsStay`, `DecisionsHold`,
`WithdrawalsImplementMembership`. One inductive
invariant per part, put together by `PartsHold`:

* `ListInv`: rounds are numbered from 1 without a gap (the deletion and the reordering
  rely on it), and an award that is due is of a shortlisted entry in a published round or
  of one deleted after the decision.
* `DeskInv`: with one request at a time what a request looked up still holds
  (`LookUpsHold`); that no record is lost with its session needs only types, since the
  foreign keys do it.
* `IdeaInv`: an unfinished save finds the idea as it was, two saves share no file, the
  files of a save are uploaded or the idea's, and what is due for deletion is a deleted file.
* `JudgeInv`: what a request is about to keep is the average of the reviews there will be.
* `ScanInv`, `LeaderInv`, `TopicInv`: no save is about to delete a session somebody was
  scanned in; only an empty team has no leader (`Led`); what a choice has counted
  is still so when it is saved, as one team counts a statement at a time.
* The refinement of `Membership` sorts what an action does to one team (`RowMoves`: one
  person joins, leaves or takes the lead, or the team is emptied with its lead) and finds
  the other teams as they were. It needs `LeaderInv`, because a withdrawal is approved long
  after the leader who asked may have gone, and that a row not yet used is empty
  (`NewRowsEmpty`). The rows of the abstract module are empty in the other parts.

`FormsProofs` (from `FormsAssumption`): `TypeCorrect`, `ClosedFormsAreFull`,
`LimitsAreKept`, `RemindedAtMostOnce`, `AnswersKeepTheirFiles`, `LayoutsSettle`,
`AnswersStayMeaningful`, `RulesAreWellJudged`.

* `SeatInv`: one at a time, what a request has read is so until it commits (`StillSo`).
  `LimitsHold` needs no such thing: it is about the limits a submission *has read*, and
  it counts and writes under the form's lock, so it is proved with overlap too.
* `RemindInv`: what was sent is claimed, and one run sends it (`ClaimedFirst`).
* `UploadInv`: for each file the answer, the row, the bucket, the objects still to be
  deleted and the picks about to be written off agree (`FileSound`). With overlap an
  answer may name a row that a pick has written off, and its object is there all the same.
* `LogicInv` is the argument that the two bounds of `compute_layout` suffice. Within a
  round: a question that is not settled after *n* passes starts a path of *n* questions
  each watching the next (`Passing`, `Deep`); a longer path than there are questions
  visits one twice (`NoneSoDeep`, a pigeonhole), and those between would be a circle,
  which the publish check refuses. Between rounds: two layouts settled for the same
  skipped pages agree (`SettledAgree`), and if every page break looks back, after round
  *n* the pages up to *n* are skipped for good (`RightTo`). The publish check's search for
  circles is stated as there being no nonempty set of questions each of which watches one
  of the set, so that no recursion is needed.
* `HistoryInv`: no response names a version still to come (`VersionsReached`), so a
  save or a publication that makes the next version (`NextVersion`) takes away only
  versions that are no longer kept.
* `RuleInv`: the rules of a question stay as they were, and its check is right by one
  lemma for each kind (`TextJudged` to `FilesJudged`), for any bounds that can be read and
  any limits. Each shows that refused rules contradict each other, or are among those
  `Overcautious` names; that rules which `Overlooked` names have no answer; and, of the
  rules accepted, an answer: the least that meets every bound, one that is not today,
  a number halfway between two bounds, as few files as small as they may be.
  That these fit the limit of all files together is the one step that multiplies
  (`FewestFit`).

`AccountsProofs` (from `AccountsAssumption`): `TypeCorrect`, `IdsStaySound`,
`SheetTakesNothing`, `LinksStayProved`, `ImportsStayWhole`, `JobsStayTruthful`.

* `IdInv` is `IdsAreSound` (`IdRows`) and what the requests under way keep: what an edit
  or a registration is about to write has an id if it makes an affiliate
  (`WellFormed`), a row that is locked stays as it was found (`RowStands`), and, with
  requests in turn, so does the number (`NumberStands`). The last is what fails when
  requests overlap: no lock is on the number. Affiliates have ids whatever overlaps.
* `SheetInv` is `IdInv` with the types of the sheet and one fact: a line that is acted on
  has a request that will write what it says (`LineStands`). `TakesFromNobody` then
  follows from the step that commits. It covers what no run has room for, a bulk action
  over lines of two people.
* `LinkInv`: a setup was mailed where its account is, or the account has moved to a
  proved address (`SetupsReachOwner`); what is about to be marked is proved already
  (`MarkedLater`); whoever can sign in has an address (`UsersExist`).
* `FileInv`: rows recognised by a key have one, an attempt is stored before anything is
  done for it, and, one at a time, no preview meets a commit (`OneRequestRuns`).
* `JobInv` has a part for each kind of row: the mail that went out and is not settled is
  the one the thread is at; each second's file is one export's; while a run starts,
  none is running.

Only model-checked: `RoomIsFilled` (`seat_overlap`). It is liveness under fairness, and
ENABLED is out of the prover's reach.

The modules proved about declare no recursive operators, and sums are cardinalities:
that a fold of numbers is a number takes an induction over data, out of the prover's reach.

## 5. Findings

Four have a run that ends in them:

| run | property | what the code does |
|---|---|---|
| `overbooked` | `TeamsWithinCap` | `promote` counts without the hackathon's lock: it and a creation both take the last place |
| `rubric_swapped` | `OneRubric` | a PATCH of a round writes back `NOT_STARTED`; the rubric can be replaced under reviews |
| `routes_unsettled` | `RoutesSettle` | a form that the publish check accepts and whose page break watches a later question has a layout that never settles; the loop ends between two |
| `request_left` | `RequestsAwaitATeam` | a leader who asked to withdraw and then withdraws at once, after the policy became INSTANT, leaves the request waiting |

`TeamsWithinCap` holds with one request at a time (`seat_allocation`), `OneRubric`
without edits (`round_judging`) and `LayoutSettles` of forms that look back
(`forms_parts`): the findings are about the overlap or the exception, not the rule.

The others were met while translating, and the models contain the behaviour, or the
window that a constant opens; `PROJECT.json` has the lines and quotations:

* teams: an account created between the check and the commit of `invite_by_email`
  leaves an invite nobody claims; creating a team, or being added by an organizer,
  leaves the person's join requests open; leaving is refused after registration though
  the dashboard says that withdrawing is open;
* seats and payments: deleting a team while another is queued leaves that one queued
  beside a free place; deleting a team leaves its payment in the queue;
* rounds: advancing into a round being judged gives the teams no judges;
* statements: only a choice counts the teams, so paid teams are verified into a full
  statement; a deletion may take a statement a team has just chosen; an import stores
  statements whose domain the hackathon does not list;
* forms: dates and times are compared as text; a submission's second check uses the form
  loaded before the lock; the check for answers before a change of type takes no lock; an
  organizer's own closing of a full form is undone by a cancellation; a sweep may delete a
  file that has just been attached, and a new pick may write one off; attendance sessions
  may be deleted with a scan;
* accounts and data: two setup links live at once; an id may be kept back and given at
  once, or given though it is kept for another, when the two requests overlap; a bulk
  action acts on lines dismissed meanwhile; a commit sent twice at once imports twice; two
  attempts make one event twice when they overlap, or, if the row has no date, on
  another day; previews never expire; two maintenance runs start at once.

Behaviours the models have, or that were read and not modelled, and that nothing in
the repository rules out or promises: removing a team from a round races a review of it;
taking a judge off the panel and back forgets that they stepped aside; two organizers
may together exceed a shortlist's limit; replacing the hackathon's criteria re-totals
published scores; organizers' entries and bulk imports of responses ignore a form's cap;
the code of a deleted last statement is used again; the cooldown counts withdrawn teams
and not cancelled payments.

## 6. Plan

What is left, the most important first:

1. An abstract module of a claimed delivery (claim, send at most once, or lose it), which
   `Reminders` and the mail jobs of `Jobs` both implement.
2. Lock orders: the order in which handlers take rows, for deadlock. The actions here
   hold their locks from end to end, and a model of this needs one step per statement.
3. The hazards that no property covers (`PROJECT.json`), where the reason given is only
   that the module does not split that step.
4. Bounds of a numeric question that are fractions (`QuestionRules`).
5. A sheet with lines of several people in a run, once `Reconciliation` is cheaper to check.

## 7. Not modelled

* Announcements and mails of hackathons: one conditional UPDATE and a thread; what a
  restart does to a thread is in `Jobs`. Reminders for payments only send mail.
* Stages, winners, certificates, cloning, exports, analytics, directory, referrals, search:
  reads, or edits of single rows. Permission tables and serializers' field checks:
  data that can only refuse a request.
* The screenshot of a payment: it is an idea's file in all but name (`Ideas`).
* Drafts of responses, which hold no seat; sections, themes and templates of forms; the
  validators of grids, steps, patterns, domains and cross-field rules, and calculated
  questions' values.
* Spam heuristics and form analytics; parsing and mapping of imported columns; matching of
  names in a reconciliation.
* The idempotency record as such: an overlapping retry runs twice by construction, and
  a later one is modelled where it matters, in `Imports`.
* A process that dies between a save and what its signals write after it, where no
  transaction holds the two together (a club lead's edit, a kept id attached on sign-up):
  an id given and its reservation left standing.
* Notifications and celebration cards of other kinds: appended and read.
* Content applications, configuration, infrastructure and scripts.

`PROJECT.json` gives the state of each component, and names under "hazards" the few that no
property covers, with the reason.
