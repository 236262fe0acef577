# A TLA+ model of CxOneFlow

CxOneFlow orchestrates Checkmarx One scans from SCM webhook events and reports
the results to pull requests and as Sarif logs. Its logic is spread over
several processes that share nothing but RabbitMQ, Checkmarx One and the SCM.
What is hard about it is what those processes do to each other: redelivered,
expired and overtaken messages, handlers that die between a publish and an
acknowledgement, lookups that are stale when they are acted upon. This
directory models that, checks it with TLC on small instances, and proves the
central parts with TLAPS for every instance.

Paths below are relative to `src/`.

## Inventory

| Component | State | Operations | Hard behaviour | Correct when |
|---|---|---|---|---|
| Webhook endpoints and dispatch (`wsgi.py`, `orchestration/__init__.py`) | none: one background task per event | dispatch by event, kickoff in the foreground | tasks of one pull request interleave across workers | no event that asks for a scan is dropped silently |
| Task manager (`task_management/`) | list of monitored futures, lock | hand a coroutine to the loop, wait, callback, exit of the worker | two threads, a lock that is not reentrant, a callback that may run at once | an answered event is handled before the worker stops; requests are answered |
| Orchestrators (`orchestration/`) | none of their own: scans and tags in Checkmarx One | look up scans, scan, delegate, update tags, cancel | lookup and scan are not atomic; five dispatch tables that differ | one scan per commit, tags follow the pull request |
| Scan polling (`workflows/scan_polling_service.py`) | messages in the awaited and polling queues, TTL header | await, poll, back off, report | at-least-once delivery, `finally` clause, publish before ack | feedback is true, sent, and sent once; monitoring ends |
| Pull-request feedback (`workflows/feedback_services/pr`) | messages in four queues | annotate, decorate, show an error | the queues are consumed independently | a decoration says what the scan said |
| GitHub check runs (`scm_services/gh/checks.py`) | check runs of a commit | find by status, create, update | find and update are two requests | green is never wrong, runs complete |
| Other decorators (`scm_services/*`) | comments, commit statuses, required checks | post a status, list comments page by page, add or change one | status, lookup and change are three requests; versions; pages; closed comments | decorations are true, one comment, the outcome has the last word |
| Push feedback (`workflows/feedback_services/push`) | feedback messages, delivery tasks | generate a Sarif log, post with retries, publish | parallel deliveries with ignored results | each destination is tried, within its budget |
| Delegated scans (`workflows/resolver_*`, `agent/resolver/`, `cx_scan_agent.py`) | request and result messages, retry header | request, run, answer, time out, resubmit, act on the result | timeout against a late agent, acknowledgement timeout, failure after a scan was made | a request has one outcome and does get it |
| Kickoff (`kickoff_services/`, `orchestration/kickoff/`, `cxoneflow_kickoff_api/`) | scans with the kickoff tag | authorize, three checks, scan | checks of several workers interleave, client retries | the limit, no duplicate scans, clients are answered |
| Projects and groups (`cxone_service/`, naming) | project in Checkmarx One, group cache of a worker | name, create or retrieve, update, resolve, purge and try again | two events create one project; cached groups that are gone; edits by others | one project, nothing of others lost, groups assigned |
| API session, tokens and cloner (`api_utils/`, `scm_services/cloner.py`) | token caches, class lock, temporary directories | request with tries, ask for a token, clone, renew by force, clean up | tokens that lapse while they are used, waiting for one lock, a request without a timeout | own token, a refusal has a cause, a clone recovers, no directory stays |
| Configuration (`config/`) | built once at start | | | its values are constants of the modules |
| Report content (`workflows/pr_content.py`) | none | render Markdown | | not modelled |

Components interact through messages (poll, feedback, annotate, delegated scan,
result), through scans and their tags in Checkmarx One, and through check runs
at GitHub. No process keeps state about a scan in memory between messages.

## Modules

`ScanPolling` is the core. The others model the parts before and after it; each
one has the neighbouring part as its environment (for instance `FinishScan`,
or the `StartScan`/`PublishFeedback` actions of `CheckRuns`).

**ScanPolling** - `execute_poll_scan_workflow`. A message is a copy `k` about a
scan `s`; `loc[s][k]` is its queue or the `await` at which its handler stands:
`received` (deadline check, channel), `loading` (`load_scan_inspector`),
`deciding` and `breaking` (the first and the second read of the policy
evaluation, which may change in between: `EvaluateAgain`), `requeue` (the
`finally` clause), `reported`/`republished` (published, not yet acknowledged).
Each exception path is an action: `OpenChannelFails`, `LoadRefused`
(`ResponseException`: polling stops), `LoadFails`, `ReportFails` (swallowed,
requeued), `RepublishReturned` (`nack` with requeue), `RepublishFails`. There are
two ways to a redelivery. `ConsumerLost` is a process that dies: its copy is
queued again. `ChannelLost` is a channel that is lost under a handler which, because
of `connect_robust`, lives on: the broker queues the message again as another
copy, and the handler becomes `stale`. A stale handler still reports and
republishes, but its acknowledgement reaches nobody. `Reasons` are the causes for
which a copy disappears without feedback, all of them logged by the code.

**ScanMonitor** - the abstract specification: Checkmarx One gives verdicts (two, if
the policies are evaluated again with another result), a scan is watched, only
verdicts that were given are reported and only while it is watched, and a watch
that ends without a report has an excuse. `ScanPolling!Monitor` is the refinement
mapping.

**DelegatedScan** - `request_resolver_scan`, the queue of a tag with TTL and
dead-letter exchange, `ResolverRunnerAgent`, `ResolverTimeoutAgent`,
`ResolverResultsAgent`. `worker[a]` is the running handler of a scan agent,
including `wedged`, a handler that raised inside its `except` clause.
`AckTimeout` is the broker taking back a delivery from a handler that is still
cloning or resolving.

**CheckRuns** - `GHServiceChecks` for one head commit: `Find` is the lookup
request of a handler, `Update`/`Complete` the request that follows.
`FindRunningCheck` may return any run with the wanted status, because the code
takes the last of a list whose order GitHub does not promise. A change whose
answer gets lost and that is sent again has the effect of a redelivery after the
change, which is modelled; both set `spoilt`.

**SarifDelivery** - `execute_sarif_generation` and the two delivery agents. The
`requests.post` of a delivery has no timeout: `PostHangs` is a destination that
accepts the connection and never answers, which holds the handler's
`asyncio.wait` and so the message. A lost agent ends its handlers here; that a
handler can outlive its channel is modelled in `ScanPolling` and `DelegatedScan`.

**PullRequestScans** - from events to scans: the dispatch tables of the five
orchestrators, drafts, closed and retargeted pull requests, check-run buttons,
`find_pr_scans`, `update_scan_pr_tags`, `cancel_scan`, delegation. The tags a
scan carries are represented by the number of the event they come from. Lookups ask
by the name that the naming module gives (`AsksFor`), scans go to the project that
`load_project_config` picks (`ProjectOf`); the two differ when the naming module
fails, and always for a project that has kept its default name because
`update-name` is off (`naming` = "legacy"). A lookup that misses a scan for this
reason is recorded in `overlooked`. `Close` closes or merges, which Gitlab's
handler tells apart.

**Kickoff** - the client's loop of 401 and 429 responses, the workers and the
checks of `KickoffOrchestrator.execute`, which read Checkmarx One three times
before the scan is started. `sees` tells whether the name by which a worker asks is
that of the repository's project, as above; a check that misses a scan because it
is not is recorded in `unseen`. A delegation that is not confirmed falls back to a
direct scan (`StartScan`). That the naming module may fail once more while the
scan's own project is loaded is left to `ProjectConfig` (`misnamed`).

**ProjectConfig** - `load_project_config`: the naming module, the two steps of
`__create_or_retrieve_project` (list, then create, with one repetition after a
400), the update of tags, name, repository and groups with its purge and second
try, and `GroupingService` with the cache its loads share. The record of a load holds
the local variables of the coroutine, in particular `json`, the project as it
was read, which `Update` writes back as a whole. Administrators edit projects
and groups in between. An imported project has a `repoId`, and may lack the
`repoUrl` (`WithUrl`).

**PullRequestComments** - the decorators that use comments and statuses. One
message runs through `queued`, `posted` (the status), `found` (the lookup) and
is then gone; the actions named `Post...Status`, `Find` and `...Writes` are the
requests of each SCM's class. `Listed` is what the paging of each service lets a
lookup see, `Outdate` the version check of Bitbucket Data Center, `EmptyPayload`
the Azure DevOps status without a scan URL. `AnswerLost` and `StatusAnswerLost`
are requests that had their effect and whose answer is a gateway's error or is
lost: `APISession.exec` sends the same request again, without another lookup, or
raises. `service` is chosen in `Init`.

**ScmSession** - `APISession.exec`, `exec_clone_scan` and the two factories with
token caches. A job is a coroutine; `pc` is the `await` at which it stands
(`lock`, `post`, `send`, `cloned`). `Keys` are the places where factories keep a
token: one dictionary of the class for GitHub apps, and for a service principal
two factories, that of the session and that of the cloner, with a token each. A
token may expire or be revoked at any time; `expired` is the expiry that the factory
has noted, and a token that the SCM takes for expired before that counts as
`revoked`. `hung` is a request for a token that is never answered, which keeps the
lock.

**TaskManager** - `in_background`, `in_foreground`, the callback and
`wait_for_exit`. `request` and `loop` are the program counters of the two
threads. The callback runs in the request's thread if the future is done when it
is added, and in the loop's thread otherwise. A coroutine may be `hung`, because
neither token requests nor git have a timeout.

**ScanPollingProofs**, **DelegatedScanProofs**, **CheckRunsProofs**,
**PullRequestCommentsProofs**, **SarifDeliveryProofs**, **KickoffProofs**,
**ScmSessionProofs** - the theorems about the modules they are named after.

**EventProofs** - the theorems about `PullRequestScans`, `ProjectConfig` and
`TaskManager`, which is what a worker does with an event. The three have no
variable in common, and those of `TaskManager` and `ProjectConfig` have
specifications of their own name (`ManagerSpec`, `ConfigSpec`).

Variables marked *history* in the modules record what happened (a redelivery
after a publish, a lookup that raced, a logged loss). The safety properties are
stated relative to them: they say that the recorded event is the *only* way to
the bad state, which is stronger than forbidding it in fault-free runs. It also
means that they do not catch what they excuse: `TagsFollow` says nothing of events
that crossed (`contested`) or of scans that were running (`missed`), `UpdateKeeps`
nothing of a load that another writer overtook (`outdated`), `OwnToken` nothing of
colliding installation ids (`Collides`), `DirsRemoved` nothing of a service principal
that got no token, and `FinalWord` and `ChecksConclude` nothing of what was `spoilt`.
`GreenIsTrue` and `DecorationIsTrue` rest on every message carrying the verdict it
shows, so that the order of messages cannot break them.

## Runs

| Run | Checks | Result |
|---|---|---|
| `polling` | `FeedbackIsTrue`, `NoSilentLoss`, `AtMostOnce`, `BackoffInRange`, `MonitoringEnds`, `ImplementsMonitor` | hold |
| `delegated_scan` | `NoSilentLoss`, `OneOutcome`, `RetryBudget`, `PullRequestsWatched`, `DelegationEnds` | hold |
| `delegated_retries` | `RetriesAsDocumented` | violated: one retry fewer than the manual says |
| `check_runs` | `GreenIsTrue`, `ChecksConclude`, `FeedbackShows` | hold |
| `sarif_delivery` | `DeliveryBudget`, `NoDestinationSkipped`, `DeliveryEnds` | hold |
| `pull_request_scans` | `OneScanPerCommit`, `TagsFollow`, `CommitsAreScanned` | hold |
| `pull_request_comments` | `DecorationIsTrue`, `OneComment`, `FinalWord` | hold |
| `kickoff` | `LimitBound`, `OneKickoffScan`, `ClientsAnswered` | hold |
| `kickoff_duplicates` | `NoDuplicateScans` | violated: a delegated kickoff scan is requested twice |
| `project_config` | `OneProject`, `FailuresHaveCause`, `UpdateKeeps`, `GroupsAssigned` | hold |
| `scm_session` | `OwnToken`, `RefusalHasCause`, `CloneHeals`, `OneRenewal`, `DirsRemoved`, `JobsEnd` | hold |
| `task_manager` | `NothingAbandoned`, `WorkerProgresses` | hold |

A run is repeated with `tlc -config <cfg> <MC module>`; `PROJECT.json` lists
them with their findings, and a mutated definition for every property that
holds, showing that the property notices the bug.

`CHECK_DEADLOCK FALSE` is in every configuration: the bounded systems stop when
all work is settled.

### Bounds

- `Copy` (ScanPolling, DelegatedScan): messages and handlers alive at once about a
  scan or a request. In ScanPolling every further poll message takes a fault (a
  redelivery after a publish, or a handler that outlives its channel), so two faults
  lead to at most three of them, one of which can be replaced at a time with four
  copies. In DelegatedScan a redelivered request is the same copy, and two copies
  let every retry happen; a third one would be needed only by a timeout handled
  twice. The request of the instance is that of a pull request; that of a push takes
  the same steps up to its result, and is the one of `delegated_retries`.
- ScanPolling: one push scan, with the workflow enabled or disabled and with or
  without a deadline. Scans share nothing but the prefetch count, and a pull-request
  scan takes the steps of an enabled push; the theorems hold for any number of both.
- `MaxFaults`: faults of the broker, the network or an agent, each at any step.
  One fault makes a redelivery, two make a redelivery during the recovery from
  another fault. In `CheckRuns`, `PullRequestScans`, `ProjectConfig` and `Kickoff`
  one is used; the races there need none.
- `Prefetch`: unacknowledged messages of the polling consumers, 1. Handlers run
  side by side all the same, because a stale one does not count.
- `Interval`, `Backoff`, `MaxInterval`: chosen so that the backoff is capped
  after one or two polls, with a maximum that is no multiple of the interval.
- `MaxScans`, `MaxRuns`: scans of a request and check runs of a commit; larger
  than what the faults allow, so they cut off nothing.
- `MaxCommits`, `MaxEvents`, `Busy`: two commits, three events, and one of the
  two pull requests to which everything may happen; three events are a scan, an
  update that overtakes it and one that follows. The second pull request shares
  the first commit.
- `Setups` of PullRequestScans: each SCM; each of the three namings, with an
  orchestrator that looks up and with one that does not; agents with both kinds.
- Kickoff: two branches of one repository and two workers, so that a request can
  be overtaken in each of its three checks; `MaxReruns` 1 is an audit that is run
  again. `Setups` are plain and legacy projects with one push that has a branch
  scanned, and delegated ones of both kinds without. The duplicates need one client,
  one worker and no fault.
- ProjectConfig: two loads in one worker share the cache; two group paths let one
  be known and the other not; `MaxEdits` is one change by others at any step.
  Every combination of the two options, of an absent, old, hand-made or imported
  project and of stale caches is an initial state.
- PullRequestComments: `MaxFaults` bounds failures, lost agents, closed comments
  and comments of other people together; `PageSize` 1 makes every comment a page,
  so that a second one is on another page. `Disturbed` leaves out Bitbucket Cloud,
  whose sequence of requests is that of GitHub with a commit status, which is in:
  it is checked without faults. The comment-only variants of Azure
  DevOps and Bitbucket Cloud are left out of the instance: they are the variants
  with a status, without the step that posts it.
- ScmSession: two calls and a clone, three owners of which two share a server
  and two an installation id, two tries, and two tokens that lapse or fail.
- TaskManager: three events and a kickoff request; nothing is bounded.

Symmetry is not used; in ScanPolling a new copy takes one chosen free identity
(`Fresh`), which has the same effect.

### Fairness

- Queues are consumed and the event loops run a handler or task to its end (weak
  fairness of handler steps). The requests to the SCM and to Checkmarx One have a
  timeout and a number of tries. Three kinds of requests have no timeout, and are not
  assumed to end: the `requests.post` of a Sarif delivery (`hung` in SarifDelivery),
  the request for a token (`hung` in ScmSession), and git, which together with the
  latter makes a coroutine `hung` in TaskManager and an event `lost` in
  PullRequestScans. The liveness properties are stated relative to these states.
- The broker expires TTLs and acknowledgement timeouts (`Expire`,
  `ReleaseWedged`).
- ScanPolling: either the configured deadline passes, or, without one, Checkmarx
  One ends the scan. Nothing is assumed of scans in PullRequestScans.
- DelegatedScan: nothing makes an agent take a request.
- Kickoff: scans end, agents create what was delegated to them, and the
  listening socket does not starve a client (strong fairness of `Send`, because
  the workers are taken by others again and again).
- ScmSession: a job that can go on does (weak fairness of `Step`); a request to
  the SCM has a timeout, a request for a token has none and may stay `hung`. That
  git ends is assumed here.
- TaskManager: the request's thread runs, a coroutine ends or is `hung` for good,
  and the loop's thread gets the lock that it finds free again and again (strong
  fairness of `Callback` and `Finish`).
- Faults are never assumed to happen or not to happen.

## Proofs

The theorems hold for every value of the constants that satisfies the named
assumptions of the modules, in particular for any bound on faults and scans. All
have the form `Spec => []Inv`, but for the refinement `Spec => ImplementsMonitor`
and two action properties of `ProjectConfig`. Each proof module also proves the type
invariants of its modules.

| Module | Properties | Assumptions |
|---|---|---|
| `ScanPollingProofs` | `FeedbackIsTrue`, `NoSilentLoss`, `AtMostOnce`, `BackoffInRange`, `ImplementsMonitor` | intervals are naturals, the backoff is at least 1 |
| `SarifDeliveryProofs` | `DeliveryBudget`, `NoDestinationSkipped` | none but the types of the constants; `delivery-retries` may be negative |
| `DelegatedScanProofs` | `NoSilentLoss`, `OneOutcome`, `RetryBudget`, `PullRequestsWatched` | none but the types; `scan-retries` may be zero or negative |
| `CheckRunsProofs` | `GreenIsTrue`, `ChecksConclude` | finitely many scans of a commit |
| `PullRequestCommentsProofs` | `DecorationIsTrue`, `OneComment`, `FinalWord` | at least one scan, a page holds at least one comment |
| `KickoffProofs` | `LimitBound`, `OneKickoffScan` | finitely many workers, a limit of at least 1 |
| `ScmSessionProofs` | `OwnToken`, `RefusalHasCause`, `CloneHeals`, `OneRenewal`, `DirsRemoved` | calls are not clones, at least one try |
| `EventProofs` | `OneScanPerCommit`, `TagsFollow` of `PullRequestScans` | at least one commit |
| | `OneProject`, `FailuresHaveCause`, `UpdateKeeps`, `GroupsAssigned` of `ProjectConfig` | every load has its worker; the group that stands for other people's is none of the rules' |
| | `NothingAbandoned` of `TaskManager` | events are not kickoff requests |

### ScanPolling

None of the properties is inductive. `FeedbackIsTrue` needs that a handler in
`deciding` or `breaking` has seen the end of the scan, that a scan that has ended
stays so, and that the first read of the policies still holds in `breaking` unless
the evaluation has changed (`DecidesAfterEnd`, `DecisionIsApt`). `NoSilentLoss` and
`AtMostOnce` depend on each other's view of a copy that is `reported` or
`republished`: it is still held, must not be counted as pending, and has a pending
successor or a report (`KeptAt`, `OnceAt`). A stale handler counts for neither,
because the broker has its message again as another copy; what makes it harmless
until it publishes is exactly that it is not counted, and when it publishes the scan
becomes `ambiguous`. The lower bound of `BackoffInRange` needs that the backoff does
not shrink a TTL (`BackoffBounds`). `Untouched` says that before `WorkflowStart`
no copy exists. The invariant is `TypeOK` and the conjunction `ScanInv(s)` of
these parts for every scan.

The proof is by what a step does to a single scan. Every step falls into one of ten
patterns: a scan's first copy (`Start`), a copy moves on (`Advance`), hands over to a
new copy (`HandOver`), answers (`Answer`, `AnswerTwice` when the handler goes on to
republish), is forgotten (`Forget`) or given up (`GiveUp`), is queued again
(`Redeliver`), is queued again beside its handler (`Outlive`), or it is the
environment that moves (`Surroundings`). There is a lemma for each pattern and a
frame lemma for the scans a step does not touch; `StepsKeepScan` assigns each action
to its pattern.

The refinement uses the same invariant. The mapping calls a scan watched while it
has a copy, held by the broker or by a stale handler, or was reported, so most steps
are stutters: moving a copy, handing it over, redelivering it and repeating a report
change nothing the monitor sees (`MoveUnseen`, `StillWatched`). A first report is
`Announce` because a handler that decides has seen a verdict that was given
(`FeedbackAnnounces`); giving a copy up is `Excuse`, because its reason is recorded in
the same step (`GivenUpExcused`); and the disappearance of the last copy of an
unreported scan is `End`, because by `KeptAt` there is an excuse already
(`DiscardEnds`). `StartWatches` and `SurroundingsConclude` treat the beginning and the
environment, and `StepsAbstract` assigns each action to its abstract step. Liveness
is not part of the refinement: `ScanMonitor` has no fairness.

### DelegatedScan

The invariant speaks of one request at a time (`RequestInv`), and has two layers.
What holds whatever happens: a request that was not made has left no trace
(`Untouched`); a delivery that still counts is of a copy the broker takes for
held, and is the only one of that copy (`HeldOnce`), without which an
acknowledgement could free the copy another agent works on; the request is in the
broker or with a handler whose delivery counts, or has a result (`KeptAt`, which is
stronger than `NoSilentLoss`: that one is also content with a handler whose delivery was
taken back, and is not preserved when such a handler ends); results are about
scans that exist (`TrueAt`). And what holds until a request becomes ambiguous,
that is redelivered (`Calm`): the request is in one place (`OnePlace`), a scan
exists only when no copy can be taken any more (`OneScan`), a result only when no
handler works (`OneResult`), the retry header and the number of publishes add up
(`BudgetAt`), and a scan is followed by a handler that will report it or by its
result (`FollowedAt`). The five parts of `Calm` need each other: the timeout
agent can count only because nobody else holds a copy, and a scan is unique only
because the count of copies is.

Every action is shown to leave all requests but one alone (`LeftAlone`, `Frame`);
the lemmas named `...Keeps` then treat what it does to its own.

### SarifDelivery

`DeliveryBudget` counts what a task has left, but between `Receive` and
`StartDelivery` there is no task. The invariant reserves the budget of a whole
pass from `Receive` on (`SentBounded`), counts an accepted request only against a
pass whose task has ended (`AcceptedBounded`), and says that tasks try only while
the handler waits (`TryingWaited`), so that a redelivery cannot leave one behind.
`TasksTried` carries what `NoDestinationSkipped` says of acknowledged messages
back to the time when the handler waits.

### CheckRuns

`GreenIsTrue` is inductive together with `VerdictReported`: a verdict exists only
after the workflow has reported, and a workflow reports once, so that no later
step can make a run that was true false.

`ChecksConclude` is proved by book-keeping (`Balanced`), which holds until
something is overtaken, found missing or lost (`spoilt`): the queued runs are at
most as many as the scans whose follow-up message is still to be handled
(`Expected`); the runs in progress together with the scans whose feedback was
handled (`Ended`) are as many as the scans whose scan notice was (`Begun`); and
each scan that has ended or was aborted has its completed run. When everything was handled, no scan is expected and
as many have ended as have begun, so no run is left. A lookup takes any run of
the wanted status, so a run need not end with the scan it began with: only the
numbers are invariant, which is why the sets have to be finite.

### PullRequestComments

Every step of a handler is reduced to one of four effects: it gives up, posts a
status, looks up, or writes. `DecorationIsTrue` needs `Sent` (a message exists
only after the workflow step that publishes it, and a verdict only after the
report). `OneComment` needs `Remembered`: a handler that found nothing knows how
long the list was, and what is ours is beyond that; a handler that found a comment
has an index that stays ours. A POST that is sent again is a write by a handler whose
own comment has crossed its lookup, and has the same excuse as a crossing by another
(`AnswerLostWrites`). `FinalWord` needs that a notice, in a comment or a
status, stands only while the handler that replaces it is still to come
(`NoticeAwaits`, `StatusAwaits`), and that nothing was closed or has failed
(`Undisturbed`).

Two definitions of the model could not be reasoned about as they were: `Shows` and
`Outdate` (and `Takes` of `Kickoff`) had overlapping guards in a `CASE`, of which
TLA+ leaves the choice open where TLC takes the first. They are written with
exclusive guards now, with the same behaviour under TLC.

### Kickoff

`LimitBound` is inductive as it stands: it counts the admitted workers with the
scans. A worker is admitted by a list with fewer than `MaxRunning` scans, when all
workers may be admitted already; it leaves the admitted when it starts its scan.
`OneKickoffScan` follows from `AloneInv`, which says of every project that is neither
in `raced` nor in `unseen` that at most one worker has decided to scan it, that then
no scan of it counts, and that at most one scan counts. The step that needs the
second set is `CheckProject`: only a check that asked by the project's own name shows
that no scan counts.

### ScmSession

The invariant says who may hold what. `TokensOwned`, `CacheKeyed` and `HeldKeyed`
tie tokens, cache entries and the tokens in the hands of jobs to the key they
were asked for, which is the factory's place and not only the owner (`OwnToken`); `HeldFresh` and `RefusedHeld` tie a refusal to the
token it was made with (`RefusalHasCause`, `CloneHeals`, with `TriesLeft`);
`DirsHeld` ties directories to running clones; `RenewalLocked` and
`RenewalsCounted` say that between the look into the cache and the new token the
lock is held, so that the unforced tokens of a factory are counted by its expired
ones.

### PullRequestScans

Every action is reduced to one of a few effects on one task: an event is announced,
a task looks, creates a scan, lists the scans to update, updates one, fails or moves on.
`OneScanPerCommit` needs that of a commit that was neither raced nor overlooked there
is one task that has decided to scan it, or one scan, and never both (`AloneAt`);
`FindsAlone` uses that an empty lookup of such a commit means that it is unscanned.
`TagsFollow` needs that of a commit whose events came one at a time and that was
neither missed nor overlooked only the last event is unfinished
(`LastOpen`), and that a scan without the tags of the last event is on the list of
the task that updates (`TaggedAt`); `Related` keeps tasks to scans of their own
commit.

### ProjectConfig

`outdated` is what makes the view of a load reasonable: whoever changes a project
or a group outdates the loads that have read it, so that the others can be said to
know the project exactly (`View`). From that follow `UpdateKeeps` and the part of
`FailuresHaveCause` about updates: the second update of a load that is up to date
has a name that is free, because the lookup prefers the project of that name, and
groups that exist, because after its purge the cache cannot hold anything that is
gone (`Fresh`). A creation that was refused because of the name finds a project the
second time, since projects are not deleted and have one of two names (`Retries`).
`GroupsAssigned` needs that of the paths a load has resolved it has the group, or
some group that is gone and makes the request fail (`Covers`). `OneProject` needs
what a load without a project knows: no project had the default name when it looked, and
names change to the dynamic name only (`SingleAt`).

The proof attempt showed `FailuresHaveCause` to be false as it was stated before, which
the instance with two loads could not: the load whose creation was refused because of
a stale cache looks again, another worker creates the project, and the second
creation fails because of the name, with groups that all exist by then. The history
variable `stale` records the refusal. A load for which the naming module failed is
excused as well: the project of the default name that stood in its way can be renamed
before it looks again, and another such load can make one before it creates.

### TaskManager

`EventsCovered` says that every event that was handed to the loop is monitored,
is about to be, or is done; `CallbackPending` and `CallbacksStarted` say which
futures still wait for their callback, `RequestsAwaited` and `ServingKnown` what
the request's thread is doing, and `StoppedEmpty` that it stops with an empty
list only.

### Only model-checked

- Liveness under fairness, which the proof system does not cover: `MonitoringEnds`,
  `DelegationEnds`, `FeedbackShows`, `DeliveryEnds`, `CommitsAreScanned`,
  `ClientsAnswered`, `JobsEnd`, `WorkerProgresses`.

Every invariant and action property of the passing runs is proved.

## Findings and observations

Where the documentation says something else and a run bears on it; `PROJECT.json`
quotes both sides:

- Duplicate kickoff scans (`NoDuplicateScans`, violated). The manual says that the
  audit tool can be run several times without duplicate scans
  (`manual/kickoff/all.tex:44`); a delegated kickoff scan is requested again. A legacy
  project that is not renamed is scanned again by every audit as well, since the
  checks ask by the dynamic name (`unseen` in `OneKickoffScan`).
- Retries of delegated scans (`RetriesAsDocumented`, violated).
  `manual/operation/yaml/resolver.tex:24`: "The number of times a request for a
  delegated scan will be retried after the initial request if no Scan Agent handles
  the scan." A message that has timed out is published again only while the count is
  above zero after it was decremented (`workflows/resolver_workflow.py:160`,
  `workflows/resolver_scan_service.py:140`), so that N gives N - 1 retries.
- The kickoff limit. `manual/kickoff/all.tex:26` counts scans "that are in the
  Running, Finished, or Queued state"; `get_running_ko_scans` asks for Running and
  Queued only. `ClientsAnswered` holds because of what the code does: with finished
  scans counted the limit would never clear.
- Sarif logs. `manual/operation/yaml/feedback.tex:52`: "delivery of Sarif logs is
  executed upon completion of a scan", and `manual/workflows/push.tex:7` likewise. The
  result of a delegated push scan that has already ended starts no workflow
  (`orchestration/base.py:288`), so `PullRequestsWatched` is stated for pull requests,
  which have no such condition.

Read along the way and not checked by a run of their own, where the documentation or a
comment says something else:

- Delivery over HTTP. `manual/operation/yaml/feedback.tex:94`: "An integer that
  defines the number of retries that will be attempted upon failure to deliver a
  Sarif log to the defined HTTP endpoint." A request that raises is not retried
  (`workflows/feedback_services/push/push_feedback_service.py:183`), only a response that is not ok.
- API requests. `manual/operation/yaml/generic.tex:30`: "The number of retries when
  the request fails." `APISession.exec` makes that many tries in all.
- The service tag. The comment at `cxone_service/__init__.py:248` says "Update the
  service moniker if it has changed or does not exist."; line 257 merges
  `new_tags | project_json["tags"]`, in which the old value wins (`MergeTags`), and
  the project is updated to the same value at every event.
- Paging. The docstring of `api_utils/pagers.py` says "A boolean indicating this is
  the last page."; `scm_services/gh/basic.py:20` says so of a full page
  (`ListedByGitHub`), which is why a comment beyond it is not found.

What the models showed of the code:

- The Azure DevOps status without a scan URL is an empty object, because the
  conditional expression in `scm_services/adoe/required_checks.py:29-39` takes in the dictionary: the
  prescan notice is rejected, and the notice of an unrecoverable error as well.
- A new project with cached ids of groups that are gone fails without a purge of
  the cache, unlike an update; the second try of an update assigns groups also
  when `update-groups` is off; a naming module that fails may lead to a second
  project.
- A GitHub token is cached by its installation id alone, in a dictionary of the
  class: two servers with the same id share it (`Collides` in `OwnToken`).
- The request for a token has no timeout and is made with the class's lock held:
  one that is never answered stops all jobs that need a token (`hung` in `JobsEnd`).
- A clone of a service principal that gets no token leaves its temporary directory
  (`DirsRemoved`); a clone refused twice makes `exec_clone_scan` return nothing.
- A coroutine that is done before `in_background` adds the callback makes the
  thread wait for a lock it holds itself (`WaitsForItself`). `WorkerProgresses` shows
  that this and a coroutine that hangs are the only ways for a worker to stand still.
- A project that has kept its default name against a naming module, with `update-name`
  off, is asked for by a name it does not have: every event of a pull request scans
  the commit again, and no tags are updated (`overlooked` in `OneScanPerCommit` and
  `TagsFollow`).
- `APISession.exec` sends a POST again after a gateway's error, although the first may
  have made its comment (`AnswerLost`): the one way to a second comment that needs no
  second handler.
- A handler that outlives its channel publishes although its message is in other
  hands: with a republish, two poll messages live on (`ambiguous` in `AtMostOnce`).
- A Sarif destination that accepts the connection and never answers holds the message
  until the consumer is lost (`DeliveryEnds`).
- `manual/operation/yaml/kickoff.tex` describes a limit on concurrent kickoff
  scans; the limit is checked against a list read before the clone, so it can be
  exceeded by one less than the number of workers (`LimitBound`).
- `agent/resolver/results_agent.py:44` logs "no scan executed" for a failure
  without a scan id, but `ResolverRunnerAgent` also answers so after the scan was
  created and only its result could not be published.
- `scm_services/gh/checks.py:176` says that a pending scan should close other
  runs; the code creates a run and looks for none.
- The tags of a scan that is running when its pull request is closed or
  reviewed are not updated later (`missed` in `TagsFollow`).

## Plan

Done: `ScanPolling` with its abstract specification and proofs, `DelegatedScan`,
`CheckRuns`, `SarifDelivery`, `PullRequestScans`, `Kickoff`, `ProjectConfig`,
`ScmSession` (with the cloner), `PullRequestComments`, `TaskManager`, and the proof
modules above.

Proved: the safety properties of all ten components, and the refinement of
`ScanMonitor`.

Next: a composition of orchestrator, delegation, polling and feedback for one commit,
with the end-to-end promise that a scanned pull request is answered.

## Not modelled

Configuration parsing and service factories (their values are constants), what a
user's naming module computes, report and comment texts, Sarif content, zip and
git processes, resolver command lines and containers, signatures of webhook
payloads (a refused payload is an abandoned event), authentication factories with
fixed credentials (they keep no state), the legacy copies of exchanges and queues,
and the head-of-line delay in the awaited queue (a TTL may run out at any later
time).
