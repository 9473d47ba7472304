# otto-handler in TLA+

otto-handler is the NestJS backend of a CI/CD service.  A user connects a GitHub
repository, draws a pipeline, and executes it; the backend starts an AWS CodeBuild
build, follows it through EventBridge events and a heartbeat, streams its logs to
browsers and, when it succeeds, deploys the image to ECS behind an ALB.

This directory holds models of the parts of that backend whose correctness depends
on the order in which things happen, the TLC runs that check them on small
instances, and TLAPS proofs of the safety properties that matter most.

Run a model with `tlc -config MCBuildTracking_events.cfg MCBuildTracking`, a proof
with `tlapm Builds_proofs.tla`.  `PROJECT.json` lists every run, what each
definition translates (file and lines), the hazards and the findings.

## 1. Inventory

| Component | State it keeps | Operations | Talks to |
|---|---|---|---|
| Build tracking (`codebuild.service`, `logs/eventbridge.service`, `logs.service`) | rows of `execution`, `pipeline.ecrImageUri` | executePipeline/startBuild, CodeBuild events, stale-execution cron and manual check, PATCH status | CodeBuild, Postgres, pollers, deployment |
| Event ingress (`lambda/index.ts`, `eventbridge.controller`, `redis.service`) | Redis keys `eventbridge:event:<id>` with a TTL | Lambda handler, `/events/check`, `/events/process`, SETNX + EXPIRE | EventBridge, build tracking |
| Log buffer (`log-buffer.service`) | one ring of 1000 entries per execution | addLogs, getRecentLogs, clearBuffer | pollers, gateway (`logs.new`) |
| CloudWatch polling (`cloudwatch.service`, `log-storage.service`) | `pollers` map of interval timers, a token per poller, rows of `execution_log` | startPolling, ticks, stopPolling, recovery jobs | CloudWatch, Postgres, buffer |
| Log gateway (`logs.gateway`) | socket.io rooms | connect, subscribe, unsubscribe, broadcasts | clients, buffer, Postgres |
| ECS deployment (`deployment/*`) | rows of `deployment`, EventBridge rules, ECS and ALB resources | deployAfterBuild, ECS/ALB events, trackers, health check | AWS, build tracking |
| Pipeline cleanup (`pipeline-cleanup.service`) | none of its own | deletePipeline, cleanup steps | AWS, Postgres |
| AWS wrappers (`aws/*`) | `cachedConfig`; in AWS the network, group, cluster, zone, balancer and listener that all deployments share | discover or create, setup steps of a deployment | AWS |
| Sessions (`auth.service`) | rows of `refresh_token`, `user`; the cookie of each browser | login, refresh, logout, clean-up | GitHub OAuth, Postgres |
| Project provisioning (`project.service`) | rows of `project`, ECR/CloudWatch/CodeBuild/EventBridge resources | createProject with rollback, updateProject, deleteProject | AWS, Postgres |
| GitHub App (`github-app/*`) | rows of `github_app`, `project.installationId` | installation and repository webhooks | GitHub, Postgres |
| Buildspec generation (`codebuild/*generator`) | none | flow nodes to buildspec and Dockerfile | build tracking; CodeBuild runs the result |

What makes the system hard to test: one Node process runs every handler, cron job
and poller, and they interleave at every `await`; TypeORM's `save` compares a copy
loaded earlier with the row and writes the columns that differ over whatever was stored
meanwhile; EventBridge delivers at least
once and in any order, GitHub at most once; what the process holds in memory (pollers,
buffers, rooms, the infrastructure cache) dies with it; and most errors are caught,
logged and forgotten.

### Per component: what is hard, and what makes it correct

- **Build tracking.** An event handler, the cron and `startBuild` all load, wait and
  save the same row.  Correct: a final status is the one CodeBuild reported; in the
  end every row shows the outcome; a build is deployed at most once, only if it
  succeeded, and, if nobody else was at its pipeline, it is that build's image which
  goes to that build's pipeline.
- **Event ingress.** Two endpoints mark an event with SETNX then EXPIRE, Redis errors
  fail open, the forwarder gives up after 30 s.  Correct: an event is processed at most
  once while it is fresh, what is reported as processed was, and no key stays for ever.
- **Log buffer.** A ring that wraps.  Correct: it shows the last 1000 logs in order.
- **CloudWatch polling.** A `setInterval` whose polls overlap, a token they all write,
  a map that holds one timer per execution, recovery that reads the stream again.
  Correct: no log is skipped, recovery stores the whole stream, polling stops, a
  successful execution that logged something has logs.
- **Log gateway.** Join, buffered logs and history, each after an await, against logs
  stored and broadcast meanwhile.  Correct: a subscriber lacks nothing but what is both
  beyond the history's limit and out of the ring; the last answer a socket got is true.
- **ECS deployment.** `deployAfterBuild` writes the row it loaded before minutes of AWS
  calls; task events write the same row; deployments of one pipeline share a target
  group and a service.  Correct: what a row shows exists, SUCCESS is said of what ECS
  accepted, the rules made for a deployment are removed.
- **Pipeline cleanup.** It finds what to delete in the rows, read once, and swallows
  errors.  Correct: a deletion without errors leaves nothing of the pipeline in AWS.
- **AWS wrappers.** Every pipeline's deployment looks for the shared resources, makes
  those that are missing in several calls, and adopts what it finds by its name alone.
  Correct: a deployment that ends well can be reached whoever made what it uses, and one
  that failed does not keep later ones from succeeding.
- **Sessions.** Find, revoke and insert are separate statements; tabs share a cookie.
  Correct: a token that was exchanged buys nothing later, no browser is left with a dead
  cookie, an account has one `User` row.
- **Project provisioning.** Seven AWS calls, then the insert, then a rollback that goes
  by what was recorded.  Correct: a project has all its resources or there are none.
- **GitHub App.** Webhooks in any order, overlapping, lost.  Correct: once all are
  handled there is a row exactly for what is installed.
- **Buildspec generation.** A flow in any order becomes three phases whose commands share
  one shell, and `post_build` runs after a failed build too.  Correct: an untested image
  is not pushed, "completed successfully" is true, no node is lost, and a flow that asks
  for nothing unusual builds.

## 2. Plan

| # | Module | Composes / refines | State |
|---|---|---|---|
| 1 | `BuildTracking` | — | checked, proved |
| 2 | `EventIngress` | in front of 1 | checked, proved |
| 3 | `LogWindow`, `LogBuffer` | `LogBuffer` implements `LogWindow` | checked, proved |
| 4 | `LogPolling` | feeds 3 | checked, proved |
| 5 | `LogSubscription` | extends `LogBuffer`: its steps are those of the ring or leave it alone, so it implements `LogWindow` too | checked, proved |
| 6 | `Deployment` (rows, task events, AWS resources, cleanup of one pipeline) | started by 1 | checked, proved |
| 7 | `Infrastructure` (what the deployments of all pipelines share) | the AWS side of 6, across pipelines | checked, proved |
| 8 | `Sessions` | — | checked, proved |
| 9 | `Installations` | — | checked and proved, as part of 10 |
| 10 | `Provisioning` | extends `Installations`: its rows refer to theirs | checked, proved |
| 11 | `Buildspec` (operators, and the shell that runs their result) | — | checked, proved |
| 12 | `Release` (what is promised of one build) | 1 implements `Release` for each build | checked, proved |

The order is that of the damage a wrong interleaving does: 1 and 2 decide what is
deployed, 3 to 5 what users see of a build, 6 to 10 what is left behind in AWS and in
the tables; 11 has no concurrency of its own but the order of its commands.  1 and 11 are not
composed: which image a deployment runs is not decided by the build that triggers it
(`DeployedImageIsBuilt`, Known gaps), so that a build's commands and a build's deployment
together promise no more than each of them does.

Runs: one passing run per module or refinement, more only where a question needs other
bounds (as `events`, `agreement` and `pipelines` do for 1), and one violation, of the
repository's own words (`ingress_reported`).  The project keeps to twelve runs and forty
properties, so that a full pass stays within minutes; other disagreements met on the way are
described under "Known gaps" with how to reproduce them.

Theorems: for every module with interleavings `TypeOK` and its main safety properties
from one inductive invariant, and the refinements of 3 and 12.  For 11 the facts about
flattened sequences are proved first, by the least counterexample (see Proofs).

## 3. What is modelled

### BuildTracking

The atomic step is the code between two awaits.  An activity (a request handler, a
run of the stale-execution check, a `startBuild`, an edit) is a record: `pc`, and the
entities it holds in memory.  `save` is two steps, as in TypeORM: a SELECT finds the
columns in which the row differs from the copy (`Differing`), an UPDATE writes those
(`Merged`).  Two saves that overlap may leave columns of both.

| Code | Model |
|---|---|
| `startBuild` | `StartBuild` (AWS answers) → `RecordExecution` (insert) → `SetImage` (`pipeline.ecrImageUri`); `StartFails` at any of them |
| `/events/process` for CodeBuild | `Receive`, `DedupNew`/`DedupSkip`, `FindByBuildId`/`FindNothing`, `FindById`, `Compare` and `Adopt`, `Create`, `Load`, `Compare` and `Save`, `Trigger`, `Deploy`, `SetUrl`; `RequestFails` where an error ends the request |
| `PATCH` of a status | `Patch`, then `Load`, `Compare`, `Save` |
| `checkStaleExecutions`, its manual twin | `CheckFind`, `CheckAsk`, `CheckSkip`, `CheckLoad`, `CheckCompare`, `CheckSave`; the cron's touch of `updatedAt` is `CheckCompare` and `CheckSave` of the entity `CheckFind` loaded |
| `updatePipeline` | `EditPipeline`, `ComparePipeline`, `SavePipeline` |
| CodeBuild, a restart | `BuildEnds`, `Restart` (external) |

`Emitted` is what EventBridge may deliver: the events of a build that has started, in any
order, each up to `MaxDeliveries` times.  Rows keep the build, the status, and whether the
OTTO_* variables are in the metadata; `completedAt`, wording, timestamps and URLs are left
out.  `shipped` records what each deployment was of: the build that triggered it, the
pipeline and the image; `beside[b]` the pipelines somebody else had in hand to write to
while build `b` was on its way.  Of the pollers, LogPolling. Assumed: `USE_EVENTBRIDGE=true`
(otherwise `startBuild` records no execution), all pipelines belong to one project,
pipelines are not deleted, and events reach `/events/process` without the forwarder in front
(see Findings).  Left out: `registerExecution` and the test endpoints, log recovery
(LogPolling), what a deployment does after it started (Deployment).

### EventIngress

One Lambda invocation is a record of the endpoint it waits for; one request of the
backend a record of its step: `setnx`, `expire`, the answer of `checkDuplicate`, and
`run` for the processing itself.  `Deliver` starts an invocation, `Post` is a
post to `/events/process` by whoever holds the key, as `test-eventbridge.sh` does,
of an event of any age (`late` counts those made when it was old), `Abort`
is the 30 s timeout, `FailsOpen` the catch of `checkDuplicate`, which takes an error
for "new" whether or not SETNX was executed.  There is no clock: an event grows old
(`GrowOld`, after MaximumEventAge), and its key, whose TTL is as long and started
later, expires after that.  A request still under way then can find no key; such
events, and those for which Redis threw, are `doubtful`, and the promise is about the
others: they are processed once, and once more at most for each late post, as nothing
in `/events/process` looks at an event's age.  What processing does is BuildTracking;
here it is counted.

### LogBuffer, LogWindow

`LogBuffer` is `CircularBuffer` slot by slot: `Push` writes at the pointer and wraps,
`ToArray` rotates at the pointer once the ring is full.  `addLogs` pushes in a loop
without awaiting, so `AddLogs` and one `PushLog` per log run to their end before
another call starts.  `LogWindow` says what readers may rely on: the last `Capacity`
logs since the last clear.  `ImplementsWindow` maps a missing buffer to the empty window
and a ring to `ToArray` of it.  The statistics getters read only.

### LogPolling

One execution.  A log is its position in the CloudWatch stream, a token the position
it stands behind; `saved` is the set of positions with rows, so a log stored twice
does not show.  `StartPolling`/`SetTimer` are the two halves of `startPolling`
around its lookup of the project; a `Guarded` poller is one a phase event starts after
asking `isPolling`.  `Tick` may fire while earlier polls are under way.  A poll is
`DelayEnds`, `Answer` (or `NotFound`, `PollFails`), `SaveLogs`, `Advance`,
`CheckStatus`.  The end of the execution is `EndStops`, `EndStores`, `EndFinalizes`
(stop the poller, store the status, finalize), then `EventRecovers`; the five-minute
cron is `CronRecovers`; a job `JobCounts`, `JobFetches`, `JobSaves`, or `JobFails`.
Assumed: a final status is set once (BuildTracking shows what happens to the row), a
page is nonempty unless it is at the end of the stream.  Left out: `stopAllPolling`,
which nothing calls, and the cron's conditions on `logStreamName` and the last 24 hours.

### Deployment

One pipeline whose image is built.  A call of `deployAfterBuild` is a record `deploy[d]`
with `pc`, the URL it uses and the row it holds; the AWS side is one variable per kind
of resource: `group` and `service` are named after the pipeline, `routes` and `dns`
after the URL, `rules` after the deployment.  `rows` keeps of a deployment its status,
its URL and whether it names a target group, which the final update writes together.

| Code | Model |
|---|---|
| `deployAfterBuild` | `Start` (reads `deployUrl`) → `Track` → `SetUrl` → `SetGroup` → `FindRoute`, `SetRoute` → `FindService`, `SetService` → `SetDns` → `SetRule`, `Load`, `Compare`, `Save` for ECS → the same for target health → `Load`, `Compare`, `Save` of the final update |
| an error in it | `Throws` (rejected for what others did, or a fault); the two tracking steps set FAILED first, with `Load`, `Compare`, `Save` of step `fail`; `RuleHalfMade` |
| `updateDeploymentToSuccess` | `TaskRuns`, `FindWaiting`, `FindDeploying`, `TaskLoad`, `TaskCompare`, `TaskSave`, `TaskFails` |
| `deletePipeline`, `cleanupPipelineResources` | `DeleteStart`, `CleanupEcsService`, `ListRules`, `CleanupAlbRule`, `AlbRulesEnd`, `CleanupTargetGroups`, `CleanupRoute53Records`, `CleanupEventBridgeRules`, `CleanupDeploymentRecords`, `RemovePipeline` or `RemoveFails` |
| a restart | `Restart` (external) |

`save` is a SELECT and an UPDATE here too (`Differing`, `Merged`); a save whose SELECT finds
no row inserts one, unless the pipeline is gone by then (foreign key), one whose row goes
after it writes nothing, and rows go with the pipeline (cascade).  `CleanupEcsService` may
leave the service where it is without an error: the code looks for it in one page of
`ListServices`, ten of the cluster all pipelines share.  Events about RUNNING tasks come any
time after ECS accepted a task definition, repeated and for any task.  ALB keeps a target
group a rule forwards to; ECS creates no service that is active and updates none that is
not.  Assumed: one deletion at a time, `OTTO_LAMBDA_ARN` is set, a call that throws had no
effect (but for `RuleHalfMade`), and two calls of `generateDeployUrl` give two URLs.  A
cleanup phase whose calls do not depend on each other is one action.  The load balancer and
the log group are shared or stay; an error of `ensureLogGroupExists` is one of
`findService`. Left out: the handlers of `DeploymentEventsService` and `completeDeployment`,
which no caller reaches, the health check, which only reads, and the last update of the
execution's log stream name.

### LogSubscription

`LogBuffer` with the gateway around it.  A handler is a record: the socket, the execution
and what it awaits.  `HandleSubscribe` is followed by `Refuse` or `JoinRoom` (access was
checked), `SendBuffered`, then `SendHistory` or `SubscribeFails`; `HandleUnsubscribe` by
its answer.  A poll is `SaveLogs` (the rows commit) and `AddSaved` with one `HandleNewLogs`
per log, each pushed into the ring and sent to the room; `RecoverLogs` stores rows no buffer
sees.  Logs are numbered in the order of their timestamps, so `seen` is a set, and a log
sent twice does not show.  `getExecutionLogs` sorts ascending and takes the first
`HistoryLimit` rows.  `hasty` records sockets that ask again about an execution before they
were answered: a subscribe and an unsubscribe of one socket may overtake each other, and
nothing is promised then.  Assumed: `NODE_ENV` is not "development" in the run (it only
widens who may connect).  Left out: the status and result lines that are broadcast and
neither stored nor buffered.

### Deployment across pipelines: Infrastructure

`aws` is the account: the security group ("bare" before its rules are authorized), cluster,
hosted zones with records, the one balancer (with whose groups) and listener, and per
pipeline a target group, a rule with its priority, a log group and a service.  `cache` is
`cachedConfig`.  `deploy[p]` is where the deployment or clean-up of a pipeline is: every AWS
call is a step.

| Code | Model |
|---|---|
| `getOrCreateInfrastructure`, from six callers | `Ask` (the cache), `DiscoverNetwork`, `FindGroup`, `CreateGroup`, `Authorize`, `FindCluster`, `CreateCluster`, `DiscoverZones`; `DiscoveryFails` with what each caller makes of it (`FallBack`) |
| `setupApplicationLoadBalancer` | `FindBalancer`, `DescribeListeners`, `CreateLoadBalancer`, `CreateListener` |
| `setupTargetGroup`, `setupAlbRouting` | `ListTargetGroups`, `CreateTargetGroup`, `FindRulesByHostHeader`, `ModifyRule`, `CreateListenerRule` |
| `ensureLogGroupExists`, `setupEcsService` | `EnsureLogGroupExists`, `RegisterTaskDefinition`, `DescribeServices`, `UpdateService`, `CreateService` |
| `setupRoute53Record` | `FindHostedZone`, `CreateHostedZone`, `CreateRecord` |
| `cleanupPipelineResources` | `CleanUp`, `DeleteService`, `DeleteRule`, `DeleteTargetGroup`, `DeleteRecord` |
| an error, a restart | `Throws`, `Restart` |

Whether the hosted zone is there beforehand (`manual`) and whether the hard-coded network
ids belong to this account (`known`) is free.  Recorded for the properties only: whether a
deployment was ever beside another (`alone`), the faults before it (`since`), why it failed.
Assumed: one deployment of a pipeline at a time (Deployment has them overlap), a call that
throws had no effect, a pipeline keeps its URL.  `DeleteService` may miss the service (one
page of `ListServices`).  Left out: the wrapper methods that neither a deployment nor a
clean-up calls.

### Sessions

A request is a record: its kind, the token it was sent with, the one it issued, whether its
token was used up before it was sent.  Each statement of `loginByRefresh`, `logout` and
`createOrUpdateGithubUser` is a step (`FindToken`, `Revoke`, `Issue`, `Clean`, ...), and so
is the answer that sets or clears the cookie.  `jar[b]` is the cookie of a browser, which its
overlapping requests share.  `Fails` is a failing statement (a logout swallows it), `LoseAnswer`
the network.  Time is `Expire`, `Age` (an hour after a revocation, longer than any request
lasts) and `DropCookie`.  Assumed: tokens are 64 random bytes and never repeat; a browser
stays signed in to one GitHub account.  Left out: access tokens, which are signed and not
stored.

### Installations, Provisioning

`onGithub` is GitHub's view, `mail` the webhooks on their way, `apps` the `GithubApp` rows
with their users.  A webhook is `Receive`d in any order or lost; its handler is `FindApp`,
`FindUser`, `SelectApp`, `InsertApp`/`UpdateApp` (the two halves of TypeORM's `save`), or
`UnlinkProjects` and `DeleteApp`.  `update({installationId}, {installationId: undefined})`
sets nothing, so `UnlinkProjects` unlinks nothing and `DeleteApp` meets the foreign key.
`why` names, per installation, what excuses a row that disagrees with GitHub.

`Provisioning` adds `row`, `res` (the AWS resources of each project) and requests.  A
creation is `Create`, `CreateRepository`, `CreateLogGroup`, `CreateBuildProject`, `PutRule`,
`PutTargets`, `AddPermission`, and inserts its row last (`SaveProject`); `CreationFails`
ends it with what it has made, because `CodeBuildService.createProject` throws before
`createdResources` has been filled, `PermissionFails` removes the rule first, `SaveRefused`
and `SaveFails` roll back.  The rollback, `deleteProject` and the clean-up of a rule share
the `Remove...`/`Delete...` steps; the rollback runs its three deletions at once,
`deleteProject` one after the other, and `RemovalFails` is any of them failing,
caught.  `Update` and `SaveUpdate` are the two halves of `updateProject`; a row deleted in
between is inserted again.  `TargetNotPut` is `PutTargets` answering that it has not put the
target, which nobody looks at.  `upset` names, per project, what went wrong: a failing
creation ("make"), a failing deletion or a crash ("undo"), the database ("db"), a target not
put ("target").  Left out: `getUserProjects` and the other queries, push webhooks (logged
only), the repository queries of `GithubAppService`.

### Buildspec

The first half are operators: `PreBuild`, `Build` and `PostBuild` turn a flow into records
of commands, one operator per node type, in the code's order (`Tests` is inserted at index 2
of `post_build`).  A command says what it does, with which package manager, in which
directory, and of which node it is.  The Dockerfile generated (`DockerfileScript`) installs
production dependencies only and runs a build script if the flow has a build node, whatever
that node does (`RunsScript`).  `packages`, `dockerfiles` and `scripts` are the repository:
which directories hold a `package.json`, a Dockerfile of their own, a build script that runs
on what that Dockerfile has installed.  The second half is the shell of CodeBuild (external):
one shell for all commands, so a `cd` lasts; a failing command ends its phase; `build` is
skipped after a failed `pre_build`, `post_build` is not after a failed `build`.  `Works` says
what a command needs (`ImageBuilds` what `docker build` does), `FailCommand` also lets it
fail by itself.  Left out: the text of commands, quoting, and the environment's values.  A
node of the block `os_package` with another manager than apt, apt-get and yum gives no
command at all, in the code as in `OSPackage`; `Asks` leaves it out.

### Release

`Release` is what the rest of the system may rely on of the tracking: of one build, the status
CodeBuild reports and the number of deployments started, which grows only when the build
has SUCCEEDED, once at most while Redis answers (`Once`).  `BuildTracking` has the
rows, copies, handlers, checks and restarts behind it and implements it for each build
(`OfBuild`, with `ReleasesBuilds` as the property).

## 4. Runs

| Run | Question | Result |
|---|---|---|
| `events` | one build, two handlers, each event up to twice, status patches, one failing call | the tracking implements `Release`: deployed at most once and only on success |
| `agreement` | a handler against the stale check, restart, failing call, under fairness | no row invents an outcome, every row ends with CodeBuild's |
| `pipelines` | two overlapping builds of two pipelines that are edited and deployed meanwhile | a build nobody disturbed deploys its own image to its own pipeline |
| `ingress_once` | three deliveries or posts, two invocations, two requests, a crash, Redis errors, expiring keys | processed at most once, and once more per post made late; keys go away |
| `ingress_reported` | was what the forwarder reports as processed processed? | no: see Findings |
| `log_polling` | overlapping polls, recovery, two failing calls, a restart, under fairness | nothing skipped, recovery complete, polling stops, successful executions get logs |
| `subscription` | a socket that connects, subscribes, unsubscribes, disconnects with two handlers under way, while logs are stored, added and recovered; a restart | the ring is the window; a subscriber lacks only what is old in both sources; answers are true |
| `deployment` | two deployments, a task event, a deletion the second may overlap, one fault or restart | what rows show is reachable, SUCCESS is of what ECS accepted, an undisturbed deletion leaves no event rule |
| `account` | two pipelines deploy, deploy again and clean up in one account, with a fault or restart | a deployment that ends well is served; one left alone ends well but for two named cases; no bare group, no record left without a fault |
| `projects` | creations, updates, deletions and webhooks, three in all, with failing calls, a target not put and crashes at any step | live projects are whole but for that target, nothing is torn, rows agree with GitHub unless for a named reason |
| `sessions` | two browsers of one person, two requests at once, a failing statement or lost answer, expiry and clean-up | no dead cookies, one `User` row, a spent token buys nothing |
| `flows` | every flow of up to three of eleven nodes, with and without a `package.json`, a Dockerfile and a script that runs in two directories, one failing command | what is pushed was tested, what is told is true, plain flows push wherever the image builds, no node is lost |

**Bounds.**  `MaxDeliveries` 2 is a repeated delivery (EventBridge's MaximumRetryAttempts of
2 allows three, which `ingress_once` uses); two handlers are what a race needs.  One restart
and one or two failing calls, because each is handled by itself and no counter but the
retries of LogPolling survives it.  `AutoIds` of one row gives a build its two rows.  One
check at a time suffices for stale copies, as it holds its entities across all
calls.  `pipelines` has two builds of two pipelines: one to be undisturbed, one to disturb
it, and edits of both; one handler, because what it deploys is decided by the pipelines, and
`events` has the handlers race.  `MaxRetries` and `MaxAttempts` are 2 instead of 5 and 10:
the run reaches both limits.  `ingress_once` has one event, since no step relates two.  In
`log_polling` the only poller starts on its own (see Known gaps for two guarded ones).  In
`deployment` two calls race for the URL, the rule, the service and the row an event takes;
the second only may overlap the deletion (`Overlapping`), which is enough for the deletion
to meet a deployment in every state, and the fault may hit any step. `subscription`: a ring
of two wraps with batches of two at every offset, four logs fill it twice, a history of one
row is exceeded, two handlers make a socket hasty.  `account`: two pipelines, as only the
shared resources relate them; two priorities collide, two zones are what two creations make;
with two faults instead of one (9.1 million states) it passes too. `projects`: one project
and one installation, as no step relates two of either; `MaxWork` 3 bounds requests and
webhooks together, so that three requests, or two and an installation's webhook, or three
webhooks about one installation overlap in every way. `sessions`: three tokens are two
rotations.  `flows`: three nodes give every pair of groups with one more between them; the
nodes cover every group, a directory, a script, an output directory and a manager of their
own.

**Deadlock.**  Every cfg says `CHECK_DEADLOCK FALSE`, because in each run the system may
really stop: the builds have ended, the events are old, every project id and token that
there is to give out has been used, the bound on logs is reached.  What must not stop is
stated as liveness (`RowsEventuallyAgree`, `KeysExpire`, `PollingStops`, `SuccessHasLogs`).

**Symmetry** is used only in runs without liveness, over sets whose members the models
never tell apart: handlers, pipelines, tokens, requests.

**Fairness.**  Weak fairness of every continuation: Node runs it once its promise has
settled, and the clients of Postgres, Redis and AWS answer or reject.  Strong
fairness of the cron finding a given row and of the recovery cron: they run every
minute and every five, but the condition they look for may come and go.  Weak
fairness of `BuildEnds` (CodeBuild enforces timeoutInMinutes), of the timers, of
`GrowOld`/`KeyExpires` (time passes), and of `CreateStream` (a build that logs has a
stream; one that never appears is polled for ever, which is listed as a hazard).  No
fairness of event delivery, clients, faults or restarts.  The modules without liveness
properties assume none.

### Findings

`ingress_reported`: the forwarder's own check marks the event, so its post is skipped as
a duplicate and reported as processed (`lambda/index.ts:25` and `:54`).

### Known gaps

Where the code does not do what one would expect of it, and no text of the repository
disagrees or the run had to give way.  Each is stated by a definition in its module, or can be
seen with the change named here.

- `BuiltPipelineIsDeployed` (BuildTracking): `triggerDeploymentAfterBuild` reads the metadata
  of the entity loaded before the same handler merged the OTTO_* variables, and falls back to
  the project's pipeline updated last (`logs/eventbridge.service.ts:1056`).
- `DeployedImageIsBuilt` (BuildTracking): `pipeline.ecrImageUri` is taken as proof that the
  build succeeded but is written when a build starts (`pipeline.service.ts:290`, `:335`).
  `UndisturbedDeploysItself` is what is left of both: a build deploys itself if no other
  request, edit or deployment had its pipeline in hand while it was on its way, nor, when its
  row lacked the variables, any other pipeline.
- `completedAt`: `save` writes the columns in which the copy differed from the row when it
  looked.  The cron holds (running, null), a late IN_PROGRESS event has turned a finished row into
  (running, t0),
  the cron's save finds only `completedAt` to differ, a final save stores (success, t1), and the
  cron's UPDATE then sets `completedAt` to null (`logs.service.ts:232`, `:514`).  The row stays
  (success, null), as the heartbeat looks at running rows only.  The column is therefore left
  out of BuildTracking, and nothing is claimed of it.
- `RowsEventuallyAgree` with "FAULT" among `Outcomes`: neither the status map nor the cron
  knows this outcome (`logs.service.ts:519`), and the row runs for ever.
- The poller that `startBuild` leaves to the IN_PROGRESS event is not started by it
  (`codebuild.service.ts:391`): an event that finds the row by its build id updates it and does
  not start a poller either; the next phase event does.
- `PollingStops` with two guarded pollers (`Pollers` and `Guarded` both `{p1, p2}`): two
  `startPolling` calls overtake each other at the project lookup; the map keeps one timer and
  the other fires for ever (`cloudwatch.service.ts:198`).  The polls of the first three
  seconds all read from the head and store the same logs again, and nothing calls
  `clearExecutionBuffer`, so a ring stays for each execution until a restart.
- `CleanedUp` (Deployment): the handler of a RUNNING task loads the row before the final
  update of `deployAfterBuild` and saves it after it (`deployment-tracker.service.ts:153`);
  the row's URL and target group are null again, and the deletion, which looks for them
  there, leaves the ALB rule, the DNS record and the target group.  And a service beyond the
  first ten of the cluster is not found and left running (`pipeline-cleanup.service.ts:93`,
  `:302`; `CleanupEcsService`, and `DeleteService` in Infrastructure).
- Infrastructure: a fault between `createLoadBalancer` and `createListener` leaves a balancer
  that every later deployment refuses (the second case of `LonersSucceed`); one between
  `createSecurityGroup` and its rules a group that is adopted without them (`GroupIsOpened`
  allows it after a fault); a priority is drawn at random and one in use fails the deployment;
  and after a first deployment the cache may say `MANUAL_SETUP_REQUIRED` although
  `setupRoute53Record` has made the zone, so a clean-up leaves the record
  (`ZoneSetUpIsCleaned` without `manual`).
- `FailedCreationLeavesNothing` (Provisioning): `createdResources` is filled only when
  `CodeBuildService.createProject` returns, so a failure in one of its calls rolls back
  nothing.  And `SaveUpdate` after `DeleteRow` brings a deleted project back without its
  resources (`project.service.ts:228`).  `PutTargets` may answer `FailedEntryCount` > 0: the
  project then has a rule without a target, and no event of its builds arrives
  (`codebuild/eventbridge.service.ts:86`; `LiveProjectsAreWhole` without `Lost`).
- `UninstalledIsForgotten` (Installations): projects are not unlinked and the foreign key keeps
  the row.
- `GraceHonoured` (Sessions): `auth.service` calls its rotation one "with grace period"; of two
  refreshes with one token the one that looks second gets 401.
- Buildspec: the `cd` of a node with a working directory lasts into the commands after it, so a
  relative directory of the next node, or `docker build`, is looked for in the wrong place; a
  second package manager is not installed; a clean install, webpack or vite with an unknown
  manager gives a command no shell parses.  `Plain` excludes these.  The Dockerfile generated
  runs `<manager> run build` after an install of production dependencies whenever the flow has
  a build node, also for one that runs no script itself (`dockerfile-generator.ts:44`,
  `buildspec-generator.service.ts:612`): without such a script, or one that needs development
  dependencies, the flow never gets past `docker build`.  `PlainFlowsPush` asks for
  `ImageBuilds`.
- EventIngress: `/events/process` takes an event of any age, so one posted again after its key
  has expired is processed again (`eventbridge.controller.ts:54`).

## 5. Proofs

All theorems hold for every value of the constants that satisfies the `ASSUME`s of the
module: distinct ids, bounds in `Nat`, `None` outside the sets it is added to.

- **`Builds_proofs`, the tracking of builds.**  `StatusIsReported` is not inductive: a
  handler that holds a stale copy could save anything.  `IInv` therefore says of every copy,
  pending status and row that it is about one build and does not contradict what CodeBuild
  reported about it (`RowsOK`, `RequestOK`, `CheckOK`); a row made of columns of a copy and
  of a row that are both sound is sound (`MergedOK`), so it does not matter which saves
  overlap.  This is stable because an outcome never changes and a row never changes its build
  (`AwsGrows`, `RowsStay`).  From it: `TypeCorrect`, `OnlySuccessDeployed`, and
  `StatusReported`, which assumes that no client patches statuses (a patch may write
  anything). `DeployedOnce` assumes `RedisReliable` and adds an invariant that the triggers
  of a build and the handlers on their way to one come from a single marked event.
  `Releases` is the refinement of `Release`: `OthersRelease` says that only the start of a
  build, its end and a trigger touch what is reported and deployed, and `StepReleases` finds
  the step of `Release` from `IInv` and that invariant after the step, so
  `AtMostOneDeployment` and `OnlySuccessIsDeployed` are what it comes to and need no run of
  their own. `UndisturbedDeployItself` rests on `BesideInv`: while nobody else has taken a
  build's pipeline in hand, the pipeline's image is the one of that build from the moment
  its request has stored it (`OwnImage`), and whoever has the pipeline in hand is recorded
  beside it (`HandsBeside`), whether an edit, a second build or a deployment about to store
  its URL; for the fallback the same holds of the pipeline updated last.
- **`Builds_proofs`, the commands of a build.**  A flow has any length, so every fact about
  `Of` and `Group` needs induction, and the library's induction theorems take an operator
  the provers cannot instantiate.  `Inductive` states it of sets instead: a set with 0 and
  every successor holds all of `Nat`, because its complement would have a least element
  (`Least`, from the library's `WFMin`).  With it `FlattenPlaced` says where each sequence
  lies in a flattened one, and `GroupPlaced` and `GroupTurns` what a group's commands are
  and in which order.  The facts about each phase (`PreBuildFacts`, `BuildFacts`,
  `PostBuildFacts`) then need no induction, and the invariant `ShellInv` says what of them
  has been run: the commands of the phase under way up to `at` (`Current`), all of the
  earlier phases unless one failed (`Through`), and that flows of plain nodes stay in the
  root and do not fail where the image builds (`StaysPlain`). `PushedIsTested` is inductive
  with `Current`: before the push in `post_build` stand the tests, and what stands before
  `at` has run.  For `NoNodeIsLost` the places of a group's commands in its phase and of the
  phase in `done` are added up (`GroupRan`).
- **`EventIngress_proofs`.**  `ProcessedAtMostOnce`: whoever was told that an event is
  new and has not acted on it is alone, while its key keeps others out; after it acted
  the key stays until the event is old and nothing is under way (`EventOK`), so that each
  further processing has a late post of its own.  A crash
  only removes claims; an error of Redis or a key that expires under a request makes
  the event doubtful.
- **`LogSubscription_proofs`.**  `RingIsWindow` is the refinement: the invariant is that a
  ring that is not full lies unrotated and shows only written slots (`RingOK`); `Push` on an
  ordered ring appends and, if full, drops the oldest.  `RecentLogs` follows.  The gateway's
  steps are those of the ring or leave it alone (`SubscriptionWindow`).  `SubscribersCaughtUp`
  and `AnswersAreTrue` rest on `Patient`: a socket that waits for its answers has one handler
  about an execution, which is in the room once past `JoinRoom` and has sent what the ring
  shows once past `SendBuffered`; from then on whatever enters the ring goes to the room in
  the same step, and rows stored later come behind those of the history (`PairKept`).
- **`LogPolling_proofs`.**  `NoLogSkipped` and `RecoveryComplete`: whatever an activity
  has read up to is stored (`PollOK`, `JobOK`), and stored logs stay, so a late poll can
  move a token back but never past an unstored log.
- **`Deployment_proofs`.**  `SuccessServed`: every row past PENDING, every call past
  `SetService` and every handler that has chosen its row is about a deployment ECS
  accepted (`ServedOK`).  `ShownReachable`: until a deletion starts resources only grow,
  so it suffices that a call past a step has what the step made (`Created`) and that
  neither a row nor a copy in anyone's memory names more (`ReachOK`): a stale copy shows
  less, never more.  `RulesEnd`: while nothing failed, every rule's deployment has a row;
  without overlap, nothing is under way beside the deletion and what it has passed is
  gone (`CleanOK`).  `TypeCorrect` needs that a call at `save` holds a row and one past
  `SetUrl` a URL (`Loaded`).
- **`Infrastructure_proofs`.**  `StepKeeps` says once what a step of one pipeline does to its
  own part of the account and what it leaves alone of the others'; each theorem then needs
  only what the taking pipeline's calls promise.  `DoneServed`: shared resources only grow,
  and a pipeline past a call has what the call made (`Progress`), a cleaned one may lack it.
  `GroupOpened`: without a fault, whoever made the bare group stands before `Authorize`.
  `ZoneCleaned`: a zone set up by hand is the only one and is what every discovery finds, so
  records are in it and the cache names it.  `LonersEndWell` is about a deployment that meets
  neither fault nor other: what it found or made is still there when it comes to use it
  (`Found`), and of the reasons to fail only the two named are left.
- **`Sessions_proofs`.**  Tokens are handed out one by one and are known to one browser only
  (`Held`, `Apart`), so only its own requests use up the token in its jar.  `CookiesHold`: each
  request that does so still owes its browser an answer, a new token or none, unless it failed
  (`Hope`).  `LateFail`: a token used up stays so, and a late request goes no further than its
  look at it (`Lateness`).  `OneUserEach`: an account has a row as soon as a request of it is
  past finding it, and the unique key keeps a second out (`OneUser`).
- **`Provisioning_proofs`.**  A creation is alone with its project (`Owned`) and has made
  exactly the resources of the steps before its own (`Stocked`); what a rollback or deletion
  whose calls all succeed may still find is `Left`.  Every step of a request has one of six
  effects on its project and none on others (`Effect`), so the invariant is shown once for
  each effect.  `LiveWhole`: only rollbacks and deletions take from a project, and a project
  under one was asked to be deleted, has no row, or met a database error (`Known`).  `Torn`
  follows from `Sound`, which says of a project that nothing upset what it has while a request
  serves it.  `Agrees`, about the rows of installations, needs that "deleted" is the last
  webhook of its installation (`LastIsDeleted`) and so, unless it overtook one, meets no other
  handler (`Settled`).

Only model-checked: everything under fairness (`RowsEventuallyAgree`,
`KeysExpire`, `PollingStops`, `SuccessHasLogs`), as TLAPS does not reason about `ENABLED`;
and the violation.

## 6. Not modelled

- The handlers of `DeploymentEventsService` with `completeDeployment`: no caller reaches them
  (`logs/eventbridge.service.ts:393`, `:484` and `:610` are TODOs).  `registerExecution` and the
  test endpoints.  The health check, which only reads.
- The methods of the AWS wrappers that nobody calls, and `aws-ecr.service.ts`.
- Controllers, DTOs, the generated SDK, seeders, the debug endpoints and bootstrap: request
  plumbing and generated code with no state of their own.
- Queries that only read, the wording of messages, URLs and log lines, signatures of tokens and
  webhooks.
- Real time: a timeout may strike whenever what it limits is under way.
