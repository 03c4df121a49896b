# WhatsNewDock in TLA+

WhatsNewDock watches containers on one or more hosts, tells their user which
of them have a newer image, and updates a container on request.  This
directory holds TLA+ specifications of the parts where that can go wrong, the
configurations with which TLC checks them on small instances, and proofs that
TLAPS checks for every instance.

    tlc -workers 4 -config RecreateOne.cfg MCRecreate.tla     one run
    for p in *Proofs.tla; do tlapm $p; done                   the proofs

`PROJECT.json` lists the runs, what each definition translates (`map`), the
faulty variants that each property must catch (`mutants`), the hazards of the
code and where the code and its documents disagree (`findings`).

## 1. The system

One process, the controller (`cmd/whatsnewdock`, mode `server`), keeps an
SQLite database and serves a web interface.  Hosts come in three kinds: the
*local* one and *direct* ones, whose Docker Engine API the controller calls
itself, and hosts with an *agent* (the same binary, mode `agent`), which calls
the controller.  Everything runs in goroutines that share the database (one
connection), a few structures in memory behind a mutex, and the engines.

| component | state | operations | talks to |
|---|---|---|---|
| container update, `dockerx/recreate.go` | none of its own: the engine's containers | inspect, pull, stop, rename, create, start, remove, restore | Docker Engine |
| systemd respawn, `dockerx/respawn.go`, `recreate.go` | the container stopped, a deadline | stop, poll by name, look at the image | Podman; the unit acts by itself |
| swarm rollout, `dockerx/swarm.go` | version and spec it inspected, a deadline | ServiceUpdate, poll, roll back | the orchestrator |
| swarm readiness, `dockerx/swarm.go`, `server/api_handlers.go` | one kept answer per host, the row's role and flag | probe, keep, expire, refuse an update | snapshots, reports |
| self-update run, `server/selfupdate_run.go`, `dockerx/selfupdate.go` | the tracker's run and its rows; a helper container per process replaced | plan, queue commands, wait, launch the helper | agents by the queue, engines |
| agent and queue, `agent/agent.go`, `server/agent_handlers.go`, `store/extra.go`, `server/update_jobs.go` | commands in the database, jobs in memory, the agent's batch | report, poll, execute, post; crash, lost answer | controller and engine |
| update check, `updater/updater.go`, `server/server.go` | check tracker, caches, updates in the database | list, drop, fetch, decide, store | release sources, registry |
| server inventory, `store/entities.go`, `server/server.go`, `server/api_handlers.go` | rows of servers, stacks, containers; pins | snapshots, reports, create, edit, rename, delete, mark offline | every other part reads it |
| endpoint pool, `server/endpoints.go` | a client per direct endpoint | get, forget | snapshots, updates |
| process, `cmd/whatsnewdock/main.go`, `server/server.go` | none that it keeps | open, bootstrap, run, stop | every other part |
| migrations, `store/store.go` | the schema, the versions recorded in it | create tables, migrate at the start | the database file |
| release sources, `changelog/*` | the pages read so far, a pull token | read page by page, parse, stop early | HTTP |
| self-update checker, `selfupdate/selfupdate.go` | last result | compare versions, retag | HTTP |
| authentication, `server/auth`, `auth_settings.go`, `middleware.go`, `ratelimit.go` | signing secret, OIDC provider, attempts | issue, validate, invalidate, limit | browser, provider |
| settings and users, `server/settings_handlers.go` | settings and users in the database, copies in memory | load, save | updater, checker, auth |
| configuration, references, routes, protocol | none | parse | - |
| web interface, `web/src` | what it last fetched | poll jobs and runs | API |

What is hard here:

- *Concurrency.*  An update is a goroutine per request, with nothing that
  refuses a second one for the same container, service or agent; snapshots of
  an endpoint overlap; checks share a cache; rows are replaced underneath
  everyone who listed them.
- *Failure in the middle.*  An update is a sequence of calls to an engine that
  may refuse any of them, or carry one out and lose the answer.  The undo is
  more such calls, and the process that makes them may end between any two.
  So may a start, between two statements of the schema.
- *Somebody else's machine.*  systemd and the swarm orchestrator act by
  themselves, and the code sees them through polls.
- *Lost and repeated messages.*  A command is executed until an answer to it is
  recorded; an agent that updates itself is killed by its own success, and so
  is the controller, which leaves the swap to a helper container.
- *A list that moves.*  Releases are read page by page by number, while
  upstream publishes, withdraws and pushes again.
- *Time.*  Every wait has a deadline, and what comes after it still comes.

## 2. The modules

An arrow reads "is checked or used by"; the engine, the unit, the orchestrator
and the operator are part of the module they surround, and external.

    UpdateContract <- Recreate     <- MCRecreate, SelfSwap
                      SelfSwap     <- MCSelfSwap, RecreateProofs
    Respawn                        <- MCRespawn, RespawnProofs
    ServiceRollout                 <- MCServiceRollout, SwarmProofs
    SwarmReadiness                 <- MCSwarmReadiness, SwarmProofs
    SelfUpdateRun                  <- MCSelfUpdateRun, SelfUpdateProofs
    AgentQueue                     <- MCAgentQueue, ControllerProofs
    UpdateCheck                    <- MCUpdateCheck, ControllerProofs
    UpdateDecision                 <- MCUpdateDecision, ReleaseProofs
    ReleaseList                    <- MCReleaseList, ReleaseProofs
    Inventory                      <- MCInventory, InventoryProofs
    Settings                       <- MCSettings, Lifetime
    Settings, Startup  <- Lifetime <- MCLifetime, LifetimeProofs

A proofs module extends everything it proves about, so two models that share
one have names of their own for what every model has: `QueueSpec`,
`ReadinessSpec` and `ListSpec` beside the `Spec` of UpdateCheck, of
ServiceRollout and of UpdateDecision.

`recreateContainer` dispatches on the labels of the container: Recreate is the
flow without an owner, Respawn the one with a systemd unit, ServiceRollout the
one with a service.  AgentQueue has what the first leaves on the host: a
replaced container, with a new id, or one that was stopped halfway.
SelfUpdateRun takes the helper's replacement of a process as one step for the
same reason; SelfSwap takes that step apart, with the calls of Recreate.
UpdateCheck has releases as numbers and UpdateDecision the tags and builds they
stand for; ReleaseList is the request that both take as one step.

Each model has a definition per call, handler or turn of a loop, named after
the code.  Definitions named `X_Something` next to an `X` are faulty variants
of it: never used, except as mutants.

### Recreate (dockerx/recreate.go, recreateDirect)

The engine is `alive`, `running`, `name`, `image` and `next`, the id it gives
out next.  A job is a run of `recreateContainer`; `pc` names the call it makes
next and `insp` is what its inspection returned, which is all it ever knows.
Every call is one action (`Inspect`, `Pull`, `Stop`, `Rename`, `Create`,
`Start`, `Remove`; `Cleanup`, `RestoreName`, `RestoreStart` for the undo), and
`Answers` says how the engine may answer it: "ok", "refused", or "lost", an
error although the call took effect.  Stopping a container created with `--rm`
deletes it.  `Toggle` is the user between two updates.  The process may end
before any of the calls in `CrashAt` (`Crash`): nothing is persisted, so the job
is at rest again and whatever it had done stays.  `RecreateOne` lets it end
before the stop and before the removal, where the contract still holds;
`SelfSwap` anywhere.

`UpdateContract` is what the user is promised: a workload is replaced in one
step or not touched.  Recreate implements it under the refinement mapping
`Workloads`/`Phase`: between its stop and the start of the replacement an
update is invisible to the contract.

Assumed: containers do not exit by themselves during an update; ids are not
used twice; the configuration copied from the inspection is accepted or not,
as a whole.

### SelfSwap (dockerx/selfupdate.go)

How the app replaces itself.  The containers of Recreate are the app's own, and
a job is driven by processes in them: `Prepare`, `Clear`, `CreateHelper` and
`StartHelper` run in the process that was asked, the calls of Recreate
(`Swap`) in the helper.  A process lives as long as its container runs; a stop
takes a while (`TellStop`, `Exit`), in which the process goes on; whoever dies
leaves its job where it is (`Die`).  The helper's name is taken once, so a
second launch removes the first helper, at its work or not.  The app's own row
can be updated like any other (`UpdateOwnRow`): the process that runs that update
is the one it stops.  `cutShort` says that a swap was ended in its middle in one
of these two ways; nothing takes it up again.  A replacement has the hostname of
the original, which is what it takes for its own id (`SelfContainerID`).

### Respawn (dockerx/recreate.go recreateSystemdManaged, respawn.go)

The unit (`Starts`, `Exits`, `TearsDown`) removes a container that exited and,
as its policy says, starts another one of the same name on what its `Image=`
resolves to.  It may act at any moment, before the job's stop too.  The job
polls for a running container of that exact name with another id
(`PollSeeing`), until `late`, and then compares images (`Verify`).  A second
container whose name contains the first one's is always there.

### ServiceRollout (dockerx/swarm.go updateService, rollbackService)

The orchestrator holds the service's spec, the previous one, a status and the
tasks, and replaces tasks one by one.  Versions are abstracted to `stale`, the
jobs whose version is out of date; every change of the service, by anybody,
makes the versions read before it stale.  What a rollout does about a task
that fails (its failure action) is chosen at the start.  An update asks for a
tag; the client stores it with the digest the tag stands for (`pushed`, which
`Push` moves), or alone when the registry does not answer, and only in the
latter case is the same tag the same string later (`Same`).  `Classify` is
`classifyServiceConvergence`, `Poll` one turn of the loop, `Reinspect` and
`Rollback` the undo.  The moment in which a task is replaced is not modelled.

### SwarmReadiness (dockerx/swarm.go probeServices, server/api_handlers.go)

`cap` is the kept answer, `row` what the database says, `Look`, `Probe`,
`Keep` and `Store` the steps of a snapshot, `Lapse` the five minutes, `Admits`
the part of `updateBlockedReason` about services.

### SelfUpdateRun (server/selfupdate_run.go, dockerx/selfupdate.go, agent/agent.go)

A run is planned from the servers, queues a command per agent, waits in passes
over the rows (`List`, `Visit`, `EndPass`), gives up at its deadline and then
replaces the controller or fails (`Decide`).  `updateAgent` writes to the
tracker's run, whichever run calls it; `current` is that run.  An agent
reports, polls, executes (`Execute`, `ClearHelper`, `LaunchHelper`) and posts;
its helper tells it to stop (`HelperStop`) and replaces it (`HelperReplace`).
A replaced agent has its predecessor's hostname and no longer knows its own
container (`known`).  The batch an agent fetched is a set, executed in the
order in which the commands were queued (`First`).  Listing the servers may return nothing, on which the
code relies as on an empty plan.

### AgentQueue (agent/agent.go, server/agent_handlers.go, store/extra.go)

Commands, jobs and the rows of the containers on the controller's side; the
batch fetched and the answer about to be posted on the agent's.  The batch is
a set, executed in the order of the queue (`First`).  An update of the host's
containers is one step here: `Replace`, whose last call, the removal of the
original, may fail without failing the update (`left` remembers it), or
`Halfway`, what an error or a crash before that leaves.  A container that was
left is stopped and goes by another name, but it is still there under its id:
reports list it, and a command that names it, the same one executed again
included, replaces it again, so that a second copy of the workload runs.  `Lose`
and `Crash` are bounded by `MaxLosses`: the network is bad for a while.

### UpdateCheck (updater/updater.go CheckAll, server/server.go)

`Begin`/`Finish` are the check tracker, `List`, `Drop`, `Fetch`, `Apply` the
two passes of `CheckAll` with the second working on what the first listed;
users pin and ignore, rows come and go, upstream publishes, the process
restarts.  A request to pin is two statements, and several may be under way for
one row (`deleting` counts them); the deletion of an update may be refused, an
error that both its callers ignore (`Kept`; `refused` remembers the row).  What
counts as newer is a comparison of numbers here; UpdateDecision has what the
code compares.

### UpdateDecision (updater/updater.go computeUpdate, selfupdate/selfupdate.go)

A tag is a record of what the code takes it apart into (`lead`, `nums`,
`suffix`), an image's content a build number, and `content` says what version
is in a build.  Upstream publishes, pushes and rebuilds; `Check` makes an offer
from the release list and the manifest, either of which may fail; `Accept` is
the operator.  `ForVersion`, `ForName`, `RegistryFallback` and `CheckSelf` are
the branches of the code.  What upstream calls its releases and their images is
a `naming`: which tags it uses, and whether the images lack the v of their
release's tag (`ImageOf`); the code asks for the image under the release's tag,
whether there is one or not.  `Text` is the order in which selfupdate.go
compares suffixes, as texts, where rc.10 is below rc.9; the container's side
orders them as semver does.  Build 0 is one of a branch or a developer's: no
registry knows it and its version has no order.
`BehindOf`, the releases a pin is behind of, is the
reference definition `OffersTheNewest` compares them with; it is written from
the comment at updater.go:150-154 and shares only the parsing with the code.

### ReleaseList (changelog/github.go, gitlab.go, gitea.go, registry.go)

One `FetchReleases`.  Upstream's list is the place of each release in it;
`Enter`, `Show`, `Withdraw` and `PushAgain` move releases between the
requests.  `Read` is a page, and `Last` what the forges, Docker Hub and a
registry take for the last one; `NotFound`, `Unauthorized`, `Challenge`,
`FetchToken` and `Fail` are the answers that end the listing, with a part of
it or an error.  `Kind` chooses the source, `Size` and `Pages` are its paging.
`kept` is a history variable: the releases that nothing has moved forward in
the list since the listing began.

### Inventory (store/entities.go, server/server.go, server/endpoints.go)

`row` is the servers table with the containers of each row.  A refresh is
`Get` (a client from the pool), `Take` (the snapshot) and `Save`; the pass of
the snapshot loop, the goroutine an edit starts and the agents' reports all end
in the same upsert (`Upsert`), while operators create, edit, pin and delete.
What a snapshot or a report has may be less than what the host runs, as a
container that cannot be inspected is skipped (dockerx.go:106-110); `missed`
remembers which, and each such snapshot is one of the `changes`.  A row's
`chosen` is the flag the code keeps (`NameCustom`): the name an operator types
at creation sets it for an endpoint, and not for an agent, whose first report
replaces that name (section 4).
`late` is a history flag: the row was refreshed or pointed elsewhere since this
copy of it was read.  The handler of an edit is three steps, between which the
others move.  Assumed: the reports of one agent do not overlap, as its loop
sends one after the other.

### Settings (server/settings_handlers.go, auth_settings.go, auth/auth.go)

A setting is in the configuration, live, and in the table; `Apply` sets one
field, `Read` and `Write` store one, `Load` is what a start makes of the table.
A change of the OIDC settings is `Build`, `ApplyAuth` (field by field, without
a lock), `Invalidate` and `SaveAuth`; a login is `Ensure`, which takes the
manager's lock, `Discovered`, which gives it back, and `Use` without it.
`unsaved` is a history variable: the fields some request has set and none has
answered for.

### Startup and Lifetime (store/store.go, server/server.go New and Run, main.go)

`Startup` is a process from its start to its end: the schema table by table
(`CreateTable`, committed one by one), the migrations in the order of the code
(5 before 4), each a transaction of `AddColumn`s and its record (`Commit`), the
local server, the first account, and `Listen`, which may fail and leave a
process that serves nobody.  `Crash` ends any of this; an open transaction is
rolled back.  A database comes from any release (`Releases`), perhaps with
columns that were added by hand, and `Older` is a release without migrations
that runs on it in between.

`Lifetime` composes it with Settings: requests are served only in the stage
"serve", and the end of a process is the restart of Settings.

## 3. The runs

**recreate_one** (`MCRecreate`, `RecreateOne.cfg`): `NeverBothRunning`, `NameKept`, `FailureRestores`, `SuccessReplaces`, `ImplementsContract`.
One update at a time, three in a row, any engine call refused, recovery calls
served, the process ended before its stop or its removal: every update either
replaces the workload or leaves it exactly as it was.

**selfswap** (`MCSelfSwap`, `SelfSwap.cfg`): `NeverLost`, `AppComesBack`.
Four self-updates of one app, two of them at once, any call refused, a launch
removing the helper of another at any step, the app updating its own row: the
app's last container is never removed, and the app comes back under its name
unless the swap was ended in its middle.

**selfupdate** (`MCSelfUpdateRun`, `SelfUpdate.cfg`): `SettledFirst`, `ControllerLast`, `WaitEnds`.
One run over two agents, one that crashes and loses its answers and one
redeployed by hand, helpers that fail: the controller is replaced only after
every agent has settled, no agent is called updated whose helper was not
started, and the wait ends.

**queue** (`MCAgentQueue`, `AgentQueue.cfg`): `AtMostOnce`, `DoneMeansReplaced`, `EveryCommandAnswered`.
Two commands for two containers, each executed up to three times, answers
lost, the agent crashing in the middle of an update, removals that fail, the
controller restarting: a container is replaced once for all that name it
unless its removal failed, done means replaced, and every command is answered
in the end.

**check** (`MCUpdateCheck`, `UpdateCheck.cfg`): `OneCheckAtATime`, `CheckClearsPinned`, `CheckIsFresh`, `CheckEnds`.
Scheduled and manual checks over two containers of two repositories while
users pin and ignore, rows come and go, releases appear, the process restarts,
pin requests overlap and deletions are refused: one check at a time, and one
that completes clears what is pinned, where the database lets it, and offers
nothing older than what upstream had when it began, and none runs for ever.

**rollout** (`MCServiceRollout`, `Rollout.cfg`): `DoneMeansServing`, `FailureUndoes`, `UpdateRollsOut`, `SettledEnds`.
Two updates of a service in a row, to good, broken and unsteady images whose
tags are pushed again in between, under every failure action of the service,
with calls refused, answers lost, digests that cannot be resolved and the
service removed: done means every task runs the target and was replaced,
failed means the service is back on the spec it had, and every update ends
that can; one is accepted without a task to replace only when the service is
pinned to the digest its tag stands for.

**readiness** (`MCSwarmReadiness`, `Readiness.cfg`): `OnlyManagersServe`, `ChangeNoticed`.
A polled host with two snapshots in flight and one with an agent, promoted,
demoted, granted and denied the services API: only a manager is said to serve
updates, whatever answer is kept from before, and what changes on a polled
host is picked up.

**respawn** (`MCRespawn`, `Respawn.cfg`): `DoneMeansRespawned`, `FailsLate`, `UpdateEnds`.
Three updates in a row of a unit that may or may not bring its container back,
with images that crash, calls of the job that fail and a list that cannot be
read: done means a newer container of that very name, a unit faster than the
job is no failure, and the job ends at its deadline.

**inventory** (`MCInventory`, `Inventory.cfg`): `DeletedLosesAccess`, `ChoicesStay`, `PinsStay`, `EventuallyCurrent`.
The local host, an endpoint and an agent are refreshed while an operator
creates, renames, re-points, pins and deletes, hosts come and go, containers
cannot be inspected and the process restarts: what counts as chosen stays,
what was deleted has no endpoint and no token, pins of containers that were
looked at stay, and in the end every row shows what its own host runs.

**listing_counted** (`MCReleaseList`, `ReleaseList.cfg`, a violation): `CountedOnce`.
A release is published between two pages: the last entry of the first page is
read again on the second, and counted twice.

**decision** (`MCUpdateDecision`, `Decision.cfg`): `NeverBackwards`, `OffersTheNewest`, `CaughtUp`.
Versions and their partial tags, variants, release candidates, builds by
number, four numbers, releases with a v whose images have it or do not, and
moving tags, from a forge or a registry, and WhatsNewDock's own image: no
update goes backwards, a pin is offered the newest release of its variant, and
who accepts what is offered ends up with it, but for the three cases CaughtUp
names.

**settings** (`MCLifetime`, `Settings.cfg`): `ProviderCurrent`, `SavedSurvives`, `SessionsSurvive`, `SchemaReady`, `ChangesEnd`, `StartsUp`.
Starts of the controller on a database of any release, cut short anywhere, and
changes of the settings and an OIDC login in between: a process past the
migrations finds every column, one gets through its start in the end (to a
listener, which may fail), the provider is never stale, what was saved is what
a start loads, sessions stay valid, and no change hangs on a login.


Bounds.  Two of a thing are enough where the code treats it pairwise (two jobs
on one container, two agents of one run, two rows of one check); three updates
in a row let one find the leftovers of the one before last.  Ids and releases
are bounded by what those requests can use up: no guard on a bound stops an
update that is under way in `Recreate` (every request needs one id, and
`MaxIds = MaxRequests + 1`).  `UpdateDecision` has tags of every kind the code
tells apart, in five namings: versions with variants, partial tags and a release
candidate; builds by number; four numbers; and releases with a v, whose images
have it or not; with moving tags beside each.  There are three releases of one
naming and four builds, which is enough for a pin
to be passed by two releases and one of them to be pushed again; one answer may
fail.  `Inventory` starts from any set of servers, with the endpoints or the
agents down, and has two changes, so that an edit and a deletion, a host
that goes and a pin, or a pin and a container that cannot be inspected, meet a
refresh under way.  `Lifetime` starts from a
database of any release and has two requests of either kind, a login, a restart
and a crash per start, after which nothing more comes; more logins at once are
left to the proofs of section 5.  `ReleaseList` has
two pages of two places, four releases and five changes: enough for one page to
be pushed over to the next.  `SelfSwap` has four launches by two jobs, so that
a launch meets a helper at work and the leftovers of one before it.  In
`RecreateOne` and `SelfSwap` forward calls may be refused and calls of the undo
are served: what a refused undo leaves behind, the code cannot mend, and
`NeverLost` is proved for any faults.  Deadlock is checked except where the
configuration says that the behaviour simply ends with its last request.

Fairness.  A goroutine that can make a step makes one (weak fairness of the
job's steps), and a deadline passes (`Expire`): Go schedules goroutines and
timers fire.  Nothing is assumed of systemd, of the orchestrator or of an
engine, except in Recreate, where no liveness is claimed.  The agent's loop
runs and its messages get through once the losses are used up: it is a ticker,
and `MaxLosses` is finite.  In `Inventory` the loop, the handlers and the
reports of an agent that is up run on.  In `UpdateDecision` checks come at their
interval, the operator accepts what is offered and a published release gets
its image: without these three nobody can be up to date.  In `Lifetime` the call to the issuer ends: it has the context of
the browser's request and no deadline of its own, so this says that browsers
give up at some time; and a process that ended is started again (`Step`), as
the restart policies in `docker-compose.yml` and `deploy/` say, where
`MaxCrashes` bounds the starts in a row that are cut short.  In `SwapSpec` the
helper and the app are scheduled and a container that was told to stop does
(`Exit`): the engine kills it after its grace period.  `ReleaseList` has no
fairness, as nothing is claimed to happen.

The type invariants of Recreate, Respawn, Settings, AgentQueue, UpdateCheck,
SwarmReadiness and Inventory are proved (section 5).  Those of the other
modules hold in the configurations of their runs with one line more.

Each property of a run has a mutant, a change to one mapped definition that a plausible
bug would make, under which TLC finds it violated.

## 4. Disagreements between the code and what it says

The listed run `listing_counted` shows the first:

- `CountedOnce` (internal/changelog/github.go:30). Pages are asked for by
  number, and each answer is appended to the list: a release published between
  two requests moves the others down, the last entry of a page comes again as
  the first of the next, and versionedReleases (updater.go:356-373) and
  computeUpdate (updater.go:178-190) count it a second time. README.md:14-15
  says: "compares each container's tag against upstream releases, and reports
  how many versions you are behind."

These show the others.  TLC stops in each of them with a behaviour in which the
code does what a comment or a document says it does not.  Where no configuration
is named, it is the one of a run with the property in place of its own and the
constants given:

- `NameKept` (`RecreateRace.cfg`; internal/dockerx/recreate.go:139).
  recreateDirect takes the name to restore and to recreate under from its own
  inspection, and nothing refuses a second update of a container that is being
  updated (handleRequestUpdate starts a goroutine unconditionally,
  api_handlers.go:602). A second update that inspects between the first one's
  rename and its restore takes the backup name for the container's name; when
  both fail the container is left as name-prev-<n>. docs/SECURITY.md:155-157
  says "every failure after the container is stopped restores it — its name
  and, if it was running, its running state".

- `FailureKeepsRunning` (`RecreateAutoRemove.cfg`;
  internal/dockerx/recreate.go:117). A container created with
  HostConfig.AutoRemove is deleted by the engine when ContainerStop returns;
  the rename that follows fails, restore() has nothing to start, and the
  update fails with the workload gone. The comment at recreate.go:108-110 says
  "Every failure after the stop restores the original container ... A failed
  update must never leave a workload stopped, no matter what restart policy
  the container has".

- `StoppedStaysStopped` (`recreate_stopped`, `RecreateOne.cfg` with `MaxIds =
  2`, `MaxRequests = 1`, `Faults = {}`, `CrashAt = {}`;
  internal/dockerx/recreate.go:160). recreateDirect starts the replacement
  unconditionally, so a successful update of a stopped container leaves it
  running. recreate_test.go:450-452 says "an update of a container that was
  not running must not leave it running", but the test only exercises a failed
  create.

- `FailureKeepsRunning` (`recreate_lost`, `RecreateOne.cfg` with `MaxIds = 2`,
  `MaxRequests = 1`, `Faults = {"lost"}`, `CrashAt = {}`;
  internal/dockerx/recreate.go:117). ContainerStop may return an error
  although the container was stopped (connection to a TCP endpoint lost,
  engine giving up waiting for the exit event): recreateDirect returns before
  restore() exists and the workload stays stopped. The comment at
  recreate.go:109-110 says "A failed update must never leave a workload
  stopped".

- `NeverTwice` (`SelfSwapTwice.cfg`; internal/dockerx/selfupdate.go:44).
  SelfContainerID takes the hostname for the container's id, and
  recreateDirect gives the replacement the original's configuration, hostname
  included (recreate.go:150-153). When the best-effort removal at
  recreate.go:171 failed, that id names the leftover original, and the next
  self-update recreates the leftover: the app runs twice. agent.go:163-165
  says that an agent that cannot identify its own container never updates
  itself, "which is also what stops an agent in an unusual runtime from
  replacing the wrong thing".

- `AlwaysComesBack` (`selfswap_own`, `SelfSwap.cfg` with `Jobs <- OneJob`;
  internal/server/api_handlers.go:602). handleRequestUpdate takes the app's
  own container like any other: the goroutine that runs recreateDirect ends
  with the process when it stops its own container, and the app stays down.
  selfupdate.go:16-21 says "A container cannot recreate itself: the
  stop/rename/create/start sequence kills the process that is driving it
  halfway through, and the app would be left down. So the work is handed to a
  short-lived helper container", and recreate.go:109 "A failed update must
  never leave a workload stopped".

- `AgentsBackFirst` (`selfupdate_back`, `SelfUpdate.cfg` with `Agents <-
  OneAgent`, `LostReplies <- Nobody`, `ByHand <- Nobody`;
  internal/server/selfupdate_run.go:318). waitForAgents marks an agent updated
  when its command is "done", and the agent posts "done" as soon as its helper
  container was started (agent.go:184), before it is replaced and even if the
  helper then fails. README.md:181-182 says "only once they are all back does
  this controller restart"; selfupdate_run.go:14-16 says the same.

- `SettledFirst` (`SelfUpdateOverlap.cfg`;
  internal/server/selfupdate_run.go:171). startSelfUpdateRun replaces the
  tracker's run without looking whether one is in progress, and updateAgent
  writes to the tracker's run, not to the caller's. When the first run's
  deadline passes it marks the second run's rows; counts() of the first then
  has no failed row, its queued rows are ignored, and it replaces the
  controller. README.md:183-185 says "An agent that fails, or that does not
  report back within three minutes, stops the run and leaves this controller
  alone".

- `NeverSplit` (`selfupdate_split`, `SelfUpdate.cfg` with `SPECIFICATION
  Spec`, `Agents <- OneAgent`, `HelperFaults = FALSE`, `LostReplies <-
  Nobody`, `ByHand <- Nobody`; internal/server/selfupdate_run.go:277). When
  the deadline passes the agent's command stays pending in the queue; the
  agent executes it whenever it polls again, after the run has failed.
  README.md:184-185 says "leaves this controller alone — a deployment is never
  split across two versions".

- `ReconnectCounts` (`selfupdate_reconnect`, `SelfUpdate.cfg` with `Agents <-
  OneAgent`, `HelperFaults = FALSE`, `LostReplies <- OneAgent`, `ByHand <-
  Nobody`; internal/dockerx/recreate.go:150). recreateDirect copies the
  original's Config, hostname included, into the replacement, and
  SelfContainerID takes the hostname for the container id. After its first
  self-update an agent inspects an id that no longer exists: it reports no
  digest, and when its answer was lost it executes the command again and
  answers failed. selfupdate_run.go:268-269 says "An agent that reconnects on
  a new digest counts as done even if its command reply was lost when its
  process was replaced".

- `NeverStranded` (`selfupdate_stranded`, `SelfUpdate.cfg` with `Agents <-
  OneAgent`, `HelperFaults = FALSE`, `LostReplies <- OneAgent`, `ByHand <-
  Nobody`; internal/dockerx/selfupdate.go:211). A command whose answer was
  lost stays pending and is executed again; startSelfUpdate then removes by
  force the helper of the first execution, which may have told the agent to
  stop already. The agent exits before it starts another helper and nothing
  brings it back. agent.go:136-137 says "a lost reply is harmless".

- `JobSettles` (`AgentQueueJob.cfg`; internal/server/agent_handlers.go:165).
  handleAgentCommandResult finds the job through the container's row, by the
  Docker id the command names. When the first answer was lost, the agent's
  next report has already replaced that row, so the answer that is recorded at
  last updates no job. agent_handlers.go:164 says "Update the in-memory job so
  the UI can surface completion", but the job stays "queued".

- `PinnedHasNoUpdate` (`check_pinned`, `UpdateCheck.cfg` with `RepoOf <-
  BothNginx`, `MaxChanges = 1`; internal/updater/updater.go:123). The second
  pass of CheckAll stores updates for the containers it listed in the first; a
  container pinned in between has its update deleted by handleSetPin and
  stored again by the check. updater.go:73 says "No update may be offered for
  pinned/ignored containers".

- `FullCycle` (`UpdateCheckFull.cfg`; internal/updater/updater.go:124). A
  container whose row is replaced by a snapshot while a check runs makes
  UpsertUpdate fail on the foreign key, and CheckAll returns: the containers
  after it keep their old updates. updater.go:47 says "CheckAll runs a full
  update-check cycle across every container".

- `UpdateAlwaysRollsOut` (`rollout_pinned`, `Rollout.cfg` with `Flaky = {}`,
  `Actions = {"pause"}`, `Faults = {}`, `MayVanish = FALSE`;
  internal/dockerx/swarm.go:296). The force counter is used when the stored
  reference is the very string asked for. ServiceUpdate asks the registry
  (QueryRegistry, swarm.go:304), so what an update leaves in the service is
  the tag with its digest: the next update to the same tag compares unequal
  and is not forced, and when the tag has not moved the new spec is the old
  one. Nothing is rolled out, no update status appears, and the update fails
  at its deadline and is rolled back to the same spec. README.md:246-248 says
  the counter is bumped "because otherwise swarm sees an identical spec and
  rolls nothing out".

- `RolloutEnds` (`rollout_gone`, `Rollout.cfg` with `Flaky = {}`, `Actions =
  {"pause"}`, `MaxRequests = 1`, `Faults = {}`;
  internal/dockerx/swarm.go:316). updateService looks at its deadline only
  when serviceStatus succeeds; when the service was removed (or the services
  API is withdrawn) it returns an error every time and the loop never ends:
  the job is shown as updating for ever, on a context that is never cancelled
  (api_handlers.go:605). swarm.go:27 says "serviceConvergenceTimeout is how
  long a rollout is given to settle", and swarm.go:240 has an error for a
  service that "disappeared during the rollout" that nobody sees.

- `RolloutEnds` (`rollout_flaky`, `Rollout.cfg` with `Actions = {"pause"}`,
  `MaxRequests = 1`, `Faults = {}`, `MayVanish = FALSE`;
  internal/dockerx/swarm.go:204). classifyServiceConvergence answers pending
  for a completed rollout with a task down, whether the deadline was reached
  or not, so a service whose task stops after the rollout completed keeps the
  update running without end. swarm.go:198-199 says "a deadline reached
  without converging, is a failure".

- `DoneMeansServing` (`rollout_two`, `Rollout.cfg` with `SPECIFICATION Spec`,
  `Jobs <- TwoJobs`, `Flaky = {}`, `Actions = {"pause"}`, `Faults = {}`,
  `MayVanish = FALSE`; internal/dockerx/swarm.go:315). serviceStatus returns
  the image the service runs and updateService drops it: of two updates of one
  service, requested from two of its tasks, the first reports success when the
  second's rollout completes, on another image. swarm.go:181 says
  "convergeDone: every desired task is running on the new spec".

- `RollbackRestores` (`rollout_two_undo`, `Rollout.cfg` with `Jobs <-
  TwoJobs`, `Flaky = {}`, `Actions = {"pause"}`, `Faults = {}`, `MayVanish =
  FALSE`; internal/dockerx/swarm.go:324). At its deadline an update re-reads
  the service and rolls back whatever was deployed last: when another update
  was accepted meanwhile, "previous" is the image of the update that did not
  converge. swarm.go:349-350 says rollbackService "restores the service's
  previous spec after a rollout failed to settle, so a broken image does not
  leave every replica crash-looping".

- `FailureAlwaysUndoes` (`rollout_version`, `Rollout.cfg` with `Flaky = {}`,
  `Actions = {"pause"}`, `MaxRequests = 1`, `Faults = {}`, `MayVanish =
  FALSE`; internal/dockerx/swarm.go:352). The rollback is tried once, with the
  version read just before; the orchestrator's own write of the service in
  between makes it out of date, the rollback is refused and the service stays
  on the new image. README.md:251-252 says "A rollout that never settles is
  undone".

- `AgentReadinessNoticed` (`ReadinessAgent.cfg`;
  internal/server/agent_handlers.go:67). handleAgentReport replaces the swarm
  role and services flag of the report by those of the stored row, which start
  as "none" and are written nowhere else: a swarm manager with an agent is
  never shown as one, and updateBlockedReason refuses every service update on
  it ("the host is not currently reporting as a swarm manager",
  api_handlers.go:69). README.md:262-264 says "Agents must be at least this
  version ... update the agent on any swarm host before using the feature".

- `DenialNoticed` (`readiness_denied`, `Readiness.cfg` with `Agents <-
  NoHosts`, `Snapshots <- One`, `MaxChanges = 1`;
  internal/dockerx/swarm.go:126). invalidateSwarmCapability is called from
  nowhere: after an update was refused with ErrSwarmDisabled the kept answer
  goes on saying that services can be updated for the rest of its five
  minutes. swarm.go:124-125 says it "forces the next probe to re-check, so a
  permission change is noticed as soon as we try to act on it".

- `CrashLoopFails` (`RespawnCrash.cfg`; internal/dockerx/respawn.go:63).
  decideRespawnOutcome ends the wait with success at the first poll that sees
  a new container in state running, and nothing looks again: a container that
  crash-loops is in that state between its start and its exit, so a poll that
  falls there reports the update as done. docs/SECURITY.md:145-146 says "A
  crash-looping or unchanged replacement is a reported failure".

- `DeletedStaysDeleted` (`InventoryDeleted.cfg`;
  internal/store/entities.go:542). handleAgentReport reads the row by its
  token and then upserts it by id: when the server is deleted in between, the
  upsert inserts it again, without a token, and a poll does the same to a
  direct endpoint, without its address. extra.go:93-94 says of the deletion
  that it "removes a server and all of its stacks, containers, updates and
  queued commands".

- `PinsOutliveSkipping` (`inventory_skipped`, `Inventory.cfg`;
  internal/dockerx/dockerx.go:107). a snapshot skips any container whose
  inspection fails, whatever the error, and is stored like a complete one:
  ReplaceServerSnapshot deletes the row of the container, and its pin with it,
  while it runs on. The comment there expects one that "may have vanished
  mid-poll", and entities.go:529 says the replacement happens "preserving
  container pinned state and stable IDs".

- `TypedNameStays` (`inventory_typed`, `Inventory.cfg`;
  internal/server/api_handlers.go:282). handleCreateServer stores the name
  typed for an agent's server without NameCustom (it sets it for an endpoint,
  api_handlers.go:263), so the first report overwrites it with the host's
  name. store/models.go:61-62 says "NameCustom records that an operator chose
  this name, so snapshot reports never overwrite it with the host's own
  hostname", and entities.go:539-540 that "A name an operator chose by hand
  likewise wins over the hostname reported by the daemon". ChoicesStay excepts
  exactly this name.

- `PinsOutliveOvertaking` (`inventory_pins`, `Inventory.cfg` with `MaxChanges
  = 3`; internal/store/entities.go:676). two refreshes of one endpoint may
  overlap (the loop's and the one started by handleCreateServer or
  handleUpdateServer): the one that looked first may store last, which deletes
  the rows of containers that were created since, and with them their pins.
  entities.go:529 says the replacement happens "preserving container pinned
  state and stable IDs".

- `OnlyWhenMoved` (`DecisionMissing.cfg`; internal/changelog/registry.go:181).
  When the registry answers 404, or still 401 after the token (a private
  image), ManifestUpToDate returns (false, nil), which registryFallback
  reports as an update; README.md:396-398 says: "For floating tags (`latest`,
  `stable`, `lts`, ...), WhatsNewDock compares the running image's digest
  against the registry's current digest, so it only reports an update when the
  tag actually moved."

- `FollowerStays` (`decision_follower`, `Decision.cfg` with `Subjects =
  {"container"}`, `MaxReleases = 2`, `MaxBuilds = 2`;
  internal/updater/updater.go:229). The newest release's tag becomes LatestTag
  of a moved latest, and handleRequestUpdate (api_handlers.go:569-571) makes
  LatestTag the target, so the container is moved off its moving tag; the
  comment at updater.go:221-223 says: "label the update with the newest
  release so the card can name a version rather than just repeating the tag."

- `PreReleasesOffered` (`decision_pre`, `Decision.cfg` with `Tags <- PinTags`,
  `Firsts <- PinFirsts`, `Rebuilt <- None`, `Subjects = {"container"}`,
  `MaxReleases = 2`, `MaxBuilds = 2`, `Namings <- PinNamings`;
  internal/updater/updater.go:183). A release is a candidate only if its
  suffix equals the running tag's, so 2.0.0-rc.1 is never offered to 1.0.0;
  README.md:344 says of WND_INCLUDE_PRERELEASES: "Offer pre-releases as
  updates".

- `CaughtUpAlways` (`decision_four`, `Decision.cfg` with `Tags <- FourTags`,
  `Firsts <- FourFirsts`, `Rebuilt <- None`, `Subjects = {"container"}`,
  `MaxReleases = 2`, `MaxBuilds = 2`, `Namings <- FourNamings`;
  internal/updater/updater.go:295). parseVer drops the fourth number, so
  1.0.0.2 is not newer than 1.0.0.1; updater.go:341-342 says: "For a complete
  pin any greater version counts."

- `CaughtUpAlways` (`decision_rolling`, `Decision.cfg` with `Tags <-
  RollTags`, `Firsts <- RollFirsts`, `Rebuilt <- RollFirsts`, `Subjects =
  {"container"}`, `MaxReleases = 2`, `MaxBuilds = 2`, `Namings <-
  RollNamings`; internal/updater/updater.go:213). A tag without a version that
  is the first release of a forge's list (a rolling "nightly") returns no
  update without looking at the digest; README.md:396-398 says of floating
  tags that the digest is compared.

- `CaughtUpAlways` (`decision_bare`, `Decision.cfg` with `Tags <- BareTags`,
  `Firsts <- BareFirsts`, `Namings <- BareNamings`, `Rebuilt <- None`,
  `Subjects = {"container"}`, `Sources = {"vcs"}`, `MaxReleases = 2`,
  `MaxBuilds = 2`; internal/server/api_handlers.go:570). The target is the
  image's name with the release's tag, so a release v1.1.0 whose image is
  pushed as 1.1.0 is offered and its pull fails each time; README.md:25 says:
  "**One-click updates** — recreate a container with the newer image".

- `SelfCaughtUp` (`decision_backport`, `Decision.cfg` with `Tags <- SelfTags`,
  `Firsts <- PinFirsts`, `Rebuilt <- None`, `Subjects = {"self"}`, `Sources =
  {"vcs"}`, `MaxBuilds = 2`, `Namings <- SelfNamings`;
  internal/changelog/github.go:149). The first release of the list is taken
  for the newest, so after a release of an older line the newer version is not
  found; github.go:98-99 says: "the answer is the release an operator should
  be running rather than the newest tag in the repository."

- `IntervalTakesEffect` (`settings_interval`, `Settings.cfg` with
  `SPECIFICATION Spec of MCSettings`, `Logins = {}`, `Bodies <- Intervals`,
  `AuthBodies <- NoAuths`; internal/server/settings_handlers.go:141).
  handlePutSettings sets the update interval in memory, updaterLoop read it
  once at its start (server.go:475-479), and saveRuntimeSettings never writes
  it, so it has no effect before a restart and is gone after one;
  settings_handlers.go:13-14 says of the keys below it,
  settings.update_interval among them: "Runtime-settings keys persisted in the
  settings table. These override the equivalent configuration values once
  saved via the UI."

- `ClearedStays` (`settings_cleared`, `Settings.cfg` with `SPECIFICATION Spec
  of MCSettings`, `Logins = {}`, `Bodies <- Lists`, `AuthBodies <- NoAuths`;
  internal/server/settings_handlers.go:35). An emptied ignore list is saved as
  "", which loadRuntimeSettings takes for absent; settings_handlers.go:13-14
  says that saved settings override the configuration.


## 5. The proofs

Eight modules hold theorems, each about the modules it extends, for every value
of the constants that the named assumptions allow.  Every inductive proof has
one step per action and is closed with the temporal prover.

### Recreate

- `TypeCorrect`: `Spec => []TypeOK`.
- `WorkloadNeverLost`: `Spec => []NeverLost`, for any number of concurrent
  updates, whatever calls fail or lose their answer, the undo's included, and
  wherever the process ends.
- `NeverTogether`, `NameStays`, `FailedUpdateRestores` and `DoneUpdateReplaced`:
  `NeverBothRunning`, `NameKept`, `FailureRestores` and `SuccessReplaces`,
  assuming `Solo`: one job, an engine that refuses calls but does not lose
  answers and serves the undo, a container without `--rm`, and a process that
  ends before the stop or before the removal, if at all.  Section 4
  shows that one job (`RecreateRace.cfg`), answers that arrive
  (`recreate_lost`) and no `--rm` (`RecreateAutoRemove.cfg`) cannot be dropped;
  a refused undo, or a crash between the stop and the start of the replacement,
  leaves the code nothing to do.

`NeverLost` is not inductive: that some container is left says nothing of the
next removal.  The argument is that ids grow.  A job removes the container it
inspected only after it started a replacement, whose id is larger, and the
undo removes only a replacement that never counted; so the youngest of `Kept`,
the original and the replacements that started, is never removed
(`YoungestStays`, with `Younger` and `OwnReplacement` for the ids; together
`KeepInv`).  `SoloInv` says, for every call the job may make next, what the
calls before it have established about the original (`OriginalThere`,
`OriginalNamed`, `OriginalStopped`), the replacement (`Replacement`) and who
may hold the name (`NameReserved`); all four properties are read off it.

- `UpdateIsAtomic`: `Spec => ImplementsContract`, assuming `Solo`: under the
  refinement mapping every behaviour of Recreate is one of `UpdateContract`.

The initial state maps to one of the contract, and each call to a step of it or
to none (`StepContract`).  What the contract sees depends on how far the job is
(`View`): all containers up to the stop; from the rename on, in place of the
original and the replacement, the original as the inspection found it; once the
replacement was started, all but the original.  So the calls between the stop
and the start are stutters (`OpenStays`), the start replaces the workload in
one step, and the rest follows from `SoloInv` and the image of the original,
which no call changes (`ImageInv`).

### SelfSwap

- `AppNeverLost`: `SwapSpec => []NeverLost`, for any number of launches by any
  jobs, whatever fails, and wherever a helper or a process ends.

The invariant is `KeepInv` again.  It does not depend on the labels a job may
be at besides those of Recreate (`Typed` has them as a parameter), so a step of
the helper is a step of Recreate (`Swap`), asking for an update begins a job
without a replacement (`AskKeeps`), and everything else that SelfSwap adds,
removing a helper at its work and dying included, changes no container but one
that was told to stop (`GoAside`, `SwapStepKeeps`).

### Respawn

`RespawnProofs`, for any images, any unit and whatever fails:

- `DoneIsRespawned`: `Spec => DoneMeansRespawned`.
- `FailsOnlyLate`: `Spec => FailsLate`.

The job knows the unit's containers by name alone.  `RespawnInv` has why what
it finds is the right one: ids grow (`Numbered`), the unit has one container at
a time and none older than the inspected one (`NotBefore`), and the one that
was stopped stays down (`StaysDown`); so one of that name with another id is a
younger one (`FoundLater`).

### ServiceRollout

`SwarmProofs`, for any tasks, images, failure actions, bounds, and whatever
calls fail or the orchestrator and other writers do:

- `UpdateReplacesTasks`: `Spec => UpdateRollsOut`, for any number of jobs,
  assuming a service with tasks (`Replicas # {}`; one scaled to nothing has
  none to replace).  `RolloutInv`: an update that the orchestrator accepts is
  made of the spec that is live (`Fresh`, as the version says), and differs from
  it in the image, the digest or the force counter, unless the service is on the
  digest the tag still stands for (`UpdateEffect`).
- `DoneIsServing` and `FailureIsUndone`: `DoneMeansServing` and
  `FailureUndoes`, assuming `OneJob`.  `JobInv`: from the moment its update is
  accepted the service is on the spec the job asked for, with the one it
  inspected to go back to, or back on that one (`Watched`); a rollout that has
  completed has replaced every task (`Completed`).  With two jobs one may see
  the rollout of the other as its own, as section 4 shows.

The type invariant there is not the one of the model: that the force counter
stays within the number of requests is left to TLC, and it is any number here.

### SwarmReadiness

- `ManagersAlone`: `ReadinessSpec => []OnlyManagersServe`, in `SwarmProofs`, for
  any hosts and any snapshots that overlap.  A row is as good as the finding
  that is stored in it, and services get into a finding only with the answer to
  a call that is made of managers (`FindingsFit`), whatever the host has become
  by the time it is stored.

### Settings and Lifetime

`LifetimeProofs` has both.  Of Settings, for any sets of requests, logins and
bodies, any environment, any number of restarts and writes that may be refused:

- `TypeCorrect`: `Spec => []TypeOK`.
- `ProviderStaysCurrent`: `Spec => []ProviderCurrent`.  The strengthening
  (`DiscoverInv`) is about the login that builds a provider: it holds the lock,
  and the issuer it asked is the live one or a request is about to drop what it
  builds.  A request may set both halves while the login waits for the issuer;
  the proof shows that the order of `handlePutAuthSettings`, settings first and
  then the drop, under the lock, is what makes this harmless.
- `SessionsStayValid`: `Spec => []SessionsSurvive`, as the secret in use is
  always the configured one or else the stored one (`SessionInv`).
- `SavedIsLoaded`: `Spec => []SavedSurvives`.  A request reads a value long
  before it writes it, so a write may store an old one.  `SavedInv` says when it
  does not: a request that is alone has no other beside it (`AloneInv`), has
  already stored what it passed (`PassedInv`), and holds the live value of what
  it is about to write (`HeldInv`), as does any writer of a field that nobody
  set since it was last saved; an empty number or token was empty from the
  start, so that reading it as absent is right (`EmptyInv`); and OIDC settings
  are set by halves, unsaved until the request's own copy is stored (`AuthInv`).

The assumptions on the constants are `NoValueAssumption` to `BoundAssumption`
of `Settings`: the stand-ins for "no value" differ from values, only a list or
a token can be empty in a request, and the environment is well-typed.

Of a process from start to start:

- `OpenIsReady`: `StartupSpec => []SchemaReady`, for any number of starts cut
  short.  `Schema` says that a recorded migration has its columns, always, as
  the record is committed with them (`Recorded`), and where a start is says
  what is done: the migrations before its place are recorded and the columns
  before it there or in the transaction (`Progress`).
- `HoldsOverStarts`: what is proved of the settings of one process, and
  `SchemaReady`, hold of `LifetimeSpec`.  A step of `Lifetime` is a step of
  `Settings` or none, and a step of `Startup` or none.

### UpdateCheck

`ControllerProofs`, for any rows, repositories, triggers and bounds, with `TypeOK`:

- `SingleFlight`: `Spec => []OneCheckAtATime`.
- `ClearsPinned`: `Spec => CheckClearsPinned`.  `PinnedCleared`: once a check
  has listed, no row pinned all the while is among its items, and none has an
  update except one that this check is about to drop, or one that the database
  refused to delete.
- `IsFresh`: `Spec => CheckIsFresh`.  `Fresh`: what the check keeps of a
  repository lies between what upstream had at its start and what it has now,
  and a row that was free all the while is still to come or has been served.
  It rests on `NotPinned`: a row is free only while no request is about to
  delete its update, a late one of an earlier pin included.

### AgentQueue

`ControllerProofs`, for any workloads and bounds, with `QueueTypeOK`:

- `ReplacesAtMostOnce`: `QueueSpec => []AtMostOnce`.
- `DoneIsReplaced`: `QueueSpec => []DoneMeansReplaced`.

A command is executed again when its answer was lost or the agent crashed, and
several commands may name one container.  `QueueInv` has why a container is
replaced once all the same, unless its removal failed: ids are not used twice,
so what was replaced and removed is gone for everyone who names it (`Gone`,
`ToCome`).  An answer "done" is given only of a command that replaced its
container (`DoneIsTrue`), and stays true whatever is updated next: nothing
starts the original again, and whatever replaces the replacement is of the same
workload and newer (`StaysDone`).

### SelfUpdateRun

`SelfUpdateProofs`, for any agents and whatever fails, is lost, crashes or is
redeployed by hand, assuming `OneRun`; `SelfUpdateOverlap.cfg` in section 4
shows that two runs break the first:

- `AgentsSettleFirst`: `Spec => []SettledFirst`.  `RunInv`: the tracker holds
  this run as long as it waits, so that giving up marks its own rows
  (`Tracked`); and a run past its wait has no row that is still out.
- `NoAgentUntried`: `Spec => []ControllerLast`, assuming `DigestKnown` as well:
  every agent has reported a digest when the run is planned.  `TriedInv`: a
  digest is new only of a new agent, the one of the plan and the one of a pass
  included (`DigestsTrue`); an agent that answered done is new or has a helper,
  and the only command that is executed again is one whose answer did not
  arrive (`AnswersTrue`); so a row marked as updated rests on one of the two
  (`RowsTrue`).

### ReleaseList

`ReadsEverything`: `ListSpec => NothingMissed`, for any releases and changes,
assuming `Paging`: pages are not empty and there is one.  `ListInv`: places are
those of a list (`Places`, `Apart`, `NoHoles`), and everything in `kept` that
stands above the page asked for has been read (`Covered`).  Nothing in `kept`
moves forward, and a list without holes ends where a page does not fill
(`ListEnds`).  `NothingMissed` holds in the configuration of `listing_counted`
as well, for every `Kind`.  What a listing may do is read a release twice, see
section 4.

### UpdateDecision

`ReleaseProofs`, for any tags, releases, builds and answers, whether the manifest
is hidden or not:

- `NeverBack`: `Spec => NeverBackwards`, without a further assumption.
- `OffersNewest`: `Spec => OffersTheNewest`, without one either.  The property
  is about pins of up to three numbers: `parseVer` drops the fourth, and of
  1.0.0.1 and 1.0.0.2 neither is newer, see section 4.

What upstream may do is what `Publish`, `Push` and `Rebuild` say: release any
tag, push the image of a release once, and build again what a tag names.  A tag
that an operator of a registry points back to an older build is not in the
model, and WhatsNewDock would follow it: the digest is another one.  Older means
older by `CompareVersions`.


An offer is accepted long after the check that made it, when the tag it names has
been pushed again and what runs is no longer what its own tag names.
`DecisionInv` is what remains true of them.  Builds of a tag are of the tag or of
one it follows (`Kin`), so they agree with it in the numbers it has; a release is
built once, before the builds that go past it (`Lineage`); what runs is a build
that its tag named, and what the tag names now is of no lower line (`Current`),
since a tag only `MovesOn`; and an offer is the running tag, a tag that passes it
in the numbers it spells out, or a release that is newer than the running build
(`Offered`).  Whichever it is, the build at the end is not older: a tag that
passes a pin has only builds above every build of the pin (`PassesRaises`), one
that is newer than a build has only builds that are (`KinNotBelow`), commits past
a release never lowering it (`BuildNotBelow`), and the running tag itself has
moved on (`AcceptNotOlder`).  That `Newest` picks from exactly the releases a pin
is behind of is `TargetsAreBehind`.

### Inventory

`InventoryProofs`, for any servers, endpoints and containers and any number of
refreshes under way, assuming that the local host, the direct endpoints and the
agents are different servers (`ServerAssumption`):

- `TypeCorrect`: `Spec => []TypeOK`, from `TypeInv`: besides types, what a
  refresh goes to through the pool is an endpoint, and a row has the kind that
  its id was given.
- `DeletedStaysOut`: `Spec => []DeletedLosesAccess`.  The row of a deleted server
  may come back (section 4); it has neither an endpoint nor a token then.
- `OperatorsChoose`: `Spec => ChoicesStay`, of kinds, endpoints and the names
  that count as chosen: all but those of the local host and of an agent that
  were never changed by an edit, the one typed at an agent's creation included.

Every step does one of five things to a row (`RowStep`): it leaves the choices
alone (`Leaves`), inserts the row without an endpoint or token (`Inserts`),
creates it (`Creates`), deletes it (`Deletes`) or is the operator's edit
(`Moves`).  That a refresh of a deleted server only `Inserts`, however old its
copy, gives both theorems.

- `PinsSurvive`: `Spec => PinsStay`, assuming besides that no machine stands
  for the absence of one (`HostAssumption`) and every container has a home.

The pins of a row are replaced with its containers, keeping those of containers
in the snapshot, so a pin is lost by a snapshot that lacks its container.
`PinInv` says when none does: a snapshot that was not overtaken has every
container that the row shows and its host still runs, but for those it could not
inspect (`PollsFit`, `ReportsFit`), since what a row shows was there once and what has gone does not
come back (`RowsFit`); and a copy that was read before an edit and used after it
names the host of the row or counts as overtaken (`CopyFits`, `EditFits`).

### Only model-checked

Of what the runs check, liveness: under fairness it is beyond the prover, as is
ENABLED.  Every safety property of a passing run has its theorem; the type
invariants without one are in no run either (section 3).  What a recursive
definition computes would be out of reach as well; these modules have none.

## 6. What is not modelled, and the plan

Not modelled, and staying so: the HTTP clients of the release sources and the
formats they parse, routes, configuration and image references (pure functions
or I/O), static files.

Planned, in this order:

1. `Users`: accounts, roles in issued tokens, the first administrator, the
   login limiter.
2. Endpoint validation and the TLS files behind it; stacks and ignored ones.
3. The copy of the container's configuration in `Recreate`
   (`sanitizeHostConfig`, `buildNetworkingConfig`), and `ResolveSource`.
4. How the web interface polls jobs and runs.
5. Theorems about these.  Of the models there are, every safety property that a
   run checks is proved; what is left is the abstract specification of more of
   them than the container update has, proved as a refinement.
