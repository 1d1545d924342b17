# OpenCel in TLA+

OpenCel is a self-hosted deployment platform for one Docker host: a push to a
GitHub repository creates a deployment, a worker builds an image and runs it as
a container behind Traefik, and a user promotes a deployment to production. This
directory holds TLA+ models of its control plane, the TLC configurations that
check them, and TLAPS proofs about them. Paths below are relative to the
repository.

## Inventory of the system

| Component | Code | State it keeps | Operations | Hard part |
|---|---|---|---|---|
| Push webhook | `internal/api/webhook_github.go` | rows of `deployments`, tasks in Redis | verify, find project, insert row, enqueue | row and task are two systems: one can exist without the other |
| Task queue (asynq, external) | `internal/queue/tasks.go`, library | tasks, leases, retry counts | enqueue, take, ack, retry, archive, requeue | delivery at least once; worker and agent share one queue |
| Worker | `internal/worker/worker.go`, `apps/worker/main.go` | `deployments.status`, container name, Docker containers | build, run, publish, fail | crash, deadline or outage between any two effects; retries |
| Production routing | `internal/api/deployments.go`, `internal/api/traefik.go` | `projects.production_deployment_id`, Traefik's `opencel.yml` | promote, rewrite file | whole-file rewrite from a read that others overtake |
| Agent and admin jobs | `apps/agent/main.go`, `internal/api/admin.go` | `admin_jobs`, `.env`, compose stack | apply settings, self update | the job restarts the containers it runs in |
| Instance settings and GitHub provider | `internal/settings`, `internal/integrations`, `internal/api/admin.go` | `instance_settings`, a 30 s cache per process | put settings, get app, invalidate | a cache in another process; settings written key by key |
| Build logs | `internal/worker/worker.go` (logWriter), `internal/api/logs.go`, deployment page | `deployment_log_chunks`, SSE cursor | append, flush, poll after id | errors drop buffers; ids commit out of order |
| Accounts and setup | `internal/api/setup.go`, `auth.go`, `oauth_github.go` | `users`, `user_identities`, `github_oauth_tokens` | bootstrap, setup, login, OAuth | several ways to the first user; two inserts without a transaction |
| Organizations | `internal/api/orgs.go`, `org_auth.go`, `projects.go`, `import_project.go` | `organizations`, `memberships`, `projects` | create, add, remove, import | create org and membership are two statements |
| Environment variables | `internal/api/envvars.go`, `internal/crypto/envcrypt` | `env_vars` | set, list, decrypt | key change makes every build fail |
| Installer and updater | `internal/cli/install.go`, `update.go`, `install/install.sh` | `.env`, compose file, key file, `opencel.yml` | install, update | reruns rewrite files that other components own |
| Dashboard | `apps/web` | state of the open page, `localStorage` | load, poll, stream, edit, save, redirect | answers out of order; what is shown belongs to what was asked for before; timers of pages that were left |

Interactions: the API and the worker meet in Postgres and in the Redis queue; the
API and Traefik meet in the file `opencel.yml`; the API's admin endpoints reach
the agent through the same queue; the agent runs the installer, which rewrites
`opencel.yml`, `.env` and the key file and recreates API, worker and agent.

## Modules

| Module | Models | State (code) | Actions (code) |
|---|---|---|---|
| `TaskQueue` | asynq, external | `tstate`, `retried`: a task's state and retry count | `Enqueue`, `Take`, `Complete`, `Fail`, `Misroute` (a server without a handler for the type), `Requeue` (shutdown), `Lose` (Redis restarted from an old snapshot) |
| `DeploymentLifecycle` | what the rest of the system may assume of a deployment | `status`, `recorded` (container name in the row), `container` (in Docker) | `Insert`, `Mark`, `PublishOnce`, `CreateContainer`, `Halt` |
| `Deployments` | `webhook_github.go`, `worker.go`, `apps/worker/main.go` | the above, `req` (webhook request), `phase` (between which two effects an attempt is) | one per effect of `handleGitHubPush`, `BuildAndDeploy` and `fail`; crash, stop, deadline, outage, host restart, lost task, API death; the agent taking a build task |
| `DeploymentsProofs` | theorems about `Deployments` | | |
| `ProdAlias` | production routing as it should be, for projects that share their host with no other: an alias per project, switched in one step | `route`, `recorded` | `Record`, `Switch` |
| `ProdRouting` | `deployments.go` (promote), `traefik.go` | `pointer` (`production_deployment_id`), `route` (`opencel.yml`, per host: two projects may make one, `acme`/`web-api` and `acme-web`/`api`), and per request what it has read: `snap`, `todo`, `out`, `missed` | `BeginPromote`, `SetPointer`, `ListProjects`, one `LookUp` per project, newest first, the older one last and so the winner of a shared host, `WriteFile` (rename), a failure of each, `InstallerSeedsFile` |
| `AdminJobs` | `admin.go` (apply, self update), `apps/agent/main.go` | `status` of `admin_jobs`; versions of the settings, of `.env`, of the checkout and of what runs; the TLS mode saved, the one passed to the installer and the one it makes of it; what the agent has to build from | the request, `runAdminJob` statement by statement, compose replacing the agent under its own job when its code or its configuration changed, faults, the worker taking an agent task |
| `Installer` | `internal/cli/install.go`, `update.go`, the agent's edits of `.env` | `env`, `compose`, `services` (what was last started), `volume` (the password Postgres was initialised with), `due` (the domain a command is to bring up) | the five commands as sequences of read, truncate, write and `up`, which Compose refuses without images or sources to build; two detections of the address per render; a failure between any two |
| `GitHubSettings` | `admin.go` (PUT settings), `settings.go`, `github_app_provider.go` | `db` (three rows), `put` (what each PUT has yet to write), the mutex, cache and age of each provider | `WriteKey`, `Invalidate`, `BeginLoad`, `ReadKey`, `FinishLoad`, `Tick`, outages, cancelled requests |
| `DeploymentPage` | `worker.go` (logWriter), `logs.go`, the deployment page | `rows` (log chunks), `produced`/`passed` (the buffer lies between), `refused` (output in a chunk Postgres takes for no text), stream cursor, events on the wire, page text, status badge and requests in flight | `Write`, `Flush`, docker's exit, `fail`; a tick of the stream, its error; the page's listeners and interval |
| `Accounts` | `setup.go`, `auth.go` (bootstrap, login, logout), `oauth_github.go` | `users`, `admins`, `identity` (`user_identities`), `token` (`github_oauth_tokens`), cookies, what each request has read | `Start` (bootstrap), `BeginSetup`/`CountUsers`/`CommitSetup`, the callback statement by statement (`LookUp`, `CreateUser`, `Link`, `StoreToken`), `Disconnect`, a login renamed at GitHub, a request cut short, the API stopping |
| `Orgs` | `orgs.go`, `org_auth.go`, `projects.go`, `import_project.go` | `orgs`, `role`, `project`, what each request goes on with | for every handler the check of the role and the statement after it; a failure in between |
| `ApiRequests` | what `Accounts` and `Orgs` share | the step each request is at, the faults so far | |
| `Dashboard` | the pages of `apps/web`, one open at a time: composes the modules below | `page` and the variables of all of them | those of the page that is open |
| `*Proofs` | theorems, see below | | |
| `MC*` | constants for TLC | | |

The page modules (paths below `apps/web`):

| Module | Models | What it follows |
|---|---|---|
| `Entry` | `app/page.tsx`, `app/login`, `app/setup`, `components/app-shell.tsx` | where a browser is and which question it waits for, while setup, login and session change elsewhere |
| `TeamPages` | the switcher of `app-shell.tsx`, `app/(authed)/orgs` | the organization in the header, in `localStorage`, and the one the page was opened with; members, any number of writes to them, also those of a page that was left, and the lists that follow |
| `ProjectsPage` | `app/(authed)/projects` | the list, the create dialog with creates whose answer is late or lost, favourites in `localStorage` |
| `ImportPage` | `app/(authed)/import`, `lib/project-templates.ts` | search, repository, template, and what the import sends |
| `ProjectPage`, `LogTab`, `EnvTab` | `app/(authed)/projects/[id]`, `internal/api/envvars.go` | promotes and refreshes in flight, the newest deployments only; the stream of the chosen deployment; the keys of the chosen scope, with the handlers that store them |
| `DomainsPage` | `.../[id]/domains` | domains, the timer of each |
| `StoragePages` | `app/(authed)/storage`, `storage/[id]` | stores in `localStorage` and on the page, timers of pages that are open or gone, another tab's stores at any stage |
| `CronPage`, `LogsPage` | `app/(authed)/cron`, `logs` | jobs and their timers; the interval that adds lines |
| `AdminForm`, `AdminJobPanel` | `app/(authed)/admin`, `internal/api/admin.go` | fields, the PUT and the GETs under way; the row, the log and the polls of the job that is followed |
| `CommandPalette`, `ShellWidgets` | `components/` | the selected item; feedback, the G shortcuts, health banner, notifications |

`Deployments` and `AdminJobs` each compose `TaskQueue` (`INSTANCE`, tasks named
by deployment and by job) with their handlers. `Deployments` implements
`DeploymentLifecycle`, `ProdRouting` implements `ProdAlias`; `ProdRouting` and
`DeploymentPage` use the worker only through what these two say of it: a row is
published once, after its container exists, and attempts follow each other.

Conventions: a statement sent to Postgres, a call to Docker or Redis, and a
system call on a file are steps of their own wherever something can come in
between; what one process does between two of them is part of the step. A
definition that begins "A faulty ..." is the code with a plausible bug; nothing
uses it but the mutation tests listed in `PROJECT.json`, which check that the
property it is aimed at notices.

## Runs

| Run | Checks | What it shows |
|---|---|---|
| `deployments` | `ReadyIsBacked`, `AckedIsReady`, `StuckNeedsFault`, `SpentForever`, `ImplementsLifecycle`, `AcceptedEnds` | two deployments, two faults of any of seven kinds, agent on the same queue: READY always has a container behind it; a task is acknowledged only when READY was written; a row stuck in BUILDING takes a fault; a deployment whose attempt died after `docker run` is lost for good, since nothing frees the container's name; and the task of an accepted push leaves the queue |
| `deployments_shared_queue` (violated) | `PushIsBuilt` | finding 1 below |
| `routing_serial` | `RouteBacked`, `ImplementsAlias`, `UntakenGoesLive`, `NextPromoteHeals` | one promote at a time, two of three projects with one host: no host ever reaches a deployment of a project that does not have it, or one without a container (proved for races too); as long as nothing fails and nothing unpublished is promoted, rewriting the file is an alias switch of one project with a host of its own, and what is promoted goes live unless an older project has the host; afterwards the next complete rewrite restores every route, where an older project wins a shared host |
| `routing_lost_update` (violated) | `PromotedGoesLive` | finding 2 |
| `adminjobs` | `DoneIsSuccess`, `SuccessMeansApplied`, `SuccessIsFinal`, `JobVerdict` | a job of each type, settings saved with any TLS mode and commits pushed meanwhile, an agent with its sources in place, elsewhere or missing, one fault: although compose restarts the agent under its job, the job ends, with a verdict that is final and, as far as the domain, GitHub, the code and an untouched Let's Encrypt go, true |
| `installer_upgrades` | `DatabaseReachable`, `TemplateMatchesEnv`, `DomainKept` | any sequence of the five commands, one at a time, two of them failing half-way, on source and release instances, Compose refusing what it cannot build, two addresses detected: a password that makes a DSN at all survives; the domain an admin saved or `.env` had comes up, unless a command detects two different addresses within its own run; template and `.env` agree on TLS |
| `installer_overlap` (violated) | `DatabaseReachable` | finding 3 |
| `github_settings` | `ApiIsCurrent`, `StaleAtMostTTL` | two PUTs race with loads in the API and in the worker, one fault: the API answers with what is saved once no PUT is running; nobody uses stale or half-written settings longer than the cache lives |
| `deployment_page` | `ShownIsPrefix`, `OutputIsKept`, `StreamCatchesUp`, `BadgeSettles` | two attempts, one fault, a page opened at any moment: it shows the stored log in order and without gaps, in the end all of it; output is lost only to faults and with a chunk Postgres refuses as text; the status ends current or at a verdict |
| `accounts` | `FirstSetupWins`, `FirstIsAdmin`, `OrphanUserNeedsFault`, `LoginKeepsUser` | setups, a bootstrap and GitHub logins race, one fault: there is one instance admin at most, and one as soon as there is a user, unless the bootstrap made that user; without a fault no user is left that nobody can sign in as, and who only ever signs in through GitHub stays the same user |
| `orgs` | `AbandonedForever` | two requests of two people interleave, one fault: an organization that lost its administrator, or never got one because the second insert failed, never gets one |
| `dashboard` | `TypeOK`, `LandsSoon`, `WritesGoWhereListed`, `ExistingIsListed`, `ShownIsChosen`, `BannerIsProduction`, `TimersMatchPages`, `TypedIsKept`, `SelectionIsListed`, `AddedStays`, `VerdictSettles` | every page, with answers late, lost and out of order, other tabs and other users: the browser is not sent round in circles; writes go to the team that was listed when they were sent; lists, banner and panes catch up with what the page was told of, and each property names what it is not told of; what shows as in progress has the timer that ends it; nothing typed is lost; the job panel ends with the verdict |

The `TypeOK` of `Dashboard`, which has those of its pages as conjuncts, is checked by
its run and proved; those of the other modules are proved only. `Orgs` prefixes the
names of its specification (`OrgsSpec`, `OrgsTypeOK`), so that its proofs and those of
`Accounts` can be in one module. Deadlock is checked in every run but `dashboard`, where a page comes to
rest when the bounds on what happens around it are used up.

### Bounds, and why they are enough

* Deployments: two are enough for one to hold a worker slot the other needs;
  apart from the slots they share nothing. `MaxRetry` is 25 in the code: one
  retry shows every combination of a failed attempt and the next. Two faults let
  one hit the recovery from the other.
* Routing: two projects with a host each, one with two deployments, are the least
  in which a rewrite can disturb a neighbour and a promote can replace a
  predecessor; a third, older one shares the host of the second.
* Admin jobs: versions 0 and 1 (`MaxVersion`) tell "what was there when the
  admin asked" from "what came later"; one retry. Of TLS modes there are two,
  the one the installer knows and the others.
* Installer: `Secrets` bounds how often a secret can be generated: two, the
  first and one that should not have been; in `installer_upgrades` one of them
  has a "/" and makes no DSN (`UrlSafe`). Two detected addresses: each
  detection may return either.
* GitHub settings: two keys stand for three (new and old can mix, or one be
  missing), one saved value besides "unset", two ticks for 30 seconds.
* Deployment page: two pieces of output with a buffer one does not fill, at most
  four chunks read two at a time, two status requests in flight, so that
  answers can overtake each other; one view, opened at any time.
* Accounts: two emails for two setups that race, two requests, one GitHub account
  with a spare login it may change to. A second account could meet the first only
  by taking its old login or by both being linked to one user, and for accounts
  that were renamed or linked by hand nothing is promised.
* Dashboard: one page is open at a time, for what pages share is in
  `localStorage`, which other tabs may change. Two of whatever a page tells apart
  (teams, projects, deployments, repositories, names, stores, jobs) and as many
  requests as can overtake each other: two creates, two writes to a team and one
  change by somebody else, two refreshes and two promotes, three lists of
  variables, two polls. Of two deployments the API lists one (`Limit`; 50 in the
  code), of two lines of a job's log one (`LogLimit`; 1000). The 200 lines `logs/page.tsx` keeps are three
  (`Cap`), the counts of its invented lines two (`Batch`).
* Organizations: the founder's and one more, two people, so that one may remove
  the other between check and statement; one repository both may import.

The counters named `Max...` appear in guards of fault, input or retry actions
only, never in a guard of the code's own.

### Fairness

`Spec` has none (`Dashboard` adds that of its job panel to it); liveness is checked
under `FairSpec`:

* weak fairness of handler steps: a Go handler goes on to its next statement;
  blocking calls have deadlines, which are steps of their own;
* weak fairness of taking a task and of lease expiry: asynq's processor polls
  and its recoverer runs every minute, both in loops that only a crash ends;
  the worker and the API are restarted by compose (`restart: unless-stopped` in
  all four templates of `install.go`), so a crash is a step and not an end;
* Postgres comes back: compose restarts it in three of the four templates; in
  the released Cloudflare template the databases have no restart policy and
  this is the operator's doing;
* the agent is started again after it replaced itself (`AgentIsStarted`): the
  container that ran `compose up` may be gone before it started its successor,
  then the operator does it;
* the browser's intervals fire and answers arrive, while the deployment page or
  the admin page is open (`AdminJobPanel!Fairness`); no other page has a liveness
  property. Polls of the admin page may fail any number of times, but not for ever.

Nothing is assumed of GitHub, users, faults or the choice between success and
failure of a build. No strong fairness is used.

## Findings

1. *Worker and agent share one queue* (`apps/agent/main.go:39`,
   `apps/worker/main.go:34`): both start asynq servers on the default queue with
   disjoint handlers. The agent may take a build task as often as it has
   retries, and the push stays QUEUED, against `README.md:8`. Admin jobs suffer
   the same from the worker; `adminjobs` includes it.
2. *Concurrent promotes lose a route* (`traefik.go:41`): each lists all projects
   and renames a whole new file. The one that listed first may rename last; the
   other answered 200, its pointer is set and its route is missing until
   somebody promotes anything again.
3. *Overlapping commands lose the secrets* (`install.go:248`): `.env` is emptied
   before it is written. In the shortest trace the operator's
   `opencel update --build` reads it while the agent's job has it empty
   (`update.go:136`), writes it back with the directory of the sources and nothing
   else, and starts the services with an empty DSN; `opencel install` in its place
   would generate new secrets. The services cannot log in to Postgres either way.

Met while modelling, and in the models; the properties name these cases:
two projects whose organization's and own slug read the same when joined
(`acme`/`web-api`, `acme-web`/`api`) have one router, service and host, and the
older one keeps it (`traefik.go:67`); the generated password goes into the DSN as
it is, and with a "/" among its base64 digits, as two in five have, no server can
parse the DSN (`install.go:184`, `install.go:212`);
the agent and the installer name the TLS modes differently: what an admin saves
as `cloudflared` or `disabled` (`admin.go:45`) reaches `opencel install --tls`,
which knows `cloudflare` only (`install.go:242`) and writes the keys of Let's
Encrypt, as a self update does in any case (`apps/agent/main.go:277`): the job
reads success and the saved mode is not served; an agent built from a checkout at
another path loses its sources with the first job, for the installer makes the
directory *it* sees them at the one the next agent is given (`install.go:247`); a
released agent has no sources, takes the blank key for `/opt/opencel-src`
(`apps/agent/main.go:36`) and passes `--local-build`, so that neither of its jobs can
succeed, and the template it leaves cannot be started by `opencel update`; a
`--base-domain` that equals the detected one counts as not given (`install.go:189`);
a flush that cuts a UTF-8 character in two makes Postgres refuse both chunks, as
it does binary output (`worker.go:345`).

Met while reading; there is no behaviour to explore:
`README.md:8` promises builds of pull requests, `webhook_github.go` ignores the
event; `README.md:11` promises runtime logs, nothing writes the `runtime` stream;
the branch and root directory of an imported project are stored
(`import_project.go`) and never read; the dashboard tests a job for
`"SUCCEEDED"` (`admin/page.tsx:476`) where the agent writes `success`; the user
made by `BootstrapAdmin` is not an instance admin and setup is then closed
(`auth.go:48`, `setup.go:103`); setup's fallback slug runs in a transaction that
has already failed (`setup.go:129`); the agent never logs an
unterminated last line (`apps/agent/main.go:307`); a run of the installer without
`--github-key` empties the key file that compose mounts (`install.go:180`), although
`install.go:226` says "Preserve existing GitHub config unless explicitly
overridden".

Of the dashboard: the admin form is answered domain, TLS and update policy from
the environment (`admin.go:60`), so each save puts those back, and secrets typed
while a save is under way are emptied unsent (`admin/page.tsx:145`); a save after
a first load that failed stores blanks; a domain added while the project loads is
replaced (`domains/page.tsx:81`), and a project created then, or whose answer was
lost, is not in the list until the next visit; of a switch of the scope, and of two
refreshes, the answer that comes last is shown (`projects/[id]/page.tsx:107`,
`:116`); the banner of a production deployment that is not among the newest 50 is
gone (`deployments.go:28`), and of a job's log the lines after the first 1000, the
last error among them, are never shown (`admin.go:230`); a store that another tab
saved while provisioning stays so on this one; after a switch of the team in the header the open page
still works on the old one (`orgs/page.tsx:55`); a second template on the import
page keeps the first one's preset; an arrow key in an empty palette selects item
-1; a health banner that was dismissed stays away for a later failure; the guard
against reloading twice after a chunk error is reset by every mount; deleting a
project only shows a message; notifications and activity are lists in the source.
The properties of these pages name the cases they leave out (`early`, `stale`,
`behind`, `raced`, `outdated`, `left`, `astray`, `disturbed`).

## What is proved

`DeploymentsProofs`, for any set of deployments, retry limit, number of worker
slots, set of fault kinds and bound on faults, with or without the agent. The
only assumption is `DeploymentsAssumption`, the types of the constants.

| Theorem | States |
|---|---|
| `TypeCorrect` | `Spec => []TypeOK` |
| `ReadyIsAlwaysBacked` | `Spec => []ReadyIsBacked` |
| `AckedIsAlwaysReady` | `Spec => []AckedIsReady` |
| `SpentIsForever` | `Spec => SpentForever` |
| `StuckAlwaysNeedsFault` | `Spec => []StuckNeedsFault` |
| `Refinement` | `Spec => ImplementsLifecycle`: `Deployments` implements `DeploymentLifecycle` |

The argument. None of the properties is inductive: whether a row may become
READY depends on where the attempt is. `DepInv` adds to the types, per
deployment, `Coherent`, which ties the attempt's phase to the queue's view of the
task (an attempt that runs holds its task active, so no second one can start), and
`Backed`, which says what a phase has already achieved: an attempt past
`docker run` has its container and has not recorded it, one past the READY
update left the row READY, a completed task is one whose row is READY. The steps
of `DepInv` are one per action. `SpentForever` needs it because only the attempt that created
the container may publish it. `StuckNeedsFault` needs a second invariant,
`FaultFreeInv`: before the first fault, a task that waits belongs to a row that
is QUEUED or FAILED, and an attempt that is about to return an error has written
FAILED. `Refinement` maps each action to a step of the lifecycle or to a
stutter. TLC checked the invariants on the instance of `deployments`
before they were proved.

`ProdRoutingProofs`, for any sets of projects, deployments, hosts and handlers, any
order of creation and any bound on faults:

| Theorem | States |
|---|---|
| `RoutingTypeCorrect` | `Spec => []TypeOK` |
| `RouteIsAlwaysBacked` | `Spec => []RouteBacked`, however many promotes race |
| `SerialFileFollowsPointer` | with one handler, `Spec => []RouteFollowsPointer`; on a shared host the pointer of the oldest project that can be served |
| `SerialPromoteHeals` | with one handler, `Spec => NextPromoteHeals` |
| `SerialRefinement` | with one handler, `Spec => ImplementsAlias`: for projects with a host of their own `ProdRouting` implements `ProdAlias` |
| `HostsReachContainers` | with `DeploymentLifecycle` for the worker, `[]ReachesContainer`: a production host reaches a deployment whose container was created |
| `WorkerStepsAreAssumed` | every step of `DeploymentLifecycle` is one `ProdRouting` lets the worker take (`CreateRow`, `Publish`) or one no promote can see |

The argument. `RoutingInv` says of every place a route is copied to on its way
from the pointers to the file (snapshot, the file being prepared, the file) that
it names a deployment of a project that has the host, one that was promoted and,
from the lookup on, one whose container is recorded; that survives every
interleaving. The other
three are false when promotes race (finding 2), so they assume `OneAtATime` (`\E h : Handlers = {h}`), and rest on
`SerialInv`: between listing the projects and the rename the snapshot equals the
pointers, and what has been prepared of the new file is, per host, the deployment of
the oldest project that was looked up so far (`Serves`).

The last two join the two halves of the system: `ProdRouting` models the worker by
`CreateRow` and `Publish` alone, `Deployments` in full. `Refinement` says that
`Deployments` is a `DeploymentLifecycle`, `WorkerStepsAreAssumed` that nothing such a
worker may do was left out of the races, and `HostsReachContainers` takes the
conjunction of the two specifications, which share the rows. No run checks it, for
TLC takes no conjunction of specifications; of both halves alone the runs do.

The next five modules, each with its module's named assumption on the constants only,
unless the table says more; all bounds, numbers of processes, requests, people
and faults are arbitrary:

| Module | Theorems (property) | Inductive invariant |
|---|---|---|
| `AdminJobsProofs` | `JobsTypeCorrect`, `CompletedIsSuccess` (`DoneIsSuccess`), `SuccessIsApplied` (`SuccessMeansApplied`), `SuccessStays` (`SuccessIsFinal`) | `JobsInv`: until the first fault, versions only grow on their way from the settings to the services, an attempt holds its task active, and each phase has achieved its part of what the job was asked for; the mode passed to the installer, and what Traefik runs with, is Let's Encrypt as long as no other was saved (`TlsInv`) |
| `InstallerProofs` | `InstallerTypeCorrect`; for `Sequential` (one process, no torn writes) `DatabaseStaysReachable` (`DatabaseReachable`), `TemplateFitsEnv` (`TemplateMatchesEnv`) and `DomainIsKept` (`DomainKept`), for any set of addresses detected | per step of a command, what it has read or written of `.env` carries the password of the volume, a template that fits, the domain that is due. Without `Sequential` finding 3 refutes it |
| `GitHubSettingsProofs` | `SettingsTypeCorrect`, `ApiIsAlwaysCurrent` (`ApiIsCurrent`), `StaleForAtMostTTL` (`StaleAtMostTTL`) | `SettingsInv`: a provider whose load began after the last disturbance has read, or answers, what is stored; its age says which ones those are |
| `DeploymentPageProofs` | `PageTypeCorrect`, `PageShowsPrefix` (`ShownIsPrefix`), `LogKeepsOutput` (`OutputIsKept`) | `PageInv`: the stored rows are an increasing subsequence of what was written, complete up to the buffer, but for what is in a refused chunk, until a fault; and the page's text with the events on the wire is what the cursor has passed |
| `AccountsProofs` | `AccountsTypeCorrect`, `OnlyFirstSetupWins` (`FirstSetupWins`), `FirstUserIsAdmin` (`FirstIsAdmin`), `LoginsKeepTheirUser` (`LoginKeepsUser`), `OrphansNeedFaults` (`OrphanUserNeedsFault`) | `AccountsInv` and `IdentityInv`: callbacks run only once there is an admin, and an account that was neither renamed nor linked by hand, and every callback for it, has the login it started with |
| `AccountsProofs`, about `Orgs` | `OrgsTypeCorrect`, `AbandonedIsForever` (`AbandonedForever`) | `OrgsInv`: the organization a request goes on with exists, and one that does not has no members |

`DashboardProofs`, for any sets of organizations, people, projects, deployments,
stores, jobs and so on and any bounds; assumed is
`DashboardAssumption` only, which says that values the pages tell apart are different,
that there is more than one organization, a repository to search for and a template,
and of which type each bound is.

| Theorem | States |
|---|---|
| `PagesInvariant` | `Spec => []DashInv`: the inductive invariants of all pages |
| `DashboardTypes` | `Spec => []TypeOK` |
| `ChainsEnd` | `Spec => []LandsSoon` |
| `TeamsKeepApart` | `Spec => []WritesGoWhereListed` |
| `ListsShowAll` | `Spec => []ExistingIsListed` |
| `ChoicesAreShown` | `Spec => []ShownIsChosen` |
| `BannerFollows` | `Spec => []BannerIsProduction` |
| `TimersRun` | `Spec => []TimersMatchPages` |
| `FormsKeep` | `Spec => []TypedIsKept` |
| `SelectionStays` | `Spec => []SelectionIsListed` |
| `DomainsStay` | `Spec => AddedStays` |

The argument. Each page has an invariant of its own, proved from its `Init` and one
step per handler; a step of `Dashboard` is a step of the open page and a stutter of
every other (`PagesApart`), so the conjunction, `DashInv`, is inductive too. What the
invariants have to add to what is checked:

* `EntryInv`: where the browser can be after one redirect (`OnceMore`: there is at
  most one more) and after two (`Stays`), for every combination of answers.
* `TeamsInv`: a write that waits for its answer on the open page is of that page's
  organization, those of pages that were left have nobody waiting; a list of members
  that was made, and that the API has not changed since, is the page's; and once none
  is under way or will be (`WillList`), the newest one is shown.
* `ListInv`, `ImportInv`: what the load has got so far is all that was there when it
  was answered, and what is not in it is a create the page still waits for or was not
  told of; there is one search at most, and it is the last one.
* `ProjectInv`, `VariablesInv`: the properties speak of a page that rests, so the
  invariants speak of what is under way. Once no promote (save) that was done waits
  for its answer, either the newest refresh has arrived and brought the pointer (what
  is stored for the scope), or it is under way and will (`PointerComes`,
  `ListComes`). Numbering the refreshes (`Numbered`, `ListsNumbered`) is what makes
  "the newest" well defined for any number of them. `KnownIsReached`: the list that
  comes with the newest refresh was made after whatever was shown or promoted had been
  created, and a list has the newest of what it reaches; so the banner's row is in it.
* `OutputInv`: there is one stream at most, of the deployment that was chosen last,
  and the pane holds exactly the beginning of the output that it has sent.
* `StorageInv`: in what is shown, what is saved, and what each orphaned timer would
  write back, a store that is provisioning has a timer on the page, was left or was
  saved so by another tab.
* `DomainsInv`, `CronInv`, `WidgetsInv`: the timers with the types, and that rows
  before the project has arrived are of names added since. `LogsInv`: the whole list
  is sorted, whatever the filters let through.
* `SettingsInv`: nothing typed is waiting while a load is under way; an answer that
  is not old carries what is stored, and so does an untouched field when no load is.
* `PanelInv`, `PaletteInv`: that every poll is of a job there is; that the selected
  item lies within what is listed.

Model-checked only: all liveness (`AcceptedEnds`, `UntakenGoesLive`, `JobVerdict`,
`StreamCatchesUp`, `BadgeSettles`, `VerdictSettles`: the prover has no ENABLED). Every
invariant and every action property a passing run checks is proved, and so are both
refinements.

## What is not modelled

* Passwords, JWTs, the cookies of an OAuth login, AES (`internal/crypto`) and
  webhook signatures are cryptography over one request.
* `internal/github`: requests to a service, whose failures are failures of an
  attempt; `internal/config`, `server.go`, migrations, `doctor`: nothing changes
  after the start.
* The text of compose files, Dockerfiles and scripts, the prompts and firewall
  rules of the installer, and the key file (`install.go:180` empties it when the
  flag is missing: one statement).
* Of the dashboard: overview, analytics, usage, integrations, the account's and
  the project's settings (one load, or constants, and buttons that show a
  message), the activity feed, the reload after a chunk error, and `components/ui`.

Simplifications to know of: `Installer.OpenForEdit` reads and empties `.env` in
one step, and reads the saved settings at once; `docker compose up` starts all that
changed or nothing there (`AdminJobs` has the agent replaced apart from the rest); a
settings row that cannot be decrypted counts as unset; deployments' events are left
out, nothing reads them; a push that GitHub delivers again is another deployment, and
the project row it may put back (`webhook_github.go:73`) is not followed; a container
stops when the host restarts because `docker run` is given no restart policy, and
never otherwise; of the lists of projects and of stores, what a search, a filter or
the choice of a grid hides or arranges is left out; of the admin page's jobs only the
row of the one that is followed is kept, and an answer for an earlier one may say
anything.

## Plan

Done, in order of importance: deployments, production routing, admin jobs,
installer, settings, logs and page, accounts, organizations, each with its
proofs, and the pages of the dashboard with theirs. What could follow:

1. Redelivered and reordered pushes in `Deployments`: the type decided by the
   default branch of the payload, the project row put back by an old one.
2. The installer with two processes and a lock, to show what finding 3 needs.

The set of runs is kept small, one per question: a new module brings one run, and
a run whose question a theorem has settled for good may make room for it.
