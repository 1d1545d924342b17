----------------------------- MODULE Dashboard -----------------------------
(***************************************************************************)
(* The dashboard (apps/web) in one browser tab: the page that is open,     *)
(* with the API as far as that page uses it.  Pages share no state in the  *)
(* browser but localStorage, and what a page keeps there is in its own     *)
(* module, with other tabs as an action; so a tab shows one page here, and *)
(* leaving it is an action of that page.                                   *)
(*                                                                         *)
(* A behaviour is one of one page's module; the instances are named for    *)
(* the pages.                                                              *)
(***************************************************************************)
EXTENDS Naturals, FiniteSets

CONSTANTS MaxAnswers, Orgs, People, None, MaxChanges, MaxWrites, Projects, MaxLatest,
          MaxCreates, MaxForeign, Queries, Templates, Blank, Typed, Chosen, MaxImports,
          MaxBuilds, Limit, MaxPromotes, Deployments, MaxOutput, Keys, NoKey,
          MaxRequests, Names, Invented, MaxRows, Stores, KindOf, Kinds, Jobs, Enabled,
          Paused, MaxRuns, Cap, Batch, MaxLines, Values, Default, MaxJobs, MaxChunks,
          LogLimit, MaxPolls, Fixed, MaxProjects, MaxLoads, Notes, Old

\* What the pages take of their constants.
ASSUME DashboardAssumption ==
  /\ None \notin Nat \cup Orgs \cup Queries \cup Deployments \cup Stores \cup Jobs
  /\ Cardinality(Orgs) > 1 /\ Queries # {} /\ Templates # {}
  /\ {Blank, Typed, Chosen, None} \cap Templates = {}
  /\ Cardinality({Blank, Typed, Chosen, Default, None}) = 5
  /\ {Blank, Default, None} \cap Values = {}
  /\ NoKey \notin Keys /\ Invented \notin Names /\ Old \subseteq Notes
  /\ Kinds \subseteq {"postgres", "redis", "kv", "blob"} /\ KindOf \in [Stores -> Kinds]
  /\ Enabled \cup Paused \subseteq Jobs /\ Enabled \cap Paused = {}
  /\ Batch \in 1..Cap /\ Cap \in Nat
  /\ {MaxAnswers, MaxChanges, MaxWrites, MaxLatest, MaxCreates, MaxForeign, MaxOutput,
      MaxLines, MaxChunks, LogLimit, Fixed, MaxProjects} \subseteq Nat
  /\ {MaxBuilds, Limit, MaxImports, MaxPromotes, MaxJobs, MaxRows, MaxRuns, MaxPolls,
      MaxLoads} \subseteq Nat \ {0}
  /\ MaxRequests \in Nat \ {0, 1}

VARIABLE page          \* the page that is open
VARIABLES
  \* Entry: where a browser is sent
  needsSetup, session, github, at, entryGate, submitting, button, hops, entryChanges,
  \* TeamPages: the organization and the teams page
  mine, members, teamsStored, header, teamsOrgs, teamsPage, teamsShown, requests,
  teamsLists, teamsStale, teamsChanges,
  \* ProjectsPage: the list of projects
  exist, deployed, favorites, listStep, answer, listed, latest, hearts,
  createOpen, filled, creates, listStale, listChanges,
  \* ImportPage: importing a repository
  importStored, importOrgs, orgID, importGate, connected, importQuery, searches,
  importLoading, repos, importAsked, repo, slug, preset, template, imports, asks,
  importLeft,
  \* ProjectPage: a project: its deployments
  prod, built, ready, promotes, refreshes, count, loaded, deployments, projectNewest,
  behind, projectForeign,
  \* LogTab: a project: its log stream
  written, outputTab, logsFor, logs, streams,
  \* EnvTab: a project: its environment variables
  env, scope, envs, key, saves, variablesLists, variablesAsked, variablesNewest, raced,
  variablesForeign,
  \* DomainsPage: a project: its domains
  domainsLoading, pending, valid, domainsTimers, addOpen, newDomain, early,
  \* StoragePages: the storage pages
  saved, created, timer, snap, storageView, storageShown, storageOpen, type,
  named, plan, detail, storageTab, storageQuery, running, answers, outdated,
  storageLeft, storageForeign,
  \* CronPage: the cron page
  jobs, enabled, last, cronTimers, menu, cronForm, name, path,
  \* LogsPage: the logs page
  logsStep, projects, lines, streaming, intervals, logsProject, level, number,
  \* AdminForm: the admin page: its form
  settingsStored, fields, settingsLoading, put, gets, unsent, touched, astray,
  settingsForeign,
  \* AdminJobPanel: the admin page: its job panel
  status, chunks, jobID, job, jobLogs, polls,
  \* CommandPalette: on every page: the command palette
  paletteOpen, paletteQuery, selected, found, loads, disturbed,
  \* ShellWidgets: on every page: feedback, shortcuts, banner and bell
  panelOpen, draft, sent, closers, gPressed, gTimers, help, health, checks, dismissed,
  bellOpen, read, kept

Entering == INSTANCE Entry WITH
  gate <- entryGate, changes <- entryChanges, MaxChanges <- MaxAnswers
Teams == INSTANCE TeamPages WITH
  stored <- teamsStored, orgs <- teamsOrgs, page <- teamsPage, shown <- teamsShown,
  lists <- teamsLists, stale <- teamsStale, changes <- teamsChanges
ProjectList == INSTANCE ProjectsPage WITH
  step <- listStep, list <- listed, stale <- listStale,
  changes <- listChanges, MaxChanges <- MaxForeign
Importing == INSTANCE ImportPage WITH
  stored <- importStored, orgs <- importOrgs, gate <- importGate, query <- importQuery,
  loading <- importLoading, asked <- importAsked, left <- importLeft
Project == INSTANCE ProjectPage WITH
  project <- loaded, newest <- projectNewest, foreign <- projectForeign
Output == INSTANCE LogTab WITH
  tab <- outputTab, MaxChunks <- MaxOutput
Variables == INSTANCE EnvTab WITH
  lists <- variablesLists, asked <- variablesAsked, newest <- variablesNewest,
  foreign <- variablesForeign
Domains == INSTANCE DomainsPage WITH
  loading <- domainsLoading, timers <- domainsTimers
Storage == INSTANCE StoragePages WITH
  view <- storageView, shown <- storageShown, open <- storageOpen, tab <- storageTab,
  query <- storageQuery, left <- storageLeft, foreign <- storageForeign
Cron == INSTANCE CronPage WITH
  timers <- cronTimers, form <- cronForm
Logs == INSTANCE LogsPage WITH
  step <- logsStep, project <- logsProject
Settings == INSTANCE AdminForm WITH
  stored <- settingsStored, form <- fields, loading <- settingsLoading,
  foreign <- settingsForeign
Panel == INSTANCE AdminJobPanel
Palette == INSTANCE CommandPalette WITH
  open <- paletteOpen, query <- paletteQuery
Widgets == INSTANCE ShellWidgets

Pages ==
  {"entry", "teams", "list", "import", "project", "output", "variables", "domains",
   "storage", "cron", "logs", "settings", "panel", "palette", "widgets"}

\* Whatever requests, timers, other tabs and other users do, the page that is open
\* keeps the shape its handlers expect: no list, form or dialog is left half changed.
\* The state of the others is the one they start with.
TypeOK ==
  /\ page \in Pages
  /\ page = "entry" => Entering!TypeOK
  /\ page = "teams" => Teams!TypeOK
  /\ page = "list" => ProjectList!TypeOK
  /\ page = "import" => Importing!TypeOK
  /\ page = "project" => Project!TypeOK
  /\ page = "output" => Output!TypeOK
  /\ page = "variables" => Variables!TypeOK
  /\ page = "domains" => Domains!TypeOK
  /\ page = "storage" => Storage!TypeOK
  /\ page = "cron" => Cron!TypeOK
  /\ page = "logs" => Logs!TypeOK
  /\ page = "settings" => Settings!TypeOK
  /\ page = "panel" => Panel!TypeOK
  /\ page = "palette" => Palette!TypeOK
  /\ page = "widgets" => Widgets!TypeOK

entryVars ==
  <<needsSetup, session, github, at, entryGate, submitting, button, hops,
    entryChanges>>
teamsVars ==
  <<mine, members, teamsStored, header, teamsOrgs, teamsPage, teamsShown,
    requests, teamsLists, teamsStale, teamsChanges>>
listVars ==
  <<exist, deployed, favorites, listStep, answer, listed, latest, hearts,
    createOpen, filled, creates, listStale, listChanges>>
importVars ==
  <<importStored, importOrgs, orgID, importGate, connected, importQuery,
    searches, importLoading, repos, importAsked, repo, slug, preset, template, imports,
    asks, importLeft>>
projectVars ==
  <<prod, built, ready, promotes, refreshes, count, loaded, deployments,
    projectNewest, behind, projectForeign>>
outputVars ==
  <<written, outputTab, logsFor, logs, streams>>
variablesVars ==
  <<env, scope, envs, key, saves, variablesLists, variablesAsked,
    variablesNewest, raced, variablesForeign>>
domainsVars ==
  <<domainsLoading, pending, valid, domainsTimers, addOpen, newDomain,
    early>>
storageVars ==
  <<saved, created, timer, snap, storageView, storageShown,
    storageOpen, type, named, plan, detail, storageTab, storageQuery, running, answers,
    outdated, storageLeft, storageForeign>>
cronVars ==
  <<jobs, enabled, last, cronTimers, menu, cronForm, name, path>>
logsVars ==
  <<logsStep, projects, lines, streaming, intervals, logsProject, level,
    number>>
settingsVars ==
  <<settingsStored, fields, settingsLoading, put, gets, unsent, touched,
    astray, settingsForeign>>
panelVars ==
  <<status, chunks, jobID, job, jobLogs, polls>>
paletteVars ==
  <<paletteOpen, paletteQuery, selected, found, loads, disturbed>>
widgetsVars ==
  <<panelOpen, draft, sent, closers, gPressed, gTimers, help, health,
    checks, dismissed, bellOpen, read, kept>>
vars == <<page, entryVars, teamsVars, listVars, importVars, projectVars, outputVars,
          variablesVars, domainsVars, storageVars, cronVars, logsVars, settingsVars,
          panelVars, paletteVars, widgetsVars>>

\* A browser may have been used before: that concerns the teams page only.
Init ==
  /\ page \in Pages /\ (page = "teams" \/ teamsStored = None)
  /\ Entering!Init
  /\ Teams!Init
  /\ ProjectList!Init
  /\ Importing!Init
  /\ Project!Init
  /\ Output!Init
  /\ Variables!Init
  /\ Domains!Init
  /\ Storage!Init
  /\ Cron!Init
  /\ Logs!Init
  /\ Settings!Init
  /\ Panel!Init
  /\ Palette!Init
  /\ Widgets!Init

\* Only this page takes a step.
Only(p) ==
  /\ page = p /\ UNCHANGED page
  /\ IF p = "entry" THEN TRUE ELSE UNCHANGED entryVars
  /\ IF p = "teams" THEN TRUE ELSE UNCHANGED teamsVars
  /\ IF p = "list" THEN TRUE ELSE UNCHANGED listVars
  /\ IF p = "import" THEN TRUE ELSE UNCHANGED importVars
  /\ IF p = "project" THEN TRUE ELSE UNCHANGED projectVars
  /\ IF p = "output" THEN TRUE ELSE UNCHANGED outputVars
  /\ IF p = "variables" THEN TRUE ELSE UNCHANGED variablesVars
  /\ IF p = "domains" THEN TRUE ELSE UNCHANGED domainsVars
  /\ IF p = "storage" THEN TRUE ELSE UNCHANGED storageVars
  /\ IF p = "cron" THEN TRUE ELSE UNCHANGED cronVars
  /\ IF p = "logs" THEN TRUE ELSE UNCHANGED logsVars
  /\ IF p = "settings" THEN TRUE ELSE UNCHANGED settingsVars
  /\ IF p = "panel" THEN TRUE ELSE UNCHANGED panelVars
  /\ IF p = "palette" THEN TRUE ELSE UNCHANGED paletteVars
  /\ IF p = "widgets" THEN TRUE ELSE UNCHANGED widgetsVars

Next ==
  \/ Only("entry") /\ Entering!Next
  \/ Only("teams") /\ Teams!Next
  \/ Only("list") /\ ProjectList!Next
  \/ Only("import") /\ Importing!Next
  \/ Only("project") /\ Project!Next
  \/ Only("output") /\ Output!Next
  \/ Only("variables") /\ Variables!Next
  \/ Only("domains") /\ Domains!Next
  \/ Only("storage") /\ Storage!Next
  \/ Only("cron") /\ Cron!Next
  \/ Only("logs") /\ Logs!Next
  \/ Only("settings") /\ Settings!Next
  \/ Only("panel") /\ Panel!Next
  \/ Only("palette") /\ Palette!Next
  \/ Only("widgets") /\ Widgets!Next

\* The admin page polls for its job while it is open; no other page has a duty.
Spec == Init /\ [][Next]_vars /\ (page = "panel" => Panel!Fairness)

(***************************************************************************)
(* Properties: those of the pages, by the names they have there.           *)
(***************************************************************************)

\* Entry: two redirects after an answer changed or somebody acted, the browser is
\* where it stays.
LandsSoon == Entering!LandsSoon

\* TeamPages: what the user asks for is done to the organization the page showed when
\* it was asked, and the list of members follows, unless the page was told too late:
\* it was left meanwhile, or a request that was answered out of turn overtook it.
WritesGoWhereListed == Teams!WritesGoWhereListed /\ Teams!MembersAreShown

\* ProjectsPage and StoragePages: what exists is listed, but for what was created or
\* changed without the page being told.
ExistingIsListed == ProjectList!ExistingIsListed /\ Storage!StoredIsShown

\* ImportPage, LogTab and EnvTab: what is shown is what was searched, opened or
\* chosen last.  The first two order their answers; EnvTab does not, and there an
\* answer that was overtaken, a failure or a switch under a save is excepted, until
\* the next switch or save that is made with nothing under way.
ShownIsChosen ==
  /\ Importing!ReposAreOfAsked
  /\ Output!LogsAreOfChosen
  /\ Variables!ListIsOfScope

\* ProjectPage: the banner, if there is one, is that of the deployment in production,
\* and there is one when that deployment is among those the API lists, unless a newer
\* refresh overtook an older one, a request failed or somebody else promoted.
BannerIsProduction == Project!BannerIsProduction

\* DomainsPage: a domain goes from the list by its own button only.
AddedStays == Domains!AddedStays

\* Whatever is shown as in progress - a store, a domain, a cron job, the live lines of
\* the logs, a G that waits for its second key - has the timer that ends or feeds it.
TimersMatchPages ==
  /\ Storage!StuckNeedsLeaving
  /\ Domains!PendingHasTimer
  /\ Cron!RunningHasTimer
  /\ Logs!OneStream
  /\ Widgets!PrefixHasTimer

\* AdminForm and ShellWidgets: what was typed stays until it was sent, and what was
\* not touched is what is stored.
TypedIsKept ==
  /\ Settings!TypedIsKept
  /\ Settings!UntouchedIsStored
  /\ Widgets!FeedbackIsKept

\* CommandPalette: the selected item is one of those listed.
SelectionIsListed == Palette!SelectionIsListed

\* AdminJobPanel: the panel comes to show the verdict of a job that has ended for good
\* and the lines of its log that the API gives, and stays so.
VerdictSettles == Panel!VerdictSettles

=============================================================================
