----------------------------- MODULE Installer -----------------------------
(***************************************************************************)
(* The commands that rewrite an instance's configuration on the host:      *)
(*   "install"   opencel install, by the operator (internal/cli/install.go)*)
(*   "apply"     the agent's apply_settings job (apps/agent/main.go)       *)
(*   "self"      the agent's self_update job                               *)
(*   "build"     opencel update --build, or its fallback (update.go)       *)
(*   "update"    opencel update from released images                       *)
(* All work on one .env and one docker-compose.yml, statement after        *)
(* statement and without a lock; os.WriteFile empties a file before it     *)
(* writes it.  The agent edits .env, then runs the installer, which reads  *)
(* it back.                                                                *)
(*                                                                         *)
(* Of .env the model keeps the base domain, one generated secret (the      *)
(* Postgres password stands for the JWT secret and the encryption key too, *)
(* which are treated alike), the DSN that repeats it, and the TLS switch.  *)
(* What docker compose up does is all or nothing here: module AdminJobs    *)
(* has the services recreated one by one.                                  *)
(***************************************************************************)
EXTENDS Naturals

CONSTANTS Operators,    \* who runs opencel on the host, one command at a time
          Agents,       \* who runs admin jobs, one at a time: apart, commands overlap
          None,         \* a key, file or choice that is not there
          Secrets,      \* bound: values randB64 may still return
          UrlSafe,      \* those without a "/" among their base64 digits
          Detections,   \* domains defaultBaseDomain may return, call by call
          Domains,      \* domains an operator or an admin may choose
          Builds,       \* "source" and "release" installs
          InstallTls,   \* TLS modes given to opencel install
          SettingsTls,  \* TLS modes an admin may save
          FaultKinds, MaxFaults

AllFaults == {"fail", "torn"}

Unparsable == "unparsable"    \* what a DSN may be

ASSUME InstallerAssumption ==
  /\ None \notin Secrets \cup {Unparsable}
  /\ UrlSafe \subseteq Secrets
  /\ Builds \subseteq {"source", "release"}
  /\ InstallTls \subseteq {"letsencrypt", "cloudflare"}
  /\ SettingsTls \subseteq {"letsencrypt", "cloudflared", "disabled"}
  /\ FaultKinds \subseteq AllFaults
  /\ MaxFaults \in Nat

Procs == Operators \cup Agents

VARIABLES env,        \* .env
          compose,    \* docker-compose.yml: which of the four templates
          services,   \* what the running services were last started with
          volume,     \* the password Postgres' volume was initialised with
          settings,   \* base domain and TLS mode saved in Postgres
          used,       \* secrets generated so far
          pc, cmd,    \* of each runner: where it is, and its command
          existing,   \* what it read from .env
          due,        \* history: the domain it is to bring up, None if it may be any
          faults

confVars == <<env, compose>>
liveVars == <<services, volume>>
procVars == <<pc, cmd, existing, due>>
vars == <<env, compose, services, volume, settings, used, pc, cmd, existing, due, faults>>

\* The DSN is a URL with the password put into it as it is: a "/" ends the host part,
\* and no server or worker can parse what comes out.
DsnOf(password) == IF password \in UrlSafe THEN password ELSE Unparsable

SomeDomains == Domains \cup Detections \cup {None}
Env == [domain : SomeDomains,
        password : Secrets \cup {None}, dsn : UrlSafe \cup {Unparsable, None},
        tls : {"true", "false", None},
        images : BOOLEAN]    \* does it name the images or the sources to build them from?
EmptyFile == [domain |-> None, password |-> None, dsn |-> None, tls |-> None,
              images |-> FALSE]

\* The template: where the images come from, and whether Traefik serves TLS.
Templates == [build : {"source", "release"}, tls : BOOLEAN]

Commands == [kind : {"install", "apply", "self", "build", "update"},
             tls : {"letsencrypt", "cloudflare", "cloudflared", "disabled"},
             domain : Domains \cup {None},
             source : BOOLEAN]

Points == {"idle", "edit", "filling", "read", "write", "rendering", "compose", "up"}

TypeOK ==
  /\ env \in Env
  /\ compose \in Templates \cup {None}
  /\ services \in [env : Env, compose : Templates] \cup {None}
  /\ volume \in Secrets \cup {None}
  /\ settings \in [domain : Domains \cup {None}, tls : SettingsTls \cup {None}]
  /\ used \subseteq Secrets
  /\ pc \in [Procs -> Points]
  /\ \A p \in Procs : pc[p] = "idle" \/ cmd[p] \in Commands
  /\ existing \in [Procs -> Env]
  /\ due \in [Procs -> SomeDomains]
  /\ faults \in 0..MaxFaults

Init ==
  /\ env = EmptyFile /\ compose = None
  /\ services = None /\ volume = None
  /\ settings = [domain |-> None, tls |-> None]
  /\ used = {}
  /\ pc = [p \in Procs |-> "idle"]
  /\ cmd = [p \in Procs |-> None]
  /\ existing = [p \in Procs |-> EmptyFile]
  /\ due = [p \in Procs |-> None]
  /\ faults = 0

At(p, here, there) == pc[p] = here /\ pc' = [pc EXCEPT ![p] = there]

\* The dashboard saves settings in Postgres; nothing else happens yet.
SaveSettings ==
  /\ services # None
  /\ settings' \in [domain : Domains, tls : SettingsTls]
  /\ settings' # settings
  /\ UNCHANGED <<confVars, liveVars, used, procVars, faults>>

(***************************************************************************)
(* Starting a command.                                                     *)
(***************************************************************************)
\* An apply is to bring up the domain that was saved, a command that is given none
\* the one .env has.
Begin(p, c, first) ==
  /\ At(p, "idle", first)
  /\ cmd' = [cmd EXCEPT ![p] = c]
  /\ due' = [due EXCEPT ![p] = CASE c.domain = None -> env.domain
                               [] c.kind = "apply" -> c.domain
                               [] OTHER -> None]
  /\ UNCHANGED <<confVars, liveVars, settings, used, existing, faults>>

\* --base-domain may be given or not; --tls is given or detected.
Install(p) ==
  \E t \in InstallTls, d \in Domains \cup {None}, b \in Builds :
    /\ Begin(p, [kind |-> "install", tls |-> t, domain |-> d,
                 source |-> b = "source"], "read")

AppliedTls == IF settings.tls = None THEN "letsencrypt" ELSE settings.tls

\* The agent runs the installer with --local-build: its directory of sources is never
\* empty, for the blank one of the release templates is replaced by the default.  It
\* passes on the saved mode; of the three the installer knows one.
ApplySettings(p) ==
  /\ services # None
  /\ Begin(p, [kind |-> "apply", tls |-> AppliedTls, domain |-> settings.domain,
               source |-> TRUE], "edit")

\* A released agent fails to fetch the sources it does not have and does no more.
SelfUpdate(p) ==
  /\ services # None /\ services.compose.build = "source"
  /\ Begin(p, [kind |-> "self", tls |-> "letsencrypt", domain |-> None,
               source |-> TRUE], "read")

\* With --build, or when no image can be pulled, the services are built from a
\* checkout of the repository.
Update(p) ==
  /\ compose # None
  /\ \/ Begin(p, [kind |-> "update", tls |-> "letsencrypt", domain |-> None,
                  source |-> FALSE], "up")
     \/ Begin(p, [kind |-> "build", tls |-> "letsencrypt", domain |-> None,
                  source |-> TRUE], "edit")

(***************************************************************************)
(* updateDotEnv (the agent) and upsertEnvFileKV (opencel update --build):  *)
(* the file is read and, a few instructions later, emptied to be written.  *)
(***************************************************************************)
OpenForEdit(p) ==
  /\ At(p, "edit", "filling")
  /\ existing' = [existing EXCEPT ![p] = env]
  /\ env' = EmptyFile
  /\ UNCHANGED <<compose, liveVars, settings, used, cmd, due, faults>>

\* The agent sets the base domain if one is saved, and the TLS keys in any case:
\* only "cloudflared" means no TLS.  opencel update sets the directory of the sources.
Edited(c, e) ==
  IF c.kind = "build" THEN [e EXCEPT !.images = TRUE]
  ELSE [e EXCEPT !.domain = IF c.domain = None THEN @ ELSE c.domain,
                 !.tls = IF c.tls = "cloudflared" THEN "false" ELSE "true"]

FillEdited(p) ==
  /\ At(p, "filling", IF cmd[p].kind = "build" THEN "compose" ELSE "read")
  /\ env' = Edited(cmd[p], existing[p])
  /\ UNCHANGED <<compose, liveVars, settings, used, cmd, existing, due, faults>>

(***************************************************************************)
(* opencel install.                                                        *)
(***************************************************************************)

\* A faulty ReadEnv: an earlier installation is not looked at.
ReadNothing(p) ==
  /\ At(p, "read", "write")
  /\ existing' = [existing EXCEPT ![p] = EmptyFile]
  /\ UNCHANGED <<env, compose, liveVars, settings, used, cmd, due, faults>>

\* (It then writes the GitHub key file: the key it was given, or nothing.)
ReadEnv(p) ==
  /\ At(p, "read", "write")
  /\ existing' = [existing EXCEPT ![p] = env]
  /\ UNCHANGED <<env, compose, liveVars, settings, used, cmd, due, faults>>

OpenEnv(p) ==
  /\ At(p, "write", "rendering")
  /\ env' = EmptyFile
  /\ UNCHANGED <<compose, liveVars, settings, used, cmd, existing, due, faults>>

\* A faulty DomainFor: the existing domain is not preferred.
DomainAsWanted(c, e, first, second) ==
  IF c.kind = "install" /\ c.domain # None THEN c.domain ELSE first

\* The domain is the given one or a detected one.  If it equals what a second
\* detection returns, it counts as not given and the existing one is preferred.
\* (The agent runs the installer without --base-domain.)
DomainFor(c, e, first, second) ==
  LET wanted == IF c.kind = "install" /\ c.domain # None THEN c.domain ELSE first
  IN IF wanted = second /\ e.domain # None THEN e.domain ELSE wanted

\* Secrets that are not there are generated, the DSN is built from the password.
Rendered(c, e, first, second, new) ==
  LET password == IF e.password = None THEN new ELSE e.password
  IN [domain |-> DomainFor(c, e, first, second),
      password |-> password,
      dsn |-> IF e.dsn = None THEN DsnOf(password) ELSE e.dsn,
      tls |-> IF c.tls = "cloudflare" THEN "false" ELSE "true",
      images |-> TRUE]

\* Two detections that differ may move the instance to the domain of the first.
Render(p) ==
  /\ At(p, "rendering", "compose")
  /\ \E first, second \in Detections, new \in Secrets \ used :
       /\ env' = Rendered(cmd[p], existing[p], first, second, new)
       /\ used' = IF existing[p].password = None THEN used \cup {new} ELSE used
       /\ due' = IF first = second THEN due ELSE [due EXCEPT ![p] = None]
  /\ UNCHANGED <<compose, liveVars, settings, cmd, existing, faults>>

\* A faulty TemplateTls: the source templates are taken to be those with TLS.
TemplateTlsAlways(p) == cmd[p].source \/ cmd[p].tls # "cloudflare"

\* The installer goes by its mode, opencel update by the TLS key it has read.
TemplateTls(p) == IF cmd[p].kind = "build" THEN existing[p].tls # "false"
                                           ELSE cmd[p].tls # "cloudflare"

WriteCompose(p) ==
  /\ At(p, "compose", "up")
  /\ compose' = [build |-> IF cmd[p].source THEN "source" ELSE "release",
                 tls |-> TemplateTls(p)]
  /\ UNCHANGED <<env, liveVars, settings, used, cmd, existing, due, faults>>

\* The command ends.
Ends(p) ==
  /\ cmd' = [cmd EXCEPT ![p] = None]
  /\ existing' = [existing EXCEPT ![p] = EmptyFile]
  /\ due' = [due EXCEPT ![p] = None]

\* A source template is built from a checkout.  The operator's commands bring one;
\* the agent, and opencel update, go by what the services were started from.
HasSources(p) ==
  \/ cmd[p].kind \in {"install", "build"}
  \/ services # None => services.compose.build = "source"

\* Compose takes no template without what .env gives it to fill in the images.
CanStart(p) == env.images /\ (compose.build = "release" \/ HasSources(p))

\* docker compose up: the services run with what the two files say, and Postgres
\* initialises its volume the first time.
Up(p) ==
  /\ At(p, "up", "idle")
  /\ CanStart(p)
  /\ services' = [env |-> env, compose |-> compose]
  /\ volume' = IF volume = None THEN env.password ELSE volume
  /\ Ends(p)
  /\ UNCHANGED <<confVars, settings, used, faults>>

\* Compose refuses.  An agent may have lost its sources: the installer it runs makes
\* the directory it sees them at the one the next agent is given.
UpFails(p) ==
  /\ At(p, "up", "idle")
  /\ ~CanStart(p) \/ cmd[p].kind \in {"apply", "self"}
  /\ Ends(p)
  /\ UNCHANGED <<confVars, liveVars, settings, used, faults>>

(***************************************************************************)
(* A command fails, or is killed, between two steps ("fail"), or after     *)
(* .env was emptied and before it was written ("torn": a full disk does).  *)
(***************************************************************************)
Fails(p) ==
  /\ pc[p] # "idle"
  /\ LET kind == IF pc[p] \in {"filling", "rendering"} THEN "torn" ELSE "fail"
     IN kind \in FaultKinds
  /\ faults < MaxFaults
  /\ faults' = faults + 1
  /\ pc' = [pc EXCEPT ![p] = "idle"]
  /\ Ends(p)
  /\ UNCHANGED <<confVars, liveVars, settings, used>>

Next ==
  \/ SaveSettings
  \/ \E p \in Operators : Install(p) \/ Update(p)
  \/ \E p \in Agents : ApplySettings(p) \/ SelfUpdate(p)
  \/ \E p \in Procs :
       \/ OpenForEdit(p) \/ FillEdited(p)
       \/ ReadEnv(p) \/ OpenEnv(p) \/ Render(p) \/ WriteCompose(p)
       \/ Up(p) \/ UpFails(p) \/ Fails(p)

Spec == Init /\ [][Next]_vars

(***************************************************************************)
(* Properties.                                                             *)
(***************************************************************************)

\* install.go:183, "Preserve secrets across upgrades": whatever sequence of
\* commands was run, and whichever of them failed between two steps, the
\* services log in to Postgres with the password its volume was initialised
\* with.  (If it has a "/" they never could: no step of a command is needed.)
DatabaseReachable ==
  services # None /\ volume \in UrlSafe => services.env.dsn = volume

\* What a successful command brings up has the domain it should have.  The
\* installer that the agent runs after editing .env does not undo the edit: it
\* is the domain the admin saved.  And install.go:188, "Prefer existing base
\* domain if not explicitly set by user": a command that is given none leaves
\* the domain .env had when it began, though the detected address may be another
\* than the time before.  Only a command that detects two different addresses
\* within its own run may move the instance.
DomainKept ==
  [][\A p \in Procs : Up(p) /\ due[p] # None => services'.env.domain = due[p]]_vars

\* .env and the template agree on TLS in what every command that succeeded has brought
\* up, whether it derived the template from its own mode or from the key in .env, and
\* whichever commands Compose refused before it.
TemplateMatchesEnv ==
  services # None /\ faults = 0 =>
    (services.compose.tls <=> services.env.tls = "true")
=============================================================================
