-------------------------- MODULE InstallerProofs --------------------------
(***************************************************************************)
(* Proofs about Installer, for any number of secrets, domains and faults:  *)
(* the files stay in shape however commands overlap, and commands that run *)
(* one at a time leave the instance with its database.                     *)
(***************************************************************************)
EXTENDS Installer, TLAPS

\* A command that edits .env or restarts the services has a template to go by.
InstallerInv ==
  /\ TypeOK
  /\ cmd = [p \in Procs |-> cmd[p]]
  /\ \A p \in Procs : pc[p] \in {"edit", "filling", "up"} => compose \in Templates
  /\ services # None => compose \in Templates

\* The initial state satisfies the invariant.
LEMMA InitInv ==
  Init => InstallerInv
  <1> SUFFICES ASSUME Init PROVE InstallerInv
    OBVIOUS
  <1>1. EmptyFile \in Env
    BY DEF EmptyFile, Env, SomeDomains
  <1>2. TypeOK
    BY <1>1, InstallerAssumption DEF Init, TypeOK, Points, SomeDomains
  <1> QED BY <1>2 DEF Init, InstallerInv

\* A file that is not there reads as an .env without keys.
LEMMA EmptyFileIsEnv ==
  EmptyFile \in Env
  BY DEF EmptyFile, Env, SomeDomains

\* A command begins where it finds what it needs.
LEMMA Begun ==
  ASSUME InstallerInv, NEW p \in Procs, NEW c \in Commands, NEW first \in {"read", "edit", "up"},
         Begin(p, c, first), first = "read" \/ compose \in Templates
  PROVE  InstallerInv'
  <1> USE DEF InstallerInv, TypeOK
  <1>1. /\ cmd' = [cmd EXCEPT ![p] = c] /\ pc' = [pc EXCEPT ![p] = first]
        /\ UNCHANGED <<env, compose, services, volume, settings, used, existing, faults>>
    BY DEF Begin, At, confVars, liveVars
  <1>4. due' \in [Procs -> SomeDomains]
    <2>1. c.domain \in SomeDomains /\ env.domain \in SomeDomains /\ None \in SomeDomains
      BY DEF Commands, Env, SomeDomains
    <2>2. PICK d \in SomeDomains : due' = [due EXCEPT ![p] = d]
      BY <2>1 DEF Begin
    <2> QED BY <2>2
  <1>2. pc' \in [Procs -> Points]
    BY <1>1 DEF Points
  <1>3. /\ cmd' = [q \in Procs |-> cmd'[q]] /\ cmd'[p] = c
        /\ \A q \in Procs : q # p => cmd'[q] = cmd[q] /\ pc'[q] = pc[q]
    BY <1>1
  <1> QED BY <1>1, <1>2, <1>3, <1>4

\* A step of a command that runs leaves the commands alone.
LEMMA Moved ==
  ASSUME InstallerInv, NEW p \in Procs, NEW here, NEW there \in Points, At(p, here, there),
         here # "idle", UNCHANGED <<cmd, services, volume, settings, faults>>,
         due' \in [Procs -> SomeDomains],
         env' \in Env, compose' \in Templates \cup {None}, used' \subseteq Secrets,
         existing' \in [Procs -> Env],
         compose \in Templates => compose' \in Templates,
         there \in {"edit", "filling", "up"} => compose' \in Templates
  PROVE  InstallerInv'
  <1> USE DEF InstallerInv, TypeOK
  <1>1. pc[p] = here /\ pc' = [pc EXCEPT ![p] = there]
    BY DEF At
  <1> QED BY <1>1

\* So does one that ends.
LEMMA Ended ==
  ASSUME InstallerInv, NEW p \in Procs, pc' = [pc EXCEPT ![p] = "idle"], Ends(p),
         UNCHANGED <<confVars, settings, used>>, faults' \in 0..MaxFaults,
         services' \in [env : Env, compose : Templates] \cup {None},
         volume' \in Secrets \cup {None},
         services' # None => compose \in Templates
  PROVE  InstallerInv'
  <1> USE EmptyFileIsEnv DEF InstallerInv, TypeOK, Ends, SomeDomains
  <1>1. pc' \in [Procs -> Points] /\ cmd' = [q \in Procs |-> cmd'[q]]
    BY DEF Points
  <1> QED BY <1>1 DEF confVars

\* Every step keeps the invariant.
LEMMA StepInv ==
  InstallerInv /\ [Next]_vars => InstallerInv'
  <1> SUFFICES ASSUME InstallerInv, [Next]_vars PROVE InstallerInv'
    OBVIOUS
  <1> USE DEF InstallerInv, TypeOK, Points, confVars, liveVars, procVars
  <1>1. CASE SaveSettings
    BY <1>1 DEF SaveSettings
  <1>2. ASSUME NEW p \in Operators, Install(p) PROVE InstallerInv'
    <2>1. PICK t \in InstallTls, d \in Domains \cup {None}, b \in Builds :
            Begin(p, [kind |-> "install", tls |-> t, domain |-> d,
                      source |-> b = "source"], "read")
      BY <1>2 DEF Install
    <2>2. [kind |-> "install", tls |-> t, domain |-> d, source |-> b = "source"] \in Commands
      BY InstallerAssumption DEF Commands
    <2> QED BY <2>1, <2>2, Begun DEF Procs
  <1>3. ASSUME NEW p \in Agents, ApplySettings(p) PROVE InstallerInv'
    <2> DEFINE c == [kind |-> "apply", tls |-> AppliedTls, domain |-> settings.domain,
                    source |-> TRUE]
    <2>1. Begin(p, c, "edit") /\ compose \in Templates
      BY <1>3 DEF ApplySettings
    <2>2. AppliedTls \in {"letsencrypt", "cloudflared", "disabled"}
      BY InstallerAssumption DEF AppliedTls
    <2>3. c \in Commands
      BY <2>2 DEF Commands
    <2> QED BY <2>1, <2>3, Begun DEF Procs
  <1>4. ASSUME NEW p \in Agents, SelfUpdate(p) PROVE InstallerInv'
    <2> DEFINE c == [kind |-> "self", tls |-> "letsencrypt", domain |-> None,
                    source |-> TRUE]
    <2>1. Begin(p, c, "read")
      BY <1>4 DEF SelfUpdate
    <2>2. c \in Commands
      BY DEF Commands
    <2> QED BY <2>1, <2>2, Begun DEF Procs
  <1>5. ASSUME NEW p \in Operators, Update(p) PROVE InstallerInv'
    <2> DEFINE u == [kind |-> "update", tls |-> "letsencrypt", domain |-> None,
                    source |-> FALSE]
               b == [kind |-> "build", tls |-> "letsencrypt", domain |-> None,
                    source |-> TRUE]
    <2>1. (Begin(p, u, "up") \/ Begin(p, b, "edit")) /\ compose \in Templates
      BY <1>5 DEF Update
    <2>2. u \in Commands /\ b \in Commands
      BY DEF Commands
    <2> QED BY <2>1, <2>2, Begun DEF Procs
  <1>6. ASSUME NEW p \in Procs, OpenForEdit(p) PROVE InstallerInv'
    BY <1>6, Moved, EmptyFileIsEnv DEF OpenForEdit, At
  <1>7. ASSUME NEW p \in Procs, FillEdited(p) PROVE InstallerInv'
    <2> DEFINE there == IF cmd[p].kind = "build" THEN "compose" ELSE "read"
    <2>1. At(p, "filling", there) /\ env' = Edited(cmd[p], existing[p])
      BY <1>7 DEF FillEdited
    <2>2. there \in Points /\ compose \in Templates
      BY <2>1 DEF At
    <2>3. cmd[p] \in Commands /\ existing[p] \in Env
      BY <2>1 DEF At
    <2>4. env' \in Env
      <3>1. \A e \in Env, c \in Commands : Edited(c, e) \in Env
        <4> SUFFICES ASSUME NEW e \in Env, NEW c \in Commands PROVE Edited(c, e) \in Env
          OBVIOUS
        <4> DEFINE t == IF c.tls = "cloudflared" THEN "false" ELSE "true"
                   d == IF c.domain = None THEN e.domain ELSE c.domain
        <4>1. t \in {"true", "false"} /\ d \in SomeDomains
          BY DEF Env, Commands, SomeDomains
        <4>2. Edited(c, e) = IF c.kind = "build" THEN [e EXCEPT !.images = TRUE]
                             ELSE [e EXCEPT !.domain = d, !.tls = t]
          BY Zenon DEF Edited
        <4> HIDE DEF t, d
        <4>3. /\ [e EXCEPT !.domain = d, !.tls = t] \in Env
              /\ [e EXCEPT !.images = TRUE] \in Env
          BY <4>1 DEF Env
        <4> QED BY <4>2, <4>3
      <3> QED BY <2>1, <2>3, <3>1
    <2> QED BY <1>7, <2>1, <2>2, <2>4, Moved DEF FillEdited
  <1>8. ASSUME NEW p \in Procs, ReadEnv(p) PROVE InstallerInv'
    BY <1>8, Moved DEF ReadEnv, At
  <1>9. ASSUME NEW p \in Procs, OpenEnv(p) PROVE InstallerInv'
    BY <1>9, Moved, EmptyFileIsEnv DEF OpenEnv, At
  <1>10. ASSUME NEW p \in Procs, Render(p) PROVE InstallerInv'
    <2>1. cmd[p] \in Commands /\ existing[p] \in Env
      BY <1>10 DEF Render, At
    <2>2. env' \in Env /\ used' \subseteq Secrets
      <3>1. PICK first, second \in Detections, new \in Secrets \ used :
              /\ env' = Rendered(cmd[p], existing[p], first, second, new)
              /\ used' = IF existing[p].password = None THEN used \cup {new} ELSE used
        BY <1>10 DEF Render
      <3>2. DomainFor(cmd[p], existing[p], first, second) \in SomeDomains
        BY <2>1 DEF DomainFor, Env, Commands, SomeDomains
      <3>3. \A s \in Secrets : DsnOf(s) \in UrlSafe \cup {Unparsable, None}
        BY DEF DsnOf
      <3>4. env' \in Env
        BY <2>1, <3>1, <3>2, <3>3 DEF Env, Rendered
      <3> QED BY <3>1, <3>4
    <2>3. due' \in [Procs -> SomeDomains]
      BY <1>10 DEF Render, SomeDomains
    <2> QED BY <1>10, <2>2, <2>3, Moved DEF Render
  <1>11. ASSUME NEW p \in Procs, WriteCompose(p) PROVE InstallerInv'
    <2>1. TemplateTls(p) \in BOOLEAN
      BY DEF TemplateTls
    <2>2. compose' \in Templates
      BY <1>11, <2>1 DEF WriteCompose, Templates
    <2> QED BY <1>11, <2>2, Moved DEF WriteCompose
  <1>12. ASSUME NEW p \in Procs, Up(p) PROVE InstallerInv'
    <2>1. compose \in Templates
      BY <1>12 DEF Up, At
    <2>2. services' \in [env : Env, compose : Templates] /\ volume' \in Secrets \cup {None}
      BY <1>12, <2>1 DEF Up, Env
    <2> QED BY <1>12, <2>1, <2>2, Ended DEF Up, At
  <1>15. ASSUME NEW p \in Procs, UpFails(p) PROVE InstallerInv'
    BY <1>15, Ended DEF UpFails, At
  <1>13. ASSUME NEW p \in Procs, Fails(p) PROVE InstallerInv'
    <2>1. faults' \in 0..MaxFaults
      BY <1>13, InstallerAssumption DEF Fails
    <2> QED BY <1>13, <2>1, Ended DEF Fails
  <1>14. CASE UNCHANGED vars
    BY <1>14 DEF vars
  <1> QED BY <1>1, <1>2, <1>3, <1>4, <1>5, <1>6, <1>7, <1>8, <1>9, <1>10, <1>11,
             <1>12, <1>13, <1>14, <1>15 DEF Next, Procs

\* So the invariant holds in every state of every behaviour.
LEMMA Invariance ==
  Spec => []InstallerInv
  BY InitInv, StepInv, PTL DEF Spec

\* Whatever commands overlap, and wherever they fail, .env, the template, the settings
\* and what the services were started with keep the shape the commands expect.
THEOREM InstallerTypeCorrect ==
  Spec => []TypeOK
  BY Invariance, PTL DEF InstallerInv

\* A file that lets the services in: its DSN is made from its own password, which is that
\* of the volume.
Consistent(e) ==
  /\ e.password = None <=> e.dsn = None
  /\ e.password # None => e.dsn = DsnOf(e.password)
  /\ volume # None => e.password = volume

\* .env is such a file except while a command is writing it, and then the command holds
\* one in memory.
DatabaseInv ==
  /\ DatabaseReachable
  /\ \A p \in Procs :
       /\ pc[p] \notin {"filling", "rendering"} => Consistent(env)
       /\ pc[p] \in {"filling", "write", "rendering"} => Consistent(existing[p])

\* Commands that run one at a time, none of which is killed while it writes .env.
Sequential == (\A p, q \in Procs : p = q) /\ "torn" \notin FaultKinds

\* The database and the password of the .env agree at first.
LEMMA DatabaseInit ==
  Init => DatabaseInv
  BY InstallerAssumption DEF Init, DatabaseInv, DatabaseReachable, Consistent, EmptyFile

\* Commands that run one after the other keep them so.
LEMMA DatabaseStep ==
  Sequential /\ InstallerInv /\ DatabaseInv /\ [Next]_vars => DatabaseInv'
  <1> SUFFICES ASSUME Sequential, InstallerInv, DatabaseInv, [Next]_vars
               PROVE  DatabaseInv'
    OBVIOUS
  <1> USE DEF Sequential, InstallerInv, TypeOK, DatabaseInv, DatabaseReachable,
          Consistent,
              confVars, liveVars, procVars
  <1>1. CASE SaveSettings
    BY <1>1 DEF SaveSettings
  <1>2. ASSUME NEW p \in Operators, Install(p) PROVE DatabaseInv'
    BY <1>2 DEF Install, Begin, At, Procs
  <1>3. ASSUME NEW p \in Agents, ApplySettings(p) PROVE DatabaseInv'
    BY <1>3 DEF ApplySettings, Begin, At, Procs
  <1>4. ASSUME NEW p \in Agents, SelfUpdate(p) PROVE DatabaseInv'
    BY <1>4 DEF SelfUpdate, Begin, At, Procs
  <1>5. ASSUME NEW p \in Operators, Update(p) PROVE DatabaseInv'
    BY <1>5 DEF Update, Begin, At, Procs
  <1>6. ASSUME NEW p \in Procs, OpenForEdit(p) PROVE DatabaseInv'
    BY <1>6 DEF OpenForEdit, At
  <1>7. ASSUME NEW p \in Procs, FillEdited(p) PROVE DatabaseInv'
    <2>1. pc[p] = "filling" /\ env' = Edited(cmd[p], existing[p])
          /\ UNCHANGED <<existing, services, volume>>
      BY <1>7 DEF FillEdited, At
    <2>2. cmd[p] \in Commands /\ existing[p] \in Env
      BY <2>1
    <2>3. env'.password = existing[p].password /\ env'.dsn = existing[p].dsn
      BY <2>1, <2>2 DEF Edited, Env, Commands
    <2>4. \A q \in Procs : q = p
      OBVIOUS
    <2>5. pc'[p] # "filling" /\ pc'[p] \notin {"write", "rendering"}
      BY <1>7 DEF FillEdited, At
    <2> QED BY <2>1, <2>3, <2>4, <2>5
  <1>8. ASSUME NEW p \in Procs, ReadEnv(p) PROVE DatabaseInv'
    BY <1>8 DEF ReadEnv, At
  <1>9. ASSUME NEW p \in Procs, OpenEnv(p) PROVE DatabaseInv'
    BY <1>9 DEF OpenEnv, At
  <1>10. ASSUME NEW p \in Procs, Render(p) PROVE DatabaseInv'
    BY <1>10, InstallerAssumption DEF Render, Rendered, At, DsnOf
  <1>11. ASSUME NEW p \in Procs, WriteCompose(p) PROVE DatabaseInv'
    BY <1>11 DEF WriteCompose, At
  <1>12. ASSUME NEW p \in Procs, Up(p) PROVE DatabaseInv'
    BY <1>12, InstallerAssumption DEF Up, At, Ends, DsnOf
  <1>13. ASSUME NEW p \in Procs, Fails(p) PROVE DatabaseInv'
    BY <1>13 DEF Fails, Ends
  <1>15. ASSUME NEW p \in Procs, UpFails(p) PROVE DatabaseInv'
    BY <1>15 DEF UpFails, At, Ends
  <1>14. CASE UNCHANGED vars
    BY <1>14 DEF vars
  <1> QED BY <1>1, <1>2, <1>3, <1>4, <1>5, <1>6, <1>7, <1>8, <1>9, <1>10, <1>11,
             <1>12, <1>13, <1>14, <1>15 DEF Next, Procs

\* Commands that run one at a time and fail only between two steps leave the services
\* with the password of the volume, if that password makes a DSN at all: the installer
\* keeps the one it finds in .env, and never runs on an .env that a command before it
\* left empty.
THEOREM DatabaseStaysReachable ==
  Sequential => (Spec => []DatabaseReachable)
  <1> SUFFICES ASSUME Sequential PROVE Spec => []DatabaseReachable
    OBVIOUS
  <1>1. InstallerInv /\ DatabaseInv /\ [Next]_vars => DatabaseInv'
    BY DatabaseStep
  <1>2. DatabaseInv => DatabaseReachable
    BY DEF DatabaseInv
  <1> QED BY <1>1, <1>2, DatabaseInit, Invariance, PTL DEF Spec

\* Where .env and the template stand with each other: at rest and before the services
\* are started they agree on TLS.
Given(e) == e.tls \in {"true", "false"}
Agree(e, c) == Given(e) /\ (c.tls <=> e.tls = "true")

TemplateOK(p) ==
  /\ pc[p] = "idle" /\ compose # None => Agree(env, compose)
  /\ pc[p] \in {"edit", "filling"} => cmd[p].kind \in {"build", "apply"}
  /\ pc[p] = "edit" /\ cmd[p].kind = "build" => Given(env)
  /\ pc[p] = "filling" /\ cmd[p].kind = "build" => Given(existing[p])
  /\ pc[p] \in {"read", "write", "rendering"} => cmd[p].kind # "build"
  /\ pc[p] = "compose" /\ cmd[p].kind = "build" => Given(env) /\ env.tls = existing[p].tls
  /\ pc[p] = "compose" /\ cmd[p].kind # "build" =>
       env.tls = IF cmd[p].tls = "cloudflare" THEN "false" ELSE "true"
  /\ pc[p] = "up" => Agree(env, compose)

TemplateInv == TemplateMatchesEnv /\ (faults = 0 => \A p \in Procs : TemplateOK(p))

\* The template matches the .env at first.
LEMMA TemplateInit ==
  Init => TemplateInv
  BY DEF Init, TemplateInv, TemplateMatchesEnv, TemplateOK, Templates

\* Commands that run one after the other, and do not fail, keep it so.
LEMMA TemplateStep ==
  Sequential /\ InstallerInv /\ TemplateInv /\ [Next]_vars => TemplateInv'
  <1> SUFFICES ASSUME Sequential, InstallerInv, TemplateInv, [Next]_vars
               PROVE  TemplateInv'
    OBVIOUS
  <1> USE DEF Sequential, InstallerInv, TypeOK, TemplateInv, TemplateMatchesEnv,
          TemplateOK,
              Given, Agree, confVars, liveVars, procVars
  <1>1. CASE SaveSettings
    BY <1>1 DEF SaveSettings
  <1>2. ASSUME NEW p \in Operators, Install(p) PROVE TemplateInv'
    BY <1>2 DEF Install, Begin, At, Procs
  <1>3. ASSUME NEW p \in Agents, ApplySettings(p) PROVE TemplateInv'
    BY <1>3 DEF ApplySettings, Begin, At, Procs
  <1>4. ASSUME NEW p \in Agents, SelfUpdate(p) PROVE TemplateInv'
    BY <1>4 DEF SelfUpdate, Begin, At, Procs
  <1>5. ASSUME NEW p \in Operators, Update(p) PROVE TemplateInv'
    <2>1. /\ p \in Procs /\ pc[p] = "idle" /\ compose # None
          /\ UNCHANGED <<env, compose, services, existing, faults>>
          /\ \/ pc'[p] = "up"
             \/ pc'[p] = "edit" /\ cmd'[p].kind = "build"
      BY <1>5 DEF Update, Begin, At, Procs
    <2> QED BY <2>1
  <1>6. ASSUME NEW p \in Procs, OpenForEdit(p) PROVE TemplateInv'
    BY <1>6 DEF OpenForEdit, At
  <1>7. ASSUME NEW p \in Procs, FillEdited(p) PROVE TemplateInv'
    <2>1. /\ pc[p] = "filling" /\ env' = Edited(cmd[p], existing[p])
          /\ UNCHANGED <<existing, services, compose, cmd, faults>>
          /\ pc'[p] = IF cmd[p].kind = "build" THEN "compose" ELSE "read"
      BY <1>7 DEF FillEdited, At
    <2>2. cmd[p] \in Commands /\ existing[p] \in Env
      BY <2>1
    <2>3. CASE cmd[p].kind = "build"
      <3>1. env'.tls = existing[p].tls
        BY <2>1, <2>2, <2>3 DEF Edited, Env
      <3>2. pc'[p] = "compose"
        BY <2>1, <2>3
      <3> QED BY <2>1, <2>3, <3>1, <3>2
    <2>4. CASE cmd[p].kind # "build"
      <3>1. env'.tls \in {"true", "false"}
        BY <2>1, <2>2, <2>4 DEF Edited, Env
      <3>2. pc'[p] = "read"
        BY <2>1, <2>4
      <3> QED BY <2>1, <2>4, <3>1, <3>2
    <2> QED BY <2>3, <2>4
  <1>8. ASSUME NEW p \in Procs, ReadEnv(p) PROVE TemplateInv'
    BY <1>8 DEF ReadEnv, At
  <1>9. ASSUME NEW p \in Procs, OpenEnv(p) PROVE TemplateInv'
    BY <1>9 DEF OpenEnv, At
  <1>10. ASSUME NEW p \in Procs, Render(p) PROVE TemplateInv'
    BY <1>10 DEF Render, Rendered, At
  <1>11. ASSUME NEW p \in Procs, WriteCompose(p) PROVE TemplateInv'
    <2>1. /\ pc[p] = "compose" /\ pc' = [pc EXCEPT ![p] = "up"]
          /\ compose' = [build |-> IF cmd[p].source THEN "source" ELSE "release",
                          tls |-> TemplateTls(p)]
          /\ UNCHANGED <<env, services, faults>>
      BY <1>11 DEF WriteCompose, At
    <2>2. faults = 0 => (Given(env) /\ (TemplateTls(p) <=> env.tls = "true"))
      BY <2>1 DEF TemplateTls
    <2>3. compose'.tls = TemplateTls(p)
      BY <2>1
    <2>4. faults = 0 => Agree(env, compose)'
      BY <2>1, <2>2, <2>3, Zenon DEF Agree, Given
    <2> HIDE DEF Agree, Given
    <2> QED BY <2>1, <2>4
  <1>12. ASSUME NEW p \in Procs, Up(p) PROVE TemplateInv'
    BY <1>12 DEF Up, At, Ends
  <1>13. ASSUME NEW p \in Procs, Fails(p) PROVE TemplateInv'
    BY <1>13 DEF Fails, Ends
  <1>15. ASSUME NEW p \in Procs, UpFails(p) PROVE TemplateInv'
    BY <1>15 DEF UpFails, At, Ends
  <1>14. CASE UNCHANGED vars
    BY <1>14 DEF vars
  <1> QED BY <1>1, <1>2, <1>3, <1>4, <1>5, <1>6, <1>7, <1>8, <1>9, <1>10, <1>11,
             <1>12, <1>13, <1>14, <1>15 DEF Next, Procs

\* Commands that run one at a time and succeed leave an instance with a template that
\* fits its .env, whichever of them Compose refused.
THEOREM TemplateFitsEnv ==
  Sequential => (Spec => []TemplateMatchesEnv)
  <1> SUFFICES ASSUME Sequential PROVE Spec => []TemplateMatchesEnv
    OBVIOUS
  <1>1. InstallerInv /\ TemplateInv /\ [Next]_vars => TemplateInv'
    BY TemplateStep
  <1>2. TemplateInv => TemplateMatchesEnv
    BY DEF TemplateInv
  <1> QED BY <1>1, <1>2, TemplateInit, Invariance, PTL DEF Spec

\* Where the domain that is due is while a command runs: still with the command, in .env
\* or, while that is being written, in what was read of it.
DomainOK(p) ==
  due[p] # None =>
    /\ pc[p] \in {"edit", "filling"} /\ cmd[p].kind # "build" /\ cmd[p].domain # None =>
         cmd[p].domain = due[p]
    /\ pc[p] = "edit" /\ (cmd[p].kind = "build" \/ cmd[p].domain = None) =>
         env.domain = due[p]
    /\ pc[p] = "filling" /\ (cmd[p].kind = "build" \/ cmd[p].domain = None) =>
         existing[p].domain = due[p]
    /\ pc[p] \in {"read", "compose", "up"} => env.domain = due[p]
    /\ pc[p] \in {"write", "rendering"} => /\ existing[p].domain = due[p]
                                           /\ cmd[p].kind = "install" => cmd[p].domain = None
    /\ pc[p] = "read" /\ cmd[p].kind = "install" => cmd[p].domain = None
    /\ pc[p] \in {"edit", "filling"} => cmd[p].kind # "install"

DomainInv == \A p \in Procs : DomainOK(p)

\* At first no command runs and none is due.
LEMMA DomainInit ==
  Init => DomainInv
  BY DEF Init, DomainInv, DomainOK

\* Commands that run one after the other carry the domain along.
LEMMA DomainStep ==
  Sequential /\ InstallerInv /\ DomainInv /\ [Next]_vars => DomainInv'
  <1> SUFFICES ASSUME Sequential, InstallerInv, DomainInv, [Next]_vars
               PROVE  DomainInv'
    OBVIOUS
  <1> USE DEF Sequential, InstallerInv, TypeOK, DomainInv, DomainOK, confVars, liveVars,
              procVars
  <1>1. CASE SaveSettings
    BY <1>1 DEF SaveSettings
  <1>2. ASSUME NEW p \in Operators, Install(p) PROVE DomainInv'
    BY <1>2 DEF Install, Begin, At, Procs
  <1>3. ASSUME NEW p \in Agents, ApplySettings(p) PROVE DomainInv'
    BY <1>3 DEF ApplySettings, Begin, At, Procs
  <1>4. ASSUME NEW p \in Agents, SelfUpdate(p) PROVE DomainInv'
    BY <1>4 DEF SelfUpdate, Begin, At, Procs
  <1>5. ASSUME NEW p \in Operators, Update(p) PROVE DomainInv'
    BY <1>5 DEF Update, Begin, At, Procs
  <1>6. ASSUME NEW p \in Procs, OpenForEdit(p) PROVE DomainInv'
    BY <1>6 DEF OpenForEdit, At
  <1>7. ASSUME NEW p \in Procs, FillEdited(p) PROVE DomainInv'
    <2>1. /\ pc[p] = "filling" /\ env' = Edited(cmd[p], existing[p])
          /\ UNCHANGED <<existing, services, compose, cmd, due, faults>>
          /\ pc'[p] \in {"compose", "read"}
      BY <1>7 DEF FillEdited, At
    <2>2. cmd[p] \in Commands /\ existing[p] \in Env
      BY <2>1
    <2>3. env'.domain = IF cmd[p].kind = "build" \/ cmd[p].domain = None
                        THEN existing[p].domain ELSE cmd[p].domain
      BY <2>1, <2>2 DEF Edited, Env
    <2>4. \A q \in Procs : q = p
      OBVIOUS
    <2> QED BY <2>1, <2>3, <2>4
  <1>8. ASSUME NEW p \in Procs, ReadEnv(p) PROVE DomainInv'
    BY <1>8 DEF ReadEnv, At
  <1>9. ASSUME NEW p \in Procs, OpenEnv(p) PROVE DomainInv'
    BY <1>9 DEF OpenEnv, At
  <1>10. ASSUME NEW p \in Procs, Render(p) PROVE DomainInv'
    <2>1. PICK first, second \in Detections :
            /\ env'.domain = DomainFor(cmd[p], existing[p], first, second)
            /\ due' = IF first = second THEN due ELSE [due EXCEPT ![p] = None]
      BY <1>10 DEF Render, Rendered
    <2>2. pc[p] = "rendering" /\ pc'[p] = "compose" /\ UNCHANGED <<existing, cmd>>
      BY <1>10 DEF Render, At
    <2>3. \A q \in Procs : q = p
      OBVIOUS
    <2>4. CASE due'[p] = None
      BY <2>2, <2>3, <2>4
    <2>5. CASE due'[p] # None
      <3>1. first = second /\ due' = due
        BY <2>1, <2>5
      <3>2. existing[p].domain = due[p] /\ due[p] # None
        BY <2>2, <2>5, <3>1
      <3>3. env'.domain = due[p]
        BY <2>1, <2>2, <2>5, <3>1, <3>2 DEF DomainFor
      <3> QED BY <2>2, <2>3, <3>1, <3>3
    <2> QED BY <2>4, <2>5
  <1>11. ASSUME NEW p \in Procs, WriteCompose(p) PROVE DomainInv'
    BY <1>11 DEF WriteCompose, At
  <1>12. ASSUME NEW p \in Procs, Up(p) PROVE DomainInv'
    BY <1>12 DEF Up, At, Ends
  <1>13. ASSUME NEW p \in Procs, Fails(p) PROVE DomainInv'
    BY <1>13 DEF Fails, Ends
  <1>15. ASSUME NEW p \in Procs, UpFails(p) PROVE DomainInv'
    BY <1>15 DEF UpFails, At, Ends
  <1>14. CASE UNCHANGED vars
    BY <1>14 DEF vars
  <1> QED BY <1>1, <1>2, <1>3, <1>4, <1>5, <1>6, <1>7, <1>8, <1>9, <1>10, <1>11,
             <1>12, <1>13, <1>14, <1>15 DEF Next, Procs

\* What a command brings up has the domain that was saved when it is an apply, and the
\* one .env had when it was given none, unless it detected two addresses: the installer
\* takes the domain for one nobody asked for and prefers that of .env.
THEOREM DomainIsKept ==
  Sequential => (Spec => DomainKept)
  <1> SUFFICES ASSUME Sequential PROVE Spec => DomainKept
    OBVIOUS
  <1>1. InstallerInv /\ DomainInv /\ [Next]_vars => DomainInv'
    BY DomainStep
  <1>2. InstallerInv /\ DomainInv /\ [Next]_vars =>
          [\A p \in Procs : Up(p) /\ due[p] # None => services'.env.domain = due[p]]_vars
    BY DEF DomainInv, DomainOK, Up, At
  <1> QED BY <1>1, <1>2, DomainInit, Invariance, PTL DEF Spec, DomainKept
=============================================================================
