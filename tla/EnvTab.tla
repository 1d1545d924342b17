------------------------------- MODULE EnvTab -------------------------------
(***************************************************************************)
(* A project's environment variables: the tab of its page                  *)
(* (app/(authed)/projects/[id]/page.tsx) and the two handlers behind it    *)
(* (internal/api/envvars.go).  The tab lists the keys of one scope, asks   *)
(* again when the scope is switched and after a save, with the scope the   *)
(* save began with, and does not order the answers.                        *)
(*                                                                         *)
(* Values are encrypted and never listed: a variable is its scope and key. *)
(***************************************************************************)
EXTENDS Naturals, FiniteSets

CONSTANTS Keys,
          NoKey,       \* an empty field
          MaxRequests, \* bound: lists asked for until the tab is quiet
          MaxForeign   \* bound: writes of another user

VARIABLES env,         \* project_env_vars: the keys of each scope
          scope, envs, key,    \* the tab: the scope, the list, the key that is typed
          saves,       \* the saves under way
          lists,       \* the lists asked for, by their number
          asked,       \* the last of these numbers
          newest,      \* the newest list that has arrived
          raced,       \* what arrived may not be what is stored: see the actions
          foreign      \* writes of another user so far

vars == <<env, scope, envs, key, saves, lists, asked, newest, raced, foreign>>

Scopes == {"preview", "production"}

TypeOK ==
  /\ env \in [Scopes -> SUBSET Keys]
  /\ scope \in Scopes /\ envs \subseteq Scopes \X Keys
  /\ key \in Keys \cup {NoKey}
  /\ saves \subseteq [scope : Scopes, key : Keys,
                      done : {"no", "ok", "failed"}]
  /\ lists \subseteq [n : 1..MaxRequests, scope : Scopes, made : BOOLEAN,
                      rows : SUBSET (Scopes \X Keys)]
  /\ asked \in 0..MaxRequests /\ newest \in 0..MaxRequests
  /\ raced \in BOOLEAN /\ foreign \in 0..MaxForeign

Asking(n, s) == [n |-> n, scope |-> s, made |-> FALSE, rows |-> {}]

\* Both effects of the page that opens have asked for the same list.
Init ==
  /\ env = [s \in Scopes |-> {}]
  /\ scope = "preview" /\ envs = {} /\ key = NoKey
  /\ saves = {} /\ foreign = 0
  /\ lists = {Asking(1, "preview"), Asking(2, "preview")} /\ asked = 2
  /\ newest = 0 /\ raced = FALSE

Quiet == saves = {} /\ lists = {}

\* refreshEnv.
RefreshEnv(s) ==
  /\ asked < MaxRequests
  /\ asked' = asked + 1
  /\ lists' = lists \cup {Asking(asked + 1, s)}

\* Numbers start again when nothing is under way.
Renumber ==
  /\ asked' = IF Quiet' THEN 0 ELSE asked
  /\ newest' = IF Quiet' THEN 0 ELSE newest

(***************************************************************************)
(* The API.                                                                *)
(***************************************************************************)

\* UpsertEnvVar and ListEnvVars.
Upserted(s, k) == [env EXCEPT ![s] = @ \cup {k}]
Listed(s) == {s} \X env[s]

\* handleSetEnvVar, or it refuses: a key that is blank once trimmed or has a blank
\* in it, and a user who is no admin of the organization any more.
HandleSetEnvVar(v) ==
  /\ v \in saves /\ v.done = "no"
  /\ \E done \in {"ok", "failed"} :
       /\ env' = IF done = "ok" THEN Upserted(v.scope, v.key) ELSE env
       /\ saves' = (saves \ {v}) \cup {[v EXCEPT !.done = done]}
  /\ UNCHANGED <<scope, envs, key, lists, asked, newest, raced, foreign>>

\* handleListEnvVars: members too.
HandleListEnvVars(l) ==
  /\ l \in lists /\ ~l.made
  /\ lists' = (lists \ {l}) \cup {[l EXCEPT !.made = TRUE, !.rows = Listed(l.scope)]}
  /\ UNCHANGED <<env, scope, envs, key, saves, asked, newest, raced, foreign>>

\* Another admin saves a variable.
OtherAdmin ==
  /\ foreign < MaxForeign /\ foreign' = foreign + 1
  /\ \E s \in Scopes, k \in Keys : env' = Upserted(s, k) /\ env' # env
  /\ raced' = TRUE
  /\ UNCHANGED <<scope, envs, key, saves, lists, asked, newest>>

(***************************************************************************)
(* The tab.                                                                *)
(***************************************************************************)
TypeKey(k) ==
  /\ k # key /\ key' = k
  /\ UNCHANGED <<env, scope, envs, saves, lists, asked, newest, raced, foreign>>

\* A faulty SwitchScope: the list is not asked for.
SwitchScopeOnly(s) ==
  /\ s # scope /\ scope' = s
  /\ UNCHANGED <<env, envs, key, saves, lists, asked, newest, raced, foreign>>

\* The toggle.  A save under way will ask for the list of the scope it began with;
\* with nothing under way the answer is the whole truth again.
SwitchScope(s) ==
  /\ s # scope /\ scope' = s
  /\ RefreshEnv(s)
  /\ raced' = IF Quiet THEN FALSE ELSE raced \/ saves # {}
  /\ UNCHANGED <<env, envs, key, saves, newest, foreign>>

\* setEnv: the button needs a key.
SetEnv ==
  /\ key # NoKey
  /\ \A v \in saves : v.scope # scope \/ v.key # key
  /\ asked + Cardinality(saves) < MaxRequests
  /\ saves' = saves \cup {[scope |-> scope, key |-> key, done |-> "no"]}
  /\ UNCHANGED <<env, scope, envs, key, lists, asked, newest, raced, foreign>>

\* It was answered: the fields are emptied, whatever was typed since, and the list
\* of the scope of the save is asked for.  With nothing else under way, and the scope
\* still chosen, the answer is the whole truth again.
SetEnvAnswered(v) ==
  /\ v \in saves /\ v.done = "ok"
  /\ saves' = saves \ {v}
  /\ key' = NoKey
  /\ RefreshEnv(v.scope)
  /\ raced' = (raced /\ ~(saves = {v} /\ lists = {} /\ v.scope = scope))
  /\ UNCHANGED <<env, scope, envs, newest, foreign>>

\* It was refused, or the answer is lost: a message.
SetEnvFails(v) ==
  /\ v \in saves /\ v.done # "no"
  /\ saves' = saves \ {v} /\ UNCHANGED lists
  /\ Renumber
  /\ raced' = (raced \/ v.done = "ok")
  /\ UNCHANGED <<env, scope, envs, key, foreign>>

\* A list arrives, in any order, and is shown under the scope that is chosen.
ListArrives(l) ==
  /\ l \in lists /\ l.made
  /\ envs' = l.rows
  /\ lists' = lists \ {l} /\ UNCHANGED saves
  /\ asked' = IF Quiet' THEN 0 ELSE asked
  /\ newest' = IF Quiet' THEN 0 ELSE IF l.n > newest THEN l.n ELSE newest
  /\ raced' = (raced \/ l.n < newest)
  /\ UNCHANGED <<env, scope, key, foreign>>

ListFails(l) ==
  /\ l \in lists
  /\ lists' = lists \ {l} /\ UNCHANGED saves
  /\ Renumber
  /\ raced' = TRUE
  /\ UNCHANGED <<env, scope, envs, key, foreign>>

Next ==
  \/ OtherAdmin \/ SetEnv
  \/ \E k \in Keys \cup {NoKey} : TypeKey(k)
  \/ \E s \in Scopes : SwitchScope(s)
  \/ \E v \in saves : HandleSetEnvVar(v) \/ SetEnvAnswered(v) \/ SetEnvFails(v)
  \/ \E l \in lists : HandleListEnvVars(l) \/ ListArrives(l) \/ ListFails(l)

Spec == Init /\ [][Next]_vars

(***************************************************************************)
(* Properties.                                                             *)
(***************************************************************************)

\* When nothing is under way, the list is that of the chosen scope and holds every
\* key saved in it, unless an answer was overtaken, a request failed, another admin
\* wrote, or the scope was switched while a save was under way: any of these may leave
\* the wrong list, until a switch or a save with nothing else under way mends it.
ListIsOfScope == Quiet /\ ~raced => envs = Listed(scope)
=============================================================================
