--------------------------- MODULE GitHubSettings ---------------------------
(***************************************************************************)
(* The GitHub App's configuration: three rows of instance_settings that    *)
(* PUT /api/admin/settings writes one by one (internal/api/admin.go), and  *)
(* the provider in the API and in the worker that reads them one by one,   *)
(* falls back to environment variables and caches the result for 30 s      *)
(* (internal/integrations/github_app_provider.go).  The API's provider is  *)
(* invalidated at the end of a PUT; the worker is another process, whose   *)
(* provider nobody invalidates.                                            *)
(*                                                                         *)
(* Time is kept as ages, in ticks of a fraction of the 30 seconds.         *)
(***************************************************************************)
EXTENDS Naturals, Sequences

CONSTANTS KeyOrder,    \* the settings, in the order both sides go through them
          Values,      \* values an admin may save
          Unset,       \* no value: the row is missing, empty or unreadable
          FromEnv,     \* the value of the environment variable, or Unset
          Providers,   \* processes with a provider of their own
          Api,         \* the one of them that serves the PUTs
          Requests,    \* PUT requests that may be served at once
          Keep,        \* a setting a request does not mention
          NotServed,   \* a request that is not being served
          NotConfigured,   \* Get's answer (nil, false, nil)
          TTL,         \* lifetime of a cached App, in ticks
          FaultKinds, MaxFaults

AllFaults == {"db", "client"}

ASSUME GitHubSettingsAssumption ==
  /\ {Unset, Keep} \cap Values = {}
  /\ Unset # Keep
  /\ Api \in Providers
  /\ TTL \in Nat \ {0}
  /\ FaultKinds \subseteq AllFaults
  /\ MaxFaults \in Nat

VARIABLES db,       \* the three rows
          put,      \* the values each PUT has yet to write; Unset is "clear it"
          loading,  \* providers whose mutex a Get holds while it reads
          got,      \* what it has read so far, in KeyOrder
          age,      \* ticks since each provider's lastLoad, up to TTL
          cached,   \* is there a lastLoad at all?
          app,      \* lastApp, as the values it was built from
          since,    \* history: ticks since the last write or outage, up to TTL
          dbUp, faults

providerVars == <<loading, got, age, cached, app>>
vars == <<db, put, loading, got, age, cached, app, since, dbUp, faults>>

Keys == {KeyOrder[i] : i \in 1..Len(KeyOrder)}
MaybeValues == Values \cup {Unset}

Bodies == [Keys -> MaybeValues \cup {Keep}]

ASSUME KeysAssumption ==
  /\ KeyOrder \in Seq(Keys)
  /\ NotServed \notin Bodies

\* The App is built only if every value is there.
Effective(v) == IF v = Unset THEN FromEnv ELSE v
Build(vals) ==
  LET eff == [i \in DOMAIN vals |-> Effective(vals[i])]
  IN IF \E i \in DOMAIN eff : eff[i] = Unset THEN NotConfigured ELSE eff

\* What a Get that reads everything now would return.
Current == Build([i \in 1..Len(KeyOrder) |-> db[KeyOrder[i]]])

Apps == {NotConfigured} \cup
        [1..Len(KeyOrder) -> (Values \cup {FromEnv}) \ {Unset}]

TypeOK ==
  /\ db \in [Keys -> MaybeValues]
  /\ put \in [Requests -> Bodies \cup {NotServed}]
  /\ loading \subseteq Providers
  /\ got \in [Providers -> Seq(MaybeValues)]
  /\ \A p \in Providers : Len(got[p]) <= Len(KeyOrder)
  /\ age \in [Providers -> 0..TTL]
  /\ cached \subseteq Providers
  /\ app \in [Providers -> Apps]
  /\ since \in 0..TTL
  /\ dbUp \in BOOLEAN
  /\ faults \in 0..MaxFaults

Init ==
  /\ db = [k \in Keys |-> Unset]
  /\ put = [r \in Requests |-> NotServed]
  /\ loading = {}
  /\ got = [p \in Providers |-> <<>>]
  /\ age = [p \in Providers |-> TTL]
  /\ cached = {}
  /\ app = [p \in Providers |-> NotConfigured]
  /\ since = TTL
  /\ dbUp = TRUE
  /\ faults = 0

(***************************************************************************)
(* PUT /api/admin/settings.                                                *)
(***************************************************************************)

BeginPut(r) ==
  /\ put[r] = NotServed
  /\ put' \in {[put EXCEPT ![r] = b] : b \in Bodies}
  /\ UNCHANGED <<db, providerVars, since, dbUp, faults>>

Pending(r) == {k \in Keys : put[r] # NotServed /\ put[r][k] # Keep}

\* The first key of the request not dealt with; its error is ignored.
WriteKey(r) ==
  \E i \in 1..Len(KeyOrder) :
    LET k == KeyOrder[i] IN
    /\ k \in Pending(r)
    /\ \A j \in 1..(i - 1) : KeyOrder[j] \notin Pending(r)
    /\ put' = [put EXCEPT ![r][k] = Keep]
    /\ IF dbUp
       THEN db' = [db EXCEPT ![k] = put[r][k]] /\ since' = 0
       ELSE UNCHANGED <<db, since>>
    /\ UNCHANGED <<providerVars, dbUp, faults>>

\* A faulty Invalidate: only lastApp is cleared, not the time it was loaded.
InvalidateApp(r) ==
  /\ put[r] # NotServed
  /\ Pending(r) = {}
  /\ Api \notin loading
  /\ put' = [put EXCEPT ![r] = NotServed]
  /\ app' = [app EXCEPT ![Api] = NotConfigured]
  /\ UNCHANGED <<db, loading, got, age, cached, since, dbUp, faults>>

\* Invalidate takes the provider's mutex; the handler answers 200.
Invalidate(r) ==
  /\ put[r] # NotServed
  /\ Pending(r) = {}
  /\ Api \notin loading
  /\ put' = [put EXCEPT ![r] = NotServed]
  /\ cached' = cached \ {Api}
  /\ app' = [app EXCEPT ![Api] = NotConfigured]
  /\ UNCHANGED <<db, loading, got, age, since, dbUp, faults>>

(***************************************************************************)
(* GitHubAppProvider.Get.                                                  *)
(***************************************************************************)

\* A Get that finds this answers with app[p] at once.
Fresh(p) == p \in cached \ loading /\ age[p] < TTL

\* lastLoad is set before anything is read.  The mutex is held until the App is
\* stored: other callers of the process wait.
BeginLoad(p) ==
  /\ p \notin loading
  /\ ~Fresh(p)
  /\ loading' = loading \cup {p}
  /\ got' = [got EXCEPT ![p] = <<>>]
  /\ age' = [age EXCEPT ![p] = 0]
  /\ cached' = cached \cup {p}
  /\ UNCHANGED <<db, put, app, since, dbUp, faults>>

\* One row; with Postgres down, or after an error, the key counts as unset.
ReadKey(p) ==
  /\ p \in loading
  /\ Len(got[p]) < Len(KeyOrder)
  /\ got' = [got EXCEPT ![p] = Append(@, IF dbUp THEN db[KeyOrder[Len(@) + 1]]
                                                ELSE Unset)]
  /\ UNCHANGED <<db, put, loading, age, cached, app, since, dbUp, faults>>

\* A faulty FinishLoad: the lifetime starts when the App is stored.
FinishLoadRestarted(p) ==
  /\ p \in loading
  /\ Len(got[p]) = Len(KeyOrder)
  /\ app' = [app EXCEPT ![p] = Build(got[p])]
  /\ age' = [age EXCEPT ![p] = 0]
  /\ loading' = loading \ {p}
  /\ got' = [got EXCEPT ![p] = <<>>]
  /\ UNCHANGED <<db, put, cached, since, dbUp, faults>>

FinishLoad(p) ==
  /\ p \in loading
  /\ Len(got[p]) = Len(KeyOrder)
  /\ app' = [app EXCEPT ![p] = Build(got[p])]
  /\ loading' = loading \ {p}
  /\ got' = [got EXCEPT ![p] = <<>>]
  /\ UNCHANGED <<db, put, age, cached, since, dbUp, faults>>

(***************************************************************************)
(* The environment.                                                        *)
(***************************************************************************)

\* Reading three rows takes less than the cache's lifetime.
Tick ==
  /\ \A p \in loading : age[p] < TTL - 1
  /\ age' = [p \in Providers |-> IF age[p] < TTL THEN age[p] + 1 ELSE TTL]
  /\ since' = IF since < TTL THEN since + 1 ELSE TTL
  /\ UNCHANGED <<db, put, loading, got, cached, app, dbUp, faults>>

Fault(kind) ==
  /\ kind \in FaultKinds
  /\ faults < MaxFaults
  /\ faults' = faults + 1

\* The client of a PUT disconnects: its context is done and every write left to
\* do fails; the provider is invalidated all the same.
PutCancelled(r) ==
  /\ Fault("client")
  /\ Pending(r) # {}
  /\ put' = [put EXCEPT ![r] = [k \in Keys |-> Keep]]
  /\ UNCHANGED <<db, providerVars, since, dbUp>>

\* The client whose request made the provider load disconnects: the reads left
\* fail, and what they count as is cached for everybody.
LoadCancelled(p) ==
  /\ Fault("client")
  /\ p \in loading
  /\ got' = [got EXCEPT ![p] = @ \o [i \in 1..(Len(KeyOrder) - Len(@)) |-> Unset]]
  /\ since' = 0
  /\ UNCHANGED <<db, put, loading, age, cached, app, dbUp>>

DbGoesDown ==
  /\ Fault("db")
  /\ dbUp
  /\ dbUp' = FALSE
  /\ UNCHANGED <<db, put, providerVars, since>>

DbComesBack ==
  /\ ~dbUp
  /\ dbUp' = TRUE
  /\ since' = 0
  /\ UNCHANGED <<db, put, providerVars, faults>>

Next ==
  \/ \E r \in Requests :
       BeginPut(r) \/ WriteKey(r) \/ Invalidate(r) \/ PutCancelled(r)
  \/ \E p \in Providers :
       BeginLoad(p) \/ ReadKey(p) \/ FinishLoad(p) \/ LoadCancelled(p)
  \/ Tick \/ DbGoesDown \/ DbComesBack

Spec == Init /\ [][Next]_vars

(***************************************************************************)
(* Properties.                                                             *)
(***************************************************************************)

\* When no PUT is being served and Postgres never failed, the API's provider
\* answers with what is saved: a load that began before the last write cannot
\* store its result after the invalidation, the mutex is held throughout.
ApiIsCurrent ==
  faults = 0 /\ (\A r \in Requests : put[r] = NotServed) /\ Fresh(Api)
    => app[Api] = Current

\* Every provider, the worker's too, forgets within the lifetime of its cache:
\* settings half written, a PUT that broke off, an outage or a cancelled load
\* are not visible in an answer TTL after the last of them.
StaleAtMostTTL ==
  dbUp /\ since = TTL => \A p \in Providers : Fresh(p) => app[p] = Current
=============================================================================
