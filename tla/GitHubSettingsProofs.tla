------------------------ MODULE GitHubSettingsProofs ------------------------
(***************************************************************************)
(* Proofs about GitHubSettings, for any settings, values and number of     *)
(* processes and of requests, any lifetime of the cache, and any number of *)
(* outages and cancelled requests.                                         *)
(*                                                                         *)
(* A provider's age tells whether something was written after its load     *)
(* began: then since is not above it.  This makes both bounds inductive.   *)
(***************************************************************************)
EXTENDS GitHubSettings, TLAPS

\* What p has read is what is stored; what p answers is.
ReadIsStored(p) == \A i \in 1..Len(got[p]) : got[p][i] = db[KeyOrder[i]]
Agrees(p) ==
  /\ p \in loading => ReadIsStored(p)
  /\ p \in cached \ loading => app[p] = Current

\* Nothing was written, no outage ended and no load was cancelled after p's load began.
Undisturbed(p) == dbUp /\ age[p] < since

\* No fault at all, and no PUT is being served.
Calm == faults = 0 /\ \A r \in Requests : put[r] = NotServed

SettingsInv ==
  /\ TypeOK
  /\ faults = 0 => dbUp
  /\ \A p \in Providers : Undisturbed(p) => Agrees(p)
  /\ Calm => Agrees(Api)

USE GitHubSettingsAssumption, KeysAssumption

\* The order of the keys lists keys.
LEMMA KeyAt ==
  /\ Len(KeyOrder) \in Nat
  /\ \A i \in 1..Len(KeyOrder) : KeyOrder[i] \in Keys
  BY DEF Keys

\* Everything was read, and it is what is stored: the App is the current one.
LEMMA AllRead ==
  ASSUME TypeOK, NEW p \in Providers, Len(got[p]) = Len(KeyOrder), ReadIsStored(p)
  PROVE  Build(got[p]) = Current
  <1>1. got[p] = [i \in 1..Len(KeyOrder) |-> db[KeyOrder[i]]]
    <2>1. got[p] = [i \in 1..Len(got[p]) |-> got[p][i]]
      BY DEF TypeOK
    <2> QED BY <2>1 DEF ReadIsStored
  <1> QED BY <1>1 DEF Current

\* An App has every value, from the settings or from the environment.
LEMMA BuildType ==
  ASSUME NEW s \in Seq(MaybeValues), Len(s) = Len(KeyOrder)
  PROVE  Build(s) \in Apps
  <1> DEFINE eff == [i \in DOMAIN s |-> Effective(s[i])]
  <1>1. DOMAIN s = 1..Len(KeyOrder) /\ \A i \in DOMAIN s : s[i] \in MaybeValues
    OBVIOUS
  <1>2. CASE \E i \in DOMAIN eff : eff[i] = Unset
    BY <1>2 DEF Build, Apps
  <1>3. CASE ~\E i \in DOMAIN eff : eff[i] = Unset
    <2>1. \A i \in DOMAIN s : eff[i] \in (Values \cup {FromEnv}) \ {Unset}
      BY <1>1, <1>3 DEF Effective, MaybeValues
    <2>2. eff \in [1..Len(KeyOrder) -> (Values \cup {FromEnv}) \ {Unset}]
      BY <1>1, <2>1
    <2> QED BY <1>3, <2>2 DEF Build, Apps
  <1> QED BY <1>2, <1>3

\* A sequence of values that is filled up to n with Unset is one of length n.
LEMMA FilledUp ==
  ASSUME NEW s \in Seq(MaybeValues), NEW n \in Nat, Len(s) <= n
  PROVE  LET t == s \o [i \in 1..(n - Len(s)) |-> Unset]
         IN t \in Seq(MaybeValues) /\ Len(t) = n
  <1> DEFINE u == [i \in 1..(n - Len(s)) |-> Unset]
  <1>1. u \in Seq(MaybeValues) /\ Len(u) = n - Len(s)
    BY DEF MaybeValues
  <1> HIDE DEF u
  <1>2. s \o u \in Seq(MaybeValues) /\ Len(s \o u) = n
    BY <1>1
  <1> QED BY <1>2 DEF u

\* The initial state satisfies the invariant.
LEMMA InitInv ==
  Init => SettingsInv
  <1> SUFFICES ASSUME Init PROVE SettingsInv
    OBVIOUS
  <1>1. TypeOK
    <2>1. dbUp \in BOOLEAN
      BY Zenon DEF Init
    <2> QED BY <2>1, KeyAt DEF Init, TypeOK, MaybeValues, Apps
  <1>2. faults = 0 => dbUp
    BY Zenon DEF Init
  <1>3. \A p \in Providers : Agrees(p)
    BY DEF Init, Agrees
  <1> QED BY <1>1, <1>2, <1>3 DEF SettingsInv

\* Types.
LEMMA StepType ==
  ASSUME SettingsInv, [Next]_vars
  PROVE  TypeOK'
  <1> USE DEF SettingsInv, TypeOK
  <1>1. ASSUME NEW r \in Requests, BeginPut(r) PROVE TypeOK'
    BY <1>1 DEF BeginPut, providerVars
  <1>2. ASSUME NEW r \in Requests, WriteKey(r) PROVE TypeOK'
    <2>1. PICK i \in 1..Len(KeyOrder) :
            /\ KeyOrder[i] \in Pending(r)
            /\ put' = [put EXCEPT ![r][KeyOrder[i]] = Keep]
            /\ IF dbUp THEN db' = [db EXCEPT ![KeyOrder[i]] = put[r][KeyOrder[i]]]
                            /\ since' = 0
                       ELSE UNCHANGED <<db, since>>
            /\ UNCHANGED <<providerVars, dbUp, faults>>
      BY <1>2 DEF WriteKey
    <2>2. /\ KeyOrder[i] \in Keys /\ put[r] \in Bodies
          /\ put[r][KeyOrder[i]] \in MaybeValues
      BY <2>1, KeyAt DEF Pending, Bodies
    <2>3. put' \in [Requests -> Bodies \cup {NotServed}]
      BY <2>1, <2>2 DEF Bodies
    <2>4. db' \in [Keys -> MaybeValues] /\ since' \in 0..TTL
      <3>1. CASE dbUp
        <4>1. db' = [db EXCEPT ![KeyOrder[i]] = put[r][KeyOrder[i]]] /\ since' = 0
          BY <2>1, <3>1, Zenon
        <4> QED BY <2>2, <4>1
      <3>2. CASE ~dbUp
        BY <2>1, <3>2
      <3> QED BY <3>1, <3>2
    <2> QED BY <2>1, <2>3, <2>4 DEF providerVars
  <1>3. ASSUME NEW r \in Requests, Invalidate(r) PROVE TypeOK'
    BY <1>3 DEF Invalidate, Apps
  <1>4. ASSUME NEW r \in Requests, PutCancelled(r) PROVE TypeOK'
    <2>1. [k \in Keys |-> Keep] \in Bodies
      BY DEF Bodies
    <2> QED BY <1>4, <2>1 DEF PutCancelled, Fault, providerVars
  <1>5. ASSUME NEW p \in Providers, BeginLoad(p) PROVE TypeOK'
    BY <1>5, KeyAt DEF BeginLoad
  <1>6. ASSUME NEW p \in Providers, ReadKey(p) PROVE TypeOK'
    <2> DEFINE v == IF dbUp THEN db[KeyOrder[Len(got[p]) + 1]] ELSE Unset
    <2>1. got[p] \in Seq(MaybeValues) /\ Len(got[p]) \in Nat /\ Len(got[p]) + 1 \in 1..Len(KeyOrder)
      BY <1>6, KeyAt DEF ReadKey
    <2>2. v \in MaybeValues
      BY <2>1, KeyAt DEF MaybeValues
    <2> HIDE DEF v
    <2>3. Append(got[p], v) \in Seq(MaybeValues) /\ Len(Append(got[p], v)) = Len(got[p]) + 1
      BY <2>1, <2>2
    <2>4. got' = [got EXCEPT ![p] = Append(got[p], v)]
      BY <1>6 DEF ReadKey, v
    <2> QED BY <1>6, <2>1, <2>3, <2>4, KeyAt DEF ReadKey
  <1>7. ASSUME NEW p \in Providers, FinishLoad(p) PROVE TypeOK'
    <2>1. Build(got[p]) \in Apps
      BY <1>7, BuildType DEF FinishLoad
    <2> QED BY <1>7, <2>1, KeyAt DEF FinishLoad
  <1>8. ASSUME NEW p \in Providers, LoadCancelled(p) PROVE TypeOK'
    <2> DEFINE t == got[p] \o [i \in 1..(Len(KeyOrder) - Len(got[p])) |-> Unset]
    <2>1. t \in Seq(MaybeValues) /\ Len(t) = Len(KeyOrder)
      BY FilledUp, KeyAt
    <2>2. got' = [got EXCEPT ![p] = t]
      BY <1>8 DEF LoadCancelled
    <2> HIDE DEF t
    <2>3. got' \in [Providers -> Seq(MaybeValues)] /\ \A q \in Providers : Len(got'[q]) <= Len(KeyOrder)
      BY <2>1, <2>2, KeyAt
    <2>4. faults' \in 0..MaxFaults /\ since' \in 0..TTL
      BY <1>8 DEF LoadCancelled, Fault
    <2>5. UNCHANGED <<db, put, loading, age, cached, app, dbUp>>
      BY <1>8 DEF LoadCancelled
    <2> QED BY <2>3, <2>4, <2>5
  <1>9. CASE Tick
    BY <1>9 DEF Tick
  <1>10. CASE DbGoesDown
    <2>1. UNCHANGED <<db, put, providerVars, since>> /\ faults' \in 0..MaxFaults
      BY <1>10 DEF DbGoesDown, Fault
    <2>2. dbUp' \in BOOLEAN
      BY <1>10, Zenon DEF DbGoesDown
    <2> QED BY <2>1, <2>2 DEF providerVars
  <1>11. CASE DbComesBack
    BY <1>11 DEF DbComesBack, providerVars
  <1>12. CASE UNCHANGED vars
    BY <1>12 DEF vars
  <1> QED BY <1>1, <1>2, <1>3, <1>4, <1>5, <1>6, <1>7, <1>8, <1>9, <1>10, <1>11, <1>12
      DEF Next

\* A step that leaves the rows and provider p alone leaves what p agrees with alone.
LEMMA SameAgrees ==
  ASSUME NEW p \in Providers, UNCHANGED db,
         UNCHANGED <<got[p], app[p]>>, p \in loading' <=> p \in loading,
         p \in cached' => p \in cached, Agrees(p)
  PROVE  Agrees(p)'
  BY DEF Agrees, ReadIsStored, Current

\* A load that begins, goes on or ends while the rows stay what they are.
LEMMA LoadAgrees ==
  ASSUME TypeOK, NEW q \in Providers, NEW p \in Providers, dbUp, Agrees(p),
         BeginLoad(q) \/ ReadKey(q) \/ FinishLoad(q)
  PROVE  Agrees(p)'
  <1> USE DEF TypeOK
  <1>1. CASE p # q
    <2>1. /\ UNCHANGED db /\ UNCHANGED <<got[p], app[p]>>
          /\ (p \in loading' <=> p \in loading) /\ (p \in cached' => p \in cached)
      BY <1>1 DEF BeginLoad, ReadKey, FinishLoad
    <2> QED BY <2>1, SameAgrees
  <1>2. CASE p = q /\ BeginLoad(q)
    <2>1. p \in loading' /\ got'[p] = <<>>
      BY <1>2 DEF BeginLoad
    <2> QED BY <2>1 DEF Agrees, ReadIsStored
  <1>3. CASE p = q /\ ReadKey(q)
    <2>1. /\ p \in loading /\ p \in loading' /\ UNCHANGED db
          /\ got'[p] = Append(got[p], db[KeyOrder[Len(got[p]) + 1]])
      BY <1>3 DEF ReadKey
    <2>2. /\ got[p] \in Seq(MaybeValues) /\ Len(got[p]) \in Nat
          /\ Len(got'[p]) = Len(got[p]) + 1
          /\ \A i \in 1..Len(got[p]) : got'[p][i] = got[p][i]
          /\ got'[p][Len(got[p]) + 1] = db[KeyOrder[Len(got[p]) + 1]]
      BY <2>1
    <2>3. \A i \in 1..Len(got'[p]) : i \in 1..Len(got[p]) \/ i = Len(got[p]) + 1
      BY <2>2
    <2>4. ReadIsStored(p)
      BY <2>1 DEF Agrees
    <2> QED BY <2>1, <2>2, <2>3, <2>4 DEF Agrees, ReadIsStored
  <1>4. CASE p = q /\ FinishLoad(q)
    <2>1. Build(got[p]) = Current
      BY <1>4, AllRead DEF FinishLoad, Agrees
    <2>2. app'[p] = Build(got[p]) /\ p \notin loading' /\ UNCHANGED db
      BY <1>4 DEF FinishLoad
    <2> QED BY <2>1, <2>2 DEF Agrees, Current
  <1> QED BY <1>1, <1>2, <1>3, <1>4

\* While time passes a load that was disturbed stays so.
LEMMA TickUndisturbed ==
  ASSUME TypeOK, Tick, NEW p \in Providers, Undisturbed(p)'
  PROVE  Undisturbed(p)
  BY DEF TypeOK, Tick, Undisturbed

\* Every step keeps the invariant.
LEMMA StepInv ==
  SettingsInv /\ [Next]_vars => SettingsInv'
  <1> SUFFICES ASSUME SettingsInv, [Next]_vars PROVE SettingsInv'
    OBVIOUS
  <1> USE DEF SettingsInv
  <1>0. TypeOK'
    BY StepType
  <1>1. ASSUME NEW r \in Requests, BeginPut(r) PROVE SettingsInv'
    <2>1. UNCHANGED <<db, providerVars, since, dbUp, faults>>
      BY <1>1 DEF BeginPut
    <2>2. PICK b \in Bodies : put' = [put EXCEPT ![r] = b]
      BY <1>1 DEF BeginPut
    <2>3. ~Calm'
      BY <2>2 DEF Calm, TypeOK
    <2>4. \A p \in Providers : (Undisturbed(p)' <=> Undisturbed(p)) /\ (Agrees(p)' <=> Agrees(p))
      BY <2>1 DEF providerVars, Undisturbed, Agrees, ReadIsStored, Current
    <2> QED BY <1>0, <2>1, <2>3, <2>4
  <1>2. ASSUME NEW r \in Requests, WriteKey(r) PROVE SettingsInv'
    <2>1. PICK i \in 1..Len(KeyOrder) :
            /\ KeyOrder[i] \in Pending(r)
            /\ put' = [put EXCEPT ![r][KeyOrder[i]] = Keep]
            /\ IF dbUp THEN db' = [db EXCEPT ![KeyOrder[i]] = put[r][KeyOrder[i]]]
                            /\ since' = 0
                       ELSE UNCHANGED <<db, since>>
            /\ UNCHANGED <<providerVars, dbUp, faults>>
      BY <1>2 DEF WriteKey
    <2>2. ~Calm'
      <3>1. put[r] \in Bodies /\ KeyOrder[i] \in Keys
        BY <2>1, KeyAt DEF Pending, TypeOK
      <3>2. put'[r] \in Bodies
        BY <2>1, <3>1 DEF Bodies, TypeOK
      <3> QED BY <3>2 DEF Calm
    <2>3. \A p \in Providers : ~Undisturbed(p)'
      <3>1. CASE dbUp
        BY <2>1, <3>1, <1>0 DEF Undisturbed, TypeOK
      <3>2. CASE ~dbUp
        BY <2>1, <3>2, Zenon DEF Undisturbed
      <3> QED BY <3>1, <3>2
    <2>4. (faults = 0 => dbUp)'
      BY <2>1, Zenon
    <2> QED BY <1>0, <2>2, <2>3, <2>4
  <1>3. ASSUME NEW r \in Requests, Invalidate(r) PROVE SettingsInv'
    <2>1. /\ UNCHANGED <<db, loading, got, age, since, dbUp, faults>>
          /\ cached' = cached \ {Api} /\ Api \notin loading
          /\ app' = [app EXCEPT ![Api] = NotConfigured]
      BY <1>3 DEF Invalidate
    <2>2. Agrees(Api)'
      BY <2>1 DEF Agrees
    <2>3. \A p \in Providers : Undisturbed(p)' => Undisturbed(p)
      BY <2>1 DEF Undisturbed
    <2>4. ASSUME NEW p \in Providers, p # Api, Agrees(p) PROVE Agrees(p)'
      <3>1. app'[p] = app[p] /\ got'[p] = got[p]
        BY <2>1, <2>4 DEF TypeOK
      <3> QED BY <2>1, <2>4, <3>1 DEF Agrees, ReadIsStored, Current
    <2>5. (faults = 0 => dbUp)'
      BY <2>1, Zenon
    <2> QED BY <1>0, <2>2, <2>3, <2>4, <2>5
  <1>4. ASSUME NEW r \in Requests, PutCancelled(r) PROVE SettingsInv'
    <2>1. UNCHANGED <<db, providerVars, since, dbUp>> /\ faults' # 0
      BY <1>4 DEF PutCancelled, Fault, TypeOK
    <2>2. \A p \in Providers : (Undisturbed(p)' <=> Undisturbed(p)) /\ (Agrees(p)' <=> Agrees(p))
      BY <2>1 DEF providerVars, Undisturbed, Agrees, ReadIsStored, Current
    <2> QED BY <1>0, <2>1, <2>2 DEF Calm
  <1>5. ASSUME NEW q \in Providers, BeginLoad(q) \/ ReadKey(q) \/ FinishLoad(q)
        PROVE  SettingsInv'
    <2>1. UNCHANGED <<db, put, since, dbUp, faults>>
      BY <1>5 DEF BeginLoad, ReadKey, FinishLoad
    <2>2. ASSUME NEW p \in Providers, dbUp, Agrees(p) PROVE Agrees(p)'
      BY <1>5, <2>2, LoadAgrees
    <2>3. ASSUME NEW p \in Providers, Undisturbed(p)' PROVE Agrees(p)'
      <3>1. dbUp
        BY <2>1, <2>3, Zenon DEF Undisturbed
      <3>2. CASE BeginLoad(q) /\ p = q
        BY <3>2 DEF BeginLoad, Agrees, ReadIsStored, TypeOK
      <3>3. CASE ~(BeginLoad(q) /\ p = q)
        <4>1. age'[p] = age[p]
          BY <1>5, <3>3 DEF BeginLoad, ReadKey, FinishLoad, TypeOK
        <4>2. Undisturbed(p)
          BY <2>1, <2>3, <3>1, <4>1 DEF Undisturbed
        <4> QED BY <2>2, <3>1, <4>2
      <3> QED BY <3>2, <3>3
    <2>4. (faults = 0 => dbUp)'
      BY <2>1, Zenon
    <2>5. Calm' => Agrees(Api)'
      <3> SUFFICES ASSUME Calm' PROVE Agrees(Api)'
        OBVIOUS
      <3>1. Calm
        BY <2>1 DEF Calm
      <3>2. dbUp
        BY <3>1, Zenon DEF Calm
      <3> QED BY <2>2, <3>1, <3>2
    <2> QED BY <1>0, <2>3, <2>4, <2>5
  <1>6. ASSUME NEW q \in Providers, LoadCancelled(q) PROVE SettingsInv'
    <2>1. since' = 0 /\ faults' # 0
      BY <1>6 DEF LoadCancelled, Fault, TypeOK
    <2>2. \A p \in Providers : ~Undisturbed(p)'
      BY <1>0, <2>1 DEF Undisturbed, TypeOK
    <2> QED BY <1>0, <2>1, <2>2 DEF Calm
  <1>7. CASE Tick
    <2>1. UNCHANGED <<db, put, loading, got, cached, app, dbUp, faults>>
      BY <1>7 DEF Tick
    <2>2. \A p \in Providers : Agrees(p)' <=> Agrees(p)
      BY <2>1 DEF Agrees, ReadIsStored, Current
    <2>3. \A p \in Providers : Undisturbed(p)' => Undisturbed(p)
      BY <1>7, TickUndisturbed
    <2>4. Calm' => Calm
      BY <2>1 DEF Calm
    <2>5. (faults = 0 => dbUp)'
      BY <2>1, Zenon
    <2> QED BY <1>0, <2>2, <2>3, <2>4, <2>5
  <1>8. CASE DbGoesDown
    <2>1. faults' # 0
      BY <1>8 DEF DbGoesDown, Fault, TypeOK
    <2>2. \A p \in Providers : ~Undisturbed(p)'
      BY <1>8, Zenon DEF DbGoesDown, Undisturbed
    <2> QED BY <1>0, <2>1, <2>2 DEF Calm
  <1>9. CASE DbComesBack
    <2>1. since' = 0 /\ faults' = faults /\ ~dbUp
      BY <1>9 DEF DbComesBack
    <2>2. \A p \in Providers : ~Undisturbed(p)'
      BY <1>0, <2>1 DEF Undisturbed, TypeOK
    <2>3. faults' # 0
      BY <2>1, Zenon
    <2> QED BY <1>0, <2>2, <2>3 DEF Calm
  <1>10. CASE UNCHANGED vars
    <2>1. UNCHANGED <<db, put, loading, got, age, cached, app, since, dbUp, faults>>
      BY <1>10 DEF vars
    <2>2. \A p \in Providers : (Undisturbed(p)' <=> Undisturbed(p)) /\ (Agrees(p)' <=> Agrees(p))
      BY <2>1 DEF Undisturbed, Agrees, ReadIsStored, Current
    <2>3. Calm' <=> Calm
      BY <2>1 DEF Calm
    <2>4. (faults = 0 => dbUp)'
      BY <2>1, Zenon
    <2> QED BY <1>0, <2>2, <2>3, <2>4
  <1> QED BY <1>1, <1>2, <1>3, <1>4, <1>5, <1>6, <1>7, <1>8, <1>9, <1>10 DEF Next

\* So the invariant holds in every state of every behaviour.
LEMMA Invariance ==
  Spec => []SettingsInv
  BY InitInv, StepInv, PTL DEF Spec

\* Whatever is saved and however requests break off, rows, requests and caches hold
\* values, and an App has every value or is not there.
THEOREM SettingsTypeCorrect ==
  Spec => []TypeOK
  <1>1. SettingsInv => TypeOK
    BY DEF SettingsInv
  <1> QED BY <1>1, Invariance, PTL

\* Without faults the API's provider answers with what is saved once no PUT is being
\* served, for any number of PUTs and Gets that race (GitHubAppProvider.Invalidate).
THEOREM ApiIsAlwaysCurrent ==
  Spec => []ApiIsCurrent
  <1>1. SettingsInv => ApiIsCurrent
    BY DEF SettingsInv, ApiIsCurrent, Calm, Agrees, Fresh
  <1> QED BY <1>1, Invariance, PTL

\* No provider answers with anything but what is stored once TTL has passed since the
\* last write, outage or cancelled load, whatever their number.
THEOREM StaleForAtMostTTL ==
  Spec => []StaleAtMostTTL
  <1>1. SettingsInv => StaleAtMostTTL
    BY DEF SettingsInv, StaleAtMostTTL, Undisturbed, Agrees, Fresh, TypeOK
  <1> QED BY <1>1, Invariance, PTL
=============================================================================
