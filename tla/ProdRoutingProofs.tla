------------------------- MODULE ProdRoutingProofs -------------------------
(***************************************************************************)
(* Proofs about ProdRouting, for every set of projects and deployments and *)
(* every fault bound: with any number of requests racing, that no host is  *)
(* sent astray; and with one request at a time, that the whole-file        *)
(* rewrite is an alias per project that has its host to itself, and that   *)
(* every complete rewrite heals.                                           *)
(* Together with the worker, that a host reaches a deployment that has a   *)
(* container.                                                              *)
(***************************************************************************)
EXTENDS ProdRouting, TLAPS

\* A value that may stand in the pointer of project p, or in the file for host k.
OwnPromoted(d, p) == d # None => d \in promoted /\ ProjectOf[d] = p
HostPromoted(d, k) == d # None => d \in recorded \cap promoted /\ HostOf[ProjectOf[d]] = k

\* Every copy a request makes on its way from the pointers to the file holds
\* deployments of the right project only, and the file recorded ones only.
RoutingInv ==
  /\ TypeOK
  /\ \A h \in Handlers : pc[h] # "idle" => target[h] \in created
  /\ \A p \in Projects :
       /\ OwnPromoted(pointer[p], p)
       /\ \A h \in Handlers : OwnPromoted(snap[h][p], p)
  /\ \A k \in Hosts :
       /\ HostPromoted(route[k], k)
       /\ \A h \in Handlers : HostPromoted(out[h][k], k)

\* In the initial state nothing points anywhere.
LEMMA RoutingInvInit == Init => RoutingInv
  <1> SUFFICES ASSUME Init PROVE RoutingInv
    OBVIOUS
  <1>1. /\ NoRoutes \in [Hosts -> MaybeDeployment]
        /\ NoPointers \in [Projects -> MaybeDeployment]
    BY DEF NoRoutes, NoPointers, MaybeDeployment
  <1>2. TypeOK
    <2>1. early \in BOOLEAN
      BY Zenon DEF Init
    <2>2. snap \in [Handlers -> [Projects -> MaybeDeployment]]
      BY <1>1, Zenon DEF Init
    <2>3. out \in [Handlers -> [Hosts -> MaybeDeployment]]
      BY <1>1, Zenon DEF Init
    <2>4. QED
      BY <1>1, <2>1, <2>2, <2>3, RoutingAssumption
         DEF Init, TypeOK, MaybeDeployment
  <1>3. /\ \A k \in Hosts : NoRoutes[k] = None
        /\ \A p \in Projects : NoPointers[p] = None
    BY DEF NoRoutes, NoPointers
  <1>4. \A h \in Handlers : pc[h] = "idle" /\ snap[h] = NoPointers /\ out[h] = NoRoutes
    BY DEF Init
  <1>5. pointer = NoPointers /\ route = NoRoutes
    BY DEF Init
  <1>6. QED
    BY <1>2, <1>3, <1>4, <1>5 DEF RoutingInv, OwnPromoted, HostPromoted

\* Every step of any request, of the worker and of the installer keeps it.
LEMMA RoutingInvStep == RoutingInv /\ [Next]_vars => RoutingInv'
  <1> SUFFICES ASSUME RoutingInv, [Next]_vars PROVE RoutingInv'
    OBVIOUS
  <1> USE RoutingAssumption
      DEF RoutingInv, TypeOK, OwnPromoted, HostPromoted, NoRoutes, NoPointers,
          MaybeDeployment, dbVars, handlerVars
  <1>1. ASSUME NEW d \in Deployments, CreateRow(d) PROVE RoutingInv'
    BY <1>1 DEF CreateRow
  <1>2. ASSUME NEW d \in Deployments, Publish(d) PROVE RoutingInv'
    BY <1>2 DEF Publish
  <1>3. ASSUME NEW h \in Handlers, NEW d \in Deployments, BeginPromote(h, d)
         PROVE  RoutingInv'
    BY <1>3 DEF BeginPromote
  <1>4. ASSUME NEW h \in Handlers, SetPointer(h) PROVE RoutingInv'
    BY <1>4 DEF SetPointer
  <1>5. ASSUME NEW h \in Handlers, ListProjects(h) PROVE RoutingInv'
    BY <1>5 DEF ListProjects
  <1>6. ASSUME NEW h \in Handlers, NEW p \in Projects, LookUp(h, p)
         PROVE  RoutingInv'
    <2>1. /\ p \in Projects /\ pc[h] = "reading"
          /\ todo' = [todo EXCEPT ![h] = @ \ {p}]
          /\ UNCHANGED <<created, recorded, pointer, promoted, early, route, pc, target, snap,
                          faults>>
      BY <1>6 DEF LookUp
    <2>2. CASE /\ snap[h][p] \in recorded
               /\ out' = [out EXCEPT ![h][HostOf[p]] = snap[h][p]]
               /\ UNCHANGED missed
      <3>1. /\ HostOf[p] \in Hosts /\ snap[h][p] \in Deployments
            /\ HostPromoted(snap[h][p], HostOf[p])
        BY <2>2
      <3>2. out' \in [Handlers -> [Hosts -> MaybeDeployment]]
        BY <2>2, <3>1
      <3>3. \A g \in Handlers, k \in Hosts :
              out'[g][k] = IF g = h /\ k = HostOf[p] THEN snap[h][p] ELSE out[g][k]
        BY <2>2, <3>1
      <3> QED BY <2>1, <2>2, <3>1, <3>2, <3>3
    <2>3. CASE /\ missed' = [missed EXCEPT ![h] = @ \cup {p}]
               /\ UNCHANGED out
      BY <2>1, <2>3
    <2> QED BY <1>6, <2>2, <2>3 DEF LookUp
  <1>7. ASSUME NEW h \in Handlers, WriteFile(h) PROVE RoutingInv'
    BY <1>7 DEF WriteFile, Forget
  <1>8. ASSUME NEW h \in Handlers, RequestFails(h) PROVE RoutingInv'
    BY <1>8 DEF RequestFails, Forget, Fault
  <1>9. ASSUME NEW h \in Handlers, NEW p \in Projects, LookUpFails(h, p)
         PROVE  RoutingInv'
    BY <1>9 DEF LookUpFails, Listed, Fault
  <1>10. ASSUME InstallerSeedsFile PROVE RoutingInv'
    BY <1>10 DEF InstallerSeedsFile, Fault
  <1>11. CASE UNCHANGED vars
    BY <1>11 DEF vars
  <1>12. QED
    BY <1>1, <1>2, <1>3, <1>4, <1>5, <1>6, <1>7, <1>8, <1>9, <1>10, <1>11
       DEF Next, HandlerStep

\* The invariant of racing promotes: every copy of a route, from the pointers to
\* the file, is of a deployment that was promoted and recorded.
LEMMA RoutingInvHolds == Spec => []RoutingInv
  BY RoutingInvInit, RoutingInvStep, PTL DEF Spec

\* Every variable stays in its range, whatever promotes race.
THEOREM RoutingTypeCorrect == Spec => []TypeOK
  <1>1. RoutingInv => TypeOK
    BY DEF RoutingInv
  <1>2. QED
    BY <1>1, RoutingInvHolds, PTL

\* However many promotes race and whatever fails, writeTraefikProdRoute sends
\* no production host to a deployment of a project with another host, to one that
\* nobody promoted, or to one without a container.
THEOREM RouteIsAlwaysBacked == Spec => []RouteBacked
  <1>1. RoutingInv => RouteBacked
    BY DEF RoutingInv, RouteBacked, HostPromoted
  <1>2. QED
    BY <1>1, RoutingInvHolds, PTL

(***************************************************************************)
(* One request at a time.                                                  *)
(***************************************************************************)

\* What makes promotes serial: there is only one handler.
OneAtATime == \E h : Handlers = {h}

\* What a request has looked up so far.
Done(h) == {p \in Projects : p \notin todo[h]}

\* As long as nothing irregular has happened, the file lags behind the pointers
\* at the host of the project being promoted only, and the new file leaves
\* nothing out.
InStep(h) ==
  /\ promoted \subseteq recorded
  /\ missed[h] = {}
  /\ pc[h] \in {"idle", "loaded"} => Serves(route, pointer, Projects)
  /\ pc[h] \in {"pointed", "reading"} =>
       /\ pointer[ProjectOf[target[h]]] = target[h]
       /\ \A p \in OwnHost : p # ProjectOf[target[h]] => route[HostOf[p]] = pointer[p]

\* Nobody moves a pointer between the reading and the rename; what has been read,
\* newest first, is in the new file unless it was left out.
SerialInv(h) ==
  /\ pc[h] = "reading" =>
       /\ snap[h] = pointer
       /\ todo[h] \subseteq {p \in Projects : pointer[p] # None}
       /\ \A p \in Done(h), q \in todo[h] :
            pointer[p] # None => CreatedAt[q] <= CreatedAt[p]
       /\ missed[h] = {} => Serves(out[h], pointer, Done(h))
  /\ pc[h] # "reading" => out[h] = NoRoutes /\ missed[h] = {}
  /\ Regular => InStep(h)

\* An empty file serves projects that were never promoted.
LEMMA NothingServed ==
  ASSUME NEW ptr, NEW S, \A p \in S : ptr[p] = None
  PROVE  Serves(NoRoutes, ptr, S)
  BY DEF Serves, Claiming, NoRoutes

\* Writing the oldest of what has been looked up so far over the others of its host
\* keeps the file true to all of them.
LEMMA OldestOverwrites ==
  ASSUME RoutingAssumption,
         NEW ptr, NEW S \in SUBSET Projects, NEW p \in Projects \ S, ptr[p] # None,
         \A q \in S : ptr[q] # None => CreatedAt[p] <= CreatedAt[q],
         NEW file \in [Hosts -> MaybeDeployment], Serves(file, ptr, S)
  PROVE  Serves([file EXCEPT ![HostOf[p]] = ptr[p]], ptr, S \cup {p})
  <1> DEFINE new == [file EXCEPT ![HostOf[p]] = ptr[p]]
  <1> SUFFICES ASSUME NEW k \in Hosts
               PROVE  \/ Claiming(ptr, S \cup {p}, k) = {} /\ new[k] = None
                      \/ \E q \in Oldest(Claiming(ptr, S \cup {p}, k)) : new[k] = ptr[q]
    BY DEF Serves
  <1>1. CASE k = HostOf[p]
    <2>1. p \in Claiming(ptr, S \cup {p}, k)
      BY <1>1 DEF Claiming
    <2>2. \A q \in Claiming(ptr, S \cup {p}, k) : CreatedAt[p] <= CreatedAt[q]
      <3>1. CreatedAt[p] \in Nat
        BY DEF RoutingAssumption
      <3> QED BY <3>1 DEF Claiming
    <2>3. new[k] = ptr[p]
      BY <1>1
    <2> QED BY <2>1, <2>2, <2>3 DEF Oldest
  <1>2. CASE k # HostOf[p]
    <2>1. Claiming(ptr, S \cup {p}, k) = Claiming(ptr, S, k)
      BY <1>2 DEF Claiming
    <2>2. new[k] = file[k]
      BY <1>2
    <2> QED BY <2>1, <2>2 DEF Serves
  <1> QED BY <1>1, <1>2

\* A host of one project reaches what that project's pointer says.
LEMMA OwnHostServed ==
  ASSUME RoutingAssumption, NEW ptr, NEW file, Serves(file, ptr, Projects),
         NEW p \in OwnHost
  PROVE  file[HostOf[p]] = ptr[p]
  <1>1. HostOf[p] \in Hosts /\ p \in Projects
    BY DEF RoutingAssumption, OwnHost
  <1>2. \A q \in Projects : HostOf[q] = HostOf[p] => q = p
    BY DEF OwnHost
  <1>3. ptr[p] = None => Claiming(ptr, Projects, HostOf[p]) = {}
    BY <1>2 DEF Claiming
  <1>4. ptr[p] # None => p \in Claiming(ptr, Projects, HostOf[p])
    BY <1>1 DEF Claiming
  <1>5. \A q \in Oldest(Claiming(ptr, Projects, HostOf[p])) : q = p
    BY <1>2 DEF Claiming, Oldest
  <1> QED BY <1>1, <1>3, <1>4, <1>5 DEF Serves, Oldest

\* In the initial state file and pointers are both empty.
LEMMA SerialInvInit ==
  ASSUME NEW h, Handlers = {h}
  PROVE  Init => SerialInv(h)
  <1> SUFFICES ASSUME Init PROVE SerialInv(h)
    OBVIOUS
  <1>1. /\ pc[h] = "idle" /\ out[h] = NoRoutes /\ missed[h] = {} /\ promoted = {}
        /\ route = NoRoutes /\ pointer = NoPointers
    BY DEF Init
  <1>2. Serves(route, pointer, Projects)
    BY <1>1, NothingServed DEF NoPointers
  <1> QED BY <1>1, <1>2 DEF SerialInv, InStep

\* Every step keeps it, whichever fails.
LEMMA SerialInvStep ==
  ASSUME NEW h, Handlers = {h}
  PROVE  RoutingInv /\ SerialInv(h) /\ [Next]_vars => SerialInv(h)'
  <1> SUFFICES ASSUME RoutingInv, SerialInv(h), [Next]_vars PROVE SerialInv(h)'
    OBVIOUS
  <1> USE RoutingAssumption DEF RoutingInv, TypeOK, dbVars, handlerVars
  \* Steps that leave what a request knows, the pointers and the file alone.
  <1>0. ASSUME UNCHANGED <<pointer, route, snap, todo, out, missed, promoted, early>>,
               pc'[h] = pc[h], target'[h] = target[h], recorded \subseteq recorded',
               Regular' => Regular
        PROVE  SerialInv(h)'
    <2>1. Done(h)' = Done(h)
      BY <1>0 DEF Done
    <2>2. /\ Serves(out[h], pointer, Done(h))' = Serves(out[h], pointer, Done(h))
          /\ Serves(route, pointer, Projects)' = Serves(route, pointer, Projects)
      BY <1>0, <2>1 DEF Serves
    <2>3. InStep(h) => InStep(h)'
      BY <1>0, <2>2 DEF InStep
    <2> QED BY <1>0, <2>1, <2>2, <2>3 DEF SerialInv
  <1>1. ASSUME NEW d \in Deployments, CreateRow(d) PROVE SerialInv(h)'
    BY <1>0, <1>1 DEF CreateRow, Regular
  <1>2. ASSUME NEW d \in Deployments, Publish(d) PROVE SerialInv(h)'
    BY <1>0, <1>2 DEF Publish, Regular
  <1>3. ASSUME NEW d \in Deployments, BeginPromote(h, d) PROVE SerialInv(h)'
    <2>1. /\ pc[h] = "idle" /\ pc'[h] = "loaded"
          /\ UNCHANGED <<pointer, route, recorded, promoted, early, faults, out, missed>>
      BY <1>3 DEF BeginPromote
    <2>2. Serves(route, pointer, Projects)' = Serves(route, pointer, Projects)
      BY <2>1 DEF Serves
    <2> QED BY <2>1, <2>2 DEF SerialInv, InStep, Regular
  <1>4. ASSUME SetPointer(h) PROVE SerialInv(h)'
    <2>1. /\ pc[h] = "loaded" /\ pc'[h] = "pointed" /\ target[h] \in Deployments
          /\ pointer' = [pointer EXCEPT ![ProjectOf[target[h]]] = target[h]]
          /\ promoted' = promoted \cup {target[h]}
          /\ early' = (early \/ target[h] \notin recorded)
          /\ UNCHANGED <<recorded, route, target, snap, todo, out, missed, faults>>
      BY <1>4 DEF SetPointer
    <2>2. pointer'[ProjectOf[target[h]]] = target[h]
      BY <2>1
    <2>3. \A p \in Projects : p # ProjectOf[target[h]] => pointer'[p] = pointer[p]
      BY <2>1
    <2>4. Regular' => Regular /\ target[h] \in recorded
      BY <2>1, Zenon DEF Regular
    <2>5. Regular => \A p \in OwnHost : route[HostOf[p]] = pointer[p]
      BY <2>1, OwnHostServed DEF SerialInv, InStep
    <2>6. Regular' => InStep(h)'
      BY <2>1, <2>2, <2>3, <2>4, <2>5 DEF InStep, SerialInv, OwnHost
    <2> QED BY <2>1, <2>6 DEF SerialInv
  <1>5. ASSUME ListProjects(h) PROVE SerialInv(h)'
    <2>1. /\ pc[h] = "pointed" /\ pc'[h] = "reading" /\ snap'[h] = pointer
          /\ todo'[h] = {p \in Projects : pointer[p] # None}
          /\ UNCHANGED <<pointer, route, recorded, promoted, early, faults, target, out, missed>>
      BY <1>5 DEF ListProjects
    <2>2. Done(h)' = {p \in Projects : pointer[p] = None}
      BY <2>1 DEF Done
    <2>3. Serves(out[h], pointer, Done(h))'
      <3>1. Serves(NoRoutes, pointer', Done(h)')
        BY <2>1, <2>2, NothingServed
      <3> QED BY <2>1, <3>1 DEF SerialInv, Serves
    <2> QED BY <2>1, <2>2, <2>3 DEF SerialInv, InStep, Regular
  <1>6. ASSUME NEW p \in Projects, LookUp(h, p) PROVE SerialInv(h)'
    <2>1. /\ pc[h] = "reading" /\ p \in todo[h] /\ snap[h] = pointer /\ pointer[p] # None
          /\ \A q \in todo[h] : CreatedAt[q] <= CreatedAt[p]
          /\ todo'[h] = todo[h] \ {p}
          /\ UNCHANGED <<pointer, route, recorded, promoted, early, faults, target, pc, snap>>
      BY <1>6 DEF LookUp, Listed, SerialInv
    <2>2. Done(h)' = Done(h) \cup {p} /\ p \notin Done(h) /\ Done(h) \subseteq Projects
      BY <2>1 DEF Done
    <2>3. \A x \in Done(h)', q \in todo'[h] : pointer[x] # None => CreatedAt[q] <= CreatedAt[x]
      BY <2>1, <2>2 DEF SerialInv
    <2>4. CASE /\ pointer[p] \in recorded /\ missed' = missed
               /\ out'[h] = [out[h] EXCEPT ![HostOf[p]] = pointer[p]]
      <3>1. ASSUME missed[h] = {} PROVE Serves(out'[h], pointer, Done(h)')
        <4>1. \A q \in Done(h) : pointer[q] # None => CreatedAt[p] <= CreatedAt[q]
          BY <2>1 DEF SerialInv
        <4>2. Serves(out[h], pointer, Done(h)) /\ out[h] \in [Hosts -> MaybeDeployment]
          BY <2>1, <3>1 DEF SerialInv
        <4>3. Serves([out[h] EXCEPT ![HostOf[p]] = pointer[p]], pointer, Done(h) \cup {p})
          BY <2>1, <2>2, <4>1, <4>2, OldestOverwrites
        <4> QED BY <2>2, <2>4, <4>3, Zenon
      <3>2. missed'[h] = {} => Serves(out[h], pointer, Done(h))'
        BY <2>1, <2>4, <3>1 DEF Serves
      <3> QED BY <2>1, <2>2, <2>3, <2>4, <3>2 DEF SerialInv, InStep, Regular
    <2>5. CASE pointer[p] \notin recorded /\ missed'[h] = missed[h] \cup {p}
      <3>1. ~Regular
        BY <2>1, <2>5 DEF SerialInv, InStep, OwnPromoted
      <3> QED BY <2>1, <2>2, <2>3, <2>5, <3>1 DEF SerialInv, Regular
    <2> QED BY <1>6, <2>1, <2>4, <2>5 DEF LookUp
  <1>7. ASSUME WriteFile(h) PROVE SerialInv(h)'
    <2>1. /\ pc[h] = "reading" /\ todo[h] = {} /\ route' = out[h] /\ pc'[h] = "idle"
          /\ out'[h] = NoRoutes /\ missed'[h] = {}
          /\ UNCHANGED <<pointer, recorded, promoted, early, faults>>
      BY <1>7 DEF WriteFile, Forget
    <2>2. Done(h) = Projects
      BY <2>1 DEF Done
    <2>3. Regular => Serves(out[h], pointer, Projects)
      BY <2>1, <2>2 DEF SerialInv, InStep
    <2>4. Regular => Serves(route, pointer, Projects)'
      BY <2>1, <2>3 DEF Serves
    <2> QED BY <2>1, <2>4 DEF SerialInv, InStep, Regular
  <1>8. ASSUME RequestFails(h) PROVE SerialInv(h)'
    BY <1>8 DEF RequestFails, Forget, Fault, SerialInv, Regular
  <1>9. ASSUME NEW p \in Projects, LookUpFails(h, p) PROVE SerialInv(h)'
    <2>1. /\ pc[h] = "reading" /\ p \in todo[h] /\ snap[h] = pointer
          /\ \A q \in todo[h] : CreatedAt[q] <= CreatedAt[p]
          /\ todo'[h] = todo[h] \ {p} /\ missed'[h] = missed[h] \cup {p}
          /\ UNCHANGED <<pointer, route, pc, snap>> /\ faults' > 0
      BY <1>9 DEF LookUpFails, Listed, Fault, SerialInv
    <2>2. Done(h)' = Done(h) \cup {p}
      BY <2>1 DEF Done
    <2>3. \A x \in Done(h)', q \in todo'[h] : pointer[x] # None => CreatedAt[q] <= CreatedAt[x]
      BY <2>1, <2>2 DEF SerialInv
    <2> QED BY <2>1, <2>2, <2>3 DEF SerialInv, Regular
  <1>10. ASSUME InstallerSeedsFile PROVE SerialInv(h)'
    <2>1. UNCHANGED <<pointer, pc, snap, todo, out, missed>> /\ faults' > 0
      BY <1>10 DEF InstallerSeedsFile, Fault
    <2>2. Done(h)' = Done(h)
      BY <2>1 DEF Done
    <2>3. Serves(out[h], pointer, Done(h))' = Serves(out[h], pointer, Done(h))
      BY <2>1, <2>2 DEF Serves
    <2> QED BY <2>1, <2>2, <2>3 DEF SerialInv, Regular
  <1>11. CASE UNCHANGED vars
    BY <1>0, <1>11 DEF vars, Regular
  <1>12. QED
    BY <1>1, <1>2, <1>3, <1>4, <1>5, <1>6, <1>7, <1>8, <1>9, <1>10, <1>11
       DEF Next, HandlerStep

\* The serial invariant of whatever handler there is.
AllSerial == \A h \in Handlers : SerialInv(h)

\* With one handler, what a promote has read is what the pointers still are.
LEMMA SerialInvHolds ==
  ASSUME OneAtATime
  PROVE  Spec => [](RoutingInv /\ AllSerial)
  <1>1. Init => AllSerial
    BY SerialInvInit DEF OneAtATime, AllSerial
  <1>2. RoutingInv /\ AllSerial /\ [Next]_vars => AllSerial'
    BY SerialInvStep DEF OneAtATime, AllSerial
  <1>3. QED
    BY <1>1, <1>2, RoutingInvHolds, PTL DEF Spec

\* Served one at a time, promotes leave a file that says what the database says
\* whenever none is in progress, up to the first failure or the first promote of
\* an unpublished deployment.
THEOREM SerialFileFollowsPointer ==
  ASSUME OneAtATime
  PROVE  Spec => []RouteFollowsPointer
  <1>1. RoutingInv /\ AllSerial => RouteFollowsPointer
    BY DEF OneAtATime, AllSerial, SerialInv, InStep, RouteFollowsPointer, Idle
  <1>2. Spec => [](RoutingInv /\ AllSerial)
    BY SerialInvHolds
  <1>3. QED
    BY <1>1, <1>2, PTL

\* A rename that loses nothing it read makes the file agree with the database, on the
\* hosts that projects share too, whatever failures and seedings went before: the
\* next promote heals.
THEOREM SerialPromoteHeals ==
  ASSUME OneAtATime
  PROVE  Spec => NextPromoteHeals
  <1>1. RoutingInv /\ AllSerial /\ [Next]_vars =>
          [\A h \in Handlers :
             WriteFile(h) /\ missed[h] = {} => Serves(route', pointer, Projects)]_vars
    <2> SUFFICES ASSUME AllSerial, NEW h \in Handlers, WriteFile(h), missed[h] = {}
                 PROVE  Serves(route', pointer, Projects)
      BY Zenon
    <2>1. Done(h) = Projects
      BY DEF WriteFile, Done
    <2> QED BY <2>1 DEF AllSerial, SerialInv, WriteFile
  <1>2. Spec => [](RoutingInv /\ AllSerial)
    BY SerialInvHolds
  <1>3. QED
    BY <1>1, <1>2, PTL DEF Spec, NextPromoteHeals

\* A step after which the behaviour is still regular is one of the alias, or
\* leaves the file and the published deployments alone.
LEMMA SerialAliasStep ==
  ASSUME OneAtATime
  PROVE  RoutingInv /\ AllSerial /\ [Next]_vars =>
           [Regular' => Alias!AliasNext]_(Alias!aliasVars)
  <1> SUFFICES ASSUME RoutingInv, AllSerial, [Next]_vars, Regular'
               PROVE  [Alias!AliasNext]_(Alias!aliasVars)
    OBVIOUS
  <1> PICK h : Handlers = {h}
    BY DEF OneAtATime
  <1>0. SerialInv(h)
    BY DEF AllSerial
  <1> USE RoutingAssumption
      DEF RoutingInv, TypeOK, MaybeDeployment, dbVars, handlerVars, Regular
  <1>a. ASSUME UNCHANGED <<route, recorded>> PROVE UNCHANGED Alias!aliasVars
    BY <1>a DEF Alias!aliasVars
  <1>1. ASSUME NEW d \in Deployments, CreateRow(d)
         PROVE  UNCHANGED Alias!aliasVars
    BY <1>a, <1>1 DEF CreateRow
  <1>2. ASSUME NEW d \in Deployments, Publish(d)
        PROVE  Alias!AliasNext \/ UNCHANGED Alias!aliasVars
    <2>1. recorded' = recorded \cup {d} /\ route' = route
      BY <1>2 DEF Publish
    <2>2. CASE d \in OwnHosted
      <3>1. Alias!Record(d)
        BY <2>1, <2>2 DEF Alias!Record
      <3> QED BY <2>2, <3>1 DEF Alias!AliasNext
    <2>3. CASE d \notin OwnHosted
      BY <2>1, <2>3 DEF Alias!aliasVars
    <2> QED BY <2>2, <2>3
  <1>3. ASSUME NEW d \in Deployments, BeginPromote(h, d)
         PROVE  UNCHANGED Alias!aliasVars
    BY <1>a, <1>3 DEF BeginPromote
  <1>4. ASSUME SetPointer(h) PROVE UNCHANGED Alias!aliasVars
    BY <1>a, <1>4 DEF SetPointer
  <1>5. ASSUME ListProjects(h) PROVE UNCHANGED Alias!aliasVars
    BY <1>a, <1>5 DEF ListProjects
  <1>6. ASSUME NEW p \in Projects, LookUp(h, p) PROVE UNCHANGED Alias!aliasVars
    BY <1>a, <1>6 DEF LookUp
  <1>7. ASSUME WriteFile(h) PROVE Alias!AliasNext \/ UNCHANGED Alias!aliasVars
    <2> DEFINE d == target[h]
               alias == [p \in OwnHost |-> route[HostOf[p]]]
    <2>1. pc[h] = "reading" /\ todo[h] = {} /\ route' = out[h]
          /\ recorded' = recorded /\ Regular
      BY <1>7 DEF WriteFile
    <2>2. d \in Deployments
      BY <2>1
    <2>3. /\ pointer[ProjectOf[d]] = d
          /\ \A p \in OwnHost : p # ProjectOf[d] => route[HostOf[p]] = pointer[p]
          /\ promoted \subseteq recorded
          /\ Serves(out[h], pointer, Done(h))
      BY <1>0, <2>1 DEF SerialInv, InStep
    <2>4. Done(h) = Projects
      BY <2>1 DEF Done
    <2>5. \A p \in OwnHost : route'[HostOf[p]] = pointer[p]
      BY <2>1, <2>3, <2>4, OwnHostServed
    <2>6. ASSUME NEW e \in OwnHosted, e = d PROVE Alias!AliasNext
      <3>1. alias' = [alias EXCEPT ![ProjectOf[e]] = e]
        BY <2>3, <2>5, <2>6 DEF OwnHost
      <3>2. /\ e \in recorded \cap OwnHosted
            /\ (recorded \cap OwnHosted)' = recorded \cap OwnHosted
        BY <2>1, <2>2, <2>3, <2>6 DEF OwnPromoted
      <3>3. Alias!Switch(e)
        BY <3>1, <3>2, Zenon DEF Alias!Switch
      <3> QED BY <3>3 DEF Alias!AliasNext
    <2>7. CASE d \notin OwnHosted
      <3>1. alias' = alias
        BY <2>2, <2>3, <2>5, <2>7 DEF OwnHosted
      <3> QED BY <2>1, <3>1 DEF Alias!aliasVars
    <2> QED BY <2>6, <2>7
  <1>8. ASSUME RequestFails(h) PROVE FALSE
    BY <1>8 DEF RequestFails, Fault
  <1>9. ASSUME NEW p \in Projects, LookUpFails(h, p) PROVE FALSE
    BY <1>9 DEF LookUpFails, Fault
  <1>10. ASSUME InstallerSeedsFile PROVE FALSE
    BY <1>10 DEF InstallerSeedsFile, Fault
  <1>11. CASE UNCHANGED vars
    BY <1>a, <1>11 DEF vars
  <1>12. QED
    BY <1>1, <1>2, <1>3, <1>4, <1>5, <1>6, <1>7, <1>8, <1>9, <1>10, <1>11
       DEF Next, HandlerStep

\* For projects that share their host with no other, the rewriting of the whole file
\* implements an alias per project: one step moves the traffic of the promoted
\* project and of nobody else.
THEOREM SerialRefinement ==
  ASSUME OneAtATime
  PROVE  Spec => ImplementsAlias
  <1>1. Init => Alias!AliasInit
    BY RoutingAssumption DEF Init, Alias!AliasInit, NoRoutes, OwnHost
  <1>2. RoutingInv /\ AllSerial /\ [Next]_vars =>
          [Regular' => Alias!AliasNext]_(Alias!aliasVars)
    BY SerialAliasStep
  <1>3. Spec => [](RoutingInv /\ AllSerial)
    BY SerialInvHolds
  <1>4. QED
    BY <1>1, <1>2, <1>3, PTL DEF Spec, ImplementsAlias

(***************************************************************************)
(* Together with the worker.  The deployments of ProdRouting are those of  *)
(* DeploymentLifecycle, which Deployments implements whatever its queue    *)
(* and its faults do (DeploymentsProofs, Refinement): a row exists when    *)
(* its status says so.                                                     *)
(***************************************************************************)
VARIABLES status, container   \* see DeploymentLifecycle

Worker == INSTANCE DeploymentLifecycle
            WITH recorded <- [d \in Deployments |-> d \in recorded]

SameRows == created = {d \in Deployments : status[d] # "none"}

\* What ProdRouting assumes of the rest of the system is what the rest may do: a step
\* of the worker that leaves the promotes alone creates a row, publishes one, or
\* changes nothing a promote reads.
THEOREM WorkerStepsAreAssumed ==
  ASSUME TypeOK, recorded' \subseteq Deployments, Worker!LifecycleTypeOK, SameRows,
         SameRows', Worker!LifecycleNext,
         UNCHANGED <<pointer, promoted, early, route, handlerVars, faults>>
  PROVE  (\E d \in Deployments : CreateRow(d) \/ Publish(d)) \/ UNCHANGED vars
  <1> USE DEF TypeOK, SameRows, Worker!LifecycleTypeOK, handlerVars, vars
  <1>1. ASSUME [d \in Deployments |-> d \in recorded'] =
                 [d \in Deployments |-> d \in recorded]
        PROVE  recorded' = recorded
    <2>1. \A d \in Deployments : [e \in Deployments |-> e \in recorded'][d] =
                                   [e \in Deployments |-> e \in recorded][d]
      BY <1>1
    <2>2. \A d \in Deployments : (d \in recorded') = (d \in recorded)
      BY <2>1
    <2> QED BY <2>2
  <1>2. ASSUME NEW d \in Deployments, Worker!Insert(d) PROVE CreateRow(d)
    <2>1. /\ d \notin created /\ created' = created \cup {d}
      BY <1>2 DEF Worker!Insert
    <2>2. recorded' = recorded
      BY <1>1, <1>2 DEF Worker!Insert
    <2> QED BY <2>1, <2>2 DEF CreateRow
  <1>3. ASSUME NEW d \in Deployments, NEW s \in {"BUILDING", "FAILED"}, Worker!Mark(d, s)
        PROVE  UNCHANGED vars
    <2>1. created' = created
      BY <1>3 DEF Worker!Mark
    <2>2. recorded' = recorded
      BY <1>1, <1>3 DEF Worker!Mark
    <2> QED BY <2>1, <2>2
  <1>4. ASSUME NEW d \in Deployments, NEW c, Worker!CreateContainer(d, c)
        PROVE  UNCHANGED vars
    <2>1. created' = created /\ recorded' = recorded
      BY <1>1, <1>4 DEF Worker!CreateContainer
    <2> QED BY <2>1
  <1>5. ASSUME NEW d \in Deployments, Worker!PublishOnce(d) PROVE Publish(d)
    <2>1. d \in created \ recorded /\ created' = created
      BY <1>5 DEF Worker!PublishOnce
    <2>2. [e \in Deployments |-> e \in recorded'] =
            [[e \in Deployments |-> e \in recorded] EXCEPT ![d] = TRUE]
      BY <1>5 DEF Worker!PublishOnce
    <2>3. \A e \in Deployments :
            (e \in recorded') = IF e = d THEN TRUE ELSE e \in recorded
      <3>1. \A e \in Deployments :
              [x \in Deployments |-> x \in recorded'][e] =
                [[x \in Deployments |-> x \in recorded] EXCEPT ![d] = TRUE][e]
        BY <2>2
      <3> QED BY <3>1
    <2>4. recorded' = recorded \cup {d}
      BY <2>3
    <2> QED BY <2>1, <2>4 DEF Publish
  <1>6. ASSUME Worker!Halt PROVE UNCHANGED vars
    <2>1. created' = created /\ recorded' = recorded
      BY <1>1, <1>6 DEF Worker!Halt
    <2> QED BY <2>1
  <1> QED BY <1>2, <1>3, <1>4, <1>5, <1>6 DEF Worker!LifecycleNext

\* A row that names a container is one the worker has created the container of.
NamedHasContainer ==
  /\ container \in [Deployments -> Worker!ContainerStates]
  /\ \A d \in Deployments : d \in recorded => container[d] # "none"

ReachesContainer ==
  \A k \in Hosts : route[k] # None => container[route[k]] # "none"

\* A production host reaches a deployment whose container was created, and which Docker
\* still has: whatever promotes race, and whatever queue, worker and host do.
THEOREM HostsReachContainers ==
  Spec /\ Worker!LifecycleSpec => []ReachesContainer
  <1>1. Worker!LifecycleInit => NamedHasContainer
    <2> SUFFICES ASSUME Worker!LifecycleInit, NEW d \in Deployments
                 PROVE  d \notin recorded
      BY DEF NamedHasContainer, Worker!LifecycleInit, Worker!ContainerStates
    <2>1. [e \in Deployments |-> e \in recorded][d] = [e \in Deployments |-> FALSE][d]
      BY DEF Worker!LifecycleInit
    <2> QED BY <2>1
  <1>2. NamedHasContainer /\ [Worker!LifecycleNext]_(Worker!lifecycleVars)
          => NamedHasContainer'
    <2> SUFFICES ASSUME NamedHasContainer, [Worker!LifecycleNext]_(Worker!lifecycleVars)
                 PROVE  NamedHasContainer'
      OBVIOUS
    <2> USE DEF NamedHasContainer, Worker!ContainerStates
    <2>1. ASSUME [d \in Deployments |-> d \in recorded'] =
                   [d \in Deployments |-> d \in recorded]
          PROVE  \A d \in Deployments : (d \in recorded') = (d \in recorded)
      <3>1. \A d \in Deployments : [e \in Deployments |-> e \in recorded'][d] =
                                     [e \in Deployments |-> e \in recorded][d]
        BY <2>1
      <3> QED BY <3>1
    <2>2. ASSUME NEW d \in Deployments, Worker!Insert(d) PROVE NamedHasContainer'
      BY <2>1, <2>2 DEF Worker!Insert
    <2>3. ASSUME NEW d \in Deployments, NEW s, Worker!Mark(d, s) PROVE NamedHasContainer'
      BY <2>1, <2>3 DEF Worker!Mark
    <2>4. ASSUME NEW d \in Deployments, NEW c, Worker!CreateContainer(d, c)
          PROVE  NamedHasContainer'
      BY <2>1, <2>4 DEF Worker!CreateContainer
    <2>5. ASSUME NEW d \in Deployments, Worker!PublishOnce(d) PROVE NamedHasContainer'
      <3>1. \A e \in Deployments : e # d =>
              [x \in Deployments |-> x \in recorded'][e] =
                [x \in Deployments |-> x \in recorded][e]
        BY <2>5 DEF Worker!PublishOnce
      <3>2. \A e \in Deployments : e # d => (e \in recorded') = (e \in recorded)
        BY <3>1
      <3> QED BY <2>5, <3>2 DEF Worker!PublishOnce
    <2>6. ASSUME Worker!Halt PROVE NamedHasContainer'
      BY <2>1, <2>6 DEF Worker!Halt
    <2>7. ASSUME UNCHANGED Worker!lifecycleVars PROVE NamedHasContainer'
      BY <2>1, <2>7 DEF Worker!lifecycleVars
    <2> QED BY <2>2, <2>3, <2>4, <2>5, <2>6, <2>7 DEF Worker!LifecycleNext
  <1>3. RoutingInv /\ NamedHasContainer => ReachesContainer
    BY DEF RoutingInv, TypeOK, HostPromoted, MaybeDeployment, NamedHasContainer,
           ReachesContainer
  <1> QED BY <1>1, <1>2, <1>3, RoutingInvHolds, PTL DEF Worker!LifecycleSpec
=============================================================================
