---------------------------- MODULE DomainsPage ----------------------------
(***************************************************************************)
(* A project's domains (app/(authed)/projects/[id]/domains/page.tsx).  The *)
(* API has none: the page invents the first when the project arrives, and  *)
(* a timer of three seconds verifies whatever row has the name by then.    *)
(* A name can be added twice; every operation is by name.                  *)
(***************************************************************************)
EXTENDS Naturals

CONSTANTS Names, Invented,   \* names that are added, and <slug>.opencel.app
          MaxRows      \* bound: rows and timers of one name

VARIABLES loading,     \* the project has not arrived
          pending, valid,    \* the list: rows of each name
          timers,      \* of each name, that have yet to fire
          addOpen, newDomain,    \* the dialog, and whether a name is in its field
          early        \* names added while the page was loading

vars == <<loading, pending, valid, timers, addOpen, newDomain, early>>

All == Names \cup {Invented}
NoRows == [n \in All |-> 0]

TypeOK ==
  /\ pending \in [All -> 0..MaxRows] /\ valid \in [All -> 0..MaxRows]
  /\ timers \in [Names -> 0..MaxRows]
  /\ loading \in BOOLEAN /\ addOpen \in BOOLEAN /\ newDomain \in BOOLEAN
  /\ early \subseteq Names

Init ==
  /\ loading = TRUE /\ pending = NoRows /\ valid = NoRows
  /\ timers = [n \in Names |-> 0]
  /\ addOpen = FALSE /\ newDomain = FALSE /\ early = {}

\* The rows: none are shown while the page loads.
Listed == {n \in All : ~loading /\ pending[n] + valid[n] > 0}

\* A faulty Load: the effect runs again after every change.
LoadAgain ==
  /\ loading' = FALSE
  /\ valid' = [NoRows EXCEPT ![Invented] = 1] /\ pending' = NoRows
  /\ UNCHANGED <<timers, addOpen, newDomain, early>>

\* The project arrives, or it does not.  The list is replaced, with the domains that
\* were added meanwhile: the dialog does not wait.
Load ==
  /\ loading /\ loading' = FALSE
  /\ \/ valid' = [NoRows EXCEPT ![Invented] = 1] /\ pending' = NoRows
     \/ UNCHANGED <<valid, pending>>
  /\ UNCHANGED <<timers, addOpen, newDomain, early>>

\* The button of the header or of the empty list, Cancel or Escape; the field.
EditDialog ==
  /\ \/ addOpen' = ~addOpen /\ UNCHANGED newDomain
     \/ addOpen /\ newDomain' = ~newDomain /\ UNCHANGED addOpen
  /\ UNCHANGED <<loading, pending, valid, timers, early>>

\* addDomain, by the button or the Enter key.
AddDomain(n) ==
  /\ addOpen /\ newDomain
  /\ pending[n] + valid[n] < MaxRows /\ timers[n] < MaxRows
  /\ pending' = [pending EXCEPT ![n] = @ + 1]
  /\ timers' = [timers EXCEPT ![n] = @ + 1]
  /\ addOpen' = FALSE /\ newDomain' = FALSE
  /\ early' = IF loading THEN early \cup {n} ELSE early
  /\ UNCHANGED <<loading, valid>>

\* Rows of the name are marked valid.
Verified(n) ==
  /\ pending' = [pending EXCEPT ![n] = 0]
  /\ valid' = [valid EXCEPT ![n] = @ + pending[n]]

\* A faulty TimerFires: only the row it was started for, by its place in the list.
TimerFiresOnce(n) ==
  /\ timers[n] > 0 /\ timers' = [timers EXCEPT ![n] = 0]
  /\ IF pending[n] > 0
     THEN /\ pending' = [pending EXCEPT ![n] = @ - 1]
          /\ valid' = [valid EXCEPT ![n] = @ + 1]
     ELSE UNCHANGED <<pending, valid>>
  /\ UNCHANGED <<loading, addOpen, newDomain, early>>

\* The timer of addDomain.
TimerFires(n) ==
  /\ timers[n] > 0 /\ timers' = [timers EXCEPT ![n] = @ - 1]
  /\ Verified(n)
  /\ UNCHANGED <<loading, addOpen, newDomain, early>>

\* The Verify button of a pending row.
Verify(n) ==
  /\ n \in Listed /\ pending[n] > 0
  /\ Verified(n)
  /\ UNCHANGED <<loading, timers, addOpen, newDomain, early>>

\* removeDomain; the invented domain has no button for it.
RemoveDomain(n) ==
  /\ n \in Listed /\ n # Invented
  /\ pending' = [pending EXCEPT ![n] = 0] /\ valid' = [valid EXCEPT ![n] = 0]
  /\ UNCHANGED <<loading, timers, addOpen, newDomain, early>>

\* The page is left and opened again.
Reopen ==
  /\ loading' = TRUE /\ pending' = NoRows /\ valid' = NoRows
  /\ timers' = [n \in Names |-> 0]
  /\ addOpen' = FALSE /\ newDomain' = FALSE /\ early' = {}

Next ==
  \/ Load \/ EditDialog \/ Reopen
  \/ \E n \in Names :
       AddDomain(n) \/ TimerFires(n) \/ Verify(n) \/ RemoveDomain(n)

Spec == Init /\ [][Next]_vars

(***************************************************************************)
(* Properties.                                                             *)
(***************************************************************************)

\* A domain that waits for its verification has a timer that ends it, though the
\* name was added twice, verified by hand, removed or added again.
PendingHasTimer == \A n \in Names : pending[n] > 0 => timers[n] > 0

\* A domain goes from the list by its own button only, unless it was added while the
\* project was still being loaded.
AddedStays ==
  [][\A n \in Names \ early :
       pending'[n] + valid'[n] < pending[n] + valid[n] => RemoveDomain(n) \/ Reopen]_vars
=============================================================================
