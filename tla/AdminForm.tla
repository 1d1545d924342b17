----------------------------- MODULE AdminForm -----------------------------
(***************************************************************************)
(* The settings form of the admin page (app/(authed)/admin/page.tsx) and   *)
(* the two handlers behind it (internal/api/admin.go).  A save sends every *)
(* text field and the secrets that are not blank, empties the secrets and  *)
(* loads the form again; while it loads the page shows nothing else.       *)
(*                                                                         *)
(* Three fields stand for all: one the API answers as it was stored (the   *)
(* ids of the OAuth client and of the App), one it answers from its        *)
(* environment or by default (the domain, scheme and TLS mode, the update  *)
(* policy), and a secret, which is never answered.                         *)
(***************************************************************************)
EXTENDS Naturals

CONSTANTS Values,      \* values that are typed
          Blank, Default,    \* an empty field, and what the environment says
          None,
          MaxForeign   \* bound: saves of another admin

VARIABLES stored,      \* the API: the field it answers as stored, Blank if never saved
          form, loading,     \* the page: the fields, and the loading screen
          put,         \* the save under way: what it sends of that field
          gets,        \* the loads under way, with what was answered
          unsent,      \* what was typed last into each field while nothing was under
                       \* way, and neither sent nor given up since
          touched,     \* fields somebody typed into since they were loaded
          astray,      \* what is stored changed behind the form: see the actions
          foreign      \* saves of another admin so far

vars == <<stored, form, loading, put, gets, unsent, touched, astray, foreign>>

Fields == {"kept", "environment", "secret"}
Content == Values \cup {Blank, Default}
Nothing == [f \in Fields |-> None]
NoPut == [step |-> "none", kept |-> Blank]
NoGet == [step |-> "none", kept |-> Blank, old |-> FALSE]

TypeOK ==
  /\ stored \in Content /\ form \in [Fields -> Content]
  /\ loading \in BOOLEAN
  /\ put \in [step : {"none", "sent", "done"}, kept : Content]
  /\ gets \in [1..2 -> [step : {"none", "asked", "made"}, kept : Content,
                        old : BOOLEAN]]
  /\ unsent \in [Fields -> Values \cup {Blank, None}]
  /\ touched \subseteq Fields
  /\ astray \in BOOLEAN /\ foreign \in 0..MaxForeign

Saving == put # NoPut
Quiet == ~Saving /\ \A n \in 1..2 : gets[n] = NoGet

\* The page has just opened: its fields are blank or have their first values.
Init ==
  /\ stored = Blank
  /\ form = [f \in Fields |-> IF f = "environment" THEN Default ELSE Blank]
  /\ loading = TRUE
  /\ put = NoPut /\ gets = [n \in 1..2 |-> IF n = 1 THEN [NoGet EXCEPT !.step = "asked"]
                                           ELSE NoGet]
  /\ unsent = Nothing /\ touched = {} /\ astray = FALSE /\ foreign = 0

\* refresh: the loading screen, and a request.
Load ==
  /\ loading' = TRUE
  /\ \E n \in 1..2 : /\ gets[n] = NoGet
                     /\ gets' = [gets EXCEPT ![n].step = "asked"]

(***************************************************************************)
(* The API.                                                                *)
(***************************************************************************)

\* Answers that were made before a change of the settings are old.
AnswersOld ==
  gets' = [n \in 1..2 |-> [gets[n] EXCEPT !.old = @ \/ gets[n].step = "made"]]

\* handleAdminPutSettings stores the fields it was sent one by one.  A write that
\* fails is ignored, and the answer is 200 all the same.
PutSettings ==
  /\ put.step = "sent" /\ put' = [put EXCEPT !.step = "done"]
  /\ \/ stored' = put.kept /\ UNCHANGED astray
     \/ astray' = TRUE /\ UNCHANGED stored
  /\ AnswersOld
  /\ UNCHANGED <<form, loading, unsent, touched, foreign>>

\* handleAdminGetSettings: of these fields only the first is read from the settings.
GetSettings(n) ==
  /\ gets[n].step = "asked"
  /\ gets' = [gets EXCEPT ![n].step = "made", ![n].kept = stored]
  /\ UNCHANGED <<stored, form, loading, put, unsent, touched, astray, foreign>>

OtherAdminSaves ==
  /\ foreign < MaxForeign /\ foreign' = foreign + 1
  /\ stored' \in Values
  /\ AnswersOld /\ astray' = TRUE
  /\ UNCHANGED <<form, loading, put, unsent, touched>>

(***************************************************************************)
(* The page.                                                               *)
(***************************************************************************)

\* Any field, while a save is under way too.
TypeField(f, v) ==
  /\ ~loading /\ v # form[f]
  /\ form' = [form EXCEPT ![f] = v]
  /\ unsent' = [unsent EXCEPT ![f] = IF Quiet THEN v ELSE None]
  /\ touched' = touched \cup {f}
  /\ UNCHANGED <<stored, loading, put, gets, astray, foreign>>

\* saveSettings: the button is disabled while a save is under way.
SaveSettings ==
  /\ ~loading /\ ~Saving
  /\ put' = [step |-> "sent", kept |-> form["kept"]]
  /\ UNCHANGED <<stored, form, loading, gets, unsent, touched, astray, foreign>>

\* It was answered: the secrets are emptied, and the form is loaded again.
SaveAnswered ==
  /\ put.step = "done"
  /\ put' = NoPut
  /\ form' = [form EXCEPT !["secret"] = Blank]
  /\ unsent' = Nothing
  /\ touched' = touched \ {"secret"}
  /\ Load
  /\ UNCHANGED <<stored, astray, foreign>>

\* A faulty SaveFails: the secrets are emptied whatever the outcome.
SaveFailsEmptied ==
  /\ Saving
  /\ put' = NoPut
  /\ form' = [form EXCEPT !["secret"] = Blank]
  /\ UNCHANGED <<stored, loading, gets, unsent, touched, astray, foreign>>

\* It failed, or its answer was lost: a message.
SaveFails ==
  /\ Saving
  /\ put' = NoPut
  /\ astray' = (astray \/ put.step = "done")
  /\ UNCHANGED <<stored, form, loading, gets, unsent, touched, foreign>>

\* The Refresh button gives up what was typed.
Refresh ==
  /\ ~loading
  /\ Load
  /\ unsent' = Nothing
  /\ UNCHANGED <<stored, form, put, touched, astray, foreign>>

\* A faulty LoadArrives: a field the API answers is not taken.
LoadArrivesPartly(n) ==
  /\ gets[n].step = "made"
  /\ form' = [form EXCEPT !["environment"] = Default]
  /\ loading' = FALSE
  /\ touched' = touched \cap {"secret"}
  /\ gets' = [gets EXCEPT ![n] = NoGet] /\ astray' = gets[n].old
  /\ UNCHANGED <<stored, put, unsent, foreign>>

\* What was answered replaces all fields but the secrets.
LoadArrives(n) ==
  /\ gets[n].step = "made"
  /\ form' = [form EXCEPT !["kept"] = gets[n].kept, !["environment"] = Default]
  /\ loading' = FALSE
  /\ touched' = touched \cap {"secret"}
  /\ gets' = [gets EXCEPT ![n] = NoGet] /\ astray' = gets[n].old
  /\ UNCHANGED <<stored, put, unsent, foreign>>

\* The form stays as it was: if it was never loaded, with its first values.
LoadFails(n) ==
  /\ gets[n] # NoGet
  /\ loading' = FALSE /\ astray' = TRUE
  /\ gets' = [gets EXCEPT ![n] = NoGet]
  /\ UNCHANGED <<stored, form, put, unsent, touched, foreign>>

Next ==
  \/ PutSettings \/ OtherAdminSaves
  \/ \E n \in 1..2 : GetSettings(n) \/ LoadArrives(n) \/ LoadFails(n)
  \/ \E f \in Fields, v \in Values \cup {Blank} : TypeField(f, v)
  \/ SaveSettings \/ SaveAnswered \/ SaveFails \/ Refresh

Spec == Init /\ [][Next]_vars

(***************************************************************************)
(* Properties.                                                             *)
(***************************************************************************)

\* What was typed stays in its field until a save that was answered has sent it or
\* Refresh was pressed, whatever saves and loads failed; typed while a save or a
\* load is under way, it may be lost.
TypedIsKept == \A f \in Fields : unsent[f] # None => form[f] = unsent[f]

\* With nothing under way, a field nobody has touched holds what is stored, so that
\* the next save, which sends all of them, changes nothing else: unless another
\* admin saved, a load failed or was overtaken, or a save or its answer was lost.
\* It is not true of the fields the API answers from its environment.
UntouchedIsStored ==
  Quiet /\ ~astray /\ "kept" \notin touched => form["kept"] = stored
=============================================================================
