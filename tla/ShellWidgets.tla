---------------------------- MODULE ShellWidgets ----------------------------
(***************************************************************************)
(* What the shell keeps on every page: the feedback panel                  *)
(* (components/feedback-widget.tsx), the keyboard shortcuts                *)
(* (keyboard-shortcuts.tsx), the health banner (system-status.tsx) and the *)
(* notifications (notification-bell.tsx).  None has a server behind it but *)
(* the banner; two of them work by timers, and the notifications are a     *)
(* list in the code.                                                       *)
(***************************************************************************)
EXTENDS Naturals

CONSTANTS Notes,  \* the notifications
          Old     \* those that are read at first

VARIABLES panelOpen, draft, sent, closers,   \* feedback: the panel, something typed,
                  \* the thanks, and the timers that empty and close it
          gPressed, gTimers, help,   \* shortcuts: a G was pressed, its timers, the
                  \* dialog
          health, checks, dismissed,   \* banner: the last answer, requests under way
          bellOpen, read, kept     \* notifications: those read, those not dismissed

feedbackVars == <<panelOpen, draft, sent, closers>>
shortcutVars == <<gPressed, gTimers, help>>
healthVars == <<health, checks, dismissed>>
bellVars == <<bellOpen, read, kept>>
vars == <<feedbackVars, shortcutVars, healthVars, bellVars>>

Health == {"unknown", "operational", "degraded", "down"}
MaxTimers == 2

TypeOK ==
  /\ panelOpen \in BOOLEAN /\ draft \in BOOLEAN /\ sent \in BOOLEAN
  /\ closers \in 0..MaxTimers
  /\ gPressed \in BOOLEAN /\ gTimers \in 0..MaxTimers /\ help \in BOOLEAN
  /\ health \in Health /\ checks \in 0..2 /\ dismissed \in BOOLEAN
  /\ bellOpen \in BOOLEAN /\ read \subseteq kept /\ kept \subseteq Notes

Init ==
  /\ panelOpen = FALSE /\ draft = FALSE /\ sent = FALSE /\ closers = 0
  /\ gPressed = FALSE /\ gTimers = 0 /\ help = FALSE
  /\ health = "unknown" /\ checks = 1 /\ dismissed = FALSE
  /\ bellOpen = FALSE /\ kept = Notes /\ read = Old

(***************************************************************************)
(* Feedback.                                                               *)
(***************************************************************************)

\* A faulty ToggleFeedback: closing the panel forgets that it was sent.
ToggleFeedbackAfresh ==
  /\ panelOpen' = ~panelOpen /\ sent' = FALSE
  /\ UNCHANGED <<draft, closers, shortcutVars, healthVars, bellVars>>

\* The button; the panel may be closed and opened again while it says thanks.
ToggleFeedback ==
  /\ panelOpen' = ~panelOpen
  /\ UNCHANGED <<draft, sent, closers, shortcutVars, healthVars, bellVars>>

\* The form, which the thanks stand in for once it was sent.
EditFeedback ==
  /\ panelOpen /\ ~sent
  /\ draft' = ~draft
  /\ UNCHANGED <<panelOpen, sent, closers, shortcutVars, healthVars, bellVars>>

\* onSubmit, of a message or a face.
SubmitFeedback ==
  /\ panelOpen /\ ~sent /\ draft
  /\ closers < MaxTimers /\ closers' = closers + 1
  /\ sent' = TRUE
  /\ UNCHANGED <<panelOpen, draft, shortcutVars, healthVars, bellVars>>

\* Two seconds later.
FeedbackCloses ==
  /\ closers > 0 /\ closers' = closers - 1
  /\ panelOpen' = FALSE /\ sent' = FALSE /\ draft' = FALSE
  /\ UNCHANGED <<shortcutVars, healthVars, bellVars>>

(***************************************************************************)
(* Shortcuts, outside of input fields.                                     *)
(***************************************************************************)

\* G waits 800 ms for a second key; another G starts over.
PressG ==
  /\ gPressed' = TRUE /\ gTimers' = 1
  /\ UNCHANGED <<help, feedbackVars, healthVars, bellVars>>

GTimerFires ==
  /\ gTimers > 0 /\ gTimers' = gTimers - 1
  /\ gPressed' = FALSE
  /\ UNCHANGED <<help, feedbackVars, healthVars, bellVars>>

\* A key that leads nowhere.
PressOther ==
  /\ gPressed
  /\ gPressed' = FALSE /\ gTimers' = 0
  /\ UNCHANGED <<help, feedbackVars, healthVars, bellVars>>

\* One that leads to a page loads it, and the shell with it.
GoTo ==
  /\ gPressed
  /\ panelOpen' = FALSE /\ draft' = FALSE /\ sent' = FALSE /\ closers' = 0
  /\ gPressed' = FALSE /\ gTimers' = 0 /\ help' = FALSE
  /\ health' = "unknown" /\ checks' = 1 /\ dismissed' = FALSE
  /\ bellOpen' = FALSE /\ kept' = Notes /\ read' = Old

\* Control-slash, also in input fields.
ToggleHelp ==
  /\ help' = ~help
  /\ UNCHANGED <<gPressed, gTimers, feedbackVars, healthVars, bellVars>>

(***************************************************************************)
(* The banner.                                                             *)
(***************************************************************************)
Banner == health \in {"degraded", "down"} /\ ~dismissed

\* The interval, which waits for no answer.
CheckHealth ==
  /\ checks < 2 /\ checks' = checks + 1
  /\ UNCHANGED <<health, dismissed, feedbackVars, shortcutVars, bellVars>>

HealthArrives ==
  /\ checks > 0 /\ checks' = checks - 1
  /\ health' \in Health \ {"unknown"}
  /\ UNCHANGED <<dismissed, feedbackVars, shortcutVars, bellVars>>

\* Dismissed once, it stays away whatever the next answer is.
DismissBanner ==
  /\ Banner /\ dismissed' = TRUE
  /\ UNCHANGED <<health, checks, feedbackVars, shortcutVars, bellVars>>

(***************************************************************************)
(* The notifications.                                                      *)
(***************************************************************************)
ToggleBell ==
  /\ bellOpen' = ~bellOpen
  /\ UNCHANGED <<read, kept, feedbackVars, shortcutVars, healthVars>>

\* markRead and markAllRead.
MarkRead(notes) ==
  /\ bellOpen /\ notes \subseteq kept \ read /\ notes # {}
  /\ read' = read \cup notes
  /\ UNCHANGED <<bellOpen, kept, feedbackVars, shortcutVars, healthVars>>

\* dismiss and clearAll.
Dismiss(notes) ==
  /\ bellOpen /\ notes \subseteq kept /\ notes # {}
  /\ kept' = kept \ notes /\ read' = read \ notes
  /\ UNCHANGED <<bellOpen, feedbackVars, shortcutVars, healthVars>>

Next ==
  \/ ToggleFeedback \/ EditFeedback \/ SubmitFeedback \/ FeedbackCloses
  \/ PressG \/ GTimerFires \/ PressOther \/ GoTo \/ ToggleHelp
  \/ CheckHealth \/ HealthArrives \/ DismissBanner
  \/ ToggleBell
  \/ \E n \in kept : MarkRead({n}) \/ Dismiss({n})
  \/ MarkRead(kept \ read) \/ Dismiss(kept)

Spec == Init /\ [][Next]_vars

(***************************************************************************)
(* Properties.                                                             *)
(***************************************************************************)

\* A timer that empties the feedback form is pending only while the thanks hide the
\* form, and only one: what somebody types next is not wiped.
FeedbackIsKept == closers <= 1 /\ (closers = 1 <=> sent)

\* A G that waits for its second key has exactly one timer to end the wait, and no
\* timer of an earlier G is left to end it early.
PrefixHasTimer == gTimers = IF gPressed THEN 1 ELSE 0
=============================================================================
