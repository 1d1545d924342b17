------------------------------- MODULE Entry -------------------------------
(***************************************************************************)
(* Where the dashboard sends a browser.  The index page, the login and the *)
(* setup page and the shell around every other page each ask the API       *)
(* whether the instance needs its setup and who is signed in, and redirect *)
(* by the answers (app/page.tsx, app/login/page.tsx, app/setup/page.tsx,   *)
(* components/app-shell.tsx).  The handlers are in Accounts.               *)
(***************************************************************************)
EXTENDS Naturals

CONSTANT MaxChanges   \* bound: sign-ins, sign-outs and failed requests

VARIABLES needsSetup, session, github,   \* the API: is the setup to be done, has the
                       \* browser a session, is the OAuth client configured
          at, gate,    \* the page that is open, and the question it asks next
          submitting,  \* a form's request is under way
          button,      \* the login page offers GitHub
          hops,        \* redirects since the answers changed or somebody acted
          changes

vars == <<needsSetup, session, github, at, gate, submitting, button, hops, changes>>

Pages == {"index", "login", "setup", "shell"}
MaxHops == 4

TypeOK ==
  /\ needsSetup \in BOOLEAN /\ session \in BOOLEAN /\ github \in BOOLEAN
  /\ at \in Pages /\ gate \in {"setup", "me", "github", "orgs", "open"}
  /\ submitting \in BOOLEAN /\ button \in BOOLEAN
  /\ hops \in 0..MaxHops /\ changes \in 0..MaxChanges

\* The question a page asks first.
First(page) == IF page = "shell" THEN "me" ELSE "setup"

Init ==
  /\ needsSetup = TRUE /\ session = FALSE /\ github = FALSE
  /\ at = "index" /\ gate = "setup" /\ submitting = FALSE /\ button = FALSE
  /\ hops = 0 /\ changes = 0

\* router.replace opens the page, which asks its first question.
Open(page) ==
  /\ at' = page /\ gate' = First(page) /\ submitting' = FALSE /\ button' = FALSE
Redirect(page) ==
  /\ Open(page)
  /\ hops' = IF hops < MaxHops THEN hops + 1 ELSE hops
Stay(next) == gate' = next /\ UNCHANGED <<at, submitting, button, hops>>

\* Something happened that the redirects answer to.
Acted == hops' = 0 /\ changes < MaxChanges /\ changes' = changes + 1

(***************************************************************************)
(* The index page.                                                         *)
(***************************************************************************)
Index ==
  /\ at = "index"
  /\ \/ gate = "setup" /\ IF needsSetup THEN Redirect("setup") ELSE Stay("me")
     \/ gate = "me" /\ IF session THEN Redirect("shell") ELSE Redirect("login")
  /\ UNCHANGED <<needsSetup, session, github, changes>>

(***************************************************************************)
(* The login page.  The form is there from the start, and the questions go *)
(* on after a redirect.                                                    *)
(***************************************************************************)
Login ==
  /\ at = "login"
  /\ \/ gate = "setup" /\ IF needsSetup THEN Redirect("setup") ELSE Stay("me")
     \/ gate = "me" /\ IF session THEN Redirect("shell") ELSE Stay("github")
     \/ gate = "github" /\ gate' = "open" /\ button' = github
        /\ UNCHANGED <<at, submitting, hops>>
  /\ UNCHANGED <<needsSetup, session, github, changes>>

\* onSubmit: the button is disabled while it is under way.
SubmitLogin ==
  /\ at = "login" /\ ~submitting /\ submitting' = TRUE
  /\ UNCHANGED <<needsSetup, session, github, at, gate, button, hops, changes>>

LoginAnswered ==
  /\ at = "login" /\ submitting
  /\ Acted
  /\ \/ ~needsSetup /\ session' = TRUE /\ Open("shell")
     \/ submitting' = FALSE /\ UNCHANGED <<session, at, gate, button>>
  /\ UNCHANGED <<needsSetup, github>>

\* Continue with GitHub leads away and back to the projects, signed in or not.
LoginWithGitHub ==
  /\ at = "login" /\ button
  /\ Acted
  /\ session' \in {session, TRUE}
  /\ Open("shell")
  /\ UNCHANGED <<needsSetup, github>>

(***************************************************************************)
(* The setup page.                                                         *)
(***************************************************************************)

\* A faulty Setup: an instance that is set up sends the browser to its pages.
SetupToPages ==
  /\ at = "setup" /\ gate = "setup"
  /\ IF ~needsSetup THEN Redirect("index") ELSE Redirect("login")
  /\ UNCHANGED <<needsSetup, session, github, changes>>

\* An instance that is set up is one to log in to.
Setup ==
  /\ at = "setup" /\ gate = "setup"
  /\ IF ~needsSetup THEN Redirect("login") ELSE Stay("open")
  /\ UNCHANGED <<needsSetup, session, github, changes>>

SubmitSetup ==
  /\ at = "setup" /\ gate = "open" /\ ~submitting /\ submitting' = TRUE
  /\ UNCHANGED <<needsSetup, session, github, at, gate, button, hops, changes>>

\* It creates the first account and signs it in, or is refused.
SetupAnswered ==
  /\ at = "setup" /\ submitting
  /\ Acted
  /\ \/ needsSetup /\ needsSetup' = FALSE /\ session' = TRUE /\ Open("shell")
     \/ submitting' = FALSE /\ UNCHANGED <<needsSetup, session, at, gate, button>>
  /\ UNCHANGED github

(***************************************************************************)
(* The shell.                                                              *)
(***************************************************************************)
Shell ==
  /\ at = "shell"
  /\ \/ gate = "me" /\ IF session THEN Stay("setup") ELSE Redirect("login")
     \/ gate = "setup" /\ IF needsSetup THEN Redirect("setup") ELSE Stay("orgs")
     \/ gate = "orgs" /\ Stay("open")
  /\ UNCHANGED <<needsSetup, session, github, changes>>

\* onLogout: to the login page, though the request may have failed and the session
\* be there still.
Logout ==
  /\ at = "shell" /\ gate = "open"
  /\ Acted
  /\ session' \in {FALSE, session} /\ Open("login")
  /\ UNCHANGED <<needsSetup, github>>

(***************************************************************************)
(* Requests that fail, and what others do.                                 *)
(***************************************************************************)

\* A question that fails: of the setup, it is passed over, and the setup page shows
\* its form; who is signed in, nobody; the rest is left out.
QuestionFails ==
  /\ Acted
  /\ \/ gate = "setup" /\ at = "setup" /\ gate' = "open"
        /\ UNCHANGED <<at, submitting, button>>
     \/ gate = "setup" /\ at \in {"index", "login"} /\ gate' = "me"
        /\ UNCHANGED <<at, submitting, button>>
     \/ gate = "setup" /\ at = "shell" /\ gate' = "orgs"
        /\ UNCHANGED <<at, submitting, button>>
     \/ gate = "me" /\ at \in {"index", "shell"} /\ Open("login")
     \/ gate = "me" /\ at = "login" /\ gate' = "github"
        /\ UNCHANGED <<at, submitting, button>>
     \/ gate \in {"github", "orgs"} /\ gate' = "open"
        /\ UNCHANGED <<at, submitting, button>>
  /\ UNCHANGED <<needsSetup, session, github>>

\* The session runs out, somebody else does the setup, an admin configures OAuth.
Elsewhere ==
  /\ Acted
  /\ \/ session /\ session' = FALSE /\ UNCHANGED <<needsSetup, github>>
     \/ needsSetup /\ needsSetup' = FALSE /\ UNCHANGED <<session, github>>
     \/ github' = ~github /\ UNCHANGED <<needsSetup, session>>
  /\ UNCHANGED <<at, gate, submitting, button>>

\* An address is entered.
Enter ==
  /\ gate = "open" /\ Acted
  /\ \E page \in Pages : Open(page)
  /\ UNCHANGED <<needsSetup, session, github>>

Next ==
  \/ Index \/ Login \/ SubmitLogin \/ LoginAnswered \/ LoginWithGitHub
  \/ Setup \/ SubmitSetup \/ SetupAnswered
  \/ Shell \/ Logout \/ QuestionFails \/ Elsewhere \/ Enter

Spec == Init /\ [][Next]_vars

(***************************************************************************)
(* Properties.                                                             *)
(***************************************************************************)

\* Whatever address was entered and whatever the answers are, two redirects later
\* the browser is where it stays, until the answers change or somebody acts.
LandsSoon == hops <= 2
=============================================================================
