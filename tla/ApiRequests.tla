---------------------------- MODULE ApiRequests ----------------------------
(***************************************************************************)
(* What the modules of the API's handlers have in common: the requests it  *)
(* is serving, each at some step of its handler, and the faults that cut   *)
(* them short.  Every module brings its own steps and locals.              *)
(***************************************************************************)
CONSTANTS None,        \* no user, no organization, a NULL, a local not set
          Requests,    \* requests the API may be serving at once
          MaxFaults    \* bound: faults in a behaviour

VARIABLES pc,          \* the step each request is at; "idle": there is none
          faults       \* faults so far
=============================================================================
