--------------------------- MODULE CommandPalette ---------------------------
(***************************************************************************)
(* The command palette of the shell (components/command-palette.tsx).  It  *)
(* lists quick actions, the projects of the stored organization and the    *)
(* places to go, as far as they match what is typed, and one of them is    *)
(* selected, by its number.  Every opening asks for the projects again and *)
(* shows those of the time before until they arrive.                       *)
(*                                                                         *)
(* Of the list only its length matters: a query matches everything, the    *)
(* projects, or nothing.                                                   *)
(***************************************************************************)
EXTENDS Integers

CONSTANTS Fixed,        \* how many quick actions and places to go there are
          MaxProjects,  \* bound: projects of an organization
          MaxLoads      \* bound: requests under way

VARIABLES open, query, selected,   \* the palette
          found,       \* how many projects arrived last
          loads,       \* requests under way
          disturbed    \* projects arrived since the selection was reset

vars == <<open, query, selected, found, loads, disturbed>>

Filters == {"all", "projects", "nothing"}

TypeOK ==
  /\ open \in BOOLEAN /\ query \in Filters
  /\ selected \in (-1)..(Fixed + MaxProjects)
  /\ found \in 0..MaxProjects /\ loads \in 0..MaxLoads
  /\ disturbed \in BOOLEAN

Init ==
  /\ open = FALSE /\ query = "all" /\ selected = 0
  /\ found = 0 /\ loads = 0 /\ disturbed = FALSE

\* filtered: how many items match.
Matches(q) ==
  CASE q = "all" -> Fixed + found [] q = "projects" -> found [] q = "nothing" -> 0

\* Control-K opens and closes.  Opening empties the query, selects the first item and,
\* if an organization is stored, asks for its projects.
Toggle ==
  /\ open' = ~open
  /\ IF open THEN UNCHANGED <<query, selected, loads, disturbed>>
     ELSE /\ query' = "all" /\ selected' = 0 /\ disturbed' = FALSE
          /\ \/ loads < MaxLoads /\ loads' = loads + 1
             \/ UNCHANGED loads
  /\ UNCHANGED found

\* Escape, a click beside it, or an item that was clicked.
Close ==
  /\ open /\ open' = FALSE
  /\ UNCHANGED <<query, selected, found, loads, disturbed>>

\* An answer replaces the projects, whichever request it is to; a failed one is
\* ignored.
ProjectsArrive ==
  /\ loads > 0 /\ loads' = loads - 1
  /\ \/ found' \in 0..MaxProjects /\ disturbed' = TRUE
     \/ UNCHANGED <<found, disturbed>>
  /\ UNCHANGED <<open, query, selected>>

\* A faulty Type: the selection stays where it was.
TypeOnly(q) ==
  /\ open /\ q # query
  /\ query' = q /\ disturbed' = FALSE
  /\ UNCHANGED <<open, selected, found, loads>>

\* What is typed selects the first item again.
Type(q) ==
  /\ open /\ q # query
  /\ query' = q /\ selected' = 0 /\ disturbed' = FALSE
  /\ UNCHANGED <<open, found, loads>>

\* Down goes no further than the last item, of none to the one before the first.
ArrowDown ==
  /\ open
  /\ selected' = IF selected + 1 < Matches(query) THEN selected + 1
                 ELSE Matches(query) - 1
  /\ UNCHANGED <<open, query, found, loads, disturbed>>

ArrowUp ==
  /\ open
  /\ selected' = IF selected > 0 THEN selected - 1 ELSE 0
  /\ UNCHANGED <<open, query, found, loads, disturbed>>

MouseEnter(n) ==
  /\ open /\ n < Matches(query)
  /\ selected' = n
  /\ UNCHANGED <<open, query, found, loads, disturbed>>

\* Enter runs the selected item, if there is one, which closes the palette.
Enter ==
  /\ open /\ selected \in 0..(Matches(query) - 1)
  /\ open' = FALSE
  /\ UNCHANGED <<query, selected, found, loads, disturbed>>

Next ==
  \/ Toggle \/ Close \/ ProjectsArrive \/ ArrowDown \/ ArrowUp \/ Enter
  \/ \E q \in Filters : Type(q)
  \/ \E n \in 0..(Fixed + MaxProjects - 1) : MouseEnter(n)

Spec == Init /\ [][Next]_vars

(***************************************************************************)
(* Properties.                                                             *)
(***************************************************************************)

\* Enter always runs something when something is listed, whatever was typed and
\* however the selection was moved - until projects arrive under it.
SelectionIsListed ==
  open /\ ~disturbed /\ Matches(query) > 0 => selected \in 0..(Matches(query) - 1)
=============================================================================
