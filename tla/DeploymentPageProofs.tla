------------------------ MODULE DeploymentPageProofs ------------------------
(***************************************************************************)
(* Proofs about DeploymentPage, for any number of deliveries, pieces of    *)
(* output, views, requests and faults, and any size of the buffer and of   *)
(* the stream's query.                                                     *)
(***************************************************************************)
EXTENDS DeploymentPage, SequenceTheorems, TLAPS

\* TypeOK in parts: the provers know numbers, strings or truth values.
Switches == flushing \in BOOLEAN /\ ctxDone \in BOOLEAN /\ dbUp \in BOOLEAN

Places ==
  /\ status \in Statuses /\ phase \in Phases
  /\ next \in {"none", "push", "run", "publishing", "failing"}
  /\ conn \in {"none", "open", "ending", "closed"}
  /\ badge \in Statuses \cup {"none"}
  /\ phase = "closing" => next # "none"

\* Every delivery ends with one message in the log at most.
Messages ==
  /\ attempt \in 0..MaxAttempts
  /\ phase = "waiting" => attempt < MaxAttempts
  /\ produced \in 0..MaxOutput + attempt
  /\ phase \notin AtRest \cup {"logged", "acking"} =>
       attempt > 0 /\ produced < MaxOutput + attempt

Numbers ==
  /\ views \in 0..MaxViews /\ faults \in 0..MaxFaults
  /\ asked \in Nat /\ answers \in [Statuses -> Nat] /\ InFlight <= MaxPolls

\* What the assumption says of the bounds.
LEMMA Bounds ==
  /\ MaxAttempts \in Nat \ {0} /\ MaxOutput \in Nat /\ Limit \in Nat \ {0}
  /\ MaxPolls \in Nat \ {0} /\ MaxViews \in Nat /\ MaxFaults \in Nat
  BY DeploymentPageAssumption, Zenon DEF DeploymentPageAssumption

\* The switches stay Boolean.
LEMMA SwitchesStep ==
  Switches /\ [Next]_vars => Switches'
  <1> SUFFICES ASSUME Switches, [Next]_vars PROVE Switches'
    OBVIOUS
  <1> USE DEF Switches, rowVars, workerVars, streamVars, pollVars, envVars
  <1>1. CASE TakeTask
    BY <1>1 DEF TakeTask
  <1>2. CASE MarkBuilding
    BY <1>2 DEF MarkBuilding
  <1>3. CASE Write
    BY <1>3 DEF Write
  <1>4. CASE Flush
    BY <1>4 DEF Flush
  <1>5. CASE CommandEnds
    BY <1>5 DEF CommandEnds
  <1>6. CASE CommandReturns
    BY <1>6 DEF CommandReturns
  <1>7. CASE Publish
    BY <1>7 DEF Publish
  <1>8. CASE LogFailure
    BY <1>8 DEF LogFailure
  <1>9. CASE RecordFailure
    BY <1>9 DEF RecordFailure
  <1>10. CASE Acknowledge
    BY <1>10 DEF Acknowledge
  <1>11. CASE OpenPage
    BY <1>11 DEF OpenPage
  <1>12. CASE StreamRows
    BY <1>12 DEF StreamRows
  <1>13. CASE StreamFails
    BY <1>13 DEF StreamFails
  <1>14. CASE ReceiveChunk
    BY <1>14 DEF ReceiveChunk
  <1>15. CASE ReceiveError
    BY <1>15 DEF ReceiveError
  <1>16. CASE AskStatus
    BY <1>16 DEF AskStatus
  <1>17. CASE AnswerStatus
    BY <1>17 DEF AnswerStatus
  <1>18. ASSUME NEW s \in Statuses, ReceiveStatus(s) PROVE Switches'
    BY <1>18 DEF ReceiveStatus
  <1>19. CASE DbGoesDown
    BY <1>19 DEF DbGoesDown
  <1>20. CASE DbComesBack
    BY <1>20 DEF DbComesBack
  <1>21. CASE DeadlinePasses
    BY <1>21 DEF DeadlinePasses
  <1>22. CASE WorkerCrashes
    BY <1>22 DEF WorkerCrashes
  <1>23. CASE ApiRestarts
    BY <1>23 DEF ApiRestarts
  <1>24. CASE UNCHANGED vars
    BY <1>24 DEF vars
  <1> QED BY <1>1, <1>2, <1>3, <1>4, <1>5, <1>6, <1>7, <1>8, <1>9, <1>10, <1>11,
             <1>12, <1>13, <1>14, <1>15, <1>16, <1>17, <1>18, <1>19, <1>20, <1>21, <1>22,
             <1>23, <1>24
             DEF Next, Attempt, Quiescent

\* Statuses, phases and the worker stay what the code knows.
LEMMA PlacesStep ==
  Places /\ [Next]_vars => Places'
  <1> SUFFICES ASSUME Places, [Next]_vars PROVE Places'
    OBVIOUS
  <1> USE DEF Places, Statuses, Phases, Commands, AtRest,
              rowVars, workerVars, streamVars, pollVars, envVars
  <1>1. CASE TakeTask
    BY <1>1 DEF TakeTask, Redelivery
  <1>2. CASE MarkBuilding
    BY <1>2 DEF MarkBuilding, TryMark
  <1>3. CASE Write
    BY <1>3 DEF Write
  <1>4. CASE Flush
    BY <1>4 DEF Flush
  <1>5. CASE CommandEnds
    BY <1>5 DEF CommandEnds, Then
  <1>6. CASE CommandReturns
    BY <1>6 DEF CommandReturns
  <1>7. CASE Publish
    BY <1>7 DEF Publish, TryMark
  <1>8. CASE LogFailure
    BY <1>8 DEF LogFailure
  <1>9. CASE RecordFailure
    BY <1>9 DEF RecordFailure, Redelivery, TryMark
  <1>10. CASE Acknowledge
    BY <1>10 DEF Acknowledge
  <1>11. CASE OpenPage
    BY <1>11 DEF OpenPage
  <1>12. CASE StreamRows
    BY <1>12 DEF StreamRows
  <1>13. CASE StreamFails
    BY <1>13 DEF StreamFails
  <1>14. CASE ReceiveChunk
    BY <1>14 DEF ReceiveChunk
  <1>15. CASE ReceiveError
    BY <1>15 DEF ReceiveError
  <1>16. CASE AskStatus
    BY <1>16 DEF AskStatus
  <1>17. CASE AnswerStatus
    BY <1>17 DEF AnswerStatus
  <1>18. ASSUME NEW s \in Statuses, ReceiveStatus(s) PROVE Places'
    BY <1>18 DEF ReceiveStatus
  <1>19. CASE DbGoesDown
    BY <1>19 DEF DbGoesDown
  <1>20. CASE DbComesBack
    BY <1>20 DEF DbComesBack
  <1>21. CASE DeadlinePasses
    BY <1>21 DEF DeadlinePasses
  <1>22. CASE WorkerCrashes
    BY <1>22 DEF WorkerCrashes, Redelivery
  <1>23. CASE ApiRestarts
    BY <1>23 DEF ApiRestarts
  <1>24. CASE UNCHANGED vars
    BY <1>24 DEF vars
  <1> QED BY <1>1, <1>2, <1>3, <1>4, <1>5, <1>6, <1>7, <1>8, <1>9, <1>10, <1>11,
             <1>12, <1>13, <1>14, <1>15, <1>16, <1>17, <1>18, <1>19, <1>20, <1>21, <1>22,
             <1>23, <1>24
             DEF Next, Attempt, Quiescent

\* Counters stay within their bounds.
LEMMA NumbersStep ==
  Places /\ Numbers /\ [Next]_vars => Numbers'
  <1> SUFFICES ASSUME Places, Numbers, [Next]_vars PROVE Numbers'
    OBVIOUS
  <1> USE Bounds DEF Numbers, Statuses, InFlight, Fault,
              rowVars, workerVars, streamVars, pollVars, envVars
  <1>1. CASE TakeTask
    BY <1>1 DEF TakeTask
  <1>2. CASE MarkBuilding
    BY <1>2 DEF MarkBuilding
  <1>3. CASE Write
    BY <1>3 DEF Write
  <1>4. CASE Flush
    BY <1>4 DEF Flush
  <1>5. CASE CommandEnds
    BY <1>5 DEF CommandEnds
  <1>6. CASE CommandReturns
    BY <1>6 DEF CommandReturns
  <1>7. CASE Publish
    BY <1>7 DEF Publish
  <1>8. CASE LogFailure
    BY <1>8 DEF LogFailure
  <1>9. CASE RecordFailure
    BY <1>9 DEF RecordFailure
  <1>10. CASE Acknowledge
    BY <1>10 DEF Acknowledge
  <1>11. CASE OpenPage
    BY <1>11 DEF OpenPage
  <1>12. CASE StreamRows
    BY <1>12 DEF StreamRows
  <1>13. CASE StreamFails
    BY <1>13 DEF StreamFails
  <1>14. CASE ReceiveChunk
    BY <1>14 DEF ReceiveChunk
  <1>15. CASE ReceiveError
    BY <1>15 DEF ReceiveError
  <1>16. CASE AskStatus
    BY <1>16 DEF AskStatus
  <1>17. CASE AnswerStatus
    <2>1. /\ asked > 0 /\ asked' = asked - 1 /\ UNCHANGED <<views, faults>>
          /\ answers' \in {answers, [answers EXCEPT ![status] = answers[status] + 1]}
      BY <1>17 DEF AnswerStatus
    <2>2. status \in {"QUEUED", "BUILDING", "READY", "FAILED"}
      BY DEF Places
    <2> QED BY <2>1, <2>2
  <1>18. ASSUME NEW s \in Statuses, ReceiveStatus(s) PROVE Numbers'
    BY <1>18 DEF ReceiveStatus
  <1>19. CASE DbGoesDown
    BY <1>19 DEF DbGoesDown
  <1>20. CASE DbComesBack
    BY <1>20 DEF DbComesBack
  <1>21. CASE DeadlinePasses
    BY <1>21 DEF DeadlinePasses
  <1>22. CASE WorkerCrashes
    BY <1>22 DEF WorkerCrashes
  <1>23. CASE ApiRestarts
    BY <1>23 DEF ApiRestarts
  <1>24. CASE UNCHANGED vars
    BY <1>24 DEF vars
  <1> QED BY <1>1, <1>2, <1>3, <1>4, <1>5, <1>6, <1>7, <1>8, <1>9, <1>10, <1>11,
             <1>12, <1>13, <1>14, <1>15, <1>16, <1>17, <1>18, <1>19, <1>20, <1>21, <1>22,
             <1>23, <1>24
             DEF Next, Attempt, Quiescent

\* A delivery stays within the messages it may write.
LEMMA MessagesStep ==
  Places /\ Messages /\ [Next]_vars => Messages'
  <1> SUFFICES ASSUME Places, Messages, [Next]_vars PROVE Messages'
    OBVIOUS
  <1> USE Bounds DEF Messages, AtRest, Commands, Redelivery,
              rowVars, workerVars, streamVars, pollVars, envVars
  <1>1. CASE TakeTask
    BY <1>1 DEF TakeTask
  <1>2. CASE MarkBuilding
    BY <1>2 DEF MarkBuilding
  <1>3. CASE Write
    BY <1>3 DEF Write
  <1>4. CASE Flush
    BY <1>4 DEF Flush
  <1>5. CASE CommandEnds
    BY <1>5 DEF CommandEnds
  <1>6. CASE CommandReturns
    <2>1. /\ phase = "closing" /\ phase' \in {"push", "run", "publishing", "failing"}
          /\ UNCHANGED <<attempt, produced>>
      BY <1>6 DEF CommandReturns, Places
    <2> QED BY <2>1
  <1>7. CASE Publish
    BY <1>7 DEF Publish
  <1>8. CASE LogFailure
    BY <1>8 DEF LogFailure
  <1>9. CASE RecordFailure
    BY <1>9 DEF RecordFailure
  <1>10. CASE Acknowledge
    BY <1>10 DEF Acknowledge
  <1>11. CASE OpenPage
    BY <1>11 DEF OpenPage
  <1>12. CASE StreamRows
    BY <1>12 DEF StreamRows
  <1>13. CASE StreamFails
    BY <1>13 DEF StreamFails
  <1>14. CASE ReceiveChunk
    BY <1>14 DEF ReceiveChunk
  <1>15. CASE ReceiveError
    BY <1>15 DEF ReceiveError
  <1>16. CASE AskStatus
    BY <1>16 DEF AskStatus
  <1>17. CASE AnswerStatus
    BY <1>17 DEF AnswerStatus
  <1>18. ASSUME NEW s \in Statuses, ReceiveStatus(s) PROVE Messages'
    BY <1>18 DEF ReceiveStatus
  <1>19. CASE DbGoesDown
    BY <1>19 DEF DbGoesDown
  <1>20. CASE DbComesBack
    BY <1>20 DEF DbComesBack
  <1>21. CASE DeadlinePasses
    BY <1>21 DEF DeadlinePasses
  <1>22. CASE WorkerCrashes
    BY <1>22 DEF WorkerCrashes
  <1>23. CASE ApiRestarts
    BY <1>23 DEF ApiRestarts
  <1>24. CASE UNCHANGED vars
    BY <1>24 DEF vars
  <1> QED BY <1>1, <1>2, <1>3, <1>4, <1>5, <1>6, <1>7, <1>8, <1>9, <1>10, <1>11,
             <1>12, <1>13, <1>14, <1>15, <1>16, <1>17, <1>18, <1>19, <1>20, <1>21, <1>22,
             <1>23, <1>24
             DEF Next, Attempt, Quiescent

\* Chunks in the order of production that cover nothing after n, and those that cover k.
Sorted(rs, n) ==
  /\ rs \in Seq(Nat \X Nat)
  /\ \A i \in 1..Len(rs) : 1 <= rs[i][1] /\ rs[i][1] <= rs[i][2] /\ rs[i][2] <= n
  /\ \A i \in 2..Len(rs) : rs[i - 1][2] < rs[i][1]
Covers(rs, k) == \E i \in 1..Len(rs) : rs[i][1] <= k /\ k <= rs[i][2]

\* What is not stored is in the buffer, which is empty but while a command runs.
Buffer ==
  /\ passed \in Nat /\ produced \in Nat /\ passed <= produced
  /\ flushing => passed < produced /\ phase \in Commands \cup {"closing"}
  /\ phase = "closing" /\ passed < produced => flushing
  /\ phase \notin Commands \cup {"closing"} => passed = produced

\* Without a fault the log has what was not refused.
Complete(rs, out, n) == \A k \in 1..n : Covers(rs, k) <=> k \notin out

Stored ==
  /\ Sorted(rows, passed)
  /\ refused \subseteq 1..passed
  /\ faults = 0 => dbUp /\ ~ctxDone /\ Complete(rows, refused, passed)

\* What is not stored stays in the buffer, whatever step is taken.
LEMMA BufferStep ==
  Places /\ Buffer /\ [Next]_vars => Buffer'
  <1> SUFFICES ASSUME Places, Buffer, [Next]_vars PROVE Buffer'
    OBVIOUS
  <1> USE DEF Places, Buffer, AtRest, Commands, Redelivery,
              rowVars, workerVars, streamVars, pollVars, envVars
  <1>1. CASE TakeTask
    BY <1>1 DEF TakeTask
  <1>2. CASE MarkBuilding
    BY <1>2 DEF MarkBuilding
  <1>3. CASE Write
    BY <1>3 DEF Write
  <1>4. CASE Flush
    BY <1>4 DEF Flush
  <1>5. CASE CommandEnds
    BY <1>5 DEF CommandEnds
  <1>6. CASE CommandReturns
    BY <1>6 DEF CommandReturns
  <1>7. CASE Publish
    BY <1>7 DEF Publish
  <1>8. CASE LogFailure
    BY <1>8 DEF LogFailure
  <1>9. CASE RecordFailure
    BY <1>9 DEF RecordFailure
  <1>10. CASE Acknowledge
    BY <1>10 DEF Acknowledge
  <1>11. CASE OpenPage
    BY <1>11 DEF OpenPage
  <1>12. CASE StreamRows
    BY <1>12 DEF StreamRows
  <1>13. CASE StreamFails
    BY <1>13 DEF StreamFails
  <1>14. CASE ReceiveChunk
    BY <1>14 DEF ReceiveChunk
  <1>15. CASE ReceiveError
    BY <1>15 DEF ReceiveError
  <1>16. CASE AskStatus
    BY <1>16 DEF AskStatus
  <1>17. CASE AnswerStatus
    BY <1>17 DEF AnswerStatus
  <1>18. ASSUME NEW s \in Statuses, ReceiveStatus(s) PROVE Buffer'
    BY <1>18 DEF ReceiveStatus
  <1>19. CASE DbGoesDown
    BY <1>19 DEF DbGoesDown
  <1>20. CASE DbComesBack
    BY <1>20 DEF DbComesBack
  <1>21. CASE DeadlinePasses
    BY <1>21 DEF DeadlinePasses
  <1>22. CASE WorkerCrashes
    BY <1>22 DEF WorkerCrashes
  <1>23. CASE ApiRestarts
    BY <1>23 DEF ApiRestarts
  <1>24. CASE UNCHANGED vars
    BY <1>24 DEF vars
  <1> QED BY <1>1, <1>2, <1>3, <1>4, <1>5, <1>6, <1>7, <1>8, <1>9, <1>10, <1>11,
             <1>12, <1>13, <1>14, <1>15, <1>16, <1>17, <1>18, <1>19, <1>20, <1>21, <1>22,
             <1>23, <1>24
             DEF Next, Attempt, Quiescent

\* A chunk that begins after all others.
LEMMA AppendChunk ==
  ASSUME NEW rs, NEW n \in Nat, NEW last \in Nat, n < last, Sorted(rs, n)
  PROVE  /\ Sorted(Append(rs, <<n + 1, last>>), last)
         /\ \A k \in 1..n : Covers(Append(rs, <<n + 1, last>>), k) <=> Covers(rs, k)
         /\ \A k \in n + 1..last : Covers(Append(rs, <<n + 1, last>>), k)
         /\ Sorted(rs, last)
  <1> DEFINE c == <<n + 1, last>>
             S == Nat \X Nat
             t == Append(rs, c)
             l == Len(rs)
  <1>1. rs \in Seq(S) /\ c \in S /\ l \in Nat
    BY DEF Sorted
  <1>2. c[1] = n + 1 /\ c[2] = last
    OBVIOUS
  <1>3. /\ \A i \in 1..l : rs[i][1] \in Nat /\ rs[i][2] \in Nat
        /\ \A i \in 1..l : 1 <= rs[i][1] /\ rs[i][1] <= rs[i][2] /\ rs[i][2] <= n
        /\ \A i \in 2..l : rs[i - 1][2] < rs[i][1]
    <2>1. \A i \in 1..l : rs[i] \in Nat \X Nat
      BY <1>1
    <2>2. \A i \in 1..l : rs[i][1] \in Nat /\ rs[i][2] \in Nat
      BY <2>1
    <2> QED BY <2>2, Zenon DEF Sorted
  <1> HIDE DEF c, S
  <1>4. /\ t \in Seq(S) /\ Len(t) = l + 1 /\ t[l + 1] = c /\ t # <<>>
        /\ \A i \in 1..l : t[i] = rs[i]
    BY <1>1, AppendProperties
  <1>5. \A i \in 1..l + 1 : i \in 1..l \/ i = l + 1
    BY <1>1
  <1>6. \A i \in 2..l + 1 : i \in 1..l + 1 /\ i - 1 \in 1..l
    BY <1>1
  <1>7. rs = <<>> <=> l = 0
    BY <1>1
  <1> HIDE DEF l, t
  <1>8. \A i \in 1..l + 1 : 1 <= t[i][1] /\ t[i][1] <= t[i][2] /\ t[i][2] <= last
    <2>1. ASSUME NEW i \in 1..l
          PROVE  1 <= t[i][1] /\ t[i][1] <= t[i][2] /\ t[i][2] <= last
      BY <1>3, <1>4
    <2>2. 1 <= t[l + 1][1] /\ t[l + 1][1] <= t[l + 1][2] /\ t[l + 1][2] <= last
      BY <1>2, <1>4
    <2> QED BY <1>5, <2>1, <2>2
  <1>9. \A i \in 2..l + 1 : t[i - 1][2] < t[i][1]
    <2> SUFFICES ASSUME NEW i \in 2..l + 1 PROVE t[i - 1][2] < t[i][1]
      OBVIOUS
    <2>1. t[i - 1] = rs[i - 1] /\ i - 1 \in 1..l
      BY <1>4, <1>6
    <2>2. CASE i \in 1..l
      BY <1>1, <1>3, <1>4, <2>1, <2>2
    <2>3. CASE i = l + 1
      BY <1>2, <1>3, <1>4, <2>1, <2>3
    <2> QED BY <1>5, <1>6, <2>2, <2>3
  <1>10. \A k \in 1..n : Covers(t, k) <=> Covers(rs, k)
    <2> SUFFICES ASSUME NEW k \in 1..n PROVE Covers(t, k) <=> Covers(rs, k)
      OBVIOUS
    <2>1. ~(t[l + 1][1] <= k)
      BY <1>2, <1>4
    <2>2. ASSUME NEW i \in 1..l + 1, t[i][1] <= k, k <= t[i][2] PROVE Covers(rs, k)
      <3>1. i \in 1..l
        BY <1>5, <2>1, <2>2
      <3> QED BY <1>4, <2>2, <3>1 DEF Covers, l
    <2>3. ASSUME NEW i \in 1..l, rs[i][1] <= k, k <= rs[i][2] PROVE Covers(t, k)
      <3>1. i \in 1..Len(t) /\ t[i] = rs[i]
        BY <1>1, <1>4
      <3> QED BY <2>3, <3>1 DEF Covers
    <2> QED BY <1>4, <2>2, <2>3 DEF Covers, l
  <1>13. \A k \in n + 1..last : Covers(t, k)
    <2>1. l + 1 \in 1..Len(t)
      BY <1>1, <1>4
    <2> QED BY <1>2, <1>4, <2>1 DEF Covers
  <1>11. Sorted(t, last)
    BY <1>4, <1>8, <1>9 DEF Sorted, S
  <1>12. Sorted(rs, last)
    BY <1>1, <1>3 DEF Sorted, S, l
  <1> QED BY <1>10, <1>11, <1>12, <1>13 DEF t, c

\* Rows that are sorted up to n are sorted up to any later number.
LEMMA SortedMore ==
  ASSUME NEW rs, NEW n \in Nat, NEW m \in Nat, n <= m, Sorted(rs, n)
  PROVE  Sorted(rs, m)
  <1>1. \A i \in 1..Len(rs) : rs[i][1] \in Nat /\ rs[i][2] \in Nat
    BY DEF Sorted
  <1> QED BY <1>1 DEF Sorted

\* Nothing is stored, and what was in the buffer may be gone.
LEMMA Kept ==
  ASSUME Stored, Buffer, UNCHANGED <<rows, refused>>, passed' \in {passed, produced},
         faults' # 0
  PROVE  Stored'
  <1>1. Sorted(rows, passed)'
    BY SortedMore DEF Stored, Buffer
  <1>2. refused' \subseteq 1..passed'
    BY DEF Stored, Buffer
  <1> QED BY <1>1, <1>2, Zenon DEF Stored

\* A chunk is stored, refused, or lost with Postgres or the context.
LEMMA Chunk ==
  ASSUME Stored, NEW n \in Nat, NEW last \in Nat, n < last, n = passed,
         \/ AppendLogChunk(n + 1, last) /\ UNCHANGED refused
         \/ RefuseChunk(n + 1, last),
         passed' = last, UNCHANGED <<dbUp, ctxDone, faults>>
  PROVE  Stored'
  <1>1. CASE CanWrite /\ AppendLogChunk(n + 1, last) /\ UNCHANGED refused
    <2>1. rows' = Append(rows, <<n + 1, last>>)
      BY <1>1, Zenon DEF AppendLogChunk
    <2>2. /\ Sorted(rows', last)
          /\ \A k \in 1..n : Covers(rows', k) <=> Covers(rows, k)
          /\ \A k \in n + 1..last : Covers(rows', k)
      BY <2>1, AppendChunk DEF Stored
    <2>3. refused \subseteq 1..n
      BY DEF Stored
    <2>4. ASSUME Complete(rows, refused, n) PROVE Complete(rows', refused, last)
      BY <2>2, <2>3, <2>4 DEF Complete
    <2>5. refused' \subseteq 1..passed'
      BY <1>1, <2>3
    <2> QED BY <1>1, <2>2, <2>4, <2>5, Zenon DEF Stored
  <1>2. CASE ~CanWrite /\ AppendLogChunk(n + 1, last) /\ UNCHANGED refused
    <2>1. rows' = rows
      BY <1>2, Zenon DEF AppendLogChunk
    <2>2. faults # 0
      BY <1>2, Zenon DEF Stored, CanWrite
    <2>3. Sorted(rows', last) /\ refused' \subseteq 1..passed'
      BY <1>2, <2>1, SortedMore DEF Stored
    <2> QED BY <2>2, <2>3, Zenon DEF Stored
  <1>3. CASE RefuseChunk(n + 1, last)
    <2>1. rows' = rows /\ refused' = refused \cup n + 1..last
      BY <1>3, Zenon DEF RefuseChunk
    <2>2. Sorted(rows', last) /\ refused' \subseteq 1..passed'
      BY <2>1, SortedMore DEF Stored
    <2>3. ASSUME Complete(rows, refused, n) PROVE Complete(rows', refused', last)
      <3> SUFFICES ASSUME NEW k \in 1..last
                   PROVE  Covers(rows', k) <=> k \notin refused'
        BY DEF Complete
      <3>1. CASE k \in 1..n
        BY <2>1, <2>3, <3>1 DEF Complete
      <3>2. CASE k \notin 1..n
        <4>1. k > n /\ k \in n + 1..last
          BY <3>2
        <4>2. \A i \in 1..Len(rows) : rows[i][2] \in Nat /\ rows[i][2] <= n
          BY DEF Stored, Sorted
        <4>3. ~Covers(rows', k)
          BY <2>1, <4>1, <4>2 DEF Covers
        <4> QED BY <2>1, <4>1, <4>3
      <3> QED BY <3>1, <3>2
    <2> QED BY <2>2, <2>3, Zenon DEF Stored
  <1> QED BY <1>1, <1>2, <1>3

\* The stored rows stay in the order of the output.
LEMMA StoredStep ==
  ASSUME Buffer, Messages, Numbers, Stored, [Next]_vars
  PROVE  Stored'
  <1> USE DEF rowVars, workerVars, streamVars, pollVars, envVars
  <1>1. CASE TakeTask
    BY <1>1 DEF TakeTask, Stored
  <1>2. CASE MarkBuilding
    BY <1>2 DEF MarkBuilding, Stored
  <1>3. CASE Write
    BY <1>3 DEF Write, Stored
  <1>4. CASE Flush
    <2>1. passed \in Nat /\ produced \in Nat /\ passed < produced
      BY <1>4 DEF Flush, Buffer
    <2> QED BY <1>4, <2>1, Chunk DEF Flush
  <1>5. CASE CommandEnds
    BY <1>5 DEF CommandEnds, Stored
  <1>6. CASE CommandReturns
    BY <1>6 DEF CommandReturns, Stored
  <1>7. CASE Publish
    BY <1>7 DEF Publish, Stored
  <1>8. CASE LogFailure
    <2>1. passed = produced /\ produced \in Nat
      BY <1>8 DEF LogFailure, Buffer, Commands
    <2> QED BY <1>8, <2>1, Chunk DEF LogFailure
  <1>9. CASE RecordFailure
    BY <1>9 DEF RecordFailure, Stored
  <1>10. CASE Acknowledge
    BY <1>10 DEF Acknowledge, Stored
  <1>11. CASE OpenPage
    BY <1>11 DEF OpenPage, Stored
  <1>12. CASE StreamRows
    BY <1>12 DEF StreamRows, Stored
  <1>13. CASE StreamFails
    BY <1>13 DEF StreamFails, Stored
  <1>14. CASE ReceiveChunk
    BY <1>14 DEF ReceiveChunk, Stored
  <1>15. CASE ReceiveError
    BY <1>15 DEF ReceiveError, Stored
  <1>16. CASE AskStatus
    BY <1>16 DEF AskStatus, Stored
  <1>17. CASE AnswerStatus
    BY <1>17 DEF AnswerStatus, Stored
  <1>18. ASSUME NEW s \in Statuses, ReceiveStatus(s) PROVE Stored'
    BY <1>18 DEF ReceiveStatus, Stored
  <1>19. CASE DbGoesDown
    <2>1. faults' # 0
      BY <1>19, Bounds DEF DbGoesDown, Fault, Numbers
    <2>2. UNCHANGED <<rows, refused>> /\ passed' \in {passed, produced}
      BY <1>19 DEF DbGoesDown
    <2> QED BY <2>1, <2>2, Kept
  <1>20. CASE DbComesBack
    BY <1>20 DEF DbComesBack, Stored
  <1>21. CASE DeadlinePasses
    <2>1. faults' # 0
      BY <1>21, Bounds DEF DeadlinePasses, Fault, Numbers
    <2>2. UNCHANGED <<rows, refused>> /\ passed' \in {passed, produced}
      BY <1>21 DEF DeadlinePasses
    <2> QED BY <2>1, <2>2, Kept
  <1>22. CASE WorkerCrashes
    <2>1. faults' # 0
      BY <1>22, Bounds DEF WorkerCrashes, Fault, Numbers
    <2>2. UNCHANGED <<rows, refused>> /\ passed' \in {passed, produced}
      BY <1>22 DEF WorkerCrashes
    <2> QED BY <2>1, <2>2, Kept
  <1>23. CASE ApiRestarts
    <2>1. faults' # 0
      BY <1>23, Bounds DEF ApiRestarts, Fault, Numbers
    <2>2. UNCHANGED <<rows, refused>> /\ passed' \in {passed, produced}
      BY <1>23 DEF ApiRestarts
    <2> QED BY <2>1, <2>2, Kept
  <1>24. CASE UNCHANGED vars
    BY <1>24 DEF vars, Stored
  <1> QED BY <1>1, <1>2, <1>3, <1>4, <1>5, <1>6, <1>7, <1>8, <1>9, <1>10, <1>11,
             <1>12, <1>13, <1>14, <1>15, <1>16, <1>17, <1>18, <1>19, <1>20, <1>21, <1>22,
             <1>23, <1>24
             DEF Next, Attempt, Quiescent

\* Rows are only added.
Grown(rs) == /\ rs \in Seq(Nat \X Nat) /\ Len(rows) <= Len(rs)
             /\ \A i \in 1..Len(rows) : rs[i] = rows[i]

\* Rows are only added at the end.
LEMMA RowsGrow ==
  ASSUME Stored, Buffer, Messages, [Next]_vars
  PROVE  Grown(rows')
  <1>1. rows \in Seq(Nat \X Nat) /\ Len(rows) \in Nat
    BY DEF Stored, Sorted
  <1>2. ASSUME UNCHANGED rows PROVE Grown(rows')
    BY <1>1, <1>2 DEF Grown
  <1>3. ASSUME NEW n \in Nat, NEW last \in Nat, AppendLogChunk(n + 1, last)
        PROVE  Grown(rows')
    <2>1. CASE CanWrite
      <3> DEFINE c == <<n + 1, last>>
                 S == Nat \X Nat
      <3>1. rows' = Append(rows, c)
        BY <1>3, <2>1, Zenon DEF AppendLogChunk
      <3>2. c \in S
        OBVIOUS
      <3> HIDE DEF c, S
      <3>3. /\ Append(rows, c) \in Seq(S) /\ Len(Append(rows, c)) = Len(rows) + 1
            /\ \A i \in 1..Len(rows) : Append(rows, c)[i] = rows[i]
        BY <1>1, <3>2, AppendProperties DEF S
      <3> QED BY <1>1, <3>1, <3>3 DEF Grown, S
    <2>2. CASE ~CanWrite
      <3>1. rows' = rows
        BY <1>3, <2>2, Zenon DEF AppendLogChunk
      <3> QED BY <1>2, <3>1
    <2> QED BY <2>1, <2>2
  <1>4. CASE Flush
    BY <1>2, <1>3, <1>4 DEF Flush, RefuseChunk, Buffer
  <1>5. CASE LogFailure
    BY <1>3, <1>5 DEF LogFailure, Buffer
  <1>6. CASE ~Flush /\ ~LogFailure
    <2>1. UNCHANGED rows
      BY <1>6 DEF Next, Attempt, vars, rowVars, TakeTask, MarkBuilding, Write,
         CommandEnds,
             CommandReturns, Publish, RecordFailure, Acknowledge, OpenPage, StreamRows,
             StreamFails, ReceiveChunk, ReceiveError, AskStatus, AnswerStatus, ReceiveStatus,
             DbGoesDown, DbComesBack, DeadlinePasses, WorkerCrashes, ApiRestarts, Quiescent
    <2> QED BY <1>2, <2>1
  <1> QED BY <1>4, <1>5, <1>6

\* The page has received the first rows, and the next ones are on their way to it.
Received ==
  /\ shown \in Seq(Nat \X Nat) /\ wire \in Seq(Nat \X Nat) /\ after \in Nat
  /\ Len(shown) <= Len(rows) /\ \A i \in 1..Len(shown) : shown[i] = rows[i]
  /\ after <= Len(rows)
  /\ conn \notin {"open", "ending"} => wire = <<>>
  /\ conn \in {"open", "ending"} =>
       /\ Len(shown) + Len(wire) = after
       /\ \A i \in 1..Len(wire) : wire[i] = rows[Len(shown) + i]

\* What is on the wire lies within the log.
LEMMA Within ==
  \A a, b, c, d \in Nat : a + b = c /\ c <= d => \A i \in 1..b : a + i \in 1..d
  OBVIOUS

\* The same with more rows.
LEMMA ReceivedStays ==
  ASSUME Received, rows \in Seq(Nat \X Nat), Grown(rows'), UNCHANGED <<shown, wire, after, conn>>
  PROVE  Received'
  <1>1. Len(rows) \in Nat /\ Len(shown) \in Nat /\ Len(wire) \in Nat /\ Len(rows') \in Nat
    BY DEF Received, Grown
  <1>2. Len(rows) <= Len(rows') /\ \A i \in 1..Len(rows) : rows'[i] = rows[i]
    BY DEF Grown
  <1>3. /\ Len(shown) <= Len(rows) /\ after \in Nat /\ after <= Len(rows)
        /\ \A i \in 1..Len(shown) : shown[i] = rows[i]
    BY DEF Received
  <1>4. conn \in {"open", "ending"} =>
          /\ Len(shown) + Len(wire) = after
          /\ \A i \in 1..Len(wire) : wire[i] = rows[Len(shown) + i]
    BY DEF Received
  <1>5. \A i \in 1..Len(shown) : shown[i] = rows'[i]
    BY <1>1, <1>2, <1>3
  <1>6. ASSUME conn \in {"open", "ending"}, NEW i \in 1..Len(wire)
        PROVE  wire[i] = rows'[Len(shown) + i]
    <2>1. wire[i] = rows[Len(shown) + i]
      BY <1>4, <1>6, Zenon
    <2>2. Len(shown) + i \in 1..Len(rows)
      <3>1. Len(shown) + Len(wire) = after /\ after \in Nat /\ after <= Len(rows)
        BY <1>3, <1>4, <1>6, Zenon
      <3> QED BY <1>1, <1>6, <3>1, Within, Zenon
    <2> QED BY <1>2, <2>1, <2>2, Zenon
  <1>7. Len(shown) <= Len(rows') /\ after <= Len(rows')
    BY <1>1, <1>2, <1>3
  <1>8. /\ shown \in Seq(Nat \X Nat) /\ wire \in Seq(Nat \X Nat)
        /\ conn \notin {"open", "ending"} => wire = <<>>
    BY DEF Received
  <1> QED BY <1>3, <1>4, <1>5, <1>6, <1>7, <1>8 DEF Received

\* The part of a sequence after position k, up to n.
LEMMA SubSeqAfter ==
  ASSUME NEW S, NEW s \in Seq(S), NEW k \in Nat, NEW n \in Nat, k < n, n <= Len(s)
  PROVE  /\ SubSeq(s, k + 1, n) \in Seq(S) /\ Len(SubSeq(s, k + 1, n)) = n - k
         /\ \A i \in 1..n - k : SubSeq(s, k + 1, n)[i] = s[k + i]
  <1> DEFINE t == SubSeq(s, k + 1, n)
  <1>1. /\ k + 1 \in Int /\ n \in Int /\ k + 1 <= n
        /\ \A i \in k + 1..n : s[i] \in S
    OBVIOUS
  <1>2. /\ t \in Seq(S)
        /\ Len(t) = IF k + 1 <= n THEN n - (k + 1) + 1 ELSE 0
        /\ \A i \in 1..n - (k + 1) + 1 : t[i] = s[(k + 1) + i - 1]
    BY <1>1, SubSeqProperties
  <1> HIDE DEF t
  <1>3. Len(t) = n - k
    BY <1>1, <1>2
  <1>4. ASSUME NEW i \in 1..n - k PROVE t[i] = s[k + i]
    <2>1. i \in 1..n - (k + 1) + 1 /\ (k + 1) + i - 1 = k + i
      OBVIOUS
    <2> QED BY <1>2, <2>1, Zenon
  <1> QED BY <1>2, <1>3, <1>4 DEF t

\* What the page received stays a part of what is stored.
LEMMA ReceivedStep ==
  ASSUME Stored, Buffer, Messages, Received, [Next]_vars
  PROVE  Received'
  <1>0. rows \in Seq(Nat \X Nat) /\ Len(rows) \in Nat /\ Grown(rows')
    BY RowsGrow DEF Stored, Sorted
  <1> USE DEF rowVars, workerVars, streamVars, pollVars, envVars
  <1>1. CASE TakeTask
    BY <1>0, <1>1, ReceivedStays DEF TakeTask
  <1>2. CASE MarkBuilding
    BY <1>0, <1>2, ReceivedStays DEF MarkBuilding
  <1>3. CASE Write
    BY <1>0, <1>3, ReceivedStays DEF Write
  <1>4. CASE Flush
    BY <1>0, <1>4, ReceivedStays DEF Flush
  <1>5. CASE CommandEnds
    BY <1>0, <1>5, ReceivedStays DEF CommandEnds
  <1>6. CASE CommandReturns
    BY <1>0, <1>6, ReceivedStays DEF CommandReturns
  <1>7. CASE Publish
    BY <1>0, <1>7, ReceivedStays DEF Publish
  <1>8. CASE LogFailure
    BY <1>0, <1>8, ReceivedStays DEF LogFailure
  <1>9. CASE RecordFailure
    BY <1>0, <1>9, ReceivedStays DEF RecordFailure
  <1>10. CASE Acknowledge
    BY <1>0, <1>10, ReceivedStays DEF Acknowledge
  <1>11. CASE OpenPage
    BY <1>0, <1>11 DEF OpenPage, Received
  <1>12. CASE StreamRows
    <2> DEFINE S == Nat \X Nat
               m == Len(rows)
               new == SubSeq(rows, after + 1, after')
    <2>1. /\ conn = "open" /\ after < m /\ wire' = wire \o new
          /\ after' = MinOf(after + Limit, m) /\ UNCHANGED <<rows, shown, conn>>
      BY <1>12 DEF StreamRows
    <2>2. after \in Nat /\ after' \in Nat /\ after < after' /\ after' <= m /\ m \in Nat
      BY <1>0, <2>1, Bounds DEF MinOf, Received
    <2>3. rows \in Seq(S) /\ after' <= Len(rows)
      BY <1>0, <2>2
    <2> HIDE DEF S, new
    <2>4. /\ new \in Seq(S) /\ Len(new) = after' - after
          /\ \A i \in 1..after' - after : new[i] = rows[after + i]
      <3>1. /\ SubSeq(rows, after + 1, after') \in Seq(S)
            /\ Len(SubSeq(rows, after + 1, after')) = after' - after
            /\ \A i \in 1..after' - after :
                 SubSeq(rows, after + 1, after')[i] = rows[after + i]
        BY <2>2, <2>3, SubSeqAfter, Zenon
      <3> QED BY <3>1 DEF new
    <2>5. wire \in Seq(S) /\ shown \in Seq(S) /\ Len(wire) \in Nat /\ Len(shown) \in Nat
      BY DEF Received, S
    <2>6. /\ wire' \in Seq(S) /\ Len(wire') = Len(wire) + Len(new)
          /\ \A i \in 1..Len(wire) + Len(new) :
               wire'[i] = IF i <= Len(wire) THEN wire[i] ELSE new[i - Len(wire)]
      BY <2>1, <2>4, <2>5, ConcatProperties
    <2>7. /\ Len(shown) + Len(wire) = after
          /\ \A i \in 1..Len(wire) : wire[i] = rows[Len(shown) + i]
      BY <2>1 DEF Received
    <2>8. Len(shown) + Len(wire') = after'
      <3>1. /\ Len(new) = after' - after /\ Len(wire') = Len(wire) + Len(new)
            /\ Len(shown) + Len(wire) = after
        BY <2>4, <2>6, <2>7, Zenon
      <3>2. {after, after', Len(shown), Len(wire)} \subseteq Nat
        BY <2>2, <2>5, Zenon
      <3> QED BY <3>1, <3>2
    <2>9. ASSUME NEW i \in 1..Len(wire') PROVE wire'[i] = rows[Len(shown) + i]
      <3>1. CASE i <= Len(wire)
        BY <2>4, <2>5, <2>6, <2>7, <3>1
      <3>2. CASE i > Len(wire)
        <4>1. i \in 1..Len(wire) + Len(new) /\ i - Len(wire) \in 1..after' - after
          BY <2>2, <2>4, <2>5, <2>6, <3>2
        <4>2. wire'[i] = new[i - Len(wire)]
          BY <2>5, <2>6, <3>2, <4>1
        <4>3. after + (i - Len(wire)) = Len(shown) + i
          <5>1. i \in Int /\ after = Len(shown) + Len(wire)
            BY <2>2, <2>4, <2>5, <2>7, <4>1
          <5> QED BY <2>5, <5>1
        <4> QED BY <2>4, <4>1, <4>2, <4>3
      <3> QED BY <2>4, <2>5, <2>6, <3>1, <3>2
    <2> QED BY <2>1, <2>2, <2>6, <2>8, <2>9 DEF Received, S
  <1>13. CASE StreamFails
    BY <1>0, <1>13 DEF StreamFails, Received
  <1>14. CASE ReceiveChunk
    <2> DEFINE S == Nat \X Nat
    <2>1. /\ wire # <<>> /\ conn \in {"open", "ending"} /\ shown' = Append(shown, Head(wire))
          /\ wire' = Tail(wire) /\ UNCHANGED <<rows, after, conn>>
      BY <1>14 DEF ReceiveChunk
    <2>2. /\ wire \in Seq(S) /\ shown \in Seq(S) /\ Len(wire) \in Nat /\ Len(shown) \in Nat
          /\ Len(shown) + Len(wire) = after /\ after <= Len(rows)
          /\ \A i \in 1..Len(shown) : shown[i] = rows[i]
          /\ \A i \in 1..Len(wire) : wire[i] = rows[Len(shown) + i]
      <3>1. conn \in {"open", "ending"}
        BY <2>1
      <3>2. wire \in Seq(S) /\ shown \in Seq(S) /\ Len(wire) \in Nat /\ Len(shown) \in Nat
        BY DEF Received
      <3> QED BY <3>1, <3>2, Zenon DEF Received
    <2> HIDE DEF S
    <2>3. /\ Head(wire) \in S /\ wire' \in Seq(S) /\ Len(wire') = Len(wire) - 1
          /\ \A i \in 1..Len(wire') : wire'[i] = wire[i + 1]
      BY <2>1, <2>2, HeadTailProperties
    <2>4. /\ shown' \in Seq(S) /\ Len(shown') = Len(shown) + 1
          /\ \A i \in 1..Len(shown) : shown'[i] = shown[i]
          /\ shown'[Len(shown) + 1] = Head(wire)
      BY <2>1, <2>2, <2>3, AppendProperties
    <2>5. Len(wire) > 0 /\ Head(wire) = wire[1]
      BY <2>1, <2>2
    <2>6. Head(wire) = rows[Len(shown) + 1]
      BY <2>2, <2>5
    <2>7. ASSUME NEW i \in 1..Len(shown') PROVE shown'[i] = rows[i]
      <3>1. i \in 1..Len(shown) \/ i = Len(shown) + 1
        BY <2>2, <2>4
      <3> QED BY <2>2, <2>4, <2>6, <3>1
    <2>8. ASSUME NEW i \in 1..Len(wire') PROVE wire'[i] = rows[Len(shown') + i]
      <3>1. i + 1 \in 1..Len(wire) /\ Len(shown) + (i + 1) = Len(shown') + i
        BY <2>2, <2>3, <2>4
      <3> QED BY <2>2, <2>3, <3>1
    <2>9. Len(shown') <= Len(rows) /\ Len(shown') + Len(wire') = after
      BY <1>0, <2>2, <2>3, <2>4, <2>5
    <2> QED BY <2>1, <2>3, <2>4, <2>7, <2>8, <2>9 DEF Received, S
  <1>15. CASE ReceiveError
    BY <1>0, <1>15 DEF ReceiveError, Received
  <1>16. CASE AskStatus
    BY <1>0, <1>16, ReceivedStays DEF AskStatus
  <1>17. CASE AnswerStatus
    BY <1>0, <1>17, ReceivedStays DEF AnswerStatus
  <1>18. ASSUME NEW s \in Statuses, ReceiveStatus(s) PROVE Received'
    BY <1>0, <1>18, ReceivedStays DEF ReceiveStatus
  <1>19. CASE DbGoesDown
    BY <1>0, <1>19, ReceivedStays DEF DbGoesDown
  <1>20. CASE DbComesBack
    BY <1>0, <1>20, ReceivedStays DEF DbComesBack
  <1>21. CASE DeadlinePasses
    BY <1>0, <1>21, ReceivedStays DEF DeadlinePasses
  <1>22. CASE WorkerCrashes
    BY <1>0, <1>22, ReceivedStays DEF WorkerCrashes
  <1>23. CASE ApiRestarts
    BY <1>0, <1>23 DEF ApiRestarts, Received
  <1>24. CASE UNCHANGED vars
    BY <1>0, <1>24, ReceivedStays DEF vars
  <1> QED BY <1>1, <1>2, <1>3, <1>4, <1>5, <1>6, <1>7, <1>8, <1>9, <1>10, <1>11,
             <1>12, <1>13, <1>14, <1>15, <1>16, <1>17, <1>18, <1>19, <1>20, <1>21, <1>22,
             <1>23, <1>24
             DEF Next, Attempt, Quiescent

\* A sequence whose members are in T is a sequence over T.
LEMMA SeqOfMembers ==
  ASSUME NEW S, NEW T, NEW s \in Seq(S), \A i \in 1..Len(s) : s[i] \in T
  PROVE  s \in Seq(T)
  OBVIOUS

PageInv == Switches /\ Places /\ Messages /\ Numbers /\ Buffer /\ Stored /\ Received

\* The initial state satisfies the invariant.
LEMMA InitInv ==
  Init => PageInv
  <1> SUFFICES ASSUME Init PROVE PageInv
    OBVIOUS
  <1> USE Bounds DEF Init
  <1>1. Switches
    BY Zenon DEF Switches
  <1>2. Places
    BY DEF Places, Statuses, Phases
  <1>3. Messages /\ Numbers
    BY DEF Messages, Numbers, InFlight, Statuses, AtRest
  <1>4. Buffer
    BY DEF Buffer, Commands
  <1>5. /\ Sorted(rows, passed) /\ Complete(rows, refused, passed)
        /\ refused \subseteq 1..passed
    BY DEF Sorted, Complete, Covers
  <1>6. Stored
    BY <1>5, Zenon DEF Stored
  <1>7. Received
    BY DEF Received
  <1> QED BY <1>1, <1>2, <1>3, <1>4, <1>6, <1>7 DEF PageInv

\* So the invariant holds in every state of every behaviour.
LEMMA Invariance ==
  Spec => []PageInv
  <1>1. PageInv /\ [Next]_vars => PageInv'
    BY SwitchesStep, PlacesStep, MessagesStep, NumbersStep, BufferStep, StoredStep,
       ReceivedStep DEF PageInv
  <1> QED BY <1>1, InitInv, PTL DEF Spec

\* The parts make up TypeOK; the numbers in the log stay below the bounds since each
\* delivery adds at most one message to the output.
THEOREM PageTypeCorrect ==
  Spec => []TypeOK
  <1>1. PageInv => TypeOK
    <2> SUFFICES ASSUME PageInv PROVE TypeOK
      OBVIOUS
    <2> DEFINE N == MaxOutput + MaxAttempts
    <2>1. /\ produced \in 0..N /\ passed \in 0..produced /\ attempt \in 0..MaxAttempts
          /\ N \in Nat
      BY Bounds DEF PageInv, Messages, Buffer
    <2>2. /\ asked \in 0..MaxPolls /\ answers \in [Statuses -> 0..MaxPolls]
          /\ views \in 0..MaxViews /\ faults \in 0..MaxFaults
      BY Bounds DEF PageInv, Numbers, InFlight, Statuses
    <2>3. /\ rows \in Seq(Nat \X Nat)
          /\ \A i \in 1..Len(rows) :
               1 <= rows[i][1] /\ rows[i][1] <= rows[i][2] /\ rows[i][2] <= passed
      BY DEF PageInv, Stored, Sorted
    <2>4. ASSUME NEW i \in 1..Len(rows) PROVE rows[i] \in Chunks
      <3>1. rows[i] \in Nat \X Nat
        BY <2>3
      <3>2. rows[i][1] \in 1..N /\ rows[i][2] \in 1..N
        BY <2>1, <2>3, <3>1
      <3> QED BY <3>1, <3>2 DEF Chunks
    <2>5. rows \in Seq(Chunks)
      BY <2>3, <2>4, SeqOfMembers
    <2>6. /\ shown \in Seq(Nat \X Nat) /\ wire \in Seq(Nat \X Nat)
          /\ Len(shown) <= Len(rows) /\ Len(shown) \in Nat /\ Len(rows) \in Nat
          /\ \A i \in 1..Len(shown) : shown[i] = rows[i]
          /\ after \in Nat /\ after <= Len(rows)
      BY <2>3 DEF PageInv, Received
    <2>7. shown \in Seq(Chunks)
      <3>1. ASSUME NEW i \in 1..Len(shown) PROVE shown[i] \in Chunks
        <4>1. i \in 1..Len(rows)
          <5>1. /\ Len(shown) <= Len(rows) /\ Len(shown) \in Nat /\ Len(rows) \in Nat
                /\ i \in 1..Len(shown)
            BY <2>6, Zenon
          <5> QED BY <5>1
        <4> QED BY <2>4, <2>6, <3>1, <4>1, Zenon
      <3> QED BY <2>6, <3>1, SeqOfMembers
    <2>8. wire \in Seq(Chunks)
      <3>1. CASE conn \in {"open", "ending"}
        <4>1. /\ Len(shown) + Len(wire) = after /\ Len(wire) \in Nat
              /\ \A i \in 1..Len(wire) : wire[i] = rows[Len(shown) + i]
          BY <2>6, <3>1 DEF PageInv, Received
        <4>2. ASSUME NEW i \in 1..Len(wire) PROVE wire[i] \in Chunks
          <5>1. Len(shown) + i \in 1..Len(rows)
            BY <2>6, <4>1, Within, Zenon
          <5> QED BY <2>4, <4>1, <5>1, Zenon
        <4> QED BY <2>6, <4>2, SeqOfMembers
      <3>2. CASE conn \notin {"open", "ending"}
        BY <3>2 DEF PageInv, Received
      <3> QED BY <3>1, <3>2
    <2>9. flushing \in BOOLEAN /\ ctxDone \in BOOLEAN /\ dbUp \in BOOLEAN
      BY Zenon DEF PageInv, Switches
    <2>10. /\ status \in Statuses /\ phase \in Phases
           /\ next \in {"none", "push", "run", "publishing", "failing"}
           /\ conn \in {"none", "open", "ending", "closed"}
           /\ badge \in Statuses \cup {"none"}
      BY DEF PageInv, Places
    <2>11. after \in 0..Len(rows) /\ produced \in 0..MaxOutput + MaxAttempts
      BY <2>1, <2>6
    <2>12. refused \subseteq 1..passed
      BY Zenon DEF PageInv, Stored
    <2> QED BY <2>1, <2>2, <2>5, <2>7, <2>8, <2>9, <2>10, <2>11, <2>12, Zenon DEF TypeOK
  <1> QED BY <1>1, Invariance, PTL

\* The page shows the first rows of the log, in their order, however often the stream
\* breaks and the page is opened again.
THEOREM PageShowsPrefix ==
  Spec => []ShownIsPrefix
  <1>1. PageInv => ShownIsPrefix
    <2> SUFFICES ASSUME PageInv PROVE ShownIsPrefix
      OBVIOUS
    <2> DEFINE S == Nat \X Nat
    <2>1. /\ rows \in Seq(S) /\ shown \in Seq(S) /\ wire \in Seq(S)
          /\ Len(rows) \in Nat /\ Len(shown) \in Nat /\ Len(wire) \in Nat
          /\ Len(shown) <= Len(rows) /\ after \in Nat /\ after <= Len(rows)
          /\ \A i \in 1..Len(shown) : shown[i] = rows[i]
      <3>1. rows \in Seq(S)
        BY Zenon DEF PageInv, Stored, Sorted
      <3>2. Received
        BY Zenon DEF PageInv
      <3> QED BY <3>1, <3>2 DEF Received
    <2> HIDE DEF S
    <2>2. \A n \in Nat : n <= Len(rows) =>
            /\ SubSeq(rows, 1, n) \in Seq(S) /\ Len(SubSeq(rows, 1, n)) = n
            /\ \A i \in 1..n : SubSeq(rows, 1, n)[i] = rows[i]
      <3> SUFFICES ASSUME NEW n \in Nat, n <= Len(rows)
                   PROVE  /\ SubSeq(rows, 1, n) \in Seq(S) /\ Len(SubSeq(rows, 1, n)) = n
                          /\ \A i \in 1..n : SubSeq(rows, 1, n)[i] = rows[i]
        OBVIOUS
      <3>1. \A i \in 1..n : rows[i] \in S
        BY <2>1
      <3> QED BY <3>1, SubSeqProperties
    <2>3. shown = SubSeq(rows, 1, Len(shown))
      BY <2>1, <2>2, SeqEqual
    <2>4. ASSUME conn = "open" PROVE shown \o wire = SubSeq(rows, 1, after)
      <3> DEFINE t == shown \o wire
      <3>1. /\ Len(shown) + Len(wire) = after
            /\ \A i \in 1..Len(wire) : wire[i] = rows[Len(shown) + i]
        BY <2>4, Zenon DEF PageInv, Received
      <3>2. /\ t \in Seq(S) /\ Len(t) = after
            /\ \A i \in 1..after : t[i] = IF i <= Len(shown) THEN shown[i]
                                         ELSE wire[i - Len(shown)]
        BY <2>1, <3>1, ConcatProperties
      <3>3. ASSUME NEW i \in 1..after PROVE t[i] = rows[i]
        <4>1. CASE i <= Len(shown)
          BY <2>1, <3>2, <4>1
        <4>2. CASE i > Len(shown)
          <5>1. i - Len(shown) \in 1..Len(wire) /\ Len(shown) + (i - Len(shown)) = i
            BY <2>1, <3>1, <4>2
          <5>2. t[i] = wire[i - Len(shown)]
            BY <2>1, <3>2, <4>2
          <5>3. wire[i - Len(shown)] = rows[Len(shown) + (i - Len(shown))]
            BY <3>1, <5>1
          <5> QED BY <5>1, <5>2, <5>3
        <4>3. i <= Len(shown) \/ i > Len(shown)
          BY <2>1
        <4> QED BY <4>1, <4>2, <4>3
      <3> HIDE DEF t
      <3>4. t = SubSeq(rows, 1, after)
        BY <2>1, <2>2, <3>2, <3>3, SeqEqual
      <3> QED BY <3>4 DEF t
    <2> QED BY <2>1, <2>3, <2>4 DEF ShownIsPrefix
  <1> QED BY <1>1, Invariance, PTL

\* The log holds the output in order and without repetition, and unless something failed
\* just what has left the buffer and was not refused: a command's buffer is flushed
\* before the next one starts, a message of fail() is never written behind it, and a
\* chunk that is refused takes no other with it.
THEOREM LogKeepsOutput ==
  Spec => []OutputIsKept
  <1>1. PageInv => OutputIsKept
    <2> SUFFICES ASSUME PageInv PROVE OutputIsKept
      OBVIOUS
    <2>1. DOMAIN rows = 1..Len(rows)
      BY DEF PageInv, Stored, Sorted
    <2>2. /\ \A i \in 1..Len(rows) : rows[i][1] <= rows[i][2] /\ rows[i][2] <= passed
          /\ \A i \in 2..Len(rows) : rows[i - 1][2] < rows[i][1]
      BY DEF PageInv, Stored, Sorted
    <2>3. faults = 0 => \A n \in 1..passed : InLog(n) <=> n \notin refused
      BY <2>1, Zenon DEF PageInv, Stored, Complete, Covers, InLog
    <2>4. phase \in AtRest => passed = produced
      BY DEF PageInv, Buffer, AtRest, Commands
    <2> QED BY <2>1, <2>2, <2>3, <2>4 DEF OutputIsKept
  <1> QED BY <1>1, Invariance, PTL
=============================================================================
