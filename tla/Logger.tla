------------------------------- MODULE Logger -------------------------------
(***************************************************************************)
(* utils::Logger: threads that log and change the level.  log() tests the  *)
(* level before it takes mutex_, and set_level() takes no mutex: the test   *)
(* sees the old level or the new one, and a line may come out after the    *)
(* level that forbids it.  A line goes to stderr and then to the file, if  *)
(* there is one and it could be opened; a stream that failed once takes no *)
(* further line.                                                           *)
(***************************************************************************)
EXTENDS Naturals, SequencesExt

CONSTANTS LogThreads,
          Levels,      \* of the levels Trace = 0 .. Off = 6 those that are used
          MaxLogs,     \* bound: lines that pass the test of the level
          MaxChanges   \* bound: calls of set_level()

ASSUME LoggerAssumption == Levels \subseteq Nat

Sinks == {"console", "file"}

VARIABLES minimum_level_,
          changes,   \* how often set_level() was called
          caller,    \* where each thread is in log(), and the level of its message
          stream,    \* the state of std::cerr and of file_
          lines,     \* what each of them has taken
          order,     \* history: the lines in the order their writers had mutex_
          late       \* history: lines by thread below the level since it was last set

loggerVars == <<minimum_level_, changes, caller, stream, lines, order, late>>

Outside == [at |-> "outside", level |-> 0]

LoggerInit ==
  /\ minimum_level_ \in Levels
  /\ changes = 0
  /\ caller = [t \in LogThreads |-> Outside]
  /\ stream \in [Sinks -> {"good", "closed"}] /\ stream["console"] = "good"
  /\ lines = [s \in Sinks |-> << >>]
  /\ order = << >>
  /\ late = [t \in LogThreads |-> 0]

Holds(t) == caller[t].at \in {"format", "console", "file"}

-----------------------------------------------------------------------------

SetLevel(level) == /\ changes < MaxChanges
                   /\ changes' = changes + 1
                   /\ minimum_level_' = level
                   /\ late' = [t \in LogThreads |-> 0]
                   /\ UNCHANGED <<caller, stream, lines, order>>

\* Variant: log() without the test.
Always(level) == level \in Levels

\* A message of level Off passes every minimum.
Enabled(level) == level >= minimum_level_

Waiting == {t \in LogThreads : caller[t].at \in {"lock", "format"}}

Log(t, level) == /\ caller[t] = Outside
                 /\ Len(order) + Cardinality(Waiting) < MaxLogs
                 /\ Enabled(level)
                 /\ caller' = [caller EXCEPT ![t] = [at |-> "lock", level |-> level]]
                 /\ UNCHANGED <<minimum_level_, changes, stream, lines, order, late>>

\* Variant: no guard object in write().
EnterUnlocked(t) == /\ caller[t].at = "lock"
                    /\ caller' = [caller EXCEPT ![t].at = "format"]
                    /\ UNCHANGED <<minimum_level_, changes, stream, lines, order, late>>

LockMutex(t) == /\ caller[t].at = "lock"
                /\ ~\E u \in LogThreads : Holds(u)
                /\ caller' = [caller EXCEPT ![t].at = "format"]
                /\ UNCHANGED <<minimum_level_, changes, stream, lines, order, late>>

Format(t) == /\ caller[t].at = "format"
             /\ caller' = [caller EXCEPT ![t].at = "console"]
             /\ order' = Append(order, <<t, caller[t].level>>)
             /\ UNCHANGED <<minimum_level_, changes, stream, lines, late>>

\* No memory for the text: the guard gives the mutex back.
FormatThrows(t) == /\ caller[t].at = "format"
                   /\ caller' = [caller EXCEPT ![t] = Outside]
                   /\ UNCHANGED <<minimum_level_, changes, stream, lines, order, late>>

\* The stream takes the line, or fails and remembers it; one that is not good does nothing.
Insert(t, sink) ==
  \/ /\ stream[sink] = "good"
     /\ lines' = [lines EXCEPT ![sink] = Append(@, <<t, caller[t].level>>)]
     /\ UNCHANGED stream
  \/ /\ stream[sink] = "good"
     /\ stream' = [stream EXCEPT ![sink] = "bad"]
     /\ UNCHANGED lines
  \/ /\ stream[sink] # "good"
     /\ UNCHANGED <<stream, lines>>

WriteConsole(t) == /\ caller[t].at = "console"
                   /\ Insert(t, "console")
                   /\ caller' = [caller EXCEPT ![t].at = "file"]
                   /\ late' = [late EXCEPT ![t] =
                                  IF caller[t].level < minimum_level_ THEN @ + 1 ELSE @]
                   /\ UNCHANGED <<minimum_level_, changes, order>>

WriteFile(t) == /\ caller[t].at = "file"
                /\ Insert(t, "file")
                /\ caller' = [caller EXCEPT ![t] = Outside]
                /\ UNCHANGED <<minimum_level_, changes, order, late>>

LoggerNext == \/ \E level \in Levels : SetLevel(level)
              \/ \E t \in LogThreads : \/ \E level \in Levels : Log(t, level)
                                       \/ LockMutex(t)
                                       \/ Format(t)
                                       \/ FormatThrows(t)
                                       \/ WriteConsole(t)
                                       \/ WriteFile(t)

LoggerSpec == LoggerInit /\ [][LoggerNext]_loggerVars

-----------------------------------------------------------------------------

(***************************************************************************)
(* The file and stderr tell the same story: each has taken the first lines *)
(* of one common order, and all of them but the one being written unless   *)
(* it failed or was never open.                                            *)
(***************************************************************************)
SinksInOrder ==
  \A s \in Sinks :
    /\ IsPrefix(lines[s], order)
    /\ stream[s] = "good" =>
         \/ lines[s] = order
         \/ \E t \in LogThreads : /\ caller[t].at \in {"console", "file"}
                                 /\ order = Append(lines[s], <<t, caller[t].level>>)

\* After set_level() each thread brings out at most one more line below the level, the one
\* it had tested before.
OneLateLine == \A t \in LogThreads : late[t] <= 1

=============================================================================
