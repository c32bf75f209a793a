---------------------------- MODULE Utils_proof -----------------------------
(***************************************************************************)
(* Proofs about Logger, for any threads, levels and number of lines (both  *)
(* outputs agree, and a thread brings out at most one late line), and      *)
(* about Config, for texts and calls of any number: a getter gives what    *)
(* was assigned last.                                                      *)
(***************************************************************************)
EXTENDS Config, Logger, NumberSets, SequenceTheorems, TLAPS

Steps == {"outside", "lock", "format", "console", "file"}
Line  == LogThreads \X Levels

LogTypes ==
  /\ minimum_level_ \in Levels
  /\ caller \in [LogThreads -> [at : Steps, level : Nat]]
  /\ \A t \in LogThreads : caller[t].at # "outside" => caller[t].level \in Levels
  /\ stream \in [Sinks -> {"good", "bad", "closed"}]
  /\ lines \in [Sinks -> Seq(Line)]
  /\ order \in Seq(Line)
  /\ late \in [LogThreads -> Nat]

OneHolder == \A t, u \in LogThreads : Holds(t) /\ Holds(u) => t = u

\* The line is in order and the sink has still to take it.
Owes(t, s) == \/ caller[t].at = "console"
              \/ caller[t].at = "file" /\ s = "file"

\* A good stream has every line, but for the one its writer still owes it.
Complete ==
  \A s \in Sinks : stream[s] = "good" =>
    \/ lines[s] = order /\ \A t \in LogThreads : ~Owes(t, s)
    \/ \E t \in LogThreads : Owes(t, s) /\ order = Append(lines[s], <<t, caller[t].level>>)

EachABeginning == \A s \in Sinks : IsPrefix(lines[s], order)

\* A thread whose message has come to be below the level is not late yet.
NotLateYet ==
  \A t \in LogThreads :
    /\ late[t] <= 1
    /\ caller[t].at \in {"lock", "format", "console"} /\ caller[t].level < minimum_level_
         => late[t] = 0

LogInv == LogTypes /\ OneHolder /\ Complete /\ EachABeginning /\ NotLateYet

-----------------------------------------------------------------------------

\* What has been taken stays the beginning when the order grows.
LEMMA PrefixGrows ==
  ASSUME NEW S, NEW p \in Seq(S), NEW q \in Seq(S), NEW e \in S, IsPrefix(p, q)
  PROVE  IsPrefix(p, Append(q, e))
<1>1. Append(q, e) = q \o <<e>> /\ Len(Append(q, e)) = Len(q) + 1
  BY AppendIsConcat, AppendProperties
<1>2. Len(p) \in Nat /\ Len(p) <= Len(q)
  BY DEF IsPrefix
<1>3. SubSeq(Append(q, e), 1, Len(p)) = SubSeq(q, 1, Len(p))
  <2>1. /\ \A i \in 1 .. Len(p) : Append(q, e)[i] \in S /\ q[i] \in S /\ Append(q, e)[i] = q[i]
        /\ 1 \in Int /\ Len(p) \in Int
    BY <1>2, AppendProperties
  <2>2. /\ SubSeq(Append(q, e), 1, Len(p)) \in Seq(S)
        /\ Len(SubSeq(Append(q, e), 1, Len(p))) = Len(p)
        /\ \A i \in 1 .. Len(p) : SubSeq(Append(q, e), 1, Len(p))[i] = Append(q, e)[i]
    BY <2>1, <1>2, SubSeqProperties, Z3
  <2>3. /\ SubSeq(q, 1, Len(p)) \in Seq(S)
        /\ Len(SubSeq(q, 1, Len(p))) = Len(p)
        /\ \A i \in 1 .. Len(p) : SubSeq(q, 1, Len(p))[i] = q[i]
    BY <2>1, <1>2, SubSeqProperties, Z3
  <2> QED
    BY <2>1, <2>2, <2>3, SeqEqual
<1> QED
  BY <1>1, <1>2, <1>3 DEF IsPrefix

\* A sequence is the beginning of itself.
LEMMA PrefixOfItself == ASSUME NEW S, NEW q \in Seq(S) PROVE IsPrefix(q, q)
BY DEF IsPrefix

\* A new logger has written nothing.
LEMMA LogInit == LoggerInit => LogInv
<1> SUFFICES ASSUME LoggerInit PROVE LogInv
  OBVIOUS
<1>1. << >> \in Seq(Line)
  OBVIOUS
<1>2. LogTypes
  BY <1>1 DEF LoggerInit, LogTypes, Outside, Steps
<1>3. OneHolder /\ Complete /\ NotLateYet
  BY DEF LoggerInit, OneHolder, Complete, NotLateYet, Outside, Holds, Owes
<1>4. EachABeginning
  BY <1>1, PrefixOfItself DEF LoggerInit, EachABeginning
<1> QED
  BY <1>2, <1>3, <1>4 DEF LogInv

\* Every step keeps the invariant.
LEMMA LogStep == LogInv /\ [LoggerNext]_loggerVars => LogInv'
<1> SUFFICES ASSUME LogInv, [LoggerNext]_loggerVars PROVE LogInv'
  OBVIOUS
<1> USE LoggerAssumption DEF LogInv
<1>1. CASE UNCHANGED loggerVars
  BY <1>1 DEF loggerVars, LogTypes, OneHolder, Complete, EachABeginning, NotLateYet, Holds, Owes
<1>2. CASE \E level \in Levels : SetLevel(level)
  BY <1>2 DEF SetLevel, LogTypes, OneHolder, Complete, EachABeginning, NotLateYet, Holds, Owes
<1>3. ASSUME NEW t \in LogThreads, NEW level \in Levels, Log(t, level) PROVE LogInv'
  BY <1>3 DEF Log, Enabled, Outside, LogTypes, OneHolder, Complete, EachABeginning, NotLateYet,
     Holds, Owes, Steps
<1>4. ASSUME NEW t \in LogThreads, LockMutex(t) PROVE LogInv'
  BY <1>4 DEF LockMutex, LogTypes, OneHolder, Complete, EachABeginning, NotLateYet,
     Holds, Owes, Steps
<1>5. ASSUME NEW t \in LogThreads, Format(t) PROVE LogInv'
  <2> DEFINE line == <<t, caller[t].level>>
  <2>1. /\ caller[t].at = "format" /\ line \in Line
        /\ caller' = [caller EXCEPT ![t].at = "console"]
        /\ order' = Append(order, line)
        /\ UNCHANGED <<minimum_level_, stream, lines, late>>
    BY <1>5 DEF Format, Line, LogTypes
  <2>2. order' \in Seq(Line)
    BY <2>1 DEF LogTypes
  <2>3. LogTypes' /\ OneHolder' /\ NotLateYet'
    BY <2>1, <2>2 DEF LogTypes, OneHolder, NotLateYet, Holds, Steps
  <2>4. EachABeginning'
    BY <2>1, PrefixGrows DEF EachABeginning, LogTypes
  <2>5. \A s \in Sinks : stream[s] = "good" => lines[s] = order
    BY <2>1 DEF Complete, OneHolder, Holds, Owes
  <2>6. \A s \in Sinks : Owes(t, s)' /\ caller'[t].level = caller[t].level
    BY <2>1 DEF Owes, LogTypes
  <2>7. Complete'
    BY <2>1, <2>5, <2>6 DEF Complete
  <2> QED
    BY <2>3, <2>4, <2>7
<1>6. ASSUME NEW t \in LogThreads, FormatThrows(t) PROVE LogInv'
  BY <1>6 DEF FormatThrows, Outside, LogTypes, OneHolder, Complete, EachABeginning, NotLateYet,
     Holds, Owes, Steps
<1>7. ASSUME NEW t \in LogThreads, NEW sink \in Sinks, Insert(t, sink),
             caller[t].at = sink, minimum_level_' = minimum_level_, order' = order,
             caller'[t].at = IF sink = "console" THEN "file" ELSE "outside",
             \A u \in LogThreads \ {t} : caller'[u] = caller[u],
             caller'[t].level = caller[t].level \/ sink = "file"
      PROVE  Complete' /\ EachABeginning' /\ OneHolder'
             /\ stream' \in [Sinks -> {"good", "bad", "closed"}] /\ lines' \in [Sinks -> Seq(Line)]
  <2>1. Owes(t, sink) /\ Holds(t) /\ <<t, caller[t].level>> \in Line
    BY <1>7 DEF Owes, Holds, LogTypes, Sinks, Line
  <2>2. \A u \in LogThreads \ {t} : ~Holds(u) /\ ~Holds(u)'
    BY <2>1, <1>7 DEF OneHolder, Holds
  <2>3. stream[sink] = "good" => order = Append(lines[sink], <<t, caller[t].level>>)
    BY <2>1, <2>2 DEF Complete, Owes, Holds
  <2>4. /\ stream' \in [Sinks -> {"good", "bad", "closed"}] /\ lines' \in [Sinks -> Seq(Line)]
        /\ \A s \in Sinks \ {sink} : lines'[s] = lines[s] /\ stream'[s] = stream[s]
        /\ lines'[sink] = lines[sink] \/ (stream[sink] = "good" /\ lines'[sink] = order)
        /\ stream'[sink] = "good" => lines'[sink] = order
    <3>1. lines \in [Sinks -> Seq(Line)] /\ order \in Seq(Line)
          /\ stream \in [Sinks -> {"good", "bad", "closed"}]
      BY DEF LogTypes
    <3>2. CASE /\ stream[sink] = "good" /\ UNCHANGED stream
               /\ lines' = [lines EXCEPT ![sink] = Append(@, <<t, caller[t].level>>)]
      <4>1. lines' = [lines EXCEPT ![sink] = order]
        BY <3>2, <2>3
      <4> QED
        BY <3>1, <3>2, <4>1
    <3>3. CASE stream[sink] = "good" /\ stream' = [stream EXCEPT ![sink] = "bad"] /\ UNCHANGED lines
      BY <3>1, <3>3
    <3>4. CASE stream[sink] # "good" /\ UNCHANGED <<stream, lines>>
      BY <3>1, <3>4
    <3> QED
      BY <1>7, <3>2, <3>3, <3>4 DEF Insert
  <2>5. EachABeginning'
    BY <1>7, <2>4, PrefixOfItself DEF EachABeginning, LogTypes
  <2>6. OneHolder'
    BY <2>2 DEF OneHolder
  <2>7. \A u \in LogThreads : ~Owes(u, sink)'
    BY <1>7, <2>2 DEF Owes, Holds, Sinks
  <2>8. \A s \in Sinks \ {sink} : \A u \in LogThreads : Owes(u, s)' <=> Owes(u, s)
    BY <1>7, <2>2 DEF Owes, Holds, Sinks
  <2>9. \A s \in Sinks \ {sink} : \A u \in LogThreads : Owes(u, s) => caller'[u].level = caller[u].level
    BY <1>7, <2>2 DEF Owes, Holds, Sinks
  <2>10. Complete'
    <3> SUFFICES ASSUME NEW s \in Sinks, stream'[s] = "good"
                 PROVE  \/ lines'[s] = order' /\ \A u \in LogThreads : ~Owes(u, s)'
                        \/ \E u \in LogThreads : /\ Owes(u, s)'
                                              /\ order' = Append(lines'[s], <<u, caller'[u].level>>)
      BY DEF Complete
    <3>1. order' = order
      BY <1>7
    <3>2. CASE s = sink
      BY <2>4, <2>7, <3>1, <3>2
    <3>3. CASE s # sink
      <4>1. lines'[s] = lines[s] /\ stream[s] = "good"
        BY <2>4, <3>3
      <4>2. \/ lines[s] = order /\ \A u \in LogThreads : ~Owes(u, s)
            \/ \E u \in LogThreads : /\ Owes(u, s)
                                  /\ order = Append(lines[s], <<u, caller[u].level>>)
        BY <4>1 DEF Complete
      <4> QED
        BY <2>8, <2>9, <3>1, <3>3, <4>1, <4>2
    <3> QED
      BY <3>2, <3>3
  <2> QED
    BY <2>4, <2>5, <2>6, <2>10
<1>8. ASSUME NEW t \in LogThreads, WriteConsole(t) PROVE LogInv'
  <2>1. /\ Insert(t, "console") /\ "console" \in Sinks
        /\ caller[t].at = "console" /\ minimum_level_' = minimum_level_ /\ order' = order
        /\ caller'[t].at = "file" /\ caller'[t].level = caller[t].level
        /\ \A u \in LogThreads \ {t} : caller'[u] = caller[u]
        /\ caller' \in [LogThreads -> [at : Steps, level : Nat]]
    BY <1>8 DEF WriteConsole, LogTypes, Sinks, Steps
  <2>2. Complete' /\ EachABeginning' /\ OneHolder'
        /\ stream' \in [Sinks -> {"good", "bad", "closed"}] /\ lines' \in [Sinks -> Seq(Line)]
    BY <2>1, <1>7
  <2>3. /\ \A u \in LogThreads \ {t} : late'[u] = late[u]
        /\ late'[t] = IF caller[t].level < minimum_level_ THEN late[t] + 1 ELSE late[t]
        /\ late' \in [LogThreads -> Nat]
    BY <1>8 DEF WriteConsole, LogTypes
  <2>4. NotLateYet'
    <3> SUFFICES ASSUME NEW u \in LogThreads
                 PROVE  /\ late'[u] <= 1
                        /\ caller'[u].at \in {"lock", "format", "console"}
                           /\ caller'[u].level < minimum_level_' => late'[u] = 0
      BY DEF NotLateYet
    <3>1. /\ late[u] <= 1 /\ late[u] \in Nat
          /\ caller[u].at \in {"lock", "format", "console"} /\ caller[u].level < minimum_level_
               => late[u] = 0
      BY DEF NotLateYet, LogTypes
    <3>2. CASE u = t
      BY <3>1, <3>2, <2>1, <2>3
    <3>3. CASE u # t
      BY <3>1, <3>3, <2>1, <2>3
    <3> QED
      BY <3>2, <3>3
  <2>5. LogTypes'
    BY <2>1, <2>2, <2>3 DEF LogTypes
  <2> QED
    BY <2>2, <2>4, <2>5
<1>9. ASSUME NEW t \in LogThreads, WriteFile(t) PROVE LogInv'
  <2>1. /\ Insert(t, "file") /\ "file" \in Sinks
        /\ caller[t].at = "file" /\ minimum_level_' = minimum_level_ /\ order' = order
        /\ caller'[t] = Outside /\ late' = late
        /\ \A u \in LogThreads \ {t} : caller'[u] = caller[u]
        /\ caller' \in [LogThreads -> [at : Steps, level : Nat]]
    BY <1>9 DEF WriteFile, LogTypes, Sinks, Steps, Outside
  <2>0. caller'[t].at = "outside"
    BY <2>1 DEF Outside
  <2>2. Complete' /\ EachABeginning' /\ OneHolder'
        /\ stream' \in [Sinks -> {"good", "bad", "closed"}] /\ lines' \in [Sinks -> Seq(Line)]
    BY <2>1, <2>0, <1>7
  <2>3. NotLateYet'
    <3> SUFFICES ASSUME NEW u \in LogThreads
                 PROVE  /\ late'[u] <= 1
                        /\ caller'[u].at \in {"lock", "format", "console"}
                           /\ caller'[u].level < minimum_level_' => late'[u] = 0
      BY DEF NotLateYet
    <3>1. CASE u = t
      BY <3>1, <2>1, <2>0 DEF NotLateYet
    <3>2. CASE u # t
      BY <3>2, <2>1 DEF NotLateYet
    <3> QED
      BY <3>1, <3>2
  <2>4. LogTypes'
    <3>1. \A u \in LogThreads : caller'[u].at # "outside" => caller'[u].level \in Levels
      BY <2>1, <2>0 DEF LogTypes
    <3> QED
      BY <2>1, <2>2, <3>1 DEF LogTypes
  <2> QED
    BY <2>2, <2>3, <2>4
<1> QED
  BY <1>1, <1>2, <1>3, <1>4, <1>5, <1>6, <1>8, <1>9 DEF LoggerNext

\* The invariant of the logger.
LEMMA LoggerInvariant == LoggerSpec => []LogInv
<1>1. LoggerInit => LogInv
  BY LogInit
<1>2. LogInv /\ [LoggerNext]_loggerVars => LogInv'
  BY LogStep
<1> QED
  BY <1>1, <1>2, PTL DEF LoggerSpec

\* stderr and the file have the same lines in the same order, whatever threads log at once
\* and wherever a stream fails.
THEOREM SinksAgree == LoggerSpec => []SinksInOrder
<1>1. LogInv => SinksInOrder
  BY DEF LogInv, Complete, EachABeginning, SinksInOrder, Owes
<1> QED
  BY <1>1, LoggerInvariant, PTL

\* No thread brings out two lines below the level after one call of set_level().
THEOREM LateLinesBounded == LoggerSpec => []OneLateLine
<1>1. LogInv => OneLateLine
  BY DEF LogInv, NotLateYet, OneLateLine
<1> QED
  BY <1>1, LoggerInvariant, PTL

-----------------------------------------------------------------------------
(* Config.                                                                 *)

Name(w) == MakeKey(w.section, w.key)

\* The map holds these assignments, of which the later ones are on top.
Describes(values, assigned) ==
  /\ DOMAIN values = {Name(assigned[i]) : i \in DOMAIN assigned}
  /\ \A i \in DOMAIN assigned :
       (\A j \in DOMAIN assigned : j > i => Name(assigned[j]) # Name(assigned[i]))
         => values[Name(assigned[i])] = assigned[i].value

(***************************************************************************)
(* A getter sees one pair of names, the map one joined name: what the map  *)
(* holds is therefore said of joined names, by the last assignment to each *)
(* of them.                                                                *)
(***************************************************************************)
ConfigInv ==
  /\ \E bound \in Nat : DOMAIN writes \subseteq 0..bound
  /\ \A i \in DOMAIN writes : writes[i].section \in Sections /\ writes[i].key \in Keys
  /\ Describes(values_, writes)

\* One assignment more, after all others.
Adds(assigned, n, w, more) ==
  /\ DOMAIN more = DOMAIN assigned \cup {n}
  /\ more[n] = w
  /\ \A i \in DOMAIN assigned : i \in Nat /\ i < n /\ more[i] = assigned[i]

LEMMA PutDescribes ==
  ASSUME NEW values, NEW assigned, NEW n \in Nat, NEW w, NEW more,
         Describes(values, assigned), Adds(assigned, n, w, more)
  PROVE  Describes(Put(values, w.section, w.key, w.value), more)
<1> DEFINE put == Put(values, w.section, w.key, w.value)
<1>1. DOMAIN put = DOMAIN values \cup {Name(w)}
  BY DEF Put, Name
<1>2. put[Name(w)] = w.value
  BY DEF Put, Name
<1>3. \A name \in DOMAIN values : name # Name(w) => put[name] = values[name]
  BY DEF Put, Name
<1> HIDE DEF put
<1>4. DOMAIN put = {Name(more[i]) : i \in DOMAIN more}
  BY <1>1 DEF Describes, Adds
<1>5. ASSUME NEW i \in DOMAIN more, \A j \in DOMAIN more : j > i => Name(more[j]) # Name(more[i])
      PROVE  put[Name(more[i])] = more[i].value
  <2>1. CASE i = n
    BY <1>2, <2>1 DEF Adds
  <2>2. CASE i # n
    <3>1. i \in DOMAIN assigned /\ more[i] = assigned[i] /\ n > i
      BY <2>2 DEF Adds
    <3>2. Name(w) # Name(assigned[i])
      BY <1>5, <3>1 DEF Adds
    <3>3. \A j \in DOMAIN assigned : j > i => Name(assigned[j]) # Name(assigned[i])
      BY <1>5, <3>1 DEF Adds
    <3>4. Name(assigned[i]) \in DOMAIN values /\ values[Name(assigned[i])] = assigned[i].value
      BY <3>1, <3>3 DEF Describes
    <3> QED
      BY <1>3, <3>1, <3>2, <3>4
  <2> QED
    BY <2>1, <2>2
<1> QED
  BY <1>4, <1>5 DEF Describes, put

LEMMA LineKinds ==
  ASSUME NEW line \in Lines
  PROVE  \/ line[1] = "skip"
         \/ line[1] = "junk"
         \/ line[1] = "section" /\ line[2] \in Sections \cup {NoSection}
         \/ line[1] = "pair" /\ line[2] \in Keys /\ line[3] \in Values
  BY DEF Lines

LEMMA TextLines ==
  ASSUME NEW text \in Texts
  PROVE  text \in Seq(Lines) /\ Len(text) \in Nat /\ DOMAIN text = 1..Len(text)
<1>1. PICK n \in 0..MaxLines : text \in [1..n -> Lines]
  BY DEF Texts
<1>2. n \in Nat
  BY ConfigAssumption DEF ConfigAssumption
<1>3. text \in Seq(Lines)
  BY <1>1, <1>2
<1> QED
  BY <1>3

-----------------------------------------------------------------------------

LEMMA SectionAtFirst ==
  ASSUME NEW text \in Texts
  PROVE  SectionAt(text, 0) = NoSection
  BY DEF SectionAt

\* A line is in its own section if it begins one, and else in that of the line above.
LEMMA SectionAtNext ==
  ASSUME NEW text \in Texts, NEW n \in 0..Len(text) - 1
  PROVE  SectionAt(text, n + 1) = IF text[n + 1][1] = "section" THEN text[n + 1][2]
                                  ELSE SectionAt(text, n)
<1> DEFINE above(i) == {j \in 1..i : text[j][1] = "section"}
<1>0. n \in Nat /\ n + 1 \in Nat
  BY TextLines
<1>1. CASE text[n + 1][1] = "section"
  <2>1. above(n + 1) \subseteq 0..n + 1 /\ n + 1 \in above(n + 1)
    BY <1>0, <1>1
  <2>2. Max(above(n + 1)) \in above(n + 1) /\ Max(above(n + 1)) >= n + 1
    <3> HIDE DEF above
    <3>1. above(n + 1) # {}
      BY <2>1
    <3> QED
      BY <1>0, <2>1, <3>1, MaxProperty
  <2>3. \A i \in above(n + 1) : i \in Nat /\ i <= n + 1
    BY <1>0
  <2>4. Max(above(n + 1)) = n + 1
    <3> HIDE DEF above
    <3> QED
      BY <1>0, <2>2, <2>3
  <2>5. above(n + 1) # {} /\ SectionAt(text, n + 1) = IF above(n + 1) = {} THEN NoSection
                                                      ELSE text[Max(above(n + 1))][2]
    BY <2>1 DEF SectionAt
  <2> HIDE DEF above
  <2> QED
    BY <1>1, <2>4, <2>5
<1>2. CASE text[n + 1][1] # "section"
  <2>1. above(n + 1) = above(n)
    BY <1>0, <1>2
  <2> QED
    BY <1>2, <2>1 DEF SectionAt
<1> QED
  BY <1>1, <1>2

\* A section's name is one of those that texts are made of.
LEMMA SectionAtType ==
  ASSUME NEW text \in Texts, NEW n \in 0..Len(text)
  PROVE  SectionAt(text, n) \in Sections \cup {NoSection}
<1> DEFINE above == {j \in 1..n : text[j][1] = "section"}
<1>1. SectionAt(text, n) = IF above = {} THEN NoSection ELSE text[Max(above)][2]
  BY DEF SectionAt
<1>2. CASE above # {}
  <2>1. n \in Nat /\ above \subseteq 0..n
    BY TextLines
  <2>2. Max(above) \in above
    <3> HIDE DEF above
    <3> QED
      BY <1>2, <2>1, MaxProperty
  <2>3. Max(above) \in 1..Len(text) /\ text[Max(above)][1] = "section"
    BY <2>1, <2>2, TextLines
  <2>4. text[Max(above)] \in Lines
    BY <2>3, TextLines
  <2>5. text[Max(above)][2] \in Sections \cup {NoSection}
    BY <2>3, <2>4, LineKinds
  <2> QED
    BY <1>1, <1>2, <2>5
<1> QED
  BY <1>1, <1>2

-----------------------------------------------------------------------------
(* The loop of load_from_string().                                         *)

\* What the first n lines of a text assign.
AssignedBy(text, n) == [i \in {j \in Counted(text) : j <= n} |-> Assigned(text)[i]]

\* The state after n lines: an exception has been thrown at the first bad one, the section
\* is that of the last line, and the map holds what the lines assign.
After(text, n, state) ==
  /\ state.thrown \in BOOLEAN
  /\ state.thrown <=> \E j \in 1..n : Bad(text, j)
  /\ ~state.thrown => state.section = SectionAt(text, n)
  /\ state = [values |-> state.values, section |-> state.section, thrown |-> state.thrown]
  /\ Describes(state.values, AssignedBy(text, n))

LEMMA AfterNone ==
  ASSUME NEW text \in Texts
  PROVE  After(text, 0, Cleared)
<1>1. {j \in Counted(text) : j <= 0} = {}
  BY TextLines DEF Counted
<1>2. AssignedBy(text, 0) = << >>
  BY <1>1 DEF AssignedBy
<1>3. Describes(<< >>, << >>)
  BY DEF Describes
<1> QED
  BY <1>2, <1>3, SectionAtFirst DEF After, Cleared

\* A line that assigns nothing.
LEMMA AssignsNothing ==
  ASSUME NEW text \in Texts, NEW n \in 0..Len(text) - 1, n + 1 \notin Counted(text)
  PROVE  AssignedBy(text, n + 1) = AssignedBy(text, n)
<1>1. \A i \in Counted(text) : i \in Nat
  BY TextLines DEF Counted
<1>2. n \in Nat
  BY TextLines
<1>3. {j \in Counted(text) : j <= n + 1} = {j \in Counted(text) : j <= n}
  BY <1>1, <1>2
<1> QED
  BY <1>3 DEF AssignedBy

LEMMA AfterNext ==
  ASSUME NEW text \in Texts, NEW n \in 0..Len(text) - 1, NEW state, After(text, n, state)
  PROVE  After(text, n + 1, ParseLine(state, text[n + 1]))
<1> DEFINE line == text[n + 1]
           next == ParseLine(state, line)
<1>0. n \in Nat /\ n + 1 \in 1..Len(text) /\ line \in Lines /\ n + 1 \in DOMAIN text
  BY TextLines
<1>1. \A j \in 1..n + 1 : j \in 1..n \/ j = n + 1
  BY <1>0
<1>2. \A j \in 1..n : j \in 1..n + 1
  BY <1>0
<1>3. (\E j \in 1..n + 1 : Bad(text, j)) <=> state.thrown \/ Bad(text, n + 1)
  BY <1>0, <1>1, <1>2 DEF After
<1>4. SectionAt(text, n + 1) = IF line[1] = "section" THEN line[2] ELSE SectionAt(text, n)
  BY SectionAtNext
<1>5. Bad(text, n + 1) <=> line[1] = "junk" \/ (line[1] = "pair" /\ SectionAt(text, n + 1) = NoSection)
  BY DEF Bad
<1>6. n + 1 \in Counted(text) <=> line[1] = "pair" /\ ~state.thrown /\ ~Bad(text, n + 1)
  BY <1>0, <1>3 DEF Counted
<1>7. state = [values |-> state.values, section |-> state.section, thrown |-> state.thrown]
      /\ state.thrown \in BOOLEAN /\ (~state.thrown => state.section = SectionAt(text, n))
      /\ Describes(state.values, AssignedBy(text, n))
  BY DEF After
<1> HIDE DEF line
<1>8. CASE state.thrown
  <2>1. next = state
    BY <1>8 DEF ParseLine
  <2>2. AssignedBy(text, n + 1) = AssignedBy(text, n)
    BY <1>6, <1>8, AssignsNothing
  <2> QED
    BY <1>3, <1>7, <1>8, <2>1, <2>2 DEF After, line
<1>9. CASE ~state.thrown /\ line[1] = "skip"
  <2>1. next = state
    BY <1>9 DEF ParseLine
  <2>2. AssignedBy(text, n + 1) = AssignedBy(text, n)
    BY <1>6, <1>9, AssignsNothing
  <2> QED
    BY <1>3, <1>4, <1>5, <1>7, <1>9, <2>1, <2>2 DEF After, line
<1>10. CASE ~state.thrown /\ line[1] = "section"
  <2>1. next = [values |-> state.values, section |-> line[2], thrown |-> FALSE]
    BY <1>7, <1>10 DEF ParseLine
  <2>2. AssignedBy(text, n + 1) = AssignedBy(text, n)
    BY <1>6, <1>10, AssignsNothing
  <2> QED
    BY <1>3, <1>4, <1>5, <1>7, <1>10, <2>1, <2>2 DEF After, line
<1>11. CASE ~state.thrown /\ (line[1] = "junk" \/ (line[1] = "pair" /\ state.section = NoSection))
  <2>1. next = [values |-> state.values, section |-> state.section, thrown |-> TRUE]
    BY <1>7, <1>11 DEF ParseLine
  <2>2. Bad(text, n + 1)
    BY <1>4, <1>5, <1>7, <1>11
  <2>3. AssignedBy(text, n + 1) = AssignedBy(text, n)
    BY <1>6, <2>2, AssignsNothing
  <2> QED
    BY <1>3, <1>7, <2>1, <2>2, <2>3 DEF After, line
<1>12. CASE ~state.thrown /\ line[1] = "pair" /\ state.section # NoSection
  <2>1. next = [values |-> Put(state.values, state.section, line[2], line[3]),
                section |-> state.section, thrown |-> FALSE]
    BY <1>7, <1>12 DEF ParseLine
  <2>2. ~Bad(text, n + 1) /\ n + 1 \in Counted(text) /\ SectionAt(text, n + 1) = state.section
    BY <1>4, <1>5, <1>6, <1>7, <1>12
  <2> DEFINE w == [section |-> state.section, key |-> line[2], value |-> line[3]]
             before == AssignedBy(text, n)
             more == AssignedBy(text, n + 1)
  <2>3. \A i \in Counted(text) : i \in Nat
    BY TextLines DEF Counted
  <2>4. {j \in Counted(text) : j <= n + 1} = {j \in Counted(text) : j <= n} \cup {n + 1}
    BY <1>0, <2>2, <2>3
  <2>5. DOMAIN before = {j \in Counted(text) : j <= n} /\ DOMAIN more = DOMAIN before \cup {n + 1}
    BY <2>4 DEF AssignedBy
  <2>6. more[n + 1] = w
    BY <2>2, <2>4 DEF AssignedBy, Assigned, line
  <2>7. \A i \in DOMAIN before : more[i] = before[i]
    BY <2>4, <2>5 DEF AssignedBy
  <2>8. \A i \in DOMAIN before : i \in Nat /\ i < n + 1
    BY <1>0, <2>3, <2>5
  <2>9. Adds(before, n + 1, w, more)
    <3> HIDE DEF w, before, more
    <3> QED
      BY <2>5, <2>6, <2>7, <2>8 DEF Adds
  <2>10. w.section = state.section /\ w.key = line[2] /\ w.value = line[3]
    OBVIOUS
  <2>11. Describes(Put(state.values, w.section, w.key, w.value), more)
    <3>1. Describes(state.values, before)
      BY <1>7
    <3> HIDE DEF w, before, more
    <3> QED
      BY <1>0, <2>9, <3>1, PutDescribes
  <2>12. next.values = Put(state.values, w.section, w.key, w.value) /\ next.section = state.section
         /\ next.thrown = FALSE /\ next = [values |-> next.values, section |-> next.section, thrown |-> next.thrown]
    BY <2>1, <2>10
  <2> HIDE DEF w, before, next
  <2> QED
    BY <1>3, <1>12, <2>2, <2>11, <2>12 DEF After, line, next
<1> QED
  BY <1>0, <1>8, <1>9, <1>10, <1>11, <1>12, LineKinds

\* The loop's state after the last line.
LEMMA ParsedText ==
  ASSUME NEW text \in Texts
  PROVE  After(text, Len(text), Parsed(text))
<1> DEFINE Lasts(n, f) == f = [i \in 0..n |-> IF i = 0 THEN Cleared ELSE ParseLine(f[i - 1], text[i])]
           S == {n \in Nat : \E f : Lasts(n, f)}
<1>0. Len(text) \in Nat
  BY TextLines
<1>1. 0 \in S
  <2> DEFINE f == [i \in 0..0 |-> Cleared]
  <2>1. Lasts(0, f)
    OBVIOUS
  <2> QED
    BY <2>1
<1>2. ASSUME NEW n \in Nat, n \in S PROVE n + 1 \in S
  <2>1. PICK f : Lasts(n, f)
    BY <1>2
  <2> DEFINE g == [i \in 0..n + 1 |-> IF i = n + 1 THEN ParseLine(f[n], text[n + 1]) ELSE f[i]]
  <2>2. ASSUME NEW i \in 0..n + 1
        PROVE  g[i] = IF i = 0 THEN Cleared ELSE ParseLine(g[i - 1], text[i])
    <3>1. CASE i = n + 1
      <4>1. i # 0 /\ i - 1 = n /\ n \in 0..n + 1 /\ n # n + 1 /\ g[i] = ParseLine(f[n], text[i])
        BY <3>1
      <4>2. g[n] = f[n]
        BY <4>1
      <4> HIDE DEF g
      <4> QED
        BY <4>1, <4>2
    <3>2. CASE i # n + 1
      <4>1. i \in 0..n /\ g[i] = f[i] /\ (i # 0 => i - 1 \in 0..n /\ i - 1 \in 0..n + 1 /\ i - 1 # n + 1)
        BY <3>2
      <4>2. i # 0 => g[i - 1] = f[i - 1]
        BY <4>1
      <4>3. f[i] = IF i = 0 THEN Cleared ELSE ParseLine(f[i - 1], text[i])
        BY <2>1, <4>1
      <4> HIDE DEF g
      <4> QED
        BY <4>1, <4>2, <4>3
    <3> QED
      BY <3>1, <3>2
  <2>3. Lasts(n + 1, g)
    BY <2>2
  <2>4. n + 1 \in Nat
    OBVIOUS
  <2> HIDE DEF g, Lasts
  <2> QED
    BY <2>3, <2>4
<1>3. \E f : Lasts(Len(text), f)
  <2>1. Len(text) \in S
    <3> HIDE DEF S
    <3> QED
      BY <1>0, <1>1, <1>2, Inductive
  <2> HIDE DEF Lasts
  <2> QED
    BY <2>1
<1> DEFINE after == CHOOSE f : Lasts(Len(text), f)
<1>4. Lasts(Len(text), after)
  <2> HIDE DEF Lasts
  <2> QED
    BY <1>3
<1>5. Parsed(text) = after[Len(text)]
  BY DEF Parsed
<1> HIDE DEF after
<1>6. \A i \in 0..Len(text) : after[i] = IF i = 0 THEN Cleared ELSE ParseLine(after[i - 1], text[i])
  BY <1>4
<1> DEFINE U == {n \in Nat : n <= Len(text) => After(text, n, after[n])}
<1>7. 0 \in U
  BY <1>0, <1>6, AfterNone
<1>8. ASSUME NEW n \in Nat, n \in U PROVE n + 1 \in U
  <2>1. SUFFICES ASSUME n + 1 <= Len(text) PROVE After(text, n + 1, after[n + 1])
    OBVIOUS
  <2>2. n \in 0..Len(text) - 1 /\ After(text, n, after[n])
    BY <1>0, <1>8, <2>1
  <2>3. after[n + 1] = ParseLine(after[n], text[n + 1])
    <3>1. n + 1 \in 0..Len(text) /\ n + 1 # 0 /\ (n + 1) - 1 = n
      BY <1>0, <2>1
    <3> QED
      BY <1>6, <3>1
  <2> QED
    BY <2>2, <2>3, AfterNext
<1>9. Len(text) \in U
  <2> HIDE DEF U
  <2> QED
    BY <1>0, <1>7, <1>8, Inductive
<1> QED
  BY <1>0, <1>5, <1>9

-----------------------------------------------------------------------------
(* The invariant.                                                          *)

LEMMA EmptyDescribed ==
  Describes(<< >>, << >>) /\ DOMAIN << >> = {}
  BY DEF Describes

LEMMA ClearedInv ==
  ASSUME values_ = << >>, writes = << >>
  PROVE  ConfigInv
<1>1. DOMAIN writes \subseteq 0..0
  OBVIOUS
<1> QED
  BY <1>1, EmptyDescribed DEF ConfigInv

LEMMA LoadFromStringStep ==
  ASSUME NEW text \in Texts, LoadFromString(text)
  PROVE  ConfigInv'
<1>1. values_' = Parsed(text).values /\ writes' = Assigned(text)
  BY DEF LoadFromString
<1>2. DOMAIN Assigned(text) = Counted(text)
  BY DEF Assigned
<1>3. Counted(text) \subseteq 0..Len(text) /\ Len(text) \in Nat
  BY TextLines DEF Counted
<1>4. ASSUME NEW i \in Counted(text)
      PROVE  Assigned(text)[i].section \in Sections /\ Assigned(text)[i].key \in Keys
  <2>1. i \in 1..Len(text) /\ text[i] \in Lines /\ text[i][1] = "pair" /\ ~Bad(text, i)
    BY TextLines DEF Counted
  <2>2. Assigned(text)[i].section = SectionAt(text, i) /\ Assigned(text)[i].key = text[i][2]
    BY DEF Assigned
  <2>3. SectionAt(text, i) \in Sections
    <3>1. i \in 0..Len(text)
      BY <1>3
    <3> QED
      BY <2>1, <3>1, SectionAtType DEF Bad
  <2>4. text[i][2] \in Keys
    BY <2>1, LineKinds
  <2> QED
    BY <2>2, <2>3, <2>4
<1>5. Describes(Parsed(text).values, Assigned(text))
  <2>1. {j \in Counted(text) : j <= Len(text)} = Counted(text)
    BY <1>3
  <2>2. AssignedBy(text, Len(text)) = Assigned(text)
    BY <2>1 DEF AssignedBy, Assigned
  <2> QED
    BY <2>2, ParsedText DEF After
<1> QED
  BY <1>1, <1>2, <1>3, <1>4, <1>5 DEF ConfigInv

LEMMA SetValueStep ==
  ASSUME ConfigInv, NEW w \in Assignment, SetValue(w)
  PROVE  ConfigInv'
<1>1. PICK bound \in Nat : DOMAIN writes \subseteq 0..bound
  BY DEF ConfigInv
<1> DEFINE numbers == {0} \cup DOMAIN writes
           next == Max(numbers) + 1
<1>2. Max(numbers) \in numbers /\ \A i \in numbers : Max(numbers) >= i
  <2>1. numbers \subseteq 0..bound /\ numbers # {}
    BY <1>1
  <2> HIDE DEF numbers
  <2> QED
    BY <2>1, MaxProperty
<1>3. next \in Nat /\ \A i \in DOMAIN writes : i \in Nat /\ i < next
  <2>1. \A i \in numbers : i \in Nat
    BY <1>1
  <2>2. Max(numbers) \in Nat /\ \A i \in DOMAIN writes : i \in numbers
    BY <1>2, <2>1
  <2> HIDE DEF numbers
  <2> QED
    BY <1>2, <2>1, <2>2
<1>4. values_' = Put(values_, w.section, w.key, w.value)
  BY DEF SetValue
<1>5. writes' = [i \in DOMAIN writes \cup {next} |-> IF i = next THEN w ELSE writes[i]]
  BY DEF SetValue
<1> HIDE DEF next
<1>6. Adds(writes, next, w, writes')
  BY <1>3, <1>5 DEF Adds
<1>7. Describes(values_', writes')
  BY <1>3, <1>4, <1>6, PutDescribes DEF ConfigInv
<1>8. DOMAIN writes' \subseteq 0..next
  BY <1>3, <1>5
<1>9. \A i \in DOMAIN writes' : writes'[i].section \in Sections /\ writes'[i].key \in Keys
  BY <1>5 DEF ConfigInv, Assignment
<1> QED
  BY <1>3, <1>7, <1>8, <1>9 DEF ConfigInv

(***************************************************************************)
(* The inductive invariant of a configuration: the map is described by     *)
(* what the last text and the calls of set() since have assigned.          *)
(***************************************************************************)
THEOREM ConfigInvariant == ConfigSpec => []ConfigInv
<1>1. ConfigInit => ConfigInv
  BY ClearedInv DEF ConfigInit
<1>2. ConfigInv /\ [ConfigNext]_configVars => ConfigInv'
  <2> SUFFICES ASSUME ConfigInv, [ConfigNext]_configVars PROVE ConfigInv'
    OBVIOUS
  <2>1. ASSUME NEW text \in Texts, LoadFromString(text) PROVE ConfigInv'
    BY <2>1, LoadFromStringStep
  <2>2. ASSUME NEW w \in Assignment, SetValue(w) PROVE ConfigInv'
    BY <2>2, SetValueStep
  <2>3. CASE Clear
    <3>1. values_' = << >> /\ writes' = << >>
      BY <2>3 DEF Clear
    <3>2. DOMAIN writes' \subseteq 0..0
      BY <3>1
    <3> QED
      BY <3>1, <3>2, EmptyDescribed DEF ConfigInv
  <2>4. CASE UNCHANGED configVars
    BY <2>4 DEF configVars, ConfigInv
  <2> QED
    BY <2>1, <2>2, <2>3, <2>4 DEF ConfigNext
<1> QED
  BY <1>1, <1>2, PTL DEF ConfigSpec

(***************************************************************************)
(* A getter gives what was assigned last to its section and key, and       *)
(* nothing where nothing was, but where another pair with the same joined  *)
(* name came later: for texts of any length, any names and any calls.      *)
(***************************************************************************)
THEOREM GettersReadLastWrite == ConfigSpec => []ReadsLastWrite
<1>1. ConfigInv => ReadsLastWrite
  <2> SUFFICES ASSUME ConfigInv, NEW s \in Sections, NEW k \in Keys,
                      ~Aliased(s, k)
               PROVE  LET mine == {i \in DOMAIN writes : writes[i].section = s /\ writes[i].key = k}
                      IN  \/ mine = {} /\ ~Stored(s, k)
                          \/ mine # {} /\ Stored(s, k) /\ Get(s, k) = writes[Max(mine)].value
    BY DEF ReadsLastWrite
  <2> DEFINE mine == {i \in DOMAIN writes : writes[i].section = s /\ writes[i].key = k}
  <2>1. PICK bound \in Nat : DOMAIN writes \subseteq 0..bound
    BY DEF ConfigInv
  \* Whoever has the joined name and another pair has another section.
  <2>2. ASSUME NEW i \in DOMAIN writes, Name(writes[i]) = s \o k, i \notin mine
        PROVE  writes[i].section # s
    <3>1. writes[i].section \in Seq(STRING) /\ writes[i].key \in Seq(STRING)
          /\ s \in Seq(STRING) /\ k \in Seq(STRING)
      BY ConfigAssumption DEF ConfigInv, ConfigAssumption
    <3>2. SUFFICES ASSUME writes[i].section = s PROVE FALSE
      OBVIOUS
    <3>3. s \o writes[i].key = s \o k
      BY <2>2, <3>2 DEF Name, MakeKey
    <3>4. writes[i].key = k
      BY <3>1, <3>3, ConcatSimplifications
    <3> QED
      BY <2>2, <3>2, <3>4
  <2>3. Stored(s, k) <=> \E i \in DOMAIN writes : Name(writes[i]) = s \o k
    BY DEF ConfigInv, Describes, Stored, MakeKey
  <2>4. CASE mine = {}
    <3>1. ASSUME NEW i \in DOMAIN writes, Name(writes[i]) = s \o k PROVE FALSE
      <4>1. writes[i].section # s
        BY <2>2, <2>4, <3>1
      <4>2. \A j \in DOMAIN writes : <<writes[j].section, writes[j].key>> # <<s, k>>
        BY <2>4
      <4> QED
        BY <3>1, <4>1, <4>2 DEF Aliased, Name, MakeKey
    <3> QED
      BY <2>3, <2>4, <3>1
  <2>5. CASE mine # {}
    <3>1. Max(mine) \in mine /\ \A i \in mine : Max(mine) >= i
      <4>1. mine \subseteq 0..bound
        BY <2>1
      <4> HIDE DEF mine
      <4> QED
        BY <2>5, <4>1, MaxProperty
    <3> DEFINE last == Max(mine)
    <3>2. last \in DOMAIN writes /\ writes[last].section = s /\ writes[last].key = k
      BY <3>1
    <3>3. Name(writes[last]) = s \o k
      BY <3>2 DEF Name, MakeKey
    <3>4. ASSUME NEW j \in DOMAIN writes, j > last, Name(writes[j]) = s \o k PROVE FALSE
      <4>1. last \in Nat /\ j \in Nat
        BY <2>1, <3>2
      <4>2. \A i \in DOMAIN writes : i > last => i \notin mine
        <5>1. \A i \in DOMAIN writes : i \in Nat
          BY <2>1
        <5> HIDE DEF mine
        <5> QED
          BY <3>1, <4>1, <5>1
      <4>3. writes[j].section # s
        BY <2>2, <3>4, <4>2
      <4>4. \A i \in DOMAIN writes : i > j => <<writes[i].section, writes[i].key>> # <<s, k>>
        <5> SUFFICES ASSUME NEW i \in DOMAIN writes, i > j
                     PROVE  <<writes[i].section, writes[i].key>> # <<s, k>>
          OBVIOUS
        <5>1. i \in Nat /\ i > last
          <6>1. i \in Nat
            BY <2>1
          <6> HIDE DEF last
          <6> QED
            BY <3>4, <4>1, <6>1
        <5> QED
          BY <4>2, <5>1
      <4> QED
        BY <3>4, <4>3, <4>4 DEF Aliased, Name, MakeKey
    <3>5. values_[s \o k] = writes[last].value
      <4> HIDE DEF last
      <4> QED
        BY <3>2, <3>3, <3>4 DEF ConfigInv, Describes
    <3>6. Stored(s, k)
      BY <2>3, <3>2, <3>3
    <3> QED
      BY <2>5, <3>5, <3>6 DEF Get, MakeKey
  <2> QED
    BY <2>4, <2>5
<1> QED
  BY <1>1, ConfigInvariant, PTL

=============================================================================
