------------------------------- MODULE Config -------------------------------
(***************************************************************************)
(* utils::Config, the reader of "[section]" and "key = value" lines into   *)
(* one map from joined names to values.  A name is the sequence of its     *)
(* parts between dots, so that make_key(), which puts a dot between        *)
(* section and key, is \o, and two pairs may have one joined name.         *)
(*                                                                         *)
(* load() of a file that cannot be opened throws and changes nothing, else *)
(* it is load_from_string().  The typed getters only convert what get()    *)
(* gives.                                                                  *)
(***************************************************************************)
EXTENDS Naturals, SequencesExt

CONSTANTS Sections,   \* names of sections
          Keys,       \* names of keys
          Values,
          MaxLines,   \* bound: lines of a text that is loaded
          MaxWrites   \* bound: assignments since the last clear

ASSUME ConfigAssumption == /\ Sections \subseteq Seq(STRING)
                           /\ Keys \subseteq Seq(STRING)
                           /\ MaxLines \in Nat
                           /\ MaxWrites \in Nat

\* The empty section name, which current_section starts with and "[]" gives.
NoSection == <<"">>

VARIABLES values_,  \* the map
          writes    \* history: the assignments a reader of the text and of the calls of
                    \* set() since would expect, by numbers in their order

configVars == <<values_, writes>>

Assignment == [section : Sections, key : Keys, value : Values]

\* A blank line or a comment; a line without '='; a section's name; a key and a value.
Lines == {<<"skip">>, <<"junk">>} \cup ({"section"} \X (Sections \cup {NoSection}))
         \cup ({"pair"} \X Keys \X Values)
Texts == UNION {[1..n -> Lines] : n \in 0..MaxLines}

ConfigInit == values_ = << >> /\ writes = << >>

-----------------------------------------------------------------------------

MakeKey(section, key) == section \o key

Put(values, section, key, value) ==
  [name \in DOMAIN values \cup {MakeKey(section, key)} |->
     IF name = MakeKey(section, key) THEN value ELSE values[name]]

Stored(section, key) == MakeKey(section, key) \in DOMAIN values_
Get(section, key) == values_[MakeKey(section, key)]

\* Variant: the lines are read over what was there.
Uncleared == [values |-> values_, section |-> NoSection, thrown |-> FALSE]

\* load_from_string() clears the map before it reads the first line.
Cleared == [values |-> << >>, section |-> NoSection, thrown |-> FALSE]

\* An exception ends the loop, with the lines before it in the map.
ParseLine(state, line) ==
  IF state.thrown \/ line[1] = "skip" THEN state
  ELSE IF line[1] = "section" THEN [state EXCEPT !.section = line[2]]
  ELSE IF line[1] = "pair" /\ state.section # NoSection
       THEN [state EXCEPT !.values = Put(@, state.section, line[2], line[3])]
  ELSE [state EXCEPT !.thrown = TRUE]

-----------------------------------------------------------------------------
(* What a reader of the text expects of it, said without a loop.           *)

\* The section a line is in: the last name above it.
SectionAt(text, i) ==
  LET above == {j \in 1..i : text[j][1] = "section"}
  IN  IF above = {} THEN NoSection ELSE text[Max(above)][2]

Bad(text, i) == \/ text[i][1] = "junk"
                \/ text[i][1] = "pair" /\ SectionAt(text, i) = NoSection

\* The pairs before the first bad line, by the numbers of their lines.
Counted(text) == {i \in DOMAIN text : text[i][1] = "pair" /\ \A j \in 1..i : ~Bad(text, j)}

Assigned(text) ==
  [i \in Counted(text) |-> [section |-> SectionAt(text, i), key |-> text[i][2], value |-> text[i][3]]]

-----------------------------------------------------------------------------

\* The state of load_from_string() after the last line.
Parsed(text) ==
  LET after[n \in 0..Len(text)] ==
        IF n = 0 THEN Cleared ELSE ParseLine(after[n - 1], text[n])
  IN  after[Len(text)]

LoadFromString(text) == /\ values_' = Parsed(text).values
                        /\ writes' = Assigned(text)

SetValue(w) ==
  LET next == Max({0} \cup DOMAIN writes) + 1
  IN  /\ Cardinality(DOMAIN writes) < MaxWrites
      /\ values_' = Put(values_, w.section, w.key, w.value)
      /\ writes' = [i \in DOMAIN writes \cup {next} |-> IF i = next THEN w ELSE writes[i]]

Clear == values_' = << >> /\ writes' = << >>

ConfigNext == \/ \E text \in Texts : LoadFromString(text)
              \/ \E w \in Assignment : SetValue(w)
              \/ Clear

ConfigSpec == ConfigInit /\ [][ConfigNext]_configVars

-----------------------------------------------------------------------------

\* Another pair with the same joined name was assigned after this one.
Aliased(section, key) ==
  \E i \in DOMAIN writes :
    /\ writes[i].section \o writes[i].key = section \o key
    /\ writes[i].section # section
    /\ \A j \in DOMAIN writes :
         j > i => <<writes[j].section, writes[j].key>> # <<section, key>>

(***************************************************************************)
(* A getter gives the value last assigned to its section and key since the *)
(* text was loaded, and nothing where there was none: of a text that does  *)
(* not parse to its end, the lines before the bad one, and of the earlier  *)
(* configuration nothing.  The exception: make_key() does not tell         *)
(* [a] b.c from [a.b] c.                                                   *)
(***************************************************************************)
ReadsLastWrite ==
  \A s \in Sections, k \in Keys :
    LET mine == {i \in DOMAIN writes : writes[i].section = s /\ writes[i].key = k}
    IN  \/ Aliased(s, k)
        \/ mine = {} /\ ~Stored(s, k)
        \/ mine # {} /\ Stored(s, k) /\ Get(s, k) = writes[Max(mine)].value

=============================================================================
