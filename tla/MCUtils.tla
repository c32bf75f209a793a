------------------------------ MODULE MCUtils ------------------------------
(* Bounds for model-checking Config and Logger.  They share nothing, so    *)
(* each is explored by itself, the other left as it began.                 *)
EXTENDS Config, Logger

CONSTANTS t1, t2

\* [a] b.c and [a.b] c are one joined name; the others are not.
TwoSections == {<<"a">>, <<"a", "b">>}
TwoKeys     == {<<"c">>, <<"b", "c">>}

TwoThreads      == {t1, t2}
InfoErrorAndOff == {2, 4, 6}

Init == ConfigInit /\ LoggerInit

Next == \/ LoggerInit /\ ConfigNext /\ UNCHANGED loggerVars
        \/ ConfigInit /\ LoggerNext /\ UNCHANGED configVars

Spec == Init /\ [][Next]_<<configVars, loggerVars>>

=============================================================================
