----------------------------- MODULE MCPrograms -----------------------------
(* TLC instance of Programs: a command search of six bytes.                *)
EXTENDS Programs
MCLines == {<<"a">>, <<" ", "a">>, <<"a", " ", "b">>, <<"a", " ", " ", "b", "b">>,
            <<"b">>, <<"a", "a", " ", "a", "b">>, <<"a", "a", " ">>}
MCExecutables == {<<"a">>, <<"a", "a">>}
NoText == <<>>
LiteralTails == {<<"b">>}
OldTexts == {<<"a", "b">>}
MCPid == 0 .. 3
TwoTerminals == 0 .. 1
NoHabits == {}
=============================================================================
