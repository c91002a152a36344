----------------------------- MODULE MCTerminal -----------------------------
(* Instances of Terminal for TLC.                                          *)
EXTENDS Terminal

(* Prompts; the line that a tab is completed to.                            *)
P1 == <<">">>
P2 == <<">", ">">>
P3 == <<"p", ":">>
Word == <<"a", " ", "a">>

=============================================================================
