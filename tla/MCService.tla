----------------------------- MODULE MCService ------------------------------
(* Values of the constants of Service that a .cfg file cannot write *)
EXTENDS Service

CONSTANTS c1, c2

\* Only c1 sends files, in two chunks each; both send texts, c2 without end.
FilesOfOne == [c \in Clients |-> IF c = c1 THEN <<2, 1, 2>> ELSE <<1, 1>>]
EndlessTexts == {c2}

\* Both send a file in two chunks.
TwoFiles == [c \in Clients |-> <<2>>]
=============================================================================
