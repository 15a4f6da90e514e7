--------------------------- MODULE MCTerminalPage ---------------------------
(* Model-checking instances of the three pages. *)
EXTENDS TerminalSurface

\* Only the console has snapshots that overtake each other.
Fetches == [p \in Pages |-> IF p = "console" THEN 2 ELSE 1]
=============================================================================
