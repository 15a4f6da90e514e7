-------------------------- MODULE MCTerminalBridge --------------------------
(* Model-checking instances of TerminalBridge. *)
EXTENDS TerminalBridge, TLC

\* Connections are interchangeable. (Ptys are not: Spawned chooses one.)
ConnSymmetry == Permutations(Conns)
=============================================================================
