----------------------------- MODULE MCAccounts -----------------------------
(* Model-checking instances of Accounts. *)
EXTENDS Accounts, TLC

\* A call mints whatever it mints first.
CallSymmetry == Permutations(Calls)
=============================================================================
