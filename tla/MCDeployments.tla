--------------------------- MODULE MCDeployments ---------------------------
(* Model-checking instances of Deployments. *)
EXTENDS Deployments, TLC

\* Requests are interchangeable: an id is minted, and a container started, by
\* whichever request comes first.
RequestSymmetry == Permutations(Requests)

\* So are hosts: nothing but the rows of servers tells them apart.
HostSymmetry == RequestSymmetry \cup Permutations(Hosts)
=============================================================================
