------------------------ MODULE DeploymentLifecycle ------------------------
(***************************************************************************)
(* What the deployment handlers promise a client, whatever the order of    *)
(* their calls: the life of a deployment and of its one container. The     *)
(* module Deployments implements it, see Lifecycle there.                  *)
(***************************************************************************)
CONSTANT Deployments

VARIABLES
    phase,      \* what the API shows: the status of the row, if there is one
    container   \* the container of the deployment: none, one that never ran, or up

vars == <<phase, container>>

Phases == {"unborn", "pending", "running", "failed", "deleted", "disturbed"}
Alive == {"pending", "running", "failed"}

To(d, p) == phase' = [phase EXCEPT ![d] = p] /\ UNCHANGED container
Put(d, c) == container' = [container EXCEPT ![d] = c] /\ UNCHANGED phase

Create(d) == phase[d] = "unborn" /\ container[d] = "none" /\ To(d, "pending")

\* A container is started only for a deployment that says so, and only when it
\* has no other one.
Run(d) ==
    /\ phase[d] = "pending" /\ container[d] = "none"
    /\ Put(d, "up") \/ Put(d, "created")

\* "running" is a promise kept when it is made.
Succeed(d) == phase[d] = "pending" /\ container[d] = "up" /\ To(d, "running")

Fail(d) == phase[d] \in Alive /\ To(d, "failed")

Remove(d) == phase[d] \in Alive /\ container[d] # "none" /\ Put(d, "none")

\* A redeploy starts over when the old container is gone.
Restart(d) == phase[d] \in Alive /\ container[d] = "none" /\ To(d, "pending")

\* So does a deletion, and it is final.
Delete(d) == phase[d] \in Alive /\ container[d] = "none" /\ To(d, "deleted")

\* Nothing is promised about the deployments D from here on.
Disturb(D) ==
    /\ phase' = [d \in Deployments |-> IF d \in D THEN "disturbed" ELSE phase[d]]
    /\ container' = [d \in Deployments |-> IF d \in D THEN "none" ELSE container[d]]

Init ==
    /\ phase = [d \in Deployments |-> "unborn"]
    /\ container = [d \in Deployments |-> "none"]

Next ==
    \/ \E d \in Deployments : Create(d) \/ Run(d) \/ Succeed(d) \/ Fail(d)
                              \/ Remove(d) \/ Restart(d) \/ Delete(d)
    \/ \E D \in SUBSET Deployments : Disturb(D)

Spec == Init /\ [][Next]_vars

=============================================================================
