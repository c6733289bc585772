-------------------------- MODULE TargetOwnership --------------------------
(***************************************************************************)
(* What the back-reference annotation promises: it is a lock on a route or *)
(* a gateway, held by the policy it names. Only the policy at work takes   *)
(* it, on its own target and only when it is free; only the finalization   *)
(* of a policy with that target gives it back; and it goes with the        *)
(* object that carries it. It never passes from one policy to another.     *)
(*                                                                         *)
(* The RateLimitPolicy and the AuthPolicy controller implement this, each  *)
(* with an annotation of its own, whatever the age of the copies they read.*)
(***************************************************************************)
CONSTANTS
    Policies,  \* policy keys
    Targets,   \* the routes and gateways
    Aims,      \* what a targetRef may name
    NoPolicy,  \* no annotation, or nobody at work
    None       \* no target

VARIABLES
    there,  \* the targets that exist
    owner,  \* the policy each target's annotation names
    job     \* the policy at work, its target, and whether it is being deleted

vars == <<there, owner, job>>

NoJob == [policy |-> NoPolicy, target |-> None, deleting |-> FALSE]

Init ==
    /\ there \in [Targets -> BOOLEAN]
    /\ owner = [t \in Targets |-> NoPolicy]
    /\ job = NoJob

\* A worker takes up a policy, and is done with it or crashes.
Begin(p, t, d) ==
    /\ job = NoJob
    /\ job' = [policy |-> p, target |-> t, deleting |-> d]
    /\ UNCHANGED <<there, owner>>

End == job' = NoJob /\ UNCHANGED <<there, owner>>

Claim(t) ==
    /\ job # NoJob
    /\ job.target = t
    /\ ~job.deleting
    /\ there[t]
    /\ owner[t] = NoPolicy
    /\ owner' = [owner EXCEPT ![t] = job.policy]
    /\ UNCHANGED <<there, job>>

\* The one that gives the lock back need not be the one that holds it; its
\* job may end with that, when the answer of the call is lost.
Release(t) ==
    /\ job # NoJob
    /\ job.target = t
    /\ job.deleting
    /\ there[t]
    /\ owner' = [owner EXCEPT ![t] = NoPolicy]
    /\ job' \in {job, NoJob}
    /\ UNCHANGED there

\* Users create and delete the targets.
Appear(t) ==
    /\ ~there[t]
    /\ there' = [there EXCEPT ![t] = TRUE]
    /\ UNCHANGED <<owner, job>>

Vanish(t) ==
    /\ there[t]
    /\ there' = [there EXCEPT ![t] = FALSE]
    /\ owner' = [owner EXCEPT ![t] = NoPolicy]
    /\ UNCHANGED job

Next ==
    \/ \E p \in Policies, t \in Aims, d \in BOOLEAN : Begin(p, t, d)
    \/ End
    \/ \E t \in Targets : Claim(t) \/ Release(t) \/ Appear(t) \/ Vanish(t)

Spec == Init /\ [][Next]_vars
=============================================================================
