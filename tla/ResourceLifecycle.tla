------------------------- MODULE ResourceLifecycle -------------------------
(***************************************************************************)
(* What the finalizer of a PostgresDatabase promises.  A resource is       *)
(* "plain" until the operator has put its finalizer on it, "guarded" from  *)
(* then on, and "terminating" once the user deleted a guarded resource.    *)
(* PostgreSQL is touched on behalf of guarded and terminating resources    *)
(* only, the finalizer comes off terminating resources only, and every     *)
(* terminating resource is let go in the end.                              *)
(***************************************************************************)
CONSTANTS
    ServerStates,     \* what the PostgreSQL servers may hold
    InitialServers    \* what they may hold before the operator runs

VARIABLES
    stage,            \* "absent", "plain", "guarded" or "terminating"
    served            \* what the PostgreSQL servers hold

vars == <<stage, served>>

Init == stage = "absent" /\ served \in InitialServers

\* A user creates the resource.
Create == /\ stage = "absent"
          /\ stage' = "plain"
          /\ UNCHANGED served

\* The operator adds its finalizer.
Guard == /\ stage = "plain"
         /\ stage' = "guarded"
         /\ UNCHANGED served

\* A user deletes the resource: Kubernetes removes it at once unless it
\* carries a finalizer.
Delete == /\ \/ stage = "plain" /\ stage' = "absent"
             \/ stage = "guarded" /\ stage' = "terminating"
          /\ UNCHANGED served

\* The operator changes roles, databases, privileges or owners.
Provision == /\ stage \in {"guarded", "terminating"}
             /\ served' \in ServerStates
             /\ UNCHANGED stage

\* The operator removes its finalizer, and Kubernetes the resource.
Release == /\ stage = "terminating"
           /\ stage' = "absent"
           /\ UNCHANGED served

Next == Create \/ Guard \/ Delete \/ Provision \/ Release

Safety == Init /\ [][Next]_vars
Fairness == WF_vars(Release)
Spec == Safety /\ Fairness

=============================================================================
