------------------------------- MODULE Operator -------------------------------
(***************************************************************************)
(* The operator as cmd/main.go starts it: one process, one cache, and a    *)
(* worker for each of the two controllers.  A PostgresCluster that refers  *)
(* to an admin secret, and a PostgresDatabase that refers to the cluster.  *)
(*                                                                         *)
(* The controllers share no memory.  The database controller reads, from   *)
(* the cache, what the cluster controller has written to the API server,   *)
(* and the same admin secret; it is told of changes of neither.  What      *)
(* DatabaseController leaves to chance is given by ClusterController here. *)
(* Deletions are left to the modules of the controllers.                   *)
(***************************************************************************)
EXTENDS Naturals, Sequences

CONSTANTS
    Hosts, NoHost,
    Passwords, NoPassword,
    Policies,
    AdminSecrets,
    InitialServers,
    Disruptions,
    MaxUid, MaxLag, MaxDisruptions

VARIABLES
    clusters, adminSecret, up, clusterQueued, clusterRetry, clusterPc, clusterCopy,
    clusterFresh, clusterTarget, clusterPassword, clusterUids,
    databases, secrets, retired, server, databaseQueued, databasePc, databaseCopy,
    databaseFresh, pw, existed, databaseTarget, databaseUids,
    budget      \* disruptions left to both

clusterVars ==
    <<clusters, adminSecret, up, clusterQueued, clusterRetry, clusterPc, clusterCopy,
      clusterFresh, clusterTarget, clusterPassword, clusterUids>>

databaseVars ==
    <<databases, secrets, retired, server, databaseQueued, databasePc, databaseCopy,
      databaseFresh, pw, existed, databaseTarget, databaseUids>>

vars == <<clusterVars, databaseVars, budget>>

C == INSTANCE ClusterController
    WITH resource <- clusters, queued <- clusterQueued, retry <- clusterRetry,
         pc <- clusterPc, copy <- clusterCopy, fresh <- clusterFresh,
         target <- clusterTarget, password <- clusterPassword, uids <- clusterUids,
         Specs <- {"reference"}, MaxGeneration <- 1,
         Disruptions <- Disruptions \cap {"apiError", "apiLost", "crash", "secret", "server"}

\* isClusterReady, of the cluster the cache holds
ClusterSeen ==
    IF C!Cached.uid = 0 THEN "absent"
    ELSE IF C!Cached.status.conds["Ready"] = "True" THEN "ready"
    ELSE "notReady"

HostResolved == C!Resolved("reference", "host")
PasswordResolved == C!Resolved("reference", "password")

\* getClusterConnection, of the admin secret the cache holds
ConfigSeen ==
    LET found == {HostResolved, PasswordResolved}
    IN  IF "missing" \in found THEN "secretMissing"
        ELSE IF "invalid" \in found THEN "invalid"
        ELSE IF "empty" \in found THEN "empty"
        ELSE "ok"

HostSeen == IF HostResolved \in Hosts THEN HostResolved ELSE CHOOSE h \in Hosts : TRUE

D == INSTANCE DatabaseController
    WITH resource <- databases, queued <- databaseQueued, pc <- databasePc,
         copy <- databaseCopy, fresh <- databaseFresh, target <- databaseTarget,
         uids <- databaseUids,
         cluster <- ClusterSeen, config <- ConfigSeen, host <- HostSeen,
         Clusters <- {"absent", "notReady", "ready"},
         Configs <- {"empty", "invalid", "ok", "secretMissing"},
         Disruptions <- Disruptions \cap {"apiError", "apiLost", "sqlError", "crash"}

\* What each controller assumes holds here too; and a secret that names a
\* server has the password of its administrator.
ASSUME OperatorAssumption ==
    /\ C!ClusterAssumption /\ D!ConstantsAssumption
    /\ Hosts # {}
    /\ Disruptions \subseteq {"apiError", "apiLost", "sqlError", "crash", "secret", "server"}
    /\ \A s \in AdminSecrets : s.there => s.host = s.password

-----------------------------------------------------------------------------
(* The cluster controller and what happens around it.                      *)

Connected == {"connect", "createUser", "alterUser", "createDatabase", "alterOwner",
              "grant", "repair"}

ReconcileCluster == C!Reconcile /\ UNCHANGED databaseVars
RetryClusterDue == C!RetryDue /\ UNCHANGED databaseVars
DeliverCluster == C!Deliver /\ UNCHANGED databaseVars

\* The informer resyncs every ten hours: long after a controller that can come
\* to rest has done so.
ResyncCluster == C!Quiet /\ C!Resync /\ UNCHANGED databaseVars

CreateCluster == C!CreateCluster /\ UNCHANGED databaseVars

\* The admin secret changes, a server fails or recovers.
World == (C!ChangeSecret \/ C!ChangeServer) /\ UNCHANGED databaseVars

-----------------------------------------------------------------------------
(* The database controller.                                                *)

\* Steps that need no server, and those whose server answers.
Answered == databasePc \in Connected => databaseTarget \in up

\* The server is gone; or it refuses a password that was read, after the
\* host, from the next version of the secret.
Refused ==
    \/ databaseTarget \notin up
    \/ databasePc = "connect" /\ PasswordResolved \in Hosts \ {databaseTarget}

\* A failure of ALTER is only logged, the other errors are reported.
Unreachable ==
    /\ databasePc \in Connected
    /\ Refused
    /\ CASE databasePc = "alterUser"  -> D!Proceed("createDatabase")
         [] databasePc = "alterOwner" -> D!Proceed("grant")
         [] databasePc = "connect"    -> D!Fail({"ConnectionReady"})
         [] databasePc = "repair"     -> D!Fail({"DatabaseReady", "Ready"})
         [] OTHER                     -> D!Fail({"DatabaseReady"})
    /\ UNCHANGED <<databases, secrets, retired, server, databaseUids, budget>>

ReconcileDatabase ==
    /\ UNCHANGED clusterVars
    /\ \/ Answered /\ D!Reconcile
       \/ Unreachable

DeliverDatabase == UNCHANGED clusterVars /\ D!DeliverResource
DeliverSecret == UNCHANGED clusterVars /\ D!DeliverSecret

CreateDatabase == UNCHANGED clusterVars /\ D!CreateResource

ResyncDatabase ==
    /\ D!Quiet /\ D!Cached.uid # 0
    /\ databaseQueued' = TRUE
    /\ UNCHANGED <<clusterVars, databases, secrets, retired, server, databasePc, databaseCopy,
                   databaseFresh, pw, existed, databaseTarget, databaseUids, budget>>

\* Both controllers live and die with the process.
Restart == C!Restart /\ D!RestartWorker

-----------------------------------------------------------------------------

Init == C!Init /\ D!Init

Next ==
    \/ ReconcileCluster \/ RetryClusterDue \/ DeliverCluster \/ ResyncCluster
    \/ CreateCluster \/ World
    \/ ReconcileDatabase \/ DeliverDatabase \/ DeliverSecret \/ ResyncDatabase
    \/ CreateDatabase
    \/ Restart

\* Each controller has a worker of its own; informers deliver and delays pass.
Fairness ==
    /\ WF_vars(ReconcileCluster) /\ WF_vars(RetryClusterDue) /\ WF_vars(DeliverCluster)
    /\ WF_vars(ReconcileDatabase) /\ WF_vars(DeliverDatabase) /\ WF_vars(DeliverSecret)

Spec == Init /\ [][Next]_vars /\ Fairness

-----------------------------------------------------------------------------
(* Properties.                                                             *)

\* Type invariant: what each controller does keeps the other within its types.
TypeOK == C!TypeOK /\ D!TypeOK

\* Neither controller comes to rest with its work undone, although the one's
\* depends on what the other writes and is told of none of it: a database
\* that waits for its cluster is never forgotten (RequeueAfter and Requeue in
\* both Reconciles stand in for the watches that SetupWithManager leaves out).
RestIsDone == C!RestIsReady /\ D!RestIsServed

\* Nothing on the servers is somebody else's at first.
FreshServers ==
    \A s \in InitialServers, h \in Hosts : s[h].role = NoPassword /\ s[h].owner # "other"

\* What makes RestIsDone inductive, with the invariants of the controllers: an
\* ALTER whose failure is swallowed would have changed nothing, where the
\* servers were fresh; or there is none, where no server fails during a run.
Reached == databasePc \in D!Provisioning \ {"connect"} => databaseTarget \in up

ControllersInv == C!RestInv /\ D!GuardInv /\ D!PasswordInv /\ D!ProvisionedInv

RestInv ==
    /\ ControllersInv /\ D!ServeInv
    /\ FreshServers => D!FreshInv
    /\ "server" \notin Disruptions => Reached

Right(h) == HostResolved = h /\ PasswordResolved = h /\ h \in up

Both == C!Stored.uid # 0 /\ D!LiveResource

\* Liveness, from end to end: once the admin secret is right and its server is
\* up, the cluster becomes Ready and the database is served, for good and
\* without a resync: the two controllers never wait for each other for ever.
ServedThroughCluster ==
    \A h \in Hosts : <>[](Both /\ Right(h)) => <>[](C!Ready /\ D!Served)

\* Liveness, if the informers resync: when the admin secret has moved to
\* another server, both resources end up there; the database's status does not
\* stay with a server that the cluster has left.
MoveTogether ==
    WF_vars(ResyncCluster) /\ WF_vars(ResyncDatabase) =>
        \A h \in Hosts :
            <>[](Both /\ Right(h))
                => <>[](C!Stored.status.host = h /\ D!Stored.status.host = h /\ D!Served)

=============================================================================
