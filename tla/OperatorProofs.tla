--------------------------- MODULE OperatorProofs ---------------------------
(***************************************************************************)
(* The operator's two controllers together, for every value of the         *)
(* constants: each keeps what was proved of it alone, although the other   *)
(* moves what it reads, and both come to rest with their work done.        *)
(***************************************************************************)
EXTENDS Operator, TLAPS

\* The controllers once more, with what has been proved about them.
CP == INSTANCE ClusterControllerProofs
    WITH resource <- clusters, queued <- clusterQueued, retry <- clusterRetry,
         pc <- clusterPc, copy <- clusterCopy, fresh <- clusterFresh,
         target <- clusterTarget, password <- clusterPassword, uids <- clusterUids,
         Specs <- {"reference"}, MaxGeneration <- 1,
         Disruptions <- Disruptions \cap {"apiError", "apiLost", "crash", "secret", "server"}

DP == INSTANCE ServingProofs
    WITH resource <- databases, queued <- databaseQueued, pc <- databasePc,
         copy <- databaseCopy, fresh <- databaseFresh, target <- databaseTarget,
         uids <- databaseUids,
         cluster <- ClusterSeen, config <- ConfigSeen, host <- HostSeen,
         Clusters <- {"absent", "notReady", "ready"},
         Configs <- {"empty", "invalid", "ok", "secretMissing"},
         Disruptions <- Disruptions \cap {"apiError", "apiLost", "sqlError", "crash"}

-----------------------------------------------------------------------------
(* The same definitions, instantiated twice.                               *)

\* The steps of the cluster controller.
LEMMA SameClusterSteps ==
    /\ C!Init <=> CP!Init
    /\ C!Reconcile <=> CP!Reconcile
    /\ C!RetryDue <=> CP!RetryDue
    /\ C!Deliver <=> CP!Deliver
    /\ C!Resync <=> CP!Resync
    /\ C!CreateCluster <=> CP!CreateCluster
    /\ C!ChangeSecret <=> CP!ChangeSecret
    /\ C!ChangeServer <=> CP!ChangeServer
    /\ C!Restart <=> CP!Restart
BY DEF C!worker, CP!worker, C!CondTypes, CP!CondTypes, C!NoStatus, CP!NoStatus, C!Absent,
       CP!Absent, C!Created, CP!Created, C!Cached, CP!Cached, C!Stored, CP!Stored, C!SetCondition,
       CP!SetCondition, C!PhaseOf, CP!PhaseOf, C!WithPhase, CP!WithPhase, C!AdminConnection,
       CP!AdminConnection, C!Summarised, CP!Summarised, C!Disrupt, CP!Disrupt, C!UpdateOutcomes,
       CP!UpdateOutcomes, C!Spend, CP!Spend, C!StoreStatus, CP!StoreStatus, C!Return, CP!Return,
       C!ReturnError, CP!ReturnError, C!Start, CP!Start, C!Resolved, CP!Resolved, C!Unresolved,
       CP!Unresolved, C!Value, CP!Value, C!ResolveHost, CP!ResolveHost, C!Complete, CP!Complete,
       C!ResolvePassword, CP!ResolvePassword, C!Report, CP!Report, C!Accepts, CP!Accepts,
       C!TestConnection, CP!TestConnection, C!UpdateFailed, CP!UpdateFailed, C!RequeueAfter,
       CP!RequeueAfter, C!UpdateStatus, CP!UpdateStatus, C!RetryDue, CP!RetryDue, C!StoreVersion,
       CP!StoreVersion, C!CreateCluster, CP!CreateCluster, C!Deliver, CP!Deliver, C!Resync,
       CP!Resync, C!ChangeSecret, CP!ChangeSecret, C!ChangeServer, CP!ChangeServer, C!Restart,
       CP!Restart, C!Init, CP!Init, C!Reconcile, CP!Reconcile

\* What is said of the cluster controller.
LEMMA SameClusterInvariants ==
    /\ C!TypeOK <=> CP!TypeOK
    /\ C!TypeOK' <=> CP!TypeOK'
    /\ C!RestInv <=> CP!RestInv
    /\ C!RestInv' <=> CP!RestInv'
BY DEF C!CondTypes, CP!CondTypes, C!Statuses, CP!Statuses, C!Versions, CP!Versions, C!Stored,
       CP!Stored, C!StreamOK, CP!StreamOK, C!WorkerOK, CP!WorkerOK, C!WorldOK, CP!WorldOK,
       C!TypeOK, CP!TypeOK, C!Quiet, CP!Quiet, C!SpeaksOfSpec, CP!SpeaksOfSpec,
       C!ReadySpeaksOfSpec, CP!ReadySpeaksOfSpec, C!Settled, CP!Settled, C!RestIsReady,
       CP!RestIsReady, C!RunInv, CP!RunInv, C!ObservedInv, CP!ObservedInv, C!RestInv, CP!RestInv

\* The steps of the database controller.
LEMMA SameDatabaseSteps ==
    /\ D!Init <=> DP!Init
    /\ D!Reconcile <=> DP!Reconcile
    /\ D!DeliverResource <=> DP!DeliverResource
    /\ D!DeliverSecret <=> DP!DeliverSecret
    /\ D!CreateResource <=> DP!CreateResource
    /\ D!RestartWorker <=> DP!RestartWorker
    /\ \A label : D!Proceed(label) <=> DP!Proceed(label)
    /\ \A types : D!Fail(types) <=> DP!Fail(types)
BY DEF D!worker, DP!worker, D!dependencies, DP!dependencies, D!CondTypes, DP!CondTypes,
       D!NoStatus, DP!NoStatus, D!Absent, DP!Absent, D!Created, DP!Created, D!NoSecret,
       DP!NoSecret, D!Cached, DP!Cached, D!Stored, DP!Stored, D!CachedSecret, DP!CachedSecret,
       D!StoredSecret, DP!StoredSecret, D!SetConditions, DP!SetConditions, D!PhaseOf, DP!PhaseOf,
       D!WithPhase, DP!WithPhase, D!Summarised, DP!Summarised, D!Disrupt, DP!Disrupt, D!Outcomes,
       DP!Outcomes, D!Spend, DP!Spend, D!UpdateOutcomes, DP!UpdateOutcomes, D!TookEffect,
       DP!TookEffect, D!Store, DP!Store, D!StoreIf, DP!StoreIf, D!StoreSecret, DP!StoreSecret,
       D!MustRetry, DP!MustRetry, D!Requeue, DP!Requeue, D!Return, DP!Return, D!Continue,
       DP!Continue, D!Fail, DP!Fail, D!Succeed, DP!Succeed, D!Proceed, DP!Proceed, D!ToDelete,
       DP!ToDelete, D!NothingToDo, DP!NothingToDo, D!Dequeue, DP!Dequeue, D!Start, DP!Start,
       D!SkipReconcile, DP!SkipReconcile, D!StartDeletion, DP!StartDeletion, D!StartProvisioning,
       DP!StartProvisioning, D!Report, DP!Report, D!FetchAndValidateCluster,
       DP!FetchAndValidateCluster, D!ResolveClusterConnection, DP!ResolveClusterConnection,
       D!NeedsFinalizer, DP!NeedsFinalizer, D!Decoded, DP!Decoded, D!EnsureFinalizer,
       DP!EnsureFinalizer, D!ConnectToDatabase, DP!ConnectToDatabase, D!FreshPasswords,
       DP!FreshPasswords, D!CreateOutcomes, DP!CreateOutcomes, D!SecretCreated, DP!SecretCreated,
       D!EnsureConnectionSecret, DP!EnsureConnectionSecret, D!NonCritical, DP!NonCritical,
       D!Execute, DP!Execute, D!CreateUser, DP!CreateUser, D!FindUser, DP!FindUser, D!AlterUser,
       DP!AlterUser, D!CreateDatabase, DP!CreateDatabase, D!NextAfterFoundDatabase,
       DP!NextAfterFoundDatabase, D!FindDatabase, DP!FindDatabase, D!AlterDatabaseOwner,
       DP!AlterDatabaseOwner, D!GrantPrivileges, DP!GrantPrivileges, D!TransferObjectOwnership,
       DP!TransferObjectOwnership, D!UpdateStatus, DP!UpdateStatus, D!Lookup, DP!Lookup,
       D!ReportDeletion, DP!ReportDeletion, D!RejectedInTransaction, DP!RejectedInTransaction,
       D!AfterTransaction, DP!AfterTransaction, D!DropDatabaseAndUser, DP!DropDatabaseAndUser,
       D!Refetch, DP!Refetch, D!Unguarded, DP!Unguarded, D!RemoveFinalizer, DP!RemoveFinalizer,
       D!CreateResource, DP!CreateResource, D!DeliverResource, DP!DeliverResource,
       D!DeliverSecret, DP!DeliverSecret, D!RestartWorker, DP!RestartWorker, D!Init, DP!Init,
       D!Provision, DP!Provision, D!HandleDeletion, DP!HandleDeletion, D!Reconcile, DP!Reconcile

\* What is said of the database controller.
LEMMA SameDatabaseInvariants ==
    /\ D!TypeOK <=> DP!TypeOK
    /\ D!TypeOK' <=> DP!TypeOK'
    /\ D!GuardInv <=> DP!GuardInv
    /\ D!GuardInv' <=> DP!GuardInv'
    /\ D!PasswordInv <=> DP!PasswordInv
    /\ D!PasswordInv' <=> DP!PasswordInv'
    /\ D!ProvisionedInv <=> DP!ProvisionedInv
    /\ D!ProvisionedInv' <=> DP!ProvisionedInv'
    /\ D!ServeInv <=> DP!ServeInv
    /\ D!ServeInv' <=> DP!ServeInv'
    /\ D!FreshInv <=> DP!FreshInv
    /\ D!FreshInv' <=> DP!FreshInv'
BY DEF D!ServerStates, DP!ServerStates, D!CondTypes, DP!CondTypes, D!Statuses, DP!Statuses,
       D!Versions, DP!Versions, D!Secrets, DP!Secrets, D!NoSecret, DP!NoSecret, D!Stored,
       DP!Stored, D!StoredSecret, DP!StoredSecret, D!Garbage, DP!Garbage, D!Provisioning,
       DP!Provisioning, D!Unguarding, DP!Unguarding, D!Labels, DP!Labels, D!StreamsOK,
       DP!StreamsOK, D!WorkerOK, DP!WorkerOK, D!WorldOK, DP!WorldOK, D!TypeOK, DP!TypeOK,
       D!GuardedWhileProvisioning, DP!GuardedWhileProvisioning, D!Guarded, DP!Guarded,
       D!LiveResource, DP!LiveResource, D!Provisioned, DP!Provisioned, D!ReadyIsProvisioned,
       DP!ReadyIsProvisioned, D!Served, DP!Served, D!Settled, DP!Settled, D!Quiet, DP!Quiet,
       D!RestIsServed, DP!RestIsServed, D!RestIsReleased, DP!RestIsReleased, D!HistoryInv,
       DP!HistoryInv, D!Validating, DP!Validating, D!RunInv, DP!RunInv, D!GuardInv, DP!GuardInv,
       D!SettingPassword, DP!SettingPassword, D!PasswordInv, DP!PasswordInv, D!ReadyTold,
       DP!ReadyTold, D!VersionsTold, DP!VersionsTold, D!StatementsDone, DP!StatementsDone,
       D!ProvisionedInv, DP!ProvisionedInv, D!SecretsTold, DP!SecretsTold, D!NoLiveRelease,
       DP!NoLiveRelease, D!ConditionsDone, DP!ConditionsDone, D!SecretDone, DP!SecretDone,
       D!RoleSet, DP!RoleSet, D!RoleDone, DP!RoleDone, D!ServeInv, DP!ServeInv, D!FreshInv,
       DP!FreshInv

-----------------------------------------------------------------------------
(* What the controllers assume of their constants and dependencies.        *)

\* The constants are what the cluster controller asks for.
LEMMA ClusterFits == CP!ClusterAssumption
BY OperatorAssumption
DEF OperatorAssumption, C!ClusterAssumption, CP!ClusterAssumption, C!AdminSecretStates,
    CP!AdminSecretStates, C!Fields, CP!Fields

\* They are what the database controller asks for.
LEMMA DatabaseFits == DP!ConstantsAssumption
BY OperatorAssumption
DEF OperatorAssumption, D!ConstantsAssumption, DP!ConstantsAssumption, D!ServerStates,
    DP!ServerStates

\* So is what it reads of the cluster and of the admin secret.
LEMMA SeenFits ==
    /\ ClusterSeen \in {"absent", "notReady", "ready"}
    /\ ConfigSeen \in {"empty", "invalid", "ok", "secretMissing"}
    /\ HostSeen \in Hosts
BY OperatorAssumption DEF OperatorAssumption, ClusterSeen, ConfigSeen, HostSeen

\* And remains so.
LEMMA SeenFitsNext ==
    /\ ClusterSeen' \in {"absent", "notReady", "ready"}
    /\ ConfigSeen' \in {"empty", "invalid", "ok", "secretMissing"}
    /\ HostSeen' \in Hosts
BY OperatorAssumption DEF OperatorAssumption, ClusterSeen, ConfigSeen, HostSeen

-----------------------------------------------------------------------------
(* Each controller under its own steps and under the other's.              *)

\* What each controller keeps alone.
ClusterInv == CP!TypeOK /\ CP!RestInv

DatabaseInv == DP!TypeOK /\ DP!Kept

\* A step of the cluster controller, or of what is around it.
LEMMA ClusterMoves ==
    ASSUME ClusterInv, CP!Reconcile \/ CP!RetryDue \/ CP!User \/ CP!Environment
    PROVE  ClusterInv'
BY ClusterFits, CP!TypeReconcile, CP!TypeOthers, CP!RestReconcile, CP!RestOthers DEF ClusterInv

\* A step of the database controller only takes from the common budget.
LEMMA ClusterStays ==
    ASSUME ClusterInv, UNCHANGED clusterVars, budget' \in 0..MaxDisruptions
    PROVE  ClusterInv'
BY DEF ClusterInv, clusterVars, CP!CondTypes, CP!Statuses, CP!Versions, CP!Stored, CP!StreamOK,
       CP!WorkerOK, CP!WorldOK, CP!TypeOK, CP!Quiet, CP!SpeaksOfSpec, CP!ReadySpeaksOfSpec,
       CP!Settled, CP!RestIsReady, CP!RunInv, CP!ObservedInv, CP!RestInv

\* A step of the database controller.
LEMMA DatabaseMoves ==
    ASSUME DatabaseInv, DP!Next
    PROVE  /\ DatabaseInv'
           /\ DP!ServeInv => DP!ServeInv'
<1>1. DP!TypeOK'
  BY DatabaseFits, DP!TypeReconcile, DP!TypeOthers DEF DatabaseInv, DP!Next
<1>2. DP!Kept'
  BY DatabaseFits, DP!GuardStep, DP!PasswordStep, DP!ProvisionedStep DEF DatabaseInv, DP!Kept
<1>3. DP!ServeInv => DP!ServeInv'
  <2>1. "alterError" \notin Disruptions \cap {"apiError", "apiLost", "sqlError", "crash"}
    OBVIOUS
  <2> QED
    BY <2>1, DatabaseFits, DP!ServeStep DEF DatabaseInv, DP!Kept
<1> QED
  BY <1>1, <1>2, <1>3 DEF DatabaseInv

\* What leaves the streams and the worker within their types, and the servers
\* and the incarnations alone, leaves everything within its type.
LEMMA DatabaseTypes ==
    ASSUME DP!TypeOK, DP!StreamsOK', DP!WorkerOK', UNCHANGED <<server, databaseUids>>,
           budget' \in 0..MaxDisruptions
    PROVE  DP!TypeOK'
BY SeenFitsNext DEF DP!TypeOK, DP!WorldOK

\* A step of the cluster controller, or one that queues the key.
LEMMA DatabaseStays ==
    ASSUME DatabaseInv,
           UNCHANGED <<databases, secrets, retired, server, databasePc, databaseCopy,
                       databaseFresh, pw, existed, databaseTarget, databaseUids>>,
           databaseQueued => databaseQueued', databaseQueued' \in BOOLEAN,
           budget' \in 0..MaxDisruptions
    PROVE  /\ DatabaseInv'
           /\ DP!ServeInv => DP!ServeInv'
           /\ DP!FreshInv => DP!FreshInv'
<1>1. UNCHANGED <<databases, secrets, retired, server, DP!worker>>
  BY DEF DP!worker
<1>2. (DP!Kept => DP!Kept') /\ (DP!ServeInv => DP!ServeInv')
  BY <1>1, DatabaseFits, DP!WorldMoves
<1>3. DP!StreamsOK' /\ DP!WorkerOK'
  BY DEF DatabaseInv, DP!TypeOK, DP!StreamsOK, DP!WorkerOK
<1>4. DP!FreshInv => DP!FreshInv'
  BY DatabaseFits, DP!StaysFresh DEF DP!StoredSecret
<1> QED
  BY <1>2, <1>3, <1>4, DatabaseTypes DEF DatabaseInv

-----------------------------------------------------------------------------
(* A server that does not answer.                                          *)

\* A run is reported as failed, or goes on from a failed ALTER.
LEMMA UnreachableLeads ==
    ASSUME Unreachable
    PROVE  \/ databasePc \in DP!Provisioning /\ \E types : DP!Fail(types)
           \/ /\ \/ databasePc = "alterUser" /\ DP!Proceed("createDatabase")
                 \/ databasePc = "alterOwner" /\ DP!Proceed("grant")
              /\ databaseTarget \notin up
BY SameDatabaseSteps DEF Unreachable, Refused, Connected, DP!Provisioning

\* The controller keeps what it keeps when its servers answer.
LEMMA UnreachableKeeps ==
    ASSUME DatabaseInv, Unreachable
    PROVE  DatabaseInv'
<1>1. UNCHANGED <<databases, secrets, retired, server, databaseUids, budget>>
  BY DEF Unreachable
<1>2. DP!StreamsOK' /\ DP!WorkerOK' /\ DP!Kept'
  BY <1>1, DatabaseFits, UnreachableLeads, DP!RunFails, DP!AlterSwallowed DEF DatabaseInv
<1>3. budget' \in 0..MaxDisruptions
  BY <1>1 DEF DatabaseInv, DP!TypeOK, DP!WorldOK
<1> QED
  BY <1>1, <1>2, <1>3, DatabaseTypes DEF DatabaseInv

-----------------------------------------------------------------------------
(* The operator's steps.                                                   *)

ClusterStep ==
    /\ CP!Reconcile \/ CP!RetryDue \/ CP!User \/ CP!Environment
    /\ UNCHANGED databaseVars

DatabaseStep ==
    /\ \/ DP!Reconcile /\ Answered
       \/ DP!CreateResource \/ DP!DeliverResource \/ DP!DeliverSecret
    /\ UNCHANGED clusterVars

\* A step is one of either controller, a failed one, a resync, or the restart
\* of both.
LEMMA StepsOf ==
    ASSUME Next
    PROVE  \/ ClusterStep
           \/ DatabaseStep
           \/ Unreachable /\ UNCHANGED clusterVars
           \/ ResyncDatabase
           \/ CP!Restart /\ DP!RestartWorker
BY SameClusterSteps, SameDatabaseSteps
DEF Next, ReconcileCluster, RetryClusterDue, DeliverCluster, ResyncCluster, CreateCluster, World,
    ReconcileDatabase, DeliverDatabase, DeliverSecret, ResyncDatabase, CreateDatabase, Restart,
    ClusterStep, DatabaseStep, CP!User, CP!Environment

\* Both keep the budget within its bounds.
LEMMA BudgetType ==
    /\ ClusterInv => budget \in 0..MaxDisruptions
    /\ ClusterInv' => budget' \in 0..MaxDisruptions
    /\ DatabaseInv' => budget' \in 0..MaxDisruptions
BY DEF ClusterInv, DatabaseInv, CP!TypeOK, CP!WorldOK, DP!TypeOK, DP!WorldOK

\* A step of the cluster controller leaves the other's part alone.
LEMMA ClusterStepKeeps ==
    ASSUME ClusterInv, DatabaseInv, ClusterStep
    PROVE  /\ ClusterInv' /\ DatabaseInv'
           /\ DP!ServeInv => DP!ServeInv'
           /\ DP!FreshInv => DP!FreshInv'
<1>1. ClusterInv' /\ budget' \in 0..MaxDisruptions
  BY ClusterMoves, BudgetType DEF ClusterStep
<1>2. databaseQueued \in BOOLEAN
  BY DEF DatabaseInv, DP!TypeOK, DP!WorkerOK
<1> QED
  BY <1>1, <1>2, DatabaseStays DEF ClusterStep, databaseVars

\* So does a step of the database controller.
LEMMA DatabaseStepKeeps ==
    ASSUME ClusterInv, DatabaseInv, DatabaseStep
    PROVE  /\ ClusterInv' /\ DatabaseInv'
           /\ DP!ServeInv => DP!ServeInv'
           /\ DP!FreshInv => DP!FreshInv'
<1>1. /\ DP!Next /\ UNCHANGED clusterVars
      /\ DP!Reconcile \/ DP!CreateResource \/ DP!DeliverResource \/ DP!DeliverSecret
  BY DEF DatabaseStep, DP!Next, DP!User, DP!Environment
<1>2. DatabaseInv' /\ (DP!ServeInv => DP!ServeInv')
  BY <1>1, DatabaseMoves
<1>3. ClusterInv'
  BY <1>1, <1>2, ClusterStays, BudgetType
<1>4. DP!FreshInv => DP!FreshInv'
  BY <1>1, DatabaseFits, DP!FreshStep DEF DatabaseInv, DP!Kept
<1> QED
  BY <1>2, <1>3, <1>4

\* The resync of the database controller's informer.
LEMMA ResyncKeeps ==
    ASSUME ClusterInv, DatabaseInv, ResyncDatabase
    PROVE  /\ ClusterInv' /\ DatabaseInv'
           /\ DP!ServeInv => DP!ServeInv'
           /\ DP!FreshInv => DP!FreshInv'
<1>1. budget' \in 0..MaxDisruptions
  BY BudgetType DEF ResyncDatabase
<1>2. ClusterInv'
  BY <1>1, ClusterStays DEF ResyncDatabase
<1> QED
  BY <1>1, <1>2, DatabaseStays DEF ResyncDatabase

\* The process is restarted, and both controllers with it.
LEMMA RestartKeeps ==
    ASSUME ClusterInv, DatabaseInv, CP!Restart, DP!RestartWorker
    PROVE  /\ ClusterInv' /\ DatabaseInv'
           /\ DP!ServeInv => DP!ServeInv'
           /\ DP!FreshInv => DP!FreshInv'
<1>1. ClusterInv'
  BY ClusterMoves DEF CP!Environment
<1>2. /\ DP!StreamsOK' /\ DP!WorkerOK' /\ budget' \in 0..MaxDisruptions
      /\ DP!Kept' /\ (DP!ServeInv => DP!ServeInv') /\ (DP!FreshInv => DP!FreshInv')
  BY DatabaseFits, DP!WorkerRestarts DEF DatabaseInv
<1>3. DP!TypeOK'
  BY <1>2, DatabaseTypes DEF DatabaseInv, DP!RestartWorker
<1> QED
  BY <1>1, <1>2, <1>3 DEF DatabaseInv

\* Every step of the operator keeps what each controller keeps alone.
LEMMA ControllersStep == ClusterInv /\ DatabaseInv /\ [Next]_vars => ClusterInv' /\ DatabaseInv'
<1>1. ASSUME ClusterInv, DatabaseInv, UNCHANGED vars PROVE ClusterInv' /\ DatabaseInv'
  <2>1. budget' \in 0..MaxDisruptions /\ databaseQueued \in BOOLEAN
    BY <1>1, BudgetType DEF vars, DatabaseInv, DP!TypeOK, DP!WorkerOK
  <2>2. ClusterInv'
    BY <1>1, <2>1, ClusterStays DEF vars
  <2> QED
    BY <1>1, <2>1, <2>2, DatabaseStays DEF vars, databaseVars
<1>2. ASSUME ClusterInv, DatabaseInv, Next PROVE ClusterInv' /\ DatabaseInv'
  <2>1. CASE Unreachable /\ UNCHANGED clusterVars
    BY <1>2, <2>1, UnreachableKeeps, ClusterStays, BudgetType
  <2> QED
    BY <1>2, <2>1, StepsOf, ClusterStepKeeps, DatabaseStepKeeps, ResyncKeeps, RestartKeeps
<1> QED
  BY <1>1, <1>2

-----------------------------------------------------------------------------
(* What each controller promises alone, it keeps in the operator.          *)

\* Both begin with nothing stored.
LEMMA ControllersInit == Init => ClusterInv /\ DatabaseInv /\ DP!ServeInv
<1>1. Init => CP!Init /\ DP!Init
  BY SameClusterSteps, SameDatabaseSteps DEF Init
<1>2. CP!Init => ClusterInv
  BY ClusterFits, CP!TypeInit, CP!RestInit DEF ClusterInv
<1>3. DP!Init => DatabaseInv /\ DP!ServeInv
  BY DatabaseFits, DP!TypeInit, DP!GuardInit, DP!PasswordInit, DP!ProvisionedInit, DP!ServeInit
  DEF DatabaseInv, DP!Kept
<1> QED
  BY <1>1, <1>2, <1>3

\* The inductive invariants of the controllers hold side by side.
THEOREM ControllersInvariant == Spec => [](ClusterInv /\ DatabaseInv)
BY ControllersInit, ControllersStep, PTL DEF Spec

\* Each controller keeps its variables, and the status it writes for others
\* to read, within their types, whatever the other makes of what it reads.
THEOREM TypeCorrect == Spec => []TypeOK
<1>1. ClusterInv /\ DatabaseInv => TypeOK
  BY SameClusterInvariants, SameDatabaseInvariants DEF ClusterInv, DatabaseInv, TypeOK
<1> QED
  BY <1>1, ControllersInvariant, PTL

\* Whatever servers do during a run, and even if a failed ALTER is swallowed:
\* the cluster controller rests over a Ready cluster only, whose condition
\* speaks of its spec; PostgreSQL is worked on for a resource that has its
\* finalizer only, and handleDeletion spares it; a database that is Ready has
\* been provisioned.
THEOREM ControllersKeepTheirPromises ==
    Spec => [](/\ C!RestIsReady /\ C!ReadySpeaksOfSpec
               /\ D!GuardedWhileProvisioning /\ D!DeletionSparesLive /\ D!ReadyIsProvisioned)
<1>1. ClusterInv /\ DatabaseInv => C!RestInv /\ D!TypeOK /\ D!GuardInv /\ D!ProvisionedInv
  BY SameClusterInvariants, SameDatabaseInvariants DEF ClusterInv, DatabaseInv, DP!Kept
<1>2. C!RestInv => C!RestIsReady /\ C!ReadySpeaksOfSpec
  BY DEF C!RestInv
<1>3. D!GuardInv => D!GuardedWhileProvisioning
  BY DEF D!GuardInv, D!RunInv
<1>4. D!TypeOK => D!Stored = databases[Len(databases)] /\ Len(databases) \in 1..Len(databases)
  BY DEF D!TypeOK, D!StreamsOK, D!Stored
<1>5. D!TypeOK /\ D!GuardInv => D!DeletionSparesLive
  BY <1>4 DEF D!GuardInv, D!RunInv, D!DeletionSparesLive
<1>6. D!TypeOK /\ D!ProvisionedInv => D!ReadyIsProvisioned
  BY <1>4 DEF D!ProvisionedInv, D!VersionsTold, D!ReadyTold, D!ReadyIsProvisioned
<1>7. ClusterInv /\ DatabaseInv =>
        /\ C!RestIsReady /\ C!ReadySpeaksOfSpec
        /\ D!GuardedWhileProvisioning /\ D!DeletionSparesLive /\ D!ReadyIsProvisioned
  BY <1>1, <1>2, <1>3, <1>5, <1>6
<1> QED
  BY <1>7, ControllersInvariant, PTL

-----------------------------------------------------------------------------
(* At rest.                                                                *)

\* What the database controller reads changes with the cluster's part only.
LEMMA SeenStays ==
    ASSUME UNCHANGED clusterVars
    PROVE  UNCHANGED DP!dependencies
BY DEF clusterVars, DP!dependencies, ClusterSeen, ConfigSeen, HostSeen, HostResolved,
       PasswordResolved, C!Cached, C!Resolved

\* A server that was up when a run connected to it is still there, where no
\* server fails during a run.
LEMMA ReachedStep ==
    ASSUME "server" \notin Disruptions, DatabaseInv, Reached, [Next]_vars
    PROVE  Reached'
<1>0. D!Provisioning = DP!Provisioning
  BY DEF D!Provisioning, DP!Provisioning
<1> DEFINE Working == DP!Provisioning \ {"connect"}
<1>1. up' = up
  BY SameClusterSteps
  DEF Next, ReconcileCluster, RetryClusterDue, DeliverCluster, ResyncCluster, CreateCluster, World,
      ReconcileDatabase, DeliverDatabase, DeliverSecret, ResyncDatabase, CreateDatabase, Restart,
      clusterVars, vars, C!Reconcile, C!Start, C!ResolveHost, C!ResolvePassword, C!Report,
      C!TestConnection, C!UpdateStatus, C!RetryDue, C!Deliver, C!Resync, C!CreateCluster,
      C!StoreVersion, C!ChangeSecret, C!ChangeServer, C!Disrupt, C!Restart
<1>2. ASSUME UNCHANGED <<databasePc, databaseTarget>> \/ databasePc' = "idle" PROVE Reached'
  BY <1>0, <1>1, <1>2 DEF Reached, DP!Provisioning
<1>3. CASE DatabaseStep
  <2>1. CASE DP!Reconcile /\ Answered
    <3> SUFFICES ASSUME databasePc' \in Working PROVE databaseTarget' \in up'
      BY <1>0 DEF Reached
    <3>1. databasePc \in DP!Provisioning /\ databaseTarget' = databaseTarget
      BY <2>1, DatabaseFits, DP!StaysOnServer
    <3>2. databaseTarget \in up
      BY <1>0, <2>1, <3>1 DEF Reached, Answered, Connected
    <3> QED
      BY <1>1, <3>1, <3>2
  <2>2. CASE DP!CreateResource \/ DP!DeliverResource \/ DP!DeliverSecret
    BY <1>2, <2>2 DEF DP!CreateResource, DP!DeliverResource, DP!DeliverSecret, DP!worker
  <2> QED
    BY <1>3, <2>1, <2>2 DEF DatabaseStep
<1>4. CASE Unreachable
  <2>1. CASE \E types : DP!Fail(types)
    BY <1>0, <2>1 DEF DP!Fail, DP!Continue, Reached, DP!Provisioning
  <2>2. CASE databasePc \in {"alterUser", "alterOwner"} /\ databaseTarget \notin up
    BY <1>0, <2>2 DEF Reached, DP!Provisioning
  <2> QED
    BY <1>4, <2>1, <2>2, UnreachableLeads
<1>5. CASE ClusterStep \/ ResyncDatabase \/ DP!RestartWorker \/ UNCHANGED vars
  BY <1>2, <1>5 DEF ClusterStep, databaseVars, ResyncDatabase, DP!RestartWorker, vars
<1> QED
  BY <1>3, <1>4, <1>5, StepsOf

\* A run that is refused leaves the invariant of what is served, if nothing
\* is swallowed or what is swallowed would have changed nothing.
LEMMA UnreachableServes ==
    ASSUME DatabaseInv, DP!ServeInv, Unreachable, UNCHANGED clusterVars,
           (FreshServers /\ DP!FreshInv) \/ ("server" \notin Disruptions /\ Reached)
    PROVE  DP!ServeInv'
<1>1. UNCHANGED <<databases, secrets, retired, server, databaseUids, budget, DP!dependencies>>
  BY SeenStays DEF Unreachable
<1>2. CASE databasePc \in DP!Provisioning /\ \E types : DP!Fail(types)
  BY <1>1, <1>2, DatabaseFits, DP!RunFails DEF DatabaseInv
<1>3. CASE /\ \/ databasePc = "alterUser" /\ DP!Proceed("createDatabase")
              \/ databasePc = "alterOwner" /\ DP!Proceed("grant")
           /\ databaseTarget \notin up
  <2>1. DP!FreshInv
    BY <1>3 DEF Reached, D!Provisioning
  <2>2. DP!AlterUser \/ DP!AlterDatabaseOwner
    BY <1>1, <1>3, <2>1, DatabaseFits, DP!SwallowedWithoutEffect DEF DatabaseInv, DP!Kept
  <2>3. DP!Next
    BY <2>2 DEF DP!Next, DP!Reconcile, DP!Provision
  <2> QED
    BY <2>3, DatabaseMoves
<1> QED
  BY <1>2, <1>3, UnreachableLeads

\* At first nothing is served, and the servers are what InitialServers says.
LEMMA RestInit == Init => RestInv
<1> SUFFICES ASSUME Init PROVE RestInv
  OBVIOUS
<1>1. ControllersInv /\ D!ServeInv
  BY ControllersInit, SameClusterInvariants, SameDatabaseInvariants
  DEF ClusterInv, DatabaseInv, DP!Kept, ControllersInv
<1>2. FreshServers => D!FreshInv
  BY DEF Init, D!Init, FreshServers, D!FreshInv
<1>3. Reached
  BY DEF Init, D!Init, Reached, D!Provisioning
<1> QED
  BY <1>1, <1>2, <1>3 DEF RestInv

\* Every step keeps what makes the controllers rest with their work done.
LEMMA RestStep ==
    ASSUME FreshServers \/ "server" \notin Disruptions
    PROVE  ClusterInv /\ DatabaseInv /\ RestInv /\ [Next]_vars => RestInv'
<1> SUFFICES ASSUME ClusterInv, DatabaseInv, RestInv, [Next]_vars PROVE RestInv'
  OBVIOUS
<1>1. DP!ServeInv /\ (FreshServers => DP!FreshInv) /\ ("server" \notin Disruptions => Reached)
  BY SameDatabaseInvariants DEF RestInv
<1>2. ControllersInv'
  BY ControllersStep, SameClusterInvariants, SameDatabaseInvariants
  DEF ClusterInv, DatabaseInv, DP!Kept, ControllersInv
<1>3. DP!ServeInv' /\ (DP!FreshInv => DP!FreshInv')
  <2>1. CASE Unreachable /\ UNCHANGED clusterVars
    <3>1. DP!ServeInv'
      BY <1>1, <2>1, UnreachableServes
    <3>2. DP!FreshInv => DP!FreshInv'
      BY <2>1, DatabaseFits, DP!StaysFresh DEF Unreachable, DP!StoredSecret
    <3> QED
      BY <3>1, <3>2
  <2>2. CASE UNCHANGED vars
    <3>1. budget' \in 0..MaxDisruptions /\ databaseQueued \in BOOLEAN
      BY <2>2, BudgetType DEF vars, DatabaseInv, DP!TypeOK, DP!WorkerOK
    <3> QED
      BY <1>1, <2>2, <3>1, DatabaseStays DEF vars, databaseVars
  <2> QED
    BY <1>1, <2>1, <2>2, StepsOf, ClusterStepKeeps, DatabaseStepKeeps, ResyncKeeps, RestartKeeps
<1>4. "server" \notin Disruptions => Reached'
  BY <1>1, ReachedStep
<1> QED
  BY <1>1, <1>2, <1>3, <1>4, SameDatabaseInvariants DEF RestInv, FreshServers

\* Neither controller comes to rest with its work undone, although the one's
\* depends on what the other writes and is told of none of it.  The servers
\* must have been empty of what is somebody else's, or not fail during a run:
\* otherwise an ALTER that is refused, which is only logged, leaves the role
\* its old password or the database its old owner.
THEOREM RestsDone ==
    ASSUME FreshServers \/ "server" \notin Disruptions
    PROVE  Spec => []RestIsDone
<1>1. Spec => []RestInv
  BY RestInit, RestStep, ControllersInvariant, PTL DEF Spec
<1>2. RestInv => RestIsDone
  BY DEF RestInv, ControllersInv, C!RestInv, D!ServeInv, RestIsDone
<1> QED
  BY <1>1, <1>2, PTL

-----------------------------------------------------------------------------
(* The password.                                                           *)

\* No secret is deleted here, so the role keeps the password an application
\* can read from the secret, whatever the cluster controller, the servers and
\* a restart do in between.
THEOREM KeepsWorkingPassword == Spec => D!WorkingPasswordKept
<1> DEFINE Keeps == \A h \in Hosts :
                        ~retired /\ D!StoredSecret # D!NoSecret /\ server[h].role = D!StoredSecret.pw
                            => server'[h].role = server[h].role
<1>1. ASSUME ClusterInv, DatabaseInv, [Next]_vars PROVE Keeps
  <2>1. CASE UNCHANGED server
    BY <2>1
  <2>2. CASE DatabaseStep
    <3>1. DP!Next
      BY <2>2 DEF DatabaseStep, DP!Next, DP!User, DP!Environment
    <3>2. DP!StoredSecret = D!StoredSecret /\ DP!NoSecret = D!NoSecret
      BY DEF DP!StoredSecret, D!StoredSecret, DP!NoSecret, D!NoSecret
    <3> SUFFICES ASSUME ~retired, D!StoredSecret # D!NoSecret,
                        NEW h \in Hosts, server[h].role = D!StoredSecret.pw
                 PROVE  server'[h].role = server[h].role
      OBVIOUS
    <3>3. DP!TypeOK /\ DP!PasswordInv
      BY <1>1 DEF DatabaseInv, DP!Kept
    <3> QED
      BY <3>1, <3>2, <3>3, DatabaseFits, DP!PasswordChange
  <2>3. CASE ClusterStep \/ Unreachable \/ ResyncDatabase \/ DP!RestartWorker \/ UNCHANGED vars
    BY <2>1, <2>3 DEF ClusterStep, databaseVars, Unreachable, ResyncDatabase, DP!RestartWorker, vars
  <2> QED
    BY <1>1, <2>2, <2>3, StepsOf
<1>2. ClusterInv /\ DatabaseInv /\ [Next]_vars => [Keeps]_(D!vars)
  BY <1>1
<1> QED
  BY <1>2, ControllersInvariant, PTL DEF Spec, D!WorkingPasswordKept

=============================================================================
