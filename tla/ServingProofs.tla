---------------------------- MODULE ServingProofs ----------------------------
(***************************************************************************)
(* DatabaseController comes to rest over a live resource only when it has  *)
(* served it, for every value of the constants without "alterError": an    *)
(* ALTER that fails is logged and forgotten.  The last two parts are about *)
(* a larger system, in which others move what the controller reads.        *)
(***************************************************************************)
EXTENDS ProvisioningProofs

-----------------------------------------------------------------------------
(* What is due.                                                            *)

Dequeueing == SkipReconcile \/ StartProvisioning \/ StartDeletion

\* Every step but that which takes the key from the queue leaves it there.
LEMMA StaysQueued ==
    ASSUME TypeOK, Next, ~Dequeueing, ~Restart, queued
    PROVE  queued'
<1>1. CASE User \/ Environment
  BY <1>1
  DEF User, Environment, CreateResource, DeleteResource, DeleteSecret, DeliverResource,
      DeliverSecret, CollectGarbage, ChangeCluster, ChangeConfig, ChangeHost, Resync
<1>2. CASE Report \/ HandleDeletion
  BY <1>2
  DEF Report, HandleDeletion, Lookup, ReportDeletion, DropDatabaseAndUser, Refetch,
      RemoveFinalizer, Return, Proceed, Continue
<1>3. CASE Provision
  BY <1>3
  DEF Provision, FetchAndValidateCluster, ResolveClusterConnection, EnsureFinalizer,
      ConnectToDatabase, EnsureConnectionSecret, CreateUser, FindUser, AlterUser, CreateDatabase,
      FindDatabase, AlterDatabaseOwner, GrantPrivileges, TransferObjectOwnership, UpdateStatus,
      Execute, Return, Fail, Succeed, Proceed, Continue
<1> QED
  BY <1>1, <1>2, <1>3 DEF Next, Reconcile, Dequeueing

\* What becomes of the stream of the resource.
LEMMA ResourceStep ==
    ASSUME TypeOK, Next, ~Restart
    PROVE  \/ UNCHANGED resource
           \/ Len(resource') = Len(resource) + 1
           \/ DeliverResource
<1>0. /\ Stored \in Versions /\ copy \in Versions /\ StreamsOK
      /\ UpdateStatus => target \in Hosts
  BY EndsType DEF TypeOK, WorkerOK, UpdateStatus, Provisioning
<1>1. ASSUME NEW o, NEW v \in Versions, StoreIf(o, v)
      PROVE  UNCHANGED resource \/ Len(resource') = Len(resource) + 1
  BY <1>0, <1>1, Appended DEF StoreIf, Store
<1>2. CASE Report \/ ReportDeletion \/ UpdateStatus
  <2>1. PICK o \in UpdateOutcomes, s \in Statuses : StoreIf(o, [Stored EXCEPT !.status = s])
    <3>1. copy.status \in Statuses /\ (UpdateStatus => Summarised(copy, target).status \in Statuses)
      BY <1>0, SummarisedType DEF Versions
    <3> QED
      BY <1>2, <3>1 DEF Report, UpdateStatus, ReportDeletion
  <2>2. [Stored EXCEPT !.status = s] \in Versions
    BY <1>0 DEF Versions
  <2> QED
    BY <1>1, <2>1, <2>2
<1>3. CASE EnsureFinalizer
  <2>1. [Stored EXCEPT !.finalizer = TRUE] \in Versions
    BY <1>0 DEF Versions
  <2> QED
    BY <1>1, <1>3, <2>1 DEF EnsureFinalizer
<1>4. CASE RemoveFinalizer
  <2>1. Unguarded(Stored) \in Versions
    BY <1>0, AbsentType DEF Unguarded, Versions
  <2> QED
    BY <1>1, <1>4, <2>1 DEF RemoveFinalizer
<1>5. CASE CreateResource
  <2> PICK policy \in Policies : resource' = Append(resource, Created(uids', policy))
    BY <1>5 DEF CreateResource
  <2>1. uids' \in 0..MaxUid
    BY <1>5, ConstantsAssumption DEF ConstantsAssumption, CreateResource, TypeOK, WorldOK
  <2>2. Created(uids', policy) \in Versions
    BY <2>1, AbsentType DEF Created, Versions
  <2> QED
    BY <1>0, <2>2, Appended
<1>6. CASE DeleteResource
  <2> DEFINE v == IF Stored.finalizer THEN [Stored EXCEPT !.deleting = TRUE] ELSE Absent
  <2>1. v \in Versions /\ resource' = Append(resource, v)
    BY <1>0, <1>6, AbsentType DEF DeleteResource, Versions
  <2> QED
    BY <1>0, <2>1, Appended
<1>7. CASE ~(\/ Report \/ ReportDeletion \/ UpdateStatus \/ EnsureFinalizer \/ RemoveFinalizer
             \/ CreateResource \/ DeleteResource \/ DeliverResource)
  BY <1>7, ResourceAlone
<1> QED
  BY <1>2, <1>3, <1>4, <1>5, <1>6, <1>7

\* What becomes of the stream of the secret: no two deletions follow each other.
LEMMA SecretsStep ==
    ASSUME TypeOK, GuardInv, SecretsTold, Next, ~Restart
    PROVE  \/ UNCHANGED secrets
           \/ /\ Len(secrets') = Len(secrets) + 1
              /\ SecretsTold'
           \/ DeliverSecret
<1>0. StreamsOK /\ StoredSecret = secrets[Len(secrets)] /\ Len(secrets) \in Nat /\ Len(secrets) >= 1
  BY DEF TypeOK, StreamsOK, StoredSecret
<1>1. ASSUME NEW s \in Secrets, StoreSecret(s),
             s # NoSecret => s.owner # 0, s # NoSecret \/ StoredSecret # NoSecret
      PROVE  Len(secrets') = Len(secrets) + 1 /\ SecretsTold'
  <2>1. /\ Len(secrets') = Len(secrets) + 1
        /\ \A k \in 1..Len(secrets) : secrets'[k] = secrets[k]
        /\ secrets'[Len(secrets) + 1] = s
    BY <1>0, <1>1, SecretAppended
  <2>2. ASSUME NEW k \in 1..Len(secrets'), secrets'[k] # NoSecret PROVE secrets'[k].owner # 0
    BY <1>0, <1>1, <2>1, <2>2 DEF SecretsTold
  <2>3. ASSUME NEW k \in 1..Len(secrets') - 1 PROVE secrets'[k] # NoSecret \/ secrets'[k + 1] # NoSecret
    BY <1>0, <1>1, <2>1, <2>3 DEF SecretsTold
  <2> QED
    BY <2>1, <2>2, <2>3 DEF SecretsTold
<1>2. CASE EnsureConnectionSecret
  <2> DEFINE s(password) == [owner |-> copy.uid, pw |-> password, host |-> target]
  <2>1. copy \in Versions /\ copy.uid # 0 /\ target \in Hosts
    BY <1>2 DEF EnsureConnectionSecret, GuardInv, RunInv, GuardedWhileProvisioning, Provisioning,
                TypeOK, WorkerOK
  <2>2. ASSUME NEW password \in FreshPasswords
        PROVE  s(password) \in Secrets /\ s(password).owner # 0 /\ s(password) # NoSecret
    BY <2>1, <2>2, ConstantsAssumption
    DEF ConstantsAssumption, Secrets, NoSecret, FreshPasswords, Versions
  <2>3. UNCHANGED secrets \/ \E password \in FreshPasswords : StoreSecret(s(password))
    BY <1>2 DEF EnsureConnectionSecret
  <2> QED
    BY <1>1, <2>2, <2>3
<1>3. CASE DeleteSecret \/ CollectGarbage
  <2>1. NoSecret \in Secrets /\ StoreSecret(NoSecret)
    BY <1>3, ConstantsAssumption DEF ConstantsAssumption, NoSecret, Secrets, DeleteSecret, CollectGarbage
  <2>2. StoredSecret # NoSecret
    BY <1>3 DEF DeleteSecret, CollectGarbage, Garbage, NoSecret
  <2> QED
    BY <1>1, <2>1, <2>2
<1>4. CASE ~(EnsureConnectionSecret \/ DeleteSecret \/ CollectGarbage \/ DeliverSecret)
  BY <1>4
  DEF Next, Reconcile, Provision, HandleDeletion, User, Environment, SkipReconcile,
      StartProvisioning, StartDeletion, Dequeue, Report, FetchAndValidateCluster,
      ResolveClusterConnection, EnsureFinalizer, ConnectToDatabase, CreateUser, FindUser,
      AlterUser, CreateDatabase, FindDatabase, AlterDatabaseOwner, GrantPrivileges, Execute,
      TransferObjectOwnership, UpdateStatus, Lookup, ReportDeletion, DropDatabaseAndUser, Refetch,
      RemoveFinalizer, CreateResource, DeleteResource, DeliverResource, ChangeCluster,
      ChangeConfig, ChangeHost, Resync
<1> QED
  BY <1>2, <1>3, <1>4

\* A delivery of the secret's stream queues the key.
LEMMA SecretsDelivered ==
    ASSUME TypeOK, SecretsTold, DeliverSecret
    PROVE  queued' /\ SecretsTold'
<1>1. /\ Len(secrets') = Len(secrets) - 1 /\ Len(secrets) \in Nat /\ Len(secrets) > 1
      /\ \A k \in 1..Len(secrets') : secrets'[k] = secrets[k + 1] /\ k + 1 \in 1..Len(secrets)
  BY ShortenedStream DEF DeliverSecret, TypeOK, StreamsOK
<1>2. secrets[1].owner # 0 \/ secrets[2].owner # 0
  BY <1>1 DEF SecretsTold
<1>3. ASSUME NEW k \in 1..Len(secrets') - 1 PROVE secrets'[k] # NoSecret \/ secrets'[k + 1] # NoSecret
  <2>1. /\ k \in 1..Len(secrets') /\ k + 1 \in 1..Len(secrets') /\ k + 1 \in 1..Len(secrets) - 1
    BY <1>1
  <2> QED
    BY <1>1, <2>1 DEF SecretsTold
<1>4. \A k \in 1..Len(secrets') : secrets'[k] # NoSecret => secrets'[k].owner # 0
  BY <1>1 DEF SecretsTold
<1> QED
  BY <1>2, <1>3, <1>4 DEF SecretsTold, DeliverSecret

\* Every step keeps the order of the secret's stream.
LEMMA SecretsToldStep ==
    ASSUME TypeOK, GuardInv, SecretsTold, Next
    PROVE  SecretsTold'
<1>1. CASE Restart
  <2>1. Len(secrets') = 1 /\ secrets'[1] = StoredSecret
    BY <1>1, SingletonStream DEF Restart, RestartWorker
  <2>2. \A k \in 1..Len(secrets') : secrets'[k] = StoredSecret
    BY <2>1
  <2>3. StoredSecret # NoSecret => StoredSecret.owner # 0
    BY SecretEnds DEF SecretsTold, TypeOK
  <2>4. 1..Len(secrets') - 1 = {}
    BY <2>1
  <2> QED
    BY <2>2, <2>3, <2>4 DEF SecretsTold
<1>2. CASE UNCHANGED secrets
  BY <1>2 DEF SecretsTold
<1> QED
  BY <1>1, <1>2, SecretsStep, SecretsDelivered

\* Where nothing new is queued and the informer shows what is stored, nothing
\* has been written or delivered.
LEMMA ResourceBefore ==
    ASSUME TypeOK, Next, ~Dequeueing, ~Restart, ~queued', Len(resource') = 1
    PROVE  ~queued /\ UNCHANGED resource
<1>1. ~queued
  BY StaysQueued
<1>2. ~DeliverResource
  BY DEF DeliverResource
<1>3. Len(resource') # Len(resource) + 1
  BY DEF TypeOK, StreamsOK
<1> QED
  BY <1>1, <1>2, <1>3, ResourceStep

\* Where nothing is due, nothing was, and nothing has been written.
LEMMA SettledBefore ==
    ASSUME TypeOK, GuardInv, SecretsTold, Next, ~Dequeueing, ~Restart, Settled'
    PROVE  Settled /\ UNCHANGED <<resource, secrets>>
<1>1. ~queued /\ UNCHANGED resource
  BY ResourceBefore DEF Settled
<1>2. UNCHANGED secrets
  <2>1. ~DeliverSecret
    BY SecretsDelivered DEF Settled
  <2>2. Len(secrets') # Len(secrets) + 1
    BY DEF TypeOK, StreamsOK, Settled
  <2> QED
    BY <2>1, <2>2, SecretsStep
<1> QED
  BY <1>1, <1>2 DEF Settled, Garbage, Stored, StoredSecret

-----------------------------------------------------------------------------
(* Where a run is.                                                         *)

\* A run of handleDeletion begins with the key taken from the queue.
LEMMA UnguardingBefore ==
    ASSUME Next, ~Dequeueing, ~Restart, pc' \in Unguarding
    PROVE  pc \in Unguarding
<1>1. CASE User \/ Environment
  BY <1>1
  DEF User, Environment, CreateResource, DeleteResource, DeleteSecret, DeliverResource,
      DeliverSecret, CollectGarbage, ChangeCluster, ChangeConfig, ChangeHost, Resync, worker
<1>2. CASE Report \/ HandleDeletion
  BY <1>2
  DEF Report, HandleDeletion, Lookup, ReportDeletion, DropDatabaseAndUser, Refetch,
      RemoveFinalizer, Return, Proceed, Continue, Unguarding
<1>3. CASE Provision
  <2>1. ASSUME NEW label, NEW kinds, NEW effect, NEW next, NEW failed,
               Execute(label, kinds, effect, next, failed)
        PROVE  pc' \in {next, "report"}
    BY <2>1, ExecuteLeads
  <2>2. pc' \in {"idle", "report", "resolve", "finalizer"} \cup Provisioning
    BY <1>3, <2>1
    DEF Provision, FetchAndValidateCluster, ResolveClusterConnection, EnsureFinalizer,
        ConnectToDatabase, EnsureConnectionSecret, CreateUser, FindUser, AlterUser, CreateDatabase,
        FindDatabase, AlterDatabaseOwner, GrantPrivileges, TransferObjectOwnership, UpdateStatus,
        NextAfterFoundDatabase, Return, Fail, Succeed, Proceed, Continue, Provisioning
  <2> QED
    BY <2>2 DEF Provisioning, Unguarding
<1> QED
  BY <1>1, <1>2, <1>3 DEF Next, Reconcile, Dequeueing

\* handleDeletion with nothing new delivered or queued has a resource that
\* is going.
LEMMA NoLiveReleaseStep ==
    ASSUME TypeOK, NoLiveRelease, Next
    PROVE  NoLiveRelease'
<1>1. CASE Restart
  BY <1>1 DEF Restart, RestartWorker, NoLiveRelease, Unguarding
<1>2. CASE Dequeueing
  <2>1. UNCHANGED resource /\ (pc' \in Unguarding => StartDeletion)
    BY <1>2 DEF Dequeueing, SkipReconcile, StartProvisioning, StartDeletion, Dequeue, Start, Unguarding
  <2>2. Len(resource) = 1 /\ StartDeletion => ~LiveResource
    BY DEF StartDeletion, ToDelete, Cached, Stored, LiveResource
  <2> QED
    BY <2>1, <2>2 DEF NoLiveRelease, LiveResource, Stored
<1>3. CASE ~Restart /\ ~Dequeueing
  <2> SUFFICES ASSUME pc' \in Unguarding, ~queued', Len(resource') = 1 PROVE ~LiveResource'
    BY DEF NoLiveRelease
  <2>1. ~queued /\ UNCHANGED resource /\ pc \in Unguarding
    BY <1>3, ResourceBefore, UnguardingBefore
  <2> QED
    BY <2>1 DEF NoLiveRelease, LiveResource, Stored
<1> QED
  BY <1>1, <1>2, <1>3

\* A condition that was set, or is set now.
LEMMA ConditionsKept ==
    ASSUME NEW c \in Versions, NEW types
    PROVE  \A t \in CondTypes :
              SetConditions(c, types, "True").status.conds[t] =
                  IF t \in types THEN "True" ELSE c.status.conds[t]
BY DEF SetConditions, Versions, Statuses

\* The conditions that a run has come past are True, unless another is due.
LEMMA ConditionsStep ==
    ASSUME TypeOK, GuardInv, SecretsTold, ConditionsDone, Next
    PROVE  ConditionsDone'
<1>1. CASE Restart \/ Dequeueing
  <2>1. pc' \in {"idle", "fetch", "lookup"}
    BY <1>1 DEF Restart, RestartWorker, Dequeueing, SkipReconcile, StartProvisioning, StartDeletion,
                Dequeue, Start
  <2> QED
    BY <2>1 DEF ConditionsDone, Provisioning
<1>2. ASSUME ~Restart, ~Dequeueing, Settled'
      PROVE  /\ pc' \in {"resolve", "finalizer"} \cup Provisioning =>
                    copy'.status.conds["ClusterReady"] = "True"
             /\ pc' \in {"finalizer"} \cup Provisioning => copy'.status.conds["SecretReady"] = "True"
             /\ pc' \in Provisioning \ {"connect"} => copy'.status.conds["ConnectionReady"] = "True"
             /\ pc' = "status" => copy'.status.conds["DatabaseReady"] = "True"
  <2>0. /\ Settled /\ UNCHANGED <<resource, secrets>> /\ copy \in Versions
        /\ {"ClusterReady", "SecretReady", "ConnectionReady", "DatabaseReady"} \subseteq CondTypes
    BY <1>2, SettledBefore DEF TypeOK, WorkerOK, CondTypes
  <2>1. CASE User \/ Environment
    <3>1. UNCHANGED <<pc, copy>>
      BY <1>2, <2>1
      DEF User, Environment, CreateResource, DeleteResource, DeleteSecret, DeliverResource,
          DeliverSecret, CollectGarbage, ChangeCluster, ChangeConfig, ChangeHost, Resync, worker
    <3> QED
      BY <2>0, <3>1 DEF ConditionsDone
  <2>2. CASE Report \/ UpdateStatus \/ HandleDeletion
    <3>1. pc' \in {"idle"} \cup Unguarding
      BY <2>2
      DEF Report, UpdateStatus, HandleDeletion, Lookup, ReportDeletion, DropDatabaseAndUser, Refetch,
          RemoveFinalizer, Return, Proceed, Continue, Unguarding
    <3> QED
      BY <3>1 DEF Unguarding, Provisioning
  <2>3. CASE FetchAndValidateCluster
    BY <2>0, <2>3, ConditionsKept
    DEF FetchAndValidateCluster, Fail, Succeed, Continue, Provisioning
  <2>4. CASE ResolveClusterConnection
    BY <2>0, <2>4, ConditionsKept
    DEF ResolveClusterConnection, Return, Fail, Succeed, Continue, ConditionsDone, Provisioning
  <2>5. CASE EnsureFinalizer
    <3>1. pc' # "connect" \/ UNCHANGED copy
      <4> SUFFICES ASSUME NeedsFinalizer(copy), NEW o \in UpdateOutcomes, ~MustRetry(o),
                          StoreIf(o, [Stored EXCEPT !.finalizer = TRUE])
                   PROVE  FALSE
        BY <2>5 DEF EnsureFinalizer, Return, Proceed
      <4>1. fresh /\ o = "ok"
        BY DEF UpdateOutcomes, MustRetry
      <4>2. copy.finalizer = Stored.finalizer
        BY <2>5, <4>1 DEF EnsureFinalizer, GuardInv, RunInv
      <4>3. Stored \in Versions
        BY EndsType DEF TypeOK
      <4>4. [Stored EXCEPT !.finalizer = TRUE] # Stored
        BY <4>2, <4>3 DEF NeedsFinalizer, Versions
      <4>5. Len(resource') = Len(resource) + 1
        BY <4>1, <4>3, <4>4, Appended DEF StoreIf, Store, TookEffect, TypeOK, Versions
      <4> QED
        BY <2>0, <4>5 DEF TypeOK, StreamsOK
    <3>2. pc = "finalizer" /\ pc' \in {"idle", "connect"}
      BY <2>5 DEF EnsureFinalizer, Return, Proceed, Continue
    <3> QED
      BY <2>0, <3>1, <3>2 DEF ConditionsDone, Provisioning
  <2>6. CASE ConnectToDatabase
    BY <2>0, <2>6, ConditionsKept
    DEF ConnectToDatabase, Fail, Succeed, Continue, ConditionsDone, Provisioning
  <2>7. CASE EnsureConnectionSecret
    <3>1. pc = "secret" /\ (Succeed({"SecretReady"}, "createUser") \/ Fail({"SecretReady"}))
      BY <2>7 DEF EnsureConnectionSecret
    <3> QED
      BY <2>0, <3>1, ConditionsKept DEF Fail, Succeed, Continue, ConditionsDone, Provisioning
  <2>8. CASE \/ CreateUser \/ FindUser \/ AlterUser \/ CreateDatabase \/ FindDatabase
             \/ AlterDatabaseOwner \/ GrantPrivileges
    <3>1. ASSUME NEW label, NEW kinds, NEW effect, NEW next, NEW failed,
                 Execute(label, kinds, effect, next, failed)
          PROVE  pc' = "report" \/ (pc' = next /\ pc = label /\ UNCHANGED copy)
      BY <3>1 DEF Execute, Proceed, Fail, Continue
    <3>2. \/ pc' = "report"
          \/ /\ pc \in Provisioning \ {"connect"} /\ UNCHANGED copy
             /\ pc' \in {"alterUser", "createDatabase", "alterOwner", "grant", "repair"}
      BY <2>8, <3>1
      DEF CreateUser, FindUser, AlterUser, CreateDatabase, FindDatabase, AlterDatabaseOwner,
          GrantPrivileges, NextAfterFoundDatabase, Proceed, Fail, Continue, Provisioning
    <3> QED
      BY <2>0, <3>2 DEF ConditionsDone, Provisioning
  <2>9. CASE TransferObjectOwnership
    <3>1. /\ pc = "repair"
          /\ Succeed({"DatabaseReady"}, "status") \/ Fail({"DatabaseReady", "Ready"})
      BY <2>9 DEF TransferObjectOwnership
    <3> QED
      BY <2>0, <3>1, ConditionsKept DEF Fail, Succeed, Continue, ConditionsDone, Provisioning
  <2> QED
    BY <1>2, <2>1, <2>2, <2>3, <2>4, <2>5, <2>6, <2>7, <2>8, <2>9
    DEF Next, Reconcile, Provision, Dequeueing
<1> QED
  BY <1>1, <1>2 DEF ConditionsDone

\* A run that has the secret has the stored one, unless another run is due.
LEMMA SecretDoneStep ==
    ASSUME TypeOK, GuardInv, SecretsTold, SecretDone, Next
    PROVE  SecretDone'
<1> DEFINE After == Provisioning \ {"connect", "secret"}
<1>1. CASE Restart \/ Dequeueing
  <2>1. pc' \in {"idle", "fetch", "lookup"}
    BY <1>1 DEF Restart, RestartWorker, Dequeueing, SkipReconcile, StartProvisioning, StartDeletion,
                Dequeue, Start
  <2> QED
    BY <2>1 DEF SecretDone, Provisioning
<1>2. ASSUME ~Restart, ~Dequeueing, Settled', pc' \in After
      PROVE  StoredSecret' # NoSecret /\ pw' = StoredSecret'.pw
  <2>0. Settled /\ UNCHANGED <<resource, secrets>> /\ StoredSecret' = StoredSecret
    BY <1>2, SettledBefore DEF StoredSecret
  <2>1. CASE EnsureConnectionSecret
    <3>1. CASE CachedSecret # NoSecret /\ pw' = CachedSecret.pw
      BY <2>0, <3>1 DEF Settled, CachedSecret, StoredSecret
    <3>2. ASSUME NEW password \in FreshPasswords, NEW o \in CreateOutcomes,
                 IF TookEffect(o)
                    THEN StoreSecret([owner |-> copy.uid, pw |-> password, host |-> target])
                    ELSE UNCHANGED <<secrets, retired>>,
                 SecretCreated(o)
          PROVE  FALSE
      <4>1. secrets' = Append(secrets, [owner |-> copy.uid, pw |-> password, host |-> target])
        BY <3>2 DEF SecretCreated, TookEffect, StoreSecret
      <4>2. Len(secrets') = Len(secrets) + 1
        BY <4>1 DEF TypeOK, StreamsOK
      <4> QED
        BY <2>0, <4>2 DEF TypeOK, StreamsOK
    <3>3. Fail({"SecretReady"}) => pc' \notin After
      BY DEF Fail, Continue, Provisioning
    <3> QED
      BY <1>2, <2>1, <3>1, <3>2, <3>3 DEF EnsureConnectionSecret
  <2>2. CASE ~EnsureConnectionSecret
    <3>1. pc \in After /\ UNCHANGED pw
      <4>1. CASE User \/ Environment
        BY <1>2, <4>1
        DEF User, Environment, CreateResource, DeleteResource, DeleteSecret, DeliverResource,
            DeliverSecret, CollectGarbage, ChangeCluster, ChangeConfig, ChangeHost, Resync, worker
      <4>2. ~(Report \/ UpdateStatus \/ HandleDeletion)
        BY <1>2
        DEF Report, UpdateStatus, HandleDeletion, Lookup, ReportDeletion, DropDatabaseAndUser,
            Refetch, RemoveFinalizer, Return, Proceed, Continue, Provisioning
      <4>3. ~(\/ FetchAndValidateCluster \/ ResolveClusterConnection \/ EnsureFinalizer
              \/ ConnectToDatabase)
        BY <1>2
        DEF FetchAndValidateCluster, ResolveClusterConnection, EnsureFinalizer, ConnectToDatabase,
            Return, Fail, Succeed, Proceed, Continue, Provisioning
      <4>4. CASE \/ CreateUser \/ AlterUser \/ CreateDatabase \/ AlterDatabaseOwner
                 \/ GrantPrivileges
        BY <4>4, ExecuteLeads
        DEF CreateUser, AlterUser, CreateDatabase, AlterDatabaseOwner, GrantPrivileges, Provisioning
      <4>5. CASE FindUser \/ FindDatabase \/ TransferObjectOwnership
        BY <4>5
        DEF FindUser, FindDatabase, TransferObjectOwnership, Fail, Proceed, Provisioning
      <4> QED
        BY <1>2, <2>2, <4>1, <4>2, <4>3, <4>4, <4>5 DEF Next, Reconcile, Provision, Dequeueing
    <3> QED
      BY <2>0, <3>1 DEF SecretDone
  <2> QED
    BY <2>1, <2>2
<1> QED
  BY <1>1, <1>2 DEF SecretDone

-----------------------------------------------------------------------------
(* The role, the database and its owner.                                   *)

\* A statement whose failure would only be logged does not fail.
LEMMA NothingSwallowed ==
    ASSUME "alterError" \notin Disruptions, NEW o \in Outcomes({"alterError"})
    PROVE  o = "ok"
BY DEF Outcomes

\* The role has the run's password, and the database is the user's but for
\* one that was found by the run that made the user.
LEMMA RoleReconcile ==
    ASSUME "alterError" \notin Disruptions, TypeOK, GuardInv, PasswordInv, ProvisionedInv,
           SecretsTold, RoleDone, Provision
    PROVE  RoleDone'
<1> DEFINE Unready == ~(Stored.status.conds["Ready"] = "True" /\ Stored.status.host = target)
<1>0. server \in [Hosts -> ServerStates]
  BY DEF TypeOK, WorldOK
<1>1. CASE \/ FetchAndValidateCluster \/ ResolveClusterConnection \/ EnsureFinalizer
           \/ ConnectToDatabase \/ EnsureConnectionSecret \/ UpdateStatus
  <2>1. pc' \in {"idle", "report", "resolve", "finalizer", "connect", "secret", "createUser"}
    BY <1>1
    DEF FetchAndValidateCluster, ResolveClusterConnection, EnsureFinalizer, ConnectToDatabase,
        EnsureConnectionSecret, UpdateStatus, Return, Fail, Succeed, Proceed, Continue
  <2> QED
    BY <2>1 DEF RoleDone, RoleSet
<1>2. ASSUME ~(\/ FetchAndValidateCluster \/ ResolveClusterConnection \/ EnsureFinalizer
               \/ ConnectToDatabase \/ EnsureConnectionSecret \/ UpdateStatus)
      PROVE  /\ UNCHANGED resource /\ Stored' = Stored /\ (Settled' => Settled)
             /\ pc \in Provisioning /\ target \in Hosts /\ server[target] \in ServerStates
  <2>1. /\ Next /\ pc \in Provisioning
        /\ pc' \in {"report", "alterUser", "createDatabase", "alterOwner", "grant", "repair", "status"}
    <3>1. ASSUME NEW label, NEW kinds, NEW effect, NEW next, NEW failed,
                 Execute(label, kinds, effect, next, failed)
          PROVE  pc = label /\ pc' \in {next, "report"}
      BY <3>1, ExecuteLeads
    <3> QED
      BY <1>2, <3>1
      DEF Next, Reconcile, Provision, CreateUser, FindUser, AlterUser, CreateDatabase, FindDatabase,
          AlterDatabaseOwner, GrantPrivileges, TransferObjectOwnership, NextAfterFoundDatabase,
          Continue, Proceed, Fail, Succeed, Provisioning
  <2>3. ~Dequeueing /\ ~Restart
    BY <2>1
    DEF Dequeueing, SkipReconcile, StartProvisioning, StartDeletion, Dequeue, Restart, RestartWorker,
        Provisioning
  <2>2. UNCHANGED resource
    BY <1>2
    DEF Provision, CreateUser, FindUser, AlterUser, CreateDatabase, FindDatabase,
        AlterDatabaseOwner, GrantPrivileges, Execute, TransferObjectOwnership
  <2> QED
    BY <1>0, <2>1, <2>2, <2>3, SettledBefore DEF Stored, TypeOK, WorkerOK
<1>3. ASSUME NEW label \in Provisioning, NEW kinds, NEW effect, NEW next, NEW failed,
             Execute(label, kinds, effect, next, failed),
             label \in NonCritical => kinds = {"alterError"}
      PROVE  \/ pc' = "report"
             \/ /\ pc' = next /\ UNCHANGED <<target, pw, existed>> /\ target \in Hosts
                /\ server'[target] = effect
  BY <1>0, <1>3, NothingSwallowed DEF Execute, Proceed, Fail, Continue, TookEffect, TypeOK, WorkerOK
<1>4. CASE CreateUser
  <2>1. server[target] \in ServerStates /\ server[target].role = NoPassword /\ Stored' = Stored
    BY <1>2, <1>4 DEF CreateUser, Execute, FetchAndValidateCluster, ResolveClusterConnection,
                      EnsureFinalizer, ConnectToDatabase, EnsureConnectionSecret, UpdateStatus
  <2>2. \/ pc' = "report"
        \/ /\ pc' = "createDatabase" /\ UNCHANGED <<target, pw>> /\ server'[target].role = pw
    BY <1>3, <1>4, <2>1 DEF CreateUser, Provisioning, NonCritical, ServerStates
  <2>3. Unready
    <3>1. ReadyTold(Stored.status)
      BY EndsTold DEF ProvisionedInv
    <3> QED
      BY <2>1, <3>1 DEF ReadyTold, Provisioned
  <2> QED
    BY <2>1, <2>2, <2>3 DEF RoleDone, RoleSet
<1>5. CASE FindUser
  BY <1>5 DEF FindUser, Fail, Continue, RoleDone, RoleSet
<1>6. CASE AlterUser
  <2>1. pc = "alterUser" /\ server[target] \in ServerStates
    BY <1>0, <1>6 DEF AlterUser, Execute, TypeOK, WorkerOK, Provisioning
  <2>2. \/ pc' = "report"
        \/ /\ pc' = "createDatabase" /\ UNCHANGED <<target, pw, existed>> /\ server'[target].role = pw
    BY <1>3, <1>6, <2>1 DEF AlterUser, Provisioning, NonCritical, ServerStates
  <2> QED
    BY <2>1, <2>2 DEF RoleDone, RoleSet
<1>7. CASE CreateDatabase
  <2> DEFINE e == [server[target] EXCEPT !.owner = "user", !.granted = FALSE, !.repaired = TRUE]
  <2>1. pc = "createDatabase" /\ server[target] \in ServerStates
    BY <1>0, <1>7 DEF CreateDatabase, TypeOK, WorkerOK, Provisioning
  <2>2. e.role = server[target].role /\ e.owner = "user"
    BY <2>1 DEF ServerStates
  <2> HIDE DEF e
  <2>3. \/ pc' = "report"
        \/ pc' = "grant" /\ UNCHANGED <<target, pw, existed>> /\ server'[target] = e
    BY <1>3, <1>7 DEF CreateDatabase, Provisioning, NonCritical, e
  <2>4. Stored' = Stored /\ (Settled' => Settled)
    BY <1>2, <2>1 DEF FetchAndValidateCluster, ResolveClusterConnection, EnsureFinalizer,
                      ConnectToDatabase, EnsureConnectionSecret, UpdateStatus
  <2> QED
    BY <2>1, <2>2, <2>3, <2>4 DEF RoleDone, RoleSet
<1>8. CASE FindDatabase
  <2>1. /\ pc = "createDatabase" /\ UNCHANGED <<server, target, pw, existed>>
        /\ pc' \in {IF existed THEN "alterOwner" ELSE "grant", "report"}
    BY <1>8 DEF FindDatabase, NextAfterFoundDatabase, Proceed, Fail, Continue
  <2>2. Stored' = Stored /\ (Settled' => Settled)
    BY <1>2, <2>1 DEF FetchAndValidateCluster, ResolveClusterConnection, EnsureFinalizer,
                      ConnectToDatabase, EnsureConnectionSecret, UpdateStatus
  <2> QED
    BY <2>1, <2>2 DEF RoleDone, RoleSet
<1>9. CASE AlterDatabaseOwner \/ GrantPrivileges
  <2>1. pc \in {"alterOwner", "grant"} /\ server[target] \in ServerStates
    BY <1>0, <1>9 DEF AlterDatabaseOwner, GrantPrivileges, Execute, TypeOK, WorkerOK, Provisioning
  <2>2. \/ pc' = "report"
        \/ /\ pc' \in {"grant", "repair"} /\ UNCHANGED <<target, pw, existed>>
           /\ server'[target].role = server[target].role
           /\ \/ pc = "alterOwner" /\ server'[target].owner = "user"
              \/ pc = "grant" /\ server'[target].owner = server[target].owner
    <3>1. CASE AlterDatabaseOwner
      <4>1. pc = "alterOwner"
        BY <3>1 DEF AlterDatabaseOwner, Execute
      <4> QED
        BY <1>3, <2>1, <3>1, <4>1 DEF AlterDatabaseOwner, Provisioning, NonCritical, ServerStates
    <3>2. CASE GrantPrivileges
      <4>1. pc = "grant"
        BY <3>2 DEF GrantPrivileges, Execute
      <4> QED
        BY <1>3, <2>1, <3>2, <4>1 DEF GrantPrivileges, Provisioning, NonCritical, ServerStates
    <3> QED
      BY <1>9, <3>1, <3>2
  <2>3. Stored' = Stored /\ (Settled' => Settled)
    BY <1>2, <2>1 DEF FetchAndValidateCluster, ResolveClusterConnection, EnsureFinalizer,
                      ConnectToDatabase, EnsureConnectionSecret, UpdateStatus
  <2> QED
    BY <2>1, <2>2, <2>3 DEF RoleDone, RoleSet
<1>10. CASE TransferObjectOwnership
  <2>1. pc = "repair"
    BY <1>10 DEF TransferObjectOwnership
  <2>2. /\ Stored' = Stored /\ (Settled' => Settled)
        /\ target \in Hosts /\ server[target] \in ServerStates
    BY <1>2, <2>1 DEF FetchAndValidateCluster, ResolveClusterConnection, EnsureFinalizer,
                      ConnectToDatabase, EnsureConnectionSecret, UpdateStatus
  <2>3. \/ pc' = "report"
        \/ /\ pc' = "status" /\ UNCHANGED <<target, pw, existed>>
           /\ server' = [server EXCEPT ![target].repaired = TRUE]
    BY <1>10 DEF TransferObjectOwnership, Succeed, Fail, Continue, TookEffect
  <2>4. CASE server' = [server EXCEPT ![target].repaired = TRUE]
    <3>1. server'[target].role = server[target].role /\ server'[target].owner = server[target].owner
      BY <1>0, <2>2, <2>4 DEF ServerStates
    <3> QED
      BY <2>1, <2>2, <2>3, <3>1 DEF RoleDone, RoleSet
  <2> QED
    BY <2>3, <2>4 DEF RoleDone, RoleSet
<1> QED
  BY <1>1, <1>4, <1>5, <1>6, <1>7, <1>8, <1>9, <1>10 DEF Provision

\* So it is after every step.
LEMMA RoleDoneStep ==
    ASSUME "alterError" \notin Disruptions, TypeOK, GuardInv, PasswordInv, ProvisionedInv,
           SecretsTold, RoleDone, Next
    PROVE  RoleDone'
<1>1. CASE Restart \/ Dequeueing \/ Report \/ HandleDeletion
  <2>1. pc' \in {"idle", "fetch"} \cup Unguarding
    BY <1>1
    DEF Restart, RestartWorker, Dequeueing, SkipReconcile, StartProvisioning, StartDeletion,
        Dequeue, Start, Report, HandleDeletion, Lookup, ReportDeletion, DropDatabaseAndUser,
        Refetch, RemoveFinalizer, Return, Proceed, Continue, Unguarding
  <2> QED
    BY <2>1 DEF RoleDone, RoleSet, Unguarding
<1>2. CASE Provision
  BY <1>2, RoleReconcile
<1>3. CASE (User \/ Environment) /\ ~Restart /\ ~Dequeueing
  <2>1. UNCHANGED <<server, pc, target, pw, existed>>
    BY <1>3
    DEF User, Environment, CreateResource, DeleteResource, DeleteSecret, DeliverResource,
        DeliverSecret, CollectGarbage, ChangeCluster, ChangeConfig, ChangeHost, Resync, worker
  <2>2. Settled' => Settled /\ Stored' = Stored
    BY <1>3, SettledBefore DEF Stored
  <2> QED
    BY <2>1, <2>2 DEF RoleDone
<1> QED
  BY <1>1, <1>2, <1>3 DEF Next, Reconcile, Dequeueing

-----------------------------------------------------------------------------
(* At rest.                                                                *)

\* The summary of a run that has come past all conditions.
LEMMA SummarisedDone ==
    ASSUME NEW c \in Versions, NEW h \in Hosts,
           \A t \in CondTypes \ {"Ready"} : c.status.conds[t] = "True"
    PROVE  /\ \A t \in CondTypes : Summarised(c, h).status.conds[t] = "True"
           /\ Summarised(c, h).status.host = h
<1> DEFINE c0 == SetConditions(c, {"Ready"}, "True")
           c1 == WithPhase(c0)
<1>1. c0 \in Versions /\ c1 \in Versions
  BY SetConditionsType, WithPhaseType
<1>2. \A t \in CondTypes : c0.status.conds[t] = "True"
  BY ConditionsKept
<1>3. c1.status.conds = c0.status.conds
  BY <1>1 DEF WithPhase, Versions, Statuses
<1>4. Summarised(c, h) = [c1 EXCEPT !.status.host = h]
  BY DEF Summarised
<1>5. /\ [c1 EXCEPT !.status.host = h].status.host = h
      /\ [c1 EXCEPT !.status.host = h].status.conds = c1.status.conds
  BY <1>1 DEF Versions, Statuses
<1> QED
  BY <1>2, <1>3, <1>4, <1>5

\* A run that ends with nothing else due has found the status it would write.
LEMMA ServedByRun ==
    ASSUME TypeOK, ProvisionedInv, ConditionsDone, SecretDone, RoleDone, Settled,
           UpdateStatus, ~queued', UNCHANGED <<resource, secrets>>
    PROVE  Served'
<1> DEFINE s == server[target]
<1>1. /\ pc = "status" /\ target \in Hosts /\ copy \in Versions /\ Stored \in Versions
      /\ UNCHANGED server
  BY EndsType DEF UpdateStatus, TypeOK, WorkerOK, Provisioning
<1>2. \A t \in CondTypes \ {"Ready"} : copy.status.conds[t] = "True"
  BY <1>1 DEF ConditionsDone, Provisioning, CondTypes
<1>3. Stored.status = Summarised(copy, target).status
  <2>1. PICK o \in UpdateOutcomes : /\ StoreIf(o, [Stored EXCEPT !.status = Summarised(copy, target).status])
                                    /\ Return(MustRetry(o))
    BY DEF UpdateStatus
  <2>2. o = "ok"
    BY <2>1 DEF Return, MustRetry
  <2>3. resource' # Append(resource, [Stored EXCEPT !.status = Summarised(copy, target).status])
    BY DEF TypeOK, StreamsOK
  <2>4. [Stored EXCEPT !.status = Summarised(copy, target).status] = Stored
    BY <2>1, <2>2, <2>3 DEF StoreIf, Store, TookEffect
  <2>5. [Stored EXCEPT !.status = Summarised(copy, target).status].status
            = Summarised(copy, target).status
    BY <1>1 DEF Versions
  <2> QED
    BY <2>4, <2>5
<1>4. (\A t \in CondTypes : Stored.status.conds[t] = "True") /\ Stored.status.host = target
  BY <1>1, <1>2, <1>3, SummarisedDone
<1>5. StoredSecret # NoSecret /\ pw = StoredSecret.pw
  BY <1>1 DEF SecretDone, Provisioning
<1>6. s.role = StoredSecret.pw /\ s.granted /\ s.repaired
  BY <1>1, <1>5 DEF RoleDone, RoleSet, ProvisionedInv, StatementsDone
<1>7. s.owner = "user"
  BY <1>1, <1>4 DEF RoleDone, RoleSet, CondTypes
<1>8. Served
  BY <1>4, <1>5, <1>6, <1>7 DEF Served
<1> QED
  BY <1>1, <1>8 DEF Served, Stored, StoredSecret

\* A controller that comes to rest over a live resource has served it.
LEMMA RestStep ==
    ASSUME TypeOK, GuardInv, ProvisionedInv, ServeInv, Next
    PROVE  RestIsServed'
<1> SUFFICES ASSUME pc' = "idle", Settled', LiveResource' PROVE Served'
  BY DEF RestIsServed, Quiet
<1> USE DEF ServeInv
<1>1. ~Restart
  <2>1. Restart => Stored' = Stored
    BY SingletonStream DEF Restart, RestartWorker, Stored
  <2> QED
    BY <2>1 DEF Restart, RestartWorker, LiveResource, Settled
<1>2. ~Dequeueing
  <2>1. Dequeueing => SkipReconcile
    BY DEF Dequeueing, StartProvisioning, StartDeletion, Start
  <2>2. SkipReconcile => Cached' = Stored' /\ NothingToDo(Cached')
    BY DEF SkipReconcile, Dequeue, Settled, Cached, Stored
  <2> QED
    BY <2>1, <2>2 DEF NothingToDo, LiveResource, SkipReconcile, Dequeue
<1>3. Settled /\ UNCHANGED <<resource, secrets>>
  BY <1>1, <1>2, SettledBefore
<1>4. Stored' = Stored /\ StoredSecret' = StoredSecret /\ LiveResource
  BY <1>3 DEF Stored, StoredSecret, LiveResource
<1>5. CASE User \/ Environment
  <2>1. UNCHANGED <<server, pc>>
    BY <1>1, <1>5
    DEF User, Environment, CreateResource, DeleteResource, DeleteSecret, DeliverResource,
        DeliverSecret, CollectGarbage, ChangeCluster, ChangeConfig, ChangeHost, Resync, worker
  <2> QED
    BY <1>3, <1>4, <2>1 DEF RestIsServed, Quiet, Served
<1>6. CASE Report
  BY <1>6 DEF Report, Return, Requeue, Settled
<1>7. CASE HandleDeletion
  <2>1. pc \in Unguarding
    BY <1>7 DEF HandleDeletion, Lookup, ReportDeletion, DropDatabaseAndUser, Refetch,
                RemoveFinalizer, Unguarding
  <2> QED
    BY <1>3, <1>4, <2>1 DEF NoLiveRelease, Settled
<1>8. CASE UpdateStatus
  BY <1>3, <1>8, ServedByRun DEF Settled
<1>9. CASE Provision /\ ~UpdateStatus
  <2>1. ASSUME NEW label, NEW kinds, NEW effect, NEW next, NEW failed,
               Execute(label, kinds, effect, next, failed)
        PROVE  pc' \in {next, "report"}
    BY <2>1, ExecuteLeads
  <2>2. (CreateUser \/ AlterUser \/ CreateDatabase \/ AlterDatabaseOwner \/ GrantPrivileges)
            => pc' # "idle"
    <3>1. CreateUser => pc' # "idle"
      BY <2>1 DEF CreateUser
    <3>2. AlterUser => pc' # "idle"
      BY <2>1 DEF AlterUser
    <3>3. CreateDatabase => pc' # "idle"
      BY <2>1 DEF CreateDatabase
    <3>4. AlterDatabaseOwner => pc' # "idle"
      BY <2>1 DEF AlterDatabaseOwner
    <3>5. GrantPrivileges => pc' # "idle"
      BY <2>1 DEF GrantPrivileges
    <3> QED
      BY <3>1, <3>2, <3>3, <3>4, <3>5
  <2>3. (FetchAndValidateCluster \/ ResolveClusterConnection \/ EnsureFinalizer)
            => queued' \/ pc' # "idle"
    BY DEF FetchAndValidateCluster, ResolveClusterConnection, EnsureFinalizer, Return, Fail,
           Succeed, Proceed, Continue
  <2>4. (ConnectToDatabase \/ EnsureConnectionSecret \/ TransferObjectOwnership) => pc' # "idle"
    BY DEF ConnectToDatabase, EnsureConnectionSecret, TransferObjectOwnership, Fail, Succeed,
           Continue
  <2>5. (FindUser \/ FindDatabase) => pc' # "idle"
    BY DEF FindUser, FindDatabase, NextAfterFoundDatabase, Proceed, Fail, Continue
  <2> QED
    BY <1>9, <2>2, <2>3, <2>4, <2>5 DEF Provision, Settled
<1> QED
  BY <1>2, <1>5, <1>6, <1>7, <1>8, <1>9 DEF Next, Reconcile, Dequeueing

\* There is nothing to serve at first.
LEMMA ServeInit == Init => ServeInv
<1> SUFFICES ASSUME Init PROVE ServeInv
  OBVIOUS
<1>1. resource = <<Absent>> /\ secrets = <<NoSecret>> /\ pc = "idle"
  BY DEF Init
<1>2. Stored = Absent /\ Len(secrets) = 1 /\ secrets[1] = NoSecret
  BY <1>1 DEF Stored
<1>3. \A k \in 1..Len(secrets) : secrets[k] = NoSecret
  BY <1>2
<1>4. 1..Len(secrets) - 1 = {}
  BY <1>2
<1>5. ~LiveResource
  BY <1>2 DEF LiveResource, Absent
<1> QED
  BY <1>1, <1>3, <1>4, <1>5
  DEF ServeInv, SecretsTold, NoLiveRelease, ConditionsDone, SecretDone, RoleDone, RestIsServed,
      Unguarding, Provisioning, RoleSet

\* Every step keeps the invariant of what is served.
LEMMA ServeStep ==
    ASSUME "alterError" \notin Disruptions
    PROVE  TypeOK /\ GuardInv /\ PasswordInv /\ ProvisionedInv /\ ServeInv /\ [Next]_vars => ServeInv'
<1>1. ASSUME ServeInv, UNCHANGED vars PROVE ServeInv'
  BY <1>1
  DEF ServeInv, SecretsTold, NoLiveRelease, ConditionsDone, SecretDone, RoleDone, RestIsServed,
      Quiet, Settled, Served, Garbage, LiveResource, Stored, StoredSecret, vars, worker
<1>2. ASSUME TypeOK, GuardInv, PasswordInv, ProvisionedInv, ServeInv, Next PROVE ServeInv'
  <2>1. SecretsTold' /\ NoLiveRelease'
    BY <1>2, SecretsToldStep, NoLiveReleaseStep DEF ServeInv
  <2>2. ConditionsDone' /\ SecretDone'
    BY <1>2, ConditionsStep, SecretDoneStep DEF ServeInv
  <2>3. RoleDone'
    BY <1>2, RoleDoneStep DEF ServeInv
  <2>4. RestIsServed'
    BY <1>2, RestStep
  <2> QED
    BY <2>1, <2>2, <2>3, <2>4 DEF ServeInv
<1> QED
  BY <1>1, <1>2

\* Where no failure is swallowed, a controller that has come to rest over a
\* live resource has served it, whatever failed, was lost, crashed, changed
\* or was read too early before.
THEOREM ServesAtRest ==
    ASSUME "alterError" \notin Disruptions
    PROVE  Spec => []RestIsServed
<1>1. Spec => []ServeInv
  BY TypeCorrect, GuardInvariant, PasswordInvariant, ProvisionedInvariant, ServeInit, ServeStep, PTL
  DEF Spec, Safety
<1>2. ServeInv => RestIsServed
  BY DEF ServeInv
<1> QED
  BY <1>1, <1>2, PTL

-----------------------------------------------------------------------------
(* Steps of a larger system.  What gives the dependencies and shares the   *)
(* budget moves them its own way, so these lemmas ask for neither.         *)

\* What is known of a run, the secret and the servers, whatever is swallowed.
Kept == GuardInv /\ PasswordInv /\ ProvisionedInv

\* What the controller reads of the world changes, or its key is queued.
LEMMA WorldMoves ==
    ASSUME UNCHANGED <<resource, secrets, retired, server, worker>>, queued => queued'
    PROVE  /\ Kept => Kept'
           /\ ServeInv => ServeInv'
<1>1. GuardInv => GuardInv'
  BY DEF GuardInv, HistoryInv, RunInv, GuardedWhileProvisioning, Stored, worker
<1>2. PasswordInv => PasswordInv'
  BY SamePassword DEF worker
<1>3. ProvisionedInv => ProvisionedInv'
  BY DEF ProvisionedInv, VersionsTold, ReadyTold, StatementsDone, worker
<1>4. ServeInv => ServeInv'
  BY DEF ServeInv, SecretsTold, NoLiveRelease, ConditionsDone, SecretDone, RoleDone, RestIsServed,
         Quiet, Settled, Served, Garbage, LiveResource, Stored, StoredSecret, worker
<1> QED
  BY <1>1, <1>2, <1>3, <1>4 DEF Kept

\* A run fails, for whatever reason, and has changed nothing.
LEMMA RunFails ==
    ASSUME TypeOK, pc \in Provisioning, NEW types, Fail(types),
           UNCHANGED <<resource, secrets, retired, server>>
    PROVE  /\ StreamsOK' /\ WorkerOK'
           /\ Kept => Kept'
           /\ ServeInv => ServeInv'
<1> DEFINE c == SetConditions(copy, types, "False")
<1>1. /\ pc' = "report" /\ copy' = WithPhase(c) /\ UNCHANGED <<queued, fresh>>
      /\ copy \in Versions /\ pc # "idle"
  BY DEF Fail, Continue, TypeOK, WorkerOK, Provisioning
<1>2. StreamsOK' /\ WorkerOK'
  BY FailType DEF TypeOK, StreamsOK
<1>3. GuardInv => GuardInv'
  <2>1. c \in Versions /\ SameLife(c, copy)
    BY <1>1, SetConditionsType DEF SameLife
  <2>2. SameLife(copy', copy)
    BY <1>1, <2>1, WithPhaseType DEF SameLife
  <2> QED
    BY <1>1, <2>2, StayRun, SameHistory DEF GuardInv, TypeOK
<1>4. PasswordInv => PasswordInv'
  BY <1>1, SamePassword DEF SettingPassword
<1>5. ProvisionedInv => ProvisionedInv'
  <2>1. SameReady(copy, copy')
    BY <1>1, ConditionsReady
  <2>2. ReadyTold(copy.status) => ReadyTold(copy.status)'
    BY <2>1 DEF ReadyTold, SameReady
  <2>3. VersionsTold => VersionsTold'
    BY DEF VersionsTold, ReadyTold
  <2>4. StatementsDone'
    BY <1>1, NotStating DEF Stating
  <2> QED
    BY <2>2, <2>3, <2>4 DEF ProvisionedInv
<1>6. ServeInv => ServeInv'
  BY <1>1 DEF ServeInv, SecretsTold, NoLiveRelease, ConditionsDone, SecretDone, RoleDone, RoleSet,
              RestIsServed, Quiet, Provisioning, Unguarding
<1> QED
  BY <1>2, <1>3, <1>4, <1>5, <1>6 DEF Kept

\* An ALTER fails, which is only logged.
LEMMA AlterSwallowed ==
    ASSUME TypeOK,
           \/ pc = "alterUser" /\ Proceed("createDatabase")
           \/ pc = "alterOwner" /\ Proceed("grant"),
           UNCHANGED <<resource, secrets, retired, server>>
    PROVE  /\ StreamsOK' /\ WorkerOK'
           /\ Kept => Kept'
<1>1. /\ pc \in {"alterUser", "alterOwner"} /\ pc' \in {"createDatabase", "grant"}
      /\ pc = "alterUser" => pc' = "createDatabase"
      /\ UNCHANGED <<queued, copy, fresh, pw, existed, target>>
  BY DEF Proceed, Continue
<1>2. StreamsOK' /\ WorkerOK'
  BY <1>1 DEF TypeOK, StreamsOK, WorkerOK, Provisioning, Labels
<1>3. GuardInv => GuardInv'
  <2>1. SameLife(copy', copy) /\ pc # "idle" /\ pc \in Provisioning /\ pc' \in Provisioning
    BY <1>1 DEF SameLife, Provisioning
  <2> QED
    BY <1>1, <2>1, StayRun, SameHistory DEF GuardInv, TypeOK
<1>4. PasswordInv => PasswordInv'
  BY <1>1, SamePassword DEF SettingPassword
<1>5. ProvisionedInv => ProvisionedInv'
  BY <1>1 DEF ProvisionedInv, VersionsTold, ReadyTold, StatementsDone
<1> QED
  BY <1>2, <1>3, <1>4, <1>5 DEF Kept

\* A new process lists what is stored, and finds the dependencies as they are.
LEMMA WorkerRestarts ==
    ASSUME TypeOK, RestartWorker
    PROVE  /\ StreamsOK' /\ WorkerOK' /\ budget' \in 0..MaxDisruptions
           /\ Kept => Kept'
           /\ ServeInv => ServeInv'
           /\ FreshInv => FreshInv'
<1>1. /\ Stored \in Versions /\ StoredSecret \in Secrets
      /\ resource' = <<Stored>> /\ secrets' = <<StoredSecret>> /\ UNCHANGED <<retired, server>>
      /\ pc' = "idle" /\ copy' = Absent
      /\ queued' = (Stored.uid # 0 \/ StoredSecret.owner # 0)
  BY EndsType DEF TypeOK, RestartWorker
<1>2. /\ Len(resource') = 1 /\ Stored' = Stored /\ \A i \in 1..Len(resource') : resource'[i] = Stored
      /\ Len(secrets') = 1 /\ StoredSecret' = StoredSecret
      /\ \A k \in 1..Len(secrets') : secrets'[k] = StoredSecret
  <2>1. Len(resource') = 1 /\ resource'[1] = Stored /\ Len(secrets') = 1 /\ secrets'[1] = StoredSecret
    BY <1>1, SingletonStream
  <2>2. Stored' = Stored /\ StoredSecret' = StoredSecret
    BY <2>1 DEF Stored, StoredSecret
  <2> QED
    BY <2>1, <2>2
<1>3. StreamsOK' /\ WorkerOK' /\ budget' \in 0..MaxDisruptions
  <2>1. StreamsOK'
    BY <1>1, SingletonStream, ConstantsAssumption DEF ConstantsAssumption, TypeOK, StreamsOK
  <2>2. WorkerOK'
    BY <1>1, AbsentType DEF RestartWorker, WorkerOK, Labels, Provisioning, TypeOK
  <2> QED
    BY <2>1, <2>2, DisruptType DEF RestartWorker, TypeOK, WorldOK
<1>4. GuardInv => GuardInv'
  <2>1. HistoryInv => (Guarded(Stored) => Stored.uid # 0 /\ Stored.finalizer)
    BY DEF HistoryInv, TypeOK, StreamsOK, Stored
  <2>2. \A i, j \in 1..Len(resource') : ~(i < j)
    BY <1>2
  <2> QED
    BY <1>1, <1>2, <2>1, <2>2, IdleRun DEF GuardInv, HistoryInv
<1>5. PasswordInv => PasswordInv'
  <2> SUFFICES ASSUME PasswordInv PROVE PasswordInv'
    OBVIOUS
  <2>1. StoredSecret # NoSecret => StoredSecret.pw \in Passwords
    BY SecretEnds DEF TypeOK, PasswordInv
  <2>2. pc' \notin SettingPassword
    BY <1>1 DEF SettingPassword
  <2> QED
    BY <1>1, <1>2, <2>1, <2>2 DEF PasswordInv
<1>6. ProvisionedInv => ProvisionedInv'
  <2>1. ReadyTold(copy.status)'
    BY <1>1 DEF Absent, NoStatus, ReadyTold, CondTypes
  <2>2. VersionsTold => VersionsTold'
    BY <1>1, <1>2, EndsTold DEF VersionsTold, ReadyTold
  <2>3. StatementsDone'
    BY <1>1, NotStating DEF Stating
  <2> QED
    BY <2>1, <2>2, <2>3 DEF ProvisionedInv
<1>7. ServeInv => ServeInv'
  <2>1. SecretsTold => SecretsTold'
    <3>1. SecretsTold => (StoredSecret # NoSecret => StoredSecret.owner # 0)
      BY SecretEnds DEF SecretsTold, TypeOK
    <3>2. 1..Len(secrets') - 1 = {}
      BY <1>2
    <3> QED
      BY <1>2, <3>1, <3>2 DEF SecretsTold
  <2>2. RestIsServed'
    BY <1>1, <1>2 DEF RestIsServed, Quiet, Settled, LiveResource
  <2> QED
    BY <1>1, <2>1, <2>2 DEF ServeInv, NoLiveRelease, ConditionsDone, SecretDone, RoleDone, RoleSet,
                            Provisioning, Unguarding
<1>8. FreshInv => FreshInv'
  BY <1>1, <1>2 DEF FreshInv
<1> QED
  BY <1>3, <1>4, <1>5, <1>6, <1>7, <1>8 DEF Kept

\* A run that works on its server worked on it, or tried to connect, before.
LEMMA StaysOnServer ==
    ASSUME Reconcile, pc' \in Provisioning \ {"connect"}
    PROVE  pc \in Provisioning /\ target' = target
<1>1. ASSUME NEW label, NEW kinds, NEW effect, NEW next, NEW failed,
             Execute(label, kinds, effect, next, failed)
      PROVE  pc = label /\ target' = target
  BY <1>1 DEF Execute, Proceed, Fail
<1>2. ~(\/ SkipReconcile \/ StartProvisioning \/ StartDeletion \/ Report \/ HandleDeletion
        \/ FetchAndValidateCluster \/ ResolveClusterConnection \/ EnsureFinalizer \/ UpdateStatus)
  BY DEF SkipReconcile, StartProvisioning, StartDeletion, Start, Dequeue, Report, HandleDeletion,
         Lookup, ReportDeletion, DropDatabaseAndUser, Refetch, RemoveFinalizer,
         FetchAndValidateCluster, ResolveClusterConnection, EnsureFinalizer, UpdateStatus,
         Return, Fail, Succeed, Proceed, Continue, Provisioning
<1>3. CASE CreateUser \/ AlterUser \/ CreateDatabase \/ AlterDatabaseOwner \/ GrantPrivileges
  BY <1>1, <1>3
  DEF CreateUser, AlterUser, CreateDatabase, AlterDatabaseOwner, GrantPrivileges, Provisioning
<1>4. CASE ConnectToDatabase \/ EnsureConnectionSecret \/ FindUser \/ FindDatabase
           \/ TransferObjectOwnership
  BY <1>4
  DEF ConnectToDatabase, EnsureConnectionSecret, FindUser, FindDatabase, TransferObjectOwnership,
      Fail, Proceed, Provisioning
<1> QED
  BY <1>2, <1>3, <1>4 DEF Reconcile, Provision

-----------------------------------------------------------------------------
(* Servers that were empty.                                                *)

\* A step that leaves the servers and the stored secret alone.
LEMMA StaysFresh ==
    ASSUME FreshInv, UNCHANGED <<retired, server>>, StoredSecret' = StoredSecret
    PROVE  FreshInv'
BY DEF FreshInv

\* The secret is created where no role has a password yet.
LEMMA SecretFresh ==
    ASSUME TypeOK, GuardInv, FreshInv, EnsureConnectionSecret
    PROVE  FreshInv'
<1>1. CASE UNCHANGED <<secrets, retired>>
  BY <1>1, StaysFresh DEF EnsureConnectionSecret, StoredSecret
<1>2. ASSUME NEW password \in FreshPasswords, NEW o \in CreateOutcomes, TookEffect(o),
             StoreSecret([owner |-> copy.uid, pw |-> password, host |-> target])
      PROVE  FreshInv'
  <2> DEFINE s == [owner |-> copy.uid, pw |-> password, host |-> target]
  <2>1. copy \in Versions /\ copy.uid # 0 /\ target \in Hosts /\ UNCHANGED server
    BY DEF EnsureConnectionSecret, GuardInv, RunInv, GuardedWhileProvisioning, Provisioning,
           TypeOK, WorkerOK
  <2>2. s \in Secrets /\ s.owner # 0
    BY <1>2, <2>1 DEF Secrets, FreshPasswords, Versions
  <2>3. s # NoSecret
    BY <2>2 DEF NoSecret
  <2>4. StoredSecret = NoSecret /\ StoredSecret.pw = NoPassword
    BY <1>2 DEF CreateOutcomes, TookEffect, NoSecret
  <2>5. ~retired'
    BY <1>2, <2>3 DEF StoreSecret, FreshInv
  <2> QED
    BY <2>1, <2>4, <2>5 DEF FreshInv
<1> QED
  BY <1>1, <1>2 DEF EnsureConnectionSecret

\* While no secret is deleted, the servers hold nothing but the resource's.
LEMMA FreshStep ==
    ASSUME TypeOK, GuardInv, PasswordInv, FreshInv,
           Reconcile \/ CreateResource \/ DeliverResource \/ DeliverSecret
    PROVE  FreshInv'
<1>0. server \in [Hosts -> ServerStates]
  BY DEF TypeOK, WorldOK
<1>1. ASSUME UNCHANGED <<secrets, retired>>, NEW h \in Hosts, NEW e \in ServerStates,
             e.role \in {NoPassword, StoredSecret.pw}, e.owner # "other",
             UNCHANGED server \/ server' = [server EXCEPT ![h] = e]
      PROVE  FreshInv'
  BY <1>0, <1>1 DEF FreshInv, StoredSecret
<1>2. ASSUME UNCHANGED <<secrets, retired>>, UNCHANGED server
      PROVE  FreshInv'
  BY <1>2, StaysFresh DEF StoredSecret
<1>3. CASE CreateUser \/ AlterUser
  <2> DEFINE e == [server[target] EXCEPT !.role = pw]
  <2>1. /\ pc \in SettingPassword /\ target \in Hosts /\ server[target] \in ServerStates
        /\ UNCHANGED <<secrets, retired>>
        /\ UNCHANGED server \/ server' = [server EXCEPT ![target] = e]
    BY <1>0, <1>3 DEF CreateUser, AlterUser, Execute, SettingPassword, TypeOK, WorkerOK, Provisioning
  <2>2. pw = StoredSecret.pw /\ pw \in Passwords
    BY <2>1 DEF PasswordInv, FreshInv
  <2>3. e \in ServerStates /\ e.role = pw /\ e.owner = server[target].owner
    BY <2>1, <2>2 DEF ServerStates
  <2>4. e.role \in {NoPassword, StoredSecret.pw} /\ e.owner # "other"
    BY <2>1, <2>2, <2>3 DEF FreshInv
  <2> HIDE DEF e
  <2> QED
    BY <1>1, <2>1, <2>3, <2>4
<1>4. CASE CreateDatabase \/ AlterDatabaseOwner \/ GrantPrivileges \/ TransferObjectOwnership
  <2> DEFINE created == [server[target] EXCEPT !.owner = "user", !.granted = FALSE, !.repaired = TRUE]
             owned == [server[target] EXCEPT !.owner = "user"]
             granted == [server[target] EXCEPT !.granted = TRUE]
             repaired == [server[target] EXCEPT !.repaired = TRUE]
  <2>1. target \in Hosts /\ server[target] \in ServerStates /\ UNCHANGED <<secrets, retired>>
    BY <1>0, <1>4 DEF CreateDatabase, AlterDatabaseOwner, GrantPrivileges, TransferObjectOwnership,
                      Execute, TypeOK, WorkerOK, Provisioning
  <2>2. server[target].role \in {NoPassword, StoredSecret.pw} /\ server[target].owner # "other"
    BY <2>1 DEF FreshInv
  <2>3. \A e \in {created, owned, granted, repaired} :
           e \in ServerStates /\ e.role \in {NoPassword, StoredSecret.pw} /\ e.owner # "other"
    BY <2>1, <2>2 DEF ServerStates
  <2>4. \/ UNCHANGED server
        \/ \E e \in {created, owned, granted, repaired} : server' = [server EXCEPT ![target] = e]
    BY <1>0, <1>4, <2>1
    DEF CreateDatabase, AlterDatabaseOwner, GrantPrivileges, TransferObjectOwnership, Execute
  <2> QED
    BY <1>1, <1>2, <2>1, <2>3, <2>4
<1>5. CASE DropDatabaseAndUser
  <2>1. server' = [server EXCEPT ![target] = server[target]] /\ UNCHANGED <<secrets, retired>>
    BY <1>5 DEF DropDatabaseAndUser, AfterTransaction, RejectedInTransaction
  <2> QED
    BY <1>0, <1>2, <2>1
<1>6. CASE EnsureConnectionSecret
  BY <1>6, SecretFresh
<1>7. CASE DeliverSecret
  <2>1. StoredSecret' = StoredSecret /\ UNCHANGED <<retired, server>>
    BY <1>7, ShortenedStream DEF DeliverSecret, TypeOK, StreamsOK, StoredSecret
  <2> QED
    BY <2>1, StaysFresh
<1>8. CASE ~(\/ CreateUser \/ AlterUser \/ CreateDatabase \/ AlterDatabaseOwner \/ GrantPrivileges
             \/ TransferObjectOwnership \/ DropDatabaseAndUser \/ EnsureConnectionSecret
             \/ DeliverSecret)
  <2>1. UNCHANGED server
    BY <1>8, ServersAlone DEF Next, User, Environment
  <2>2. UNCHANGED <<secrets, retired>>
    BY <1>8
    DEF Reconcile, Provision, HandleDeletion, SkipReconcile, StartProvisioning, StartDeletion,
        Dequeue, Report, FetchAndValidateCluster, ResolveClusterConnection, EnsureFinalizer,
        ConnectToDatabase, FindUser, FindDatabase, UpdateStatus, Lookup, ReportDeletion, Refetch,
        RemoveFinalizer, CreateResource, DeliverResource
  <2> QED
    BY <1>2, <2>1, <2>2
<1> QED
  BY <1>3, <1>4, <1>5, <1>6, <1>7, <1>8

\* There, an ALTER that fails would have changed nothing.
LEMMA SwallowedWithoutEffect ==
    ASSUME TypeOK, PasswordInv, ProvisionedInv, FreshInv,
           UNCHANGED <<resource, secrets, retired, server, dependencies, uids, budget>>
    PROVE  /\ pc = "alterUser" /\ Proceed("createDatabase") => AlterUser
           /\ pc = "alterOwner" /\ Proceed("grant") => AlterDatabaseOwner
<1>1. "ok" \in Outcomes({"alterError"}) /\ Spend("ok") /\ TookEffect("ok")
  BY ConstantsAssumption DEF ConstantsAssumption, Outcomes, Spend, TookEffect
<1>2. server \in [Hosts -> ServerStates]
  BY DEF TypeOK, WorldOK
<1>3. ASSUME pc = "alterUser", Proceed("createDatabase") PROVE AlterUser
  <2>1. target \in Hosts /\ server[target] \in ServerStates
    BY <1>2, <1>3 DEF TypeOK, WorkerOK, Provisioning
  <2>2. server[target].role = pw
    BY <1>3, <2>1
    DEF ProvisionedInv, StatementsDone, PasswordInv, SettingPassword, FreshInv
  <2>3. [server EXCEPT ![target] = [server[target] EXCEPT !.role = pw]] = server
    BY <1>2, <2>1, <2>2 DEF ServerStates
  <2> QED
    BY <1>1, <1>3, <2>3 DEF AlterUser, Execute
<1>4. ASSUME pc = "alterOwner", Proceed("grant") PROVE AlterDatabaseOwner
  <2>1. target \in Hosts /\ server[target] \in ServerStates
    BY <1>2, <1>4 DEF TypeOK, WorkerOK, Provisioning
  <2>2. server[target].owner = "user"
    BY <1>4, <2>1 DEF ProvisionedInv, StatementsDone, FreshInv, ServerStates
  <2>3. [server EXCEPT ![target] = [server[target] EXCEPT !.owner = "user"]] = server
    BY <1>2, <2>1, <2>2 DEF ServerStates
  <2> QED
    BY <1>1, <1>4, <2>3 DEF AlterDatabaseOwner, Execute
<1> QED
  BY <1>3, <1>4

=============================================================================
