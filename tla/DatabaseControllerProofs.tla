---------------------- MODULE DatabaseControllerProofs ----------------------
(***************************************************************************)
(* Proofs about DatabaseController, for every value of its constants.      *)
(***************************************************************************)
EXTENDS DatabaseController, Streams

-----------------------------------------------------------------------------
(* What the operators on a resource yield.                                 *)

\* The operators of the status keep a version of the resource a version.
LEMMA SetConditionsType ==
    ASSUME NEW c \in Versions, NEW types, NEW value \in {"Unset", "True", "False"}
    PROVE  /\ SetConditions(c, types, value) \in Versions
           /\ SetConditions(c, types, value).uid = c.uid
           /\ SetConditions(c, types, value).deleting = c.deleting
           /\ SetConditions(c, types, value).finalizer = c.finalizer
BY DEF SetConditions, Versions, Statuses

\* updatePhase changes the phase of a version and nothing else.
LEMMA WithPhaseType ==
    ASSUME NEW c \in Versions
    PROVE  /\ WithPhase(c) \in Versions
           /\ WithPhase(c).uid = c.uid
           /\ WithPhase(c).deleting = c.deleting
           /\ WithPhase(c).finalizer = c.finalizer
<1>1. PhaseOf(c) \in {"Pending", "Creating", "Ready", "Failed", "Deleting"}
  BY DEF PhaseOf
<1> QED
  BY <1>1 DEF WithPhase, Versions, Statuses

\* The summary written by updateStatus is a status.
LEMMA SummarisedType ==
    ASSUME NEW c \in Versions, NEW h \in Hosts
    PROVE  Summarised(c, h).status \in Statuses
<1> DEFINE ready == \A t \in CondTypes \ {"Ready"} : c.status.conds[t] = "True"
           value == IF ready THEN "True" ELSE "False"
           c1 == WithPhase(SetConditions(c, {"Ready"}, value))
<1>1. c1 \in Versions
  BY SetConditionsType, WithPhaseType
<1>2. [c1 EXCEPT !.status.host = h].status \in Statuses
  BY <1>1 DEF Versions, Statuses
<1> QED
  BY <1>1, <1>2 DEF Summarised, Versions

\* The resource that is not there is a version.
LEMMA AbsentType == Absent \in Versions
BY ConstantsAssumption DEF ConstantsAssumption, Absent, Versions, NoStatus, Statuses

-----------------------------------------------------------------------------
(* The two watch streams.                                                  *)

\* What is cached and what is stored are versions.
LEMMA EndsType ==
    ASSUME StreamsOK
    PROVE  /\ Cached \in Versions /\ Stored \in Versions
           /\ CachedSecret \in Secrets /\ StoredSecret \in Secrets
BY EndsOfStream DEF StreamsOK, Cached, Stored, CachedSecret, StoredSecret

\* A write leaves the stream of the resource a stream.
LEMMA StoreType ==
    ASSUME StreamsOK, NEW v \in Versions, NEW o, StoreIf(o, v)
    PROVE  resource' \in Seq(Versions) /\ Len(resource') \in 1..MaxLag + 1
<1> USE ConstantsAssumption DEF ConstantsAssumption
<1>1. CASE Len(resource) <= MaxLag /\ resource' = Append(resource, v)
  BY <1>1, GrownStream DEF StreamsOK
<1>2. CASE UNCHANGED resource
  BY <1>2 DEF StreamsOK
<1> QED
  BY <1>1, <1>2 DEF StoreIf, Store

\* A write of the connection secret keeps its stream a stream.
LEMMA StoreSecretType ==
    ASSUME StreamsOK, NEW s \in Secrets, StoreSecret(s)
    PROVE  /\ secrets' \in Seq(Secrets) /\ Len(secrets') \in 1..MaxLag + 1
           /\ retired' \in BOOLEAN
BY ConstantsAssumption, GrownStream DEF ConstantsAssumption, StreamsOK, StoreSecret

\* A disruption is only spent while there are some left.
LEMMA SpendType ==
    ASSUME budget \in 0..MaxDisruptions, NEW kinds, NEW o, Spend(o),
           o \in Outcomes(kinds) \cup {"conflict", "alreadyExists"}
    PROVE  budget' \in 0..MaxDisruptions
BY ConstantsAssumption DEF ConstantsAssumption, Spend, Outcomes

\* The same of an update of the resource.
LEMMA UpdateSpendType ==
    ASSUME budget \in 0..MaxDisruptions, NEW o \in UpdateOutcomes, Spend(o)
    PROVE  budget' \in 0..MaxDisruptions
BY SpendType DEF UpdateOutcomes

\* The same of a disruption that the environment causes.
LEMMA DisruptType ==
    ASSUME budget \in 0..MaxDisruptions, NEW kind, Disrupt(kind)
    PROVE  budget' \in 0..MaxDisruptions
BY ConstantsAssumption DEF ConstantsAssumption, Disrupt

-----------------------------------------------------------------------------
(* The worker's ways of going on.                                          *)

\* A Reconcile that returns leaves a worker of the right types.
LEMMA ReturnType ==
    ASSUME WorkerOK, NEW again \in BOOLEAN, Return(again)
    PROVE  WorkerOK'
BY AbsentType DEF WorkerOK, Return, Labels, Provisioning, Unguarding

\* So does a step that reports a failed condition.
LEMMA FailType ==
    ASSUME WorkerOK, NEW types, Fail(types)
    PROVE  WorkerOK'
BY SetConditionsType, WithPhaseType
DEF WorkerOK, Fail, Continue, Labels, Provisioning, Unguarding

\* So does one that goes on to the next call.
LEMMA ProceedType ==
    ASSUME WorkerOK, NEW label \in Labels, Proceed(label),
           label \in Provisioning \cup {"finalizer", "drop"} => target \in Hosts
    PROVE  WorkerOK'
BY DEF WorkerOK, Proceed, Continue

-----------------------------------------------------------------------------
(* Type correctness.                                                       *)

\* The initial states are of the right types.
LEMMA TypeInit == Init => TypeOK
<1> SUFFICES ASSUME Init PROVE TypeOK
  OBVIOUS
<1> USE ConstantsAssumption DEF ConstantsAssumption, Init
<1>1. NoSecret \in Secrets
  BY DEF NoSecret, Secrets
<1>2. StreamsOK
  <2>1. retired \in BOOLEAN
    OBVIOUS
  <2>2. resource \in Seq(Versions) /\ Len(resource) \in 1..MaxLag + 1
    BY AbsentType, SingletonStream
  <2>3. secrets \in Seq(Secrets) /\ Len(secrets) \in 1..MaxLag + 1
    BY <1>1, SingletonStream
  <2> QED
    BY <2>1, <2>2, <2>3 DEF StreamsOK
<1>3. WorkerOK
  BY AbsentType DEF WorkerOK, Labels, Provisioning, Unguarding
<1>4. WorldOK
  BY DEF WorldOK
<1> QED
  BY <1>2, <1>3, <1>4 DEF TypeOK

\* One statement on a server.
LEMMA ExecuteType ==
    ASSUME TypeOK, NEW label \in Provisioning, NEW kinds, NEW effect \in ServerStates,
           NEW next \in Provisioning, NEW failed,
           Execute(label, kinds, effect, next, failed)
    PROVE  TypeOK'
<1> USE DEF TypeOK
<1>1. target \in Hosts
  BY DEF Execute, WorkerOK
<1>2. StreamsOK'
  BY DEF Execute, StreamsOK
<1>3. WorkerOK'
  BY <1>1, FailType, ProceedType DEF Execute, Labels
<1>4. WorldOK'
  BY <1>1, SpendType DEF Execute, WorldOK, dependencies
<1> QED
  BY <1>2, <1>3, <1>4

\* A step of Reconcile keeps the types.
LEMMA TypeReconcile == TypeOK /\ Reconcile => TypeOK'
<1> SUFFICES ASSUME TypeOK, Reconcile PROVE TypeOK'
  OBVIOUS
<1> USE DEF TypeOK
<1>0. Cached \in Versions /\ Stored \in Versions /\ CachedSecret \in Secrets /\ StoredSecret \in Secrets
  BY EndsType
<1>1. CASE SkipReconcile
  BY <1>1 DEF SkipReconcile, Dequeue, StreamsOK, WorkerOK, WorldOK, dependencies
<1>2. CASE StartProvisioning
  BY <1>0, <1>2 DEF StartProvisioning, Dequeue, Start, StreamsOK, WorkerOK, WorldOK, dependencies,
                    Labels, Provisioning, Unguarding
<1>3. CASE StartDeletion
  BY <1>0, <1>3 DEF StartDeletion, Dequeue, Start, StreamsOK, WorkerOK, WorldOK, dependencies,
                    Labels, Provisioning, Unguarding
<1>4. CASE Report
  <2> PICK o \in UpdateOutcomes : /\ StoreIf(o, [Stored EXCEPT !.status = copy.status])
                                  /\ Spend(o)
    BY <1>4 DEF Report
  <2>1. [Stored EXCEPT !.status = copy.status] \in Versions
    BY <1>0 DEF Versions, WorkerOK
  <2>2. StreamsOK'
    BY <1>4, <2>1, StoreType DEF Report, StreamsOK
  <2>3. WorkerOK'
    BY <1>4, ReturnType DEF Report, Requeue
  <2>4. WorldOK'
    BY <1>4, UpdateSpendType DEF Report, WorldOK, dependencies
  <2> QED
    BY <2>2, <2>3, <2>4
<1>5. CASE FetchAndValidateCluster
  <2>1. StreamsOK' /\ WorldOK'
    BY <1>5 DEF FetchAndValidateCluster, StreamsOK, WorldOK, dependencies
  <2>2. WorkerOK'
    BY <1>5, FailType, SetConditionsType
    DEF FetchAndValidateCluster, Succeed, Continue, WorkerOK, Labels, Provisioning, Unguarding
  <2> QED
    BY <2>1, <2>2
<1>6. CASE ResolveClusterConnection
  <2>1. StreamsOK' /\ WorldOK'
    BY <1>6 DEF ResolveClusterConnection, StreamsOK, WorldOK, dependencies
  <2>2. CASE config \in {"secretMissing", "empty"} /\ Fail({"SecretReady"})
    BY <2>1, <2>2, FailType
  <2>3. CASE config = "invalid" /\ Return(TRUE)
    BY <2>1, <2>3, ReturnType
  <2>4. CASE /\ config = "ok"
             /\ Succeed({"SecretReady"}, "finalizer")
             /\ target' = host
             /\ UNCHANGED <<fresh, pw, existed>>
    <3>1. WorkerOK'
      BY <2>4, SetConditionsType DEF Succeed, Continue, WorkerOK, WorldOK, Labels, Provisioning, Unguarding
    <3> QED
      BY <2>1, <3>1
  <2> QED
    BY <1>6, <2>2, <2>3, <2>4 DEF ResolveClusterConnection
<1>7. CASE EnsureFinalizer
  <2>0. pc = "finalizer" /\ target \in Hosts
    BY <1>7 DEF EnsureFinalizer, WorkerOK
  <2>1. CASE Proceed("connect") /\ UNCHANGED <<resource, budget>>
    BY <1>7, <2>0, <2>1, ProceedType
    DEF EnsureFinalizer, StreamsOK, WorldOK, dependencies, Labels, Provisioning
  <2>2. CASE \E o \in UpdateOutcomes :
                /\ StoreIf(o, [Stored EXCEPT !.finalizer = TRUE])
                /\ Spend(o)
                /\ IF MustRetry(o)
                   THEN Return(TRUE)
                   ELSE /\ Continue("connect")
                        /\ copy' = Decoded(copy, Stored)
                        /\ UNCHANGED <<fresh, pw, existed, target>>
    <3> PICK o \in UpdateOutcomes :
                /\ StoreIf(o, [Stored EXCEPT !.finalizer = TRUE])
                /\ Spend(o)
                /\ IF MustRetry(o)
                   THEN Return(TRUE)
                   ELSE /\ Continue("connect")
                        /\ copy' = Decoded(copy, Stored)
                        /\ UNCHANGED <<fresh, pw, existed, target>>
      BY <2>2
    <3>1. [Stored EXCEPT !.finalizer = TRUE] \in Versions
      BY <1>0 DEF Versions
    <3>2. StreamsOK'
      BY <1>7, <3>1, StoreType DEF EnsureFinalizer, StreamsOK
    <3>3. Decoded(copy, Stored) \in Versions
      BY <1>0 DEF Decoded, Versions, WorkerOK
    <3>4. WorkerOK'
      BY <2>0, <3>3, ReturnType DEF Continue, WorkerOK, Labels, Provisioning
    <3>5. WorldOK'
      BY <1>7, UpdateSpendType DEF EnsureFinalizer, WorldOK, dependencies
    <3> QED
      BY <3>2, <3>4, <3>5
  <2> QED
    BY <1>7, <2>1, <2>2 DEF EnsureFinalizer
<1>8. CASE ConnectToDatabase
  <2>0. pc = "connect" /\ target \in Hosts
    BY <1>8 DEF ConnectToDatabase, WorkerOK, Provisioning
  <2>1. StreamsOK' /\ WorldOK'
    BY <1>8, SpendType DEF ConnectToDatabase, StreamsOK, WorldOK, dependencies
  <2>2. WorkerOK'
    BY <1>8, <2>0, FailType, SetConditionsType
    DEF ConnectToDatabase, Succeed, Continue, WorkerOK, Labels, Provisioning
  <2> QED
    BY <2>1, <2>2
<1>9. CASE EnsureConnectionSecret
  <2>0. pc = "secret" /\ target \in Hosts
    BY <1>9 DEF EnsureConnectionSecret, WorkerOK, Provisioning
  <2>1. CASE /\ pw' = CachedSecret.pw
             /\ Succeed({"SecretReady"}, "createUser")
             /\ UNCHANGED <<secrets, retired, budget, fresh, existed, target>>
    <3>1. WorkerOK'
      BY <1>0, <2>0, <2>1, SetConditionsType
      DEF Succeed, Continue, WorkerOK, Secrets, Labels, Provisioning
    <3> QED
      BY <1>9, <2>1, <3>1 DEF EnsureConnectionSecret, StreamsOK, WorldOK, dependencies
  <2>2. ASSUME NEW password \in FreshPasswords, NEW o \in CreateOutcomes,
               IF TookEffect(o)
                  THEN StoreSecret([owner |-> copy.uid, pw |-> password, host |-> target])
                  ELSE UNCHANGED <<secrets, retired>>,
               Spend(o),
               IF SecretCreated(o)
                  THEN /\ Succeed({"SecretReady"}, "createUser")
                       /\ pw' = password
                       /\ UNCHANGED <<fresh, existed, target>>
                  ELSE Fail({"SecretReady"})
        PROVE TypeOK'
    <3>1. [owner |-> copy.uid, pw |-> password, host |-> target] \in Secrets
      BY <2>0 DEF Secrets, WorkerOK, Versions, FreshPasswords
    <3>2. StreamsOK'
      BY <1>9, <2>2, <3>1, StoreSecretType DEF EnsureConnectionSecret, StreamsOK
    <3>3. WorkerOK'
      BY <2>0, <2>2, FailType, SetConditionsType
      DEF Succeed, Continue, WorkerOK, FreshPasswords, Labels, Provisioning
    <3>4. budget' \in 0..MaxDisruptions
      BY <2>2, SpendType DEF CreateOutcomes, WorldOK
    <3> QED
      BY <1>9, <3>2, <3>3, <3>4 DEF EnsureConnectionSecret, WorldOK, dependencies
  <2> QED
    BY <1>9, <2>1, <2>2 DEF EnsureConnectionSecret
<1>10. ASSUME pc \in Provisioning PROVE server[target] \in ServerStates
  BY <1>10 DEF WorkerOK, WorldOK
<1>11. CASE CreateUser
  <2>1. [server[target] EXCEPT !.role = pw] \in ServerStates
    BY <1>10, <1>11 DEF CreateUser, WorkerOK, ServerStates, Provisioning
  <2> QED
    BY <1>11, <2>1, ExecuteType DEF CreateUser, Provisioning
<1>12. CASE FindUser
  <2>1. StreamsOK' /\ WorldOK'
    BY <1>12, DisruptType DEF FindUser, StreamsOK, WorldOK, dependencies
  <2>2. WorkerOK'
    BY <1>12, FailType DEF FindUser, Continue, WorkerOK, Labels, Provisioning
  <2> QED
    BY <2>1, <2>2
<1>13. CASE AlterUser
  <2>1. [server[target] EXCEPT !.role = pw] \in ServerStates
    BY <1>10, <1>13 DEF AlterUser, Execute, WorkerOK, ServerStates, Provisioning
  <2> QED
    BY <1>13, <2>1, ExecuteType DEF AlterUser, Provisioning
<1>14. CASE CreateDatabase
  <2>1. [server[target] EXCEPT !.owner = "user", !.granted = FALSE, !.repaired = TRUE] \in ServerStates
    BY <1>10, <1>14 DEF CreateDatabase, ServerStates, Provisioning
  <2> QED
    BY <1>14, <2>1, ExecuteType DEF CreateDatabase, Provisioning
<1>15. CASE FindDatabase
  <2>1. NextAfterFoundDatabase \in Provisioning
    BY DEF NextAfterFoundDatabase, Provisioning
  <2>2. target \in Hosts
    BY <1>15 DEF FindDatabase, WorkerOK, Provisioning
  <2>3. WorkerOK'
    BY <1>15, <2>1, <2>2, ProceedType, FailType DEF FindDatabase, Labels
  <2> QED
    BY <1>15, <2>3, DisruptType DEF FindDatabase, StreamsOK, WorldOK, dependencies
<1>16. CASE AlterDatabaseOwner
  <2>1. [server[target] EXCEPT !.owner = "user"] \in ServerStates
    BY <1>10, <1>16 DEF AlterDatabaseOwner, Execute, ServerStates, Provisioning
  <2> QED
    BY <1>16, <2>1, ExecuteType DEF AlterDatabaseOwner, Provisioning
<1>17. CASE GrantPrivileges
  <2>1. [server[target] EXCEPT !.granted = TRUE] \in ServerStates
    BY <1>10, <1>17 DEF GrantPrivileges, Execute, ServerStates, Provisioning
  <2> QED
    BY <1>17, <2>1, ExecuteType DEF GrantPrivileges, Provisioning
<1>18. CASE TransferObjectOwnership
  <2>0. pc = "repair" /\ target \in Hosts
    BY <1>18 DEF TransferObjectOwnership, WorkerOK, Provisioning
  <2>1. [server EXCEPT ![target].repaired = TRUE] \in [Hosts -> ServerStates]
    BY <2>0 DEF WorldOK, ServerStates
  <2>2. StreamsOK' /\ WorldOK'
    BY <1>18, <2>1, SpendType DEF TransferObjectOwnership, StreamsOK, WorldOK, dependencies
  <2>3. WorkerOK'
    BY <1>18, <2>0, FailType, SetConditionsType
    DEF TransferObjectOwnership, Succeed, Continue, WorkerOK, Labels, Provisioning
  <2> QED
    BY <2>2, <2>3
<1>19. CASE UpdateStatus
  <2> PICK o \in UpdateOutcomes :
              /\ StoreIf(o, [Stored EXCEPT !.status = Summarised(copy, target).status])
              /\ Spend(o)
              /\ Return(MustRetry(o))
    BY <1>19 DEF UpdateStatus
  <2>1. [Stored EXCEPT !.status = Summarised(copy, target).status] \in Versions
    <3>1. target \in Hosts /\ copy \in Versions
      BY <1>19 DEF UpdateStatus, WorkerOK, Provisioning
    <3>2. Summarised(copy, target).status \in Statuses
      BY <3>1, SummarisedType
    <3> QED
      BY <1>0, <3>2 DEF Versions
  <2>2. StreamsOK'
    BY <1>19, <2>1, StoreType DEF UpdateStatus, StreamsOK
  <2>3. WorkerOK'
    BY ReturnType DEF MustRetry
  <2>4. WorldOK'
    BY <1>19, UpdateSpendType DEF UpdateStatus, WorldOK, dependencies
  <2> QED
    BY <2>2, <2>3, <2>4
<1>20. CASE Lookup
  <2>1. StreamsOK' /\ WorldOK'
    BY <1>20 DEF Lookup, StreamsOK, WorldOK, dependencies
  <2>2. WorkerOK'
    BY <1>20, SetConditionsType, WithPhaseType
    DEF Lookup, Continue, WorkerOK, WorldOK, Labels, Provisioning, Unguarding
  <2> QED
    BY <2>1, <2>2
<1>21. CASE ReportDeletion
  <2> PICK o \in UpdateOutcomes : /\ StoreIf(o, [Stored EXCEPT !.status = copy.status])
                                  /\ Spend(o)
    BY <1>21 DEF ReportDeletion
  <2>1. [Stored EXCEPT !.status = copy.status] \in Versions
    BY <1>0 DEF Versions, WorkerOK
  <2>2. StreamsOK'
    BY <1>21, <2>1, StoreType DEF ReportDeletion, StreamsOK
  <2>3. WorkerOK'
    BY <1>21, ProceedType DEF ReportDeletion, Labels, Unguarding, Provisioning
  <2>4. WorldOK'
    BY <1>21, UpdateSpendType DEF ReportDeletion, WorldOK, dependencies
  <2> QED
    BY <2>2, <2>3, <2>4
<1>22. CASE DropDatabaseAndUser
  <2>0. target \in Hosts
    BY <1>22 DEF DropDatabaseAndUser, WorkerOK
  <2>1. AfterTransaction(server[target], {"DROP DATABASE", "DROP USER"}) \in ServerStates
    BY <2>0 DEF WorldOK, AfterTransaction, ServerStates
  <2>2. WorldOK'
    BY <1>22, <2>0, <2>1 DEF DropDatabaseAndUser, WorldOK, dependencies
  <2>3. WorkerOK'
    BY <1>22, ProceedType DEF DropDatabaseAndUser, Labels, Unguarding, Provisioning
  <2> QED
    BY <1>22, <2>2, <2>3 DEF DropDatabaseAndUser, StreamsOK
<1>23. CASE Refetch
  <2>1. StreamsOK' /\ WorldOK'
    BY <1>23 DEF Refetch, StreamsOK, WorldOK, dependencies
  <2>2. WorkerOK'
    BY <1>0, <1>23, ReturnType DEF Refetch, Continue, WorkerOK, Labels, Unguarding, Provisioning
  <2> QED
    BY <2>1, <2>2
<1>24. CASE RemoveFinalizer
  <2> PICK o \in UpdateOutcomes : /\ StoreIf(o, Unguarded(Stored))
                                  /\ Spend(o)
                                  /\ Return(MustRetry(o))
    BY <1>24 DEF RemoveFinalizer
  <2>1. Unguarded(Stored) \in Versions
    BY <1>0, AbsentType DEF Unguarded, Versions
  <2>2. StreamsOK'
    BY <1>24, <2>1, StoreType DEF RemoveFinalizer, StreamsOK
  <2>3. WorkerOK'
    BY ReturnType DEF MustRetry
  <2>4. WorldOK'
    BY <1>24, UpdateSpendType DEF RemoveFinalizer, WorldOK, dependencies
  <2> QED
    BY <2>2, <2>3, <2>4
<1> QED
  BY <1>1, <1>2, <1>3, <1>4, <1>5, <1>6, <1>7, <1>8, <1>9, <1>11, <1>12, <1>13, <1>14, <1>15,
     <1>16, <1>17, <1>18, <1>19, <1>20, <1>21, <1>22, <1>23, <1>24
  DEF Reconcile, Provision, HandleDeletion

\* A new version of the resource.
LEMMA GrownResourceType ==
    ASSUME StreamsOK, NEW v \in Versions, Len(resource) <= MaxLag,
           resource' = Append(resource, v), UNCHANGED <<secrets, retired>>
    PROVE  StreamsOK'
BY ConstantsAssumption, GrownStream DEF ConstantsAssumption, StreamsOK

\* So does what users and the environment do.
LEMMA TypeOthers == TypeOK /\ (User \/ Environment) => TypeOK'
<1> SUFFICES ASSUME TypeOK, User \/ Environment PROVE TypeOK'
  OBVIOUS
<1> USE ConstantsAssumption DEF ConstantsAssumption, TypeOK
<1>0. Cached \in Versions /\ Stored \in Versions /\ CachedSecret \in Secrets /\ StoredSecret \in Secrets
  BY EndsType
<1>1. NoSecret \in Secrets
  BY DEF NoSecret, Secrets
<1>2. CASE CreateResource
  <2> PICK policy \in Policies : resource' = Append(resource, Created(uids', policy))
    BY <1>2 DEF CreateResource
  <2>1. uids' \in 0..MaxUid
    BY <1>2 DEF CreateResource, WorldOK
  <2>2. Created(uids', policy) \in Versions
    BY <2>1, AbsentType DEF Created, Versions
  <2>3. StreamsOK'
    BY <1>2, <2>2, GrownResourceType DEF CreateResource
  <2> QED
    BY <1>2, <2>1, <2>3 DEF CreateResource, WorkerOK, WorldOK, dependencies
<1>3. CASE DeleteResource
  <2> DEFINE v == IF Stored.finalizer THEN [Stored EXCEPT !.deleting = TRUE] ELSE Absent
  <2>1. v \in Versions
    BY <1>0, AbsentType DEF Versions
  <2>2. StreamsOK'
    BY <1>3, <2>1, GrownResourceType DEF DeleteResource
  <2> QED
    BY <1>3, <2>2 DEF DeleteResource, WorkerOK, WorldOK, dependencies
<1>4. CASE DeleteSecret
  <2>1. StreamsOK'
    BY <1>1, <1>4, StoreSecretType DEF DeleteSecret, StreamsOK
  <2> QED
    BY <1>4, <2>1, DisruptType DEF DeleteSecret, WorkerOK, WorldOK, dependencies, worker
<1>5. CASE DeliverResource
  <2>1. StreamsOK'
    BY <1>5, ShortenedStream DEF DeliverResource, StreamsOK
  <2> QED
    BY <1>5, <2>1 DEF DeliverResource, WorkerOK, WorldOK, dependencies, worker
<1>6. CASE DeliverSecret
  <2>1. StreamsOK'
    BY <1>6, ShortenedStream DEF DeliverSecret, StreamsOK
  <2> QED
    BY <1>6, <2>1 DEF DeliverSecret, WorkerOK, WorldOK, dependencies, worker
<1>7. CASE CollectGarbage
  <2>1. StreamsOK'
    BY <1>1, <1>7, StoreSecretType DEF CollectGarbage, StreamsOK
  <2> QED
    BY <1>7, <2>1 DEF CollectGarbage, WorkerOK, WorldOK, dependencies, worker
<1>8. CASE ChangeCluster \/ ChangeConfig \/ ChangeHost \/ Resync
  BY <1>8, DisruptType DEF ChangeCluster, ChangeConfig, ChangeHost, Resync,
                           StreamsOK, WorkerOK, WorldOK, dependencies, worker
<1>9. CASE Restart
  <2>1. StreamsOK'
    BY <1>0, <1>9, SingletonStream DEF Restart, RestartWorker, StreamsOK
  <2>2. WorkerOK'
    BY <1>9, AbsentType DEF Restart, RestartWorker, WorkerOK, Labels, Provisioning
  <2> QED
    BY <1>9, <2>1, <2>2, DisruptType DEF Restart, RestartWorker, WorldOK, dependencies
<1> QED
  BY <1>2, <1>3, <1>4, <1>5, <1>6, <1>7, <1>8, <1>9 DEF User, Environment

\* So does a step that changes nothing.
LEMMA TypeStutter == TypeOK /\ UNCHANGED vars => TypeOK'
BY DEF TypeOK, StreamsOK, WorkerOK, WorldOK, vars, worker, dependencies

\* Type correctness, whatever the number of incarnations, the lag of the
\* informer and the disruptions.
THEOREM TypeCorrect == Spec => []TypeOK
<1>1. TypeOK /\ [Next]_vars => TypeOK'
  BY TypeReconcile, TypeOthers, TypeStutter DEF Next
<1> QED
  BY <1>1, TypeInit, PTL DEF Spec, Safety

-----------------------------------------------------------------------------
(* The finalizer protects what is provisioned.                             *)

\* The stream of the resource after a new version.
LEMMA Appended ==
    ASSUME StreamsOK, NEW v \in Versions, resource' = Append(resource, v)
    PROVE  /\ Len(resource') = Len(resource) + 1
           /\ \A i \in 1..Len(resource) : resource'[i] = resource[i]
           /\ resource'[Len(resource) + 1] = v
           /\ Stored' = v
           /\ \A i \in 1..Len(resource') : i \in 1..Len(resource) \/ i = Len(resource) + 1
BY GrownStream DEF StreamsOK, Stored

\* Two versions that differ in their status at most.
SameLife(v, w) == v.uid = w.uid /\ v.deleting = w.deleting /\ v.finalizer = w.finalizer

\* A write of the status changes nothing that matters here.
LEMMA StatusWrite ==
    ASSUME StreamsOK, HistoryInv, NEW v \in Versions, SameLife(v, Stored), NEW o, StoreIf(o, v)
    PROVE  /\ HistoryInv'
           /\ SameLife(Stored', Stored)
           /\ \A i \in 1..Len(resource') : \E j \in 1..Len(resource) : SameLife(resource'[i], resource[j])
<1>1. CASE resource' = Append(resource, v)
  <2>1. Len(resource) \in 1..Len(resource) /\ Stored = resource[Len(resource)] /\ Len(resource) \in Nat
    BY DEF StreamsOK, Stored
  <2>2. SameLife(Stored', Stored)
    BY <1>1, Appended
  <2>3. \A i \in 1..Len(resource') : \E j \in 1..Len(resource) :
           SameLife(resource'[i], resource[j]) /\ (i = j \/ (i = Len(resource) + 1 /\ j = Len(resource)))
    BY <1>1, <2>1, Appended DEF SameLife
  <2>4. HistoryInv'
    <3>1. ASSUME NEW i \in 1..Len(resource'), Guarded(resource'[i])
          PROVE  Stored'.uid # 0 /\ Stored'.uid = resource'[i].uid /\ Stored'.finalizer
      BY <2>2, <2>3, <3>1 DEF HistoryInv, SameLife, Guarded
    <3>2. ASSUME NEW i \in 1..Len(resource'), NEW j \in 1..Len(resource'), i < j, resource'[i].deleting
          PROVE  ~Guarded(resource'[j])
      <4>1. i \in 1..Len(resource) /\ resource'[i] = resource[i]
        BY <1>1, <2>1, <3>2, Appended
      <4>2. CASE j \in 1..Len(resource)
        BY <1>1, <3>2, <4>1, <4>2, Appended DEF HistoryInv
      <4>3. CASE j = Len(resource) + 1
        <5>1. resource'[j] = v /\ SameLife(v, Stored)
          BY <1>1, <4>3, Appended
        <5>2. ~Guarded(Stored)
          BY <2>1, <3>2, <4>1 DEF HistoryInv, Guarded
        <5> QED
          BY <5>1, <5>2 DEF SameLife, Guarded
      <4> QED
        BY <1>1, <2>1, <4>2, <4>3, Appended
    <3> QED
      BY <3>1, <3>2 DEF HistoryInv
  <2> QED
    BY <2>2, <2>3, <2>4
<1>2. CASE UNCHANGED resource
  BY <1>2 DEF HistoryInv, SameLife, Stored
<1> QED
  BY <1>1, <1>2 DEF StoreIf, Store

\* A version with no finalizer, or marked as deleted, may follow any history
\* in which a guarded version is of the stored incarnation still.
LEMMA HistoryAppend ==
    ASSUME StreamsOK, HistoryInv, NEW v \in Versions, resource' = Append(resource, v),
           ~Guarded(v),
           \/ v.uid = Stored.uid /\ v.finalizer /\ v.uid # 0
           \/ \A i \in 1..Len(resource) : ~Guarded(resource[i])
    PROVE  HistoryInv'
<1>1. Len(resource) \in Nat /\ Len(resource) >= 1
  BY DEF StreamsOK
<1>2. ASSUME NEW i \in 1..Len(resource'), Guarded(resource'[i])
      PROVE  Stored'.uid # 0 /\ Stored'.uid = resource'[i].uid /\ Stored'.finalizer
  BY <1>2, Appended DEF HistoryInv
<1>3. ASSUME NEW i \in 1..Len(resource'), NEW j \in 1..Len(resource'), i < j, resource'[i].deleting
      PROVE  ~Guarded(resource'[j])
  <2>1. CASE j \in 1..Len(resource)
    <3>1. i \in 1..Len(resource)
      BY <1>1, <1>3, <2>1
    <3> QED
      BY <1>3, <2>1, <3>1, Appended DEF HistoryInv
  <2>2. CASE j = Len(resource) + 1
    BY <2>2, Appended
  <2> QED
    BY <2>1, <2>2, Appended
<1> QED
  BY <1>2, <1>3 DEF HistoryInv

\* The finalizer is put on the stored version when no version is deleted.
LEMMA HistoryGuard ==
    ASSUME StreamsOK, HistoryInv, NEW v \in Versions, resource' = Append(resource, v),
           v.uid = Stored.uid, v.uid # 0, v.finalizer,
           \A i \in 1..Len(resource) : ~resource[i].deleting
    PROVE  HistoryInv'
<1>1. Len(resource) \in Nat /\ Len(resource) >= 1
  BY DEF StreamsOK
<1>2. ASSUME NEW i \in 1..Len(resource'), Guarded(resource'[i])
      PROVE  Stored'.uid # 0 /\ Stored'.uid = resource'[i].uid /\ Stored'.finalizer
  BY <1>2, Appended DEF HistoryInv
<1>3. ASSUME NEW i \in 1..Len(resource'), NEW j \in 1..Len(resource'), i < j
      PROVE  ~resource'[i].deleting
  <2>1. i \in 1..Len(resource)
    BY <1>1, <1>3, Appended
  <2> QED
    BY <2>1, Appended
<1> QED
  BY <1>2, <1>3 DEF HistoryInv

\* A step that leaves the stream alone and keeps the copy's life, and only
\* goes on within the same part of Reconcile, or to "report" or "idle".
LEMMA StayRun ==
    ASSUME StreamsOK, RunInv, UNCHANGED resource,
           pc # "idle", SameLife(copy', copy), fresh' = fresh,
           \/ pc' = "report"
           \/ pc \in Validating /\ pc' \in Validating
           \/ pc \in Provisioning /\ pc' \in Provisioning
           \/ pc \in Unguarding /\ pc' \in Unguarding
    PROVE  RunInv'
BY DEF RunInv, SameLife, GuardedWhileProvisioning, Stored, Validating, Provisioning, Unguarding

\* So does a write of the status by a run that has the stored version.
LEMMA WriteRun ==
    ASSUME StreamsOK, HistoryInv, RunInv, NEW v \in Versions, SameLife(v, Stored), NEW o, StoreIf(o, v),
           pc # "idle", UNCHANGED <<copy, fresh>>,
           \/ pc \in Provisioning /\ pc' \in Provisioning
           \/ pc \in Unguarding /\ pc' \in Unguarding
    PROVE  HistoryInv' /\ RunInv'
<1>1. /\ HistoryInv' /\ SameLife(Stored', Stored)
      /\ \A i \in 1..Len(resource') : \E j \in 1..Len(resource) : SameLife(resource'[i], resource[j])
  BY StatusWrite
<1>2. pc' \in Unguarding => \A i \in 1..Len(resource') : ~Guarded(resource'[i])
  BY <1>1 DEF RunInv, SameLife, Guarded, Provisioning, Unguarding
<1> QED
  BY <1>1, <1>2 DEF RunInv, SameLife, GuardedWhileProvisioning, Validating, Provisioning, Unguarding

\* Nothing is asked of the copy of a worker that is idle.
LEMMA IdleRun == ASSUME pc' = "idle" PROVE RunInv'
BY DEF RunInv, GuardedWhileProvisioning, Validating, Provisioning, Unguarding

\* The history invariant is about the versions of the resource only.
LEMMA SameHistory == ASSUME HistoryInv, UNCHANGED resource PROVE HistoryInv'
BY DEF HistoryInv, Stored

\* Every action of a run that does not write the resource.
LEMMA GuardQuietSteps ==
    ASSUME TypeOK, GuardInv,
           \/ FetchAndValidateCluster \/ ResolveClusterConnection
           \/ ConnectToDatabase \/ EnsureConnectionSecret
           \/ CreateUser \/ FindUser \/ AlterUser
           \/ CreateDatabase \/ FindDatabase \/ AlterDatabaseOwner
           \/ GrantPrivileges \/ TransferObjectOwnership
           \/ Lookup \/ DropDatabaseAndUser
    PROVE  GuardInv'
<1> USE DEF GuardInv, TypeOK
<1>0. UNCHANGED resource
  BY DEF FetchAndValidateCluster, ResolveClusterConnection, ConnectToDatabase,
         EnsureConnectionSecret, CreateUser, FindUser, AlterUser, CreateDatabase, FindDatabase,
         AlterDatabaseOwner, GrantPrivileges, TransferObjectOwnership, Lookup,
         DropDatabaseAndUser, Execute
<1>1. copy \in Versions
  BY DEF WorkerOK
<1>2. ASSUME NEW types, Fail(types) PROVE pc' = "report" /\ SameLife(copy', copy) /\ fresh' = fresh
  BY <1>1, <1>2, SetConditionsType, WithPhaseType DEF Fail, Continue, SameLife
<1>3. ASSUME NEW types, NEW label, Succeed(types, label) PROVE pc' = label /\ SameLife(copy', copy)
  BY <1>1, <1>3, SetConditionsType DEF Succeed, Continue, SameLife
<1>4. ASSUME NEW label, Proceed(label)
      PROVE  pc' = label /\ SameLife(copy', copy) /\ fresh' = fresh
  BY <1>4 DEF Proceed, Continue, SameLife
<1>5. ASSUME NEW label \in Provisioning, NEW kinds, NEW effect, NEW next \in Provisioning, NEW failed,
             Execute(label, kinds, effect, next, failed)
      PROVE  /\ pc \in Provisioning /\ SameLife(copy', copy) /\ fresh' = fresh
             /\ pc' = "report" \/ pc' \in Provisioning
  BY <1>2, <1>4, <1>5 DEF Execute
<1>6. CASE FetchAndValidateCluster
  BY <1>0, <1>2, <1>3, <1>6, StayRun, SameHistory DEF FetchAndValidateCluster, Validating
<1>7. CASE ResolveClusterConnection
  <2>1. CASE Return(TRUE)
    BY <1>0, <2>1, IdleRun, SameHistory DEF Return
  <2>2. CASE Fail({"SecretReady"}) \/ (Succeed({"SecretReady"}, "finalizer") /\ UNCHANGED fresh)
    BY <1>0, <1>2, <1>3, <1>7, <2>2, StayRun, SameHistory DEF ResolveClusterConnection, Validating
  <2> QED
    BY <1>7, <2>1, <2>2 DEF ResolveClusterConnection
<1>8. CASE ConnectToDatabase
  BY <1>0, <1>2, <1>3, <1>8, StayRun, SameHistory DEF ConnectToDatabase, Provisioning
<1>9. CASE EnsureConnectionSecret
  <2>1. SameLife(copy', copy) /\ fresh' = fresh /\ pc' \in {"report", "createUser"} /\ pc = "secret"
    BY <1>2, <1>3, <1>9 DEF EnsureConnectionSecret
  <2> QED
    BY <1>0, <2>1, StayRun, SameHistory DEF Provisioning
<1>10. CASE CreateUser \/ AlterUser \/ CreateDatabase \/ AlterDatabaseOwner \/ GrantPrivileges
  <2>1. /\ pc \in Provisioning /\ SameLife(copy', copy) /\ fresh' = fresh
        /\ pc' = "report" \/ pc' \in Provisioning
    BY <1>5, <1>10 DEF CreateUser, AlterUser, CreateDatabase, AlterDatabaseOwner, GrantPrivileges, Provisioning
  <2> QED
    BY <1>0, <2>1, StayRun, SameHistory DEF Provisioning
<1>11. CASE FindUser
  <2>1. /\ pc = "createUser" /\ pc' \in {"report", "alterUser"}
        /\ SameLife(copy', copy) /\ fresh' = fresh
    BY <1>1, <1>2, <1>11 DEF FindUser, Continue, SameLife
  <2> QED
    BY <1>0, <2>1, StayRun, SameHistory DEF Provisioning
<1>12. CASE FindDatabase
  <2>1. /\ pc = "createDatabase" /\ pc' \in {"report"} \cup Provisioning
        /\ SameLife(copy', copy) /\ fresh' = fresh
    BY <1>2, <1>4, <1>12 DEF FindDatabase, NextAfterFoundDatabase, Provisioning
  <2> QED
    BY <1>0, <2>1, StayRun, SameHistory DEF Provisioning
<1>13. CASE TransferObjectOwnership
  BY <1>0, <1>2, <1>3, <1>13, StayRun, SameHistory DEF TransferObjectOwnership, Provisioning
<1>14. CASE Lookup
  <2>1. SameLife(copy', copy)
    BY <1>1, <1>14, SetConditionsType, WithPhaseType DEF Lookup, SameLife
  <2>2. pc = "lookup" /\ pc' \in {"drop", "reportDeletion", "refetch"} /\ fresh' = fresh
    BY <1>14 DEF Lookup, Continue
  <2> QED
    BY <1>0, <2>1, <2>2, StayRun, SameHistory DEF Unguarding
<1>15. CASE DropDatabaseAndUser
  BY <1>0, <1>4, <1>15, StayRun, SameHistory DEF DropDatabaseAndUser, Unguarding
<1> QED
  BY <1>6, <1>7, <1>8, <1>9, <1>10, <1>11, <1>12, <1>13, <1>14, <1>15

\* A step of Reconcile keeps the guard invariant.
LEMMA GuardReconcile == TypeOK /\ GuardInv /\ Reconcile => GuardInv'
<1> SUFFICES ASSUME TypeOK, GuardInv, Reconcile PROVE GuardInv'
  OBVIOUS
<1> USE DEF GuardInv, TypeOK
<1>0. Cached \in Versions /\ Stored \in Versions /\ copy \in Versions
  BY EndsType DEF WorkerOK
<1>1. 1 \in 1..Len(resource) /\ Len(resource) \in 1..Len(resource) /\ Cached = resource[1]
      /\ Stored = resource[Len(resource)] /\ Len(resource) \in Nat
  BY DEF StreamsOK, Cached, Stored
<1>2. CASE SkipReconcile
  BY <1>2, SameHistory, IdleRun DEF SkipReconcile, Dequeue
<1>3. CASE StartProvisioning
  <2>1. /\ Cached.uid # 0 /\ ~Cached.deleting
        /\ pc' = "fetch" /\ copy' = Cached /\ fresh' = (Len(resource) = 1) /\ UNCHANGED resource
    BY <1>3 DEF StartProvisioning, Start, Dequeue, NothingToDo, ToDelete
  <2>2. Cached.finalizer => Stored.uid = Cached.uid /\ Stored.finalizer
    BY <1>1, <2>1 DEF HistoryInv, Guarded
  <2>3. Len(resource) = 1 => \A i \in 1..Len(resource) : i = 1
    OBVIOUS
  <2> QED
    BY <1>1, <2>1, <2>2, <2>3, SameHistory
    DEF RunInv, GuardedWhileProvisioning, Stored, Validating, Provisioning, Unguarding
<1>4. CASE StartDeletion
  <2>1. /\ Cached.deleting
        /\ pc' = "lookup" /\ copy' = Cached /\ fresh' = (Len(resource) = 1) /\ UNCHANGED resource
    BY <1>4 DEF StartDeletion, Start, Dequeue, ToDelete
  <2>2. \A i \in 1..Len(resource) : ~Guarded(resource[i])
    BY <1>1, <2>1 DEF HistoryInv, Guarded
  <2> QED
    BY <1>1, <2>1, <2>2, SameHistory
    DEF RunInv, GuardedWhileProvisioning, Stored, Validating, Provisioning, Unguarding
<1>5. CASE Report
  <2> PICK o \in UpdateOutcomes : StoreIf(o, [Stored EXCEPT !.status = copy.status])
    BY <1>5 DEF Report
  <2>1. [Stored EXCEPT !.status = copy.status] \in Versions
        /\ SameLife([Stored EXCEPT !.status = copy.status], Stored)
    BY <1>0 DEF Versions, SameLife
  <2> QED
    BY <1>5, <2>1, StatusWrite, IdleRun DEF Report, Return
<1>6. CASE EnsureFinalizer
  <2>1. CASE Proceed("connect") /\ UNCHANGED resource /\ ~NeedsFinalizer(copy)
    BY <1>6, <2>1, SameHistory
    DEF EnsureFinalizer, Proceed, Continue, NeedsFinalizer, RunInv, GuardedWhileProvisioning, Stored,
        Validating, Provisioning, Unguarding
  <2>2. ASSUME NeedsFinalizer(copy), NEW o \in UpdateOutcomes,
               StoreIf(o, [Stored EXCEPT !.finalizer = TRUE]),
               IF MustRetry(o)
                  THEN Return(TRUE)
                  ELSE /\ Continue("connect")
                       /\ copy' = Decoded(copy, Stored)
                       /\ UNCHANGED fresh
        PROVE  GuardInv'
    <3> DEFINE v == [Stored EXCEPT !.finalizer = TRUE]
    <3>0. pc = "finalizer" /\ copy.uid # 0 /\ ~copy.deleting
      BY <1>6 DEF EnsureFinalizer, RunInv, Validating
    <3>1. CASE ~TookEffect(o)
      <4>1. UNCHANGED resource /\ MustRetry(o)
        BY <2>2, <3>1 DEF StoreIf, TookEffect, MustRetry
      <4> QED
        BY <2>2, <4>1, SameHistory, IdleRun DEF Return
    <3>2. CASE TookEffect(o)
      <4>1. fresh
        BY <3>2 DEF UpdateOutcomes, TookEffect
      <4>2. copy.uid = Stored.uid /\ ~Stored.finalizer /\ ~Stored.deleting /\ copy.deleting = Stored.deleting
        BY <2>2, <3>0, <4>1 DEF RunInv, NeedsFinalizer
      <4>3. v \in Versions /\ v.uid = Stored.uid /\ v.finalizer = TRUE /\ v.deleting = Stored.deleting /\ v # Stored
        BY <1>0, <4>2 DEF Versions
      <4>4. resource' = Append(resource, v)
        BY <2>2, <3>2, <4>3 DEF StoreIf, Store
      <4>5. \A i \in 1..Len(resource) : ~resource[i].deleting
        BY <3>0, <4>1 DEF RunInv, Validating
      <4>6. HistoryInv'
        BY <3>0, <4>2, <4>3, <4>4, <4>5, HistoryGuard
      <4>7. CASE MustRetry(o)
        BY <2>2, <4>6, <4>7, IdleRun DEF Return
      <4>8. CASE ~MustRetry(o)
        <5>1. Stored' = v
          BY <4>3, <4>4, Appended
        <5>2. copy'.uid = copy.uid /\ copy'.finalizer = TRUE /\ copy'.deleting = copy.deleting /\ pc' = "connect"
          BY <1>0, <2>2, <4>8 DEF Decoded, Continue, Versions
        <5>3. RunInv'
          BY <3>0, <4>2, <4>3, <5>1, <5>2
          DEF RunInv, GuardedWhileProvisioning, Validating, Provisioning, Unguarding
        <5> QED
          BY <4>6, <5>3
      <4> QED
        BY <4>7, <4>8
    <3> QED
      BY <3>1, <3>2
  <2> QED
    BY <1>6, <2>1, <2>2 DEF EnsureFinalizer
<1>7. CASE UpdateStatus
  <2> PICK o \in UpdateOutcomes : StoreIf(o, [Stored EXCEPT !.status = Summarised(copy, target).status])
    BY <1>7 DEF UpdateStatus
  <2>1. target \in Hosts
    BY <1>7 DEF UpdateStatus, WorkerOK, Provisioning
  <2>2. [Stored EXCEPT !.status = Summarised(copy, target).status] \in Versions
        /\ SameLife([Stored EXCEPT !.status = Summarised(copy, target).status], Stored)
    BY <1>0, <2>1, SummarisedType DEF Versions, SameLife
  <2> QED
    BY <1>7, <2>2, StatusWrite, IdleRun DEF UpdateStatus, Return
<1>8. CASE ReportDeletion
  <2> PICK o \in UpdateOutcomes : StoreIf(o, [Stored EXCEPT !.status = copy.status])
    BY <1>8 DEF ReportDeletion
  <2>1. [Stored EXCEPT !.status = copy.status] \in Versions
        /\ SameLife([Stored EXCEPT !.status = copy.status], Stored)
    BY <1>0 DEF Versions, SameLife
  <2> QED
    BY <1>8, <2>1, WriteRun DEF ReportDeletion, Proceed, Continue, Unguarding
<1>9. CASE Refetch
  <2>1. CASE Return(FALSE)
    BY <1>9, <2>1, SameHistory, IdleRun DEF Refetch, Return
  <2>2. CASE Continue("release") /\ copy' = Cached /\ fresh' = (Len(resource) = 1)
    <3>1. pc = "refetch" /\ pc' = "release" /\ UNCHANGED resource
      BY <1>9, <2>2 DEF Refetch, Continue
    <3> QED
      BY <1>1, <2>2, <3>1, SameHistory
      DEF RunInv, GuardedWhileProvisioning, Stored, Validating, Provisioning, Unguarding
  <2> QED
    BY <1>9, <2>1, <2>2 DEF Refetch
<1>10. CASE RemoveFinalizer
  <2> PICK o \in UpdateOutcomes : StoreIf(o, Unguarded(Stored))
    BY <1>10 DEF RemoveFinalizer
  <2>1. Unguarded(Stored) \in Versions /\ ~Guarded(Unguarded(Stored))
    BY <1>0, AbsentType DEF Unguarded, Guarded, Versions, Absent
  <2>2. \A i \in 1..Len(resource) : ~Guarded(resource[i])
    BY <1>10 DEF RemoveFinalizer, RunInv, Unguarding
  <2>3. HistoryInv'
    BY <2>1, <2>2, HistoryAppend, SameHistory DEF StoreIf, Store
  <2> QED
    BY <1>10, <2>3, IdleRun DEF RemoveFinalizer, Return
<1> QED
  BY <1>2, <1>3, <1>4, <1>5, <1>6, <1>7, <1>8, <1>9, <1>10, GuardQuietSteps
  DEF Reconcile, Provision, HandleDeletion

\* So does what users and the environment do.
LEMMA GuardOthers == TypeOK /\ GuardInv /\ (User \/ Environment) => GuardInv'
<1> SUFFICES ASSUME TypeOK, GuardInv, User \/ Environment PROVE GuardInv'
  OBVIOUS
<1> USE DEF GuardInv, TypeOK
<1>0. Stored \in Versions /\ Stored = resource[Len(resource)]
      /\ Len(resource) \in 1..Len(resource) /\ Len(resource) \in Nat
  BY EndsType DEF StreamsOK, Stored
<1>1. CASE CreateResource
  <2> PICK policy \in Policies : resource' = Append(resource, Created(uids', policy))
    BY <1>1 DEF CreateResource
  <2> DEFINE v == Created(uids', policy)
  <2>1. v \in Versions /\ ~Guarded(v)
    <3>1. uids' \in 0..MaxUid
      BY <1>1, ConstantsAssumption DEF ConstantsAssumption, CreateResource, WorldOK
    <3>2. v \in Versions
      BY <3>1, AbsentType DEF Created, Versions
    <3>3. ~v.finalizer
      BY DEF Created, Absent
    <3> QED
      BY <3>2, <3>3 DEF Guarded
  <2>2. Stored.uid = 0 /\ UNCHANGED <<pc, copy>> /\ fresh' = FALSE
    BY <1>1 DEF CreateResource
  <2>3. \A i \in 1..Len(resource) : ~Guarded(resource[i])
    BY <2>2 DEF HistoryInv
  <2>4. HistoryInv'
    BY <2>1, <2>3, HistoryAppend
  <2>5. \A i \in 1..Len(resource') : ~Guarded(resource'[i])
    BY <2>1, <2>3, Appended
  <2>6. RunInv'
    BY <2>2, <2>5 DEF RunInv, GuardedWhileProvisioning, Validating, Provisioning, Unguarding
  <2> QED
    BY <2>4, <2>6
<1>2. CASE DeleteResource
  <2> DEFINE v == IF Stored.finalizer THEN [Stored EXCEPT !.deleting = TRUE] ELSE Absent
  <2>1. /\ Stored.uid # 0 /\ ~Stored.deleting /\ resource' = Append(resource, v)
        /\ UNCHANGED <<pc, copy>> /\ fresh' = FALSE
    BY <1>2 DEF DeleteResource
  <2>2. v \in Versions /\ ~Guarded(v)
    BY <1>0, AbsentType DEF Versions, Guarded, Absent
  <2>3. Stored.finalizer => v.uid = Stored.uid /\ v.finalizer
    BY <1>0 DEF Versions
  <2>4. ~Stored.finalizer => \A i \in 1..Len(resource) : ~Guarded(resource[i])
    BY DEF HistoryInv
  <2>5. HistoryInv'
    BY <2>1, <2>2, <2>3, <2>4, HistoryAppend
  <2>6. Stored' = v
    BY <2>1, <2>2, Appended
  <2>7. pc \in Unguarding => \A i \in 1..Len(resource') : ~Guarded(resource'[i])
    BY <2>1, <2>2, Appended DEF RunInv
  <2>8. RunInv'
    BY <2>1, <2>3, <2>6, <2>7 DEF RunInv, GuardedWhileProvisioning, Validating, Provisioning, Unguarding
  <2> QED
    BY <2>5, <2>8
<1>3. CASE DeliverResource
  <2>1. /\ Len(resource) > 1 /\ resource' = Tail(resource) /\ UNCHANGED worker
    BY <1>3 DEF DeliverResource
  <2>2. /\ Len(resource') = Len(resource) - 1
        /\ \A i \in 1..Len(resource') : resource'[i] = resource[i + 1] /\ i + 1 \in 1..Len(resource)
    BY <1>0, <2>1, ShortenedStream DEF StreamsOK
  <2>3. Stored' = Stored
    BY <1>0, <2>1, <2>2 DEF Stored
  <2>4. HistoryInv'
    <3>1. ASSUME NEW i \in 1..Len(resource'), NEW j \in 1..Len(resource'), i < j, resource'[i].deleting
          PROVE  ~Guarded(resource'[j])
      BY <1>0, <2>2, <3>1 DEF HistoryInv
    <3> QED
      BY <2>2, <2>3, <3>1 DEF HistoryInv
  <2>5. RunInv'
    BY <2>1, <2>2, <2>3 DEF worker, RunInv, GuardedWhileProvisioning
  <2> QED
    BY <2>4, <2>5
<1>4. CASE DeleteSecret \/ DeliverSecret \/ CollectGarbage \/ ChangeCluster \/ ChangeConfig
           \/ ChangeHost \/ Resync
  <2>1. UNCHANGED <<resource, worker>>
    BY <1>4 DEF DeleteSecret, DeliverSecret, CollectGarbage, ChangeCluster, ChangeConfig, ChangeHost, Resync
  <2> QED
    BY <2>1 DEF worker, HistoryInv, RunInv, GuardedWhileProvisioning, Stored
<1>5. CASE Restart
  <2>1. resource' = <<Stored>> /\ pc' = "idle"
    BY <1>5 DEF Restart, RestartWorker
  <2>2. Len(resource') = 1 /\ resource'[1] = Stored /\ Stored' = Stored
    BY <2>1, SingletonStream DEF Stored
  <2>3. Guarded(Stored) => Stored.uid # 0 /\ Stored.finalizer
    BY <1>0 DEF HistoryInv
  <2>4. \A i \in 1..Len(resource') : i = 1
    BY <2>2
  <2>5. \A i, j \in 1..Len(resource') : ~(i < j)
    BY <2>2
  <2> QED
    BY <2>1, <2>2, <2>3, <2>4, <2>5, IdleRun DEF HistoryInv
<1> QED
  BY <1>1, <1>2, <1>3, <1>4, <1>5 DEF User, Environment

\* The guard invariant holds at first.
LEMMA GuardInit == Init => GuardInv
<1> SUFFICES ASSUME Init PROVE GuardInv
  OBVIOUS
<1>1. Len(resource) = 1 /\ resource[1] = Absent /\ pc = "idle"
  BY SingletonStream, AbsentType DEF Init
<1>2. \A i \in 1..Len(resource) : ~Guarded(resource[i]) /\ ~resource[i].deleting
  BY <1>1 DEF Guarded, Absent
<1> QED
  BY <1>1, <1>2 DEF GuardInv, HistoryInv, RunInv, GuardedWhileProvisioning, Validating, Provisioning, Unguarding

\* Every step keeps the guard invariant.
LEMMA GuardStep == TypeOK /\ GuardInv /\ [Next]_vars => GuardInv'
<1>1. ASSUME GuardInv, UNCHANGED vars PROVE GuardInv'
  BY <1>1 DEF GuardInv, HistoryInv, RunInv, GuardedWhileProvisioning, Stored, vars, worker
<1> QED
  BY <1>1, GuardReconcile, GuardOthers DEF Next

\* The history of the resource and the worker's copy of it keep to the
\* inductive invariant.
THEOREM GuardInvariant == Spec => []GuardInv
BY TypeCorrect, GuardInit, GuardStep, PTL DEF Spec, Safety

\* Nothing is provisioned for a resource that could go without
\* handleDeletion, however stale the run's copy of it is.
THEOREM ProvisionsGuardedOnly == Spec => []GuardedWhileProvisioning
<1>1. GuardInv => GuardedWhileProvisioning
  BY DEF GuardInv, RunInv
<1> QED
  BY <1>1, GuardInvariant, PTL

\* handleDeletion never works on a resource that is provisioned and not
\* deleted.
THEOREM SparesLive == Spec => []DeletionSparesLive
<1>1. TypeOK /\ GuardInv => DeletionSparesLive
  BY DEF TypeOK, StreamsOK, GuardInv, RunInv, DeletionSparesLive, Stored
<1> QED
  BY <1>1, TypeCorrect, GuardInvariant, PTL

-----------------------------------------------------------------------------
(* A deleted resource is not forgotten.                                    *)

\* A new version: the informer has it to deliver.
LEMMA ReleaseWrite ==
    ASSUME StreamsOK, ReleaseInv, NEW v \in Versions, resource' = Append(resource, v),
           v.deleting => v.finalizer /\ v.uid # 0
    PROVE  ReleaseInv'
<1>1. Len(resource') # 1
  BY Appended DEF StreamsOK
<1> QED
  BY <1>1, Appended DEF ReleaseInv

\* No new version, and the key is queued, or no run of handleDeletion ends.
LEMMA ReleaseStay ==
    ASSUME ReleaseInv, UNCHANGED resource,
           Stored.deleting /\ Len(resource) = 1 /\ ~queued' => pc' \in Unguarding
    PROVE  ReleaseInv'
BY DEF ReleaseInv, Stored

\* Steps that go on with a run of handleDeletion when there was one.
LEMMA ReleaseContinue ==
    ASSUME ReleaseInv, UNCHANGED resource,
           queued' \/ (UNCHANGED queued /\ (pc \in Unguarding => pc' \in Unguarding))
    PROVE  ReleaseInv'
<1>1. ASSUME Stored.deleting, Len(resource) = 1, ~queued' PROVE pc' \in Unguarding
  BY <1>1 DEF ReleaseInv
<1> QED
  BY <1>1, ReleaseStay

\* A step of a run that writes nothing.
LEMMA ReleaseQuietSteps ==
    ASSUME TypeOK, ReleaseInv,
           \/ FetchAndValidateCluster \/ ResolveClusterConnection
           \/ ConnectToDatabase \/ EnsureConnectionSecret
           \/ CreateUser \/ FindUser \/ AlterUser
           \/ CreateDatabase \/ FindDatabase \/ AlterDatabaseOwner
           \/ GrantPrivileges \/ TransferObjectOwnership
           \/ Lookup \/ DropDatabaseAndUser
    PROVE  ReleaseInv'
<1>1. UNCHANGED resource
  BY DEF FetchAndValidateCluster, ResolveClusterConnection, ConnectToDatabase,
         EnsureConnectionSecret, CreateUser, FindUser, AlterUser, CreateDatabase, FindDatabase,
         AlterDatabaseOwner, GrantPrivileges, TransferObjectOwnership, Lookup,
         DropDatabaseAndUser, Execute
<1>2. CASE Lookup \/ DropDatabaseAndUser
  <2>1. UNCHANGED queued /\ pc' \in {"drop", "reportDeletion", "refetch"}
    BY <1>2 DEF Lookup, DropDatabaseAndUser, Proceed, Continue
  <2> QED
    BY <1>1, <2>1, ReleaseContinue DEF Unguarding
<1>3. CASE ~(Lookup \/ DropDatabaseAndUser)
  <2>1. pc \in Validating \cup Provisioning
    BY <1>3 DEF FetchAndValidateCluster, ResolveClusterConnection, ConnectToDatabase,
                EnsureConnectionSecret, CreateUser, FindUser, AlterUser, CreateDatabase,
                FindDatabase, AlterDatabaseOwner, GrantPrivileges, TransferObjectOwnership,
                Execute, Validating, Provisioning
  <2>2. queued' \/ UNCHANGED queued
    BY <1>3 DEF FetchAndValidateCluster, ResolveClusterConnection, ConnectToDatabase,
                EnsureConnectionSecret, CreateUser, FindUser, AlterUser, CreateDatabase,
                FindDatabase, AlterDatabaseOwner, GrantPrivileges, TransferObjectOwnership,
                Execute, Fail, Succeed, Proceed, Continue, Return
  <2> QED
    BY <1>1, <2>1, <2>2, ReleaseContinue DEF Validating, Provisioning, Unguarding
<1> QED
  BY <1>2, <1>3

\* A step of Reconcile does not forget a deleted resource.
LEMMA ReleaseReconcile == TypeOK /\ ReleaseInv /\ Reconcile => ReleaseInv'
<1> SUFFICES ASSUME TypeOK, ReleaseInv, Reconcile PROVE ReleaseInv'
  OBVIOUS
<1>0. StreamsOK /\ Cached \in Versions /\ Stored \in Versions /\ copy \in Versions /\ queued \in BOOLEAN
  BY EndsType DEF TypeOK, WorkerOK
<1>1. /\ Len(resource) = 1 => Cached = Stored
      /\ Cached.deleting => Cached.finalizer /\ Cached.uid # 0
      /\ Stored.deleting => Stored.finalizer /\ Stored.uid # 0
  BY <1>0 DEF StreamsOK, Cached, Stored, ReleaseInv
<1>2. ASSUME NEW o, NEW v \in Versions, StoreIf(o, v), v.deleting => v.finalizer /\ v.uid # 0
      PROVE  ReleaseInv' \/ UNCHANGED resource
  BY <1>0, <1>2, ReleaseWrite DEF StoreIf, Store
<1>3. CASE SkipReconcile \/ StartProvisioning
  <2>1. ~ToDelete(Cached) /\ UNCHANGED resource
    BY <1>1, <1>3 DEF SkipReconcile, StartProvisioning, Dequeue, NothingToDo, ToDelete
  <2>2. ~(Stored.deleting /\ Len(resource) = 1)
    BY <1>1, <2>1 DEF ToDelete
  <2> QED
    BY <2>1, <2>2, ReleaseStay
<1>4. CASE StartDeletion
  BY <1>4, ReleaseStay DEF StartDeletion, Start, Dequeue, Unguarding
<1>5. CASE Report \/ UpdateStatus \/ ReportDeletion
  <2>1. PICK o \in UpdateOutcomes, s \in Statuses : StoreIf(o, [Stored EXCEPT !.status = s])
    <3>1. copy.status \in Statuses
      BY <1>0 DEF Versions
    <3>2. UpdateStatus => Summarised(copy, target).status \in Statuses
      BY <1>0, SummarisedType DEF UpdateStatus, TypeOK, WorkerOK, Provisioning
    <3> QED
      BY <1>5, <3>1, <3>2 DEF Report, UpdateStatus, ReportDeletion
  <2>2. /\ [Stored EXCEPT !.status = s] \in Versions
        /\ SameLife([Stored EXCEPT !.status = s], Stored)
    BY <1>0 DEF Versions, SameLife
  <2>3. ReleaseInv' \/ UNCHANGED resource
    BY <1>1, <1>2, <2>1, <2>2 DEF SameLife
  <2>4. CASE Report
    BY <2>3, <2>4, ReleaseContinue DEF Report, Return, Requeue
  <2>5. CASE UpdateStatus
    <3>1. pc = "status" /\ (queued' \/ UNCHANGED queued)
      BY <1>0, <2>5 DEF UpdateStatus, Return
    <3> QED
      BY <2>3, <3>1, ReleaseContinue DEF Unguarding
  <2>6. CASE ReportDeletion
    BY <2>3, <2>6, ReleaseContinue DEF ReportDeletion, Proceed, Continue, Unguarding
  <2> QED
    BY <1>5, <2>4, <2>5, <2>6
<1>6. CASE EnsureFinalizer
  <2>1. pc = "finalizer" /\ (queued' \/ UNCHANGED queued)
    BY <1>6 DEF EnsureFinalizer, Proceed, Continue, Return
  <2>2. CASE UNCHANGED resource
    BY <2>1, <2>2, ReleaseContinue DEF Unguarding
  <2>3. CASE ~UNCHANGED resource
    <3>1. PICK o \in UpdateOutcomes : StoreIf(o, [Stored EXCEPT !.finalizer = TRUE])
      BY <1>6, <2>3 DEF EnsureFinalizer
    <3>2. /\ [Stored EXCEPT !.finalizer = TRUE] \in Versions
          /\ [Stored EXCEPT !.finalizer = TRUE].finalizer
          /\ [Stored EXCEPT !.finalizer = TRUE].deleting = Stored.deleting
          /\ [Stored EXCEPT !.finalizer = TRUE].uid = Stored.uid
      BY <1>0 DEF Versions
    <3> QED
      BY <1>1, <1>2, <2>3, <3>1, <3>2
  <2> QED
    BY <2>2, <2>3
<1>7. CASE Refetch
  <2>1. CASE Cached.uid # 0 /\ Cached.finalizer
    BY <1>7, <2>1, ReleaseContinue DEF Refetch, Continue, Unguarding
  <2>2. CASE Cached.uid = 0 \/ ~Cached.finalizer
    <3>1. ~(Stored.deleting /\ Len(resource) = 1)
      BY <1>1, <2>2
    <3> QED
      BY <1>7, <3>1, ReleaseStay DEF Refetch
  <2> QED
    BY <2>1, <2>2
<1>8. CASE RemoveFinalizer
  <2> PICK o \in UpdateOutcomes : StoreIf(o, Unguarded(Stored)) /\ Return(MustRetry(o))
    BY <1>8 DEF RemoveFinalizer
  <2>1. Unguarded(Stored) \in Versions /\ ~Unguarded(Stored).deleting
    BY <1>0, AbsentType DEF Unguarded, Versions, Absent
  <2>2. ReleaseInv' \/ UNCHANGED resource
    BY <1>2, <2>1
  <2>3. CASE o = "ok" /\ UNCHANGED resource
    <3>1. Unguarded(Stored) = Stored
      BY <1>0, <2>3 DEF StoreIf, Store, TookEffect, StreamsOK
    <3>2. ~Stored.deleting
      BY <2>1, <3>1
    <3> QED
      BY <2>3, <3>2, ReleaseStay
  <2>4. CASE o # "ok"
    BY <2>2, <2>4, ReleaseContinue DEF Return, MustRetry
  <2> QED
    BY <2>2, <2>3, <2>4
<1> QED
  BY <1>3, <1>4, <1>5, <1>6, <1>7, <1>8, ReleaseQuietSteps
  DEF Reconcile, Provision, HandleDeletion

\* Nor does what users and the environment do.
LEMMA ReleaseOthers == TypeOK /\ ReleaseInv /\ (User \/ Environment) => ReleaseInv'
<1> SUFFICES ASSUME TypeOK, ReleaseInv, User \/ Environment PROVE ReleaseInv'
  OBVIOUS
<1>0. StreamsOK /\ Stored \in Versions
  BY EndsType DEF TypeOK
<1>1. CASE CreateResource
  <2> PICK policy \in Policies : resource' = Append(resource, Created(uids', policy))
    BY <1>1 DEF CreateResource
  <2>1. uids' \in 0..MaxUid
    BY <1>1, ConstantsAssumption DEF ConstantsAssumption, CreateResource, TypeOK, WorldOK
  <2>2. Created(uids', policy) \in Versions /\ ~Created(uids', policy).deleting
    BY <2>1, AbsentType DEF Created, Versions, Absent
  <2> QED
    BY <1>0, <2>2, ReleaseWrite
<1>2. CASE DeleteResource
  <2> DEFINE v == IF Stored.finalizer THEN [Stored EXCEPT !.deleting = TRUE] ELSE Absent
  <2>1. v \in Versions /\ (v.deleting => v.finalizer /\ v.uid # 0) /\ resource' = Append(resource, v)
    BY <1>0, <1>2, AbsentType DEF DeleteResource, Versions, Absent
  <2> QED
    BY <1>0, <2>1, ReleaseWrite
<1>3. CASE DeliverResource
  <2>1. /\ Len(resource') = Len(resource) - 1
        /\ \A i \in 1..Len(resource') : resource'[i] = resource[i + 1] /\ i + 1 \in 1..Len(resource)
    BY <1>0, <1>3, ShortenedStream DEF DeliverResource, StreamsOK
  <2>2. queued'
    BY <1>3 DEF DeliverResource
  <2> QED
    BY <2>1, <2>2 DEF ReleaseInv
<1>4. CASE DeliverSecret
  <2>1. UNCHANGED <<resource, pc>> /\ (queued => queued')
    BY <1>4 DEF DeliverSecret, worker
  <2> QED
    BY <2>1, ReleaseStay DEF ReleaseInv
<1>5. CASE DeleteSecret \/ CollectGarbage \/ ChangeCluster \/ ChangeConfig \/ ChangeHost \/ Resync
  <2>1. UNCHANGED <<resource, pc>> /\ (queued' \/ UNCHANGED queued)
    BY <1>5 DEF DeleteSecret, CollectGarbage, ChangeCluster, ChangeConfig, ChangeHost, Resync, worker
  <2> QED
    BY <2>1, ReleaseContinue
<1>6. CASE Restart
  <2>1. Len(resource') = 1 /\ resource'[1] = Stored /\ Stored' = Stored
    BY <1>6, SingletonStream DEF Restart, RestartWorker, Stored
  <2>2. \A i \in 1..Len(resource') : resource'[i] = Stored
    BY <2>1
  <2>3. Stored.deleting => Stored.finalizer /\ Stored.uid # 0
    BY <1>0 DEF StreamsOK, Stored, ReleaseInv
  <2>4. Stored.uid # 0 => queued'
    BY <1>6 DEF Restart, RestartWorker
  <2> QED
    BY <2>1, <2>2, <2>3, <2>4 DEF ReleaseInv
<1> QED
  BY <1>1, <1>2, <1>3, <1>4, <1>5, <1>6 DEF User, Environment

\* No resource is there at first.
LEMMA ReleaseInit == Init => ReleaseInv
<1> SUFFICES ASSUME Init PROVE ReleaseInv
  OBVIOUS
<1>1. resource = <<Absent>>
  BY DEF Init
<1>2. Len(resource) = 1 /\ Stored = Absent /\ \A i \in 1..Len(resource) : resource[i] = Absent
  BY <1>1 DEF Stored
<1> QED
  BY <1>2 DEF ReleaseInv, Absent

\* Every step keeps the invariant of the release.
LEMMA ReleaseStep == TypeOK /\ ReleaseInv /\ [Next]_vars => ReleaseInv'
<1>1. ASSUME ReleaseInv, UNCHANGED vars PROVE ReleaseInv'
  BY <1>1 DEF ReleaseInv, Stored, vars, worker
<1> QED
  BY <1>1, ReleaseReconcile, ReleaseOthers DEF Next

\* When the controller has come to rest and the resource is gone or going,
\* the resource is gone, and so is the secret it controlled.
THEOREM ReleasesAtRest == Spec => []RestIsReleased
<1>1. Spec => []ReleaseInv
  BY TypeCorrect, ReleaseInit, ReleaseStep, PTL DEF Spec, Safety
<1>2. TypeOK /\ ReleaseInv => RestIsReleased
  <2> SUFFICES ASSUME TypeOK, ReleaseInv, Quiet, ~LiveResource
               PROVE  Stored.uid = 0 /\ StoredSecret.owner = 0
    BY DEF RestIsReleased
  <2>1. Stored.uid = 0
    BY DEF Quiet, Settled, LiveResource, ReleaseInv, Unguarding
  <2>2. StoredSecret.owner = 0 \/ StoredSecret.owner = Stored.uid
    BY DEF Quiet, Settled, Garbage
  <2> QED
    BY <2>1, <2>2
<1> QED
  BY <1>1, <1>2, TypeCorrect, PTL

-----------------------------------------------------------------------------
(* The refinement: the safety part of ResourceLifecycle.                   *)

\* The stage depends on the life of the stored version only.
LEMMA SameStage == ASSUME SameLife(Stored', Stored) PROVE Stage' = Stage
BY DEF SameLife, Stage

\* An initial state of the controller is one of the life cycle.
LEMMA LifecycleInit == Init => Lifecycle!Init
<1> SUFFICES ASSUME Init PROVE Lifecycle!Init
  OBVIOUS
<1>1. Stored = Absent
  BY SingletonStream, AbsentType DEF Init, Stored
<1> QED
  BY <1>1 DEF Init, Lifecycle!Init, Stage, Absent

\* PostgreSQL is changed by provisioning steps only: dropDatabaseAndUser is
\* rolled back.
LEMMA DropHasNoEffect ==
    ASSUME TypeOK, DropDatabaseAndUser
    PROVE  server' = server
<1>1. target \in Hosts
  BY DEF DropDatabaseAndUser, TypeOK, WorkerOK
<1>2. AfterTransaction(server[target], {"DROP DATABASE", "DROP USER"}) = server[target]
  BY DEF AfterTransaction, RejectedInTransaction
<1> QED
  BY <1>1, <1>2 DEF DropDatabaseAndUser, TypeOK, WorldOK

\* A step that changes nothing, or PostgreSQL for a guarded resource.
LEMMA LifecycleServerStep ==
    ASSUME TypeOK, TypeOK', GuardInv, UNCHANGED resource,
           pc \in Provisioning \/ UNCHANGED server
    PROVE  [Lifecycle!Next]_(Lifecycle!vars)
<1>1. Stage' = Stage
  BY DEF Stage, Stored
<1>2. pc \in Provisioning => Stage \in {"guarded", "terminating"}
  BY DEF GuardInv, RunInv, GuardedWhileProvisioning, Stage
<1>3. server' \in [Hosts -> ServerStates]
  BY DEF TypeOK, WorldOK
<1> QED
  BY <1>1, <1>2, <1>3 DEF Lifecycle!Next, Lifecycle!Provision, Lifecycle!vars

\* A write of the status.
LEMMA LifecycleStatusStep ==
    ASSUME StreamsOK, GuardInv, NEW v \in Versions, SameLife(v, Stored), NEW o, StoreIf(o, v),
           UNCHANGED server
    PROVE  [Lifecycle!Next]_(Lifecycle!vars)
BY StatusWrite, SameStage DEF GuardInv, Lifecycle!vars

\* A step of Reconcile is a step of the life cycle or leaves it alone.
LEMMA LifecycleReconcileStep ==
    ASSUME TypeOK, TypeOK', GuardInv, Reconcile
    PROVE  [Lifecycle!Next]_(Lifecycle!vars)
<1>0. Stored \in Versions /\ copy \in Versions /\ StreamsOK
  BY EndsType DEF TypeOK, WorkerOK
<1>1. CASE SkipReconcile \/ StartProvisioning \/ StartDeletion
  BY <1>1, LifecycleServerStep DEF SkipReconcile, StartProvisioning, StartDeletion, Dequeue
<1>2. CASE Report
  <2> PICK o \in UpdateOutcomes : StoreIf(o, [Stored EXCEPT !.status = copy.status])
    BY <1>2 DEF Report
  <2>1. [Stored EXCEPT !.status = copy.status] \in Versions
        /\ SameLife([Stored EXCEPT !.status = copy.status], Stored)
    BY <1>0 DEF Versions, SameLife
  <2> QED
    BY <1>0, <1>2, <2>1, LifecycleStatusStep DEF Report
<1>3. CASE FetchAndValidateCluster \/ ResolveClusterConnection \/ ConnectToDatabase
           \/ EnsureConnectionSecret \/ FindUser \/ FindDatabase \/ Lookup \/ Refetch
  BY <1>3, LifecycleServerStep
  DEF FetchAndValidateCluster, ResolveClusterConnection, ConnectToDatabase, EnsureConnectionSecret,
      FindUser, FindDatabase, Lookup, Refetch
<1>4. CASE CreateUser \/ AlterUser \/ CreateDatabase \/ AlterDatabaseOwner \/ GrantPrivileges
           \/ TransferObjectOwnership
  <2>1. UNCHANGED resource /\ pc \in Provisioning
    BY <1>4 DEF CreateUser, AlterUser, CreateDatabase, AlterDatabaseOwner, GrantPrivileges,
                TransferObjectOwnership, Execute, Provisioning
  <2> QED
    BY <2>1, LifecycleServerStep
<1>5. CASE EnsureFinalizer
  <2>0. UNCHANGED server /\ pc = "finalizer"
    BY <1>5 DEF EnsureFinalizer
  <2>1. CASE UNCHANGED resource
    BY <2>0, <2>1, LifecycleServerStep
  <2>2. ASSUME NeedsFinalizer(copy), NEW o \in UpdateOutcomes,
               StoreIf(o, [Stored EXCEPT !.finalizer = TRUE])
        PROVE  [Lifecycle!Next]_(Lifecycle!vars)
    <3> DEFINE v == [Stored EXCEPT !.finalizer = TRUE]
    <3>1. CASE ~TookEffect(o)
      BY <2>1, <2>2, <3>1 DEF StoreIf
    <3>2. CASE TookEffect(o)
      <4>1. fresh
        BY <3>2 DEF UpdateOutcomes, TookEffect
      <4>2. Stored.uid # 0 /\ ~Stored.deleting /\ ~Stored.finalizer
        BY <2>0, <2>2, <4>1 DEF GuardInv, RunInv, Validating, NeedsFinalizer
      <4>3. v \in Versions /\ v.uid = Stored.uid /\ ~v.deleting /\ v.finalizer /\ v # Stored
        BY <1>0, <4>2 DEF Versions
      <4>4. Stored' = v
        BY <1>0, <2>2, <3>2, <4>3, Appended DEF StoreIf, Store
      <4>5. Stage = "plain" /\ Stage' = "guarded"
        BY <4>2, <4>3, <4>4 DEF Stage
      <4> QED
        BY <2>0, <4>5 DEF Lifecycle!Next, Lifecycle!Guard
    <3> QED
      BY <3>1, <3>2
  <2> QED
    BY <1>5, <2>1, <2>2 DEF EnsureFinalizer
<1>6. CASE UpdateStatus
  <2> PICK o \in UpdateOutcomes : StoreIf(o, [Stored EXCEPT !.status = Summarised(copy, target).status])
    BY <1>6 DEF UpdateStatus
  <2>1. target \in Hosts
    BY <1>6 DEF UpdateStatus, TypeOK, WorkerOK, Provisioning
  <2>2. [Stored EXCEPT !.status = Summarised(copy, target).status] \in Versions
        /\ SameLife([Stored EXCEPT !.status = Summarised(copy, target).status], Stored)
    BY <1>0, <2>1, SummarisedType DEF Versions, SameLife
  <2> QED
    BY <1>0, <1>6, <2>2, LifecycleStatusStep DEF UpdateStatus
<1>7. CASE ReportDeletion
  <2> PICK o \in UpdateOutcomes : StoreIf(o, [Stored EXCEPT !.status = copy.status])
    BY <1>7 DEF ReportDeletion
  <2>1. [Stored EXCEPT !.status = copy.status] \in Versions
        /\ SameLife([Stored EXCEPT !.status = copy.status], Stored)
    BY <1>0 DEF Versions, SameLife
  <2> QED
    BY <1>0, <1>7, <2>1, LifecycleStatusStep DEF ReportDeletion
<1>8. CASE DropDatabaseAndUser
  BY <1>8, DropHasNoEffect, LifecycleServerStep DEF DropDatabaseAndUser
<1>9. CASE RemoveFinalizer
  <2> PICK o \in UpdateOutcomes : StoreIf(o, Unguarded(Stored))
    BY <1>9 DEF RemoveFinalizer
  <2>0. UNCHANGED server /\ pc = "release"
    BY <1>9 DEF RemoveFinalizer
  <2>1. Stored.deleting \/ ~Stored.finalizer
    BY <2>0 DEF TypeOK, StreamsOK, GuardInv, RunInv, Unguarding, Guarded, Stored
  <2>2. CASE UNCHANGED resource
    BY <2>0, <2>2, LifecycleServerStep
  <2>3. CASE resource' = Append(resource, Unguarded(Stored))
    <3>1. Unguarded(Stored) \in Versions
      BY <1>0, AbsentType DEF Unguarded, Versions
    <3>2. Stored' = Unguarded(Stored)
      BY <1>0, <2>3, <3>1, Appended
    <3>3. CASE Stored.deleting
      <4>1. Stage' = "absent" /\ Stage \in {"absent", "terminating"}
        BY <3>2, <3>3 DEF Unguarded, Absent, Stage
      <4> QED
        BY <2>0, <4>1 DEF Lifecycle!Next, Lifecycle!Release, Lifecycle!vars
    <3>4. CASE ~Stored.deleting
      <4>1. Unguarded(Stored) = [Stored EXCEPT !.finalizer = FALSE] /\ ~Stored.finalizer
        BY <2>1, <3>4 DEF Unguarded
      <4>2. SameLife(Stored', Stored)
        BY <1>0, <3>2, <4>1 DEF SameLife, Versions
      <4> QED
        BY <2>0, <4>2, SameStage DEF Lifecycle!vars
    <3> QED
      BY <3>3, <3>4
  <2> QED
    BY <2>2, <2>3 DEF StoreIf, Store
<1> QED
  BY <1>1, <1>2, <1>3, <1>4, <1>5, <1>6, <1>7, <1>8, <1>9 DEF Reconcile, Provision, HandleDeletion

\* So is what users and the environment do.
LEMMA LifecycleOthersStep ==
    ASSUME TypeOK, TypeOK', GuardInv, User \/ Environment
    PROVE  [Lifecycle!Next]_(Lifecycle!vars)
<1>0. Stored \in Versions /\ StreamsOK /\ Len(resource) \in Nat
  BY EndsType DEF TypeOK, StreamsOK
<1>1. CASE CreateResource
  <2> PICK policy \in Policies : resource' = Append(resource, Created(uids', policy))
    BY <1>1 DEF CreateResource
  <2>1. uids' # 0 /\ uids' \in 0..MaxUid
    BY <1>1, ConstantsAssumption DEF ConstantsAssumption, CreateResource, TypeOK, WorldOK
  <2>2. Created(uids', policy) \in Versions
    BY <2>1, AbsentType DEF Created, Versions
  <2>3. Stored' = Created(uids', policy)
    BY <1>0, <2>2, Appended
  <2>4. Stage = "absent" /\ Stage' = "plain"
    BY <1>1, <2>1, <2>3 DEF CreateResource, Stage, Created, Absent
  <2> QED
    BY <1>1, <2>4 DEF CreateResource, Lifecycle!Next, Lifecycle!Create
<1>2. CASE DeleteResource
  <2> DEFINE v == IF Stored.finalizer THEN [Stored EXCEPT !.deleting = TRUE] ELSE Absent
  <2>1. Stored.uid # 0 /\ ~Stored.deleting /\ resource' = Append(resource, v) /\ UNCHANGED server
    BY <1>2 DEF DeleteResource
  <2>2. v \in Versions
    BY <1>0, AbsentType DEF Versions
  <2>3. Stored' = v
    BY <1>0, <2>1, <2>2, Appended
  <2>4. CASE Stored.finalizer
    <3>1. Stage = "guarded" /\ Stage' = "terminating"
      BY <1>0, <2>1, <2>3, <2>4 DEF Stage, Versions
    <3> QED
      BY <2>1, <3>1 DEF Lifecycle!Next, Lifecycle!Delete
  <2>5. CASE ~Stored.finalizer
    <3>1. Stage = "plain" /\ Stage' = "absent"
      BY <2>1, <2>3, <2>5 DEF Stage, Absent
    <3> QED
      BY <2>1, <3>1 DEF Lifecycle!Next, Lifecycle!Delete
  <2> QED
    BY <2>4, <2>5
<1>3. CASE DeliverResource
  <2>1. Len(resource) > 1 /\ resource' = Tail(resource) /\ UNCHANGED server
    BY <1>3 DEF DeliverResource
  <2>2. Stored' = Stored
    BY <1>0, <2>1, ShortenedStream DEF StreamsOK, Stored
  <2> QED
    BY <2>1, <2>2 DEF Lifecycle!vars, Stage
<1>4. CASE DeleteSecret \/ DeliverSecret \/ CollectGarbage \/ ChangeCluster \/ ChangeConfig
           \/ ChangeHost \/ Resync
  BY <1>4, LifecycleServerStep
  DEF DeleteSecret, DeliverSecret, CollectGarbage, ChangeCluster, ChangeConfig, ChangeHost, Resync
<1>5. CASE Restart
  <2>1. resource' = <<Stored>> /\ UNCHANGED server
    BY <1>5 DEF Restart, RestartWorker
  <2>2. Stored' = Stored
    BY <2>1, SingletonStream DEF Stored
  <2> QED
    BY <2>1, <2>2 DEF Lifecycle!vars, Stage
<1> QED
  BY <1>1, <1>2, <1>3, <1>4, <1>5 DEF User, Environment

\* Every step of the controller and of its environment is a step of the
\* finalizer's protocol or leaves its state alone.
THEOREM RefinesLifecycle == Spec => Lifecycle!Safety
<1>1. ASSUME TypeOK, TypeOK', GuardInv, [Next]_vars
      PROVE  [Lifecycle!Next]_(Lifecycle!vars)
  <2>1. CASE UNCHANGED vars
    BY <2>1 DEF vars, Lifecycle!vars, Stage, Stored
  <2> QED
    BY <1>1, <2>1, LifecycleReconcileStep, LifecycleOthersStep DEF Next
<1> QED
  BY <1>1, LifecycleInit, TypeCorrect, GuardInvariant, PTL DEF Spec, Safety, Lifecycle!Safety

=============================================================================
