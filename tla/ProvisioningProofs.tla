------------------------- MODULE ProvisioningProofs -------------------------
(***************************************************************************)
(* Proofs about what DatabaseController makes on PostgreSQL, for every     *)
(* value of its constants: the role's password and the Ready condition.    *)
(***************************************************************************)
EXTENDS DatabaseControllerProofs

-----------------------------------------------------------------------------
(* The stream of the secret.                                               *)

\* The stream of the secret after a new version.
LEMMA SecretAppended ==
    ASSUME StreamsOK, NEW s \in Secrets, StoreSecret(s)
    PROVE  /\ Len(secrets') = Len(secrets) + 1
           /\ \A i \in 1..Len(secrets) : secrets'[i] = secrets[i]
           /\ secrets'[Len(secrets) + 1] = s
           /\ StoredSecret' = s
           /\ \A i \in 1..Len(secrets') : i \in 1..Len(secrets) \/ i = Len(secrets) + 1
BY GrownStream DEF StreamsOK, StoreSecret, StoredSecret

\* The secret that is cached and the one that is stored are in the stream.
LEMMA SecretEnds ==
    ASSUME StreamsOK
    PROVE  /\ 1 \in 1..Len(secrets) /\ CachedSecret = secrets[1]
           /\ Len(secrets) \in 1..Len(secrets) /\ StoredSecret = secrets[Len(secrets)]
BY DEF StreamsOK, CachedSecret, StoredSecret

\* A step that leaves the secret alone, and only goes on with the password a
\* run has.
LEMMA SamePassword ==
    ASSUME PasswordInv, UNCHANGED <<secrets, retired>>,
           pc' \in SettingPassword => pc \in SettingPassword /\ pw' = pw
    PROVE  PasswordInv'
BY DEF PasswordInv, StoredSecret

\* A secret that is deleted ends what the invariant says of its password.
LEMMA PasswordDeleted ==
    ASSUME TypeOK, PasswordInv, StoreSecret(NoSecret), UNCHANGED <<pc, pw>>
    PROVE  PasswordInv'
<1>1. NoSecret \in Secrets
  BY ConstantsAssumption DEF ConstantsAssumption, NoSecret, Secrets
<1>2. retired'
  BY DEF StoreSecret
<1>3. \A i \in 1..Len(secrets') : secrets'[i] # NoSecret => secrets'[i].pw \in Passwords
  BY <1>1, SecretAppended DEF PasswordInv, TypeOK
<1> QED
  BY <1>2, <1>3 DEF PasswordInv

\* Where a statement leads.
LEMMA ExecuteLeads ==
    ASSUME NEW label, NEW kinds, NEW effect, NEW next, NEW failed,
           Execute(label, kinds, effect, next, failed)
    PROVE  /\ pc = label /\ pc' \in {next, "report"} /\ pw' = pw
           /\ UNCHANGED <<secrets, retired>>
BY DEF Execute, Proceed, Fail, Continue

\* ensureConnectionSecret: the secret is read from the cache or created.
LEMMA PasswordEnsured ==
    ASSUME TypeOK, PasswordInv, EnsureConnectionSecret
    PROVE  PasswordInv'
<1>1. /\ 1 \in 1..Len(secrets) /\ CachedSecret = secrets[1] /\ pc = "secret"
      /\ StreamsOK /\ target \in Hosts
  BY SecretEnds DEF TypeOK, WorkerOK, EnsureConnectionSecret, Provisioning
<1>2. CASE /\ CachedSecret # NoSecret
           /\ pw' = CachedSecret.pw
           /\ UNCHANGED <<secrets, retired>>
  BY <1>1, <1>2 DEF PasswordInv, StoredSecret
<1>3. ASSUME NEW password \in FreshPasswords, NEW o \in CreateOutcomes,
             IF TookEffect(o)
                THEN StoreSecret([owner |-> copy.uid, pw |-> password, host |-> target])
                ELSE UNCHANGED <<secrets, retired>>,
             IF SecretCreated(o)
                THEN Succeed({"SecretReady"}, "createUser") /\ pw' = password
                ELSE Fail({"SecretReady"})
      PROVE PasswordInv'
  <2> DEFINE s == [owner |-> copy.uid, pw |-> password, host |-> target]
  <2>1. s \in Secrets /\ s.pw \in Passwords /\ s.pw = password /\ s # NoSecret
    BY <1>1, ConstantsAssumption
    DEF ConstantsAssumption, Secrets, NoSecret, FreshPasswords, TypeOK, WorkerOK, Versions
  <2>2. CASE ~TookEffect(o)
    <3>1. pc' = "report"
      BY <1>3, <2>2 DEF TookEffect, SecretCreated, Fail, Continue
    <3> QED
      BY <1>3, <2>2, <3>1, SamePassword DEF SettingPassword
  <2>3. CASE TookEffect(o)
    <3>1. StoredSecret = NoSecret
      BY <2>3 DEF CreateOutcomes, TookEffect
    <3>2. StoreSecret(s)
      BY <1>3, <2>3
    <3>3. StoredSecret' = s /\ (retired' <=> retired)
      BY <1>1, <2>1, <3>2, SecretAppended DEF StoreSecret, TypeOK, StreamsOK
    <3>4. \A i \in 1..Len(secrets') : secrets'[i] # NoSecret => secrets'[i].pw \in Passwords
      BY <1>1, <2>1, <3>2, SecretAppended DEF PasswordInv
    <3>5. ~retired => \A i \in 1..Len(secrets') : secrets'[i] \in {NoSecret, s}
      BY <1>1, <2>1, <3>1, <3>2, SecretAppended DEF PasswordInv
    <3>6. pc' \in SettingPassword => pw' = s.pw
      BY <1>3, <2>1 DEF SettingPassword, Fail, Continue
    <3> QED
      BY <2>1, <3>3, <3>4, <3>5, <3>6 DEF PasswordInv
  <2> QED
    BY <2>2, <2>3
<1> QED
  BY <1>2, <1>3 DEF EnsureConnectionSecret

\* A step of Reconcile keeps the invariant of the password.
LEMMA PasswordReconcile == TypeOK /\ PasswordInv /\ Reconcile => PasswordInv'
<1> SUFFICES ASSUME TypeOK, PasswordInv, Reconcile PROVE PasswordInv'
  OBVIOUS
<1>1. CASE SkipReconcile \/ StartProvisioning \/ StartDeletion
  <2>1. pc' \in {"idle", "fetch", "lookup"} /\ UNCHANGED <<secrets, retired>>
    BY <1>1 DEF SkipReconcile, StartProvisioning, StartDeletion, Start, Dequeue
  <2> QED
    BY <2>1, SamePassword DEF SettingPassword
<1>2. CASE Report \/ UpdateStatus \/ RemoveFinalizer
  <2>1. pc' = "idle" /\ UNCHANGED <<secrets, retired>>
    BY <1>2 DEF Report, UpdateStatus, RemoveFinalizer, Return
  <2> QED
    BY <2>1, SamePassword DEF SettingPassword
<1>3. CASE FetchAndValidateCluster \/ ResolveClusterConnection \/ EnsureFinalizer \/ ConnectToDatabase
  <2>1. /\ pc' \in {"idle", "report", "resolve", "finalizer", "connect", "secret"}
        /\ UNCHANGED <<secrets, retired>>
    BY <1>3 DEF FetchAndValidateCluster, ResolveClusterConnection, EnsureFinalizer,
                ConnectToDatabase, Return, Fail, Succeed, Proceed, Continue
  <2> QED
    BY <2>1, SamePassword DEF SettingPassword
<1>4. CASE EnsureConnectionSecret
  BY <1>4, PasswordEnsured
<1>5. CASE CreateUser \/ AlterUser \/ CreateDatabase \/ AlterDatabaseOwner \/ GrantPrivileges
  <2>1. /\ pc' \in {"createDatabase", "grant", "repair", "report"}
        /\ UNCHANGED <<secrets, retired>>
    BY <1>5, ExecuteLeads
    DEF CreateUser, AlterUser, CreateDatabase, AlterDatabaseOwner, GrantPrivileges
  <2> QED
    BY <2>1, SamePassword DEF SettingPassword
<1>6. CASE FindUser
  <2>1. /\ UNCHANGED <<secrets, retired>>
        /\ pc' = "report" \/ (pc' = "alterUser" /\ pc = "createUser" /\ UNCHANGED pw)
    BY <1>6 DEF FindUser, Fail, Continue
  <2> QED
    BY <2>1, SamePassword DEF SettingPassword
<1>7. CASE FindDatabase \/ TransferObjectOwnership
  <2>1. pc' \in {"alterOwner", "grant", "status", "report"} /\ UNCHANGED <<secrets, retired>>
    BY <1>7 DEF FindDatabase, NextAfterFoundDatabase, TransferObjectOwnership,
                Succeed, Fail, Proceed, Continue
  <2> QED
    BY <2>1, SamePassword DEF SettingPassword
<1>8. CASE Lookup \/ ReportDeletion \/ DropDatabaseAndUser \/ Refetch
  <2>1. /\ pc' \in {"drop", "reportDeletion", "refetch", "release", "idle"}
        /\ UNCHANGED <<secrets, retired>>
    BY <1>8 DEF Lookup, ReportDeletion, DropDatabaseAndUser, Refetch, Return, Proceed, Continue
  <2> QED
    BY <2>1, SamePassword DEF SettingPassword
<1> QED
  BY <1>1, <1>2, <1>3, <1>4, <1>5, <1>6, <1>7, <1>8 DEF Reconcile, Provision, HandleDeletion

\* So does what users and the environment do.
LEMMA PasswordOthers == TypeOK /\ PasswordInv /\ (User \/ Environment) => PasswordInv'
<1> SUFFICES ASSUME TypeOK, PasswordInv, User \/ Environment PROVE PasswordInv'
  OBVIOUS
<1>1. CASE CreateResource \/ DeleteResource \/ DeliverResource \/ ChangeCluster \/ ChangeConfig
           \/ ChangeHost \/ Resync
  <2>1. UNCHANGED <<secrets, retired, pc, pw>>
    BY <1>1 DEF CreateResource, DeleteResource, DeliverResource, ChangeCluster, ChangeConfig,
                ChangeHost, Resync, worker
  <2> QED
    BY <2>1, SamePassword
<1>2. CASE DeleteSecret \/ CollectGarbage
  <2>1. StoreSecret(NoSecret) /\ UNCHANGED <<pc, pw>>
    BY <1>2 DEF DeleteSecret, CollectGarbage, worker
  <2> QED
    BY <2>1, PasswordDeleted
<1>3. CASE DeliverSecret
  <2>1. secrets' = Tail(secrets) /\ Len(secrets) > 1 /\ UNCHANGED <<retired, pc, pw>>
    BY <1>3 DEF DeliverSecret, worker
  <2>2. /\ Len(secrets') = Len(secrets) - 1
        /\ \A i \in 1..Len(secrets') : secrets'[i] = secrets[i + 1] /\ i + 1 \in 1..Len(secrets)
    BY <2>1, ShortenedStream DEF TypeOK, StreamsOK
  <2>3. StoredSecret' = StoredSecret
    BY <2>1, <2>2 DEF StoredSecret, TypeOK, StreamsOK
  <2> QED
    BY <2>1, <2>2, <2>3 DEF PasswordInv
<1>4. CASE Restart
  <2>1. secrets' = <<StoredSecret>> /\ pc' = "idle" /\ UNCHANGED retired
    BY <1>4 DEF Restart, RestartWorker
  <2>2. Len(secrets') = 1 /\ secrets'[1] = StoredSecret /\ StoredSecret' = StoredSecret
    BY <2>1, SingletonStream DEF StoredSecret
  <2>3. \A i \in 1..Len(secrets') : secrets'[i] = StoredSecret
    BY <2>2
  <2>4. StoredSecret # NoSecret => StoredSecret.pw \in Passwords
    BY SecretEnds DEF TypeOK, PasswordInv
  <2> QED
    BY <2>1, <2>2, <2>3, <2>4 DEF PasswordInv, SettingPassword
<1> QED
  BY <1>1, <1>2, <1>3, <1>4 DEF User, Environment

\* No secret is there at first.
LEMMA PasswordInit == Init => PasswordInv
<1> SUFFICES ASSUME Init PROVE PasswordInv
  OBVIOUS
<1>1. secrets = <<NoSecret>> /\ pc = "idle"
  BY DEF Init
<1>2. Len(secrets) = 1 /\ secrets[1] = NoSecret
  BY <1>1
<1>3. \A i \in 1..Len(secrets) : secrets[i] = NoSecret
  BY <1>2
<1> QED
  BY <1>1, <1>3 DEF PasswordInv, SettingPassword

\* Every step keeps the invariant of the password.
LEMMA PasswordStep == TypeOK /\ PasswordInv /\ [Next]_vars => PasswordInv'
<1>1. ASSUME PasswordInv, UNCHANGED vars PROVE PasswordInv'
  BY <1>1, SamePassword DEF vars, worker
<1> QED
  BY <1>1, PasswordReconcile, PasswordOthers DEF Next

\* The other steps leave the servers alone.
LEMMA ServersAlone ==
    ASSUME Next,
           ~(\/ CreateUser \/ AlterUser \/ CreateDatabase \/ AlterDatabaseOwner \/ GrantPrivileges
             \/ TransferObjectOwnership \/ DropDatabaseAndUser)
    PROVE  UNCHANGED server
BY DEF Next, Reconcile, Provision, HandleDeletion, User, Environment, SkipReconcile,
       StartProvisioning, StartDeletion, Dequeue, Report, FetchAndValidateCluster,
       ResolveClusterConnection, EnsureFinalizer, ConnectToDatabase, EnsureConnectionSecret,
       FindUser, FindDatabase, UpdateStatus, Lookup, ReportDeletion, Refetch, RemoveFinalizer,
       CreateResource, DeleteResource, DeleteSecret, DeliverResource, DeliverSecret,
       CollectGarbage, ChangeCluster, ChangeConfig, ChangeHost, Resync, Restart, RestartWorker

\* A step that changes the role's password changes another than the stored
\* secret's.
LEMMA PasswordChange ==
    ASSUME TypeOK, PasswordInv, Next, ~retired, StoredSecret # NoSecret,
           NEW h \in Hosts, server[h].role = StoredSecret.pw
    PROVE  server'[h].role = server[h].role
<1>1. server \in [Hosts -> ServerStates] /\ StoredSecret.pw # NoPassword
  BY SecretEnds, ConstantsAssumption DEF ConstantsAssumption, TypeOK, WorldOK, PasswordInv
<1>2. CASE CreateUser
  <2>1. target # h /\ (UNCHANGED server \/ \E e : server' = [server EXCEPT ![target] = e])
    BY <1>1, <1>2 DEF CreateUser, Execute
  <2> QED
    BY <1>1, <2>1
<1>3. CASE AlterUser
  <2>1. /\ pw = StoredSecret.pw
        /\ \/ UNCHANGED server
           \/ server' = [server EXCEPT ![target] = [server[target] EXCEPT !.role = pw]]
    BY <1>3 DEF AlterUser, Execute, PasswordInv, SettingPassword
  <2> QED
    BY <1>1, <2>1 DEF ServerStates
<1>4. CASE CreateDatabase \/ AlterDatabaseOwner \/ GrantPrivileges \/ TransferObjectOwnership
  <2>1. UNCHANGED server \/ \E e \in ServerStates : e.role = server[target].role
                                          /\ server' = [server EXCEPT ![target] = e]
    <3>0. target \in Hosts /\ server[target] \in ServerStates
      BY <1>1, <1>4 DEF CreateDatabase, AlterDatabaseOwner, GrantPrivileges, TransferObjectOwnership,
                        Execute, TypeOK, WorkerOK, Provisioning
    <3> DEFINE created == [server[target] EXCEPT !.owner = "user", !.granted = FALSE, !.repaired = TRUE]
               owned == [server[target] EXCEPT !.owner = "user"]
               granted == [server[target] EXCEPT !.granted = TRUE]
               repaired == [server[target] EXCEPT !.repaired = TRUE]
    <3>1. \A e \in {created, owned, granted, repaired} :
             e \in ServerStates /\ e.role = server[target].role
      BY <3>0 DEF ServerStates
    <3>2. \/ UNCHANGED server
          \/ \E e \in {created, owned, granted, repaired} : server' = [server EXCEPT ![target] = e]
      BY <1>1, <1>4, <3>0 DEF CreateDatabase, AlterDatabaseOwner, GrantPrivileges, TransferObjectOwnership, Execute
    <3> QED
      BY <3>1, <3>2
  <2> QED
    BY <1>1, <2>1
<1>5. CASE DropDatabaseAndUser
  <2>1. server' = [server EXCEPT ![target] = server[target]]
    BY <1>5 DEF DropDatabaseAndUser, AfterTransaction, RejectedInTransaction
  <2> QED
    BY <1>1, <2>1
<1>6. CASE ~(\/ CreateUser \/ AlterUser \/ CreateDatabase \/ AlterDatabaseOwner \/ GrantPrivileges
             \/ TransferObjectOwnership \/ DropDatabaseAndUser)
  BY <1>6, ServersAlone
<1> QED
  BY <1>2, <1>3, <1>4, <1>5, <1>6

\* The secrets and the passwords keep to the inductive invariant.
THEOREM PasswordInvariant == Spec => []PasswordInv
BY TypeCorrect, PasswordInit, PasswordStep, PTL DEF Spec, Safety

\* Unless a secret was deleted, the role keeps the password an application
\* can read from the secret, however many runs, failures, lost replies,
\* crashes and versions the informer is behind.
THEOREM KeepsWorkingPassword == Spec => WorkingPasswordKept
<1>1. TypeOK /\ PasswordInv /\ [Next]_vars
        => [\A h \in Hosts :
               ~retired /\ StoredSecret # NoSecret /\ server[h].role = StoredSecret.pw
                  => server'[h].role = server[h].role]_vars
  BY PasswordChange
<1> QED
  BY <1>1, TypeCorrect, PasswordInvariant, PTL DEF Spec, Safety, WorkingPasswordKept

-----------------------------------------------------------------------------
(* The Ready condition.                                                    *)

\* Nothing that is provisioned is taken away.
Grown == \A h \in Hosts : Provisioned(server[h]) => Provisioned(server'[h])

\* One statement on the run's server keeps what is provisioned there and on
\* the others.
LEMMA OneServer ==
    ASSUME server \in [Hosts -> ServerStates], target \in Hosts, NEW e,
           server' = [server EXCEPT ![target] = e],
           Provisioned(server[target]) => Provisioned(e)
    PROVE  Grown
BY DEF Grown

\* What a step changes on the servers.
LEMMA ServerStep ==
    ASSUME TypeOK, PasswordInv, Next
    PROVE  Grown
<1>0. server \in [Hosts -> ServerStates]
  BY DEF TypeOK, WorldOK
<1>1. CASE UNCHANGED server
  BY <1>1 DEF Grown
<1>2. CASE CreateUser
  BY <1>0, <1>1, <1>2, OneServer DEF CreateUser, Execute, Provisioned, TypeOK, WorkerOK, Provisioning
<1>3. CASE AlterUser
  <2>1. pw # NoPassword /\ target \in Hosts /\ server[target] \in ServerStates
    BY <1>0, <1>3, ConstantsAssumption
    DEF ConstantsAssumption, AlterUser, Execute, PasswordInv, SettingPassword, TypeOK, WorkerOK, Provisioning
  <2>2. Provisioned(server[target]) => Provisioned([server[target] EXCEPT !.role = pw])
    BY <2>1 DEF Provisioned, ServerStates
  <2> QED
    BY <1>0, <1>1, <1>3, <2>1, <2>2, OneServer DEF AlterUser, Execute
<1>4. CASE CreateDatabase
  BY <1>0, <1>1, <1>4, OneServer DEF CreateDatabase, Execute, Provisioned, TypeOK, WorkerOK, Provisioning
<1>5. CASE AlterDatabaseOwner \/ GrantPrivileges \/ TransferObjectOwnership
  <2>1. target \in Hosts /\ server[target] \in ServerStates
    BY <1>0, <1>5 DEF AlterDatabaseOwner, GrantPrivileges, TransferObjectOwnership, Execute,
                      TypeOK, WorkerOK, Provisioning
  <2>2. Provisioned(server[target]) =>
           /\ Provisioned([server[target] EXCEPT !.owner = "user"])
           /\ Provisioned([server[target] EXCEPT !.granted = TRUE])
           /\ Provisioned([server[target] EXCEPT !.repaired = TRUE])
    BY <2>1 DEF Provisioned, ServerStates
  <2> QED
    BY <1>0, <1>1, <1>5, <2>1, <2>2, OneServer
    DEF AlterDatabaseOwner, GrantPrivileges, TransferObjectOwnership, Execute
<1>6. CASE DropDatabaseAndUser
  <2>1. server' = [server EXCEPT ![target] = server[target]]
    BY <1>6 DEF DropDatabaseAndUser, AfterTransaction, RejectedInTransaction
  <2> QED
    BY <1>0, <1>1, <2>1
<1>7. CASE ~(\/ CreateUser \/ AlterUser \/ CreateDatabase \/ AlterDatabaseOwner \/ GrantPrivileges
             \/ TransferObjectOwnership \/ DropDatabaseAndUser)
  BY <1>1, <1>7, ServersAlone
<1> QED
  BY <1>2, <1>3, <1>4, <1>5, <1>6, <1>7

\* A version whose status says Ready when the other's does, of the same server.
SameReady(c, d) ==
    d.status.conds["Ready"] = "True" =>
        c.status.conds["Ready"] = "True" /\ d.status.host = c.status.host

\* The conditions other than Ready do not touch it, and it is not set to True.
LEMMA ConditionsReady ==
    ASSUME NEW c \in Versions, NEW types, NEW value \in {"True", "False"},
           value = "True" => "Ready" \notin types
    PROVE  /\ SameReady(c, SetConditions(c, types, value))
           /\ SameReady(c, WithPhase(SetConditions(c, types, value)))
<1>1. /\ SetConditions(c, types, value).status.host = c.status.host
      /\ SetConditions(c, types, value).status.conds["Ready"] =
             IF "Ready" \in types THEN value ELSE c.status.conds["Ready"]
      /\ SetConditions(c, types, value) \in Versions
  BY SetConditionsType DEF SetConditions, Versions, Statuses, CondTypes
<1>2. /\ WithPhase(SetConditions(c, types, value)).status.host = c.status.host
      /\ WithPhase(SetConditions(c, types, value)).status.conds =
             SetConditions(c, types, value).status.conds
  BY <1>1 DEF WithPhase, Versions, Statuses
<1> QED
  BY <1>1, <1>2 DEF SameReady

\* The summary says Ready of the server the run has worked on.
LEMMA SummarisedReady ==
    ASSUME NEW c \in Versions, NEW h \in Hosts
    PROVE  Summarised(c, h).status.conds["Ready"] = "True" => Summarised(c, h).status.host = h
<1> DEFINE ready == \A t \in CondTypes \ {"Ready"} : c.status.conds[t] = "True"
           value == IF ready THEN "True" ELSE "False"
           c0 == SetConditions(c, {"Ready"}, value)
           c1 == WithPhase(c0)
<1>1. c0 \in Versions /\ c1 \in Versions /\ c0.status.conds["Ready"] = value
  BY SetConditionsType, WithPhaseType DEF SetConditions, Versions, Statuses, CondTypes
<1>2. c1.status.conds["Ready"] = value
  BY <1>1 DEF WithPhase, Versions, Statuses
<1>3. Summarised(c, h) = IF ready THEN [c1 EXCEPT !.status.host = h] ELSE c1
  BY DEF Summarised
<1>4. [c1 EXCEPT !.status.host = h].status.host = h
  BY <1>1 DEF Versions, Statuses
<1> QED
  BY <1>2, <1>3, <1>4

\* Where the statements of a run have begun.
Stating == {"alterUser", "createDatabase", "alterOwner", "grant", "repair", "status"}

\* Nothing is asked elsewhere.
LEMMA NotStating == ASSUME pc' \notin Stating PROVE StatementsDone'
BY DEF StatementsDone, Stating

\* Each statement of a run leaves on the server what the next ones build on.
LEMMA StatementsReconcile ==
    ASSUME TypeOK, PasswordInv, StatementsDone, Reconcile
    PROVE  StatementsDone'
<1>0. server \in [Hosts -> ServerStates]
  BY DEF TypeOK, WorldOK
<1>1. CASE SkipReconcile \/ StartProvisioning \/ StartDeletion \/ Report \/ UpdateStatus
           \/ FetchAndValidateCluster \/ ResolveClusterConnection \/ EnsureFinalizer
           \/ ConnectToDatabase \/ EnsureConnectionSecret
  <2>1. pc' \in {"idle", "fetch", "lookup", "resolve", "finalizer", "connect", "secret",
                 "createUser", "report"}
    BY <1>1
    DEF SkipReconcile, StartProvisioning, StartDeletion, Dequeue, Start, Report, UpdateStatus,
        FetchAndValidateCluster, ResolveClusterConnection, EnsureFinalizer, ConnectToDatabase,
        EnsureConnectionSecret, Return, Fail, Succeed, Proceed, Continue
  <2> QED
    BY <2>1, NotStating DEF Stating
<1>2. CASE Lookup \/ ReportDeletion \/ DropDatabaseAndUser \/ Refetch \/ RemoveFinalizer
  <2>1. pc' \in {"drop", "reportDeletion", "refetch", "release", "idle"}
    BY <1>2 DEF Lookup, ReportDeletion, DropDatabaseAndUser, Refetch, RemoveFinalizer,
                Return, Proceed, Continue
  <2> QED
    BY <2>1, NotStating DEF Stating
<1>3. ASSUME NEW label \in Provisioning, NEW kinds, NEW effect, NEW next, NEW failed,
             Execute(label, kinds, effect, next, failed)
      PROVE  \/ pc' = "report"
             \/ /\ pc' = next /\ target' = target /\ target \in Hosts
                /\ \/ server'[target] = effect
                   \/ label \in NonCritical /\ server'[target] = server[target]
  BY <1>0, <1>3 DEF Execute, Proceed, Fail, Continue, TookEffect, TypeOK, WorkerOK
<1>4. CASE CreateUser
  <2>1. pw # NoPassword /\ server[target] \in ServerStates
    BY <1>0, <1>4, ConstantsAssumption
    DEF ConstantsAssumption, CreateUser, PasswordInv, SettingPassword, TypeOK, WorkerOK, Provisioning
  <2>2. pc' = "report" \/ (/\ pc' = "createDatabase" /\ target' = target
                           /\ server'[target].role = pw)
    BY <1>3, <1>4, <2>1 DEF CreateUser, Provisioning, NonCritical, ServerStates
  <2> QED
    BY <2>1, <2>2, NotStating DEF StatementsDone, Stating
<1>5. CASE FindUser
  <2>1. \/ pc' = "report"
        \/ /\ pc' = "alterUser" /\ UNCHANGED <<server, target>>
           /\ pc = "createUser" /\ server[target].role # NoPassword
    BY <1>5 DEF FindUser, Fail, Continue
  <2> QED
    BY <2>1, NotStating DEF StatementsDone, Stating
<1>6. CASE AlterUser
  <2>1. pc = "alterUser" /\ pw # NoPassword /\ server[target] \in ServerStates
    BY <1>0, <1>6, ConstantsAssumption
    DEF ConstantsAssumption, AlterUser, Execute, PasswordInv, SettingPassword, TypeOK, WorkerOK, Provisioning
  <2>2. \/ pc' = "report"
        \/ /\ pc' = "createDatabase" /\ target' = target
           /\ server'[target].role \in {pw, server[target].role}
    BY <1>3, <1>6, <2>1 DEF AlterUser, Provisioning, ServerStates
  <2> QED
    BY <2>1, <2>2, NotStating DEF StatementsDone, Stating
<1>7. CASE CreateDatabase
  <2>1. pc = "createDatabase" /\ server[target] \in ServerStates
    BY <1>0, <1>7 DEF CreateDatabase, TypeOK, WorkerOK, Provisioning
  <2> DEFINE e == [server[target] EXCEPT !.owner = "user", !.granted = FALSE, !.repaired = TRUE]
  <2>2. e.role = server[target].role /\ e.owner = "user"
    BY <2>1 DEF ServerStates
  <2> HIDE DEF e
  <2>3. pc' = "report" \/ (pc' = "grant" /\ target' = target /\ server'[target] = e)
    BY <1>3, <1>7 DEF CreateDatabase, Provisioning, NonCritical, e
  <2> QED
    BY <2>1, <2>2, <2>3, NotStating DEF StatementsDone, Stating
<1>8. CASE FindDatabase
  <2>1. \/ pc' = "report"
        \/ /\ pc' \in {"alterOwner", "grant"} /\ UNCHANGED <<server, target>>
           /\ pc = "createDatabase" /\ server[target].owner # "none"
    BY <1>8 DEF FindDatabase, NextAfterFoundDatabase, Proceed, Fail, Continue
  <2> QED
    BY <2>1, NotStating DEF StatementsDone, Stating
<1>9. CASE AlterDatabaseOwner
  <2>1. pc = "alterOwner" /\ server[target] \in ServerStates
    BY <1>0, <1>9 DEF AlterDatabaseOwner, Execute, TypeOK, WorkerOK, Provisioning
  <2>2. \/ pc' = "report"
        \/ /\ pc' = "grant" /\ target' = target
           /\ server'[target].role = server[target].role
           /\ server'[target].owner \in {"user", server[target].owner}
    BY <1>3, <1>9, <2>1 DEF AlterDatabaseOwner, Provisioning, ServerStates
  <2> QED
    BY <2>1, <2>2, NotStating DEF StatementsDone, Stating
<1>10. CASE GrantPrivileges
  <2>1. pc = "grant" /\ server[target] \in ServerStates
    BY <1>0, <1>10 DEF GrantPrivileges, Execute, TypeOK, WorkerOK, Provisioning
  <2>2. \/ pc' = "report"
        \/ /\ pc' = "repair" /\ target' = target /\ server'[target].granted
           /\ server'[target].role = server[target].role
           /\ server'[target].owner = server[target].owner
    BY <1>3, <1>10, <2>1 DEF GrantPrivileges, Provisioning, NonCritical, ServerStates
  <2> QED
    BY <2>1, <2>2, NotStating DEF StatementsDone, Stating
<1>11. CASE TransferObjectOwnership
  <2>1. pc = "repair" /\ target \in Hosts /\ server[target] \in ServerStates
    BY <1>0, <1>11 DEF TransferObjectOwnership, TypeOK, WorkerOK, Provisioning
  <2>2. \/ pc' = "report"
        \/ /\ pc' = "status" /\ target' = target
           /\ server' = [server EXCEPT ![target].repaired = TRUE]
    BY <1>11 DEF TransferObjectOwnership, Succeed, Fail, Continue, TookEffect
  <2>3. CASE server' = [server EXCEPT ![target].repaired = TRUE]
    <3>1. /\ server'[target].repaired
          /\ server'[target].role = server[target].role
          /\ server'[target].owner = server[target].owner
          /\ server'[target].granted = server[target].granted
      BY <1>0, <2>1, <2>3 DEF ServerStates
    <3> QED
      BY <2>1, <2>2, <3>1, NotStating DEF StatementsDone, Stating
  <2> QED
    BY <2>2, <2>3, NotStating DEF Stating
<1> QED
  BY <1>1, <1>2, <1>4, <1>5, <1>6, <1>7, <1>8, <1>9, <1>10, <1>11
  DEF Reconcile, Provision, HandleDeletion

\* Nothing else moves a run that states.
LEMMA StatementsOthers ==
    ASSUME TypeOK, StatementsDone, User \/ Environment
    PROVE  StatementsDone'
<1>1. CASE Restart
  BY <1>1, NotStating DEF Restart, RestartWorker, Stating
<1>2. CASE ~Restart
  <2>1. UNCHANGED <<server, pc, target>>
    BY <1>2
    DEF User, Environment, CreateResource, DeleteResource, DeleteSecret, DeliverResource,
        DeliverSecret, CollectGarbage, ChangeCluster, ChangeConfig, ChangeHost, Resync, worker
  <2> QED
    BY <2>1 DEF StatementsDone
<1> QED
  BY <1>1, <1>2

\* The copy a run works on says Ready only when what it was made of does.
LEMMA CopyLeads ==
    ASSUME TypeOK, Next
    PROVE  \E c \in {copy, Cached, Stored, Absent} : SameReady(c, copy')
<1>0. copy \in Versions /\ Cached \in Versions /\ Stored \in Versions
  BY EndsType DEF TypeOK, WorkerOK
<1>1. \A c : SameReady(c, c)
  BY DEF SameReady
<1>2. ASSUME NEW types, Fail(types) PROVE SameReady(copy, copy')
  BY <1>0, <1>2, ConditionsReady DEF Fail
<1>3. ASSUME NEW types, NEW label, Succeed(types, label), "Ready" \notin types
      PROVE  SameReady(copy, copy')
  BY <1>0, <1>3, ConditionsReady DEF Succeed
<1>4. ASSUME NEW label, NEW kinds, NEW effect, NEW next, NEW failed,
             Execute(label, kinds, effect, next, failed)
      PROVE  SameReady(copy, copy')
  BY <1>1, <1>2, <1>4 DEF Execute, Proceed
<1>5. CASE StartProvisioning \/ StartDeletion
  BY <1>1, <1>5 DEF StartProvisioning, StartDeletion, Start
<1>6. CASE Report \/ UpdateStatus \/ RemoveFinalizer \/ Refetch \/ Restart
  BY <1>1, <1>6 DEF Report, UpdateStatus, RemoveFinalizer, Refetch, Return, Restart, RestartWorker
<1>7. CASE FetchAndValidateCluster \/ ConnectToDatabase
  BY <1>2, <1>3, <1>7 DEF FetchAndValidateCluster, ConnectToDatabase
<1>8. CASE ResolveClusterConnection
  BY <1>1, <1>2, <1>3, <1>8 DEF ResolveClusterConnection, Return
<1>9. CASE EnsureFinalizer
  <2>1. SameReady(copy, Decoded(copy, Stored)) \/ SameReady(Stored, Decoded(copy, Stored))
    BY <1>0 DEF Decoded, SameReady, Versions
  <2>2. copy' \in {copy, Absent, Decoded(copy, Stored)}
    BY <1>9 DEF EnsureFinalizer, Proceed, Return
  <2> QED
    BY <1>1, <2>1, <2>2
<1>10. CASE EnsureConnectionSecret
  <2>1. Fail({"SecretReady"}) \/ Succeed({"SecretReady"}, "createUser")
    BY <1>10 DEF EnsureConnectionSecret
  <2> QED
    BY <1>2, <1>3, <2>1
<1>11. CASE CreateUser \/ AlterUser \/ CreateDatabase \/ AlterDatabaseOwner \/ GrantPrivileges
  BY <1>4, <1>11 DEF CreateUser, AlterUser, CreateDatabase, AlterDatabaseOwner, GrantPrivileges
<1>12. CASE TransferObjectOwnership
  <2>1. Fail({"DatabaseReady", "Ready"}) \/ Succeed({"DatabaseReady"}, "status")
    BY <1>12 DEF TransferObjectOwnership
  <2> QED
    BY <1>2, <1>3, <2>1
<1>13. CASE Lookup
  BY <1>0, <1>1, <1>13, ConditionsReady DEF Lookup
<1>14. CASE FindUser \/ FindDatabase
  BY <1>1, <1>2, <1>14 DEF FindUser, FindDatabase, Proceed
<1>15. CASE SkipReconcile \/ ReportDeletion \/ DropDatabaseAndUser
            \/ ((User \/ Environment) /\ ~Restart)
  <2>1. UNCHANGED copy
    BY <1>15
    DEF SkipReconcile, ReportDeletion, DropDatabaseAndUser, Proceed, User,
        Environment, CreateResource, DeleteResource, DeleteSecret, DeliverResource, DeliverSecret,
        CollectGarbage, ChangeCluster, ChangeConfig, ChangeHost, Resync, worker
  <2> QED
    BY <1>1, <2>1
<1> QED
  BY <1>5, <1>6, <1>7, <1>8, <1>9, <1>10, <1>11, <1>12, <1>13, <1>14, <1>15
  DEF Next, Reconcile, Provision, HandleDeletion

\* The versions in the stream say Ready only when it is so.
LEMMA EndsTold ==
    ASSUME TypeOK, VersionsTold
    PROVE  ReadyTold(Cached.status) /\ ReadyTold(Stored.status)
BY DEF TypeOK, StreamsOK, VersionsTold, Cached, Stored

\* So does the copy, after every step.
LEMMA CopyTold ==
    ASSUME TypeOK, VersionsTold, ReadyTold(copy.status), Grown, Next
    PROVE  ReadyTold(copy.status)'
<1>1. PICK c \in {copy, Cached, Stored, Absent} : SameReady(c, copy')
  BY CopyLeads
<1>2. ReadyTold(c.status)
  BY EndsTold DEF Absent, NoStatus, ReadyTold, CondTypes
<1> QED
  BY <1>1, <1>2 DEF ReadyTold, SameReady, Grown

\* A new version that says Ready when it is so.
LEMMA WriteTold ==
    ASSUME TypeOK, VersionsTold, Grown, NEW v \in Versions,
           resource' = Append(resource, v) \/ UNCHANGED resource,
           v.status.conds["Ready"] = "True" =>
               v.status.host \in Hosts /\ Provisioned(server'[v.status.host])
    PROVE  VersionsTold'
<1>1. CASE UNCHANGED resource
  BY <1>1 DEF VersionsTold, ReadyTold, Grown
<1>2. CASE resource' = Append(resource, v)
  <2>1. ASSUME NEW i \in 1..Len(resource), resource'[i] = resource[i]
        PROVE  ReadyTold(resource[i].status)'
    BY <2>1 DEF VersionsTold, ReadyTold, Grown
  <2>2. \A i \in 1..Len(resource') :
           \/ i \in 1..Len(resource) /\ resource'[i] = resource[i]
           \/ resource'[i] = v
    BY <1>2, Appended DEF TypeOK
  <2> QED
    BY <2>1, <2>2 DEF VersionsTold, ReadyTold
<1> QED
  BY <1>1, <1>2

\* The other steps write no version of the resource.
LEMMA ResourceAlone ==
    ASSUME Next,
           ~(\/ Report \/ ReportDeletion \/ UpdateStatus \/ EnsureFinalizer \/ RemoveFinalizer
             \/ CreateResource \/ DeleteResource \/ DeliverResource \/ Restart)
    PROVE  UNCHANGED resource
BY DEF Next, Reconcile, Provision, HandleDeletion, User, Environment, SkipReconcile,
       StartProvisioning, StartDeletion, Dequeue, FetchAndValidateCluster,
       ResolveClusterConnection, ConnectToDatabase, EnsureConnectionSecret, CreateUser, FindUser,
       AlterUser, CreateDatabase, FindDatabase, AlterDatabaseOwner, GrantPrivileges, Execute,
       TransferObjectOwnership, Lookup, DropDatabaseAndUser, Refetch, DeleteSecret, DeliverSecret,
       CollectGarbage, ChangeCluster, ChangeConfig, ChangeHost, Resync

\* The versions after each step say Ready only when it is so.
LEMMA VersionsStep ==
    ASSUME TypeOK, ProvisionedInv, Grown, Next
    PROVE  VersionsTold'
<1>0. /\ copy \in Versions /\ Stored \in Versions /\ VersionsTold /\ ReadyTold(copy.status)
      /\ ReadyTold(Stored.status)
  BY EndsType, EndsTold DEF TypeOK, WorkerOK, ProvisionedInv
<1>1. ASSUME UNCHANGED resource PROVE VersionsTold'
  BY <1>0, <1>1 DEF VersionsTold, ReadyTold, Grown
<1>2. ASSUME NEW o, NEW v, StoreIf(o, v)
      PROVE  resource' = Append(resource, v) \/ UNCHANGED resource
  BY <1>2 DEF StoreIf, Store
<1>3. CASE Report \/ ReportDeletion
  <2> DEFINE v == [Stored EXCEPT !.status = copy.status]
  <2>1. v \in Versions /\ v.status = copy.status
    BY <1>0 DEF Versions
  <2>2. resource' = Append(resource, v) \/ UNCHANGED resource
    BY <1>2, <1>3 DEF Report, ReportDeletion
  <2> QED
    BY <1>0, <2>1, <2>2, WriteTold DEF ReadyTold, Grown
<1>4. CASE UpdateStatus
  <2> DEFINE v == [Stored EXCEPT !.status = Summarised(copy, target).status]
  <2>1. target \in Hosts /\ pc = "status"
    BY <1>4 DEF UpdateStatus, TypeOK, WorkerOK, Provisioning
  <2>2. v \in Versions /\ v.status = Summarised(copy, target).status
    BY <1>0, <2>1, SummarisedType DEF Versions
  <2>3. resource' = Append(resource, v) \/ UNCHANGED resource
    BY <1>2, <1>4 DEF UpdateStatus
  <2>4. Provisioned(server'[target])
    BY <2>1 DEF ProvisionedInv, StatementsDone, Provisioned, Grown
  <2>5. v.status.conds["Ready"] = "True" => v.status.host = target
    BY <1>0, <2>1, <2>2, SummarisedReady
  <2> QED
    BY <1>0, <2>1, <2>2, <2>3, <2>4, <2>5, WriteTold
<1>5. CASE EnsureFinalizer
  <2> DEFINE v == [Stored EXCEPT !.finalizer = TRUE]
  <2>1. v \in Versions /\ v.status = Stored.status
    BY <1>0 DEF Versions
  <2>2. resource' = Append(resource, v) \/ UNCHANGED resource
    BY <1>2, <1>5 DEF EnsureFinalizer
  <2> QED
    BY <1>0, <2>1, <2>2, WriteTold DEF ReadyTold, Grown
<1>6. NoStatus.conds["Ready"] # "True"
  BY DEF NoStatus, CondTypes
<1>7. CASE RemoveFinalizer
  <2>1. Unguarded(Stored) \in Versions /\ Unguarded(Stored).status \in {Stored.status, NoStatus}
    BY <1>0, AbsentType DEF Unguarded, Versions, Absent
  <2>2. resource' = Append(resource, Unguarded(Stored)) \/ UNCHANGED resource
    BY <1>2, <1>7 DEF RemoveFinalizer
  <2> QED
    BY <1>0, <1>6, <2>1, <2>2, WriteTold DEF ReadyTold, Grown
<1>8. CASE CreateResource
  <2> PICK policy \in Policies : resource' = Append(resource, Created(uids', policy))
    BY <1>8 DEF CreateResource
  <2>1. uids' \in 0..MaxUid
    BY <1>8, ConstantsAssumption DEF ConstantsAssumption, CreateResource, TypeOK, WorldOK
  <2>2. Created(uids', policy) \in Versions /\ Created(uids', policy).status = NoStatus
    BY <2>1, AbsentType DEF Created, Versions, Absent
  <2> QED
    BY <1>0, <1>6, <2>2, WriteTold
<1>9. CASE DeleteResource
  <2> DEFINE v == IF Stored.finalizer THEN [Stored EXCEPT !.deleting = TRUE] ELSE Absent
  <2>1. v \in Versions /\ v.status \in {Stored.status, NoStatus}
    BY <1>0, AbsentType DEF Versions, Absent
  <2>2. resource' = Append(resource, v)
    BY <1>9 DEF DeleteResource
  <2> QED
    BY <1>0, <1>6, <2>1, <2>2, WriteTold DEF ReadyTold, Grown
<1>10. CASE DeliverResource
  <2>1. /\ Len(resource') = Len(resource) - 1
        /\ \A i \in 1..Len(resource') : resource'[i] = resource[i + 1] /\ i + 1 \in 1..Len(resource)
    BY <1>10, ShortenedStream DEF DeliverResource, TypeOK, StreamsOK
  <2> QED
    BY <1>0, <2>1 DEF VersionsTold, ReadyTold, Grown
<1>11. CASE Restart
  <2>1. Len(resource') = 1 /\ resource'[1] = Stored
    BY <1>11, SingletonStream DEF Restart, RestartWorker
  <2>2. \A i \in 1..Len(resource') : resource'[i] = Stored
    BY <2>1
  <2> QED
    BY <1>0, <2>2 DEF VersionsTold, ReadyTold, Grown
<1>12. CASE ~(\/ Report \/ ReportDeletion \/ UpdateStatus \/ EnsureFinalizer \/ RemoveFinalizer
              \/ CreateResource \/ DeleteResource \/ DeliverResource \/ Restart)
  BY <1>1, <1>12, ResourceAlone
<1> QED
  BY <1>3, <1>4, <1>5, <1>7, <1>8, <1>9, <1>10, <1>11, <1>12

\* Every step keeps the invariant of what is provisioned.
LEMMA ProvisionedStep ==
    TypeOK /\ PasswordInv /\ ProvisionedInv /\ [Next]_vars => ProvisionedInv'
<1>1. ASSUME ProvisionedInv, UNCHANGED vars PROVE ProvisionedInv'
  BY <1>1 DEF ProvisionedInv, VersionsTold, ReadyTold, StatementsDone, vars, worker
<1>2. ASSUME TypeOK, PasswordInv, ProvisionedInv, Next PROVE ProvisionedInv'
  <2>1. Grown
    BY <1>2, ServerStep
  <2>2. VersionsTold'
    BY <1>2, <2>1, VersionsStep
  <2>3. ReadyTold(copy.status)'
    BY <1>2, <2>1, CopyTold DEF ProvisionedInv
  <2>4. StatementsDone'
    BY <1>2, StatementsReconcile, StatementsOthers DEF ProvisionedInv, Next
  <2> QED
    BY <2>2, <2>3, <2>4 DEF ProvisionedInv
<1> QED
  BY <1>1, <1>2

\* Nothing is Ready at first.
LEMMA ProvisionedInit == Init => ProvisionedInv
<1> SUFFICES ASSUME Init PROVE ProvisionedInv
  OBVIOUS
<1>1. resource = <<Absent>> /\ copy = Absent /\ pc = "idle"
  BY DEF Init
<1>2. ReadyTold(Absent.status)
  BY DEF Absent, NoStatus, CondTypes, ReadyTold
<1>3. \A i \in 1..Len(resource) : resource[i] = Absent
  BY <1>1
<1> QED
  BY <1>1, <1>2, <1>3 DEF ProvisionedInv, VersionsTold, StatementsDone

\* What is stored, cached and copied of the Ready condition, and what has
\* been done on the servers, keep to the inductive invariant.
THEOREM ProvisionedInvariant == Spec => []ProvisionedInv
BY TypeCorrect, PasswordInvariant, ProvisionedInit, ProvisionedStep, PTL DEF Spec, Safety

\* The Ready condition is never ahead of the work, whatever fails and
\* however stale the run's copy is.
THEOREM ReadyMeansProvisioned == Spec => []ReadyIsProvisioned
<1>1. TypeOK /\ ProvisionedInv => ReadyIsProvisioned
  BY EndsTold DEF ProvisionedInv, ReadyTold, ReadyIsProvisioned
<1> QED
  BY <1>1, TypeCorrect, ProvisionedInvariant, PTL

=============================================================================
