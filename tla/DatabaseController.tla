------------------------- MODULE DatabaseController -------------------------
(***************************************************************************)
(* The controller of PostgresDatabase resources                            *)
(* (src/internal/controller/postgresdatabase_controller.go), for one       *)
(* resource key, with the parts of Kubernetes and PostgreSQL it talks to.  *)
(*                                                                         *)
(* The API server's history of the resource and of its connection secret   *)
(* is kept as the part the informer has not delivered yet: the first       *)
(* element of each sequence is what the controller's cached client reads,  *)
(* the last one what is stored.  One worker takes the key from the queue   *)
(* and runs Reconcile; each call it makes to the API server or to          *)
(* PostgreSQL is a step of its own, so that users, the informer, the       *)
(* garbage collector and a crash may come in between any two of them.      *)
(***************************************************************************)
EXTENDS Naturals, Sequences

CONSTANTS
    Passwords, NoPassword,  \* generated passwords; no password
    Hosts, NoHost,          \* PostgreSQL servers; no server
    Policies,               \* reclaim policies users choose
    Clusters,               \* states of the referenced PostgresCluster
    Configs,                \* what resolving its admin secret yields
    InitialServers,         \* what the servers may hold at first
    Disruptions,            \* the kinds of disruption that happen
    MaxUid,                 \* bound: incarnations of the resource
    MaxLag,                 \* bound: versions the informer is behind
    MaxDisruptions          \* bound: disruptions in a behaviour

ServerStates ==
    [role     : Passwords \cup {NoPassword},  \* the role's password, if it exists
     owner    : {"none", "other", "user"},    \* the database's owner, if it exists
     granted  : BOOLEAN,                      \* the role holds the privileges
     repaired : BOOLEAN]                      \* the role owns the public objects

ASSUME ConstantsAssumption ==
    /\ NoPassword \notin Passwords
    /\ NoHost \notin Hosts
    /\ Policies \subseteq {"Delete", "Retain"}
    /\ Clusters \subseteq {"absent", "notReady", "ready"}
    /\ Configs \subseteq {"empty", "invalid", "ok", "secretMissing"}
    /\ InitialServers \subseteq [Hosts -> ServerStates]
    /\ Disruptions \subseteq {"apiError", "apiLost", "sqlError", "sqlLost", "alterError",
                              "repairError", "crash", "secretDeleted", "cluster",
                              "config", "host", "resync"}
    /\ MaxUid \in Nat /\ MaxLag \in Nat /\ MaxDisruptions \in Nat

VARIABLES
    resource,   \* versions of the resource, from the cached to the stored one
    secrets,    \* versions of the connection secret, likewise
    retired,    \* history: a connection secret has been deleted
    server,     \* what each PostgreSQL server holds for the resource
    queued,     \* the key is in the work queue
    pc,         \* where the worker is in Reconcile
    copy,       \* the worker's copy of the resource
    fresh,      \* the resourceVersion of copy is the stored one
    pw,         \* dbUserPassword
    existed,    \* userExists
    target,     \* pgHost
    cluster,    \* the PostgresCluster as cached
    config,     \* its admin secret as cached
    host,       \* the host the admin secret names
    uids,       \* incarnations created so far
    budget      \* disruptions left

worker == <<pc, copy, fresh, pw, existed, target>>
dependencies == <<cluster, config, host>>
vars == <<resource, secrets, retired, server, queued, worker, dependencies, uids, budget>>

-----------------------------------------------------------------------------
(* The resource, its status, the secret.                                   *)

CondTypes == {"ClusterReady", "SecretReady", "ConnectionReady", "DatabaseReady", "Ready"}

Statuses == [conds : [CondTypes -> {"Unset", "True", "False"}],
             phase : {"None", "Pending", "Creating", "Ready", "Failed", "Deleting"},
             host  : Hosts \cup {NoHost}]

NoStatus == [conds |-> [t \in CondTypes |-> "Unset"], phase |-> "None", host |-> NoHost]

\* uid 0 stands for the resource not being there.
Versions == [uid : 0..MaxUid, deleting : BOOLEAN, finalizer : BOOLEAN,
             policy : Policies \cup {"None"}, status : Statuses]

Absent == [uid |-> 0, deleting |-> FALSE, finalizer |-> FALSE,
           policy |-> "None", status |-> NoStatus]

Created(u, policy) == [Absent EXCEPT !.uid = u, !.policy = policy]

\* owner is the uid in the secret's controller reference.
Secrets == [owner : 0..MaxUid, pw : Passwords \cup {NoPassword}, host : Hosts \cup {NoHost}]

NoSecret == [owner |-> 0, pw |-> NoPassword, host |-> NoHost]

Cached == resource[1]
Stored == resource[Len(resource)]
CachedSecret == secrets[1]
StoredSecret == secrets[Len(secrets)]

SetConditions(c, types, value) ==
    [c EXCEPT !.status.conds =
        [t \in CondTypes |-> IF t \in types THEN value ELSE c.status.conds[t]]]

\* Seeded fault: a change that reports the Ready condition's status as the phase.
RawPhaseOf(c) == IF c.deleting THEN "Deleting" ELSE c.status.conds["Ready"]

\* updatePhase
PhaseOf(c) ==
    CASE c.deleting -> "Deleting"
      [] ~c.deleting /\ c.status.conds["Ready"] = "Unset" -> "Pending"
      [] ~c.deleting /\ c.status.conds["Ready"] = "True" -> "Ready"
      [] ~c.deleting /\ c.status.conds["Ready"] = "False"
           /\ c.status.conds["DatabaseReady"] = "False" -> "Failed"
      [] OTHER -> "Creating"

WithPhase(c) == [c EXCEPT !.status.phase = PhaseOf(c)]

\* updateStatus, before it writes: the Ready condition sums up the others.
Summarised(c, h) ==
    LET ready == \A t \in CondTypes \ {"Ready"} : c.status.conds[t] = "True"
        c1 == WithPhase(SetConditions(c, {"Ready"}, IF ready THEN "True" ELSE "False"))
    IN  IF ready THEN [c1 EXCEPT !.status.host = h] ELSE c1

-----------------------------------------------------------------------------
(* Calls and their outcomes.  A disruption is one of                       *)
(*   apiError, sqlError   the call fails and has no effect;                *)
(*   apiLost, sqlLost     it takes effect, and its reply is lost;          *)
(*   alterError           a statement whose failure is only logged fails;  *)
(*   repairError          an object's owner cannot be changed;             *)
(*   crash                the operator's process dies and is restarted;    *)
(*   secretDeleted, cluster, config, host, resync                          *)
(*                        what the environment does, below.                *)

Disrupt(kind) ==
    /\ kind \in Disruptions
    /\ budget > 0
    /\ budget' = budget - 1

Outcomes(kinds) == {"ok"} \cup IF budget > 0 THEN kinds \cap Disruptions ELSE {}

Spend(o) == budget' = IF o \in Disruptions THEN budget - 1 ELSE budget

\* Seeded fault: a change that patches instead of updating: no version is compared.
PatchOutcomes == Outcomes({"apiError", "apiLost"})

\* The API server takes an update of the stored version only.
UpdateOutcomes == IF fresh THEN Outcomes({"apiError", "apiLost"}) ELSE {"conflict"}

TookEffect(o) == o \in {"ok", "apiLost", "sqlLost"}

\* A new version; or none, when the update changes nothing, down to the
\* seconds of the conditions' lastTransitionTime.
Store(v) ==
    \/ /\ Len(resource) <= MaxLag
       /\ resource' = Append(resource, v)
    \/ /\ v = Stored
       /\ UNCHANGED resource

StoreIf(o, v) == IF TookEffect(o) THEN Store(v) ELSE UNCHANGED resource

StoreSecret(s) ==
    /\ Len(secrets) <= MaxLag
    /\ secrets' = Append(secrets, s)
    /\ retired' = (retired \/ s = NoSecret)

-----------------------------------------------------------------------------
(* How the worker goes on.                                                 *)

\* Seeded fault: a change that logs the error of an update and goes on.
MustRetryNever(o) == FALSE

\* An error returned by a call makes Reconcile run again.
MustRetry(o) == o # "ok"

\* Seeded fault: a change that waits for an event instead.
RequeueOnEvent == FALSE

\* So does a failure that was reported in the status: its error is returned
\* or, when a cluster is absent or not ready or a secret is missing, Requeue
\* is asked for; nothing else would, for neither of them is watched.
Requeue == TRUE

Return(again) ==
    /\ pc' = "idle"
    /\ queued' = (queued \/ again)
    /\ copy' = Absent
    /\ fresh' = FALSE
    /\ pw' = NoPassword
    /\ existed' = FALSE
    /\ target' = NoHost

Continue(label) == pc' = label /\ UNCHANGED queued

\* Conditions are set to False and reported in the status before Reconcile
\* returns the error.
Fail(types) ==
    /\ Continue("report")
    /\ copy' = WithPhase(SetConditions(copy, types, "False"))
    /\ UNCHANGED <<fresh, pw, existed, target>>

Succeed(types, label) ==
    /\ Continue(label)
    /\ copy' = SetConditions(copy, types, "True")

Proceed(label) == Continue(label) /\ UNCHANGED <<copy, fresh, pw, existed, target>>

-----------------------------------------------------------------------------
(* Reconcile: the key is taken from the queue and the resource read.       *)

\* Seeded fault: a change that cleans up after a failed resource as well.
ToDeleteOrFailed(v) == v.finalizer /\ (v.deleting \/ v.status.phase = "Failed")

ToDelete(v) == v.deleting /\ v.finalizer

NothingToDo(v) == v.uid = 0 \/ (v.deleting /\ ~v.finalizer)

Dequeue ==
    /\ pc = "idle" /\ queued
    /\ queued' = FALSE
    /\ UNCHANGED <<resource, secrets, retired, server, pw, existed, target, dependencies,
                   uids, budget>>

Start(label) ==
    /\ pc' = label
    /\ copy' = Cached
    /\ fresh' = (Len(resource) = 1)

SkipReconcile == NothingToDo(Cached) /\ Dequeue /\ UNCHANGED <<pc, copy, fresh>>

StartDeletion == ToDelete(Cached) /\ Dequeue /\ Start("lookup")

StartProvisioning ==
    ~NothingToDo(Cached) /\ ~ToDelete(Cached) /\ Dequeue /\ Start("fetch")

\* Status().Update of a failed condition; an error is only logged.
Report ==
    /\ pc = "report"
    /\ \E o \in UpdateOutcomes :
        /\ StoreIf(o, [Stored EXCEPT !.status = copy.status])
        /\ Spend(o)
    /\ Return(Requeue)
    /\ UNCHANGED <<secrets, retired, server, dependencies, uids>>

-----------------------------------------------------------------------------
(* Provisioning.                                                           *)

FetchAndValidateCluster ==
    /\ pc = "fetch"
    /\ \/ /\ cluster # "ready"
          /\ Fail({"ClusterReady"})
       \/ /\ cluster = "ready"
          /\ Succeed({"ClusterReady"}, "resolve")
          /\ UNCHANGED <<fresh, pw, existed, target>>
    /\ UNCHANGED <<resource, secrets, retired, server, dependencies, uids, budget>>

\* A secret that is not there, or an empty value, is reported; a missing key
\* or a reference to nothing is returned as an error only.
ResolveClusterConnection ==
    /\ pc = "resolve"
    /\ \/ /\ config \in {"secretMissing", "empty"}
          /\ Fail({"SecretReady"})
       \/ /\ config = "invalid"
          /\ Return(TRUE)
       \/ /\ config = "ok"
          /\ Succeed({"SecretReady"}, "finalizer")
          /\ target' = host
          /\ UNCHANGED <<fresh, pw, existed>>
    /\ UNCHANGED <<resource, secrets, retired, server, dependencies, uids, budget>>

\* Seeded fault: a change that leaves the finalizer to the success path.
NeedsFinalizerWhenReady(c) == ~c.finalizer /\ c.status.conds["Ready"] = "True"

NeedsFinalizer(c) == ~c.finalizer

\* The reply is decoded into the copy: what this run has put into the status
\* is lost when the stored status is not empty.
Decoded(c, v) == [c EXCEPT !.finalizer = TRUE,
                           !.status = IF v.status = NoStatus THEN c.status ELSE v.status]

EnsureFinalizer ==
    /\ pc = "finalizer"
    /\ \/ /\ ~NeedsFinalizer(copy)
          /\ Proceed("connect")
          /\ UNCHANGED <<resource, budget>>
       \/ /\ NeedsFinalizer(copy)
          /\ \E o \in UpdateOutcomes :
                /\ StoreIf(o, [Stored EXCEPT !.finalizer = TRUE])
                /\ Spend(o)
                /\ IF MustRetry(o)
                   THEN Return(TRUE)
                   ELSE /\ Continue("connect")
                        /\ copy' = Decoded(copy, Stored)
                        /\ UNCHANGED <<fresh, pw, existed, target>>
    /\ UNCHANGED <<secrets, retired, server, dependencies, uids>>

ConnectToDatabase ==
    /\ pc = "connect"
    /\ \E o \in Outcomes({"sqlError"}) :
        /\ Spend(o)
        /\ IF o = "ok"
           THEN Succeed({"ConnectionReady"}, "secret") /\ UNCHANGED <<fresh, pw, existed, target>>
           ELSE Fail({"ConnectionReady"})
    /\ UNCHANGED <<resource, secrets, retired, server, dependencies, uids>>

\* generateRandomPassword: a password that is in use nowhere.
FreshPasswords ==
    Passwords \ ({server[h].role : h \in Hosts} \cup {secrets[i].pw : i \in 1..Len(secrets)})

CreateOutcomes ==
    IF StoredSecret = NoSecret THEN Outcomes({"apiError", "apiLost"}) ELSE {"alreadyExists"}

\* Seeded fault: a change that takes the secret somebody created for its own.
SecretCreatedOrExists(o) == o \in {"ok", "alreadyExists"}

SecretCreated(o) == o = "ok"

EnsureConnectionSecret ==
    /\ pc = "secret"
    /\ \/ /\ CachedSecret # NoSecret
          /\ pw' = CachedSecret.pw
          /\ Succeed({"SecretReady"}, "createUser")
          /\ UNCHANGED <<secrets, retired, budget, fresh, existed, target>>
       \/ /\ CachedSecret = NoSecret
          /\ \E password \in FreshPasswords, o \in CreateOutcomes :
                /\ IF TookEffect(o)
                   THEN StoreSecret([owner |-> copy.uid, pw |-> password, host |-> target])
                   ELSE UNCHANGED <<secrets, retired>>
                /\ Spend(o)
                /\ IF SecretCreated(o)
                   THEN /\ Succeed({"SecretReady"}, "createUser")
                        /\ pw' = password
                        /\ UNCHANGED <<fresh, existed, target>>
                   ELSE Fail({"SecretReady"})
    /\ UNCHANGED <<resource, server, dependencies, uids>>

(* createDatabaseAndUser, statement by statement.                          *)

\* Seeded fault: a change that treats the privileges like the default privileges.
NonCriticalGrants == {"alterUser", "alterOwner", "grant"}

\* Statements whose failure is logged and forgotten.
NonCritical == {"alterUser", "alterOwner"}

\* The worker runs one statement on its server.  effect is what the server
\* holds when the statement takes effect, next where a success leads.
Execute(label, kinds, effect, next, failed) ==
    /\ pc = label
    /\ \E o \in Outcomes(kinds) :
        /\ server' = IF TookEffect(o) THEN [server EXCEPT ![target] = effect] ELSE server
        /\ Spend(o)
        /\ IF o = "ok" \/ label \in NonCritical THEN Proceed(next) ELSE Fail(failed)
    /\ UNCHANGED <<resource, secrets, retired, dependencies, uids>>

CreateUser ==
    /\ pc = "createUser"
    /\ server[target].role = NoPassword
    /\ Execute("createUser", {"sqlError", "sqlLost"},
               [server[target] EXCEPT !.role = pw], "createDatabase", {"DatabaseReady"})

\* CREATE USER fails with "already exists", and the user is altered next; or
\* with another error.
FindUser ==
    /\ pc = "createUser"
    /\ server[target].role # NoPassword
    /\ \/ /\ Continue("alterUser")
          /\ existed' = TRUE
          /\ UNCHANGED <<copy, fresh, pw, target, budget>>
       \/ Disrupt("sqlError") /\ Fail({"DatabaseReady"})
    /\ UNCHANGED <<resource, secrets, retired, server, dependencies, uids>>

AlterUser ==
    Execute("alterUser", {"alterError"},
            [server[target] EXCEPT !.role = pw], "createDatabase", {})

CreateDatabase ==
    /\ pc = "createDatabase"
    /\ server[target].owner = "none"
    /\ Execute("createDatabase", {"sqlError", "sqlLost"},
               [server[target] EXCEPT !.owner = "user", !.granted = FALSE, !.repaired = TRUE],
               "grant", {"DatabaseReady"})

\* Seeded fault: a change that alters the owner for a new user only.
NextForNewUser == IF existed THEN "grant" ELSE "alterOwner"

NextAfterFoundDatabase == IF existed THEN "alterOwner" ELSE "grant"

\* CREATE DATABASE fails with "already exists", and its owner is altered next
\* if the user was there before this run; or with another error.
FindDatabase ==
    /\ pc = "createDatabase"
    /\ server[target].owner # "none"
    /\ \/ Proceed(NextAfterFoundDatabase) /\ UNCHANGED budget
       \/ Disrupt("sqlError") /\ Fail({"DatabaseReady"})
    /\ UNCHANGED <<resource, secrets, retired, server, dependencies, uids>>

AlterDatabaseOwner ==
    Execute("alterOwner", {"alterError"},
            [server[target] EXCEPT !.owner = "user"], "grant", {})

\* The privileges on the database and, over a connection of its own, those
\* on the public schema.
GrantPrivileges ==
    Execute("grant", {"sqlError", "sqlLost"},
            [server[target] EXCEPT !.granted = TRUE], "repair", {"DatabaseReady"})

TransferObjectOwnership ==
    /\ pc = "repair"
    /\ \E o \in Outcomes({"repairError", "sqlLost"}) :
        /\ server' = IF TookEffect(o) THEN [server EXCEPT ![target].repaired = TRUE] ELSE server
        /\ Spend(o)
        /\ IF o = "ok"
           THEN /\ Succeed({"DatabaseReady"}, "status")
                /\ UNCHANGED <<fresh, pw, existed, target>>
           ELSE Fail({"DatabaseReady", "Ready"})
    /\ UNCHANGED <<resource, secrets, retired, dependencies, uids>>

UpdateStatus ==
    /\ pc = "status"
    /\ \E o \in UpdateOutcomes :
        /\ StoreIf(o, [Stored EXCEPT !.status = Summarised(copy, target).status])
        /\ Spend(o)
        /\ Return(MustRetry(o))
    /\ UNCHANGED <<secrets, retired, server, dependencies, uids>>

-----------------------------------------------------------------------------
(* handleDeletion.                                                         *)

\* The cluster, ready or not, and its connection details; a failure to get
\* them skips the cleanup, and a reported one writes the status first.
Lookup ==
    /\ pc = "lookup"
    /\ \/ /\ cluster # "absent" /\ config = "ok" /\ copy.policy = "Delete"
          /\ Continue("drop")
          /\ target' = host
          /\ UNCHANGED copy
       \/ /\ cluster # "absent" /\ config \in {"secretMissing", "empty"}
          /\ Continue("reportDeletion")
          /\ copy' = WithPhase(SetConditions(copy, {"SecretReady"}, "False"))
          /\ UNCHANGED target
       \/ /\ \/ cluster = "absent"
             \/ config = "invalid"
             \/ config = "ok" /\ copy.policy # "Delete"
          /\ Continue("refetch")
          /\ UNCHANGED <<copy, target>>
    /\ UNCHANGED <<resource, secrets, retired, server, fresh, pw, existed, dependencies,
                   uids, budget>>

ReportDeletion ==
    /\ pc = "reportDeletion"
    /\ \E o \in UpdateOutcomes :
        /\ StoreIf(o, [Stored EXCEPT !.status = copy.status])
        /\ Spend(o)
    /\ Proceed("refetch")
    /\ UNCHANGED <<secrets, retired, server, dependencies, uids>>

\* PostgreSQL rejects DROP DATABASE inside a transaction block.
RejectedInTransaction == {"DROP DATABASE"}

\* A transaction has the effect of its statements, or none.
AfterTransaction(s, statements) ==
    IF statements \cap RejectedInTransaction # {} THEN s
    ELSE [s EXCEPT !.role     = IF "DROP USER" \in statements THEN NoPassword ELSE @,
                   !.owner    = IF "DROP DATABASE" \in statements THEN "none" ELSE @,
                   !.granted  = FALSE,
                   !.repaired = FALSE]

\* dropDatabaseAndUser; an error is only logged.
DropDatabaseAndUser ==
    /\ pc = "drop"
    /\ server' = [server EXCEPT ![target] = AfterTransaction(@, {"DROP DATABASE", "DROP USER"})]
    /\ Proceed("refetch")
    /\ UNCHANGED <<resource, secrets, retired, dependencies, uids, budget>>

\* The resource is read again, through the cache.
Refetch ==
    /\ pc = "refetch"
    /\ \/ /\ Cached.uid = 0 \/ ~Cached.finalizer
          /\ Return(FALSE)
       \/ /\ Cached.uid # 0 /\ Cached.finalizer
          /\ Continue("release")
          /\ copy' = Cached
          /\ fresh' = (Len(resource) = 1)
          /\ UNCHANGED <<pw, existed, target>>
    /\ UNCHANGED <<resource, secrets, retired, server, dependencies, uids, budget>>

\* What the API server makes of a resource that loses its last finalizer.
Unguarded(v) == IF v.deleting THEN Absent ELSE [v EXCEPT !.finalizer = FALSE]

RemoveFinalizer ==
    /\ pc = "release"
    /\ \E o \in UpdateOutcomes :
        /\ StoreIf(o, Unguarded(Stored))
        /\ Spend(o)
        /\ Return(MustRetry(o))
    /\ UNCHANGED <<secrets, retired, server, dependencies, uids>>

-----------------------------------------------------------------------------
(* Users, the informer, the garbage collector, the rest of the cluster.    *)

CreateResource ==
    /\ Stored.uid = 0
    /\ uids < MaxUid
    /\ uids' = uids + 1
    /\ \E policy \in Policies : resource' = Append(resource, Created(uids', policy))
    /\ Len(resource) <= MaxLag
    /\ fresh' = FALSE
    /\ UNCHANGED <<secrets, retired, server, queued, pc, copy, pw, existed, target,
                   dependencies, budget>>

\* A resource without finalizer goes at once, one with it is marked.
DeleteResource ==
    /\ Stored.uid # 0
    /\ ~Stored.deleting
    /\ Len(resource) <= MaxLag
    /\ resource' = Append(resource, IF Stored.finalizer THEN [Stored EXCEPT !.deleting = TRUE]
                                                        ELSE Absent)
    /\ fresh' = FALSE
    /\ UNCHANGED <<secrets, retired, server, queued, pc, copy, pw, existed, target,
                   dependencies, uids, budget>>

\* For(PostgresDatabase): each change of the resource queues the key.
DeliverResource ==
    /\ Len(resource) > 1
    /\ resource' = Tail(resource)
    /\ queued' = TRUE
    /\ UNCHANGED <<secrets, retired, server, worker, dependencies, uids, budget>>

\* Owns(Secret): so does each change of a secret the resource controls.
DeliverSecret ==
    /\ Len(secrets) > 1
    /\ secrets' = Tail(secrets)
    /\ queued' = (queued \/ secrets[1].owner # 0 \/ secrets[2].owner # 0)
    /\ UNCHANGED <<resource, retired, server, worker, dependencies, uids, budget>>

\* Kubernetes deletes a secret whose owner is gone.
Garbage == StoredSecret.owner # 0 /\ StoredSecret.owner # Stored.uid

CollectGarbage ==
    /\ Garbage
    /\ StoreSecret(NoSecret)
    /\ UNCHANGED <<resource, server, queued, worker, dependencies, uids, budget>>

DeleteSecret ==
    /\ StoredSecret # NoSecret
    /\ StoreSecret(NoSecret)
    /\ Disrupt("secretDeleted")
    /\ UNCHANGED <<resource, server, queued, worker, dependencies, uids>>

\* The controller watches neither the cluster nor its admin secret.
ChangeCluster ==
    /\ cluster' \in Clusters \ {cluster}
    /\ Disrupt("cluster")
    /\ UNCHANGED <<resource, secrets, retired, server, queued, worker, config, host, uids>>

ChangeConfig ==
    /\ config' \in Configs \ {config}
    /\ Disrupt("config")
    /\ UNCHANGED <<resource, secrets, retired, server, queued, worker, cluster, host, uids>>

ChangeHost ==
    /\ host' \in Hosts \ {host}
    /\ Disrupt("host")
    /\ UNCHANGED <<resource, secrets, retired, server, queued, worker, cluster, config, uids>>

\* The informer's periodic resync.
Resync ==
    /\ Cached.uid # 0
    /\ queued' = TRUE
    /\ Disrupt("resync")
    /\ UNCHANGED <<resource, secrets, retired, server, worker, dependencies, uids>>

\* The process ends, at any point of Reconcile, and a new one lists what is
\* stored.
RestartWorker ==
    /\ Disrupt("crash")
    /\ resource' = <<Stored>>
    /\ secrets' = <<StoredSecret>>
    /\ queued' = (Stored.uid # 0 \/ StoredSecret.owner # 0)
    /\ pc' = "idle" /\ copy' = Absent /\ fresh' = FALSE
    /\ pw' = NoPassword /\ existed' = FALSE /\ target' = NoHost
    /\ UNCHANGED <<retired, server, uids>>

Restart == RestartWorker /\ UNCHANGED dependencies

-----------------------------------------------------------------------------

Init ==
    /\ resource = <<Absent>>
    /\ secrets = <<NoSecret>>
    /\ retired = FALSE
    /\ server \in InitialServers
    /\ queued = FALSE
    /\ pc = "idle" /\ copy = Absent /\ fresh = FALSE
    /\ pw = NoPassword /\ existed = FALSE /\ target = NoHost
    /\ cluster \in Clusters /\ config \in Configs /\ host \in Hosts
    /\ uids = 0
    /\ budget = MaxDisruptions

Provision ==
    \/ FetchAndValidateCluster \/ ResolveClusterConnection \/ EnsureFinalizer
    \/ ConnectToDatabase \/ EnsureConnectionSecret
    \/ CreateUser \/ FindUser \/ AlterUser
    \/ CreateDatabase \/ FindDatabase \/ AlterDatabaseOwner
    \/ GrantPrivileges \/ TransferObjectOwnership \/ UpdateStatus

HandleDeletion ==
    Lookup \/ ReportDeletion \/ DropDatabaseAndUser \/ Refetch \/ RemoveFinalizer

Reconcile ==
    SkipReconcile \/ StartProvisioning \/ StartDeletion \/ Report \/ Provision \/ HandleDeletion

User == CreateResource \/ DeleteResource \/ DeleteSecret

Environment ==
    \/ DeliverResource \/ DeliverSecret \/ CollectGarbage
    \/ ChangeCluster \/ ChangeConfig \/ ChangeHost \/ Resync \/ Restart

Next == Reconcile \/ User \/ Environment

\* The worker keeps running, the informer keeps delivering, and Kubernetes
\* collects its garbage.  Nothing is assumed of users or disruptions.
Fairness ==
    /\ WF_vars(Reconcile)
    /\ WF_vars(DeliverResource)
    /\ WF_vars(DeliverSecret)
    /\ WF_vars(CollectGarbage)

Safety == Init /\ [][Next]_vars
Spec == Safety /\ Fairness

-----------------------------------------------------------------------------
(* Properties.                                                             *)

\* Between ensureFinalizer and the end of a provisioning run.
Provisioning == {"connect", "secret", "createUser", "alterUser", "createDatabase",
                 "alterOwner", "grant", "repair", "status"}

Unguarding == {"lookup", "reportDeletion", "drop", "refetch", "release"}

Labels == {"idle", "fetch", "resolve", "finalizer", "report"} \cup Provisioning \cup Unguarding

StreamsOK ==
    /\ resource \in Seq(Versions) /\ Len(resource) \in 1..MaxLag + 1
    /\ secrets \in Seq(Secrets) /\ Len(secrets) \in 1..MaxLag + 1
    /\ retired \in BOOLEAN

WorkerOK ==
    /\ queued \in BOOLEAN
    /\ pc \in Labels
    /\ copy \in Versions
    /\ fresh \in BOOLEAN
    /\ pw \in Passwords \cup {NoPassword}
    /\ existed \in BOOLEAN
    /\ target \in Hosts \cup {NoHost}
    /\ pc \in Provisioning \cup {"finalizer", "drop"} => target \in Hosts

WorldOK ==
    /\ server \in [Hosts -> ServerStates]
    /\ cluster \in Clusters /\ config \in Configs /\ host \in Hosts
    /\ uids \in 0..MaxUid
    /\ budget \in 0..MaxDisruptions

\* Type invariant: the variables, the status written to the API server among
\* them, keep within their types, and a run has a server when it needs one.
TypeOK == StreamsOK /\ WorkerOK /\ WorldOK

\* While a run of the controller works on PostgreSQL or on the connection
\* secret, the very incarnation of the resource it works for is stored with
\* the finalizer on it: however stale the run's copy is, whoever deleted or
\* recreated the resource meanwhile, nothing is made for a resource that
\* could go without handleDeletion (ensureFinalizer before connectToDatabase).
GuardedWhileProvisioning ==
    pc \in Provisioning => Stored.uid = copy.uid /\ Stored.uid # 0 /\ Stored.finalizer

Guarded(v) == v.finalizer /\ ~v.deleting

\* handleDeletion never works on a resource, or on a later incarnation of
\* it, that is provisioned and not deleted: a stale copy, a repeated run or a
\* lost reply cannot take the finalizer, the database or the user of a live
\* resource away.
DeletionSparesLive ==
    pc \in Unguarding => ~Guarded(Stored)

LiveResource == Stored.uid # 0 /\ ~Stored.deleting

\* A server has everything a resource asks for.
Provisioned(s) == s.role # NoPassword /\ s.owner # "none" /\ s.granted /\ s.repaired

\* A resource whose stored Ready condition is True has, on the server its
\* status names, its role, its database and its privileges: the condition
\* is never ahead of the work (updateStatus after createDatabaseAndUser).
ReadyIsProvisioned ==
    LiveResource /\ Stored.status.conds["Ready"] = "True" =>
        Stored.status.host \in Hosts /\ Provisioned(server[Stored.status.host])

\* Everything the resource is for: it is Ready, its secret exists, and the
\* role, which owns the database, has the secret's password.
Served ==
    LET s == server[Stored.status.host]
    IN  /\ \A t \in CondTypes : Stored.status.conds[t] = "True"
        /\ StoredSecret # NoSecret
        /\ s.role = StoredSecret.pw
        /\ s.owner = "user" /\ s.granted /\ s.repaired

\* Nothing is queued, undelivered or waiting for the collector; nor running.
Settled == ~queued /\ Len(resource) = 1 /\ Len(secrets) = 1 /\ ~Garbage

Quiet == pc = "idle" /\ Settled

\* When the controller has come to rest over a live resource, it has served
\* it: no interleaving, failed call, lost reply, crash or stale read leaves
\* work undone with nothing queued that would do it.
RestIsServed == Quiet /\ LiveResource => Served

\* When it has come to rest and the resource is gone or going, the resource
\* is gone, and so is the secret.
RestIsReleased == Quiet /\ ~LiveResource => Stored.uid = 0 /\ StoredSecret.owner = 0

\* Unless a secret was deleted before, a password an application can read
\* from the secret and use is never taken away: the role's password changes
\* only when it was not the stored secret's (the secret is created once and
\* never rewritten, and CREATE refuses a second one, however stale the cache
\* was).  After a deletion a run may find the old secret in the cache and
\* set its password once more, until the new one is delivered.
WorkingPasswordKept ==
    [][\A h \in Hosts :
        ~retired /\ StoredSecret # NoSecret /\ server[h].role = StoredSecret.pw
            => server'[h].role = server[h].role]_vars

\* Liveness: a resource that stays, with its cluster ready and its admin
\* secret right, is served in the end and remains so.
Converges ==
    <>[](LiveResource /\ cluster = "ready" /\ config = "ok") => <>[]Served

\* A run that has written the status of a deleted resource, and reads it again
\* at once, finds the informer up to date now and then.
InformerKeepsUp ==
    []<>(pc = "refetch") => []<><<Refetch /\ Len(resource) = 1>>_vars

\* While the admin secret is missing each run of handleDeletion writes the
\* status before it removes the finalizer, and conflicts with its own write
\* unless the informer keeps up.
CanRelease == InformerKeepsUp \/ <>[](config \notin {"secretMissing", "empty"})

\* Liveness: a deleted resource goes, whatever became of the cluster and its
\* admin secret (handleDeletion skips the cleanup, not the finalizer).
DeletionCompletes == CanRelease => (Stored.deleting ~> Stored.uid = 0)

-----------------------------------------------------------------------------
(* The abstract specification of the finalizer's protocol.                 *)

Stage == IF Stored.uid = 0 THEN "absent"
         ELSE IF Stored.deleting THEN "terminating"
         ELSE IF Stored.finalizer THEN "guarded"
         ELSE "plain"

Lifecycle == INSTANCE ResourceLifecycle
    WITH stage <- Stage, served <- server, ServerStates <- [Hosts -> ServerStates]

\* The controller implements the finalizer's protocol: PostgreSQL changes for
\* guarded and terminating resources only, the finalizer comes off
\* terminating resources only, and every terminating resource is released.
ImplementsLifecycle == Lifecycle!Safety /\ (CanRelease => Lifecycle!Fairness)

-----------------------------------------------------------------------------
(* The inductive invariant behind GuardedWhileProvisioning and             *)
(* DeletionSparesLive.                                                     *)

\* A version that is guarded and not deleted, however old, is of the
\* incarnation that is stored, which still has the finalizer; and no such
\* version comes after one that is deleted.
HistoryInv ==
    /\ \A i \in 1..Len(resource) :
          Guarded(resource[i]) => /\ Stored.uid # 0
                                  /\ Stored.uid = resource[i].uid
                                  /\ Stored.finalizer
    /\ \A i, j \in 1..Len(resource) :
          i < j /\ resource[i].deleting => ~Guarded(resource[j])

Validating == {"fetch", "resolve", "finalizer"}

\* What the worker's copy says of what is stored, by where the worker is.
RunInv ==
    /\ pc # "idle" /\ fresh => /\ copy.uid = Stored.uid
                               /\ copy.deleting = Stored.deleting
                               /\ copy.finalizer = Stored.finalizer
    /\ pc \in Validating =>
          /\ copy.uid # 0 /\ ~copy.deleting
          /\ copy.finalizer => Stored.uid = copy.uid /\ Stored.finalizer
          /\ fresh => \A i \in 1..Len(resource) : ~resource[i].deleting
    /\ GuardedWhileProvisioning
    /\ pc \in Unguarding => \A i \in 1..Len(resource) : ~Guarded(resource[i])

GuardInv == HistoryInv /\ RunInv

(* The inductive invariant behind RestIsReleased.                          *)

\* Only what has the finalizer is marked as deleted; and once the informer
\* shows it, its key is queued or a run of handleDeletion is at it.
ReleaseInv ==
    /\ \A i \in 1..Len(resource) :
          resource[i].deleting => resource[i].finalizer /\ resource[i].uid # 0
    /\ Stored.deleting /\ Len(resource) = 1 /\ ~queued => pc \in Unguarding

(* The inductive invariant behind WorkingPasswordKept.                     *)

SettingPassword == {"createUser", "alterUser"}

\* Secrets have passwords, and so has a run that is about to set the role's.
\* Unless a secret was deleted, the informer shows the stored one or none,
\* and the run sets the stored one's password.
PasswordInv ==
    /\ \A i \in 1..Len(secrets) : secrets[i] # NoSecret => secrets[i].pw \in Passwords
    /\ pc \in SettingPassword => pw \in Passwords
    /\ ~retired =>
          /\ \A i \in 1..Len(secrets) : secrets[i] \in {NoSecret, StoredSecret}
          /\ pc \in SettingPassword => StoredSecret # NoSecret /\ pw = StoredSecret.pw

(* The inductive invariant behind ReadyIsProvisioned.                      *)

\* A status that says Ready names a server that has what is asked for.
ReadyTold(status) ==
    status.conds["Ready"] = "True" =>
        status.host \in Hosts /\ Provisioned(server[status.host])

VersionsTold == \A i \in 1..Len(resource) : ReadyTold(resource[i].status)

\* What the statements of a run have left on its server, by where it is.
StatementsDone ==
    LET s == server[target]
    IN  /\ pc \in {"alterUser", "createDatabase", "alterOwner", "grant", "repair", "status"} =>
              s.role # NoPassword
        /\ pc \in {"alterOwner", "grant", "repair", "status"} => s.owner # "none"
        /\ pc \in {"repair", "status"} => s.granted
        /\ pc = "status" => s.repaired

ProvisionedInv == VersionsTold /\ ReadyTold(copy.status) /\ StatementsDone

(* The inductive invariant behind RestIsServed.                            *)

\* A delivery of the secret's stream is about a secret with an owner.
SecretsTold ==
    /\ \A k \in 1..Len(secrets) : secrets[k] # NoSecret => secrets[k].owner # 0
    /\ \A k \in 1..Len(secrets) - 1 : secrets[k] # NoSecret \/ secrets[k + 1] # NoSecret

\* handleDeletion with nothing new delivered or queued: the resource is going.
NoLiveRelease == pc \in Unguarding /\ ~queued /\ Len(resource) = 1 => ~LiveResource

\* The conditions that a run has come past, unless another one is due.
ConditionsDone ==
    Settled =>
        /\ pc \in {"resolve", "finalizer"} \cup Provisioning =>
              copy.status.conds["ClusterReady"] = "True"
        /\ pc \in {"finalizer"} \cup Provisioning => copy.status.conds["SecretReady"] = "True"
        /\ pc \in Provisioning \ {"connect"} => copy.status.conds["ConnectionReady"] = "True"
        /\ pc = "status" => copy.status.conds["DatabaseReady"] = "True"

SecretDone ==
    Settled /\ pc \in Provisioning \ {"connect", "secret"} =>
        StoredSecret # NoSecret /\ pw = StoredSecret.pw

\* After CREATE USER or ALTER USER.
RoleSet == {"createDatabase", "alterOwner", "grant", "repair", "status"}

\* A database of somebody else remains so only in a run that made the user,
\* and such a run finds a status that does not say Ready of this server.
RoleDone ==
    /\ pc = "alterUser" => existed
    /\ pc \in RoleSet => server[target].role = pw
    /\ pc \in {"grant", "repair", "status"} => server[target].owner = "user" \/ ~existed
    /\ Settled /\ pc \in RoleSet /\ ~existed =>
          ~(Stored.status.conds["Ready"] = "True" /\ Stored.status.host = target)

ServeInv ==
    SecretsTold /\ NoLiveRelease /\ ConditionsDone /\ SecretDone /\ RoleDone /\ RestIsServed

(* Where the servers were empty and no secret is deleted.                  *)

\* Nobody else has made the role or the database: there is no other password
\* and no other owner for an ALTER to change.
FreshInv ==
    /\ ~retired
    /\ \A h \in Hosts : server[h].role \in {NoPassword, StoredSecret.pw} /\ server[h].owner # "other"

-----------------------------------------------------------------------------
(* What the documentation and the tests say, and the code does not do.     *)

\* README.md: reclaim policy Delete deletes the database and its user.
DeletedMeansDropped ==
    [][Stored.deleting /\ Stored.policy = "Delete" /\ Stored'.uid = 0
        => \A h \in Hosts : server'[h].owner = "none" /\ server'[h].role = NoPassword]_vars

\* e2e_test.go: a resource that is Ready has no condition that is False.
ReadyHasNoFailedCondition ==
    Stored.status.conds["Ready"] = "True" =>
        \A t \in CondTypes : Stored.status.conds[t] # "False"

\* Reconcile: the connection secret is created or updated.
SecretNamesServer == Quiet /\ LiveResource => StoredSecret.host = Stored.status.host

\* createDatabaseAndUser: the user's password is made to match the secret's.
PasswordMatchesSecret ==
    Quiet /\ LiveResource => server[Stored.status.host].role = StoredSecret.pw

=============================================================================
