-------------------------- MODULE ClusterController --------------------------
(***************************************************************************)
(* The controller of PostgresCluster resources                             *)
(* (src/internal/controller/postgrescluster_controller.go), for one        *)
(* resource key: it resolves the administrator's connection details, tries *)
(* them, and reports the outcome in the status.                            *)
(*                                                                         *)
(* As in DatabaseController, the resource is the sequence of the versions  *)
(* from the one the controller's cache holds to the one that is stored.    *)
(* The secret the details may come from is only ever read from the cache,  *)
(* one field after the other: it may change in between.                    *)
(***************************************************************************)
EXTENDS Naturals, Sequences

CONSTANTS
    Hosts, NoHost,     \* PostgreSQL servers; no server
    Specs,             \* what users write: a host, "reference" or "unset"
    AdminSecrets,      \* what the referenced secret may be
    Disruptions,       \* the kinds of disruption that happen
    MaxUid,            \* bound: incarnations of the resource
    MaxGeneration,     \* bound: generations of one incarnation
    MaxLag,            \* bound: versions the informer is behind
    MaxDisruptions     \* bound: disruptions in a behaviour

\* A field of the secret: the server it names or gives the password of, an
\* empty string, or no such key.
Fields == Hosts \cup {"empty", "absent"}

AdminSecretStates == [there : BOOLEAN, host : Fields, password : Fields]

ASSUME ClusterAssumption ==
    /\ NoHost \notin Hosts
    /\ Hosts \cap {"empty", "absent", "missing", "invalid", "reference", "unset"} = {}
    /\ Specs \subseteq Hosts \cup {"reference", "unset"}
    /\ AdminSecrets \subseteq AdminSecretStates
    /\ Disruptions \subseteq {"apiError", "apiLost", "crash", "secret", "server"}
    /\ MaxUid \in Nat /\ MaxGeneration \in Nat \ {0} /\ MaxLag \in Nat
    /\ MaxDisruptions \in Nat

VARIABLES
    resource,     \* versions of the resource, from the cached to the stored one
    adminSecret,  \* the referenced secret as cached
    up,           \* the servers that accept their administrator
    queued,       \* the key is in the work queue
    retry,        \* the key is waiting for RequeueAfter to pass
    pc,           \* where the worker is in Reconcile
    copy,         \* the worker's copy of the resource
    fresh,        \* the resourceVersion of copy is the stored one
    target,       \* host, once resolved
    password,     \* the server whose password was resolved
    uids,         \* incarnations created so far
    budget        \* disruptions left

worker == <<pc, copy, fresh, target, password>>
vars == <<resource, adminSecret, up, queued, retry, worker, uids, budget>>

-----------------------------------------------------------------------------
(* The resource and its status.                                            *)

CondTypes == {"ConfigurationValid", "ConnectionReady", "Ready"}

Statuses == [conds    : [CondTypes -> {"Unset", "True", "False"}],
             phase    : {"None", "Pending", "Creating", "Ready", "Failed"},
             observed : 0..MaxGeneration,
             host     : Hosts \cup {NoHost}]

NoStatus == [conds |-> [t \in CondTypes |-> "Unset"], phase |-> "None",
             observed |-> 0, host |-> NoHost]

\* uid 0 stands for the resource not being there.
Versions == [uid : 0..MaxUid, generation : 0..MaxGeneration,
             spec : Specs \cup {"none"}, status : Statuses]

Absent == [uid |-> 0, generation |-> 0, spec |-> "none", status |-> NoStatus]

Created(u, spec) == [Absent EXCEPT !.uid = u, !.generation = 1, !.spec = spec]

Cached == resource[1]
Stored == resource[Len(resource)]

SetCondition(c, type, ok) == [c EXCEPT !.status.conds[type] = IF ok THEN "True" ELSE "False"]

\* updatePhase.  A cluster that is being deleted is not among the inputs: the
\* controller sets no finalizer, so its branch is left out.
PhaseOf(c) ==
    CASE c.status.conds["Ready"] = "Unset" -> "Pending"
      [] c.status.conds["Ready"] = "True" -> "Ready"
      [] c.status.conds["Ready"] = "False"
           /\ c.status.conds["ConfigurationValid"] = "False" -> "Failed"
      [] OTHER -> "Creating"

WithPhase(c) == [c EXCEPT !.status.phase = PhaseOf(c)]

\* Seeded fault: a change that fills in the admin connection only once.
FirstConnection(old, h) == IF old = NoHost THEN h ELSE old

\* The admin connection of a status that is Ready.
AdminConnection(old, h) == h

\* updateStatus, before it writes: both conditions make the resource Ready.
Summarised(c, h) ==
    LET ready == c.status.conds["ConfigurationValid"] = "True"
                   /\ c.status.conds["ConnectionReady"] = "True"
        c1 == WithPhase(SetCondition([c EXCEPT !.status.observed = c.generation], "Ready", ready))
    IN  IF ready THEN [c1 EXCEPT !.status.host = AdminConnection(@, h)] ELSE c1

-----------------------------------------------------------------------------
(* Calls to the API server, and how the worker goes on.                    *)

Disrupt(kind) ==
    /\ kind \in Disruptions
    /\ budget > 0
    /\ budget' = budget - 1

\* A call fails without effect (apiError), or its reply is lost (apiLost).
UpdateOutcomes ==
    IF fresh THEN {"ok"} \cup IF budget > 0 THEN {"apiError", "apiLost"} \cap Disruptions ELSE {}
             ELSE {"conflict"}

Spend(o) == budget' = IF o \in Disruptions THEN budget - 1 ELSE budget

\* Status().Update: a new version, or none when it changes nothing, down to
\* the seconds of lastTransitionTime.
StoreStatus(o, status) ==
    LET v == [Stored EXCEPT !.status = status]
    IN  IF o \in {"ok", "apiLost"}
        THEN \/ /\ Len(resource) <= MaxLag
                /\ resource' = Append(resource, v)
             \/ /\ v = Stored
                /\ UNCHANGED resource
        ELSE UNCHANGED resource

Return ==
    /\ pc' = "idle"
    /\ copy' = Absent
    /\ fresh' = FALSE
    /\ target' = NoHost
    /\ password' = NoHost

\* An error or Requeue puts the key back.
ReturnError == Return /\ queued' = TRUE /\ UNCHANGED retry

-----------------------------------------------------------------------------
(* Reconcile.                                                              *)

Start ==
    /\ pc = "idle" /\ queued
    /\ queued' = FALSE
    /\ IF Cached.uid = 0
       THEN UNCHANGED <<pc, copy, fresh>>
       ELSE /\ pc' = "host"
            /\ copy' = Cached
            /\ fresh' = (Len(resource) = 1)
    /\ UNCHANGED <<resource, adminSecret, up, retry, target, password, uids, budget>>

\* resolveStringOrSecret.  "missing" makes Reconcile run again and "invalid"
\* (nothing specified, no such key) is an error: neither leaves a trace in the
\* status.
Resolved(spec, field) ==
    CASE spec \in Hosts -> spec
      [] spec = "reference" /\ ~adminSecret.there -> "missing"
      [] spec = "reference" /\ adminSecret.there /\ adminSecret[field] # "absent" -> adminSecret[field]
      [] OTHER -> "invalid"

Unresolved == {"missing", "invalid"}

\* A target that is NoHost from here on stands for an empty string.
Value(r) == IF r = "empty" THEN NoHost ELSE r

ResolveHost ==
    /\ pc = "host"
    /\ LET r == Resolved(copy.spec, "host")
       IN  \/ /\ r \in Unresolved
              /\ ReturnError
           \/ /\ r \notin Unresolved
              /\ pc' = "password"
              /\ target' = Value(r)
              /\ UNCHANGED <<queued, retry, copy, fresh, password>>
    /\ UNCHANGED <<resource, adminSecret, up, uids, budget>>

\* Seeded fault: a change that forgets that the host may be empty, too.
PasswordOnly(h, pw) == pw # NoHost

\* All required fields are present.
Complete(h, pw) == h # NoHost /\ pw # NoHost

\* The administrator's name and password, which come and go together here.
ResolvePassword ==
    /\ pc = "password"
    /\ LET r == Resolved(copy.spec, "password")
       IN  \/ /\ r \in Unresolved
              /\ ReturnError
           \/ /\ r \notin Unresolved
              /\ password' = Value(r)
              /\ IF Complete(target, Value(r))
                 THEN /\ pc' = "test"
                      /\ UNCHANGED copy
                 ELSE /\ pc' = "report"
                      /\ copy' = WithPhase(SetCondition(copy, "ConfigurationValid", FALSE))
              /\ UNCHANGED <<queued, retry, fresh, target>>
    /\ UNCHANGED <<resource, adminSecret, up, uids, budget>>

\* Status().Update of an empty field; its own error is only logged.
Report ==
    /\ pc = "report"
    /\ \E o \in UpdateOutcomes : StoreStatus(o, copy.status) /\ Spend(o)
    /\ ReturnError
    /\ UNCHANGED <<adminSecret, up, uids>>

\* Seeded fault: a change that opens a connection and does not ping.
OpenOnly(h, pw) == TRUE

Accepts(h, pw) == h \in up /\ pw = h

TestConnection ==
    /\ pc = "test"
    /\ pc' = "status"
    /\ copy' = SetCondition(SetCondition(copy, "ConfigurationValid", TRUE),
                            "ConnectionReady", Accepts(target, password))
    /\ UNCHANGED <<resource, adminSecret, up, queued, retry, fresh, target, password, uids, budget>>

\* Seeded fault: a change that only logs the error of the last update.
IgnoreUpdateError(o) == FALSE

UpdateFailed(o) == o # "ok"

\* Seeded fault: a change that waits for an event instead.
RequeueNever(ready) == FALSE

\* RequeueAfter: 30 s
RequeueAfter(ready) == ~ready

UpdateStatus ==
    /\ pc = "status"
    /\ \E o \in UpdateOutcomes :
        /\ StoreStatus(o, Summarised(copy, target).status)
        /\ Spend(o)
        /\ IF UpdateFailed(o)
           THEN ReturnError
           ELSE /\ Return
                /\ retry' = (retry \/ RequeueAfter(copy.status.conds["ConnectionReady"] = "True"))
                /\ UNCHANGED queued
    /\ UNCHANGED <<adminSecret, up, uids>>

RetryDue ==
    /\ retry
    /\ retry' = FALSE
    /\ queued' = TRUE
    /\ UNCHANGED <<resource, adminSecret, up, worker, uids, budget>>

-----------------------------------------------------------------------------
(* Users, the informer, the servers.                                       *)

StoreVersion(v) ==
    /\ Len(resource) <= MaxLag
    /\ resource' = Append(resource, v)
    /\ fresh' = FALSE
    /\ UNCHANGED <<adminSecret, up, queued, retry, pc, copy, target, password, budget>>

CreateCluster ==
    /\ Stored.uid = 0 /\ uids < MaxUid
    /\ uids' = uids + 1
    /\ \E spec \in Specs : StoreVersion(Created(uids', spec))

ChangeSpec ==
    /\ Stored.uid # 0 /\ Stored.generation < MaxGeneration
    /\ \E spec \in Specs \ {Stored.spec} :
          StoreVersion([Stored EXCEPT !.spec = spec, !.generation = @ + 1])
    /\ UNCHANGED uids

\* The resource has no finalizer.
DeleteCluster ==
    /\ Stored.uid # 0
    /\ StoreVersion(Absent)
    /\ UNCHANGED uids

\* For(PostgresCluster): each change queues the key.
Deliver ==
    /\ Len(resource) > 1
    /\ resource' = Tail(resource)
    /\ queued' = TRUE
    /\ UNCHANGED <<adminSecret, up, retry, worker, uids, budget>>

\* The informer's resync queues every key it knows, every ten hours.
Resync ==
    /\ Cached.uid # 0 /\ ~queued
    /\ queued' = TRUE
    /\ UNCHANGED <<resource, adminSecret, up, retry, worker, uids, budget>>

\* The secret is not watched.
ChangeSecret ==
    /\ adminSecret' \in AdminSecrets \ {adminSecret}
    /\ Disrupt("secret")
    /\ UNCHANGED <<resource, up, queued, retry, worker, uids>>

\* A server fails or recovers.
ChangeServer ==
    /\ \E h \in Hosts : up' = IF h \in up THEN up \ {h} ELSE up \cup {h}
    /\ Disrupt("server")
    /\ UNCHANGED <<resource, adminSecret, queued, retry, worker, uids>>

\* The process ends and a new one lists what is stored.
Restart ==
    /\ Disrupt("crash")
    /\ resource' = <<Stored>>
    /\ queued' = (Stored.uid # 0)
    /\ retry' = FALSE
    /\ Return
    /\ UNCHANGED <<adminSecret, up, uids>>

-----------------------------------------------------------------------------

Init ==
    /\ resource = <<Absent>>
    /\ adminSecret \in AdminSecrets
    /\ up \in SUBSET Hosts
    /\ queued = FALSE /\ retry = FALSE
    /\ pc = "idle" /\ copy = Absent /\ fresh = FALSE
    /\ target = NoHost /\ password = NoHost
    /\ uids = 0
    /\ budget = MaxDisruptions

Reconcile ==
    \/ Start \/ ResolveHost \/ ResolvePassword \/ Report \/ TestConnection \/ UpdateStatus

User == CreateCluster \/ ChangeSpec \/ DeleteCluster

Environment == Deliver \/ Resync \/ ChangeSecret \/ ChangeServer \/ Restart

Next == Reconcile \/ RetryDue \/ User \/ Environment

\* The worker runs, delayed keys fall due, the informer delivers.  Resync is
\* assumed to happen only where a property says so: ten hours are no remedy.
Fairness == WF_vars(Reconcile) /\ WF_vars(RetryDue) /\ WF_vars(Deliver)

Safety == Init /\ [][Next]_vars
Spec == Safety /\ Fairness

-----------------------------------------------------------------------------
(* Properties.                                                             *)

StreamOK == resource \in Seq(Versions) /\ Len(resource) \in 1..MaxLag + 1

WorkerOK ==
    /\ queued \in BOOLEAN /\ retry \in BOOLEAN
    /\ pc \in {"idle", "host", "password", "report", "test", "status"}
    /\ copy \in Versions
    /\ fresh \in BOOLEAN
    /\ target \in Hosts \cup {NoHost}
    /\ password \in Hosts \cup {NoHost}
    /\ pc \in {"test", "status"} => target \in Hosts /\ password \in Hosts

WorldOK ==
    /\ adminSecret \in AdminSecrets
    /\ up \in SUBSET Hosts
    /\ uids \in 0..MaxUid
    /\ budget \in 0..MaxDisruptions

\* Type invariant: the variables keep within their types, and a connection
\* is tested with a host and a password only.
TypeOK == StreamOK /\ WorkerOK /\ WorldOK

\* Nothing is running, queued, undelivered or waiting for its delay.
Quiet == pc = "idle" /\ ~queued /\ ~retry /\ Len(resource) = 1

\* A status whose observed generation is the resource's own speaks of the
\* spec it now has: a Ready one names the host the spec gives.
SpeaksOfSpec(v) ==
    v.status.conds["Ready"] = "True" /\ v.status.observed = v.generation /\ v.spec \in Hosts
        => v.status.host = v.spec

\* No reader of the stored resource can take the Ready condition of an older
\* spec for one of the spec it sees: observedGeneration, the condition and
\* the admin connection are written together, by a run that read that spec.
ReadySpeaksOfSpec == Stored.uid # 0 => SpeaksOfSpec(Stored)

Settled(v) ==
    /\ \A t \in CondTypes : v.status.conds[t] = "True"
    /\ v.status.phase = "Ready"
    /\ v.status.observed = v.generation
    /\ v.status.host \in Hosts
    /\ SpeaksOfSpec(v)

\* The controller comes to rest over a Ready cluster only: whatever else it
\* has found (no secret, an empty value, no connection, a conflict, a lost
\* reply, a crash), something that will run it again is still there.
RestIsReady == Quiet /\ Stored.uid # 0 => Settled(Stored)

\* What makes RestIsReady inductive: a copy that is not stale agrees with the
\* stored resource, and what a run has resolved is what its copy's spec says.
RunInv ==
    /\ pc # "idle" /\ fresh => /\ copy.uid = Stored.uid
                               /\ copy.generation = Stored.generation
                               /\ copy.spec = Stored.spec
                               /\ SpeaksOfSpec(copy)
    /\ pc \in {"password", "report", "test", "status"} /\ copy.spec \in Hosts
            => target = copy.spec
    /\ pc # "idle" => copy.uid # 0
    /\ pc = "status" => copy.status.conds["ConfigurationValid"] = "True"

\* No status is of a later generation than the resource it is in.
ObservedInv ==
    /\ Stored.status.observed <= Stored.generation
    /\ pc # "idle" /\ fresh => copy.status.observed <= copy.generation

RestInv == RunInv /\ ObservedInv /\ ReadySpeaksOfSpec /\ RestIsReady

Ready == Stored.uid # 0 /\ Stored.status.conds["Ready"] = "True"

\* The details the stored spec and the cached secret give are h's.
Resolves(h) == Resolved(Stored.spec, "host") = h /\ Resolved(Stored.spec, "password") = h

\* Liveness: a cluster whose details are right and whose server is up becomes
\* Ready and stays so, although neither the secret nor the server is watched.
BecomesReady ==
    \A h \in Hosts : <>[](Stored.uid # 0 /\ Resolves(h) /\ h \in up) => <>[]Ready

\* Liveness, if the informer resyncs: the admin connection follows the secret.
FollowsSecret ==
    WF_vars(Resync) =>
        \A h \in Hosts : <>[](Stored.uid # 0 /\ Resolves(h) /\ h \in up)
                            => <>[](Ready /\ Stored.status.host = h)

\* Liveness, if the informer resyncs: a Ready cluster whose server is gone is
\* Ready no more.
NoticesLoss ==
    WF_vars(Resync) =>
        \A h \in Hosts : <>[](Stored.uid # 0 /\ Resolves(h) /\ h \notin up) => <>[]~Ready

\* Liveness, if the informer resyncs: an empty value in the secret that stays
\* is reported, and what a later run finds does not take the report back
\* (validation sets ConfigurationValid to False, and only a complete
\* configuration sets it to True).
EmptyIsReported ==
    WF_vars(Resync) =>
        (<>[](/\ Stored.uid # 0
              /\ "empty" \in {Resolved(Stored.spec, f) : f \in {"host", "password"}}
              /\ \A f \in {"host", "password"} : Resolved(Stored.spec, f) \notin Unresolved)
            => <>[](Stored.status.conds["ConfigurationValid"] = "False"))

=============================================================================
