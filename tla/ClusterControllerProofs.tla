----------------------- MODULE ClusterControllerProofs -----------------------
(***************************************************************************)
(* Proofs about ClusterController, for every value of its constants.       *)
(***************************************************************************)
EXTENDS ClusterController, Streams

-----------------------------------------------------------------------------
(* What the operators on a resource yield.                                 *)

\* Setting a condition changes that condition and nothing else.
LEMMA SetConditionType ==
    ASSUME NEW c \in Versions, NEW type \in CondTypes, NEW ok \in BOOLEAN
    PROVE  LET d == SetCondition(c, type, ok)
           IN  /\ d \in Versions
               /\ d.uid = c.uid /\ d.generation = c.generation /\ d.spec = c.spec
               /\ d.status.observed = c.status.observed /\ d.status.host = c.status.host
               /\ d.status.phase = c.status.phase
               /\ d.status.conds[type] = IF ok THEN "True" ELSE "False"
               /\ \A t \in CondTypes \ {type} : d.status.conds[t] = c.status.conds[t]
BY DEF SetCondition, Versions, Statuses

\* The phase is one of the phases, and Ready when the condition is True.
LEMMA WithPhaseType ==
    ASSUME NEW c \in Versions
    PROVE  LET d == WithPhase(c)
           IN  /\ d \in Versions
               /\ d.uid = c.uid /\ d.generation = c.generation /\ d.spec = c.spec
               /\ d.status.observed = c.status.observed /\ d.status.host = c.status.host
               /\ d.status.conds = c.status.conds
               /\ c.status.conds["Ready"] = "True" => d.status.phase = "Ready"
<1>1. PhaseOf(c) \in {"Pending", "Creating", "Ready", "Failed"}
  BY DEF PhaseOf
<1>2. c.status.conds["Ready"] = "True" => PhaseOf(c) = "Ready"
  BY DEF PhaseOf
<1> QED
  BY <1>1, <1>2 DEF WithPhase, Versions, Statuses

\* What updateStatus writes: a status of the copy's generation, which is
\* Ready, and names the host, when both conditions are True.
LEMMA SummarisedType ==
    ASSUME NEW c \in Versions, NEW h \in Hosts
    PROVE  LET s == Summarised(c, h).status
               ready == c.status.conds["ConfigurationValid"] = "True"
                          /\ c.status.conds["ConnectionReady"] = "True"
           IN  /\ s \in Statuses
               /\ s.observed = c.generation
               /\ s.conds["Ready"] = "True" <=> ready
               /\ ready => /\ \A t \in CondTypes : s.conds[t] = "True"
                           /\ s.phase = "Ready"
                           /\ s.host = h
<1> DEFINE ready == c.status.conds["ConfigurationValid"] = "True"
                      /\ c.status.conds["ConnectionReady"] = "True"
           c0 == [c EXCEPT !.status.observed = c.generation]
           c1 == SetCondition(c0, "Ready", ready)
           c2 == WithPhase(c1)
           c3 == IF ready THEN [c2 EXCEPT !.status.host = h] ELSE c2
<1>1. /\ c0 \in Versions /\ c0.status.observed = c.generation
      /\ c0.status.conds = c.status.conds
  BY DEF Versions, Statuses
<1>2. "Ready" \in CondTypes /\ ready \in BOOLEAN
  BY DEF CondTypes
<1> HIDE DEF c0, ready
<1>3. /\ c1 \in Versions /\ c1.status.observed = c.generation
      /\ c1.status.conds["Ready"] = IF ready THEN "True" ELSE "False"
      /\ \A t \in CondTypes \ {"Ready"} : c1.status.conds[t] = c.status.conds[t]
  BY <1>1, <1>2, SetConditionType
<1> HIDE DEF c1
<1>4. /\ c2 \in Versions /\ c2.status.observed = c.generation
      /\ c2.status.conds = c1.status.conds
      /\ c1.status.conds["Ready"] = "True" => c2.status.phase = "Ready"
  BY <1>3, WithPhaseType
<1> HIDE DEF c2
<1> USE DEF ready
<1>5. /\ c3.status \in Statuses /\ c3.status.observed = c.generation
      /\ c3.status.conds = c1.status.conds
      /\ ready => c3.status.phase = "Ready" /\ c3.status.host = h
  BY <1>3, <1>4 DEF Versions, Statuses
<1>6. Summarised(c, h) = c3
  BY DEF Summarised, AdminConnection, c0, c1, c2
<1>7. ready => \A t \in CondTypes : c1.status.conds[t] = "True"
  BY <1>3 DEF CondTypes
<1> HIDE DEF c3
<1> QED
  BY <1>3, <1>5, <1>6, <1>7

\* The resource that is not there is a version.
LEMMA AbsentType == Absent \in Versions
BY ClusterAssumption DEF ClusterAssumption, Absent, Versions, NoStatus, Statuses

\* What is cached and what is stored are versions.
LEMMA EndsType ==
    ASSUME StreamOK
    PROVE  Cached \in Versions /\ Stored \in Versions
BY EndsOfStream DEF StreamOK, Cached, Stored

\* A status write keeps the stream a stream, and leaves what is stored alone
\* or gives it the new status.
LEMMA StoreStatusType ==
    ASSUME StreamOK, NEW status \in Statuses, NEW o, StoreStatus(o, status)
    PROVE  /\ StreamOK'
           /\ \/ UNCHANGED resource
              \/ Len(resource') > 1 /\ Stored' = [Stored EXCEPT !.status = status]
           /\ o = "ok" => Stored' = [Stored EXCEPT !.status = status]
<1> DEFINE v == [Stored EXCEPT !.status = status]
<1>1. v \in Versions
  BY EndsType DEF Versions
<1>2. CASE Len(resource) <= MaxLag /\ resource' = Append(resource, v)
  <2>1. /\ resource' \in Seq(Versions) /\ Len(resource') = Len(resource) + 1
        /\ resource'[Len(resource) + 1] = v
    BY <1>1, <1>2, GrownStream DEF StreamOK
  <2> QED
    BY <1>2, <2>1, ClusterAssumption DEF StreamOK, Stored, ClusterAssumption
<1>3. CASE v = Stored /\ UNCHANGED resource
  BY <1>3 DEF StreamOK, Stored
<1>4. CASE o # "ok" /\ UNCHANGED resource
  BY <1>4 DEF StreamOK
<1> QED
  BY <1>2, <1>3, <1>4 DEF StoreStatus

\* What a field resolves to is a host unless it is empty or unresolved; a
\* spec that gives the host is resolved to it.
LEMMA ValueType ==
    ASSUME TypeOK, NEW spec, NEW field \in {"host", "password"},
           Resolved(spec, field) \notin Unresolved
    PROVE  /\ Value(Resolved(spec, field)) \in Hosts \cup {NoHost}
           /\ spec \in Hosts => Value(Resolved(spec, field)) = spec
<1>1. adminSecret \in AdminSecretStates
  BY ClusterAssumption DEF ClusterAssumption, TypeOK, WorldOK
<1>2. "empty" \notin Hosts /\ "reference" \notin Hosts
  BY ClusterAssumption DEF ClusterAssumption
<1>3. adminSecret[field] \in Fields
  BY <1>1 DEF AdminSecretStates
<1> QED
  BY <1>2, <1>3 DEF Resolved, Unresolved, Value, Fields

\* A disruption is only spent while there are some left.
LEMMA SpendType ==
    ASSUME budget \in 0..MaxDisruptions, NEW o \in UpdateOutcomes, Spend(o)
    PROVE  budget' \in 0..MaxDisruptions
BY ClusterAssumption DEF ClusterAssumption, Spend, UpdateOutcomes

\* The same of what the environment does.
LEMMA DisruptType ==
    ASSUME budget \in 0..MaxDisruptions, NEW kind, Disrupt(kind)
    PROVE  budget' \in 0..MaxDisruptions
BY ClusterAssumption DEF ClusterAssumption, Disrupt

\* A run that ends leaves an idle worker.
LEMMA ReturnType ==
    ASSUME WorkerOK, Return, queued' \in BOOLEAN, retry' \in BOOLEAN
    PROVE  WorkerOK'
BY AbsentType DEF WorkerOK, Return

-----------------------------------------------------------------------------
(* Type correctness.                                                       *)

\* The initial states are of the right types.
LEMMA TypeInit == Init => TypeOK
<1> SUFFICES ASSUME Init PROVE TypeOK
  OBVIOUS
<1> USE ClusterAssumption DEF ClusterAssumption, Init
<1>1. StreamOK
  BY AbsentType, SingletonStream DEF StreamOK
<1>2. WorkerOK
  BY AbsentType DEF WorkerOK
<1>3. WorldOK
  BY DEF WorldOK
<1> QED
  BY <1>1, <1>2, <1>3 DEF TypeOK

\* A step of Reconcile keeps the types.
LEMMA TypeReconcile == TypeOK /\ Reconcile => TypeOK'
<1> SUFFICES ASSUME TypeOK, Reconcile PROVE TypeOK'
  OBVIOUS
<1> USE DEF TypeOK
<1>0. Cached \in Versions /\ Stored \in Versions /\ copy \in Versions
  BY EndsType DEF WorkerOK
<1>1. CASE Start
  BY <1>0, <1>1 DEF Start, StreamOK, WorkerOK, WorldOK
<1>2. CASE ResolveHost
  <2>1. StreamOK' /\ WorldOK'
    BY <1>2 DEF ResolveHost, StreamOK, WorldOK
  <2>2. CASE ReturnError
    BY <2>1, <2>2, ReturnType DEF ReturnError, WorkerOK
  <2>3. ASSUME Resolved(copy.spec, "host") \notin Unresolved,
               pc' = "password",
               target' = Value(Resolved(copy.spec, "host")),
               UNCHANGED <<queued, retry, copy, fresh, password>>
        PROVE  WorkerOK'
    BY <2>3, ValueType DEF WorkerOK
  <2> QED
    BY <1>2, <2>1, <2>2, <2>3 DEF ResolveHost
<1>3. CASE ResolvePassword
  <2> DEFINE r == Value(Resolved(copy.spec, "password"))
             failed == WithPhase(SetCondition(copy, "ConfigurationValid", FALSE))
  <2>1. StreamOK' /\ WorldOK'
    BY <1>3 DEF ResolvePassword, StreamOK, WorldOK
  <2>2. CASE ReturnError
    BY <2>1, <2>2, ReturnType DEF ReturnError, WorkerOK
  <2>3. ASSUME Resolved(copy.spec, "password") \notin Unresolved,
               password' = r,
               IF Complete(target, r) THEN pc' = "test" /\ UNCHANGED copy
                                      ELSE pc' = "report" /\ copy' = failed,
               UNCHANGED <<queued, retry, fresh, target>>
        PROVE  WorkerOK'
    <3>1. r \in Hosts \cup {NoHost}
      BY <2>3, ValueType
    <3>2. failed \in Versions
      BY <1>0, SetConditionType, WithPhaseType DEF CondTypes
    <3> HIDE DEF r, failed
    <3> QED
      BY <2>3, <3>1, <3>2 DEF WorkerOK, Complete
  <2> QED
    BY <1>3, <2>1, <2>2, <2>3 DEF ResolvePassword
<1>4. CASE Report
  <2> PICK o \in UpdateOutcomes : StoreStatus(o, copy.status) /\ Spend(o)
    BY <1>4 DEF Report
  <2>1. copy.status \in Statuses
    BY <1>0 DEF Versions
  <2>2. StreamOK'
    BY <2>1, StoreStatusType
  <2>3. WorkerOK'
    BY <1>4, ReturnType DEF Report, ReturnError, WorkerOK
  <2>4. WorldOK'
    BY <1>4, SpendType DEF Report, WorldOK
  <2> QED
    BY <2>2, <2>3, <2>4
<1>5. CASE TestConnection
  <2> DEFINE c1 == SetCondition(copy, "ConfigurationValid", TRUE)
             ok == Accepts(target, password)
  <2>1. c1 \in Versions /\ ok \in BOOLEAN
    BY <1>0, SetConditionType DEF CondTypes, Accepts
  <2> HIDE DEF c1, ok
  <2>2. SetCondition(c1, "ConnectionReady", ok) \in Versions
    BY <2>1, SetConditionType DEF CondTypes
  <2> QED
    BY <1>5, <2>2 DEF TestConnection, StreamOK, WorkerOK, WorldOK, c1, ok
<1>6. CASE UpdateStatus
  <2> PICK o \in UpdateOutcomes :
        /\ StoreStatus(o, Summarised(copy, target).status)
        /\ Spend(o)
        /\ IF UpdateFailed(o)
           THEN ReturnError
           ELSE /\ Return
                /\ retry' = (retry \/ RequeueAfter(copy.status.conds["ConnectionReady"] = "True"))
                /\ UNCHANGED queued
    BY <1>6 DEF UpdateStatus
  <2>0. target \in Hosts
    BY <1>6 DEF UpdateStatus, WorkerOK
  <2>1. Summarised(copy, target).status \in Statuses
    BY <1>0, <2>0, SummarisedType
  <2>2. StreamOK'
    BY <2>1, StoreStatusType
  <2>3. WorkerOK'
    BY ReturnType DEF ReturnError, WorkerOK, RequeueAfter
  <2>4. WorldOK'
    BY <1>6, SpendType DEF UpdateStatus, WorldOK
  <2> QED
    BY <2>2, <2>3, <2>4
<1> QED
  BY <1>1, <1>2, <1>3, <1>4, <1>5, <1>6 DEF Reconcile

\* So does a step of a user: it adds a version to the stream.
LEMMA UserWrites ==
    ASSUME TypeOK, User
    PROVE  /\ \E v \in Versions : Len(resource) <= MaxLag /\ resource' = Append(resource, v)
           /\ fresh' = FALSE
           /\ uids' \in 0..MaxUid
           /\ UNCHANGED <<adminSecret, up, queued, retry, pc, copy, target, password, budget>>
<1> USE ClusterAssumption DEF ClusterAssumption
<1>0. Stored \in Versions /\ uids \in 0..MaxUid
  BY EndsType DEF TypeOK, WorldOK
<1>1. CASE CreateCluster
  <2>0. uids' \in 0..MaxUid /\ 1 \in 0..MaxGeneration
    BY <1>0, <1>1 DEF CreateCluster
  <2>1. \A spec \in Specs : Created(uids', spec) \in Versions
    BY <2>0, AbsentType DEF Created, Versions
  <2> QED
    BY <1>1, <2>0, <2>1 DEF CreateCluster, StoreVersion
<1>2. CASE ChangeSpec
  <2>0. Stored.generation + 1 \in 0..MaxGeneration
    BY <1>0, <1>2 DEF ChangeSpec, Versions
  <2>1. \A spec \in Specs : [Stored EXCEPT !.spec = spec, !.generation = @ + 1] \in Versions
    BY <1>0, <2>0 DEF Versions
  <2> QED
    BY <1>0, <1>2, <2>1 DEF ChangeSpec, StoreVersion
<1>3. CASE DeleteCluster
  BY <1>0, <1>3, AbsentType DEF DeleteCluster, StoreVersion
<1> QED
  BY <1>1, <1>2, <1>3 DEF User

\* What users and the environment do keeps the types.
LEMMA TypeOthers == TypeOK /\ (RetryDue \/ User \/ Environment) => TypeOK'
<1> SUFFICES ASSUME TypeOK, RetryDue \/ User \/ Environment PROVE TypeOK'
  OBVIOUS
<1>1. CASE RetryDue
  BY <1>1 DEF RetryDue, worker, TypeOK, StreamOK, WorkerOK, WorldOK
<1>2. CASE User
  <2>1. StreamOK'
    BY <1>2, UserWrites, GrownStream, ClusterAssumption DEF TypeOK, StreamOK, ClusterAssumption
  <2> QED
    BY <1>2, <2>1, UserWrites DEF TypeOK, WorkerOK, WorldOK
<1>3. CASE Deliver
  <2>1. StreamOK'
    BY <1>3, ShortenedStream, ClusterAssumption DEF Deliver, TypeOK, StreamOK, ClusterAssumption
  <2> QED
    BY <1>3, <2>1 DEF Deliver, worker, TypeOK, WorkerOK, WorldOK
<1>4. CASE Resync \/ ChangeSecret \/ ChangeServer
  <2>1. StreamOK' /\ WorkerOK'
    BY <1>4 DEF Resync, ChangeSecret, ChangeServer, worker, TypeOK, StreamOK, WorkerOK
  <2>2. WorldOK'
    BY <1>4, DisruptType DEF Resync, ChangeSecret, ChangeServer, TypeOK, WorldOK
  <2> QED
    BY <2>1, <2>2 DEF TypeOK
<1>5. CASE Restart
  <2>1. StreamOK'
    BY <1>5, EndsType, SingletonStream, ClusterAssumption
    DEF Restart, TypeOK, StreamOK, ClusterAssumption
  <2>2. WorkerOK'
    BY <1>5, ReturnType DEF Restart, TypeOK, WorkerOK
  <2>3. WorldOK'
    BY <1>5, DisruptType DEF Restart, TypeOK, WorldOK
  <2> QED
    BY <2>1, <2>2, <2>3 DEF TypeOK
<1> QED
  BY <1>1, <1>2, <1>3, <1>4, <1>5 DEF Environment

\* The variables of the cluster controller keep within their types.
THEOREM TypeCorrect == Spec => []TypeOK
<1>1. TypeOK /\ [Next]_vars => TypeOK'
  <2>1. TypeOK /\ UNCHANGED vars => TypeOK'
    BY DEF vars, worker, TypeOK, StreamOK, WorkerOK, WorldOK
  <2> QED
    BY <2>1, TypeReconcile, TypeOthers DEF Next
<1> QED
  BY TypeInit, <1>1, PTL DEF Spec, Safety

-----------------------------------------------------------------------------
(* The controller rests over Ready clusters only.                          *)

\* A status written by a run whose copy is stale is refused; one that is
\* stored speaks of the stored spec if it speaks of the copy's.
LEMMA StatusWritten ==
    ASSUME TypeOK, RunInv, ObservedInv, ReadySpeaksOfSpec, pc # "idle",
           NEW status \in Statuses, NEW o \in UpdateOutcomes, StoreStatus(o, status),
           fresh => /\ SpeaksOfSpec([copy EXCEPT !.status = status])
                    /\ status.observed <= copy.generation
    PROVE  /\ ReadySpeaksOfSpec'
           /\ Stored'.status.observed <= Stored'.generation
<1>0. Stored \in Versions /\ copy \in Versions
  BY EndsType DEF TypeOK, WorkerOK
<1>1. CASE UNCHANGED resource
  BY <1>1 DEF ReadySpeaksOfSpec, SpeaksOfSpec, ObservedInv, Stored
<1>2. CASE ~fresh
  <2>1. o = "conflict"
    BY <1>2 DEF UpdateOutcomes
  <2> QED
    BY <2>1, <1>1 DEF StoreStatus
<1>3. CASE fresh /\ Stored' = [Stored EXCEPT !.status = status]
  <2>1. /\ Stored'.status = status
        /\ Stored'.generation = copy.generation
        /\ Stored'.spec = copy.spec
    BY <1>0, <1>3 DEF RunInv, Versions
  <2>2. LET c == [copy EXCEPT !.status = status]
        IN  c.status = status /\ c.generation = copy.generation /\ c.spec = copy.spec
    BY <1>0 DEF Versions
  <2> QED
    BY <1>3, <2>1, <2>2 DEF ReadySpeaksOfSpec, SpeaksOfSpec, ObservedInv
<1> QED
  BY <1>1, <1>2, <1>3, StoreStatusType DEF TypeOK

\* The status updateStatus writes speaks of the spec its run has resolved.
LEMMA SummarySpeaks ==
    ASSUME TypeOK, RunInv, pc = "status"
    PROVE  /\ Summarised(copy, target).status \in Statuses
           /\ SpeaksOfSpec([copy EXCEPT !.status = Summarised(copy, target).status])
           /\ Summarised(copy, target).status.observed <= copy.generation
<1> DEFINE s == Summarised(copy, target).status
<1>0. copy \in Versions /\ target \in Hosts
  BY DEF TypeOK, WorkerOK
<1>1. /\ s \in Statuses /\ s.observed <= copy.generation
      /\ s.conds["Ready"] = "True" => s.host = target
  BY <1>0, SummarisedType DEF Versions
<1>2. copy.spec \in Hosts => target = copy.spec
  BY DEF RunInv
<1>3. LET c == [copy EXCEPT !.status = s]
      IN  c.status = s /\ c.spec = copy.spec
  BY <1>0 DEF Versions
<1> HIDE DEF s
<1>4. s \in Statuses /\ SpeaksOfSpec([copy EXCEPT !.status = s]) /\ s.observed <= copy.generation
  BY <1>1, <1>2, <1>3 DEF SpeaksOfSpec
<1> QED
  BY <1>4 DEF s

\* A step of Reconcile.
LEMMA RestReconcile == TypeOK /\ RestInv /\ Reconcile => RestInv'
<1> SUFFICES ASSUME TypeOK, RestInv, Reconcile PROVE RestInv'
  OBVIOUS
<1>0. /\ RunInv /\ ObservedInv /\ ReadySpeaksOfSpec /\ RestIsReady
      /\ Cached \in Versions /\ Stored \in Versions /\ copy \in Versions
      /\ Len(resource) \in Nat
  BY EndsType, ClusterAssumption DEF RestInv, TypeOK, WorkerOK, StreamOK, ClusterAssumption
<1>1. CASE Start
  <2>1. Stored' = Stored /\ ReadySpeaksOfSpec'
    BY <1>0, <1>1 DEF Start, Stored, ReadySpeaksOfSpec, SpeaksOfSpec
  <2>2. Len(resource) = 1 => Cached = Stored
    BY DEF Cached, Stored
  <2>3. CASE Cached.uid = 0
    <3>1. pc' = "idle" /\ UNCHANGED resource
      BY <1>1, <2>3 DEF Start
    <3>2. RestIsReady'
      BY <2>1, <2>2, <2>3, <3>1 DEF RestIsReady, Quiet
    <3> QED
      BY <2>1, <3>1, <3>2 DEF RestInv, RunInv, ObservedInv
  <2>4. CASE Cached.uid # 0
    <3>1. pc' = "host" /\ copy' = Cached /\ fresh' = (Len(resource) = 1)
      BY <1>1, <2>4 DEF Start
    <3>2. RunInv' /\ ObservedInv'
      BY <1>0, <2>1, <2>2, <2>4, <3>1 DEF RunInv, ObservedInv, ReadySpeaksOfSpec, SpeaksOfSpec
    <3>3. RestIsReady'
      BY <3>1 DEF RestIsReady, Quiet
    <3> QED
      BY <2>1, <3>2, <3>3 DEF RestInv
  <2> QED
    BY <2>3, <2>4
<1>2. CASE ResolveHost
  <2>1. Stored' = Stored /\ ReadySpeaksOfSpec'
    BY <1>0, <1>2 DEF ResolveHost, Stored, ReadySpeaksOfSpec, SpeaksOfSpec
  <2>2. CASE ReturnError
    BY <2>1, <2>2 DEF ReturnError, Return, RestInv, RunInv, ObservedInv, RestIsReady, Quiet
  <2>3. ASSUME Resolved(copy.spec, "host") \notin Unresolved,
               pc' = "password",
               target' = Value(Resolved(copy.spec, "host")),
               UNCHANGED <<queued, retry, copy, fresh, password>>
        PROVE  RestInv'
    <3>1. copy.spec \in Hosts => target' = copy.spec
      BY <2>3, ValueType
    <3>2. pc # "idle"
      BY <1>2 DEF ResolveHost
    <3>3. RunInv' /\ ObservedInv'
      BY <1>0, <2>1, <2>3, <3>1, <3>2 DEF RunInv, ObservedInv, SpeaksOfSpec
    <3> QED
      BY <2>1, <2>3, <3>3 DEF RestInv, RestIsReady, Quiet
  <2> QED
    BY <1>2, <2>2, <2>3 DEF ResolveHost
<1>3. CASE ResolvePassword
  <2> DEFINE r == Value(Resolved(copy.spec, "password"))
             d == SetCondition(copy, "ConfigurationValid", FALSE)
             failed == WithPhase(d)
  <2>1. Stored' = Stored /\ ReadySpeaksOfSpec'
    BY <1>0, <1>3 DEF ResolvePassword, Stored, ReadySpeaksOfSpec, SpeaksOfSpec
  <2>2. CASE ReturnError
    BY <2>1, <2>2 DEF ReturnError, Return, RestInv, RunInv, ObservedInv, RestIsReady, Quiet
  <2>3. ASSUME password' = r,
               IF Complete(target, r) THEN pc' = "test" /\ UNCHANGED copy
                                      ELSE pc' = "report" /\ copy' = failed,
               UNCHANGED <<queued, retry, fresh, target>>
        PROVE  RestInv'
    <3>1. pc = "password"
      BY <1>3 DEF ResolvePassword
    <3>2. /\ d \in Versions
          /\ d.uid = copy.uid /\ d.generation = copy.generation
          /\ d.spec = copy.spec /\ d.status.observed = copy.status.observed
          /\ d.status.host = copy.status.host
          /\ d.status.conds["Ready"] = copy.status.conds["Ready"]
      BY <1>0 DEF SetCondition, Versions, Statuses, CondTypes
    <3> HIDE DEF d
    <3>3. /\ failed.uid = copy.uid /\ failed.generation = copy.generation
          /\ failed.spec = copy.spec /\ failed.status.observed = copy.status.observed
          /\ failed.status.host = copy.status.host
          /\ failed.status.conds["Ready"] = copy.status.conds["Ready"]
      BY <3>2, WithPhaseType
    <3> HIDE DEF failed, r
    <3>4. RunInv' /\ ObservedInv'
      BY <1>0, <2>1, <2>3, <3>1, <3>3 DEF RunInv, ObservedInv, SpeaksOfSpec
    <3> QED
      BY <2>1, <2>3, <3>4 DEF RestInv, RestIsReady, Quiet
  <2> QED
    BY <1>3, <2>2, <2>3 DEF ResolvePassword
<1>4. CASE Report
  <2> PICK o \in UpdateOutcomes : StoreStatus(o, copy.status)
    BY <1>4 DEF Report
  <2>1. pc = "report" /\ pc' = "idle" /\ queued'
    BY <1>4 DEF Report, ReturnError, Return
  <2>2. copy.status \in Statuses /\ [copy EXCEPT !.status = copy.status] = copy
    BY <1>0 DEF Versions
  <2>3. ReadySpeaksOfSpec' /\ Stored'.status.observed <= Stored'.generation
    BY <1>0, <2>1, <2>2, StatusWritten DEF RunInv, ObservedInv
  <2> QED
    BY <2>1, <2>3 DEF RestInv, RunInv, ObservedInv, RestIsReady, Quiet
<1>5. CASE TestConnection
  <2> DEFINE c1 == SetCondition(copy, "ConfigurationValid", TRUE)
             ok == Accepts(target, password)
             c2 == SetCondition(c1, "ConnectionReady", ok)
  <2>1. Stored' = Stored /\ ReadySpeaksOfSpec'
    BY <1>0, <1>5 DEF TestConnection, Stored, ReadySpeaksOfSpec, SpeaksOfSpec
  <2>2. /\ c1 \in Versions /\ ok \in BOOLEAN
        /\ c1.uid = copy.uid /\ c1.generation = copy.generation /\ c1.spec = copy.spec
        /\ c1.status.observed = copy.status.observed /\ c1.status.host = copy.status.host
        /\ c1.status.conds["Ready"] = copy.status.conds["Ready"]
        /\ c1.status.conds["ConfigurationValid"] = "True"
    <3>1. "ConfigurationValid" \in CondTypes /\ "Ready" \in CondTypes \ {"ConfigurationValid"}
      BY DEF CondTypes
    <3>2. ok \in BOOLEAN
      BY DEF Accepts
    <3> QED
      BY <1>0, <3>1, <3>2 DEF SetCondition, Versions, Statuses, CondTypes
  <2> HIDE DEF c1, ok
  <2>3. /\ c2.uid = copy.uid /\ c2.generation = copy.generation /\ c2.spec = copy.spec
        /\ c2.status.observed = copy.status.observed /\ c2.status.host = copy.status.host
        /\ c2.status.conds["Ready"] = copy.status.conds["Ready"]
        /\ c2.status.conds["ConfigurationValid"] = "True"
    BY <2>2, SetConditionType DEF CondTypes
  <2>4. copy' = c2 /\ pc = "test" /\ pc' = "status" /\ UNCHANGED <<fresh, target>>
    BY <1>5 DEF TestConnection, c1, ok
  <2> HIDE DEF c2
  <2>5. RunInv' /\ ObservedInv'
    BY <1>0, <2>1, <2>3, <2>4 DEF RunInv, ObservedInv, SpeaksOfSpec
  <2> QED
    BY <2>1, <2>4, <2>5 DEF RestInv, RestIsReady, Quiet
<1>6. CASE UpdateStatus
  <2> DEFINE s == Summarised(copy, target).status
             tested == copy.status.conds["ConnectionReady"] = "True"
  <2> PICK o \in UpdateOutcomes :
        /\ StoreStatus(o, s)
        /\ IF UpdateFailed(o)
           THEN ReturnError
           ELSE /\ Return
                /\ retry' = (retry \/ RequeueAfter(tested))
                /\ UNCHANGED queued
    BY <1>6 DEF UpdateStatus
  <2>1. pc = "status" /\ pc' = "idle"
    BY <1>6 DEF UpdateStatus, ReturnError, Return
  <2>2. /\ s \in Statuses /\ SpeaksOfSpec([copy EXCEPT !.status = s])
        /\ s.observed <= copy.generation
    BY <1>0, <2>1, SummarySpeaks
  <2>3. ReadySpeaksOfSpec' /\ Stored'.status.observed <= Stored'.generation
    BY <1>0, <2>1, <2>2, StatusWritten
  <2>4. ASSUME Quiet' PROVE Settled(Stored)'
    <3>1. o = "ok" /\ tested
      BY <2>4 DEF Quiet, ReturnError, UpdateFailed, RequeueAfter
    <3>2. fresh
      BY <3>1 DEF UpdateOutcomes
    <3>3. Stored' = [Stored EXCEPT !.status = s]
      BY <2>2, <3>1, StoreStatusType DEF TypeOK
    <3>4. Stored'.status = s /\ Stored'.generation = Stored.generation
      BY <1>0, <3>3 DEF Versions
    <3>5. copy.generation = Stored.generation /\ copy.status.conds["ConfigurationValid"] = "True"
      BY <1>0, <2>1, <3>2 DEF RunInv, ObservedInv
    <3>6. target \in Hosts
      BY <2>1 DEF TypeOK, WorkerOK
    <3>7. /\ s.observed = copy.generation
          /\ \A t \in CondTypes : s.conds[t] = "True"
          /\ s.phase = "Ready"
          /\ s.host = target
      BY <1>0, <3>1, <3>5, <3>6, SummarisedType
    <3>8. SpeaksOfSpec(Stored)'
      <4>1. Stored'.spec = copy.spec /\ (copy.spec \in Hosts => target = copy.spec)
        BY <1>0, <2>1, <3>2, <3>3 DEF RunInv, ObservedInv, Versions
      <4> HIDE DEF s
      <4> QED
        BY <3>4, <3>7, <4>1 DEF SpeaksOfSpec
    <3> HIDE DEF s
    <3> QED
      BY <3>4, <3>5, <3>6, <3>7, <3>8 DEF Settled
  <2>5. RestIsReady'
    BY <2>4 DEF RestIsReady
  <2> QED
    BY <2>1, <2>3, <2>5 DEF RestInv, RunInv, ObservedInv
<1> QED
  BY <1>1, <1>2, <1>3, <1>4, <1>5, <1>6 DEF Reconcile

\* What a user writes has no status, or one of an earlier generation.
LEMMA UserSpeaks ==
    ASSUME TypeOK, ObservedInv, User
    PROVE  /\ ReadySpeaksOfSpec'
           /\ Stored'.status.observed <= Stored'.generation
<1>0. Stored \in Versions /\ resource \in Seq(Versions)
  BY EndsType DEF TypeOK, StreamOK
<1>1. ASSUME NEW v \in Versions, resource' = Append(resource, v)
      PROVE  Stored' = v
  BY <1>0, <1>1, GrownStream DEF Stored
<1>2. CASE CreateCluster
  <2>1. PICK spec \in Specs : resource' = Append(resource, Created(uids', spec))
    BY <1>2 DEF CreateCluster, StoreVersion
  <2>2. uids' \in 0..MaxUid /\ 1 \in 0..MaxGeneration
    BY <1>2, ClusterAssumption DEF CreateCluster, TypeOK, WorldOK, ClusterAssumption
  <2>3. Created(uids', spec).generation = 1 /\ Created(uids', spec).status = NoStatus
    BY DEF Created, Absent
  <2>4. Created(uids', spec) \in Versions
    BY <2>2, AbsentType DEF Created, Versions
  <2>5. Stored' = Created(uids', spec)
    BY <1>1, <2>1, <2>4
  <2>6. Stored'.generation = 1 /\ Stored'.status = NoStatus
    BY <2>3, <2>5
  <2> QED
    BY <2>6 DEF ReadySpeaksOfSpec, SpeaksOfSpec, NoStatus, CondTypes
<1>3. CASE ChangeSpec
  <2> DEFINE v(spec) == [Stored EXCEPT !.spec = spec, !.generation = @ + 1]
  <2>1. PICK spec \in Specs : resource' = Append(resource, v(spec))
    BY <1>3 DEF ChangeSpec, StoreVersion
  <2>2. /\ v(spec) \in Versions /\ v(spec).generation = Stored.generation + 1
        /\ v(spec).status = Stored.status
    <3>1. Stored.generation + 1 \in 0..MaxGeneration
      BY <1>0, <1>3, ClusterAssumption DEF ChangeSpec, Versions, ClusterAssumption
    <3> QED
      BY <1>0, <3>1 DEF Versions
  <2> HIDE DEF v
  <2>3. Stored'.generation = Stored.generation + 1 /\ Stored'.status = Stored.status
    BY <1>1, <2>1, <2>2
  <2> QED
    BY <1>0, <2>3 DEF ReadySpeaksOfSpec, SpeaksOfSpec, ObservedInv, Versions, Statuses
<1>4. CASE DeleteCluster
  <2>1. Stored' = Absent
    BY <1>1, <1>4, AbsentType DEF DeleteCluster, StoreVersion
  <2> QED
    BY <2>1 DEF ReadySpeaksOfSpec, Absent, NoStatus
<1> QED
  BY <1>2, <1>3, <1>4 DEF User

\* A step of a user, of the work queue or of the environment.
LEMMA RestOthers == TypeOK /\ RestInv /\ (RetryDue \/ User \/ Environment) => RestInv'
<1> SUFFICES ASSUME TypeOK, RestInv, RetryDue \/ User \/ Environment PROVE RestInv'
  OBVIOUS
<1>0. /\ RunInv /\ ObservedInv /\ ReadySpeaksOfSpec /\ RestIsReady
      /\ Stored \in Versions /\ resource \in Seq(Versions)
      /\ Len(resource) \in Nat /\ Len(resource) >= 1
  BY EndsType, ClusterAssumption DEF RestInv, TypeOK, StreamOK, ClusterAssumption
<1>1. CASE RetryDue \/ Resync
  <2>1. queued' /\ UNCHANGED <<resource, worker>>
    BY <1>1 DEF RetryDue, Resync
  <2> QED
    BY <1>0, <2>1 DEF RestInv, RunInv, ObservedInv, ReadySpeaksOfSpec, SpeaksOfSpec, RestIsReady, Quiet, Stored, worker
<1>2. CASE ChangeSecret \/ ChangeServer
  <2>1. UNCHANGED <<resource, worker, queued, retry>>
    BY <1>2 DEF ChangeSecret, ChangeServer
  <2> QED
    BY <1>0, <2>1
    DEF RestInv, RunInv, ObservedInv, ReadySpeaksOfSpec, SpeaksOfSpec, RestIsReady, Quiet, Settled, Stored, worker
<1>3. CASE User
  <2>1. /\ Len(resource') > 1
        /\ fresh' = FALSE /\ UNCHANGED <<queued, retry, pc, copy, target>>
    BY <1>0, <1>3, UserWrites, GrownStream
  <2>2. RunInv' /\ ObservedInv'
    BY <1>0, <1>3, <2>1, UserSpeaks DEF RunInv, ObservedInv
  <2>3. RestIsReady'
    BY <2>1 DEF RestIsReady, Quiet
  <2>4. ReadySpeaksOfSpec'
    BY <1>3, <1>0, UserSpeaks
  <2> QED
    BY <2>2, <2>3, <2>4 DEF RestInv
<1>4. CASE Deliver
  <2>1. queued' /\ UNCHANGED worker /\ Len(resource) > 1 /\ resource' = Tail(resource)
    BY <1>4 DEF Deliver
  <2>2. Stored' = Stored
    BY <1>0, <2>1, ShortenedStream DEF Stored
  <2> QED
    BY <1>0, <2>1, <2>2
    DEF RestInv, RunInv, ObservedInv, ReadySpeaksOfSpec, SpeaksOfSpec, RestIsReady, Quiet, worker
<1>5. CASE Restart
  <2>1. resource' = <<Stored>> /\ pc' = "idle" /\ queued' = (Stored.uid # 0)
    BY <1>5 DEF Restart, Return
  <2>2. Stored' = Stored
    BY <1>0, <2>1, SingletonStream DEF Stored
  <2> QED
    BY <1>0, <2>1, <2>2 DEF RestInv, RunInv, ObservedInv, ReadySpeaksOfSpec, SpeaksOfSpec, RestIsReady, Quiet
<1> QED
  BY <1>1, <1>2, <1>3, <1>4, <1>5 DEF Environment

\* Nothing is stored at first.
LEMMA RestInit == Init => RestInv
<1> SUFFICES ASSUME Init PROVE RestInv
  OBVIOUS
<1>1. Stored = Absent /\ pc = "idle"
  BY AbsentType, SingletonStream DEF Init, Stored
<1> QED
  BY <1>1 DEF RestInv, RunInv, ObservedInv, ReadySpeaksOfSpec, RestIsReady, Absent, NoStatus

\* The cluster controller comes to rest over Ready clusters only, and the
\* Ready condition it leaves speaks of the spec it was read with.
THEOREM RestInvariant == Spec => []RestInv
<1>1. RestInv /\ UNCHANGED vars => RestInv'
  BY DEF vars, worker, RestInv, RunInv, ObservedInv, ReadySpeaksOfSpec, SpeaksOfSpec, RestIsReady, Quiet, Settled, Stored
<1>2. TypeOK /\ RestInv /\ [Next]_vars => RestInv'
  BY <1>1, RestReconcile, RestOthers DEF Next
<1> QED
  BY <1>2, RestInit, TypeCorrect, PTL DEF Spec, Safety

\* Whatever a run has found, something that runs it again is left behind
\* unless the cluster is Ready.
THEOREM RestsReady == Spec => []RestIsReady
<1>1. RestInv => RestIsReady
  BY DEF RestInv
<1> QED
  BY <1>1, RestInvariant, PTL

\* No reader can take the Ready condition of an older spec for one of the
\* spec it sees.
THEOREM SpeaksOfStoredSpec == Spec => []ReadySpeaksOfSpec
<1>1. RestInv => ReadySpeaksOfSpec
  BY DEF RestInv
<1> QED
  BY <1>1, RestInvariant, PTL

=============================================================================
