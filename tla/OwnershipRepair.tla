--------------------------- MODULE OwnershipRepair ---------------------------
(***************************************************************************)
(* transferObjectOwnership                                                 *)
(* (src/internal/controller/postgresdatabase_controller.go) beside an      *)
(* application that uses and migrates the same schema: the list of objects *)
(* owned by somebody else, then one ALTER ... OWNER for each, in a         *)
(* transaction of its own, under a lock timeout and a deadline.            *)
(*                                                                         *)
(* Only tables and sequences are modelled: what changes the owner of a     *)
(* view, a type or a function waits for nobody that works with data.       *)
(* Locks are PostgreSQL's: a queue for each relation, first come first     *)
(* served.  Time passes in ticks, and only while the repair has to wait.   *)
(***************************************************************************)
EXTENDS Integers, FiniteSets, Sequences

CONSTANTS
    Tables, Sequences,  \* the names of relations in the schema
    TableOf,            \* the table that a linked (serial) sequence is part of
    Sessions, Repair,   \* sessions of the application; the operator's
    CatalogOrders,      \* the orders in which pg_class may hold the relations
    LockTimeout,        \* lock_timeout, 2 s, in ticks
    Deadline,           \* the deadline of a run, 30 s, in ticks
    MaxTransactions,    \* bound: transactions of the application
    MaxDisruptions      \* bound: failed calls

Relations == Tables \cup Sequences
Linked == DOMAIN TableOf

ASSUME RepairAssumption ==
    /\ Tables \cap Sequences = {}
    /\ Linked \subseteq Sequences
    /\ \A s \in Linked : TableOf[s] \in Tables
    /\ Repair \notin Sessions
    /\ IsFiniteSet(Relations)
    /\ CatalogOrders \subseteq Seq(Relations)
    /\ \A o \in CatalogOrders, r \in Relations : \E k \in DOMAIN o : o[k] = r
    /\ LockTimeout \in Nat \ {0} /\ Deadline \in Nat \ {0}
    /\ MaxTransactions \in Nat /\ MaxDisruptions \in Nat

Actors == Sessions \cup {Repair}

\* A linked sequence always has its table's owner.
Root(r) == IF r \in Linked THEN TableOf[r] ELSE r
Roots == Relations \ Linked
SequencesOf(r) == {s \in Linked : TableOf[s] = r}

VARIABLES
    owner,       \* of each table and each sequence of its own
    recreated,   \* those made since the repair last listed them
    locks,       \* the modes in which actors hold relations
    queue,       \* the requests that wait for each relation
    order,       \* the order of the catalog
    pc,          \* where the repair is
    queued,      \* Reconcile is to run (again)
    statements,  \* the list of relations to alter
    i,           \* the statement that is next, or running
    waited,      \* ticks the repair has waited for its present lock
    elapsed,     \* ticks since the run has begun
    delay,       \* ticks a session has been held up by the repair alone
    budget       \* transactions and disruptions left

catalog == <<owner, recreated, order>>
run == <<pc, queued, statements, i>>
clocks == <<waited, elapsed, delay>>
vars == <<catalog, locks, queue, run, clocks, budget>>

-----------------------------------------------------------------------------
(* PostgreSQL's locks.                                                     *)

Conflict(m, n) == m # "none" /\ n # "none" /\ "exclusive" \in {m, n}

Holds(a) == {r \in Relations : locks[r][a] # "none"}
WaitsFor(a) == {r \in Relations : \E k \in DOMAIN queue[r] : queue[r][k].who = a}
Waiting(a) == WaitsFor(a) # {}

\* Who keeps the k-th request for r waiting.
Blockers(r, k) ==
    LET m == queue[r][k].mode
    IN  {a \in Actors \ {queue[r][k].who} : Conflict(locks[r][a], m)}
          \cup {queue[r][j].who : j \in {j \in 1..k - 1 : Conflict(queue[r][j].mode, m)}}

\* A request is granted at once unless it has to wait for somebody.
Request(a, r, m) ==
    IF \/ \E b \in Actors \ {a} : Conflict(locks[r][b], m)
       \/ \E k \in DOMAIN queue[r] : Conflict(queue[r][k].mode, m)
    THEN /\ queue' = [queue EXCEPT ![r] = Append(@, [who |-> a, mode |-> m])]
         /\ UNCHANGED locks
    ELSE /\ locks' = [locks EXCEPT ![r][a] = m]
         /\ UNCHANGED queue

\* The queue q when a, who is in it once at most, has left it.
Without(q, a) ==
    LET places == {k \in DOMAIN q : q[k].who = a}
    IN  IF places = {}
        THEN q
        ELSE [j \in 1..Len(q) - 1 |-> IF \E k \in places : k <= j THEN q[j + 1] ELSE q[j]]

Released(a) == [r \in Relations |-> [locks[r] EXCEPT ![a] = "none"]]

\* A transaction that ends gives up its locks and its request.
EndTransaction(a) ==
    /\ locks' = Released(a)
    /\ queue' = [r \in Relations |-> Without(queue[r], a)]

Grantable(r) == queue[r] # <<>> /\ Blockers(r, 1) = {}

Grant(r) ==
    /\ Grantable(r)
    /\ LET q == queue[r][1] IN locks' = [locks EXCEPT ![r][q.who] = q.mode]
    /\ queue' = [queue EXCEPT ![r] = Tail(@)]
    /\ UNCHANGED <<catalog, run, clocks, budget>>

-----------------------------------------------------------------------------
(* The repair.                                                             *)

\* Seeded fault: a list without the sequences.
TablesOnly(r) == r \in Tables /\ owner[r] = "other"

\* Seeded fault: owners compared with a name that PostgreSQL has truncated:
\* none of them is the user's.
NeverOwned(r) == owner[Root(r)] # "gone"

\* The catalog query: relations that exist and are not the user's.
NeedsRepair(r) == owner[Root(r)] = "other"

Precedes(r, q) == \E j, k \in DOMAIN order : j < k /\ order[j] = r /\ order[k] = q

\* Its rows come in the order of the catalog.
Listings ==
    LET listed == {r \in Relations : NeedsRepair(r)}
    IN  {rows \in UNION {[1..n -> listed] : n \in 0..Len(order)} :
            /\ \A r \in listed : \E k \in DOMAIN rows : rows[k] = r
            /\ \A j, k \in DOMAIN rows : j < k => Precedes(rows[j], rows[k])}

List ==
    /\ pc = "idle" /\ queued
    /\ pc' = "begin"
    /\ queued' = FALSE
    /\ statements' \in Listings
    /\ i' = 1
    /\ recreated' = {}
    /\ UNCHANGED <<owner, order, locks, queue, clocks, budget>>

\* Seeded fault: a change that goes on with the next statement.
NextStatement ==
    /\ pc' = "begin"
    /\ i' = i + 1
    /\ waited' = 0
    /\ UNCHANGED <<queued, statements, elapsed>>

EndRun ==
    /\ pc' = "idle"
    /\ statements' = <<>>
    /\ i' = 1
    /\ waited' = 0 /\ elapsed' = 0

\* The first error ends the run, and Reconcile returns it.
StopRun == EndRun /\ queued' = TRUE

Fail ==
    /\ EndTransaction(Repair)
    /\ StopRun

Target == statements[i]

\* BeginTx, SET LOCAL lock_timeout, and the statement looks its object up.
Begin ==
    /\ pc = "begin" /\ i <= Len(statements)
    /\ IF owner[Root(Target)] = "gone"
       THEN Fail
       ELSE /\ Request(Repair, Target, "exclusive")
            /\ pc' = "alter"
            /\ UNCHANGED <<queued, statements, i, waited, elapsed>>
    /\ UNCHANGED <<catalog, delay, budget>>

\* The object may have been dropped while the statement waited; the owner of a
\* linked sequence cannot be changed, but where it is the user already that
\* is no change.
Refused == \/ owner[Root(Target)] = "gone"
           \/ Target \in Linked /\ owner[Root(Target)] # "user"

\* ALTER TABLE takes the table's sequences along.
StillToLock ==
    IF owner[Root(Target)] = "user" THEN {} ELSE SequencesOf(Target) \ Holds(Repair)

Alter ==
    /\ pc = "alter" /\ ~Waiting(Repair)
    /\ \/ /\ Refused
          /\ Fail
       \/ /\ ~Refused /\ StillToLock # {}
          /\ \E s \in StillToLock : Request(Repair, s, "exclusive")
          /\ waited' = 0
          /\ UNCHANGED <<pc, queued, statements, i, elapsed>>
       \/ /\ ~Refused /\ StillToLock = {}
          /\ pc' = "commit"
          /\ waited' = 0
          /\ UNCHANGED <<locks, queue, queued, statements, i, elapsed>>
    /\ UNCHANGED <<catalog, delay, budget>>

\* Seeded fault: one transaction for all the statements.
KeepLocks(a) == locks

LocksAfterCommit(a) == Released(a)

\* The reply to COMMIT may be lost: an error for the run.
Commit ==
    /\ pc = "commit"
    /\ owner' = [owner EXCEPT ![Root(Target)] = "user"]
    /\ locks' = LocksAfterCommit(Repair)
    /\ \/ /\ pc' = "begin"
          /\ i' = i + 1
          /\ UNCHANGED <<queued, statements, waited, elapsed, budget>>
       \/ /\ budget.disruptions > 0
          /\ budget' = [budget EXCEPT !.disruptions = @ - 1]
          /\ StopRun
    /\ UNCHANGED <<recreated, order, queue, delay>>

\* Reconcile goes on to report success.
Done ==
    /\ pc = "begin" /\ i > Len(statements)
    /\ EndRun
    /\ UNCHANGED <<catalog, locks, queue, queued, delay, budget>>

\* Seeded fault: no lock_timeout.
NoLockTimeout == FALSE

LockTimeoutDue == Waiting(Repair) /\ waited >= LockTimeout

DeadlineDue == pc # "idle" /\ elapsed >= Deadline

Expire ==
    /\ LockTimeoutDue \/ DeadlineDue
    /\ Fail
    /\ UNCHANGED <<catalog, delay, budget>>

\* A statement fails, the connection breaks, or the operator dies and is
\* started again.
Break ==
    /\ pc # "idle" /\ budget.disruptions > 0
    /\ budget' = [budget EXCEPT !.disruptions = @ - 1]
    /\ Fail
    /\ UNCHANGED <<catalog, delay>>

\* Reconcile runs for some other reason.
Resync ==
    /\ ~queued
    /\ queued' = TRUE
    /\ UNCHANGED <<catalog, locks, queue, pc, statements, i, clocks, budget>>

-----------------------------------------------------------------------------
(* The application.                                                        *)

SpendTransaction ==
    /\ budget.transactions > 0
    /\ budget' = [budget EXCEPT !.transactions = @ - 1]

\* A transaction uses a relation that exists, or migrates it.
Use(s) ==
    /\ ~Waiting(s)
    /\ IF Holds(s) = {} THEN SpendTransaction ELSE UNCHANGED budget
    /\ \E r \in Relations \ Holds(s), m \in {"share", "exclusive"} :
        /\ owner[Root(r)] # "gone"
        /\ Request(s, r, m)
    /\ delay' = [delay EXCEPT ![s] = 0]
    /\ UNCHANGED <<catalog, run, waited, elapsed>>

\* A migration may drop what it has locked, sequences included.
Droppable(s) ==
    {r \in Roots : \A x \in {r} \cup SequencesOf(r) : locks[x][s] = "exclusive"}

CommitSession(s) ==
    /\ ~Waiting(s) /\ Holds(s) # {}
    /\ \E dropped \in SUBSET Droppable(s) :
        owner' = [r \in Roots |-> IF r \in dropped THEN "gone" ELSE owner[r]]
    /\ EndTransaction(s)
    /\ UNCHANGED <<recreated, order, run, clocks, budget>>

\* Rolled back, cancelled or the victim of a deadlock.
AbortSession(s) ==
    /\ Holds(s) # {} \/ Waiting(s)
    /\ EndTransaction(s)
    /\ UNCHANGED <<catalog, run, clocks, budget>>

\* The application makes a relation of its own, somebody else makes one.
Create ==
    /\ SpendTransaction
    /\ \E r \in Roots, o \in {"user", "other"} :
        /\ owner[r] = "gone"
        /\ owner' = [owner EXCEPT ![r] = o]
        /\ recreated' = recreated \cup {r}
    /\ UNCHANGED <<order, locks, queue, run, clocks>>

-----------------------------------------------------------------------------
(* Time.                                                                   *)

\* s waits for the repair, or behind it, and for nobody else.
HeldUp(s) ==
    \E r \in WaitsFor(s), k \in 1..Cardinality(Actors) :
        k \in DOMAIN queue[r] /\ queue[r][k].who = s /\ Blockers(r, k) = {Repair}

\* The repair and the lock manager take no time unless they have to wait.
Tick ==
    /\ pc = "idle" \/ Waiting(Repair)
    /\ \A r \in Relations : ~Grantable(r)
    /\ ~LockTimeoutDue /\ ~DeadlineDue
    /\ waited' = IF Waiting(Repair) THEN waited + 1 ELSE waited
    /\ elapsed' = IF pc = "idle" THEN elapsed ELSE elapsed + 1
    /\ delay' = [s \in Sessions |-> IF HeldUp(s) THEN delay[s] + 1 ELSE 0]
    /\ UNCHANGED <<catalog, locks, queue, run, budget>>

-----------------------------------------------------------------------------

Init ==
    /\ owner \in [Roots -> {"user", "other"}]
    /\ recreated = {}
    /\ locks = [r \in Relations |-> [a \in Actors |-> "none"]]
    /\ queue = [r \in Relations |-> <<>>]
    /\ order \in CatalogOrders
    /\ pc = "idle" /\ queued = TRUE
    /\ statements = <<>> /\ i = 1
    /\ waited = 0 /\ elapsed = 0
    /\ delay = [s \in Sessions |-> 0]
    /\ budget = [transactions |-> MaxTransactions, disruptions |-> MaxDisruptions]

TransferObjectOwnership == List \/ Begin \/ Alter \/ Commit \/ Done \/ Expire

LockManager == \E r \in Relations : Grant(r)

Application == Create \/ \E s \in Sessions : Use(s) \/ CommitSession(s) \/ AbortSession(s)

Next == TransferObjectOwnership \/ LockManager \/ Tick \/ Break \/ Resync \/ Application

\* Time passes, the lock manager grants what it can, the operator runs.
\* Nothing is assumed of the application: a transaction may stay open.
Fairness == WF_vars(TransferObjectOwnership) /\ WF_vars(LockManager) /\ WF_vars(Tick)

Spec == Init /\ [][Next]_vars /\ Fairness

-----------------------------------------------------------------------------
(* Properties.                                                             *)

Modes == {"none", "share", "exclusive"}

Requests == [who : Actors, mode : Modes \ {"none"}]

\* No two actors hold a relation in modes that conflict; nobody waits twice.
LocksOK ==
    /\ locks \in [Relations -> [Actors -> Modes]]
    /\ queue \in [Relations -> Seq(Requests)]
    /\ \A r \in Relations, a, b \in Actors : a # b => ~Conflict(locks[r][a], locks[r][b])
    /\ \A r, x \in Relations : \A j \in DOMAIN queue[r], k \in DOMAIN queue[x] :
          queue[r][j].who = queue[x][k].who => r = x /\ j = k

\* Type invariant: the variables keep within their types, and LocksOK.
TypeOK ==
    /\ owner \in [Roots -> {"user", "other", "gone"}]
    /\ recreated \in SUBSET Roots
    /\ LocksOK
    /\ order \in CatalogOrders
    /\ pc \in {"idle", "begin", "alter", "commit"}
    /\ queued \in BOOLEAN
    /\ statements \in Seq(Relations) /\ i \in 1..Len(statements) + 1
    /\ waited \in 0..LockTimeout /\ elapsed \in 0..Deadline
    /\ delay \in [Sessions -> Nat]
    /\ budget \in [transactions : 0..MaxTransactions, disruptions : 0..MaxDisruptions]

\* A repair that has reported success and is not to run again has left
\* nothing unrepaired but what was made after it had read the list.
RestIsOwned ==
    pc = "idle" /\ ~queued => \A r \in Roots : owner[r] = "other" => r \in recreated

\* The repair never waits in a circle with a session, and so never makes one
\* the victim of a deadlock: it keeps no lock of an object it has repaired.
\* The exception is a table with sequences of its own, which one statement
\* locks one after the other.
NoWaitCycle ==
    \A s \in Sessions :
        WaitsFor(Repair) \cap Holds(s) # {} /\ WaitsFor(s) \cap Holds(Repair) # {}
            => SequencesOf(Target) # {}

\* The longest a statement can wait: for its table and for each sequence.
LongestWait(r) == LockTimeout * (1 + Cardinality(SequencesOf(Root(r))))

\* No session that only the repair stands in the way of, even one queued
\* behind a repair that is itself waiting for another session's long
\* transaction, is kept for longer than the lock timeouts of one statement.
BriefBlocking ==
    \A s \in Sessions : \A r \in WaitsFor(s) : delay[s] <= LongestWait(r)

(* The inductive invariants behind them.                                   *)

\* Nobody waits for what he holds.  The repair has and wants locks of one
\* statement's relations only, and none between two statements.
RepairInv ==
    /\ \A a \in Actors : Holds(a) \cap WaitsFor(a) = {}
    /\ pc \in {"idle", "begin"} => Holds(Repair) = {}
    /\ pc # "alter" => ~Waiting(Repair) /\ waited = 0
    /\ pc \in {"alter", "commit"} =>
          /\ i <= Len(statements)
          /\ Holds(Repair) \cup WaitsFor(Repair) \subseteq {Target} \cup SequencesOf(Target)

\* What belongs to somebody else is yet to be altered by the run, or will be
\* by the next one, or was made after the list.
ListInv ==
    \A r \in Roots :
        owner[r] = "other" /\ r \notin recreated =>
            queued \/ (pc # "idle" /\ \E k \in i..Len(statements) : Root(statements[k]) = r)

\* For how long the repair may have stood in somebody's way: the timeout of
\* each lock it has but the one that it has just got, and the present wait.
Allowance ==
    waited + LockTimeout * Cardinality(Holds(Repair))
        - (IF pc = "alter" /\ ~Waiting(Repair) THEN LockTimeout ELSE 0)

\* Once a session is held up by the repair alone, nobody else gets before it.
DelayInv ==
    \A s \in Sessions, r \in Relations : \A k \in DOMAIN queue[r] :
        queue[r][k].who = s /\ delay[s] > 0 =>
            /\ delay[s] <= LongestWait(r)
            /\ Blockers(r, k) \subseteq {Repair}
            /\ Repair \in Blockers(r, k) => delay[s] <= Allowance

\* Liveness, if Reconcile runs now and then: once the application's
\* transactions have ended everything becomes the user's.
RepairCompletes ==
    WF_vars(Resync) =>
        (<>[](\A s \in Sessions : Holds(s) = {} /\ ~Waiting(s))
            => <>[](\A r \in Roots : owner[r] # "other"))

\* Liveness: once everything is the user's and remains so, no later reconcile
\* takes or requests a lock on the application's relations, however often
\* Reconcile runs and whatever was listed before ("a normal reconcile must not
\* take exclusive locks on application tables").
SettledTakesNoLocks ==
    <>[](\A r \in Roots : owner[r] # "other")
        => <>[](Holds(Repair) = {} /\ ~Waiting(Repair))

=============================================================================
