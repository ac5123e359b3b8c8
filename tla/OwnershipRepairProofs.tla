------------------------ MODULE OwnershipRepairProofs ------------------------
(***************************************************************************)
(* Theorems about OwnershipRepair: what the lock manager's steps do to     *)
(* those who hold and wait, and the safety properties of the repair, for   *)
(* every schema, every number of sessions and every timeout.               *)
(***************************************************************************)
EXTENDS OwnershipRepair, FiniteSetTheorems, TLAPS

-----------------------------------------------------------------------------
(* Locks.                                                                  *)

\* Whoever waits, a apart, has waited before, and nobody has got before him.
Undisturbed(a) ==
    \A s \in Actors \ {a}, r \in Relations : \A k \in DOMAIN queue'[r] :
        queue'[r][k].who = s =>
            \E j \in DOMAIN queue[r] :
                queue[r][j].who = s /\ Blockers(r, k)' \subseteq Blockers(r, j)

\* A step changes nothing of what the others hold and wait for.
OthersKeep(a) ==
    \A b \in Actors \ {a} : Holds(b)' = Holds(b) /\ WaitsFor(b)' = WaitsFor(b)

Granted(a, r) == Holds(a)' = Holds(a) \cup {r} /\ WaitsFor(a)' = {}
Enqueued(a, r) == Holds(a)' = Holds(a) /\ WaitsFor(a)' = {r}

LEMMA QueueElements ==
    ASSUME LocksOK, NEW r \in Relations, NEW k \in DOMAIN queue[r]
    PROVE  /\ queue[r] \in Seq(Requests) /\ DOMAIN queue[r] = 1..Len(queue[r])
           /\ Len(queue[r]) \in Nat /\ k \in 1..Len(queue[r])
           /\ queue[r][k] \in Requests /\ queue[r][k].who \in Actors
           /\ queue[r][k].mode \in Modes \ {"none"}
<1>1. queue[r] \in Seq(Requests)
  BY DEF LocksOK
<1>2. Len(queue[r]) \in Nat /\ DOMAIN queue[r] = 1..Len(queue[r]) /\ queue[r][k] \in Requests
  BY <1>1
<1> QED
  BY <1>1, <1>2 DEF Requests

\* A lock that is granted at once.
LEMMA RequestGranted ==
    ASSUME LocksOK, NEW a \in Actors, NEW r \in Relations, NEW m \in Modes \ {"none"},
           WaitsFor(a) = {},
           \A b \in Actors \ {a} : ~Conflict(locks[r][b], m),
           \A k \in DOMAIN queue[r] : ~Conflict(queue[r][k].mode, m),
           locks' = [locks EXCEPT ![r][a] = m], UNCHANGED queue
    PROVE  LocksOK' /\ Undisturbed(a) /\ OthersKeep(a) /\ Granted(a, r)
<1>1. /\ locks \in [Relations -> [Actors -> Modes]]
      /\ locks' \in [Relations -> [Actors -> Modes]]
      /\ \A x \in Relations, b \in Actors :
            locks'[x][b] = IF x = r /\ b = a THEN m ELSE locks[x][b]
  BY DEF LocksOK
<1>2. LocksOK'
  <2>1. \A x \in Relations, b, c \in Actors : b # c => ~Conflict(locks'[x][b], locks'[x][c])
    <3> SUFFICES ASSUME NEW x \in Relations, NEW b \in Actors, NEW c \in Actors, b # c
                 PROVE  ~Conflict(locks'[x][b], locks'[x][c])
      OBVIOUS
    <3>1. ~Conflict(locks[x][b], locks[x][c])
      BY DEF LocksOK
    <3> QED
      BY <1>1, <3>1 DEF Conflict
  <2> QED
    BY <1>1, <2>1 DEF LocksOK
<1>3. OthersKeep(a) /\ Granted(a, r)
  <2>1. \A b \in Actors : WaitsFor(b)' = WaitsFor(b)
    BY DEF WaitsFor
  <2>2. \A b \in Actors \ {a} : Holds(b)' = Holds(b)
    BY <1>1 DEF Holds
  <2>3. Holds(a)' = Holds(a) \cup {r}
    BY <1>1 DEF Holds, Modes
  <2> QED
    BY <2>1, <2>2, <2>3 DEF OthersKeep, Granted
<1>4. Undisturbed(a)
  <2> SUFFICES ASSUME NEW s \in Actors \ {a}, NEW x \in Relations, NEW k \in DOMAIN queue[x],
                      queue[x][k].who = s
               PROVE  Blockers(x, k)' \subseteq Blockers(x, k)
    BY DEF Undisturbed
  <2> SUFFICES ASSUME NEW b \in Actors \ {s}, Conflict(locks'[x][b], queue[x][k].mode)
               PROVE  Conflict(locks[x][b], queue[x][k].mode)
    BY DEF Blockers
  <2> QED
    BY <1>1 DEF Conflict
<1> QED
  BY <1>2, <1>3, <1>4

\* One that has to wait.
LEMMA RequestEnqueued ==
    ASSUME LocksOK, NEW a \in Actors, NEW r \in Relations, NEW m \in Modes \ {"none"},
           WaitsFor(a) = {},
           queue' = [queue EXCEPT ![r] = Append(@, [who |-> a, mode |-> m])], UNCHANGED locks
    PROVE  LocksOK' /\ Undisturbed(a) /\ OthersKeep(a) /\ Enqueued(a, r)
<1> DEFINE new == [who |-> a, mode |-> m]
           n == Len(queue[r]) + 1
<1>1. /\ queue \in [Relations -> Seq(Requests)] /\ new \in Requests
      /\ \A x \in Relations : queue[x] \in Seq(Requests) /\ DOMAIN queue[x] = 1..Len(queue[x])
      /\ Len(queue[r]) \in Nat
  <2>1. queue \in [Relations -> Seq(Requests)]
    BY DEF LocksOK
  <2>2. new \in Requests
    BY DEF Requests
  <2>3. \A x \in Relations : queue[x] \in Seq(Requests)
    BY <2>1
  <2>4. \A x \in Relations : DOMAIN queue[x] = 1..Len(queue[x]) /\ Len(queue[x]) \in Nat
    BY <2>3
  <2> QED
    BY <2>1, <2>2, <2>3, <2>4
<1>2. /\ queue' \in [Relations -> Seq(Requests)]
      /\ \A x \in Relations : x # r => queue'[x] = queue[x]
      /\ queue'[r] = Append(queue[r], new)
  <2>1. Append(queue[r], new) \in Seq(Requests)
    BY <1>1
  <2>2. queue' = [queue EXCEPT ![r] = Append(queue[r], new)]
    OBVIOUS
  <2> HIDE DEF new
  <2> QED
    BY <1>1, <2>1, <2>2
<1>3. /\ DOMAIN queue'[r] = 1..n
      /\ \A k \in 1..n : queue'[r][k] = IF k = n THEN new ELSE queue[r][k]
  BY <1>1, <1>2
<1>4. \A x \in Relations : \A k \in DOMAIN queue[x] : queue[x][k].who # a
  BY DEF WaitsFor
<1>5. \A x \in Relations : \A k \in DOMAIN queue'[x] :
          IF x = r /\ k = n THEN queue'[x][k] = new
          ELSE k \in DOMAIN queue[x] /\ queue'[x][k] = queue[x][k]
  BY <1>1, <1>2, <1>3
<1>6. LocksOK'
  <2>1. \A x, y \in Relations : \A j \in DOMAIN queue'[x], k \in DOMAIN queue'[y] :
            queue'[x][j].who = queue'[y][k].who => x = y /\ j = k
    <3> SUFFICES ASSUME NEW x \in Relations, NEW y \in Relations,
                        NEW j \in DOMAIN queue'[x], NEW k \in DOMAIN queue'[y],
                        queue'[x][j].who = queue'[y][k].who
                 PROVE  x = y /\ j = k
      OBVIOUS
    <3>1. CASE x = r /\ j = n
      BY <1>4, <1>5, <3>1
    <3>2. CASE y = r /\ k = n
      BY <1>4, <1>5, <3>2
    <3>3. CASE ~(x = r /\ j = n) /\ ~(y = r /\ k = n)
      BY <1>5, <3>3 DEF LocksOK
    <3> QED
      BY <3>1, <3>2, <3>3
  <2> QED
    BY <1>2, <2>1 DEF LocksOK
<1>7. OthersKeep(a) /\ Enqueued(a, r)
  <2>1. \A b \in Actors : Holds(b)' = Holds(b)
    BY DEF Holds
  <2>2. \A x \in Relations : \A k \in DOMAIN queue[x] :
            k \in DOMAIN queue'[x] /\ queue'[x][k] = queue[x][k]
    BY <1>1, <1>2, <1>3
  <2>3. \A b \in Actors \ {a} : WaitsFor(b)' = WaitsFor(b)
    BY <1>5, <2>2 DEF WaitsFor
  <2>4. n \in DOMAIN queue'[r] /\ queue'[r][n].who = a
    BY <1>1, <1>3
  <2>5. WaitsFor(a)' = {r}
    BY <1>4, <1>5, <2>4 DEF WaitsFor
  <2> QED
    BY <2>1, <2>3, <2>5 DEF OthersKeep, Enqueued
<1>8. Undisturbed(a)
  <2> SUFFICES ASSUME NEW s \in Actors \ {a}, NEW x \in Relations, NEW k \in DOMAIN queue'[x],
                      queue'[x][k].who = s
               PROVE  /\ k \in DOMAIN queue[x] /\ queue[x][k].who = s
                      /\ Blockers(x, k)' \subseteq Blockers(x, k)
    BY DEF Undisturbed
  <2>1. k \in DOMAIN queue[x] /\ queue'[x][k] = queue[x][k]
    BY <1>5
  <2>2. \A j \in 1..k - 1 : queue'[x][j] = queue[x][j]
    BY <1>1, <1>2, <1>3, <2>1
  <2> QED
    BY <2>1, <2>2 DEF Blockers
<1> QED
  BY <1>6, <1>7, <1>8

\* Request: whoever asks for a lock gets it or waits for it.
LEMMA RequestStep ==
    ASSUME LocksOK, NEW a \in Actors, NEW r \in Relations, NEW m \in Modes \ {"none"},
           WaitsFor(a) = {}, Request(a, r, m)
    PROVE  LocksOK' /\ Undisturbed(a) /\ OthersKeep(a) /\ (Granted(a, r) \/ Enqueued(a, r))
BY RequestGranted, RequestEnqueued DEF Request

\* Where the k-th request of a queue was before the p-th was taken out.
Back(k, p) == IF k < p THEN k ELSE k + 1

\* w is the queue q without its p-th request.
Removed(w, q, p) ==
    /\ w \in Seq(Requests)
    /\ \A k \in DOMAIN w : Back(k, p) \in DOMAIN q /\ w[k] = q[Back(k, p)]
    /\ \A k \in DOMAIN q : k # p => \E j \in DOMAIN w : Back(j, p) = k

LEMMA BackOrder ==
    ASSUME NEW p \in Nat, NEW j \in Nat, NEW k \in Nat
    PROVE  /\ j = k <=> Back(j, p) = Back(k, p)
           /\ j < k <=> Back(j, p) < Back(k, p)
           /\ Back(j, p) \in Nat /\ Back(j, p) # p /\ Back(j, p) >= j
BY DEF Back

\* Taking a request out of each queue keeps the order of the others.
LEMMA QueuesShrink ==
    ASSUME LocksOK, NEW place \in [Relations -> Nat],
           queue' = [x \in Relations |-> queue'[x]],
           \A x \in Relations : Removed(queue'[x], queue[x], place[x])
    PROVE  /\ queue' \in [Relations -> Seq(Requests)]
           /\ \A x, y \in Relations : \A j \in DOMAIN queue'[x], k \in DOMAIN queue'[y] :
                 queue'[x][j].who = queue'[y][k].who => x = y /\ j = k
           /\ \A x \in Relations : \A k \in DOMAIN queue'[x] :
                 LET b == Back(k, place[x])
                 IN  /\ b \in DOMAIN queue[x] /\ queue'[x][k] = queue[x][b]
                     /\ \A j \in 1..k - 1 :
                           /\ Back(j, place[x]) \in 1..b - 1
                           /\ queue'[x][j] = queue[x][Back(j, place[x])]
<1>1. queue' \in [Relations -> Seq(Requests)]
  BY DEF Removed
<1>2. \A x \in Relations : DOMAIN queue'[x] = 1..Len(queue'[x]) /\ Len(queue'[x]) \in Nat
  BY <1>1
<1>3. \A x \in Relations : \A k \in DOMAIN queue'[x] :
          /\ k \in Nat /\ k >= 1 /\ 1..k - 1 \subseteq DOMAIN queue'[x]
          /\ Back(k, place[x]) \in DOMAIN queue[x]
          /\ queue'[x][k] = queue[x][Back(k, place[x])]
  BY <1>2 DEF Removed
<1>4. ASSUME NEW x \in Relations, NEW y \in Relations,
             NEW j \in DOMAIN queue'[x], NEW k \in DOMAIN queue'[y],
             queue'[x][j].who = queue'[y][k].who
      PROVE  x = y /\ j = k
  <2>1. x = y /\ Back(j, place[x]) = Back(k, place[y])
    BY <1>3, <1>4 DEF LocksOK
  <2> QED
    BY <1>3, <2>1, BackOrder
<1>5. ASSUME NEW x \in Relations, NEW k \in DOMAIN queue'[x], NEW j \in 1..k - 1
      PROVE  /\ Back(j, place[x]) \in 1..Back(k, place[x]) - 1
             /\ queue'[x][j] = queue[x][Back(j, place[x])]
  <2>1. j \in DOMAIN queue'[x] /\ j \in Nat /\ k \in Nat /\ j < k /\ j >= 1
    BY <1>3
  <2> QED
    BY <1>3, <2>1, BackOrder
<1> QED
  BY <1>1, <1>3, <1>4, <1>5

\* Without takes out the one request of an actor, if there is one.
LEMMA WithoutRemoves ==
    ASSUME LocksOK, NEW r \in Relations, NEW a
    PROVE  \E p \in Nat : /\ Removed(Without(queue[r], a), queue[r], p)
                          /\ \A k \in DOMAIN queue[r] : queue[r][k].who = a <=> k = p
<1> DEFINE q == queue[r]
           places == {k \in DOMAIN q : q[k].who = a}
           w == Without(q, a)
<1>1. q \in Seq(Requests) /\ Len(q) \in Nat /\ DOMAIN q = 1..Len(q)
  <2>1. q \in Seq(Requests)
    BY DEF LocksOK
  <2> QED
    BY <2>1
<1>2. CASE places = {}
  <2>1. w = q
    BY <1>2 DEF Without
  <2>2. Removed(w, q, Len(q) + 1)
    <3>1. \A k \in DOMAIN q : Back(k, Len(q) + 1) = k
      BY <1>1 DEF Back
    <3> QED
      BY <1>1, <2>1, <3>1 DEF Removed
  <2>3. \A k \in DOMAIN q : q[k].who = a <=> k = Len(q) + 1
    BY <1>1, <1>2
  <2> HIDE DEF q, w
  <2> QED
    BY <1>1, <2>2, <2>3 DEF q, w
<1>3. ASSUME NEW p \in places PROVE Removed(w, q, p) /\ \A k \in DOMAIN q : q[k].who = a <=> k = p
  <2>1. \A k \in DOMAIN q : q[k].who = a <=> k = p
    BY <1>3 DEF LocksOK
  <2>2. places = {p} /\ p \in 1..Len(q)
    BY <1>1, <2>1
  <2>3. w = [j \in 1..Len(q) - 1 |-> IF \E k \in places : k <= j THEN q[j + 1] ELSE q[j]]
    BY <2>2 DEF Without
  <2>4. \A j \in 1..Len(q) - 1 : w[j] = q[Back(j, p)] /\ Back(j, p) \in 1..Len(q)
    BY <1>1, <2>2, <2>3 DEF Back
  <2>5. w \in Seq(Requests) /\ DOMAIN w = 1..Len(q) - 1
    <3>1. \A j \in 1..Len(q) - 1 : w[j] \in Requests
      BY <1>1, <2>4
    <3>2. w \in [1..Len(q) - 1 -> Requests]
      BY <2>3, <3>1
    <3> QED
      BY <1>1, <2>2, <3>2
  <2>6. ASSUME NEW k \in DOMAIN q, k # p PROVE \E j \in DOMAIN w : Back(j, p) = k
    <3>1. CASE k < p
      BY <1>1, <2>2, <2>5, <3>1 DEF Back
    <3>2. CASE k > p
      <4>1. k - 1 \in DOMAIN w /\ Back(k - 1, p) = k
        BY <1>1, <2>2, <2>5, <3>2 DEF Back
      <4> QED
        BY <4>1
    <3> QED
      BY <1>1, <2>2, <2>6, <3>1, <3>2
  <2> QED
    BY <1>1, <2>1, <2>4, <2>5, <2>6 DEF Removed
<1> QED
  <2>1. places \subseteq Nat
    BY <1>1
  <2> QED
    BY <1>2, <1>3, <2>1

\* The actor's locks go, and nothing else.
LEMMA LocksReleased ==
    ASSUME LocksOK, NEW a \in Actors, locks' = Released(a)
    PROVE  /\ locks' \in [Relations -> [Actors -> Modes]]
           /\ \A r \in Relations, b \in Actors :
                 locks'[r][b] = IF b = a THEN "none" ELSE locks[r][b]
           /\ \A r \in Relations, b, c \in Actors : b # c => ~Conflict(locks'[r][b], locks'[r][c])
           /\ Holds(a)' = {} /\ \A b \in Actors \ {a} : Holds(b)' = Holds(b)
<1>1. /\ locks \in [Relations -> [Actors -> Modes]]
      /\ locks' = [r \in Relations |-> [locks[r] EXCEPT ![a] = "none"]]
  BY DEF LocksOK, Released
<1>2. \A r \in Relations : /\ locks'[r] \in [Actors -> Modes]
                           /\ \A b \in Actors :
                                 locks'[r][b] = IF b = a THEN "none" ELSE locks[r][b]
  BY <1>1 DEF Modes
<1>3. locks' \in [Relations -> [Actors -> Modes]]
  BY <1>1, <1>2
<1>4. ASSUME NEW r \in Relations, NEW b \in Actors, NEW c \in Actors, b # c
      PROVE  ~Conflict(locks'[r][b], locks'[r][c])
  <2>1. ~Conflict(locks[r][b], locks[r][c])
    BY <1>4 DEF LocksOK
  <2> QED
    BY <1>2, <2>1 DEF Conflict
<1>5. Holds(a)' = {} /\ \A b \in Actors \ {a} : Holds(b)' = Holds(b)
  BY <1>2 DEF Holds
<1> QED
  BY <1>2, <1>3, <1>4, <1>5

\* Nobody is kept waiting by somebody whose transaction has ended.
OutOfTheWay(a) ==
    \A r \in Relations : \A k \in DOMAIN queue'[r] : a \notin Blockers(r, k)'

\* EndTransaction: locks and request go.
LEMMA EndStep ==
    ASSUME LocksOK, NEW a \in Actors, EndTransaction(a)
    PROVE  /\ LocksOK' /\ Undisturbed(a) /\ OthersKeep(a) /\ OutOfTheWay(a)
           /\ Holds(a)' = {} /\ WaitsFor(a)' = {}
<1>1. /\ locks' = Released(a)
      /\ queue' = [r \in Relations |-> Without(queue[r], a)]
  BY DEF EndTransaction
<1> DEFINE Place(r) == CHOOSE p \in Nat : /\ Removed(Without(queue[r], a), queue[r], p)
                                          /\ \A k \in DOMAIN queue[r] : queue[r][k].who = a <=> k = p
           place == [r \in Relations |-> Place(r)]
<1>2. \A r \in Relations : /\ Place(r) \in Nat
                           /\ Removed(queue'[r], queue[r], Place(r))
                           /\ \A k \in DOMAIN queue[r] : queue[r][k].who = a <=> k = Place(r)
  BY <1>1, WithoutRemoves
<1> HIDE DEF Place
<1>3. /\ place \in [Relations -> Nat]
      /\ \A r \in Relations : /\ Removed(queue'[r], queue[r], place[r])
                              /\ \A k \in DOMAIN queue[r] : queue[r][k].who = a <=> k = place[r]
  BY <1>2
<1> HIDE DEF place
<1>4. queue' = [r \in Relations |-> queue'[r]]
  BY <1>1
<1>5. /\ queue' \in [Relations -> Seq(Requests)]
      /\ \A x, y \in Relations : \A j \in DOMAIN queue'[x], k \in DOMAIN queue'[y] :
            queue'[x][j].who = queue'[y][k].who => x = y /\ j = k
  BY <1>3, <1>4, QueuesShrink
<1>6. \A x \in Relations : \A k \in DOMAIN queue'[x] :
          LET b == Back(k, place[x])
          IN  /\ b \in DOMAIN queue[x] /\ queue'[x][k] = queue[x][b]
              /\ \A j \in 1..k - 1 :
                    /\ Back(j, place[x]) \in 1..b - 1
                    /\ queue'[x][j] = queue[x][Back(j, place[x])]
  BY <1>3, <1>4, QueuesShrink
<1>7. LocksOK'
  BY <1>1, <1>5, LocksReleased DEF LocksOK
<1>8. \A x \in Relations : \A k \in DOMAIN queue'[x] : queue'[x][k].who # a
  <2> SUFFICES ASSUME NEW x \in Relations, NEW k \in DOMAIN queue'[x]
               PROVE  queue'[x][k].who # a
    OBVIOUS
  <2>1. k \in Nat
    BY <1>5
  <2>2. Back(k, place[x]) # place[x]
    BY <1>3, <2>1 DEF Back
  <2> QED
    BY <1>3, <1>6, <2>2
<1>9. ASSUME NEW b \in Actors \ {a} PROVE WaitsFor(b)' = WaitsFor(b)
  <2>1. \A x \in Relations : \A k \in DOMAIN queue[x] :
            queue[x][k].who = b => \E j \in DOMAIN queue'[x] : queue'[x][j].who = b
    <3> SUFFICES ASSUME NEW x \in Relations, NEW k \in DOMAIN queue[x], queue[x][k].who = b
                 PROVE  \E j \in DOMAIN queue'[x] : queue'[x][j].who = b
      OBVIOUS
    <3>1. k # place[x]
      BY <1>3
    <3>2. PICK j \in DOMAIN queue'[x] : Back(j, place[x]) = k
      BY <1>3, <3>1 DEF Removed
    <3> QED
      BY <1>6, <3>2
  <2> QED
    BY <1>6, <2>1 DEF WaitsFor
<1>10. OthersKeep(a) /\ Holds(a)' = {} /\ WaitsFor(a)' = {}
  BY <1>1, <1>8, <1>9, LocksReleased DEF OthersKeep, WaitsFor
<1>11. Undisturbed(a) /\ OutOfTheWay(a)
  <2> SUFFICES ASSUME NEW x \in Relations, NEW k \in DOMAIN queue'[x]
               PROVE  /\ Back(k, place[x]) \in DOMAIN queue[x]
                      /\ queue'[x][k] = queue[x][Back(k, place[x])]
                      /\ Blockers(x, k)' \subseteq Blockers(x, Back(k, place[x])) \ {a}
    BY DEF Undisturbed, OutOfTheWay
  <2> DEFINE b == Back(k, place[x])
  <2>1. b \in DOMAIN queue[x] /\ queue'[x][k] = queue[x][b]
    BY <1>6
  <2>2. \A c \in Actors : Conflict(locks'[x][c], queue'[x][k].mode) =>
            c # a /\ Conflict(locks[x][c], queue[x][b].mode)
    BY <1>1, <2>1, LocksReleased DEF Conflict
  <2>3. \A j \in 1..k - 1 : /\ Back(j, place[x]) \in 1..b - 1
                            /\ queue'[x][j] = queue[x][Back(j, place[x])]
                            /\ queue'[x][j].who # a
    <3>1. 1..k - 1 \subseteq DOMAIN queue'[x]
      <4>1. DOMAIN queue'[x] = 1..Len(queue'[x]) /\ Len(queue'[x]) \in Nat
        BY <1>5
      <4> QED
        BY <4>1
    <3> QED
      BY <1>6, <1>8, <3>1
  <2> HIDE DEF b
  <2>4. Blockers(x, k)' \subseteq Blockers(x, b) \ {a}
    BY <2>1, <2>2, <2>3 DEF Blockers
  <2> QED
    BY <2>1, <2>4 DEF b
<1> QED
  BY <1>7, <1>10, <1>11

\* A commit of somebody who does not wait.
LEMMA CommitStep ==
    ASSUME LocksOK, NEW a \in Actors, WaitsFor(a) = {}, locks' = Released(a), UNCHANGED queue
    PROVE  /\ LocksOK' /\ Undisturbed(a) /\ OthersKeep(a) /\ OutOfTheWay(a)
           /\ Holds(a)' = {} /\ WaitsFor(a)' = {}
<1>1. LocksOK'
  BY LocksReleased DEF LocksOK
<1>2. OthersKeep(a) /\ Holds(a)' = {} /\ WaitsFor(a)' = {}
  BY LocksReleased DEF OthersKeep, WaitsFor
<1>3. Undisturbed(a) /\ OutOfTheWay(a)
  <2> SUFFICES ASSUME NEW x \in Relations, NEW k \in DOMAIN queue[x]
               PROVE  Blockers(x, k)' \subseteq Blockers(x, k) \ {a}
    BY DEF Undisturbed, OutOfTheWay
  <2>1. \A c \in Actors : Conflict(locks'[x][c], queue[x][k].mode) =>
            c # a /\ Conflict(locks[x][c], queue[x][k].mode)
    BY LocksReleased DEF Conflict
  <2>2. \A j \in 1..k - 1 : queue[x][j].who # a
    <3>1. DOMAIN queue[x] = 1..Len(queue[x]) /\ Len(queue[x]) \in Nat
      BY QueueElements
    <3> QED
      BY <3>1 DEF WaitsFor
  <2> QED
    BY <2>1, <2>2 DEF Blockers
<1> QED
  BY <1>1, <1>2, <1>3

\* Grant: the first in the queue for r gets the lock.
LEMMA GrantStep ==
    ASSUME LocksOK, NEW r \in Relations, Grant(r), NEW g, g = queue[r][1].who
    PROVE  /\ g \in Actors /\ WaitsFor(g) = {r}
           /\ LocksOK' /\ Undisturbed(g) /\ OthersKeep(g) /\ Granted(g, r)
<1> DEFINE m == queue[r][1].mode
           place == [x \in Relations |-> IF x = r THEN 1 ELSE Len(queue[x]) + 1]
<1>1. /\ queue \in [Relations -> Seq(Requests)]
      /\ \A x \in Relations : queue[x] \in Seq(Requests) /\ Len(queue[x]) \in Nat
                              /\ DOMAIN queue[x] = 1..Len(queue[x])
  <2>1. queue \in [Relations -> Seq(Requests)]
    BY DEF LocksOK
  <2>2. \A x \in Relations : queue[x] \in Seq(Requests)
    BY <2>1
  <2> QED
    BY <2>1, <2>2
<1>2. /\ queue[r] # <<>> /\ Blockers(r, 1) = {}
      /\ locks' = [locks EXCEPT ![r][g] = m]
      /\ queue' = [queue EXCEPT ![r] = Tail(queue[r])]
  BY DEF Grant, Grantable
<1>3. /\ 1 \in DOMAIN queue[r] /\ g \in Actors /\ m \in Modes \ {"none"}
      /\ Tail(queue[r]) \in Seq(Requests) /\ DOMAIN Tail(queue[r]) = 1..Len(queue[r]) - 1
      /\ \A k \in 1..Len(queue[r]) - 1 : Tail(queue[r])[k] = queue[r][k + 1]
  <2>1. 1 \in DOMAIN queue[r]
    BY <1>1, <1>2
  <2>2. g \in Actors /\ m \in Modes \ {"none"}
    BY <2>1, QueueElements
  <2>3. /\ Tail(queue[r]) \in Seq(Requests) /\ DOMAIN Tail(queue[r]) = 1..Len(queue[r]) - 1
        /\ \A k \in 1..Len(queue[r]) - 1 : Tail(queue[r])[k] = queue[r][k + 1]
    BY <1>1, <1>2
  <2> QED
    BY <2>1, <2>2, <2>3
<1>4. /\ place \in [Relations -> Nat]
      /\ queue' = [x \in Relations |-> queue'[x]]
      /\ \A x \in Relations : queue'[x] = IF x = r THEN Tail(queue[r]) ELSE queue[x]
  <2>1. place \in [Relations -> Nat]
    BY <1>1
  <2>2. /\ queue' = [x \in Relations |-> queue'[x]]
        /\ \A x \in Relations : queue'[x] = IF x = r THEN Tail(queue[r]) ELSE queue[x]
    BY <1>1, <1>2
  <2> QED
    BY <2>1, <2>2
<1>5. ASSUME NEW x \in Relations PROVE Removed(queue'[x], queue[x], place[x])
  <2>1. CASE x = r
    <3>1. queue'[x] = Tail(queue[r]) /\ place[x] = 1
      BY <1>4, <2>1
    <3>2. \A k \in 1..Len(queue[r]) - 1 : Back(k, 1) = k + 1
      BY DEF Back
    <3>3. ASSUME NEW k \in 1..Len(queue[r]), k # 1
          PROVE  k - 1 \in 1..Len(queue[r]) - 1 /\ Back(k - 1, 1) = k
      BY <1>1, <3>3 DEF Back
    <3> DEFINE w == Tail(queue[r])
               q == queue[r]
    <3>4. \A k \in DOMAIN w : Back(k, 1) \in DOMAIN q /\ w[k] = q[Back(k, 1)]
      BY <1>1, <1>3, <3>2
    <3>5. \A k \in DOMAIN q : k # 1 => \E j \in DOMAIN w : Back(j, 1) = k
      BY <1>1, <1>3, <3>3
    <3>6. w \in Seq(Requests)
      BY <1>3
    <3> HIDE DEF w
    <3>7. Removed(w, q, 1)
      BY <3>4, <3>5, <3>6 DEF Removed
    <3> QED
      BY <2>1, <3>1, <3>7 DEF w
  <2>2. CASE x # r
    <3>1. queue'[x] = queue[x] /\ place[x] = Len(queue[x]) + 1
      BY <1>4, <2>2
    <3>2. \A k \in DOMAIN queue[x] : Back(k, place[x]) = k
      BY <1>1, <3>1 DEF Back
    <3> QED
      BY <1>1, <3>1, <3>2 DEF Removed
  <2> QED
    BY <2>1, <2>2
<1> HIDE DEF place
<1>6. /\ queue' \in [Relations -> Seq(Requests)]
      /\ \A x, y \in Relations : \A j \in DOMAIN queue'[x], k \in DOMAIN queue'[y] :
            queue'[x][j].who = queue'[y][k].who => x = y /\ j = k
  BY <1>4, <1>5, QueuesShrink
<1>7. \A x \in Relations : \A k \in DOMAIN queue'[x] :
          LET b == Back(k, place[x])
          IN  /\ b \in DOMAIN queue[x] /\ queue'[x][k] = queue[x][b]
              /\ \A j \in 1..k - 1 :
                    /\ Back(j, place[x]) \in 1..b - 1
                    /\ queue'[x][j] = queue[x][Back(j, place[x])]
  BY <1>4, <1>5, QueuesShrink
<1>8. /\ locks' \in [Relations -> [Actors -> Modes]]
      /\ \A x \in Relations, b \in Actors :
            locks'[x][b] = IF x = r /\ b = g THEN m ELSE locks[x][b]
  BY <1>2, <1>3 DEF LocksOK
<1>9. \A b \in Actors \ {g} : ~Conflict(locks[r][b], m)
  BY <1>2 DEF Blockers
<1> HIDE DEF m
<1>10. LocksOK'
  <2>1. ASSUME NEW x \in Relations, NEW b \in Actors, NEW c \in Actors, b # c
        PROVE  ~Conflict(locks'[x][b], locks'[x][c])
    <3>1. ~Conflict(locks[x][b], locks[x][c])
      BY <2>1 DEF LocksOK
    <3> QED
      BY <1>8, <1>9, <2>1, <3>1 DEF Conflict
  <2> QED
    BY <1>6, <1>8, <2>1 DEF LocksOK
<1>11. WaitsFor(g) = {r} /\ \A x \in Relations : \A k \in DOMAIN queue[x] :
                                queue[x][k].who = g => x = r /\ k = 1
  BY <1>3 DEF WaitsFor, LocksOK
<1>12. ASSUME NEW x \in Relations, NEW k \in DOMAIN queue'[x] PROVE queue'[x][k].who # g
  <2>1. Back(k, place[x]) \in DOMAIN queue[x] /\ queue'[x][k] = queue[x][Back(k, place[x])]
    BY <1>7
  <2>2. x = r => Back(k, place[x]) # 1
    BY <1>1, <1>3, <1>4, <2>1 DEF Back, place
  <2> QED
    BY <1>11, <2>1, <2>2
<1>13. OthersKeep(g) /\ Granted(g, r)
  <2>1. \A b \in Actors \ {g} : Holds(b)' = Holds(b)
    BY <1>8 DEF Holds
  <2>2. Holds(g)' = Holds(g) \cup {r}
    BY <1>3, <1>8 DEF Holds
  <2>3. ASSUME NEW b \in Actors \ {g}, NEW x \in Relations, NEW k \in DOMAIN queue[x],
               queue[x][k].who = b
        PROVE  \E j \in DOMAIN queue'[x] : queue'[x][j].who = b
    <3>1. k # place[x]
      <4>1. place[x] = IF x = r THEN 1 ELSE Len(queue[x]) + 1
        BY DEF place
      <4>2. k \in 1..Len(queue[x]) /\ Len(queue[x]) \in Nat
        BY <1>1
      <4> QED
        BY <2>3, <4>1, <4>2
    <3>2. PICK j \in DOMAIN queue'[x] : Back(j, place[x]) = k
      BY <1>5, <3>1 DEF Removed
    <3> QED
      BY <1>7, <2>3, <3>2
  <2>4. \A b \in Actors \ {g} : WaitsFor(b)' = WaitsFor(b)
    BY <1>7, <2>3 DEF WaitsFor
  <2>5. WaitsFor(g)' = {}
    BY <1>12 DEF WaitsFor
  <2> QED
    BY <2>1, <2>2, <2>4, <2>5 DEF OthersKeep, Granted
<1>14. Undisturbed(g)
  <2> SUFFICES ASSUME NEW x \in Relations, NEW k \in DOMAIN queue'[x]
               PROVE  /\ Back(k, place[x]) \in DOMAIN queue[x]
                      /\ queue'[x][k] = queue[x][Back(k, place[x])]
                      /\ Blockers(x, k)' \subseteq Blockers(x, Back(k, place[x]))
    BY DEF Undisturbed
  <2> DEFINE b == Back(k, place[x])
  <2>1. /\ b \in DOMAIN queue[x] /\ queue'[x][k] = queue[x][b]
        /\ \A j \in 1..k - 1 : Back(j, place[x]) \in 1..b - 1
                               /\ queue'[x][j] = queue[x][Back(j, place[x])]
    BY <1>7
  <2>2. x = r => 1 \in 1..b - 1
    BY <1>1, <1>3, <1>4, <2>1 DEF Back, place
  <2> HIDE DEF b
  <2>3. ASSUME NEW c \in Actors \ {queue[x][b].who}, Conflict(locks'[x][c], queue[x][b].mode)
        PROVE  c \in Blockers(x, b)
    <3>1. CASE x = r /\ c = g
      <4>1. locks'[x][c] = queue[x][1].mode /\ queue[x][1].who = c
        BY <1>8, <3>1 DEF m
      <4> QED
        BY <2>2, <2>3, <3>1, <4>1 DEF Blockers
    <3>2. CASE ~(x = r /\ c = g)
      BY <1>8, <2>3, <3>2 DEF Blockers
    <3> QED
      BY <3>1, <3>2
  <2>4. \A j \in 1..k - 1 : Conflict(queue'[x][j].mode, queue'[x][k].mode) =>
            queue'[x][j].who \in Blockers(x, b)
    BY <2>1 DEF Blockers
  <2>5. Blockers(x, k)' \subseteq Blockers(x, b)
    BY <2>1, <2>3, <2>4 DEF Blockers
  <2> QED
    BY <2>1, <2>5 DEF b
<1> QED
  BY <1>3, <1>10, <1>11, <1>13, <1>14

-----------------------------------------------------------------------------
(* Type correctness, and the repair's locks.                               *)

LEMMA RepairIsActor == Repair \in Actors /\ \A s \in Sessions : s \in Actors /\ s # Repair
BY RepairAssumption DEF Actors

LEMMA SameLocks ==
    ASSUME LocksOK, UNCHANGED <<locks, queue>>
    PROVE  /\ LocksOK' /\ \A a : Undisturbed(a)
           /\ \A a \in Actors : Holds(a)' = Holds(a) /\ WaitsFor(a)' = WaitsFor(a)
<1>1. LocksOK'
  BY DEF LocksOK
<1>2. \A r, k : Blockers(r, k)' = Blockers(r, k)
  BY DEF Blockers
<1>3. \A a : Undisturbed(a)
  BY <1>2 DEF Undisturbed
<1>4. \A a \in Actors : Holds(a)' = Holds(a) /\ WaitsFor(a)' = WaitsFor(a)
  BY DEF Holds, WaitsFor
<1> QED
  BY <1>1, <1>3, <1>4

\* An error ends the run and gives everything up.
LEMMA FailStep ==
    ASSUME LocksOK, Fail
    PROVE  /\ LocksOK' /\ Undisturbed(Repair) /\ OthersKeep(Repair) /\ OutOfTheWay(Repair)
           /\ Holds(Repair)' = {} /\ WaitsFor(Repair)' = {}
           /\ pc' = "idle" /\ queued' = TRUE /\ statements' = <<>> /\ i' = 1
           /\ waited' = 0 /\ elapsed' = 0
BY EndStep, RepairIsActor DEF Fail, StopRun, EndRun

LEMMA TargetType ==
    ASSUME TypeOK, i <= Len(statements)
    PROVE  Target \in Relations /\ Root(Target) \in Roots
<1>1. statements \in Seq(Relations) /\ i \in 1..Len(statements)
  BY DEF TypeOK
<1>2. Target \in Relations
  BY <1>1 DEF Target
<1> QED
  BY <1>2, RepairAssumption DEF Root, Roots, Relations

\* The sessions' transactions.
LEMMA SessionStep ==
    ASSUME TypeOK, RepairInv, NEW s \in Sessions, Use(s) \/ CommitSession(s) \/ AbortSession(s)
    PROVE  /\ LocksOK' /\ Undisturbed(s) /\ OthersKeep(s) /\ Holds(s)' \cap WaitsFor(s)' = {}
           /\ UNCHANGED <<run, waited, elapsed, recreated, order>>
           /\ \A x \in Sessions \ {s} : delay'[x] = delay[x]
           /\ delay'[s] = 0 \/ WaitsFor(s)' = {}
           /\ delay' \in [Sessions -> Nat]
<1>1. LocksOK /\ s \in Actors /\ delay \in [Sessions -> Nat]
  BY RepairIsActor DEF TypeOK
<1>2. CASE Use(s)
  <2>1. WaitsFor(s) = {} /\ delay' = [delay EXCEPT ![s] = 0]
    BY <1>2 DEF Use, Waiting
  <2>2. PICK r \in Relations \ Holds(s), m \in {"share", "exclusive"} : Request(s, r, m)
    BY <1>2 DEF Use
  <2>3. LocksOK' /\ Undisturbed(s) /\ OthersKeep(s) /\ (Granted(s, r) \/ Enqueued(s, r))
    BY <1>1, <2>1, <2>2, RequestStep DEF Modes
  <2>4. Holds(s)' \cap WaitsFor(s)' = {}
    BY <2>2, <2>3 DEF Granted, Enqueued
  <2> QED
    BY <1>1, <1>2, <2>1, <2>3, <2>4 DEF Use, catalog, run
<1>3. CASE CommitSession(s) \/ AbortSession(s)
  <2>1. EndTransaction(s) /\ UNCHANGED <<recreated, order, run, clocks>>
    BY <1>3 DEF CommitSession, AbortSession, catalog
  <2> QED
    BY <1>1, <2>1, EndStep DEF clocks, run
<1> QED
  BY <1>2, <1>3

\* The statement asks for the first lock.
LEMMA BeginStep ==
    ASSUME TypeOK, RepairInv, Begin
    PROVE  \/ Fail
           \/ /\ LocksOK' /\ Undisturbed(Repair) /\ OthersKeep(Repair) /\ RepairInv'
              /\ pc' = "alter" /\ UNCHANGED <<queued, statements, i, waited, elapsed>>
<1> SUFFICES ASSUME ~Fail
             PROVE  /\ LocksOK' /\ Undisturbed(Repair) /\ OthersKeep(Repair) /\ RepairInv'
                    /\ pc' = "alter" /\ UNCHANGED <<queued, statements, i, waited, elapsed>>
  OBVIOUS
<1>1. /\ pc = "begin" /\ pc' = "alter" /\ Request(Repair, Target, "exclusive")
      /\ i <= Len(statements) /\ UNCHANGED <<queued, statements, i, waited, elapsed>>
  BY DEF Begin
<1>2. LocksOK /\ Repair \in Actors /\ Target \in Relations
      /\ Holds(Repair) = {} /\ WaitsFor(Repair) = {}
  BY <1>1, RepairIsActor, TargetType DEF TypeOK, RepairInv, Waiting
<1>3. /\ LocksOK' /\ Undisturbed(Repair) /\ OthersKeep(Repair)
      /\ Granted(Repair, Target) \/ Enqueued(Repair, Target)
  BY <1>1, <1>2, RequestStep DEF Modes
<1>4. Target' = Target /\ SequencesOf(Target)' = SequencesOf(Target)
  BY <1>1 DEF Target, SequencesOf
<1>5. \A a \in Actors : Holds(a)' \cap WaitsFor(a)' = {}
  BY <1>2, <1>3 DEF OthersKeep, Granted, Enqueued, RepairInv
<1>6. Holds(Repair)' \cup WaitsFor(Repair)' \subseteq {Target}
  BY <1>2, <1>3 DEF Granted, Enqueued
<1>7. RepairInv'
  BY <1>1, <1>4, <1>5, <1>6 DEF RepairInv
<1> QED
  BY <1>1, <1>3, <1>7

\* The statement asks for the next lock, or has them all.
LEMMA AlterStep ==
    ASSUME TypeOK, RepairInv, Alter
    PROVE  \/ Fail
           \/ /\ LocksOK' /\ Undisturbed(Repair) /\ OthersKeep(Repair) /\ RepairInv'
              /\ UNCHANGED <<queued, statements, i, elapsed>> /\ waited' = 0
              /\ pc = "alter" /\ WaitsFor(Repair) = {}
              /\ \/ /\ pc' = "alter"
                    /\ \E r \in Relations \ Holds(Repair) :
                          Granted(Repair, r) \/ Enqueued(Repair, r)
                 \/ /\ pc' = "commit"
                    /\ Holds(Repair)' = Holds(Repair) /\ WaitsFor(Repair)' = {}
<1>1. pc = "alter" /\ WaitsFor(Repair) = {} /\ LocksOK /\ Repair \in Actors
  BY RepairIsActor DEF Alter, Waiting, TypeOK
<1>2. i <= Len(statements) /\ Holds(Repair) \subseteq {Target} \cup SequencesOf(Target)
  BY <1>1 DEF RepairInv
<1>3. CASE StillToLock # {} /\ \E r \in StillToLock : Request(Repair, r, "exclusive")
           /\ waited' = 0 /\ UNCHANGED <<pc, queued, statements, i, elapsed>>
  <2>1. PICK r \in StillToLock : Request(Repair, r, "exclusive")
    BY <1>3
  <2>2. r \in SequencesOf(Target) /\ r \in Relations \ Holds(Repair)
    BY RepairAssumption DEF StillToLock, SequencesOf, Relations
  <2>3. /\ LocksOK' /\ Undisturbed(Repair) /\ OthersKeep(Repair)
        /\ Granted(Repair, r) \/ Enqueued(Repair, r)
    BY <1>1, <2>1, <2>2, RequestStep DEF Modes
  <2>4. Target' = Target /\ SequencesOf(Target)' = SequencesOf(Target)
    BY <1>3 DEF Target, SequencesOf
  <2>5. \A a \in Actors : Holds(a)' \cap WaitsFor(a)' = {}
    BY <2>2, <2>3 DEF OthersKeep, Granted, Enqueued, RepairInv
  <2>6. Holds(Repair)' \cup WaitsFor(Repair)' \subseteq {Target} \cup SequencesOf(Target)
    BY <1>2, <2>2, <2>3 DEF Granted, Enqueued
  <2>7. RepairInv'
    BY <1>1, <1>2, <1>3, <2>4, <2>5, <2>6 DEF RepairInv
  <2> QED
    BY <1>1, <1>3, <2>2, <2>3, <2>7
<1>4. CASE pc' = "commit" /\ waited' = 0
           /\ UNCHANGED <<locks, queue, queued, statements, i, elapsed>>
  <2>1. /\ LocksOK' /\ Undisturbed(Repair) /\ OthersKeep(Repair)
        /\ \A a \in Actors : Holds(a)' = Holds(a) /\ WaitsFor(a)' = WaitsFor(a)
    BY <1>1, <1>4, SameLocks DEF OthersKeep
  <2>2. Target' = Target /\ SequencesOf(Target)' = SequencesOf(Target)
    BY <1>4 DEF Target, SequencesOf
  <2>3. RepairInv'
    BY <1>1, <1>2, <1>4, <2>1, <2>2 DEF RepairInv, Waiting
  <2> QED
    BY <1>1, <1>4, <2>1, <2>3
<1> QED
  BY <1>3, <1>4 DEF Alter

\* A failed step leaves the repair with nothing.
LEMMA FailRepairInv ==
    ASSUME TypeOK, RepairInv, Fail
    PROVE  RepairInv'
<1>1. LocksOK
  BY DEF TypeOK
<1>2. \A a \in Actors : Holds(a)' \cap WaitsFor(a)' = {}
  BY <1>1, FailStep DEF OthersKeep, RepairInv
<1> QED
  BY <1>1, <1>2, FailStep DEF RepairInv, Waiting

\* The part of TypeOK that is about neither locks nor time.
DataOK ==
    /\ owner \in [Roots -> {"user", "other", "gone"}]
    /\ recreated \in SUBSET Roots
    /\ order \in CatalogOrders
    /\ pc \in {"idle", "begin", "alter", "commit"}
    /\ queued \in BOOLEAN
    /\ statements \in Seq(Relations) /\ i \in 1..Len(statements) + 1
    /\ budget \in [transactions : 0..MaxTransactions, disruptions : 0..MaxDisruptions]

ClocksOK ==
    /\ waited \in 0..LockTimeout /\ elapsed \in 0..Deadline
    /\ delay \in [Sessions -> Nat]

LEMMA TypeParts == TypeOK <=> LocksOK /\ DataOK /\ ClocksOK
BY DEF TypeOK, DataOK, ClocksOK

\* The list holds relations.
LEMMA ListingsType ==
    ASSUME TypeOK
    PROVE  /\ Listings \subseteq Seq(Relations)
           /\ \A rows \in Listings, r \in Relations :
                 NeedsRepair(r) => \E k \in 1..Len(rows) : rows[k] = r
<1>1. Len(order) \in Nat
  BY RepairAssumption DEF TypeOK
<1> SUFFICES ASSUME NEW rows \in Listings
             PROVE  /\ rows \in Seq(Relations)
                    /\ \A r \in Relations :
                          NeedsRepair(r) => \E k \in 1..Len(rows) : rows[k] = r
  OBVIOUS
<1> DEFINE listed == {r \in Relations : NeedsRepair(r)}
<1>2. PICK n \in 0..Len(order) : rows \in [1..n -> listed]
  BY DEF Listings
<1>3. \A r \in listed : \E k \in DOMAIN rows : rows[k] = r
  BY DEF Listings
<1>4. n \in Nat /\ rows \in [1..n -> Relations] /\ DOMAIN rows = 1..n
  BY <1>1, <1>2
<1>5. rows \in Seq(Relations) /\ Len(rows) = n
  BY <1>4
<1> QED
  BY <1>3, <1>4, <1>5

Budgets == [transactions : 0..MaxTransactions, disruptions : 0..MaxDisruptions]

\* A call that fails.
Disrupted == budget.disruptions > 0 /\ budget' = [budget EXCEPT !.disruptions = @ - 1]

LEMMA BudgetSpent ==
    ASSUME TypeOK
    PROVE  /\ budget \in Budgets
           /\ Disrupted => budget' \in Budgets
           /\ SpendTransaction => budget' \in Budgets
<1>1. /\ budget \in Budgets /\ budget.disruptions \in 0..MaxDisruptions
      /\ budget.transactions \in 0..MaxTransactions
  BY DEF TypeOK, Budgets
<1>2. MaxTransactions \in Nat /\ MaxDisruptions \in Nat
  BY RepairAssumption
<1>3. ASSUME Disrupted PROVE budget' \in Budgets
  <2>1. budget.disruptions - 1 \in 0..MaxDisruptions
    BY <1>1, <1>2, <1>3 DEF Disrupted
  <2> QED
    BY <1>1, <1>3, <2>1 DEF Disrupted, Budgets
<1>4. ASSUME SpendTransaction PROVE budget' \in Budgets
  <2>1. budget.transactions - 1 \in 0..MaxTransactions
    BY <1>1, <1>2, <1>4 DEF SpendTransaction
  <2> QED
    BY <1>1, <1>4, <2>1 DEF SpendTransaction, Budgets
<1> QED
  BY <1>1, <1>3, <1>4

LEMMA DataFail ==
    ASSUME TypeOK, Fail, UNCHANGED catalog, UNCHANGED budget \/ Disrupted
    PROVE  DataOK'
<1>1. LocksOK /\ pc' = "idle" /\ queued' = TRUE /\ statements' = <<>> /\ i' = 1
  BY FailStep DEF TypeOK
<1>2. statements' \in Seq(Relations) /\ i' \in 1..Len(statements') + 1
  BY <1>1
<1>3. budget' \in Budgets
  BY BudgetSpent
<1> QED
  BY <1>1, <1>2, <1>3 DEF TypeOK, DataOK, catalog, Budgets

LEMMA DataStep ==
    ASSUME TypeOK, RepairInv, Next
    PROVE  DataOK'
<1>0. DataOK /\ LocksOK /\ statements \in Seq(Relations) /\ Len(statements) \in Nat
  BY DEF TypeOK, DataOK
<1>1. CASE List
  <2>1. statements' \in Seq(Relations) /\ Len(statements') \in Nat /\ i' = 1
    BY <1>1, ListingsType DEF List
  <2>2. pc' = "begin" /\ queued' = FALSE /\ recreated' = {} /\ UNCHANGED <<owner, order, budget>>
    BY <1>1 DEF List
  <2>3. i' \in 1..Len(statements') + 1
    BY <2>1
  <2>4. /\ owner' \in [Roots -> {"user", "other", "gone"}] /\ recreated' \in SUBSET Roots
        /\ order' \in CatalogOrders
        /\ budget' \in [transactions : 0..MaxTransactions, disruptions : 0..MaxDisruptions]
    BY <1>0, <2>2 DEF DataOK
  <2> QED
    BY <2>1, <2>2, <2>3, <2>4 DEF DataOK
<1>2. CASE Begin
  <2>1. UNCHANGED <<catalog, budget>>
    BY <1>2 DEF Begin
  <2>2. CASE pc' = "alter" /\ UNCHANGED <<queued, statements, i>>
    BY <1>0, <2>1, <2>2 DEF DataOK, catalog
  <2> QED
    BY <1>2, <2>1, <2>2, DataFail, BeginStep
<1>3. CASE Alter
  <2>1. UNCHANGED <<catalog, budget>>
    BY <1>3 DEF Alter
  <2>2. CASE pc' \in {"alter", "commit"} /\ UNCHANGED <<queued, statements, i>>
    BY <1>0, <2>1, <2>2 DEF DataOK, catalog
  <2> QED
    BY <1>3, <2>1, <2>2, DataFail, AlterStep
<1>4. CASE Commit
  <2>1. i \in 1..Len(statements) /\ Root(Target) \in Roots
    BY <1>4, TargetType DEF Commit, RepairInv, TypeOK
  <2>2. owner' \in [Roots -> {"user", "other", "gone"}] /\ UNCHANGED <<recreated, order>>
    BY <1>0, <1>4, <2>1 DEF Commit, DataOK
  <2>3. CASE pc' = "begin" /\ i' = i + 1 /\ UNCHANGED <<queued, statements, budget>>
    <3>1. i' \in 1..Len(statements') + 1
      BY <1>0, <2>1, <2>3
    <3> QED
      BY <1>0, <2>2, <2>3, <3>1 DEF DataOK
  <2>4. CASE Disrupted /\ StopRun
    <3>1. budget' \in Budgets
      BY <2>4, BudgetSpent
    <3>2. statements' = <<>> /\ i' = 1 /\ pc' = "idle" /\ queued' = TRUE
      BY <2>4 DEF StopRun, EndRun
    <3>3. statements' \in Seq(Relations) /\ i' \in 1..Len(statements') + 1
      BY <3>2
    <3> QED
      BY <1>0, <2>2, <3>1, <3>2, <3>3 DEF DataOK, Budgets
  <2> QED
    BY <1>4, <2>3, <2>4 DEF Commit, Disrupted
<1>5. CASE Done
  <2>1. /\ statements' = <<>> /\ i' = 1 /\ pc' = "idle"
        /\ UNCHANGED <<owner, recreated, order, queued, budget>>
    BY <1>5 DEF Done, EndRun, catalog
  <2>2. statements' \in Seq(Relations) /\ i' \in 1..Len(statements') + 1
    BY <2>1
  <2> QED
    BY <1>0, <2>1, <2>2 DEF DataOK
<1>6. CASE Expire \/ Break
  BY <1>6, DataFail DEF Expire, Break, Disrupted
<1>7. CASE \E r \in Relations : Grant(r)
  BY <1>0, <1>7 DEF Grant, catalog, run, clocks, DataOK
<1>8. CASE Tick
  BY <1>0, <1>8 DEF Tick, catalog, run, DataOK
<1>9. CASE Resync
  BY <1>0, <1>9 DEF Resync, catalog, DataOK
<1>10. CASE Create
  <2>1. budget' \in Budgets
    BY <1>10, BudgetSpent DEF Create
  <2>2. PICK r \in Roots, o \in {"user", "other"} :
            /\ owner' = [owner EXCEPT ![r] = o]
            /\ recreated' = recreated \cup {r}
    BY <1>10 DEF Create
  <2>3. owner' \in [Roots -> {"user", "other", "gone"}] /\ recreated' \in SUBSET Roots
    BY <1>0, <2>2 DEF DataOK
  <2> QED
    BY <1>0, <1>10, <2>1, <2>3 DEF Create, run, DataOK, Budgets
<1>11. ASSUME NEW s \in Sessions, Use(s) PROVE DataOK'
  <2>1. budget' \in Budgets
    BY <1>11, BudgetSpent DEF Use
  <2> QED
    BY <1>0, <1>11, <2>1 DEF Use, catalog, run, DataOK, Budgets
<1>12. ASSUME NEW s \in Sessions, CommitSession(s) PROVE DataOK'
  <2>1. owner' \in [Roots -> {"user", "other", "gone"}]
    BY <1>0, <1>12 DEF CommitSession, DataOK
  <2> QED
    BY <1>0, <1>12, <2>1 DEF CommitSession, run, DataOK
<1>13. ASSUME NEW s \in Sessions, AbortSession(s) PROVE DataOK'
  BY <1>0, <1>13 DEF AbortSession, catalog, run, DataOK
<1> QED
  BY <1>1, <1>2, <1>3, <1>4, <1>5, <1>6, <1>7, <1>8, <1>9, <1>10, <1>11, <1>12, <1>13
  DEF Next, TransferObjectOwnership, LockManager, Application

\* What a step of the repair's does to its locks.
LEMMA RepairStep ==
    ASSUME TypeOK, RepairInv, List \/ Begin \/ Alter \/ Commit \/ Done \/ Expire \/ Break
    PROVE  /\ LocksOK' /\ Undisturbed(Repair) /\ OthersKeep(Repair) /\ RepairInv'
           /\ waited' \in 0..LockTimeout /\ elapsed' \in 0..Deadline /\ UNCHANGED delay
<1>0. /\ LocksOK /\ Repair \in Actors /\ 0 \in 0..LockTimeout /\ 0 \in 0..Deadline
      /\ waited \in 0..LockTimeout /\ elapsed \in 0..Deadline
  BY RepairIsActor, RepairAssumption DEF TypeOK
<1>1. CASE Fail /\ UNCHANGED delay
  BY <1>0, <1>1, FailStep, FailRepairInv
<1>2. CASE List \/ Done
  <2>1. /\ UNCHANGED <<locks, queue, delay>> /\ pc \in {"idle", "begin"} /\ pc' \in {"idle", "begin"}
        /\ waited' \in {0, waited} /\ elapsed' \in {0, elapsed}
    BY <1>2 DEF List, Done, EndRun, clocks
  <2>2. /\ LocksOK' /\ Undisturbed(Repair) /\ OthersKeep(Repair)
        /\ \A a \in Actors : Holds(a)' = Holds(a) /\ WaitsFor(a)' = WaitsFor(a)
    BY <1>0, <2>1, SameLocks DEF OthersKeep
  <2>3. RepairInv'
    BY <1>0, <2>1, <2>2 DEF RepairInv, Waiting
  <2> QED
    BY <1>0, <2>1, <2>2, <2>3
<1>3. CASE Begin
  BY <1>0, <1>1, <1>3, BeginStep DEF Begin
<1>4. CASE Alter
  BY <1>0, <1>1, <1>4, AlterStep DEF Alter
<1>5. CASE Commit
  <2>1. /\ WaitsFor(Repair) = {} /\ waited = 0 /\ locks' = Released(Repair) /\ UNCHANGED <<queue, delay>>
        /\ pc' \in {"idle", "begin"} /\ waited' = 0 /\ elapsed' \in {0, elapsed}
    BY <1>5 DEF Commit, LocksAfterCommit, StopRun, EndRun, RepairInv, Waiting
  <2>2. /\ LocksOK' /\ Undisturbed(Repair) /\ OthersKeep(Repair)
        /\ Holds(Repair)' = {} /\ WaitsFor(Repair)' = {}
    BY <1>0, <2>1, CommitStep
  <2>3. RepairInv'
    BY <2>1, <2>2 DEF RepairInv, Waiting, OthersKeep
  <2> QED
    BY <1>0, <2>1, <2>2, <2>3
<1> QED
  BY <1>1, <1>2, <1>3, <1>4, <1>5 DEF Expire, Break

\* What the others' steps leave of the repair's invariant.
LEMMA OthersRepairInv ==
    ASSUME TypeOK, RepairInv, UNCHANGED run,
           Holds(Repair)' \cup WaitsFor(Repair)' = Holds(Repair) \cup WaitsFor(Repair),
           pc # "alter" => UNCHANGED waited,
           WaitsFor(Repair) = {} => WaitsFor(Repair)' = {},
           \A a \in Actors : Holds(a)' \cap WaitsFor(a)' = {}
    PROVE  RepairInv'
<1>1. UNCHANGED <<pc, i, statements>> /\ Target' = Target /\ SequencesOf(Target)' = SequencesOf(Target)
  BY DEF run, Target, SequencesOf
<1> QED
  BY <1>1 DEF RepairInv, Waiting

\* A step keeps the types and the repair's invariant.
LEMMA TypeStep ==
    ASSUME TypeOK, RepairInv, Next
    PROVE  TypeOK' /\ RepairInv'
<1>0. /\ LocksOK /\ Repair \in Actors /\ ClocksOK /\ pc \in {"idle", "begin", "alter", "commit"}
      /\ LockTimeout \in Nat /\ Deadline \in Nat
  BY RepairIsActor, RepairAssumption DEF TypeOK, ClocksOK
<1> SUFFICES LocksOK' /\ ClocksOK' /\ RepairInv'
  BY DataStep DEF TypeOK, DataOK, ClocksOK
<1>1. CASE List \/ Begin \/ Alter \/ Commit \/ Done \/ Expire \/ Break
  BY <1>0, <1>1, RepairStep DEF ClocksOK
<1>2. ASSUME NEW r \in Relations, Grant(r) PROVE LocksOK' /\ ClocksOK' /\ RepairInv'
  <2>0. PICK g : g = queue[r][1].who
    OBVIOUS
  <2>1. /\ g \in Actors /\ WaitsFor(g) = {r}
        /\ LocksOK' /\ OthersKeep(g) /\ Granted(g, r)
    BY <1>0, <1>2, <2>0, GrantStep
  <2>2. UNCHANGED run /\ UNCHANGED clocks
    BY <1>2 DEF Grant
  <2>3. Holds(Repair)' \cup WaitsFor(Repair)' = Holds(Repair) \cup WaitsFor(Repair)
    <3>1. CASE g = Repair
      BY <2>1, <3>1 DEF Granted
    <3>2. CASE g # Repair
      <4>1. Holds(Repair)' = Holds(Repair) /\ WaitsFor(Repair)' = WaitsFor(Repair)
        BY <1>0, <2>1, <3>2 DEF OthersKeep
      <4> QED
        BY <4>1
    <3> QED
      BY <3>1, <3>2
  <2>4. \A a \in Actors : Holds(a)' \cap WaitsFor(a)' = {}
    <3> SUFFICES ASSUME NEW a \in Actors PROVE Holds(a)' \cap WaitsFor(a)' = {}
      OBVIOUS
    <3>1. CASE a = g
      BY <2>1, <3>1 DEF Granted
    <3>2. CASE a # g
      <4>1. Holds(a)' = Holds(a) /\ WaitsFor(a)' = WaitsFor(a)
        BY <2>1, <3>2 DEF OthersKeep
      <4> QED
        BY <4>1 DEF RepairInv
    <3> QED
      BY <3>1, <3>2
  <2>5. WaitsFor(Repair) = {} => WaitsFor(Repair)' = {}
    BY <1>0, <2>1 DEF OthersKeep
  <2>6. RepairInv'
    BY <2>2, <2>3, <2>4, <2>5, OthersRepairInv DEF clocks
  <2> QED
    BY <1>0, <2>1, <2>2, <2>6 DEF ClocksOK, clocks
<1>3. CASE Tick
  <2>1. LocksOK' /\ \A a \in Actors : Holds(a)' = Holds(a) /\ WaitsFor(a)' = WaitsFor(a)
    BY <1>0, <1>3, SameLocks DEF Tick
  <2>2. waited' = waited \/ (WaitsFor(Repair) # {} /\ waited < LockTimeout /\ waited' = waited + 1)
    BY <1>0, <1>3 DEF Tick, LockTimeoutDue, Waiting, ClocksOK
  <2>3. elapsed' = elapsed \/ (elapsed < Deadline /\ elapsed' = elapsed + 1)
    BY <1>0, <1>3 DEF Tick, DeadlineDue, ClocksOK
  <2>4. delay' \in [Sessions -> Nat]
    BY <1>0, <1>3 DEF Tick, ClocksOK
  <2>5. RepairInv'
    BY <1>0, <1>3, <2>1, <2>2, OthersRepairInv DEF Tick, RepairInv, Waiting
  <2> QED
    BY <1>0, <2>1, <2>2, <2>3, <2>4, <2>5 DEF ClocksOK
<1>4. CASE Resync \/ Create
  <2>1. UNCHANGED <<locks, queue, pc, statements, i, clocks>>
    BY <1>4 DEF Resync, Create, run
  <2>2. LocksOK' /\ \A a \in Actors : Holds(a)' = Holds(a) /\ WaitsFor(a)' = WaitsFor(a)
    BY <1>0, <2>1, SameLocks
  <2>3. Target' = Target /\ SequencesOf(Target)' = SequencesOf(Target)
    BY <2>1 DEF Target, SequencesOf
  <2>4. RepairInv'
    BY <1>0, <2>1, <2>2, <2>3 DEF RepairInv, Waiting, clocks
  <2> QED
    BY <1>0, <2>1, <2>2, <2>4 DEF ClocksOK, clocks
<1>5. ASSUME NEW s \in Sessions, Use(s) \/ CommitSession(s) \/ AbortSession(s)
      PROVE  LocksOK' /\ ClocksOK' /\ RepairInv'
  <2>1. /\ LocksOK' /\ OthersKeep(s) /\ Holds(s)' \cap WaitsFor(s)' = {}
        /\ UNCHANGED <<run, waited, elapsed>> /\ delay' \in [Sessions -> Nat]
    BY <1>5, SessionStep
  <2>2. Holds(Repair)' = Holds(Repair) /\ WaitsFor(Repair)' = WaitsFor(Repair)
    BY <1>0, <2>1, RepairIsActor DEF OthersKeep
  <2>3. \A a \in Actors : Holds(a)' \cap WaitsFor(a)' = {}
    BY <2>1 DEF OthersKeep, RepairInv
  <2>4. RepairInv'
    BY <2>1, <2>2, <2>3, OthersRepairInv
  <2> QED
    BY <1>0, <2>1, <2>4 DEF ClocksOK
<1> QED
  BY <1>1, <1>2, <1>3, <1>4, <1>5 DEF Next, TransferObjectOwnership, LockManager, Application

LEMMA TypeInit == Init => TypeOK /\ RepairInv
<1> SUFFICES ASSUME Init PROVE TypeOK /\ RepairInv
  OBVIOUS
<1>1. /\ locks = [r \in Relations |-> [a \in Actors |-> "none"]]
      /\ queue = [r \in Relations |-> <<>>]
      /\ pc = "idle" /\ queued = TRUE /\ statements = <<>> /\ i = 1 /\ waited = 0 /\ elapsed = 0
  BY DEF Init
<1>2. LocksOK
  BY <1>1 DEF LocksOK, Modes, Conflict
<1>3. \A a \in Actors : Holds(a) = {} /\ WaitsFor(a) = {}
  BY <1>1 DEF Holds, WaitsFor
<1>4. DataOK
  <2>1. budget \in Budgets
    BY RepairAssumption DEF Init, Budgets
  <2>2. statements \in Seq(Relations) /\ i \in 1..Len(statements) + 1
    BY <1>1
  <2>3. /\ owner \in [Roots -> {"user", "other", "gone"}] /\ recreated \in SUBSET Roots
        /\ order \in CatalogOrders
    BY DEF Init
  <2> QED
    BY <1>1, <2>1, <2>2, <2>3 DEF DataOK, Budgets
<1>5. ClocksOK
  BY <1>1, RepairAssumption DEF Init, ClocksOK
<1> QED
  BY <1>1, <1>2, <1>3, <1>4, <1>5, TypeParts, RepairIsActor DEF RepairInv, Waiting

LEMMA Stutter ==
    ASSUME TypeOK, RepairInv, UNCHANGED vars
    PROVE  TypeOK' /\ RepairInv'
<1>1. LocksOK' /\ \A a \in Actors : Holds(a)' = Holds(a) /\ WaitsFor(a)' = WaitsFor(a)
  BY SameLocks DEF TypeOK, vars
<1>2. Target' = Target /\ SequencesOf(Target)' = SequencesOf(Target)
  BY DEF vars, run, Target, SequencesOf
<1>3. TypeOK'
  BY <1>1 DEF TypeOK, vars, catalog, run, clocks
<1>4. RepairInv'
  BY <1>1, <1>2, RepairIsActor DEF RepairInv, Waiting, vars, run, clocks
<1> QED
  BY <1>3, <1>4

\* The repair has and wants locks of one statement's relations only.
THEOREM RepairInvariant == Spec => [](TypeOK /\ RepairInv)
<1>1. TypeOK /\ RepairInv /\ [Next]_vars => TypeOK' /\ RepairInv'
  BY TypeStep, Stutter
<1> QED
  BY <1>1, TypeInit, PTL DEF Spec

\* Every variable keeps within its type, no two actors hold a relation in
\* modes that conflict, and nobody waits twice.
THEOREM TypeCorrect == Spec => []TypeOK
BY RepairInvariant, PTL

\* The repair never makes a session the victim of a deadlock, tables with
\* sequences of their own apart.
THEOREM NeverWaitsInCircle == Spec => []NoWaitCycle
<1>1. TypeOK /\ RepairInv => NoWaitCycle
  <2> SUFFICES ASSUME TypeOK, RepairInv, NEW s \in Sessions,
                      WaitsFor(Repair) \cap Holds(s) # {}, WaitsFor(s) \cap Holds(Repair) # {}
               PROVE  SequencesOf(Target) # {}
    BY DEF NoWaitCycle
  <2>1. pc = "alter"
    BY DEF RepairInv, Waiting
  <2>2. Holds(Repair) \cup WaitsFor(Repair) \subseteq {Target} \cup SequencesOf(Target)
    BY <2>1 DEF RepairInv
  <2>3. Holds(Repair) \cap WaitsFor(Repair) = {}
    BY RepairIsActor DEF RepairInv
  <2> QED
    BY <2>2, <2>3
<1> QED
  BY <1>1, RepairInvariant, PTL

-----------------------------------------------------------------------------
(* What is left to repair.                                                 *)

LEMMA ListStep ==
    ASSUME TypeOK, RepairInv, ListInv, Next
    PROVE  ListInv'
<1> SUFFICES ASSUME NEW r \in Roots, owner'[r] = "other", r \notin recreated', ~queued'
             PROVE  pc' # "idle" /\ \E k \in i'..Len(statements') : Root(statements'[k]) = r
  BY DEF ListInv, Root
<1>0. /\ LocksOK /\ r \in Relations /\ Root(r) = r /\ statements \in Seq(Relations)
      /\ owner \in [Roots -> {"user", "other", "gone"}] /\ i \in 1..Len(statements) + 1
  BY DEF TypeOK, Roots, Root
<1>1. CASE List
  <2>1. NeedsRepair(r)
    BY <1>0, <1>1 DEF List, NeedsRepair
  <2>2. \E k \in 1..Len(statements') : statements'[k] = r
    BY <1>0, <1>1, <2>1, ListingsType DEF List
  <2> QED
    BY <1>0, <1>1, <2>2 DEF List
<1>2. ASSUME UNCHANGED <<pc, queued, statements, i>>, owner'[r] = "other" => owner[r] = "other",
             r \in recreated => r \in recreated'
      PROVE  pc' # "idle" /\ \E k \in i'..Len(statements') : Root(statements'[k]) = r
  BY <1>2 DEF ListInv
<1>3. ASSUME Fail PROVE FALSE
  BY <1>0, <1>3, FailStep
<1>4. CASE Begin \/ Alter
  <2>1. UNCHANGED <<owner, recreated, queued, statements, i>> /\ pc # "idle" /\ pc' # "idle"
    BY <1>3, <1>4, BeginStep, AlterStep DEF Begin, Alter, catalog
  <2> QED
    BY <2>1 DEF ListInv
<1>5. CASE Commit
  <2>1. /\ pc' = "begin" /\ i' = i + 1 /\ UNCHANGED <<queued, statements, recreated>>
        /\ owner' = [owner EXCEPT ![Root(Target)] = "user"]
    BY <1>5 DEF Commit, StopRun
  <2>2. Root(Target) # r /\ owner[r] = "other"
    BY <1>0, <2>1
  <2>3. PICK k \in i..Len(statements) : Root(statements[k]) = r
    BY <2>1, <2>2 DEF ListInv
  <2>4. k \in i + 1..Len(statements)
    BY <1>0, <2>2, <2>3 DEF Target
  <2> QED
    BY <2>1, <2>3, <2>4
<1>6. CASE Done
  <2>1. UNCHANGED <<owner, recreated, queued>> /\ i > Len(statements)
    BY <1>6 DEF Done, catalog
  <2>2. i..Len(statements) = {}
    BY <1>0, <2>1
  <2> QED
    BY <2>1, <2>2 DEF ListInv
<1>7. CASE Expire \/ Break
  BY <1>3, <1>7 DEF Expire, Break
<1>8. CASE (\E x \in Relations : Grant(x)) \/ Tick
  BY <1>2, <1>8 DEF Grant, Tick, catalog, run
<1>9. CASE Resync
  BY <1>9 DEF Resync
<1>10. CASE Create
  <2>1. PICK x \in Roots, o \in {"user", "other"} :
            owner' = [owner EXCEPT ![x] = o] /\ recreated' = recreated \cup {x}
    BY <1>10 DEF Create
  <2> QED
    BY <1>0, <1>2, <1>10, <2>1 DEF Create, run
<1>11. CASE \E s \in Sessions : Use(s) \/ CommitSession(s) \/ AbortSession(s)
  <2>1. UNCHANGED <<pc, queued, statements, i, recreated>>
    BY <1>11 DEF Use, CommitSession, AbortSession, catalog, run
  <2>2. owner'[r] = "other" => owner[r] = "other"
    BY <1>0, <1>11 DEF Use, CommitSession, AbortSession, catalog
  <2> QED
    BY <1>2, <2>1, <2>2
<1> QED
  BY <1>1, <1>4, <1>5, <1>6, <1>7, <1>8, <1>9, <1>10, <1>11
  DEF Next, TransferObjectOwnership, LockManager, Application

\* When a repair has reported success and is not to run again, only what was
\* made after it had read the list can belong to somebody else.
THEOREM OwnedAtRest == Spec => []RestIsOwned
<1>1. Init => ListInv
  BY DEF Init, ListInv
<1>2. TypeOK /\ RepairInv /\ ListInv /\ [Next]_vars => ListInv'
  <2>1. ListInv /\ UNCHANGED vars => ListInv'
    BY DEF ListInv, vars, catalog, run
  <2> QED
    BY <2>1, ListStep
<1>3. ListInv => RestIsOwned
  BY DEF ListInv, RestIsOwned
<1> QED
  BY <1>1, <1>2, <1>3, RepairInvariant, PTL DEF Spec

-----------------------------------------------------------------------------
(* How long a session is held up.                                          *)

LEMMA Multiples ==
    ASSUME NEW x \in Nat, NEW m \in Nat, NEW n \in Nat
    PROVE  /\ x * m \in Nat /\ x * (n + 1) = x * n + x /\ x * (1 + n) = x * n + x
           /\ m <= n => x * m <= x * n
OBVIOUS

\* Sets of relations are finite.
LEMMA RelationsCount ==
    /\ LockTimeout \in Nat \ {0}
    /\ \A S \in SUBSET Relations : IsFiniteSet(S) /\ Cardinality(S) \in Nat
    /\ \A S \in SUBSET Relations : \A r \in Relations \ S :
          Cardinality(S \cup {r}) = Cardinality(S) + 1
    /\ \A T \in SUBSET Relations : \A S \in SUBSET T : Cardinality(S) <= Cardinality(T)
<1>1. LockTimeout \in Nat \ {0} /\ IsFiniteSet(Relations)
  BY RepairAssumption
<1>2. \A S \in SUBSET Relations : IsFiniteSet(S)
  BY <1>1, FS_Subset
<1>3. \A S \in SUBSET Relations : Cardinality(S) \in Nat
  BY <1>2, FS_CardinalityType
<1>4. \A S \in SUBSET Relations : \A r \in Relations \ S :
          Cardinality(S \cup {r}) = Cardinality(S) + 1
  BY <1>2, FS_AddElement
<1>5. \A T \in SUBSET Relations : \A S \in SUBSET T : Cardinality(S) <= Cardinality(T)
  BY <1>2, FS_Subset
<1> QED
  BY <1>1, <1>2, <1>3, <1>4, <1>5

\* The repair is in the way of those only who want what it has or wants.
LEMMA BlockedByRepair ==
    ASSUME TypeOK, RepairInv, NEW r \in Relations, NEW k \in DOMAIN queue[r],
           Repair \in Blockers(r, k)
    PROVE  /\ r \in Holds(Repair) \cup WaitsFor(Repair)
           /\ pc \in {"alter", "commit"}
           /\ r \in {Target} \cup SequencesOf(Target)
<1>1. LocksOK /\ pc \in {"idle", "begin", "alter", "commit"}
  BY DEF TypeOK
<1>2. r \in Holds(Repair) \cup WaitsFor(Repair)
  <2>1. DOMAIN queue[r] = 1..Len(queue[r]) /\ Len(queue[r]) \in Nat
    BY <1>1, QueueElements
  <2>2. CASE Conflict(locks[r][Repair], queue[r][k].mode)
    BY <2>2 DEF Conflict, Holds
  <2>3. CASE \E j \in 1..k - 1 : queue[r][j].who = Repair
    BY <2>1, <2>3 DEF WaitsFor
  <2> QED
    BY <2>2, <2>3 DEF Blockers
<1> QED
  BY <1>1, <1>2 DEF RepairInv, Waiting

LEMMA DelayInit == Init => DelayInv
BY DEF Init, DelayInv

\* A step at which nobody gets before a session that waits, and the repair,
\* if it stays in the way, has its allowance at least.
LEMMA DelayKeeps ==
    ASSUME TypeOK, DelayInv, NEW a \in Actors, Undisturbed(a),
           \A s \in Sessions \ {a} : delay'[s] = delay[s],
           a \in Sessions => delay'[a] = 0 \/ WaitsFor(a)' = {},
           a = Repair \/ a \in Sessions,
           \/ OutOfTheWay(Repair)
           \/ \A r \in Relations : \A k \in DOMAIN queue[r] : Repair \notin Blockers(r, k)
           \/ Allowance <= Allowance',
           Allowance \in Int, Allowance' \in Int
    PROVE  DelayInv'
<1> SUFFICES ASSUME NEW s \in Sessions, NEW r \in Relations, NEW k \in DOMAIN queue'[r],
                    queue'[r][k].who = s, delay'[s] > 0
             PROVE  /\ delay'[s] <= LongestWait(r)
                    /\ Blockers(r, k)' \subseteq {Repair}
                    /\ Repair \in Blockers(r, k)' => delay'[s] <= Allowance'
  BY DEF DelayInv, LongestWait, SequencesOf, Root
<1>1. s \in Actors /\ delay[s] \in Nat
  BY RepairIsActor DEF TypeOK
<1>2. s # a
  BY DEF WaitsFor
<1>3. delay'[s] = delay[s]
  BY <1>2
<1>4. PICK j \in DOMAIN queue[r] : queue[r][j].who = s /\ Blockers(r, k)' \subseteq Blockers(r, j)
  BY <1>1, <1>2 DEF Undisturbed
<1>5. /\ delay[s] <= LongestWait(r) /\ Blockers(r, j) \subseteq {Repair}
      /\ Repair \in Blockers(r, j) => delay[s] <= Allowance
  BY <1>3, <1>4 DEF DelayInv
<1>6. ASSUME Repair \in Blockers(r, k)' PROVE delay'[s] <= Allowance'
  <2>1. Repair \in Blockers(r, j) /\ ~OutOfTheWay(Repair)
    BY <1>4, <1>6 DEF OutOfTheWay
  <2>2. Allowance <= Allowance'
    BY <2>1
  <2> QED
    BY <1>1, <1>3, <1>5, <2>1, <2>2
<1> QED
  BY <1>3, <1>4, <1>5, <1>6

\* The allowance, by whether the repair has just got a lock.
LEMMA AllowanceValue ==
    ASSUME TypeOK
    PROVE  LET n == LockTimeout * Cardinality(Holds(Repair))
           IN  /\ Allowance = IF pc = "alter" /\ WaitsFor(Repair) = {}
                              THEN waited + n - LockTimeout
                              ELSE waited + n
               /\ n \in Nat /\ Allowance \in Int
<1>1. Holds(Repair) \in SUBSET Relations
  BY DEF Holds
<1>2. Cardinality(Holds(Repair)) \in Nat /\ LockTimeout \in Nat
  BY <1>1, RelationsCount
<1>3. LockTimeout * Cardinality(Holds(Repair)) \in Nat
  BY <1>2, Multiples
<1> QED
  BY <1>2, <1>3 DEF Allowance, Waiting, TypeOK

\* Somebody else's step leaves the allowance as it is.
LEMMA SameAllowance ==
    ASSUME UNCHANGED <<pc, waited>>, Holds(Repair)' = Holds(Repair),
           WaitsFor(Repair)' = WaitsFor(Repair)
    PROVE  Allowance' = Allowance
BY DEF Allowance, Waiting

\* The repair gets the lock it has waited for.
LEMMA GrantAllowance ==
    ASSUME TypeOK, TypeOK', RepairInv, NEW r \in Relations, WaitsFor(Repair) = {r},
           Granted(Repair, r), UNCHANGED <<pc, waited>>
    PROVE  Allowance' = Allowance
<1>1. pc = "alter" /\ r \notin Holds(Repair)
  BY RepairIsActor DEF RepairInv, Waiting
<1> DEFINE c == Cardinality(Holds(Repair))
<1>2. c \in Nat /\ Cardinality(Holds(Repair)') = c + 1 /\ LockTimeout \in Nat
  <2>1. Holds(Repair) \in SUBSET Relations
    BY DEF Holds
  <2> QED
    BY <1>1, <2>1, RelationsCount DEF Granted
<1>3. Allowance = waited + LockTimeout * c
  BY <1>1, AllowanceValue
<1>4. Allowance' = waited + LockTimeout * (c + 1) - LockTimeout
  <2>1. WaitsFor(Repair)' = {} /\ pc' = "alter" /\ waited' = waited
    BY <1>1 DEF Granted
  <2>2. Allowance' = waited' + LockTimeout * Cardinality(Holds(Repair)') - LockTimeout
    BY <2>1 DEF Allowance, Waiting
  <2> QED
    BY <1>2, <2>1, <2>2
<1> HIDE DEF c
<1>5. LockTimeout * (c + 1) = LockTimeout * c + LockTimeout /\ LockTimeout * c \in Nat
  BY <1>2, Multiples
<1> QED
  BY <1>2, <1>3, <1>4, <1>5 DEF TypeOK

\* Asking for the next lock, or changing the owner, uses the wait for the
\* last one up.
LEMMA AlterAllowance ==
    ASSUME TypeOK, RepairInv, Alter, ~Fail
    PROVE  Allowance <= Allowance' /\ Allowance \in Int /\ Allowance' \in Int
<1> DEFINE c == Cardinality(Holds(Repair))
<1>1. /\ pc = "alter" /\ WaitsFor(Repair) = {} /\ waited' = 0
      /\ \/ /\ pc' = "alter"
            /\ \E r \in Relations \ Holds(Repair) : Granted(Repair, r) \/ Enqueued(Repair, r)
         \/ pc' = "commit" /\ Holds(Repair)' = Holds(Repair) /\ WaitsFor(Repair)' = {}
  BY AlterStep
<1>2. c \in Nat /\ LockTimeout \in Nat /\ waited \in 0..LockTimeout
  <2>1. Holds(Repair) \in SUBSET Relations
    BY DEF Holds
  <2> QED
    BY <2>1, RelationsCount DEF TypeOK
<1>3. Allowance = waited + LockTimeout * c - LockTimeout
  BY <1>1, AllowanceValue
<1>4. LockTimeout * (c + 1) = LockTimeout * c + LockTimeout /\ LockTimeout * c \in Nat
  BY <1>2, Multiples
<1>5. Allowance' = LockTimeout * c
  <2>1. CASE pc' = "alter" /\ \E r \in Relations \ Holds(Repair) : Granted(Repair, r)
    <3>1. PICK r \in Relations \ Holds(Repair) : Granted(Repair, r)
      BY <2>1
    <3>2. Cardinality(Holds(Repair)') = c + 1
      <4>1. Holds(Repair) \in SUBSET Relations
        BY DEF Holds
      <4> QED
        BY <3>1, <4>1, RelationsCount DEF Granted
    <3>3. WaitsFor(Repair)' = {}
      BY <3>1 DEF Granted
    <3>4. Allowance' = 0 + LockTimeout * Cardinality(Holds(Repair)') - LockTimeout
      BY <1>1, <2>1, <3>3 DEF Allowance, Waiting
    <3> HIDE DEF c
    <3> QED
      BY <1>2, <1>4, <3>2, <3>4
  <2>2. CASE pc' = "alter" /\ \E r \in Relations \ Holds(Repair) : Enqueued(Repair, r)
    <3>1. Holds(Repair)' = Holds(Repair) /\ WaitsFor(Repair)' # {}
      BY <2>2 DEF Enqueued
    <3>2. Allowance' = 0 + LockTimeout * Cardinality(Holds(Repair)') - 0
      BY <1>1, <2>2, <3>1 DEF Allowance, Waiting
    <3> QED
      BY <1>2, <1>4, <3>1, <3>2
  <2>3. CASE pc' = "commit" /\ Holds(Repair)' = Holds(Repair)
    <3>1. Allowance' = 0 + LockTimeout * Cardinality(Holds(Repair)') - 0
      BY <1>1, <2>3 DEF Allowance
    <3> QED
      BY <1>2, <1>4, <2>3, <3>1
  <2> QED
    BY <1>1, <2>1, <2>2, <2>3
<1> HIDE DEF c
<1> QED
  BY <1>2, <1>3, <1>4, <1>5

\* A tick counts against the allowance, which grows with it.
LEMMA TickDelay ==
    ASSUME TypeOK, RepairInv, DelayInv, Tick
    PROVE  DelayInv'
<1> SUFFICES ASSUME NEW s \in Sessions, NEW r \in Relations, NEW k \in DOMAIN queue'[r],
                    queue'[r][k].who = s, delay'[s] > 0
             PROVE  /\ delay'[s] <= LongestWait(r)
                    /\ Blockers(r, k)' \subseteq {Repair}
                    /\ Repair \in Blockers(r, k)' => delay'[s] <= Allowance'
  BY DEF DelayInv, LongestWait, SequencesOf, Root
<1>1. /\ UNCHANGED <<locks, queue, pc>> /\ Blockers(r, k)' = Blockers(r, k)
      /\ Holds(Repair)' = Holds(Repair) /\ WaitsFor(Repair)' = WaitsFor(Repair)
  BY DEF Tick, run, Blockers, Holds, WaitsFor
<1>2. HeldUp(s) /\ delay'[s] = delay[s] + 1 /\ delay[s] \in Nat
  BY DEF Tick, TypeOK
<1>3. PICK x \in WaitsFor(s) : \E j \in DOMAIN queue[x] :
          queue[x][j].who = s /\ Blockers(x, j) = {Repair}
  BY <1>2 DEF HeldUp
<1>3a. PICK j \in DOMAIN queue[x] : queue[x][j].who = s /\ Blockers(x, j) = {Repair}
  BY <1>3
<1>4. x = r /\ j = k
  BY <1>1, <1>3a DEF TypeOK, LocksOK, WaitsFor
<1>5. Blockers(r, k) = {Repair} /\ k \in DOMAIN queue[r]
  BY <1>1, <1>3a, <1>4
<1>6. /\ pc \in {"alter", "commit"} /\ r \in {Target} \cup SequencesOf(Target)
      /\ Target \in Relations
  <2>1. pc \in {"alter", "commit"} /\ r \in {Target} \cup SequencesOf(Target)
    BY <1>5, BlockedByRepair
  <2> QED
    BY <2>1, TargetType DEF RepairInv
<1>7. WaitsFor(Repair) # {} /\ pc = "alter" /\ waited' = waited + 1 /\ waited < LockTimeout
  <2>1. pc = "alter" /\ WaitsFor(Repair) # {} /\ waited' = waited + 1 /\ ~(waited >= LockTimeout)
    BY <1>6 DEF Tick, LockTimeoutDue, Waiting, RepairInv
  <2>2. waited \in 0..LockTimeout /\ LockTimeout \in Nat
    BY RelationsCount DEF TypeOK
  <2> QED
    BY <2>1, <2>2
<1> DEFINE c == Cardinality(Holds(Repair))
           n == Cardinality(SequencesOf(Root(r)))
<1>8. /\ c \in Nat /\ LockTimeout \in Nat /\ LockTimeout * c \in Nat /\ waited \in Nat
      /\ Allowance = waited + LockTimeout * c
  <2>1. Holds(Repair) \in SUBSET Relations
    BY DEF Holds
  <2>2. c \in Nat /\ LockTimeout \in Nat /\ waited \in Nat
    BY <2>1, RelationsCount DEF TypeOK
  <2> QED
    BY <1>7, <2>2, AllowanceValue, Multiples
<1>9. Allowance' = Allowance + 1
  BY <1>1, <1>7, <1>8 DEF Allowance, Waiting
<1>10. delay[s] = 0 \/ delay[s] <= Allowance
  BY <1>2, <1>3a, <1>4, <1>5 DEF DelayInv
<1>11. delay'[s] <= Allowance'
  BY <1>2, <1>8, <1>9, <1>10
<1>12. n \in Nat /\ c <= n
  <2>1. SequencesOf(Target) \in SUBSET Relations /\ SequencesOf(Root(r)) \in SUBSET Relations
    BY RepairAssumption DEF SequencesOf, Relations
  <2>2. SequencesOf(Target) \subseteq SequencesOf(Root(r))
    BY <1>6, RepairAssumption DEF SequencesOf, Root, Relations
  <2>3. PICK q \in WaitsFor(Repair) : TRUE
    BY <1>7
  <2>4. /\ q \in Relations \ Holds(Repair) /\ Holds(Repair) \in SUBSET Relations
        /\ Holds(Repair) \cup {q} \subseteq {Target} \cup SequencesOf(Target)
    BY <1>7, <2>3, RepairIsActor DEF RepairInv, WaitsFor, Holds
  <2>5. Cardinality(Holds(Repair) \cup {q}) = c + 1
    BY <2>4, RelationsCount
  <2>6. Target \notin SequencesOf(Target)
    BY RepairAssumption DEF SequencesOf
  <2>7. Cardinality(SequencesOf(Target) \cup {Target}) = Cardinality(SequencesOf(Target)) + 1
    BY <1>6, <2>1, <2>6, RelationsCount
  <2>8. Cardinality(Holds(Repair) \cup {q}) <= Cardinality(SequencesOf(Target) \cup {Target})
    <3>1. /\ SequencesOf(Target) \cup {Target} \in SUBSET Relations
          /\ Holds(Repair) \cup {q} \in SUBSET (SequencesOf(Target) \cup {Target})
      BY <1>6, <2>1, <2>4
    <3> QED
      BY <3>1, RelationsCount
  <2>9. /\ Cardinality(SequencesOf(Target)) \in Nat /\ n \in Nat
        /\ Cardinality(SequencesOf(Target)) <= n
    BY <2>1, <2>2, RelationsCount
  <2> QED
    BY <1>8, <2>5, <2>7, <2>8, <2>9
<1>13. delay'[s] <= LongestWait(r)
  <2>1. LockTimeout * c <= LockTimeout * n /\ LockTimeout * (1 + n) = LockTimeout * n + LockTimeout
        /\ LockTimeout * n \in Nat
    BY <1>8, <1>12, Multiples
  <2>2. LongestWait(r) = LockTimeout * (1 + n)
    BY DEF LongestWait
  <2> HIDE DEF c, n
  <2> QED
    BY <1>2, <1>7, <1>8, <1>9, <1>11, <2>1, <2>2
<1> QED
  BY <1>1, <1>5, <1>11, <1>13

\* Every step keeps the invariant of the delays.
LEMMA DelayStep ==
    ASSUME TypeOK, TypeOK', RepairInv, RepairInv', DelayInv, Next
    PROVE  DelayInv'
<1>0. LocksOK /\ Repair \in Actors /\ Allowance \in Int /\ Allowance' \in Int
  <2>1. LocksOK /\ Repair \in Actors /\ Allowance \in Int
    BY RepairIsActor, AllowanceValue DEF TypeOK
  <2>2. waited' \in Nat /\ Holds(Repair)' \in SUBSET Relations
    BY RelationsCount DEF TypeOK, Holds
  <2>3. LockTimeout * Cardinality(Holds(Repair)') \in Nat /\ LockTimeout \in Nat
    BY <2>2, RelationsCount, Multiples
  <2>4. Allowance' \in Int
    BY <2>2, <2>3 DEF Allowance
  <2> QED
    BY <2>1, <2>4
<1>1. CASE Tick
  BY <1>1, TickDelay
<1>2. CASE Fail /\ UNCHANGED delay
  BY <1>0, <1>2, FailStep, DelayKeeps, RepairIsActor
<1>3. CASE List \/ Begin \/ Done
  <2>1. Undisturbed(Repair) /\ UNCHANGED delay
    BY <1>3, RepairStep
  <2>2. \A r \in Relations : \A k \in DOMAIN queue[r] : Repair \notin Blockers(r, k)
    BY <1>3, BlockedByRepair DEF List, Begin, Done
  <2> QED
    BY <1>0, <2>1, <2>2, DelayKeeps, RepairIsActor
<1>4. CASE Alter /\ ~Fail
  BY <1>0, <1>4, RepairStep, AlterAllowance, DelayKeeps, RepairIsActor
<1>5. CASE Commit
  <2>1. /\ WaitsFor(Repair) = {} /\ locks' = Released(Repair) /\ UNCHANGED <<queue, delay>>
    BY <1>5 DEF Commit, LocksAfterCommit, RepairInv, Waiting
  <2> QED
    BY <1>0, <2>1, CommitStep, DelayKeeps, RepairIsActor
<1>6. ASSUME NEW r \in Relations, Grant(r) PROVE DelayInv'
  <2>0. PICK g : g = queue[r][1].who
    OBVIOUS
  <2>1. /\ g \in Actors /\ WaitsFor(g) = {r}
        /\ Undisturbed(g) /\ OthersKeep(g) /\ Granted(g, r)
    BY <1>0, <1>6, <2>0, GrantStep
  <2>2. UNCHANGED <<pc, waited, delay>>
    BY <1>6 DEF Grant, run, clocks
  <2>3. Allowance' = Allowance
    <3>1. CASE g = Repair
      BY <2>1, <2>2, <3>1, GrantAllowance
    <3>2. CASE g # Repair
      BY <1>0, <2>1, <2>2, <3>2, SameAllowance DEF OthersKeep
    <3> QED
      BY <3>1, <3>2
  <2>4. WaitsFor(g)' = {} /\ (g = Repair \/ g \in Sessions)
    BY <2>1 DEF Granted, Actors
  <2> QED
    BY <1>0, <2>1, <2>2, <2>3, <2>4, DelayKeeps
<1>7. CASE Resync \/ Create
  <2>1. UNCHANGED <<locks, queue, pc, waited, delay>>
    BY <1>7 DEF Resync, Create, run, clocks
  <2>2. /\ Undisturbed(Repair) /\ Holds(Repair)' = Holds(Repair)
        /\ WaitsFor(Repair)' = WaitsFor(Repair)
    BY <1>0, <2>1, SameLocks
  <2>3. Allowance' = Allowance
    BY <2>1, <2>2, SameAllowance
  <2> QED
    BY <1>0, <2>1, <2>2, <2>3, DelayKeeps, RepairIsActor
<1>8. ASSUME NEW s \in Sessions, Use(s) \/ CommitSession(s) \/ AbortSession(s)
      PROVE  DelayInv'
  <2>1. /\ Undisturbed(s) /\ OthersKeep(s) /\ UNCHANGED <<run, waited>>
        /\ \A x \in Sessions \ {s} : delay'[x] = delay[x]
        /\ delay'[s] = 0 \/ WaitsFor(s)' = {}
    BY <1>8, SessionStep
  <2>2. Holds(Repair)' = Holds(Repair) /\ WaitsFor(Repair)' = WaitsFor(Repair) /\ s \in Actors
    BY <1>0, <2>1, RepairIsActor DEF OthersKeep
  <2>3. Allowance' = Allowance
    BY <2>1, <2>2, SameAllowance DEF run
  <2> QED
    BY <1>0, <2>1, <2>2, <2>3, DelayKeeps
<1>9. CASE Alter \/ Expire \/ Break
  BY <1>2, <1>4, <1>9 DEF Alter, Expire, Break
<1> QED
  BY <1>1, <1>3, <1>5, <1>6, <1>7, <1>8, <1>9
  DEF Next, TransferObjectOwnership, LockManager, Application

LEMMA DelayStutter ==
    ASSUME DelayInv, UNCHANGED vars
    PROVE  DelayInv'
<1>1. UNCHANGED <<locks, queue, pc, waited, delay>>
  BY DEF vars, run, clocks
<1>2. \A r, k : Blockers(r, k)' = Blockers(r, k)
  BY <1>1 DEF Blockers
<1>3. Allowance' = Allowance
  BY <1>1 DEF Allowance, Waiting, WaitsFor, Holds
<1>4. \A r : LongestWait(r)' = LongestWait(r)
  BY DEF LongestWait, SequencesOf, Root
<1> QED
  BY <1>1, <1>2, <1>3, <1>4 DEF DelayInv

\* No session that only the repair stands in the way of is kept for longer
\* than the lock timeouts of one statement.
THEOREM HeldUpBriefly == Spec => []BriefBlocking
<1>1. TypeOK /\ RepairInv /\ DelayInv /\ [Next]_vars => DelayInv'
  BY TypeStep, DelayStep, DelayStutter
<1>2. TypeOK /\ DelayInv => BriefBlocking
  <2> SUFFICES ASSUME TypeOK, DelayInv, NEW s \in Sessions, NEW r \in WaitsFor(s)
               PROVE  delay[s] <= LongestWait(r)
    BY DEF BriefBlocking
  <2>1. r \in Relations /\ \E k \in DOMAIN queue[r] : queue[r][k].who = s
    BY DEF WaitsFor
  <2>2. delay[s] \in Nat /\ LockTimeout \in Nat
    BY RelationsCount DEF TypeOK
  <2>3. LongestWait(r) \in Nat
    <3>1. SequencesOf(Root(r)) \in SUBSET Relations
      BY RepairAssumption DEF SequencesOf, Relations
    <3>2. 1 + Cardinality(SequencesOf(Root(r))) \in Nat
      BY <3>1, RelationsCount
    <3> QED
      BY <2>2, <3>2, Multiples DEF LongestWait
  <2>4. CASE delay[s] > 0
    BY <2>1, <2>4 DEF DelayInv
  <2> QED
    BY <2>2, <2>3, <2>4
<1> QED
  BY <1>1, <1>2, DelayInit, RepairInvariant, PTL DEF Spec

=============================================================================
