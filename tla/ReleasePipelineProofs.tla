------------------------ MODULE ReleasePipelineProofs ------------------------
(* Theorems about the publication of versions. *)
EXTENDS ReleasePipeline, TLAPS

(***************************************************************************)
(* Runs and queues.                                                        *)
(***************************************************************************)

\* A run that is made waits, for the job, version and commit it is given.
LEMMA QueuedRun ==
    ASSUME NEW job \in Jobs, NEW v \in Versions, NEW c \in Commits \cup {NoCommit}
    PROVE  /\ Queued(job, v, c) \in Runs
           /\ Queued(job, v, c).job = job
           /\ Queued(job, v, c).state = "queued"
           /\ Queued(job, v, c).version = v
           /\ Queued(job, v, c).commit = c
    <1>1. NoCharts \in Charts
        BY ReleaseAssumption DEF NoCharts, Charts
    <1>2. QED
        BY <1>1 DEF Queued, Runs, States

\* The type of the variables, without the rule that one run waits.
Types ==
    /\ tags \in [Versions -> Commits \cup {NoCommit}]
    /\ images \in Charts /\ releases \in Charts /\ charts \in Charts
    /\ run \in [Ids -> Runs]
    /\ count \in 1..MaxRuns
    /\ withdrawn \subseteq Versions
    /\ budget \in 0..MaxDisruptions

LEMMA TypeOKIs == TypeOK <=> Types /\ OneWaits
    BY DEF TypeOK, Types

\* The run r, or what becomes of it when it waits and is cancelled.
Kept(r, new) ==
    /\ new.job = r.job /\ new.version = r.version
    /\ new.commit = r.commit /\ new.site = r.site
    /\ \/ new.state = r.state
       \/ r.state = "queued" /\ new.state = "cancelled"

\* The end of a run changes no run but for cancelling one of the other
\* workflow that waits.
LEMMA NotifiedRuns ==
    ASSUME NEW rs \in [Ids -> Runs], NEW job
    PROVE  /\ Notified(rs, job) \in [Ids -> Runs]
           /\ \A i \in Ids :
                 /\ Kept(rs[i], Notified(rs, job)[i])
                 /\ WorkflowOf(rs[i].job) = WorkflowOf(job) => Notified(rs, job)[i] = rs[i]
    <1>1. \A i \in Ids : /\ [rs[i] EXCEPT !.state = "cancelled"] \in Runs
                         /\ rs[i].state = "queued" => Kept(rs[i], [rs[i] EXCEPT !.state = "cancelled"])
                         /\ Kept(rs[i], rs[i])
        BY DEF Runs, States, Kept
    <1>2. CASE WorkflowOf(job) = "release"
        <2>1. Group(Idle) = <<"pages">>
            BY DEF Idle, Queued, Group, WorkflowOf
        <2>2. \A i \in Ids : Displaced(rs[i], Idle) =>
                 rs[i].state = "queued" /\ WorkflowOf(rs[i].job) # "release"
            BY <2>1 DEF Displaced, Group
        <2>3. Notified(rs, job) = WithIdle(rs)
            BY <1>2 DEF Notified
        <2>4. QED
            BY <1>1, <1>2, <2>2, <2>3 DEF WithIdle
    <1>3. CASE WorkflowOf(job) # "release"
        BY <1>1, <1>3 DEF Notified
    <1>4. QED
        BY <1>2, <1>3

\* Queueing adds one run and changes no other but for cancelling it.
LEMMA EnqueueRun ==
    ASSUME Types, NEW rs \in [Ids -> Runs], NEW new \in Runs, new.state = "queued",
           Enqueue(rs, new)
    PROVE  /\ run' \in [Ids -> Runs]
           /\ count' = count + 1 /\ count' \in Ids /\ count' \in 1..MaxRuns
           /\ run'[count'] = new
           /\ \A i \in Ids \ {count'} :
                 /\ run'[i].job = rs[i].job /\ run'[i].version = rs[i].version
                 /\ run'[i].commit = rs[i].commit /\ run'[i].site = rs[i].site
                 /\ \/ run'[i].state = rs[i].state
                    \/ rs[i].state = "queued" /\ run'[i].state = "cancelled"
                 /\ Group(rs[i]) = Group(new) => run'[i].state # "queued"
    <1> DEFINE q == Queueing(rs, new)
    <1>1. count \in 1..MaxRuns /\ MaxRuns \in Nat
        BY ReleaseAssumption DEF Types
    <1>2. count < MaxRuns /\ count' = count + 1 /\ count' \in Ids
        BY <1>1 DEF Enqueue, Ids
    <1>3. q = [i \in Ids |->
                    IF i = count' THEN new
                    ELSE IF Displaced(rs[i], new) THEN [rs[i] EXCEPT !.state = "cancelled"]
                    ELSE rs[i]]
        BY <1>2 DEF Queueing
    <1> HIDE DEF q
    <1>4. \A i \in Ids : [rs[i] EXCEPT !.state = "cancelled"] \in Runs
        BY DEF Runs, States
    <1>5. q \in [Ids -> Runs] /\ q[count'] = new
        BY <1>2, <1>3, <1>4
    <1>6. ASSUME NEW i \in Ids \ {count'}
          PROVE  Kept(rs[i], q[i]) /\ (Group(rs[i]) = Group(new) => q[i].state # "queued")
        <2>1. CASE Displaced(rs[i], new)
            <3>1. q[i] = [rs[i] EXCEPT !.state = "cancelled"]
                BY <1>3, <2>1
            <3>2. QED
                BY <3>1, <2>1 DEF Displaced, Runs, Kept
        <2>2. CASE ~Displaced(rs[i], new)
            BY <1>3, <2>2 DEF Displaced, Kept
        <2>3. QED
            BY <2>1, <2>2
    <1>7. run' = q \/ run' = Notified(q, new.job)
        BY DEF Enqueue, q
    <1>8. /\ run' \in [Ids -> Runs] /\ run'[count'] = new
          /\ \A i \in Ids : Kept(q[i], run'[i])
        BY <1>2, <1>5, <1>7, NotifiedRuns DEF Kept
    <1>9. ASSUME NEW i \in Ids \ {count'}
          PROVE  Kept(rs[i], run'[i]) /\ (Group(rs[i]) = Group(new) => run'[i].state # "queued")
        BY <1>6, <1>8 DEF Kept
    <1>10. QED
        BY <1>1, <1>2, <1>8, <1>9 DEF Ids, Kept

(***************************************************************************)
(* What an action does to the runs: the one it is about, and the others.   *)
(***************************************************************************)

\* Run i goes to a state, and a job, of its own workflow; a run that waits may
\* be cancelled.
Moves(i, job, state, site) ==
    /\ run' \in [Ids -> Runs]
    /\ \A j \in Ids \ {i} : Kept(run[j], run'[j])
    /\ run'[i].job = job /\ run'[i].state = state /\ run'[i].site = site
    /\ run'[i].version = run[i].version /\ run'[i].commit = run[i].commit

LEMMA StartMoves ==
    ASSUME Types, NEW i \in Ids, Start(i)
    PROVE  Moves(i, run[i].job, FirstState(run[i].job), run[i].site)
    BY DEF Types, Start, Moves, Kept, FirstState, Runs, States

LEMMA CheckMoves ==
    ASSUME Types, NEW i \in Ids, Check(i)
    PROVE  \/ /\ run[i].job = "version"
              /\ Moves(i, "image", "check", run[i].site)
           \/ /\ run[i].job = "handoff"
              /\ Moves(i, "pages", "read", run[i].site)
           \/ /\ run[i].job \in {"image", "release", "pages"}
              /\ Moves(i, run[i].job, "publish", run[i].site)
    <1>1. run[i] \in Runs
        BY DEF Types
    <1>2. CASE run[i].job = "version"
        BY <1>1, <1>2 DEF Types, Check, Moves, Kept, FirstState, NextJob, Runs, States, Jobs
    <1>3. CASE run[i].job = "handoff"
        BY <1>1, <1>3 DEF Types, Check, Moves, Kept, FirstState, NextJob, Runs, States, Jobs
    <1>4. CASE run[i].job \in {"image", "release", "pages"}
        BY <1>1, <1>4 DEF Types, Check, Moves, Kept, Runs, States, Jobs
    <1>5. QED
        BY <1>1, <1>2, <1>3, <1>4 DEF Runs, Jobs

LEMMA EndedMoves ==
    ASSUME Types, NEW i \in Ids, NEW state \in States, run' = Ended(i, state)
    PROVE  Moves(i, run[i].job, state, NoCharts)
    <1>1. NoCharts \in Charts
        BY ReleaseAssumption DEF NoCharts, Charts
    <1>2. QED
        BY <1>1 DEF Types, Ended, Moves, Kept, Runs

LEMMA FailedMoves ==
    ASSUME Types, NEW i \in Ids, run' = Failed(i)
    PROVE  Moves(i, run[i].job, "failed", NoCharts)
    <1> DEFINE ended == Ended(i, "failed")
    <1>1. NoCharts \in Charts /\ "failed" \in States
        BY ReleaseAssumption DEF NoCharts, Charts, States
    <1>2. /\ ended \in [Ids -> Runs]
          /\ \A j \in Ids \ {i} : ended[j] = run[j]
          /\ ended[i].job = run[i].job /\ ended[i].state = "failed" /\ ended[i].site = NoCharts
          /\ ended[i].version = run[i].version /\ ended[i].commit = run[i].commit
        BY <1>1 DEF Types, Ended, Runs
    <1>3. run' = Notified(ended, run[i].job)
        BY DEF Failed
    <1> HIDE DEF ended
    <1>4. QED
        BY <1>2, <1>3, NotifiedRuns DEF Moves, Kept

LEMMA DownloadMoves ==
    ASSUME Types, NEW i \in Ids, DownloadCharts(i)
    PROVE  Moves(i, run[i].job, "check", charts)
    BY DEF Types, DownloadCharts, History, Moves, Kept, Runs, States

\* An artifact's number is that of a run.
LEMMA ArtifactIds ==
    ASSUME Types, NumbersInv, NEW v \in Versions
    PROVE  /\ images[v] # 0 => images[v] \in Ids /\ run[images[v]].state # "none"
           /\ releases[v] # 0 => releases[v] \in Ids /\ run[releases[v]].state # "none"
           /\ charts[v] # 0 => charts[v] \in Ids /\ run[charts[v]].state # "none"
    BY ReleaseAssumption DEF Types, NumbersInv, Charts, Ids

\* What has to hold of run i's new job, state and site for its step to keep
\* the invariant: LineageInv and CheckedInv of this run.
MoveAllowed(i, job, state, site) ==
    LET v == run[i].version
    IN  /\ job \in {"release", "handoff", "pages"} => images[v] # 0 /\ SameCommit(images[v], i)
        /\ job \in {"handoff", "pages"} => releases[v] # 0 /\ SameCommit(releases[v], i)
        /\ state = "read" => job = "pages"
        /\ job = "pages" /\ state \in {"check", "publish"} => site = charts
        /\ state = "publish" =>
              /\ job \in {"image", "release", "pages"}
              /\ job = "image" =>
                    /\ images[v] = 0 /\ releases[v] = 0
                    /\ \A w \in Versions : images[w] # 0 => w < v \/ w \in withdrawn
              /\ job = "release" => releases[v] = 0
              /\ job = "pages" => \A w \in Versions : charts[w] # 0 => w < v

\* No run comes to wait in a group: at most one still does.
LEMMA OneStillWaits ==
    ASSUME OneWaits,
           \A j \in Ids : Group(run'[j]) = Group(run[j]),
           \A j \in Ids : run'[j].state = "queued" => run[j].state = "queued"
    PROVE  OneWaits'
    <1> SUFFICES ASSUME NEW j \in Ids, NEW k \in Ids, j # k, Group(run'[j]) = Group(run'[k]),
                        run'[j].state = "queued", run'[k].state = "queued"
                 PROVE  FALSE
        BY DEF OneWaits, Group
    <1>1. Group(run[j]) = Group(run[k]) /\ run[j].state = "queued" /\ run[k].state = "queued"
        OBVIOUS
    <1>2. QED
        BY <1>1 DEF OneWaits

LEMMA MoveKeeps ==
    ASSUME TypeOK, PipelineInv, NEW i \in Ids,
           NEW job \in Jobs, NEW state \in States, NEW site \in Charts,
           Moves(i, job, state, site),
           UNCHANGED <<tags, images, releases, charts, count, withdrawn>>,
           budget' \in 0..MaxDisruptions,
           run[i].state # "none", state \notin {"none", "queued"},
           WorkflowOf(job) = WorkflowOf(run[i].job),
           state \in InProgress /\ run[i].state \notin InProgress => ~Busy(Group(run[i])),
           MoveAllowed(i, job, state, site)
    PROVE  TypeOK' /\ PipelineInv'
    <1>1. Types /\ OneWaits /\ NumbersInv /\ ExclusionInv /\ LineageInv /\ CheckedInv
          /\ TagsInv /\ OneCommit
        BY TypeOKIs DEF PipelineInv
    <1>2. /\ \A j \in Ids : Group(run'[j]) = Group(run[j])
          /\ \A j \in Ids : run'[j].version = run[j].version /\ run'[j].commit = run[j].commit
          /\ \A j \in Ids : run[j].state = "none" <=> run'[j].state = "none"
        BY DEF Moves, Kept, Group
    <1>3. Types'
        BY <1>1 DEF Types, Moves
    <1>4. OneWaits'
        <2>1. \A j \in Ids : run'[j].state = "queued" => run[j].state = "queued"
            BY DEF Moves, Kept
        <2>2. QED
            BY <1>1, <1>2, <2>1, OneStillWaits
    <1>5. NumbersInv'
        BY <1>1, <1>2 DEF NumbersInv
    <1>6. ExclusionInv'
        <2> SUFFICES ASSUME NEW j \in Ids, NEW k \in Ids, j # k, Group(run[j]) = Group(run[k]),
                            run'[j].state \in InProgress, run'[k].state \in InProgress
                     PROVE  FALSE
            BY <1>2 DEF ExclusionInv
        <2>1. ~(run[j].state \in InProgress /\ run[k].state \in InProgress)
            BY <1>1 DEF ExclusionInv
        <2>2. QED
            BY <2>1 DEF Moves, Kept, Busy, InProgress
    <1>7. \A v \in Versions : /\ images[v] # 0 => images[v] \in Ids
                              /\ releases[v] # 0 => releases[v] \in Ids
                              /\ charts[v] # 0 => charts[v] \in Ids
        BY <1>1, ArtifactIds
    <1>8. \A j \in Ids : run[j].version \in Versions
        BY <1>1 DEF Types, Runs
    <1>9. LineageInv'
        <2> SUFFICES ASSUME NEW j \in Ids, run'[j].state # "none"
                     PROVE  LET v == run[j].version
                            IN  /\ run'[j].job \in {"release", "handoff", "pages"} =>
                                      images[v] # 0 /\ run[images[v]].commit = run[j].commit
                                /\ run'[j].job \in {"handoff", "pages"} =>
                                      releases[v] # 0 /\ run[releases[v]].commit = run[j].commit
                                /\ tags[v] # NoCommit \/ v \in withdrawn
            BY <1>2, <1>7, <1>8 DEF LineageInv, SameCommit
        <2>1. CASE j = i
            BY <1>1, <2>1 DEF LineageInv, Moves, MoveAllowed, SameCommit
        <2>2. CASE j # i
            BY <1>1, <1>2, <2>2 DEF LineageInv, Moves, Kept, SameCommit
        <2>3. QED
            BY <2>1, <2>2
    <1>10. CheckedInv'
        <2> SUFFICES ASSUME NEW j \in Ids
                     PROVE  LET v == run[j].version
                            IN  /\ run'[j].state = "read" => run'[j].job = "pages"
                                /\ run'[j].job = "pages" /\ run'[j].state \in {"check", "publish"}
                                      => run'[j].site = charts
                                /\ run'[j].state = "publish" =>
                                      /\ run'[j].job \in {"image", "release", "pages"}
                                      /\ run'[j].job = "image" =>
                                            /\ images[v] = 0 /\ releases[v] = 0
                                            /\ \A w \in Versions :
                                                  images[w] # 0 => w < v \/ w \in withdrawn
                                      /\ run'[j].job = "release" => releases[v] = 0
                                      /\ run'[j].job = "pages" =>
                                            \A w \in Versions : charts[w] # 0 => w < v
            BY <1>2 DEF CheckedInv
        <2>1. CASE j = i
            BY <2>1 DEF Moves, MoveAllowed
        <2>2. CASE j # i
            BY <1>1, <2>2 DEF CheckedInv, Moves, Kept
        <2>3. QED
            BY <2>1, <2>2
    <1>11. TagsInv'
        BY <1>1 DEF TagsInv
    <1>12. OneCommit'
        BY <1>1, <1>2, <1>7 DEF OneCommit, SameCommit
    <1>13. TypeOK'
        BY <1>3, <1>4 DEF TypeOK, Types
    <1>14. QED
        BY <1>5, <1>6, <1>9, <1>10, <1>11, <1>12, <1>13 DEF PipelineInv

\* The runs rs have run's numbers, versions, commits and jobs; some may have
\* ended.
EndedOnly(rs) ==
    /\ rs \in [Ids -> Runs]
    /\ \A j \in Ids :
          /\ rs[j].job = run[j].job /\ rs[j].version = run[j].version
          /\ rs[j].commit = run[j].commit
          /\ \/ rs[j].state = run[j].state /\ rs[j].site = run[j].site
             \/ rs[j].state \in {"done", "failed", "cancelled", "rerun"} /\ run[j].state # "none"

\* Releases are made for the commit of the image, and before no publication
\* of a run in rs that relies on there being none.
ReleasesGrow(rs) ==
    /\ releases' \in Charts
    /\ \A v \in Versions : releases'[v] # releases[v] =>
          /\ releases[v] = 0 /\ releases'[v] \in 1..count
          /\ images[v] # 0 /\ run[releases'[v]].commit = run[images[v]].commit
    /\ \A j \in Ids : rs[j].state = "publish" /\ rs[j].job \in {"image", "release"} =>
          releases'[rs[j].version] = 0

\* As many runs as before, some of which have ended.
LEMMA EndedKeep ==
    ASSUME TypeOK, PipelineInv, EndedOnly(run'),
           tags' \in [Versions -> Commits \cup {NoCommit}], withdrawn' \subseteq Versions,
           UNCHANGED <<images, charts, count>>, ReleasesGrow(run'), budget' \in 0..MaxDisruptions,
           \A v \in Versions : tags[v] # NoCommit => tags'[v] # NoCommit \/ v \in withdrawn',
           withdrawn \subseteq withdrawn'
    PROVE  TypeOK' /\ PipelineInv'
    <1>1. Types /\ OneWaits /\ NumbersInv /\ ExclusionInv /\ LineageInv /\ CheckedInv
          /\ TagsInv /\ OneCommit
        BY TypeOKIs DEF PipelineInv
    <1>2. /\ \A j \in Ids : Group(run'[j]) = Group(run[j])
          /\ \A j \in Ids : run[j].state = "none" <=> run'[j].state = "none"
          /\ \A j \in Ids : run'[j].state \in InProgress \cup {"queued"} => run'[j].state = run[j].state
        BY DEF EndedOnly, Group, InProgress
    <1>3. \A v \in Versions : /\ images[v] # 0 => images[v] \in Ids
                              /\ releases[v] # 0 => releases[v] \in Ids
                              /\ charts[v] # 0 => charts[v] \in Ids
                              /\ releases'[v] # 0 => releases'[v] \in Ids
                              /\ releases[v] # 0 => releases'[v] = releases[v]
        BY <1>1, ArtifactIds, ReleaseAssumption DEF ReleasesGrow, Types, Ids
    <1>4. \A j \in Ids : run[j].version \in Versions
        BY <1>1 DEF Types, Runs
    <1>5. TypeOK'
        <2>1. Types'
            BY <1>1 DEF Types, EndedOnly, ReleasesGrow
        <2>2. OneWaits'
            BY <1>1, <1>2, OneStillWaits
        <2>3. QED
            BY <2>1, <2>2 DEF TypeOK, Types
    <1>6. NumbersInv'
        <2>1. \A v \in Versions : releases'[v] <= count
            BY <1>1, ReleaseAssumption DEF NumbersInv, ReleasesGrow, Types
        <2>2. QED
            BY <1>1, <1>2, <2>1 DEF NumbersInv
    <1>7. ExclusionInv'
        BY <1>1, <1>2 DEF ExclusionInv
    <1>8. LineageInv'
        <2> SUFFICES ASSUME NEW j \in Ids, run'[j].state # "none"
                     PROVE  LET v == run[j].version
                            IN  /\ run[j].job \in {"release", "handoff", "pages"} =>
                                      images[v] # 0 /\ run[images[v]].commit = run[j].commit
                                /\ run[j].job \in {"handoff", "pages"} =>
                                      releases'[v] # 0 /\ run[releases'[v]].commit = run[j].commit
                                /\ tags'[v] # NoCommit \/ v \in withdrawn'
            BY <1>3, <1>4 DEF LineageInv, SameCommit, EndedOnly
        <2>1. QED
            BY <1>1, <1>2, <1>3, <1>4 DEF LineageInv, SameCommit
    <1>9. CheckedInv'
        <2> SUFFICES ASSUME NEW j \in Ids
                     PROVE  LET v == run[j].version
                            IN  /\ run'[j].state = "read" => run[j].job = "pages"
                                /\ run[j].job = "pages" /\ run'[j].state \in {"check", "publish"}
                                      => run'[j].site = charts
                                /\ run'[j].state = "publish" =>
                                      /\ run[j].job \in {"image", "release", "pages"}
                                      /\ run[j].job = "image" =>
                                            /\ images[v] = 0 /\ releases'[v] = 0
                                            /\ \A w \in Versions :
                                                  images[w] # 0 => w < v \/ w \in withdrawn'
                                      /\ run[j].job = "release" => releases'[v] = 0
                                      /\ run[j].job = "pages" =>
                                            \A w \in Versions : charts[w] # 0 => w < v
            BY DEF CheckedInv, EndedOnly
        <2>1. CASE run'[j].state = run[j].state /\ run'[j].site = run[j].site
            BY <1>1, <2>1 DEF CheckedInv, ReleasesGrow, EndedOnly
        <2>2. CASE run'[j].state \in {"done", "failed", "cancelled", "rerun"}
            BY <2>2
        <2>3. QED
            BY <2>1, <2>2 DEF EndedOnly
    <1>10. TagsInv'
        BY <1>1 DEF TagsInv
    <1>11. OneCommit'
        <2> SUFFICES ASSUME NEW v \in Versions
                     PROVE  /\ releases'[v] # 0 =>
                                 images[v] # 0 /\ run[releases'[v]].commit = run[images[v]].commit
                            /\ charts[v] # 0 =>
                                 releases'[v] # 0 /\ run[charts[v]].commit = run[releases'[v]].commit
            BY <1>3 DEF OneCommit, SameCommit, EndedOnly
        <2>1. QED
            BY <1>1, <1>3 DEF OneCommit, SameCommit, ReleasesGrow
    <1>12. QED
        BY <1>5, <1>6, <1>7, <1>8, <1>9, <1>10, <1>11 DEF PipelineInv

\* One more run, which waits.
LEMMA EnqueueKeeps ==
    ASSUME TypeOK, PipelineInv, NEW rs, EndedOnly(rs), NEW new \in Runs,
           new.state = "queued", Enqueue(rs, new),
           tags' \in [Versions -> Commits \cup {NoCommit}],
           UNCHANGED <<images, charts, withdrawn>>, ReleasesGrow(rs), budget' \in 0..MaxDisruptions,
           \A v \in Versions : tags[v] # NoCommit => tags'[v] # NoCommit,
           LET v == new.version
           IN  /\ new.job \in {"release", "handoff", "pages"} =>
                     images[v] # 0 /\ run[images[v]].commit = new.commit
               /\ new.job \in {"handoff", "pages"} =>
                     releases'[v] # 0 /\ run[releases'[v]].commit = new.commit
               /\ tags'[v] # NoCommit \/ v \in withdrawn
    PROVE  TypeOK' /\ PipelineInv'
    <1>1. Types /\ OneWaits /\ NumbersInv /\ ExclusionInv /\ LineageInv /\ CheckedInv
          /\ TagsInv /\ OneCommit
        BY TypeOKIs DEF PipelineInv
    <1>2. /\ run' \in [Ids -> Runs]
          /\ count' = count + 1 /\ count' \in Ids /\ count' \in 1..MaxRuns
          /\ run'[count'] = new
          /\ \A j \in Ids \ {count'} :
                /\ run'[j].job = rs[j].job /\ run'[j].version = rs[j].version
                /\ run'[j].commit = rs[j].commit /\ run'[j].site = rs[j].site
                /\ \/ run'[j].state = rs[j].state
                   \/ rs[j].state = "queued" /\ run'[j].state = "cancelled"
                /\ Group(rs[j]) = Group(new) => run'[j].state # "queued"
        BY <1>1, EnqueueRun DEF EndedOnly
    <1>3. \A j \in Ids \ {count'} :
             /\ run'[j].job = run[j].job /\ run'[j].version = run[j].version
             /\ run'[j].commit = run[j].commit
             /\ \/ run'[j].state = run[j].state /\ run'[j].site = run[j].site
                \/ /\ run'[j].state \in {"done", "failed", "cancelled", "rerun"}
                   /\ run[j].state # "none"
             /\ Group(run[j]) = Group(new) => run'[j].state # "queued"
        BY <1>2 DEF EndedOnly, Group
    <1>4. count \in 1..MaxRuns /\ MaxRuns \in Nat /\ count' \in Nat /\ run[count'].state = "none"
        BY <1>1, <1>2, ReleaseAssumption DEF Types, NumbersInv, Ids
    <1>5. \A v \in Versions :
             /\ images[v] # 0 => images[v] \in Ids \ {count'}
             /\ releases[v] # 0 => releases[v] \in Ids \ {count'}
             /\ charts[v] # 0 => charts[v] \in Ids \ {count'}
             /\ releases'[v] # 0 => releases'[v] \in Ids \ {count'}
             /\ releases[v] # 0 => releases'[v] = releases[v]
        BY <1>1, <1>2, <1>4, ArtifactIds DEF ReleasesGrow, Types, Ids
    <1>6. new.version \in Versions /\ \A j \in Ids : run[j].version \in Versions
        BY <1>1 DEF Types, Runs
    <1>7. TypeOK'
        <2>1. Types'
            BY <1>1, <1>2 DEF Types, ReleasesGrow
        <2>2. OneWaits'
            <3> SUFFICES ASSUME NEW j \in Ids, NEW k \in Ids, j # k,
                                Group(run'[j]) = Group(run'[k]),
                                run'[j].state = "queued", run'[k].state = "queued"
                         PROVE  FALSE
                BY DEF OneWaits
            <3>1. CASE j = count' \/ k = count'
                BY <1>2, <1>3, <3>1 DEF Group
            <3>2. CASE j # count' /\ k # count'
                BY <1>1, <1>3, <3>2 DEF OneWaits, Group
            <3>3. QED
                BY <3>1, <3>2
        <2>3. QED
            BY <2>1, <2>2 DEF TypeOK, Types
    <1>8. NumbersInv'
        <2>1. \A j \in Ids : run'[j].state = "none" <=> j > count'
            <3> SUFFICES ASSUME NEW j \in Ids
                         PROVE  run'[j].state = "none" <=> j > count'
                OBVIOUS
            <3>1. j \in Nat
                BY DEF Ids
            <3>2. CASE j = count'
                BY <1>2, <1>4, <3>2
            <3>3. CASE j # count'
                BY <1>1, <1>2, <1>3, <1>4, <3>1, <3>3 DEF NumbersInv
            <3>4. QED
                BY <3>2, <3>3
        <2>2. \A v \in Versions : /\ images[v] <= count' /\ releases'[v] <= count'
                                  /\ charts[v] <= count'
            BY <1>1, <1>2, <1>4, ReleaseAssumption DEF NumbersInv, Types, Charts, ReleasesGrow
        <2>3. QED
            BY <2>1, <2>2 DEF NumbersInv
    <1>9. ExclusionInv'
        <2> SUFFICES ASSUME NEW j \in Ids, NEW k \in Ids, j # k, Group(run'[j]) = Group(run'[k]),
                            run'[j].state \in InProgress, run'[k].state \in InProgress
                     PROVE  FALSE
            BY DEF ExclusionInv
        <2>1. j # count' /\ k # count'
            BY <1>2 DEF InProgress
        <2>2. QED
            BY <1>1, <1>3, <2>1 DEF ExclusionInv, Group, InProgress
    <1>10. LineageInv'
        <2> SUFFICES ASSUME NEW j \in Ids, run'[j].state # "none"
                     PROVE  LET v == run'[j].version
                            IN  /\ run'[j].job \in {"release", "handoff", "pages"} =>
                                      images[v] # 0 /\ run[images[v]].commit = run'[j].commit
                                /\ run'[j].job \in {"handoff", "pages"} =>
                                      releases'[v] # 0 /\ run[releases'[v]].commit = run'[j].commit
                                /\ tags'[v] # NoCommit \/ v \in withdrawn
            <3>1. \A j \in Ids : run'[j].version \in Versions
                BY <1>2 DEF Runs
            <3>2. \A v \in Versions :
                     /\ images[v] # 0 => run'[images[v]].commit = run[images[v]].commit
                     /\ releases'[v] # 0 => run'[releases'[v]].commit = run[releases'[v]].commit
                BY <1>3, <1>5
            <3>3. QED
                BY <3>1, <3>2 DEF LineageInv, SameCommit
        <2>1. CASE j = count'
            BY <1>2, <2>1
        <2>2. CASE j # count'
            BY <1>1, <1>3, <1>5, <1>6, <2>2 DEF LineageInv, SameCommit
        <2>3. QED
            BY <2>1, <2>2
    <1>11. CheckedInv'
        <2> SUFFICES ASSUME NEW j \in Ids
                     PROVE  LET v == run'[j].version
                            IN  /\ run'[j].state = "read" => run'[j].job = "pages"
                                /\ run'[j].job = "pages" /\ run'[j].state \in {"check", "publish"}
                                      => run'[j].site = charts
                                /\ run'[j].state = "publish" =>
                                      /\ run'[j].job \in {"image", "release", "pages"}
                                      /\ run'[j].job = "image" =>
                                            /\ images[v] = 0 /\ releases'[v] = 0
                                            /\ \A w \in Versions :
                                                  images[w] # 0 => w < v \/ w \in withdrawn
                                      /\ run'[j].job = "release" => releases'[v] = 0
                                      /\ run'[j].job = "pages" =>
                                            \A w \in Versions : charts[w] # 0 => w < v
            BY DEF CheckedInv
        <2>1. CASE j = count'
            BY <1>2, <2>1
        <2>2. CASE j # count' /\ run'[j].state = run[j].state /\ run'[j].site = run[j].site
            <3>1. run'[j].state = "publish" => rs[j].state = "publish"
                BY <1>2, <2>2
            <3>2. QED
                BY <1>1, <1>2, <1>3, <2>2, <3>1 DEF CheckedInv, ReleasesGrow
        <2>3. CASE run'[j].state \in {"done", "failed", "cancelled", "rerun"}
            BY <2>3
        <2>4. QED
            BY <1>3, <2>1, <2>2, <2>3
    <1>12. TagsInv'
        BY <1>1 DEF TagsInv
    <1>13. OneCommit'
        <2> SUFFICES ASSUME NEW v \in Versions
                     PROVE  /\ releases'[v] # 0 =>
                                 images[v] # 0 /\ run[releases'[v]].commit = run[images[v]].commit
                            /\ charts[v] # 0 =>
                                 releases'[v] # 0 /\ run[charts[v]].commit = run[releases'[v]].commit
            BY <1>3, <1>5 DEF OneCommit, SameCommit
        <2>1. QED
            BY <1>1, <1>5 DEF OneCommit, SameCommit, ReleasesGrow
    <1>14. QED
        BY <1>7, <1>8, <1>9, <1>10, <1>11, <1>12, <1>13 DEF PipelineInv

(***************************************************************************)
(* The actions.                                                            *)
(***************************************************************************)

LEMMA Facts ==
    ASSUME TypeOK, PipelineInv, NEW i \in Ids
    PROVE  /\ Types /\ run[i] \in Runs /\ run[i].version \in Versions
           /\ i \in Nat \ {0} /\ i \in 0..MaxRuns /\ i \in 1..MaxRuns
           /\ run[i].state # "none" => i <= count
           /\ budget \in 0..MaxDisruptions
           /\ NoCharts \in Charts
           /\ NumbersInv /\ ExclusionInv /\ LineageInv /\ CheckedInv /\ TagsInv /\ OneCommit
    <1>1. MaxRuns \in Nat /\ i \in 1..MaxRuns
        BY ReleaseAssumption DEF Ids
    <1>2. Types /\ NumbersInv
        BY TypeOKIs DEF PipelineInv
    <1>3. run[i] \in Runs /\ run[i].version \in Versions
        BY <1>2 DEF Types, Runs
    <1>4. count \in Nat /\ (run[i].state # "none" => i <= count)
        BY <1>1, <1>2 DEF NumbersInv, Types
    <1>5. NoCharts \in Charts
        BY ReleaseAssumption DEF NoCharts, Charts
    <1>6. QED
        BY <1>1, <1>2, <1>3, <1>4, <1>5 DEF Types, PipelineInv

LEMMA DisruptBudget ==
    ASSUME Types, NEW kind, Disrupt(kind)
    PROVE  budget' \in 0..MaxDisruptions
    BY ReleaseAssumption DEF Types, Disrupt

LEMMA StartKeeps ==
    ASSUME TypeOK, PipelineInv, NEW i \in Ids, Start(i)
    PROVE  TypeOK' /\ PipelineInv'
    <1>1. Types /\ run[i] \in Runs /\ LineageInv /\ budget \in 0..MaxDisruptions
        BY Facts
    <1>2. Moves(i, run[i].job, FirstState(run[i].job), run[i].site)
        BY <1>1, StartMoves
    <1>3. /\ run[i].job \in Jobs /\ run[i].site \in Charts
          /\ FirstState(run[i].job) \in States \ {"none", "queued", "publish"}
          /\ FirstState(run[i].job) = "read" <=> run[i].job = "pages"
        BY <1>1 DEF Runs, FirstState, States
    <1>4. MoveAllowed(i, run[i].job, FirstState(run[i].job), run[i].site)
        BY <1>1, <1>3 DEF MoveAllowed, LineageInv, Start, FirstState
    <1>5. ~Busy(Group(run[i])) /\ run[i].state = "queued"
          /\ UNCHANGED <<tags, images, releases, charts, count, withdrawn, budget>>
        BY DEF Start
    <1>6. QED
        BY <1>1, <1>2, <1>3, <1>4, <1>5, MoveKeeps

LEMMA CheckKeeps ==
    ASSUME TypeOK, PipelineInv, NEW i \in Ids, Check(i)
    PROVE  TypeOK' /\ PipelineInv'
    <1>1. Types /\ run[i] \in Runs /\ LineageInv /\ CheckedInv /\ TagsInv /\ OneCommit
          /\ budget \in 0..MaxDisruptions
        BY Facts
    <1>2. /\ run[i].job \in Jobs /\ run[i].site \in Charts /\ run[i].version \in Versions
          /\ run[i].state = "check" /\ run[i].state \in InProgress
          /\ UNCHANGED <<tags, images, releases, charts, count, withdrawn>>
          /\ budget' \in 0..MaxDisruptions
        BY <1>1 DEF Check, Runs, InProgress
    <1>3. CASE run[i].job = "version" /\ Moves(i, "image", "check", run[i].site)
        <2>1. MoveAllowed(i, "image", "check", run[i].site)
            BY DEF MoveAllowed
        <2>2. "image" \in Jobs /\ "check" \in States /\ WorkflowOf("image") = WorkflowOf(run[i].job)
            BY <1>3 DEF Jobs, States, WorkflowOf
        <2>3. QED
            BY <1>2, <1>3, <2>1, <2>2, MoveKeeps
    <1>4. CASE run[i].job = "handoff" /\ Moves(i, "pages", "read", run[i].site)
        <2>1. MoveAllowed(i, "pages", "read", run[i].site)
            BY <1>1, <1>2, <1>4 DEF MoveAllowed, LineageInv
        <2>2. "pages" \in Jobs /\ "read" \in States /\ WorkflowOf("pages") = WorkflowOf(run[i].job)
            BY <1>4 DEF Jobs, States, WorkflowOf
        <2>3. QED
            BY <1>2, <1>4, <2>1, <2>2, MoveKeeps
    <1>5. CASE /\ run[i].job \in {"image", "release", "pages"}
               /\ Moves(i, run[i].job, "publish", run[i].site)
        <2>1. CheckVersion(run[i].version) /\ CheckArtifacts(run[i].job, run[i].version)
            BY DEF Check, Passes
        <2>2. \A w \in Versions : charts[w] # 0 => w < run[i].version
            BY <1>2, <2>1 DEF CheckVersion, Published, Versions
        <2>3. ASSUME run[i].job = "image"
              PROVE  /\ images[run[i].version] = 0 /\ releases[run[i].version] = 0
                     /\ \A w \in Versions : images[w] # 0 => w < run[i].version \/ w \in withdrawn
            <3>1. images[run[i].version] = 0 /\ releases[run[i].version] = 0
                BY <2>1, <2>3 DEF CheckArtifacts
            <3>2. \A w \in Versions \ {run[i].version} :
                     tags[w] # NoCommit => w < run[i].version
                BY <1>2, <2>1 DEF CheckVersion, Reserved, Versions
            <3>3. QED
                BY <1>1, <3>1, <3>2 DEF TagsInv
        <2>4. run[i].job = "release" => releases[run[i].version] = 0
            BY <2>1 DEF CheckArtifacts
        <2>5. MoveAllowed(i, run[i].job, "publish", run[i].site)
            BY <1>1, <1>2, <1>5, <2>2, <2>3, <2>4 DEF MoveAllowed, LineageInv, CheckedInv
        <2>6. "publish" \in States
            BY DEF States
        <2>7. QED
            BY <1>2, <1>5, <2>5, <2>6, MoveKeeps
    <1>6. QED
        BY <1>1, <1>3, <1>4, <1>5, CheckMoves

\* A run that ends without publishing anything.
LEMMA EndKeeps ==
    ASSUME TypeOK, PipelineInv, NEW i \in Ids, run[i].state # "none",
           run' = Failed(i), budget' \in 0..MaxDisruptions,
           UNCHANGED <<tags, images, releases, charts, count, withdrawn>>
    PROVE  TypeOK' /\ PipelineInv'
    <1>1. Types /\ run[i] \in Runs /\ LineageInv /\ NoCharts \in Charts
        BY Facts
    <1>2. "failed" \in States /\ "failed" \notin InProgress
        BY DEF States, InProgress
    <1>3. Moves(i, run[i].job, "failed", NoCharts)
        BY <1>1, FailedMoves
    <1>4. MoveAllowed(i, run[i].job, "failed", NoCharts)
        BY <1>1 DEF MoveAllowed, LineageInv
    <1>5. run[i].job \in Jobs
        BY <1>1 DEF Runs
    <1>6. QED
        BY <1>1, <1>2, <1>3, <1>4, <1>5, MoveKeeps

LEMMA DownloadKeeps ==
    ASSUME TypeOK, PipelineInv, NEW i \in Ids, DownloadCharts(i)
    PROVE  TypeOK' /\ PipelineInv'
    <1>1. Types /\ run[i] \in Runs /\ LineageInv /\ budget \in 0..MaxDisruptions
        BY Facts
    <1>2. Moves(i, run[i].job, "check", charts)
        BY <1>1, DownloadMoves
    <1>3. /\ run[i].job \in Jobs /\ charts \in Charts /\ "check" \in States
          /\ run[i].state = "read" /\ run[i].state \in InProgress
          /\ UNCHANGED <<tags, images, releases, charts, count, withdrawn, budget>>
        BY <1>1 DEF Types, Runs, States, DownloadCharts, InProgress
    <1>4. MoveAllowed(i, run[i].job, "check", charts)
        BY <1>1, <1>3 DEF MoveAllowed, LineageInv
    <1>5. QED
        BY <1>1, <1>2, <1>3, <1>4, MoveKeeps

\* Nobody else of the group of a run in progress is in progress.
LEMMA PushImageKeeps ==
    ASSUME TypeOK, PipelineInv, NEW i \in Ids, PushImage(i)
    PROVE  TypeOK' /\ PipelineInv'
    <1> DEFINE v0 == run[i].version
    <1>1. /\ Types /\ run[i] \in Runs /\ v0 \in Versions /\ i \in 1..MaxRuns /\ i # 0
          /\ NumbersInv /\ ExclusionInv /\ LineageInv /\ CheckedInv /\ TagsInv /\ OneCommit
          /\ NoCharts \in Charts /\ OneWaits /\ budget \in 0..MaxDisruptions
        BY Facts, TypeOKIs
    <1>2. /\ run[i].job = "image" /\ run[i].state = "publish" /\ i <= count
          /\ images[v0] = 0 /\ releases[v0] = 0
          /\ images' = [images EXCEPT ![v0] = i]
          /\ UNCHANGED <<tags, releases, charts, count, withdrawn>>
        BY <1>1, Facts DEF PushImage, CheckedInv
    <1>3. /\ budget' \in 0..MaxDisruptions
          /\ \/ Moves(i, "release", "check", run[i].site)
             \/ Moves(i, "image", "failed", NoCharts)
        <2>1. CASE run' = [run EXCEPT ![i].job = "release", ![i].state = "check"] /\ UNCHANGED budget
            BY <1>1, <2>1 DEF Types, Moves, Kept, Runs, Jobs, States
        <2>2. CASE Disrupt("lost") /\ run' = Failed(i)
            BY <1>1, <1>2, <2>2, FailedMoves, DisruptBudget
        <2>3. QED
            BY <2>1, <2>2 DEF PushImage
    <1>4. /\ \A j \in Ids : Group(run'[j]) = Group(run[j])
          /\ \A j \in Ids : run'[j].version = run[j].version /\ run'[j].commit = run[j].commit
          /\ \A j \in Ids : run[j].state = "none" <=> run'[j].state = "none"
          /\ run'[i].state \in {"check", "failed"} /\ run'[i].job \in {"image", "release"}
          /\ \A j \in Ids \ {i} : Kept(run[j], run'[j])
          /\ run' \in [Ids -> Runs]
        BY <1>2, <1>3 DEF Moves, Kept, Group, WorkflowOf
    <1>5. /\ \A v \in Versions \ {v0} : images'[v] = images[v]
          /\ images'[v0] = i /\ images' \in Charts
        BY <1>1, <1>2 DEF Types, Charts
    <1>6. \A v \in Versions : /\ images[v] # 0 => images[v] \in Ids
                              /\ releases[v] # 0 => releases[v] \in Ids
                              /\ charts[v] # 0 => charts[v] \in Ids
        BY <1>1, ArtifactIds
    <1>d. \A j \in Ids : run'[j].commit = run[j].commit
        BY <1>4
    <1>e. \A v \in Versions : images'[v] # 0 => images'[v] \in Ids
        BY <1>5, <1>6
    <1>c. \A v \in Versions :
             /\ images'[v] # 0 => run'[images'[v]].commit = run[images'[v]].commit
             /\ releases[v] # 0 => run'[releases[v]].commit = run[releases[v]].commit
             /\ charts[v] # 0 => run'[charts[v]].commit = run[charts[v]].commit
        BY <1>d, <1>e, <1>6
    <1>7. \A j \in Ids : run[j].version \in Versions
        BY <1>1 DEF Types, Runs
    <1>8. TypeOK'
        <2>1. Types'
            BY <1>1, <1>2, <1>3, <1>4, <1>5 DEF Types
        <2>2. \A j \in Ids : run'[j].state = "queued" => run[j].state = "queued"
            BY <1>4 DEF Kept
        <2>3. OneWaits'
            BY <1>1, <1>4, <2>2, OneStillWaits
        <2>4. QED
            BY <2>1, <2>3 DEF TypeOK, Types
    <1>9. NumbersInv'
        BY <1>1, <1>2, <1>4, <1>5 DEF NumbersInv
    <1>10. ExclusionInv'
        BY <1>1, <1>2, <1>4 DEF ExclusionInv, InProgress, Kept
    <1>11. LineageInv'
        <2> SUFFICES ASSUME NEW j \in Ids, run'[j].state # "none"
                     PROVE  LET v == run[j].version
                            IN  /\ run'[j].job \in {"release", "handoff", "pages"} =>
                                      images'[v] # 0 /\ run[images'[v]].commit = run[j].commit
                                /\ run'[j].job \in {"handoff", "pages"} =>
                                      releases[v] # 0 /\ run[releases[v]].commit = run[j].commit
                                /\ tags[v] # NoCommit \/ v \in withdrawn
            BY <1>2, <1>4, <1>7, <1>c DEF LineageInv, SameCommit
        <2>1. CASE j = i
            BY <1>1, <1>2, <1>4, <1>5, <2>1 DEF LineageInv
        <2>2. CASE j # i
            BY <1>1, <1>2, <1>4, <1>5, <1>7, <2>2 DEF LineageInv, SameCommit, Kept
        <2>3. QED
            BY <2>1, <2>2
    <1>12. CheckedInv'
        <2>1. \A j \in Ids \ {i} : ~(run[j].job = "image" /\ run[j].state = "publish")
            BY <1>1, <1>2 DEF ExclusionInv, Group, InProgress
        <2>2. \A j \in Ids \ {i} :
                 /\ run[j].state = "read" => run[j].job = "pages"
                 /\ run[j].job = "pages" /\ run[j].state \in {"check", "publish"} => run[j].site = charts
                 /\ run[j].state = "publish" =>
                      /\ run[j].job \in {"release", "pages"}
                      /\ run[j].job = "release" => releases[run[j].version] = 0
                      /\ run[j].job = "pages" =>
                            \A w \in Versions : charts[w] # 0 => w < run[j].version
            BY <1>1, <2>1 DEF CheckedInv
        <2>3. QED
            BY <1>2, <1>4, <2>2 DEF CheckedInv, Kept
    <1>13. TagsInv'
        BY <1>1, <1>2, <1>5 DEF TagsInv, LineageInv
    <1>14. OneCommit'
        <2> SUFFICES ASSUME NEW v \in Versions
                     PROVE  /\ releases[v] # 0 =>
                                 images'[v] # 0 /\ run[releases[v]].commit = run[images'[v]].commit
                            /\ charts[v] # 0 =>
                                 releases[v] # 0 /\ run[charts[v]].commit = run[releases[v]].commit
            BY <1>2, <1>c DEF OneCommit, SameCommit
        <2>1. CASE v = v0
            BY <1>1, <1>2, <2>1 DEF OneCommit, SameCommit
        <2>2. CASE v # v0
            BY <1>1, <1>5, <2>2 DEF OneCommit, SameCommit
        <2>3. QED
            BY <2>1, <2>2
    <1>15. QED
        BY <1>8, <1>9, <1>10, <1>11, <1>12, <1>13, <1>14 DEF PipelineInv

LEMMA DeployKeeps ==
    ASSUME TypeOK, PipelineInv, NEW i \in Ids, DeployPages(i)
    PROVE  TypeOK' /\ PipelineInv'
    <1> DEFINE v0 == run[i].version
    <1>1. /\ Types /\ run[i] \in Runs /\ v0 \in Versions /\ i \in 1..MaxRuns /\ i # 0
          /\ NumbersInv /\ ExclusionInv /\ LineageInv /\ CheckedInv /\ TagsInv /\ OneCommit
          /\ NoCharts \in Charts /\ OneWaits /\ budget \in 0..MaxDisruptions
        BY Facts, TypeOKIs
    <1>2. /\ run[i].job = "pages" /\ run[i].state = "publish" /\ i <= count
          /\ charts' = [charts EXCEPT ![v0] = i]
          /\ UNCHANGED <<tags, images, releases, count, withdrawn>>
        BY <1>1, Facts DEF DeployPages, CheckedInv
    <1>3. /\ budget' \in 0..MaxDisruptions
          /\ \/ Moves(i, "pages", "done", NoCharts)
             \/ Moves(i, "pages", "failed", NoCharts)
        <2>1. "done" \in States
            BY DEF States
        <2>2. CASE run' = Ended(i, "done") /\ UNCHANGED budget
            BY <1>1, <1>2, <2>1, <2>2, EndedMoves
        <2>3. CASE Disrupt("lost") /\ run' = Failed(i)
            BY <1>1, <1>2, <2>3, FailedMoves, DisruptBudget
        <2>4. QED
            BY <2>2, <2>3 DEF DeployPages
    <1>4. /\ \A j \in Ids : Group(run'[j]) = Group(run[j])
          /\ \A j \in Ids : /\ run'[j].version = run[j].version /\ run'[j].commit = run[j].commit
                             /\ run'[j].job = run[j].job
          /\ \A j \in Ids : run[j].state = "none" <=> run'[j].state = "none"
          /\ run'[i].state \in {"done", "failed"}
          /\ \A j \in Ids \ {i} : Kept(run[j], run'[j])
          /\ run' \in [Ids -> Runs]
        BY <1>2, <1>3 DEF Moves, Kept, Group
    <1>5. /\ \A v \in Versions \ {v0} : charts'[v] = charts[v]
          /\ charts'[v0] = i /\ charts' \in Charts
        BY <1>1, <1>2 DEF Types, Charts
    <1>6. \A v \in Versions : /\ images[v] # 0 => images[v] \in Ids
                              /\ releases[v] # 0 => releases[v] \in Ids
                              /\ charts[v] # 0 => charts[v] \in Ids
        BY <1>1, ArtifactIds
    <1>d. \A j \in Ids : run'[j].commit = run[j].commit
        BY <1>4
    <1>e. \A v \in Versions : charts'[v] # 0 => charts'[v] \in Ids
        BY <1>5, <1>6
    <1>c. \A v \in Versions :
             /\ images[v] # 0 => run'[images[v]].commit = run[images[v]].commit
             /\ releases[v] # 0 => run'[releases[v]].commit = run[releases[v]].commit
             /\ charts'[v] # 0 => run'[charts'[v]].commit = run[charts'[v]].commit
        BY <1>d, <1>e, <1>6
    <1>7. \A j \in Ids : run[j].version \in Versions
        BY <1>1 DEF Types, Runs
    <1>8. TypeOK'
        <2>1. Types'
            BY <1>1, <1>2, <1>3, <1>4, <1>5 DEF Types
        <2>2. \A j \in Ids : run'[j].state = "queued" => run[j].state = "queued"
            BY <1>4 DEF Kept
        <2>3. OneWaits'
            BY <1>1, <1>4, <2>2, OneStillWaits
        <2>4. QED
            BY <2>1, <2>3 DEF TypeOK, Types
    <1>9. NumbersInv'
        BY <1>1, <1>2, <1>4, <1>5 DEF NumbersInv
    <1>10. ExclusionInv'
        BY <1>1, <1>2, <1>4 DEF ExclusionInv, InProgress, Kept
    <1>11. LineageInv'
        <2> SUFFICES ASSUME NEW j \in Ids, run[j].state # "none"
                     PROVE  LET v == run[j].version
                            IN  /\ run[j].job \in {"release", "handoff", "pages"} =>
                                      images[v] # 0 /\ run[images[v]].commit = run[j].commit
                                /\ run[j].job \in {"handoff", "pages"} =>
                                      releases[v] # 0 /\ run[releases[v]].commit = run[j].commit
                                /\ tags[v] # NoCommit \/ v \in withdrawn
            BY <1>2, <1>4, <1>7, <1>c DEF LineageInv, SameCommit
        <2>1. QED
            BY <1>1 DEF LineageInv, SameCommit
    <1>12. CheckedInv'
        <2>1. \A j \in Ids \ {i} :
                 ~(run[j].job = "pages" /\ run[j].state \in {"check", "publish"})
            BY <1>1, <1>2 DEF ExclusionInv, Group, InProgress
        <2>2. \A j \in Ids \ {i} :
                 /\ run[j].state = "read" => run[j].job = "pages"
                 /\ run[j].state = "publish" =>
                      /\ run[j].job \in {"image", "release"}
                      /\ run[j].job = "image" =>
                            /\ images[run[j].version] = 0 /\ releases[run[j].version] = 0
                            /\ \A w \in Versions :
                                  images[w] # 0 => w < run[j].version \/ w \in withdrawn
                      /\ run[j].job = "release" => releases[run[j].version] = 0
            BY <1>1, <2>1 DEF CheckedInv
        <2>3. QED
            BY <1>2, <1>4, <2>1, <2>2 DEF CheckedInv, Kept
    <1>13. TagsInv'
        BY <1>1, <1>2 DEF TagsInv
    <1>14. OneCommit'
        <2>1. releases[v0] # 0 /\ run[releases[v0]].commit = run[i].commit
            BY <1>1, <1>2 DEF LineageInv, SameCommit
        <2>2. QED
            <3> SUFFICES ASSUME NEW v \in Versions
                         PROVE  /\ releases[v] # 0 =>
                                     images[v] # 0 /\ run[releases[v]].commit = run[images[v]].commit
                                /\ charts'[v] # 0 =>
                                     releases[v] # 0 /\ run[charts'[v]].commit = run[releases[v]].commit
                BY <1>2, <1>c DEF OneCommit, SameCommit
            <3>1. CASE v = v0
                BY <1>1, <1>5, <2>1, <3>1 DEF OneCommit, SameCommit
            <3>2. CASE v # v0
                BY <1>1, <1>5, <3>2 DEF OneCommit, SameCommit
            <3>3. QED
                BY <3>1, <3>2
    <1>15. QED
        BY <1>8, <1>9, <1>10, <1>11, <1>12, <1>13, <1>14 DEF PipelineInv

\* Where no release is made.
LEMMA NoReleaseGrows ==
    ASSUME TypeOK, PipelineInv, UNCHANGED releases, NEW rs, EndedOnly(rs)
    PROVE  ReleasesGrow(rs)
    <1>1. Types /\ CheckedInv
        BY TypeOKIs DEF PipelineInv
    <1>2. QED
        BY <1>1 DEF ReleasesGrow, Types, CheckedInv, EndedOnly

LEMMA RunsThemselves ==
    ASSUME Types
    PROVE  EndedOnly(run)
    BY DEF Types, EndedOnly

\* A run that ends has its number, version, commit and job still.
LEMMA EndsOnly ==
    ASSUME Types, NEW i \in Ids, run[i].state # "none",
           NEW state \in {"done", "failed", "rerun"}
    PROVE  EndedOnly(Ended(i, state)) /\ EndedOnly([run EXCEPT ![i].state = state])
    <1>1. NoCharts \in Charts /\ state \in States
        BY ReleaseAssumption DEF NoCharts, Charts, States
    <1>2. QED
        BY <1>1 DEF Types, EndedOnly, Ended, Runs

\* So has a run that its end cancels.
LEMMA NotifiedEndsOnly ==
    ASSUME NEW rs, EndedOnly(rs), NEW job
    PROVE  EndedOnly(Notified(rs, job))
    <1>1. rs \in [Ids -> Runs]
        BY DEF EndedOnly
    <1>2. QED
        BY <1>1, NotifiedRuns DEF EndedOnly, Kept

LEMMA CreateReleaseKeeps ==
    ASSUME TypeOK, PipelineInv, NEW i \in Ids, CreateRelease(i)
    PROVE  TypeOK' /\ PipelineInv'
    <1> DEFINE v0 == run[i].version
    <1>1. /\ Types /\ run[i] \in Runs /\ v0 \in Versions /\ i \in 1..MaxRuns /\ i # 0
          /\ NumbersInv /\ ExclusionInv /\ LineageInv /\ CheckedInv /\ TagsInv /\ OneCommit
          /\ budget \in 0..MaxDisruptions
        BY Facts, TypeOKIs
    <1>2. /\ run[i].job = "release" /\ run[i].state = "publish" /\ i <= count
          /\ images[v0] # 0 /\ run[images[v0]].commit = run[i].commit
          /\ releases[v0] = 0 /\ (tags[v0] # NoCommit \/ v0 \in withdrawn)
          /\ releases' = [releases EXCEPT ![v0] = i]
          /\ UNCHANGED <<tags, images, charts, withdrawn>>
        BY <1>1, Facts DEF CreateRelease, CheckedInv, LineageInv, SameCommit
    <1>3. /\ \A v \in Versions \ {v0} : releases'[v] = releases[v]
          /\ releases'[v0] = i /\ releases' \in Charts
        BY <1>1, <1>2 DEF Types, Charts
    <1>4. i \in 1..count
        BY <1>1, <1>2 DEF Types
    <1>5. \A j \in Ids \ {i} : ~(run[j].state = "publish" /\ run[j].job \in {"image", "release"})
        BY <1>1, <1>2 DEF ExclusionInv, Group, WorkflowOf, InProgress
    <1>6. ASSUME NEW state \in {"done", "failed"}
          PROVE  EndedOnly(Ended(i, state)) /\ ReleasesGrow(Ended(i, state))
        <2>1. EndedOnly(Ended(i, state)) /\ Ended(i, state)[i].state # "publish"
            BY <1>1, <1>2, EndsOnly DEF Ended, Types, Runs
        <2>2. \A j \in Ids : ~(Ended(i, state)[j].state = "publish"
                              /\ Ended(i, state)[j].job \in {"image", "release"})
            BY <1>5, <2>1 DEF EndedOnly
        <2>3. QED
            BY <1>2, <1>3, <1>4, <2>1, <2>2 DEF ReleasesGrow
    <1>7. CASE Disrupt("lost") /\ run' = Failed(i) /\ UNCHANGED count
        <2>1. EndedOnly(run') /\ ReleasesGrow(run')
            <3> DEFINE ended == Ended(i, "failed")
            <3>1. EndedOnly(ended) /\ ReleasesGrow(ended)
                BY <1>6
            <3>2. run' = Notified(ended, run[i].job)
                BY <1>7 DEF Failed
            <3> HIDE DEF ended
            <3>3. ended \in [Ids -> Runs] /\ EndedOnly(run')
                BY <3>1, <3>2, NotifiedEndsOnly DEF EndedOnly
            <3>4. \A j \in Ids : Kept(ended[j], run'[j])
                BY <3>2, <3>3, NotifiedRuns
            <3>5. QED
                BY <3>1, <3>3, <3>4 DEF ReleasesGrow, Kept
        <2>2. tags' \in [Versions -> Commits \cup {NoCommit}] /\ withdrawn' \subseteq Versions
            BY <1>1, <1>2 DEF Types
        <2>3. budget' \in 0..MaxDisruptions
            BY <1>1, <1>7, DisruptBudget
        <2>4. QED
            BY <1>2, <1>7, <2>1, <2>2, <2>3, EndedKeep
    <1>8. CASE /\ Enqueue(Ended(i, "done"), Queued("handoff", v0, run[i].commit))
               /\ UNCHANGED budget
        <2> DEFINE new == Queued("handoff", v0, run[i].commit)
        <2>1. run[i].commit \in Commits \cup {NoCommit} /\ "handoff" \in Jobs
            BY <1>1 DEF Runs, Jobs
        <2>2. /\ new \in Runs /\ new.job = "handoff" /\ new.state = "queued"
              /\ new.version = v0 /\ new.commit = run[i].commit
            BY <1>1, <2>1, QueuedRun
        <2>3. tags' \in [Versions -> Commits \cup {NoCommit}]
            BY <1>1, <1>2 DEF Types
        <2>4. EndedOnly(Ended(i, "done")) /\ ReleasesGrow(Ended(i, "done"))
            BY <1>6
        <2>5. run[releases'[v0]].commit = new.commit /\ releases'[v0] # 0
            BY <1>1, <1>3, <2>2
        <2> HIDE DEF new
        <2>6. QED
            BY <1>1, <1>2, <1>8, <2>2, <2>3, <2>4, <2>5, EnqueueKeeps DEF new
    <1>9. QED
        BY <1>7, <1>8 DEF CreateRelease

LEMMA TagKeeps ==
    ASSUME TypeOK, PipelineInv, NEW v \in Versions, NEW c \in Commits,
           tags' = [tags EXCEPT ![v] = c], Enqueue(run, Queued("version", v, c)),
           UNCHANGED <<images, releases, charts, withdrawn>>, budget' \in 0..MaxDisruptions
    PROVE  TypeOK' /\ PipelineInv'
    <1> DEFINE new == Queued("version", v, c)
    <1>1. Types
        BY TypeOKIs
    <1>2. c # NoCommit /\ tags' \in [Versions -> Commits \cup {NoCommit}]
          /\ tags'[v] = c /\ \A w \in Versions \ {v} : tags'[w] = tags[w]
        BY <1>1, ReleaseAssumption DEF Types
    <1>3. /\ new \in Runs /\ new.job = "version" /\ new.state = "queued" /\ new.version = v
        BY QueuedRun DEF Jobs
    <1>4. EndedOnly(run) /\ ReleasesGrow(run)
        BY <1>1, RunsThemselves, NoReleaseGrows
    <1> HIDE DEF new
    <1>5. Enqueue(run, new)
        BY DEF new
    <1>6. QED
        BY <1>2, <1>3, <1>4, <1>5, EnqueueKeeps

LEMMA RerunKeeps ==
    ASSUME TypeOK, PipelineInv, NEW i \in Ids, NEW job \in Jobs, Rerun(i, job)
    PROVE  TypeOK' /\ PipelineInv'
    <1> DEFINE new == Queued(job, run[i].version, run[i].commit)
               rs  == [run EXCEPT ![i].state = "rerun"]
    <1>1. Types /\ run[i] \in Runs /\ run[i].version \in Versions /\ LineageInv
        BY Facts
    <1>2. /\ run[i].state # "none" /\ job \in Restartable(run[i].job)
          /\ Enqueue(rs, new)
          /\ UNCHANGED <<tags, images, releases, charts, withdrawn>>
        BY DEF Rerun
    <1>3. budget' \in 0..MaxDisruptions
        BY <1>1, DisruptBudget DEF Rerun
    <1>4. run[i].commit \in Commits \cup {NoCommit}
        BY <1>1 DEF Runs
    <1>5. /\ new \in Runs /\ new.job = job /\ new.state = "queued"
          /\ new.version = run[i].version /\ new.commit = run[i].commit
        BY <1>1, <1>4, QueuedRun
    <1>6. EndedOnly(rs) /\ ReleasesGrow(rs)
        BY <1>1, <1>2, EndsOnly, NoReleaseGrows
    <1>7. /\ job = "release" => run[i].job = "release"
          /\ job \in {"handoff", "pages"} => run[i].job \in {"handoff", "pages"}
        BY <1>1, <1>2 DEF Restartable, Runs, Jobs
    <1>8. LET v == new.version
          IN  /\ new.job \in {"release", "handoff", "pages"} =>
                    images[v] # 0 /\ run[images[v]].commit = new.commit
              /\ new.job \in {"handoff", "pages"} =>
                    releases'[v] # 0 /\ run[releases'[v]].commit = new.commit
              /\ tags'[v] # NoCommit \/ v \in withdrawn
        BY <1>1, <1>2, <1>5, <1>7 DEF LineageInv, SameCommit
    <1>9. tags' \in [Versions -> Commits \cup {NoCommit}]
        BY <1>1, <1>2 DEF Types
    <1> HIDE DEF new, rs
    <1>10. QED
        BY <1>2, <1>3, <1>5, <1>6, <1>8, <1>9, EnqueueKeeps

LEMMA DeleteTagKeeps ==
    ASSUME TypeOK, PipelineInv, NEW v \in Versions, DeleteTag(v)
    PROVE  TypeOK' /\ PipelineInv'
    <1>1. Types /\ EndedOnly(run)
        BY TypeOKIs, RunsThemselves
    <1>2. ReleasesGrow(run)
        BY <1>1, NoReleaseGrows DEF DeleteTag
    <1>3. run' = run /\ EndedOnly(run') /\ ReleasesGrow(run')
        BY <1>1, <1>2 DEF DeleteTag
    <1>4. budget' \in 0..MaxDisruptions
        BY <1>1, DisruptBudget DEF DeleteTag
    <1>5. /\ tags' \in [Versions -> Commits \cup {NoCommit}] /\ withdrawn' \subseteq Versions
          /\ withdrawn \subseteq withdrawn'
          /\ \A w \in Versions : tags[w] # NoCommit => tags'[w] # NoCommit \/ w \in withdrawn'
        BY <1>1 DEF DeleteTag, Types
    <1>6. QED
        BY <1>3, <1>4, <1>5, EndedKeep DEF DeleteTag

LEMMA OtherRunKeeps ==
    ASSUME TypeOK, PipelineInv, OtherRunEnds
    PROVE  TypeOK' /\ PipelineInv'
    <1>1. Types
        BY TypeOKIs
    <1>2. /\ run' = Notified(run, "release")
          /\ UNCHANGED <<tags, images, releases, charts, count, withdrawn, budget>>
        BY DEF OtherRunEnds, Notified, WorkflowOf
    <1>3. EndedOnly(run')
        BY <1>1, <1>2, RunsThemselves, NotifiedEndsOnly
    <1>4. ReleasesGrow(run')
        BY <1>2, <1>3, NoReleaseGrows
    <1>5. budget' \in 0..MaxDisruptions
        BY <1>1, <1>2 DEF Types
    <1>6. /\ tags' \in [Versions -> Commits \cup {NoCommit}] /\ withdrawn' \subseteq Versions
        BY <1>1, <1>2 DEF Types
    <1>7. QED
        BY <1>2, <1>3, <1>4, <1>5, <1>6, EndedKeep

(***************************************************************************)
(* The invariant of the pipeline.                                          *)
(***************************************************************************)

LEMMA InitKeeps == Init => TypeOK /\ PipelineInv
    <1> SUFFICES ASSUME NEW c \in Main,
                        tags = [v \in Versions |-> IF v = 1 THEN c ELSE NoCommit],
                        images = [v \in Versions |-> IF v = 1 THEN 1 ELSE 0],
                        releases = images, charts = images,
                        run = [i \in Ids |-> IF i = 1
                                             THEN [Queued("pages", 1, c) EXCEPT !.state = "done"]
                                             ELSE NoRun],
                        count = 1, withdrawn = {}, budget = MaxDisruptions
                 PROVE  TypeOK /\ PipelineInv
        BY DEF Init
    <1>1. /\ MaxVersion \in Nat \ {0} /\ MaxRuns \in Nat \ {0} /\ MaxDisruptions \in Nat
          /\ c \in Commits /\ c # NoCommit /\ 1 \in Ids /\ 1 \in Versions
        BY ReleaseAssumption DEF Ids, Versions
    <1>2. NoCharts \in Charts
        BY <1>1 DEF NoCharts, Charts
    <1> DEFINE first == [Queued("pages", 1, c) EXCEPT !.state = "done"]
    <1>3. /\ first \in Runs /\ first.job = "pages" /\ first.state = "done"
          /\ first.version = 1 /\ first.commit = c
        BY <1>1, <1>2 DEF Queued, Runs, States, Jobs
    <1>4. NoRun \in Runs /\ NoRun.state = "none"
        BY <1>1, <1>2 DEF NoRun, Runs, States, Jobs
    <1> HIDE DEF first
    <1>5. run = [i \in Ids |-> IF i = 1 THEN first ELSE NoRun]
        BY DEF first
    <1>6. /\ run \in [Ids -> Runs] /\ run[1] = first
          /\ \A i \in Ids \ {1} : run[i].state = "none"
        BY <1>1, <1>3, <1>4, <1>5
    <1>7. images \in Charts /\ \A v \in Versions : images[v] = IF v = 1 THEN 1 ELSE 0
        BY <1>1 DEF Charts
    <1>8. Types
        BY <1>1, <1>6, <1>7 DEF Types
    <1>9. OneWaits
        BY <1>3, <1>6 DEF OneWaits
    <1>10. NumbersInv
        BY <1>1, <1>3, <1>6, <1>7 DEF NumbersInv, Ids
    <1>11. ExclusionInv
        BY <1>3, <1>6 DEF ExclusionInv, InProgress
    <1>12. LineageInv
        <2>1. \A i \in Ids : run[i].state # "none" => i = 1
            BY <1>6
        <2>2. /\ run[1].version = 1 /\ tags[1] # NoCommit
              /\ images[1] = 1 /\ releases[1] = 1
            BY <1>1, <1>3, <1>6, <1>7
        <2>3. QED
            BY <2>1, <2>2 DEF LineageInv, SameCommit
    <1>13. CheckedInv
        BY <1>3, <1>6 DEF CheckedInv
    <1>14. TagsInv /\ OneCommit
        BY <1>1, <1>7 DEF TagsInv, OneCommit, SameCommit
    <1>15. QED
        BY <1>8, <1>9, <1>10, <1>11, <1>12, <1>13, <1>14, TypeOKIs DEF PipelineInv

\* Every step of a workflow keeps the invariant.
LEMMA WorkflowKeeps ==
    ASSUME TypeOK, PipelineInv, NEW i \in Ids, Workflow(i)
    PROVE  TypeOK' /\ PipelineInv'
    <1>1. Types /\ budget \in 0..MaxDisruptions
        BY TypeOKIs DEF Types
    <1>2. CASE Refuse(i)
        BY <1>1, <1>2, EndKeeps DEF Refuse
    <1>3. CASE Break(i)
        <2>1. budget' \in 0..MaxDisruptions
            BY <1>1, <1>3, DisruptBudget DEF Break
        <2>2. QED
            BY <1>3, <2>1, EndKeeps DEF Break, InProgress
    <1>4. QED
        BY <1>2, <1>3, StartKeeps, CheckKeeps, PushImageKeeps, CreateReleaseKeeps,
           DownloadKeeps, DeployKeeps
        DEF Workflow

\* Every step of a person keeps the invariant.
LEMMA PeopleKeep ==
    ASSUME TypeOK, PipelineInv, People
    PROVE  TypeOK' /\ PipelineInv'
    <1>1. Types /\ budget \in 0..MaxDisruptions
        BY TypeOKIs DEF Types
    <1>2. ASSUME NEW v \in Versions, NEW c \in Commits, PushTag(v, c)
          PROVE  TypeOK' /\ PipelineInv'
        BY <1>1, <1>2, TagKeeps DEF PushTag
    <1>3. ASSUME NEW v \in Versions, NEW c \in Commits, MoveTag(v, c)
          PROVE  TypeOK' /\ PipelineInv'
        <2>1. budget' \in 0..MaxDisruptions
            BY <1>1, <1>3, DisruptBudget DEF MoveTag
        <2>2. QED
            BY <1>3, <2>1, TagKeeps DEF MoveTag
    <1>4. QED
        BY <1>2, <1>3, DeleteTagKeeps, RerunKeeps DEF People

LEMMA StutterKeeps ==
    ASSUME TypeOK, PipelineInv, UNCHANGED vars
    PROVE  TypeOK' /\ PipelineInv'
    BY DEF vars, TypeOK, OneWaits, PipelineInv, NumbersInv, ExclusionInv, LineageInv,
           CheckedInv, TagsInv, OneCommit, SameCommit

\* The pipeline's invariant: the runs are exclusive, what a job relies on
\* exists, and what its check has found still holds when it publishes.
THEOREM PipelineInvariant == Spec => [](TypeOK /\ PipelineInv)
    <1>1. TypeOK /\ PipelineInv /\ [Next]_vars => TypeOK' /\ PipelineInv'
        BY WorkflowKeeps, PeopleKeep, OtherRunKeeps, StutterKeeps DEF Next
    <1>2. QED
        BY <1>1, InitKeeps, PTL DEF Spec

\* The variables keep within their types, and of the runs of one concurrency
\* group at most one waits.
THEOREM TypeCorrect == Spec => []TypeOK
    BY PipelineInvariant, PTL

\* Image, release and chart of a version come of one commit, however its tag
\* moved while they were published.
THEOREM OneCommitPerVersion == Spec => []OneCommit
    <1>1. PipelineInv => OneCommit
        BY DEF PipelineInv
    <1>2. QED
        BY <1>1, PipelineInvariant, PTL

(***************************************************************************)
(* What is true besides while nothing has failed.                          *)
(***************************************************************************)

UndisturbedParts == UndisturbedRunsInv /\ NewestImageInv /\ CarriedInv

\* After a disruption the budget is no longer what it was in the beginning.
LEMMA DisruptedIsLess ==
    ASSUME Types, NEW kind, Disrupt(kind)
    PROVE  budget' # MaxDisruptions
    BY ReleaseAssumption DEF Types, Disrupt

\* When nothing has failed, a version with an image has kept its tag.
LEMMA UndisturbedFacts ==
    ASSUME TypeOK, PipelineInv, UndisturbedParts
    PROVE  /\ withdrawn = {} /\ Published # {}
           /\ \A v \in Versions : images[v] # 0 => tags[v] # NoCommit /\ tags[v] \in Main
           /\ \A v \in Versions : releases[v] # 0 => images[v] # 0
           /\ \A v \in Versions : charts[v] # 0 => releases[v] # 0 /\ images[v] # 0
           /\ \A i \in Ids : run[i].state # "none" =>
                 tags[run[i].version] = run[i].commit /\ run[i].commit # NoCommit
    BY Facts DEF UndisturbedParts, UndisturbedRunsInv, PipelineInv, TagsInv, OneCommit, LineageInv,
                 Types, Runs

\* A run that carries a version does so still when it is cancelled while it
\* waits.
LEMMA KeptCarries ==
    ASSUME NEW j \in Ids, Kept(run[j], run'[j]), NEW v \in Versions, Carries(j, v)
    PROVE  Carries(j, v)'
    BY DEF Kept, Carries, Carrying, InProgress

\* A step of one run that publishes nothing.
LEMMA UndisturbedMove ==
    ASSUME TypeOK, PipelineInv, UndisturbedParts, NEW i \in Ids,
           NEW job \in Jobs, NEW state \in States, NEW site \in Charts,
           Moves(i, job, state, site),
           UNCHANGED <<tags, images, releases, charts, withdrawn>>,
           run[i].state # "none", state # "queued",
           job = "image" /\ state = "publish" => run[i].commit \in Main,
           job = "release" /\ state \in InProgress =>
               run[i].job = "release" /\ run[i].state \in InProgress,
           Carrying(run[i].job, run[i].state) =>
               \/ Complete(run[i].version) \/ Overtaken(run[i].version)
               \/ Carrying(job, state)
    PROVE  UndisturbedParts'
    <1>1. UndisturbedRunsInv /\ NewestImageInv /\ CarriedInv
        BY DEF UndisturbedParts
    <1>2. \A j \in Ids : run'[j].version = run[j].version /\ run'[j].commit = run[j].commit
        BY DEF Moves, Kept
    <1>3. UndisturbedRunsInv'
        <2>1. withdrawn' = {} /\ (Published # {})'
            BY <1>1 DEF UndisturbedRunsInv, Published
        <2>2. ASSUME NEW j \in Ids
              PROVE  /\ run'[j].state # "none" => tags[run[j].version] = run[j].commit
                     /\ run'[j].state = "queued" => run'[j].job \in {"version", "handoff"}
                     /\ run'[j].job = "image" /\ run'[j].state = "publish" =>
                            run[j].commit \in Main
            BY <1>1, <1>2 DEF UndisturbedRunsInv, Moves, Kept
        <2>3. QED
            BY <1>1, <1>2, <2>1, <2>2 DEF UndisturbedRunsInv
    <1>4. NewestImageInv'
        <2>1. ASSUME NEW j \in Ids, run'[j].job = "release", run'[j].state \in InProgress
              PROVE  run[j].job = "release" /\ run[j].state \in InProgress
            BY <2>1 DEF Moves, Kept, InProgress
        <2>2. QED
            BY <1>1, <1>2, <2>1 DEF NewestImageInv
    <1>5. CarriedInv'
        <2> SUFFICES ASSUME NEW v \in Versions, images[v] # 0, ~Complete(v), ~Overtaken(v)
                     PROVE  \E j \in Ids : Carries(j, v)'
            BY DEF CarriedInv, Complete, Overtaken
        <2>1. PICK j \in Ids : Carries(j, v)
            BY <1>1 DEF CarriedInv
        <2>2. CASE j = i
            BY <1>2, <2>1, <2>2 DEF Carries, Moves, Carrying
        <2>3. CASE j # i
            BY <2>1, <2>3, KeptCarries DEF Moves
        <2>4. QED
            BY <2>2, <2>3
    <1>6. QED
        BY <1>3, <1>4, <1>5 DEF UndisturbedParts

LEMMA StartUndisturbed ==
    ASSUME TypeOK, PipelineInv, UndisturbedParts, NEW i \in Ids, Start(i)
    PROVE  UndisturbedParts'
    <1>1. Types /\ run[i] \in Runs
        BY Facts
    <1>2. run[i].state = "queued" /\ run[i].job \in {"version", "handoff"}
        BY DEF Start, UndisturbedParts, UndisturbedRunsInv
    <1>3. Moves(i, run[i].job, "check", run[i].site)
        BY <1>1, <1>2, StartMoves DEF FirstState
    <1>4. Carrying(run[i].job, run[i].state) => Carrying(run[i].job, "check")
        BY <1>2 DEF Carrying, InProgress
    <1>5. run[i].job \in Jobs /\ run[i].site \in Charts /\ "check" \in States
        BY <1>1 DEF Runs, States
    <1>6. QED
        BY <1>2, <1>3, <1>4, <1>5, UndisturbedMove DEF Start

LEMMA CheckUndisturbed ==
    ASSUME TypeOK, PipelineInv, UndisturbedParts, NEW i \in Ids, Check(i)
    PROVE  UndisturbedParts'
    <1>1. Types /\ run[i] \in Runs
        BY Facts
    <1>2. /\ run[i].state = "check" /\ run[i].commit \in Main
          /\ UNCHANGED <<tags, images, releases, charts, withdrawn>>
        BY DEF Check, Passes, CheckSource
    <1>3. run[i].site \in Charts /\ {"check", "read", "publish"} \subseteq States
        BY <1>1 DEF Runs, States
    <1>4. CASE run[i].job = "version" /\ Moves(i, "image", "check", run[i].site)
        <2>1. ~Carrying(run[i].job, run[i].state) /\ "image" \in Jobs
            BY <1>4 DEF Carrying, Jobs
        <2>2. QED
            BY <1>2, <1>3, <1>4, <2>1, UndisturbedMove
    <1>5. CASE run[i].job = "handoff" /\ Moves(i, "pages", "read", run[i].site)
        <2>1. Carrying("pages", "read") /\ "pages" \in Jobs
            BY DEF Carrying, Jobs, InProgress
        <2>2. QED
            BY <1>2, <1>3, <1>5, <2>1, UndisturbedMove
    <1>6. CASE /\ run[i].job \in {"image", "release", "pages"}
               /\ Moves(i, run[i].job, "publish", run[i].site)
        <2>1. /\ Carrying(run[i].job, run[i].state) => Carrying(run[i].job, "publish")
              /\ run[i].state \in InProgress /\ run[i].job \in Jobs
            BY <1>1, <1>2 DEF Carrying, InProgress, Runs
        <2>2. QED
            BY <1>2, <1>3, <1>6, <2>1, UndisturbedMove
    <1>7. QED
        BY <1>1, <1>4, <1>5, <1>6, CheckMoves

LEMMA DownloadUndisturbed ==
    ASSUME TypeOK, PipelineInv, UndisturbedParts, NEW i \in Ids, DownloadCharts(i)
    PROVE  UndisturbedParts'
    <1>1. Types /\ run[i] \in Runs /\ CheckedInv /\ charts \in Charts
        BY Facts DEF Types
    <1>2. /\ run[i].state = "read" /\ run[i].job = "pages"
          /\ UNCHANGED <<tags, images, releases, charts, withdrawn>>
        BY <1>1 DEF DownloadCharts, CheckedInv
    <1>3. Carrying("pages", "check") /\ "pages" \in Jobs /\ "check" \in States
        BY DEF Carrying, InProgress, Jobs, States
    <1>4. QED
        BY <1>1, <1>2, <1>3, DownloadMoves, UndisturbedMove

\* A check in front of the release or the chart would fail only when a newer
\* tag has come or there is nothing left to do.
LEMMA RefusedIsOvertaken ==
    ASSUME TypeOK, PipelineInv, UndisturbedParts, NEW i \in Ids,
           run[i].state # "none", ~Passes(run[i]),
           run[i].job \in {"release", "handoff", "pages"},
           run[i].job = "release" => run[i].state \in InProgress
    PROVE  Complete(run[i].version) \/ Overtaken(run[i].version)
    <1> DEFINE v == run[i].version
    <1> SUFFICES ASSUME ~Overtaken(v) PROVE Complete(v)
        OBVIOUS
    <1>1. run[i].version \in Versions /\ LineageInv /\ Versions \subseteq Nat
        BY Facts DEF Versions
    <1>2. /\ images[v] # 0
          /\ run[i].job \in {"handoff", "pages"} => releases[v] # 0
        BY <1>1 DEF LineageInv
    <1>3. run[i].job = "release" => releases[v] = 0
        BY DEF UndisturbedParts, NewestImageInv
    <1>4. CheckArtifacts(run[i].job, v)
        BY <1>2, <1>3 DEF CheckArtifacts
    <1>5. CheckSource(v, run[i].commit)
        BY <1>1, <1>2, UndisturbedFacts DEF CheckSource
    <1>6. PICK w \in Reserved(v) \cup Published : ~(v > w)
        BY <1>4, <1>5, UndisturbedFacts DEF Passes, CheckVersion
    <1>7. w \in Versions /\ tags[w] # NoCommit
        BY <1>6, UndisturbedFacts DEF Reserved, Published
    <1>8. w = v
        <2>1. ~(v > w) /\ ~(w > v)
            BY <1>6, <1>7 DEF Overtaken
        <2>2. v \in Nat /\ w \in Nat
            BY <1>1, <1>7
        <2> HIDE DEF v
        <2>3. QED
            BY <2>1, <2>2
    <1>9. charts[v] # 0
        BY <1>6, <1>8 DEF Reserved, Published
    <1>10. QED
        BY <1>1, <1>9, UndisturbedFacts DEF Complete

LEMMA RefuseUndisturbed ==
    ASSUME TypeOK, PipelineInv, UndisturbedParts, NEW i \in Ids, Refuse(i)
    PROVE  UndisturbedParts'
    <1>1. Types /\ run[i] \in Runs /\ NoCharts \in Charts
        BY Facts
    <1>2. /\ run[i].state = "check" /\ ~Passes(run[i]) /\ run' = Failed(i)
          /\ UNCHANGED <<tags, images, releases, charts, withdrawn>>
        BY DEF Refuse
    <1>3. Carrying(run[i].job, run[i].state) =>
              Complete(run[i].version) \/ Overtaken(run[i].version)
        BY <1>2, RefusedIsOvertaken DEF Carrying, InProgress
    <1>4. "failed" \in States \ {"none", "queued", "publish"} /\ "failed" \notin InProgress
        BY DEF States, InProgress
    <1>5. Moves(i, run[i].job, "failed", NoCharts)
        BY <1>1, <1>2, FailedMoves
    <1>6. run[i].job \in Jobs
        BY <1>1 DEF Runs
    <1>7. QED
        BY <1>1, <1>2, <1>3, <1>4, <1>5, <1>6, UndisturbedMove

LEMMA PushImageUndisturbed ==
    ASSUME TypeOK, PipelineInv, UndisturbedParts, NEW i \in Ids, PushImage(i),
           ~Disrupt("lost")
    PROVE  UndisturbedParts'
    <1> DEFINE v == run[i].version
    <1>1. /\ Types /\ run[i] \in Runs /\ run[i].version \in Versions /\ i # 0
          /\ CheckedInv /\ ExclusionInv /\ UndisturbedRunsInv /\ CarriedInv
          /\ Versions \subseteq Nat
        BY Facts DEF UndisturbedParts, Versions
    <1>2. /\ run[i].job = "image" /\ run[i].state = "publish"
          /\ images' = [images EXCEPT ![v] = i]
          /\ run' = [run EXCEPT ![i].job = "release", ![i].state = "check"]
          /\ UNCHANGED <<tags, releases, charts, withdrawn>>
        BY DEF PushImage
    <1>3. Moves(i, "release", "check", run[i].site)
        BY <1>1, <1>2 DEF Moves, Kept, Types, Runs, Jobs, States
    <1>4. /\ images'[v] = i /\ \A w \in Versions \ {v} : images'[w] = images[w]
          /\ releases[v] = 0 /\ \A w \in Versions : images[w] # 0 => w < v
        BY <1>1, <1>2, UndisturbedFacts DEF Types, Charts, CheckedInv
    <1>5. tags[v] = run[i].commit /\ run[i].commit \in Main
        BY <1>1, <1>2 DEF UndisturbedRunsInv
    <1>6. \A j \in Ids : run'[j].version = run[j].version /\ run'[j].commit = run[j].commit
        BY <1>3 DEF Moves, Kept
    <1>7. UndisturbedRunsInv'
        <2>1. withdrawn' = {} /\ (Published # {})'
            BY <1>1, <1>2 DEF UndisturbedRunsInv, Published
        <2>2. ASSUME NEW j \in Ids
              PROVE  /\ run'[j].state # "none" => tags[run[j].version] = run[j].commit
                     /\ run'[j].state = "queued" => run'[j].job \in {"version", "handoff"}
                     /\ run'[j].job = "image" /\ run'[j].state = "publish" =>
                            run[j].commit \in Main
            BY <1>1, <1>2, <1>3 DEF UndisturbedRunsInv, Moves, Kept
        <2>3. \A w \in Versions : images'[w] # 0 => tags[w] \in Main
            BY <1>1, <1>4, <1>5 DEF UndisturbedRunsInv
        <2>4. QED
            BY <1>2, <1>6, <2>1, <2>2, <2>3 DEF UndisturbedRunsInv
    <1>8. NewestImageInv'
        <2> SUFFICES ASSUME NEW j \in Ids, run'[j].job = "release", run'[j].state \in InProgress
                     PROVE  /\ releases[run[j].version] = 0
                            /\ \A w \in Versions : images'[w] # 0 => w <= run[j].version
            BY <1>2, <1>6 DEF NewestImageInv
        <2>1. j = i
            <3> SUFFICES ASSUME j # i PROVE FALSE
                OBVIOUS
            <3>1. run[j].job = "release" /\ run[j].state \in InProgress
                BY <1>3 DEF Moves, Kept, InProgress
            <3>2. Group(run[j]) = Group(run[i]) /\ run[i].state \in InProgress
                BY <1>2, <3>1 DEF Group, WorkflowOf, InProgress
            <3>3. QED
                BY <1>1, <3>1, <3>2 DEF ExclusionInv
        <2>2. ASSUME NEW w \in Versions, images'[w] # 0
              PROVE  w <= v
            <3>1. w \in Nat /\ v \in Nat /\ (w = v \/ w < v)
                BY <1>1, <1>4, <2>2
            <3> HIDE DEF v
            <3>2. QED
                BY <3>1
        <2>3. QED
            BY <1>4, <2>1, <2>2
    <1>9. CarriedInv'
        <2> SUFFICES ASSUME NEW w \in Versions, images'[w] # 0, ~Complete(w), ~Overtaken(w)
                     PROVE  \E j \in Ids : Carries(j, w)'
            BY <1>2 DEF CarriedInv, Complete, Overtaken
        <2>1. CASE w = v
            BY <1>3, <1>6, <2>1 DEF Carries, Carrying, Moves, InProgress
        <2>2. CASE w # v
            <3>1. PICK j \in Ids : Carries(j, w)
                BY <1>1, <1>4, <2>2 DEF CarriedInv
            <3>2. j # i
                BY <1>2, <3>1 DEF Carries, Carrying
            <3>3. QED
                BY <1>3, <3>1, <3>2, KeptCarries DEF Moves
        <2>3. QED
            BY <2>1, <2>2
    <1>10. QED
        BY <1>7, <1>8, <1>9 DEF UndisturbedParts

\* A run that is queued displaces runs that wait only.
LEMMA EnqueueDisplaces ==
    ASSUME Types, NumbersInv, NEW rs \in [Ids -> Runs], NEW new \in Runs, new.state = "queued",
           Enqueue(rs, new)
    PROVE  /\ run[count'].state = "none"
           /\ \A j \in Ids \ {count'} : Kept(rs[j], run'[j])
    <1>1. count' = count + 1 /\ count' \in Ids /\ count \in Nat
        BY EnqueueRun DEF Types
    <1>2. run[count'].state = "none"
        BY <1>1 DEF NumbersInv
    <1>3. QED
        BY <1>2, EnqueueRun DEF Kept

LEMMA CreateReleaseUndisturbed ==
    ASSUME TypeOK, PipelineInv, UndisturbedParts, NEW i \in Ids, CreateRelease(i),
           ~Disrupt("lost")
    PROVE  UndisturbedParts'
    <1> DEFINE v   == run[i].version
               rs  == Ended(i, "done")
               new == Queued("handoff", v, run[i].commit)
    <1>1. /\ Types /\ run[i] \in Runs /\ run[i].version \in Versions
          /\ run[i].commit \in Commits \cup {NoCommit} /\ i # 0
          /\ NumbersInv /\ ExclusionInv /\ LineageInv
          /\ UndisturbedRunsInv /\ NewestImageInv /\ CarriedInv
          /\ Versions \subseteq Nat
        BY Facts DEF UndisturbedParts, Versions, Runs
    <1>2. /\ run[i].job = "release" /\ run[i].state = "publish" /\ run[i].state \in InProgress
          /\ releases' = [releases EXCEPT ![v] = i]
          /\ Enqueue(rs, new)
          /\ UNCHANGED <<tags, images, charts, withdrawn>>
        BY DEF CreateRelease, InProgress
    <1>3. /\ new \in Runs /\ new.job = "handoff" /\ new.state = "queued"
          /\ new.version = v /\ new.commit = run[i].commit
        <2>1. v \in Versions /\ run[i].commit \in Commits \cup {NoCommit} /\ "handoff" \in Jobs
            BY <1>1 DEF Jobs
        <2> HIDE DEF v
        <2>2. QED
            BY <2>1, QueuedRun
    <1>4. /\ rs \in [Ids -> Runs]
          /\ rs[i].state = "done" /\ rs[i].job = "release"
          /\ rs[i].version = v /\ rs[i].commit = run[i].commit
          /\ \A j \in Ids \ {i} : rs[j] = run[j]
        <2>1. NoCharts \in Charts
            BY Facts
        <2>2. QED
            BY <1>1, <1>2, <2>1 DEF Ended, Types, Runs, States
    <1> HIDE DEF new, rs
    <1>5. /\ count' \in Ids /\ run'[count'] = new
          /\ \A j \in Ids \ {count'} :
                /\ run'[j].job = rs[j].job /\ run'[j].version = rs[j].version
                /\ run'[j].commit = rs[j].commit
                /\ run'[j].state = rs[j].state \/ run'[j].state = "cancelled"
          /\ run[count'].state = "none"
        BY <1>1, <1>2, <1>3, <1>4, EnqueueRun, EnqueueDisplaces
    <1>6. /\ releases'[v] = i /\ \A w \in Versions \ {v} : releases'[w] = releases[w]
          /\ tags[v] = run[i].commit
          /\ \A w \in Versions : images[w] # 0 => w <= v
        BY <1>1, <1>2 DEF Types, Charts, UndisturbedRunsInv, NewestImageInv
    <1>7. \A j \in Ids \ {count'} :
              run'[j].version = run[j].version /\ run'[j].commit = run[j].commit
              /\ run'[j].job = run[j].job
        BY <1>2, <1>4, <1>5
    <1>8. UndisturbedRunsInv'
        <2>1. withdrawn' = {} /\ (Published # {})'
            BY <1>1, <1>2 DEF UndisturbedRunsInv, Published
        <2>2. ASSUME NEW j \in Ids
              PROVE  /\ run'[j].state # "none" => tags[run'[j].version] = run'[j].commit
                     /\ run'[j].state = "queued" => run'[j].job \in {"version", "handoff"}
                     /\ run'[j].job = "image" /\ run'[j].state = "publish" =>
                            run'[j].commit \in Main
            <3>1. CASE j = count'
                BY <1>3, <1>5, <1>6, <3>1
            <3>2. CASE j # count'
                <4>1. run'[j].state \in {run[j].state, "done", "cancelled"}
                    BY <1>4, <1>5, <3>2
                <4>2. run'[j].state # "none" => run[j].state # "none"
                    BY <1>2, <1>4, <1>5, <3>2, EnqueueRun, <1>1, <1>3
                <4>3. QED
                    BY <1>1, <1>7, <3>2, <4>1, <4>2 DEF UndisturbedRunsInv
            <3>3. QED
                BY <3>1, <3>2
        <2>3. QED
            BY <1>1, <1>2, <2>1, <2>2 DEF UndisturbedRunsInv
    <1>9. NewestImageInv'
        <2> SUFFICES ASSUME NEW j \in Ids, run'[j].job = "release", run'[j].state \in InProgress
                     PROVE  FALSE
            BY DEF NewestImageInv
        <2>1. j # count' /\ j # i
            BY <1>2, <1>3, <1>4, <1>5 DEF InProgress
        <2>2. run[j].job = "release" /\ run[j].state \in InProgress
            BY <1>4, <1>5, <2>1 DEF InProgress
        <2>3. Group(run[j]) = Group(run[i])
            BY <1>2, <2>2 DEF Group
        <2>4. QED
            BY <1>1, <1>2, <2>1, <2>2, <2>3 DEF ExclusionInv
    <1>10. CarriedInv'
        <2> SUFFICES ASSUME NEW w \in Versions, images[w] # 0, ~Complete(w), ~Overtaken(w)
                     PROVE  \E j \in Ids : Carries(j, w)'
            <3>1. \A w \in Versions : Complete(w) => Complete(w)'
                BY <1>1, <1>2, <1>6 DEF Complete
            <3>2. QED
                BY <1>2, <3>1 DEF CarriedInv, Overtaken
        <2>1. CASE w = v
            BY <1>3, <1>5, <2>1 DEF Carries, Carrying
        <2>2. CASE w # v
            <3>1. w <= v /\ w \in Nat /\ v \in Nat /\ tags[v] # NoCommit
                BY <1>1, <1>2, <1>6, UndisturbedFacts DEF LineageInv
            <3>2. v > w
                <4> HIDE DEF v
                <4>1. QED
                    BY <2>2, <3>1
            <3>3. QED
                BY <1>1, <3>1, <3>2 DEF Overtaken
        <2>3. QED
            BY <2>1, <2>2
    <1>11. QED
        BY <1>8, <1>9, <1>10 DEF UndisturbedParts

LEMMA DeployUndisturbed ==
    ASSUME TypeOK, PipelineInv, UndisturbedParts, NEW i \in Ids, DeployPages(i),
           ~Disrupt("lost")
    PROVE  UndisturbedParts'
    <1> DEFINE v == run[i].version
    <1>1. /\ Types /\ run[i] \in Runs /\ run[i].version \in Versions /\ i # 0
          /\ CheckedInv /\ LineageInv
          /\ UndisturbedRunsInv /\ NewestImageInv /\ CarriedInv
        BY Facts DEF UndisturbedParts
    <1>2. /\ run[i].job = "pages" /\ run[i].state = "publish" /\ run[i].site = charts
          /\ charts' = [charts EXCEPT ![v] = i]
          /\ run' = Ended(i, "done")
          /\ UNCHANGED <<tags, images, releases, withdrawn>>
        BY <1>1 DEF DeployPages, CheckedInv
    <1>3. Moves(i, "pages", "done", NoCharts)
        <2>1. "done" \in States
            BY DEF States
        <2>2. QED
            BY <1>1, <1>2, <2>1, EndedMoves
    <1>4. charts'[v] = i /\ \A w \in Versions \ {v} : charts'[w] = charts[w]
        BY <1>1, <1>2 DEF Types, Charts
    <1>5. \A j \in Ids : run'[j].version = run[j].version /\ run'[j].commit = run[j].commit
        BY <1>3 DEF Moves, Kept
    <1>6. UndisturbedRunsInv'
        <2>1. withdrawn' = {} /\ (Published # {})'
            BY <1>1, <1>2, <1>4 DEF UndisturbedRunsInv, Published
        <2>2. ASSUME NEW j \in Ids
              PROVE  /\ run'[j].state # "none" => tags[run[j].version] = run[j].commit
                     /\ run'[j].state = "queued" => run'[j].job \in {"version", "handoff"}
                     /\ run'[j].job = "image" /\ run'[j].state = "publish" =>
                            run[j].commit \in Main
            BY <1>1, <1>2, <1>3 DEF UndisturbedRunsInv, Moves, Kept
        <2>3. QED
            BY <1>1, <1>2, <1>5, <2>1, <2>2 DEF UndisturbedRunsInv
    <1>7. NewestImageInv'
        <2>1. ASSUME NEW j \in Ids, run'[j].job = "release", run'[j].state \in InProgress
              PROVE  run[j].job = "release" /\ run[j].state \in InProgress
            BY <1>3, <2>1 DEF Moves, Kept, InProgress
        <2>2. QED
            BY <1>1, <1>2, <1>5, <2>1 DEF NewestImageInv
    <1>8. CarriedInv'
        <2>1. ASSUME NEW w \in Versions, Complete(w) \/ w = v
              PROVE  Complete(w)'
            BY <1>1, <1>2, <1>4, <2>1 DEF Complete, LineageInv
        <2>2. ASSUME NEW w \in Versions, w # v, NEW j \in Ids, Carries(j, w)
              PROVE  Carries(j, w)'
            BY <1>1, <1>2, <1>3, <2>2, KeptCarries DEF Moves, Carries
        <2>3. ASSUME NEW w \in Versions, images[w] # 0
              PROVE  (Complete(w) \/ Overtaken(w) \/ \E j \in Ids : Carries(j, w))'
            <3>1. CASE Complete(w) \/ w = v
                BY <2>1, <3>1
            <3>2. CASE Overtaken(w)
                BY <1>2, <3>2 DEF Overtaken
            <3>3. CASE w # v /\ \E j \in Ids : Carries(j, w)
                BY <2>2, <3>3
            <3>4. QED
                BY <1>1, <2>3, <3>1, <3>2, <3>3 DEF CarriedInv
        <2>4. QED
            BY <1>2, <2>3 DEF CarriedInv
    <1>9. QED
        BY <1>6, <1>7, <1>8 DEF UndisturbedParts

\* A tag that is pushed displaces runs that have published nothing.
LEMMA PushTagUndisturbed ==
    ASSUME TypeOK, PipelineInv, UndisturbedParts,
           NEW v \in Versions, NEW c \in Commits, PushTag(v, c)
    PROVE  UndisturbedParts'
    <1> DEFINE new == Queued("version", v, c)
    <1>1. /\ Types /\ NumbersInv /\ run \in [Ids -> Runs] /\ c # NoCommit
          /\ UndisturbedRunsInv /\ NewestImageInv /\ CarriedInv
        <2>1. c # NoCommit
            BY ReleaseAssumption
        <2>2. Types
            BY TypeOKIs
        <2>3. run \in [Ids -> Runs]
            BY <2>2 DEF Types
        <2>4. QED
            BY <2>1, <2>2, <2>3 DEF UndisturbedParts, PipelineInv
    <1>2. /\ tags[v] = NoCommit /\ tags' = [tags EXCEPT ![v] = c]
          /\ Enqueue(run, new)
          /\ UNCHANGED <<images, releases, charts, withdrawn>>
        BY DEF PushTag
    <1>3. tags'[v] = c /\ \A w \in Versions \ {v} : tags'[w] = tags[w]
        BY <1>1, <1>2 DEF Types
    <1>4. /\ new \in Runs /\ new.job = "version" /\ new.state = "queued"
          /\ new.version = v /\ new.commit = c
        <2>1. "version" \in Jobs
            BY DEF Jobs
        <2>2. QED
            BY <2>1, QueuedRun
    <1> HIDE DEF new
    <1>5. /\ count' \in Ids /\ run'[count'] = new
          /\ \A j \in Ids \ {count'} : Kept(run[j], run'[j])
          /\ run[count'].state = "none"
        <2>1. new.state = "queued" /\ new \in Runs /\ Enqueue(run, new)
            BY <1>2, <1>4 DEF new
        <2>2. QED
            BY <1>1, <2>1, EnqueueRun, EnqueueDisplaces
    <1>6. UndisturbedRunsInv'
        <2>1. withdrawn' = {} /\ (Published # {})'
            BY <1>1, <1>2 DEF UndisturbedRunsInv, Published
        <2>2. ASSUME NEW j \in Ids
              PROVE  /\ run'[j].state # "none" => tags'[run'[j].version] = run'[j].commit
                     /\ run'[j].state = "queued" => run'[j].job \in {"version", "handoff"}
                     /\ run'[j].job = "image" /\ run'[j].state = "publish" =>
                            run'[j].commit \in Main
            <3>1. CASE j = count'
                BY <1>3, <1>4, <1>5, <3>1
            <3>2. CASE j # count'
                <4>1. run[j].version \in Versions
                    BY <1>1 DEF Runs
                <4>2. run'[j].state # "none" => run[j].state # "none"
                    BY <1>5, <3>2 DEF Kept
                <4>3. run[j].state # "none" => run[j].version # v
                    BY <1>2, UndisturbedFacts
                <4>4. QED
                    BY <1>1, <1>3, <1>5, <3>2, <4>1, <4>2, <4>3 DEF UndisturbedRunsInv, Kept
            <3>3. QED
                BY <3>1, <3>2
        <2>3. \A w \in Versions : images[w] # 0 => tags'[w] \in Main
            BY <1>2, <1>3, UndisturbedFacts
        <2>4. QED
            BY <1>2, <2>1, <2>2, <2>3 DEF UndisturbedRunsInv
    <1>7. NewestImageInv'
        <2>1. ASSUME NEW j \in Ids, run'[j].job = "release", run'[j].state \in InProgress
              PROVE  /\ run[j].job = "release" /\ run[j].state \in InProgress
                     /\ run'[j].version = run[j].version
            BY <1>4, <1>5, <2>1 DEF InProgress, Kept
        <2>2. QED
            BY <1>1, <1>2, <2>1 DEF NewestImageInv
    <1>8. CarriedInv'
        <2>1. ASSUME NEW w \in Versions, NEW j \in Ids, Carries(j, w)
              PROVE  Carries(j, w)'
            <3>1. j # count'
                BY <1>5, <2>1 DEF Carries, Carrying, InProgress
            <3>2. QED
                BY <1>5, <2>1, <3>1, KeptCarries
        <2>2. ASSUME NEW w \in Versions, Overtaken(w)
              PROVE  Overtaken(w)'
            BY <1>1, <1>3, <2>2 DEF Overtaken
        <2>3. QED
            BY <1>1, <1>2, <2>1, <2>2 DEF CarriedInv, Complete
    <1>9. QED
        BY <1>6, <1>7, <1>8 DEF UndisturbedParts

\* A run of another branch that ends cancels runs that wait only.
LEMMA OtherRunUndisturbed ==
    ASSUME TypeOK, PipelineInv, UndisturbedParts, OtherRunEnds
    PROVE  UndisturbedParts'
    <1>1. /\ Types /\ run \in [Ids -> Runs]
          /\ UndisturbedRunsInv /\ NewestImageInv /\ CarriedInv
        BY TypeOKIs DEF UndisturbedParts, Types
    <1>2. /\ run' = Notified(run, "release")
          /\ UNCHANGED <<tags, images, releases, charts, withdrawn>>
        BY DEF OtherRunEnds, Notified, WorkflowOf
    <1>3. \A j \in Ids : Kept(run[j], run'[j])
        BY <1>1, <1>2, NotifiedRuns
    <1>4. UndisturbedRunsInv'
        BY <1>1, <1>2, <1>3 DEF UndisturbedRunsInv, Published, Kept
    <1>5. NewestImageInv'
        BY <1>1, <1>2, <1>3 DEF NewestImageInv, InProgress, Kept
    <1>6. CarriedInv'
        BY <1>1, <1>2, <1>3, KeptCarries DEF CarriedInv, Complete, Overtaken
    <1>7. QED
        BY <1>4, <1>5, <1>6 DEF UndisturbedParts

LEMMA InitUndisturbed == Init => UndisturbedInv
    <1> SUFFICES ASSUME NEW c \in Main,
                        tags = [v \in Versions |-> IF v = 1 THEN c ELSE NoCommit],
                        images = [v \in Versions |-> IF v = 1 THEN 1 ELSE 0],
                        releases = images, charts = images,
                        run = [i \in Ids |-> IF i = 1
                                             THEN [Queued("pages", 1, c) EXCEPT !.state = "done"]
                                             ELSE NoRun],
                        withdrawn = {}
                 PROVE  UndisturbedParts
        BY DEF Init, UndisturbedInv, UndisturbedParts
    <1>1. 1 \in Versions /\ 1 \in Ids
        BY ReleaseAssumption DEF Versions, Ids
    <1>2. /\ tags[1] = c /\ images[1] = 1 /\ releases[1] = 1 /\ charts[1] = 1
          /\ \A v \in Versions \ {1} : images[v] = 0
        BY <1>1
    <1>3. /\ run[1].state = "done" /\ run[1].version = 1 /\ run[1].commit = c
          /\ \A i \in Ids \ {1} : run[i].state = "none"
        BY <1>1 DEF Queued, NoRun
    <1>4. UndisturbedRunsInv
        <2>1. Published # {}
            BY <1>1, <1>2 DEF Published
        <2>2. ASSUME NEW i \in Ids
              PROVE  /\ run[i].state # "none" => tags[run[i].version] = run[i].commit
                     /\ run[i].state \notin {"queued", "publish"}
            BY <1>2, <1>3
        <2>3. \A v \in Versions : images[v] # 0 => tags[v] \in Main
            BY <1>2
        <2>4. QED
            BY <2>1, <2>2, <2>3 DEF UndisturbedRunsInv
    <1>5. NewestImageInv
        BY <1>3 DEF NewestImageInv, InProgress
    <1>6. CarriedInv
        BY <1>2 DEF CarriedInv, Complete
    <1>7. QED
        BY <1>4, <1>5, <1>6 DEF UndisturbedParts

LEMMA UndisturbedStep ==
    ASSUME TypeOK, PipelineInv, UndisturbedInv, [Next]_vars
    PROVE  UndisturbedInv'
    <1> SUFFICES ASSUME budget' = MaxDisruptions
                 PROVE  UndisturbedParts'
        BY DEF UndisturbedInv, UndisturbedParts
    <1>1. Types /\ budget \in 0..MaxDisruptions /\ MaxDisruptions \in Nat
        BY TypeOKIs, ReleaseAssumption DEF Types
    <1>2. ~Disrupt("outage") /\ ~Disrupt("lost") /\ ~Disrupt("move") /\ ~Disrupt("delete")
          /\ ~Disrupt("rerun")
        BY <1>1, DisruptedIsLess
    <1>3. budget' = budget
        BY <1>2 DEF Next, vars, Workflow, People, Start, Check, Refuse, Break, PushImage,
                    CreateRelease, DownloadCharts, DeployPages, PushTag, MoveTag, DeleteTag,
                    Rerun, OtherRunEnds
    <1>4. UndisturbedParts
        BY <1>3 DEF UndisturbedInv, UndisturbedParts
    <1>5. ASSUME NEW i \in Ids, Workflow(i)
          PROVE  UndisturbedParts'
        BY <1>2, <1>4, <1>5, StartUndisturbed, CheckUndisturbed, RefuseUndisturbed,
           PushImageUndisturbed, CreateReleaseUndisturbed, DownloadUndisturbed,
           DeployUndisturbed
        DEF Workflow, Break
    <1>6. ASSUME People
          PROVE  UndisturbedParts'
        BY <1>2, <1>4, <1>6, PushTagUndisturbed DEF People, MoveTag, DeleteTag, Rerun
    <1>7. CASE UNCHANGED vars
        BY <1>4, <1>7 DEF vars, UndisturbedParts, UndisturbedRunsInv, NewestImageInv, CarriedInv,
                          Published, Complete, Overtaken, Carries
    <1>8. QED
        BY <1>4, <1>5, <1>6, <1>7, OtherRunUndisturbed DEF Next

\* As long as nothing fails, a version with an image is complete, or a run is
\* about to complete it, or one that would have was cancelled while it waited,
\* or a newer tag has come.
THEOREM UndisturbedInvariant == Spec => []UndisturbedInv
    <1>1. TypeOK /\ PipelineInv /\ UndisturbedInv /\ [Next]_vars => UndisturbedInv'
        BY UndisturbedStep
    <1>2. QED
        BY <1>1, InitUndisturbed, PipelineInvariant, PTL DEF Spec

\* A publication that stops halfway, though nothing failed and no newer tag was
\* pushed, has lost its place in the queue of Publish Helm and nothing else:
\* its release exists, and the check would accept its run a second time.
THEOREM LeftHalfwayIsResumable == Spec => []HalfwayIsResumable
    <1>1. TypeOK /\ PipelineInv /\ UndisturbedInv => HalfwayIsResumable
        <2> SUFFICES ASSUME TypeOK, PipelineInv, UndisturbedInv, Quiet, budget = MaxDisruptions,
                            NEW v \in Versions, images[v] # 0, ~Complete(v), ~Overtaken(v)
                     PROVE  \E i \in Ids : run[i].version = v /\ Resumable(i)
            BY DEF HalfwayIsResumable
        <2>1. UndisturbedParts
            BY DEF UndisturbedInv, UndisturbedParts
        <2>2. PICK i \in Ids : Carries(i, v)
            BY <2>1 DEF UndisturbedParts, CarriedInv
        <2>3. run[i].version = v /\ run[i].job = "handoff" /\ run[i].state = "cancelled"
            BY <2>2 DEF Quiet, Carries, Carrying
        <2>4. Passes(run[i])
            BY <2>1, <2>3, RefusedIsOvertaken
        <2>5. QED
            BY <2>3, <2>4 DEF Resumable
    <1>2. QED
        BY <1>1, PipelineInvariant, UndisturbedInvariant, PTL

(***************************************************************************)
(* What no step does.                                                      *)
(***************************************************************************)

\* The only steps that publish.
LEMMA Publications ==
    ASSUME TypeOK, Next
    PROVE  /\ images' # images => \E i \in Ids : PushImage(i)
           /\ releases' # releases => \E i \in Ids : CreateRelease(i)
           /\ charts' # charts => \E i \in Ids : DeployPages(i)
    BY DEF Next, Workflow, People, Start, Check, Refuse, Break, PushImage, CreateRelease,
           DownloadCharts, DeployPages, PushTag, MoveTag, DeleteTag, Rerun, OtherRunEnds

\* A publication is of a version that had none of its kind, and newer than
\* the others.
LEMMA PublishedOnce ==
    ASSUME TypeOK, PipelineInv, [Next]_vars, NEW v \in Versions
    PROVE  /\ images'[v] # images[v] =>
                images[v] = 0 /\ \A w \in Versions : images[w] # 0 => w < v \/ w \in withdrawn
           /\ releases'[v] # releases[v] => releases[v] = 0
           /\ charts'[v] # charts[v] =>
                charts[v] = 0 /\ \A w \in Versions : charts[w] # 0 => w < v
    <1>1. /\ Types /\ CheckedInv
        BY TypeOKIs DEF PipelineInv
    <1>2. \A i \in Ids : run[i].version \in Versions
        BY <1>1 DEF Types, Runs
    <1>3. ASSUME images'[v] # images[v]
          PROVE  images[v] = 0 /\ \A w \in Versions : images[w] # 0 => w < v \/ w \in withdrawn
        <2>1. PICK i \in Ids : PushImage(i)
            BY <1>3, Publications DEF vars
        <2>2. run[i].version = v
            BY <1>1, <1>2, <1>3, <2>1 DEF PushImage, Types, Charts
        <2>3. QED
            BY <1>1, <2>1, <2>2 DEF PushImage, CheckedInv
    <1>4. ASSUME releases'[v] # releases[v]
          PROVE  releases[v] = 0
        <2>1. PICK i \in Ids : CreateRelease(i)
            BY <1>4, Publications DEF vars
        <2>2. run[i].version = v
            BY <1>1, <1>2, <1>4, <2>1 DEF CreateRelease, Types, Charts
        <2>3. QED
            BY <1>1, <2>1, <2>2 DEF CreateRelease, CheckedInv
    <1>5. ASSUME charts'[v] # charts[v]
          PROVE  charts[v] = 0 /\ \A w \in Versions : charts[w] # 0 => w < v
        <2>1. PICK i \in Ids : DeployPages(i)
            BY <1>5, Publications DEF vars
        <2>2. run[i].site = charts /\ \A w \in Versions : charts[w] # 0 => w < run[i].version
            BY <1>1, <2>1 DEF DeployPages, CheckedInv
        <2>3. run[i].version = v
            BY <1>1, <1>2, <1>5, <2>1, <2>2 DEF DeployPages, Types, Charts
        <2>4. v \in Nat
            BY DEF Versions
        <2>5. QED
            BY <2>2, <2>3, <2>4
    <1>6. QED
        BY <1>3, <1>4, <1>5

\* A published image or release is never published again.
THEOREM NothingRepublished == Spec => ArtifactsFinal
    <1>1. TypeOK /\ PipelineInv /\ [Next]_vars =>
              [\A v \in Versions : /\ images[v] # 0 => images'[v] = images[v]
                                   /\ releases[v] # 0 => releases'[v] = releases[v]]_vars
        BY PublishedOnce
    <1>2. QED
        BY <1>1, PipelineInvariant, PTL DEF Spec, ArtifactsFinal

\* No deployment of the site loses or replaces a chart.
THEOREM HistoryIsKept == Spec => HistoryKept
    <1>1. TypeOK /\ PipelineInv /\ [Next]_vars =>
              [\A v \in Versions : charts[v] # 0 => charts'[v] = charts[v]]_vars
        BY PublishedOnce
    <1>2. QED
        BY <1>1, PipelineInvariant, PTL DEF Spec, HistoryKept

\* No chart is published after that of a newer version.
THEOREM ChartsComeInOrder == Spec => ChartsInOrder
    <1>1. TypeOK /\ PipelineInv /\ [Next]_vars =>
              [\A v, w \in Versions :
                  charts[v] = 0 /\ charts'[v] # 0 /\ charts[w] # 0 => w < v]_vars
        BY PublishedOnce
    <1>2. QED
        BY <1>1, PipelineInvariant, PTL DEF Spec, ChartsInOrder

\* No image takes a moving tag back from that of a newer version whose tag
\* was left in place.
THEOREM MovingTagsOnlyForward == Spec => MovingTagsForward
    <1>1. TypeOK /\ PipelineInv /\ [Next]_vars =>
              [\A v, w \in Versions :
                  images[v] = 0 /\ images'[v] # 0 /\ images[w] # 0
                     => w < v \/ w \in withdrawn]_vars
        BY PublishedOnce
    <1>2. QED
        BY <1>1, PipelineInvariant, PTL DEF Spec, MovingTagsForward

=============================================================================
