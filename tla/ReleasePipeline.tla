--------------------------- MODULE ReleasePipeline ---------------------------
(***************************************************************************)
(* The publication of a version: the checks of scripts/release_check.py    *)
(* and the workflows release.yml and publish-helm.yml that make them.      *)
(*                                                                         *)
(* A version tag that reaches the GitHub mirror starts a run of Release,   *)
(* which publishes the image and then the release; its success starts a    *)
(* run of Publish Helm Repository, which publishes the chart.  Every job   *)
(* checks once more what it is about to publish, and anybody may run a job *)
(* again.  Runs of one workflow are serialised; GitHub keeps one of them   *)
(* waiting and cancels it when the next one comes.  A run of Release that  *)
(* ends otherwise starts a run of Publish Helm Repository, too, which has  *)
(* nothing to do but may cancel one that waits.                            *)
(***************************************************************************)
EXTENDS Naturals

CONSTANTS
    MaxVersion,        \* bound: versions, in their order
    Commits, NoCommit, \* commits; no commit
    Main,              \* the commits merged into main
    Disruptions,       \* the kinds of disruption that happen
    MaxRuns,           \* bound: runs of the two workflows
    MaxDisruptions     \* bound: disruptions in a behaviour

Versions == 1..MaxVersion
Ids == 1..MaxRuns

ASSUME ReleaseAssumption ==
    /\ MaxVersion \in Nat \ {0} /\ MaxRuns \in Nat \ {0} /\ MaxDisruptions \in Nat
    /\ Main \subseteq Commits
    /\ Main # {}
    /\ NoCommit \notin Commits
    /\ Disruptions \subseteq {"outage", "lost", "move", "delete", "rerun"}

VARIABLES
    tags,       \* the commit each version's tag names in the mirror
    images,     \* the run that pushed a version's image, or 0
    releases,   \* the run that made its release, or 0
    charts,     \* the run that published its chart, or 0
    run,        \* the runs of the two workflows
    count,      \* how many there have been
    withdrawn,  \* versions whose tag was once deleted (history)
    budget      \* disruptions left

vars == <<tags, images, releases, charts, run, count, withdrawn, budget>>

-----------------------------------------------------------------------------
(* Runs.                                                                   *)

\* Release: "version", "image", "release".  Publish Helm: "handoff", "pages".
Jobs == {"version", "image", "release", "handoff", "pages"}

WorkflowOf(job) == IF job \in {"handoff", "pages"} THEN "pages" ELSE "release"

\* A job reads the published charts, checks, and publishes.
States == {"none", "queued", "read", "check", "publish",
           "done", "failed", "cancelled", "rerun"}

InProgress == {"read", "check", "publish"}

Charts == [Versions -> 0..MaxRuns]

NoCharts == [v \in Versions |-> 0]

\* site is the chart history a run of "pages" has downloaded.
Runs == [job : Jobs, state : States, version : Versions,
         commit : Commits \cup {NoCommit}, site : Charts]

NoRun == [job |-> "version", state |-> "none", version |-> 1,
          commit |-> NoCommit, site |-> NoCharts]

Queued(job, v, c) ==
    [job |-> job, state |-> "queued", version |-> v, commit |-> c, site |-> NoCharts]

FirstState(job) == IF job = "pages" THEN "read" ELSE "check"

NextJob(job) == IF job = "version" THEN "image" ELSE "pages"

\* The jobs a person may start again: the last one and those before it.
Restartable(job) ==
    CASE job = "version" -> {"version"}
      [] job = "image"   -> {"version", "image"}
      [] job = "release" -> {"version", "image", "release"}
      [] job = "handoff" -> {"handoff"}
      [] job = "pages"   -> {"handoff", "pages"}

\* The concurrency group of a run.
Group(r) == <<WorkflowOf(r.job)>>

\* Seeded fault: a group that keeps every waiting run.
DisplacedNever(r, new) == FALSE

\* Seeded fault: cancel-in-progress.
DisplacedInProgress(r, new) ==
    r.state \in {"queued"} \cup InProgress /\ Group(r) = Group(new)

\* A run that waits is cancelled by the next one of its group.
Displaced(r, new) == r.state = "queued" /\ Group(r) = Group(new)

Busy(group) == \E i \in Ids : run[i].state \in InProgress /\ Group(run[i]) = group

\* The run of Publish Helm that comes of a run of Release that did not succeed
\* or was none of a tag: its first job is skipped.
Idle == Queued("handoff", 1, NoCommit)

\* The runs rs once an idle run has come.  While another run is in progress it
\* waits, and takes the place of the one that waited; it ends when it starts.
WithIdle(rs) ==
    [i \in Ids |-> IF Busy(Group(Idle)) /\ Displaced(rs[i], Idle)
                   THEN [rs[i] EXCEPT !.state = "cancelled"] ELSE rs[i]]

\* The runs rs after a run of this job has ended and published nothing more.
Notified(rs, job) == IF WorkflowOf(job) = "release" THEN WithIdle(rs) ELSE rs

\* The runs rs, and a new one that waits in its group.
Queueing(rs, new) ==
    [i \in Ids |-> IF i = count + 1 THEN new
                   ELSE IF Displaced(rs[i], new) THEN [rs[i] EXCEPT !.state = "cancelled"]
                   ELSE rs[i]]

Enqueue(rs, new) ==
    /\ count < MaxRuns
    /\ count' = count + 1
    /\ run' = IF \E i \in Ids : Displaced(rs[i], new)
              THEN Notified(Queueing(rs, new), new.job) ELSE Queueing(rs, new)

Start(i) ==
    /\ run[i].state = "queued"
    /\ ~Busy(Group(run[i]))
    /\ run' = [run EXCEPT ![i].state = FirstState(run[i].job)]
    /\ UNCHANGED <<tags, images, releases, charts, count, withdrawn, budget>>

-----------------------------------------------------------------------------
(* The check.                                                              *)

Disrupt(kind) ==
    /\ kind \in Disruptions
    /\ budget > 0
    /\ budget' = budget - 1

\* check_source and the test of ancestry: the tag names this commit, which
\* has been merged.
CheckSource(v, c) == tags[v] = c /\ c \in Main

Reserved(v) == {w \in Versions \ {v} : tags[w] # NoCommit}

Published == {v \in Versions : charts[v] # 0}

\* Seeded fault: a change that trusts the tags to record what is published.
NewerThanTags(v) == Published # {} /\ \A w \in Reserved(v) : v > w

\* Seeded fault: a change that compares with the published charts only.
NewerThanCharts(v) == Published # {} /\ \A w \in Published : v > w

\* check_version and published_versions: newer than every other tag and
\* than every published chart, of which there is one.
CheckVersion(v) == Published # {} /\ \A w \in Reserved(v) \cup Published : v > w

\* Seeded fault: a change that looks for artifacts before it publishes the
\* release and the chart only.
ArtifactsReadyLater(job, v) ==
    /\ job = "release" => images[v] # 0 /\ releases[v] = 0
    /\ job \in {"handoff", "pages"} => images[v] # 0 /\ releases[v] # 0

\* check_artifacts: a stage finds what comes before it and nothing of its own.
CheckArtifacts(job, v) ==
    /\ job \in {"version", "image"} => images[v] = 0 /\ releases[v] = 0
    /\ job = "release" => images[v] # 0 /\ releases[v] = 0
    /\ job \in {"handoff", "pages"} => images[v] # 0 /\ releases[v] # 0

\* Seeded fault: a change that lets a repeated job rely on the first check.
PassesOnce(r) ==
    \/ r.job = "image"
    \/ /\ CheckSource(r.version, r.commit)
       /\ CheckVersion(r.version)
       /\ CheckArtifacts(r.job, r.version)

Passes(r) ==
    /\ CheckSource(r.version, r.commit)
    /\ CheckVersion(r.version)
    /\ CheckArtifacts(r.job, r.version)

Check(i) ==
    /\ run[i].state = "check"
    /\ Passes(run[i])
    /\ run' = IF run[i].job \in {"version", "handoff"}
              THEN [run EXCEPT ![i].job = NextJob(@), ![i].state = FirstState(NextJob(run[i].job))]
              ELSE [run EXCEPT ![i].state = "publish"]
    /\ UNCHANGED <<tags, images, releases, charts, count, withdrawn, budget>>

Ended(i, state) == [run EXCEPT ![i].state = state, ![i].site = NoCharts]

Failed(i) == Notified(Ended(i, "failed"), run[i].job)

Refuse(i) ==
    /\ run[i].state = "check"
    /\ ~Passes(run[i])
    /\ run' = Failed(i)
    /\ UNCHANGED <<tags, images, releases, charts, count, withdrawn, budget>>

\* A lookup or any other part of a job fails, an artifact that was published
\* does not become visible in time, or the run is cancelled by hand.
Break(i) ==
    /\ run[i].state \in InProgress
    /\ Disrupt("outage")
    /\ run' = Failed(i)
    /\ UNCHANGED <<tags, images, releases, charts, count, withdrawn>>

-----------------------------------------------------------------------------
(* Publication.  The reply may be lost: the job fails, and has published.  *)

PushImage(i) ==
    /\ run[i].job = "image" /\ run[i].state = "publish"
    /\ images' = [images EXCEPT ![run[i].version] = i]
    /\ \/ /\ run' = [run EXCEPT ![i].job = "release", ![i].state = "check"]
          /\ UNCHANGED budget
       \/ /\ Disrupt("lost")
          /\ run' = Failed(i)
    /\ UNCHANGED <<tags, releases, charts, count, withdrawn>>

\* The success of Release starts Publish Helm Repository (workflow_run).
CreateRelease(i) ==
    /\ run[i].job = "release" /\ run[i].state = "publish"
    /\ releases' = [releases EXCEPT ![run[i].version] = i]
    /\ \/ /\ Enqueue(Ended(i, "done"),
                     Queued("handoff", run[i].version, run[i].commit))
          /\ UNCHANGED budget
       \/ /\ Disrupt("lost")
          /\ run' = Failed(i)
          /\ UNCHANGED count
    /\ UNCHANGED <<tags, images, charts, withdrawn>>

\* Seeded fault: a failed read that leaves an empty directory and goes on.
EmptyHistory == NoCharts

\* The packages and the index of the published repository; a read that fails
\* stops the job.
History == charts

DownloadCharts(i) ==
    /\ run[i].state = "read"
    /\ run' = [run EXCEPT ![i].site = History, ![i].state = "check"]
    /\ UNCHANGED <<tags, images, releases, charts, count, withdrawn, budget>>

\* The whole site is deployed: the charts downloaded, and the new one.
DeployPages(i) ==
    /\ run[i].job = "pages" /\ run[i].state = "publish"
    /\ charts' = [run[i].site EXCEPT ![run[i].version] = i]
    /\ \/ /\ run' = Ended(i, "done")
          /\ UNCHANGED budget
       \/ /\ Disrupt("lost")
          /\ run' = Failed(i)
    /\ UNCHANGED <<tags, images, releases, count, withdrawn>>

-----------------------------------------------------------------------------
(* People, and the other runs of Release.                                  *)

PushTag(v, c) ==
    /\ tags[v] = NoCommit
    /\ tags' = [tags EXCEPT ![v] = c]
    /\ Enqueue(run, Queued("version", v, c))
    /\ UNCHANGED <<images, releases, charts, withdrawn, budget>>

MoveTag(v, c) ==
    /\ tags[v] \notin {NoCommit, c}
    /\ Disrupt("move")
    /\ tags' = [tags EXCEPT ![v] = c]
    /\ Enqueue(run, Queued("version", v, c))
    /\ UNCHANGED <<images, releases, charts, withdrawn>>

DeleteTag(v) ==
    /\ tags[v] # NoCommit
    /\ Disrupt("delete")
    /\ tags' = [tags EXCEPT ![v] = NoCommit]
    /\ withdrawn' = withdrawn \cup {v}
    /\ UNCHANGED <<images, releases, charts, run, count>>

\* A job of a run that has ended is run again, and those after it.
Rerun(i, job) ==
    /\ run[i].state \in {"done", "failed", "cancelled"}
    /\ job \in Restartable(run[i].job)
    /\ Enqueue([run EXCEPT ![i].state = "rerun"],
               Queued(job, run[i].version, run[i].commit))
    /\ Disrupt("rerun")
    /\ UNCHANGED <<tags, images, releases, charts, withdrawn>>

\* A run of Release for a branch or a pull request ends.
OtherRunEnds ==
    /\ run' = WithIdle(run)
    /\ UNCHANGED <<tags, images, releases, charts, count, withdrawn, budget>>

-----------------------------------------------------------------------------

\* Version 1 is published already.
Init ==
    \E c \in Main :
        /\ tags = [v \in Versions |-> IF v = 1 THEN c ELSE NoCommit]
        /\ images = [v \in Versions |-> IF v = 1 THEN 1 ELSE 0]
        /\ releases = images
        /\ charts = images
        /\ run = [i \in Ids |-> IF i = 1 THEN [Queued("pages", 1, c) EXCEPT !.state = "done"]
                                ELSE NoRun]
        /\ count = 1
        /\ withdrawn = {}
        /\ budget = MaxDisruptions

Workflow(i) ==
    \/ Start(i) \/ Check(i) \/ Refuse(i) \/ Break(i)
    \/ PushImage(i) \/ CreateRelease(i) \/ DownloadCharts(i) \/ DeployPages(i)

People ==
    \/ \E v \in Versions, c \in Commits : PushTag(v, c) \/ MoveTag(v, c)
    \/ \E v \in Versions : DeleteTag(v)
    \/ \E i \in Ids, job \in Jobs : Rerun(i, job)

Next == (\E i \in Ids : Workflow(i)) \/ People \/ OtherRunEnds

Spec == Init /\ [][Next]_vars

-----------------------------------------------------------------------------
(* Properties.                                                             *)

OneWaits ==
    \A i, j \in Ids : i # j /\ Group(run[i]) = Group(run[j]) =>
        ~(run[i].state = "queued" /\ run[j].state = "queued")

\* Type invariant: the variables keep within their types, and of the runs of
\* one concurrency group at most one waits.
TypeOK ==
    /\ tags \in [Versions -> Commits \cup {NoCommit}]
    /\ images \in Charts /\ releases \in Charts /\ charts \in Charts
    /\ run \in [Ids -> Runs]
    /\ count \in 1..MaxRuns
    /\ withdrawn \subseteq Versions
    /\ budget \in 0..MaxDisruptions
    /\ OneWaits

\* What has been published under a version is never published again, by
\* whatever run: not by a job that is run again, nor by the run of a tag that
\* was moved, or deleted and pushed again, not even when the reply to the
\* first publication was lost (check_artifacts in front of each publication).
ArtifactsFinal ==
    [][\A v \in Versions : /\ images[v] # 0 => images'[v] = images[v]
                           /\ releases[v] # 0 => releases'[v] = releases[v]]_vars

\* A published chart stays published as it is, although every deployment
\* replaces the whole site by what was downloaded some time before.
HistoryKept ==
    [][\A v \in Versions : charts[v] # 0 => charts'[v] = charts[v]]_vars

SameCommit(i, j) == run[i].commit = run[j].commit

\* A version's release was made of the commit its image was built from, and
\* its chart of the same, whatever commits the tag has named meanwhile.
OneCommit ==
    \A v \in Versions :
        /\ releases[v] # 0 => images[v] # 0 /\ SameCommit(releases[v], images[v])
        /\ charts[v] # 0 => releases[v] # 0 /\ SameCommit(charts[v], releases[v])

\* Charts are published in the order of their versions, also of versions
\* whose tags are missing.
ChartsInOrder ==
    [][\A v, w \in Versions :
        charts[v] = 0 /\ charts'[v] # 0 /\ charts[w] # 0 => w < v]_vars

\* So are images, which carry the moving tags of their minor and major
\* version: these never go back to an older one, unless the tag of the newer
\* one was deleted.
MovingTagsForward ==
    [][\A v, w \in Versions :
        images[v] = 0 /\ images'[v] # 0 /\ images[w] # 0 => w < v \/ w \in withdrawn]_vars

Complete(v) == releases[v] # 0 /\ charts[v] # 0

Overtaken(v) == \E w \in Versions : w > v /\ tags[w] # NoCommit

Quiet == \A i \in Ids : run[i].state \notin InProgress \cup {"queued"}

\* No publication is interrupted halfway (the comment on release.yml's group):
\* when nothing runs or waits any more, and nothing has failed, a version with
\* an image has its release and chart, unless a newer tag was pushed meanwhile,
\* which makes the next check refuse it.  The code does not keep this.
NeverHalfway ==
    Quiet /\ budget = MaxDisruptions =>
        \A v \in Versions : images[v] # 0 => Complete(v) \/ Overtaken(v)

\* A cancelled run of Publish Helm that would pass its check.
Resumable(i) ==
    run[i].job \in {"handoff", "pages"} /\ run[i].state = "cancelled" /\ Passes(run[i])

\* Where nothing has failed, a version that is left halfway and not overtaken
\* has lost its place in the queue of Publish Helm and nothing else: it has its
\* release, and its cancelled run would pass the check if it was started again.
HalfwayIsResumable ==
    Quiet /\ budget = MaxDisruptions =>
        \A v \in Versions : images[v] # 0 =>
            Complete(v) \/ Overtaken(v) \/ \E i \in Ids : run[i].version = v /\ Resumable(i)

-----------------------------------------------------------------------------
(* The inductive invariant behind these properties.                        *)

\* Runs are numbered in the order in which they come.
NumbersInv ==
    /\ \A i \in Ids : run[i].state = "none" <=> i > count
    /\ \A v \in Versions : images[v] <= count /\ releases[v] <= count /\ charts[v] <= count

\* At most one run of a group is in progress.
ExclusionInv ==
    \A i, j \in Ids : i # j /\ Group(run[i]) = Group(run[j]) =>
        ~(run[i].state \in InProgress /\ run[j].state \in InProgress)

\* A job that was reached has its predecessors' artifacts, of its own commit.
LineageInv ==
    \A i \in Ids : run[i].state # "none" =>
        LET v == run[i].version
        IN  /\ run[i].job \in {"release", "handoff", "pages"} =>
                  images[v] # 0 /\ SameCommit(images[v], i)
            /\ run[i].job \in {"handoff", "pages"} =>
                  releases[v] # 0 /\ SameCommit(releases[v], i)
            /\ tags[v] # NoCommit \/ v \in withdrawn

\* What a check has found still holds when the job publishes.
CheckedInv ==
    \A i \in Ids :
        LET v == run[i].version
        IN  /\ run[i].state = "read" => run[i].job = "pages"
            /\ run[i].job = "pages" /\ run[i].state \in {"check", "publish"} => run[i].site = charts
            /\ run[i].state = "publish" =>
                  /\ run[i].job \in {"image", "release", "pages"}
                  /\ run[i].job = "image" =>
                        /\ images[v] = 0 /\ releases[v] = 0
                        /\ \A w \in Versions : images[w] # 0 => w < v \/ w \in withdrawn
                  /\ run[i].job = "release" => releases[v] = 0
                  /\ run[i].job = "pages" => \A w \in Versions : charts[w] # 0 => w < v

\* A version with an image had a tag.
TagsInv == \A v \in Versions : images[v] # 0 => tags[v] # NoCommit \/ v \in withdrawn

PipelineInv ==
    NumbersInv /\ ExclusionInv /\ LineageInv /\ CheckedInv /\ TagsInv /\ OneCommit

-----------------------------------------------------------------------------
(* What is true besides while nothing has failed.                          *)

\* A tag names the commit of its runs, which has been merged when there is an
\* image; runs wait for the first job of their workflow only.
UndisturbedRunsInv ==
    /\ withdrawn = {}
    /\ Published # {}
    /\ \A i \in Ids :
          /\ run[i].state # "none" => tags[run[i].version] = run[i].commit
          /\ run[i].state = "queued" => run[i].job \in {"version", "handoff"}
          /\ run[i].job = "image" /\ run[i].state = "publish" => run[i].commit \in Main
    /\ \A v \in Versions : images[v] # 0 => tags[v] \in Main

\* The release is made by the run of the newest image, and once.
NewestImageInv ==
    \A i \in Ids : run[i].job = "release" /\ run[i].state \in InProgress =>
        /\ releases[run[i].version] = 0
        /\ \A w \in Versions : images[w] # 0 => w <= run[i].version

\* A run is about to make the release of a version, or its chart, or would be
\* if it had not been cancelled while it waited.
Carrying(job, state) ==
    \/ job \in {"release", "handoff", "pages"} /\ state \in InProgress
    \/ job = "handoff" /\ state \in {"queued", "cancelled"}

Carries(i, v) == run[i].version = v /\ Carrying(run[i].job, run[i].state)

\* A version with an image is complete, or a run completes it or could, or a
\* newer tag has come.
CarriedInv ==
    \A v \in Versions : images[v] # 0 =>
        Complete(v) \/ Overtaken(v) \/ \E i \in Ids : Carries(i, v)

UndisturbedInv ==
    budget = MaxDisruptions => UndisturbedRunsInv /\ NewestImageInv /\ CarriedInv

=============================================================================
