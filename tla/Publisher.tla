------------------------------ MODULE Publisher ------------------------------
(***************************************************************************)
(* The one-version release publisher, .github/scripts/publish_release.py,  *)
(* as its workflow runs it: one job at a time, started by a successful run *)
(* of a check on main.  A job is a sequence of GitHub API calls; between   *)
(* two of them main may move, checks may be run again and people may tag   *)
(* or release by hand.  Any call may fail, and a POST whose answer is lost *)
(* (20 s) may still be carried out later.  GitHub is external: a new       *)
(* release uses a tag that exists and creates one that does not, and a tag *)
(* has at most one release.                                                *)
(***************************************************************************)
EXTENDS Naturals

CONSTANTS
    MaxCommit,  \* the bound on pushes: commits of main are numbered in order
    Reviewed,   \* those that merge the reviewed head of the only release PR
    NoTag       \* "no such tag"

Commits == 1..MaxCommit

ASSUME CommitsAssumption == MaxCommit \in Nat \ {0}
ASSUME ReviewedAssumption == Reviewed \subseteq Commits
ASSUME NoTagAssumption == NoTag \notin Commits

Workflows == {"verify", "codeql"}
Results == {"running", "success", "failure"}
Positions == {"idle", "main", "merge", "checks", "dependency", "tag", "release", "again", "post", "confirm"}
Outcomes == {"none", "skipped", "published", "already", "refused", "failed"}
Jobs == [sha : Commits, tag : Commits \cup {NoTag}, existed : BOOLEAN,
         posted : BOOLEAN, underMain : BOOLEAN]

VARIABLES
    tip,        \* the commit that main points to
    runs,       \* runs[c][w]: the latest run of workflow w on the push of c
    dependency, \* the latest dependency review of the PR's head
    triggered,  \* commits whose check has started the publisher
    tag,        \* the commit of the release tag, or NoTag
    release,    \* the release of the tag: "none", "final" or "other" (draft, prerelease)
    flight,     \* POSTs without an answer, not carried out yet: commits
    pc,         \* the next API call of the job
    job,        \* its locals, with what was so when it began and looked
    outcome,    \* how the last job ended
    green,      \* commits that had all their checks successful at one time
    sent        \* commits that some job has asked GitHub to release

github == <<tip, runs, dependency, triggered, green>>
target == <<tag, release>>
vars == <<github, target, flight, pc, job, outcome, sent>>

Init ==
    /\ tip = 1
    /\ runs = [c \in Commits |-> [w \in Workflows |-> "running"]]
    /\ dependency \in Results
    /\ triggered = {}
    /\ tag = NoTag /\ release = "none"
    /\ flight = {}
    /\ pc = "idle"
    /\ job = [sha |-> 1, tag |-> NoTag, existed |-> FALSE, posted |-> FALSE, underMain |-> FALSE]
    /\ outcome = "none"
    /\ green = {}
    /\ sent = {}
-----------------------------------------------------------------------------
(* The job *)

\* The workflow starts, or is run again, for a commit of its trigger.
Start(c) ==
    /\ pc = "idle"
    /\ c \in triggered
    /\ pc' = "main"
    /\ job' = [sha |-> c, tag |-> NoTag, existed |-> release # "none",
               posted |-> FALSE, underMain |-> FALSE]
    /\ outcome' = "none"
    /\ UNCHANGED <<github, target, flight, sent>>

Goto(p) == pc' = p /\ UNCHANGED outcome
End(o) == pc' = "idle" /\ outcome' = o

\* One GET: go on to p if ok, else end with o.
Check(at, ok, p, o) ==
    /\ pc = at
    /\ IF ok THEN Goto(p) ELSE End(o)
    /\ UNCHANGED <<github, target, flight, sent>>

ReadMain == Check("main", tip = job.sha, "merge", "skipped") /\ UNCHANGED job

ReadMerge == Check("merge", job.sha \in Reviewed, "checks", "skipped") /\ UNCHANGED job

\* A check that has not failed yet counts as successful.
SuccessfulRunSoFar(run) == run # "failure"

\* successful_run: the latest run, completed with success.
SuccessfulRun(run) == run = "success"

ReadChecks ==
    /\ Check("checks", \A w \in Workflows : SuccessfulRun(runs[job.sha][w]), "dependency", "skipped")
    /\ UNCHANGED job

ReadDependency ==
    Check("dependency", SuccessfulRun(dependency), "tag", "skipped") /\ UNCHANGED job

ReadTag ==
    /\ Check("tag", tag \in {NoTag, job.sha}, "release", "refused")
    /\ job' = [job EXCEPT !.tag = tag]

\* A release that exists is not noticed.
ReadReleaseNever ==
    /\ pc = "release"
    /\ job' = [job EXCEPT !.underMain = tip = job.sha]
    /\ Goto("again")
    /\ UNCHANGED <<github, target, flight, sent>>

ReadRelease ==
    /\ pc = "release"
    /\ job' = [job EXCEPT !.underMain = tip = job.sha]
    /\ IF release = "none" THEN Goto("again")
       ELSE IF job.tag = NoTag \/ release = "other" THEN End("refused")
       ELSE End("already")
    /\ UNCHANGED <<github, target, flight, sent>>

\* main is not read a second time.
ReadMainAgainNever == Check("again", TRUE, "post", "refused") /\ UNCHANGED job

ReadMainAgain == Check("again", tip = job.sha, "post", "refused") /\ UNCHANGED job

\* GitHub creates a release of c, and its tag if there is none.
Created(c) ==
    /\ release' = "final"
    /\ tag' = IF tag = NoTag THEN c ELSE tag

Post ==
    /\ pc = "post"
    /\ job' = [job EXCEPT !.posted = TRUE]
    /\ sent' = sent \cup {job.sha}
    /\ IF release = "none"
       THEN Created(job.sha) /\ Goto("confirm")
       ELSE UNCHANGED target /\ End("failed")
    /\ UNCHANGED <<github, flight>>

\* No answer to the POST: the job ends, the request may still be on its way.
PostTimesOut ==
    /\ pc = "post"
    /\ job' = [job EXCEPT !.posted = TRUE]
    /\ sent' = sent \cup {job.sha}
    /\ flight' = flight \cup {job.sha}
    /\ End("failed")
    /\ UNCHANGED <<github, target>>

\* The job believes the answer to its POST.
ConfirmNever ==
    /\ pc = "confirm"
    /\ End("published")
    /\ UNCHANGED <<github, target, flight, job, sent>>

\* The tag is read back.
Confirm ==
    /\ pc = "confirm"
    /\ End(IF tag = job.sha THEN "published" ELSE "failed")
    /\ UNCHANGED <<github, target, flight, job, sent>>

\* github raises for any other answer, and urlopen for none.
CallFails ==
    /\ pc # "idle"
    /\ End("failed")
    /\ UNCHANGED <<github, target, flight, job, sent>>

Publish ==
    \/ \E c \in Commits : Start(c)
    \/ ReadMain \/ ReadMerge \/ ReadChecks \/ ReadDependency \/ ReadTag \/ ReadRelease
    \/ ReadMainAgain \/ Post \/ PostTimesOut \/ Confirm \/ CallFails
-----------------------------------------------------------------------------
(* GitHub and people *)

Push ==
    /\ tip + 1 \in Commits
    /\ tip' = tip + 1
    /\ UNCHANGED <<runs, dependency, triggered, green, target, flight, pc, job, outcome, sent>>

\* A check of a pushed commit completes, or a completed one is run again.  A
\* successful run on the tip of main starts the publisher.
CheckRuns(c, w, s) ==
    /\ c <= tip
    /\ (runs[c][w] = "running") # (s = "running")
    /\ runs' = [runs EXCEPT ![c][w] = s]
    /\ triggered' = IF s = "success" /\ c = tip THEN triggered \cup {c} ELSE triggered
    /\ green' = IF \A v \in Workflows : runs'[c][v] = "success" THEN green \cup {c} ELSE green
    /\ UNCHANGED <<tip, dependency, target, flight, pc, job, outcome, sent>>

DependencyRuns(s) ==
    /\ (dependency = "running") # (s = "running")
    /\ dependency' = s
    /\ UNCHANGED <<tip, runs, triggered, green, target, flight, pc, job, outcome, sent>>

\* A POST without an answer is carried out, or never arrives.
Lands(c) ==
    /\ c \in flight
    /\ flight' = flight \ {c}
    /\ IF release = "none" THEN Created(c) ELSE UNCHANGED target
    /\ UNCHANGED <<github, pc, job, outcome, sent>>

Lost(c) ==
    /\ c \in flight
    /\ flight' = flight \ {c}
    /\ UNCHANGED <<github, target, pc, job, outcome, sent>>

TagByHand(c) ==
    /\ tag = NoTag
    /\ c <= tip
    /\ tag' = c
    /\ UNCHANGED <<github, release, flight, pc, job, outcome, sent>>

ReleaseByHand(c, kind) ==
    /\ release = "none"
    /\ c <= tip
    /\ release' = kind
    /\ tag' = IF tag = NoTag THEN c ELSE tag
    /\ UNCHANGED <<github, flight, pc, job, outcome, sent>>

Environment ==
    \/ Push
    \/ \E s \in Results : DependencyRuns(s)
    \/ \E c \in Commits :
        \/ \E w \in Workflows, s \in Results : CheckRuns(c, w, s)
        \/ Lands(c) \/ Lost(c) \/ TagByHand(c)
        \/ \E kind \in {"final", "other"} : ReleaseByHand(c, kind)

Next == Publish \/ Environment
Spec == Init /\ [][Next]_vars
-----------------------------------------------------------------------------
TypeOK ==
    /\ tip \in Commits
    /\ runs \in [Commits -> [Workflows -> Results]]
    /\ dependency \in Results
    /\ triggered \subseteq Commits
    /\ tag \in Commits \cup {NoTag}
    /\ release \in {"none", "final", "other"}
    /\ flight \subseteq Commits
    /\ pc \in Positions
    /\ job \in Jobs
    /\ outcome \in Outcomes
    /\ green \subseteq Commits
    /\ sent \subseteq Commits

\* GitHub is only ever asked to release a merge of the reviewed head whose two
\* checks were successful at one and the same time, whatever ran again since
\* (successful_run and the checks of publish).
SentWasVerified == sent \subseteq Reviewed \cap green

\* A job that asks for the release found no release while main was still at its
\* commit: no commit pushed before that look is passed over, though main is read
\* before and after and never together with the release (publish).
LookedUnderMain == job.posted => job.underMain

\* "Published" and "Already published" are true when they are said and remain
\* so: there is a release and its tag is the job's commit, whoever tagged or
\* released meanwhile.  Nobody deletes or moves a tag or a release: the
\* environment has no such step, and the script could not notice one after its
\* last read.
ReportsTrue ==
    outcome \in {"published", "already"} => release # "none" /\ tag = job.sha

\* Publishing again is harmless: a job that begins when a release exists never
\* asks for another one (the workflow may be run again, and a POST whose answer
\* was lost may have succeeded).
NeverPostsAgain == job.posted => ~job.existed
=============================================================================
