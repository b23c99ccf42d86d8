--------------------------- MODULE PublisherProofs ---------------------------
(***************************************************************************)
(* The release publisher, for any number of commits and any set of release *)
(* merges: what it asks GitHub to release, what it has seen before it      *)
(* asks, and what it reports.                                              *)
(***************************************************************************)
EXTENDS Publisher, TLAPS

\* What a job has established when it comes to a call.
AfterMain == {"merge", "checks", "dependency", "tag", "release", "again", "post", "confirm"}
AfterMerge == AfterMain \ {"merge"}
AfterChecks == AfterMerge \ {"checks"}

\* A job's commit is on main once it has read it; past its checks it is a
\* reviewed merge that was green.
Verified ==
    /\ pc \in AfterMain => job.sha <= tip
    /\ pc \in AfterMerge => job.sha \in Reviewed
    /\ pc \in AfterChecks => job.sha \in green
    /\ sent \subseteq Reviewed \cap green

\* A commit whose latest runs are successful has been green.
GreenKept == \A c \in Commits : (\A w \in Workflows : runs[c][w] = "success") => c \in green

\* If main had moved when the job looked for the release, it still has.
Looked ==
    /\ pc = "again" /\ ~job.underMain => tip # job.sha
    /\ pc \in {"post", "confirm"} => job.underMain
    /\ job.posted => job.underMain /\ pc \in {"idle", "confirm"}

\* A release that existed at the start exists, and the job will see it.
Existing ==
    /\ job.existed => release # "none"
    /\ pc \in {"again", "post", "confirm"} => ~job.existed
    /\ job.posted => ~job.existed

\* A tag that the job has read is the tag; a release has one.
Tagged ==
    /\ pc \in {"release", "again", "post", "confirm"} => job.tag \in {NoTag, job.sha}
    /\ pc \in {"release", "again", "post", "confirm"} /\ job.tag # NoTag => tag = job.sha
    /\ release # "none" => tag # NoTag
    /\ pc = "confirm" => release # "none"
    /\ ReportsTrue

PublisherInv == TypeOK /\ Verified /\ GreenKept /\ Looked /\ Existing /\ Tagged

\* The invariant holds before the first job.
LEMMA InitInv == Init => PublisherInv
  BY CommitsAssumption, NoTagAssumption
     DEF Init, PublisherInv, TypeOK, Verified, GreenKept, Looked, Existing, Tagged, ReportsTrue,
         Commits, Workflows, Results, Positions, Outcomes, Jobs, AfterMain, AfterMerge, AfterChecks

\* Every step keeps the types.
LEMMA TypeStep ==
  ASSUME TypeOK, [Next]_vars
  PROVE  TypeOK'
<1>1. ASSUME NEW c \in Commits, Start(c) PROVE TypeOK'
  BY <1>1 DEF Start, github, target, TypeOK, Commits, Workflows, Results, Positions, Outcomes, Jobs
<1>2. CASE ReadMain
  BY <1>2
     DEF ReadMain, Check, Goto, End, github, target, TypeOK, Commits, Workflows, Results,
         Positions, Outcomes, Jobs
<1>3. CASE ReadMerge
  BY <1>3
     DEF ReadMerge, Check, Goto, End, github, target, TypeOK, Commits, Workflows, Results,
         Positions, Outcomes, Jobs
<1>4. CASE ReadChecks
  BY <1>4
     DEF ReadChecks, Check, Goto, End, github, target, TypeOK, Commits, Workflows, Results,
         Positions, Outcomes, Jobs
<1>5. CASE ReadDependency
  BY <1>5
     DEF ReadDependency, Check, Goto, End, github, target, TypeOK, Commits, Workflows, Results,
         Positions, Outcomes, Jobs
<1>6. CASE ReadTag
  BY <1>6
     DEF ReadTag, Check, Goto, End, github, target, TypeOK, Commits, Workflows, Results,
         Positions, Outcomes, Jobs
<1>7. CASE ReadRelease
  BY <1>7
     DEF ReadRelease, Goto, End, github, target, TypeOK, Commits, Workflows, Results, Positions,
         Outcomes, Jobs
<1>8. CASE ReadMainAgain
  BY <1>8
     DEF ReadMainAgain, Check, Goto, End, github, target, TypeOK, Commits, Workflows, Results,
         Positions, Outcomes, Jobs
<1>9. CASE Post
  BY <1>9
     DEF Post, Created, Goto, End, github, target, TypeOK, Commits, Workflows, Results,
         Positions, Outcomes, Jobs
<1>10. CASE PostTimesOut
  BY <1>10
     DEF PostTimesOut, End, github, target, TypeOK, Commits, Workflows, Results, Positions,
         Outcomes, Jobs
<1>11. CASE Confirm
  BY <1>11
     DEF Confirm, End, github, target, TypeOK, Commits, Workflows, Results, Positions, Outcomes,
         Jobs
<1>12. CASE CallFails
  BY <1>12
     DEF CallFails, End, github, target, TypeOK, Commits, Workflows, Results, Positions,
         Outcomes, Jobs
<1>13. CASE Push
  BY <1>13 DEF Push, target, TypeOK, Commits, Workflows, Results, Positions, Outcomes, Jobs
<1>14. ASSUME NEW s \in Results, DependencyRuns(s) PROVE TypeOK'
  BY <1>14
     DEF DependencyRuns, target, TypeOK, Commits, Workflows, Results, Positions, Outcomes, Jobs
<1>15. ASSUME NEW c \in Commits, NEW w \in Workflows, NEW s \in Results, CheckRuns(c, w, s)
      PROVE  TypeOK'
  BY <1>15 DEF CheckRuns, target, TypeOK, Commits, Workflows, Results, Positions, Outcomes, Jobs
<1>16. ASSUME NEW c \in Commits, Lands(c) PROVE TypeOK'
  BY <1>16
     DEF Lands, Created, github, target, TypeOK, Commits, Workflows, Results, Positions,
         Outcomes, Jobs
<1>17. ASSUME NEW c \in Commits, Lost(c) PROVE TypeOK'
  BY <1>17 DEF Lost, github, target, TypeOK, Commits, Workflows, Results, Positions, Outcomes, Jobs
<1>18. ASSUME NEW c \in Commits, TagByHand(c) PROVE TypeOK'
  BY <1>18 DEF TagByHand, github, TypeOK, Commits, Workflows, Results, Positions, Outcomes, Jobs
<1>19. ASSUME NEW c \in Commits, NEW kind \in {"final", "other"}, ReleaseByHand(c, kind)
      PROVE  TypeOK'
  BY <1>19 DEF ReleaseByHand, github, TypeOK, Commits, Workflows, Results, Positions, Outcomes, Jobs
<1>20. CASE UNCHANGED vars
  BY <1>20 DEF vars, github, target, TypeOK, Commits, Workflows, Results, Positions, Outcomes, Jobs
<1> QED
  BY <1>1, <1>2, <1>3, <1>4, <1>5, <1>6, <1>7, <1>8, <1>9, <1>10,
     <1>11, <1>12, <1>13, <1>14, <1>15, <1>16, <1>17, <1>18, <1>19, <1>20
     DEF Next, Publish, Environment

\* Every step keeps the record of green commits.
LEMMA GreenStep ==
  ASSUME TypeOK, GreenKept, [Next]_vars
  PROVE  GreenKept'
<1>1. ASSUME NEW c \in Commits, NEW w \in Workflows, NEW s \in Results, CheckRuns(c, w, s)
      PROVE  GreenKept'
  BY <1>1 DEF CheckRuns, TypeOK, GreenKept
<1>2. ASSUME ~ \E c \in Commits, w \in Workflows, s \in Results : CheckRuns(c, w, s)
      PROVE  UNCHANGED <<runs, green>>
  BY <1>2
     DEF Next, Publish, Environment, Start, ReadMain, ReadMerge, ReadChecks, ReadDependency, ReadTag,
         ReadRelease, ReadMainAgain, Post, PostTimesOut, Confirm, CallFails, Check, Push,
         DependencyRuns, Lands, Lost, TagByHand, ReleaseByHand, github, vars
<1> QED
  BY <1>1, <1>2 DEF GreenKept

\* Every step keeps what a job has verified.
LEMMA VerifiedStep ==
  ASSUME TypeOK, GreenKept, Verified, [Next]_vars
  PROVE  Verified'
<1>1. ASSUME NEW c \in Commits, Start(c) PROVE Verified'
  BY <1>1
     DEF Start, github, target, TypeOK, GreenKept, Verified, SuccessfulRun, AfterMain,
         AfterMerge, AfterChecks, Commits, Jobs
<1>2. CASE ReadMain
  BY <1>2
     DEF ReadMain, Check, Goto, End, github, target, TypeOK, GreenKept, Verified, SuccessfulRun,
         AfterMain, AfterMerge, AfterChecks, Commits, Jobs
<1>3. CASE ReadMerge
  BY <1>3
     DEF ReadMerge, Check, Goto, End, github, target, TypeOK, GreenKept, Verified, SuccessfulRun,
         AfterMain, AfterMerge, AfterChecks, Commits, Jobs
<1>4. CASE ReadChecks
  BY <1>4
     DEF ReadChecks, Check, Goto, End, github, target, TypeOK, GreenKept, Verified,
         SuccessfulRun, AfterMain, AfterMerge, AfterChecks, Commits, Jobs
<1>5. CASE ReadDependency
  BY <1>5
     DEF ReadDependency, Check, Goto, End, github, target, TypeOK, GreenKept, Verified,
         SuccessfulRun, AfterMain, AfterMerge, AfterChecks, Commits, Jobs
<1>6. CASE ReadTag
  BY <1>6
     DEF ReadTag, Check, Goto, End, github, target, TypeOK, GreenKept, Verified, SuccessfulRun,
         AfterMain, AfterMerge, AfterChecks, Commits, Jobs
<1>7. CASE ReadRelease
  BY <1>7
     DEF ReadRelease, Goto, End, github, target, TypeOK, GreenKept, Verified, SuccessfulRun,
         AfterMain, AfterMerge, AfterChecks, Commits, Jobs
<1>8. CASE ReadMainAgain
  BY <1>8
     DEF ReadMainAgain, Check, Goto, End, github, target, TypeOK, GreenKept, Verified,
         SuccessfulRun, AfterMain, AfterMerge, AfterChecks, Commits, Jobs
<1>9. CASE Post
  BY <1>9
     DEF Post, Created, Goto, End, github, target, TypeOK, GreenKept, Verified, SuccessfulRun,
         AfterMain, AfterMerge, AfterChecks, Commits, Jobs
<1>10. CASE PostTimesOut
  BY <1>10
     DEF PostTimesOut, End, github, target, TypeOK, GreenKept, Verified, SuccessfulRun,
         AfterMain, AfterMerge, AfterChecks, Commits, Jobs
<1>11. CASE Confirm
  BY <1>11
     DEF Confirm, End, github, target, TypeOK, GreenKept, Verified, SuccessfulRun, AfterMain,
         AfterMerge, AfterChecks, Commits, Jobs
<1>12. CASE CallFails
  BY <1>12
     DEF CallFails, End, github, target, TypeOK, GreenKept, Verified, SuccessfulRun, AfterMain,
         AfterMerge, AfterChecks, Commits, Jobs
<1>13. CASE Push
  BY <1>13
     DEF Push, target, TypeOK, GreenKept, Verified, SuccessfulRun, AfterMain, AfterMerge,
         AfterChecks, Commits, Jobs
<1>14. ASSUME NEW s \in Results, DependencyRuns(s) PROVE Verified'
  BY <1>14
     DEF DependencyRuns, target, TypeOK, GreenKept, Verified, SuccessfulRun, AfterMain,
         AfterMerge, AfterChecks, Commits, Jobs
<1>15. ASSUME NEW c \in Commits, NEW w \in Workflows, NEW s \in Results, CheckRuns(c, w, s)
      PROVE  Verified'
  BY <1>15
     DEF CheckRuns, target, TypeOK, GreenKept, Verified, SuccessfulRun, AfterMain, AfterMerge,
         AfterChecks, Commits, Jobs
<1>16. ASSUME NEW c \in Commits, Lands(c) PROVE Verified'
  BY <1>16
     DEF Lands, Created, github, target, TypeOK, GreenKept, Verified, SuccessfulRun, AfterMain,
         AfterMerge, AfterChecks, Commits, Jobs
<1>17. ASSUME NEW c \in Commits, Lost(c) PROVE Verified'
  BY <1>17
     DEF Lost, github, target, TypeOK, GreenKept, Verified, SuccessfulRun, AfterMain, AfterMerge,
         AfterChecks, Commits, Jobs
<1>18. ASSUME NEW c \in Commits, TagByHand(c) PROVE Verified'
  BY <1>18
     DEF TagByHand, github, TypeOK, GreenKept, Verified, SuccessfulRun, AfterMain, AfterMerge,
         AfterChecks, Commits, Jobs
<1>19. ASSUME NEW c \in Commits, NEW kind \in {"final", "other"}, ReleaseByHand(c, kind)
      PROVE  Verified'
  BY <1>19
     DEF ReleaseByHand, github, TypeOK, GreenKept, Verified, SuccessfulRun, AfterMain,
         AfterMerge, AfterChecks, Commits, Jobs
<1>20. CASE UNCHANGED vars
  BY <1>20
     DEF vars, github, target, TypeOK, GreenKept, Verified, SuccessfulRun, AfterMain, AfterMerge,
         AfterChecks, Commits, Jobs
<1> QED
  BY <1>1, <1>2, <1>3, <1>4, <1>5, <1>6, <1>7, <1>8, <1>9, <1>10,
     <1>11, <1>12, <1>13, <1>14, <1>15, <1>16, <1>17, <1>18, <1>19, <1>20
     DEF Next, Publish, Environment

\* Every step keeps what a job has seen of main.
LEMMA LookedStep ==
  ASSUME TypeOK, Verified, Looked, [Next]_vars
  PROVE  Looked'
<1>1. ASSUME NEW c \in Commits, Start(c) PROVE Looked'
  BY <1>1 DEF Start, github, target, TypeOK, Verified, Looked, AfterMain, Commits, Jobs
<1>2. CASE ReadMain
  BY <1>2
     DEF ReadMain, Check, Goto, End, github, target, TypeOK, Verified, Looked, AfterMain,
         Commits, Jobs
<1>3. CASE ReadMerge
  BY <1>3
     DEF ReadMerge, Check, Goto, End, github, target, TypeOK, Verified, Looked, AfterMain,
         Commits, Jobs
<1>4. CASE ReadChecks
  BY <1>4
     DEF ReadChecks, Check, Goto, End, github, target, TypeOK, Verified, Looked, AfterMain,
         Commits, Jobs
<1>5. CASE ReadDependency
  BY <1>5
     DEF ReadDependency, Check, Goto, End, github, target, TypeOK, Verified, Looked, AfterMain,
         Commits, Jobs
<1>6. CASE ReadTag
  BY <1>6
     DEF ReadTag, Check, Goto, End, github, target, TypeOK, Verified, Looked, AfterMain, Commits,
         Jobs
<1>7. CASE ReadRelease
  BY <1>7
     DEF ReadRelease, Goto, End, github, target, TypeOK, Verified, Looked, AfterMain, Commits, Jobs
<1>8. CASE ReadMainAgain
  BY <1>8
     DEF ReadMainAgain, Check, Goto, End, github, target, TypeOK, Verified, Looked, AfterMain,
         Commits, Jobs
<1>9. CASE Post
  BY <1>9
     DEF Post, Created, Goto, End, github, target, TypeOK, Verified, Looked, AfterMain, Commits,
         Jobs
<1>10. CASE PostTimesOut
  BY <1>10 DEF PostTimesOut, End, github, target, TypeOK, Verified, Looked, AfterMain, Commits, Jobs
<1>11. CASE Confirm
  BY <1>11 DEF Confirm, End, github, target, TypeOK, Verified, Looked, AfterMain, Commits, Jobs
<1>12. CASE CallFails
  BY <1>12 DEF CallFails, End, github, target, TypeOK, Verified, Looked, AfterMain, Commits, Jobs
<1>13. CASE Push
  BY <1>13 DEF Push, target, TypeOK, Verified, Looked, AfterMain, Commits, Jobs
<1>14. ASSUME NEW s \in Results, DependencyRuns(s) PROVE Looked'
  BY <1>14 DEF DependencyRuns, target, TypeOK, Verified, Looked, AfterMain, Commits, Jobs
<1>15. ASSUME NEW c \in Commits, NEW w \in Workflows, NEW s \in Results, CheckRuns(c, w, s)
      PROVE  Looked'
  BY <1>15 DEF CheckRuns, target, TypeOK, Verified, Looked, AfterMain, Commits, Jobs
<1>16. ASSUME NEW c \in Commits, Lands(c) PROVE Looked'
  BY <1>16 DEF Lands, Created, github, target, TypeOK, Verified, Looked, AfterMain, Commits, Jobs
<1>17. ASSUME NEW c \in Commits, Lost(c) PROVE Looked'
  BY <1>17 DEF Lost, github, target, TypeOK, Verified, Looked, AfterMain, Commits, Jobs
<1>18. ASSUME NEW c \in Commits, TagByHand(c) PROVE Looked'
  BY <1>18 DEF TagByHand, github, TypeOK, Verified, Looked, AfterMain, Commits, Jobs
<1>19. ASSUME NEW c \in Commits, NEW kind \in {"final", "other"}, ReleaseByHand(c, kind)
      PROVE  Looked'
  BY <1>19 DEF ReleaseByHand, github, TypeOK, Verified, Looked, AfterMain, Commits, Jobs
<1>20. CASE UNCHANGED vars
  BY <1>20 DEF vars, github, target, TypeOK, Verified, Looked, AfterMain, Commits, Jobs
<1> QED
  BY <1>1, <1>2, <1>3, <1>4, <1>5, <1>6, <1>7, <1>8, <1>9, <1>10,
     <1>11, <1>12, <1>13, <1>14, <1>15, <1>16, <1>17, <1>18, <1>19, <1>20
     DEF Next, Publish, Environment

\* Every step keeps what a job will see of the release.
LEMMA ExistingStep ==
  ASSUME TypeOK, Existing, [Next]_vars
  PROVE  Existing'
<1>1. ASSUME NEW c \in Commits, Start(c) PROVE Existing'
  BY <1>1 DEF Start, github, target, TypeOK, Existing, Jobs
<1>2. CASE ReadMain
  BY <1>2 DEF ReadMain, Check, Goto, End, github, target, TypeOK, Existing, Jobs
<1>3. CASE ReadMerge
  BY <1>3 DEF ReadMerge, Check, Goto, End, github, target, TypeOK, Existing, Jobs
<1>4. CASE ReadChecks
  BY <1>4 DEF ReadChecks, Check, Goto, End, github, target, TypeOK, Existing, Jobs
<1>5. CASE ReadDependency
  BY <1>5 DEF ReadDependency, Check, Goto, End, github, target, TypeOK, Existing, Jobs
<1>6. CASE ReadTag
  BY <1>6 DEF ReadTag, Check, Goto, End, github, target, TypeOK, Existing, Jobs
<1>7. CASE ReadRelease
  BY <1>7 DEF ReadRelease, Goto, End, github, target, TypeOK, Existing, Jobs
<1>8. CASE ReadMainAgain
  BY <1>8 DEF ReadMainAgain, Check, Goto, End, github, target, TypeOK, Existing, Jobs
<1>9. CASE Post
  BY <1>9 DEF Post, Created, Goto, End, github, target, TypeOK, Existing, Jobs
<1>10. CASE PostTimesOut
  BY <1>10 DEF PostTimesOut, End, github, target, TypeOK, Existing, Jobs
<1>11. CASE Confirm
  BY <1>11 DEF Confirm, End, github, target, TypeOK, Existing, Jobs
<1>12. CASE CallFails
  BY <1>12 DEF CallFails, End, github, target, TypeOK, Existing, Jobs
<1>13. CASE Push
  BY <1>13 DEF Push, target, TypeOK, Existing, Jobs
<1>14. ASSUME NEW s \in Results, DependencyRuns(s) PROVE Existing'
  BY <1>14 DEF DependencyRuns, target, TypeOK, Existing, Jobs
<1>15. ASSUME NEW c \in Commits, NEW w \in Workflows, NEW s \in Results, CheckRuns(c, w, s)
      PROVE  Existing'
  BY <1>15 DEF CheckRuns, target, TypeOK, Existing, Jobs
<1>16. ASSUME NEW c \in Commits, Lands(c) PROVE Existing'
  BY <1>16 DEF Lands, Created, github, target, TypeOK, Existing, Jobs
<1>17. ASSUME NEW c \in Commits, Lost(c) PROVE Existing'
  BY <1>17 DEF Lost, github, target, TypeOK, Existing, Jobs
<1>18. ASSUME NEW c \in Commits, TagByHand(c) PROVE Existing'
  BY <1>18 DEF TagByHand, github, TypeOK, Existing, Jobs
<1>19. ASSUME NEW c \in Commits, NEW kind \in {"final", "other"}, ReleaseByHand(c, kind)
      PROVE  Existing'
  BY <1>19 DEF ReleaseByHand, github, TypeOK, Existing, Jobs
<1>20. CASE UNCHANGED vars
  BY <1>20 DEF vars, github, target, TypeOK, Existing, Jobs
<1> QED
  BY <1>1, <1>2, <1>3, <1>4, <1>5, <1>6, <1>7, <1>8, <1>9, <1>10,
     <1>11, <1>12, <1>13, <1>14, <1>15, <1>16, <1>17, <1>18, <1>19, <1>20
     DEF Next, Publish, Environment

\* Every step keeps the tag and the reports.
LEMMA TaggedStep ==
  ASSUME TypeOK, Tagged, [Next]_vars
  PROVE  Tagged'
<1>1. ASSUME NEW c \in Commits, Start(c) PROVE Tagged'
  BY <1>1 DEF Start, github, target, TypeOK, Tagged, ReportsTrue, Commits, Jobs
<1>2. CASE ReadMain
  BY <1>2 DEF ReadMain, Check, Goto, End, github, target, TypeOK, Tagged, ReportsTrue, Commits, Jobs
<1>3. CASE ReadMerge
  BY <1>3
     DEF ReadMerge, Check, Goto, End, github, target, TypeOK, Tagged, ReportsTrue, Commits, Jobs
<1>4. CASE ReadChecks
  BY <1>4
     DEF ReadChecks, Check, Goto, End, github, target, TypeOK, Tagged, ReportsTrue, Commits, Jobs
<1>5. CASE ReadDependency
  BY <1>5
     DEF ReadDependency, Check, Goto, End, github, target, TypeOK, Tagged, ReportsTrue, Commits,
         Jobs
<1>6. CASE ReadTag
  BY <1>6 DEF ReadTag, Check, Goto, End, github, target, TypeOK, Tagged, ReportsTrue, Commits, Jobs
<1>7. CASE ReadRelease
  BY <1>7 DEF ReadRelease, Goto, End, github, target, TypeOK, Tagged, ReportsTrue, Commits, Jobs
<1>8. CASE ReadMainAgain
  BY <1>8
     DEF ReadMainAgain, Check, Goto, End, github, target, TypeOK, Tagged, ReportsTrue, Commits, Jobs
<1>9. CASE Post
  BY <1>9, NoTagAssumption
     DEF Post, Created, Goto, End, github, target, TypeOK, Tagged, ReportsTrue, Commits, Jobs
<1>10. CASE PostTimesOut
  BY <1>10 DEF PostTimesOut, End, github, target, TypeOK, Tagged, ReportsTrue, Commits, Jobs
<1>11. CASE Confirm
  BY <1>11 DEF Confirm, End, github, target, TypeOK, Tagged, ReportsTrue, Commits, Jobs
<1>12. CASE CallFails
  BY <1>12 DEF CallFails, End, github, target, TypeOK, Tagged, ReportsTrue, Commits, Jobs
<1>13. CASE Push
  BY <1>13 DEF Push, target, TypeOK, Tagged, ReportsTrue, Commits, Jobs
<1>14. ASSUME NEW s \in Results, DependencyRuns(s) PROVE Tagged'
  BY <1>14 DEF DependencyRuns, target, TypeOK, Tagged, ReportsTrue, Commits, Jobs
<1>15. ASSUME NEW c \in Commits, NEW w \in Workflows, NEW s \in Results, CheckRuns(c, w, s)
      PROVE  Tagged'
  BY <1>15 DEF CheckRuns, target, TypeOK, Tagged, ReportsTrue, Commits, Jobs
<1>16. ASSUME NEW c \in Commits, Lands(c) PROVE Tagged'
  BY <1>16, NoTagAssumption
     DEF Lands, Created, github, target, TypeOK, Tagged, ReportsTrue, Commits, Jobs
<1>17. ASSUME NEW c \in Commits, Lost(c) PROVE Tagged'
  BY <1>17 DEF Lost, github, target, TypeOK, Tagged, ReportsTrue, Commits, Jobs
<1>18. ASSUME NEW c \in Commits, TagByHand(c) PROVE Tagged'
  BY <1>18 DEF TagByHand, github, TypeOK, Tagged, ReportsTrue, Commits, Jobs
<1>19. ASSUME NEW c \in Commits, NEW kind \in {"final", "other"}, ReleaseByHand(c, kind)
      PROVE  Tagged'
  BY <1>19, NoTagAssumption DEF ReleaseByHand, github, TypeOK, Tagged, ReportsTrue, Commits, Jobs
<1>20. CASE UNCHANGED vars
  BY <1>20 DEF vars, github, target, TypeOK, Tagged, ReportsTrue, Commits, Jobs
<1> QED
  BY <1>1, <1>2, <1>3, <1>4, <1>5, <1>6, <1>7, <1>8, <1>9, <1>10,
     <1>11, <1>12, <1>13, <1>14, <1>15, <1>16, <1>17, <1>18, <1>19, <1>20
     DEF Next, Publish, Environment

\* The invariant is inductive.
LEMMA Invariance == Spec => []PublisherInv
<1>1. PublisherInv /\ [Next]_vars => PublisherInv'
  BY TypeStep, GreenStep, VerifiedStep, LookedStep, ExistingStep, TaggedStep DEF PublisherInv
<1> QED
  BY <1>1, InitInv, PTL DEF Spec

\* The publisher's state is well typed, whatever happens between its calls.
THEOREM PublisherTypes == Spec => []TypeOK
<1>1. PublisherInv => TypeOK
  BY DEF PublisherInv
<1> QED
  BY <1>1, Invariance, PTL

\* GitHub is only asked to release a reviewed merge whose checks were successful
\* together, for any number of commits and re-runs.
THEOREM OnlyVerified == Spec => []SentWasVerified
<1>1. PublisherInv => SentWasVerified
  BY DEF PublisherInv, Verified, SentWasVerified
<1> QED
  BY <1>1, Invariance, PTL

\* A job that asks for the release found none while main was at its commit.
THEOREM MainAtLook == Spec => []LookedUnderMain
<1>1. PublisherInv => LookedUnderMain
  BY DEF PublisherInv, Looked, LookedUnderMain
<1> QED
  BY <1>1, Invariance, PTL

\* A job that reports a publication is right, whoever tags or releases meanwhile.
THEOREM ReportsAlwaysTrue == Spec => []ReportsTrue
<1>1. PublisherInv => ReportsTrue
  BY DEF PublisherInv, Tagged
<1> QED
  BY <1>1, Invariance, PTL

\* A job that begins when a release exists never asks for another one.
THEOREM PostsOnce == Spec => []NeverPostsAgain
<1>1. PublisherInv => NeverPostsAgain
  BY DEF PublisherInv, Existing, NeverPostsAgain
<1> QED
  BY <1>1, Invariance, PTL
=============================================================================
