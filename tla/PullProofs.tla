----------------------------- MODULE PullProofs -----------------------------
(***************************************************************************)
(* For any number of jobs, either host, any policy and any misfortunes:    *)
(* the pull request is well typed, gated work is on the branch only if a   *)
(* human labelled it, and a green verdict is on the commit it speaks of.   *)
(***************************************************************************)
EXTENDS PullRequest, SequenceTheorems, TLAPS

Stage == {"off", "queued", "launched", "walk", "gate", "stamp", "find", "write", "status"}
Halt  == {"none", "approval", "input", "noop", "red", "apply"}

JobState ==
  [pc : Stage, sha : Nat, head : Nat, upstream : Nat, local : SUBSET Nat, labels : SUBSET Step,
   approved : SUBSET Step, at : Step, halt : Halt, dirty : BOOLEAN, note : Nat]

Guarded(step) == mode # "yolo" /\ step \in gated

\* What the proofs need of a commit: work that somebody must have approved was
\* approved, and a green verdict fits.
CommitOK(c, words) ==
  /\ Guarded("implementer") /\ c.wired => "implementer" \in words
  /\ Guarded("planner") /\ (c.manifest \/ c.agent) => "planner" \in words
  /\ c.verdict = "success" => c.wired \/ c.loose

\* What they need of a job, over the commits cs, n comments and the labels ever
\* given: it is on a commit once it has checked out, it knows no label nobody
\* gave, it is past the planner only if that was let pass, and past the
\* implementer its checkout has the flag.
JobOK(r, cs, n, words) ==
  /\ r.sha <= Len(cs) /\ r.head <= Len(cs) /\ r.note <= n
  /\ r.labels \subseteq words /\ r.approved \subseteq words
  /\ r.pc # "off" => r.sha > 0
  /\ r.pc \notin {"off", "queued"} => r.head > 0
  /\ r.pc \in {"off", "queued", "launched"} => r.at = "planner"
  /\ r.at = "reviewer" => r.head > 0 /\ (cs[r.head].wired \/ r.dirty)
  /\ r.halt = "apply" => r.at = "reviewer"
  /\ Guarded("planner") /\ r.at # "planner" => "planner" \in words

Policy   == mode \in {"yolo", "always"} /\ gated \subseteq Step /\ (mode # "yolo" => gated # {})
Branch   == commits \in Seq(Commit) /\ tip \in 1 .. Len(commits) /\ commits[tip].here
Words    == labels \subseteq given /\ given \subseteq gated /\ heard \subseteq given
Comments == comments \in Nat
Commits  == \A c \in 1 .. Len(commits) : CommitOK(commits[c], given)
Jobs     == job \in [Job -> JobState] /\ \A j \in Job : JobOK(job[j], commits, comments, given)

IInv == Policy /\ Branch /\ Words /\ Comments /\ Commits /\ Jobs

-----------------------------------------------------------------------------
(* Lemmas about parts of a step *)

\* Commits are added and given statuses, never taken away or rewritten.
Grown(cs, ds) ==
  /\ ds \in Seq(Commit) /\ Len(cs) <= Len(ds)
  /\ \A c \in 1 .. Len(cs) : ds[c].wired = cs[c].wired

LEMMA FirstCommitType == FirstCommit \in Commit
  BY DEF FirstCommit, Commit, Conclusion

LEMMA Topped ==
  ASSUME NEW c \in Commit, NEW agent \in BOOLEAN
  PROVE  \E b \in Commit : /\ b = OnTop(c, agent) /\ b.wired = c.wired /\ b.manifest = c.manifest
                           /\ b.agent = agent /\ b.here = ~agent /\ b.verdict = "none"
<1>1. /\ OnTop(c, agent) \in Commit /\ OnTop(c, agent).wired = c.wired /\ OnTop(c, agent).manifest = c.manifest
      /\ OnTop(c, agent).agent = agent /\ OnTop(c, agent).here = ~agent /\ OnTop(c, agent).verdict = "none"
  BY DEF OnTop, Commit, Conclusion
<1>. QED  BY <1>1

LEMMA NoJobType == NoJob \in JobState
  BY DEF NoJob, JobState, Stage, Halt, Step

\* A job that does not move stays as it should be while the rest grows.
LEMMA Waiting ==
  ASSUME NEW r \in JobState, NEW cs \in Seq(Commit), NEW ds, Grown(cs, ds),
         NEW n \in Nat, NEW m \in Nat, n <= m, NEW words, NEW more, words \subseteq more,
         JobOK(r, cs, n, words)
  PROVE  JobOK(r, ds, m, more)
<1>1. /\ Len(cs) \in Nat /\ Len(ds) \in Nat
      /\ r.sha \in Nat /\ r.head \in Nat /\ r.note \in Nat
  BY LenProperties DEF Grown, JobState
<1>2. r.head > 0 => ds[r.head].wired = cs[r.head].wired
  BY <1>1 DEF Grown, JobOK
<1>. QED  BY <1>1, <1>2 DEF JobOK, Grown

\* The jobs after a step of which one made r.
LEMMA Moving ==
  ASSUME Jobs, Branch, Comments, NEW j \in Job, NEW r \in JobState,
         mode' = mode, gated' = gated,
         Grown(commits, commits'), Comments', comments <= comments', given \subseteq given',
         JobOK(r, commits', comments', given'),
         job' = [job EXCEPT ![j] = r]
  PROVE  Jobs'
<1>1. job' \in [Job -> JobState]
  BY DEF Jobs
<1>2. ASSUME NEW k \in Job  PROVE JobOK(job'[k], commits', comments', given')
  <2>1. comments \in Nat /\ comments' \in Nat
    BY DEF Comments
  <2>2. job[k] \in JobState /\ JobOK(job[k], commits, comments, given)
    BY DEF Jobs
  <2>3. JobOK(job[k], commits', comments', given')
    BY <2>1, <2>2, Waiting DEF Branch
  <2>. QED  BY <2>3 DEF Jobs
<1>. QED  BY <1>1, <1>2 DEF Jobs, JobOK, Guarded

\* The jobs after a step that may also start one.
LEMMA Starting ==
  ASSUME NEW jobs \in [Job -> JobState], NEW event, NEW agent,
         \A k \in Job : JobOK(jobs[k], commits', comments', given'),
         mode' = mode, gated' = gated, gated \subseteq Step,
         Branch', Comments', labels' \subseteq given', given' \subseteq gated,
         Notify(event, agent, jobs)
  PROVE  Jobs'
<1>. DEFINE free == {k \in Job : jobs[k].pc = "off"}
            known == IF host = "gitlab" THEN labels' ELSE {}
            new   == [NoJob EXCEPT !.pc = "queued", !.sha = tip', !.labels = known]
<1>1. Len(commits') \in Nat /\ comments' \in Nat
  BY LenProperties DEF Branch, Comments
<1>2. new \in JobState /\ JobOK(new, commits', comments', given')
  <2>0. known \in SUBSET Step /\ known \subseteq given' /\ tip' \in Nat
    BY <1>1 DEF Branch
  <2>1. new \in JobState
    BY <2>0, NoJobType DEF JobState, Stage
  <2>2. new.sha \in 1 .. Len(commits') /\ new.labels \subseteq given'
    BY NoJobType DEF NoJob, Branch
  <2>. QED  BY <1>1, <2>1, <2>2 DEF JobOK, NoJob
<1>3. job' = jobs \/ \E k \in Job : job' = [jobs EXCEPT ![k] = new]
  BY DEF Notify, Started
<1>4. job' \in [Job -> JobState] /\ \A k \in Job : JobOK(job'[k], commits', comments', given')
  BY <1>2, <1>3
<1>. QED  BY <1>4 DEF Jobs, JobOK, Guarded

\* A step that leaves the branch, the comments and the words alone.
LEMMA JobMoves ==
  ASSUME IInv, NEW j \in Job, NEW r \in JobState, Goes(j, r),
         UNCHANGED <<mode, gated, commits, tip, comments, labels, given>>, heard' \subseteq given,
         JobOK(r, commits, comments, given)
  PROVE  IInv'
<1>1. Policy' /\ Branch' /\ Words' /\ Comments'
  BY DEF IInv, Policy, Branch, Words, Comments
<1>2. Commits'
  BY DEF IInv, Commits, CommitOK, Guarded
<1>3. Grown(commits, commits') /\ Len(commits) \in Nat /\ comments \in Nat
  BY LenProperties DEF Grown, IInv, Branch, Comments
<1>4. given \subseteq given' /\ comments <= comments'
  BY <1>3
<1>5. JobOK(r, commits', comments', given') /\ job' = [job EXCEPT ![j] = r]
  BY DEF Goes
<1>6. mode' = mode /\ gated' = gated /\ Jobs /\ Branch /\ Comments
  BY DEF IInv
<1>7. Jobs'
  BY <1>1, <1>3, <1>4, <1>5, <1>6, Moving
<1>. QED  BY <1>1, <1>2, <1>7 DEF IInv

\* A status disturbs no more than the verdict of the commit it lands on.
LEMMA StatusPosted ==
  ASSUME IInv, NEW j, NEW c \in 1 .. Len(commits), NEW name \in {"gate", "verdict"},
         NEW conclusion \in Conclusion, NEW loose \in BOOLEAN,
         Posts(j, c, name, conclusion, loose),
         name = "verdict" /\ conclusion = "success" => commits[c].wired \/ loose,
         UNCHANGED <<mode, gated, tip, given>>
  PROVE  Grown(commits, commits') /\ Len(commits') = Len(commits) /\ Branch' /\ Commits'
<1>1. commits \in Seq(Commit) /\ Len(commits) \in Nat
  BY LenProperties DEF IInv, Branch
<1>2. CASE UNCHANGED commits
  BY <1>1, <1>2 DEF Grown, IInv, Branch, Commits, CommitOK, Guarded
<1>3. CASE /\ commits[c].here
           /\ commits' = [commits EXCEPT ![c][name] = conclusion,
                                         ![c].loose = IF name = "verdict" THEN loose ELSE @]
  <2>1. commits[c] \in Commit /\ CommitOK(commits[c], given)
    BY <1>1, ElementOfSeq DEF IInv, Commits
  <2>2. PICK e \in Commit :
          /\ commits' = [commits EXCEPT ![c] = e]
          /\ e.wired = commits[c].wired /\ e.agent = commits[c].agent /\ e.here = commits[c].here
          /\ e.manifest = commits[c].manifest
          /\ e.verdict = "success" => e.wired \/ e.loose
    <3>1. CASE name = "gate"
      <4>. DEFINE e == [commits[c] EXCEPT !.gate = conclusion]
      <4>1. e \in Commit /\ e.loose = commits[c].loose /\ e.verdict = commits[c].verdict
            /\ e.wired = commits[c].wired /\ e.agent = commits[c].agent /\ e.here = commits[c].here
            /\ e.manifest = commits[c].manifest
        BY <2>1 DEF Commit
      <4>2. commits' = [commits EXCEPT ![c] = e]
        BY <1>3, <2>1, <3>1 DEF Commit
      <4>. QED  BY <2>1, <4>1, <4>2 DEF CommitOK
    <3>2. CASE name = "verdict"
      <4>. DEFINE e == [commits[c] EXCEPT !.verdict = conclusion, !.loose = loose]
      <4>1. e \in Commit /\ e.loose = loose /\ e.verdict = conclusion
            /\ e.wired = commits[c].wired /\ e.agent = commits[c].agent /\ e.here = commits[c].here
            /\ e.manifest = commits[c].manifest
        BY <2>1 DEF Commit
      <4>2. commits' = [commits EXCEPT ![c] = e]
        BY <1>3, <2>1, <3>2 DEF Commit
      <4>. QED  BY <3>2, <4>1, <4>2
    <3>. QED  BY <3>1, <3>2
  <2>3. /\ commits' \in Seq(Commit) /\ Len(commits') = Len(commits)
        /\ \A k \in 1 .. Len(commits) : commits'[k] = IF k = c THEN e ELSE commits[k]
    BY <1>1, <2>2, ExceptSeq
  <2>4. CommitOK(e, given')
    BY <2>1, <2>2 DEF CommitOK
  <2>5. Commits'
    BY <2>3, <2>4 DEF IInv, Commits, CommitOK, Guarded
  <2>6. Branch'
    BY <2>2, <2>3 DEF IInv, Branch
  <2>. QED  BY <1>1, <2>2, <2>3, <2>5, <2>6 DEF Grown
<1>. QED  BY <1>2, <1>3 DEF Posts

\* A commit of a job, pushed or refused, is the head of its checkout.
LEMMA CommitMade ==
  ASSUME IInv, NEW j \in Job, NEW c \in Commit, NEW r \in JobState, CommitAndPush(j, c, r),
         CommitOK(c, given), UNCHANGED Apart,
         JobOK([r EXCEPT !.head = Len(commits) + 1], Append(commits, c), comments, given)
  PROVE  IInv'
<1>. DEFINE n   == Len(commits) + 1
            all == Append(commits, c)
            q   == [r EXCEPT !.head = n]
<1>1. commits \in Seq(Commit) /\ Len(commits) \in Nat /\ comments \in Nat
  BY LenProperties DEF IInv, Branch, Comments
<1>2. /\ all \in Seq(Commit) /\ Len(all) = n /\ n \in Nat
      /\ \A k \in 1 .. n : all[k] \in Commit /\ CommitOK(all[k], given)
      /\ \A k \in 1 .. Len(commits) : all[k] = commits[k]
  <2>1. all \in Seq(Commit) /\ Len(all) = n /\ n \in Nat
        /\ \A k \in 1 .. n : all[k] = IF k = n THEN c ELSE commits[k]
    BY <1>1, AppendProperties
  <2>2. \A k \in 1 .. Len(commits) : CommitOK(commits[k], given) /\ commits[k] \in Commit
    BY <1>1, ElementOfSeq DEF IInv, Commits
  <2>. QED  BY <1>1, <2>1, <2>2
<1>3. q \in JobState /\ q.head = n
  BY <1>2 DEF JobState
<1>4. UNCHANGED <<mode, gated, labels, given, comments, heard>>
  BY DEF Apart, Quiet
<1>5. Policy' /\ Words' /\ Comments'
  BY <1>4 DEF IInv, Policy, Words, Comments
<1>6. ASSUME Grown(all, commits'), Len(commits') = n, Branch',
             \A k \in 1 .. n : CommitOK(commits'[k], given),
             NEW s \in JobState, JobOK(s, all, comments, given), job' = [job EXCEPT ![j] = s]
      PROVE  IInv'
  <2>1. Grown(commits, commits')
    BY <1>1, <1>2, <1>6 DEF Grown
  <2>2. comments' \in Nat /\ comments <= comments' /\ given \subseteq given'
    BY <1>1, <1>4
  <2>. HIDE DEF all, n, q
  <2>3. JobOK(s, commits', comments', given')
    BY <1>1, <1>2, <1>6, <2>2, Waiting
  <2>4. Jobs'
    BY <1>4, <1>5, <1>6, <2>1, <2>3, <2>2, Moving DEF IInv
  <2>5. Commits'
    BY <1>4, <1>6 DEF Commits, CommitOK, Guarded
  <2>. QED  BY <1>5, <1>6, <2>4, <2>5 DEF IInv
<1>7. CASE /\ commits' = [k \in 1 .. n |-> [all[k] EXCEPT !.here = @ \/ k = n \/ k \in r.local]]
           /\ tip' = n
           /\ Notify("push", TRUE, [job EXCEPT ![j] = [r EXCEPT !.head = n, !.upstream = n, !.local = {}]])
  <2>. DEFINE s == [r EXCEPT !.head = n, !.upstream = n, !.local = {}]
  <2>1. job' = [job EXCEPT ![j] = s]
    BY <1>7 DEF Notify, Started, StartsJob
  <2>2. \A k \in 1 .. n : /\ commits'[k] \in Commit
                          /\ commits'[k] = [all[k] EXCEPT !.here = @ \/ k = n \/ k \in r.local]
    BY <1>2, <1>7 DEF Commit
  <2>3. commits' \in Seq(Commit) /\ Len(commits') = n
    <3>1. commits' \in [1 .. n -> Commit]
      BY <1>7, <2>2
    <3>. QED  BY <1>2, <3>1
  <2>4. \A k \in 1 .. n : /\ commits'[k].wired = all[k].wired /\ commits'[k].agent = all[k].agent
                          /\ commits'[k].verdict = all[k].verdict /\ commits'[k].loose = all[k].loose
                          /\ commits'[k].manifest = all[k].manifest
    <3>1. TAKE k \in 1 .. n
    <3>2. all[k] \in Commit
      BY <1>2
    <3>3. commits'[k] = [all[k] EXCEPT !.here = @ \/ k = n \/ k \in r.local]
      BY <2>2
    <3>. HIDE DEF all, n
    <3>. QED  BY <3>2, <3>3 DEF Commit
  <2>5. commits'[n].here
    <3>1. n \in 1 .. n /\ all[n] \in Commit
      BY <1>1, <1>2
    <3>. HIDE DEF all, n
    <3>2. commits'[n] = [all[n] EXCEPT !.here = @ \/ n = n \/ n \in r.local]
      BY <2>2, <3>1
    <3>. QED  BY <3>1, <3>2 DEF Commit
  <2>6. Grown(all, commits') /\ \A k \in 1 .. n : CommitOK(commits'[k], given)
    BY <1>2, <2>3, <2>4 DEF Grown, CommitOK
  <2>7. Branch'
    BY <1>2, <1>7, <2>3, <2>5 DEF Branch
  <2>8. s \in JobState /\ JobOK(s, all, comments, given)
    BY <1>2, <1>3 DEF JobState, JobOK
  <2>. QED  BY <1>6, <2>1, <2>3, <2>6, <2>7, <2>8
<1>8. CASE commits' = all /\ Goes(j, [r EXCEPT !.head = n, !.local = @ \union {n}]) /\ UNCHANGED tip
  <2>. DEFINE s == [r EXCEPT !.head = n, !.local = @ \union {n}]
  <2>1. Branch'
    BY <1>1, <1>2, <1>8 DEF IInv, Branch
  <2>2. Grown(all, commits')
    BY <1>2, <1>8 DEF Grown
  <2>3. s \in JobState /\ JobOK(s, all, comments, given)
    BY <1>2, <1>3 DEF JobState, JobOK
  <2>. QED  BY <1>2, <1>6, <1>8, <2>1, <2>2, <2>3 DEF Goes
<1>. QED  BY <1>7, <1>8 DEF CommitAndPush

\* A walk that halts leaves the rest of its job alone.
LEMMA Halting ==
  ASSUME NEW r \in JobState, NEW why \in Halt, NEW cs, NEW n, NEW words, JobOK(r, cs, n, words),
         r.pc = "walk", why = "apply" => r.at = "reviewer"
  PROVE  /\ Halted(r, why) \in JobState /\ JobOK(Halted(r, why), cs, n, words)
         /\ \E pc \in {"find", "gate", "stamp"} : Halted(r, why) = [r EXCEPT !.halt = why, !.pc = pc]
<1>. DEFINE pc == IF why \in {"approval", "input"} THEN "find" ELSE IF HasGate THEN "gate" ELSE "stamp"
<1>1. pc \in {"find", "gate", "stamp"} /\ Halted(r, why) = [r EXCEPT !.halt = why, !.pc = pc]
  BY DEF Halted
<1>. QED  BY <1>1 DEF JobState, JobOK, Stage

\* What a human does starts at most one job.
LEMMA Acting ==
  ASSUME IInv, Branch', Commits', Words', Grown(commits, commits'), given \subseteq given',
         UNCHANGED <<mode, gated, comments>>,
         (\E event, agent : Notify(event, agent, job)) \/ UNCHANGED job
  PROVE  IInv'
<1>1. Policy' /\ Comments'
  BY DEF IInv, Policy, Comments
<1>2. comments \in Nat /\ comments' = comments /\ commits \in Seq(Commit)
  BY LenProperties DEF IInv, Comments, Branch
<1>3. \A k \in Job : JobOK(job[k], commits', comments', given')
  <2>1. TAKE k \in Job
  <2>2. job[k] \in JobState /\ JobOK(job[k], commits, comments, given)
    BY DEF IInv, Jobs
  <2>. QED  BY <1>2, <2>2, Waiting
<1>4. job \in [Job -> JobState]
  BY DEF IInv, Jobs
<1>5. Jobs'
  <2>1. CASE UNCHANGED job
    BY <1>1, <1>3, <1>4, <2>1 DEF Jobs, JobOK, Guarded
  <2>2. ASSUME NEW event, NEW agent, Notify(event, agent, job)  PROVE Jobs'
    <3>1. mode' = mode /\ gated' = gated /\ gated \subseteq Step
      BY DEF IInv, Policy
    <3>2. labels' \subseteq given' /\ given' \subseteq gated
      BY <3>1 DEF Words
    <3>. QED  BY <1>1, <1>3, <1>4, <2>2, <3>1, <3>2, Starting
  <2>. QED  BY <2>1, <2>2
<1>. QED  BY <1>1, <1>5 DEF IInv

-----------------------------------------------------------------------------
(* The beginning, and the steps *)

LEMMA Beginning == PullInit => IInv
<1>. SUFFICES ASSUME PullInit  PROVE IInv
  OBVIOUS
<1>1. Policy
  <2>1. mode \in {"yolo", "always"}
    BY DEF PullInit, ApprovalMode, NormalizeApprovalMode
  <2>2. PICK listed \in Lists : gated = GatedSteps(mode, listed)
    BY DEF PullInit
  <2>3. ParseGateSteps(listed) \subseteq Step
    BY PullAssumption DEF PullAssumption, ParseGateSteps
  <2>. QED  BY <2>1, <2>2, <2>3 DEF Policy, GatedSteps, Step
<1>2. /\ commits \in Seq(Commit) /\ Len(commits) = 1 /\ commits[1] = FirstCommit
      /\ tip = 1 /\ comments = 0 /\ given = {}
  BY FirstCommitType DEF PullInit
<1>3. Branch /\ Commits
  BY <1>2 DEF Branch, Commits, CommitOK, FirstCommit
<1>4. Words /\ Comments
  BY <1>2 DEF Words, Comments, PullInit
<1>5. JobOK(NoJob, commits, comments, given)
  BY <1>2 DEF JobOK, NoJob
<1>6. Jobs
  BY <1>5, NoJobType DEF Jobs, PullInit
<1>. QED  BY <1>1, <1>3, <1>4, <1>6 DEF IInv

LEMMA HumansPush ==
  ASSUME IInv, AuthorPushes(commits[tip].wired)
  PROVE  IInv'
<1>. DEFINE c == [OnTop(commits[tip], FALSE) EXCEPT !.wired = commits[tip].wired]
<1>1. commits \in Seq(Commit) /\ Len(commits) \in Nat /\ commits[tip] \in Commit
      /\ tip \in 1 .. Len(commits) /\ CommitOK(commits[tip], given)
  BY LenProperties, ElementOfSeq DEF IInv, Branch, Commits
<1>2. c \in Commit /\ CommitOK(c, given) /\ c.here
  <2>1. /\ c \in Commit /\ c.wired = commits[tip].wired /\ c.manifest = commits[tip].manifest
        /\ c.agent = FALSE /\ c.here = TRUE /\ c.verdict = "none"
    <3>1. PICK b \in Commit : /\ b = OnTop(commits[tip], FALSE) /\ b.wired = commits[tip].wired /\ b.manifest = commits[tip].manifest
                                /\ b.agent = FALSE /\ b.here = ~FALSE /\ b.verdict = "none"
      BY <1>1, Topped
    <3>2. c = [b EXCEPT !.wired = commits[tip].wired]
      BY <3>1
    <3>. QED  BY <1>1, <3>1, <3>2 DEF Commit
  <2>. QED  BY <1>1, <2>1 DEF CommitOK
<1>3. commits' = Append(commits, c) /\ tip' = Len(commits')
      /\ UNCHANGED <<mode, gated, labels, given, heard, comments>> /\ Notify("push", FALSE, job)
  BY DEF AuthorPushes
<1>. HIDE DEF c
<1>4. /\ commits' \in Seq(Commit) /\ Len(commits') = Len(commits) + 1
      /\ commits'[Len(commits')] = c
      /\ \A k \in 1 .. Len(commits) : commits'[k] = commits[k]
  BY <1>1, <1>2, <1>3, AppendProperties
<1>5. Branch' /\ Grown(commits, commits')
  BY <1>1, <1>2, <1>3, <1>4 DEF Branch, Grown
<1>6. Commits'
  BY <1>1, <1>2, <1>3, <1>4 DEF IInv, Commits, CommitOK, Guarded
<1>7. Words'
  BY <1>3 DEF IInv, Words
<1>. QED  BY <1>3, <1>5, <1>6, <1>7, Acting

LEMMA HumansLabel ==
  ASSUME IInv, Relabels \/ Reruns
  PROVE  IInv'
<1>1. UNCHANGED <<mode, gated, commits, tip, comments>> /\ given \subseteq given' /\ Words'
  BY DEF Relabels, Reruns, IInv, Words
<1>2. (\E event, agent : Notify(event, agent, job)) \/ UNCHANGED job
  BY DEF Relabels, Reruns
<1>3. Branch' /\ Grown(commits, commits')
  BY <1>1, LenProperties DEF IInv, Branch, Grown
<1>4. Commits'
  BY <1>1 DEF IInv, Commits, CommitOK, Guarded
<1>. QED  BY <1>1, <1>2, <1>3, <1>4, Acting

\* What every step of a job starts from.
LEMMA Standing ==
  ASSUME IInv, NEW j \in Job
  PROVE  /\ job[j] \in JobState /\ JobOK(job[j], commits, comments, given)
         /\ commits \in Seq(Commit) /\ Len(commits) \in Nat /\ comments \in Nat
         /\ tip \in 1 .. Len(commits)
         /\ labels \subseteq given /\ given \subseteq Step /\ heard \subseteq given
BY LenProperties DEF IInv, Jobs, Branch, Comments, Words, Policy

LEMMA JobBegins ==
  ASSUME IInv, NEW j \in Job, Checkout(j) \/ LaunchFails(j) \/ Killed(j) \/ ApprovedSteps(j)
  PROVE  IInv'
<1>. USE Standing
<1>1. UNCHANGED <<mode, gated, commits, tip, comments, labels, given>>
  BY DEF Checkout, LaunchFails, Killed, ApprovedSteps, Quiet
<1>2. CASE Checkout(j)
  <2>. DEFINE c == IF host = "github" THEN tip ELSE job[j].sha
              r == [job[j] EXCEPT !.pc = "launched", !.head = c, !.upstream = c]
  <2>1. c \in 1 .. Len(commits) /\ heard' = heard /\ Goes(j, r)
    BY <1>2 DEF Checkout, JobOK, JobState
  <2>2. job[j].pc = "queued" /\ c \in Nat /\ c > 0 /\ c <= Len(commits)
    BY <1>2, <2>1 DEF Checkout
  <2>3. r \in JobState
    <3>1. job[j] \in JobState /\ "launched" \in Stage
      BY DEF Stage
    <3> QED BY <2>2, <3>1 DEF JobState
  <2>4. r.pc = "launched" /\ r.head = c /\ r.sha = job[j].sha /\ r.note = job[j].note /\ r.labels = job[j].labels
        /\ r.approved = job[j].approved /\ r.dirty = job[j].dirty /\ r.at = job[j].at /\ r.halt = job[j].halt
    BY DEF JobState
  <2>5. JobOK(r, commits, comments, given)
    BY <2>2, <2>4 DEF JobOK
  <2>. QED  BY <1>1, <2>1, <2>3, <2>5, JobMoves
<1>3. CASE LaunchFails(j) \/ Killed(j)
  <2>1. JobOK(NoJob, commits, comments, given)
    BY DEF JobOK, NoJob
  <2>2. heard' = heard /\ Goes(j, NoJob)
    BY <1>3 DEF LaunchFails, Killed
  <2>. QED  BY <1>1, <2>1, <2>2, NoJobType, JobMoves
<1>4. CASE ApprovedSteps(j)
  <2>1. PICK a \in {{}, labels, job[j].labels} : Goes(j, [job[j] EXCEPT !.pc = "walk", !.approved = a])
    BY <1>4 DEF ApprovedSteps, Unread
  <2>. DEFINE r == [job[j] EXCEPT !.pc = "walk", !.approved = a]
  <2>2. a \subseteq given
    BY <2>1 DEF JobOK
  <2>3. r \in JobState /\ JobOK(r, commits, comments, given)
    BY <1>4, <2>2 DEF ApprovedSteps, JobOK, JobState, Stage
  <2>4. heard' \subseteq given
    BY <1>4, <2>1, <2>2, <2>3 DEF ApprovedSteps, IInv, Jobs, Goes, JobState
  <2>. QED  BY <1>1, <2>1, <2>3, <2>4, JobMoves
<1>. QED  BY <1>2, <1>3, <1>4

\* A commit of a job on its way to q, on top of the checkout's last.
LEMMA Committing ==
  ASSUME IInv, NEW j \in Job, NEW q \in JobState, JobOK(q, commits, comments, given), q.head > 0,
         NEW c \in Commit, CommitOK(c, given), commits[q.head].wired => c.wired,
         CommitAndPush(j, c, q), UNCHANGED Apart
  PROVE  IInv'
<1>. DEFINE s == [q EXCEPT !.head = Len(commits) + 1]
<1>1. commits \in Seq(Commit) /\ Len(commits) \in Nat /\ q.head \in Nat
  BY LenProperties DEF IInv, Branch, JobState
<1>2. Len(Append(commits, c)) = Len(commits) + 1 /\ Append(commits, c)[Len(commits) + 1] = c
  BY <1>1, AppendProperties
<1>3. /\ s.head = Len(commits) + 1 /\ s.sha = q.sha /\ s.note = q.note /\ s.labels = q.labels /\ s.halt = q.halt
      /\ s.approved = q.approved /\ s.dirty = q.dirty /\ s.pc = q.pc /\ s.at = q.at
  BY DEF JobState
<1>4. JobOK(s, Append(commits, c), comments, given)
  <2>1. s.sha <= Len(commits) + 1 /\ s.head > 0
    BY <1>1, <1>3 DEF JobOK, JobState
  <2>. QED  BY <1>2, <1>3, <2>1 DEF JobOK
<1>. QED  BY <1>4, CommitMade

\* A step that may write the manifest, once the planner's gate is no obstacle.
LEMMA Writing ==
  ASSUME IInv, NEW j \in Job, NEW q \in JobState, JobOK(q, commits, comments, given), q.head > 0,
         Guarded("planner") => "planner" \in given, WritesManifest(j, q)
  PROVE  IInv'
<1>1. CASE Goes(j, q) /\ UNCHANGED Aside
  <2>1. heard' \subseteq given /\ UNCHANGED <<mode, gated, commits, tip, comments, labels, given>>
    BY <1>1 DEF Aside, Apart, Quiet, IInv, Words
  <2>. QED  BY <1>1, <2>1, JobMoves
<1>2. ASSUME UNCHANGED Apart,
             CommitAndPush(j, [OnTop(commits[q.head], TRUE) EXCEPT !.manifest = TRUE], q)
      PROVE  IInv'
  <2>. DEFINE c == [OnTop(commits[q.head], TRUE) EXCEPT !.manifest = TRUE]
  <2>1. commits[q.head] \in Commit /\ CommitOK(commits[q.head], given)
    <3>1. q.head \in 1 .. Len(commits) /\ commits \in Seq(Commit)
      BY LenProperties DEF JobOK, JobState, IInv, Branch
    <3>. QED  BY <3>1, ElementOfSeq DEF IInv, Commits
  <2>2. c \in Commit /\ c.wired = commits[q.head].wired /\ c.verdict = "none"
    <3>1. PICK b \in Commit : /\ b = OnTop(commits[q.head], TRUE) /\ b.wired = commits[q.head].wired /\ b.manifest = commits[q.head].manifest
                                /\ b.agent = TRUE /\ b.here = ~TRUE /\ b.verdict = "none"
      BY <2>1, Topped
    <3>2. c = [b EXCEPT !.manifest = TRUE]
      BY <3>1
    <3>. QED  BY <2>1, <3>1, <3>2 DEF Commit
  <2>3. CommitOK(c, given)
    BY <2>1, <2>2 DEF CommitOK
  <2>. QED  BY <1>2, <2>2, <2>3, Committing
<1>. QED  BY <1>1, <1>2 DEF WritesManifest

LEMMA JobWalks ==
  ASSUME IInv, NEW j \in Job, AwaitApproval(j) \/ Plan(j) \/ Review(j)
  PROVE  IInv'
<1>. USE Standing
<1>1. job[j].pc = "walk" /\ job[j].head > 0
  BY DEF AwaitApproval, Plan, Review, AtStep, JobOK
<1>2. ASSUME NEW why \in Halt, why = "apply" => job[j].at = "reviewer",
             Goes(j, Halted(job[j], why)), UNCHANGED Aside
      PROVE  IInv'
  <2>1. UNCHANGED <<mode, gated, commits, tip, comments, labels, given, heard>>
    BY <1>2 DEF Aside, Apart, Quiet
  <2>. QED  BY <1>1, <1>2, <2>1, Halting, JobMoves
<1>3. CASE Plan(j)
  <2>1. job[j].at = "planner" /\ (Guarded("planner") => "planner" \in given)
    BY <1>3 DEF Plan, AtStep, GateShut, HasGate, Guarded, JobOK
  <2>2. PICK q \in {[job[j] EXCEPT !.at = "implementer"], Halted(job[j], "noop"), Halted(job[j], "red")} :
          WritesManifest(j, q)
    BY <1>3 DEF Plan
  <2>3. q \in JobState /\ JobOK(q, commits, comments, given) /\ q.head > 0
    <3>1. CASE q = [job[j] EXCEPT !.at = "implementer"]
      <4>1. job[j].halt # "apply"
        BY <2>1 DEF JobOK
      <4>. QED  BY <1>1, <2>1, <3>1, <4>1 DEF JobOK, JobState, Step
    <3>2. ASSUME NEW why \in {"noop", "red"}, q = Halted(job[j], why)
          PROVE  q \in JobState /\ JobOK(q, commits, comments, given) /\ q.head > 0
      <4>1. /\ q \in JobState /\ JobOK(q, commits, comments, given)
            /\ \E pc \in {"find", "gate", "stamp"} : q = [job[j] EXCEPT !.halt = why, !.pc = pc]
        BY <1>1, <3>2, Halting DEF Halt
      <4>. QED  BY <1>1, <4>1 DEF JobState
    <3>. QED  BY <2>2, <3>1, <3>2
  <2>. QED  BY <2>1, <2>2, <2>3, Writing
<1>4. CASE AwaitApproval(j) \/ Review(j)
  BY <1>2, <1>4 DEF AwaitApproval, Review, AtStep, Halt
<1>. QED  BY <1>3, <1>4

LEMMA JobImplements ==
  ASSUME IInv, NEW j \in Job, Implement(j)
  PROVE  IInv'
<1>. USE Standing
<1>1. job[j].pc = "walk" /\ job[j].at = "implementer" /\ job[j].head \in 1 .. Len(commits)
  BY DEF Implement, AtStep, JobOK, JobState
<1>2. /\ Guarded("implementer") => "implementer" \in given
      /\ Guarded("planner") => "planner" \in given
  BY <1>1 DEF Implement, AtStep, GateShut, HasGate, Guarded, JobOK
<1>3. job[j].halt # "apply"
  BY <1>1 DEF JobOK
<1>4. ASSUME NEW why \in {"input", "red"}
      PROVE  /\ Halted(job[j], why) \in JobState /\ JobOK(Halted(job[j], why), commits, comments, given)
             /\ \E pc \in {"find", "gate", "stamp"} : Halted(job[j], why) = [job[j] EXCEPT !.halt = why, !.pc = pc]
  <2>1. job[j] \in JobState /\ JobOK(job[j], commits, comments, given)
    OBVIOUS
  <2>2. why \in Halt /\ why # "apply"
    BY DEF Halt
  <2>. QED  BY <1>1, <2>1, <2>2, Halting
<1>5. ASSUME NEW why \in {"input", "red"}, WritesManifest(j, Halted(job[j], why))
      PROVE  IInv'
  <2>1. Halted(job[j], why).head > 0
    <3>1. PICK pc \in {"find", "gate", "stamp"} : Halted(job[j], why) = [job[j] EXCEPT !.halt = why, !.pc = pc]
      BY <1>4, <1>5
    <3>. QED  BY <1>1, <3>1 DEF JobState
  <2>. QED  BY <1>2, <1>4, <1>5, <2>1, Writing
<1>6. ASSUME NEW r \in {[job[j] EXCEPT !.at = "reviewer"], Halted(job[j], "red")},
             IF commits[r.head].wired THEN Goes(j, r) /\ UNCHANGED Aside
             ELSE \/ Goes(j, [r EXCEPT !.dirty = TRUE]) /\ UNCHANGED Aside
                  \/ /\ UNCHANGED Apart
                     /\ CommitAndPush(j, [OnTop(commits[r.head], TRUE) EXCEPT !.wired = TRUE], r)
      PROVE  IInv'
  <2>1. /\ r \in JobState /\ r.head = job[j].head /\ r.halt # "apply"
        /\ r.sha = job[j].sha /\ r.note = job[j].note /\ r.labels = job[j].labels
        /\ r.approved = job[j].approved /\ r.dirty = job[j].dirty
        /\ r.pc \in {"walk", "find", "gate", "stamp"}
    <3>1. CASE r = [job[j] EXCEPT !.at = "reviewer"]
      <4>1. job[j] \in JobState /\ "reviewer" \in Step  BY DEF Step, JobOK
      <4>2. r \in JobState  BY <3>1, <4>1 DEF JobState
      <4> QED BY <1>1, <1>3, <3>1, <4>1, <4>2 DEF JobState
    <3>2. CASE r = Halted(job[j], "red")
      <4>1. PICK pc \in {"find", "gate", "stamp"} : r = [job[j] EXCEPT !.halt = "red", !.pc = pc]
        BY <1>4, <3>2
      <4>. QED  BY <1>4, <3>2, <4>1 DEF JobState
    <3>. QED  BY <1>6, <3>1, <3>2
  <2>2. CASE commits[r.head].wired
    <3>1. JobOK(r, commits, comments, given)
      BY <1>1, <2>1, <2>2 DEF JobOK
    <3>. QED  BY <1>6, <2>1, <2>2, <3>1, JobMoves DEF Aside, Apart, Quiet
  <2>3. CASE Goes(j, [r EXCEPT !.dirty = TRUE]) /\ UNCHANGED Aside
    <3>. DEFINE s == [r EXCEPT !.dirty = TRUE]
    <3>1. s \in JobState /\ JobOK(s, commits, comments, given)
      BY <1>1, <1>2, <2>1 DEF JobOK, JobState
    <3>. QED  BY <2>3, <3>1, JobMoves DEF Aside, Apart, Quiet
  <2>4. CASE /\ UNCHANGED Apart
             /\ CommitAndPush(j, [OnTop(commits[r.head], TRUE) EXCEPT !.wired = TRUE], r)
    <3>. DEFINE c == [OnTop(commits[r.head], TRUE) EXCEPT !.wired = TRUE]
                s == [r EXCEPT !.head = Len(commits) + 1]
    <3>1. commits[r.head] \in Commit
      BY <1>1, <2>1, ElementOfSeq
    <3>2. c \in Commit /\ c.wired /\ c.verdict = "none"
      <4>1. PICK b \in Commit : /\ b = OnTop(commits[r.head], TRUE) /\ b.wired = commits[r.head].wired /\ b.manifest = commits[r.head].manifest
                                  /\ b.agent = TRUE /\ b.here = ~TRUE /\ b.verdict = "none"
        BY <3>1, Topped
      <4>2. c = [b EXCEPT !.wired = TRUE]
        BY <4>1
      <4>. QED  BY <3>1, <4>1, <4>2 DEF Commit
    <3>3. CommitOK(c, given)
      BY <1>2, <3>2 DEF CommitOK
    <3>4. /\ Len(Append(commits, c)) = Len(commits) + 1
          /\ Append(commits, c)[Len(commits) + 1] = c
      BY <3>2, AppendProperties
    <3>5. /\ s.head = Len(commits) + 1 /\ s.sha = r.sha /\ s.note = r.note /\ s.labels = r.labels /\ s.halt = r.halt
          /\ s.approved = r.approved /\ s.dirty = r.dirty /\ s.pc = r.pc /\ s.at = r.at
      BY <2>1 DEF JobState
    <3>6. JobOK(s, Append(commits, c), comments, given)
      <4>1. s.sha <= Len(commits) + 1 /\ s.note <= comments /\ s.sha > 0 /\ s.head > 0
        BY <1>1, <2>1, <3>5 DEF JobOK, JobState
      <4>2. c.wired = TRUE
        BY <3>2 DEF Commit
      <4>. QED  BY <1>1, <1>2, <2>1, <3>4, <3>5, <4>1, <4>2 DEF JobOK
    <3>. QED  BY <2>1, <2>4, <3>2, <3>3, <3>6, CommitMade
  <2>. QED  BY <1>6, <2>2, <2>3, <2>4
<1>. QED  BY <1>5, <1>6 DEF Implement

\* A status of a job, after which the job is r.
LEMMA StatusStep ==
  ASSUME IInv, NEW j \in Job, NEW c \in 1 .. Len(commits), NEW name \in {"gate", "verdict"},
         NEW conclusion \in Conclusion, NEW loose \in BOOLEAN, Posts(j, c, name, conclusion, loose),
         name = "verdict" /\ conclusion = "success" => commits[c].wired \/ loose,
         NEW r \in JobState, JobOK(r, commits, comments, given), Goes(j, r),
         UNCHANGED <<tip, Apart>>
  PROVE  IInv'
<1>. USE Standing
<1>1. UNCHANGED <<mode, gated, tip, comments, labels, given, heard>>
  BY DEF Apart, Quiet
<1>2. Grown(commits, commits') /\ Len(commits') = Len(commits) /\ Branch' /\ Commits'
  BY <1>1, StatusPosted
<1>3. Policy' /\ Words' /\ Comments' /\ comments <= comments' /\ given \subseteq given'
  BY <1>1 DEF IInv, Policy, Words, Comments
<1>4. JobOK(r, commits', comments', given')
  BY <1>1, <1>2, Waiting
<1>5. Jobs'
  BY <1>1, <1>2, <1>3, <1>4, Moving DEF IInv, Goes
<1>. QED  BY <1>2, <1>3, <1>5 DEF IInv

LEMMA JobPosts ==
  ASSUME IInv, NEW j \in Job, GateSatisfied(j) \/ PostStatus(j)
  PROVE  IInv'
<1>. USE Standing
<1>1. job[j].sha \in 1 .. Len(commits) /\ job[j].head \in 1 .. Len(commits)
  <2>1. job[j].pc \in {"gate", "status"}
    BY DEF GateSatisfied, PostStatus
  <2>. QED  BY <2>1 DEF JobOK, JobState
<1>2. UNCHANGED <<tip, Apart>>
  BY DEF GateSatisfied, PostStatus
<1>3. CASE GateSatisfied(j)
  <2>. DEFINE r == [job[j] EXCEPT !.pc = "stamp"]
  <2>1. r \in JobState /\ JobOK(r, commits, comments, given)
    BY <1>3 DEF GateSatisfied, JobState, JobOK, Stage
  <2>2. Posts(j, job[j].sha, "gate", "success", FALSE) /\ Goes(j, r) /\ "success" \in Conclusion
    BY <1>3 DEF GateSatisfied, Conclusion
  <2>. QED  BY <1>1, <1>2, <2>1, <2>2, StatusStep
<1>4. CASE PostStatus(j)
  <2>1. JobOK(NoJob, commits, comments, given) /\ Goes(j, NoJob)
    BY <1>4 DEF JobOK, NoJob, PostStatus
  <2>2. CASE Paused(j) /\ host = "github"
    <3>1. Posts(j, job[j].sha, "gate", "action_required", FALSE) /\ "action_required" \in Conclusion
      BY <1>4, <2>2 DEF PostStatus, Conclusion
    <3>. QED  BY <1>1, <1>2, <2>1, <3>1, NoJobType, StatusStep
  <2>3. CASE Paused(j) /\ host # "github"
    BY <1>2, <1>4, <2>1, <2>3, NoJobType, JobMoves DEF PostStatus, Apart, Quiet
  <2>4. CASE ~Paused(j)
    <3>. DEFINE conclusion == IF job[j].halt \in {"apply", "noop"} THEN "success" ELSE "failure"
                loose      == job[j].halt = "noop" \/ job[j].dirty
    <3>1. conclusion \in Conclusion /\ loose \in BOOLEAN
      BY DEF Conclusion, JobState
    <3>2. conclusion = "success" => commits[job[j].head].wired \/ loose
      BY DEF JobOK
    <3>3. Posts(j, job[j].head, "verdict", conclusion, loose)
      BY <1>4, <2>4 DEF PostStatus, VerdictCommit
    <3>. HIDE DEF conclusion, loose
    <3>. QED  BY <1>1, <1>2, <2>1, <3>1, <3>2, <3>3, NoJobType, StatusStep
  <2>. QED  BY <2>2, <2>3, <2>4
<1>. QED  BY <1>3, <1>4

LEMMA JobStamps ==
  ASSUME IInv, NEW j \in Job, ReviewManifestIntent(j)
  PROVE  IInv'
<1>. USE Standing
<1>. DEFINE r == [job[j] EXCEPT !.pc = "find"]
<1>1. job[j].pc = "stamp" /\ job[j].head \in 1 .. Len(commits)
  BY DEF ReviewManifestIntent, JobOK, JobState
<1>2. r \in JobState /\ JobOK(r, commits, comments, given) /\ r.head = job[j].head
  BY <1>1 DEF JobState, JobOK, Stage
<1>3. CASE Goes(j, r) /\ UNCHANGED <<Apart, commits, tip>>
  BY <1>2, <1>3, JobMoves DEF Apart, Quiet
<1>4. ASSUME MayStamp(j), UNCHANGED Apart,
             CommitAndPush(j, [OnTop(commits[r.head], TRUE) EXCEPT !.approvedBy = TRUE], r)
      PROVE  IInv'
  <2>. DEFINE c == [OnTop(commits[r.head], TRUE) EXCEPT !.approvedBy = TRUE]
  <2>1. commits[r.head] \in Commit /\ CommitOK(commits[r.head], given)
    BY <1>1, <1>2, ElementOfSeq DEF IInv, Commits
  <2>2. /\ c \in Commit /\ c.wired = commits[r.head].wired /\ c.manifest = commits[r.head].manifest
        /\ c.verdict = "none"
    <3>1. PICK b \in Commit : /\ b = OnTop(commits[r.head], TRUE) /\ b.wired = commits[r.head].wired /\ b.manifest = commits[r.head].manifest
                                /\ b.agent = TRUE /\ b.here = ~TRUE /\ b.verdict = "none"
      BY <2>1, Topped
    <3>2. c = [b EXCEPT !.approvedBy = TRUE]
      BY <3>1
    <3>. QED  BY <2>1, <3>1, <3>2 DEF Commit
  <2>3. commits[r.head].manifest
    BY <1>2, <1>4 DEF MayStamp, HasManifest
  <2>4. CommitOK(c, given)
    BY <2>1, <2>2, <2>3 DEF CommitOK
  <2>5. r.head > 0
    BY <1>1, <1>2
  <2>. HIDE DEF r, c
  <2>. QED  BY <1>2, <1>4, <2>2, <2>4, <2>5, Committing DEF c
<1>. QED  BY <1>3, <1>4 DEF ReviewManifestIntent

LEMMA JobComments ==
  ASSUME IInv, NEW j \in Job, FindComment(j) \/ PostComment(j)
  PROVE  IInv'
<1>. USE Standing
<1>1. CASE FindComment(j)
  <2>1. PICK note \in {Marked, job[j].note} : Goes(j, [job[j] EXCEPT !.pc = "write", !.note = note])
    <3>1. [job[j] EXCEPT !.pc = "write"] = [job[j] EXCEPT !.pc = "write", !.note = job[j].note]
      BY DEF JobState
    <3>. QED  BY <1>1, <3>1 DEF FindComment
  <2>2. note \in 0 .. comments
    BY <2>1 DEF Marked, JobOK, JobState, IInv, Comments
  <2>. DEFINE r == [job[j] EXCEPT !.pc = "write", !.note = note]
  <2>3. job[j].pc = "find" /\ note \in Nat /\ note <= comments
    BY <1>1, <2>2 DEF FindComment
  <2>4. /\ r \in JobState /\ r.pc = "write" /\ r.note = note
        /\ r.head = job[j].head /\ r.sha = job[j].sha /\ r.labels = job[j].labels /\ r.halt = job[j].halt
        /\ r.approved = job[j].approved /\ r.dirty = job[j].dirty /\ r.at = job[j].at
        /\ r.upstream = job[j].upstream /\ r.local = job[j].local
    BY <2>3 DEF JobState, Stage
  <2>5. JobOK(r, commits, comments, given)
    BY <2>3, <2>4 DEF JobOK
  <2>. QED  BY <1>1, <2>1, <2>4, <2>5, JobMoves DEF FindComment, Apart, Quiet
<1>2. CASE PostComment(j)
  <2>. DEFINE r == [job[j] EXCEPT !.pc = "status"]
  <2>1. UNCHANGED <<mode, gated, commits, tip, labels, given, heard>> /\ Goes(j, r)
    BY <1>2 DEF PostComment, Quiet
  <2>3. Comments' /\ comments <= comments' /\ comments' \in Nat
    BY <1>2 DEF PostComment, IInv, Comments
  <2>4. Grown(commits, commits') /\ Branch' /\ Policy' /\ Words'
    BY <2>1 DEF Grown, IInv, Branch, Policy, Words
  <2>5. Commits'
    BY <2>1 DEF IInv, Commits, CommitOK, Guarded
  <2>6. r \in JobState /\ JobOK(r, commits, comments, given)
    BY <1>2 DEF PostComment, JobState, JobOK, Stage
  <2>7. JobOK(r, commits', comments', given')
    BY <2>1, <2>3, <2>4, <2>6, Waiting
  <2>8. Jobs'
    BY <2>1, <2>3, <2>4, <2>6, <2>7, Moving DEF IInv, Goes
  <2>. QED  BY <2>3, <2>4, <2>5, <2>8 DEF IInv
<1>. QED  BY <1>1, <1>2

-----------------------------------------------------------------------------
(* A label on a human's commit *)

Counted == faults \in Nat
Reading == {"queued", "launched"}

\* A fault spent is a fault counted.
LEMMA Spending ==
  ASSUME Counted, NEW kind, Spend(kind)
  PROVE  Counted' /\ faults' # 0
BY DEF Counted, Spend

\* What a human does where the branch ends in a human's commit starts a job.
LEMMA Beginner ==
  ASSUME job \in [Job -> JobState], Act, host = "github", NEW event \in {"push", "label", "reopen"},
         NEW agent, ~agent, Notify(event, agent, job)
  PROVE  \E j \in Job : job'[j].pc \in Reading
<1>. DEFINE known == IF host = "gitlab" THEN labels' ELSE {}
            new   == [NoJob EXCEPT !.pc = "queued", !.sha = tip', !.labels = known]
<1>1. StartsJob(event, agent) /\ Idle # {}
  BY DEF StartsJob, Act
<1>2. PICK j \in Idle : job' = [job EXCEPT ![j] = new]
  <2>1. job' = [job EXCEPT ![CHOOSE k \in Idle : TRUE] = new]
    BY <1>1 DEF Notify, Started, Idle
  <2>. QED  BY <1>1, <2>1
<1>3. j \in Job /\ job'[j] = new /\ new.pc = "queued"
  BY <1>2, NoJobType DEF Idle, NoJob
<1>. QED  BY <1>3 DEF Reading

\* A job that has read the labels takes nobody else's reader away.
LEMMA Persisting ==
  ASSUME LabelHasItsReader, NEW j \in Job, job \in [Job -> JobState], job[j].pc \notin Reading,
         NEW r, job' = [job EXCEPT ![j] = r], UNCHANGED <<host, mode, labels>>, heard \subseteq heard',
         commits'[tip'].agent = commits[tip].agent, faults' = 0 => faults = 0
  PROVE  LabelHasItsReader'
<1>1. \A k \in Job : job[k].pc \in Reading => job'[k] = job[k]
  OBVIOUS
<1>. QED  BY <1>1 DEF LabelHasItsReader, Reading

\* A pushed commit of a job is no human's; a refused one leaves the branch alone.
LEMMA PushingOver ==
  ASSUME IInv, Counted, LabelHasItsReader, NEW j \in Job, job[j].pc \notin Reading,
         NEW c \in Commit, c.agent, NEW r, CommitAndPush(j, c, r), UNCHANGED Apart
  PROVE  LabelHasItsReader' /\ Counted'
<1>. DEFINE n   == Len(commits) + 1
            all == Append(commits, c)
<1>1. /\ commits \in Seq(Commit) /\ Len(commits) \in Nat /\ tip \in 1 .. Len(commits)
      /\ job \in [Job -> JobState]
  BY LenProperties DEF IInv, Branch, Jobs
<1>2. n \in 1 .. n /\ all[n] = c /\ all[tip] = commits[tip]
  BY <1>1, AppendProperties
<1>3. UNCHANGED <<host, mode, labels, heard>>
  BY DEF Apart, Quiet
<1>4. CASE /\ UNCHANGED faults /\ tip' = n
           /\ commits' = [k \in 1 .. n |-> [all[k] EXCEPT !.here = @ \/ k = n \/ k \in r.local]]
  <2>. HIDE DEF n, all
  <2>1. commits'[n] = [c EXCEPT !.here = @ \/ n = n \/ n \in r.local]
    BY <1>2, <1>4
  <2>2. commits'[tip'].agent
    BY <1>4, <2>1 DEF Commit
  <2>. QED  BY <1>4, <2>2 DEF LabelHasItsReader, Counted
<1>5. CASE /\ commits' = all /\ UNCHANGED tip
           /\ Goes(j, [r EXCEPT !.head = n, !.local = @ \union {n}])
           /\ (IF tip = r.upstream THEN Spend("push") ELSE UNCHANGED faults)
  <2>1. Counted' /\ (faults' = 0 => faults = 0)
    BY <1>5, Spending DEF Counted
  <2>2. commits'[tip'].agent = commits[tip].agent /\ heard \subseteq heard'
    BY <1>2, <1>3, <1>5
  <2>3. job' = [job EXCEPT ![j] = [r EXCEPT !.head = n, !.local = @ \union {n}]]
    BY <1>5 DEF Goes
  <2>4. LabelHasItsReader'
    BY <1>1, <1>3, <2>1, <2>2, <2>3, Persisting
  <2>. QED  BY <2>1, <2>4
<1>. QED  BY <1>4, <1>5 DEF CommitAndPush

\* What a job commits is an agents' commit.
LEMMA Authorship ==
  ASSUME NEW c \in Commit
  PROVE  \A d \in {[OnTop(c, TRUE) EXCEPT !.manifest = TRUE], [OnTop(c, TRUE) EXCEPT !.wired = TRUE],
                   [OnTop(c, TRUE) EXCEPT !.approvedBy = TRUE]} : d \in Commit /\ d.agent
<1>1. PICK b \in Commit : b = OnTop(c, TRUE) /\ b.agent = TRUE
  BY Topped
<1>2. \A d \in {[b EXCEPT !.manifest = TRUE], [b EXCEPT !.wired = TRUE], [b EXCEPT !.approvedBy = TRUE]} :
        d \in Commit /\ d.agent
  BY <1>1 DEF Commit
<1>. QED  BY <1>1, <1>2

\* A job moves on and commits nothing.
LEMMA Resting ==
  ASSUME IInv, Counted, LabelHasItsReader, NEW j \in Job, job[j].pc \notin Reading, NEW r, Goes(j, r),
         UNCHANGED <<host, mode, labels, heard, tip>>, commits'[tip].agent = commits[tip].agent,
         UNCHANGED faults \/ \E kind : Spend(kind)
  PROVE  LabelHasItsReader' /\ Counted'
<1>1. Counted' /\ (faults' = 0 => faults = 0)
  BY Spending DEF Counted
<1>2. job' = [job EXCEPT ![j] = r] /\ job \in [Job -> JobState]
  BY DEF Goes, IInv, Jobs
<1>. QED  BY <1>1, <1>2, Persisting

\* A commit of a job, made where its checkout is.
LEMMA Committed ==
  ASSUME IInv, Counted, LabelHasItsReader, NEW j \in Job, job[j].pc \in {"walk", "stamp"},
         NEW r, r.head = job[j].head, UNCHANGED Apart,
         \/ CommitAndPush(j, [OnTop(commits[r.head], TRUE) EXCEPT !.manifest = TRUE], r)
         \/ CommitAndPush(j, [OnTop(commits[r.head], TRUE) EXCEPT !.wired = TRUE], r)
         \/ CommitAndPush(j, [OnTop(commits[r.head], TRUE) EXCEPT !.approvedBy = TRUE], r)
  PROVE  LabelHasItsReader' /\ Counted'
<1>1. commits[r.head] \in Commit
  <2>1. job[j].head \in 1 .. Len(commits) /\ commits \in Seq(Commit)
    BY Standing DEF JobOK, JobState
  <2>. QED  BY <2>1, ElementOfSeq
<1>2. PICK d \in {[OnTop(commits[r.head], TRUE) EXCEPT !.manifest = TRUE],
                 [OnTop(commits[r.head], TRUE) EXCEPT !.wired = TRUE],
                 [OnTop(commits[r.head], TRUE) EXCEPT !.approvedBy = TRUE]} : CommitAndPush(j, d, r)
  OBVIOUS
<1>3. d \in Commit /\ d.agent
  BY <1>1, <1>2, Authorship
<1>4. job[j].pc \notin Reading
  BY DEF Reading
<1>. QED  BY <1>2, <1>3, <1>4, PushingOver

\* Humans: their commit, label or new run brings a job that reads, or they take
\* a label back.
LEMMA HumansAreRead ==
  ASSUME IInv, Counted, LabelHasItsReader,
         AuthorPushes(commits[tip].wired) \/ Relabels \/ Reruns
  PROVE  LabelHasItsReader' /\ Counted'
<1>1. Counted' /\ UNCHANGED <<host, mode, faults, heard>> /\ job \in [Job -> JobState]
  BY DEF AuthorPushes, Relabels, Reruns, Counted, IInv, Jobs
<1>2. CASE AuthorPushes(commits[tip].wired)
  <2>1. Act /\ Notify("push", FALSE, job)
    BY <1>2 DEF AuthorPushes
  <2>2. host = "github" => \E j \in Job : job'[j].pc \in Reading
    BY <1>1, <2>1, Beginner
  <2>. QED  BY <1>1, <2>2 DEF LabelHasItsReader, Reading
<1>3. CASE Act /\ labels' \subseteq labels /\ UNCHANGED <<commits, tip, job>>
  BY <1>1, <1>3 DEF LabelHasItsReader
<1>4. ASSUME NEW event \in {"label", "reopen", "pipeline"}, Act, StartsJob(event, commits[tip].agent),
             Notify(event, commits[tip].agent, job), UNCHANGED <<commits, tip>>
      PROVE  LabelHasItsReader'
  <2>1. host = "github" => event \in {"push", "label", "reopen"} /\ ~commits[tip].agent
    BY <1>4 DEF StartsJob
  <2>2. host = "github" => \E j \in Job : job'[j].pc \in Reading
    BY <1>1, <1>4, <2>1, Beginner
  <2>. QED  BY <1>1, <2>2 DEF LabelHasItsReader, Reading
<1>5. CASE Relabels
  <2>1. Act /\ UNCHANGED <<commits, tip>>
    BY <1>5 DEF Relabels
  <2>2. CASE UNCHANGED job /\ labels' \subseteq labels
    BY <1>3, <2>1, <2>2
  <2>3. CASE Notify("label", commits[tip].agent, job)
    <3>1. CASE host = "github" /\ ~commits[tip].agent
      <4>1. StartsJob("label", commits[tip].agent)
        BY <3>1 DEF StartsJob
      <4>. QED  BY <1>1, <1>4, <2>1, <2>3, <4>1
    <3>2. CASE ~(host = "github" /\ ~commits[tip].agent)
      BY <1>1, <2>1, <3>2 DEF LabelHasItsReader
    <3>. QED  BY <3>1, <3>2
  <2>. QED  BY <1>5, <2>2, <2>3 DEF Relabels
<1>6. CASE Reruns
  <2>1. PICK event \in {"reopen", "pipeline"} :
          StartsJob(event, commits[tip].agent) /\ Notify(event, commits[tip].agent, job)
    BY <1>6 DEF Reruns
  <2>2. Act /\ UNCHANGED <<commits, tip>>
    BY <1>6 DEF Reruns
  <2>. QED  BY <1>1, <1>4, <2>1, <2>2
<1>. QED  BY <1>1, <1>2, <1>5, <1>6

\* A job up to its walk: it is a reader until it has read.
LEMMA ReadersRead ==
  ASSUME IInv, Counted, LabelHasItsReader, NEW j \in Job,
         Checkout(j) \/ ApprovedSteps(j) \/ LaunchFails(j) \/ Killed(j)
  PROVE  LabelHasItsReader' /\ Counted'
<1>1. UNCHANGED <<host, mode, labels, commits, tip>> /\ job \in [Job -> JobState]
  BY DEF Checkout, ApprovedSteps, LaunchFails, Killed, Quiet, IInv, Jobs
<1>2. CASE Checkout(j)
  <2>1. PICK c : job' = [job EXCEPT ![j] = [job[j] EXCEPT !.pc = "launched", !.head = c, !.upstream = c]]
    BY <1>2 DEF Checkout, Goes
  <2>2. job'[j].pc = "launched"
    BY <1>1, <2>1 DEF JobState
  <2>. QED  BY <1>2, <2>2 DEF Checkout, LabelHasItsReader, Counted
<1>3. ASSUME NEW kind, Spend(kind)  PROVE LabelHasItsReader' /\ Counted'
  BY <1>3, Spending DEF LabelHasItsReader
<1>4. CASE /\ UNCHANGED faults /\ heard' = heard \union job'[j].approved
           /\ Goes(j, [job[j] EXCEPT !.pc = "walk",
                                     !.approved = IF mode = "yolo" THEN {} ELSE IF host = "github" THEN labels
                                                  ELSE job[j].labels])
  <2>1. host = "github" /\ mode # "yolo" => labels \subseteq heard'
    BY <1>1, <1>4 DEF Goes, JobState
  <2>. QED  BY <1>1, <1>4, <2>1 DEF LabelHasItsReader, Counted
<1>. QED  BY <1>2, <1>3, <1>4 DEF ApprovedSteps, LaunchFails, Killed

\* A status changes nobody's commit into another's.
LEMMA Posted ==
  ASSUME IInv, NEW j, NEW c, NEW name \in {"gate", "verdict"}, NEW conclusion, NEW loose,
         Posts(j, c, name, conclusion, loose)
  PROVE  commits'[tip].agent = commits[tip].agent /\ (UNCHANGED faults \/ \E kind : Spend(kind))
<1>1. UNCHANGED faults \/ \E kind : Spend(kind)
  BY DEF Posts
<1>2. commits \in Seq(Commit) /\ tip \in 1 .. Len(commits) /\ commits[tip] \in Commit
  BY ElementOfSeq DEF IInv, Branch
<1>3. CASE commits' = [commits EXCEPT ![c][name] = conclusion,
                                      ![c].loose = IF name = "verdict" THEN loose ELSE @]
  <2>1. CASE c # tip
    BY <1>1, <1>2, <1>3, <2>1
  <2>2. ASSUME NEW e, e.agent = commits[tip].agent, commits' = [commits EXCEPT ![tip] = e]
        PROVE  commits'[tip].agent = commits[tip].agent
    BY <1>2, <2>2
  <2>3. CASE c = tip /\ name = "gate"
    <3>. DEFINE e == [commits[tip] EXCEPT !.gate = conclusion]
    <3>1. commits' = [commits EXCEPT ![tip] = e]
      BY <1>2, <1>3, <2>3 DEF Commit
    <3>2. e.agent = commits[tip].agent
      BY <1>2 DEF Commit
    <3>. QED  BY <1>1, <2>2, <3>1, <3>2
  <2>4. CASE c = tip /\ name = "verdict"
    <3>. DEFINE e == [commits[tip] EXCEPT !.verdict = conclusion, !.loose = loose]
    <3>1. commits' = [commits EXCEPT ![tip] = e]
      BY <1>2, <1>3, <2>4 DEF Commit
    <3>2. e.agent = commits[tip].agent
      BY <1>2 DEF Commit
    <3>. QED  BY <1>1, <2>2, <3>1, <3>2
  <2>. QED  BY <2>1, <2>3, <2>4
<1>. QED  BY <1>1, <1>3 DEF Posts

\* A job in its walk, and after it.
LEMMA WorkersRead ==
  ASSUME IInv, Counted, LabelHasItsReader, NEW j \in Job,
         \/ AwaitApproval(j) \/ Plan(j) \/ Implement(j) \/ Review(j)
         \/ GateSatisfied(j) \/ ReviewManifestIntent(j) \/ FindComment(j) \/ PostComment(j) \/ PostStatus(j)
  PROVE  LabelHasItsReader' /\ Counted'
<1>1. /\ job[j] \in JobState /\ job[j].pc \notin Reading
      /\ UNCHANGED <<host, mode, labels, heard>>
  BY Standing DEF AwaitApproval, Plan, Implement, Review, AtStep, GateSatisfied, ReviewManifestIntent, FindComment,
     PostComment, PostStatus, Reading, Aside, Apart, Quiet, WritesManifest
<1>2. ASSUME NEW r, Goes(j, r), UNCHANGED <<tip, commits>>, UNCHANGED faults \/ \E kind : Spend(kind)
      PROVE  LabelHasItsReader' /\ Counted'
  BY <1>1, <1>2, Resting
<1>3. ASSUME NEW r, r.head = job[j].head, WritesManifest(j, r), job[j].pc = "walk"
      PROVE  LabelHasItsReader' /\ Counted'
  BY <1>2, <1>3, Committed DEF WritesManifest, Aside
<1>4. ASSUME NEW at  PROVE [job[j] EXCEPT !.at = at].head = job[j].head
  BY <1>1 DEF JobState
<1>5. ASSUME NEW why  PROVE Halted(job[j], why).head = job[j].head
  BY <1>1 DEF JobState, Halted
<1>6. CASE AwaitApproval(j) \/ Review(j)
  BY <1>2, <1>6 DEF AwaitApproval, Review, Aside
<1>7. CASE Plan(j)
  <2>1. PICK r \in {[job[j] EXCEPT !.at = "implementer"], Halted(job[j], "noop"), Halted(job[j], "red")} :
          WritesManifest(j, r)
    BY <1>7 DEF Plan
  <2>2. r.head = job[j].head /\ job[j].pc = "walk"
    BY <1>4, <1>5, <1>7 DEF Plan, AtStep
  <2>. QED  BY <1>3, <2>1, <2>2
<1>8. CASE Implement(j)
  <2>1. job[j].pc = "walk"
    BY <1>8 DEF Implement, AtStep
  <2>2. ASSUME NEW why, WritesManifest(j, Halted(job[j], why))  PROVE LabelHasItsReader' /\ Counted'
    BY <1>3, <1>5, <2>1, <2>2
  <2>3. ASSUME NEW r \in {[job[j] EXCEPT !.at = "reviewer"], Halted(job[j], "red")}, UNCHANGED Apart,
               CommitAndPush(j, [OnTop(commits[r.head], TRUE) EXCEPT !.wired = TRUE], r)
        PROVE  LabelHasItsReader' /\ Counted'
    <3>1. r.head = job[j].head
      BY <1>4, <1>5, <2>3
    <3>. QED  BY <2>1, <2>3, <3>1, Committed
  <2>4. ASSUME NEW r, Goes(j, r), UNCHANGED Aside  PROVE LabelHasItsReader' /\ Counted'
    BY <1>2, <2>4 DEF Aside
  <2>. QED  BY <1>8, <2>2, <2>3, <2>4 DEF Implement
<1>9. CASE ReviewManifestIntent(j)
  <2>1. job[j].pc = "stamp" /\ [job[j] EXCEPT !.pc = "find"].head = job[j].head
    BY <1>1, <1>9 DEF ReviewManifestIntent, JobState
  <2>2. PICK r : /\ r = [job[j] EXCEPT !.pc = "find"]
                 /\ \/ /\ UNCHANGED Apart
                       /\ CommitAndPush(j, [OnTop(commits[r.head], TRUE) EXCEPT !.approvedBy = TRUE], r)
                    \/ /\ Spend("host") \/ UNCHANGED faults
                       /\ Goes(j, r) /\ UNCHANGED <<Apart, commits, tip>>
    BY <1>9 DEF ReviewManifestIntent
  <2>. QED  BY <1>2, <2>1, <2>2, Committed
<1>10. CASE GateSatisfied(j) \/ PostStatus(j)
  <2>1. PICK r : Goes(j, r)
    BY <1>10 DEF GateSatisfied, PostStatus
  <2>2. commits'[tip].agent = commits[tip].agent /\ (UNCHANGED faults \/ \E kind : Spend(kind))
    <3>1. CASE GateSatisfied(j)
      <4>1. Posts(j, job[j].sha, "gate", "success", FALSE)
        BY <3>1 DEF GateSatisfied
      <4>. QED  BY <4>1, Posted
    <3>2. CASE PostStatus(j) /\ Paused(j)
      <4>1. Posts(j, job[j].sha, "gate", "action_required", FALSE) \/ UNCHANGED <<commits, faults>>
        BY <3>2 DEF PostStatus
      <4>. QED  BY <4>1, Posted
    <3>3. CASE PostStatus(j) /\ ~Paused(j)
      <4>1. PICK conclusion, loose : Posts(j, VerdictCommit(j), "verdict", conclusion, loose)
        BY <3>3 DEF PostStatus
      <4>. QED  BY <4>1, Posted
    <3>. QED  BY <1>10, <3>1, <3>2, <3>3
  <2>3. UNCHANGED tip
    BY <1>10 DEF GateSatisfied, PostStatus
  <2>. QED  BY <1>1, <2>1, <2>2, <2>3, Resting
<1>11. CASE FindComment(j) \/ PostComment(j)
  <2>1. (\E r : Goes(j, r)) /\ UNCHANGED <<commits, tip>> /\ (UNCHANGED faults \/ \E kind : Spend(kind))
    BY <1>11 DEF FindComment, PostComment
  <2>. QED  BY <1>2, <2>1
<1>. QED  BY <1>6, <1>7, <1>8, <1>9, <1>10, <1>11

-----------------------------------------------------------------------------
(* The theorems *)

LEMMA Stepping == IInv /\ [PullNext]_pull => IInv'
<1>. SUFFICES ASSUME IInv, [PullNext]_pull  PROVE IInv'
  OBVIOUS
<1>1. CASE UNCHANGED pull
  BY <1>1 DEF pull, IInv, Policy, Branch, Words, Comments, Commits, Jobs, CommitOK, JobOK, Guarded
<1>2. ASSUME NEW j \in Job, JobSteps(j) \/ Breaks(j)  PROVE IInv'
  BY <1>2, JobBegins, JobWalks, JobImplements, JobPosts, JobStamps, JobComments DEF JobSteps, Breaks
<1>3. CASE AuthorPushes(commits[tip].wired)
  BY <1>3, HumansPush
<1>4. CASE Relabels \/ Reruns
  BY <1>4, HumansLabel
<1>. QED  BY <1>1, <1>2, <1>3, <1>4 DEF PullNext

\* The inductive invariant: jobs know only labels that were given, past the
\* implementer their checkout has the flag, and commits are never rewritten.
THEOREM Invariance == PullSpec => []IInv
<1>. QED  BY Beginning, Stepping, PTL DEF PullSpec

\* Every variable keeps its type, for any number of jobs and acts.
THEOREM Typing == PullSpec => []PullTypeOK
<1>1. IInv => PullTypeOK
  BY Standing DEF IInv, PullTypeOK, Branch, Words, JobOK, JobState
<1>. QED  BY <1>1, Invariance, PTL

\* Where the implementer's step is gated, the flag is in the code only if a
\* human labelled that step; where the planner's is, no job commits a manifest
\* or anything else before a human labelled that one: whichever jobs overlapped,
\* failed or read no labels (action.ts:586).
THEOREM GatesHold == PullSpec => []GatedWorkIsApproved
<1>1. IInv => GatedWorkIsApproved
  <2>. SUFFICES ASSUME IInv, mode # "yolo", NEW c \in DOMAIN commits
                PROVE  /\ commits[c].wired /\ "implementer" \in gated => "implementer" \in given
                       /\ (commits[c].manifest \/ commits[c].agent) /\ "planner" \in gated => "planner" \in given
    BY DEF IInv, Policy, GatedWorkIsApproved
  <2>1. c \in 1 .. Len(commits)
    BY LenProperties DEF IInv, Branch
  <2>. QED  BY <2>1 DEF IInv, Commits, CommitOK, Guarded
<1>. QED  BY <1>1, Invariance, PTL

\* Where the branch ends in a human's commit, an approval label that no job has
\* read has a job on its way to read it, unless something broke: however many
\* jobs push, overlap and end in between (action.ts:586, auto-factory.yml:37).
THEOREM LabelsAreRead == PullSpec => []LabelHasItsReader
<1>1. PullInit => Counted /\ LabelHasItsReader
  BY DEF PullInit, Counted, LabelHasItsReader
<1>2. IInv /\ Counted /\ LabelHasItsReader /\ [PullNext]_pull => Counted' /\ LabelHasItsReader'
  <2>. SUFFICES ASSUME IInv, Counted, LabelHasItsReader, [PullNext]_pull
                PROVE  Counted' /\ LabelHasItsReader'
    OBVIOUS
  <2>1. CASE UNCHANGED pull
    BY <2>1 DEF pull, Counted, LabelHasItsReader
  <2>2. ASSUME NEW j \in Job, JobSteps(j) \/ Breaks(j)  PROVE Counted' /\ LabelHasItsReader'
    BY <2>2, ReadersRead, WorkersRead DEF JobSteps, Breaks
  <2>. QED  BY <2>1, <2>2, HumansAreRead DEF PullNext
<1>. QED  BY <1>1, <1>2, Invariance, PTL DEF PullSpec

\* A green verdict is on a commit that has the flag, unless there is none to
\* have or the edits were never committed (action.ts:842).
THEOREM VerdictsFit == PullSpec => []VerdictFitsCommit
<1>1. IInv => VerdictFitsCommit
  BY LenProperties DEF IInv, Branch, Commits, CommitOK, VerdictFitsCommit
<1>. QED  BY <1>1, Invariance, PTL
=============================================================================
