---------------------------- MODULE PullRequest ----------------------------
(***************************************************************************)
(* The pull request front end (packages/phase1-resource-factory): jobs the *)
(* code host starts on what humans do, several at once, each walking the   *)
(* graph over its own checkout.  They share the branch, the approval       *)
(* labels, the summary comment and the status checks.  The walk is here no *)
(* more than where it halts and what it left (GraphWalk opens it up).      *)
(***************************************************************************)
EXTENDS Integers, FiniteSets, Sequences

CONSTANTS
  Job,           \* jobs that may run at once
  Lists,         \* what auto-factory-approval-gates may list: sets of entries
  Host,          \* the hosts of this instance
  ModeFlag,      \* what auto-factory-approval-mode may say
  ModeEnv,       \* what APPROVAL_MODE may say: "unset", or a mode
  MaxActs,       \* bound on what humans do
  Fault, MaxFaults

Step == {"planner", "implementer", "reviewer"}
FaultKind == {"launch",  \* the job throws before its walk: no graph, no key
              "labels",  \* the labels cannot be read
              "push",    \* a push fails
              "host",    \* a call to the host fails
              "kill"}    \* the job is cancelled, or times out

\* What the mode flag is set to by hand; "manual" is the legacy name of always.
ModeName == {"yolo", "always", "manual", "misspelled"}

ASSUME PullAssumption ==
  /\ Lists \subseteq SUBSET (Step \union {"malformed"}) /\ Host \subseteq {"github", "gitlab"}
  /\ ModeFlag \subseteq ModeName /\ ModeEnv \subseteq ModeName \union {"unset"}
  /\ MaxActs \in Nat /\ MaxFaults \in Nat /\ Fault \subseteq FaultKind

VARIABLES
  host,          \* of this repository
  mode, gated,   \* its approval policy: the mode, and the steps it may gate
  commits, tip,  \* every commit in the repository or a checkout, by number; the branch's last
  labels,        \* steps whose af-approve label is on the pull request
  comments,      \* how many marked comments it has
  job,
  acts, faults,
  given, heard   \* history: steps ever labelled, and ever read as labelled

pull == <<host, mode, gated, commits, tip, labels, comments, job, acts, faults, given, heard>>

Conclusion == {"none", "action_required", "success", "failure"}

\* wired: the flag is in the code.  manifest, approvedBy: the release manifest is
\* there, and says who approved.  agent: a job made it, on GitHub with [skip ci].
\* here: it was pushed.  loose (history): its verdict speaks of no flag, or of
\* edits left in the checkout.
Commit == [wired : BOOLEAN, manifest : BOOLEAN, approvedBy : BOOLEAN, agent : BOOLEAN, here : BOOLEAN,
           loose : BOOLEAN, gate : Conclusion, verdict : Conclusion]

\* As the job of a pull_request event begins it: sha is the event's head.
NoJob == [pc |-> "off", sha |-> 0, head |-> 0, upstream |-> 0, local |-> {}, labels |-> {}, approved |-> {},
          at |-> "planner", halt |-> "none", dirty |-> FALSE, note |-> 0]

Spend(kind) == kind \in Fault /\ faults < MaxFaults /\ faults' = faults + 1

FirstCommit == [wired |-> FALSE, manifest |-> FALSE, approvedBy |-> FALSE, agent |-> FALSE, here |-> TRUE,
                loose |-> FALSE, gate |-> "none", verdict |-> "none"]

\* What is committed on top of c, before what it changes.
OnTop(c, agent) == [c EXCEPT !.agent = agent, !.here = ~agent, !.loose = FALSE, !.gate = "none", !.verdict = "none"]

NormalizeApprovalMode(raw) == IF raw \in {"always", "manual"} THEN "always" ELSE "yolo"

\* The variable of the job's environment wins over the flag, whatever it says.
ApprovalMode(flag, env) == NormalizeApprovalMode(IF env = "unset" THEN flag ELSE env)

\* (Mutant: a mode with no steps listed gates nothing.)
AsListed(m, listed) == listed \ {"malformed"}

\* Entries that are no step are dropped, and so is a value that is no list.
ParseGateSteps(value) == value \ {"malformed"}

\* A mode that gates, with no steps listed, gates the first step that writes.
GatedSteps(m, listed) ==
  IF ParseGateSteps(listed) = {} /\ m # "yolo" THEN {"implementer"} ELSE ParseGateSteps(listed)

PullInit ==
  /\ host \in Host
  /\ \E flag \in ModeFlag, env \in ModeEnv : mode = ApprovalMode(flag, env)
  /\ \E listed \in Lists : gated = GatedSteps(mode, listed)
  /\ commits = <<FirstCommit>> /\ tip = 1
  /\ labels = {} /\ comments = 0
  /\ job = [j \in Job |-> NoJob]
  /\ acts = 0 /\ faults = 0 /\ given = {} /\ heard = {}

-----------------------------------------------------------------------------
(* What starts a job *)

Idle == {j \in Job : job[j].pc = "off"}

\* (Mutant: a label starts no job.)
StartsOnCode(event, agent) ==
  IF host = "github" THEN ~agent /\ event \in {"push", "reopen"}
  ELSE event = "pipeline" \/ (event = "push" /\ ~agent)

\* What an event starts; agent: the branch's last commit is a job's own.  On
\* GitHub that one says [skip ci], which suppresses every pull_request run while
\* it is the head, a label's too.  GitLab starts none for a label nor for a push
\* by the job token, and one for a human whatever the head is.
StartsJob(event, agent) ==
  IF host = "github" THEN ~agent /\ event \in {"push", "label", "reopen"}
  ELSE event = "pipeline" \/ (event = "push" /\ ~agent)

Started(jobs, event, agent, sha) ==
  LET free == {j \in Job : jobs[j].pc = "off"} IN
  IF StartsJob(event, agent) /\ free # {}
  THEN [jobs EXCEPT ![CHOOSE j \in free : TRUE] = [NoJob EXCEPT !.pc = "queued", !.sha = sha,
                                              !.labels = IF host = "gitlab" THEN labels' ELSE {}]]
  ELSE jobs

Notify(event, agent, jobs) == job' = Started(jobs, event, agent, tip')

Act == Idle # {} /\ acts < MaxActs /\ acts' = acts + 1

\* A human pushes on top of the branch.
AuthorPushes(wired) ==
  /\ Act
  /\ commits' = Append(commits, [OnTop(commits[tip], FALSE) EXCEPT !.wired = wired])
  /\ tip' = Len(commits')
  /\ UNCHANGED labels
  /\ Notify("push", FALSE, job)
  /\ UNCHANGED <<host, mode, gated, comments, faults, given, heard>>

Relabels ==
  /\ Act
  /\ \E s \in gated :
       IF s \in labels
       THEN labels' = labels \ {s} /\ UNCHANGED <<given, job, tip>>
       ELSE /\ labels' = labels \union {s} /\ given' = given \union {s} /\ UNCHANGED tip
            /\ Notify("label", commits[tip].agent, job)
  /\ UNCHANGED <<host, mode, gated, commits, comments, faults, heard>>

\* A pull request is reopened, or a pipeline run by hand.
Reruns ==
  /\ Act /\ UNCHANGED <<labels, tip>>
  /\ \E event \in {"reopen", "pipeline"} :
       StartsJob(event, commits[tip].agent) /\ Notify(event, commits[tip].agent, job)
  /\ UNCHANGED <<host, mode, gated, commits, comments, faults, given, heard>>

-----------------------------------------------------------------------------
(* A job, up to its walk *)

Quiet == <<host, mode, gated, labels, acts, given>>

Goes(j, r) == job' = [job EXCEPT ![j] = r]

\* actions/checkout takes the branch as it is by then; the GitLab template the
\* event's commit.
Checkout(j) ==
  /\ job[j].pc = "queued"
  /\ LET c == IF host = "github" THEN tip ELSE job[j].sha
     IN Goes(j, [job[j] EXCEPT !.pc = "launched", !.head = c, !.upstream = c])
  /\ UNCHANGED <<Quiet, commits, tip, comments, faults, heard>>

\* Every exit before the walk: main() throws, the job is red.
LaunchFails(j) ==
  /\ job[j].pc = "launched" /\ Spend("launch")
  /\ Goes(j, NoJob)
  /\ UNCHANGED <<Quiet, commits, tip, comments, heard>>

Killed(j) ==
  /\ job[j].pc # "off" /\ Spend("kill")
  /\ Goes(j, NoJob)
  /\ UNCHANGED <<Quiet, commits, tip, comments, heard>>

\* (Mutant: labels that cannot be read hold nobody up.)
UnreadIsApproved == gated
\* What a failed read of the labels approves.
Unread == {}

\* Labels are read once.  GitLab hands them over as they were when the
\* pipeline was created.
ApprovedSteps(j) ==
  /\ job[j].pc = "launched"
  /\ \/ /\ UNCHANGED faults
        /\ Goes(j, [job[j] EXCEPT !.pc = "walk",
                                  !.approved = IF mode = "yolo" THEN {} ELSE IF host = "github" THEN labels
                                               ELSE job[j].labels])
     \/ /\ mode # "yolo" /\ host = "github" /\ Spend("labels")
        /\ Goes(j, [job[j] EXCEPT !.pc = "walk", !.approved = Unread])
  /\ heard' = heard \union job'[j].approved
  /\ UNCHANGED <<Quiet, commits, tip, comments>>

-----------------------------------------------------------------------------
(* Its walk *)

HasGate == mode # "yolo" /\ gated # {}
GateShut(j) == HasGate /\ job[j].at \in gated \ job[j].approved

AtStep(j, step) == job[j].pc = "walk" /\ job[j].at = step /\ ~GateShut(j)

\* A pause is only told; anything else posts the gate's status first.
Halted(r, why) ==
  [r EXCEPT !.halt = why,
            !.pc = IF why \in {"approval", "input"} THEN "find" ELSE IF HasGate THEN "gate" ELSE "stamp"]

Apart == <<Quiet, comments, heard>>
Aside == <<Apart, commits, tip, faults>>

AwaitApproval(j) ==
  /\ job[j].pc = "walk" /\ GateShut(j)
  /\ Goes(j, Halted(job[j], "approval"))
  /\ UNCHANGED Aside

\* "red" is each verdict that is not applied: rejected, incomplete (a stall, no
\* verdict), a failed verification, a loop out of budget.

\* A commit of job j and its push, which the branch refuses unless it is where
\* the checkout last saw it.  A refused commit stays in the checkout.
CommitAndPush(j, c, r) ==
  LET n == Len(commits) + 1
      all == Append(commits, c)
  IN \/ /\ tip = r.upstream /\ UNCHANGED faults
        /\ commits' = [k \in 1 .. n |-> [all[k] EXCEPT !.here = @ \/ k = n \/ k \in r.local]]
        /\ tip' = n
        /\ Notify("push", TRUE, [job EXCEPT ![j] = [r EXCEPT !.head = n, !.upstream = n, !.local = {}]])
     \/ /\ IF tip = r.upstream THEN Spend("push") ELSE UNCHANGED faults
        /\ commits' = all
        /\ Goes(j, [r EXCEPT !.head = n, !.local = @ \union {n}])
        /\ UNCHANGED tip

\* On its way to r the step may write the manifest: it is committed and pushed
\* at once, unless that changes nothing.
WritesManifest(j, r) ==
  \/ Goes(j, r) /\ UNCHANGED Aside
  \/ /\ UNCHANGED Apart
     /\ CommitAndPush(j, [OnTop(commits[r.head], TRUE) EXCEPT !.manifest = TRUE], r)

\* The planner (with the steward) plans, finds no flag is needed, or fails its
\* handoff.  Both hold write_manifest, and both run before the default gate.
Plan(j) ==
  /\ AtStep(j, "planner")
  /\ \E r \in {[job[j] EXCEPT !.at = "implementer"], Halted(job[j], "noop"), Halted(job[j], "red")} :
       WritesManifest(j, r)

\* The implementer asks (in the manifest), fails, leaves its edits uncommitted,
\* or commits them; its claims are verified against the checkout.
Implement(j) ==
  /\ AtStep(j, "implementer")
  /\ \/ \E why \in {"input", "red"} : WritesManifest(j, Halted(job[j], why))
     \/ \E r \in {[job[j] EXCEPT !.at = "reviewer"], Halted(job[j], "red")} :
          IF commits[r.head].wired THEN Goes(j, r) /\ UNCHANGED Aside
          ELSE \/ Goes(j, [r EXCEPT !.dirty = TRUE]) /\ UNCHANGED Aside
               \/ /\ UNCHANGED Apart
                  /\ CommitAndPush(j, [OnTop(commits[r.head], TRUE) EXCEPT !.wired = TRUE], r)

Review(j) ==
  /\ AtStep(j, "reviewer")
  /\ \E why \in {"apply", "red"} : Goes(j, Halted(job[j], why))
  /\ UNCHANGED Aside

-----------------------------------------------------------------------------
(* What it tells the pull request *)

\* A status lands on a commit the host knows, or is lost.
Posts(j, c, name, conclusion, loose) ==
  \/ /\ UNCHANGED faults
     /\ commits' = IF commits[c].here
                   THEN [commits EXCEPT ![c][name] = conclusion, ![c].loose = IF name = "verdict" THEN loose ELSE @]
                   ELSE commits
  \/ Spend("host") /\ UNCHANGED commits

\* "Approval gates satisfied", on the event's commit, however the walk ended.
GateSatisfied(j) ==
  /\ job[j].pc = "gate"
  /\ Posts(j, job[j].sha, "gate", "success", FALSE)
  /\ Goes(j, [job[j] EXCEPT !.pc = "stamp"])
  /\ UNCHANGED <<Apart, tip>>

HasManifest(j) == commits[job[j].head].manifest
MayStamp(j) ==
  HasGate /\ job[j].approved # {} /\ HasManifest(j) /\ ~commits[job[j].head].approvedBy

\* The manifest's approvedBy, from who last added a label, is committed; that
\* nobody could be named, or git failed, is survived.
ReviewManifestIntent(j) ==
  /\ job[j].pc = "stamp"
  /\ LET r == [job[j] EXCEPT !.pc = "find"] IN
     \/ /\ MayStamp(j) /\ UNCHANGED Apart
        /\ CommitAndPush(j, [OnTop(commits[r.head], TRUE) EXCEPT !.approvedBy = TRUE], r)
     \/ /\ IF MayStamp(j) THEN Spend("host") ELSE UNCHANGED faults
        /\ Goes(j, r) /\ UNCHANGED <<Apart, commits, tip>>

\* (Mutant: the place after the last comment is taken for a marked one.)
PastMarked == IF host = "github" /\ comments # 0 THEN 1 ELSE comments + 1

\* GitHub lists comments oldest first, GitLab newest first; 0: there is none.
Marked == IF host = "github" /\ comments # 0 THEN 1 ELSE comments

\* A failed search finds none.
FindComment(j) ==
  /\ job[j].pc = "find"
  /\ \/ Goes(j, [job[j] EXCEPT !.pc = "write", !.note = Marked]) /\ UNCHANGED faults
     \/ Goes(j, [job[j] EXCEPT !.pc = "write"]) /\ Marked # 0 /\ Spend("host")
  /\ UNCHANGED <<Apart, commits, tip>>

\* The comment found is overwritten, or a new one is made.
PostComment(j) ==
  /\ job[j].pc = "write"
  /\ \/ comments' = comments + (IF job[j].note = 0 THEN 1 ELSE 0) /\ UNCHANGED faults
     \/ Spend("host") /\ UNCHANGED comments
  /\ Goes(j, [job[j] EXCEPT !.pc = "status"])
  /\ UNCHANGED <<Quiet, heard, commits, tip>>

\* (Mutant: the verdict is put on the commit the event named.)
EventCommit(j) == job[j].sha

\* checkoutHeadSha: the checkout's last commit, agents' own included.
VerdictCommit(j) == job[j].head

Paused(j) == job[j].halt \in {"approval", "input"}

\* GitLab has no status for a pause.
PostStatus(j) ==
  /\ job[j].pc = "status"
  /\ IF Paused(j)
     THEN IF host = "github" THEN Posts(j, job[j].sha, "gate", "action_required", FALSE)
          ELSE UNCHANGED <<commits, faults>>
     ELSE Posts(j, VerdictCommit(j), "verdict",
                IF job[j].halt \in {"apply", "noop"} THEN "success" ELSE "failure", job[j].halt = "noop" \/ job[j].dirty)
  /\ Goes(j, NoJob)
  /\ UNCHANGED <<Apart, tip>>

-----------------------------------------------------------------------------
JobSteps(j) ==
  \/ Checkout(j) \/ ApprovedSteps(j)
  \/ AwaitApproval(j) \/ Plan(j) \/ Implement(j) \/ Review(j)
  \/ GateSatisfied(j) \/ ReviewManifestIntent(j) \/ FindComment(j) \/ PostComment(j) \/ PostStatus(j)

Breaks(j) == LaunchFails(j) \/ Killed(j)

PullNext ==
  \/ \E j \in Job : JobSteps(j) \/ Breaks(j)
  \/ AuthorPushes(commits[tip].wired) \/ Relabels \/ Reruns

PullSpec == PullInit /\ [][PullNext]_pull /\ \A j \in Job : WF_pull(JobSteps(j))

-----------------------------------------------------------------------------
PullTypeOK ==
  /\ commits \in Seq(Commit) /\ tip \in 1 .. Len(commits) /\ commits[tip].here
  /\ labels \subseteq given /\ given \subseteq gated /\ heard \subseteq given
  /\ \A j \in Job : job[j].head \in 0 .. Len(commits) /\ job[j].note \in 0 .. comments

\* Nobody's silence approves: the flag is in the code only if a human labelled
\* the implementer's step at some time, where that is gated, and there is a
\* manifest, or any commit of a job, only if one labelled the planner's, where
\* that is.  Labels that cannot be read, and a list with no step in it, approve
\* nothing.
GatedWorkIsApproved ==
  mode # "yolo" =>
    \A c \in DOMAIN commits :
      /\ commits[c].wired /\ ("implementer" \in gated \/ gated = {}) => "implementer" \in given
      /\ (commits[c].manifest \/ commits[c].agent) /\ "planner" \in gated => "planner" \in given

\* A green verdict is on the commit it speaks of: that one has the flag in its
\* code, unless there is no flag, or the agents left their edits uncommitted.
VerdictFitsCommit ==
  \A c \in DOMAIN commits : commits[c].verdict = "success" => commits[c].wired \/ commits[c].loose

\* On GitHub an approval is not lost where the branch ends in a human's commit:
\* until a job has read the label, one is on its way to.  So it is whether the
\* label came before the commit or after, whatever other jobs were under way.
LabelHasItsReader ==
  host = "github" /\ mode # "yolo" /\ ~commits[tip].agent /\ faults = 0 =>
    labels \subseteq heard \/ \E j \in Job : job[j].pc \in {"queued", "launched"}

\* src/README.md:335: "Adding the label re-runs the chain past that gate", with
\* no word of what the branch ends in.
LabelIsHeard ==
  \A s \in Step : (host = "github" /\ mode # "yolo" /\ s \in labels)
                     ~> (s \in heard \/ s \notin labels \/ faults > 0)

\* action.ts:759: the gate's success means "Gates were active and all cleared".
PauseEndsApproved ==
  [][\A c \in DOMAIN commits :
       commits[c].gate = "action_required" /\ commits'[c].gate = "success" => given # {}]_pull
=============================================================================
