----------------------------- MODULE WalkResume -----------------------------
(***************************************************************************)
(* autofactory run, with and without --resume: a walk that stops at an     *)
(* approval gate or out of loop budget leaves its journal in the           *)
(* repository; a later invocation replays it and goes on from there, with  *)
(* new approvals, more budget and a human's words.  Between invocations    *)
(* files, refs and the served graph may change; a process may be killed.   *)
(***************************************************************************)
EXTENDS WalkVerdict

CONSTANTS
  Original,       \* content of the working tree when the branch is handed over
  Refs,           \* what the other invalidation keys may read: graph key, config
                  \* stamp, HEAD, base ref and commit, policy mode, taken together
  MaxGrant,       \* most visits one --grant-visits adds
  MaxFresh,       \* bound on invocations without --resume
  MaxResumes,     \* bound on invocations with it
  MaxMoves        \* bound on kills, edits, fetches, graph edits, disk errors

ASSUME ResumeAssumption ==
  /\ Original \in Content /\ Refs # {}
  /\ MaxGrant \in Nat /\ MaxFresh \in Nat /\ MaxResumes \in Nat /\ MaxMoves \in Nat

VARIABLES
  saved,          \* autofactory-walk-state.json: {} when there is none
  record,         \* autofactory-last-run.json: its outcome, and when it was written
  served,         \* the graph LaunchDarkly serves now
  refs,           \* what the other keys read now
  keys,           \* what they read when this invocation started
  inForce,        \* the feedback of this invocation, passed or saved
  fresh,          \* invocations without --resume so far
  resumes,        \* and with it
  moves           \* bounded events so far

worldVars == <<saved, record, served, refs, keys, inForce, fresh, resumes, moves>>
vars == <<walkVars, worldVars>>

Total(edge, gs) ==
  MapThenSumSet(LAMBDA i : gs[i].visits, {i \in DOMAIN gs : gs[i].edge = edge})

-----------------------------------------------------------------------------
(* Starting an invocation *)

\* The state of a walk before its first node; nothing of it outlives a process.
Blank ==
  /\ node' = Entry
  /\ runs' = <<>> /\ snapshots' = <<>> /\ reentries' = {}
  /\ tags' = NoTags /\ inventory' = NoTags
  /\ counts' = [e \in EdgeKey |-> 0]
  /\ halt' = Running

Begin(j, gs, feedback, steps) ==
  /\ pc = "off"
  /\ Blank
  /\ pc' = "enter"
  /\ graph' = served /\ keys' = refs
  /\ journal' = j /\ grants' = gs /\ approved' = steps
  /\ pending' = feedback /\ inForce' = feedback
  /\ UNCHANGED <<tree, saved, record, served, refs, moves>>

Fresh ==
  /\ fresh < MaxFresh /\ fresh' = fresh + 1
  /\ \E steps \in SUBSET GatedSteps : Begin(<<>>, <<>>, 0, steps)
  /\ UNCHANGED resumes

\* Fail closed: a key that could not be read matches nothing.
Valid(s) == s.runs # <<>> /\ s.refs = refs /\ tree \in s.treeHash

DeclaredMax(edge) ==
  LET toward == {i \in DOMAIN served[edge[1]] : served[edge[1]][i].to = edge[2]}
  IN UNION {served[edge[1]][i].max : i \in {j \in toward : \A k \in toward : j <= k}}

\* (Mutant: the grants given before are forgotten.)
AbsorbedAtFirst(s, edge) ==
  \E declared \in DeclaredMax(edge) : declared >= HardCap

Absorbed(s, edge) ==
  \E declared \in DeclaredMax(edge) : declared + Total(edge, s.grants) >= HardCap

Grantable(s) == {edge \in s.exhausted : ~Absorbed(s, edge)}

\* A grant counts from the end of the journal it was given with, and needs
\* feedback; feedback newly passed replaces what was saved.  Feedback is
\* named by the resume it was passed to.  At most one grant a resume.
Resume ==
  /\ resumes < MaxResumes /\ resumes' = resumes + 1
  /\ \E s \in saved, steps \in SUBSET GatedSteps :
       /\ Valid(s)
       /\ \/ \E feedback \in {s.feedback, resumes + 1} :
               Begin(s.runs, s.grants, feedback, steps)
          \/ \E edge \in Grantable(s), n \in 1 .. MaxGrant :
               LET g == [edge |-> edge, visits |-> n, after |-> Len(s.runs)]
               IN Begin(s.runs, Append(s.grants, g), resumes + 1, steps)
  /\ UNCHANGED fresh

-----------------------------------------------------------------------------
(* Ending it *)

Resumable == halt.kind \in {"approval", "budget", "run-cap"}

\* (Mutants: always carried; dropped when no run was left to tell.)
CarryAlways == inForce
CarryIfMidJournal == IF Len(runs) < Len(journal) THEN inForce ELSE 0

CarryUnconsumed == IF Len(runs) <= Len(journal) THEN inForce ELSE 0

\* The last four fields are history: the graph walked, where the walk stood,
\* and the feedback in force.
StateToSave(hash) ==
  [runs |-> runs, grants |-> grants, feedback |-> CarryUnconsumed,
   kind |-> halt.kind,
   exhausted |-> IF halt.kind = "budget" THEN halt.edges ELSE {},
   refs |-> keys, treeHash |-> hash,
   graph |-> graph, mark |-> <<node, tags, inventory, counts>>, inForce |-> inForce]

\* (Mutant: the files are hashed before the walk.)
WriteOrClearEarly(hash) ==
  saved' = IF halt.kind = "diverged" THEN saved
           ELSE IF Resumable THEN {StateToSave({Original})} ELSE {}

\* writeWalkState hashes the files itself, as the walk left them.
WriteOrClear(hash) ==
  saved' = IF halt.kind = "diverged" THEN saved
           ELSE IF Resumable THEN {StateToSave(hash)} ELSE {}

WriteRecord ==
  record' = IF halt.kind \in {"diverged", "approval", "input"} THEN record
            ELSE [outcome |-> Outcome, at |-> fresh + resumes]

Quit ==
  /\ pc' = "off"
  /\ Blank
  /\ journal' = <<>> /\ grants' = <<>> /\ approved' = {}
  /\ pending' = 0 /\ inForce' = 0
  /\ UNCHANGED <<graph, keys, tree, served, refs, fresh, resumes>>

Conclude ==
  /\ pc = "ended"
  /\ WriteOrClear({tree}) /\ WriteRecord
  /\ Quit /\ UNCHANGED moves

Move == moves < MaxMoves /\ moves' = moves + 1

\* git cannot hash the files, the state file can be neither written nor removed,
\* or the record cannot be written: each is survived, and so is a death between.
ConcludeBadly ==
  /\ pc = "ended" /\ Move
  /\ \/ saved' = saved
     \/ \E hash \in {{}, {tree}} : WriteOrClear(hash)
  /\ (record' = record \/ WriteRecord)
  /\ Quit

Killed ==
  /\ pc # "off" /\ Move
  /\ Quit /\ UNCHANGED <<saved, record>>

-----------------------------------------------------------------------------
(* The world between invocations.  Refs and graph are read when one starts, *)
(* so a change during a walk is one made right after it.                   *)

EditFiles ==
  /\ pc = "off" /\ Move
  /\ tree' \in Content \ {tree}
  /\ UNCHANGED <<graph, journal, grants, approved, pending, pc, node, runs, tags,
                 inventory, counts, snapshots, halt, reentries,
                 saved, record, served, refs, keys, inForce, fresh, resumes>>

MoveRefs ==
  /\ pc = "off" /\ Move
  /\ refs' \in Refs \ {refs}
  /\ UNCHANGED <<walkVars, saved, record, served, keys, inForce, fresh, resumes>>

EditGraph ==
  /\ pc = "off" /\ Move
  /\ served' \in Graphs \ {served}
  /\ UNCHANGED <<walkVars, saved, record, refs, keys, inForce, fresh, resumes>>

-----------------------------------------------------------------------------
Init ==
  /\ served \in Graphs /\ graph = served
  /\ tree = Original
  /\ refs = CHOOSE r \in Refs : TRUE
  /\ keys = refs
  /\ journal = <<>> /\ grants = <<>> /\ approved = {}
  /\ pending = 0 /\ inForce = 0
  /\ pc = "off" /\ node = Entry /\ halt = Running
  /\ runs = <<>> /\ snapshots = <<>> /\ reentries = {}
  /\ tags = NoTags /\ inventory = NoTags
  /\ counts = [e \in EdgeKey |-> 0]
  /\ saved = {}
  /\ record = [outcome |-> "none", at |-> 0]
  /\ fresh = 0 /\ resumes = 0 /\ moves = 0

Walk == WalkStep /\ UNCHANGED worldVars

Next ==
  \/ Fresh
  \/ Resume
  \/ Walk
  \/ Conclude
  \/ ConcludeBadly
  \/ Killed
  \/ EditFiles
  \/ MoveRefs
  \/ EditGraph

\* An agent run ends (its turns and its requests are bounded), and so does the
\* process once its walk has; nobody has to invoke or resume anything.
Fairness == WF_vars(Walk) /\ WF_vars(Conclude)

Spec == Init /\ [][Next]_vars /\ Fairness

-----------------------------------------------------------------------------
(* What the committed graph is like (config/agentcontrol/graphs), and the    *)
(* code does not ask of a served one: hypotheses of three theorems, which    *)
(* the graphs of the runs meet.                                              *)

Approves(t) == TagsMatch(t, [review_approved |-> "true"])
Approver(n) == \E r \in Results[n] : Approves(r.tags)

\* Whoever may approve leads on only with another verdict than that: the
\* committed graph leaves the reviewer by the rework edge and no other.
VerdictIsFinal ==
  \A g \in Graphs, n \in Node : Approver(n) =>
    \A i \in DOMAIN g[n] : \E c \in g[n][i].require :
      "review_approved" \in DOMAIN c /\ c["review_approved"] # "true"

\* A loop edge of g leads to n.
Reentered(g, n) == \E a \in Node : \E i \in DOMAIN g[a] : IsLoop(g[a][i]) /\ g[a][i].to = n

\* A step from a to b fits the ranks: a loop edge leads back or to its own
\* source, any other onward, and past no node that a loop edge leads to.
Fits(g, rank, a, b, loop) ==
  IF loop THEN rank[b] <= rank[a] /\ Reentered(g, b)
  ELSE /\ rank[a] <= rank[b]
       /\ \A n \in Node : Reentered(g, n) /\ rank[a] < rank[n] => rank[b] <= rank[n]

\* The nodes of every graph stand in a line, as those of the committed graph do.
InLine(rank) ==
  /\ rank \in [Node -> Nat]
  /\ \A a, b \in Node : rank[a] = rank[b] => a = b
  /\ \A g \in Graphs, a \in Node : \A i \in DOMAIN g[a] :
       Fits(g, rank, a, g[a][i].to, IsLoop(g[a][i]))

\* A budget is one natural number, of the only edge from its node to its target.
BudgetsPlain ==
  \A g \in Graphs, n \in Node : \A i, j \in DOMAIN g[n] :
    /\ g[n][i].to = g[n][j].to => i = j
    /\ \A a, b \in g[n][i].max : a \in Nat /\ a = b

-----------------------------------------------------------------------------
(* Properties *)

Run == [node : Node, iteration : Nat \ {0}, status : Status, tags : TagMap,
        score : SUBSET (0 .. 100), told : Nat, ok : BOOLEAN, left : Content]
Grant == [edge : EdgeKey, visits : Nat, after : Nat]
HaltKind == {"running", "approval", "run-cap", "budget", "stalled", "verification",
             "input", "diverged", "finished"}

\* Every variable of a walk and of the files it leaves has its type.
TypeOK ==
  /\ graph \in Graphs /\ served \in Graphs
  /\ journal \in Seq(Run) /\ runs \in Seq(Run)
  /\ grants \in Seq(Grant) /\ approved \subseteq GatedSteps
  /\ pending \in Nat /\ inForce \in Nat
  /\ pc \in {"off", "enter", "route", "ended"} /\ node \in Node
  /\ tags \in TagMap /\ inventory \in TagMap
  /\ counts \in [EdgeKey -> Nat]
  /\ snapshots \in Seq(TagMap) /\ reentries \subseteq Nat
  /\ halt.kind \in HaltKind /\ halt.edges \subseteq EdgeKey
  /\ tree \in Content
  /\ \A s \in saved : s.runs \in Seq(Run) /\ s.grants \in Seq(Grant)
  /\ fresh \in 0 .. MaxFresh /\ resumes \in 0 .. MaxResumes /\ moves \in 0 .. MaxMoves

\* The journal is positional and so are the grants: under the graph that
\* produced it, a journal never diverges, and the walk that has replayed it
\* stands where the recorded walk stopped - same node, same tags, same
\* inventory, same traversals (graphWalker.ts: "the walk loop itself is pure").
ReplayIsFaithful ==
  \A s \in saved :
    pc # "off" /\ journal # <<>> /\ graph = s.graph =>
      /\ halt.kind # "diverged"
      /\ Len(runs) = Len(journal)
           /\ pc = (IF s.kind = "budget" THEN "route" ELSE "enter")
         => <<node, tags, inventory, counts>> = s.mark

\* A run j is out of date once a loop edge, from a later run, led back to a
\* node whose last run was j or before; the loop's own source is kept.
OutOfDate(j) ==
  \E m \in reentries :
    /\ j < m - 1
    /\ m <= Len(runs)
    /\ \E k \in 1 .. j : /\ runs[k].node = runs[m].node
                         /\ \A i \in k + 1 .. m - 1 : runs[i].node # runs[m].node

\* After any number of rework passes, a routing tag in force is what the
\* latest run that is not out of date said of it: no decision of an abandoned
\* pass routes, gates or decides the verdict.
NoStaleRouting ==
  pc = "route" =>
    \A t \in RoutingTags :
      LET said == {j \in DOMAIN runs : t \in DOMAIN runs[j].tags /\ ~OutOfDate(j)}
      IN IF said = {} THEN t \notin DOMAIN tags
         ELSE t \in DOMAIN tags /\ tags[t] = runs[LastOf(said)].tags[t]

\* However often a walk is resumed, and whatever a human grants, a loop edge
\* is traversed at most HardCap times and a walk runs at most RunCap nodes.
WalkIsBounded ==
  /\ \A e \in EdgeKey : counts[e] <= HardCap
  /\ Len(runs) <= RunCap

\* A grant that was accepted buys progress: a resumed walk runs out of budget
\* where it resumed only if it had run out there before and nothing was granted
\* since; with a grant, or from another stop, it runs something first.
GrantMakesProgress ==
  \A s \in saved :
    /\ pc = "ended" /\ halt.kind = "budget" /\ graph = s.graph
    /\ Len(runs) = Len(journal)
    => s.kind = "budget" /\ grants = s.grants

\* A run said that the risk is below n's threshold, in a score or as a level.
SaysLow(t, n) ==
  /\ PolicyMode = "risk-threshold"
  /\ \/ "risk_score" \in DOMAIN t /\ t["risk_score"] \in DOMAIN Percent
          /\ Percent[t["risk_score"]] < Threshold[n]
     \/ \E l \in DOMAIN Level : TagsMatch(t, [risk_level |-> l]) /\ Level[l] < Threshold[n]

GateRespected(q) ==
  \A i \in DOMAIN q :
    q[i].node \in GatedSteps /\ ~q[i].ok =>
      \E j \in 1 .. i - 1 : SaysLow(q[j].tags, q[i].node)

\* No resume, replay or rework is a way round a gate: a gated step that ran
\* unapproved ran after a step of the same walk that said the risk is low.
NoGateBypass == GateRespected(runs)

\* What a human says with --feedback reaches one live run, not two, across
\* however many resumes ...
FeedbackHeardOnce ==
  \A i, j \in DOMAIN runs :
    i < j /\ runs[i].told # 0 => runs[i].told # runs[j].told

\* ... and is in the saved state for as long as no run has been told it.
FeedbackKept ==
  \A s \in saved : s.inForce # 0 =>
    s.feedback = s.inForce \/ \E i \in DOMAIN s.runs : s.runs[i].told = s.inForce

\* A journal is replayed only against the files its last run left.
ReplaysItsOwnFiles ==
  pc = "enter" /\ runs = <<>> /\ journal # <<>> =>
    tree = journal[Len(journal)].left

\* A recorded "approved" is the last word of the run that ended the walk, and
\* every flag a run of the walk created is the one reported; a recorded "noop"
\* follows no flag at all.  The pre-push gate reads that record.
GreenIsHonest ==
  [][record' # record =>
       /\ record'.outcome = "approved" =>
            /\ TagsMatch(LastRun.tags, [review_approved |-> "true"])
            /\ \A i, j \in DOMAIN runs :
                 {"flag_key"} \subseteq DOMAIN runs[i].tags \cap DOMAIN runs[j].tags
                   => runs[i].tags["flag_key"] = runs[j].tags["flag_key"]
       /\ record'.outcome = "noop" =>
            \A i \in DOMAIN runs : "flag_key" \notin DOMAIN runs[i].tags]_vars

\* Every walk that starts ends, under any served graph: an edge whose budget
\* was lost in an edit is stopped by the run cap.
WalkEnds == pc = "enter" ~> pc = "off"

\* docs/loopback-handoff.md: a failed run that emits no tags routes nowhere.
FailedRunStalls ==
  [][pc = "route" /\ LastRun.status = "failed" /\ LastRun.tags = NoTags
       => pc' # "enter"]_vars
=============================================================================
