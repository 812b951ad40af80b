------------------------------ MODULE GraphWalk ------------------------------
(***************************************************************************)
(* walkGraph: one walk over the agent graph, live or replayed.             *)
(*                                                                         *)
(* The walk enters a node, gates it, runs its agent (or takes the recorded *)
(* result from the journal), verifies the hand-off, and follows the first  *)
(* edge whose conditions hold.  An edge with a budget is a loop edge: its  *)
(* traversals are counted, and taking it rewinds the routing tags to what  *)
(* they were before the target's last run.                                 *)
(* A field a record may lack is a set: empty when absent, else a singleton.*)
(***************************************************************************)
EXTENDS Integers, Sequences, FiniteSets, FiniteSetsExt

CONSTANTS
  Node,           \* agent node keys
  Entry,          \* the node a regular run starts at (defaultEntryNode)
  Graphs,         \* the graphs LaunchDarkly may serve: [Node -> Seq(Edge)]
  Tag,            \* tag names
  Value,          \* tag values
  RoutingTags,    \* the tags an agent writes: rewound by a loop edge
  Results,        \* [Node -> SUBSET Result]: what a node's agent may answer
  Content,        \* contents of the working tree
  HardCap,        \* MAX_VISITS_HARD_CAP
  GatedSteps,     \* steps of the approval policy
  PolicyMode,     \* "risk-threshold" or "always"
  Threshold,      \* [GatedSteps -> percent]
  Percent         \* the risk scores that parse: [SUBSET Value -> 0 .. 100]

TagMap == UNION {[D -> Value] : D \in SUBSET Tag}
NoTags == [t \in {} |-> t]

EdgeKey == Node \X Node
Edge == [to : Node, require : SUBSET TagMap, skip : SUBSET TagMap,
         below : SUBSET (0 .. 100), max : SUBSET Int]
Status == {"completed", "stopped", "cancelled", "failed"}
Result == [status : Status, tags : TagMap, score : SUBSET (0 .. 100),
           writes : SUBSET Content]

ASSUME WalkAssumption ==
  /\ IsFiniteSet(Node) /\ Entry \in Node
  /\ HardCap \in Nat
  /\ RoutingTags \subseteq Tag
  /\ Graphs \subseteq [Node -> Seq(Edge)]
  /\ Results \in [Node -> SUBSET Result]
  /\ GatedSteps \subseteq Node
  /\ Threshold \in [GatedSteps -> 0 .. 100]

VARIABLES
  graph,          \* the graph this walk fetched
  journal,        \* recorded runs to replay
  grants,         \* extra loop budget, each with the position it counts from
  approved,       \* the steps --approve named
  pending,        \* human feedback no live run has been told yet, 0 when none
  pc,             \* "off", "enter" a node, "route" away from it, "ended"
  node,
  runs,           \* what ran, in order: the journal of a later resume
  tags,           \* accumulatedTags
  inventory,      \* the facts, never rewound
  counts,         \* edgeCounts: traversals per loop edge
  snapshots,      \* routing tags before each run, parallel to runs
  halt,           \* why the walk ended
  tree,           \* content of the working tree
  reentries       \* history variable: runs that a loop edge led to

walkVars == <<graph, journal, grants, approved, pending, pc, node, runs, tags,
              inventory, counts, snapshots, halt, tree, reentries>>

-----------------------------------------------------------------------------
(* Tags: each is a routing tag or a fact, as tags.json classifies them. *)

\* f with every key of g replaced by, or extended with, g's value.
Overlay(f, g) ==
  [k \in DOMAIN f \cup DOMAIN g |-> IF k \in DOMAIN g THEN g[k] ELSE f[k]]
Pick(f, K) == [k \in DOMAIN f \cap K |-> f[k]]
PickRouting(t) == Pick(t, RoutingTags)
PickFacts(t) == Pick(t, Tag \ RoutingTags)

TagsMatch(t, cond) == \A k \in DOMAIN cond : k \in DOMAIN t /\ t[k] = cond[k]

\* accumulated, with only the routing tags the last run itself wrote.
WithFreshRouting(accumulated, own) == Overlay(PickFacts(accumulated), own)

-----------------------------------------------------------------------------
(* Approval: createPolicyGate *)

Level == [low |-> 25, medium |-> 50, high |-> 75]

RiskScoreOf(t) ==
  IF "risk_score" \in DOMAIN t /\ t["risk_score"] \in DOMAIN Percent
  THEN {Percent[t["risk_score"]]}
  ELSE {Level[l] : l \in {v \in DOMAIN Level : TagsMatch(t, [risk_level |-> v])}}

\* An unknown risk never opens the gate by itself.
BelowThreshold(n, t) ==
  PolicyMode = "risk-threshold" /\ \E r \in RiskScoreOf(t) : r < Threshold[n]

\* (Mutant: a resumed walk is taken to have been approved when it started.)
ResumedOpens(n) ==
  n \in GatedSteps => (journal # <<>> \/ BelowThreshold(n, tags) \/ n \in approved)

GateOpens(n) == n \in GatedSteps => (BelowThreshold(n, tags) \/ n \in approved)

-----------------------------------------------------------------------------
(* Budgets and edges *)

RunCap == Cardinality(Node) * (HardCap + 1)

LastOf(S) == CHOOSE j \in S : \A i \in S : i <= j
RunsOf(n) == {j \in DOMAIN runs : runs[j].node = n}
LastRun == runs[Len(runs)]
Replaying == Len(runs) < Len(journal)

IsLoop(e) == e.max # {}

\* (Mutant: every grant counts from the first run on.)
FlatGrants(edge, runsConsumed) ==
  MapThenSumSet(LAMBDA i : grants[i].visits, {i \in DOMAIN grants : grants[i].edge = edge})

GrantedVisits(edge, runsConsumed) ==
  MapThenSumSet(LAMBDA i : grants[i].visits,
    {i \in DOMAIN grants : grants[i].edge = edge /\ runsConsumed >= grants[i].after})

Granted(e) == (CHOOSE m \in e.max : TRUE) + GrantedVisits(<<node, e.to>>, Len(runs))

\* (Mutant: off by one.)
SpentTooLate(e) ==
  IsLoop(e) /\ \E most \in {Granted(e), HardCap} : counts[<<node, e.to>>] > most

\* The budget is what was declared and granted, or the hard cap if that is less.
Spent(e) ==
  IsLoop(e) /\ \E most \in {Granted(e), HardCap} : counts[<<node, e.to>>] >= most

\* A loop edge believes only what the last run said; a judge that gave no
\* score gives no reason to rework.
Passes(e) ==
  LET seen == IF IsLoop(e) THEN WithFreshRouting(tags, LastRun.tags) ELSE tags
  IN /\ \A c \in e.require : TagsMatch(seen, c)
     /\ \A c \in e.skip : ~TagsMatch(seen, c)
     /\ \A b \in e.below : \E s \in LastRun.score : s < b

Edges == graph[node]
Open(i) == Passes(Edges[i]) /\ ~Spent(Edges[i])
Selected(i) == Open(i) /\ \A j \in 1 .. i - 1 : ~Open(j)
NoneOpen == \A i \in DOMAIN Edges : ~Open(i)

\* Loop edges that would have fired, had they any budget left.
BudgetBlocked ==
  {<<node, Edges[i].to>> : i \in {j \in DOMAIN Edges : Passes(Edges[j]) /\ Spent(Edges[j])}}

\* Forward edges whose required tags are missing.
Unmet ==
  {<<node, Edges[i].to>> : i \in
    {j \in DOMAIN Edges : /\ ~IsLoop(Edges[j])
                          /\ \A c \in Edges[j].skip : ~TagsMatch(tags, c)
                          /\ \E c \in Edges[j].require : ~TagsMatch(tags, c)}}

-----------------------------------------------------------------------------
(* Entering a node *)

Running == [kind |-> "running", edges |-> {}]

\* A walk that ends with journal left over has diverged from it, whatever
\* else ended it.
End(kind, edges) ==
  /\ pc' = "ended"
  /\ halt' = IF Replaying THEN [kind |-> "diverged", edges |-> {}]
                          ELSE [kind |-> kind, edges |-> edges]
  /\ UNCHANGED <<graph, journal, grants, approved, pending, node, runs, tags,
                 inventory, counts, snapshots, tree, reentries>>

MayEnter == pc = "enter" /\ (Replaying \/ GateOpens(node))

AwaitApproval ==
  /\ pc = "enter" /\ ~Replaying /\ ~GateOpens(node)
  /\ End("approval", {})

HitRunCap ==
  /\ MayEnter
  /\ Len(runs) >= RunCap
  /\ End("run-cap", {})

\* (Mutant: counted from zero.)
IterationFromZero == Cardinality(RunsOf(node))

Iteration == Cardinality(RunsOf(node)) + 1

JournalAgrees ==
  LET entry == journal[Len(runs) + 1]
  IN entry.node = node /\ entry.iteration = Iteration

Diverge ==
  /\ MayEnter /\ Len(runs) < RunCap
  /\ Replaying /\ ~JournalAgrees
  /\ End("diverged", {})

\* (Mutant: the runs are kept by node, so a second run replaces the first.)
CompleteByNode(run) ==
  /\ runs' = Append(SelectSeq(runs, LAMBDA r : r.node # run.node), run)
  /\ snapshots' = [i \in DOMAIN runs' |-> PickRouting(tags)]
  /\ tags' = Overlay(tags, run.tags)
  /\ inventory' = Overlay(inventory, PickFacts(run.tags))
  /\ pc' = "route"
  /\ UNCHANGED <<graph, journal, grants, approved, node, counts, halt, reentries>>

\* What a node's run leaves behind, live or replayed.
Complete(run) ==
  /\ runs' = Append(runs, run)
  /\ snapshots' = Append(snapshots, PickRouting(tags))
  /\ tags' = Overlay(tags, run.tags)
  /\ inventory' = Overlay(inventory, PickFacts(run.tags))
  /\ pc' = "route"
  /\ UNCHANGED <<graph, journal, grants, approved, node, counts, halt, reentries>>

Replay ==
  /\ MayEnter /\ Len(runs) < RunCap
  /\ Replaying /\ JournalAgrees
  /\ Complete(journal[Len(runs) + 1])
  /\ UNCHANGED <<pending, tree>>

\* The first live run is told the human's feedback.  A failed run is not
\* judged.  told, ok and left are history: what the run was told, whether its
\* step was approved, and the files it left.
RunLive ==
  /\ MayEnter /\ Len(runs) < RunCap
  /\ ~Replaying
  /\ \E r \in Results[node] :
       /\ tree' \in IF r.writes = {} THEN {tree} ELSE r.writes
       /\ Complete([node |-> node, iteration |-> Iteration,
                    status |-> r.status, tags |-> r.tags,
                    score |-> IF r.status = "failed" THEN {} ELSE r.score,
                    told |-> pending, ok |-> node \in approved, left |-> tree'])
  /\ pending' = 0

-----------------------------------------------------------------------------
(* Leaving it *)

\* The hand-off verifier re-derives a live run's claims from evidence, which
\* may say anything; it is not asked about a failed run.
VerificationFails ==
  /\ pc = "route"
  /\ Len(runs) > Len(journal) /\ LastRun.status # "failed"
  /\ End("verification", {})

Pausing == TagsMatch(LastRun.tags, [needs_human_input |-> "true"])

Pause ==
  /\ pc = "route" /\ Pausing
  /\ End("input", {})

MayRoute == pc = "route" /\ ~Pausing

FollowForward ==
  /\ MayRoute
  /\ \E i \in DOMAIN Edges :
       /\ Selected(i) /\ ~IsLoop(Edges[i])
       /\ node' = Edges[i].to
  /\ pc' = "enter"
  /\ UNCHANGED <<graph, journal, grants, approved, pending, runs, tags,
                 inventory, counts, snapshots, halt, tree, reentries>>

\* (Mutant: nothing is rewound.)
Kept(target) == Overlay(tags, PickRouting(LastRun.tags))

\* The routing tags before the target's last run, under the source's own.
Rewound(target) ==
  IF RunsOf(target) = {} THEN tags
  ELSE Overlay(Overlay(PickFacts(tags), snapshots[LastOf(RunsOf(target))]),
               PickRouting(LastRun.tags))

FollowLoop ==
  /\ MayRoute
  /\ \E i \in DOMAIN Edges :
       /\ Selected(i) /\ IsLoop(Edges[i])
       /\ node' = Edges[i].to
       /\ tags' = Rewound(Edges[i].to)
       /\ counts' = [counts EXCEPT ![<<node, Edges[i].to>>] = @ + 1]
  /\ reentries' = reentries \cup {Len(runs) + 1}
  /\ pc' = "enter"
  /\ UNCHANGED <<graph, journal, grants, approved, pending, runs, inventory,
                 snapshots, halt, tree>>

Exhaust ==
  /\ MayRoute /\ NoneOpen
  /\ BudgetBlocked # {}
  /\ End("budget", BudgetBlocked)

Stall ==
  /\ MayRoute /\ NoneOpen
  /\ BudgetBlocked = {} /\ Unmet # {}
  /\ End("stalled", Unmet)

Finish ==
  /\ MayRoute /\ NoneOpen
  /\ BudgetBlocked = {} /\ Unmet = {}
  /\ End("finished", {})

WalkStep ==
  \/ AwaitApproval
  \/ HitRunCap
  \/ Diverge
  \/ Replay
  \/ RunLive
  \/ VerificationFails
  \/ Pause
  \/ FollowForward
  \/ FollowLoop
  \/ Exhaust
  \/ Stall
  \/ Finish
=============================================================================
