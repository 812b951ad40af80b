----------------------------- MODULE WalkProofs -----------------------------
(***************************************************************************)
(* What holds of a walk and of everything resumed from it for every graph, *)
(* every result of its agents, every budget and any number of invocations. *)
(*                                                                         *)
(* Each property is the consequence of an inductive invariant of its own:  *)
(* Typed (types, bounds, what the state file holds), GateInv (every tag in *)
(* force was said by a run of the walk), FeedbackInv (who has heard what), *)
(* FilesInv (whose files the tree holds); these three rest on Retrace: as  *)
(* far as a resumed walk has come, its runs are the journal's.  PathInv    *)
(* says the same of where it stands: the path is a function of the graph,  *)
(* the grants and the runs.  VerdictInv (an approval in force is the last  *)
(* run's word), LineInv (the routing tags in force are what the runs not   *)
(* dropped by a rework said) and GrantInv (what was granted is affordable  *)
(* and not spent) hold of graphs that are as WalkResume names them:        *)
(* VerdictIsFinal, InLine, BudgetsPlain.                                   *)
(***************************************************************************)
EXTENDS WalkResume, TLAPS, FiniteSetTheorems, SequenceTheorems, WellFoundedInduction

-----------------------------------------------------------------------------
(* Operators of the model *)

LEMMA LeastByOrder ==
  ASSUME NEW R, IsWellFoundedOn(R, Nat), \A x, y \in Nat : y < x => <<y, x>> \in R,
         NEW T \in SUBSET Nat, T # {}
  PROVE  \E x \in T : \A y \in T : x <= y
<1>1. PICK x \in T : \A y \in T : ~ (<<y, x>> \in R)
  BY WFMin
<1>2. ASSUME NEW y \in T
      PROVE  x <= y
  <2>1. x \in Nat /\ y \in Nat
    OBVIOUS
  <2>2. ~ (y < x)
    BY <1>1, <2>1, Zenon
  <2>3. QED BY <2>1, <2>2
<1>3. QED BY <1>2

LEMMA Least ==
  ASSUME NEW T \in SUBSET Nat, T # {}
  PROVE  \E x \in T : \A y \in T : x <= y
<1>1. \A x, y \in Nat : y < x => <<y, x>> \in OpToRel(<, Nat)
  BY DEF OpToRel
<1>2. IsWellFoundedOn(OpToRel(<, Nat), Nat)
  BY NatLessThanWellFounded
<1>3. QED BY <1>1, <1>2, LeastByOrder, Zenon

\* LastOf is the greatest of its set: a node's last run is one of its runs.
LEMMA LastOfIsIn ==
  ASSUME NEW n \in Nat, NEW S \in SUBSET (1 .. n), S # {}
  PROVE  LastOf(S) \in S /\ \A i \in S : i <= LastOf(S)
<1> DEFINE Down == {n - y : y \in S}
<1>1. Down \in SUBSET Nat /\ Down # {}
  OBVIOUS
<1>2. PICK u \in Down : \A v \in Down : u <= v
  BY <1>1, Least
<1>3. PICK x \in S : u = n - x
  OBVIOUS
<1>4. ASSUME NEW y \in S
      PROVE  y <= x
  <2>1. n - y \in Down
    OBVIOUS
  <2>2. QED BY <1>2, <1>3, <2>1
<1>5. \E j \in S : \A i \in S : i <= j
  BY <1>4
<1>6. QED BY <1>5 DEF LastOf

LEMMA NoTagsType == NoTags \in TagMap
<1>1. NoTags \in [{} -> Value]
  BY DEF NoTags
<1>2. {} \in SUBSET Tag
  OBVIOUS
<1>3. QED BY <1>1, <1>2 DEF TagMap

LEMMA OverlayType ==
  ASSUME NEW f \in TagMap, NEW g \in TagMap
  PROVE  Overlay(f, g) \in TagMap
<1>1. PICK D \in SUBSET Tag : f \in [D -> Value]
  BY DEF TagMap
<1>2. PICK E \in SUBSET Tag : g \in [E -> Value]
  BY DEF TagMap
<1>3. Overlay(f, g) \in [D \cup E -> Value]
  BY <1>1, <1>2 DEF Overlay
<1>4. D \cup E \in SUBSET Tag
  OBVIOUS
<1>5. QED BY <1>3, <1>4 DEF TagMap

LEMMA PickType ==
  ASSUME NEW f \in TagMap, NEW K
  PROVE  Pick(f, K) \in TagMap
<1>1. PICK D \in SUBSET Tag : f \in [D -> Value]
  BY DEF TagMap
<1>2. Pick(f, K) \in [D \cap K -> Value]
  BY <1>1 DEF Pick
<1>3. D \cap K \in SUBSET Tag
  OBVIOUS
<1>4. QED BY <1>2, <1>3 DEF TagMap

LEMMA RunCapType == RunCap \in Nat
BY WalkAssumption, FS_CardinalityType DEF RunCap

-----------------------------------------------------------------------------
(* Typing and the bounds of a walk *)

SavedType ==
  \A s \in saved : /\ s.runs \in Seq(Run) /\ s.grants \in Seq(Grant)
                   /\ s.feedback \in Nat /\ s.exhausted \subseteq EdgeKey

\* The snapshots are parallel to the runs, and a walk leaves only a node it ran.
Aligned ==
  /\ Len(snapshots) = Len(runs)
  /\ pc = "route" => runs # <<>>

Typed == TypeOK /\ SavedType /\ Aligned /\ WalkIsBounded

\* The eight actions that end a walk, for whatever reason.
Ends ==
  /\ pc \in {"enter", "route"}
  /\ \E kind \in HaltKind, edges \in SUBSET EdgeKey : End(kind, edges)

\* The three ways in which an invocation is over, with what they may save.
Saves ==
  /\ pc = "ended" /\ halt.kind # "diverged"
  /\ \/ saved' = {}
     \/ \E hash \in {{}, {tree}} : saved' = {StateToSave(hash)}

Quits == pc # "off" /\ Quit /\ (saved' = saved \/ Saves)

\* What the world does between invocations.
Outside ==
  /\ pc = "off" /\ pc' = "off"
  /\ tree' \in Content /\ served' \in Graphs
  /\ UNCHANGED <<graph, journal, grants, approved, pending, node, runs, tags,
                 inventory, counts, snapshots, halt, reentries, saved, inForce,
                 fresh, resumes>>
  /\ moves' \in 0 .. MaxMoves

LEMMA EdgesType ==
  ASSUME Typed
  PROVE  /\ Edges \in Seq(Edge)
         /\ \A i \in DOMAIN Edges : Edges[i] \in Edge /\ Edges[i].to \in Node
         /\ BudgetBlocked \subseteq EdgeKey
         /\ Unmet \subseteq EdgeKey
<1>1. Edges \in Seq(Edge) /\ node \in Node
  BY WalkAssumption DEF Typed, TypeOK, Edges
<1>2. \A i \in DOMAIN Edges : Edges[i] \in Edge
  BY <1>1
<1>3. \A i \in DOMAIN Edges : Edges[i].to \in Node
  BY <1>2 DEF Edge
<1>4. QED BY <1>1, <1>2, <1>3 DEF BudgetBlocked, Unmet, EdgeKey

LEMMA StepKinds ==
  ASSUME Typed, Next
  PROVE  \/ Fresh \/ Resume
         \/ (Replay \/ RunLive \/ FollowForward \/ FollowLoop \/ Ends)
              /\ UNCHANGED worldVars
         \/ Quits /\ moves' \in 0 .. MaxMoves
         \/ Outside
<1>1. CASE Walk
  <2>1. CASE AwaitApproval \/ HitRunCap \/ Diverge
    BY <2>1, <1>1 DEF AwaitApproval, HitRunCap, Diverge, MayEnter, Ends, HaltKind, Walk
  <2>2. CASE VerificationFails \/ Pause
    BY <2>2, <1>1 DEF VerificationFails, Pause, Ends, HaltKind, Walk
  <2>3. CASE Exhaust \/ Stall \/ Finish
    BY <2>3, <1>1, EdgesType DEF Exhaust, Stall, Finish, MayRoute, Ends, HaltKind, Walk
  <2>4. QED BY <1>1, <2>1, <2>2, <2>3 DEF Walk, WalkStep
<1>2. CASE Conclude
  BY <1>2 DEF Conclude, WriteOrClear, Quits, Saves, Typed, TypeOK
<1>3. CASE ConcludeBadly
  <2>1. moves' \in 0 .. MaxMoves
    BY <1>3, ResumeAssumption DEF ConcludeBadly, Move, Typed, TypeOK
  <2>2. QED BY <1>3, <2>1 DEF ConcludeBadly, WriteOrClear, Quits, Saves
<1>4. CASE Killed
  BY <1>4, ResumeAssumption DEF Killed, Move, Quits, Typed, TypeOK
<1>5. CASE EditFiles \/ MoveRefs \/ EditGraph
  BY <1>5, ResumeAssumption
     DEF EditFiles, MoveRefs, EditGraph, Move, Outside, walkVars, Typed, TypeOK
<1>6. QED BY <1>1, <1>2, <1>3, <1>4, <1>5 DEF Next

LEMMA TypedInit ==
  ASSUME Init
  PROVE  Typed
<1>1. 0 <= HardCap /\ 0 <= RunCap
  BY WalkAssumption, RunCapType
<1>2. TypeOK
  BY WalkAssumption, ResumeAssumption, NoTagsType
     DEF Init, TypeOK, Running, HaltKind
<1>3. SavedType /\ Aligned
  BY DEF Init, SavedType, Aligned
<1>4. WalkIsBounded
  BY <1>1 DEF Init, WalkIsBounded
<1>5. QED BY <1>2, <1>3, <1>4 DEF Typed

\* A walk begins with the journal and the grants it was given, and nothing else.
LEMMA TypedBegin ==
  ASSUME Typed, NEW j \in Seq(Run), NEW gs \in Seq(Grant), NEW feedback \in Nat,
         NEW steps \in SUBSET GatedSteps, Begin(j, gs, feedback, steps),
         fresh' \in 0 .. MaxFresh, resumes' \in 0 .. MaxResumes
  PROVE  Typed'
<1>1. TypeOK'
  BY WalkAssumption, NoTagsType DEF Typed, TypeOK, Begin, Blank, Running, HaltKind
<1>2. SavedType'
  BY DEF Typed, SavedType, Begin
<1>3. Aligned'
  BY DEF Aligned, Begin, Blank
<1>4. WalkIsBounded'
  <2>1. RunCap' = RunCap
    BY DEF RunCap
  <2>2. QED BY <2>1, RunCapType, WalkAssumption DEF WalkIsBounded, Begin, Blank
<1>5. QED BY <1>1, <1>2, <1>3, <1>4 DEF Typed

LEMMA TypedFresh ==
  ASSUME Typed, Fresh
  PROVE  Typed'
<1>1. PICK steps \in SUBSET GatedSteps : Begin(<<>>, <<>>, 0, steps)
  BY DEF Fresh
<1>2. fresh' \in 0 .. MaxFresh /\ resumes' \in 0 .. MaxResumes
  BY ResumeAssumption DEF Fresh, Typed, TypeOK
<1>3. <<>> \in Seq(Run) /\ <<>> \in Seq(Grant) /\ 0 \in Nat
  OBVIOUS
<1>4. QED BY <1>1, <1>2, <1>3, TypedBegin

LEMMA TypedResume ==
  ASSUME Typed, Resume
  PROVE  Typed'
<1>1. fresh' \in 0 .. MaxFresh /\ resumes' \in 0 .. MaxResumes /\ resumes + 1 \in Nat
  BY ResumeAssumption DEF Resume, Typed, TypeOK
<1>2. PICK s \in saved, steps \in SUBSET GatedSteps :
        \/ \E feedback \in {s.feedback, resumes + 1} :
             Begin(s.runs, s.grants, feedback, steps)
        \/ \E edge \in Grantable(s), n \in 1 .. MaxGrant :
             LET g == [edge |-> edge, visits |-> n, after |-> Len(s.runs)]
             IN Begin(s.runs, Append(s.grants, g), resumes + 1, steps)
  BY DEF Resume
<1>3. /\ s.runs \in Seq(Run) /\ s.grants \in Seq(Grant)
      /\ s.feedback \in Nat /\ s.exhausted \subseteq EdgeKey
  BY DEF Typed, SavedType
<1>4. CASE \E feedback \in {s.feedback, resumes + 1} :
             Begin(s.runs, s.grants, feedback, steps)
  BY <1>1, <1>3, <1>4, TypedBegin
<1>5. ASSUME NEW edge \in Grantable(s), NEW n \in 1 .. MaxGrant,
             Begin(s.runs, Append(s.grants,
                     [edge |-> edge, visits |-> n, after |-> Len(s.runs)]), resumes + 1, steps)
      PROVE  Typed'
  <2> DEFINE g == [edge |-> edge, visits |-> n, after |-> Len(s.runs)]
  <2>1. g \in Grant
    BY <1>3, ResumeAssumption DEF Grant, Grantable
  <2>2. Append(s.grants, g) \in Seq(Grant)
    BY <1>3, <2>1
  <2>3. QED BY <1>1, <1>3, <1>5, <2>2, TypedBegin
<1>6. QED BY <1>2, <1>4, <1>5

\* A run is recorded, live or replayed.
LEMMA TypedComplete ==
  ASSUME Typed, UNCHANGED worldVars, NEW run \in Run, Complete(run), pc = "enter",
         Len(runs) < RunCap, pending' \in Nat, tree' \in Content
  PROVE  Typed'
<1>1. PickRouting(tags) \in TagMap /\ PickFacts(run.tags) \in TagMap
  BY PickType DEF Typed, TypeOK, PickRouting, PickFacts, Run
<1>2. tags' \in TagMap /\ inventory' \in TagMap
  BY <1>1, OverlayType DEF Complete, Typed, TypeOK, Run
<1>3. /\ runs' \in Seq(Run) /\ Len(runs') = Len(runs) + 1
      /\ snapshots' \in Seq(TagMap) /\ Len(snapshots') = Len(snapshots) + 1
      /\ Len(runs) \in Nat
  BY <1>1 DEF Complete, Typed, TypeOK
<1>4. TypeOK'
  BY <1>2, <1>3 DEF Complete, Typed, TypeOK, worldVars
<1>5. SavedType' /\ Aligned'
  BY <1>3 DEF Complete, Typed, SavedType, Aligned, worldVars
<1>6. WalkIsBounded'
  <2>1. RunCap' = RunCap
    BY DEF RunCap
  <2>2. QED BY <1>3, <2>1, RunCapType DEF Complete, Typed, WalkIsBounded
<1>7. QED BY <1>4, <1>5, <1>6 DEF Typed

LEMMA TypedReplay ==
  ASSUME Typed, Replay, UNCHANGED worldVars
  PROVE  Typed'
<1>1. Len(runs) + 1 \in DOMAIN journal
  BY DEF Replay, Replaying, Typed, TypeOK
<1>2. journal[Len(runs) + 1] \in Run
  BY <1>1 DEF Typed, TypeOK
<1>3. Complete(journal[Len(runs) + 1]) /\ pc = "enter" /\ Len(runs) < RunCap
  BY DEF Replay, MayEnter
<1>4. pending' \in Nat /\ tree' \in Content
  BY DEF Replay, Typed, TypeOK
<1>5. QED BY <1>2, <1>3, <1>4, TypedComplete

LEMMA TypedRunLive ==
  ASSUME Typed, RunLive, UNCHANGED worldVars
  PROVE  Typed'
<1>1. PICK r \in Results[node] :
        /\ tree' \in IF r.writes = {} THEN {tree} ELSE r.writes
        /\ Complete([node |-> node, iteration |-> Iteration,
                     status |-> r.status, tags |-> r.tags,
                     score |-> IF r.status = "failed" THEN {} ELSE r.score,
                     told |-> pending, ok |-> node \in approved, left |-> tree'])
  BY DEF RunLive
<1>2. r \in Result
  BY WalkAssumption DEF Typed, TypeOK
<1>3. tree' \in Content
  BY <1>1, <1>2 DEF Result, Typed, TypeOK
<1>4. Iteration \in Nat \ {0}
  <2>1. IsFiniteSet(RunsOf(node))
    <3>1. Len(runs) \in Nat /\ RunsOf(node) \subseteq 1 .. Len(runs)
      BY DEF RunsOf, Typed, TypeOK
    <3>2. IsFiniteSet(1 .. Len(runs))
      BY <3>1, FS_Interval
    <3>3. QED BY <3>1, <3>2, FS_Subset
  <2>2. Cardinality(RunsOf(node)) \in Nat
    BY <2>1, FS_CardinalityType
  <2>3. QED BY <2>2 DEF Iteration
<1>5. [node |-> node, iteration |-> Iteration, status |-> r.status, tags |-> r.tags,
       score |-> IF r.status = "failed" THEN {} ELSE r.score,
       told |-> pending, ok |-> node \in approved, left |-> tree'] \in Run
  BY <1>2, <1>3, <1>4 DEF Run, Result, Typed, TypeOK
<1>6. pc = "enter" /\ Len(runs) < RunCap /\ pending' \in Nat
  BY DEF RunLive, MayEnter
<1>7. QED BY <1>1, <1>3, <1>5, <1>6, TypedComplete

LEMMA TypedForward ==
  ASSUME Typed, FollowForward, UNCHANGED worldVars
  PROVE  Typed'
<1>1. node' \in Node
  BY EdgesType DEF FollowForward
<1>2. TypeOK'
  BY <1>1 DEF FollowForward, Typed, TypeOK, worldVars
<1>3. SavedType' /\ Aligned'
  BY DEF FollowForward, Typed, SavedType, Aligned, worldVars
<1>4. WalkIsBounded'
  BY DEF FollowForward, Typed, WalkIsBounded, RunCap
<1>5. QED BY <1>2, <1>3, <1>4 DEF Typed

\* The tags after a loop edge are those of before, or older ones under them.
LEMMA RewoundType ==
  ASSUME Typed, pc = "route", NEW target \in Node
  PROVE  Rewound(target) \in TagMap
<1>1. CASE RunsOf(target) = {}
  BY <1>1 DEF Rewound, Typed, TypeOK
<1>2. CASE RunsOf(target) # {}
  <2>1. Len(runs) \in Nat /\ RunsOf(target) \in SUBSET (1 .. Len(runs))
    BY DEF RunsOf, Typed, TypeOK
  <2>2. LastOf(RunsOf(target)) \in 1 .. Len(runs)
    BY <1>2, <2>1, LastOfIsIn
  <2>3. snapshots[LastOf(RunsOf(target))] \in TagMap
    BY <2>2 DEF Typed, TypeOK, Aligned
  <2>4. LastRun \in Run
    BY <2>1 DEF LastRun, Typed, TypeOK, Aligned
  <2>5. PickFacts(tags) \in TagMap /\ PickRouting(LastRun.tags) \in TagMap
    BY <2>4, PickType DEF PickFacts, PickRouting, Run, Typed, TypeOK
  <2>6. QED BY <1>2, <2>3, <2>5, OverlayType DEF Rewound
<1>3. QED BY <1>1, <1>2

\* A loop edge is taken only while it has budget, so its count stays bounded.
LEMMA TypedLoop ==
  ASSUME Typed, FollowLoop, UNCHANGED worldVars
  PROVE  Typed'
<1>1. PICK i \in DOMAIN Edges :
        /\ Selected(i) /\ IsLoop(Edges[i])
        /\ node' = Edges[i].to
        /\ tags' = Rewound(Edges[i].to)
        /\ counts' = [counts EXCEPT ![<<node, Edges[i].to>>] = @ + 1]
  BY DEF FollowLoop
<1>2. Edges[i].to \in Node /\ <<node, Edges[i].to>> \in EdgeKey
  BY EdgesType DEF EdgeKey, Typed, TypeOK
<1>3. tags' \in TagMap
  BY <1>1, <1>2, RewoundType DEF FollowLoop, MayRoute
<1>4. counts[<<node, Edges[i].to>>] \in Nat /\ HardCap \in Nat
  BY <1>2, WalkAssumption DEF Typed, TypeOK
<1>5. counts[<<node, Edges[i].to>>] < HardCap
  <2>1. ~ (counts[<<node, Edges[i].to>>] >= HardCap)
    BY <1>1 DEF Selected, Open, Spent
  <2>2. QED BY <1>4, <2>1
<1>6. TypeOK'
  <2>1. reentries' \subseteq Nat
    <3>1. Len(runs) + 1 \in Nat /\ reentries \subseteq Nat
      BY DEF Typed, TypeOK
    <3>2. reentries' = reentries \cup {Len(runs) + 1}
      BY DEF FollowLoop
    <3>3. QED BY <3>1, <3>2, Zenon
  <2>2. counts' \in [EdgeKey -> Nat]
    BY <1>1, <1>2, <1>4 DEF Typed, TypeOK
  <2>3. QED BY <1>1, <1>2, <1>3, <2>1, <2>2 DEF FollowLoop, Typed, TypeOK, worldVars
<1>7. SavedType' /\ Aligned'
  BY DEF FollowLoop, Typed, SavedType, Aligned, worldVars
<1>8. WalkIsBounded'
  BY <1>1, <1>2, <1>4, <1>5 DEF FollowLoop, Typed, TypeOK, WalkIsBounded, RunCap
<1>9. QED BY <1>6, <1>7, <1>8 DEF Typed

LEMMA TypedEnds ==
  ASSUME Typed, Ends, UNCHANGED worldVars
  PROVE  Typed'
<1>1. TypeOK'
  BY DEF Ends, End, HaltKind, Typed, TypeOK, worldVars
<1>2. SavedType' /\ Aligned'
  BY DEF Ends, End, Typed, SavedType, Aligned, worldVars
<1>3. WalkIsBounded'
  BY DEF Ends, End, Typed, WalkIsBounded, RunCap
<1>4. QED BY <1>1, <1>2, <1>3 DEF Typed

LEMMA TypedQuits ==
  ASSUME Typed, Quits, moves' \in 0 .. MaxMoves
  PROVE  Typed'
<1>1. SavedType'
  <2>1. ASSUME NEW hash
        PROVE  LET s == StateToSave(hash)
               IN /\ s.runs \in Seq(Run) /\ s.grants \in Seq(Grant)
                  /\ s.feedback \in Nat /\ s.exhausted \subseteq EdgeKey
    BY DEF StateToSave, CarryUnconsumed, Typed, TypeOK
  <2>2. QED BY <2>1 DEF Quits, Saves, Typed, SavedType
<1>2. TypeOK'
  <2>1. \A s \in saved' : s.runs \in Seq(Run) /\ s.grants \in Seq(Grant)
    BY <1>1 DEF SavedType
  <2>2. QED BY <2>1, WalkAssumption, NoTagsType
        DEF Quits, Quit, Blank, Running, HaltKind, Typed, TypeOK
<1>3. Aligned'
  BY DEF Quits, Quit, Blank, Aligned
<1>4. WalkIsBounded'
  <2>1. RunCap' = RunCap
    BY DEF RunCap
  <2>2. QED BY <2>1, RunCapType, WalkAssumption DEF WalkIsBounded, Quits, Quit, Blank
<1>5. QED BY <1>1, <1>2, <1>3, <1>4 DEF Typed

LEMMA TypedOutside ==
  ASSUME Typed, Outside
  PROVE  Typed'
<1>1. TypeOK'
  BY DEF Outside, Typed, TypeOK
<1>2. SavedType' /\ Aligned' /\ WalkIsBounded'
  BY DEF Outside, Typed, SavedType, Aligned, WalkIsBounded, RunCap
<1>3. QED BY <1>1, <1>2 DEF Typed

LEMMA TypedStep ==
  ASSUME Typed, [Next]_vars
  PROVE  Typed'
<1>1. CASE Next
  BY <1>1, StepKinds, TypedFresh, TypedResume, TypedReplay, TypedRunLive, TypedForward,
     TypedLoop, TypedEnds, TypedQuits, TypedOutside
<1>2. CASE UNCHANGED vars
  <2>1. TypeOK'
    BY <1>2 DEF vars, walkVars, worldVars, Typed, TypeOK
  <2>2. SavedType' /\ Aligned' /\ WalkIsBounded'
    BY <1>2 DEF vars, walkVars, worldVars, Typed, SavedType, Aligned, WalkIsBounded, RunCap
  <2>3. QED BY <2>1, <2>2 DEF Typed
<1>3. QED BY <1>1, <1>2

\* TypeOK: whatever is served, edited, killed or resumed, every variable of the
\* walk (graphWalker.ts) and the files it leaves (walkState.ts) has its type.
THEOREM Typing == Spec => []TypeOK
<1>1. Init => Typed
  BY TypedInit
<1>2. Typed /\ [Next]_vars => Typed'
  BY TypedStep
<1>3. Typed => TypeOK
  BY DEF Typed
<1>4. QED BY <1>1, <1>2, <1>3, PTL DEF Spec

\* WalkIsBounded (MAX_VISITS_HARD_CAP, maxTotalNodeRuns): no grant and no resume lets
\* a loop edge be taken more than HardCap times, or more than RunCap nodes run.
THEOREM Bounded == Spec => []WalkIsBounded
<1>1. Init => Typed
  BY TypedInit
<1>2. Typed /\ [Next]_vars => Typed'
  BY TypedStep
<1>3. Typed => WalkIsBounded
  BY DEF Typed
<1>4. QED BY <1>1, <1>2, <1>3, PTL DEF Spec

-----------------------------------------------------------------------------
(* Gates *)

\* As far as a walk has come, it retraces its journal.
Retrace == \A i \in DOMAIN runs \cap DOMAIN journal : runs[i] = journal[i]

\* Every tag of t was written by a run of q.
Sourced(t, q) ==
  \A k \in DOMAIN t : \E j \in DOMAIN q : k \in DOMAIN q[j].tags /\ q[j].tags[k] = t[k]

\* The tags a gate reads, now or after a rework pass, are no one's invention.
GateInv ==
  /\ Retrace
  /\ Sourced(tags, runs)
  /\ \A m \in DOMAIN snapshots : Sourced(snapshots[m], runs)
  /\ GateRespected(runs) /\ GateRespected(journal)
  /\ \A s \in saved : GateRespected(s.runs)

LEMMA Recorded ==
  ASSUME Typed, NEW run, Complete(run)
  PROVE  /\ Len(runs) \in Nat /\ Len(journal) \in Nat
         /\ DOMAIN runs = 1 .. Len(runs) /\ DOMAIN journal = 1 .. Len(journal)
         /\ DOMAIN runs' = 1 .. Len(runs) + 1 /\ Len(runs') = Len(runs) + 1
         /\ \A i \in DOMAIN runs : runs'[i] = runs[i]
         /\ runs'[Len(runs) + 1] = run
         /\ journal' = journal
BY DEF Complete, Typed, TypeOK

LEMMA SaysLowIfBelow ==
  ASSUME NEW t, NEW n, BelowThreshold(n, t)
  PROVE  SaysLow(t, n)
<1>1. PICK r \in RiskScoreOf(t) : r < Threshold[n]
  BY DEF BelowThreshold
<1>2. CASE "risk_score" \in DOMAIN t /\ t["risk_score"] \in DOMAIN Percent
  BY <1>1, <1>2 DEF RiskScoreOf, SaysLow, BelowThreshold
<1>3. CASE ~ ("risk_score" \in DOMAIN t /\ t["risk_score"] \in DOMAIN Percent)
  <2>1. PICK l \in DOMAIN Level : TagsMatch(t, [risk_level |-> l]) /\ r = Level[l]
    BY <1>1, <1>3 DEF RiskScoreOf
  <2>2. QED BY <1>1, <2>1 DEF SaysLow, BelowThreshold
<1>4. QED BY <1>2, <1>3

\* What the accumulated tags say of the risk, a run has said.
LEMMA SomeRunSaysLow ==
  ASSUME NEW n, SaysLow(tags, n), Sourced(tags, runs)
  PROVE  \E j \in DOMAIN runs : SaysLow(runs[j].tags, n)
<1>1. CASE /\ "risk_score" \in DOMAIN tags /\ tags["risk_score"] \in DOMAIN Percent
           /\ Percent[tags["risk_score"]] < Threshold[n]
  <2>1. PICK j \in DOMAIN runs : /\ "risk_score" \in DOMAIN runs[j].tags
                                /\ runs[j].tags["risk_score"] = tags["risk_score"]
    BY <1>1 DEF Sourced
  <2>2. SaysLow(runs[j].tags, n)
    BY <1>1, <2>1 DEF SaysLow
  <2>3. QED BY <2>2
<1>2. ASSUME NEW l \in DOMAIN Level, TagsMatch(tags, [risk_level |-> l]),
             Level[l] < Threshold[n]
      PROVE  \E j \in DOMAIN runs : SaysLow(runs[j].tags, n)
  <2>1. "risk_level" \in DOMAIN tags /\ tags["risk_level"] = l
    BY <1>2 DEF TagsMatch
  <2>2. PICK j \in DOMAIN runs : /\ "risk_level" \in DOMAIN runs[j].tags
                                /\ runs[j].tags["risk_level"] = tags["risk_level"]
    BY <2>1 DEF Sourced
  <2>3. TagsMatch(runs[j].tags, [risk_level |-> l])
    BY <2>1, <2>2 DEF TagsMatch
  <2>4. SaysLow(runs[j].tags, n)
    BY <1>2, <2>3 DEF SaysLow
  <2>5. QED BY <2>4
<1>3. QED BY <1>1, <1>2 DEF SaysLow

LEMMA SourcedOverlay ==
  ASSUME NEW q, NEW f, NEW g, Sourced(f, q), Sourced(g, q)
  PROVE  Sourced(Overlay(f, g), q)
BY DEF Sourced, Overlay

LEMMA SourcedPick ==
  ASSUME NEW q, NEW f, NEW K, Sourced(f, q)
  PROVE  Sourced(Pick(f, K), q)
BY DEF Sourced, Pick

\* A run that is recorded is a source of its own tags.
LEMMA SourcedRecorded ==
  ASSUME Typed, GateInv, NEW run, Complete(run)
  PROVE  /\ Sourced(tags', runs')
         /\ \A m \in DOMAIN snapshots' : Sourced(snapshots'[m], runs')
<1>1. ASSUME NEW t, Sourced(t, runs)
      PROVE  Sourced(t, runs')
  BY <1>1, Recorded DEF Sourced
<1>2. Sourced(run.tags, runs')
  <2>1. Len(runs) + 1 \in DOMAIN runs' /\ runs'[Len(runs) + 1] = run
    BY Recorded
  <2>2. QED BY <2>1 DEF Sourced
<1>3. Sourced(tags', runs')
  BY <1>1, <1>2, SourcedOverlay DEF Complete, GateInv
<1>4. Sourced(PickRouting(tags), runs)
  BY SourcedPick DEF PickRouting, GateInv
<1>5. ASSUME NEW m \in DOMAIN snapshots'
      PROVE  Sourced(snapshots'[m], runs')
  <2>1. snapshots'[m] = PickRouting(tags) \/ (m \in DOMAIN snapshots /\ snapshots'[m] = snapshots[m])
    BY DEF Complete, Typed, TypeOK
  <2>2. Sourced(snapshots'[m], runs)
    BY <1>4, <2>1 DEF GateInv
  <2>3. QED BY <1>1, <2>2
<1>6. QED BY <1>3, <1>5

\* A recorded run keeps the gates respected if its own step was.
LEMMA GateRecorded ==
  ASSUME Typed, GateInv, NEW run, Complete(run), saved' = saved,
         Len(runs) + 1 \in DOMAIN journal => run = journal[Len(runs) + 1],
         run.node \in GatedSteps /\ ~run.ok =>
           \E j \in DOMAIN runs : SaysLow(runs[j].tags, run.node)
  PROVE  GateInv'
<1>1. Retrace'
  BY Recorded DEF Retrace, GateInv
<1>2. GateRespected(runs')
  <2>1. ASSUME NEW i \in DOMAIN runs', runs'[i].node \in GatedSteps, ~runs'[i].ok
        PROVE  \E j \in 1 .. i - 1 : SaysLow(runs'[j].tags, runs'[i].node)
    <3>1. CASE i = Len(runs) + 1
      <4>1. PICK j \in DOMAIN runs : SaysLow(runs[j].tags, run.node)
        BY <2>1, <3>1, Recorded
      <4>2. j \in 1 .. i - 1 /\ runs'[j] = runs[j] /\ runs'[i] = run
        BY <3>1, Recorded
      <4>3. QED BY <4>1, <4>2
    <3>2. CASE i \in DOMAIN runs
      <4>1. runs'[i] = runs[i]
        BY <3>2, Recorded
      <4>2. PICK j \in 1 .. i - 1 : SaysLow(runs[j].tags, runs[i].node)
        BY <2>1, <3>2, <4>1 DEF GateInv, GateRespected
      <4>3. runs'[j] = runs[j]
        BY <3>2, Recorded
      <4>4. QED BY <4>1, <4>2, <4>3
    <3>3. QED BY <3>1, <3>2, Recorded
  <2>2. QED BY <2>1 DEF GateRespected
<1>3. GateRespected(journal') /\ \A s \in saved' : GateRespected(s.runs)
  BY Recorded DEF GateInv
<1>4. QED BY <1>1, <1>2, <1>3, SourcedRecorded DEF GateInv

LEMMA GateReplay ==
  ASSUME Typed, GateInv, Replay, UNCHANGED worldVars
  PROVE  GateInv'
<1> DEFINE run == journal[Len(runs) + 1]
<1>1. Complete(run) /\ saved' = saved /\ Len(runs) < Len(journal)
  BY DEF Replay, Replaying, worldVars
<1>2. Len(runs) + 1 \in DOMAIN journal /\ DOMAIN runs = 1 .. Len(runs) /\ Len(runs) \in Nat
      /\ DOMAIN journal = 1 .. Len(journal)
  BY <1>1 DEF Typed, TypeOK
<1>3. ASSUME run.node \in GatedSteps, ~run.ok
      PROVE  \E j \in DOMAIN runs : SaysLow(runs[j].tags, run.node)
  <2>1. PICK j \in 1 .. (Len(runs) + 1) - 1 : SaysLow(journal[j].tags, run.node)
    BY <1>2, <1>3 DEF GateInv, GateRespected
  <2>2. j \in DOMAIN runs /\ j \in DOMAIN journal
    BY <1>1, <1>2
  <2>3. runs[j] = journal[j]
    BY <2>2 DEF GateInv, Retrace
  <2>4. QED BY <2>1, <2>2, <2>3
<1>4. QED BY <1>1, <1>3, GateRecorded

LEMMA GateRunLive ==
  ASSUME Typed, GateInv, RunLive, UNCHANGED worldVars
  PROVE  GateInv'
<1>1. PICK r \in Results[node] :
        Complete([node |-> node, iteration |-> Iteration,
                  status |-> r.status, tags |-> r.tags,
                  score |-> IF r.status = "failed" THEN {} ELSE r.score,
                  told |-> pending, ok |-> node \in approved, left |-> tree'])
  BY DEF RunLive
<1> DEFINE run == [node |-> node, iteration |-> Iteration,
                   status |-> r.status, tags |-> r.tags,
                   score |-> IF r.status = "failed" THEN {} ELSE r.score,
                   told |-> pending, ok |-> node \in approved, left |-> tree']
<1>2. Len(runs) + 1 \notin DOMAIN journal /\ saved' = saved
  BY DEF RunLive, Replaying, Typed, TypeOK, worldVars
<1>3. ASSUME run.node \in GatedSteps, ~run.ok
      PROVE  \E j \in DOMAIN runs : SaysLow(runs[j].tags, run.node)
  <2>1. node \in GatedSteps /\ node \notin approved /\ run.node = node
    BY <1>3
  <2>2. BelowThreshold(node, tags)
    BY <2>1 DEF RunLive, MayEnter, GateOpens
  <2>3. QED BY <2>1, <2>2, SaysLowIfBelow, SomeRunSaysLow DEF GateInv
<1>4. Complete(run)
  BY <1>1
<1> HIDE DEF run
<1>5. QED BY <1>2, <1>3, <1>4, GateRecorded

LEMMA GateLoop ==
  ASSUME Typed, GateInv, FollowLoop, UNCHANGED worldVars
  PROVE  GateInv'
<1>1. PICK target \in Node : tags' = Rewound(target)
  BY EdgesType DEF FollowLoop
<1>2. Sourced(tags', runs)
  <2>1. CASE RunsOf(target) = {}
    BY <1>1, <2>1 DEF Rewound, GateInv
  <2>2. CASE RunsOf(target) # {}
    <3>1. Len(runs) \in Nat /\ RunsOf(target) \in SUBSET (1 .. Len(runs))
      BY DEF RunsOf, Typed, TypeOK
    <3>2. LastOf(RunsOf(target)) \in DOMAIN snapshots
      <4>1. LastOf(RunsOf(target)) \in 1 .. Len(runs)
        BY <2>2, <3>1, LastOfIsIn
      <4>2. DOMAIN snapshots = 1 .. Len(runs)
        BY DEF Typed, TypeOK, Aligned
      <4>3. QED BY <4>1, <4>2
    <3>3. Sourced(snapshots[LastOf(RunsOf(target))], runs)
      BY <3>2 DEF GateInv
    <3>4. Sourced(LastRun.tags, runs)
      <4>1. Len(runs) \in DOMAIN runs
        BY DEF FollowLoop, MayRoute, Typed, TypeOK, Aligned
      <4>2. QED BY <4>1 DEF Sourced, LastRun
    <3>5. Sourced(PickFacts(tags), runs) /\ Sourced(PickRouting(LastRun.tags), runs)
      BY <3>4, SourcedPick DEF PickFacts, PickRouting, GateInv
    <3>6. QED BY <1>1, <2>2, <3>3, <3>5, SourcedOverlay DEF Rewound
  <2>3. QED BY <2>1, <2>2
<1>3. QED BY <1>2 DEF FollowLoop, GateInv, Retrace, worldVars

LEMMA GateResume ==
  ASSUME Typed, GateInv, Fresh \/ Resume
  PROVE  GateInv'
<1>1. PICK j, gs, feedback, steps :
        /\ Begin(j, gs, feedback, steps)
        /\ j = <<>> \/ \E s \in saved : j = s.runs
  BY DEF Fresh, Resume
<1>2. runs' = <<>> /\ snapshots' = <<>> /\ tags' = NoTags /\ journal' = j /\ saved' = saved
  BY <1>1 DEF Begin, Blank
<1>3. GateRespected(<<>>) /\ GateRespected(j)
  BY <1>1 DEF GateRespected, GateInv
<1>4. Sourced(NoTags, <<>>)
  BY DEF Sourced, NoTags
<1>5. QED BY <1>2, <1>3, <1>4 DEF GateInv, Retrace

LEMMA GateQuits ==
  ASSUME Typed, GateInv, Quits
  PROVE  GateInv'
<1>1. runs' = <<>> /\ snapshots' = <<>> /\ tags' = NoTags /\ journal' = <<>>
  BY DEF Quits, Quit, Blank
<1>2. GateRespected(<<>>)
  BY DEF GateRespected
<1>3. Sourced(NoTags, <<>>)
  BY DEF Sourced, NoTags
<1>4. \A s \in saved' : GateRespected(s.runs)
  BY DEF Quits, Saves, StateToSave, GateInv
<1>5. QED BY <1>1, <1>2, <1>3, <1>4 DEF GateInv, Retrace

LEMMA GateStep ==
  ASSUME Typed, GateInv, [Next]_vars
  PROVE  GateInv'
<1>1. ASSUME UNCHANGED <<runs, journal, snapshots, tags, saved>>
      PROVE  GateInv'
  BY <1>1 DEF GateInv, Retrace
<1>2. CASE FollowForward /\ UNCHANGED worldVars
  BY <1>1, <1>2 DEF FollowForward, worldVars
<1>3. CASE Ends /\ UNCHANGED worldVars
  BY <1>1, <1>3 DEF Ends, End, worldVars
<1>4. CASE Outside
  BY <1>1, <1>4 DEF Outside
<1>5. CASE UNCHANGED vars
  BY <1>1, <1>5 DEF vars, walkVars, worldVars
<1>6. QED BY <1>2, <1>3, <1>4, <1>5, StepKinds, GateReplay, GateRunLive, GateLoop,
             GateResume, GateQuits

\* NoGateBypass (approvalGates.ts, the gate in walkGraph): a gated step that ran
\* without an approval ran after a step that said the risk is low, in the same
\* walk; neither a replay nor a rewound tag opens a gate by itself.
THEOREM GatesHold == Spec => []NoGateBypass
<1>1. Init => Typed /\ GateInv
  <2>1. ASSUME Init
        PROVE  GateInv
    BY <2>1 DEF Init, GateInv, Retrace, Sourced, GateRespected, NoTags
  <2>2. QED BY <2>1, TypedInit
<1>2. Typed /\ GateInv /\ [Next]_vars => (Typed /\ GateInv)'
  BY TypedStep, GateStep
<1>3. GateInv => NoGateBypass
  BY DEF GateInv, NoGateBypass
<1>4. QED BY <1>1, <1>2, <1>3, PTL DEF Spec

-----------------------------------------------------------------------------
(* Feedback *)

Heard(q, feedback) == \E i \in DOMAIN q : q[i].told = feedback

TellsOnce(q) ==
  \A i, j \in DOMAIN q : i < j /\ q[i].told # 0 => q[i].told # q[j].told

\* Feedback is named by a resume that has happened.
Known(q) == \A i \in DOMAIN q : q[i].told <= resumes

\* A walk has heard the feedback in force once it has run live, not before.
Pending ==
  /\ inForce # 0 => ~Heard(journal, inForce)
  /\ Len(runs) <= Len(journal) => pending = inForce
  /\ Len(runs) > Len(journal) =>
       pending = 0 /\ runs[Len(journal) + 1].told = inForce

FeedbackInv ==
  /\ Retrace
  /\ TellsOnce(runs) /\ Known(runs)
  /\ TellsOnce(journal) /\ Known(journal)
  /\ inForce <= resumes
  /\ Pending
  /\ \A s \in saved :
       /\ TellsOnce(s.runs) /\ Known(s.runs)
       /\ s.feedback <= resumes
       /\ s.feedback # 0 => ~Heard(s.runs, s.feedback)
  /\ FeedbackKept

LEMMA ToldType ==
  ASSUME NEW q \in Seq(Run), NEW i \in DOMAIN q
  PROVE  q[i].told \in Nat
<1>1. q[i] \in Run
  OBVIOUS
<1>2. QED BY <1>1 DEF Run

LEMMA FeedbackReplay ==
  ASSUME Typed, FeedbackInv, Replay, UNCHANGED worldVars
  PROVE  FeedbackInv'
<1> DEFINE run == journal[Len(runs) + 1]
<1>1. Complete(run) /\ Len(runs) < Len(journal)
      /\ UNCHANGED <<saved, inForce, pending, resumes>>
  BY DEF Replay, Replaying, worldVars
<1>2. Len(runs) + 1 \in DOMAIN journal /\ DOMAIN runs = 1 .. Len(runs)
      /\ DOMAIN runs' = 1 .. Len(runs) + 1
      /\ DOMAIN journal = 1 .. Len(journal) /\ Len(runs) \in Nat /\ Len(journal) \in Nat
      /\ journal' = journal /\ Len(runs') = Len(runs) + 1
  BY <1>1, Recorded
<1>3. \A i \in DOMAIN runs' : i \in DOMAIN journal /\ runs'[i] = journal[i]
  BY <1>1, <1>2, Recorded DEF FeedbackInv, Retrace
<1>4. Retrace'
  BY <1>2, <1>3 DEF Retrace
<1>5. TellsOnce(runs')
  BY <1>2, <1>3 DEF FeedbackInv, TellsOnce
<1>6. Known(runs)' /\ Known(journal)'
  BY <1>1, <1>2, <1>3 DEF FeedbackInv, Known
<1>7. Pending'
  BY <1>1, <1>2 DEF FeedbackInv, Pending
<1>8. \A s \in saved' : Known(s.runs)'
  BY <1>1 DEF FeedbackInv, Known
<1>9. FeedbackKept'
  BY <1>1 DEF FeedbackInv, FeedbackKept
<1>10. QED BY <1>1, <1>2, <1>4, <1>5, <1>6, <1>7, <1>8, <1>9 DEF FeedbackInv

\* The first live run is told what is in force, any later one nothing.
LEMMA FeedbackRunLive ==
  ASSUME Typed, FeedbackInv, RunLive, UNCHANGED worldVars
  PROVE  FeedbackInv'
<1>1. PICK run : Complete(run) /\ run.told = pending
  BY DEF RunLive
<1>2. pending' = 0 /\ UNCHANGED <<saved, inForce, resumes>>
  BY DEF RunLive, worldVars
<1>3. /\ DOMAIN runs = 1 .. Len(runs) /\ DOMAIN runs' = 1 .. Len(runs) + 1
      /\ DOMAIN journal = 1 .. Len(journal) /\ Len(runs) \in Nat /\ Len(journal) \in Nat
      /\ journal' = journal /\ Len(runs') = Len(runs) + 1
      /\ runs'[Len(runs) + 1] = run
      /\ \A i \in DOMAIN runs : runs'[i] = runs[i]
  BY <1>1, Recorded
<1>4. Len(runs) >= Len(journal)
  BY <1>3 DEF RunLive, Replaying
<1>5. pending \in Nat /\ inForce \in Nat /\ resumes \in Nat
  BY ResumeAssumption DEF Typed, TypeOK
<1>6. ASSUME pending # 0, NEW i \in DOMAIN runs
      PROVE  runs[i].told # pending
  <2>1. Len(runs) <= Len(journal) /\ pending = inForce
    BY <1>3, <1>4, <1>6 DEF FeedbackInv, Pending
  <2>2. i \in DOMAIN journal /\ runs[i] = journal[i]
    BY <1>3, <1>4, <1>6, <2>1 DEF FeedbackInv, Retrace
  <2>3. ~Heard(journal, inForce)
    BY <1>6, <2>1 DEF FeedbackInv, Pending
  <2>4. QED BY <2>1, <2>2, <2>3 DEF Heard
<1>7. Retrace'
  BY <1>3, <1>4 DEF FeedbackInv, Retrace
<1>8. TellsOnce(runs')
  <2>1. ASSUME NEW i \in DOMAIN runs', NEW j \in DOMAIN runs', i < j, runs'[i].told # 0
        PROVE  runs'[i].told # runs'[j].told
    <3>1. i \in DOMAIN runs /\ runs'[i] = runs[i]
      BY <1>3, <2>1
    <3>2. CASE j \in DOMAIN runs
      BY <1>3, <2>1, <3>1, <3>2 DEF FeedbackInv, TellsOnce
    <3>3. CASE j = Len(runs) + 1
      BY <1>1, <1>3, <1>6, <2>1, <3>1, <3>3
    <3>4. QED BY <1>3, <3>2, <3>3
  <2>2. QED BY <2>1 DEF TellsOnce
<1>9. run.told <= resumes
  BY <1>1, <1>3, <1>4, <1>5 DEF FeedbackInv, Pending
<1>10. Known(runs)' /\ Known(journal)' /\ \A s \in saved' : Known(s.runs)'
  <2>1. \A i \in DOMAIN runs' : runs'[i].told <= resumes
    BY <1>3, <1>9 DEF FeedbackInv, Known
  <2>2. QED BY <1>2, <1>3, <2>1 DEF FeedbackInv, Known
<1>11. Pending'
  <2>1. runs'[Len(journal) + 1].told = inForce
    <3>1. CASE Len(runs) = Len(journal)
      BY <1>1, <1>3, <3>1 DEF FeedbackInv, Pending
    <3>2. CASE Len(runs) > Len(journal)
      <4>1. Len(journal) + 1 \in DOMAIN runs
        BY <1>3, <3>2
      <4>2. runs[Len(journal) + 1].told = inForce
        BY <3>2 DEF FeedbackInv, Pending
      <4>3. runs'[Len(journal) + 1] = runs[Len(journal) + 1]
        BY <1>3, <4>1
      <4>4. QED BY <4>2, <4>3
    <3>3. Len(runs) = Len(journal) \/ Len(runs) > Len(journal)
      BY <1>4 DEF Typed, TypeOK
    <3>4. QED BY <3>1, <3>2, <3>3
  <2>2. QED BY <1>2, <1>3, <1>4, <2>1 DEF FeedbackInv, Pending
<1>12. FeedbackKept'
  BY <1>2 DEF FeedbackInv, FeedbackKept
<1>13. QED BY <1>2, <1>3, <1>7, <1>8, <1>10, <1>11, <1>12 DEF FeedbackInv

\* A step of the walk that runs nothing, and anything done outside a walk.
LEMMA FeedbackSame ==
  ASSUME FeedbackInv, UNCHANGED <<runs, journal, saved, pending, inForce, resumes>>
  PROVE  FeedbackInv'
BY DEF FeedbackInv, Retrace, Known, Pending, FeedbackKept

\* A fresh walk has no feedback; a resume goes on with what was saved, which no
\* run has heard, or names its own after itself, which none can have heard.
LEMMA FeedbackBegin ==
  ASSUME Typed, FeedbackInv, resumes' \in Nat, resumes' >= resumes,
         NEW j, NEW gs, NEW feedback, NEW steps, Begin(j, gs, feedback, steps),
         j \in Seq(Run), TellsOnce(j), Known(j), feedback \in Nat,
         feedback <= resumes', feedback # 0 => ~Heard(j, feedback)
  PROVE  FeedbackInv'
<1>1. runs' = <<>> /\ journal' = j /\ pending' = feedback /\ inForce' = feedback
      /\ saved' = saved
  BY DEF Begin, Blank
<1>2. resumes \in Nat /\ \A i \in DOMAIN j : j[i].told \in Nat
  BY ResumeAssumption, ToldType DEF Typed, TypeOK
<1>3. Retrace' /\ TellsOnce(runs') /\ Known(runs)'
  BY <1>1 DEF Retrace, TellsOnce, Known
<1>4. TellsOnce(journal') /\ Known(journal)'
  BY <1>1, <1>2 DEF Known
<1>5. Pending'
  <2>1. Len(runs') = 0 /\ Len(journal') \in Nat
    BY <1>1
  <2>2. QED BY <1>1, <2>1 DEF Pending
<1>6. \A s \in saved' : Known(s.runs)' /\ s.feedback <= resumes'
  <2>1. ASSUME NEW s \in saved'
        PROVE  Known(s.runs)' /\ s.feedback <= resumes'
    <3>1. s.runs \in Seq(Run) /\ s.feedback \in Nat
      BY <1>1, <2>1 DEF Typed, SavedType
    <3>2. \A i \in DOMAIN s.runs : s.runs[i].told \in Nat /\ s.runs[i].told <= resumes
      BY <1>1, <2>1, <3>1, ToldType DEF FeedbackInv, Known
    <3>3. s.feedback <= resumes
      BY <1>1, <2>1 DEF FeedbackInv
    <3>4. QED BY <1>2, <3>1, <3>2, <3>3 DEF Known
  <2>2. QED BY <2>1
<1>7. FeedbackKept'
  BY <1>1 DEF FeedbackInv, FeedbackKept
<1>8. QED BY <1>1, <1>3, <1>4, <1>5, <1>6, <1>7 DEF FeedbackInv

LEMMA FeedbackStarts ==
  ASSUME Typed, FeedbackInv, Fresh \/ Resume
  PROVE  FeedbackInv'
<1>1. resumes \in Nat
  BY ResumeAssumption DEF Typed, TypeOK
<1>2. CASE Fresh
  <2>1. PICK steps : Begin(<<>>, <<>>, 0, steps)
    BY <1>2 DEF Fresh
  <2>2. resumes' = resumes
    BY <1>2 DEF Fresh
  <2>3. <<>> \in Seq(Run) /\ TellsOnce(<<>>) /\ Known(<<>>)
    BY DEF TellsOnce, Known
  <2>4. 0 \in Nat /\ 0 <= resumes' /\ resumes' >= resumes /\ resumes' \in Nat
    BY <1>1, <2>2
  <2>5. QED BY <2>1, <2>3, <2>4, FeedbackBegin
<1>3. CASE Resume
  <2>1. PICK s, gs, feedback, steps :
          /\ s \in saved
          /\ Begin(s.runs, gs, feedback, steps)
          /\ feedback = s.feedback \/ feedback = resumes + 1
    BY <1>3 DEF Resume
  <2>2. resumes' = resumes + 1
    BY <1>3 DEF Resume
  <2>3. s.runs \in Seq(Run) /\ TellsOnce(s.runs) /\ Known(s.runs) /\ s.feedback \in Nat
    BY <2>1 DEF Typed, SavedType, FeedbackInv
  <2>4. feedback <= resumes'
    BY <1>1, <2>1, <2>2, <2>3 DEF FeedbackInv
  <2>5. feedback # 0 => ~Heard(s.runs, feedback)
    <3>1. CASE feedback = s.feedback
      BY <2>1, <3>1 DEF FeedbackInv
    <3>2. CASE feedback = resumes + 1
      <4>1. ASSUME NEW i \in DOMAIN s.runs
            PROVE  s.runs[i].told # resumes + 1
        <5>1. s.runs[i].told \in Nat /\ s.runs[i].told <= resumes
          BY <2>3, ToldType DEF Known
        <5>2. QED BY <1>1, <5>1
      <4>2. QED BY <3>2, <4>1 DEF Heard
    <3>3. QED BY <2>1, <3>1, <3>2
  <2>6. QED BY <1>1, <2>1, <2>2, <2>3, <2>4, <2>5, FeedbackBegin
<1>4. QED BY <1>2, <1>3

\* What is saved: the feedback, if no live run has been told it, or nothing.
LEMMA FeedbackQuits ==
  ASSUME Typed, FeedbackInv, Quits
  PROVE  FeedbackInv'
<1>1. runs' = <<>> /\ journal' = <<>> /\ pending' = 0 /\ inForce' = 0 /\ resumes' = resumes
  BY DEF Quits, Quit, Blank
<1>2. Retrace' /\ TellsOnce(runs') /\ Known(runs)' /\ TellsOnce(journal') /\ Known(journal)'
  BY <1>1 DEF Retrace, TellsOnce, Known
<1>3. Pending' /\ inForce' <= resumes'
  BY <1>1, ResumeAssumption DEF Pending, Typed, TypeOK
<1>4. ASSUME NEW hash, NEW s, s = StateToSave(hash)
      PROVE  /\ TellsOnce(s.runs) /\ Known(s.runs) /\ s.feedback <= resumes
             /\ s.feedback # 0 => ~Heard(s.runs, s.feedback)
             /\ s.inForce # 0 => s.feedback = s.inForce \/ Heard(s.runs, s.inForce)
  <2>1. s.runs = runs /\ s.feedback = CarryUnconsumed /\ s.inForce = inForce
    BY <1>4 DEF StateToSave
  <2>2. /\ DOMAIN runs = 1 .. Len(runs) /\ DOMAIN journal = 1 .. Len(journal)
        /\ Len(runs) \in Nat /\ Len(journal) \in Nat /\ resumes \in Nat
    BY ResumeAssumption DEF Typed, TypeOK
  <2>3. CASE Len(runs) <= Len(journal)
    <3>1. s.feedback = inForce
      BY <2>1, <2>3 DEF CarryUnconsumed
    <3>2. \A i \in DOMAIN runs : i \in DOMAIN journal /\ runs[i] = journal[i]
      BY <2>2, <2>3 DEF FeedbackInv, Retrace
    <3>3. inForce # 0 => ~Heard(runs, inForce)
      BY <3>2 DEF FeedbackInv, Pending, Heard
    <3>4. QED BY <2>1, <3>1, <3>3 DEF FeedbackInv
  <2>4. CASE Len(runs) > Len(journal)
    <3>1. s.feedback = 0
      BY <2>1, <2>2, <2>4 DEF CarryUnconsumed
    <3>2. runs[Len(journal) + 1].told = inForce /\ Len(journal) + 1 \in DOMAIN runs
      BY <2>2, <2>4 DEF FeedbackInv, Pending
    <3>3. Heard(runs, inForce)
      BY <3>2 DEF Heard
    <3>4. QED BY <2>1, <2>2, <3>1, <3>3 DEF FeedbackInv
  <2>5. QED BY <2>2, <2>3, <2>4
<1>5. ASSUME NEW s \in saved'
      PROVE  /\ TellsOnce(s.runs) /\ Known(s.runs)' /\ s.feedback <= resumes'
             /\ s.feedback # 0 => ~Heard(s.runs, s.feedback)
             /\ s.inForce # 0 => s.feedback = s.inForce \/ Heard(s.runs, s.inForce)
  <2>1. CASE s \in saved
    BY <1>1, <2>1 DEF FeedbackInv, FeedbackKept, Known, Heard
  <2>2. CASE \E hash : s = StateToSave(hash)
    BY <1>1, <1>4, <2>2 DEF Known
  <2>3. QED BY <1>5, <2>1, <2>2 DEF Quits, Saves
<1>6. FeedbackKept'
  BY <1>5 DEF FeedbackKept, Heard
<1>7. QED BY <1>2, <1>3, <1>5, <1>6 DEF FeedbackInv

LEMMA FeedbackStep ==
  ASSUME Typed, FeedbackInv, [Next]_vars
  PROVE  FeedbackInv'
<1>1. CASE (FollowForward \/ FollowLoop \/ Ends) /\ UNCHANGED worldVars
  <2>1. UNCHANGED <<runs, journal, saved, pending, inForce, resumes>>
    BY <1>1 DEF FollowForward, FollowLoop, Ends, End, worldVars
  <2>2. QED BY <2>1, FeedbackSame
<1>2. CASE Outside
  BY <1>2, FeedbackSame DEF Outside
<1>3. CASE UNCHANGED vars
  BY <1>3, FeedbackSame DEF vars, walkVars, worldVars
<1>4. QED BY <1>1, <1>2, <1>3, StepKinds, FeedbackReplay, FeedbackRunLive,
             FeedbackStarts, FeedbackQuits

LEMMA FeedbackInvariant == Spec => [](Typed /\ FeedbackInv)
<1>1. Init => Typed /\ FeedbackInv
  <2>1. ASSUME Init
        PROVE  FeedbackInv
    BY <2>1 DEF Init, FeedbackInv, Retrace, TellsOnce, Known, Pending, Heard, FeedbackKept
  <2>2. QED BY <2>1, TypedInit
<1>2. Typed /\ FeedbackInv /\ [Next]_vars => (Typed /\ FeedbackInv)'
  BY TypedStep, FeedbackStep
<1>3. QED BY <1>1, <1>2, PTL DEF Spec

\* FeedbackHeardOnce (pendingHumanFeedback, carryUnconsumedFeedback):
\* no two runs of a walk, across its resumes, are told the same feedback.
THEOREM FeedbackIsHeardOnce == Spec => []FeedbackHeardOnce
<1>1. FeedbackInv => FeedbackHeardOnce
  BY DEF FeedbackInv, TellsOnce, FeedbackHeardOnce
<1>2. QED BY <1>1, FeedbackInvariant, PTL

\* FeedbackKept: feedback that no run was told is in the state that is saved.
THEOREM FeedbackIsKept == Spec => []FeedbackKept
<1>1. Typed /\ FeedbackInv => FeedbackKept
  BY DEF FeedbackInv
<1>2. QED BY <1>1, FeedbackInvariant, PTL

-----------------------------------------------------------------------------
(* Files *)

\* Replaying, the files are those the journal ended with; running live, those
\* the last run left; and what is saved was hashed from its last run's.
FilesInv ==
  /\ Retrace
  /\ pc = "off" => runs = <<>> /\ journal = <<>>
  /\ pc # "off" /\ journal # <<>> /\ Len(runs) <= Len(journal) =>
       tree = journal[Len(journal)].left
  /\ Len(runs) > Len(journal) => tree = LastRun.left
  /\ pc = "ended" /\ halt.kind # "diverged" => Len(runs) >= Len(journal)
  /\ \A s \in saved : s.runs # <<>> => s.treeHash \subseteq {s.runs[Len(s.runs)].left}

LEMMA FilesReplay ==
  ASSUME Typed, FilesInv, Replay, UNCHANGED worldVars
  PROVE  FilesInv'
<1> DEFINE run == journal[Len(runs) + 1]
<1>1. Complete(run) /\ Len(runs) < Len(journal) /\ pc = "enter"
      /\ UNCHANGED <<saved, tree>>
  BY DEF Replay, Replaying, MayEnter, worldVars
<1>2. /\ DOMAIN runs' = 1 .. Len(runs) + 1 /\ DOMAIN journal = 1 .. Len(journal)
      /\ Len(runs) \in Nat /\ Len(journal) \in Nat
      /\ journal' = journal /\ Len(runs') = Len(runs) + 1
      /\ runs'[Len(runs) + 1] = run
      /\ \A i \in DOMAIN runs : runs'[i] = runs[i]
      /\ DOMAIN runs = 1 .. Len(runs)
  BY <1>1, Recorded
<1>3. Retrace'
  BY <1>1, <1>2 DEF FilesInv, Retrace
<1>4. journal # <<>> => tree = journal[Len(journal)].left
  BY <1>1, <1>2 DEF FilesInv
<1>5. pc' = "route"
  BY <1>1 DEF Complete
<1>6. Len(runs') <= Len(journal')
  BY <1>1, <1>2
<1>7. QED BY <1>1, <1>2, <1>3, <1>4, <1>5, <1>6 DEF FilesInv

LEMMA FilesRunLive ==
  ASSUME Typed, FilesInv, RunLive, UNCHANGED worldVars
  PROVE  FilesInv'
<1>1. PICK run : Complete(run) /\ run.left = tree'
  BY DEF RunLive
<1>2. /\ DOMAIN runs' = 1 .. Len(runs) + 1 /\ DOMAIN journal = 1 .. Len(journal)
      /\ Len(runs) \in Nat /\ Len(journal) \in Nat
      /\ journal' = journal /\ Len(runs') = Len(runs) + 1
      /\ runs'[Len(runs) + 1] = run
      /\ \A i \in DOMAIN runs : runs'[i] = runs[i]
      /\ DOMAIN runs = 1 .. Len(runs)
  BY <1>1, Recorded
<1>3. saved' = saved /\ pc' = "route"
  BY <1>1 DEF Complete, worldVars
<1>4. Len(runs) >= Len(journal)
  BY <1>2 DEF RunLive, Replaying
<1>5. Retrace'
  BY <1>2, <1>4 DEF FilesInv, Retrace
<1>6. Len(runs') > Len(journal') /\ ~(Len(runs') <= Len(journal'))
  BY <1>2, <1>4
<1>7. LastRun'.left = tree'
  BY <1>1, <1>2 DEF LastRun
<1>8. QED BY <1>3, <1>5, <1>6, <1>7 DEF FilesInv

LEMMA FilesEnds ==
  ASSUME Typed, FilesInv, Ends, UNCHANGED worldVars
  PROVE  FilesInv'
<1>1. UNCHANGED <<runs, journal, tree, saved>> /\ pc # "off" /\ pc' = "ended"
  BY DEF Ends, End, worldVars
<1>2. halt'.kind # "diverged" => Len(runs) >= Len(journal)
  <2>1. Replaying => halt'.kind = "diverged"
    BY DEF Ends, End
  <2>2. Len(runs) \in Nat /\ Len(journal) \in Nat
    BY DEF Typed, TypeOK
  <2>3. QED BY <2>1, <2>2 DEF Replaying
<1>3. QED BY <1>1, <1>2 DEF FilesInv, Retrace, LastRun

\* A resume is refused unless the files are those the state was saved with.
LEMMA FilesStarts ==
  ASSUME Typed, FilesInv, Fresh \/ Resume
  PROVE  FilesInv'
<1>1. PICK j, gs, feedback, steps :
        /\ Begin(j, gs, feedback, steps)
        /\ j = <<>> \/ \E s \in saved : j = s.runs /\ Valid(s)
  BY DEF Fresh, Resume
<1>2. runs' = <<>> /\ journal' = j /\ pc' = "enter" /\ saved' = saved /\ tree' = tree
  BY <1>1 DEF Begin, Blank
<1>3. j # <<>> => tree = j[Len(j)].left
  BY <1>1 DEF FilesInv, Valid
<1>4. j \in Seq(Run)
  <2>1. <<>> \in Seq(Run)
    OBVIOUS
  <2>2. QED BY <1>1, <2>1 DEF Typed, SavedType
<1>5. Retrace'
  BY <1>2 DEF Retrace
<1>6. ~(Len(runs') > Len(journal'))
  BY <1>2, <1>4
<1>7. QED BY <1>2, <1>3, <1>5, <1>6 DEF FilesInv

\* The files are hashed as the walk left them.
LEMMA FilesQuits ==
  ASSUME Typed, FilesInv, Quits
  PROVE  FilesInv'
<1>1. runs' = <<>> /\ journal' = <<>> /\ pc' = "off" /\ tree' = tree
  BY DEF Quits, Quit, Blank
<1>2. ~(Len(runs') > Len(journal')) /\ Retrace'
  BY <1>1 DEF Retrace
<1>3. ASSUME Saves, NEW s \in saved', s.runs # <<>>
      PROVE  s.treeHash \subseteq {s.runs[Len(s.runs)].left}
  <2>1. s.runs = runs /\ s.treeHash \in {{}, {tree}}
    BY <1>3 DEF Saves, StateToSave
  <2>2. Len(runs) >= Len(journal) /\ Len(runs) \in Nat /\ Len(journal) \in Nat
    BY <1>3 DEF Saves, FilesInv, Typed, TypeOK
  <2>3. /\ Len(runs) <= Len(journal) <=> Len(runs) = Len(journal)
        /\ pc # "off"
        /\ DOMAIN runs = 1 .. Len(runs) /\ DOMAIN journal = 1 .. Len(journal)
    BY <1>3, <2>2 DEF Saves, FilesInv, Typed, TypeOK
  <2>4. tree = runs[Len(runs)].left
    <3>1. CASE Len(runs) > Len(journal)
      BY <3>1 DEF FilesInv, LastRun
    <3>2. CASE Len(runs) = Len(journal)
      <4>1. Len(runs) \in DOMAIN runs /\ Len(runs) \in DOMAIN journal /\ journal # <<>>
        BY <1>3, <2>1, <2>3, <2>2, <3>2, EmptySeq DEF Typed, TypeOK
      <4>2. runs[Len(runs)] = journal[Len(journal)]
        BY <3>2, <4>1 DEF FilesInv, Retrace
      <4>3. tree = journal[Len(journal)].left
        BY <2>3, <3>2, <4>1 DEF FilesInv
      <4>4. QED BY <4>2, <4>3
    <3>3. Len(runs) > Len(journal) \/ Len(runs) = Len(journal)
      BY <2>2
    <3>4. QED BY <3>1, <3>2, <3>3
  <2>5. QED BY <2>1, <2>4
<1>4. \A s \in saved' : s.runs # <<>> => s.treeHash \subseteq {s.runs[Len(s.runs)].left}
  BY <1>3 DEF Quits, FilesInv
<1>5. QED BY <1>1, <1>2, <1>4 DEF FilesInv

LEMMA FilesStep ==
  ASSUME Typed, FilesInv, [Next]_vars
  PROVE  FilesInv'
<1>1. CASE (FollowForward \/ FollowLoop) /\ UNCHANGED worldVars
  <2>1. UNCHANGED <<runs, journal, tree, saved>> /\ pc # "off" /\ pc' = "enter"
    BY <1>1 DEF FollowForward, FollowLoop, MayRoute, worldVars
  <2>2. QED BY <2>1 DEF FilesInv, Retrace, LastRun
<1>2. CASE Outside
  <2>1. UNCHANGED <<runs, journal, saved, pc>> /\ pc = "off" /\ runs = <<>> /\ journal = <<>>
    BY <1>2 DEF Outside, FilesInv
  <2>2. ~(Len(runs') > Len(journal')) /\ Retrace'
    BY <2>1 DEF Retrace
  <2>3. QED BY <2>1, <2>2 DEF FilesInv
<1>3. CASE UNCHANGED vars
  BY <1>3 DEF vars, walkVars, worldVars, FilesInv, Retrace, LastRun
<1>4. QED BY <1>1, <1>2, <1>3, StepKinds, FilesReplay, FilesRunLive, FilesEnds,
             FilesStarts, FilesQuits

\* ReplaysItsOwnFiles (walkState.ts: a tree hash that does not match refuses the
\* resume): a journal is replayed only against the files its last run left.
THEOREM ReplaysOwnFiles == Spec => []ReplaysItsOwnFiles
<1>1. Init => Typed /\ FilesInv
  <2>1. ASSUME Init
        PROVE  FilesInv
    BY <2>1 DEF Init, FilesInv, Retrace
  <2>2. QED BY <2>1, TypedInit
<1>2. Typed /\ FilesInv /\ [Next]_vars => (Typed /\ FilesInv)'
  BY TypedStep, FilesStep
<1>3. Typed /\ FilesInv => ReplaysItsOwnFiles
  BY DEF Typed, TypeOK, FilesInv, ReplaysItsOwnFiles
<1>4. QED BY <1>1, <1>2, <1>3, PTL DEF Spec

-----------------------------------------------------------------------------
(* The verdict *)

\* Only an approver's run approves.
ApprovedByRole(q) == \A i \in DOMAIN q : Approves(q[i].tags) => Approver(q[i].node)

\* An approval in force is the word of the run that just ended.
VerdictInv ==
  /\ Approves(tags) => pc \in {"route", "ended"} /\ runs # <<>> /\ Approves(LastRun.tags)
  /\ \A m \in DOMAIN snapshots : ~Approves(snapshots[m])
  /\ pc = "route" => LastRun.node = node /\ (Approves(LastRun.tags) => Approves(tags))
  /\ ApprovedByRole(runs) /\ ApprovedByRole(journal)
  /\ \A s \in saved : ApprovedByRole(s.runs)

LEMMA ApprovesOverlay ==
  ASSUME NEW f, NEW g, Approves(Overlay(f, g)), ~Approves(g)
  PROVE  Approves(f) /\ "review_approved" \notin DOMAIN g
BY DEF Approves, TagsMatch, Overlay

LEMMA ApprovesPick ==
  ASSUME NEW f, NEW K, Approves(Pick(f, K))
  PROVE  Approves(f)
BY DEF Approves, TagsMatch, Pick

LEMMA NoTagsDoNotApprove == ~Approves(NoTags)
BY DEF Approves, TagsMatch, NoTags

\* A run is recorded: what it says is the verdict in force, if it says any.
LEMMA VerdictRecorded ==
  ASSUME Typed, VerdictInv, NEW run, Complete(run), pc = "enter", saved' = saved,
         run.node = node, Approves(run.tags) => Approver(node)
  PROVE  VerdictInv'
<1>1. pc' = "route" /\ tags' = Overlay(tags, run.tags) /\ node' = node
  BY DEF Complete
<1>2. Len(runs) + 1 \in DOMAIN runs' /\ runs' # <<>> /\ LastRun' = run
  BY Recorded DEF LastRun
<1>3. ~Approves(tags)
  BY DEF VerdictInv
<1>4. Approves(tags') <=> Approves(run.tags)
  <2>1. Approves(run.tags) => Approves(tags')
    BY <1>1 DEF Approves, TagsMatch, Overlay
  <2>2. QED BY <1>1, <1>3, <2>1, ApprovesOverlay
<1>5. ASSUME NEW m \in DOMAIN snapshots'
      PROVE  ~Approves(snapshots'[m])
  <2>1. snapshots'[m] = PickRouting(tags) \/ (m \in DOMAIN snapshots /\ snapshots'[m] = snapshots[m])
    BY DEF Complete, Typed, TypeOK
  <2>2. QED BY <1>3, <2>1, ApprovesPick DEF PickRouting, VerdictInv
<1>6. ApprovedByRole(runs')
  BY Recorded DEF ApprovedByRole, VerdictInv
<1>7. journal' = journal
  BY DEF Complete
<1>8. QED BY <1>1, <1>2, <1>4, <1>5, <1>6, <1>7 DEF VerdictInv

LEMMA VerdictReplay ==
  ASSUME Typed, VerdictInv, Replay, UNCHANGED worldVars
  PROVE  VerdictInv'
<1> DEFINE run == journal[Len(runs) + 1]
<1>1. Complete(run) /\ pc = "enter" /\ run.node = node /\ saved' = saved /\ Len(runs) < Len(journal)
  BY DEF Replay, Replaying, MayEnter, JournalAgrees, worldVars
<1>2. Len(runs) + 1 \in DOMAIN journal
  BY <1>1 DEF Typed, TypeOK
<1>3. Approves(run.tags) => Approver(node)
  BY <1>1, <1>2 DEF VerdictInv, ApprovedByRole
<1> HIDE DEF run
<1>4. QED BY <1>1, <1>3, VerdictRecorded

LEMMA VerdictRunLive ==
  ASSUME Typed, VerdictInv, RunLive, UNCHANGED worldVars
  PROVE  VerdictInv'
<1>1. PICK run : \E r \in Results[node] : Complete(run) /\ run.node = node /\ run.tags = r.tags
  <2>1. PICK r \in Results[node] :
          Complete([node |-> node, iteration |-> Iteration,
                    status |-> r.status, tags |-> r.tags,
                    score |-> IF r.status = "failed" THEN {} ELSE r.score,
                    told |-> pending, ok |-> node \in approved, left |-> tree'])
    BY DEF RunLive
  <2> QED BY <2>1
<1>2. pc = "enter" /\ saved' = saved
  BY DEF RunLive, MayEnter, worldVars
<1>3. Approves(run.tags) => Approver(node)
  BY <1>1 DEF Approver
<1>4. QED BY <1>1, <1>2, <1>3, VerdictRecorded

\* No edge leads on from an approval.
LEMMA VerdictRoutes ==
  ASSUME VerdictIsFinal, Typed, VerdictInv, pc = "route",
         NEW i \in DOMAIN Edges, Passes(Edges[i])
  PROVE  ~Approves(tags) /\ ~Approves(LastRun.tags)
<1>1. Len(runs) \in DOMAIN runs /\ runs # <<>> /\ graph \in Graphs /\ node \in Node
  BY DEF Typed, TypeOK, Aligned
<1>2. SUFFICES ASSUME Approves(LastRun.tags) PROVE FALSE
  BY DEF VerdictInv
<1>3. Approver(node)
  BY <1>1, <1>2 DEF VerdictInv, ApprovedByRole, LastRun
<1>4. PICK c \in Edges[i].require : "review_approved" \in DOMAIN c /\ c["review_approved"] # "true"
  BY <1>1, <1>3 DEF VerdictIsFinal, Edges
<1> DEFINE seen == IF IsLoop(Edges[i]) THEN WithFreshRouting(tags, LastRun.tags) ELSE tags
<1>5. TagsMatch(seen, c)
  BY <1>4 DEF Passes
<1>6. Approves(seen)
  <2>1. CASE IsLoop(Edges[i])
    BY <1>2, <2>1 DEF WithFreshRouting, Overlay, Approves, TagsMatch
  <2>2. CASE ~IsLoop(Edges[i])
    BY <1>2, <2>2 DEF VerdictInv
  <2>3. QED BY <2>1, <2>2
<1>7. QED BY <1>4, <1>5, <1>6 DEF Approves, TagsMatch

LEMMA VerdictLoop ==
  ASSUME VerdictIsFinal, Typed, VerdictInv, FollowLoop, UNCHANGED worldVars
  PROVE  VerdictInv'
<1>1. PICK i \in DOMAIN Edges : Passes(Edges[i]) /\ tags' = Rewound(Edges[i].to)
  BY DEF FollowLoop, Selected, Open
<1>2. ~Approves(tags) /\ ~Approves(LastRun.tags)
  BY <1>1, VerdictRoutes DEF FollowLoop, MayRoute
<1>3. ~Approves(tags')
  <2> DEFINE at == RunsOf(Edges[i].to)
  <2>1. CASE at = {}
    BY <1>1, <1>2, <2>1 DEF Rewound
  <2>2. CASE at # {}
    <3>1. Len(runs) \in Nat /\ at \in SUBSET (1 .. Len(runs)) /\ DOMAIN snapshots = 1 .. Len(runs)
      BY DEF RunsOf, Typed, TypeOK, Aligned
    <3>2. ~Approves(snapshots[LastOf(at)])
      BY <2>2, <3>1, LastOfIsIn DEF VerdictInv
    <3>3. ~Approves(PickFacts(tags)) /\ ~Approves(PickRouting(LastRun.tags))
      BY <1>2, ApprovesPick DEF PickFacts, PickRouting
    <3>4. tags' = Overlay(Overlay(PickFacts(tags), snapshots[LastOf(at)]), PickRouting(LastRun.tags))
      BY <1>1, <2>2 DEF Rewound
    <3>5. QED BY <3>2, <3>3, <3>4, ApprovesOverlay
  <2>3. QED BY <2>1, <2>2
<1>4. pc' = "enter" /\ UNCHANGED <<runs, snapshots, journal, saved>>
  BY DEF FollowLoop, worldVars
<1>5. QED BY <1>3, <1>4 DEF VerdictInv

LEMMA VerdictForward ==
  ASSUME VerdictIsFinal, Typed, VerdictInv, FollowForward, UNCHANGED worldVars
  PROVE  VerdictInv'
<1>1. PICK i \in DOMAIN Edges : Passes(Edges[i])
  BY DEF FollowForward, Selected, Open
<1>2. ~Approves(tags)
  BY <1>1, VerdictRoutes DEF FollowForward, MayRoute
<1>3. pc' = "enter" /\ UNCHANGED <<runs, tags, snapshots, journal, saved>>
  BY DEF FollowForward, worldVars
<1>4. QED BY <1>2, <1>3 DEF VerdictInv

LEMMA VerdictStep ==
  ASSUME VerdictIsFinal, Typed, VerdictInv, [Next]_vars
  PROVE  VerdictInv'
<1>1. CASE Ends /\ UNCHANGED worldVars
  <2>1. UNCHANGED <<runs, tags, node, snapshots, journal, saved>> /\ pc' = "ended"
    BY <1>1 DEF Ends, End, worldVars
  <2>2. Approves(tags) => runs # <<>> /\ Approves(LastRun.tags)
    BY DEF VerdictInv
  <2>3. QED BY <2>1, <2>2 DEF VerdictInv, LastRun
<1>2. CASE Fresh \/ Resume
  <2>1. PICK j, gs, feedback, steps :
          /\ Begin(j, gs, feedback, steps)
          /\ j = <<>> \/ \E s \in saved : j = s.runs
    BY <1>2 DEF Fresh, Resume
  <2>2. /\ runs' = <<>> /\ snapshots' = <<>> /\ tags' = NoTags /\ journal' = j
        /\ saved' = saved /\ pc' = "enter"
    BY <2>1 DEF Begin, Blank
  <2>3. ApprovedByRole(<<>>) /\ ApprovedByRole(j)
    BY <2>1 DEF ApprovedByRole, VerdictInv
  <2>4. QED BY <2>2, <2>3, NoTagsDoNotApprove DEF VerdictInv
<1>3. CASE Quits
  <2>1. /\ runs' = <<>> /\ snapshots' = <<>> /\ tags' = NoTags /\ journal' = <<>> /\ pc' = "off"
    BY <1>3 DEF Quits, Quit, Blank
  <2>2. ApprovedByRole(<<>>)
    BY DEF ApprovedByRole
  <2>3. \A s \in saved' : ApprovedByRole(s.runs)
    BY <1>3 DEF Quits, Saves, StateToSave, VerdictInv
  <2>4. QED BY <2>1, <2>2, <2>3, NoTagsDoNotApprove DEF VerdictInv
<1>4. CASE Outside \/ UNCHANGED vars
  <2>1. UNCHANGED <<pc, node, runs, tags, snapshots, journal, saved>>
    BY <1>4 DEF Outside, vars, walkVars, worldVars
  <2>2. QED BY <2>1 DEF VerdictInv, LastRun
<1>5. QED BY <1>1, <1>2, <1>3, <1>4, StepKinds, VerdictReplay, VerdictRunLive, VerdictLoop,
             VerdictForward

GreenStep ==
  record' # record =>
    /\ record'.outcome = "approved" =>
         /\ TagsMatch(LastRun.tags, [review_approved |-> "true"])
         /\ \A i, j \in DOMAIN runs :
              {"flag_key"} \subseteq DOMAIN runs[i].tags \cap DOMAIN runs[j].tags
                => runs[i].tags["flag_key"] = runs[j].tags["flag_key"]
    /\ record'.outcome = "noop" =>
         \A i \in DOMAIN runs : "flag_key" \notin DOMAIN runs[i].tags

\* No flag is orphaned: every run that names one names the one that is reported.
LEMMA OneFlag ==
  ASSUME OrphanedFlagKeys = {}, NEW i \in DOMAIN runs, "flag_key" \in DOMAIN runs[i].tags
  PROVE  "flag_key" \in DOMAIN inventory /\ runs[i].tags["flag_key"] = inventory["flag_key"]
<1>1. runs[i].tags["flag_key"] \in {inventory[k] : k \in {"flag_key"} \cap DOMAIN inventory}
  BY DEF OrphanedFlagKeys
<1>2. QED BY <1>1

LEMMA GreenWritten ==
  ASSUME VerdictInv, Next
  PROVE  GreenStep
<1>1. SUFFICES ASSUME record' # record, record'.outcome \in {"approved", "noop"}
               PROVE  GreenStep
  BY DEF GreenStep
<1>2. record'.outcome = Outcome
  <2>1. WriteRecord
    BY <1>1 DEF Next, Fresh, Resume, Begin, Walk, worldVars, Conclude, ConcludeBadly, Killed,
                EditFiles, MoveRefs, EditGraph
  <2>2. QED BY <1>1, <2>1 DEF WriteRecord
<1>3. Outcome = Decision
  BY <1>1, <1>2 DEF Outcome
<1>4. ~Abandoned
  BY <1>1, <1>2, <1>3 DEF Decision
<1>5. OrphanedFlagKeys = {}
  BY <1>4 DEF Abandoned
<1>6. CASE record'.outcome = "approved"
  <2>1. Approves(tags)
    BY <1>2, <1>3, <1>4, <1>6 DEF Decision, ReviewApproved, Approves
  <2>2. Approves(LastRun.tags)
    BY <2>1 DEF VerdictInv
  <2>3. QED BY <1>5, <1>6, <2>2, OneFlag DEF GreenStep, Approves
<1>7. CASE record'.outcome = "noop"
  <2>1. SkipFlagging
    BY <1>2, <1>3, <1>4, <1>7 DEF Decision
  <2>2. "flag_key" \notin DOMAIN inventory
    BY <1>4, <2>1 DEF Abandoned, FlagWasCreated
  <2>3. QED BY <1>5, <1>7, <2>2, OneFlag DEF GreenStep
<1>8. QED BY <1>1, <1>6, <1>7

\* GreenIsHonest (interpretWalk, decideApproval, deriveOutcome): where an approval is
\* final, a recorded "approved" is the last word of the run that ended the walk and
\* every flag a run created is the one reported; a recorded "noop" follows no flag.
THEOREM HonestGreen ==
  ASSUME VerdictIsFinal
  PROVE  Spec => GreenIsHonest
<1>1. Init => Typed /\ VerdictInv
  <2>1. ASSUME Init
        PROVE  VerdictInv
    BY <2>1, NoTagsDoNotApprove DEF Init, VerdictInv, ApprovedByRole
  <2>2. QED BY <2>1, TypedInit
<1>2. Typed /\ VerdictInv /\ [Next]_vars => (Typed /\ VerdictInv)'
  BY TypedStep, VerdictStep
<1>3. VerdictInv /\ [Next]_vars => [GreenStep]_vars
  BY GreenWritten
<1>4. QED BY <1>1, <1>2, <1>3, PTL DEF Spec, GreenIsHonest, GreenStep

-----------------------------------------------------------------------------
(* Rework: what a rewind leaves in force *)

\* Run m of q dropped run j, where d is the node a run still to come is of.
NodeAt(q, d, m) == IF m \in DOMAIN q THEN q[m].node ELSE d
Drops(q, d, m, j) ==
  /\ j < m - 1
  /\ \E k \in 1 .. j : /\ q[k].node = NodeAt(q, d, m)
                       /\ \A i \in k + 1 .. m - 1 : q[i].node # NodeAt(q, d, m)

\* The runs before p that said t, and that no loop edge up to p dropped.
Heeded(q, d, R, p, t) ==
  {j \in 1 .. p - 1 : t \in DOMAIN q[j].tags /\ \A m \in R : m <= p => ~Drops(q, d, m, j)}

\* Of t, f says what the last run in the set said.
SaysOf(f, q, t, said) ==
  IF said = {} THEN t \notin DOMAIN f
  ELSE t \in DOMAIN f /\ f[t] = q[LastOf(said)].tags[t]

SaysAt(f, q, d, R, p) == \A t \in RoutingTags : SaysOf(f, q, t, Heeded(q, d, R, p, t))

\* Every step of q fits the ranks; R are the runs that a loop edge led to.
Follows(g, rank, q, R) ==
  \A m \in 2 .. Len(q) : Fits(g, rank, q[m - 1].node, q[m].node, m \in R)

\* Run k of q is the last of t.
Latest(q, t, k) == q[k].node = t /\ \A i \in k + 1 .. Len(q) : q[i].node # t

\* The runs follow the ranks; before each run, and now, the routing tags in
\* force are what the heeded runs said.
LineInv(rank) ==
  /\ reentries \subseteq 2 .. Len(runs) + 1
  /\ pc = "route" => LastRun.node = node /\ Len(runs) + 1 \notin reentries
  /\ Follows(graph, rank, runs, reentries)
  /\ pc = "enter" /\ runs # <<>> => Fits(graph, rank, LastRun.node, node, Len(runs) + 1 \in reentries)
  /\ \A p \in 1 .. Len(runs) : SaysAt(snapshots[p], runs, node, reentries, p)
  /\ pc \in {"enter", "route"} => SaysAt(tags, runs, node, reentries, Len(runs) + 1)

\* From a to b, no step of q leads from before t to past it.
NoJump(rank, q, t, a, b) ==
  \A m \in a + 1 .. b : rank[q[m - 1].node] < rank[t] => rank[q[m].node] <= rank[t]

\* A walk that starts before a node loops lead to and gets to it or past it has run it.
LEMMA Crossing ==
  ASSUME NEW rank, InLine(rank), NEW q \in Seq(Run), NEW t \in Node,
         NEW a \in Nat, NEW b \in Nat, 1 <= a, a < b, b <= Len(q),
         rank[q[a].node] < rank[t], rank[t] <= rank[q[b].node], NoJump(rank, q, t, a, b)
  PROVE  \E i \in a + 1 .. b : q[i].node = t
<1>1. \A m \in 1 .. Len(q) : q[m].node \in Node
  <2>1. \A m \in 1 .. Len(q) : q[m] \in Run
    OBVIOUS
  <2>2. QED BY <2>1 DEF Run
<1>2. rank \in [Node -> Nat] /\ \A c, d \in Node : rank[c] = rank[d] => c = d
  BY DEF InLine
<1>3. Len(q) \in Nat
  OBVIOUS
<1> DEFINE Past == {m \in a + 1 .. b : rank[t] <= rank[q[m].node]}
<1>4. Past \in SUBSET Nat /\ b \in Past
  BY <1>3
<1> HIDE DEF Past
<1>5. PICK x \in Past : \A y \in Past : x <= y
  BY <1>4, Least
<1>6. x \in a + 1 .. b /\ rank[t] <= rank[q[x].node]
  BY <1>5 DEF Past
<1>7. rank[q[x - 1].node] < rank[t]
  <2>1. CASE x = a + 1
    BY <2>1
  <2>2. CASE x # a + 1
    <3>1. x - 1 \in a + 1 .. b /\ x - 1 < x
      BY <1>3, <1>6, <2>2
    <3>2. ~(rank[t] <= rank[q[x - 1].node])
      BY <1>5, <1>6, <3>1 DEF Past
    <3>3. rank[t] \in Nat /\ rank[q[x - 1].node] \in Nat
      BY <1>1, <1>2, <1>3, <3>1
    <3>4. QED BY <3>2, <3>3
  <2>3. QED BY <2>1, <2>2
<1>8. rank[q[x].node] <= rank[t]
  BY <1>6, <1>7 DEF NoJump
<1>9. q[x].node \in Node /\ rank[q[x].node] \in Nat /\ rank[t] \in Nat
  BY <1>1, <1>2, <1>3, <1>6
<1>10. rank[q[x].node] = rank[t]
  BY <1>6, <1>8, <1>9
<1>11. QED BY <1>2, <1>6, <1>9, <1>10

\* Where a loop edge leads back to t, whose last run was k, no loop edge taken since
\* has dropped a run before k: it led to a node after t, which has run since, too.
LEMMA NothingBefore ==
  ASSUME NEW rank, InLine(rank), NEW g, NEW q \in Seq(Run), NEW R \in SUBSET Nat,
         Follows(g, rank, q, R),
         NEW t \in Node, Reentered(g, t), NEW k \in 1 .. Len(q), Latest(q, t, k),
         rank[t] <= rank[q[Len(q)].node],
         NEW m \in R, k < m, m <= Len(q), NEW j \in 1 .. k - 1, NEW d
  PROVE  ~Drops(q, d, m, j)
<1>1. \A x \in 1 .. Len(q) : q[x].node \in Node
  <2>1. \A x \in 1 .. Len(q) : q[x] \in Run
    OBVIOUS
  <2>2. QED BY <2>1 DEF Run
<1>2. rank \in [Node -> Nat] /\ \A c, e \in Node : rank[c] = rank[e] => c = e
  BY DEF InLine
<1>3. Len(q) \in Nat /\ DOMAIN q = 1 .. Len(q)
  OBVIOUS
<1>4. \A x \in 2 .. Len(q) : Fits(g, rank, q[x - 1].node, q[x].node, x \in R)
  BY DEF Follows
<1>5. q[k].node = t /\ \A i \in k + 1 .. Len(q) : q[i].node # t
  BY DEF Latest
<1>6. SUFFICES ASSUME Drops(q, d, m, j) PROVE FALSE
  OBVIOUS
<1>7. m \in 1 .. Len(q) /\ m \in 2 .. Len(q) /\ k \in Nat /\ j \in Nat /\ m \in Nat
  BY <1>3
<1> DEFINE u == q[m].node
<1>8. PICK h \in 1 .. j : q[h].node = u /\ \A i \in h + 1 .. m - 1 : q[i].node # u
  BY <1>3, <1>6, <1>7 DEF Drops, NodeAt
<1>9. k \in h + 1 .. m - 1
  BY <1>7, <1>8
<1>10. u \in Node /\ t # u /\ rank[t] \in Nat /\ rank[u] \in Nat /\ rank[t] # rank[u]
  BY <1>1, <1>2, <1>7, <1>8, <1>9, <1>5
<1>11. rank[u] <= rank[q[m - 1].node] /\ Reentered(g, u)
  BY <1>7, <1>4 DEF Fits
<1>12. \A n \in Node, x \in 2 .. Len(q) :
          Reentered(g, n) /\ rank[q[x - 1].node] < rank[n] => rank[q[x].node] <= rank[n]
  <2>1. ASSUME NEW n \in Node, NEW x \in 2 .. Len(q), Reentered(g, n), rank[q[x - 1].node] < rank[n]
        PROVE  rank[q[x].node] <= rank[n]
    <3>1. CASE x \in R
      <4>1. rank[q[x].node] <= rank[q[x - 1].node]
        BY <1>4, <3>1 DEF Fits
      <4>2. x \in 1 .. Len(q) /\ x - 1 \in 1 .. Len(q)
        BY <1>3
      <4>3. rank[q[x].node] \in Nat /\ rank[q[x - 1].node] \in Nat /\ rank[n] \in Nat
        BY <1>1, <1>2, <4>2
      <4>4. QED BY <2>1, <4>1, <4>3
    <3>2. CASE x \notin R
      BY <1>4, <2>1, <3>2 DEF Fits
    <3>3. QED BY <3>1, <3>2
  <2>2. QED BY <2>1
<1>13. CASE rank[u] < rank[t]
  <2>1. m < Len(q)
    BY <1>3, <1>7, <1>10, <1>13
  <2>2. Len(q) \in m + 1 .. Len(q) /\ \A x \in m + 1 .. Len(q) : x \in 2 .. Len(q)
    BY <1>3, <1>7, <2>1
  <2>3. NoJump(rank, q, t, m, Len(q))
    BY <1>12, <2>2 DEF NoJump
  <2>4. \E i \in m + 1 .. Len(q) : q[i].node = t
    <3>1. m \in Nat /\ Len(q) \in Nat /\ 1 <= m /\ Len(q) <= Len(q)
      BY <1>3, <1>7
    <3>2. QED BY <1>13, <2>1, <2>3, <3>1, Crossing
  <2>5. QED BY <1>3, <1>7, <1>5, <2>4
<1>14. CASE rank[t] < rank[u]
  <2>1. PICK p : p = m - 1
    OBVIOUS
  <2>2. p \in Nat /\ k \in Nat /\ 1 <= k /\ k < p /\ p <= Len(q)
    <3>1. k # m - 1
      BY <1>10, <1>11, <1>14, <1>5
    <3>2. QED BY <1>3, <1>7, <1>9, <2>1, <3>1
  <2>3. p \in k + 1 .. Len(q) /\ \A x \in k + 1 .. p : x \in 2 .. Len(q)
    BY <1>3, <2>2
  <2>4. NoJump(rank, q, u, k, p)
    BY <1>10, <1>11, <1>12, <2>3 DEF NoJump
  <2> HIDE DEF u
  <2>5. u \in Node /\ rank[q[k].node] < rank[u] /\ rank[u] <= rank[q[p].node]
    BY <1>10, <1>11, <1>14, <1>5, <2>1
  <2>6. \E i \in k + 1 .. p : q[i].node = u
    BY <2>2, <2>4, <2>5, Crossing
  <2>7. QED BY <1>7, <1>8, <1>9, <2>1, <2>2, <2>6
<1>15. QED BY <1>10, <1>13, <1>14

\* Two walks agree before p, and on the node each loop edge up to p led to.
Alike(q, d, r, e, R, p) ==
  /\ \A j \in 1 .. p - 1 : q[j] = r[j]
  /\ \A m \in R : m <= p => NodeAt(q, d, m) = NodeAt(r, e, m)

LEMMA HeededAlike ==
  ASSUME NEW q, NEW d, NEW r, NEW e, NEW R \in SUBSET Nat, NEW p \in Nat,
         Alike(q, d, r, e, R, p), NEW t
  PROVE  Heeded(q, d, R, p, t) = Heeded(r, e, R, p, t)
<1>1. ASSUME NEW m \in R, m <= p, NEW j \in 1 .. p - 1
      PROVE  Drops(q, d, m, j) <=> Drops(r, e, m, j)
  <2>1. m \in Nat /\ NodeAt(q, d, m) = NodeAt(r, e, m)
    BY <1>1 DEF Alike
  <2>2. \A i \in 1 .. m - 1 : q[i] = r[i]
    BY <1>1, <2>1 DEF Alike
  <2>3. QED BY <1>1, <2>1, <2>2 DEF Drops
<1>2. \A j \in 1 .. p - 1 : q[j] = r[j]
  BY DEF Alike
<1>3. QED BY <1>1, <1>2 DEF Heeded

LEMMA SaysAlike ==
  ASSUME NEW f, NEW q, NEW d, NEW r, NEW e, NEW R \in SUBSET Nat, NEW p \in Nat, 1 <= p,
         Alike(q, d, r, e, R, p), SaysAt(f, q, d, R, p)
  PROVE  SaysAt(f, r, e, R, p)
<1>1. ASSUME NEW t \in RoutingTags
      PROVE  SaysOf(f, r, t, Heeded(r, e, R, p, t))
  <2>1. PICK said : said = Heeded(q, d, R, p, t)
    OBVIOUS
  <2>2. said = Heeded(r, e, R, p, t)
    BY <2>1, HeededAlike
  <2>3. SaysOf(f, q, t, said)
    BY <2>1 DEF SaysAt
  <2>4. said \in SUBSET (1 .. p - 1) /\ p - 1 \in Nat
    BY <2>1 DEF Heeded
  <2>5. said # {} => LastOf(said) \in 1 .. p - 1
    BY <2>4, LastOfIsIn
  <2>6. said # {} => q[LastOf(said)] = r[LastOf(said)]
    BY <2>5 DEF Alike
  <2>7. SaysOf(f, r, t, said)
    BY <2>3, <2>6 DEF SaysOf
  <2>8. QED BY <2>2, <2>7
<1>2. QED BY <1>1 DEF SaysAt

\* LastOf is the greatest, where there is one.
LEMMA LastOfIs ==
  ASSUME NEW S \in SUBSET Nat, NEW x \in S, \A y \in S : y <= x
  PROVE  LastOf(S) = x
<1>1. \E j \in S : \A i \in S : i <= j
  OBVIOUS
<1>2. LastOf(S) \in S /\ \A i \in S : i <= LastOf(S)
  BY <1>1 DEF LastOf
<1>3. LastOf(S) \in Nat /\ x \in Nat /\ x <= LastOf(S) /\ LastOf(S) <= x
  BY <1>2
<1>4. QED BY <1>3

\* A run is recorded: its routing tags are in force now, and before it those that were.
LEMMA LineRecorded ==
  ASSUME NEW rank, InLine(rank), Typed, LineInv(rank), NEW run, Complete(run), pc = "enter",
         run.node = node
  PROVE  LineInv(rank)'
<1> DEFINE L == Len(runs)
<1>1. /\ L \in Nat /\ DOMAIN runs = 1 .. L /\ DOMAIN runs' = 1 .. L + 1 /\ Len(runs') = L + 1
      /\ \A i \in 1 .. L : runs'[i] = runs[i]
      /\ runs'[L + 1] = run
  BY Recorded
<1>2. /\ pc' = "route" /\ node' = node /\ reentries' = reentries /\ graph' = graph
      /\ tags' = Overlay(tags, run.tags)
  BY DEF Complete
<1>3. reentries \in SUBSET Nat /\ \A m \in reentries : m <= L + 1
  BY <1>1 DEF LineInv
<1>4. LastRun' = run /\ L + 2 \notin reentries
  BY <1>1, <1>3 DEF LastRun
<1>5. \A m \in 2 .. L + 1 : Fits(graph, rank, runs'[m - 1].node, runs'[m].node, m \in reentries)
  <2>1. ASSUME NEW m \in 2 .. L + 1
        PROVE  Fits(graph, rank, runs'[m - 1].node, runs'[m].node, m \in reentries)
    <3>1. CASE m = L + 1
      <4>1. runs # <<>> /\ LastRun = runs[m - 1] /\ runs'[m - 1] = runs[m - 1] /\ runs'[m].node = node
        BY <1>1, <3>1 DEF LastRun
      <4>2. QED BY <1>1, <3>1, <4>1 DEF LineInv, Follows
    <3>2. CASE m # L + 1
      <4>1. m \in 2 .. L /\ runs'[m - 1] = runs[m - 1] /\ runs'[m] = runs[m]
        BY <1>1, <3>2
      <4>2. QED BY <4>1 DEF LineInv, Follows
    <3>3. QED BY <3>1, <3>2
  <2>2. QED BY <2>1
<1>6. ASSUME NEW p \in 1 .. L + 1
      PROVE  Alike(runs, node, runs', node, reentries, p)
  <2>1. \A m \in reentries : NodeAt(runs, node, m) = NodeAt(runs', node, m)
    <3>1. ASSUME NEW m \in reentries
          PROVE  NodeAt(runs, node, m) = NodeAt(runs', node, m)
      <4>1. m \in 2 .. L + 1
        BY DEF LineInv
      <4>2. CASE m = L + 1
        BY <1>1, <4>2 DEF NodeAt
      <4>3. CASE m # L + 1
        BY <1>1, <4>1, <4>3 DEF NodeAt
      <4>4. QED BY <4>2, <4>3
    <3>2. QED BY <3>1
  <2>2. QED BY <1>1, <2>1 DEF Alike
<1>7. \A p \in 1 .. L + 1 : SaysAt(snapshots'[p], runs', node, reentries, p)
  <2>1. ASSUME NEW p \in 1 .. L + 1
        PROVE  SaysAt(snapshots'[p], runs', node, reentries, p)
    <3>1. SaysAt(snapshots'[p], runs, node, reentries, p)
      <4>1. CASE p = L + 1
        <5>1. snapshots'[p] = PickRouting(tags)
          BY <4>1 DEF Complete, Typed, TypeOK, Aligned
        <5>2. SaysAt(tags, runs, node, reentries, p)
          BY <4>1 DEF LineInv
        <5>3. QED BY <5>1, <5>2 DEF SaysAt, SaysOf, PickRouting, Pick
      <4>2. CASE p # L + 1
        <5>1. p \in 1 .. L /\ snapshots'[p] = snapshots[p]
          BY <1>1, <4>2 DEF Complete, Typed, TypeOK, Aligned
        <5>2. QED BY <5>1 DEF LineInv
      <4>3. QED BY <4>1, <4>2
    <3>2. p \in Nat /\ 1 <= p /\ Alike(runs, node, runs', node, reentries, p)
      BY <1>1, <1>6
    <3>3. QED BY <1>3, <3>1, <3>2, SaysAlike
  <2>2. QED BY <2>1
<1>8. SaysAt(tags', runs', node, reentries, L + 2)
  <2>1. SaysAt(tags, runs', node, reentries, L + 1)
    <3>1. SaysAt(tags, runs, node, reentries, L + 1)
      BY DEF LineInv
    <3>2. L + 1 \in Nat /\ 1 <= L + 1 /\ Alike(runs, node, runs', node, reentries, L + 1)
      BY <1>1, <1>6
    <3>3. QED BY <1>3, <3>1, <3>2, SaysAlike
  <2>2. ASSUME NEW t \in RoutingTags
        PROVE  SaysOf(tags', runs', t, Heeded(runs', node, reentries, L + 2, t))
    <3>1. PICK old : old = Heeded(runs', node, reentries, L + 1, t)
      OBVIOUS
    <3>2. PICK new : new = Heeded(runs', node, reentries, L + 2, t)
      OBVIOUS
    <3>3. new = old \cup (IF t \in DOMAIN run.tags THEN {L + 1} ELSE {})
      <4>1. \A m \in reentries : m <= L + 2 /\ m <= L + 1 /\ ~Drops(runs', node, m, L + 1)
        <5>1. ASSUME NEW m \in reentries
              PROVE  m \in Nat /\ m <= L + 1 /\ m <= L + 2 /\ ~(L + 1 < m - 1)
          <6>1. m \in Nat /\ m <= L + 1
            BY <1>3
          <6>2. QED BY <1>1, <6>1
        <5>2. QED BY <5>1 DEF Drops
      <4>2. \A j \in 1 .. L + 1 : j \in 1 .. L \/ j = L + 1
        BY <1>1
      <4>3. old = {j \in 1 .. L : t \in DOMAIN runs'[j].tags /\ \A m \in reentries : ~Drops(runs', node, m, j)}
        BY <1>1, <3>1, <4>1 DEF Heeded
      <4>4. new = {j \in 1 .. L + 1 : t \in DOMAIN runs'[j].tags /\ \A m \in reentries : ~Drops(runs', node, m, j)}
        BY <1>1, <3>2, <4>1 DEF Heeded
      <4>5. QED BY <1>1, <4>1, <4>2, <4>3, <4>4
    <3>4. SaysOf(tags, runs', t, old) /\ old \in SUBSET (1 .. L)
      BY <1>1, <2>1, <3>1 DEF SaysAt, Heeded
    <3>5. CASE t \in DOMAIN run.tags
      <4>1. LastOf(new) = L + 1 /\ new # {}
        <5>1. new \in SUBSET Nat /\ L + 1 \in new /\ \A y \in new : y <= L + 1
          BY <1>1, <3>3, <3>4, <3>5
        <5>2. QED BY <5>1, LastOfIs
      <4>2. QED BY <1>1, <1>2, <3>2, <3>5, <4>1 DEF SaysOf, Overlay
    <3>6. CASE t \notin DOMAIN run.tags
      <4>1. new = old
        BY <3>3, <3>6
      <4>2. QED BY <1>2, <3>2, <3>4, <3>6, <4>1 DEF SaysOf, Overlay
    <3>7. QED BY <3>5, <3>6
  <2>3. QED BY <2>2 DEF SaysAt
<1>9. run.node = node' /\ L + 1 + 1 = L + 2
  BY <1>1, <1>2
<1>10. reentries' \subseteq 2 .. Len(runs') + 1
  BY <1>1, <1>2 DEF LineInv
<1>11. QED BY <1>1, <1>2, <1>4, <1>5, <1>7, <1>8, <1>9, <1>10 DEF LineInv, Follows

\* A loop edge drops what ran between the target's last run and the source's, and
\* puts back the routing tags of before it, under what the source said.
LEMMA LineLoop ==
  ASSUME NEW rank, InLine(rank), Typed, LineInv(rank), FollowLoop
  PROVE  LineInv(rank)'
<1> DEFINE L == Len(runs)
           R == reentries \cup {L + 1}
<1>1. PICK e \in DOMAIN Edges :
        IsLoop(Edges[e]) /\ node' = Edges[e].to /\ tags' = Rewound(Edges[e].to)
  BY DEF FollowLoop
<1>2. PICK t \in Node : t = Edges[e].to
  BY EdgesType
<1>3. /\ pc = "route" /\ pc' = "enter" /\ node' = t /\ reentries' = R
      /\ UNCHANGED <<graph, runs, snapshots>>
  BY <1>1, <1>2 DEF FollowLoop, MayRoute
<1>4. /\ L \in Nat /\ DOMAIN runs = 1 .. L /\ L >= 1 /\ runs # <<>> /\ LastRun = runs[L] /\ runs \in Seq(Run)
      /\ LastRun.node = node /\ graph \in Graphs /\ node \in Node /\ DOMAIN snapshots = 1 .. L
  BY <1>3 DEF Typed, TypeOK, Aligned, LineInv, LastRun
<1>5. reentries \in SUBSET Nat /\ \A m \in reentries : 2 <= m /\ m <= L
  <2>1. ASSUME NEW m \in reentries
        PROVE  m \in Nat /\ 2 <= m /\ m <= L
    <3>1. m \in 2 .. L + 1 /\ m # L + 1
      BY <1>3 DEF LineInv
    <3>2. QED BY <1>4, <3>1
  <2>2. QED BY <2>1
<1>6. Fits(graph, rank, node, t, TRUE) /\ Reentered(graph, t)
  <2>1. Fits(graph, rank, node, t, IsLoop(Edges[e]))
    BY <1>1, <1>2, <1>4 DEF InLine, Edges
  <2>2. QED BY <1>1, <2>1 DEF Fits
<1>7. Follows(graph, rank, runs, R)
  <2>1. \A m \in 2 .. L : m \in R <=> m \in reentries
    BY <1>4
  <2>2. \A m \in 2 .. L : Fits(graph, rank, runs[m - 1].node, runs[m].node, m \in reentries)
    BY DEF LineInv, Follows
  <2>3. QED BY <2>1, <2>2 DEF Follows
<1>8. Follows(graph, rank, runs, reentries)
  BY DEF LineInv
<1>9. \A p \in 1 .. L : SaysAt(snapshots[p], runs, t, R, p)
  <2>1. ASSUME NEW p \in 1 .. L
        PROVE  SaysAt(snapshots[p], runs, t, R, p)
    <3>1. p \in Nat /\ 1 <= p /\ p <= L
      BY <1>4
    <3>2. Alike(runs, node, runs, t, reentries, p)
      BY <1>4, <1>5, <3>1 DEF Alike, NodeAt
    <3>3. SaysAt(snapshots[p], runs, node, reentries, p)
      BY DEF LineInv
    <3>4. SaysAt(snapshots[p], runs, t, reentries, p)
      BY <1>5, <3>1, <3>2, <3>3, SaysAlike
    <3>5. \A k \in RoutingTags : Heeded(runs, t, R, p, k) = Heeded(runs, t, reentries, p, k)
      BY <1>4, <3>1 DEF Heeded
    <3>6. QED BY <3>4, <3>5 DEF SaysAt
  <2>2. QED BY <2>1
<1>10. SaysAt(tags, runs, t, reentries, L + 1)
  <2>1. Alike(runs, node, runs, t, reentries, L + 1)
    BY <1>4, <1>5 DEF Alike, NodeAt
  <2>2. SaysAt(tags, runs, node, reentries, L + 1)
    BY <1>3 DEF LineInv
  <2>3. L + 1 \in Nat /\ 1 <= L + 1
    BY <1>4
  <2>4. QED BY <1>5, <2>1, <2>2, <2>3, SaysAlike
<1>11. NodeAt(runs, t, L + 1) = t
  BY <1>4 DEF NodeAt
<1>12. RunsOf(t) \in SUBSET (1 .. L) /\ \A i \in 1 .. L : i \in RunsOf(t) <=> runs[i].node = t
  BY <1>4 DEF RunsOf
<1>13. SaysAt(tags', runs, t, R, L + 1)
  <2>1. CASE RunsOf(t) = {}
    <3>1. \A j \in 1 .. L : ~Drops(runs, t, L + 1, j)
      BY <1>4, <1>11, <1>12, <2>1 DEF Drops
    <3>2. \A k \in RoutingTags : Heeded(runs, t, R, L + 1, k) = Heeded(runs, t, reentries, L + 1, k)
      BY <1>4, <1>5, <3>1 DEF Heeded
    <3>3. tags' = tags
      BY <1>1, <1>2, <2>1 DEF Rewound
    <3>4. QED BY <1>10, <3>2, <3>3 DEF SaysAt
  <2>2. CASE RunsOf(t) # {}
    <3>1. PICK k : k = LastOf(RunsOf(t))
      OBVIOUS
    <3>2. k \in 1 .. L /\ runs[k].node = t /\ \A i \in RunsOf(t) : i <= k
      BY <1>4, <1>12, <2>2, <3>1, LastOfIsIn
    <3>3. \A i \in k + 1 .. L : runs[i].node # t
      BY <1>4, <1>12, <3>2
    <3>4. \A j \in 1 .. L : Drops(runs, t, L + 1, j) <=> k <= j /\ j < L
      <4>1. ASSUME NEW j \in 1 .. L, k <= j, j < L
            PROVE  Drops(runs, t, L + 1, j)
        <5>1. k \in 1 .. j /\ j < (L + 1) - 1 /\ \A i \in k + 1 .. (L + 1) - 1 : runs[i].node # t
          BY <1>4, <3>2, <3>3, <4>1
        <5>2. QED BY <1>11, <3>2, <5>1 DEF Drops
      <4>2. ASSUME NEW j \in 1 .. L, Drops(runs, t, L + 1, j)
            PROVE  k <= j /\ j < L
        <5>1. PICK h \in 1 .. j : runs[h].node = t /\ \A i \in h + 1 .. (L + 1) - 1 : runs[i].node # t
          BY <1>11, <4>2 DEF Drops
        <5>2. j < L
          BY <1>4, <4>2 DEF Drops
        <5>3. ~(k \in h + 1 .. (L + 1) - 1)
          BY <3>2, <5>1
        <5>4. QED BY <1>4, <3>2, <5>2, <5>3
      <4>3. QED BY <4>1, <4>2
    <3>5. ASSUME NEW m \in reentries, k < m, NEW j \in 1 .. k - 1
          PROVE  ~Drops(runs, t, m, j)
      <4>1. m <= Len(runs) /\ k \in 1 .. Len(runs) /\ rank[t] <= rank[runs[Len(runs)].node]
        BY <1>4, <1>5, <1>6, <3>2 DEF Fits
      <4>2. /\ runs \in Seq(Run) /\ reentries \in SUBSET Nat
            /\ Reentered(graph, t) /\ Latest(runs, t, k)
        BY <1>4, <1>5, <1>6, <3>2, <3>3 DEF Latest
      <4>3. QED BY <1>8, <3>5, <4>1, <4>2, NothingBefore
    <3>6. ASSUME NEW g \in RoutingTags
          PROVE  Heeded(runs, t, R, L + 1, g) =
                   Heeded(runs, t, reentries, k, g) \cup (IF g \in DOMAIN LastRun.tags THEN {L} ELSE {})
      <4>1. ASSUME NEW j \in 1 .. L
            PROVE  (\A m \in R : m <= L + 1 => ~Drops(runs, t, m, j)) <=>
                     j = L \/ (j < k /\ \A m \in reentries : m <= k => ~Drops(runs, t, m, j))
        <5> DEFINE Whole == j \in Nat /\ k \in Nat /\ L \in Nat /\ 1 <= j /\ j <= L /\ k <= L
        <5>0. Whole
          BY <1>4, <3>2
        <5>1. CASE j = L
          <6>1. \A m \in reentries : ~Drops(runs, t, m, j)
            BY <1>4, <1>5, <5>1 DEF Drops
          <6>2. ~Drops(runs, t, L + 1, j)
            BY <1>4, <3>4, <5>1
          <6>3. \A m \in R : ~Drops(runs, t, m, j)
            BY <6>1, <6>2
          <6>4. QED BY <5>1, <6>3
        <5>2. CASE j < k
          <6>1. \A m \in reentries : m \in Nat /\ m <= L + 1 /\ (m <= k \/ k < m)
            BY <1>4, <1>5, <3>2
          <6>2. j \in 1 .. k - 1 /\ j # L /\ ~Drops(runs, t, L + 1, j)
            <7>1. j \in 1 .. k - 1 /\ j # L /\ ~(k <= j)
              BY <5>0, <5>2
            <7>2. QED BY <3>4, <7>1
          <6>3. \A m \in reentries : k < m => ~Drops(runs, t, m, j)
            BY <3>5, <6>2
          <6>4. ASSUME \A m \in R : m <= L + 1 => ~Drops(runs, t, m, j)
                PROVE  \A m \in reentries : m <= k => ~Drops(runs, t, m, j)
            BY <6>1, <6>4
          <6>5. ASSUME \A m \in reentries : m <= k => ~Drops(runs, t, m, j)
                PROVE  \A m \in R : ~Drops(runs, t, m, j)
            BY <6>1, <6>2, <6>3, <6>5
          <6>6. QED BY <5>2, <6>2, <6>4, <6>5
        <5>3. CASE j # L /\ ~(j < k)
          <6>1. k <= j /\ j < L
            BY <5>0, <5>3
          <6>2. Drops(runs, t, L + 1, j)
            BY <3>4, <6>1
          <6>3. L + 1 \in R /\ L + 1 <= L + 1
            BY <1>4
          <6>4. ~(\A m \in R : m <= L + 1 => ~Drops(runs, t, m, j))
            BY <6>2, <6>3
          <6>5. QED BY <5>3, <6>4
        <5>4. QED BY <5>1, <5>2, <5>3
      <4>2. \A j : j \in 1 .. k - 1 <=> j \in 1 .. L /\ j < k
        BY <1>4, <3>2
      <4>3. L \in 1 .. L /\ (L + 1) - 1 = L
        BY <1>4
      <4>4. QED BY <1>4, <4>1, <4>2, <4>3 DEF Heeded
    <3>7. tags' = Overlay(Overlay(PickFacts(tags), snapshots[k]), PickRouting(LastRun.tags))
      BY <1>1, <1>2, <2>2, <3>1 DEF Rewound
    <3>8. SaysAt(snapshots[k], runs, t, reentries, k)
      <4>1. SaysAt(snapshots[k], runs, node, reentries, k)
        BY <3>2 DEF LineInv
      <4>2. k \in Nat /\ 1 <= k /\ Alike(runs, node, runs, t, reentries, k)
        BY <1>4, <1>5, <3>2 DEF Alike, NodeAt
      <4>3. QED BY <1>5, <4>1, <4>2, SaysAlike
    <3>9. ASSUME NEW g \in RoutingTags
          PROVE  SaysOf(tags', runs, g, Heeded(runs, t, R, L + 1, g))
      <4>1. PICK old : old = Heeded(runs, t, reentries, k, g)
        OBVIOUS
      <4>2. PICK new : new = Heeded(runs, t, R, L + 1, g)
        OBVIOUS
      <4>3. new = old \cup (IF g \in DOMAIN LastRun.tags THEN {L} ELSE {})
        BY <3>6, <4>1, <4>2
      <4>4. SaysOf(snapshots[k], runs, g, old) /\ old \in SUBSET (1 .. L)
        BY <1>4, <3>2, <3>8, <4>1 DEF SaysAt, Heeded
      <4>5. g \notin DOMAIN PickFacts(tags)
        BY DEF PickFacts, Pick
      <4>6. CASE g \in DOMAIN LastRun.tags
        <5>1. LastOf(new) = L /\ new # {}
          <6>1. new = old \cup {L}
            BY <4>3, <4>6
          <6>2. \A y \in old : y \in 1 .. L
            BY <4>4
          <6>3. \A y \in new : y \in Nat /\ y <= L
            <7>1. ASSUME NEW y \in new
                  PROVE  y \in 1 .. L
              <8>1. y \in old \/ y = L
                BY <6>1
              <8>2. L \in 1 .. L
                BY <1>4
              <8>3. QED BY <6>2, <8>1, <8>2
            <7>2. QED BY <1>4, <7>1
          <6>4. new \in SUBSET Nat /\ L \in new
            BY <6>1, <6>3
          <6>5. QED BY <6>3, <6>4, LastOfIs
        <5>2. g \in DOMAIN PickRouting(LastRun.tags) /\ PickRouting(LastRun.tags)[g] = LastRun.tags[g]
          BY <4>6 DEF PickRouting, Pick
        <5>3. g \in DOMAIN tags' /\ tags'[g] = runs[L].tags[g]
          BY <1>4, <3>7, <5>2 DEF Overlay
        <5>4. QED BY <4>2, <5>1, <5>3 DEF SaysOf
      <4>7. CASE g \notin DOMAIN LastRun.tags
        <5>1. new = old
          BY <4>3, <4>7
        <5>2. g \notin DOMAIN PickRouting(LastRun.tags)
          BY <4>7 DEF PickRouting, Pick
        <5>3. /\ g \in DOMAIN tags' <=> g \in DOMAIN snapshots[k]
              /\ g \in DOMAIN snapshots[k] => tags'[g] = snapshots[k][g]
          BY <3>7, <4>5, <5>2 DEF Overlay
        <5>4. QED BY <4>2, <4>4, <5>1, <5>3 DEF SaysOf
      <4>8. QED BY <4>6, <4>7
    <3>10. QED BY <3>9 DEF SaysAt
  <2>3. QED BY <2>1, <2>2
<1>14. R \subseteq 2 .. L + 1 /\ L + 1 \in R
  <2>1. \A m \in reentries : m \in 2 .. L + 1
    BY <1>4, <1>5
  <2>2. L + 1 \in 2 .. L + 1
    BY <1>4
  <2>3. QED BY <2>1, <2>2
<1> HIDE DEF R
<1>15. QED BY <1>3, <1>4, <1>6, <1>7, <1>9, <1>13, <1>14 DEF LineInv, LastRun

LEMMA LineReplay ==
  ASSUME NEW rank, InLine(rank), Typed, LineInv(rank), Replay
  PROVE  LineInv(rank)'
<1> DEFINE run == journal[Len(runs) + 1]
<1>1. Complete(run) /\ pc = "enter" /\ run.node = node
  BY DEF Replay, Replaying, MayEnter, JournalAgrees
<1> HIDE DEF run
<1>2. QED BY <1>1, LineRecorded

LEMMA LineRunLive ==
  ASSUME NEW rank, InLine(rank), Typed, LineInv(rank), RunLive
  PROVE  LineInv(rank)'
<1>1. PICK run : Complete(run) /\ run.node = node
  <2>1. PICK r \in Results[node] :
          Complete([node |-> node, iteration |-> Iteration,
                    status |-> r.status, tags |-> r.tags,
                    score |-> IF r.status = "failed" THEN {} ELSE r.score,
                    told |-> pending, ok |-> node \in approved, left |-> tree'])
    BY DEF RunLive
  <2>2. QED BY <2>1
<1>2. pc = "enter"
  BY DEF RunLive, MayEnter
<1>3. QED BY <1>1, <1>2, LineRecorded

\* An edge that leads on changes the node, and drops nothing.
LEMMA LineForward ==
  ASSUME NEW rank, InLine(rank), Typed, LineInv(rank), FollowForward
  PROVE  LineInv(rank)'
<1>1. PICK e \in DOMAIN Edges : ~IsLoop(Edges[e]) /\ node' = Edges[e].to
  BY DEF FollowForward
<1>2. /\ pc = "route" /\ pc' = "enter"
      /\ UNCHANGED <<graph, runs, snapshots, tags, reentries>>
  BY DEF FollowForward, MayRoute
<1>3. /\ Len(runs) \in Nat /\ DOMAIN runs = 1 .. Len(runs)
      /\ LastRun.node = node /\ graph \in Graphs /\ node \in Node
  BY <1>2 DEF Typed, TypeOK, LineInv
<1>4. Len(runs) + 1 \notin reentries
  BY <1>2 DEF LineInv
<1>5. reentries \in SUBSET Nat /\ \A m \in reentries : m \in DOMAIN runs
  <2>1. ASSUME NEW m \in reentries
        PROVE  m \in Nat /\ m \in DOMAIN runs
    <3>1. m \in 2 .. Len(runs) + 1 /\ m # Len(runs) + 1
      BY <1>4 DEF LineInv
    <3>2. QED BY <1>3, <3>1
  <2>2. QED BY <2>1
<1>6. PICK t : t = node'
  OBVIOUS
<1>7. Fits(graph, rank, node, t, FALSE)
  <2>1. Fits(graph, rank, node, t, IsLoop(Edges[e]))
    BY <1>1, <1>3, <1>6 DEF InLine, Edges
  <2>2. QED BY <1>1, <2>1 DEF Fits
<1>8. ASSUME NEW f, NEW p \in 1 .. Len(runs) + 1, SaysAt(f, runs, node, reentries, p)
      PROVE  SaysAt(f, runs, t, reentries, p)
  <2>1. p \in Nat /\ 1 <= p
    BY <1>3
  <2>2. Alike(runs, node, runs, t, reentries, p)
    BY <1>5 DEF Alike, NodeAt
  <2>3. QED BY <1>5, <1>8, <2>1, <2>2, SaysAlike
<1>9. \A p \in 1 .. Len(runs) : SaysAt(snapshots[p], runs, t, reentries, p)
  <2>1. ASSUME NEW p \in 1 .. Len(runs)
        PROVE  SaysAt(snapshots[p], runs, t, reentries, p)
    <3>1. p \in 1 .. Len(runs) + 1
      BY <1>3
    <3>2. SaysAt(snapshots[p], runs, node, reentries, p)
      BY DEF LineInv
    <3>3. QED BY <1>8, <3>1, <3>2
  <2>2. QED BY <2>1
<1>10. SaysAt(tags, runs, t, reentries, Len(runs) + 1)
  <2>1. Len(runs) + 1 \in 1 .. Len(runs) + 1 /\ SaysAt(tags, runs, node, reentries, Len(runs) + 1)
    BY <1>2, <1>3 DEF LineInv
  <2>2. QED BY <1>8, <2>1
<1>11. Fits(graph, rank, LastRun.node, t, Len(runs) + 1 \in reentries)
  BY <1>3, <1>4, <1>7 DEF Fits
<1>12. QED BY <1>2, <1>6, <1>9, <1>10, <1>11 DEF LineInv, LastRun

\* Before its first node a walk heeds nothing, and no tag is in force.
LEMMA LineBlank ==
  ASSUME NEW d
  PROVE  SaysAt(NoTags, <<>>, d, {}, 1)
<1>1. \A t \in RoutingTags : Heeded(<<>>, d, {}, 1, t) = {}
  BY DEF Heeded
<1>2. QED BY <1>1 DEF SaysAt, SaysOf, NoTags

LEMMA LineStep ==
  ASSUME NEW rank, InLine(rank), Typed, LineInv(rank), [Next]_vars
  PROVE  LineInv(rank)'
<1>1. CASE Ends /\ UNCHANGED worldVars
  <2>1. UNCHANGED <<graph, runs, tags, node, snapshots, reentries>> /\ pc' = "ended"
    BY <1>1 DEF Ends, End
  <2>2. QED BY <2>1 DEF LineInv
<1>2. CASE Fresh \/ Resume \/ Quits
  <2>1. runs' = <<>> /\ reentries' = {} /\ pc' \in {"off", "enter"} /\ tags' = NoTags
    BY <1>2 DEF Fresh, Resume, Begin, Quits, Quit, Blank
  <2>2. /\ 1 .. Len(runs') = {} /\ 2 .. Len(runs') = {} /\ Len(runs') + 1 = 1
        /\ SaysAt(tags', runs', node', reentries', 1)
    BY <2>1, LineBlank
  <2>3. QED BY <2>1, <2>2 DEF LineInv, Follows
<1>3. CASE Outside \/ UNCHANGED vars
  <2>1. UNCHANGED <<graph, pc, node, runs, tags, snapshots, reentries>>
    BY <1>3 DEF Outside, vars, walkVars
  <2>2. QED BY <2>1 DEF LineInv, LastRun
<1>4. QED BY <1>1, <1>2, <1>3, StepKinds, LineReplay, LineRunLive, LineLoop, LineForward

\* Where a walk leaves a node, what it heeds is what is not out of date.
LEMMA LineRoutes ==
  ASSUME NEW rank, Typed, LineInv(rank)
  PROVE  NoStaleRouting
<1>1. SUFFICES ASSUME pc = "route", NEW t \in RoutingTags, NEW said,
                      said = {j \in DOMAIN runs : t \in DOMAIN runs[j].tags /\ ~OutOfDate(j)}
               PROVE  IF said = {} THEN t \notin DOMAIN tags
                      ELSE t \in DOMAIN tags /\ tags[t] = runs[LastOf(said)].tags[t]
  BY DEF NoStaleRouting
<1>2. Len(runs) \in Nat /\ DOMAIN runs = 1 .. Len(runs) /\ (Len(runs) + 1) - 1 = Len(runs)
  BY DEF Typed, TypeOK
<1>3. \A m \in reentries : m \in DOMAIN runs /\ m <= Len(runs) /\ m <= Len(runs) + 1
  <2>1. ASSUME NEW m \in reentries
        PROVE  m \in 2 .. Len(runs) + 1 /\ m # Len(runs) + 1
    BY <1>1 DEF LineInv
  <2>2. QED BY <1>2, <2>1
<1>4. \A j : OutOfDate(j) <=> \E m \in reentries : Drops(runs, node, m, j)
  BY <1>3 DEF OutOfDate, Drops, NodeAt
<1>5. said = Heeded(runs, node, reentries, Len(runs) + 1, t)
  BY <1>1, <1>2, <1>3, <1>4 DEF Heeded
<1>6. SaysOf(tags, runs, t, Heeded(runs, node, reentries, Len(runs) + 1, t))
  BY <1>1 DEF LineInv, SaysAt
<1>7. SaysOf(tags, runs, t, said)
  BY <1>5, <1>6
<1>8. QED BY <1>7 DEF SaysOf

\* NoStaleRouting (walkGraph's rewind to the routing snapshot): where the nodes
\* stand in a line and a loop edge leads back, a routing tag in force is what the
\* latest run that no rework has put out of date said of it, after any number of
\* passes.
THEOREM FreshRouting ==
  ASSUME NEW CONSTANT rank, InLine(rank)
  PROVE  Spec => []NoStaleRouting
<1>1. Init => Typed /\ LineInv(rank)
  <2>1. ASSUME Init
        PROVE  LineInv(rank)
    <3>1. runs = <<>> /\ reentries = {} /\ pc \in {"off", "enter"} /\ tags = NoTags
      BY <2>1 DEF Init
    <3>2. /\ 1 .. Len(runs) = {} /\ 2 .. Len(runs) = {} /\ Len(runs) + 1 = 1
          /\ SaysAt(tags, runs, node, reentries, 1)
      BY <3>1, LineBlank
    <3>3. QED BY <3>1, <3>2 DEF LineInv, Follows
  <2>2. QED BY <2>1, TypedInit
<1>2. Typed /\ LineInv(rank) /\ [Next]_vars => (Typed /\ LineInv(rank))'
  BY TypedStep, LineStep
<1>3. Typed /\ LineInv(rank) => NoStaleRouting
  BY LineRoutes
<1>4. QED BY <1>1, <1>2, <1>3, PTL DEF Spec

-----------------------------------------------------------------------------
(* Replay: a walk is what its graph, its grants and its runs make of it *)

\* A walk where it stands, and where every walk starts.
Here == [node |-> node, tags |-> tags, inventory |-> inventory, counts |-> counts]
Start == [node |-> Entry, tags |-> NoTags, inventory |-> NoTags,
          counts |-> [e \in EdgeKey |-> 0]]

\* GrantedVisits, Passes, Spent, Open and Rewound of a walk that stands at x with
\* the runs 1 .. k of q, the grants gs and the snapshots shots.
GrantedAt(gs, edge, k) ==
  MapThenSumSet(LAMBDA i : gs[i].visits,
    {i \in DOMAIN gs : gs[i].edge = edge /\ k >= gs[i].after})

PassesAt(x, e, own) ==
  LET seen == IF IsLoop(e) THEN WithFreshRouting(x.tags, own.tags) ELSE x.tags
  IN /\ \A c \in e.require : TagsMatch(seen, c)
     /\ \A c \in e.skip : ~TagsMatch(seen, c)
     /\ \A b \in e.below : \E s \in own.score : s < b

SpentAt(x, e, gs, k) ==
  IsLoop(e) /\ \E most \in {(CHOOSE m \in e.max : TRUE) + GrantedAt(gs, <<x.node, e.to>>, k),
                            HardCap} : x.counts[<<x.node, e.to>>] >= most

OpenAt(x, g, gs, own, k, i) ==
  PassesAt(x, g[x.node][i], own) /\ ~SpentAt(x, g[x.node][i], gs, k)

RewoundAt(x, q, k, shots, n) ==
  LET before == {j \in 1 .. k : q[j].node = n}
  IN IF before = {} THEN x.tags
     ELSE Overlay(Overlay(PickFacts(x.tags), shots[LastOf(before)]), PickRouting(q[k].tags))

\* Run k of q, at x, leads to y by the edge selected.
Led(x, e, q, k, shots) ==
  [node |-> e.to,
   tags |-> IF IsLoop(e) THEN RewoundAt(x, q, k, shots, e.to) ELSE x.tags,
   inventory |-> x.inventory,
   counts |-> IF IsLoop(e) THEN [x.counts EXCEPT ![<<x.node, e.to>>] = @ + 1] ELSE x.counts]

Leaves(x, g, gs, q, k, shots, y) ==
  /\ ~TagsMatch(q[k].tags, [needs_human_input |-> "true"])
  /\ \E i \in DOMAIN g[x.node] :
       /\ OpenAt(x, g, gs, q[k], k, i)
       /\ \A j \in 1 .. i - 1 : ~OpenAt(x, g, gs, q[k], k, j)
       /\ y = Led(x, g[x.node][i], q, k, shots)

\* No position up to k tells the grants apart.
SameBudgets(gs, hs, k) == \A edge : GrantedAt(gs, edge, k) = GrantedAt(hs, edge, k)

SameRuns(q, r, shots, shown, k) == \A j \in 1 .. k : q[j] = r[j] /\ shots[j] = shown[j]

\* The function behind a sum over a finite set.
Adds(f, S, it) ==
  it = [s \in SUBSET S |->
          IF s = {} THEN 0
          ELSE f[CHOOSE x \in s : TRUE].visits + it[s \ {CHOOSE x \in s : TRUE}]]

Sum(f, S) == (CHOOSE it : Adds(f, S, it))[S]

LEMMA GrantedIs ==
  ASSUME NEW gs, NEW edge, NEW k
  PROVE  GrantedAt(gs, edge, k) = Sum(gs, {i \in DOMAIN gs : gs[i].edge = edge /\ k >= gs[i].after})
BY DEF GrantedAt, MapThenSumSet, MapThenFoldSet, Adds, Sum

LEMMA SumAlike ==
  ASSUME NEW f, NEW g, NEW S, \A i \in S : f[i].visits = g[i].visits
  PROVE  Sum(f, S) = Sum(g, S)
<1>1. ASSUME NEW it
      PROVE  Adds(f, S, it) <=> Adds(g, S, it)
  <2>1. \A s \in SUBSET S : s # {} => (CHOOSE x \in s : TRUE) \in S
    OBVIOUS
  <2>2. \A s \in SUBSET S :
          s # {} => f[CHOOSE x \in s : TRUE].visits = g[CHOOSE x \in s : TRUE].visits
    BY <2>1
  <2>3. QED BY <2>2 DEF Adds
<1>2. (CHOOSE it : Adds(f, S, it)) = (CHOOSE it : Adds(g, S, it))
  BY <1>1
<1>3. QED BY <1>2 DEF Sum

\* A grant given with a longer journal is no part of the budget before its end.
LEMMA GrantLater ==
  ASSUME NEW gs \in Seq(Grant), NEW x \in Grant, NEW k \in Nat, k < x.after
  PROVE  SameBudgets(gs, Append(gs, x), k)
<1> DEFINE hs == Append(gs, x)
<1>1. /\ Len(gs) \in Nat /\ DOMAIN gs = 1 .. Len(gs) /\ DOMAIN hs = 1 .. Len(gs) + 1
      /\ hs[Len(gs) + 1] = x /\ \A i \in 1 .. Len(gs) : hs[i] = gs[i]
  OBVIOUS
<1>2. x.after \in Nat
  BY DEF Grant
<1> HIDE DEF hs
<1>3. ASSUME NEW edge
      PROVE  GrantedAt(gs, edge, k) = GrantedAt(hs, edge, k)
  <2>1. PICK S : S = {i \in DOMAIN gs : gs[i].edge = edge /\ k >= gs[i].after}
    OBVIOUS
  <2>2. ~(k >= hs[Len(gs) + 1].after)
    BY <1>1, <1>2
  <2>3. S = {i \in DOMAIN hs : hs[i].edge = edge /\ k >= hs[i].after}
    <3>1. \A i : i \in 1 .. Len(gs) + 1 <=> i \in 1 .. Len(gs) \/ i = Len(gs) + 1
      BY <1>1
    <3>2. QED BY <1>1, <2>1, <2>2, <3>1
  <2>4. \A i \in S : gs[i].visits = hs[i].visits
    BY <1>1, <2>1
  <2>5. Sum(gs, S) = Sum(hs, S)
    BY <2>4, SumAlike
  <2>6. QED BY <2>1, <2>3, <2>5, GrantedIs
<1>4. QED BY <1>3 DEF SameBudgets, hs

\* The operators of the model are these, of the walk where it stands.
LEMMA HereOpen ==
  ASSUME pc = "route"
  PROVE  \A i : Open(i) <=> OpenAt(Here, graph, grants, LastRun, Len(runs), i)
<1>1. Here.node = node /\ Here.tags = tags /\ Here.counts = counts
  BY DEF Here
<1>2. \A e : Passes(e) <=> PassesAt(Here, e, LastRun)
  BY <1>1 DEF Passes, PassesAt
<1>3. \A e : GrantedVisits(<<node, e.to>>, Len(runs)) = GrantedAt(grants, <<node, e.to>>, Len(runs))
  BY DEF GrantedVisits, GrantedAt
<1>4. \A e : Spent(e) <=> SpentAt(Here, e, grants, Len(runs))
  BY <1>1, <1>3 DEF Spent, SpentAt, Granted
<1>5. QED BY <1>1, <1>2, <1>4 DEF Open, OpenAt, Edges

LEMMA HereLeaves ==
  ASSUME Typed, FollowForward \/ FollowLoop
  PROVE  Leaves(Here, graph, grants, runs, Len(runs), snapshots, Here')
<1>1. pc = "route" /\ ~Pausing /\ LastRun = runs[Len(runs)] /\ DOMAIN runs = 1 .. Len(runs)
  BY DEF FollowForward, FollowLoop, MayRoute, LastRun, Typed, TypeOK
<1>2. PICK i \in DOMAIN Edges :
        /\ Selected(i) /\ node' = Edges[i].to /\ inventory' = inventory
        /\ tags' = IF IsLoop(Edges[i]) THEN Rewound(Edges[i].to) ELSE tags
        /\ counts' = IF IsLoop(Edges[i]) THEN [counts EXCEPT ![<<node, Edges[i].to>>] = @ + 1]
                     ELSE counts
  BY DEF FollowForward, FollowLoop
<1>3. Here.node = node /\ Here.tags = tags /\ Here.counts = counts /\ Here.inventory = inventory
  BY DEF Here
<1>4. Rewound(Edges[i].to) = RewoundAt(Here, runs, Len(runs), snapshots, Edges[i].to)
  BY <1>1, <1>3 DEF Rewound, RewoundAt, RunsOf
<1>5. Here' = Led(Here, Edges[i], runs, Len(runs), snapshots)
  BY <1>2, <1>3, <1>4 DEF Here, Led
<1>6. /\ OpenAt(Here, graph, grants, LastRun, Len(runs), i)
      /\ \A j \in 1 .. i - 1 : ~OpenAt(Here, graph, grants, LastRun, Len(runs), j)
  BY <1>1, <1>2, HereOpen DEF Selected
<1>7. QED BY <1>1, <1>2, <1>3, <1>5, <1>6 DEF Leaves, Edges, Pausing

\* A walk that leaves its node neither pauses nor ends there.
LEMMA HereGoes ==
  ASSUME pc = "route", NEW y, Leaves(Here, graph, grants, runs, Len(runs), snapshots, y)
  PROVE  ~Pausing /\ ~NoneOpen
<1>1. Here.node = node /\ LastRun = runs[Len(runs)]
  BY DEF Here, LastRun
<1>2. PICK i \in DOMAIN graph[node] : OpenAt(Here, graph, grants, LastRun, Len(runs), i)
  BY <1>1 DEF Leaves
<1>3. Open(i)
  BY <1>2, HereOpen
<1>4. QED BY <1>1, <1>2, <1>3 DEF Leaves, NoneOpen, Pausing, Edges

LEMMA LeavesAlike ==
  ASSUME NEW x, NEW g, NEW gs, NEW hs, NEW q, NEW r, NEW k \in Nat, 1 <= k, NEW shots, NEW shown,
         NEW y, Leaves(x, g, gs, q, k, shots, y), SameBudgets(gs, hs, k),
         SameRuns(q, r, shots, shown, k)
  PROVE  Leaves(x, g, hs, r, k, shown, y)
<1>1. k \in 1 .. k /\ q[k] = r[k] /\ \A j \in 1 .. k : q[j] = r[j] /\ shots[j] = shown[j]
  BY DEF SameRuns
<1>2. \A i : OpenAt(x, g, gs, q[k], k, i) <=> OpenAt(x, g, hs, r[k], k, i)
  BY <1>1 DEF OpenAt, SpentAt, SameBudgets
<1>3. ASSUME NEW n
      PROVE  RewoundAt(x, q, k, shots, n) = RewoundAt(x, r, k, shown, n)
  <2>1. PICK before : before = {j \in 1 .. k : q[j].node = n}
    OBVIOUS
  <2>2. before = {j \in 1 .. k : r[j].node = n}
    BY <1>1, <2>1
  <2>3. CASE before = {}
    BY <2>1, <2>2, <2>3 DEF RewoundAt
  <2>4. CASE before # {}
    <3>1. before \in SUBSET (1 .. k)
      BY <2>1
    <3>2. LastOf(before) \in 1 .. k
      BY <2>4, <3>1, LastOfIsIn
    <3>3. shots[LastOf(before)] = shown[LastOf(before)]
      BY <1>1, <3>2
    <3>4. QED BY <1>1, <2>1, <2>2, <3>3 DEF RewoundAt
  <2>5. QED BY <2>3, <2>4
<1>4. \A e : Led(x, e, q, k, shots) = Led(x, e, r, k, shown)
  BY <1>3 DEF Led
<1>5. QED BY <1>1, <1>2, <1>4 DEF Leaves

\* Nothing is left to chance: the first open edge is taken.
LEMMA LeavesOnce ==
  ASSUME NEW x, x.node \in Node, NEW g \in Graphs, NEW gs, NEW q, NEW k, NEW shots,
         NEW y, NEW z, Leaves(x, g, gs, q, k, shots, y), Leaves(x, g, gs, q, k, shots, z)
  PROVE  y = z
<1>1. g[x.node] \in Seq(Edge)
  BY WalkAssumption
<1>2. Len(g[x.node]) \in Nat /\ DOMAIN g[x.node] = 1 .. Len(g[x.node])
  BY <1>1
<1>3. PICK i \in DOMAIN g[x.node] :
        /\ OpenAt(x, g, gs, q[k], k, i)
        /\ \A j \in 1 .. i - 1 : ~OpenAt(x, g, gs, q[k], k, j)
        /\ y = Led(x, g[x.node][i], q, k, shots)
  BY DEF Leaves
<1>4. PICK j \in DOMAIN g[x.node] :
        /\ OpenAt(x, g, gs, q[k], k, j)
        /\ \A h \in 1 .. j - 1 : ~OpenAt(x, g, gs, q[k], k, h)
        /\ z = Led(x, g[x.node][j], q, k, shots)
  BY DEF Leaves
<1>5. i \notin 1 .. j - 1 /\ j \notin 1 .. i - 1
  BY <1>3, <1>4
<1>6. i = j
  BY <1>2, <1>5
<1>7. QED BY <1>3, <1>4, <1>6

\* x once the run r is recorded there.
Ran(x, r) ==
  [node |-> x.node, tags |-> Overlay(x.tags, r.tags),
   inventory |-> Overlay(x.inventory, PickFacts(r.tags)), counts |-> x.counts]

\* Run k of q is of node n, and numbered as the walk numbers it.
Noted(q, k, n) ==
  q[k].node = n /\ q[k].iteration = Cardinality({j \in 1 .. k - 1 : q[j].node = n}) + 1

Shots(w) == [j \in Nat |-> PickRouting(w[j].tags)]

\* w[k] is the walk where it enters the node of run k, up to the m-th.
Path(w, g, gs, q, m) ==
  /\ w[1] = Start
  /\ \A k \in 1 .. m : k <= Len(q) => Noted(q, k, w[k].node)
  /\ \A k \in 1 .. m - 1 : Leaves(Ran(w[k], q[k]), g, gs, q, k, Shots(w), w[k + 1])

LEMMA PathGrows ==
  ASSUME NEW w, NEW g, NEW gs, NEW q \in Seq(Run), q # <<>>, Path(w, g, gs, q, Len(q)), NEW x,
         Leaves(Ran(w[Len(q)], q[Len(q)]), g, gs, q, Len(q), Shots(w), x)
  PROVE  \E v : /\ Path(v, g, gs, q, Len(q) + 1)
                /\ v[Len(q) + 1] = x /\ \A i \in 1 .. Len(q) : v[i] = w[i]
<1>1. PICK m \in Nat : m = Len(q)
  OBVIOUS
<1>2. 1 <= m
  BY <1>1
<1> DEFINE v == [i \in 1 .. m + 1 |-> IF i = m + 1 THEN x ELSE w[i]]
<1>3. v[m + 1] = x /\ (\A i \in 1 .. m : v[i] = w[i]) /\ v[1] = w[1]
  BY <1>2
<1> HIDE DEF v
<1>4. ASSUME NEW k \in 1 .. m
      PROVE  Leaves(Ran(v[k], q[k]), g, gs, q, k, Shots(v), v[k + 1])
  <2>1. Leaves(Ran(w[k], q[k]), g, gs, q, k, Shots(w), v[k + 1])
    <3>1. CASE k = m
      BY <1>1, <1>3, <3>1
    <3>2. CASE k # m
      <4>1. k \in 1 .. m - 1 /\ k + 1 \in 1 .. m
        BY <1>1, <3>2
      <4>2. QED BY <1>1, <1>3, <4>1 DEF Path
    <3>3. QED BY <3>1, <3>2
  <2>2. v[k] = w[k] /\ k \in Nat /\ 1 <= k
    BY <1>1, <1>3
  <2>3. SameRuns(q, q, Shots(w), Shots(v), k)
    <3>1. \A j \in 1 .. k : j \in Nat /\ v[j] = w[j]
      BY <1>1, <1>3
    <3>2. QED BY <3>1 DEF SameRuns, Shots
  <2>4. SameBudgets(gs, gs, k)
    BY DEF SameBudgets
  <2>5. QED BY <2>1, <2>2, <2>3, <2>4, LeavesAlike
<1>5. \A k \in 1 .. m + 1 : k <= m => Noted(q, k, v[k].node)
  <2>1. ASSUME NEW k \in 1 .. m + 1, k <= m
        PROVE  k \in 1 .. m
    BY <1>1, <2>1
  <2>2. QED BY <1>1, <1>3, <2>1 DEF Path
<1>6. Path(v, g, gs, q, m + 1)
  <2>1. \A k \in 1 .. (m + 1) - 1 : k \in 1 .. m
    BY <1>1
  <2>2. QED BY <1>1, <1>3, <1>4, <1>5, <2>1 DEF Path
<1>7. QED BY <1>1, <1>3, <1>6

LEMMA PathRecords ==
  ASSUME NEW w, NEW g, NEW gs, NEW q \in Seq(Run), NEW r, Len(r) = Len(q) + 1,
         \A i \in 1 .. Len(q) : r[i] = q[i], Path(w, g, gs, q, Len(q) + 1),
         Noted(r, Len(q) + 1, w[Len(q) + 1].node)
  PROVE  Path(w, g, gs, r, Len(r))
<1>1. PICK m \in Nat : m = Len(q)
  OBVIOUS
<1>2. ASSUME NEW k \in 1 .. m
      PROVE  Leaves(Ran(w[k], r[k]), g, gs, r, k, Shots(w), w[k + 1])
  <2>1. Leaves(Ran(w[k], q[k]), g, gs, q, k, Shots(w), w[k + 1])
    <3>1. k \in 1 .. (m + 1) - 1
      BY <1>1
    <3>2. QED BY <1>1, <3>1 DEF Path
  <2>2. k \in Nat /\ 1 <= k /\ r[k] = q[k]
    BY <1>1
  <2>3. SameRuns(q, r, Shots(w), Shots(w), k)
    <3>1. \A j \in 1 .. k : j \in 1 .. m
      BY <1>1
    <3>2. QED BY <1>1, <3>1 DEF SameRuns
  <2>4. SameBudgets(gs, gs, k)
    BY DEF SameBudgets
  <2>5. QED BY <2>1, <2>2, <2>3, <2>4, LeavesAlike
<1>3. ASSUME NEW k \in 1 .. m + 1
      PROVE  Noted(r, k, w[k].node)
  <2>1. CASE k = m + 1
    BY <1>1, <2>1
  <2>2. CASE k # m + 1
    <3>1. k \in 1 .. m + 1 /\ k <= m /\ k \in 1 .. m /\ \A j \in 1 .. k - 1 : j \in 1 .. m
      BY <1>1, <2>2
    <3>2. Noted(q, k, w[k].node)
      BY <1>1, <3>1 DEF Path
    <3>3. r[k] = q[k] /\ \A j \in 1 .. k - 1 : r[j] = q[j]
      BY <1>1, <3>1
    <3>4. {j \in 1 .. k - 1 : r[j].node = w[k].node} = {j \in 1 .. k - 1 : q[j].node = w[k].node}
      BY <3>3
    <3>5. QED BY <3>2, <3>3, <3>4 DEF Noted
  <2>3. QED BY <2>1, <2>2
<1>4. Path(w, g, gs, r, m + 1)
  <2>1. \A k \in 1 .. (m + 1) - 1 : k \in 1 .. m
    BY <1>1
  <2>2. w[1] = Start
    BY DEF Path
  <2>3. QED BY <1>2, <1>3, <2>1, <2>2 DEF Path
<1>5. QED BY <1>1, <1>4

\* Where a walk is, or ended, entering a node; or leaving one.
Entering == pc = "enter" \/ (pc = "ended" /\ halt.kind \in {"approval", "run-cap"})
Leaving == pc = "route" \/ (pc = "ended" /\ halt.kind = "budget")

\* This walk came along w.
Standing(w) ==
  /\ \A j \in 1 .. Len(runs) : snapshots[j] = PickRouting(w[j].tags)
  /\ Entering => Path(w, graph, grants, runs, Len(runs) + 1) /\ Here = w[Len(runs) + 1]
  /\ Leaving => /\ runs # <<>> /\ Path(w, graph, grants, runs, Len(runs))
                /\ Here = Ran(w[Len(runs)], LastRun)

LEMMA HereNoted ==
  ASSUME Typed, NEW run, Complete(run), run.node = node, run.iteration = Iteration
  PROVE  Noted(runs', Len(runs) + 1, node)
<1>1. RunsOf(node) = {j \in 1 .. (Len(runs) + 1) - 1 : runs'[j].node = node}
  BY Recorded DEF RunsOf
<1>2. QED BY <1>1, Recorded DEF Noted, Iteration

LEMMA HereRan ==
  ASSUME Typed, NEW run, Complete(run)
  PROVE  /\ Here' = Ran(Here, run) /\ LastRun' = run /\ runs' # <<>>
         /\ \A j \in 1 .. Len(runs) : snapshots'[j] = snapshots[j]
         /\ snapshots'[Len(runs) + 1] = PickRouting(tags)
<1>1. Here' = Ran(Here, run)
  BY DEF Here, Ran, Complete
<1>2. LastRun' = run /\ runs' # <<>>
  BY Recorded DEF LastRun
<1>3. /\ \A j \in 1 .. Len(runs) : snapshots'[j] = snapshots[j]
      /\ snapshots'[Len(runs) + 1] = PickRouting(tags)
  BY DEF Complete, Typed, TypeOK, Aligned
<1>4. QED BY <1>1, <1>2, <1>3

LEMMA StandsRecorded ==
  ASSUME Typed, NEW w, Standing(w), pc = "enter", NEW run, Complete(run),
         run.node = node, run.iteration = Iteration
  PROVE  Standing(w)'
<1>1. PICK q \in Seq(Run) : q = runs
  BY DEF Typed, TypeOK
<1>2. PICK r : r = runs'
  OBVIOUS
<1>3. /\ Path(w, graph, grants, q, Len(q) + 1) /\ Here = w[Len(q) + 1]
      /\ \A j \in 1 .. Len(q) : snapshots[j] = PickRouting(w[j].tags)
  BY <1>1 DEF Standing, Entering
<1>4. Len(q) \in Nat /\ Len(r) = Len(q) + 1 /\ r[Len(q) + 1] = run /\ \A i \in 1 .. Len(q) : r[i] = q[i]
  BY <1>1, <1>2, Recorded
<1>5. Noted(r, Len(q) + 1, w[Len(q) + 1].node)
  <2>1. w[Len(q) + 1].node = node
    BY <1>3 DEF Here
  <2>2. QED BY <1>1, <1>2, <2>1, HereNoted
<1>6. Path(w, graph, grants, r, Len(r))
  BY <1>3, <1>4, <1>5, PathRecords
<1>7. graph' = graph /\ grants' = grants /\ pc' = "route"
  BY DEF Complete
<1>8. \A j \in 1 .. Len(r) : snapshots'[j] = PickRouting(w[j].tags)
  <2>1. snapshots'[Len(q) + 1] = PickRouting(w[Len(q) + 1].tags)
    BY <1>1, <1>3, HereRan DEF Here
  <2>2. \A j \in 1 .. Len(q) : snapshots'[j] = PickRouting(w[j].tags)
    BY <1>1, <1>3, HereRan
  <2>3. \A j \in 1 .. Len(r) : j \in 1 .. Len(q) \/ j = Len(q) + 1
    BY <1>4
  <2>4. QED BY <2>1, <2>2, <2>3
<1>9. Here' = Ran(w[Len(r)], LastRun') /\ r # <<>>
  BY <1>2, <1>3, <1>4, HereRan
<1>10. QED BY <1>2, <1>6, <1>7, <1>8, <1>9 DEF Standing, Entering, Leaving

LEMMA StandsLeaves ==
  ASSUME Typed, NEW w, Standing(w), FollowForward \/ FollowLoop
  PROVE  \E v : Standing(v)'
<1>1. PICK q \in Seq(Run) : q = runs
  BY DEF Typed, TypeOK
<1>2. pc = "route" /\ pc' = "enter" /\ UNCHANGED <<graph, grants, runs, snapshots>>
  BY DEF FollowForward, FollowLoop, MayRoute
<1>3. /\ q # <<>> /\ Path(w, graph, grants, q, Len(q)) /\ Here = Ran(w[Len(q)], q[Len(q)])
      /\ \A j \in 1 .. Len(q) : snapshots[j] = PickRouting(w[j].tags)
  BY <1>1, <1>2 DEF Standing, Leaving, LastRun
<1>4. PICK x : x = Here'
  OBVIOUS
<1>5. Leaves(Here, graph, grants, q, Len(q), snapshots, x)
  BY <1>1, <1>4, HereLeaves
<1>6. Leaves(Here, graph, grants, q, Len(q), Shots(w), x)
  <2>1. Len(q) \in Nat /\ 1 <= Len(q)
    BY <1>3
  <2>2. SameRuns(q, q, snapshots, Shots(w), Len(q))
    BY <1>3, <2>1 DEF SameRuns, Shots
  <2>3. SameBudgets(grants, grants, Len(q))
    BY DEF SameBudgets
  <2>4. QED BY <1>5, <2>1, <2>2, <2>3, LeavesAlike
<1>7. PICK v : /\ Path(v, graph, grants, q, Len(q) + 1)
               /\ v[Len(q) + 1] = x /\ \A i \in 1 .. Len(q) : v[i] = w[i]
  BY <1>3, <1>6, PathGrows
<1>8. \A j \in 1 .. Len(q) : snapshots[j] = PickRouting(v[j].tags)
  BY <1>3, <1>7
<1>9. Standing(v)'
  BY <1>1, <1>2, <1>4, <1>7, <1>8 DEF Standing, Entering, Leaving
<1>10. QED BY <1>9

\* Where an ending walk stood, and what it takes to end one that still replays.
LEMMA EndsAt ==
  ASSUME Next, pc \in {"enter", "route"}, pc' = "ended"
  PROVE  /\ UNCHANGED <<graph, journal, grants, node, runs, tags, inventory, counts, snapshots>>
         /\ UNCHANGED saved
         /\ pc = "enter" => halt'.kind \in {"approval", "run-cap", "diverged"}
         /\ pc = "route" => halt'.kind \notin {"approval", "run-cap"}
         /\ halt'.kind = "diverged" => Replaying
         /\ Replaying /\ pc = "enter" => Len(runs) >= RunCap \/ ~JournalAgrees
         /\ Replaying /\ pc = "route" => Len(runs) > Len(journal) \/ Pausing \/ NoneOpen
<1>1. WalkStep /\ UNCHANGED saved
  BY DEF Next, Fresh, Resume, Begin, Walk, Conclude, ConcludeBadly, Killed, EditFiles, MoveRefs,
         EditGraph, Quit, worldVars, walkVars
<1>2. CASE AwaitApproval \/ HitRunCap \/ Diverge
  BY <1>1, <1>2 DEF AwaitApproval, HitRunCap, Diverge, MayEnter, End
<1>3. CASE VerificationFails \/ Pause \/ Exhaust \/ Stall \/ Finish
  BY <1>1, <1>3 DEF VerificationFails, Pause, Exhaust, Stall, Finish, MayRoute, End
<1>4. CASE Replay \/ RunLive \/ FollowForward \/ FollowLoop
  BY <1>4 DEF Replay, RunLive, Complete, FollowForward, FollowLoop
<1>5. QED BY <1>1, <1>2, <1>3, <1>4 DEF WalkStep

LEMMA StandsEnds ==
  ASSUME Next, pc \in {"enter", "route"}, pc' = "ended", NEW w, Standing(w)
  PROVE  Standing(w)'
<1>1. Here' = Here /\ LastRun' = LastRun /\ UNCHANGED <<graph, grants, runs, snapshots>>
  BY EndsAt DEF Here, LastRun
<1>2. (Entering' => Entering) /\ (Leaving' => Leaving)
  BY EndsAt DEF Entering, Leaving
<1>3. QED BY <1>1, <1>2 DEF Standing

\* A walk is begun: it stands at the start.
LEMMA StandsBegun ==
  ASSUME NEW j, NEW gs, NEW feedback, NEW steps, Begin(j, gs, feedback, steps)
  PROVE  Standing(<<Start>>)'
<1>1. runs' = <<>> /\ Here' = Start /\ pc' = "enter"
  BY DEF Begin, Blank, Here, Start
<1>2. ASSUME NEW g, NEW hs
      PROVE  Path(<<Start>>, g, hs, <<>>, 1)
  BY DEF Path
<1>3. QED BY <1>1, <1>2 DEF Standing, Entering, Leaving

-----------------------------------------------------------------------------
(* The walk that was saved, and the one that replays it *)

Mark(x) == <<x.node, x.tags, x.inventory, x.counts>>

\* The walk that s was saved of came along w.
Stopped(s, w) ==
  IF s.kind = "budget"
  THEN /\ Path(w, s.graph, s.grants, s.runs, Len(s.runs))
       /\ s.mark = Mark(Ran(w[Len(s.runs)], s.runs[Len(s.runs)]))
  ELSE /\ Path(w, s.graph, s.grants, s.runs, Len(s.runs) + 1)
       /\ s.mark = Mark(w[Len(s.runs) + 1])

SavedStop(s) ==
  /\ s.kind \in {"approval", "run-cap", "budget"}
  /\ Len(s.runs) <= RunCap
  /\ s.kind = "budget" => s.runs # <<>>
  /\ s.kind # "budget" => s.exhausted = {}
  /\ \E w : Stopped(s, w)

\* The walk resumed from s has the budget of s, or more from the end of its journal on.
GrantedSince(s) ==
  \/ grants = s.grants
  \/ \E edge \in s.exhausted, n \in Nat :
       grants = Append(s.grants, [edge |-> edge, visits |-> n, after |-> Len(s.runs)])

\* The saved walk went on after as many runs as this one has had.
Within(s) == Len(runs) < Len(s.runs) \/ (s.kind # "budget" /\ Len(runs) = Len(s.runs))

\* As far as it replays s, this walk comes along w.
Tracks(s, w) ==
  /\ \A j \in 1 .. Len(runs) : j <= Len(s.runs) => snapshots[j] = PickRouting(w[j].tags)
  /\ pc = "enter" /\ Within(s) => Here = w[Len(runs) + 1]
  /\ pc = "route" /\ Len(runs) <= Len(s.runs) => Here = Ran(w[Len(runs)], LastRun)

Replays(s) ==
  /\ journal = s.runs /\ GrantedSince(s)
  /\ graph = s.graph => /\ halt.kind # "diverged"
                        /\ \A w : Stopped(s, w) => Tracks(s, w)

PathInv ==
  /\ \A s, u \in saved : s = u
  /\ \A s \in saved : SavedStop(s)
  /\ pc # "off" => \E w : Standing(w)
  /\ pc # "off" /\ journal # <<>> => \A s \in saved : Replays(s)

\* Where the saved walk went on, this one does, and to the same place.
LEMMA OnTrack ==
  ASSUME Typed, Retrace, NEW s \in saved, SavedStop(s), journal = s.runs, GrantedSince(s),
         graph = s.graph, NEW w, Stopped(s, w), Tracks(s, w), pc = "route", Within(s)
  PROVE  Leaves(Here, graph, grants, runs, Len(runs), snapshots, w[Len(runs) + 1])
<1>1. PICK q : q = s.runs
  OBVIOUS
<1>2. /\ q \in Seq(Run) /\ Len(q) \in Nat /\ DOMAIN q = 1 .. Len(q)
      /\ s.grants \in Seq(Grant) /\ s.exhausted \subseteq EdgeKey
  BY <1>1 DEF Typed, SavedType
<1>3. PICK k \in Nat : k = Len(runs)
  BY DEF Typed, TypeOK
<1>4. 1 <= k /\ k <= Len(q) /\ DOMAIN runs = 1 .. k /\ (s.kind = "budget" => k < Len(q))
  BY <1>1, <1>2, <1>3 DEF Within, Typed, TypeOK, Aligned
<1>5. \A j \in 1 .. k : runs[j] = q[j]
  BY <1>1, <1>2, <1>3, <1>4 DEF Retrace
<1>6. Leaves(Ran(w[k], q[k]), s.graph, s.grants, q, k, Shots(w), w[k + 1])
  <2>1. CASE s.kind = "budget"
    <3>1. k \in 1 .. Len(q) - 1
      BY <1>2, <1>4, <2>1
    <3>2. QED BY <1>1, <2>1, <3>1 DEF Stopped, Path
  <2>2. CASE s.kind # "budget"
    <3>1. k \in 1 .. (Len(q) + 1) - 1
      BY <1>2, <1>4
    <3>2. QED BY <1>1, <2>2, <3>1 DEF Stopped, Path
  <2>3. QED BY <2>1, <2>2
<1>7. Here = Ran(w[k], q[k])
  <2>1. LastRun = q[k]
    BY <1>3, <1>4, <1>5 DEF LastRun
  <2>2. QED BY <1>1, <1>3, <1>4, <2>1 DEF Tracks
<1>8. SameBudgets(s.grants, grants, k)
  <2>1. CASE grants = s.grants
    BY <2>1 DEF SameBudgets
  <2>2. ASSUME NEW edge \in s.exhausted, NEW n \in Nat,
               grants = Append(s.grants, [edge |-> edge, visits |-> n, after |-> Len(s.runs)])
        PROVE  SameBudgets(s.grants, grants, k)
    <3>1. k < Len(q)
      BY <1>4, <2>2 DEF SavedStop
    <3>2. PICK x : x = [edge |-> edge, visits |-> n, after |-> Len(q)]
      OBVIOUS
    <3>3. x \in Grant /\ x.after = Len(q)
      BY <1>2, <2>2, <3>2 DEF Grant
    <3>4. SameBudgets(s.grants, Append(s.grants, x), k)
      BY <1>2, <3>1, <3>3, GrantLater
    <3>5. QED BY <1>1, <2>2, <3>2, <3>4
  <2>3. QED BY <2>1, <2>2 DEF GrantedSince
<1>9. SameRuns(q, runs, Shots(w), snapshots, k)
  <2>1. ASSUME NEW j \in 1 .. k
        PROVE  q[j] = runs[j] /\ Shots(w)[j] = snapshots[j]
    <3>1. j \in Nat /\ j <= Len(q) /\ j \in 1 .. Len(runs)
      BY <1>2, <1>3, <1>4
    <3>2. QED BY <1>1, <1>5, <3>1 DEF Tracks, Shots
  <2>2. QED BY <2>1 DEF SameRuns
<1>10. Leaves(Here, graph, grants, runs, k, snapshots, w[k + 1])
  BY <1>4, <1>6, <1>7, <1>8, <1>9, LeavesAlike
<1>11. QED BY <1>3, <1>10

\* A walk that replays s under its graph does not end before the journal does.
LEMMA NeverDiverges ==
  ASSUME Typed, Retrace, NEW s \in saved, SavedStop(s), journal = s.runs, GrantedSince(s),
         graph = s.graph, NEW w, Stopped(s, w), Tracks(s, w), Replaying
  PROVE  /\ pc = "enter" => ~(Len(runs) >= RunCap) /\ JournalAgrees
         /\ pc = "route" => ~(Len(runs) > Len(journal)) /\ ~Pausing /\ ~NoneOpen
<1>1. PICK k \in Nat : k = Len(runs)
  BY DEF Typed, TypeOK
<1>2. /\ Len(journal) \in Nat /\ DOMAIN journal = 1 .. Len(journal) /\ DOMAIN runs = 1 .. k
      /\ k < Len(journal)
  BY <1>1 DEF Typed, TypeOK, Replaying
<1>3. Within(s)
  BY <1>1, <1>2 DEF Within
<1>4. CASE pc = "enter"
  <2>1. ~(Len(runs) >= RunCap)
    BY <1>1, <1>2, RunCapType DEF SavedStop
  <2>2. Here = w[k + 1] /\ Here.node = node
    BY <1>1, <1>3, <1>4 DEF Tracks, Here
  <2>3. Noted(journal, k + 1, node)
    <3>1. k + 1 \in 1 .. Len(journal) /\ k + 1 \in 1 .. Len(journal) + 1 /\ k + 1 <= Len(journal)
      BY <1>2
    <3>2. Noted(journal, k + 1, w[k + 1].node)
      <4>1. CASE s.kind = "budget"
        BY <3>1, <4>1 DEF Stopped, Path
      <4>2. CASE s.kind # "budget"
        BY <3>1, <4>2 DEF Stopped, Path
      <4>3. QED BY <4>1, <4>2
    <3>3. QED BY <2>2, <3>2
  <2>4. RunsOf(node) = {j \in 1 .. (k + 1) - 1 : journal[j].node = node}
    <3>1. (k + 1) - 1 = k /\ \A j \in 1 .. k : j \in DOMAIN runs \cap DOMAIN journal
      BY <1>2
    <3>2. \A j \in 1 .. k : runs[j] = journal[j]
      BY <3>1 DEF Retrace
    <3>3. QED BY <1>2, <3>1, <3>2 DEF RunsOf
  <2>5. JournalAgrees
    BY <1>1, <2>3, <2>4 DEF JournalAgrees, Noted, Iteration
  <2>6. QED BY <1>4, <2>1, <2>5
<1>5. CASE pc = "route"
  <2>1. ~Pausing /\ ~NoneOpen
    BY <1>3, <1>5, OnTrack, HereGoes
  <2>2. QED BY <1>1, <1>2, <1>5, <2>1
<1>6. QED BY <1>4, <1>5

LEMMA TracksRecorded ==
  ASSUME Typed, NEW s \in saved, NEW w, Tracks(s, w), pc = "enter", NEW run, Complete(run)
  PROVE  Tracks(s, w)'
<1>1. PICK k \in Nat : k = Len(runs)
  BY DEF Typed, TypeOK
<1>2. PICK n \in Nat : n = Len(s.runs)
  BY DEF Typed, SavedType
<1>3. Len(runs') = k + 1 /\ pc' = "route"
  BY <1>1, Recorded DEF Complete
<1>4. k + 1 <= n => Here = w[k + 1] /\ w[k + 1].tags = tags
  <2>1. k + 1 <= n => Within(s)
    BY <1>1, <1>2 DEF Within
  <2>2. QED BY <1>1, <2>1 DEF Tracks, Here
<1>5. ASSUME NEW j \in 1 .. k + 1, j <= n
      PROVE  snapshots'[j] = PickRouting(w[j].tags)
  <2>1. CASE j = k + 1
    BY <1>1, <1>4, <1>5, <2>1, HereRan
  <2>2. CASE j # k + 1
    <3>1. j \in 1 .. k
      BY <1>1, <2>2
    <3>2. QED BY <1>1, <1>2, <1>5, <3>1, HereRan DEF Tracks
  <2>3. QED BY <2>1, <2>2
<1>6. k + 1 <= n => Here' = Ran(w[k + 1], LastRun')
  BY <1>4, HereRan
<1>7. QED BY <1>2, <1>3, <1>5, <1>6 DEF Tracks

LEMMA TracksLeaves ==
  ASSUME Typed, Retrace, NEW s \in saved, SavedStop(s), journal = s.runs, GrantedSince(s),
         graph = s.graph, NEW w, Stopped(s, w), Tracks(s, w), FollowForward \/ FollowLoop
  PROVE  Tracks(s, w)'
<1>1. pc = "route" /\ pc' = "enter" /\ UNCHANGED <<runs, snapshots>>
  BY DEF FollowForward, FollowLoop, MayRoute
<1>2. PICK y : y = Here'
  OBVIOUS
<1>3. ASSUME Within(s)
      PROVE  y = w[Len(runs) + 1]
  <2>1. Leaves(Here, graph, grants, runs, Len(runs), snapshots, w[Len(runs) + 1])
    BY <1>1, <1>3, OnTrack
  <2>2. Leaves(Here, graph, grants, runs, Len(runs), snapshots, y)
    BY <1>2, HereLeaves
  <2>3. Here.node \in Node /\ graph \in Graphs
    BY DEF Here, Typed, TypeOK
  <2>4. QED BY <2>1, <2>2, <2>3, LeavesOnce
<1>4. Within(s)' <=> Within(s)
  BY <1>1 DEF Within
<1>5. QED BY <1>1, <1>2, <1>3, <1>4 DEF Tracks

LEMMA ReplaysSame ==
  ASSUME NEW s, Replays(s), UNCHANGED <<journal, grants, graph>>, halt'.kind # "diverged",
         graph = s.graph => \A w : Stopped(s, w) /\ Tracks(s, w) => Tracks(s, w)'
  PROVE  Replays(s)'
<1>1. GrantedSince(s)'
  BY DEF Replays, GrantedSince
<1>2. QED BY <1>1 DEF Replays

LEMMA PathRecorded ==
  ASSUME Typed, PathInv, pc = "enter", NEW run, Complete(run), UNCHANGED worldVars,
         run.node = node, run.iteration = Iteration
  PROVE  PathInv'
<1>1. /\ UNCHANGED <<journal, grants, graph, halt>> /\ saved' = saved /\ pc' = "route"
  BY DEF Complete, worldVars
<1>2. \E w : Standing(w)'
  <2>1. PICK w : Standing(w)
    BY DEF PathInv
  <2>2. QED BY <2>1, StandsRecorded
<1>3. ASSUME NEW s \in saved, journal # <<>>
      PROVE  Replays(s)'
  <2>1. Replays(s)
    BY <1>3 DEF PathInv
  <2>2. ASSUME NEW w, Tracks(s, w)
        PROVE  Tracks(s, w)'
    BY <2>2, TracksRecorded
  <2>3. CASE graph = s.graph
    <3>1. halt'.kind # "diverged"
      BY <1>1, <2>1, <2>3 DEF Replays
    <3>2. QED BY <1>1, <2>1, <2>2, <3>1, ReplaysSame
  <2>4. CASE graph # s.graph
    BY <1>1, <2>1, <2>4 DEF Replays, GrantedSince
  <2>5. QED BY <2>3, <2>4
<1>4. QED BY <1>1, <1>2, <1>3 DEF PathInv

LEMMA PathLeaves ==
  ASSUME Typed, Retrace, PathInv, FollowForward \/ FollowLoop, UNCHANGED worldVars
  PROVE  PathInv'
<1>1. /\ UNCHANGED <<journal, grants, graph, halt>> /\ saved' = saved
      /\ pc = "route" /\ pc' = "enter"
  BY DEF FollowForward, FollowLoop, MayRoute, worldVars
<1>2. \E w : Standing(w)'
  <2>1. PICK w : Standing(w)
    BY <1>1 DEF PathInv
  <2>2. QED BY <2>1, StandsLeaves
<1>3. ASSUME NEW s \in saved, journal # <<>>
      PROVE  Replays(s)'
  <2>1. Replays(s) /\ SavedStop(s)
    BY <1>1, <1>3 DEF PathInv
  <2>2. CASE graph = s.graph
    <3>1. halt'.kind # "diverged"
      BY <1>1, <2>1, <2>2 DEF Replays
    <3>2. journal = s.runs /\ GrantedSince(s)
      BY <2>1 DEF Replays
    <3>3. ASSUME NEW w, Stopped(s, w), Tracks(s, w)
          PROVE  Tracks(s, w)'
      BY <2>1, <2>2, <3>2, <3>3, TracksLeaves
    <3>4. QED BY <1>1, <2>1, <3>1, <3>3, ReplaysSame
  <2>3. CASE graph # s.graph
    BY <1>1, <2>1, <2>3 DEF Replays, GrantedSince
  <2>4. QED BY <2>2, <2>3
<1>4. QED BY <1>1, <1>2, <1>3 DEF PathInv

LEMMA PathEnds ==
  ASSUME Typed, Retrace, PathInv, Next, pc \in {"enter", "route"}, pc' = "ended"
  PROVE  PathInv'
<1>1. UNCHANGED <<journal, grants, graph, runs, snapshots, saved>>
  BY EndsAt
<1>2. \E w : Standing(w)'
  <2>1. PICK w : Standing(w)
    BY DEF PathInv
  <2>2. QED BY <2>1, StandsEnds
<1>3. ASSUME NEW s \in saved, journal # <<>>
      PROVE  Replays(s)'
  <2>1. Replays(s) /\ SavedStop(s)
    BY <1>3 DEF PathInv
  <2>2. CASE graph = s.graph
    <3>1. PICK v : Stopped(s, v)
      BY <2>1 DEF SavedStop
    <3>2. journal = s.runs /\ GrantedSince(s) /\ Tracks(s, v)
      BY <2>1, <2>2, <3>1 DEF Replays
    <3>3. ~Replaying
      BY <2>1, <2>2, <3>1, <3>2, EndsAt, NeverDiverges
    <3>4. halt'.kind # "diverged"
      BY <3>3, EndsAt
    <3>5. ASSUME NEW w, Tracks(s, w)
          PROVE  Tracks(s, w)'
      BY <1>1, <3>5 DEF Tracks
    <3>6. QED BY <1>1, <2>1, <3>4, <3>5, ReplaysSame
  <2>3. CASE graph # s.graph
    BY <1>1, <2>1, <2>3 DEF Replays, GrantedSince
  <2>4. QED BY <2>2, <2>3
<1>4. QED BY <1>1, <1>2, <1>3 DEF PathInv

LEMMA PathBegins ==
  ASSUME Typed, PathInv, Fresh \/ Resume
  PROVE  PathInv'
<1> DEFINE More(s, gs) ==
             \E edge \in s.exhausted, n \in Nat :
               gs = Append(s.grants, [edge |-> edge, visits |-> n, after |-> Len(s.runs)])
           Given(j, gs) == j = <<>> \/ \E s \in saved : j = s.runs /\ (gs = s.grants \/ More(s, gs))
<1>1. PICK j, gs, feedback, steps : Begin(j, gs, feedback, steps) /\ Given(j, gs)
  <2>1. CASE Fresh
    <3>1. PICK steps : Begin(<<>>, <<>>, 0, steps)
      BY <2>1 DEF Fresh
    <3>2. Given(<<>>, <<>>)
      OBVIOUS
    <3>3. QED BY <3>1, <3>2
  <2>2. CASE Resume
    <3>1. PICK s \in saved, steps \in SUBSET GatedSteps :
            \/ \E feedback \in {s.feedback, resumes + 1} : Begin(s.runs, s.grants, feedback, steps)
            \/ \E edge \in Grantable(s), n \in 1 .. MaxGrant :
                 Begin(s.runs, Append(s.grants, [edge |-> edge, visits |-> n, after |-> Len(s.runs)]),
                       resumes + 1, steps)
      BY <2>2 DEF Resume
    <3>2. ASSUME NEW feedback, Begin(s.runs, s.grants, feedback, steps)
          PROVE  \E j, gs, f, st : Begin(j, gs, f, st) /\ Given(j, gs)
      <4>1. Given(s.runs, s.grants)
        OBVIOUS
      <4>2. QED BY <3>2, <4>1
    <3>3. ASSUME NEW edge \in Grantable(s), NEW n \in 1 .. MaxGrant, NEW gs,
                 gs = Append(s.grants, [edge |-> edge, visits |-> n, after |-> Len(s.runs)]),
                 Begin(s.runs, gs, resumes + 1, steps)
          PROVE  \E j, hs, f, st : Begin(j, hs, f, st) /\ Given(j, hs)
      <4>1. edge \in s.exhausted /\ n \in Nat
        BY ResumeAssumption DEF Grantable
      <4>2. Given(s.runs, gs)
        BY <3>3, <4>1
      <4>3. QED BY <3>3, <4>2
    <3>4. QED BY <3>1, <3>2, <3>3
  <2>3. QED BY <2>1, <2>2
<1>2. /\ journal' = j /\ grants' = gs /\ saved' = saved /\ pc' = "enter" /\ halt' = Running
      /\ runs' = <<>> /\ Here' = Start
  BY <1>1 DEF Begin, Blank, Here, Start
<1>3. \E w : Standing(w)'
  BY <1>1, StandsBegun
<1>4. ASSUME NEW s \in saved, j # <<>>
      PROVE  Replays(s)'
  <2>1. /\ j = s.runs
        /\ \/ gs = s.grants
           \/ \E edge \in s.exhausted, n \in Nat :
                gs = Append(s.grants, [edge |-> edge, visits |-> n, after |-> Len(s.runs)])
    BY <1>1, <1>4 DEF PathInv
  <2>2. GrantedSince(s)'
    BY <1>2, <2>1 DEF GrantedSince
  <2>3. ASSUME NEW w, Stopped(s, w)
        PROVE  Tracks(s, w)'
    <3>1. w[1] = Start
      BY <2>3 DEF Stopped, Path
    <3>2. Len(runs') = 0 /\ 1 .. Len(runs') = {}
      BY <1>2
    <3>3. QED BY <1>2, <3>1, <3>2 DEF Tracks
  <2>4. QED BY <1>2, <2>1, <2>2, <2>3 DEF Replays, Running
<1>5. QED BY <1>2, <1>3, <1>4 DEF PathInv

\* What an ended walk leaves in the state file is where it stood.
LEMMA PathSaved ==
  ASSUME Typed, PathInv, pc = "ended", Resumable, NEW hash
  PROVE  SavedStop(StateToSave(hash))
<1>1. PICK s : s = StateToSave(hash)
  OBVIOUS
<1>2. /\ s.runs = runs /\ s.grants = grants /\ s.graph = graph /\ s.kind = halt.kind
      /\ s.mark = Mark(Here) /\ s.exhausted = IF halt.kind = "budget" THEN halt.edges ELSE {}
  BY <1>1 DEF StateToSave, Mark, Here
<1>3. PICK w : Standing(w)
  BY DEF PathInv
<1>4. halt.kind \in {"approval", "run-cap", "budget"} /\ Len(runs) <= RunCap
  BY DEF Resumable, Typed, WalkIsBounded
<1>5. CASE halt.kind = "budget"
  <2>1. /\ runs # <<>> /\ Path(w, graph, grants, runs, Len(runs))
        /\ Here = Ran(w[Len(runs)], LastRun)
    BY <1>3, <1>5 DEF Standing, Leaving
  <2>2. Stopped(s, w)
    BY <1>2, <1>5, <2>1 DEF Stopped, LastRun
  <2>3. QED BY <1>1, <1>2, <1>4, <1>5, <2>1, <2>2 DEF SavedStop
<1>6. CASE halt.kind # "budget"
  <2>1. Path(w, graph, grants, runs, Len(runs) + 1) /\ Here = w[Len(runs) + 1]
    BY <1>3, <1>4, <1>6 DEF Standing, Entering
  <2>2. Stopped(s, w)
    BY <1>2, <1>6, <2>1 DEF Stopped
  <2>3. QED BY <1>1, <1>2, <1>4, <1>6, <2>2 DEF SavedStop
<1>7. QED BY <1>5, <1>6

LEMMA PathQuits ==
  ASSUME Typed, PathInv, Next, Quits
  PROVE  PathInv'
<1>1. pc' = "off"
  BY DEF Quits, Quit
<1>2. \/ saved' = saved \/ saved' = {}
      \/ pc = "ended" /\ Resumable /\ \E hash : saved' = {StateToSave(hash)}
  BY <1>1 DEF Next, Fresh, Resume, Begin, Walk, worldVars, Conclude, ConcludeBadly, Killed,
              EditFiles, MoveRefs, EditGraph, WriteOrClear
<1>3. CASE saved' = saved \/ saved' = {}
  BY <1>1, <1>3 DEF PathInv
<1>4. ASSUME pc = "ended", Resumable, NEW hash, saved' = {StateToSave(hash)}
      PROVE  PathInv'
  <2>1. SavedStop(StateToSave(hash))
    BY <1>4, PathSaved
  <2>2. PICK s : s = StateToSave(hash)
    OBVIOUS
  <2>3. QED BY <1>1, <1>4, <2>1, <2>2 DEF PathInv
<1>5. QED BY <1>2, <1>3, <1>4

LEMMA PathStep ==
  ASSUME Typed, GateInv, PathInv, [Next]_vars
  PROVE  PathInv'
<1>1. Retrace
  BY DEF GateInv
<1>2. CASE Fresh \/ Resume
  BY <1>2, PathBegins
<1>3. CASE (Replay \/ RunLive) /\ UNCHANGED worldVars
  <2>1. PICK run : Complete(run) /\ run.node = node /\ run.iteration = Iteration
    <3>1. CASE Replay
      <4>1. PICK run : run = journal[Len(runs) + 1]
        OBVIOUS
      <4>2. QED BY <3>1, <4>1 DEF Replay, JournalAgrees
    <3>2. CASE RunLive
      <4>1. PICK r \in Results[node] :
              Complete([node |-> node, iteration |-> Iteration,
                        status |-> r.status, tags |-> r.tags,
                        score |-> IF r.status = "failed" THEN {} ELSE r.score,
                        told |-> pending, ok |-> node \in approved, left |-> tree'])
        BY <3>2 DEF RunLive
      <4>2. QED BY <4>1
    <3>3. QED BY <1>3, <3>1, <3>2
  <2>2. pc = "enter"
    BY <1>3 DEF Replay, RunLive, MayEnter
  <2>3. QED BY <1>3, <2>1, <2>2, PathRecorded
<1>4. CASE (FollowForward \/ FollowLoop) /\ UNCHANGED worldVars
  BY <1>1, <1>4, PathLeaves
<1>5. CASE Ends /\ Next
  <2>1. pc \in {"enter", "route"} /\ pc' = "ended"
    BY <1>5 DEF Ends, End
  <2>2. QED BY <1>1, <1>5, <2>1, PathEnds
<1>6. CASE Quits /\ Next
  BY <1>6, PathQuits
<1>7. CASE Outside
  <2>1. pc' = "off" /\ saved' = saved
    BY <1>7 DEF Outside
  <2>2. QED BY <2>1 DEF PathInv
<1>8. CASE UNCHANGED vars
  <2>1. /\ UNCHANGED <<saved, pc, journal, grants, graph, halt, runs, snapshots>>
        /\ Here' = Here /\ LastRun' = LastRun
    BY <1>8 DEF vars, walkVars, worldVars, Here, LastRun
  <2>2. \A w : Standing(w)' <=> Standing(w)
    BY <2>1 DEF Standing, Entering, Leaving
  <2>3. \A s, w : Tracks(s, w)' <=> Tracks(s, w)
    BY <2>1 DEF Tracks, Within
  <2>4. \A s : Replays(s)' <=> Replays(s)
    BY <2>1, <2>3 DEF Replays, GrantedSince
  <2>5. QED BY <2>1, <2>2, <2>4 DEF PathInv
<1>9. QED BY <1>2, <1>3, <1>4, <1>5, <1>6, <1>7, <1>8, StepKinds

LEMMA PathFaithful ==
  ASSUME Typed, Retrace, PathInv
  PROVE  ReplayIsFaithful
<1>1. SUFFICES ASSUME NEW s \in saved, pc # "off", journal # <<>>, graph = s.graph
               PROVE  /\ halt.kind # "diverged"
                      /\ Len(runs) = Len(journal)
                           /\ pc = (IF s.kind = "budget" THEN "route" ELSE "enter")
                         => <<node, tags, inventory, counts>> = s.mark
  BY DEF ReplayIsFaithful
<1>2. Replays(s) /\ SavedStop(s)
  BY <1>1 DEF PathInv
<1>3. PICK w : Stopped(s, w) /\ Tracks(s, w)
  BY <1>1, <1>2 DEF SavedStop, Replays
<1>4. halt.kind # "diverged" /\ journal = s.runs
  BY <1>1, <1>2 DEF Replays
<1>5. ASSUME Len(runs) = Len(journal), pc = "route", s.kind = "budget"
      PROVE  Mark(Here) = s.mark
  <2>1. Len(runs) \in DOMAIN runs \cap DOMAIN journal
    BY <1>5 DEF Typed, TypeOK, Aligned
  <2>2. LastRun = s.runs[Len(s.runs)]
    BY <1>4, <1>5, <2>1 DEF Retrace, LastRun
  <2>3. Len(runs) <= Len(s.runs)
    BY <1>4, <1>5 DEF Typed, TypeOK
  <2>4. Here = Ran(w[Len(s.runs)], s.runs[Len(s.runs)])
    BY <1>3, <1>4, <1>5, <2>2, <2>3 DEF Tracks
  <2>5. QED BY <1>3, <1>5, <2>4 DEF Stopped
<1>6. ASSUME Len(runs) = Len(journal), pc = "enter", s.kind # "budget"
      PROVE  Mark(Here) = s.mark
  <2>1. Within(s)
    BY <1>4, <1>6 DEF Within
  <2>2. Here = w[Len(s.runs) + 1]
    BY <1>3, <1>4, <1>6, <2>1 DEF Tracks
  <2>3. QED BY <1>3, <1>6, <2>2 DEF Stopped
<1>7. Mark(Here) = <<node, tags, inventory, counts>>
  BY DEF Mark, Here
<1>8. QED BY <1>4, <1>5, <1>6, <1>7

LEMMA PathInvariant == Spec => [](Typed /\ GateInv /\ PathInv)
<1>1. Init => Typed /\ GateInv /\ PathInv
  <2>1. ASSUME Init
        PROVE  GateInv /\ PathInv
    BY <2>1 DEF Init, GateInv, Retrace, Sourced, GateRespected, NoTags, PathInv
  <2>2. QED BY <2>1, TypedInit
<1>2. Typed /\ GateInv /\ PathInv /\ [Next]_vars => (Typed /\ GateInv /\ PathInv)'
  BY TypedStep, GateStep, PathStep
<1>3. QED BY <1>1, <1>2, PTL DEF Spec

\* ReplayIsFaithful (graphWalker.ts, the journal replayed by the same loop): under
\* the graph that produced it a journal never diverges, whatever was granted since,
\* and the walk that has replayed it stands where the recorded walk stopped.
THEOREM FaithfulReplay == Spec => []ReplayIsFaithful
<1>1. Typed /\ GateInv /\ PathInv => ReplayIsFaithful
  BY PathFaithful DEF GateInv
<1>2. QED BY <1>1, PathInvariant, PTL

-----------------------------------------------------------------------------
(* Budgets: what a sum over a finite set is *)

Minimal(B, T) == T \in B /\ \A U \in B : U \subseteq T => U = T

LEMMA LeastSubset ==
  ASSUME NEW S, IsFiniteSet(S), NEW B \in SUBSET SUBSET S, B # {}
  PROVE  \E T : Minimal(B, T)
<1> DEFINE Sizes == {Cardinality(T) : T \in B}
<1>1. ASSUME NEW T \in B
      PROVE  T \in SUBSET S /\ IsFiniteSet(T) /\ Cardinality(T) \in Nat
  <2>1. T \in SUBSET S
    OBVIOUS
  <2>2. IsFiniteSet(T)
    BY <2>1, FS_Subset
  <2>3. QED BY <2>1, <2>2, FS_CardinalityType
<1>2. Sizes \in SUBSET Nat /\ Sizes # {}
  BY <1>1
<1>3. PICK n \in Sizes : \A m \in Sizes : n <= m
  BY <1>2, Least
<1>4. PICK T \in B : Cardinality(T) = n
  OBVIOUS
<1>5. ASSUME NEW U \in B, U \subseteq T
      PROVE  U = T
  <2>1. IsFiniteSet(T) /\ U \in SUBSET T /\ Cardinality(T) \in Nat /\ Cardinality(U) \in Nat
    BY <1>1, <1>5
  <2>2. Cardinality(U) <= Cardinality(T)
    BY <2>1, FS_Subset
  <2>3. Cardinality(T) <= Cardinality(U)
    BY <1>3, <1>4
  <2>4. Cardinality(T) = Cardinality(U)
    BY <2>1, <2>2, <2>3
  <2>5. QED BY <2>1, <2>4, FS_Subset
<1>6. QED BY <1>4, <1>5 DEF Minimal

\* Two functions behind a sum agree where both are defined.
LEMMA AddsAgree ==
  ASSUME NEW f, NEW S, NEW T, NEW it, NEW jt, Adds(f, S, it), Adds(f, T, jt),
         NEW u \in SUBSET S, u \in SUBSET T, IsFiniteSet(u)
  PROVE  it[u] = jt[u]
<1>1. PICK B : B = {v \in SUBSET u : it[v] # jt[v]}
  OBVIOUS
<1>2. SUFFICES ASSUME B # {} PROVE FALSE
  BY <1>1
<1>3. PICK v : Minimal(B, v)
  BY <1>1, <1>2, LeastSubset
<1>4. /\ v \in SUBSET S /\ v \in SUBSET T /\ v \in SUBSET u /\ it[v] # jt[v]
      /\ \A w \in SUBSET v : w # v => it[w] = jt[w]
  BY <1>1, <1>3 DEF Minimal
<1>5. v # {}
  BY <1>4 DEF Adds
<1>6. PICK c : c = CHOOSE x \in v : TRUE
  OBVIOUS
<1>7. c \in v
  BY <1>5, <1>6
<1>8. it[v \ {c}] = jt[v \ {c}]
  BY <1>4, <1>7
<1>9. it[v] = f[c].visits + it[v \ {c}]
  BY <1>4, <1>5, <1>6 DEF Adds
<1>10. jt[v] = f[c].visits + jt[v \ {c}]
  BY <1>4, <1>5, <1>6 DEF Adds
<1>11. QED BY <1>4, <1>8, <1>9, <1>10

LEMMA AddsWithin ==
  ASSUME NEW f, NEW S, NEW T \in SUBSET S, NEW it, Adds(f, S, it)
  PROVE  Adds(f, T, [s \in SUBSET T |-> it[s]])
<1>1. ASSUME NEW s \in SUBSET T
      PROVE  it[s] = IF s = {} THEN 0
                     ELSE f[CHOOSE x \in s : TRUE].visits
                            + [u \in SUBSET T |-> it[u]][s \ {CHOOSE x \in s : TRUE}]
  <2>1. PICK c : c = CHOOSE x \in s : TRUE
    OBVIOUS
  <2>2. s \in SUBSET S /\ s \ {c} \in SUBSET T
    OBVIOUS
  <2>3. [u \in SUBSET T |-> it[u]][s \ {c}] = it[s \ {c}]
    BY <2>2
  <2>4. it[s] = IF s = {} THEN 0 ELSE f[c].visits + it[s \ {c}]
    BY <2>1, <2>2 DEF Adds
  <2>5. QED BY <2>1, <2>3, <2>4
<1>2. QED BY <1>1 DEF Adds

Summed(f, S) == \E it : Adds(f, S, it)

LEMMA SumOf ==
  ASSUME NEW f, NEW S, IsFiniteSet(S), NEW it, Adds(f, S, it), NEW T \in SUBSET S
  PROVE  Sum(f, T) = it[T]
<1>1. PICK jt : jt = CHOOSE x : Adds(f, T, x)
  OBVIOUS
<1>2. Adds(f, T, jt)
  BY <1>1, AddsWithin
<1>3. IsFiniteSet(T)
  BY FS_Subset
<1>4. jt[T] = it[T]
  BY <1>2, <1>3, AddsAgree
<1>5. QED BY <1>1, <1>4 DEF Sum

LEMMA SumByChoice ==
  ASSUME NEW f, NEW S, IsFiniteSet(S), Summed(f, S)
  PROVE  /\ S = {} => Sum(f, S) = 0
         /\ S # {} => \E c \in S : Sum(f, S) = f[c].visits + Sum(f, S \ {c})
<1>1. PICK it : Adds(f, S, it)
  BY DEF Summed
<1>2. PICK c : c = CHOOSE x \in S : TRUE
  OBVIOUS
<1>3. Sum(f, S) = it[S] /\ Sum(f, S \ {c}) = it[S \ {c}]
  BY <1>1, SumOf
<1>4. it[S] = IF S = {} THEN 0 ELSE f[c].visits + it[S \ {c}]
  BY <1>1, <1>2 DEF Adds
<1>5. S # {} => c \in S
  BY <1>2
<1>6. QED BY <1>3, <1>4, <1>5

LEMMA AlwaysSummed ==
  ASSUME NEW f, NEW S, IsFiniteSet(S)
  PROVE  Summed(f, S)
<1>1. PICK B : B = {T \in SUBSET S : ~Summed(f, T)}
  OBVIOUS
<1>2. SUFFICES ASSUME B # {} PROVE FALSE
  BY <1>1
<1>3. PICK T : Minimal(B, T)
  BY <1>1, <1>2, LeastSubset
<1>4. /\ T \in SUBSET S /\ ~Summed(f, T) /\ IsFiniteSet(T)
      /\ \A s \in SUBSET T : s # T => Summed(f, s) /\ IsFiniteSet(s)
  BY <1>1, <1>3, FS_Subset DEF Minimal
<1> DEFINE it == [s \in SUBSET T |->
                    IF s = T THEN IF T = {} THEN 0
                                  ELSE f[CHOOSE x \in T : TRUE].visits
                                         + Sum(f, T \ {CHOOSE x \in T : TRUE})
                    ELSE Sum(f, s)]
<1>5. ASSUME NEW s \in SUBSET T
      PROVE  it[s] = IF s = {} THEN 0
                     ELSE f[CHOOSE x \in s : TRUE].visits + it[s \ {CHOOSE x \in s : TRUE}]
  <2>1. PICK c : c = CHOOSE x \in s : TRUE
    OBVIOUS
  <2>2. s # {} => s \ {c} # T /\ s \ {c} \in SUBSET T
    BY <2>1
  <2>3. s # {} => it[s \ {c}] = Sum(f, s \ {c})
    BY <2>2
  <2>4. CASE s = T
    <3>1. it[s] = IF T = {} THEN 0
                  ELSE f[CHOOSE x \in T : TRUE].visits + Sum(f, T \ {CHOOSE x \in T : TRUE})
      BY <2>4
    <3>2. QED BY <2>1, <2>3, <2>4, <3>1
  <2>5. CASE s # T
    <3>1. it[s] = Sum(f, s)
      BY <2>5
    <3>2. Summed(f, s) /\ IsFiniteSet(s)
      BY <1>4, <2>5
    <3>3. PICK jt : Adds(f, s, jt)
      BY <3>2 DEF Summed
    <3>4. Sum(f, s) = jt[s] /\ Sum(f, s \ {c}) = jt[s \ {c}]
      BY <3>2, <3>3, SumOf
    <3>5. jt[s] = IF s = {} THEN 0 ELSE f[c].visits + jt[s \ {c}]
      BY <2>1, <3>3 DEF Adds
    <3>6. QED BY <2>1, <2>3, <3>1, <3>4, <3>5
  <2>6. QED BY <2>4, <2>5
<1>6. Adds(f, T, it)
  BY <1>5 DEF Adds
<1>7. QED BY <1>4, <1>6 DEF Summed

\* The elements may be added in any order, and what is added is not negative.
AddsUp(f, S) == \A x \in S : f[x].visits \in Nat

LEMMA SumType ==
  ASSUME NEW f, NEW S, IsFiniteSet(S), AddsUp(f, S)
  PROVE  Sum(f, S) \in Nat
<1>1. PICK B : B = {T \in SUBSET S : Sum(f, T) \notin Nat}
  OBVIOUS
<1>2. SUFFICES ASSUME B # {} PROVE FALSE
  BY <1>1
<1>3. PICK T : Minimal(B, T)
  BY <1>1, <1>2, LeastSubset
<1>4. /\ T \in SUBSET S /\ Sum(f, T) \notin Nat /\ IsFiniteSet(T)
      /\ \A U \in SUBSET T : U # T => Sum(f, U) \in Nat
  BY <1>1, <1>3, FS_Subset DEF Minimal
<1>5. Summed(f, T)
  BY <1>4, AlwaysSummed
<1>6. T # {}
  BY <1>4, <1>5, SumByChoice
<1>7. QED
  <2>1. PICK c \in T : Sum(f, T) = f[c].visits + Sum(f, T \ {c})
    BY <1>4, <1>5, <1>6, SumByChoice
  <2>2. f[c].visits \in Nat
    BY <1>4, <2>1 DEF AddsUp
  <2>3. Sum(f, T \ {c}) \in Nat
    BY <1>4, <2>1
  <2>4. QED BY <1>4, <2>1, <2>2, <2>3

LEMMA SumWithout ==
  ASSUME NEW f, NEW S, IsFiniteSet(S), AddsUp(f, S), NEW y \in S
  PROVE  Sum(f, S) = f[y].visits + Sum(f, S \ {y})
<1> DEFINE Splits(T) == \A x \in T : Sum(f, T) = f[x].visits + Sum(f, T \ {x})
<1>1. PICK B : B = {T \in SUBSET S : ~Splits(T)}
  OBVIOUS
<1>2. SUFFICES ASSUME B # {} PROVE FALSE
  BY <1>1
<1>3. PICK T : Minimal(B, T)
  BY <1>1, <1>2, LeastSubset
<1>4. /\ IsFiniteSet(T) /\ Summed(f, T) /\ T \in SUBSET S /\ ~Splits(T)
      /\ \A U \in SUBSET T : U # T => Splits(U)
  <2>1. T \in SUBSET S /\ ~Splits(T) /\ IsFiniteSet(T)
    BY <1>1, <1>3, FS_Subset DEF Minimal
  <2>2. \A U \in SUBSET T : U # T => Splits(U)
    BY <1>1, <1>3, <2>1 DEF Minimal
  <2>3. QED BY <2>1, <2>2, AlwaysSummed
<1>5. PICK x \in T : Sum(f, T) # f[x].visits + Sum(f, T \ {x})
  BY <1>4
<1>6. PICK c \in T : Sum(f, T) = f[c].visits + Sum(f, T \ {c})
  <2>1. T # {}
    BY <1>5
  <2>2. QED BY <1>4, <2>1, SumByChoice
<1>7. x # c
  BY <1>5, <1>6
<1>8. Sum(f, T \ {c}) = f[x].visits + Sum(f, (T \ {c}) \ {x})
  <2>1. Splits(T \ {c}) /\ x \in T \ {c}
    BY <1>4, <1>6, <1>7
  <2>2. QED BY <2>1
<1>9. Sum(f, T \ {x}) = f[c].visits + Sum(f, (T \ {x}) \ {c})
  <2>1. Splits(T \ {x}) /\ c \in T \ {x}
    BY <1>4, <1>6, <1>7
  <2>2. QED BY <2>1
<1>10. PICK W : W = (T \ {c}) \ {x}
  OBVIOUS
<1>11. W = (T \ {x}) \ {c}
  BY <1>10
<1>12. f[x].visits \in Nat /\ f[c].visits \in Nat /\ Sum(f, W) \in Nat
  <2>1. W \in SUBSET S /\ AddsUp(f, W)
    BY <1>4, <1>10 DEF AddsUp
  <2>2. IsFiniteSet(W)
    BY <2>1, FS_Subset
  <2>3. QED BY <1>4, <1>6, <2>1, <2>2, SumType DEF AddsUp
<1>13. PICK a \in Nat, b \in Nat, w \in Nat : a = f[x].visits /\ b = f[c].visits /\ w = Sum(f, W)
  BY <1>12
<1>14. Sum(f, T) = b + (a + w) /\ Sum(f, T \ {x}) = b + w
  BY <1>6, <1>8, <1>9, <1>10, <1>11, <1>13
<1>15. Sum(f, T) = a + Sum(f, T \ {x})
  BY <1>13, <1>14
<1>16. QED BY <1>5, <1>13, <1>15

LEMMA SumMore ==
  ASSUME NEW f, NEW S, IsFiniteSet(S), AddsUp(f, S), NEW T \in SUBSET S
  PROVE  Sum(f, T) <= Sum(f, S)
<1>1. PICK B : B = {U \in SUBSET S : ~(Sum(f, S \ U) <= Sum(f, S))}
  OBVIOUS
<1>2. SUFFICES ASSUME B # {} PROVE FALSE
  <2>1. S \ T \in SUBSET S /\ S \ (S \ T) = T
    OBVIOUS
  <2>2. QED BY <1>1, <2>1
<1>3. PICK U : Minimal(B, U)
  BY <1>1, <1>2, LeastSubset
<1>4. U \in SUBSET S /\ ~(Sum(f, S \ U) <= Sum(f, S))
  BY <1>1, <1>3 DEF Minimal
<1>5. \A V \in SUBSET S : Sum(f, V) \in Nat /\ IsFiniteSet(V) /\ AddsUp(f, V)
  BY FS_Subset, SumType DEF AddsUp
<1>6. U # {}
  <2>1. Sum(f, S) \in Nat /\ S \ {} = S
    BY <1>5
  <2>2. QED BY <1>4, <2>1
<1>7. PICK y \in U : TRUE
  BY <1>6
<1>8. PICK V : V = U \ {y}
  OBVIOUS
<1>9. V \in SUBSET S /\ y \in S \ V /\ (S \ V) \ {y} = S \ U /\ V \notin B
  <2>1. V \in SUBSET S /\ y \in S \ V /\ (S \ V) \ {y} = S \ U /\ V # U /\ V \subseteq U
    BY <1>4, <1>7, <1>8
  <2>2. QED BY <1>3, <2>1 DEF Minimal
<1>10. Sum(f, S \ V) <= Sum(f, S)
  BY <1>1, <1>9
<1>11. Sum(f, S \ V) = f[y].visits + Sum(f, S \ U)
  <2>1. S \ V \in SUBSET S
    OBVIOUS
  <2>2. QED BY <1>5, <1>9, <2>1, SumWithout
<1>12. f[y].visits \in Nat /\ Sum(f, S \ U) \in Nat /\ Sum(f, S) \in Nat /\ Sum(f, S \ V) \in Nat
  BY <1>5, <1>9 DEF AddsUp
<1>13. Sum(f, S \ U) <= Sum(f, S)
  BY <1>10, <1>11, <1>12
<1>14. QED BY <1>4, <1>13

LEMMA TotalIs ==
  ASSUME NEW gs, NEW edge
  PROVE  Total(edge, gs) = Sum(gs, {i \in DOMAIN gs : gs[i].edge = edge})
BY DEF Total, MapThenSumSet, MapThenFoldSet, Adds, Sum

LEMMA GrantsAddUp ==
  ASSUME NEW gs \in Seq(Grant), NEW S \in SUBSET DOMAIN gs
  PROVE  IsFiniteSet(S) /\ AddsUp(gs, S)
<1>1. Len(gs) \in Nat /\ DOMAIN gs = 1 .. Len(gs) /\ \A i \in DOMAIN gs : gs[i] \in Grant
  OBVIOUS
<1>2. IsFiniteSet(1 .. Len(gs))
  BY <1>1, FS_Interval
<1>3. IsFiniteSet(S)
  BY <1>1, <1>2, FS_Subset
<1>4. QED BY <1>1, <1>3 DEF AddsUp, Grant

\* What is granted by a position grows with it, up to all that was.
LEMMA GrantedGrows ==
  ASSUME NEW gs \in Seq(Grant), NEW edge, NEW k \in Nat, NEW m \in Nat, k <= m
  PROVE  /\ GrantedAt(gs, edge, k) \in Nat /\ GrantedAt(gs, edge, m) \in Nat
         /\ Total(edge, gs) \in Nat
         /\ GrantedAt(gs, edge, k) <= GrantedAt(gs, edge, m)
         /\ GrantedAt(gs, edge, k) <= Total(edge, gs)
<1>1. PICK S, T, U : /\ S = {i \in DOMAIN gs : gs[i].edge = edge /\ k >= gs[i].after}
                     /\ T = {i \in DOMAIN gs : gs[i].edge = edge /\ m >= gs[i].after}
                     /\ U = {i \in DOMAIN gs : gs[i].edge = edge}
  OBVIOUS
<1>2. /\ GrantedAt(gs, edge, k) = Sum(gs, S) /\ GrantedAt(gs, edge, m) = Sum(gs, T)
      /\ Total(edge, gs) = Sum(gs, U)
  BY <1>1, GrantedIs, TotalIs
<1>3. /\ S \in SUBSET DOMAIN gs /\ T \in SUBSET DOMAIN gs /\ U \in SUBSET DOMAIN gs
      /\ S \in SUBSET U
  BY <1>1
<1>4. S \in SUBSET T
  <2>1. \A i \in DOMAIN gs : gs[i].after \in Nat
    <3>1. \A i \in DOMAIN gs : gs[i] \in Grant
      OBVIOUS
    <3>2. QED BY <3>1 DEF Grant
  <2>2. \A i \in DOMAIN gs : k >= gs[i].after => m >= gs[i].after
    BY <2>1
  <2>3. QED BY <1>1, <2>2
<1>5. /\ IsFiniteSet(S) /\ AddsUp(gs, S) /\ IsFiniteSet(T) /\ AddsUp(gs, T)
      /\ IsFiniteSet(U) /\ AddsUp(gs, U)
  BY <1>3, GrantsAddUp
<1>6. Sum(gs, S) \in Nat /\ Sum(gs, T) \in Nat /\ Sum(gs, U) \in Nat
  BY <1>5, SumType
<1>7. Sum(gs, S) <= Sum(gs, T) /\ Sum(gs, S) <= Sum(gs, U)
  BY <1>3, <1>4, <1>5, SumMore
<1>8. QED BY <1>2, <1>6, <1>7

\* A grant adds its visits to the budget of its edge, from its position on.
LEMMA GrantedMore ==
  ASSUME NEW gs \in Seq(Grant), NEW x \in Grant, NEW k \in Nat, x.after <= k
  PROVE  GrantedAt(Append(gs, x), x.edge, k) = x.visits + GrantedAt(gs, x.edge, k)
<1> DEFINE hs == Append(gs, x)
<1>1. hs \in Seq(Grant)
  OBVIOUS
<1>2. /\ Len(gs) \in Nat /\ DOMAIN gs = 1 .. Len(gs) /\ DOMAIN hs = 1 .. Len(gs) + 1
      /\ hs[Len(gs) + 1] = x /\ \A i \in 1 .. Len(gs) : hs[i] = gs[i]
  OBVIOUS
<1> HIDE DEF hs
<1>3. x.after \in Nat
  BY DEF Grant
<1>4. PICK last : last = Len(gs) + 1
  OBVIOUS
<1>5. PICK S, T : /\ S = {i \in DOMAIN gs : gs[i].edge = x.edge /\ k >= gs[i].after}
                  /\ T = {i \in DOMAIN hs : hs[i].edge = x.edge /\ k >= hs[i].after}
  OBVIOUS
<1>6. last \in T /\ T \ {last} = S
  <2>1. \A i : i \in 1 .. Len(gs) + 1 <=> i \in 1 .. Len(gs) \/ i = last
    BY <1>2, <1>4
  <2>2. last \notin 1 .. Len(gs) /\ k >= x.after
    BY <1>2, <1>3, <1>4
  <2>3. QED BY <1>2, <1>4, <1>5, <2>1, <2>2
<1>7. IsFiniteSet(T) /\ AddsUp(hs, T)
  <2>1. T \in SUBSET DOMAIN hs
    BY <1>5
  <2>2. QED BY <1>1, <2>1, GrantsAddUp
<1>8. Sum(hs, T) = hs[last].visits + Sum(hs, S)
  BY <1>6, <1>7, SumWithout
<1>9. Sum(hs, S) = Sum(gs, S)
  <2>1. \A i \in S : hs[i].visits = gs[i].visits
    BY <1>2, <1>5
  <2>2. QED BY <2>1, SumAlike
<1>10. GrantedAt(hs, x.edge, k) = Sum(hs, T) /\ GrantedAt(gs, x.edge, k) = Sum(gs, S)
  BY <1>5, GrantedIs
<1>11. GrantedAt(hs, x.edge, k) = x.visits + GrantedAt(gs, x.edge, k)
  BY <1>2, <1>4, <1>8, <1>9, <1>10
<1>12. QED BY <1>11 DEF hs

-----------------------------------------------------------------------------
(* A grant that is accepted is not void *)

\* No loop edge was taken more often than its budget, so far, allows.
CountsWithin(g, taken, gs, k) ==
  \A n \in Node : \A i \in DOMAIN g[n] : \A most \in g[n][i].max :
    taken[<<n, g[n][i].to>>] <= most + GrantedAt(gs, <<n, g[n][i].to>>, k)

\* The edges are loop edges that the walk at x would take if they had budget.
Blocked(x, g, own, edges) ==
  \A edge \in edges : \E i \in DOMAIN g[x.node] :
    /\ edge = <<x.node, g[x.node][i].to>>
    /\ IsLoop(g[x.node][i]) /\ PassesAt(x, g[x.node][i], own)

Spot(mark) == [node |-> mark[1], tags |-> mark[2], inventory |-> mark[3], counts |-> mark[4]]

Affordable(g, edge, gs) ==
  \A i \in DOMAIN g[edge[1]] : g[edge[1]][i].to = edge[2] =>
    \A most \in g[edge[1]][i].max : most + Total(edge, gs) < HardCap

\* What was granted for this walk was more, and below the hard cap.
GrantedWell(s) ==
  \/ grants = s.grants
  \/ \E edge \in s.exhausted, n \in Nat \ {0} :
       /\ grants = Append(s.grants, [edge |-> edge, visits |-> n, after |-> Len(s.runs)])
       /\ Affordable(graph, edge, s.grants)

SavedOut(s) ==
  s.kind = "budget" =>
    /\ CountsWithin(s.graph, s.mark[4], s.grants, Len(s.runs))
    /\ Blocked(Spot(s.mark), s.graph, s.runs[Len(s.runs)], s.exhausted)

GrantInv ==
  /\ pc # "off" => CountsWithin(graph, counts, grants, Len(runs))
  /\ pc = "ended" /\ halt.kind = "budget" => Blocked(Here, graph, LastRun, halt.edges)
  /\ \A s \in saved : SavedOut(s)
  /\ pc # "off" /\ journal # <<>> => \A s \in saved : GrantedWell(s)
  /\ GrantMakesProgress

LEMMA PlainBudget ==
  ASSUME BudgetsPlain, NEW g \in Graphs, NEW n \in Node, NEW i \in DOMAIN g[n], IsLoop(g[n][i])
  PROVE  \E most \in Nat :
           /\ g[n][i].max = {most} /\ most = CHOOSE m \in g[n][i].max : TRUE
           /\ \A j \in DOMAIN g[n] : g[n][j].to = g[n][i].to => j = i
<1>1. PICK most \in g[n][i].max : most = CHOOSE m \in g[n][i].max : TRUE
  BY DEF IsLoop
<1>2. most \in Nat /\ g[n][i].max = {most}
  BY <1>1 DEF BudgetsPlain
<1>3. \A j \in DOMAIN g[n] : g[n][j].to = g[n][i].to => j = i
  BY DEF BudgetsPlain
<1>4. QED BY <1>1, <1>2, <1>3

LEMMA WithinLater ==
  ASSUME BudgetsPlain, NEW g \in Graphs, NEW taken \in [EdgeKey -> Nat], NEW gs \in Seq(Grant),
         NEW k \in Nat, NEW m \in Nat, k <= m, CountsWithin(g, taken, gs, k)
  PROVE  CountsWithin(g, taken, gs, m)
<1>1. ASSUME NEW n \in Node, NEW i \in DOMAIN g[n], NEW most \in g[n][i].max
      PROVE  taken[<<n, g[n][i].to>>] <= most + GrantedAt(gs, <<n, g[n][i].to>>, m)
  <2>1. most \in Nat /\ <<n, g[n][i].to>> \in EdgeKey
    <3>1. g[n] \in Seq(Edge)
      BY WalkAssumption
    <3>2. g[n][i] \in Edge
      BY <3>1
    <3>3. QED BY <3>2 DEF BudgetsPlain, EdgeKey, Edge
  <2>2. PICK e : e = <<n, g[n][i].to>>
    OBVIOUS
  <2>3. taken[e] \in Nat
    BY <2>1, <2>2
  <2>4. taken[e] <= most + GrantedAt(gs, e, k)
    BY <2>2 DEF CountsWithin
  <2>5. /\ GrantedAt(gs, e, k) \in Nat /\ GrantedAt(gs, e, m) \in Nat
        /\ GrantedAt(gs, e, k) <= GrantedAt(gs, e, m)
    BY GrantedGrows
  <2>6. taken[e] <= most + GrantedAt(gs, e, m)
    BY <2>1, <2>3, <2>4, <2>5
  <2>7. QED BY <2>2, <2>6
<1>2. QED BY <1>1 DEF CountsWithin

LEMMA WithinTaken ==
  ASSUME BudgetsPlain, Typed, FollowLoop, CountsWithin(graph, counts, grants, Len(runs))
  PROVE  CountsWithin(graph, counts', grants, Len(runs))
<1>1. PICK i \in DOMAIN graph[node] :
        /\ Selected(i) /\ IsLoop(graph[node][i])
        /\ counts' = [counts EXCEPT ![<<node, graph[node][i].to>>] = @ + 1]
  BY DEF FollowLoop, Edges
<1>2. /\ graph \in Graphs /\ node \in Node /\ counts \in [EdgeKey -> Nat]
      /\ grants \in Seq(Grant) /\ Len(runs) \in Nat
  BY DEF Typed, TypeOK
<1>3. PICK most \in Nat :
        /\ graph[node][i].max = {most} /\ most = CHOOSE m \in graph[node][i].max : TRUE
        /\ \A j \in DOMAIN graph[node] : graph[node][j].to = graph[node][i].to => j = i
  BY <1>1, <1>2, PlainBudget
<1>4. PICK e : e = <<node, graph[node][i].to>>
  OBVIOUS
<1>5. e \in EdgeKey
  <2>1. graph[node] \in Seq(Edge)
    BY <1>2, WalkAssumption
  <2>2. graph[node][i] \in Edge
    BY <2>1
  <2>3. QED BY <1>2, <1>4, <2>2 DEF EdgeKey, Edge
<1>6. GrantedAt(grants, e, Len(runs)) \in Nat /\ counts[e] \in Nat
  BY <1>2, <1>5, GrantedGrows
<1>7. counts'[e] <= most + GrantedAt(grants, e, Len(runs))
  <2>1. ~Spent(graph[node][i])
    BY <1>1 DEF Selected, Open, Edges
  <2>2. Granted(graph[node][i]) = most + GrantedAt(grants, e, Len(runs))
    BY <1>3, <1>4 DEF Granted, GrantedVisits, GrantedAt
  <2>3. ~(counts[e] >= most + GrantedAt(grants, e, Len(runs)))
    BY <1>1, <1>4, <2>1, <2>2 DEF Spent
  <2>4. counts'[e] = counts[e] + 1
    BY <1>1, <1>2, <1>4, <1>5
  <2>5. QED BY <1>6, <2>3, <2>4
<1>8. ASSUME NEW n \in Node, NEW j \in DOMAIN graph[n], NEW m \in graph[n][j].max
      PROVE  counts'[<<n, graph[n][j].to>>] <= m + GrantedAt(grants, <<n, graph[n][j].to>>, Len(runs))
  <2>1. CASE <<n, graph[n][j].to>> = e
    <3>1. n = node /\ graph[n][j].to = graph[node][i].to
      BY <1>4, <2>1
    <3>2. j = i /\ m = most
      BY <1>3, <3>1
    <3>3. QED BY <1>7, <2>1, <3>2
  <2>2. CASE <<n, graph[n][j].to>> # e
    <3>1. counts'[<<n, graph[n][j].to>>] = counts[<<n, graph[n][j].to>>]
      <4>1. graph[n] \in Seq(Edge)
        BY <1>2, WalkAssumption
      <4>2. graph[n][j] \in Edge
        BY <4>1
      <4>3. <<n, graph[n][j].to>> \in EdgeKey
        BY <4>2 DEF EdgeKey, Edge
      <4>4. QED BY <1>1, <1>2, <1>4, <2>2, <4>3
    <3>2. QED BY <3>1 DEF CountsWithin
  <2>3. QED BY <2>1, <2>2
<1>9. QED BY <1>8 DEF CountsWithin

LEMMA BudgetEnds ==
  ASSUME Next, pc \in {"enter", "route"}, pc' = "ended", halt'.kind = "budget"
  PROVE  /\ pc = "route" /\ ~Replaying /\ NoneOpen /\ halt'.edges = BudgetBlocked
<1>1. WalkStep
  BY DEF Next, Fresh, Resume, Begin, Walk, Conclude, ConcludeBadly, Killed, EditFiles, MoveRefs,
         EditGraph, Quit, worldVars, walkVars
<1>2. CASE AwaitApproval \/ HitRunCap \/ Diverge
  BY <1>1, <1>2 DEF AwaitApproval, HitRunCap, Diverge, MayEnter, End
<1>3. CASE VerificationFails \/ Pause \/ Stall \/ Finish
  BY <1>1, <1>3 DEF VerificationFails, Pause, Stall, Finish, MayRoute, End
<1>4. CASE Exhaust
  BY <1>4 DEF Exhaust, MayRoute, End
<1>5. CASE Replay \/ RunLive \/ FollowForward \/ FollowLoop
  BY <1>5 DEF Replay, RunLive, Complete, FollowForward, FollowLoop
<1>6. QED BY <1>1, <1>2, <1>3, <1>4, <1>5 DEF WalkStep

LEMMA BlockedHere == Blocked(Here, graph, LastRun, BudgetBlocked)
<1>1. Here.node = node /\ Here.tags = tags
  BY DEF Here
<1>2. ASSUME NEW edge \in BudgetBlocked
      PROVE  \E i \in DOMAIN graph[node] : /\ edge = <<node, graph[node][i].to>>
                                           /\ Passes(graph[node][i]) /\ IsLoop(graph[node][i])
  BY DEF BudgetBlocked, Edges, Spent
<1>3. \A e : Passes(e) <=> PassesAt(Here, e, LastRun)
  BY <1>1 DEF Passes, PassesAt
<1>4. QED BY <1>1, <1>2, <1>3 DEF Blocked

\* With a grant that is affordable, some edge that the recorded walk could not
\* take is open where that walk stopped.
LEMMA GrantOpens ==
  ASSUME BudgetsPlain, Typed, Retrace, pc = "route", NEW s \in saved, s.kind = "budget",
         SavedOut(s), graph = s.graph, journal = s.runs, Len(runs) = Len(journal),
         s.mark = Mark(Here), NEW edge \in s.exhausted, NEW n \in Nat \ {0},
         grants = Append(s.grants, [edge |-> edge, visits |-> n, after |-> Len(s.runs)]),
         Affordable(graph, edge, s.grants)
  PROVE  ~NoneOpen
<1>1. Spot(s.mark) = Here
  BY DEF Spot, Mark, Here
<1>2. LastRun = s.runs[Len(s.runs)]
  <2>1. Len(runs) \in DOMAIN runs \cap DOMAIN journal
    BY DEF Typed, TypeOK, Aligned
  <2>2. QED BY <2>1 DEF Retrace, LastRun
<1>3. Here.node = node /\ Here.tags = tags /\ Here.counts = counts /\ s.mark[4] = counts
  BY DEF Here, Mark
<1>4. PICK i \in DOMAIN graph[node] :
        /\ edge = <<node, graph[node][i].to>> /\ IsLoop(graph[node][i])
        /\ PassesAt(Here, graph[node][i], LastRun)
  BY <1>1, <1>2, <1>3 DEF SavedOut, Blocked
<1>5. /\ graph \in Graphs /\ node \in Node /\ counts \in [EdgeKey -> Nat]
      /\ s.grants \in Seq(Grant) /\ s.exhausted \subseteq EdgeKey
  BY DEF Typed, TypeOK, SavedType
<1>6. PICK k \in Nat : k = Len(runs)
  BY DEF Typed, TypeOK
<1>7. PICK most \in Nat :
        /\ graph[node][i].max = {most} /\ most = CHOOSE m \in graph[node][i].max : TRUE
        /\ \A j \in DOMAIN graph[node] : graph[node][j].to = graph[node][i].to => j = i
  <2>1. IsLoop(graph[node][i]) /\ graph \in Graphs /\ node \in Node
    BY <1>4, <1>5
  <2>2. QED BY <2>1, PlainBudget
<1>8. /\ counts[edge] \in Nat /\ GrantedAt(s.grants, edge, k) \in Nat /\ Total(edge, s.grants) \in Nat
      /\ GrantedAt(s.grants, edge, k) <= Total(edge, s.grants)
  BY <1>5, <1>6, GrantedGrows
<1>9. GrantedAt(grants, edge, k) = n + GrantedAt(s.grants, edge, k)
  <2>1. PICK x : x = [edge |-> edge, visits |-> n, after |-> k]
    OBVIOUS
  <2>2. x \in Grant /\ x.after <= k /\ x.edge = edge /\ x.visits = n
    BY <1>5, <1>6, <2>1 DEF Grant
  <2>3. GrantedAt(Append(s.grants, x), edge, k) = n + GrantedAt(s.grants, edge, k)
    BY <1>5, <1>6, <2>2, GrantedMore
  <2>4. QED BY <1>6, <2>1, <2>3
<1>10. counts[edge] <= most + GrantedAt(s.grants, edge, k)
  BY <1>3, <1>4, <1>5, <1>6, <1>7 DEF SavedOut, CountsWithin
<1>11. most + Total(edge, s.grants) < HardCap
  BY <1>4, <1>7 DEF Affordable
<1>12. ~SpentAt(Here, graph[node][i], grants, k)
  <2>1. ~(counts[edge] >= most + GrantedAt(grants, edge, k))
    BY <1>7, <1>8, <1>9, <1>10
  <2>2. ~(counts[edge] >= HardCap)
    BY <1>7, <1>8, <1>10, <1>11, WalkAssumption
  <2>3. QED BY <1>3, <1>4, <1>7, <2>1, <2>2 DEF SpentAt
<1>13. Open(i)
  BY <1>3, <1>4, <1>6, <1>12, HereOpen DEF OpenAt
<1>14. QED BY <1>4, <1>13 DEF NoneOpen, Edges

\* A walk that runs out of budget with its journal, did so before, and has no more.
LEMMA OutAgain ==
  ASSUME BudgetsPlain, Typed, Retrace, PathInv, GrantInv, pc = "route", NoneOpen, NEW s \in saved,
         graph = s.graph, Len(runs) = Len(journal)
  PROVE  s.kind = "budget" /\ grants = s.grants
<1>1. journal # <<>>
  BY DEF Typed, TypeOK, Aligned
<1>2. /\ SavedStop(s) /\ journal = s.runs /\ GrantedSince(s) /\ SavedOut(s) /\ GrantedWell(s)
      /\ \A w : Stopped(s, w) => Tracks(s, w)
  BY <1>1 DEF PathInv, Replays, GrantInv
<1>3. PICK w : Stopped(s, w) /\ Tracks(s, w)
  BY <1>2 DEF SavedStop
<1>4. s.kind = "budget"
  <2>1. SUFFICES ASSUME s.kind # "budget" PROVE FALSE
    OBVIOUS
  <2>2. Within(s)
    BY <1>2, <2>1 DEF Within
  <2>3. Leaves(Here, graph, grants, runs, Len(runs), snapshots, w[Len(runs) + 1])
    BY <1>2, <1>3, <2>2, OnTrack
  <2>4. QED BY <2>3, HereGoes
<1>5. s.mark = Mark(Here)
  <2>1. ReplayIsFaithful
    BY PathFaithful
  <2>2. QED BY <1>1, <1>4, <2>1 DEF ReplayIsFaithful, Mark, Here
<1>6. grants = s.grants
  BY <1>2, <1>4, <1>5, GrantOpens DEF GrantedWell
<1>7. QED BY <1>4, <1>6

LEMMA GrantRecorded ==
  ASSUME BudgetsPlain, Typed, GrantInv, pc = "enter", NEW run, Complete(run), UNCHANGED worldVars
  PROVE  GrantInv'
<1>1. /\ UNCHANGED <<journal, grants, graph, counts, halt, saved>> /\ pc' = "route"
  BY DEF Complete, worldVars
<1>2. PICK k \in Nat : k = Len(runs)
  BY DEF Typed, TypeOK
<1>3. Len(runs') = k + 1
  BY <1>2, Recorded
<1>4. CountsWithin(graph, counts, grants, k + 1)
  <2>1. /\ graph \in Graphs /\ counts \in [EdgeKey -> Nat] /\ grants \in Seq(Grant)
        /\ CountsWithin(graph, counts, grants, k) /\ k + 1 \in Nat /\ k <= k + 1
    BY <1>2 DEF Typed, TypeOK, GrantInv
  <2>2. QED BY <2>1, WithinLater
<1>5. CountsWithin(graph, counts, grants, Len(runs))'
  BY <1>1, <1>3, <1>4
<1>6. \A s \in saved : SavedOut(s)' /\ (journal # <<>> => GrantedWell(s)')
  BY <1>1 DEF GrantInv, SavedOut, GrantedWell
<1>7. GrantMakesProgress'
  BY <1>1 DEF GrantMakesProgress
<1>8. QED BY <1>1, <1>5, <1>6, <1>7 DEF GrantInv

LEMMA GrantLeaves ==
  ASSUME BudgetsPlain, Typed, GrantInv, FollowForward \/ FollowLoop, UNCHANGED worldVars
  PROVE  GrantInv'
<1>1. /\ UNCHANGED <<journal, grants, graph, runs, saved>> /\ pc = "route" /\ pc' = "enter"
  BY DEF FollowForward, FollowLoop, MayRoute, worldVars
<1>2. CountsWithin(graph, counts, grants, Len(runs))
  BY <1>1 DEF GrantInv
<1>3. CountsWithin(graph, counts', grants, Len(runs))
  <2>1. CASE FollowForward
    BY <1>2, <2>1 DEF FollowForward
  <2>2. CASE FollowLoop
    BY <1>2, <2>2, WithinTaken
  <2>3. QED BY <2>1, <2>2
<1>4. CountsWithin(graph, counts, grants, Len(runs))'
  BY <1>1, <1>3
<1>5. \A s \in saved : SavedOut(s)' /\ (journal # <<>> => GrantedWell(s)')
  BY <1>1 DEF GrantInv, SavedOut, GrantedWell
<1>6. GrantMakesProgress'
  BY <1>1 DEF GrantMakesProgress
<1>7. QED BY <1>1, <1>4, <1>5, <1>6 DEF GrantInv

LEMMA GrantEnds ==
  ASSUME BudgetsPlain, Typed, Retrace, PathInv, GrantInv, Next, pc \in {"enter", "route"},
         pc' = "ended"
  PROVE  GrantInv'
<1>1. /\ UNCHANGED <<graph, journal, grants, node, runs, tags, inventory, counts, snapshots, saved>>
      /\ Here' = Here /\ LastRun' = LastRun
  BY EndsAt DEF Here, LastRun
<1>2. CountsWithin(graph, counts, grants, Len(runs))'
  BY <1>1 DEF GrantInv
<1>3. ASSUME halt'.kind = "budget"
      PROVE  Blocked(Here, graph, LastRun, halt.edges)'
  BY <1>1, <1>3, BudgetEnds, BlockedHere
<1>4. \A s \in saved : SavedOut(s)' /\ (journal # <<>> => GrantedWell(s)')
  BY <1>1 DEF GrantInv, SavedOut, GrantedWell
<1>5. GrantMakesProgress'
  <2>1. ASSUME NEW s \in saved, halt'.kind = "budget", graph = s.graph, Len(runs) = Len(journal)
        PROVE  s.kind = "budget" /\ grants = s.grants
    BY <2>1, BudgetEnds, OutAgain
  <2>2. QED BY <1>1, <2>1 DEF GrantMakesProgress
<1>6. QED BY <1>1, <1>2, <1>3, <1>4, <1>5 DEF GrantInv

LEMMA GrantableIsAffordable ==
  ASSUME BudgetsPlain, Typed, NEW s \in saved, NEW edge \in Grantable(s)
  PROVE  edge \in s.exhausted /\ Affordable(served, edge, s.grants)
<1>1. edge \in s.exhausted /\ ~Absorbed(s, edge)
  BY DEF Grantable
<1>2. /\ edge[1] \in Node /\ served \in Graphs /\ s.grants \in Seq(Grant)
      /\ Total(edge, s.grants) \in Nat
  <2>1. edge \in EdgeKey /\ s.grants \in Seq(Grant) /\ served \in Graphs /\ 0 \in Nat /\ 0 <= 0
    BY <1>1 DEF Typed, TypeOK, SavedType
  <2>2. Total(edge, s.grants) \in Nat
    BY <2>1, GrantedGrows
  <2>3. QED BY <2>1, <2>2 DEF EdgeKey
<1>3. ASSUME NEW i \in DOMAIN served[edge[1]], served[edge[1]][i].to = edge[2],
             NEW most \in served[edge[1]][i].max
      PROVE  most + Total(edge, s.grants) < HardCap
  <2>1. i \in Nat /\ most \in Nat
    <3>1. served[edge[1]] \in Seq(Edge)
      BY <1>2, WalkAssumption
    <3>2. QED BY <1>2, <3>1 DEF BudgetsPlain
  <2>2. \A k \in DOMAIN served[edge[1]] : served[edge[1]][k].to = edge[2] => i = k
    BY <1>2, <1>3 DEF BudgetsPlain
  <2>3. PICK toward : toward = {k \in DOMAIN served[edge[1]] : served[edge[1]][k].to = edge[2]}
    OBVIOUS
  <2>4. i \in {k \in toward : \A h \in toward : k <= h}
    BY <1>3, <2>1, <2>2, <2>3
  <2>5. most \in DeclaredMax(edge)
    BY <2>3, <2>4 DEF DeclaredMax
  <2>6. ~(most + Total(edge, s.grants) >= HardCap)
    BY <1>1, <2>5 DEF Absorbed
  <2>7. QED BY <1>2, <2>1, <2>6, WalkAssumption
<1>4. QED BY <1>1, <1>3 DEF Affordable

LEMMA GrantBegins ==
  ASSUME BudgetsPlain, Typed, PathInv, GrantInv, Fresh \/ Resume
  PROVE  GrantInv'
<1> DEFINE Well(s, gs) ==
             \/ gs = s.grants
             \/ \E edge \in s.exhausted, n \in Nat \ {0} :
                  /\ gs = Append(s.grants, [edge |-> edge, visits |-> n, after |-> Len(s.runs)])
                  /\ Affordable(served, edge, s.grants)
           Given(j, gs) == j = <<>> \/ \E s \in saved : Well(s, gs)
<1>1. PICK j, gs, feedback, steps : Begin(j, gs, feedback, steps) /\ Given(j, gs)
  <2>1. CASE Fresh
    <3>1. PICK steps : Begin(<<>>, <<>>, 0, steps)
      BY <2>1 DEF Fresh
    <3>2. Given(<<>>, <<>>)
      OBVIOUS
    <3>3. QED BY <3>1, <3>2
  <2>2. CASE Resume
    <3>1. PICK s \in saved, steps \in SUBSET GatedSteps :
            \/ \E feedback \in {s.feedback, resumes + 1} : Begin(s.runs, s.grants, feedback, steps)
            \/ \E edge \in Grantable(s), n \in 1 .. MaxGrant :
                 Begin(s.runs, Append(s.grants, [edge |-> edge, visits |-> n, after |-> Len(s.runs)]),
                       resumes + 1, steps)
      BY <2>2 DEF Resume
    <3>2. ASSUME NEW feedback, Begin(s.runs, s.grants, feedback, steps)
          PROVE  \E j, gs, f, st : Begin(j, gs, f, st) /\ Given(j, gs)
      <4>1. Given(s.runs, s.grants)
        OBVIOUS
      <4>2. QED BY <3>2, <4>1
    <3>3. ASSUME NEW edge \in Grantable(s), NEW n \in 1 .. MaxGrant, NEW gs,
                 gs = Append(s.grants, [edge |-> edge, visits |-> n, after |-> Len(s.runs)]),
                 Begin(s.runs, gs, resumes + 1, steps)
          PROVE  \E j, hs, f, st : Begin(j, hs, f, st) /\ Given(j, hs)
      <4>1. n \in Nat \ {0}
        BY ResumeAssumption
      <4>2. edge \in s.exhausted /\ Affordable(served, edge, s.grants)
        BY GrantableIsAffordable
      <4>3. Given(s.runs, gs)
        BY <3>3, <4>1, <4>2
      <4>4. QED BY <3>3, <4>3
    <3>4. QED BY <3>1, <3>2, <3>3
  <2>3. QED BY <2>1, <2>2
<1>2. /\ journal' = j /\ grants' = gs /\ graph' = served /\ runs' = <<>> /\ saved' = saved
      /\ counts' = [e \in EdgeKey |-> 0] /\ pc' = "enter" /\ halt' = Running
  BY <1>1 DEF Begin, Blank
<1>3. Typed'
  BY TypedFresh, TypedResume
<1>4. gs \in Seq(Grant) /\ served \in Graphs
  BY <1>2, <1>3 DEF Typed, TypeOK
<1>5. CountsWithin(served, counts', gs, 0)
  <2>1. ASSUME NEW n \in Node, NEW i \in DOMAIN served[n], NEW most \in served[n][i].max
        PROVE  counts'[<<n, served[n][i].to>>] <= most + GrantedAt(gs, <<n, served[n][i].to>>, 0)
    <3>1. most \in Nat /\ <<n, served[n][i].to>> \in EdgeKey
      <4>1. served[n] \in Seq(Edge)
        BY <1>4, WalkAssumption
      <4>2. served[n][i] \in Edge
        BY <4>1
      <4>3. QED BY <1>4, <4>2 DEF BudgetsPlain, EdgeKey, Edge
    <3>2. GrantedAt(gs, <<n, served[n][i].to>>, 0) \in Nat
      BY <1>4, GrantedGrows
    <3>3. counts'[<<n, served[n][i].to>>] = 0
      BY <1>2, <3>1
    <3>4. QED BY <3>1, <3>2, <3>3
  <2>2. QED BY <2>1 DEF CountsWithin
<1>6. CountsWithin(graph, counts, grants, Len(runs))'
  BY <1>2, <1>5
<1>7. ASSUME NEW s \in saved, j # <<>>
      PROVE  GrantedWell(s)'
  <2>1. Well(s, gs)
    BY <1>1, <1>7 DEF PathInv
  <2>2. QED BY <1>2, <2>1 DEF GrantedWell
<1>8. \A s \in saved : SavedOut(s)'
  BY DEF GrantInv, SavedOut
<1>9. GrantMakesProgress'
  BY <1>2 DEF GrantMakesProgress
<1>10. QED BY <1>2, <1>6, <1>7, <1>8, <1>9 DEF GrantInv

LEMMA GrantQuits ==
  ASSUME Typed, GrantInv, Next, Quits
  PROVE  GrantInv'
<1>1. pc' = "off"
  BY DEF Quits, Quit
<1>2. \/ saved' = saved \/ saved' = {}
      \/ pc = "ended" /\ Resumable /\ \E hash : saved' = {StateToSave(hash)}
  BY <1>1 DEF Next, Fresh, Resume, Begin, Walk, worldVars, Conclude, ConcludeBadly, Killed,
              EditFiles, MoveRefs, EditGraph, WriteOrClear
<1>3. GrantMakesProgress'
  BY <1>1 DEF GrantMakesProgress
<1>4. CASE saved' = saved \/ saved' = {}
  <2>1. \A s \in saved' : SavedOut(s)'
    BY <1>4 DEF GrantInv, SavedOut
  <2>2. QED BY <1>1, <1>3, <2>1 DEF GrantInv
<1>5. ASSUME pc = "ended", NEW hash, saved' = {StateToSave(hash)}
      PROVE  GrantInv'
  <2>1. PICK s : s = StateToSave(hash)
    OBVIOUS
  <2>2. /\ s.runs = runs /\ s.grants = grants /\ s.graph = graph /\ s.kind = halt.kind
        /\ s.mark[4] = counts /\ Spot(s.mark) = Here
        /\ s.exhausted = IF halt.kind = "budget" THEN halt.edges ELSE {}
    BY <2>1 DEF StateToSave, Spot, Here
  <2>3. CountsWithin(graph, counts, grants, Len(runs))
    BY <1>5 DEF GrantInv
  <2>4. halt.kind = "budget" => Blocked(Here, graph, LastRun, halt.edges)
    BY <1>5 DEF GrantInv
  <2>5. SavedOut(s)
    BY <2>2, <2>3, <2>4 DEF SavedOut, LastRun
  <2>6. SavedOut(s)'
    BY <2>5 DEF SavedOut
  <2>7. QED BY <1>1, <1>3, <1>5, <2>1, <2>6 DEF GrantInv
<1>6. QED BY <1>2, <1>4, <1>5

LEMMA GrantStep ==
  ASSUME BudgetsPlain, Typed, GateInv, PathInv, GrantInv, [Next]_vars
  PROVE  GrantInv'
<1>1. Retrace
  BY DEF GateInv
<1>2. CASE Fresh \/ Resume
  BY <1>2, GrantBegins
<1>3. CASE (Replay \/ RunLive) /\ UNCHANGED worldVars
  <2>1. PICK run : Complete(run)
    BY <1>3 DEF Replay, RunLive
  <2>2. pc = "enter"
    BY <1>3 DEF Replay, RunLive, MayEnter
  <2>3. QED BY <1>3, <2>1, <2>2, GrantRecorded
<1>4. CASE (FollowForward \/ FollowLoop) /\ UNCHANGED worldVars
  BY <1>4, GrantLeaves
<1>5. CASE Ends /\ Next
  <2>1. pc \in {"enter", "route"} /\ pc' = "ended"
    BY <1>5 DEF Ends, End
  <2>2. QED BY <1>1, <1>5, <2>1, GrantEnds
<1>6. CASE Quits /\ Next
  BY <1>6, GrantQuits
<1>7. CASE Outside
  <2>1. pc' = "off" /\ saved' = saved
    BY <1>7 DEF Outside
  <2>2. QED BY <2>1 DEF GrantInv, SavedOut, GrantMakesProgress
<1>8. CASE UNCHANGED vars
  <2>1. /\ UNCHANGED <<saved, pc, journal, grants, graph, counts, halt, runs>>
        /\ Here' = Here /\ LastRun' = LastRun
    BY <1>8 DEF vars, walkVars, worldVars, Here, LastRun
  <2>2. QED BY <2>1 DEF GrantInv, SavedOut, GrantedWell, GrantMakesProgress
<1>9. QED BY <1>2, <1>3, <1>4, <1>5, <1>6, <1>7, <1>8, StepKinds

\* GrantMakesProgress (run.ts resolveGrants, graphWalker.ts grantedVisits): where a
\* budget is a natural number and of one edge, a resumed walk that was granted more,
\* or that had stopped at a gate or at the run cap, does not run out of budget where
\* it resumed, whatever was granted, resumed and edited before.
THEOREM GrantsBuyProgress ==
  ASSUME BudgetsPlain
  PROVE  Spec => []GrantMakesProgress
<1>1. Init => Typed /\ GateInv /\ PathInv /\ GrantInv
  <2>1. ASSUME Init
        PROVE  GateInv /\ PathInv /\ GrantInv
    <3>1. GateInv /\ PathInv
      BY <2>1 DEF Init, GateInv, Retrace, Sourced, GateRespected, NoTags, PathInv
    <3>2. QED BY <2>1, <3>1 DEF Init, GrantInv, GrantMakesProgress
  <2>2. QED BY <2>1, TypedInit
<1>2. /\ Typed /\ GateInv /\ PathInv /\ GrantInv /\ [Next]_vars
      => (Typed /\ GateInv /\ PathInv /\ GrantInv)'
  BY TypedStep, GateStep, PathStep, GrantStep
<1>3. GrantInv => GrantMakesProgress
  BY DEF GrantInv
<1>4. QED BY <1>1, <1>2, <1>3, PTL DEF Spec
=============================================================================
