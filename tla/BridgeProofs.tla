---------------------------- MODULE BridgeProofs ----------------------------
(***************************************************************************)
(* What holds of the config bridge for every library of tools, every set   *)
(* of variations and environments, every history of the repository, and    *)
(* any number of runs, failures, deaths and edits: an upgrade that reports *)
(* success leaves what its checkout commits, the stamp does not lie about  *)
(* a project nobody touched, and an operator's word stands.                *)
(*                                                                         *)
(* The invariant is a function of the project, the run, the excuse and the *)
(* release, so that the outcomes of a call (answered, failed, applied with *)
(* its answer lost) are instances of one formula.  Base holds whatever     *)
(* fails; Earned is what a run has earned by not failing.                  *)
(***************************************************************************)
EXTENDS ConfigBridge, TLAPS

Stage ==
  {"off", "tools", "model", "config", "variations", "judges", "attach", "rules", "graph", "flag", "flagRules",
   "metric", "sync", "read", "patch", "remodel", "stamp", "done"}

ToolState == [version : Nat, def : Nat]

Project ==
  [tool : [Tool -> ToolState], made : SUBSET {"model", "config", "graph", "flag", "metric"},
   live : [Variation -> LiveVariation], rules : [{"config", "flag"} -> [Env -> Hand]], shape : Nat, stamp : Nat]

Run ==
  [pc : Stage, kind : {"provision", "upgrade"}, v : Nat, todo : SUBSET (Tool \union Variation \union Env),
   var : Variation, versions : Refs, read : [Variation -> LiveVariation], created : SUBSET (Tool \union {"config"}),
   adopted : BOOLEAN, clean : BOOLEAN]

\* A run is of a version at least as new as the stamp.
Typed(l, r, rel) ==
  /\ l \in Project /\ r \in Run /\ rel \in 1 .. Len(Committed)
  /\ r.v \in 1 .. rel /\ l.stamp <= rel
  /\ r.pc # "off" => l.stamp <= r.v

\* What a stage has still to do.
TodoOK(r) ==
  /\ r.pc = "off" => r.created = {}
  /\ r.pc \in {"tools", "sync"} => r.todo \subseteq Tool /\ r.todo # {}
  /\ r.pc \in {"variations", "judges", "attach", "patch", "remodel"} => r.todo \subseteq Variation
  /\ r.pc \in {"variations", "patch"} => r.todo # {}
  /\ r.pc \in {"judges", "attach"} => r.var \notin r.todo
  /\ r.pc = "remodel" => r.var \in r.todo
  /\ r.pc = "rules" => "config" \in r.created

\* Versions are of tools as the library has had them.
VersionsOK(l, r) ==
  /\ \A x \in Variation, t \in Tool : l.live[x].refs[t] <= l.tool[t].version
  /\ \A t \in Tool : r.versions[t] <= l.tool[t].version
  /\ \A t \in Tool : t \in r.created => l.tool[t].version # Absent

\* An operator has to do with what is there only.
MadeOK(l, r) ==
  /\ \A on \in {"config", "flag"} : on \notin l.made => \A e \in Env : l.rules[on][e] # "operator"
  /\ \A x \in Variation : l.live[x].there => "config" \in l.made
  /\ \A x \in Variation : ~l.live[x].there => l.live[x].model = "committed"
  /\ r.pc \in {"variations", "judges", "attach"} => \A x \in r.todo : ~l.live[x].there
  /\ r.pc \in {"patch", "remodel"} => \A x \in r.todo : l.live[x].there

Base(l, r, rel) == Typed(l, r, rel) /\ TodoOK(r) /\ VersionsOK(l, r) /\ MadeOK(l, r)

\* Whose word a clean run is about to write over.
WordOK(l, r) ==
  r.clean =>
    /\ "config" \in r.created => \A e \in Env : l.rules["config"][e] # "operator"
    /\ r.pc = "flagRules" => \A e \in Env : l.rules["flag"][e] # "operator"
    /\ r.pc \in {"patch", "remodel"} => \A x \in r.todo : r.read[x].model = l.live[x].model

Creating   == {"model", "config", "variations", "judges", "attach", "rules", "graph", "flag", "flagRules", "metric"}
Refreshing == {"sync", "read", "patch", "remodel", "stamp"}

Present(l, t)   == l.tool[t].version # Absent
Seen(l, r, t)   == r.versions[t] = l.tool[t].version
Current(l, v, t) == l.tool[t].def = Committed[v].def
Same(l, r, x) ==
  /\ r.read[x].text = l.live[x].text /\ r.read[x].judged = l.live[x].judged /\ r.read[x].refs = l.live[x].refs
Full(l, v, x) ==
  /\ l.live[x].text = Committed[v].text /\ (Committed[v].judged => l.live[x].judged)
  /\ \A t \in Tool : l.live[x].refs[t] = l.tool[t].version

ContentOf(l, v) ==
  /\ {"config", "graph"} \subseteq l.made
  /\ \A t \in Tool : Present(l, t) /\ Current(l, v, t)
  /\ \A x \in Variation : l.live[x].there /\ Full(l, v, x)
  /\ l.shape = Committed[v].shape

\* How far a run has come in which nothing failed and nobody edited.
Progress(l, r) ==
  /\ r.pc = "tools" => \A t \in Tool \ r.todo : Present(l, t) /\ Seen(l, r, t)
  /\ r.pc \in Creating => \A t \in Tool : Present(l, t) /\ Seen(l, r, t)
  /\ r.pc \in {"variations", "judges", "attach"} =>
       "config" \in l.made /\ \A x \in Variation \ r.todo : l.live[x].there
  /\ r.pc \in {"rules", "graph", "flag", "flagRules", "metric"} \union Refreshing =>
       "config" \in l.made /\ \A x \in Variation : l.live[x].there
  /\ r.pc \in {"flag", "flagRules", "metric"} \union Refreshing => "graph" \in l.made
  /\ r.pc = "sync" =>
       /\ \A t \in Tool : Present(l, t)
       /\ \A t \in Tool \ r.todo : Seen(l, r, t) /\ Current(l, r.v, t)
  /\ r.pc \in Refreshing \ {"sync"} => \A t \in Tool : Present(l, t) /\ Seen(l, r, t) /\ Current(l, r.v, t)
  /\ r.pc = "patch" => \A x \in Variation : IF x \in r.todo THEN Same(l, r, x) ELSE Full(l, r.v, x)
  /\ r.pc = "remodel" => \A x \in Variation : IF x \in r.todo \ {r.var} THEN Same(l, r, x) ELSE Full(l, r.v, x)
  /\ r.pc = "stamp" => \A x \in Variation : Full(l, r.v, x)

\* What such a run knows of a project in which it found nothing.
Anew(l, r) ==
  /\ r.pc = "tools" => \A t \in Tool \ r.todo : Current(l, r.v, t)
  /\ r.pc \in {"model", "config", "variations", "judges", "attach", "rules", "graph"} =>
       \A t \in Tool : Current(l, r.v, t)
  /\ r.pc \in {"variations", "judges", "attach"} =>
       \A x \in Variation \ r.todo : (r.pc # "variations" /\ x = r.var) \/ Full(l, r.v, x)
  /\ r.pc \in {"judges", "attach"} => l.live[r.var].text = Committed[r.v].text
  /\ r.pc = "attach" /\ Committed[r.v].judged => l.live[r.var].judged
  /\ r.pc \in {"rules", "graph"} => \A x \in Variation : Full(l, r.v, x)

Earned(l, r, ex, rel) ==
  /\ WordOK(l, r)
  /\ r.clean \/ ~ex => Progress(l, r)
  /\ ~ex /\ ~r.adopted => Anew(l, r)
  /\ r.pc = "done" /\ r.kind = "upgrade" /\ r.clean => ContentOf(l, r.v) /\ l.stamp = r.v
  /\ "graph" \in l.made /\ l.stamp = rel /\ ~ex => ContentOf(l, rel)

IInv == Base(ld, run, release) /\ Earned(ld, run, excused, release)

(***************************************************************************)
(* The empty project, and no run.                                          *)
(***************************************************************************)
LEMMA Empty ==
  /\ NoRefs \in Refs /\ (\A t \in Tool : NoRefs[t] = Absent)
  /\ NoVariation \in LiveVariation /\ ~NoVariation.there /\ NoVariation.model = "committed"
  /\ NoVariation.refs = NoRefs
<1>1. NoRefs \in Refs /\ \A t \in Tool : NoRefs[t] = Absent  BY DEF NoRefs, Refs, Absent
<1> QED BY <1>1 DEF NoVariation, LiveVariation, Model

LEMMA Idle ==
  /\ NoRun \in Run /\ NoRun.pc = "off" /\ NoRun.kind = "provision" /\ NoRun.v = 1 /\ NoRun.todo = {} /\ NoRun.versions = NoRefs
  /\ NoRun.created = {} /\ NoRun.clean /\ ~NoRun.adopted
<1>1. [x \in Variation |-> NoVariation] \in [Variation -> LiveVariation]  BY Empty
<1>2. Default \in Variation  BY BridgeAssumption
<1> QED BY <1>1, <1>2, Empty DEF NoRun, Run, Stage

LEMMA Versioned ==
  ASSUME NEW v \in 1 .. Len(Committed)
  PROVE  /\ Committed[v].text \in Nat /\ Committed[v].text # 0 /\ Committed[v].def \in Nat
         /\ Committed[v].shape \in Nat /\ Committed[v].judged \in BOOLEAN
<1> DEFINE S == [text : Nat \ {0}, def : Nat, shape : Nat, judged : BOOLEAN]
<1>1. Committed \in Seq(S)  BY BridgeAssumption
<1> HIDE DEF S
<1>2. Committed[v] \in S  BY <1>1
<1> QED BY <1>2 DEF S

LEMMA Initially == Init => IInv
<1> SUFFICES ASSUME Init PROVE IInv
  OBVIOUS
<1>1. ld = EmptyProject /\ run = NoRun /\ release = 1 /\ excused = FALSE  BY DEF Init
<1>2. 1 \in 1 .. Len(Committed)  BY BridgeAssumption
<1>3. [t \in Tool |-> [version |-> Absent, def |-> 0]] \in [Tool -> ToolState]  BY DEF ToolState, Absent
<1>4. [on \in {"config", "flag"} |-> Fresh] \in [{"config", "flag"} -> [Env -> Hand]]  BY DEF Fresh, Hand
<1>5. [x \in Variation |-> NoVariation] \in [Variation -> LiveVariation]  BY Empty
<1>6. /\ ld \in Project /\ ld.stamp = 0 /\ ld.made = {}
      /\ \A x \in Variation : ld.live[x] = NoVariation
      /\ \A t \in Tool : ld.tool[t].version = Absent
      /\ \A on \in {"config", "flag"}, e \in Env : ld.rules[on][e] = "default"
  BY <1>1, <1>3, <1>4, <1>5 DEF EmptyProject, Project, Fresh
<1>7. Typed(ld, run, release)  BY <1>1, <1>2, <1>6, Idle DEF Typed
<1>8. TodoOK(run)  BY <1>1, Idle DEF TodoOK
<1>9. VersionsOK(ld, run) /\ MadeOK(ld, run)  BY <1>1, <1>6, Idle, Empty DEF VersionsOK, MadeOK, Absent
<1>10. Earned(ld, run, excused, release)
  BY <1>1, <1>6, Idle DEF Earned, WordOK, Progress, Anew, Creating, Refreshing
<1> QED BY <1>7, <1>8, <1>9, <1>10 DEF IInv, Base

(***************************************************************************)
(* Calls.                                                                  *)
(***************************************************************************)
\* A run that has failed has earned nothing.
LEMMA Failed ==
  ASSUME NEW l, NEW r \in Run, NEW rel, Base(l, r, rel)
  PROVE  /\ Base(l, [r EXCEPT !.clean = FALSE], rel)
         /\ Earned(l, [r EXCEPT !.clean = FALSE], TRUE, rel)
<1>1. PICK q : q = [r EXCEPT !.clean = FALSE]  OBVIOUS
<1>2. /\ q \in Run /\ q.pc = r.pc /\ q.kind = r.kind /\ q.v = r.v /\ q.todo = r.todo /\ q.var = r.var
      /\ q.versions = r.versions /\ q.read = r.read /\ q.created = r.created /\ q.adopted = r.adopted /\ ~q.clean
  BY <1>1 DEF Run
<1>3. Base(l, q, rel)  BY <1>2 DEF Base, Typed, TodoOK, VersionsOK, MadeOK
<1>4. Earned(l, q, TRUE, rel)  BY <1>2 DEF Earned, WordOK
<1> QED BY <1>1, <1>3, <1>4

LEMMA CallsInv ==
  ASSUME NEW after, NEW ok, NEW broken, Calls(after, ok, broken), UNCHANGED release,
         Base(after, ok, release), Earned(after, ok, excused, release),
         Base(ld, broken, release), Base(after, broken, release)
  PROVE  IInv'
<1>1. CASE ld' = after /\ run' = ok /\ UNCHANGED <<faults, excused>>  BY <1>1 DEF IInv
<1>2. CASE ld' \in {ld, after} /\ run' = [broken EXCEPT !.clean = FALSE] /\ excused' = TRUE
  <2>1. broken \in Run  BY DEF Base, Typed
  <2>2. PICK q : q = [broken EXCEPT !.clean = FALSE]  OBVIOUS
  <2>3. /\ Base(ld, q, release) /\ Earned(ld, q, TRUE, release)
        /\ Base(after, q, release) /\ Earned(after, q, TRUE, release)
    BY <2>1, <2>2, Failed
  <2> QED BY <1>2, <2>2, <2>3 DEF IInv
<1> QED BY <1>1, <1>2 DEF Calls

\* A run that ends, or dies, leaves the project as it is.
LEMMA RunGone ==
  ASSUME IInv, run' = NoRun, UNCHANGED <<ld, release, excused>>
  PROVE  IInv'
<1>1. 1 \in 1 .. release  BY DEF IInv, Base, Typed
<1>2. Base(ld, NoRun, release)
  BY <1>1, Idle, Empty DEF IInv, Base, Typed, TodoOK, VersionsOK, MadeOK, Absent, Project, ToolState
<1>3. Earned(ld, NoRun, excused, release)
  BY Idle DEF IInv, Earned, WordOK, Progress, Anew, Creating, Refreshing
<1> QED BY <1>2, <1>3 DEF IInv

LEMMA LaunchInv ==
  ASSUME IInv, NEW kind \in {"provision", "upgrade"}, Launch(kind)
  PROVE  IInv'
<1>1. PICK q : q = [NoRun EXCEPT !.pc = "tools", !.kind = kind, !.v = release, !.todo = Tool]  OBVIOUS
<1>2. run' = q /\ UNCHANGED <<ld, release, excused>>  BY <1>1 DEF Launch
<1>3. release \in Nat /\ release \in 1 .. release /\ ld.stamp <= release  BY DEF IInv, Base, Typed
<1>4. /\ q \in Run /\ q.pc = "tools" /\ q.v = release /\ q.todo = Tool /\ q.versions = NoRefs /\ q.created = {}
  BY <1>1, <1>3, Idle DEF Run, Stage
<1>5. Base(ld, q, release)
  <2>1. TodoOK(q)  BY <1>4, BridgeAssumption DEF TodoOK
  <2>2. VersionsOK(ld, q)  BY <1>4, Empty DEF IInv, Base, Typed, VersionsOK, Absent, Project, ToolState
  <2> QED BY <1>3, <1>4, <2>1, <2>2 DEF IInv, Base, Typed, MadeOK
<1>6. Earned(ld, q, excused, release)
  BY <1>4 DEF IInv, Earned, WordOK, Progress, Anew, Creating, Refreshing
<1> QED BY <1>2, <1>5, <1>6 DEF IInv

(***************************************************************************)
(* From stage to stage.                                                    *)
(***************************************************************************)
Things == Tool \union Variation \union Env

\* q is r at stage p, with d still to do.
Turned(q, r, p, d) ==
  /\ q \in Run /\ q.pc = p /\ q.todo = d /\ q.kind = r.kind /\ q.v = r.v /\ q.var = r.var /\ q.versions = r.versions
  /\ q.read = r.read /\ q.created = r.created /\ q.adopted = r.adopted /\ q.clean = r.clean

LEMMA Turning ==
  ASSUME NEW r \in Run, NEW p \in Stage, NEW d \in SUBSET Things
  PROVE  Turned(With(r, p, d), r, p, d) /\ Turned(To(r, p), r, p, r.todo)
<1>1. Turned([r EXCEPT !.pc = p, !.todo = d], r, p, d)  BY DEF Turned, Run, Things
<1>2. Turned([r EXCEPT !.pc = p], r, p, r.todo)  BY DEF Turned, Run, Things
<1> QED BY <1>1, <1>2 DEF With, To

LEMMA Adopting ==
  ASSUME NEW r \in Run
  PROVE  /\ Adopt(r) \in Run /\ Adopt(r).adopted /\ Adopt(r).pc = r.pc /\ Adopt(r).todo = r.todo /\ Adopt(r).kind = r.kind
         /\ Adopt(r).v = r.v /\ Adopt(r).var = r.var /\ Adopt(r).versions = r.versions /\ Adopt(r).read = r.read
         /\ Adopt(r).created = r.created /\ Adopt(r).clean = r.clean
BY DEF Adopt, Run

\* The item whose turn it is done; the stage is over with its last.
LEMMA Finishing ==
  ASSUME run \in Run, NEW x, NEW next \in Stage
  PROVE  \/ run.todo = {x} /\ Turned(Done(x, next), run, next, {})
         \/ run.todo # {x} /\ Turned(Done(x, next), run, run.pc, run.todo \ {x})
<1>1. CASE run.todo = {x}
  <2>1. Turned(With(run, next, {}), run, next, {})  BY Turning DEF Things
  <2> QED BY <1>1, <2>1 DEF Done
<1>2. CASE run.todo # {x}
  <2>1. Turned([run EXCEPT !.todo = run.todo \ {x}], run, run.pc, run.todo \ {x})  BY DEF Turned, Run
  <2> QED BY <1>2, <2>1 DEF Done
<1> QED BY <1>1, <1>2

LEMMA Basics ==
  ASSUME IInv
  PROVE  /\ ld \in Project /\ run \in Run /\ release \in 1 .. Len(Committed) /\ run.v \in 1 .. Len(Committed)
         /\ run.v \in 1 .. release /\ Base(ld, run, release) /\ Earned(ld, run, excused, release)
         /\ C.text \in Nat /\ C.text # 0 /\ C.def \in Nat /\ C.shape \in Nat /\ C.judged \in BOOLEAN
<1>1. /\ ld \in Project /\ run \in Run /\ release \in 1 .. Len(Committed) /\ run.v \in 1 .. release
      /\ Base(ld, run, release) /\ Earned(ld, run, excused, release)
  BY DEF IInv, Base, Typed
<1>2. Len(Committed) \in Nat  BY BridgeAssumption
<1>3. run.v \in 1 .. Len(Committed)  BY <1>1, <1>2
<1> QED BY <1>1, <1>3, Versioned DEF C

\* A tool of the library is created, patched, or stays; the rest does.
Retooled(m, l, t) ==
  /\ m \in Project /\ m.made = l.made /\ m.live = l.live /\ m.rules = l.rules /\ m.shape = l.shape /\ m.stamp = l.stamp
  /\ \A u \in Tool : u # t => m.tool[u] = l.tool[u]
  /\ m.tool[t].version >= l.tool[t].version

LEMMA Retooling ==
  ASSUME NEW l \in Project, NEW t \in Tool, NEW s \in ToolState, s.version >= l.tool[t].version
  PROVE  Retooled([l EXCEPT !.tool[t] = s], l, t) /\ [l EXCEPT !.tool[t] = s].tool[t] = s
<1> DEFINE f == [l.tool EXCEPT ![t] = s]
<1>1. f \in [Tool -> ToolState] /\ f[t] = s /\ \A u \in Tool : u # t => f[u] = l.tool[u]  BY DEF Project
<1>2. [l EXCEPT !.tool[t] = s] = [l EXCEPT !.tool = f]  OBVIOUS
<1> HIDE DEF f
<1>3. /\ [l EXCEPT !.tool = f] \in Project /\ [l EXCEPT !.tool = f].tool = f
      /\ [l EXCEPT !.tool = f].made = l.made /\ [l EXCEPT !.tool = f].live = l.live
      /\ [l EXCEPT !.tool = f].rules = l.rules /\ [l EXCEPT !.tool = f].shape = l.shape
      /\ [l EXCEPT !.tool = f].stamp = l.stamp
  BY <1>1 DEF Project
<1> QED BY <1>1, <1>2, <1>3 DEF Retooled

LEMMA RetooledBase ==
  ASSUME NEW l, NEW m, NEW r, NEW rel, NEW t \in Tool, Base(l, r, rel), Retooled(m, l, t)
  PROVE  Base(m, r, rel)
<1>1. l \in Project /\ m \in Project /\ r \in Run  BY DEF Base, Typed, Retooled
<1>2. \A u \in Tool : l.tool[u].version \in Nat /\ m.tool[u].version \in Nat /\ l.tool[u].version <= m.tool[u].version
  BY <1>1 DEF Retooled, Project, ToolState
<1>3. \A x \in Variation, u \in Tool : l.live[x].refs[u] \in Nat  BY <1>1 DEF Project, LiveVariation, Refs
<1>4. \A u \in Tool : r.versions[u] \in Nat  BY <1>1 DEF Run, Refs
<1>5. VersionsOK(m, r)  BY <1>2, <1>3, <1>4 DEF Base, VersionsOK, Retooled, Absent
<1>6. MadeOK(m, r) /\ Typed(m, r, rel)  BY <1>1 DEF Base, Typed, MadeOK, Retooled
<1> QED BY <1>5, <1>6 DEF Base

LEMMA ProvisionToolInv ==
  ASSUME IInv, NEW t \in Tool, ProvisionTool(t)
  PROVE  IInv'
<1>1. run.pc = "tools" /\ UNCHANGED <<release, moves>> /\ t = Turn  BY DEF ProvisionTool, At
<1>2. t \in run.todo /\ run.todo \subseteq Tool  BY <1>1, Basics DEF Base, TodoOK, Turn
<1>3. PICK r : r = Done(t, "model")  OBVIOUS
<1>4. \/ run.todo = {t} /\ Turned(r, run, "model", {})
      \/ run.todo \ {t} # {} /\ Turned(r, run, "tools", run.todo \ {t})
  <2>1. "model" \in Stage  BY DEF Stage
  <2> QED BY <1>1, <1>2, <1>3, <2>1, Basics, Finishing
<1>5. Base(ld, r, release)
  BY <1>1, <1>2, <1>4, Basics DEF Base, Typed, TodoOK, VersionsOK, MadeOK, Turned
<1>6. r \in Run /\ r.versions = run.versions /\ r.v = run.v /\ r.created = run.created  BY <1>4 DEF Turned
<1>7. run.versions \in Refs /\ ld.tool[t] \in ToolState  BY Basics DEF Run, Project
<1>8. CASE ld.tool[t].version # Absent
  <2> DEFINE vs == [r.versions EXCEPT ![t] = ld.tool[t].version]
             s == [r EXCEPT !.versions = vs]
  <2>1. /\ vs \in Refs /\ vs[t] = ld.tool[t].version
        /\ \A u \in Tool : u # t => vs[u] = run.versions[u]
    BY <1>6, <1>7 DEF Refs, ToolState
  <2>2. PICK q : q = Adopt(s)  OBVIOUS
  <2>3. Calls(ld, q, r)
    <3>1. s = [r EXCEPT !.versions[t] = ld.tool[t].version]  OBVIOUS
    <3> QED BY <1>3, <1>8, <2>2, <3>1 DEF ProvisionTool
  <2> HIDE DEF vs
  <2>4. /\ s \in Run /\ s.versions = vs /\ s.pc = r.pc /\ s.todo = r.todo /\ s.kind = r.kind /\ s.v = r.v /\ s.var = r.var
        /\ s.read = r.read /\ s.created = r.created /\ s.clean = r.clean
    BY <1>6, <2>1 DEF Run
  <2> HIDE DEF s
  <2>5. /\ q \in Run /\ q.adopted /\ q.versions = vs /\ q.pc = r.pc /\ q.todo = r.todo /\ q.kind = r.kind /\ q.v = r.v
        /\ q.var = r.var /\ q.read = r.read /\ q.created = r.created /\ q.clean = r.clean
    BY <2>2, <2>4, Adopting
  <2>6. Base(ld, q, release)
    <3>1. \A u \in Tool : ld.tool[u].version \in Nat  BY Basics DEF Project, ToolState
    <3>2. VersionsOK(ld, q)  BY <1>5, <1>6, <2>1, <2>5, <3>1 DEF Base, VersionsOK
    <3> QED BY <1>5, <2>5, <3>2 DEF Base, Typed, TodoOK, MadeOK
  <2>7. WordOK(ld, q)  BY <1>1, <1>4, <2>5, Basics DEF Earned, WordOK, Turned
  <2>8. q.clean \/ ~excused => Progress(ld, q)
    BY <1>1, <1>2, <1>4, <1>8, <2>1, <2>5, Basics DEF Earned, Progress, Creating, Refreshing, Turned, Present, Seen
  <2>9. Earned(ld, q, excused, release)
    BY <1>1, <1>4, <2>5, <2>7, <2>8, Basics DEF Earned, Turned
  <2> QED BY <1>1, <1>5, <2>3, <2>6, <2>9, CallsInv
<1>9. CASE ld.tool[t].version = Absent
  <2> DEFINE vs == [r.versions EXCEPT ![t] = 1]
             made == r.created \union {t}
             s == [r EXCEPT !.versions = vs]
             new == [version |-> 1, def |-> C.def]
  <2>1. /\ vs \in Refs /\ vs[t] = 1
        /\ \A u \in Tool : u # t => vs[u] = run.versions[u]
    BY <1>6, <1>7 DEF Refs
  <2>2. PICK q : q = [s EXCEPT !.created = made]  OBVIOUS
  <2>3. PICK after : after = [ld EXCEPT !.tool[t] = new]  OBVIOUS
  <2>4. Calls(after, q, r)
    <3>1. s = [r EXCEPT !.versions[t] = 1]  OBVIOUS
    <3>2. q = [[r EXCEPT !.versions[t] = 1] EXCEPT !.created = @ \union {t}]
      <4>1. s.created = r.created  BY <1>6 DEF Run
      <4> QED BY <2>2, <3>1, <4>1
    <3> QED BY <1>3, <1>9, <2>3, <3>2 DEF ProvisionTool
  <2>5. new \in ToolState /\ new.version = 1 /\ new.def = C.def  BY Basics DEF ToolState
  <2> HIDE DEF vs, new
  <2>6. Retooled(after, ld, t) /\ after.tool[t] = new
    <3>1. new.version >= ld.tool[t].version  BY <1>9, <2>5 DEF Absent
    <3> QED BY <2>3, <2>5, <3>1, Basics, Retooling
  <2>7. /\ s \in Run /\ s.versions = vs /\ s.pc = r.pc /\ s.todo = r.todo /\ s.kind = r.kind /\ s.v = r.v /\ s.var = r.var
        /\ s.read = r.read /\ s.created = r.created /\ s.clean = r.clean /\ s.adopted = r.adopted
    BY <1>6, <2>1 DEF Run
  <2> HIDE DEF s
  <2>8. /\ q \in Run /\ q.versions = vs /\ q.pc = r.pc /\ q.todo = r.todo /\ q.kind = r.kind /\ q.v = r.v
        /\ q.var = r.var /\ q.read = r.read /\ q.created = r.created \union {t} /\ q.clean = r.clean /\ q.adopted = r.adopted
    BY <1>6, <2>2, <2>7 DEF Run
  <2>9. Base(after, r, release)  BY <1>5, <2>6, RetooledBase
  <2>10. Base(after, q, release)
    <3>1. VersionsOK(after, q)  BY <1>6, <2>1, <2>5, <2>6, <2>8, <2>9 DEF Base, VersionsOK, Absent, Retooled
    <3>2. TodoOK(q)  BY <1>1, <1>4, <2>8, <2>9 DEF Base, TodoOK, Turned
    <3> QED BY <2>8, <2>9, <3>1, <3>2 DEF Base, Typed, MadeOK
  <2>11. WordOK(after, q)
    <3>1. "config" \in q.created => "config" \in run.created  BY <1>6, <2>8, BridgeAssumption
    <3>2. after.rules = ld.rules  BY <2>6 DEF Retooled
    <3> QED BY <1>1, <1>4, <2>8, <3>1, <3>2, Basics DEF Earned, WordOK, Turned
  <2>12. q.clean \/ ~excused => Progress(after, q)
    BY <1>1, <1>2, <1>4, <2>1, <2>5, <2>6, <2>8, Basics
    DEF Earned, Progress, Creating, Refreshing, Turned, Present, Seen, Retooled, Absent
  <2>13. ~excused /\ ~q.adopted => Anew(after, q)
    BY <1>1, <1>2, <1>4, <2>5, <2>6, <2>8, Basics DEF Earned, Anew, Turned, Current, Retooled, C
  <2>14. "graph" \in after.made /\ after.stamp = release /\ ~excused => ContentOf(after, release)
    BY <1>9, <2>6, Basics DEF Earned, ContentOf, Present, Retooled
  <2>15. Earned(after, q, excused, release)
    BY <1>1, <1>4, <2>8, <2>11, <2>12, <2>13, <2>14 DEF Earned, Turned
  <2> QED BY <1>1, <1>5, <2>4, <2>9, <2>10, <2>15, CallsInv
<1> QED BY <1>8, <1>9

\* Something comes to be.
Remade(m, l, what) ==
  /\ m \in Project /\ m.made = l.made \union {what} /\ m.tool = l.tool /\ m.live = l.live /\ m.rules = l.rules
  /\ m.shape = l.shape /\ m.stamp = l.stamp

LEMMA Remaking ==
  ASSUME NEW l \in Project, NEW what \in {"model", "config", "graph", "flag", "metric"}
  PROVE  Remade([l EXCEPT !.made = @ \union {what}], l, what)
BY DEF Remade, Project

LEMMA RemadeBase ==
  ASSUME NEW l, NEW m, NEW r, NEW rel, NEW what, Base(l, r, rel), Remade(m, l, what)
  PROVE  Base(m, r, rel)
BY DEF Base, Typed, VersionsOK, MadeOK, Remade

LEMMA ProvisionModelConfigInv == ASSUME IInv, ProvisionModelConfig PROVE IInv'
<1>1. PICK after : after = [ld EXCEPT !.made = @ \union {"model"}]  OBVIOUS
<1>2. PICK q : q = To(run, "config")  OBVIOUS
<1>3. run.pc = "model" /\ UNCHANGED release /\ Calls(after, q, q)
  BY <1>1, <1>2 DEF ProvisionModelConfig, At, CreateOnly
<1>4. Turned(q, run, "config", run.todo)  BY <1>2, Basics, Turning DEF Stage, Run, Things
<1>5. Remade(after, ld, "model")  BY <1>1, Basics, Remaking
<1>6. Base(ld, q, release)  BY <1>3, <1>4, Basics DEF Base, Typed, TodoOK, VersionsOK, MadeOK, Turned
<1>7. Base(after, q, release)  BY <1>5, <1>6, RemadeBase
<1>8. Earned(after, q, excused, release)
  <2>1. WordOK(after, q)  BY <1>3, <1>4, <1>5, Basics DEF Earned, WordOK, Turned, Remade
  <2>2. q.clean \/ ~excused => Progress(after, q)
    BY <1>3, <1>4, <1>5, Basics DEF Earned, Progress, Creating, Refreshing, Turned, Present, Seen, Remade
  <2>3. ~excused /\ ~q.adopted => Anew(after, q)
    BY <1>3, <1>4, <1>5, Basics DEF Earned, Anew, Turned, Current, Remade
  <2>4. "graph" \in after.made /\ after.stamp = release /\ ~excused => ContentOf(after, release)
    BY <1>5, Basics DEF Earned, ContentOf, Present, Current, Full, Remade
  <2> QED BY <1>4, <2>1, <2>2, <2>3, <2>4 DEF Earned, Turned
<1> QED BY <1>3, <1>6, <1>7, <1>8, CallsInv

\* A variation is written.
Rewritten(m, l, x, v) ==
  /\ m \in Project /\ m.tool = l.tool /\ m.rules = l.rules /\ m.shape = l.shape /\ m.stamp = l.stamp
  /\ \A y \in Variation : y # x => m.live[y] = l.live[y]
  /\ m.live[x] = v

LEMMA Rewriting ==
  ASSUME NEW l \in Project, NEW x \in Variation, NEW v \in LiveVariation
  PROVE  /\ Rewritten([l EXCEPT !.live[x] = v], l, x, v)
         /\ [l EXCEPT !.live[x] = v].made = l.made
         /\ Rewritten([l EXCEPT !.made = @ \union {"config"}, !.live[x] = v], l, x, v)
         /\ [l EXCEPT !.made = @ \union {"config"}, !.live[x] = v].made = l.made \union {"config"}
<1> DEFINE f == [l.live EXCEPT ![x] = v]
<1>1. f \in [Variation -> LiveVariation] /\ f[x] = v /\ \A y \in Variation : y # x => f[y] = l.live[y]  BY DEF Project
<1>2. [l EXCEPT !.live[x] = v] = [l EXCEPT !.live = f]  OBVIOUS
<1>3. [l EXCEPT !.made = @ \union {"config"}, !.live[x] = v] = [l EXCEPT !.made = l.made \union {"config"}, !.live = f]
  BY DEF Project
<1> HIDE DEF f
<1>4. PICK m : m = [l EXCEPT !.live = f]  OBVIOUS
<1>5. Rewritten(m, l, x, v) /\ m.made = l.made  BY <1>1, <1>4 DEF Rewritten, Project
<1>6. PICK n : n = [l EXCEPT !.made = l.made \union {"config"}, !.live = f]  OBVIOUS
<1>7. Rewritten(n, l, x, v) /\ n.made = l.made \union {"config"}  BY <1>1, <1>6 DEF Rewritten, Project
<1> QED BY <1>2, <1>3, <1>4, <1>5, <1>6, <1>7

\* The base stands if the new variation is one the rest of it allows.
LEMMA RewrittenBase ==
  ASSUME NEW l, NEW m, NEW r, NEW rel, NEW x \in Variation, NEW v, Base(l, r, rel), Rewritten(m, l, x, v),
         l.made \subseteq m.made, \A t \in Tool : v.refs[t] <= l.tool[t].version,
         v.there => "config" \in m.made, ~v.there => v.model = "committed",
         r.pc \in {"variations", "judges", "attach"} /\ x \in r.todo => ~v.there,
         r.pc \in {"patch", "remodel"} /\ x \in r.todo => v.there
  PROVE  Base(m, r, rel)
<1>1. VersionsOK(m, r)  BY DEF Base, VersionsOK, Rewritten
<1>2. Typed(m, r, rel)  BY DEF Base, Typed, Rewritten
<1>3. MadeOK(m, r)
  <2>1. r.pc \in {"variations", "judges", "attach", "patch", "remodel"} => r.todo \subseteq Variation
    BY DEF Base, TodoOK
  <2> QED BY <2>1 DEF Base, MadeOK, Rewritten
<1> QED BY <1>1, <1>2, <1>3 DEF Base

\* What follows a variation: the next one, the rules of a new config, the graph.
LEMMA Following ==
  ASSUME NEW r \in Run
  PROVE  \/ r.todo # {} /\ Turned(AfterVariations(r), r, "variations", r.todo)
         \/ r.todo = {} /\ "config" \in r.created /\ Turned(AfterVariations(r), r, "rules", Env)
         \/ r.todo = {} /\ Turned(AfterVariations(r), r, "graph", {})
<1>1. Turned(To(r, "variations"), r, "variations", r.todo) /\ Turned(To(r, "graph"), r, "graph", r.todo)
  BY Turning DEF Stage, Run, Things
<1>2. Turned(With(r, "rules", Env), r, "rules", Env)  BY Turning DEF Stage, Things
<1> QED BY <1>1, <1>2 DEF AfterVariations

\* The variation as the call that creates it leaves it.
LEMMA Mapped ==
  ASSUME IInv, NEW x \in Variation, NEW after \in Created(x), ~ld.live[x].there
  PROVE  /\ \E v \in LiveVariation :
              /\ Rewritten(after, ld, x, v) /\ v.there /\ v.text = C.text /\ v.model = "committed"
              /\ \A t \in Tool : v.refs[t] <= ld.tool[t].version
         /\ after.made = ld.made \union {"config"}
<1>8. PICK judged \in JudgesKept(x), refs \in {run.versions, NoRefs} : after = Inserted(x, judged, refs)  BY DEF Created
<1>1. after = [ld EXCEPT !.made = @ \union {"config"}, !.live[x] = [MapVariation EXCEPT !.judged = judged, !.refs = refs]]
  BY <1>8 DEF Inserted
<1>7. judged \in BOOLEAN  BY Basics DEF JudgesKept
<1>2. PICK v : v = [MapVariation EXCEPT !.judged = judged, !.refs = refs]  OBVIOUS
<1>3. run.versions \in Refs /\ refs \in Refs  BY Basics, Empty DEF Run
<1>4. /\ v \in LiveVariation /\ v.there /\ v.text = C.text /\ v.model = "committed" /\ v.refs = refs
  BY <1>2, <1>3, <1>7, Basics, Empty DEF MapVariation, LiveVariation
<1>5. \A t \in Tool : refs[t] <= ld.tool[t].version
  BY Basics, Empty DEF Base, VersionsOK, Absent, Project, ToolState
<1>6. Rewritten(after, ld, x, v) /\ after.made = ld.made \union {"config"}
  <2>1. after = [ld EXCEPT !.made = @ \union {"config"}, !.live[x] = v]  BY <1>1, <1>2
  <2> QED BY <1>4, <2>1, Basics, Rewriting
<1> QED BY <1>4, <1>5, <1>6

(***************************************************************************)
(* provision, stage by stage.                                              *)
(***************************************************************************)
\* The config is there: what of its variations is missing is created.
LEMMA ConfigFound ==
  ASSUME IInv, run.pc = "config", Finds("config"), UNCHANGED <<ld, release, excused>>,
         run' = AfterVariations(Adopt([run EXCEPT !.todo = Missing]))
  PROVE  IInv'
<1>1. Missing \subseteq Variation  BY DEF Missing
<1>2. PICK s : s = [run EXCEPT !.todo = Missing]  OBVIOUS
<1>3. /\ s \in Run /\ s.pc = run.pc /\ s.todo = Missing /\ s.kind = run.kind /\ s.v = run.v /\ s.var = run.var
      /\ s.versions = run.versions /\ s.read = run.read /\ s.created = run.created /\ s.clean = run.clean
  BY <1>1, <1>2, Basics DEF Run
<1>4. PICK r : r = Adopt(s)  OBVIOUS
<1>5. /\ r \in Run /\ r.adopted /\ r.todo = Missing /\ r.kind = run.kind /\ r.v = run.v /\ r.var = run.var
      /\ r.versions = run.versions /\ r.read = run.read /\ r.created = run.created /\ r.clean = run.clean
  BY <1>3, <1>4, Adopting
<1>6. PICK q : q = AfterVariations(r)  OBVIOUS
<1>7. \/ Missing # {} /\ Turned(q, r, "variations", Missing)
      \/ Missing = {} /\ "config" \in run.created /\ Turned(q, r, "rules", Env)
      \/ Missing = {} /\ Turned(q, r, "graph", {})
  BY <1>5, <1>6, Following
<1>8. run' = q  BY <1>2, <1>4, <1>6
<1>9. Base(ld, q, release)
  <2>1. TodoOK(q)  BY <1>1, <1>5, <1>7 DEF TodoOK, Turned
  <2>2. MadeOK(ld, q)  BY <1>7, Basics DEF Base, MadeOK, Turned, Missing
  <2> QED BY <1>5, <1>7, <2>1, <2>2, Basics DEF Base, Typed, VersionsOK, Turned
<1>10. Earned(ld, q, excused, release)
  <2>1. WordOK(ld, q)  BY <1>5, <1>7, Basics DEF Earned, WordOK, Turned
  <2>2. ASSUME q.clean \/ ~excused PROVE Progress(ld, q)
    <3>1. run.clean \/ ~excused  BY <1>5, <1>7, <2>2 DEF Turned
    <3>2. \A t \in Tool : Present(ld, t) /\ Seen(ld, run, t)  BY <3>1, Basics DEF Earned, Progress, Creating
    <3>3. \A t \in Tool : Present(ld, t) /\ Seen(ld, q, t)  BY <1>5, <1>7, <3>2 DEF Turned, Seen
    <3>4. "config" \in ld.made /\ \A x \in Variation \ Missing : ld.live[x].there  BY DEF Finds, Missing
    <3>5. (q.pc = "variations" /\ q.todo = Missing) \/ (q.pc \in {"rules", "graph"} /\ Missing = {})  BY <1>7 DEF Turned
    <3> QED BY <3>3, <3>4, <3>5 DEF Progress, Creating, Refreshing
  <2> QED BY <1>5, <1>7, <2>1, <2>2, Basics DEF Earned, Turned
<1> QED BY <1>8, <1>9, <1>10 DEF IInv

LEMMA ProvisionAiConfigInv == ASSUME IInv, ProvisionAiConfig PROVE IInv'
<1>1. run.pc = "config" /\ UNCHANGED release  BY DEF ProvisionAiConfig, At
<1>2. CASE Finds("config") /\ UNCHANGED <<ld, excused>> /\ run' = AfterVariations(Adopt([run EXCEPT !.todo = Missing]))
  BY <1>1, <1>2, ConfigFound
<1>3. CASE Aborts  BY <1>1, <1>3, RunGone DEF Aborts
<1>4. CASE /\ ~Finds("config")
           /\ LET r == [run EXCEPT !.pc = "judges", !.var = Default, !.todo = Variation \ {Default},
                                   !.created = @ \union {"config"}]
              IN \E after \in Created(Default) : Calls(after, r, To(run, "graph"))
  <2>1. PICK r : r = [run EXCEPT !.pc = "judges", !.var = Default, !.todo = Variation \ {Default},
                                 !.created = @ \union {"config"}]
    OBVIOUS
  <2>2. PICK b : b = To(run, "graph")  OBVIOUS
  <2>3. PICK after \in Created(Default) : Calls(after, r, b)  BY <1>4, <2>1, <2>2
  <2>4. Default \in Variation /\ (\A x \in Variation : ~ld.live[x].there) /\ "config" \notin ld.made
    BY <1>4, Basics, BridgeAssumption DEF Base, MadeOK, Finds
  <2>5. PICK v \in LiveVariation :
             /\ Rewritten(after, ld, Default, v) /\ v.there /\ v.text = C.text /\ v.model = "committed"
             /\ \A t \in Tool : v.refs[t] <= ld.tool[t].version
    BY <2>4, Mapped
  <2>6. after.made = ld.made \union {"config"}  BY <2>4, Mapped
  <2>7. /\ r \in Run /\ r.pc = "judges" /\ r.var = Default /\ r.todo = Variation \ {Default} /\ r.kind = run.kind
        /\ r.v = run.v /\ r.versions = run.versions /\ r.created = run.created \union {"config"}
        /\ r.adopted = run.adopted /\ r.clean = run.clean
    BY <2>1, <2>4, Basics DEF Run, Stage
  <2>8. Turned(b, run, "graph", run.todo)  BY <2>2, Basics, Turning DEF Stage, Run, Things
  <2>9. Base(ld, b, release)
    BY <1>1, <2>8, Basics DEF Base, Typed, TodoOK, VersionsOK, MadeOK, Turned
  <2>10. Base(ld, r, release)
    <3>1. TodoOK(r)  BY <2>7 DEF TodoOK
    <3>2. MadeOK(ld, r)  BY <2>4, <2>7, Basics DEF Base, MadeOK
    <3>3. VersionsOK(ld, r)  BY <2>7, Basics, BridgeAssumption DEF Base, VersionsOK
    <3> QED BY <1>1, <2>7, <3>1, <3>2, <3>3, Basics DEF Base, Typed
  <2>11. Base(after, b, release) /\ Base(after, r, release)
    <3>1. ld.made \subseteq after.made /\ "config" \in after.made  BY <2>6
    <3>2. b.pc = "graph"  BY <2>8 DEF Turned
    <3> QED BY <2>4, <2>5, <2>7, <2>9, <2>10, <3>1, <3>2, RewrittenBase
  <2>12. Earned(after, r, excused, release)
    <3>1. WordOK(after, r)  BY <2>4, <2>5, <2>7, Basics DEF Base, MadeOK, WordOK, Rewritten
    <3>2. r.clean \/ ~excused => Progress(after, r)
      BY <1>1, <2>5, <2>6, <2>7, Basics DEF Earned, Progress, Creating, Refreshing, Present, Seen, Rewritten
    <3>3. ~excused /\ ~r.adopted => Anew(after, r)
      BY <1>1, <2>5, <2>7, Basics DEF Earned, Anew, Current, Rewritten, C
    <3>4. "graph" \in after.made /\ after.stamp = release /\ ~excused => ContentOf(after, release)
      BY <2>4, <2>5, <2>6, Basics DEF Earned, ContentOf, Rewritten
    <3> QED BY <2>7, <3>1, <3>2, <3>3, <3>4 DEF Earned
  <2> QED BY <1>1, <2>3, <2>9, <2>11, <2>12, CallsInv
<1> QED BY <1>2, <1>3, <1>4 DEF ProvisionAiConfig

LEMMA ProvisionVariationInv == ASSUME IInv, NEW x \in Variation, ProvisionVariation(x) PROVE IInv'
<1>1. run.pc = "variations" /\ UNCHANGED release /\ x = Turn  BY DEF ProvisionVariation, At
<1>2. x \in run.todo /\ run.todo \subseteq Variation /\ (\A y \in run.todo : ~ld.live[y].there)
  BY <1>1, Basics DEF Base, TodoOK, MadeOK, Turn
<1>3. PICK r : r = [run EXCEPT !.var = x, !.todo = @ \ {x}]  OBVIOUS
<1>4. PICK q : q = To(r, "judges")  OBVIOUS
<1>5. PICK b : b = AfterVariations(r)  OBVIOUS
<1>6. PICK after \in Created(x) : Calls(after, q, b)  BY <1>3, <1>4, <1>5 DEF ProvisionVariation
<1>7. PICK v \in LiveVariation :
           /\ Rewritten(after, ld, x, v) /\ v.there /\ v.text = C.text /\ v.model = "committed"
           /\ \A t \in Tool : v.refs[t] <= ld.tool[t].version
  BY <1>2, Mapped
<1>8. after.made = ld.made \union {"config"}  BY <1>2, Mapped
<1>9. /\ r \in Run /\ r.pc = "variations" /\ r.var = x /\ r.todo = run.todo \ {x} /\ r.kind = run.kind
      /\ r.v = run.v /\ r.versions = run.versions /\ r.created = run.created
      /\ r.adopted = run.adopted /\ r.clean = run.clean
  BY <1>1, <1>3, Basics DEF Run
<1>10. Turned(q, r, "judges", r.todo)  BY <1>4, <1>9, Turning DEF Stage, Run, Things
<1>11. \/ r.todo # {} /\ Turned(b, r, "variations", r.todo)
       \/ r.todo = {} /\ "config" \in r.created /\ Turned(b, r, "rules", Env)
       \/ r.todo = {} /\ Turned(b, r, "graph", {})
  BY <1>5, <1>9, Following
<1>12. Base(ld, b, release)
  <2>1. TodoOK(b)  BY <1>2, <1>9, <1>11 DEF TodoOK, Turned
  <2>2. MadeOK(ld, b)  BY <1>2, <1>9, <1>11, Basics DEF Base, MadeOK, Turned
  <2> QED BY <1>1, <1>9, <1>11, <2>1, <2>2, Basics DEF Base, Typed, VersionsOK, Turned
<1>13. Base(ld, q, release)
  <2>1. TodoOK(q)  BY <1>2, <1>9, <1>10 DEF TodoOK, Turned
  <2>2. MadeOK(ld, q)  BY <1>2, <1>9, <1>10, Basics DEF Base, MadeOK, Turned
  <2> QED BY <1>1, <1>9, <1>10, <2>1, <2>2, Basics DEF Base, Typed, VersionsOK, Turned
<1>14. Base(after, b, release) /\ Base(after, q, release)
  <2>1. ld.made \subseteq after.made /\ "config" \in after.made  BY <1>8
  <2>2. q.pc = "judges" /\ x \notin q.todo  BY <1>9, <1>10 DEF Turned
  <2>3. b.pc \in {"variations", "rules", "graph"} /\ (b.pc = "variations" => x \notin b.todo)  BY <1>9, <1>11 DEF Turned
  <2> QED BY <1>7, <1>12, <1>13, <2>1, <2>2, <2>3, RewrittenBase
<1>15. Earned(after, q, excused, release)
  <2>1. WordOK(after, q)  BY <1>1, <1>7, <1>9, <1>10, Basics DEF Earned, WordOK, Rewritten, Turned
  <2>2. q.clean \/ ~excused => Progress(after, q)
    BY <1>1, <1>2, <1>7, <1>8, <1>9, <1>10, Basics
    DEF Earned, Progress, Creating, Refreshing, Present, Seen, Rewritten, Turned
  <2>3. ~excused /\ ~q.adopted => Anew(after, q)
    BY <1>1, <1>2, <1>7, <1>9, <1>10, Basics DEF Earned, Anew, Current, Full, Rewritten, Turned, C
  <2>4. "graph" \in after.made /\ after.stamp = release /\ ~excused => ContentOf(after, release)
    BY <1>2, <1>7, <1>8, Basics DEF Earned, ContentOf, Rewritten
  <2> QED BY <1>10, <2>1, <2>2, <2>3, <2>4 DEF Earned, Turned
<1> QED BY <1>1, <1>6, <1>12, <1>14, <1>15, CallsInv

\* While a run that was not disturbed attaches, the tools are as it saw them.
LEMMA Attachable ==
  ASSUME IInv, run.pc = "attach", run.clean \/ ~excused
  PROVE  run.versions # NoRefs /\ \A t \in Tool : run.versions[t] = ld.tool[t].version
<1>1. \A t \in Tool : Present(ld, t) /\ Seen(ld, run, t)  BY Basics DEF Earned, Progress, Creating
<1>2. PICK t : t \in Tool  BY BridgeAssumption
<1> QED BY <1>1, <1>2, Empty DEF Present, Seen

LEMMA AttachJudgesInv == ASSUME IInv, AttachJudges PROVE IInv'
<1>1. run.pc = "judges" /\ UNCHANGED release  BY DEF AttachJudges, At
<1>2. PICK q : q = To(run, "attach")  OBVIOUS
<1>3. Turned(q, run, "attach", run.todo)  BY <1>2, Basics, Turning DEF Stage, Run, Things
<1>4. Base(ld, q, release)
  BY <1>1, <1>3, Basics DEF Base, Typed, TodoOK, VersionsOK, MadeOK, Turned
<1>5. ASSUME NEW l, l.rules = ld.rules, l.tool = ld.tool, l.made = ld.made, l.stamp = ld.stamp, l.shape = ld.shape,
             \A x \in Variation : /\ l.live[x].there = ld.live[x].there /\ l.live[x].text = ld.live[x].text
                                  /\ l.live[x].refs = ld.live[x].refs
                                  /\ x # run.var \/ ~C.judged => l.live[x].judged = ld.live[x].judged,
             C.judged => l.live[run.var].judged
      PROVE  Earned(l, q, excused, release)
  <2>1. WordOK(l, q)  BY <1>1, <1>3, <1>5, Basics DEF Earned, WordOK, Turned
  <2>2. q.clean \/ ~excused => Progress(l, q)
    BY <1>1, <1>3, <1>5, Basics DEF Earned, Progress, Creating, Refreshing, Present, Seen, Turned
  <2>3. run.var \in Variation /\ run.var \notin run.todo  BY <1>1, Basics DEF Base, TodoOK, Run
  <2>4. ~excused /\ ~q.adopted => Anew(l, q)
    BY <1>1, <1>3, <1>5, <2>3, Basics DEF Earned, Anew, Current, Full, Turned, C
  <2>5. "graph" \in l.made /\ l.stamp = release /\ ~excused => ContentOf(l, release)
    BY <1>5, <2>3, Basics DEF Earned, ContentOf, Present, Current, Full
  <2> QED BY <1>3, <2>1, <2>2, <2>4, <2>5 DEF Earned, Turned
<1>6. CASE ~C.judged
  <2>1. run' = q /\ UNCHANGED <<ld, excused>>  BY <1>2, <1>6 DEF AttachJudges
  <2>2. Earned(ld, q, excused, release)  BY <1>5, <1>6
  <2> QED BY <1>1, <1>4, <2>1, <2>2 DEF IInv
<1>7. CASE C.judged
  <2>1. run.var \in Variation  BY Basics DEF Run
  <2>2. PICK v : v = [ld.live[run.var] EXCEPT !.judged = TRUE, !.costed = FALSE]  OBVIOUS
  <2>3. ld.live[run.var] \in LiveVariation  BY <2>1, Basics DEF Project
  <2>4. /\ v \in LiveVariation /\ v.judged /\ v.there = ld.live[run.var].there /\ v.text = ld.live[run.var].text
        /\ v.refs = ld.live[run.var].refs /\ v.model = ld.live[run.var].model
    BY <2>2, <2>3 DEF LiveVariation
  <2>5. PICK after : after = [ld EXCEPT !.live[run.var] = v]  OBVIOUS
  <2>6. Calls(after, q, q)
    <3>1. after = [ld EXCEPT !.live[run.var] = [@ EXCEPT !.judged = TRUE, !.costed = FALSE]]  BY <2>2, <2>5
    <3> QED BY <1>2, <1>7, <3>1 DEF AttachJudges
  <2>7. Rewritten(after, ld, run.var, v) /\ after.made = ld.made  BY <2>1, <2>4, <2>5, Basics, Rewriting
  <2>8. Base(after, q, release)
    <3>1. /\ \A t \in Tool : v.refs[t] <= ld.tool[t].version
          /\ v.there => "config" \in after.made
          /\ ~v.there => v.model = "committed"
      BY <2>1, <2>4, <2>7, Basics DEF Base, VersionsOK, MadeOK
    <3>2. run.var \notin q.todo /\ q.pc = "attach"  BY <1>1, <1>3, Basics DEF Base, TodoOK, Turned
    <3> QED BY <1>4, <2>1, <2>7, <3>1, <3>2, RewrittenBase
  <2>9. Earned(after, q, excused, release)
    <3>1. \A x \in Variation : /\ after.live[x].there = ld.live[x].there /\ after.live[x].text = ld.live[x].text
                               /\ after.live[x].refs = ld.live[x].refs
                               /\ x # run.var \/ ~C.judged => after.live[x].judged = ld.live[x].judged
      BY <1>7, <2>4, <2>7 DEF Rewritten
    <3>2. after.live[run.var].judged  BY <2>4, <2>7 DEF Rewritten
    <3> QED BY <1>5, <2>7, <3>1, <3>2 DEF Rewritten
  <2> QED BY <1>1, <1>4, <2>6, <2>8, <2>9, CallsInv
<1> QED BY <1>6, <1>7

LEMMA AttachToolsInv == ASSUME IInv, AttachTools PROVE IInv'
<1>1. run.pc = "attach" /\ UNCHANGED release  BY DEF AttachTools, At
<1>2. PICK q : q = AfterVariations(run)  OBVIOUS
<1>3. \/ run.todo # {} /\ Turned(q, run, "variations", run.todo)
      \/ run.todo = {} /\ "config" \in run.created /\ Turned(q, run, "rules", Env)
      \/ run.todo = {} /\ Turned(q, run, "graph", {})
  BY <1>2, Basics, Following
<1>4. run.var \in Variation /\ run.var \notin run.todo /\ run.todo \subseteq Variation /\ ld.live[run.var] \in LiveVariation
  BY <1>1, Basics DEF Base, TodoOK, Run, Project
<1>5. Base(ld, q, release)
  <2>1. TodoOK(q)  BY <1>3, <1>4 DEF TodoOK, Turned
  <2>2. MadeOK(ld, q)  BY <1>1, <1>3, Basics DEF Base, MadeOK, Turned
  <2> QED BY <1>1, <1>3, <2>1, <2>2, Basics DEF Base, Typed, VersionsOK, Turned
<1>6. ASSUME NEW l, l.rules = ld.rules, l.tool = ld.tool, l.made = ld.made, l.stamp = ld.stamp, l.shape = ld.shape,
             \A x \in Variation : /\ l.live[x].there = ld.live[x].there /\ l.live[x].text = ld.live[x].text
                                  /\ l.live[x].judged = ld.live[x].judged
                                  /\ x # run.var => l.live[x].refs = ld.live[x].refs,
             ~excused => \A t \in Tool : l.live[run.var].refs[t] = ld.tool[t].version
      PROVE  Earned(l, q, excused, release)
  <2>1. WordOK(l, q)  BY <1>1, <1>3, <1>6, Basics DEF Earned, WordOK, Turned
  <2>2. q.clean \/ ~excused => Progress(l, q)
    BY <1>1, <1>3, <1>6, Basics DEF Earned, Progress, Creating, Refreshing, Present, Seen, Turned
  <2>3. ~excused /\ ~q.adopted => Anew(l, q)
    BY <1>1, <1>3, <1>4, <1>6, Basics DEF Earned, Anew, Current, Full, Turned
  <2>4. "graph" \in l.made /\ l.stamp = release /\ ~excused => ContentOf(l, release)
    BY <1>4, <1>6, Basics DEF Earned, ContentOf, Present, Current, Full
  <2> QED BY <1>3, <2>1, <2>2, <2>3, <2>4 DEF Earned, Turned
<1>7. CASE run.versions = NoRefs
  <2>1. run' = q /\ UNCHANGED <<ld, excused>>  BY <1>2, <1>7 DEF AttachTools
  <2>2. excused  BY <1>1, <1>7, Attachable
  <2>3. Earned(ld, q, excused, release)  BY <1>6, <2>2
  <2> QED BY <1>1, <1>5, <2>1, <2>3 DEF IInv
<1>8. CASE run.versions # NoRefs
  <2>2. PICK v : v = [ld.live[run.var] EXCEPT !.refs = run.versions, !.costed = FALSE]  OBVIOUS
  <2>4. /\ v \in LiveVariation /\ v.judged = ld.live[run.var].judged /\ v.there = ld.live[run.var].there
        /\ v.text = ld.live[run.var].text /\ v.refs = run.versions /\ v.model = ld.live[run.var].model
    BY <1>4, <2>2, Basics DEF LiveVariation, Run
  <2>5. PICK after : after = [ld EXCEPT !.live[run.var] = v]  OBVIOUS
  <2>6. Calls(after, q, q)
    <3>1. after = [ld EXCEPT !.live[run.var] = [@ EXCEPT !.refs = run.versions, !.costed = FALSE]]  BY <2>2, <2>5
    <3> QED BY <1>2, <1>8, <3>1 DEF AttachTools
  <2>7. Rewritten(after, ld, run.var, v) /\ after.made = ld.made  BY <1>4, <2>4, <2>5, Basics, Rewriting
  <2>8. Base(after, q, release)
    <3>1. /\ \A t \in Tool : v.refs[t] <= ld.tool[t].version
          /\ v.there => "config" \in after.made
          /\ ~v.there => v.model = "committed"
      BY <1>4, <2>4, <2>7, Basics DEF Base, VersionsOK, MadeOK
    <3>2. (q.pc = "variations" => run.var \notin q.todo) /\ q.pc \in {"variations", "rules", "graph"}
      BY <1>3, <1>4 DEF Turned
    <3> QED BY <1>4, <1>5, <2>7, <3>1, <3>2, RewrittenBase
  <2>9. Earned(after, q, excused, release)
    <3>1. \A x \in Variation : /\ after.live[x].there = ld.live[x].there /\ after.live[x].text = ld.live[x].text
                               /\ after.live[x].judged = ld.live[x].judged
                               /\ x # run.var => after.live[x].refs = ld.live[x].refs
      BY <2>4, <2>7 DEF Rewritten
    <3>2. ~excused => \A t \in Tool : after.live[run.var].refs[t] = ld.tool[t].version
      BY <1>1, <2>4, <2>7, Attachable DEF Rewritten
    <3> QED BY <1>6, <2>7, <3>1, <3>2 DEF Rewritten
  <2> QED BY <1>1, <1>5, <2>6, <2>8, <2>9, CallsInv
<1> QED BY <1>7, <1>8

\* A rule is written in one environment.
Retargeted(m, l, on, e, h) ==
  /\ m \in Project /\ m.tool = l.tool /\ m.live = l.live /\ m.made = l.made /\ m.shape = l.shape /\ m.stamp = l.stamp
  /\ \A o \in {"config", "flag"}, d \in Env : m.rules[o][d] = IF o = on /\ d = e THEN h ELSE l.rules[o][d]

LEMMA Retargeting ==
  ASSUME NEW l \in Project, NEW on \in {"config", "flag"}, NEW e \in Env, NEW h \in Hand
  PROVE  Retargeted([l EXCEPT !.rules[on][e] = h], l, on, e, h)
<1> DEFINE g == [l.rules[on] EXCEPT ![e] = h]
           f == [l.rules EXCEPT ![on] = g]
<1>1. l.rules \in [{"config", "flag"} -> [Env -> Hand]]  BY DEF Project
<1>2. g \in [Env -> Hand] /\ \A d \in Env : g[d] = IF d = e THEN h ELSE l.rules[on][d]  BY <1>1
<1>3. [l EXCEPT !.rules[on][e] = h] = [l EXCEPT !.rules = f]  OBVIOUS
<1> HIDE DEF g
<1>4. f \in [{"config", "flag"} -> [Env -> Hand]] /\ f[on] = g /\ \A o \in {"config", "flag"} : o # on => f[o] = l.rules[o]
  BY <1>1, <1>2
<1> HIDE DEF f
<1>5. PICK m : m = [l EXCEPT !.rules = f]  OBVIOUS
<1>6. /\ m \in Project /\ m.rules = f /\ m.tool = l.tool /\ m.live = l.live /\ m.made = l.made
      /\ m.shape = l.shape /\ m.stamp = l.stamp
  BY <1>4, <1>5 DEF Project
<1>7. \A o \in {"config", "flag"}, d \in Env : f[o][d] = IF o = on /\ d = e THEN h ELSE l.rules[o][d]
  BY <1>2, <1>4
<1>8. Retargeted(m, l, on, e, h)  BY <1>6, <1>7 DEF Retargeted
<1> QED BY <1>3, <1>5, <1>8

LEMMA RetargetedBase ==
  ASSUME NEW l, NEW m, NEW r, NEW rel, NEW on, NEW e, NEW h, Base(l, r, rel), Retargeted(m, l, on, e, h),
         h # "operator" \/ on \in l.made
  PROVE  Base(m, r, rel)
<1>1. MadeOK(m, r)  BY DEF Base, MadeOK, Retargeted
<1> QED BY <1>1 DEF Base, Typed, VersionsOK, Retargeted

LEMMA ApplyTargetingInv ==
  ASSUME IInv, NEW on \in {"config", "flag"}, NEW e \in Env, NEW next, ApplyTargeting(on, e, next), UNCHANGED release,
         \/ run.pc = "rules" /\ next = "graph"
         \/ run.pc = "flagRules" /\ next = "metric"
  PROVE  IInv'
<1>1. PICK q : q = Done(e, next)  OBVIOUS
<1>2. PICK b : b = With(run, next, {})  OBVIOUS
<1>3. PICK after : after = [ld EXCEPT !.rules[on][e] = "committed"]  OBVIOUS
<1>4. Calls(after, q, b)  BY <1>1, <1>2, <1>3 DEF ApplyTargeting
<1>5. next \in Stage /\ "committed" \in Hand  BY DEF Stage, Hand
<1>6. \/ run.todo = {e} /\ Turned(q, run, next, {})
      \/ run.todo # {e} /\ Turned(q, run, run.pc, run.todo \ {e})
  BY <1>1, <1>5, Basics, Finishing
<1>7. Turned(b, run, next, {})  BY <1>2, <1>5, Basics, Turning DEF Things
<1>8. Base(ld, q, release) /\ Base(ld, b, release)
  BY <1>6, <1>7, Basics DEF Base, Typed, TodoOK, VersionsOK, MadeOK, Turned
<1>9. Retargeted(after, ld, on, e, "committed")  BY <1>3, <1>5, Basics, Retargeting
<1>10. Base(after, q, release) /\ Base(after, b, release)  BY <1>8, <1>9, RetargetedBase
<1>11. Earned(after, q, excused, release)
  <2>1. WordOK(after, q)  BY <1>6, <1>9, Basics DEF Earned, WordOK, Turned, Retargeted
  <2>2. q.clean \/ ~excused => Progress(after, q)
    BY <1>6, <1>9, Basics DEF Earned, Progress, Creating, Refreshing, Turned, Present, Seen, Retargeted
  <2>3. ~excused /\ ~q.adopted => Anew(after, q)
    BY <1>6, <1>9, Basics DEF Earned, Anew, Turned, Current, Full, Retargeted
  <2>4. "graph" \in after.made /\ after.stamp = release /\ ~excused => ContentOf(after, release)
    BY <1>9, Basics DEF Earned, ContentOf, Present, Current, Full, Retargeted
  <2> QED BY <1>6, <2>1, <2>2, <2>3, <2>4 DEF Earned, Turned
<1> QED BY <1>4, <1>8, <1>10, <1>11, CallsInv

LEMMA ApplyAiConfigTargetingInv == ASSUME IInv, NEW e \in Env, ApplyAiConfigTargeting(e) PROVE IInv'
<1>1. run.pc = "rules" /\ UNCHANGED release  BY DEF ApplyAiConfigTargeting, At
<1>2. CASE ApplyTargeting("config", e, "graph")  BY <1>1, <1>2, ApplyTargetingInv
<1>3. CASE run' = [With(run, "graph", {}) EXCEPT !.clean = FALSE] /\ excused' = TRUE /\ UNCHANGED <<ld, faults>>
  <2>1. PICK b : b = With(run, "graph", {})  OBVIOUS
  <2>2. Turned(b, run, "graph", {})  BY <2>1, Basics, Turning DEF Stage, Things
  <2>3. b \in Run /\ Base(ld, b, release)
    BY <1>1, <2>2, Basics DEF Base, Typed, TodoOK, VersionsOK, MadeOK, Turned
  <2> QED BY <1>1, <1>3, <2>1, <2>3, Failed DEF IInv
<1> QED BY <1>2, <1>3 DEF ApplyAiConfigTargeting

LEMMA ApplyFlagTargetingInv == ASSUME IInv, NEW e \in Env, ApplyFlagTargeting(e) PROVE IInv'
<1>1. run.pc = "flagRules" /\ UNCHANGED release /\ ApplyTargeting("flag", e, "metric")
  BY DEF ApplyFlagTargeting, At
<1> QED BY <1>1, ApplyTargetingInv

\* The graph's content and its stamp are written.
Stamped(m, l, shape, stamp) ==
  /\ m \in Project /\ m.made = l.made \union {"graph"} /\ m.tool = l.tool /\ m.live = l.live /\ m.rules = l.rules
  /\ m.shape = shape /\ m.stamp = stamp

LEMMA Stamping ==
  ASSUME NEW l \in Project, NEW shape \in Nat, NEW stamp \in Nat
  PROVE  /\ Stamped([l EXCEPT !.made = @ \union {"graph"}, !.shape = shape, !.stamp = stamp], l, shape, stamp)
         /\ "graph" \in l.made => Stamped([l EXCEPT !.shape = shape, !.stamp = stamp], l, shape, stamp)
BY DEF Stamped, Project

LEMMA StampedBase ==
  ASSUME NEW l, NEW m, NEW r, NEW rel, NEW shape, NEW stamp, Base(l, r, rel), Stamped(m, l, shape, stamp), stamp = r.v
  PROVE  Base(m, r, rel)
<1>1. Typed(m, r, rel)  BY DEF Base, Typed, Stamped
<1> QED BY <1>1 DEF Base, VersionsOK, MadeOK, Stamped

LEMMA ProvisionGraphInv == ASSUME IInv, ProvisionGraph PROVE IInv'
<1>1. run.pc = "graph" /\ UNCHANGED release  BY DEF ProvisionGraph, At
<1>2. PICK q : q = To(run, "flag")  OBVIOUS
<1>3. Turned(q, run, "flag", run.todo)  BY <1>2, Basics, Turning DEF Stage, Run, Things
<1>4. Base(ld, q, release)  BY <1>1, <1>3, Basics DEF Base, Typed, TodoOK, VersionsOK, MadeOK, Turned
<1>5. CASE Finds("graph") /\ ld' = FoundGraph /\ run' = Adopt(To(run, "flag")) /\ UNCHANGED <<faults, excused>>
  <2>1. PICK s : s = Adopt(q)  OBVIOUS
  <2>2. s.adopted  BY <1>3, <2>1, Adopting DEF Turned
  <2>3. /\ s \in Run /\ s.pc = "flag" /\ s.todo = q.todo /\ s.kind = q.kind /\ s.v = q.v /\ s.var = q.var
        /\ s.versions = q.versions /\ s.read = q.read /\ s.created = q.created /\ s.clean = q.clean
    BY <1>3, <2>1, Adopting DEF Turned
  <2>4. Base(ld, s, release)  BY <1>3, <1>4, <2>3 DEF Base, Typed, TodoOK, VersionsOK, MadeOK, Turned
  <2>5. WordOK(ld, s)  BY <1>3, <2>3, Basics DEF Earned, WordOK, Turned
  <2>6. s.clean \/ ~excused => Progress(ld, s)
    BY <1>1, <1>3, <1>5, <2>3, Basics DEF Earned, Progress, Creating, Refreshing, Turned, Present, Seen, Finds
  <2>7. Earned(ld, s, excused, release)  BY <2>2, <2>3, <2>5, <2>6, Basics DEF Earned
  <2> QED BY <1>1, <1>2, <1>5, <2>1, <2>4, <2>7 DEF IInv, FoundGraph
<1>6. ASSUME ~Finds("graph"),
             NEW after, after = [ld EXCEPT !.made = @ \union {"graph"}, !.shape = C.shape, !.stamp = run.v],
             \/ ld' = after /\ run' = q /\ excused' = (excused \/ run.adopted)
             \/ ld' \in {ld, after} /\ excused' = TRUE /\ run' = [q EXCEPT !.clean = FALSE]
      PROVE  IInv'
  <2>1. Stamped(after, ld, C.shape, run.v)  BY <1>6, Basics, Stamping DEF Run
  <2>2. Base(after, q, release)  BY <1>3, <1>4, <2>1, StampedBase DEF Turned
  <2>3. CASE ld' = after /\ run' = q /\ excused' = (excused \/ run.adopted)
    <3>1. WordOK(after, q)  BY <1>3, <2>1, Basics DEF Earned, WordOK, Turned, Stamped
    <3>2. q.clean \/ ~excused => Progress(after, q)
      BY <1>1, <1>3, <2>1, Basics DEF Earned, Progress, Creating, Refreshing, Turned, Present, Seen, Stamped
    <3>3. ASSUME ~excused, ~run.adopted, run.v = release PROVE ContentOf(after, release)
      <4>1. Progress(ld, run) /\ Anew(ld, run)  BY <3>3, Basics DEF Earned
      <4>2. "config" \in ld.made /\ \A x \in Variation : ld.live[x].there  BY <1>1, <4>1 DEF Progress
      <4>3. \A t \in Tool : Present(ld, t) /\ Current(ld, release, t)
        BY <1>1, <3>3, <4>1 DEF Progress, Anew, Creating
      <4>4. \A x \in Variation : Full(ld, release, x)  BY <1>1, <3>3, <4>1 DEF Anew
      <4> QED BY <2>1, <3>3, <4>2, <4>3, <4>4 DEF ContentOf, Stamped, Present, Current, Full, C
    <3>4. Anew(after, q)  BY <1>3 DEF Anew, Turned
    <3>5. Earned(after, q, excused \/ run.adopted, release)
      BY <1>3, <2>1, <3>1, <3>2, <3>3, <3>4 DEF Earned, Turned, Stamped
    <3> QED BY <1>1, <2>2, <2>3, <3>5 DEF IInv
  <2>4. CASE ld' \in {ld, after} /\ excused' = TRUE /\ run' = [q EXCEPT !.clean = FALSE]
    <3>1. q \in Run  BY <1>3 DEF Turned
    <3> QED BY <1>1, <1>4, <2>2, <2>4, <3>1, Failed DEF IInv
  <2> QED BY <1>6, <2>3, <2>4
<1>7. CASE Aborts  BY <1>1, <1>7, RunGone DEF Aborts
<1> QED BY <1>2, <1>5, <1>6, <1>7 DEF ProvisionGraph

LEMMA ProvisionFlagInv == ASSUME IInv, ProvisionFlag PROVE IInv'
<1>1. run.pc = "flag" /\ UNCHANGED release  BY DEF ProvisionFlag, At
<1>2. PICK b : b = To(run, "metric")  OBVIOUS
<1>3. Turned(b, run, "metric", run.todo)  BY <1>2, Basics, Turning DEF Stage, Run, Things
<1>4. Base(ld, b, release)  BY <1>1, <1>3, Basics DEF Base, Typed, TodoOK, VersionsOK, MadeOK, Turned
<1>5. CASE run' = b /\ UNCHANGED <<ld, excused>>
  <2>1. WordOK(ld, b)  BY <1>3, Basics DEF Earned, WordOK, Turned
  <2>2. b.clean \/ ~excused => Progress(ld, b)
    BY <1>1, <1>3, Basics DEF Earned, Progress, Creating, Refreshing, Turned, Present, Seen
  <2>3. Anew(ld, b)  BY <1>3 DEF Anew, Turned
  <2>4. Earned(ld, b, excused, release)  BY <1>3, <2>1, <2>2, <2>3, Basics DEF Earned, Turned
  <2> QED BY <1>1, <1>4, <1>5, <2>4 DEF IInv
<1>6. CASE ~Finds("flag") /\ Calls([ld EXCEPT !.made = @ \union {"flag"}], With(run, "flagRules", Env), To(run, "metric"))
  <2>1. PICK after : after = [ld EXCEPT !.made = @ \union {"flag"}]  OBVIOUS
  <2>2. PICK q : q = With(run, "flagRules", Env)  OBVIOUS
  <2>3. Calls(after, q, b)  BY <1>2, <1>6, <2>1, <2>2
  <2>4. Turned(q, run, "flagRules", Env)  BY <2>2, Basics, Turning DEF Stage, Things
  <2>5. Remade(after, ld, "flag")  BY <2>1, Basics, Remaking
  <2>6. Base(ld, q, release)  BY <1>1, <2>4, Basics DEF Base, Typed, TodoOK, VersionsOK, MadeOK, Turned
  <2>7. Base(after, q, release) /\ Base(after, b, release)  BY <1>4, <2>5, <2>6, RemadeBase
  <2>8. \A e \in Env : ld.rules["flag"][e] # "operator"  BY <1>6, Basics DEF Base, MadeOK, Finds
  <2>9. WordOK(after, q)  BY <2>4, <2>5, <2>8, Basics DEF Earned, WordOK, Turned, Remade
  <2>10. q.clean \/ ~excused => Progress(after, q)
    BY <1>1, <2>4, <2>5, Basics DEF Earned, Progress, Creating, Refreshing, Turned, Present, Seen, Remade
  <2>11. Anew(after, q)  BY <2>4 DEF Anew, Turned
  <2>12. "graph" \in after.made /\ after.stamp = release /\ ~excused => ContentOf(after, release)
    BY <2>5, Basics DEF Earned, ContentOf, Present, Current, Full, Remade
  <2>13. Earned(after, q, excused, release)  BY <2>4, <2>9, <2>10, <2>11, <2>12 DEF Earned, Turned
  <2> QED BY <1>1, <1>4, <2>3, <2>7, <2>13, CallsInv
<1>7. CASE Aborts  BY <1>1, <1>7, RunGone DEF Aborts
<1> QED BY <1>2, <1>5, <1>6, <1>7 DEF ProvisionFlag

\* An upgrade looks at every tool again; a provision is over.
LEMMA ProvisionMetricInv == ASSUME IInv, ProvisionMetric PROVE IInv'
<1>1. PICK after : after = [ld EXCEPT !.made = @ \union {"metric"}]  OBVIOUS
<1>2. PICK q : q = AfterProvision  OBVIOUS
<1>3. run.pc = "metric" /\ UNCHANGED release /\ Calls(after, q, q)
  BY <1>1, <1>2 DEF ProvisionMetric, At, CreateOnly
<1>4. Remade(after, ld, "metric")  BY <1>1, Basics, Remaking
<1>5. /\ q \in Run /\ q.kind = run.kind /\ q.v = run.v /\ q.var = run.var /\ q.read = run.read
      /\ q.created = run.created /\ q.adopted = run.adopted /\ q.clean = run.clean
      /\ \/ q.pc = "sync" /\ q.todo = Tool /\ q.versions = NoRefs
         \/ q.pc = "done" /\ q.kind = "provision" /\ q.versions = run.versions
  <2>1. CASE run.kind = "upgrade"
    <3>1. PICK s : s = With(run, "sync", Tool)  OBVIOUS
    <3>2. Turned(s, run, "sync", Tool)  BY <3>1, Basics, Turning DEF Stage, Things
    <3>3. q = [s EXCEPT !.versions = NoRefs]  BY <1>2, <2>1, <3>1 DEF AfterProvision
    <3> QED BY <3>2, <3>3, Empty DEF Turned, Run
  <2>2. CASE run.kind # "upgrade"
    <3>1. Turned(To(run, "done"), run, "done", run.todo)  BY Basics, Turning DEF Stage, Run, Things
    <3>2. run.kind \in {"provision", "upgrade"}  BY Basics DEF Run
    <3> QED BY <1>2, <2>2, <3>1, <3>2 DEF AfterProvision, Turned
  <2> QED BY <2>1, <2>2
<1>6. Base(ld, q, release)
  <2>1. TodoOK(q)  BY <1>5, BridgeAssumption DEF TodoOK
  <2>2. VersionsOK(ld, q)
    BY <1>5, Basics, Empty DEF Base, VersionsOK, Absent, Project, ToolState
  <2> QED BY <1>3, <1>5, <2>1, <2>2, Basics DEF Base, Typed, MadeOK
<1>7. Base(after, q, release)  BY <1>4, <1>6, RemadeBase
<1>8. Earned(after, q, excused, release)
  <2>1. WordOK(after, q)  BY <1>3, <1>4, <1>5, Basics DEF Earned, WordOK, Remade
  <2>2. q.clean \/ ~excused => Progress(after, q)
    BY <1>3, <1>4, <1>5, Basics DEF Earned, Progress, Creating, Refreshing, Present, Remade
  <2>3. Anew(after, q)  BY <1>5 DEF Anew
  <2>4. "graph" \in after.made /\ after.stamp = release /\ ~excused => ContentOf(after, release)
    BY <1>4, Basics DEF Earned, ContentOf, Present, Current, Full, Remade
  <2> QED BY <1>5, <2>1, <2>2, <2>3, <2>4 DEF Earned
<1> QED BY <1>3, <1>6, <1>7, <1>8, CallsInv

(***************************************************************************)
(* upgrade, stage by stage.                                                *)
(***************************************************************************)
\* q is r, having seen version n of tool t.
LEMMA Reversioning ==
  ASSUME NEW r \in Run, NEW t \in Tool, NEW n \in Nat
  PROVE  \E q \in Run :
           /\ q = [r EXCEPT !.versions[t] = n]
           /\ q.pc = r.pc /\ q.todo = r.todo /\ q.kind = r.kind /\ q.v = r.v /\ q.var = r.var /\ q.read = r.read
           /\ q.created = r.created /\ q.adopted = r.adopted /\ q.clean = r.clean
           /\ q.versions[t] = n /\ \A u \in Tool : u # t => q.versions[u] = r.versions[u]
<1> DEFINE vs == [r.versions EXCEPT ![t] = n]
<1>1. vs \in Refs /\ vs[t] = n /\ \A u \in Tool : u # t => vs[u] = r.versions[u]  BY DEF Run, Refs
<1>2. PICK q : q = [r EXCEPT !.versions = vs]  OBVIOUS
<1>3. q = [r EXCEPT !.versions[t] = n]  BY <1>2
<1> HIDE DEF vs
<1>4. /\ q \in Run /\ q.versions = vs /\ q.pc = r.pc /\ q.todo = r.todo /\ q.kind = r.kind /\ q.v = r.v /\ q.var = r.var
      /\ q.read = r.read /\ q.created = r.created /\ q.adopted = r.adopted /\ q.clean = r.clean
  BY <1>1, <1>2 DEF Run
<1> QED BY <1>1, <1>3, <1>4

LEMMA SyncToolInv ==
  ASSUME IInv, NEW t \in Tool, SyncTool(t)
  PROVE  IInv'
<1>1. run.pc = "sync" /\ UNCHANGED release /\ t = Turn  BY DEF SyncTool, At
<1>2. t \in run.todo /\ run.todo \subseteq Tool  BY <1>1, Basics DEF Base, TodoOK, Turn
<1>3. PICK r : r = Done(t, "read")  OBVIOUS
<1>4. \/ run.todo = {t} /\ Turned(r, run, "read", {})
      \/ run.todo \ {t} # {} /\ Turned(r, run, "sync", run.todo \ {t})
  <2>1. "read" \in Stage  BY DEF Stage
  <2> QED BY <1>1, <1>2, <1>3, <2>1, Basics, Finishing
<1>5. Base(ld, r, release)
  BY <1>1, <1>2, <1>4, Basics DEF Base, Typed, TodoOK, VersionsOK, MadeOK, Turned
<1>6. r \in Run /\ ld.tool[t] \in ToolState /\ r.created = run.created  BY <1>4, Basics DEF Turned, Project
<1>7. PICK u \in Run :
        /\ u = [r EXCEPT !.versions[t] = IF t \in run.created THEN 1 ELSE Absent]
        /\ u.pc = r.pc /\ u.todo = r.todo /\ u.kind = r.kind /\ u.v = r.v /\ u.var = r.var /\ u.read = r.read
        /\ u.created = r.created /\ u.adopted = r.adopted /\ u.clean = r.clean
        /\ u.versions[t] = (IF t \in run.created THEN 1 ELSE Absent)
        /\ \A w \in Tool : w # t => u.versions[w] = r.versions[w]
  <2>1. PICK n \in Nat : n = IF t \in run.created THEN 1 ELSE Absent  BY DEF Absent
  <2>2. \E u \in Run :
          /\ u = [r EXCEPT !.versions[t] = n]
          /\ u.pc = r.pc /\ u.todo = r.todo /\ u.kind = r.kind /\ u.v = r.v /\ u.var = r.var /\ u.read = r.read
          /\ u.created = r.created /\ u.adopted = r.adopted /\ u.clean = r.clean
          /\ u.versions[t] = n /\ \A w \in Tool : w # t => u.versions[w] = r.versions[w]
    BY <1>6, Reversioning
  <2> QED BY <2>1, <2>2
<1>8. Base(ld, u, release)
  <2>1. t \in run.created => ld.tool[t].version # Absent  BY Basics DEF Base, VersionsOK
  <2>2. VersionsOK(ld, u)  BY <1>5, <1>6, <1>7, <2>1 DEF Base, VersionsOK, Absent, ToolState
  <2> QED BY <1>5, <1>7, <2>2 DEF Base, Typed, TodoOK, MadeOK
<1>9. CASE ld.tool[t].version = Absent
  <2>1. Calls(ld, u, u)  BY <1>3, <1>7, <1>9 DEF SyncTool
  <2>2. ~run.clean /\ excused  BY <1>1, <1>9, Basics DEF Earned, Progress, Present
  <2>3. ~u.clean  BY <1>4, <1>7, <2>2 DEF Turned
  <2>4. Earned(ld, u, excused, release)  BY <2>2, <2>3 DEF Earned, WordOK
  <2> QED BY <1>1, <1>8, <2>1, <2>4, CallsInv
<1>10. CASE ld.tool[t].version # Absent
  <2>1. PICK s : s = SyncedTool(t)  OBVIOUS
  <2>2. /\ s \in ToolState /\ s.version >= ld.tool[t].version /\ s.version # Absent /\ s.def = C.def
        /\ ld.tool[t].def = C.def => s = ld.tool[t]
    BY <1>6, <1>10, <2>1, Basics DEF SyncedTool, ToolState, Absent
  <2>3. PICK after : after = [ld EXCEPT !.tool[t] = s]  OBVIOUS
  <2>4. Retooled(after, ld, t) /\ after.tool[t] = s  BY <2>2, <2>3, Basics, Retooling
  <2>5. PICK q \in Run :
          /\ q = [r EXCEPT !.versions[t] = s.version]
          /\ q.pc = r.pc /\ q.todo = r.todo /\ q.kind = r.kind /\ q.v = r.v /\ q.var = r.var /\ q.read = r.read
          /\ q.created = r.created /\ q.adopted = r.adopted /\ q.clean = r.clean
          /\ q.versions[t] = s.version /\ \A w \in Tool : w # t => q.versions[w] = r.versions[w]
    <3>1. s.version \in Nat  BY <2>2 DEF ToolState
    <3> QED BY <1>6, <3>1, Reversioning
  <2>6. Calls(after, q, u)  BY <1>3, <1>7, <1>10, <2>1, <2>3, <2>5 DEF SyncTool, ReRead
  <2>7. Base(after, u, release) /\ Base(after, r, release)  BY <1>5, <1>8, <2>4, RetooledBase
  <2>8. Base(after, q, release)
    <3>1. s.version <= s.version  BY <2>2 DEF ToolState
    <3>2. VersionsOK(after, q)  BY <2>4, <2>5, <2>7, <3>1 DEF Base, VersionsOK
    <3> QED BY <2>5, <2>7, <3>2 DEF Base, Typed, TodoOK, MadeOK
  <2>9. WordOK(after, q)
    <3>1. q.pc \in {"read", "sync"} /\ q.clean = run.clean /\ q.created = run.created  BY <1>4, <2>5 DEF Turned
    <3>2. after.rules = ld.rules  BY <2>4 DEF Retooled
    <3>3. WordOK(ld, run)  BY Basics DEF Earned
    <3> QED BY <3>1, <3>2, <3>3 DEF WordOK
  <2>10. q.clean \/ ~excused => Progress(after, q)
    <3>1. SUFFICES ASSUME q.clean \/ ~excused PROVE Progress(after, q)  OBVIOUS
    <3>2. Progress(ld, run)  BY <1>4, <2>5, <3>1, Basics DEF Earned, Turned
    <3>3. /\ "config" \in after.made /\ "graph" \in after.made /\ \A x \in Variation : after.live[x].there
          /\ \A w \in Tool : Present(ld, w)
          /\ \A w \in Tool \ run.todo : Seen(ld, run, w) /\ Current(ld, run.v, w)
      BY <1>1, <2>4, <3>2 DEF Progress, Refreshing, Retooled
    <3>4. \A w \in Tool : Present(after, w)  BY <2>2, <2>4, <3>3 DEF Present, Retooled
    <3>5. Seen(after, q, t) /\ Current(after, q.v, t)
      BY <1>4, <2>2, <2>4, <2>5 DEF C, Seen, Current, Turned
    <3>6. \A w \in Tool : w # t /\ w \notin run.todo => Seen(after, q, w) /\ Current(after, q.v, w)
      BY <1>4, <2>4, <2>5, <3>3 DEF Seen, Current, Turned, Retooled
    <3>7. \A w \in Tool \ q.todo : Seen(after, q, w) /\ Current(after, q.v, w)
      BY <1>4, <2>5, <3>5, <3>6 DEF Turned
    <3>8. q.pc = "sync" \/ (q.pc = "read" /\ q.todo = {})  BY <1>4, <2>5 DEF Turned
    <3> QED BY <3>3, <3>4, <3>7, <3>8 DEF Progress, Creating, Refreshing
  <2>11. Anew(after, q)  BY <1>4, <2>5 DEF Anew, Turned
  <2>12. ASSUME "graph" \in after.made, after.stamp = release, ~excused PROVE ContentOf(after, release)
    <3>1. ContentOf(ld, release)  BY <2>4, <2>12, Basics DEF Earned, Retooled
    <3>2. run.v = release  BY <1>1, <2>4, <2>12, Basics DEF Base, Typed, Retooled
    <3>3. s = ld.tool[t]  BY <2>2, <3>1, <3>2 DEF ContentOf, Current, C
    <3>4. \A w \in Tool : after.tool[w] = ld.tool[w]  BY <2>4, <3>3 DEF Retooled
    <3> QED BY <2>4, <3>1, <3>4 DEF ContentOf, Present, Current, Full, Retooled
  <2>13. Earned(after, q, excused, release)  BY <1>4, <2>5, <2>9, <2>10, <2>11, <2>12 DEF Earned, Turned
  <2> QED BY <1>1, <1>8, <2>6, <2>7, <2>8, <2>13, CallsInv
<1> QED BY <1>9, <1>10

\* A stage that a run cannot come to undisturbed.
LEMMA Excused ==
  ASSUME IInv, NEW q \in Run, q.clean = run.clean, ~run.clean, excused
  PROVE  Earned(ld, q, excused, release)
BY DEF Earned, WordOK

LEMMA ReadConfigInv == ASSUME IInv, ReadConfig PROVE IInv'
<1>1. run.pc = "read" /\ UNCHANGED release  BY DEF ReadConfig, At
<1>2. PICK b : b = To(run, "stamp")  OBVIOUS
<1>3. Turned(b, run, "stamp", run.todo)  BY <1>2, Basics, Turning DEF Stage, Run, Things
<1>4. Base(ld, b, release)  BY <1>1, <1>3, Basics DEF Base, Typed, TodoOK, VersionsOK, MadeOK, Turned
<1>5. CASE ~Finds("config")
  <2>1. run' = b /\ UNCHANGED <<ld, excused>>  BY <1>2, <1>5 DEF ReadConfig
  <2>2. ~run.clean /\ excused  BY <1>1, <1>5, Basics DEF Earned, Progress, Refreshing, Finds
  <2>3. Earned(ld, b, excused, release)  BY <1>3, <2>2, Excused DEF Turned
  <2> QED BY <1>1, <1>4, <2>1, <2>3 DEF IInv
<1>6. CASE Finds("config")
  <2>1. PICK found : found = {x \in Variation : ld.live[x].there}  OBVIOUS
  <2>2. PICK p : p = IF found = {} THEN "stamp" ELSE "patch"  OBVIOUS
  <2>3. PICK s : s = With(run, p, found)  OBVIOUS
  <2>4. PICK q : q = [s EXCEPT !.read = ld.live]  OBVIOUS
  <2>5. Calls(ld, q, b)  BY <1>2, <1>6, <2>1, <2>2, <2>3, <2>4 DEF ReadConfig
  <2>6. found \subseteq Variation /\ p \in Stage  BY <2>1, <2>2 DEF Stage
  <2>7. Turned(s, run, p, found)  BY <2>3, <2>6, Basics, Turning DEF Things
  <2>8. /\ q \in Run /\ q.pc = p /\ q.todo = found /\ q.kind = run.kind /\ q.v = run.v /\ q.var = run.var
        /\ q.versions = run.versions /\ q.read = ld.live /\ q.created = run.created
        /\ q.adopted = run.adopted /\ q.clean = run.clean
    <3>1. ld.live \in [Variation -> LiveVariation]  BY Basics DEF Project
    <3> QED BY <2>4, <2>7, <3>1 DEF Turned, Run
  <2>9. p = "stamp" \/ (p = "patch" /\ found # {})  BY <2>2
  <2>10. Base(ld, q, release)
    <3>1. TodoOK(q)  BY <2>6, <2>8, <2>9 DEF TodoOK
    <3>2. MadeOK(ld, q)  BY <2>1, <2>8, <2>9, Basics DEF Base, MadeOK
    <3> QED BY <1>1, <2>8, <3>1, <3>2, Basics DEF Base, Typed, VersionsOK
  <2>11. WordOK(ld, q)  BY <2>8, <2>9, Basics DEF Earned, WordOK
  <2>12. ASSUME q.clean \/ ~excused PROVE Progress(ld, q)
    <3>1. Progress(ld, run)  BY <2>8, <2>12, Basics DEF Earned
    <3>2. \A x \in Variation : ld.live[x].there  BY <1>1, <3>1 DEF Progress, Refreshing
    <3>3. found = Variation /\ Default \in Variation  BY <2>1, <3>2, BridgeAssumption
    <3>4. p = "patch"  BY <2>9, <2>2, <3>3
    <3> QED BY <1>1, <2>8, <3>1, <3>2, <3>3, <3>4 DEF Progress, Creating, Refreshing, Seen, Same
  <2>13. Anew(ld, q)  BY <2>8, <2>9 DEF Anew
  <2>14. Earned(ld, q, excused, release)  BY <2>8, <2>9, <2>11, <2>12, <2>13, Basics DEF Earned
  <2> QED BY <1>1, <1>4, <2>5, <2>10, <2>14, CallsInv
<1> QED BY <1>5, <1>6

LEMMA Patching ==
  ASSUME IInv, NEW x \in Variation
  PROVE  /\ Patched(x) \in LiveVariation /\ Patched(x).there = ld.live[x].there /\ Patched(x).model = ld.live[x].model
         /\ Patched(x).text = (IF NewText(x) THEN C.text ELSE ld.live[x].text)
         /\ Patched(x).judged = (ld.live[x].judged \/ NewJudges(x))
         /\ Patched(x).refs = (IF NewRefs(x) THEN run.versions ELSE ld.live[x].refs)
<1>1. ld.live[x] \in LiveVariation /\ run.read[x] \in LiveVariation /\ run.versions \in Refs  BY Basics DEF Project, Run
<1>2. PICK text \in Nat : text = IF NewText(x) THEN C.text ELSE ld.live[x].text  BY <1>1, Basics DEF LiveVariation
<1>3. PICK judged \in BOOLEAN : judged = (ld.live[x].judged \/ NewJudges(x))
  BY <1>1, Basics DEF LiveVariation, NewJudges
<1>4. PICK refs \in Refs : refs = IF NewRefs(x) THEN run.versions ELSE ld.live[x].refs  BY <1>1 DEF LiveVariation
<1>5. PICK v : v = [ld.live[x] EXCEPT !.text = text, !.judged = judged, !.refs = refs, !.costed = FALSE]  OBVIOUS
<1>6. Patched(x) = v
  <2>1. /\ ld.live[x].judged \in BOOLEAN
    BY <1>1 DEF LiveVariation
  <2> QED BY <1>1, <1>2, <1>3, <1>4, <1>5, <2>1 DEF Patched, LiveVariation
<1>7. /\ v \in LiveVariation /\ v.there = ld.live[x].there /\ v.model = ld.live[x].model
      /\ v.text = text /\ v.judged = judged /\ v.refs = refs
  BY <1>1, <1>5 DEF LiveVariation
<1> QED BY <1>2, <1>3, <1>4, <1>6, <1>7

\* What an undisturbed run patches is as committed; so is what it need not patch.
LEMMA PatchedFull ==
  ASSUME IInv, run.pc = "patch", NEW x \in run.todo, x \in Variation, run.clean \/ ~excused
  PROVE  /\ Patched(x).text = C.text /\ (C.judged => Patched(x).judged)
         /\ \A t \in Tool : Patched(x).refs[t] = ld.tool[t].version
         /\ ~Gathers(x) => Full(ld, run.v, x)
<1>1. Same(ld, run, x) /\ \A t \in Tool : Present(ld, t) /\ Seen(ld, run, t)
  BY Basics DEF Earned, Progress, Refreshing
<1>2. \A t \in Tool : run.versions[t] = ld.tool[t].version  BY <1>1 DEF Seen
<1>3. run.versions # NoRefs
  <2>1. PICK t : t \in Tool  BY BridgeAssumption
  <2> QED BY <1>1, <1>2, <2>1, Empty DEF Present
<1>4. ~NewRefs(x) => ld.live[x].refs = run.versions  BY <1>1, <1>3 DEF NewRefs, Same
<1>5. ~NewText(x) => ld.live[x].text = C.text  BY <1>1 DEF NewText, Same
<1>6. C.judged /\ ~NewJudges(x) => ld.live[x].judged  BY <1>1 DEF NewJudges, Same
<1>7. Patched(x).text = C.text  BY <1>5, Patching
<1>8. C.judged => Patched(x).judged  BY <1>6, Patching
<1>9. Patched(x).refs = run.versions  BY <1>4, Patching
<1>10. ~Gathers(x) => Full(ld, run.v, x)  BY <1>2, <1>4, <1>5, <1>6 DEF Gathers, Full, C
<1> QED BY <1>2, <1>7, <1>8, <1>9, <1>10

LEMMA SyncVariationInv == ASSUME IInv, NEW x \in Variation, SyncVariation(x) PROVE IInv'
<1>1. run.pc = "patch" /\ UNCHANGED release /\ x = Turn  BY DEF SyncVariation, At
<1>2. x \in run.todo /\ run.todo \subseteq Variation /\ ld.live[x].there
  BY <1>1, Basics DEF Base, TodoOK, MadeOK, Turn
<1>3. CASE ~Gathers(x)
  <2>1. PICK q : q = Done(x, "stamp")  OBVIOUS
  <2>2. run' = q /\ UNCHANGED <<ld, excused>>  BY <1>3, <2>1 DEF SyncVariation
  <2>3. \/ run.todo = {x} /\ Turned(q, run, "stamp", {})
        \/ run.todo \ {x} # {} /\ Turned(q, run, "patch", run.todo \ {x})
    <3>1. "stamp" \in Stage  BY DEF Stage
    <3> QED BY <1>1, <1>2, <2>1, <3>1, Basics, Finishing
  <2>4. Base(ld, q, release)
    BY <1>1, <1>2, <2>3, Basics DEF Base, Typed, TodoOK, VersionsOK, MadeOK, Turned
  <2>5. WordOK(ld, q)  BY <1>1, <2>3, Basics DEF Earned, WordOK, Turned
  <2>6. ASSUME q.clean \/ ~excused PROVE Progress(ld, q)
    <3>1. run.clean \/ ~excused  BY <2>3, <2>6 DEF Turned
    <3>2. Progress(ld, run) /\ Full(ld, run.v, x)  BY <1>1, <1>2, <1>3, <3>1, PatchedFull, Basics DEF Earned
    <3> QED BY <1>1, <2>3, <3>2 DEF Progress, Creating, Refreshing, Turned, Seen, Same
  <2>7. Anew(ld, q)  BY <2>3 DEF Anew, Turned
  <2>8. Earned(ld, q, excused, release)  BY <2>3, <2>5, <2>6, <2>7, Basics DEF Earned, Turned
  <2> QED BY <1>1, <2>2, <2>4, <2>8 DEF IInv
<1>4. CASE Gathers(x)
  <2>1. PICK after : after = [ld EXCEPT !.live[x] = Patched(x)]  OBVIOUS
  <2>2. PICK s : s = To(run, "remodel")  OBVIOUS
  <2>3. PICK q : q = [s EXCEPT !.var = x]  OBVIOUS
  <2>4. PICK b : b = With(run, "stamp", {})  OBVIOUS
  <2>5. Calls(after, q, b)  BY <1>4, <2>1, <2>2, <2>3, <2>4 DEF SyncVariation
  <2>6. Turned(s, run, "remodel", run.todo) /\ Turned(b, run, "stamp", {})
    BY <2>2, <2>4, Basics, Turning DEF Stage, Run, Things
  <2>7. /\ q \in Run /\ q.pc = "remodel" /\ q.todo = run.todo /\ q.kind = run.kind /\ q.v = run.v /\ q.var = x
        /\ q.versions = run.versions /\ q.read = run.read /\ q.created = run.created
        /\ q.adopted = run.adopted /\ q.clean = run.clean
    BY <2>3, <2>6 DEF Turned, Run
  <2>8. PICK v \in LiveVariation : v = Patched(x)  BY Patching
  <2>9. Rewritten(after, ld, x, v) /\ after.made = ld.made  BY <2>1, <2>8, Basics, Rewriting
  <2>10. Base(ld, b, release) /\ Base(ld, q, release)
    <3>1. Base(ld, b, release)
      BY <1>1, <2>6, Basics DEF Base, Typed, TodoOK, VersionsOK, MadeOK, Turned
    <3>2. Base(ld, q, release)
      BY <1>1, <1>2, <2>7, Basics DEF Base, Typed, TodoOK, VersionsOK, MadeOK
    <3> QED BY <3>1, <3>2
  <2>11. v.there /\ v.model = ld.live[x].model /\ \A t \in Tool : v.refs[t] <= ld.tool[t].version
    <3>1. v.refs = run.versions \/ v.refs = ld.live[x].refs  BY <2>8, Patching
    <3> QED BY <1>2, <2>8, <3>1, Patching, Basics DEF Base, VersionsOK
  <2>12. Base(after, b, release) /\ Base(after, q, release)
    <3>1. "config" \in after.made /\ ld.made \subseteq after.made
      BY <1>2, <2>9, Basics DEF Base, MadeOK
    <3>2. b.pc = "stamp" /\ q.pc = "remodel"  BY <2>6, <2>7 DEF Turned
    <3> QED BY <2>9, <2>10, <2>11, <3>1, <3>2, RewrittenBase
  <2>13. WordOK(after, q)
    <3>1. \A y \in Variation : after.live[y].model = ld.live[y].model  BY <2>9, <2>11 DEF Rewritten
    <3>2. after.rules = ld.rules /\ WordOK(ld, run)  BY <2>9, Basics DEF Rewritten, Earned
    <3> QED BY <1>1, <1>2, <2>7, <3>1, <3>2 DEF WordOK
  <2>14. run.clean \/ ~excused => Full(after, run.v, x)
    BY <1>1, <1>2, <2>8, <2>9, PatchedFull DEF Full, Rewritten, C
  <2>15. q.clean \/ ~excused => Progress(after, q)
    BY <1>1, <1>2, <2>7, <2>9, <2>11, <2>14, Basics
    DEF Earned, Progress, Creating, Refreshing, Present, Seen, Current, Same, Full, Rewritten
  <2>16. Anew(after, q)  BY <2>7 DEF Anew
  <2>17. ASSUME "graph" \in after.made, after.stamp = release, ~excused PROVE ContentOf(after, release)
    <3>1. ContentOf(ld, release)  BY <2>9, <2>17, Basics DEF Earned, Rewritten
    <3>2. run.v = release  BY <1>1, <2>9, <2>17, Basics DEF Base, Typed, Rewritten
    <3> QED BY <2>9, <2>11, <2>14, <2>17, <3>1, <3>2 DEF ContentOf, Present, Current, Full, Rewritten
  <2>18. Earned(after, q, excused, release)  BY <2>7, <2>13, <2>15, <2>16, <2>17 DEF Earned
  <2> QED BY <1>1, <2>5, <2>10, <2>12, <2>18, CallsInv
<1> QED BY <1>3, <1>4

LEMMA RePatchModelInv == ASSUME IInv, RePatchModel PROVE IInv'
<1>1. run.pc = "remodel" /\ UNCHANGED release  BY DEF RePatchModel, At
<1>2. run.var \in run.todo /\ run.var \in Variation /\ run.todo \subseteq Variation /\ ld.live[run.var].there
  BY <1>1, Basics DEF Base, TodoOK, MadeOK
<1>3. PICK x : x = run.var  OBVIOUS
<1>4. PICK v : v = [ld.live[x] EXCEPT !.model = run.read[x].model, !.costed = TRUE]  OBVIOUS
<1>5. PICK after : after = [ld EXCEPT !.live[x] = v]  OBVIOUS
<1>6. PICK b : b = With(run, "stamp", {})  OBVIOUS
<1>7. PICK q : q = IF run.todo = {x} THEN b ELSE With(run, "patch", run.todo \ {x})  OBVIOUS
<1>8. Calls(after, q, b) \/ (run' = q /\ UNCHANGED <<ld, faults, excused>>)
  BY <1>3, <1>4, <1>5, <1>6, <1>7 DEF RePatchModel, ModelAsRead
<1>9. Turned(b, run, "stamp", {})  BY <1>6, Basics, Turning DEF Stage, Things
<1>10. \/ run.todo = {x} /\ Turned(q, run, "stamp", {})
       \/ run.todo \ {x} # {} /\ Turned(q, run, "patch", run.todo \ {x})
  <2>1. run.todo # {x} => run.todo \ {x} # {}  BY <1>2, <1>3
  <2>2. Turned(With(run, "patch", run.todo \ {x}), run, "patch", run.todo \ {x})
    <3>1. "patch" \in Stage /\ run.todo \ {x} \in SUBSET Things  BY Basics DEF Stage, Run, Things
    <3> QED BY <3>1, Basics, Turning
  <2> QED BY <1>7, <1>9, <2>1, <2>2
<1>11. Base(ld, q, release) /\ Base(ld, b, release)
  BY <1>1, <1>2, <1>9, <1>10, Basics DEF Base, Typed, TodoOK, VersionsOK, MadeOK, Turned
<1>12. ld.live[x] \in LiveVariation /\ run.read[x] \in LiveVariation  BY <1>2, <1>3, Basics DEF Project, Run
<1>13. /\ v \in LiveVariation /\ v.there = ld.live[x].there /\ v.text = ld.live[x].text /\ v.judged = ld.live[x].judged
       /\ v.refs = ld.live[x].refs /\ v.model = run.read[x].model
  BY <1>4, <1>12 DEF LiveVariation
<1>14. Rewritten(after, ld, x, v) /\ after.made = ld.made
  <2>1. x \in Variation  BY <1>2, <1>3
  <2> QED BY <1>5, <1>13, <2>1, Basics, Rewriting
<1>15. Base(after, q, release) /\ Base(after, b, release)
  <2>1. v.there /\ "config" \in after.made /\ ld.made \subseteq after.made
    BY <1>2, <1>3, <1>13, <1>14, Basics DEF Base, MadeOK
  <2>2. \A t \in Tool : v.refs[t] <= ld.tool[t].version  BY <1>2, <1>3, <1>13, Basics DEF Base, VersionsOK
  <2>3. b.pc = "stamp" /\ q.pc \in {"stamp", "patch"}  BY <1>9, <1>10 DEF Turned
  <2> QED BY <1>2, <1>3, <1>11, <1>14, <2>1, <2>2, <2>3, RewrittenBase
<1>16. Earned(after, q, excused, release)
  <2>1. WordOK(after, q)
    <3>1. \A y \in run.todo \ {x} : after.live[y] = ld.live[y]  BY <1>2, <1>14 DEF Rewritten
    <3>2. after.rules = ld.rules /\ WordOK(ld, run)  BY <1>14, Basics DEF Rewritten, Earned
    <3> QED BY <1>1, <1>10, <3>1, <3>2 DEF WordOK, Turned
  <2>2. \A y \in Variation : /\ after.live[y].there = ld.live[y].there /\ after.live[y].text = ld.live[y].text
                             /\ after.live[y].judged = ld.live[y].judged /\ after.live[y].refs = ld.live[y].refs
    BY <1>13, <1>14 DEF Rewritten
  <2>3. q.clean \/ ~excused => Progress(after, q)
    BY <1>1, <1>3, <1>10, <1>14, <2>2, Basics
    DEF Earned, Progress, Creating, Refreshing, Turned, Present, Seen, Current, Same, Full, Rewritten
  <2>4. Anew(after, q)  BY <1>10 DEF Anew, Turned
  <2>5. "graph" \in after.made /\ after.stamp = release /\ ~excused => ContentOf(after, release)
    BY <1>14, <2>2, Basics DEF Earned, ContentOf, Present, Current, Full, Rewritten
  <2> QED BY <1>10, <2>1, <2>3, <2>4, <2>5 DEF Earned, Turned
<1>17. Earned(ld, q, excused, release)
  <2>1. WordOK(ld, q)  BY <1>1, <1>10, Basics DEF Earned, WordOK, Turned
  <2>2. q.clean \/ ~excused => Progress(ld, q)
    BY <1>1, <1>3, <1>10, Basics DEF Earned, Progress, Creating, Refreshing, Turned, Seen, Same
  <2>3. Anew(ld, q)  BY <1>10 DEF Anew, Turned
  <2> QED BY <1>10, <2>1, <2>2, <2>3, Basics DEF Earned, Turned
<1>18. CASE run' = q /\ UNCHANGED <<ld, faults, excused>>  BY <1>1, <1>11, <1>17, <1>18 DEF IInv
<1> QED BY <1>1, <1>8, <1>11, <1>15, <1>16, <1>18, CallsInv

LEMMA SyncGraphInv == ASSUME IInv, SyncGraph PROVE IInv'
<1>1. run.pc = "stamp" /\ UNCHANGED release  BY DEF SyncGraph, At
<1>2. PICK q : q = To(run, "done")  OBVIOUS
<1>3. Turned(q, run, "done", run.todo)  BY <1>2, Basics, Turning DEF Stage, Run, Things
<1>4. Base(ld, q, release)  BY <1>1, <1>3, Basics DEF Base, Typed, TodoOK, VersionsOK, MadeOK, Turned
<1>5. run.clean \/ ~excused => Progress(ld, run)  BY Basics DEF Earned
<1>6. CASE ~Finds("graph")
  <2>1. run' = q /\ UNCHANGED <<ld, excused>>  BY <1>2, <1>6 DEF SyncGraph
  <2>2. ~run.clean /\ excused  BY <1>1, <1>5, <1>6 DEF Progress, Refreshing, Finds
  <2>3. Earned(ld, q, excused, release)  BY <1>3, <2>2, Excused DEF Turned
  <2> QED BY <1>1, <1>4, <2>1, <2>3 DEF IInv
<1>7. ASSUME Finds("graph"),
             NEW after, after = [ld EXCEPT !.shape = C.shape, !.stamp = run.v],
             \/ ld' = after /\ run' = q /\ excused' = (excused /\ ~run.clean)
             \/ ld' \in {ld, after} /\ excused' = TRUE /\ run' = [q EXCEPT !.clean = FALSE]
      PROVE  IInv'
  <2>1. Stamped(after, ld, C.shape, run.v)  BY <1>7, Basics, Stamping DEF Run, Finds
  <2>2. Base(after, q, release)  BY <1>3, <1>4, <2>1, StampedBase DEF Turned
  <2>3. CASE ld' = after /\ run' = q /\ excused' = (excused /\ ~run.clean)
    <3>1. WordOK(after, q)  BY <1>3, <2>1, Basics DEF Earned, WordOK, Turned, Stamped
    <3>2. Progress(after, q) /\ Anew(after, q)  BY <1>3 DEF Progress, Anew, Creating, Refreshing, Turned
    <3>3. run.clean \/ ~excused => ContentOf(after, run.v)
      BY <1>1, <1>5, <2>1 DEF Progress, Refreshing, ContentOf, Stamped, Present, Current, Full, C
    <3>4. Earned(after, q, excused /\ ~run.clean, release)
      BY <1>3, <2>1, <3>1, <3>2, <3>3 DEF Earned, Turned, Stamped
    <3> QED BY <1>1, <2>2, <2>3, <3>4 DEF IInv
  <2>4. CASE ld' \in {ld, after} /\ excused' = TRUE /\ run' = [q EXCEPT !.clean = FALSE]
    <3>1. q \in Run  BY <1>3 DEF Turned
    <3> QED BY <1>1, <1>4, <2>2, <2>4, <3>1, Failed DEF IInv
  <2> QED BY <1>7, <2>3, <2>4
<1> QED BY <1>2, <1>6, <1>7 DEF SyncGraph

(***************************************************************************)
(* Releases and operators.                                                 *)
(***************************************************************************)
LEMMA ReleaseInv == ASSUME IInv, Release PROVE IInv'
<1>1. release' \in 1 .. Len(Committed) /\ release' = release + 1 /\ UNCHANGED <<ld, run, excused>>
  <2>1. Len(Committed) \in Nat  BY BridgeAssumption
  <2> QED BY <2>1, Basics DEF Release
<1>2. Base(ld, run, release')  BY <1>1, Basics DEF Base, Typed, Project
<1>3. ld.stamp # release'  BY <1>1, Basics DEF Base, Typed, Project
<1>4. Earned(ld, run, excused, release')  BY <1>3, Basics DEF Earned
<1> QED BY <1>1, <1>2, <1>4 DEF IInv

\* A run that an operator comes near is not clean any more.
LEMMA Moved ==
  ASSUME IInv, NEW after, Moves(after)
  PROVE  \E q \in Run :
           /\ run' = q /\ ld' = after /\ UNCHANGED release
           /\ q.pc = run.pc /\ q.todo = run.todo /\ q.kind = run.kind /\ q.v = run.v /\ q.var = run.var
           /\ q.versions = run.versions /\ q.read = run.read /\ q.created = run.created /\ q.adopted = run.adopted
           /\ q.clean = (run.pc = "off")
<1>1. PICK c \in BOOLEAN : c = (run.pc = "off")  OBVIOUS
<1>2. PICK q : q = [run EXCEPT !.clean = c]  OBVIOUS
<1>3. /\ q \in Run /\ q.pc = run.pc /\ q.todo = run.todo /\ q.kind = run.kind /\ q.v = run.v /\ q.var = run.var
      /\ q.versions = run.versions /\ q.read = run.read /\ q.created = run.created /\ q.adopted = run.adopted /\ q.clean = c
  BY <1>2, Basics DEF Run
<1>4. run' = q  BY <1>1, <1>2 DEF Moves
<1> QED BY <1>1, <1>3, <1>4 DEF Moves

LEMMA EditTextInv == ASSUME IInv, NEW x \in Variation, EditText(x) PROVE IInv'
<1>1. PICK v : v = [ld.live[x] EXCEPT !.text = 0]  OBVIOUS
<1>2. PICK after : after = [ld EXCEPT !.live[x] = v]  OBVIOUS
<1>3. ld.live[x].there /\ Moves(after) /\ excused' = TRUE
  <2>1. after = [ld EXCEPT !.live[x].text = 0]  BY <1>1, <1>2
  <2> QED BY <2>1 DEF EditText
<1>4. PICK q \in Run :
        /\ run' = q /\ ld' = after /\ UNCHANGED release
        /\ q.pc = run.pc /\ q.todo = run.todo /\ q.kind = run.kind /\ q.v = run.v /\ q.var = run.var
        /\ q.versions = run.versions /\ q.read = run.read /\ q.created = run.created /\ q.adopted = run.adopted
        /\ q.clean = (run.pc = "off")
  BY <1>3, Moved
<1>5. ld.live[x] \in LiveVariation  BY Basics DEF Project
<1>6. v \in LiveVariation /\ v.there = ld.live[x].there /\ v.model = ld.live[x].model /\ v.refs = ld.live[x].refs
  BY <1>1, <1>5 DEF LiveVariation
<1>7. Rewritten(after, ld, x, v) /\ after.made = ld.made  BY <1>2, <1>6, Basics, Rewriting
<1>8. Base(ld, q, release)  BY <1>4, Basics DEF Base, Typed, TodoOK, VersionsOK, MadeOK
<1>9. Base(after, q, release)
  <2>1. v.there /\ "config" \in after.made /\ ld.made \subseteq after.made
    BY <1>3, <1>6, <1>7, Basics DEF Base, MadeOK
  <2>2. \A t \in Tool : v.refs[t] <= ld.tool[t].version  BY <1>6, Basics DEF Base, VersionsOK
  <2>3. q.pc \in {"variations", "judges", "attach"} => x \notin q.todo  BY <1>3, <1>8 DEF Base, MadeOK
  <2> QED BY <1>7, <1>8, <2>1, <2>2, <2>3, RewrittenBase
<1>10. Earned(after, q, TRUE, release)
  <2>1. CASE run.pc = "off"
    <3>1. q.created = {}  BY <1>4, <2>1, Basics DEF Base, TodoOK
    <3> QED BY <1>4, <2>1, <3>1 DEF Earned, WordOK, Progress, Creating, Refreshing
  <2>2. CASE run.pc # "off"  BY <1>4, <2>2 DEF Earned, WordOK
  <2> QED BY <2>1, <2>2
<1> QED BY <1>3, <1>4, <1>9, <1>10 DEF IInv

LEMMA SwitchModelInv == ASSUME IInv, NEW x \in Variation, SwitchModel(x) PROVE IInv'
<1>0. PICK m \in {"chosen", "keyless"} : Moves([ld EXCEPT !.live[x].model = m])  BY DEF SwitchModel
<1>1. PICK v : v = [ld.live[x] EXCEPT !.model = m]  OBVIOUS
<1>2. PICK after : after = [ld EXCEPT !.live[x] = v]  OBVIOUS
<1>3. ld.live[x].there /\ Moves(after) /\ UNCHANGED excused
  <2>1. after = [ld EXCEPT !.live[x].model = m]  BY <1>1, <1>2
  <2> QED BY <1>0, <2>1 DEF SwitchModel
<1>4. PICK q \in Run :
        /\ run' = q /\ ld' = after /\ UNCHANGED release
        /\ q.pc = run.pc /\ q.todo = run.todo /\ q.kind = run.kind /\ q.v = run.v /\ q.var = run.var
        /\ q.versions = run.versions /\ q.read = run.read /\ q.created = run.created /\ q.adopted = run.adopted
        /\ q.clean = (run.pc = "off")
  BY <1>3, Moved
<1>5. ld.live[x] \in LiveVariation  BY Basics DEF Project
<1>6. /\ v \in LiveVariation /\ v.there = ld.live[x].there /\ v.text = ld.live[x].text
      /\ v.judged = ld.live[x].judged /\ v.refs = ld.live[x].refs
  BY <1>1, <1>5 DEF LiveVariation, Model
<1>7. Rewritten(after, ld, x, v) /\ after.made = ld.made  BY <1>2, <1>6, Basics, Rewriting
<1>8. Base(ld, q, release)  BY <1>4, Basics DEF Base, Typed, TodoOK, VersionsOK, MadeOK
<1>9. Base(after, q, release)
  <2>1. v.there /\ "config" \in after.made /\ ld.made \subseteq after.made
    BY <1>3, <1>6, <1>7, Basics DEF Base, MadeOK
  <2>2. \A t \in Tool : v.refs[t] <= ld.tool[t].version  BY <1>6, Basics DEF Base, VersionsOK
  <2>3. q.pc \in {"variations", "judges", "attach"} => x \notin q.todo  BY <1>3, <1>8 DEF Base, MadeOK
  <2> QED BY <1>7, <1>8, <2>1, <2>2, <2>3, RewrittenBase
<1>10. \A y \in Variation : /\ after.live[y].there = ld.live[y].there /\ after.live[y].text = ld.live[y].text
                            /\ after.live[y].judged = ld.live[y].judged /\ after.live[y].refs = ld.live[y].refs
  BY <1>6, <1>7 DEF Rewritten
<1>11. Earned(after, q, excused, release)
  <2>1. WordOK(after, q)  BY <1>4, Basics DEF Base, TodoOK, WordOK
  <2>2. ~excused => Progress(after, q)
    BY <1>4, <1>7, <1>10, Basics
    DEF Earned, Progress, Creating, Refreshing, Present, Seen, Current, Same, Full, Rewritten
  <2>3. run.pc = "off" => Progress(after, q)  BY <1>4 DEF Progress, Creating, Refreshing
  <2>4. ~excused /\ ~q.adopted => Anew(after, q)
    <3>1. run.pc \in {"judges", "attach"} => run.var \in Variation  BY Basics DEF Run
    <3> QED BY <1>4, <1>7, <1>10, <3>1, Basics DEF Earned, Anew, Current, Full, Rewritten
  <2>5. "graph" \in after.made /\ after.stamp = release /\ ~excused => ContentOf(after, release)
    BY <1>7, <1>10, Basics DEF Earned, ContentOf, Present, Current, Full, Rewritten
  <2> QED BY <1>4, <2>1, <2>2, <2>3, <2>4, <2>5 DEF Earned
<1> QED BY <1>3, <1>4, <1>9, <1>11 DEF IInv

LEMMA RetargetInv ==
  ASSUME IInv, NEW on \in {"config", "flag"}, NEW e \in Env, Retarget(on, e)
  PROVE  IInv'
<1>1. PICK after : after = [ld EXCEPT !.rules[on][e] = "operator"]  OBVIOUS
<1>2. on \in ld.made /\ Moves(after) /\ UNCHANGED excused  BY <1>1 DEF Retarget, Finds
<1>3. PICK q \in Run :
        /\ run' = q /\ ld' = after /\ UNCHANGED release
        /\ q.pc = run.pc /\ q.todo = run.todo /\ q.kind = run.kind /\ q.v = run.v /\ q.var = run.var
        /\ q.versions = run.versions /\ q.read = run.read /\ q.created = run.created /\ q.adopted = run.adopted
        /\ q.clean = (run.pc = "off")
  BY <1>2, Moved
<1>4. Retargeted(after, ld, on, e, "operator")
  <2>1. "operator" \in Hand  BY DEF Hand
  <2> QED BY <1>1, <2>1, Basics, Retargeting
<1>5. Base(ld, q, release)  BY <1>3, Basics DEF Base, Typed, TodoOK, VersionsOK, MadeOK
<1>6. Base(after, q, release)  BY <1>2, <1>4, <1>5, RetargetedBase
<1>7. Earned(after, q, excused, release)
  <2>1. WordOK(after, q)  BY <1>3, Basics DEF Base, TodoOK, WordOK
  <2>2. ~excused => Progress(after, q)
    BY <1>3, <1>4, Basics
    DEF Earned, Progress, Creating, Refreshing, Present, Seen, Current, Same, Full, Retargeted
  <2>3. run.pc = "off" => Progress(after, q)  BY <1>3 DEF Progress, Creating, Refreshing
  <2>4. ~excused /\ ~q.adopted => Anew(after, q)
    BY <1>3, <1>4, Basics DEF Earned, Anew, Current, Full, Retargeted
  <2>5. "graph" \in after.made /\ after.stamp = release /\ ~excused => ContentOf(after, release)
    BY <1>4, Basics DEF Earned, ContentOf, Present, Current, Full, Retargeted
  <2> QED BY <1>3, <2>1, <2>2, <2>3, <2>4, <2>5 DEF Earned
<1> QED BY <1>2, <1>3, <1>6, <1>7 DEF IInv

(***************************************************************************)
(* Every step.                                                             *)
(***************************************************************************)
LEMMA Step == ASSUME IInv, Next PROVE IInv'
<1>1. CASE Runs
  <2>1. ASSUME NEW t \in Tool, ProvisionTool(t) \/ SyncTool(t) PROVE IInv'
    BY <2>1, ProvisionToolInv, SyncToolInv
  <2>2. ASSUME NEW x \in Variation, ProvisionVariation(x) \/ SyncVariation(x) PROVE IInv'
    BY <2>2, ProvisionVariationInv, SyncVariationInv
  <2>3. ASSUME NEW e \in Env, ApplyAiConfigTargeting(e) \/ ApplyFlagTargeting(e) PROVE IInv'
    BY <2>3, ApplyAiConfigTargetingInv, ApplyFlagTargetingInv
  <2>4. CASE ProvisionModelConfig  BY <2>4, ProvisionModelConfigInv
  <2>5. CASE ProvisionAiConfig  BY <2>5, ProvisionAiConfigInv
  <2>6. CASE AttachJudges  BY <2>6, AttachJudgesInv
  <2>7. CASE AttachTools  BY <2>7, AttachToolsInv
  <2>8. CASE ProvisionGraph  BY <2>8, ProvisionGraphInv
  <2>9. CASE ProvisionFlag  BY <2>9, ProvisionFlagInv
  <2>10. CASE ProvisionMetric  BY <2>10, ProvisionMetricInv
  <2>11. CASE ReadConfig  BY <2>11, ReadConfigInv
  <2>12. CASE RePatchModel  BY <2>12, RePatchModelInv
  <2>13. CASE SyncGraph  BY <2>13, SyncGraphInv
  <2>14. CASE Ends
    <3>1. run' = NoRun /\ UNCHANGED <<ld, release, excused>>  BY <2>14 DEF Ends, At
    <3> QED BY <3>1, RunGone
  <2> QED
    BY <1>1, <2>1, <2>2, <2>3, <2>4, <2>5, <2>6, <2>7, <2>8, <2>9, <2>10, <2>11, <2>12, <2>13, <2>14 DEF Runs
<1>2. ASSUME NEW kind \in {"provision", "upgrade"}, Launch(kind) PROVE IInv'  BY <1>2, LaunchInv
<1>3. CASE Killed
  <2>1. run' = NoRun /\ UNCHANGED <<ld, release, excused>>  BY <1>3 DEF Killed
  <2> QED BY <2>1, RunGone
<1>4. CASE Release  BY <1>4, ReleaseInv
<1>5. ASSUME NEW x \in Variation, EditText(x) \/ SwitchModel(x) PROVE IInv'  BY <1>5, EditTextInv, SwitchModelInv
<1>6. ASSUME NEW on \in {"config", "flag"}, NEW e \in Env, Retarget(on, e) PROVE IInv'  BY <1>6, RetargetInv
<1> QED BY <1>1, <1>2, <1>3, <1>4, <1>5, <1>6 DEF Next

LEMMA Idles == ASSUME IInv, UNCHANGED bridge PROVE IInv'
BY DEF IInv, bridge

LEMMA Invariance == BridgeSpec => []IInv
<1>1. IInv /\ [Next]_bridge => IInv'  BY Step, Idles
<1> QED BY <1>1, Initially, PTL DEF BridgeSpec

\* Types hold, and no variation has a version of a tool that the library has
\* not reached (provision.ts, upgrade.ts).
THEOREM Typing == BridgeSpec => []BridgeTypeOK
<1>1. IInv => BridgeTypeOK
  <2>1. ASSUME IInv PROVE BridgeTypeOK
    <3>1. DOMAIN Committed = 1 .. Len(Committed)  BY BridgeAssumption
    <3> QED BY <2>1, <3>1, Basics DEF BridgeTypeOK, Base, VersionsOK, Project
  <2> QED BY <2>1
<1> QED BY <1>1, Invariance, PTL

\* An upgrade that reports no failure and met no operator leaves the project as
\* its checkout commits it, whatever earlier runs left (upgrade.ts).
THEOREM Convergence == BridgeSpec => []UpgradeConverges
<1>1. IInv => UpgradeConverges
  BY Basics DEF UpgradeConverges, Earned, ContentOf, Content, Present, Current, Full
<1> QED BY <1>1, Invariance, PTL

\* Where the drift check is silent the project is as committed, unless excused
\* (provision.ts stamps a new graph, upgrade.ts the graph it has synced).
THEOREM HonestStamp == BridgeSpec => []NoSilentDrift
<1>1. IInv => NoSilentDrift
  BY Basics DEF NoSilentDrift, DriftShown, Finds, Earned, ContentOf, Content, Present, Current, Full
<1> QED BY <1>1, Invariance, PTL

(***************************************************************************)
(* What an operator wrote.                                                 *)
(***************************************************************************)
\* Nothing of an operator's is lost between the project and m.
Respects(m) ==
  /\ \A on \in {"config", "flag"}, e \in Env : ld.rules[on][e] = "operator" => m.rules[on][e] = "operator"
  /\ \A x \in Variation : ld.live[x].model # "committed" => m.live[x].model # "committed"

LEMMA Called ==
  ASSUME NEW after, NEW ok, NEW broken, Calls(after, ok, broken), Respects(after)
  PROVE  Respects(ld')
BY DEF Calls, Respects

\* A variation is written with the model it has, or for the first time.
LEMMA Unchosen ==
  ASSUME NEW after, NEW x, NEW v, Rewritten(after, ld, x, v),
         v.model = ld.live[x].model \/ ld.live[x].model = "committed" \/ v.model # "committed"
  PROVE  Respects(after)
BY DEF Rewritten, Respects

LEMMA RunRespects == ASSUME IInv, run.clean, Runs PROVE Respects(ld')
<1>1. ld \in Project /\ Base(ld, run, release) /\ WordOK(ld, run)  BY Basics DEF Earned
<1>2. Respects(ld)  BY DEF Respects
<1>3. ASSUME NEW t \in Tool, ProvisionTool(t) \/ SyncTool(t) PROVE Respects(ld')
  <2>1. ASSUME NEW s PROVE Respects([ld EXCEPT !.tool[t] = s])  BY <1>1 DEF Respects, Project
  <2>2. CASE ProvisionTool(t)  BY <1>2, <2>1, <2>2, Called DEF ProvisionTool
  <2>3. CASE SyncTool(t)  BY <1>2, <2>1, <2>3, Called DEF SyncTool
  <2> QED BY <1>3, <2>2, <2>3
<1>4. ASSUME NEW what PROVE Respects([ld EXCEPT !.made = @ \union {what}])  BY <1>1 DEF Respects, Project
<1>5. ASSUME NEW x \in Variation, NEW after \in Created(x), ~ld.live[x].there PROVE Respects(after)
  <2>1. PICK v \in LiveVariation : Rewritten(after, ld, x, v)  BY <1>5, Mapped
  <2>2. ld.live[x].model = "committed"  BY <1>1, <1>5 DEF Base, MadeOK
  <2> QED BY <2>1, <2>2, Unchosen
<1>6. ASSUME NEW x \in Variation, ProvisionVariation(x) PROVE Respects(ld')
  <2>1. ~ld.live[x].there  BY <1>1, <1>6 DEF ProvisionVariation, At, Turn, Base, TodoOK, MadeOK
  <2> QED BY <1>5, <1>6, <2>1, Called DEF ProvisionVariation
<1>7. ASSUME NEW x \in Variation, SyncVariation(x) PROVE Respects(ld')
  <2>1. PICK v \in LiveVariation : v = Patched(x)  BY Patching
  <2>2. Rewritten([ld EXCEPT !.live[x] = v], ld, x, v)  BY <1>1, Rewriting
  <2>3. v.model = ld.live[x].model  BY <2>1, Patching
  <2>4. Respects([ld EXCEPT !.live[x] = v])  BY <2>2, <2>3, Unchosen
  <2> QED BY <1>2, <1>7, <2>1, <2>4, Called DEF SyncVariation
<1>8. ASSUME NEW on \in {"config", "flag"}, NEW e \in Env, NEW next, ApplyTargeting(on, e, next),
             ld.rules[on][e] # "operator"
      PROVE  Respects(ld')
  <2>1. "committed" \in Hand  BY DEF Hand
  <2>2. PICK after : after = [ld EXCEPT !.rules[on][e] = "committed"]  OBVIOUS
  <2>3. Retargeted(after, ld, on, e, "committed")  BY <1>1, <2>1, <2>2, Retargeting
  <2>4. Respects(after)  BY <1>8, <2>3 DEF Retargeted, Respects
  <2> QED BY <1>8, <2>2, <2>4, Called DEF ApplyTargeting
<1>9. ASSUME NEW e \in Env, ApplyAiConfigTargeting(e) PROVE Respects(ld')
  <2>1. ld.rules["config"][e] # "operator"  BY <1>1, <1>9 DEF ApplyAiConfigTargeting, At, Base, TodoOK, WordOK
  <2> QED BY <1>2, <1>8, <1>9, <2>1 DEF ApplyAiConfigTargeting
<1>10. ASSUME NEW e \in Env, ApplyFlagTargeting(e) PROVE Respects(ld')
  <2>1. ld.rules["flag"][e] # "operator"  BY <1>1, <1>10 DEF ApplyFlagTargeting, At, WordOK
  <2> QED BY <1>8, <1>10, <2>1 DEF ApplyFlagTargeting
<1>11. CASE ProvisionModelConfig  BY <1>4, <1>11, Called DEF ProvisionModelConfig, CreateOnly
<1>12. CASE ProvisionAiConfig
  <2>1. ~Finds("config") => \A x \in Variation : ~ld.live[x].there  BY <1>1 DEF Base, MadeOK, Finds
  <2>2. Default \in Variation  BY BridgeAssumption
  <2> QED BY <1>2, <1>5, <1>12, <2>1, <2>2, Called DEF ProvisionAiConfig, Aborts
<1>13. CASE AttachJudges
  <2>1. run.var \in Variation  BY Basics DEF Run
  <2>2. ld.live[run.var] \in LiveVariation  BY <1>1, <2>1 DEF Project
  <2>3. PICK v : v = [ld.live[run.var] EXCEPT !.judged = TRUE, !.costed = FALSE]  OBVIOUS
  <2>4. v \in LiveVariation /\ v.model = ld.live[run.var].model  BY <2>2, <2>3 DEF LiveVariation
  <2>5. PICK after : after = [ld EXCEPT !.live[run.var] = v]  OBVIOUS
  <2>6. Respects(after)
    <3>1. Rewritten(after, ld, run.var, v)  BY <1>1, <2>1, <2>4, <2>5, Rewriting
    <3> QED BY <2>4, <3>1, Unchosen
  <2>7. after = [ld EXCEPT !.live[run.var] = [@ EXCEPT !.judged = TRUE, !.costed = FALSE]]  BY <2>3, <2>5
  <2> QED BY <1>2, <1>13, <2>6, <2>7, Called DEF AttachJudges
<1>14. CASE AttachTools
  <2>1. run.var \in Variation /\ run.versions \in Refs  BY Basics DEF Run
  <2>2. ld.live[run.var] \in LiveVariation  BY <1>1, <2>1 DEF Project
  <2>3. PICK v : v = [ld.live[run.var] EXCEPT !.refs = run.versions, !.costed = FALSE]  OBVIOUS
  <2>4. v \in LiveVariation /\ v.model = ld.live[run.var].model  BY <2>1, <2>2, <2>3 DEF LiveVariation
  <2>5. PICK after : after = [ld EXCEPT !.live[run.var] = v]  OBVIOUS
  <2>6. Respects(after)
    <3>1. Rewritten(after, ld, run.var, v)  BY <1>1, <2>1, <2>4, <2>5, Rewriting
    <3> QED BY <2>4, <3>1, Unchosen
  <2>7. after = [ld EXCEPT !.live[run.var] = [@ EXCEPT !.refs = run.versions, !.costed = FALSE]]  BY <2>3, <2>5
  <2> QED BY <1>2, <1>14, <2>6, <2>7, Called DEF AttachTools
<1>15. CASE ProvisionGraph
  <2>1. PICK after : after = [ld EXCEPT !.made = @ \union {"graph"}, !.shape = C.shape, !.stamp = run.v]  OBVIOUS
  <2>2. Respects(after)  BY <1>1, <2>1 DEF Respects, Project
  <2>3. ld' \in {ld, after}  BY <1>15, <2>1 DEF ProvisionGraph, FoundGraph, Aborts
  <2> QED BY <1>2, <2>2, <2>3
<1>16. CASE ProvisionFlag  BY <1>2, <1>4, <1>16, Called DEF ProvisionFlag, Aborts
<1>17. CASE ProvisionMetric  BY <1>4, <1>17, Called DEF ProvisionMetric, CreateOnly
<1>18. CASE ReadConfig  BY <1>2, <1>18, Called DEF ReadConfig
<1>19. CASE RePatchModel
  <2>1. PICK x : x = run.var  OBVIOUS
  <2>2. x \in Variation /\ run.pc = "remodel" /\ x \in run.todo
    BY <1>1, <1>19, <2>1, Basics DEF RePatchModel, At, Base, TodoOK, Run
  <2>3. ld.live[x] \in LiveVariation /\ run.read[x] \in LiveVariation  BY <1>1, <2>2, Basics DEF Project, Run
  <2>4. PICK v : v = [ld.live[x] EXCEPT !.model = run.read[x].model, !.costed = TRUE]  OBVIOUS
  <2>5. v \in LiveVariation /\ v.model = run.read[x].model  BY <2>3, <2>4 DEF LiveVariation
  <2>6. v.model = ld.live[x].model  BY <1>1, <2>2, <2>5 DEF WordOK
  <2>7. PICK after : after = [ld EXCEPT !.live[x] = v]  OBVIOUS
  <2>8. Respects(after)
    <3>1. Rewritten(after, ld, x, v)  BY <1>1, <2>2, <2>5, <2>7, Rewriting
    <3> QED BY <2>6, <3>1, Unchosen
  <2>9. (\E ok, broken : Calls(after, ok, broken)) \/ UNCHANGED ld
    BY <1>19, <2>1, <2>4, <2>7 DEF RePatchModel, ModelAsRead
  <2> QED BY <1>2, <2>8, <2>9, Called
<1>20. CASE SyncGraph
  <2>1. PICK after : after = [ld EXCEPT !.shape = C.shape, !.stamp = run.v]  OBVIOUS
  <2>2. Respects(after)  BY <1>1, <2>1 DEF Respects, Project
  <2>3. ld' \in {ld, after}  BY <1>20, <2>1 DEF SyncGraph
  <2> QED BY <1>2, <2>2, <2>3
<1>21. CASE Ends  BY <1>2, <1>21 DEF Ends, Respects
<1> QED
  BY <1>3, <1>6, <1>7, <1>9, <1>10, <1>11, <1>12, <1>13, <1>14, <1>15, <1>16, <1>17, <1>18, <1>19, <1>20, <1>21 DEF Runs

\* Operators do not undo one another's word either.
LEMMA MoveRespects == ASSUME IInv, Next, ~Runs PROVE Respects(ld')
<1>1. ld \in Project  BY Basics
<1>2. CASE UNCHANGED ld  BY <1>2 DEF Respects
<1>3. ASSUME NEW x \in Variation, EditText(x) \/ SwitchModel(x) PROVE Respects(ld')
  <2>1. ld.live[x] \in LiveVariation  BY <1>1 DEF Project
  <2>2. CASE EditText(x)
    <3>1. PICK w : w = [ld.live[x] EXCEPT !.text = 0]  OBVIOUS
    <3>2. w \in LiveVariation /\ w.model = ld.live[x].model  BY <2>1, <3>1 DEF LiveVariation
    <3>3. ld' = [ld EXCEPT !.live[x] = w]  BY <2>2, <3>1 DEF EditText, Moves
    <3>4. Rewritten(ld', ld, x, w)  BY <1>1, <3>2, <3>3, Rewriting
    <3> QED BY <3>2, <3>4, Unchosen
  <2>3. CASE SwitchModel(x)
    <3>0. PICK m \in {"chosen", "keyless"} : ld' = [ld EXCEPT !.live[x].model = m]  BY <2>3 DEF SwitchModel, Moves
    <3>1. PICK w : w = [ld.live[x] EXCEPT !.model = m]  OBVIOUS
    <3>2. w \in LiveVariation /\ w.model # "committed"  BY <2>1, <3>1 DEF LiveVariation, Model
    <3>3. ld' = [ld EXCEPT !.live[x] = w]  BY <3>0, <3>1
    <3>4. Rewritten(ld', ld, x, w)  BY <1>1, <3>2, <3>3, Rewriting
    <3> QED BY <3>2, <3>4, Unchosen
  <2> QED BY <1>3, <2>2, <2>3
<1>4. ASSUME NEW on \in {"config", "flag"}, NEW e \in Env, Retarget(on, e) PROVE Respects(ld')
  <2>1. "operator" \in Hand  BY DEF Hand
  <2>2. Retargeted(ld', ld, on, e, "operator")  BY <1>1, <1>4, <2>1, Retargeting DEF Retarget, Moves
  <2> QED BY <2>2 DEF Retargeted, Respects
<1>5. (\E kind \in {"provision", "upgrade"} : Launch(kind)) \/ Killed \/ Release => UNCHANGED ld
  BY DEF Launch, Killed, Release
<1> QED BY <1>2, <1>3, <1>4, <1>5 DEF Next

\* Targeting an operator wrote and a model an operator chose, before this run
\* began, are left alone by it while it meets no failure and no operator
\* (provision.ts, upgrade.ts).
THEOREM OperatorsWord == BridgeSpec => OperatorsWordKept
<1>1. ASSUME IInv, [Next]_bridge, run.clean PROVE Respects(ld')
  <2>1. CASE Next  BY <1>1, <2>1, RunRespects, MoveRespects
  <2>2. CASE UNCHANGED bridge  BY <2>2 DEF bridge, Respects
  <2> QED BY <1>1, <2>1, <2>2
<1>2. IInv /\ [Next]_bridge =>
        [run.clean =>
           /\ \A on \in {"config", "flag"}, e \in Env : ld.rules[on][e] = "operator" => ld'.rules[on][e] = "operator"
           /\ \A x \in Variation : ld.live[x].model # "committed" => ld'.live[x].model # "committed"]_bridge
  BY <1>1 DEF Respects
<1> QED BY <1>2, Invariance, PTL DEF BridgeSpec, OperatorsWordKept
=============================================================================
