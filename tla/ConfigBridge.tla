---------------------------- MODULE ConfigBridge ----------------------------
(***************************************************************************)
(* The config bridge (packages/config-bridge): provision creates what a    *)
(* LaunchDarkly project lacks of the repository's definitions, upgrade     *)
(* also brings what exists up to date and stamps the graph with the        *)
(* repository's version.  Each is a sequence of calls that may stop or     *)
(* fail anywhere, over a project its operators edit meanwhile.  One run at *)
(* a time.  A dry run writes nothing and is left out.                      *)
(***************************************************************************)
EXTENDS Integers, FiniteSets, Sequences

CONSTANTS
  Tool,          \* the tool library's keys
  Variation, Default,  \* of the one AI config; Default is its first
  Env,           \* environments of the project
  Committed,     \* what each version of the repository commits
  MaxFaults, MaxMoves

ASSUME BridgeAssumption ==
  /\ Tool # {} /\ Env # {} /\ Default \in Variation /\ MaxFaults \in Nat /\ MaxMoves \in Nat
  /\ "config" \notin Tool  \* what a run created is one set
  /\ Committed \in Seq([text : Nat \ {0}, def : Nat, shape : Nat, judged : BOOLEAN]) /\ Committed # <<>>

VARIABLES
  ld,            \* the project in LaunchDarkly
  release,       \* the repository's version
  run,           \* the bridge's run
  faults, moves,
  excused        \* history: why a stamp may lie (see NoSilentDrift)

bridge == <<ld, release, run, faults, moves, excused>>

Absent == 0
Hand == {"default", "committed", "operator"}     \* who wrote a targeting
Refs == [Tool -> Nat]                            \* tool versions attached; Absent: not attached

Model == {"committed", "chosen", "keyless"}      \* whose model; keyless: it has no modelConfigKey
LiveVariation == [there : BOOLEAN, text : Nat, judged : BOOLEAN, refs : Refs,
                  model : Model, costed : BOOLEAN]
NoRefs == [t \in Tool |-> Absent]
NoVariation == [there |-> FALSE, text |-> 0, judged |-> FALSE, refs |-> NoRefs, model |-> "committed", costed |-> TRUE]

Fresh == [e \in Env |-> "default"]
EmptyProject ==
  [tool |-> [t \in Tool |-> [version |-> Absent, def |-> 0]],
   made |-> {},                                  \* of "model", "config", "graph", "flag", "metric"
   live |-> [x \in Variation |-> NoVariation],
   rules |-> [on \in {"config", "flag"} |-> Fresh],
   shape |-> 0, stamp |-> 0]

\* versions: the tools' versions this run has seen; read: the variations as it
\* last read them; created: what it created; adopted: it found something there;
\* clean: it has had no failure, nor an operator near it.
NoRun == [pc |-> "off", kind |-> "provision", v |-> 1, todo |-> {}, var |-> Default, versions |-> NoRefs,
          read |-> [x \in Variation |-> NoVariation], created |-> {}, adopted |-> FALSE,
          clean |-> TRUE]

Init == /\ ld = EmptyProject /\ release = 1 /\ run = NoRun
        /\ faults = 0 /\ moves = 0 /\ excused = FALSE

C == Committed[run.v]

-----------------------------------------------------------------------------
(* Calls *)

Spend == faults < MaxFaults /\ faults' = faults + 1

\* A call that makes the project `after`: answered, or failed, or applied with
\* its answer lost.  The failure is recorded and the run goes on as `broken`.
Calls(after, ok, broken) ==
  \/ ld' = after /\ run' = ok /\ UNCHANGED <<faults, excused>>
  \/ /\ Spend /\ ld' \in {ld, after}
     /\ run' = [broken EXCEPT !.clean = FALSE] /\ excused' = TRUE

\* A call outside any try: the process ends.
Aborts == Spend /\ run' = NoRun /\ UNCHANGED <<ld, excused>>

At(pc) == run.pc = pc /\ UNCHANGED <<release, moves>>
To(r, pc) == [r EXCEPT !.pc = pc]
With(r, pc, todo) == [r EXCEPT !.pc = pc, !.todo = todo]

\* The items of a stage come in the order of their directory.
Turn == CHOOSE x \in run.todo : TRUE
\* Item x of this stage is done; then the next stage.
Done(x, next) == IF run.todo = {x} THEN With(run, next, {}) ELSE [run EXCEPT !.todo = @ \ {x}]

Finds(what) == what \in ld.made
Adopt(r) == [r EXCEPT !.adopted = TRUE]

Launch(kind) ==
  /\ run.pc = "off"
  /\ run' = [NoRun EXCEPT !.pc = "tools", !.kind = kind, !.v = release, !.todo = Tool]
  /\ UNCHANGED <<ld, release, faults, moves, excused>>

-----------------------------------------------------------------------------
(* provision: create what is missing, leave the rest alone *)

ProvisionTool(t) ==
  /\ At("tools") /\ t = Turn
  /\ LET r == Done(t, "model")
         seen(n) == [r EXCEPT !.versions[t] = n]
     IN IF ld.tool[t].version # Absent
        THEN Calls(ld, Adopt(seen(ld.tool[t].version)), r)
        ELSE Calls([ld EXCEPT !.tool[t] = [version |-> 1, def |-> C.def]],
                   [seen(1) EXCEPT !.created = @ \union {t}], r)

\* GET, then POST if there is none; both are tried.
CreateOnly(what, next) == Calls([ld EXCEPT !.made = @ \union {what}], next, next)

ProvisionModelConfig == At("model") /\ CreateOnly("model", To(run, "config"))

\* A tool that could not be provisioned is left off.
MapVariation ==
  [NoVariation EXCEPT !.there = TRUE, !.text = C.text, !.judged = C.judged, !.refs = run.versions]

\* The call that creates a config drops its variation's judges, and either call
\* may drop tools: both are patched in afterwards.
Inserted(x, judged, refs) ==
  [ld EXCEPT !.made = @ \union {"config"}, !.live[x] = [MapVariation EXCEPT !.judged = judged, !.refs = refs]]
JudgesKept(x) == IF x = Default THEN {FALSE} ELSE {FALSE, C.judged}
Created(x) == {Inserted(x, judged, refs) : judged \in JudgesKept(x), refs \in {run.versions, NoRefs}}

\* (Mutant: the rules of an existing config are written too.)
AfterVariationsAlways(r) == IF r.todo # {} THEN To(r, "variations") ELSE With(r, "rules", Env)
\* Rules are for a config this run created.
AfterVariations(r) ==
  IF r.todo # {} THEN To(r, "variations")
  ELSE IF "config" \in r.created THEN With(r, "rules", Env) ELSE To(r, "graph")

\* (Mutant: a config that exists is taken for complete.)
NoneMissing == {}
\* A half-made config is completed.
Missing == {x \in Variation : ~ld.live[x].there}

ProvisionAiConfig ==
  /\ At("config")
  /\ \/ /\ Finds("config") /\ UNCHANGED <<ld, faults, excused>>
        /\ run' = AfterVariations(Adopt([run EXCEPT !.todo = Missing]))
     \/ /\ ~Finds("config")
        /\ LET r == [run EXCEPT !.pc = "judges", !.var = Default, !.todo = Variation \ {Default},
                                !.created = @ \union {"config"}]
           IN \E after \in Created(Default) : Calls(after, r, To(run, "graph"))
     \/ Aborts

ProvisionVariation(x) ==
  /\ At("variations") /\ x = Turn
  /\ LET r == [run EXCEPT !.var = x, !.todo = @ \ {x}]
     IN \E after \in Created(x) : Calls(after, To(r, "judges"), AfterVariations(r))

\* A patch of a variation that is not of its model severs its cost tracking.
AttachJudges ==
  /\ At("judges")
  /\ IF C.judged
     THEN Calls([ld EXCEPT !.live[run.var] = [@ EXCEPT !.judged = TRUE, !.costed = FALSE]],
                To(run, "attach"), To(run, "attach"))
     ELSE run' = To(run, "attach") /\ UNCHANGED <<ld, faults, excused>>

AttachTools ==
  /\ At("attach")
  /\ IF run.versions # NoRefs
     THEN Calls([ld EXCEPT !.live[run.var] = [@ EXCEPT !.refs = run.versions, !.costed = FALSE]],
                AfterVariations(run), AfterVariations(run))
     ELSE run' = AfterVariations(run) /\ UNCHANGED <<ld, faults, excused>>

\* One environment at a time; the first failure ends it.
ApplyTargeting(on, e, next) ==
  /\ e = Turn
  /\ Calls([ld EXCEPT !.rules[on][e] = "committed"], Done(e, next), With(run, next, {}))

\* The rules name the variations: one that is missing is a failure.
ApplyAiConfigTargeting(e) ==
  /\ At("rules")
  /\ IF \A x \in Variation : ld.live[x].there THEN ApplyTargeting("config", e, "graph")
     ELSE /\ run' = [With(run, "graph", {}) EXCEPT !.clean = FALSE]
          /\ excused' = TRUE /\ UNCHANGED <<ld, faults>>

\* (Mutant: a graph that exists is stamped by provision already.)
RestampedGraph == [ld EXCEPT !.stamp = run.v]
\* A graph that exists keeps its stamp until the content is in.
FoundGraph == ld

\* A new graph is stamped at once, over whatever else the run found.
ProvisionGraph ==
  /\ At("graph")
  /\ \/ Finds("graph") /\ ld' = FoundGraph /\ run' = Adopt(To(run, "flag")) /\ UNCHANGED <<faults, excused>>
     \/ /\ ~Finds("graph")
        /\ LET after == [ld EXCEPT !.made = @ \union {"graph"}, !.shape = C.shape, !.stamp = run.v] IN
           \/ /\ ld' = after /\ run' = To(run, "flag") /\ UNCHANGED faults
              /\ excused' = (excused \/ run.adopted)
           \/ /\ Spend /\ ld' \in {ld, after} /\ excused' = TRUE
              /\ run' = [To(run, "flag") EXCEPT !.clean = FALSE]
     \/ Aborts

ProvisionFlag ==
  /\ At("flag")
  /\ \/ Finds("flag") /\ run' = To(run, "metric") /\ UNCHANGED <<ld, faults, excused>>
     \/ ~Finds("flag") /\ Calls([ld EXCEPT !.made = @ \union {"flag"}], With(run, "flagRules", Env), To(run, "metric"))
     \/ Aborts

ApplyFlagTargeting(e) == At("flagRules") /\ ApplyTargeting("flag", e, "metric")

AfterProvision ==
  IF run.kind = "upgrade" THEN [With(run, "sync", Tool) EXCEPT !.versions = NoRefs] ELSE To(run, "done")

ProvisionMetric == At("metric") /\ CreateOnly("metric", AfterProvision)

-----------------------------------------------------------------------------
(* upgrade: then bring what exists up to date *)

SyncedTool(t) ==
  IF ld.tool[t].def = C.def THEN ld.tool[t] ELSE [version |-> ld.tool[t].version + 1, def |-> C.def]

\* (Mutant: the next version is taken for granted.)
NextVersion(t) == ld.tool[t].version + 1
\* (Mutant: the version is not read again after the patch.)
FirstRead(t) == ld.tool[t].version
\* A patch moves the tool's version, so it is read again.
ReRead(t) == SyncedTool(t).version

SyncTool(t) ==
  /\ At("sync") /\ t = Turn
  /\ LET r == Done(t, "read")
         unread == [r EXCEPT !.versions[t] = IF t \in run.created THEN 1 ELSE Absent]
     IN IF ld.tool[t].version = Absent THEN Calls(ld, unread, unread)
        ELSE Calls([ld EXCEPT !.tool[t] = SyncedTool(t)], [r EXCEPT !.versions[t] = ReRead(t)], unread)

ReadConfig ==
  /\ At("read")
  /\ IF Finds("config")
     THEN LET found == {x \in Variation : ld.live[x].there} IN
          Calls(ld, [With(run, IF found = {} THEN "stamp" ELSE "patch", found) EXCEPT !.read = ld.live], To(run, "stamp"))
     ELSE run' = To(run, "stamp") /\ UNCHANGED <<ld, faults, excused>>

\* What of variation x, as read, is not as committed.  Tools whose sync failed
\* are not wanted, unless that is all of them.
NewText(x) == run.read[x].text # C.text
NewJudges(x) == C.judged /\ ~run.read[x].judged
NewRefs(x) == run.versions \notin {NoRefs, run.read[x].refs}

Patched(x) ==
  [ld.live[x] EXCEPT !.text = IF NewText(x) THEN C.text ELSE @,
                     !.judged = @ \/ NewJudges(x),
                     !.refs = IF NewRefs(x) THEN run.versions ELSE @,
                     !.costed = FALSE]

Gathers(x) == NewText(x) \/ NewJudges(x) \/ NewRefs(x)

\* A failure leaves the config's other variations as they are.
SyncVariation(x) ==
  /\ At("patch") /\ x = Turn
  /\ IF Gathers(x)
     THEN Calls([ld EXCEPT !.live[x] = Patched(x)], [To(run, "remodel") EXCEPT !.var = x], With(run, "stamp", {}))
     ELSE run' = Done(x, "stamp") /\ UNCHANGED <<ld, faults, excused>>

\* (Mutant: the committed model is written.)
CommittedModel == "committed"
\* The model as it was read: this restores cost tracking.
ModelAsRead == run.read[run.var].model

\* A variation without a model's key has nothing to patch again.
RePatchModel ==
  /\ At("remodel")
  /\ LET next == IF run.todo = {run.var} THEN With(run, "stamp", {}) ELSE With(run, "patch", run.todo \ {run.var})
     IN IF run.read[run.var].model # "keyless"
        THEN Calls([ld EXCEPT !.live[run.var] = [@ EXCEPT !.model = ModelAsRead, !.costed = TRUE]],
                   next, With(run, "stamp", {}))
        ELSE run' = next /\ UNCHANGED <<ld, faults, excused>>

\* The graph last, whatever failed before.
SyncGraph ==
  /\ At("stamp")
  /\ IF Finds("graph")
     THEN LET after == [ld EXCEPT !.shape = C.shape, !.stamp = run.v] IN
          \/ /\ ld' = after /\ run' = To(run, "done") /\ UNCHANGED faults
             /\ excused' = (excused /\ ~run.clean)
          \/ /\ Spend /\ ld' \in {ld, after} /\ excused' = TRUE
             /\ run' = [To(run, "done") EXCEPT !.clean = FALSE]
     ELSE run' = To(run, "done") /\ UNCHANGED <<ld, faults, excused>>

Ends == At("done") /\ run' = NoRun /\ UNCHANGED <<ld, faults, excused>>

-----------------------------------------------------------------------------
(* Everything else *)

\* The process is killed between two calls.
Killed ==
  /\ run.pc \notin {"off", "done"} /\ Spend /\ run' = NoRun
  /\ UNCHANGED <<ld, release, moves, excused>>

Release ==
  /\ release < Len(Committed) /\ release' = release + 1
  /\ UNCHANGED <<ld, run, faults, moves, excused>>

Moves(after) ==
  /\ moves < MaxMoves /\ moves' = moves + 1
  /\ ld' = after /\ ld # after
  /\ run' = [run EXCEPT !.clean = run.pc = "off"]
  /\ UNCHANGED <<release, faults>>

\* An operator edits instructions, switches a model, or writes targeting.
EditText(x) == ld.live[x].there /\ Moves([ld EXCEPT !.live[x].text = 0]) /\ excused' = TRUE
SwitchModel(x) ==
  /\ ld.live[x].there /\ UNCHANGED excused
  /\ \E model \in {"chosen", "keyless"} : Moves([ld EXCEPT !.live[x].model = model])
Retarget(on, e) == Finds(on) /\ Moves([ld EXCEPT !.rules[on][e] = "operator"]) /\ UNCHANGED excused

Runs ==
  \/ \E t \in Tool : ProvisionTool(t) \/ SyncTool(t)
  \/ \E x \in Variation : ProvisionVariation(x) \/ SyncVariation(x)
  \/ \E e \in Env : ApplyAiConfigTargeting(e) \/ ApplyFlagTargeting(e)
  \/ ProvisionModelConfig \/ ProvisionAiConfig \/ AttachJudges \/ AttachTools
  \/ ProvisionGraph \/ ProvisionFlag \/ ProvisionMetric
  \/ ReadConfig \/ RePatchModel \/ SyncGraph \/ Ends

Next ==
  \/ Runs \/ \E kind \in {"provision", "upgrade"} : Launch(kind)
  \/ Killed \/ Release
  \/ \E x \in Variation : EditText(x) \/ SwitchModel(x)
  \/ \E on \in {"config", "flag"}, e \in Env : Retarget(on, e)

\* A started run goes on, and somebody upgrades now and then.
BridgeSpec == Init /\ [][Next]_bridge /\ WF_bridge(Runs) /\ SF_bridge(Launch("upgrade"))

-----------------------------------------------------------------------------
\* Types; no variation has a version of a tool the library has not reached.
BridgeTypeOK ==
  /\ release \in DOMAIN Committed /\ run.v \in 1 .. release
  /\ ld.made \subseteq {"model", "config", "graph", "flag", "metric"}
  /\ ld.live \in [Variation -> LiveVariation]
  /\ ld.rules \in [{"config", "flag"} -> [Env -> Hand]]
  /\ \A x \in Variation, t \in Tool : ld.live[x].refs[t] <= ld.tool[t].version
  /\ \A t \in Tool : run.versions[t] <= ld.tool[t].version

\* Everything the repository owns is as version v commits it, and attached at
\* the library's present versions.
Content(v) ==
  /\ {"config", "graph"} \subseteq ld.made
  /\ \A t \in Tool : ld.tool[t].version # Absent /\ ld.tool[t].def = Committed[v].def
  /\ \A x \in Variation :
       /\ ld.live[x].there /\ ld.live[x].text = Committed[v].text
       /\ Committed[v].judged => ld.live[x].judged
       /\ \A t \in Tool : ld.live[x].refs[t] = ld.tool[t].version
  /\ ld.shape = Committed[v].shape

\* An upgrade that reports no failure and met no operator leaves the project's
\* Content as its checkout commits it, whatever state earlier runs had left it in.
UpgradeConverges ==
  run.pc = "done" /\ run.kind = "upgrade" /\ run.clean => Content(run.v) /\ ld.stamp = run.v

DriftShown(v) == Finds("graph") /\ ld.stamp # v

\* Where the drift check is silent the Content is as committed, unless a run
\* reported a failure, an operator edited it, or the graph was first created by
\* a run that found the rest there.  A killed run is no excuse.
NoSilentDrift == Finds("graph") /\ ~DriftShown(release) /\ ~excused => Content(release)

\* Targeting an operator wrote and a model an operator chose, before this run
\* began, are left alone by it; said only of runs that have met no failure and no
\* operator's act.
OperatorsWordKept ==
  [][run.clean =>
       /\ \A on \in {"config", "flag"}, e \in Env : ld.rules[on][e] = "operator" => ld'.rules[on][e] = "operator"
       /\ \A x \in Variation : ld.live[x].model # "committed" => ld'.live[x].model # "committed"]_bridge

\* No run, failure or death leaves the Content in a state that further upgrades
\* do not heal.  Content has no targeting rules and no cost tracking: those of a
\* half-made config, and cost tracking cut off between a patch and its re-patch,
\* stay as they are.
Heals == <>[](Content(release) /\ ~DriftShown(release))

-----------------------------------------------------------------------------
(* What the code's comments say and the code does not do *)

\* upgrade.ts:13 and 204: every content patch is followed by one that restores
\* cost tracking.
CostTracked ==
  run.pc = "done" /\ run.kind = "upgrade" /\ run.clean => \A x \in Variation : ld.live[x].costed

\* upgrade.ts:181: the committed list of tools is canonical.
NothingDetached ==
  [][\A x \in Variation, t \in Tool : ld.live[x].refs[t] # Absent => ld'.live[x].refs[t] # Absent]_bridge

\* init.ts: "fix and re-run init (it resumes)".
InitResumes ==
  run.pc = "done" /\ run.clean /\ moves = 0 =>
    \A on \in {"config", "flag"}, e \in Env : ld.rules[on][e] = "committed"
=============================================================================
