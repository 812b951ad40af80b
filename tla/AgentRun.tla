------------------------------ MODULE AgentRun ------------------------------
(***************************************************************************)
(* One agent node after another: the model's turns with their retries and  *)
(* cap, the forced tag call (anthropicAgentRunner.ts, openaiAgentRunner.ts,*)
(* cursorAgentRunner.ts), the tool calls between (AgentTools), and the     *)
(* deterministic verification of what the node claims (handoffVerifier.ts).*)
(***************************************************************************)
EXTENDS AgentTools, Sequences

CONSTANTS
  Scenario,          \* what LaunchDarkly and the checkout hold at first, and the node runs that follow
  MaxTurns,          \* the turn cap (100 in the code)
  MaxCalls,          \* bound on the tool calls of one response
  TransientRetries   \* retries of one request to the model (3 in the code)

VARIABLE plan  \* the node runs still to come

vars == <<ld, io, world, node, repo, plan>>

\* A node run: its agent, the tools its variation left out, and its provider,
\* "loop" (Anthropic, Bedrock, OpenAI) or "cursor" (hosted).
Session == [name : STRING, provider : {"loop", "cursor"}, detached : SUBSET STRING]

ASSUME AgentAssumption ==
  /\ Ask \subseteq Version \union {None} /\ None \notin {"skeleton", "human", "agent", "steward"}
  /\ MaxTurns \in Nat /\ MaxCalls \in Nat /\ TransientRetries \in Nat
  /\ DocsBudget \in Nat /\ RepoBudget \in Nat
  /\ \A s \in Scenario :
       s.flag \in [Flag -> FlagState] /\ s.refs \subseteq Ref /\ s.plan \in Seq(Session)

Phase  == {"idle", "asking", "acting", "forcing", "forced", "done"}
Status == {"completed", "stopped", "failed", "cancelled"}

NodeAt(s) ==
  [name |-> s.name, provider |-> s.provider, offered |-> Offered(s.name, s.detached), phase |-> "asking", status |-> "completed",
   turn |-> 0, calls |-> 0, tries |-> 0, docs |-> 0, repos |-> 0, tags |-> NoTags, verdict |-> "none"]
NoNode == [NodeAt([name |-> "none", provider |-> "loop", detached |-> {}]) EXCEPT !.phase = "idle"]

Init ==
  /\ \E s \in Scenario :
       /\ flag = s.flag /\ plan = s.plan
       /\ repo = [refs |-> s.refs, manifest |-> NoManifest, dirty |-> {}, unpushed |-> FALSE]
  /\ metric = {} /\ api = IdleApi /\ call = IdleCall
  /\ faults = 0 /\ world = [moves |-> 0, lately |-> FALSE] /\ node = NoNode

Others == <<ld, call, api, world, repo>>

Start ==
  /\ node.phase = "idle" \/ node.verdict # "none"
  /\ plan # <<>> /\ plan' = Tail(plan)
  /\ node' = NodeAt(Head(plan))
  /\ world' = [world EXCEPT !.lately = FALSE]
  /\ UNCHANGED <<ld, io, repo>>

\* NODE_REQUIRED_TAGS: the decisions a node owes the graph.
RequiredTags(name) == name \in {"planner", "author", "reviewer"}
Missing == RequiredTags(node.name) /\ ~node.tags.routing

\* The loop is over: a missing routing tag is forced once. A hosted run that
\* did not finish is left as it is.
AfterLoop(n) ==
  IF Missing /\ ~(n.provider = "cursor" /\ n.status # "completed")
  THEN [n EXCEPT !.phase = "forcing", !.tries = 0, !.calls = 0] ELSE [n EXCEPT !.phase = "done", !.calls = 0]

\* (Mutant: a node asks for as many turns as it likes.)
Uncapped == FALSE

\* The last turn of the cap has been spent on tools.
HitCap == node.phase = "acting" /\ node.calls = 0 /\ node.provider # "cursor" /\ node.turn + 1 >= MaxTurns

Respond ==
  /\ node.phase = "asking"
  /\ \/ \E n \in 1 .. MaxCalls : node' = [node EXCEPT !.phase = "acting", !.calls = n, !.tries = 0]
     \/ node' = AfterLoop(node)
  /\ UNCHANGED <<Others, faults, plan>>

TurnEnds ==
  /\ node.phase = "acting" /\ node.calls = 0 /\ call.tool = "none"
  /\ node' = IF HitCap THEN AfterLoop([node EXCEPT !.status = "stopped"])
             ELSE [node EXCEPT !.phase = "asking", !.turn = IF @ < MaxTurns THEN @ + 1 ELSE @]
  /\ UNCHANGED <<Others, faults, plan>>

\* A transient error is retried; another one, or one too many, fails the node,
\* whose tags stand.  A hosted run fails or is cancelled as a whole.
ModelFails ==
  /\ node.phase = "asking" /\ Spend("model")
  /\ \/ node.provider # "cursor" /\ node.tries < TransientRetries /\ node' = [node EXCEPT !.tries = @ + 1]
     \/ node' = [node EXCEPT !.phase = "done", !.status = "failed"]
     \/ node.provider = "cursor" /\ node' = [node EXCEPT !.phase = "done", !.status = "cancelled"]
  /\ UNCHANGED <<Others, plan>>

\* The forced call, whose failure is not the node's.
ForceTags ==
  /\ node.phase = "forcing"
  /\ \E n \in 0 .. MaxCalls : node' = [node EXCEPT !.phase = IF n = 0 THEN "done" ELSE "forced", !.calls = n]
  /\ UNCHANGED <<Others, faults, plan>>

ForceFails ==
  /\ node.phase = "forcing" /\ Spend("model")
  /\ \/ node.provider # "cursor" /\ node.tries < TransientRetries /\ node' = [node EXCEPT !.tries = @ + 1]
     \/ node' = [node EXCEPT !.phase = "done"]
  /\ UNCHANGED <<Others, plan>>

ForceEnds ==
  /\ node.phase = "forced" /\ node.calls = 0 /\ call.tool = "none"
  /\ node' = [node EXCEPT !.phase = "done"]
  /\ UNCHANGED <<Others, faults, plan>>

(***************************************************************************)
(* Verification of the handoff.                                            *)
(***************************************************************************)
Refers(key) == \E r \in repo.refs : r[1] = key

\* (Mutant: the flag is looked up, its claimed variation is not.)
FlagHoldsAtAll == node.tags.ready => Exists(node.tags.key) /\ Refers(node.tags.key)

FlagHolds ==
  LET t == node.tags IN
  t.ready => /\ Exists(t.key) /\ Refers(t.key)
             /\ t.variation # None => t.variation \in flag[t.key].vars
             /\ (t.variation \notin {None, Control} /\ ~flag[t.key].boolean) => <<t.key, t.variation>> \in repo.refs

Verified ==
  /\ FlagHolds
  /\ node.tags.metrics \subseteq metric
  /\ \A m \in node.tags.events : Refers(m)
  /\ node.tags.tests # "fail"

\* A claim that cannot be read is not verified.
Verify ==
  /\ node.phase = "done" /\ node.verdict = "none"
  /\ \/ node' = [node EXCEPT !.verdict = IF Verified THEN "ok" ELSE "failed"] /\ UNCHANGED faults
     \/ (node.tags.ready \/ node.tags.metrics # {}) /\ Spend("read") /\ node' = [node EXCEPT !.verdict = "failed"]
  /\ UNCHANGED <<Others, plan>>

Agent == Respond \/ TurnEnds \/ ModelFails \/ ForceTags \/ ForceFails \/ ForceEnds \/ Verify

Next ==
  \/ Start
  \/ Agent
  \/ (Tools \/ HumanWrites) /\ UNCHANGED plan
  \/ (Request \/ Writer \/ World) /\ UNCHANGED <<node, repo, plan>>

Spec == Init /\ [][Next]_vars

\* The runner and LaunchDarkly keep going; what the model asks for, and when
\* humans and nodes move, is nobody's promise.
FairSpec ==
  /\ Spec
  /\ WF_vars(Agent)
  /\ WF_vars(Tools /\ UNCHANGED plan)
  /\ WF_vars((Request \/ Writer) /\ UNCHANGED <<node, repo, plan>>)

(***************************************************************************)
(* Properties.                                                             *)
(***************************************************************************)
\* The variables hold what the code's types hold.
TypeOK ==
  /\ flag \in [Flag -> FlagState] /\ metric \subseteq Metric
  /\ api.status \in {"idle", "sent", "ok", "conflict", "failed"}
  /\ api.rate \in 0 .. RateLimitRetries /\ api.server \in 0 .. ServerErrorRetries
  /\ node.phase \in Phase /\ node.status \in Status /\ node.tags \in Tags
  /\ node.tries \in 0 .. TransientRetries /\ node.turn \in 0 .. MaxTurns
  /\ node.docs \in 0 .. DocsBudget /\ node.repos \in 0 .. RepoBudget
  /\ repo.refs \subseteq Ref /\ repo.manifest \in Manifest

\* A tool-owned tag is a fact of LaunchDarkly however the call that set it was
\* retried, interrupted or answered: sandboxTools.ts sets it on success only.
TagsAreFacts ==
  /\ node.tags.ready => Exists(node.tags.key)
  /\ node.tags.metrics \subseteq metric

\* No request that may not be repeated is served twice: ldClient.ts retries
\* reads and creates, and never a patch whose outcome it does not know.
NothingTwice == api.applied > 1 => IsGet(api.op) \/ IsCreate(api.op)

\* The variation a verified node claims exists on the flag it claims, though
\* the two tags may stem from calls about different flags (handoffVerifier.ts).
HandoffHolds ==
  node.verdict = "ok" /\ node.tags.ready /\ node.tags.variation # None =>
    node.tags.variation \in flag[node.tags.key].vars

\* A change rides an existing variation only while that serves no users: what
\* use_existing_flag has just verified is dark unless somebody moved since.
RidesDark ==
  [][RideVerified /\ ~world.lately =>
       \A e \in EnvsOfRecord : node.tags'.variation \notin Reaches(flag, node.tags'.key, e)]_vars

Wires == api.status = "sent" /\ api.op.kind = "wire" /\ flag' # flag /\ node' = node /\ world' = world

\* Wiring a flag behind a parent shows no user its treatment, where the parent
\* is as it was read, is not mid-release, and was not the flag's prerequisite.
WiringIsInert ==
  [][Wires /\ call.live =>
       \A e \in Env :
         \/ call.seen.env[e].pin[call.parent] # None
         \/ Releasing(call.parent, e)
         \/ Reaches(flag', call.key, e) \subseteq Reaches(flag, call.key, e)]_vars

\* ldWriter.ts:595 says so without exception.
WiringIsNoOp ==
  [][Wires /\ call.live =>
       \A e \in Env : Reaches(flag', call.key, e) \subseteq Reaches(flag, call.key, e)]_vars

\* A human's answer and intent, once in a manifest that parses, outlive every
\* tool call of every agent; only the steward may rewrite the intent.
HumanWordKept ==
  [][repo.manifest.state = "written" /\ world' = world =>
       /\ repo.manifest'.answer = repo.manifest.answer
       /\ (repo.manifest.intent = "human" /\ node.name # "steward") => repo.manifest'.intent = "human"]_vars

\* Every node run of a capped loop comes to an end and is verified.
NodeEnds == (node.phase # "idle" /\ node.provider # "cursor") ~> node.verdict # "none"
=============================================================================
