----------------------------- MODULE AgentTools -----------------------------
(***************************************************************************)
(* The tools an agent node acts through (sandboxTools.ts): what it is      *)
(* offered, what each call does to LaunchDarkly, to the checkout, to the   *)
(* release manifest and to the pull request's branch, and the tags a tool  *)
(* sets when, and only when, its effect is real.                           *)
(***************************************************************************)
EXTENDS LdFlags

CONSTANTS
  PushMode,                 \* gitMode: push to the branch, or leave the working tree
  CodeChanges,              \* codeChangesEnabled
  Frontend,                 \* the flags whose scope needs browsers to see them
  Ask,                      \* the variations agents ask for (None: the default)
  DocsBudget, RepoBudget,   \* fetches per node run (8 and 15 in the code)
  MaxEdits                  \* bound on the references a checkout gains

VARIABLES
  node,  \* the node run: its agent, its turns, its executor's tags and budgets
  repo   \* the checkout, its manifest, and what of them has reached the branch

Capability ==
  {"create_flag", "flag_state", "create_metric", "edit_files", "write_manifest", "steward_manifest",
   "query_graph", "query_sentry", "read_docs", "query_repos"}

\* NODE_CAPABILITIES, the grants of nodes whose inbound edge declares none.
Grant(name) ==
  CASE name = "coder"       -> {"edit_files", "read_docs", "query_repos"}
    [] name = "planner"     -> {"flag_state", "write_manifest", "query_graph", "query_repos"}
    [] name = "steward"     -> {"steward_manifest"}
    [] name = "implementer" -> {"create_flag", "flag_state", "edit_files", "write_manifest", "read_docs"}
    [] name = "testing"     -> {"edit_files"}
    [] name = "author"      -> {"create_metric", "edit_files", "write_manifest", "read_docs", "query_graph",
                                "query_sentry"}
    [] name = "reviewer"    -> {"read_docs"}
    [] OTHER                -> {}

\* A grant is cut to what the run enables: manifest writes are code changes.
Caps(name) == IF CodeChanges THEN Grant(name) ELSE Grant(name) \ {"edit_files", "write_manifest", "steward_manifest"}

\* buildSandboxTools: the tools each capability brings; None is always there.
ToolsOf(cap) ==
  CASE cap = None             -> {"inspect", "tag_conversation"}
    [] cap = "create_flag"    -> {"create_flag", "add_variation", "use_existing_flag"}
    [] cap = "create_metric"  -> {"create_metric"}
    [] cap = "flag_state"     -> {"get_flag_state"}
    [] cap = "edit_files"     -> {"write_file", "run_tests", "commit_and_push"}
    [] cap \in {"write_manifest", "steward_manifest"} -> {"write_manifest"}
    [] cap = "read_docs"      -> {"read_ld_docs"}
    [] cap = "query_repos"    -> {"query_related_repos"}
    [] OTHER                  -> {}

\* applyLdToolOverlay: a variation's attachments restrict the offer and never
\* widen it; the routing tool cannot be detached.
Offered(name, detached) ==
  UNION {ToolsOf(c) : c \in Caps(name) \union {None}} \ (detached \ {"tag_conversation"})

Tags == [ready : BOOLEAN, created : BOOLEAN, key : Flag \union {None}, variation : Version \union {None},
         metrics : SUBSET Metric, events : SUBSET Metric, tests : {"none", "pass", "fail"}, routing : BOOLEAN]
NoTags == [ready |-> FALSE, created |-> FALSE, key |-> None, variation |-> None,
           metrics |-> {}, events |-> {}, tests |-> "none", routing |-> FALSE]

\* A reference: a flag's key beside a quoted variation (None: beside none), or
\* an emitter of a metric's event.
Ref == (Flag \X (Version \union {None})) \union (Metric \X {None})

\* The release manifest; `answer` and `intent` are the human's to write.
Manifest == [state : {"absent", "corrupt", "written"}, target : Version \union {None},
             question : BOOLEAN, answer : BOOLEAN, intent : {None, "skeleton", "human", "agent", "steward"}]
NoManifest == [state |-> "absent", target |-> None, question |-> FALSE, answer |-> FALSE, intent |-> None]

\* The agent's turn is on, and no call of it is under way.
Acting    == node.phase \in {"acting", "forced"} /\ node.calls > 0 /\ call.tool = "none"
May(tool) == Acting /\ tool \in node.offered

\* A call ends: the executor turned any throw into an error result.
Returned(tags) ==
  /\ call' = IdleCall /\ api' = IdleApi
  /\ node' = [node EXCEPT !.calls = @ - 1, !.tags = tags]
Ends(tool) == call.tool = tool /\ UNCHANGED <<ld, faults, world, repo>>

\* A call of the writer begins with its first request.
Begins(tool, op, step, next) ==
  May(tool) /\ Await(step, op, [next EXCEPT !.tool = tool]) /\ UNCHANGED <<ld, faults, world, node, repo>>

\* A call that finishes at once, and touches neither LaunchDarkly nor the checkout.
AtOnce(tool, n) ==
  May(tool) /\ node' = [n EXCEPT !.calls = @ - 1] /\ UNCHANGED <<ld, io, world, repo>>

Inspect == AtOnce("inspect", node)

Tag == AtOnce("tag_conversation", [node EXCEPT !.tags.routing = TRUE])

\* (Mutant: an exhausted budget fetches all the same.)
ReadDocsUnmetered == AtOnce("read_ld_docs", [node EXCEPT !.docs = @ + 1])

\* An exhausted budget answers without a fetch; a malformed path costs nothing.
ReadDocs ==
  \/ AtOnce("read_ld_docs", node)
  \/ node.docs < DocsBudget /\ AtOnce("read_ld_docs", [node EXCEPT !.docs = @ + 1])

\* Listing the registry is free, every other operation counts, valid or not.
QueryRepos ==
  \/ AtOnce("query_related_repos", node)
  \/ node.repos < RepoBudget /\ AtOnce("query_related_repos", [node EXCEPT !.repos = @ + 1])

(***************************************************************************)
(* The flag actions.                                                       *)
(***************************************************************************)
CreateFlag ==
  \E f \in Flag, p \in Flag \union {None}, want \in Ask \union {Control} :
    /\ p # f /\ (p = None => want = None)
    /\ Begins("create_flag", Op("createFlag", f), "created",
              [IdleCall EXCEPT !.key = f, !.client = f \in Frontend, !.parent = p, !.want = want])

\* The flag is a fact from here on; its variation only when it is fresh.
FlagTags ==
  [node.tags EXCEPT !.ready = TRUE, !.created = TRUE, !.key = call.key,
                    !.variation = IF api.status = "ok" /\ call.step = "created" THEN 1 ELSE @]

\* (Mutant: the chain may advance whatever LaunchDarkly answered.)
CreatedWhatever == Answered("created") \/ Answered("client")

FlagIsThere ==
  /\ Succeeded
  /\ \/ Answered("client")
     \/ Answered("created") /\ ~(api.status = "conflict" /\ call.client)

FlagCreated ==
  /\ Ends("create_flag") /\ FlagIsThere
  /\ IF call.parent = None THEN Returned(FlagTags)
     ELSE /\ Await("parent", Op("getFlag", call.parent), call)
          /\ node' = [node EXCEPT !.tags = FlagTags]

\* Wiring is best effort: whatever became of it, the tags stand.
FlagWired ==
  /\ Ends("create_flag")
  /\ \/ call.step = "wire" /\ call.todo = {} /\ api.status = "idle"
     \/ (Answered("parent") \/ Answered("child")) /\ ~Succeeded
  /\ Returned(node.tags)

AddVariation ==
  \E f \in Flag, v \in Ask :
    Begins("add_variation", Op("getFlag", f), "variations", [IdleCall EXCEPT !.key = f, !.asked = v])

VariationAdded ==
  /\ Ends("add_variation")
  /\ \/ Answered("append") /\ Succeeded
     \/ Answered("variations") /\ Succeeded /\ ~flag[call.key].boolean /\ Intended \in flag[call.key].vars
  /\ Returned([node.tags EXCEPT !.ready = TRUE, !.key = call.key, !.variation = call.asked])

GetFlagState ==
  \E f \in Flag : Begins("get_flag_state", Op("getFlag", f), "state", [IdleCall EXCEPT !.key = f])

\* Evidence for the brief; it sets no tag.
StateShown ==
  /\ Ends("get_flag_state")
  /\ \/ Answered("releases")
     \/ Answered("state") /\ ~Succeeded
  /\ Returned(node.tags)

UseExisting ==
  \E f \in Flag, v \in Ask :
    Begins("use_existing_flag", Op("getFlag", f), "state", [IdleCall EXCEPT !.key = f, !.asked = v])

\* The variation asked for, or the flag's latest.
Candidate == IF call.asked = None THEN Tip(call.seen.vars) ELSE call.asked

\* The environments in which a release is seen in progress; unreadable is none.
SeenReleasing == IF Succeeded THEN {e \in Env : call.seen.env[e].on /\ Releasing(call.key, e)} ELSE {}

RideVerified ==
  /\ Ends("use_existing_flag") /\ Answered("releases")
  /\ Candidate \in call.seen.vars /\ ~VariationReleased(call.seen, Candidate, SeenReleasing)
  /\ Returned([node.tags EXCEPT !.ready = TRUE, !.key = call.key, !.variation = Candidate])

CreateMetric ==
  \E m \in Metric, e \in BOOLEAN :
    Begins("create_metric", Op("createMetric", m), "metric", [IdleCall EXCEPT !.key = m, !.client = e])

\* An event-backed metric is also a claim that the code emits its event.
MetricCreated ==
  /\ Ends("create_metric") /\ Answered("metric") /\ Succeeded
  /\ Returned([node.tags EXCEPT !.metrics = @ \union {call.key},
                                !.events = IF call.client THEN @ \union {call.key} ELSE @])

\* The first request that fails, and a refusal, end the call with no tag set.
Refused ==
  /\ call.tool \in {"create_flag", "add_variation", "use_existing_flag", "create_metric"}
  /\ Ends(call.tool)
  /\ \/ ~Succeeded /\ \E s \in {"created", "client", "variations", "append", "state", "metric"} : Answered(s)
     \/ Answered("variations") /\ Succeeded /\ (flag[call.key].boolean \/ Intended \notin Version)
     \/ /\ Answered("releases") /\ call.tool = "use_existing_flag"
        /\ Candidate \notin call.seen.vars \/ VariationReleased(call.seen, Candidate, SeenReleasing)
  /\ Returned(node.tags)

(***************************************************************************)
(* The checkout.                                                           *)
(***************************************************************************)
\* A tool of the checkout is synchronous: nothing happens while it runs.
Locally(tool, tags, r) ==
  /\ May(tool) /\ node' = [node EXCEPT !.calls = @ - 1, !.tags = tags] /\ repo' = r
  /\ UNCHANGED <<ld, io, world>>

\* write_file and edit_file, outside .release-flags/: a reference comes or goes.
WriteFile ==
  \E r \in Ref, keep \in BOOLEAN :
    /\ IF keep THEN Cardinality(repo.refs) < MaxEdits ELSE r \in repo.refs
    /\ Locally("write_file", node.tags,
               [repo EXCEPT !.refs = IF keep THEN @ \union {r} ELSE @ \ {r}, !.dirty = @ \union {"code"}])

\* A suite that is not there is inconclusive, not red.
RunTests ==
  \E outcome \in {"missing", "pass", "fail"} :
    Locally("run_tests", [node.tags EXCEPT !.tests = IF outcome = "missing" THEN @ ELSE outcome], repo)

\* git add, commit and push: nothing staged is not an error, and ends it there;
\* the commit stays when its push fails.
Landed(r, part) ==
  IF ~PushMode \/ r.dirty \intersect part = {} THEN repo' = r /\ UNCHANGED faults
  ELSE \/ repo' = [r EXCEPT !.dirty = @ \ part, !.unpushed = FALSE] /\ UNCHANGED faults
       \/ Spend("git") /\ (repo' = [r EXCEPT !.dirty = @ \ part, !.unpushed = TRUE] \/ repo' = r)

CommitAndPush ==
  /\ May("commit_and_push") /\ node' = [node EXCEPT !.calls = @ - 1]
  /\ Landed(repo, {"code", "manifest"}) /\ UNCHANGED <<ld, call, api, world>>

\* (Mutant: whoever writes the manifest writes the whole of it.)
OverwriteIntent(old, given, name) ==
  IF given THEN IF name = "steward" THEN "steward" ELSE "agent" ELSE IF old = None THEN "skeleton" ELSE old

\* Agents initialize an intent, and only the steward updates one that is there.
Intent(old, given, name) ==
  CASE old # None /\ name # "steward" -> old
    [] given                          -> IF name = "steward" THEN "steward" ELSE "agent"
    [] old # None                     -> old
    [] OTHER                          -> "skeleton"

\* A corrupt manifest is treated as absent; fields merge; an answer survives.
Merged(old, name, given, ask, target) ==
  LET was == IF old.state = "written" THEN old ELSE NoManifest IN
  [state |-> "written", answer |-> was.answer,
   target |-> IF target = None THEN was.target ELSE target,
   question |-> was.question \/ ask,
   intent |-> Intent(was.intent, given, name)]

\* A manifest with an invalid field is refused before any of this.
WriteManifest ==
  \E given, ask \in BOOLEAN, target \in Ask :
    LET m == Merged(repo.manifest, node.name, given, ask, target) IN
    /\ May("write_manifest") /\ node' = [node EXCEPT !.calls = @ - 1]
    /\ Landed([repo EXCEPT !.manifest = m, !.dirty = IF m = repo.manifest THEN @ ELSE @ \union {"manifest"}],
              {"manifest"})
    /\ UNCHANGED <<ld, call, api, world>>

\* The developer answers the question, writes an intent, or breaks the file.
HumanWrites ==
  /\ world.moves < MaxWorld /\ world' = [world EXCEPT !.moves = @ + 1]
  /\ repo.manifest.state = "written"
  /\ \E m \in {[repo.manifest EXCEPT !.answer = TRUE], [repo.manifest EXCEPT !.intent = "human"],
               [repo.manifest EXCEPT !.state = "corrupt"]} :
       m # repo.manifest /\ repo' = [repo EXCEPT !.manifest = m, !.dirty = IF PushMode THEN @ ELSE @ \union {"manifest"}]
  /\ UNCHANGED <<ld, io, node>>

Tools ==
  \/ Inspect
  \/ Tag
  \/ ReadDocs
  \/ QueryRepos
  \/ CreateFlag
  \/ FlagCreated
  \/ FlagWired
  \/ AddVariation
  \/ VariationAdded
  \/ GetFlagState
  \/ StateShown
  \/ UseExisting
  \/ RideVerified
  \/ CreateMetric
  \/ MetricCreated
  \/ Refused
  \/ WriteFile
  \/ RunTests
  \/ CommitAndPush
  \/ WriteManifest
=============================================================================
