# Formal models of launchdarkly-auto-factory

TLA+ models of the auto-factory: a pipeline of agents that wraps a change in a
feature flag (Phase 1) and a service, Beacon, that turns deploy notifications
into LaunchDarkly releases (Phase 2). The models are translated from the code
under `packages/`; TLC checks them on small instances and TLAPS proves theorems
about them for every instance.

- [1. The system](#1-the-system)
- [2. Plan](#2-plan)
- [3. The modules and the code](#3-the-modules-and-the-code)
- [4. Runs, bounds and fairness](#4-runs-bounds-and-fairness)
- [5. Proofs](#5-proofs)
- [6. What the code does not do](#6-what-the-code-does-not-do)
- [7. What is not modelled](#7-what-is-not-modelled)

## 1. The system

### Parts, their state and their operations

| part | state | operations | hard because |
|---|---|---|---|
| Beacon, notification handler (`beacon/src/server.ts`) | none but the stores; per request: the action slots, the candidates, the outcomes | `POST /flag-releases`, `POST /webhooks/railway` -> `handleDeploy` -> `evaluateManifest`, `reEvaluate` | about ten awaits per manifest; other requests, LaunchDarkly and people act between any two |
| trigger (`trigger.ts`) | none | `triggerRelease`: intent, target, direction along the lineage, one of three patches | a patch that throws may have landed; a refused one has not |
| deploy state (`state.ts`) | a window `{last, prior}` per service and environment, in memory and in a file | `get`, `record`, load | two deep; written before the work it stands for is done |
| pending ledger (`pending.ts`) | one entry per unfinished manifest, in memory and in a file | `upsert`, `clear`, `recordOutcome`, load | written once per outcome; several manifests may name one flag |
| discovery, scope, fullstack (`discovery.ts`, `scope.ts`, `fullstack.ts`) | none | file-name diff of two shas; side decision; tri-state readiness of the other side | a file that exists at both shas is never discovered again |
| release watch, child re-pointing (`monitor.ts`, `repoint.ts`, `seerAutofix.ts`) | the set of watched releases | watch, poll, re-point children that pin the old variation | polls fail and time out; read-then-write on the children's pins |
| LaunchDarkly client (`shared/src/releaseAdapter.ts`, `ldClient.ts`) | none; two retry budgets per request | start, list active, list latest, poll; `request` | the listing lags a start; a 5xx says nothing of what was done |
| graph walker (`shared/src/graphWalker.ts`) | journal of runs, tags, edge counts, pending halts | `walkGraph`: replay, gates, node runs, judges, edges, loop budgets | loops, budgets and a replay that must retrace the journal |
| approval, verdict (`shared/src/approval*.ts`, `handoffVerifier.ts`, `judges.ts`) | none | verdict over gates, judge scores | fail-closed at every missing value |
| phase 1 CLI (`phase1-cli/src`) | the persisted walk state | run, resume, grant | a crash between a walk and its record, stale state |
| agent run, tools (`shared/src/anthropic`, `openai`, `cursor`, `handoffVerifier.ts`) | tags, budgets, the checkout, the release manifest | turns, tool calls, forced tag call, verification | a tag must be a fact although calls fail, are lost, or speak of different flags |
| pull request action (`phase1-resource-factory/src`) | none; labels, comment and statuses are the host's | a job per human event: checkout, gate, walk, stamp, comment, status | jobs overlap each other and the author's pushes; each has its own checkout |
| config bridge (`config-bridge/src`) | none; the project in LaunchDarkly and the stamp on its graph | provision, upgrade | a sequence of calls that may die anywhere, over a project people edit |
| cursor extension, bootstrap, scripts | editor timers; served configuration | auto trigger; install | |

### How they interact

A merge deploys one or more services. Each service's CD calls Beacon once per
deploy; the call is not retried by anything that ships with the repository.
Beacon reads the manifests (`.release-flags/*.json`) from GitHub at the deployed
sha, asks LaunchDarkly what runs and what is served, and patches the flag.
LaunchDarkly then moves the flag by itself: it ramps, completes, or reverts on a
regression. The manifests were written by Phase 1, in whose walk the agents, the
judges and the humans who approve take part: the CLI or a pull-request job runs
the walk, the walk runs nodes, a node's tools create flags in LaunchDarkly and
push to the branch. The two phases share only the repository and LaunchDarkly.
The agents themselves are AI configs in LaunchDarkly, which the config bridge
provisions and upgrades.

### What makes each part correct

- *handler*: one write per flag and notification; no manifest lost; no release
  that undoes a guardrail's revert; no starvation.
- *trigger*: never backwards along the `vN` lineage and never off it; a release
  starts from what is served, never while another runs.
- *stores*: what is on disk after any crash still protects the above.
- *watch and re-pointing*: a completion is seen or reported; children follow
  their parent forwards only.
- *walker*: every walk ends; a replay does not run what has run; a budget is
  spent once.
- *approval*: what is not positively approved does not merge or release.
- *agents*: what a verified node claims is there; nothing reaches users before a
  release; what a human wrote stands.
- *pull request*: the flag gets into the code only past its gate, a job's first
  commit only past the planner's; a green verdict is on the commit it speaks of;
  a label on a human's commit is read.
- *config bridge*: a successful upgrade leaves what is committed; drift is shown;
  what is committed can be restored from every half-finished state.

The code's own hazards, each at its line, with the property that covers it or
the reason why none does, are listed in `PROJECT.json` under `hazards`. A property
that excuses a hazard, or is checked only where it cannot happen, is not listed
with it.

## 2. Plan

The first seven groups are done.

1. **Beacon's core**: `ReleaseLineage` (pure decisions), `Beacon` (handler,
   stores, ledger, faults), `ReleaseContract` (what production sees), `MCBeacon`,
   `BeaconProofs`, and on it `ReleaseProofs` (the refinement) and `LedgerProofs`
   (what the stores are for), each extending the one before.
2. **The resumable walk**: `GraphWalk` (nodes, edges, gates, budgets, journal),
   `WalkVerdict` (the decision an ended walk is recorded with), `WalkResume`
   (state file, validation, grants, feedback, record, faults), `MCWalk`,
   `WalkProofs`.
3. **The release watch**: `ReleaseWatch`, `MCWatch`, `WatchProofs`.
4. **Agents**: `LdFlags` (LaunchDarkly's flags, client, writer), `AgentTools`
   (the tools), `AgentRun` (turns, verification), `MCAgent`: each extends the one
   before; `AgentProofs`.
5. **The pull request**: `PullRequest`, `MCPull`, `PullProofs`.
6. **The config bridge**: `ConfigBridge`, `MCBridge`, `BridgeProofs`.
7. **Proofs**: every safety and action property that a passing run checks is a
   theorem (section 5).
8. **Resumed walk implements uninterrupted walk** (next): an abstract walk that
   asks for approval or budget and goes on, refined by `WalkResume` while files,
   refs and graph stand still. `ReplayIsFaithful` is the state-based half of it,
   and `Path` (the walk's state as a function of its runs) what its proof would use.

## 3. The modules and the code

### ReleaseLineage: the pure decisions

A variation is its index in the `vN` lineage; `Control` is every value without
an index (`variationLineageIndex` answers undefined for `control` and for
hand-named variations alike, and the code treats them alike). A boolean flag is
the lineage with the one version 1. A manifest is what the release logic tells
manifests apart by: flag, target (or none: the tip), intent, scope, and the
patch its plan and policy select. `MustHold` and `Moot` are the refusals of
`triggerRelease` that return `held` and `noop`, in the code's order;
`PreviousSha`, `AlreadyProcessed`, `Recorded` are `state.ts`; `PendingOutcomes`
is `PENDING_ACTIONS`. Two outcomes split the code's action `error`: `unread` (a
ledger entry whose file could not be read again, whose remembered flag is kept)
and `unknown` (the trigger threw; the write may have landed).

`ReadPolicy` is what the flag's release settings say, or that they could not be
read; a manifest's own method wins over the policy's, and an unreadable policy
falls back to what the code falls back to (`ReleaseMethod`). The failures of a
patch are `PATCH_FAILURE_TAXONOMY`: `ContentRejection` statuses hold the manifest
when the patch carried its content (`CarriesManifestContent`), `Declined` ones
throw and have not written, `Unanswered` ones throw and may have.

### Beacon: the handler and the world around it

Node runs a handler without interruption between two awaits, so one action is
the code from one await to the next, and any other request or any external
event may come between. `pc[n]` names the await that request `n` is at:

| `pc` | the code is about to | leaves by |
|---|---|---|
| `discover` | diff the manifest directory, record the sha, re-read pending manifests | `Discover`, `DiscoveryFails` (502), `RecordFails` (500) |
| `pick` | take the next candidate, or fold | `Pick`, `Fold`, `FoldFails` (500) |
| `history` | ask how the flag's last release ended (ledger entries only) | `LedgerHistory` |
| `scope` | decide the side, ask the other side's status endpoints | `Scope` |
| `guard` | look at the slot, then at the active releases | `Guard` |
| `repeat` | on an already processed sha, ask the history | `RepeatHistory` |
| `read` | normalise the intent, read the flag and the policy, decide | `Read` |
| `patch` | send the patch its plan and method select | `PatchAccepted`, `PatchThrows`, `PatchRefused` |

`idle` and `failed` are a free handler; `failed` answered 500. The re-reads of
pending manifests and the diff read one fixed commit, whose content does not
change, so they share an action with the record of the sha between them.

The stores are in memory and on disk: `record` updates memory before the write
that may fail, the fold writes once per outcome, and `Crash` loads both from
disk as the constructors do. A fold that fails half way leaves one outcome in
memory only. `FoldFails` allows any set of outcomes to have gone first where the
code's order is that of the outcomes: it allows more than the code does.

A notification is for the sha its service runs; an older one (`late`), or one
with its own `previousSha` (`explicit`), is a misfortune and is counted. All
misfortunes are named in `FaultKind`, an instance admits some of them, and
`MaxFaults` bounds their number. `MaxReleases` bounds new notifications once a
flag has that many releases. The status 503 that the handler answers when an
idempotency read fails is the outcome `error`: nothing in the repository acts on
the difference.

`PromptListing` and `QuietGuardrail` are assumptions about LaunchDarkly that
some runs make: the listing catches up between notifications; no release is
reverted or stopped during one. The runs that need them say so, and the runs of
section 6 show what happens without them.

### ReleaseContract: what production sees

Per flag: start a staged release forwards from what is served, move at once
while none runs, ramp, end. No requests, shas, ledgers or slots. `Beacon`
implements it with `moving` mapped to the flag's running release.

### GraphWalk: one walk

`walkGraph` is one loop over nodes; the actions are its ways into, through and
out of one, and `pc` says where the walk is: `enter` a node, `route` away from
it, `ended`.

| action | code in `walkGraph` |
|---|---|
| `AwaitApproval` | the policy gate of the node halts with `awaitingApproval`; not evaluated while replaying |
| `HitRunCap` | as many runs as `maxTotalNodeRuns` |
| `Replay`, `Diverge` | the journal's next entry is taken, or names another node or iteration |
| `RunLive` | agent, judges, tags and snapshots of a live run; the first one is told the human's feedback |
| `VerificationFails`, `Pause` | the hand-off verifier's problems halt a live run that did not fail; `needs_human_input` halts |
| `FollowForward`, `FollowLoop` | the first edge that passes and has budget; a loop edge counts and rewinds |
| `Exhaust`, `Stall`, `Finish` | no edge: out of budget, tags missing, or the end |

Every end while journal is left over is a divergence (`End`). `tags` is
`accumulatedTags`, `inventory` the facts that are never rewound, `snapshots` the
`tagsBefore` of each run cut down to routing tags. A field a record may lack is
a set with at most one element. A judge's score, an agent's tags and the files
it writes are answers out of `Results`; a failed run is not judged and not
verified. Tags are functions from names to values, a risk score is compared as
a percentage (`Percent` holds the values that parse).

`Spent` says "the budget is what was declared and granted, or the hard cap if
that is less" as a disjunction instead of the code's `Math.min`: the same
set, in a form in which the bound can be proved without typing a sum.

`reentries` is history: where loop edges were taken. So are `told`, `ok` and
`left` in a run: the feedback it was told, whether its step was approved, and
the files it left.

### WalkVerdict: what an ended walk is recorded as

`Decision` is `interpretWalk` followed by `decideApproval` on the canonical tags
(the legacy spellings are left out); `OrphanedFlagKeys` are flags an earlier
iteration created and the final state does not name; `Outcome` is
`deriveOutcome` of `run.ts`.

### WalkResume: invocations, the state file and the world

An invocation is `Fresh` or a `Resume` of a valid state, a walk, and `Conclude`:
write or clear the state, write the record. `Valid` is `validateWalkState`, the
two keys that matter separately being the tree hash and everything else
(`refs`), and every key is fail-closed: a hash that could not be computed
(`treeHash = {}`) matches nothing. `Absorbed` is `grantIsAbsorbedByCap`,
`CarryUnconsumed` is `carryUnconsumedFeedback`, `WriteOrClear` is the choice
between `writeWalkState` and `clearWalkState`.

`ConcludeBadly` is a conclusion in which the state can be neither written nor
removed, or is written without a tree hash, or the record cannot be written; all
of these are survived by the code, and so is a death between the two writes.
`Killed` is a death during the walk. `EditFiles`, `MoveRefs` and `EditGraph` are
what people do meanwhile. Refs and graph are read once, when an invocation
starts, so a change of them during a walk is the same as one right after it; the
files belong to the agents while a walk runs. Feedback is named by the resume it
was passed with, which makes two equal messages different: `told` is about
delivery, not about text.

### ReleaseWatch: after a release

One parent flag, the children whose prerequisite pins a variation of it, the
watch tasks and the runs of `repointDependentPrerequisites`. The handler is here
no more than the evaluation of the newest manifest, in one step; `Beacon` opens
that up. `asked` says where the evaluation stands.

| state | code | actions |
|---|---|---|
| `inFlight` | the key in `dedupeMonitors`' set | `Attach` adds, `Settled` removes |
| `watch[w]` | `monitorTriggeredRelease` and `monitorRelease`: `resolve`, `latest`, `poll`, `seer`, `repoint` | `Resolve`, `Latest`, `Poll`, `PollFails`, `Deadline`, `ResolveFails`, `AskSeer` |
| `rp[a]` | a run of re-pointing, of a watch or a handler: `parent`, `children`, `patch` | `ReadParent`, `ReadChild`, `Repoint`, `RepointFails`, `RepointReadFails`, `RepointEnds` |
| `on`, `served`, `rel`, `seen` | the parent in LaunchDarkly, its releases, what the listing shows of them | `StartRelease`, `Settle`, `Ramp`, `Complete`, `Resume`, `Misfortune`, `HumanActs` |

`watched`, `told` and `excused` are history: whether a watch was attached for a
release, which starts were told to Sentry for it, and whether something happened
that may leave children behind.

### LdFlags, AgentTools, AgentRun: an agent at work

Three layers, each extending the one below it.

`LdFlags` is LaunchDarkly as the agents meet it: flags with their variations,
targeting, prerequisites and ramping releases; `LdClient.request` (`api`) with
its budgets for 429 and 5xx; and the writer (`call`): create a flag, make it
visible to browsers, add a variation, wire a flag behind a parent, read its
state, each a sequence of requests between which `World` may move.

`AgentTools` is what `sandboxTools.ts` offers and does. A node's capabilities
(`Grant`), cut to what the run enables (`Caps`), give tools (`ToolsOf`), from
which a variation's attachments may only take away (`Offered`). Each tool is an
action that begins a call and one or more that end it; tags are set in the
action in which the code sets them. The checkout is the set of references it
holds (`refs`), the manifest, what is uncommitted and what is unpushed.

`AgentRun` is the runner's loop: `Respond` and `TurnEnds` are a turn, `HitCap`
the cap, `ModelFails` the retries, `ForceTags` the forced tag call, `Verify` the
hand-off verifier over the checkout and LaunchDarkly. The hosted (Cursor)
runner has no turns of its own and may be cancelled. Which tools the model
calls, with which arguments, is any choice.

### PullRequest: jobs over one pull request

`action.ts` of each of several jobs, from its start to its status. A commit is
what the properties tell commits apart by; `job[j].head` is the last commit of
the job's own checkout, `upstream` where it last saw the branch.

The planner, and the steward folded into it, hold `write_manifest` and run before
the implementer, whose gate is the one the policy falls back to
(`auto-factory.json:11`): so at an ordinary pause the branch already has the
planner's manifest, committed and pushed by the tool itself
(`sandboxTools.ts:1429`; `WritesManifest`). An implementer that asks a question
writes it into the manifest in the same way. What is gated by then is the flag
in the code (`wired`).

`StartsJob` is the templates' triggers on the two hosts. On GitHub a job's
commit says `[skip ci]`, and "GitHub suppresses `pull_request` runs when the
head commit says [skip ci]" (`sandboxTools.ts:697`): while such a commit is the
branch's last, neither a push nor a label nor a reopening starts a job, until a
human pushes. That a `labeled` event is suppressed with the others is the
host's behaviour as that comment has it. GitLab starts a pipeline by hand
whatever the head is (`.gitlab-ci.yml:15`).

| `pc` | the job is about to | leaves by |
|---|---|---|
| `queued`, `launched` | check out, read its configuration and the labels | `Checkout`, `LaunchFails`, `ApprovedSteps` |
| `walk` | run the step `at` | `AwaitApproval`, `Plan`, `Implement`, `Review` |
| `gate`, `stamp` | post "gates satisfied", stamp the manifest's `approvedBy` | `GateSatisfied`, `ReviewManifestIntent` |
| `find`, `write`, `status` | find its comment, write it, post its status | `FindComment`, `PostComment`, `PostStatus` |

The approval policy is resolved as the code does: `ApprovalMode` prefers the
environment to the flag, `GatedSteps` drops entries that are no step and falls
back to the first writing step when a mode gates and nothing is listed. A
misspelled `APPROVAL_MODE` is `yolo` and overrides the flag; a list that names
only steps the graph does not have gates nothing. `risk-threshold` gates depend
on what a walk found and are `GraphWalk`'s.

### ConfigBridge: provision and upgrade

One run at a time, call by call. `run.pc` is the stage: `tools`, `model`,
`config`, `judges`, `attach`, `variations`, `rules`, `graph`, `flag`,
`flagRules`, `metric` of `provision.ts`, then, for an upgrade, `sync`, `read`,
`patch`, `remodel`, `stamp` of `upgrade.ts`. `Calls` is a call inside a `try`
(answered, failed, or done with its answer lost; the run goes on), `Aborts` one
outside. Contents are compared as the code compares them, so a content is a
number. `Committed` gives what each version of the repository commits;
`excused` is history, the reasons for which a stamp may lie.

## 4. Runs, bounds and fairness

`MCBeacon` holds the instances: one set of commit histories per question
(manifests appear, are edited, are deleted) over at most three commits, two
flags (`f1` with v1 and v2, its policy unmapped; `f2` boolean, its policy
immediate) and three manifests. Two manifests of
one flag are what every hazard of the slot and of the order needs; a third
gives a sibling or an unrelated flag; three commits are one more than the
window remembers from the first.

| run | checks | instance | shows |
|---|---|---|---|
| lineage | `TypeOK`, `OneWritePerFlag`, `Accounted`, `RevertStands` | 1 service, 3 manifests, 12 histories, 2 faults; 321,601 states | the handler's safety with failed reads (of the policy too), lost responses, refusals of every status class and reverts between notifications |
| contract | `ImplementsContract` | the same with stops, rollbacks, late and explicit notifications, reverts at any time; 347,175 states | every behaviour is a behaviour of the contract |
| restart | `RevertStands` | deaths at any await, failing files, failed reads, lost responses, reverts and stops between notifications, 3 faults; 31,553 states | the disk is enough to protect a revert |
| overlap | `OneWritePerFlag` | 2 services, 2 concurrent requests, lagging listing; 2,540,375 states | the slot needs no help from the listing or from other requests |
| fullstack | `EventuallyReleased` | frontend and backend, a fullstack manifest, an unreadable endpoint; manifests held and approved later, missing, malformed, off the lineage; 237,073 states | nothing releasable starves, and the sides do not wait for each other forever |
| watch | `TypeOK`, `AutofixOnce`, `ForwardAsRead`, `ChildrenFollow` | one parent, a tagged and a human's child, two releases, one handler, two tasks (one more than the dedupe lets live), every kind of fault, two of them; 996,999 states | a release is followed to its end once, and its children follow it, whatever is redelivered, paused, reverted or lost |
| agent | `TypeOK`, `TagsAreFacts`, `NothingTwice`, `HandoffHolds`, `RidesDark`, `WiringIsInert`, `HumanWordKept`, `NodeEnds` | a parent and a child flag, one environment, one metric, eight scenarios of one or two node runs, one fault, one move of others; 848,985 states | what a verified node claims is there, its users see nothing yet, and it ends |
| pull | `PullTypeOK`, `GatedWorkIsApproved`, `VerdictFitsCommit`, `LabelHasItsReader` | two jobs, both hosts, two human acts, one fault, parsable and unparsable policies; 8,832,639 states | overlapping jobs neither work past a gate, nor put a verdict on another's commit, nor leave a human's commit with a label nobody will read |
| bridge | `BridgeTypeOK`, `UpgradeConverges`, `NoSilentDrift`, `OperatorsWordKept`, `Heals` | two tools, two variations, one environment, three versions, two faults, one operator's edit; 2,500,536 states | a run may die or fail at any call, and later upgrades restore the instructions, judges, tools, graph and stamp (`Content`) |

`MCWalk` holds the walk's instance: the committed graph with its intake node
left out, the steward folded into the edge planner -> implementer and testing
into metrics -> reviewer, and one edit of it in which the rework edge leads to
the reviewer itself and has lost its budget (so it is no loop edge any more and
only the run cap stops it). It has a forward edge that a tag skips, a self-loop on a judge's score, a rework loop, a gate.

| run | checks | instance | shows |
|---|---|---|---|
| walk | `TypeOK`, `ReplayIsFaithful`, `NoStaleRouting`, `WalkIsBounded`, `GrantMakesProgress`, `NoGateBypass`, `FeedbackHeardOnce`, `FeedbackKept`, `ReplaysItsOwnFiles`, `GreenIsHonest`, `WalkEnds` | one fresh walk, two resumes, one grant a resume, one kill, disk error, file edit, ref or graph change; 605,834 states | stops, resumes, replays and rework passes neither lose nor forge a tag, an approval, a budget or a word of a human, and every walk ends |

Two runs expect a violation and are described in section 6.

A hard cap of 2 (10 in the code) puts a declared budget of 1, a grant that still
counts and a grant that the cap absorbs in reach, and a run cap of 12 (four
nodes) is reached by the edited graph. Two resumes are the least with feedback
carried over a resume, and with a grant positioned in a journal that was itself
resumed. The agents' answers are those the graph tells apart; a metrics result
judged good enough is left out because it takes the edge that a result without
a score takes too. Deadlock is not checked: when the bounded invocations are used
up, nothing is left to do.

`ReplayIsFaithful` and `GrantMakesProgress` ask only of the graph that produced
the journal; under the other one a divergence is the right answer. `GreenIsHonest`
is an action property of the run record, which the pre-push gate reads.
`NoStaleRouting` depends on the shape of the graph: a loop edge back to a node
that the current pass had *skipped* restores the snapshot of that node's last run
in an abandoned pass (`graphWalker.ts:1664`). Neither graph of the instance has
such an edge. `GrantMakesProgress` says that a walk that is out of budget with the
last run of its journal had stopped there for the same reason, with the same
grants: whoever granted more, or approved, gets a run for it first.

`Accounted` says that after the answered notification of what a service runs,
every manifest it owes is either pending or served (or overtaken). `RevertStands`
is an action property over the release history: the manifest whose release was
taken back never starts the next one. A *different* manifest may, because a fix
is a new manifest or a new commit's target.

In `watch` the listing may lag past the last attempt to attach, and polls of a
watch survive one failure (five in the code): one more than that is within the
faults. `ChildrenFollow` is promised of a release for which a watch was attached,
and excuses what the code only logs. In `agent` two turns, one call a turn and
one retry of each kind are the least with a cap reached by work, a call whose
retry was served twice, and a budget that runs out. The scenarios put the parent
flag mid-release, released, boolean, and the child dark, absent or quoted by the
checkout; `Aside` takes from a node's offer the tools its scenario does not ask
about. `RidesDark` and `WiringIsInert` speak of what was read and not moved
since; the code has no precondition to rely on. In `pull` two acts are a label
and a push, in either order, around one job or two, each of which may commit a
manifest, the flag and a stamp. `LabelHasItsReader` is said of a branch that ends
in a human's commit, on GitHub, where a label is an event; elsewhere see
`MCFindLabel` in section 6. In `bridge` three versions
let an upgrade change instructions, then a tool's definition, the graph and
judges at once; two faults are a failed or killed run whose repair fails too.
The properties of the bridge are about `Content`, which has neither targeting
rules nor cost tracking: the rules of a config found half-made are never written,
and a death between a patch and its re-patch leaves the cost tracking cut off.
`UpgradeConverges`, `NoSilentDrift` and `OperatorsWordKept` excuse a run that
reported a failure, and the last one a run during which an operator wrote.

Deadlock is not checked in `overlap`, where two requests, a bound on releases and
a bound on faults can use each other up, and in `watch`, `agent`, `pull` and
`bridge`: there the system may stop, having served all that people bounded in
number asked of it.

**Fairness of Beacon** (`FairSpec`). A handler's awaits return (`WF` of its steps): Node
resolves them and each has a timeout or fails. LaunchDarkly's listing settles
and its running releases end (`WF`). What a service runs keeps being notified
(`SF` of `Notify`): the code does *not* retry by itself, its logs ask a human to
re-POST or wait for another deploy, and this assumption is that somebody does.
It is strong because another request may occupy the bounded handler in between.
Deploys, reverts and faults are not fair.

**Fairness of the watch.** `WF` of each task and each re-pointing, which timers
and timeouts drive, of the listing and of completion. A paused release need not
be resumed, nothing need be redelivered.

**Fairness of the walk** (`Fairness` of `WalkResume`). `WF` of the walk's steps:
an agent run is bounded in turns and every request has a timeout. `WF` of
`Conclude`: the process goes on after its walk. Nobody has to invoke, resume or
repair anything.

**Fairness of an agent run.** `WF` of the runner's steps, of the tools' and of
the requests'. It does not say that the model stops by itself: `NodeEnds` is
about the cap. It excludes the hosted provider, whose end is its own.

**Fairness of the jobs.** `WF` of each job's steps. No human acts by necessity.

**Fairness of the bridge.** `WF` of a started run's steps; `SF` of starting an
upgrade: the CLI's start-up check (`run.ts:183`) and `bridge doctor` ask for one, other
runs may come in between, and `Heals` is about the `Content` of a project somebody
goes on upgrading.

`Handler` is symmetric in `overlap`. Other constants are not: services have
sides and manifests have contents; the runs with liveness use no symmetry.

## 5. Proofs

`BeaconProofs` proves, for every value of the constants that satisfies
`BeaconAssumption` and `MaxVersionAssumption`:

- `Typing`: `Spec => []TypeOK`.
- `OneWrite`: `Spec => []OneWritePerFlag`, for any number of concurrent requests,
  services, flags and faults.

`OneWritePerFlag` speaks of outcomes and is not inductive: nothing in it stops a
request that is past its guard from writing for a flag that was written
meanwhile. `IInv` adds what the code relies on: every outcome that wrote or may
have written has its flag in the request's slot (`SlotOK`), the flag under
evaluation past the guard is *not* in it, and the shape of a request at each
await (`RequestOK`: the manifest under evaluation is one, what has an outcome
was one, a request that has not started has none). The second needs no
cooperation from other requests because a slot belongs to one request.
`Invariance` is `Spec => []IInv`, by one lemma per action; `Finishing`,
`Continuing` and `Closing` are the three ways an action can leave the request,
`Standing` says requests that do not move keep the invariant.

`ReleaseProofs` and `LedgerProofs` build on that invariant. Their theorems have
hypotheses beyond the assumptions of the modules, each a statement about who
else acts:

| theorem | property | hypotheses |
|---|---|---|
| `Refinement` | `ImplementsContract` | `OneAtATime` (notifications are answered one at a time), `PromptListing`, nobody serves a variation by hand |
| `RollbackStands` | `RevertStands` | `OneAtATime`, `OneService`, `InOrder` (a notification is for what runs, in the order of the deploys), `Kept` (no manifest is deleted), `PromptListing`, `QuietGuardrail` |
| `NothingLost` | `Accounted` | `OneAtATime`, `InOrder`, `Fixed` (a manifest stays as it was merged), no process death, no disk failure |

The code promises none of these by itself: they say when its promise holds. TLC
refutes `Refinement` and `RollbackStands` when any one hypothesis is dropped
(`MCFindLedgerRace`, `MCFindSecondService` and `MCFindWithdrawn` are three of the
runs that do), and `NothingLost` without its hypotheses on deaths, disks and
order; for `OneAtATime` and `Fixed` there no instance we tried has a
counterexample, the proof needs them.

`ContractInv` is the reason why reading the active releases before the patch is
enough: what the listing does not show yet is what this very request started,
whose flag has no free slot (`FlagOK`). `OrderInv` ties the windows to the order
of the deploys: a request works on the sha its service's window ends in, in
memory and on disk, so "new in this diff" means "not released before". On it,
`RevertInv` says that the windows remember the manifest of every release, so that
it is not new again, and that while a flag's last release is one that was taken
back, no request is past the ledger's history read with a manifest of that flag
that is not new (`RevertOK`). `AccountInv` says that whatever a service owes is
served, in its ledger, or in the hands of the request being answered (`Kempt`).

`WalkProofs` proves, for every value of the constants that satisfies
`WalkAssumption` and `ResumeAssumption` - every graph, every answer of an agent,
any number of invocations, grants and faults:

| theorem | property | inductive invariant, and why it is needed |
|---|---|---|
| `Typing` | `TypeOK` | `Typed`: the state file's fields (`SavedType`) become a walk's variables on a resume; snapshots are parallel to runs, and a walk routes only away from a node it ran (`Aligned`) |
| `Bounded` | `WalkIsBounded` | `Typed` again: a counter grows only where `Spent` is false, which the hard cap bounds whatever was granted |
| `GatesHold` | `NoGateBypass` | `GateInv`: every tag in force, and in every snapshot a rework pass may restore, was written by a run of this walk (`Sourced`); the runs so far are the journal's (`Retrace`); journals and saved runs respect the gates too |
| `FeedbackIsHeardOnce`, `FeedbackIsKept` | `FeedbackHeardOnce`, `FeedbackKept` | `FeedbackInv`: the feedback in force has not been heard in the journal, is pending until the first live run and was told to exactly that run (`Pending`); what is saved is unheard; no run has heard of a resume yet to come (`Known`) |
| `ReplaysOwnFiles` | `ReplaysItsOwnFiles` | `FilesInv`: a replaying walk stands on the files its journal ended with, a live one on its last run's; a walk that ends before its journal is used up has diverged, so what is hashed belongs to the last saved run |
| `FaithfulReplay` | `ReplayIsFaithful` | `PathInv`: where a walk stands is a function of its graph, its grants and its runs (`Path`, and `LeavesOnce`: the first open edge is taken), the saved walk came along such a path, and the one that replays it is on the same (`Tracks`) |

Three more properties hold of some graphs only. Their theorems name what they need
of the graph as a hypothesis (`WalkResume`, "What the committed graph is like"); the
committed graph meets all three, TLC evaluates them on the graphs of the run
(`GraphsAsCommitted` in `MCWalk`), and on graphs that break one, TLC refutes
the property. The code asks none of this of a graph it is served.

| theorem | property | hypothesis | inductive invariant, and why it is needed |
|---|---|---|---|
| `HonestGreen` | `GreenIsHonest` | `VerdictIsFinal`: a run that may approve leads on only with another verdict | `VerdictInv`: an approval among the tags is the last run's own word, for whoever ran after it came by an edge that asks for another verdict, and a rework restores none from a snapshot. That every flag a run named is the one reported is asked at the end (`OrphanedFlagKeys`; `OneFlag`) |
| `FreshRouting` | `NoStaleRouting` | `InLine`: nodes have ranks, loop edges lead back, others onward and past no node that a loop edge leads to | `LineInv`: the tags in force, and those in each snapshot, are what the runs *not out of date* said up to there (`SaysAt`); `Crossing` says that a walk which came past a rank ran the reentered node at it, so the snapshot that a rework restores is of the pass before it |
| `GrantsBuyProgress` | `GrantMakesProgress` | `BudgetsPlain`: a budget is one natural number, of the only edge from its node to its target | `GrantInv`: no edge was taken more often than granted so far (`CountsWithin`), what a stop for budget names would be taken if it had any (`Blocked`), a grant given to a replay was below the hard cap (`GrantedWell`). With `PathInv` it finds the walk where the recorded one stopped, with an edge open |

`GrantsBuyProgress` needs arithmetic about sums over sets of grants. `Total` and
`GrantedVisits` are folds, of which the prover knows nothing; `AddsAgree` and
`AlwaysSummed` (the function behind such a fold is unique, and exists for a
finite set) give `SumWithout` and `SumMore`, by the smallest counterexample
(`LeastSubset`) where one would do an induction.

`StepKinds` reduces the next-state relation to what the proofs tell apart: a run
replayed, a run made, an edge followed, an end, a start, a conclusion, and the
world. Each invariant then has a lemma for each kind it is disturbed by.
`LastOfIsIn` (a node's last run is one of its runs) rests on the well-foundedness
of the naturals.

`PullProofs` proves, for every value of the constants that satisfies
`PullAssumption` - any set of jobs, either host, any policy, any number of acts
and faults - `Typing` (`PullTypeOK`), `GatesHold` (`GatedWorkIsApproved`),
`VerdictsFit` (`VerdictFitsCommit`) and `LabelsAreRead` (`LabelHasItsReader`).
`GatesHold` and `VerdictsFit` speak of commits, which jobs make from what they
remember, so `IInv` says what a job may remember (`JobOK`): only labels that were
given at some time, whichever way it read them; a checkout once it has begun, and
past the implementer one that has the flag or edits left in it (which is what
makes a green verdict fit). That memory stays true while other jobs and the author
go on because commits are added and given statuses but never rewritten (`Grown`,
`Waiting`), and labels once given stay in `given`. `Commits` is the two properties
as an invariant of each commit. `GatesHold` says of the implementer's gate that no
commit has the flag, and of the planner's that no commit is a job's or has a
manifest, before the step was labelled: with the implementer's gate alone the
planner's manifest is on the branch by then, and so may be a job's stamp.

`LabelHasItsReader` is inductive on `IInv`: a job that was about to read is taken
away only by reading or by a fault (`Persisting`, `ReadersRead`), a human's act on
a branch that ends in a human's commit starts one (`Beginner`), and a job's push
makes the branch end in a job's commit (`PushingOver`). A job that pushes and
overlaps can therefore not leave a human's commit last with its label unread.

`WatchProofs` proves, for every value of the constants that satisfies
`WatchAssumption`, `Typing` (`TypeOK`), `Once` (`AutofixOnce`) and `Forward`
(`ForwardAsRead`). `AutofixOnce` is not inductive: two tasks that follow one
release would each ask. `OneWatch` is what the key in `dedupeMonitors` gives, and
`WatchOK` that a watch follows a release nobody was told of, and asks only about
one that was reverted. `Forward` rests on what a run of re-pointing remembers
between its read of a child and its patch (`RepointOK`): the pin it read may
follow to the variation it read.

`AgentProofs` proves, for every value of the constants that satisfies
`LdAssumption` and `AgentAssumption` - any flags, environments, metrics, budgets
and scenarios, any moves of others - every safety property of `AgentRun`: `Bounded` (`TypeOK`), `Factual` (`TagsAreFacts`),
`ServedOnce` (`NothingTwice`), `Verifiable` (`HandoffHolds`), `Darkness`
(`RidesDark`), `Inertness` (`WiringIsInert`), `HumanWord` (`HumanWordKept`).
`TagsAreFacts` is about the last of the requests a call makes, so the invariant
says which request each step of a call awaits (`Protocol`), what it was called
with (`ArgsOK`), what an answer proves of the project - a conflict proves that the
flag exists as much as a success does - (`AnswerOK`), and how far what the call
has read is still so (`SeenOK`), which is all that `RidesDark` and `WiringIsInert`
can speak of. `HandoffHolds` is an invariant because variations are added and
never removed.

`BridgeProofs` proves, for every value of the constants that satisfies
`BridgeAssumption` - any library of tools, variations, environments, history of
the repository, number of runs, failures, deaths and edits - `Typing`
(`BridgeTypeOK`), `Convergence` (`UpgradeConverges`), `HonestStamp`
(`NoSilentDrift`) and `OperatorsWord` (`OperatorsWordKept`). All four are about the
end of a sequence of calls, so the invariant says what each stage has behind it:
`Base` holds whatever fails (what a stage has still to do; versions the library
has reached; an operator's word is on what exists only), and `Earned` is what a run
has earned by not failing: `Progress`, stage by stage, what is there, seen and up
to date, by a run that is clean or in a project nobody disturbed; `Anew`, that a
run which found nothing made everything of its own version, which is why it may
stamp a new graph at once; `WordOK`, that what a clean run is about to write over
is no operator's. Both are functions of a project and a run, because a call has
three outcomes and each is an instance of the same formula (`CallsInv`): answered,
failed, and done with its answer lost. `NoSilentDrift` survives an upgrade that
dies half-way since a run's version is at least the stamp's: if the stamp is the
repository's version, whatever the run writes is there already.

TLC evaluates all these assumptions in the runs.

The theorems of `BeaconProofs` cover the policy, the methods and the taxonomy of
refusals too: `Plan`s are typed by method, and a patch that throws puts its flag
in the slot whatever the status.

Not in the prover's reach and left to TLC: liveness under fairness and
`ENABLED` (`EventuallyReleased`, `WalkEnds`, `ChildrenFollow`, `NodeEnds`,
`Heals`), and induction over data. No module
uses a `RECURSIVE` operator. No safety or action property of a passing run is left
unproved; `WiringIsNoOp`, whose run refutes it, is false.

## 6. What the code does not do

Where a comment, a log message or a document of the repository says more than
the code does. Two of these are runs (`PROJECT.json`, `findings`, quotes both
sides):

- `find_ledger_race`: the ledger reads the release history, then the active
  releases; a revert in between is undone.
- `find_wiring`: "a no-op for users" is decided from the heaviest arm of a ramping
  parent; the child is turned on for the users of its light arm.

The others have a configuration beside the modules; each gives the counterexample
with `tlc -workers 2 -config <cfg> <module>`:

| cfg, module | says | does |
|---|---|---|
| `MCFindSecondService`, `MCBeacon` | `docs/loop-seam.md:315`: the exposure of two services "is that first moment only" | whether a sha was handled is asked of one service's window (`server.ts:264`): a second service, notified later, re-releases what was reverted |
| `MCFindWithdrawn`, `MCBeacon` | `pending.ts:10`: "a later deploy ... gives the unfinished work another look" | a rollback clears a pending manifest as withdrawn (`server.ts:937`); deploying forward again does not find it |
| `MCFindFailedRecord`, `MCBeacon` | `server.ts:1084`: "nothing was recorded for this sha, so a re-POST (or the next deploy) re-diffs the same range" | memory already has the sha (`state.ts:131`); the next deploy diffs from it |
| `MCFindFailedRun`, `MCWalk` | `docs/loopback-handoff.md:516`: "nothing routes and the walk stalls" | it emits no tags, and an edge that asks for none takes it on (`graphWalker.ts:1566`) |
| `MCFindUnwatched`, `MCWatch` | `repoint.ts:8`: children are re-pointed after a release completes | a release started before the previous one's watch has settled is dropped by `dedupeMonitors` (`monitor.ts:72`) and completes unwatched |
| `MCFindGate`, `MCPull` | `action.ts:759`: "Gates were active and all cleared" | a walk that ends without reaching its gate replaces an earlier `action_required` by `success`, though nobody approved |
| `MCFindLabel`, `MCPull` | `README.md:335`: "Adding the label re-runs the chain past that gate" (so too the comment at `auto-factory.yml:14`) | at an ordinary pause the branch ends in the planner's manifest commit, which says `[skip ci]` (`sandboxTools.ts:1439`), and on such a head GitHub suppresses `pull_request` runs, as the comment at `sandboxTools.ts:697` says: the label starts nothing until the author pushes |
| `MCFindCost`, `MCBridge` | `upgrade.ts:12`, `204`: "every content PATCH is followed by a no-op `modelConfigKey` re-PATCH" | the patches of `provision` that attach judges and tools (`provision.ts:246`, `266`) have none |
| `MCFindDetached`, `MCBridge` | `upgrade.ts:181`: the "committed NAME list is canonical" | a tool whose own sync failed is left out of the list, and the patch detaches it |
| `MCFindResumes`, `MCBridge` | `init.ts:459`: "re-run init (it resumes)" | rules are written only for a config the same run created; a config found half-made never gets them |

The passing runs leave out exactly the circumstance each of these needs, by a
fault that is not admitted, an excuse a property names, or a graph without the
edge.

What the models made visible besides, and no document contradicts:

- *watch*: a listing that lags past the last attempt makes the previous, completed
  release pass for the one just started (`monitor.ts:107`). Two re-pointings may
  race and the staler write last (`repoint.ts:145`). A release reverted before
  its watch attached is not taken to Sentry.
- *agents*: a flag found by 409 keeps the `flag_variation` of an earlier call
  (`sandboxTools.ts:999`), which is why `HandoffHolds` needs the verifier. A create
  whose retry answers 409 leaves the variation untagged. A commit whose push fails
  is "no changes to commit" the next time (`sandboxTools.ts:1677`), and the verifier
  greps the working tree (`handoffVerifier.ts:157`). A manifest that does not parse
  is rebuilt without the human's answer (`sandboxTools.ts:1233`). A suite that
  passed before the last edit still tags its success.
- *pull request*: overlapping jobs may both find no comment (`comment.ts:64`); a
  slow older job may post `action_required` after a newer one's success; a push
  refused leaves the verdict on a commit the host does not have, and the job
  exits 0; edits left uncommitted are reported green (`loose` in the model).
- *bridge*: the stamp is written though a variation's sync failed
  (`upgrade.ts:224`; reported, but silent to the next drift check); a new graph is
  stamped over configs of an older version; the re-patch of the model restores the
  one that was read, over one chosen since (`upgrade.ts:206`); judges that exist
  are never updated; an emptied list of tools is not synced.

## 7. What is not modelled

- Metrics, stages, randomization units and the prerequisite pin of a release: payload
  of the patch.
- HTTP authentication, the 400 answers, the health endpoint, all logging.
- Waiting times: backoffs, poll intervals and timeouts are nondeterministic.
- Of Beacon, in one place the runs do not reach: a re-POST of the prior sha is inside
  the window and not a repeat, so a manifest deleted since is new again. The
  histories with late notifications are part of `contract` only. A process death
  between the record of the sha and the fold loses the manifests discovered in
  between unless a redelivery comes before the next deploy (`server.ts:279`): the
  code promises nothing else. A manifest that did not parse when it was
  discovered and is fixed later is not discovered again (`discovery.ts:19`).
- Of the walk: intake (`startAt`, `stopAfter`), which only starts a walk
  elsewhere; dry runs, which write neither file; prompts, the execution envelope,
  the loop trigger and all telemetry; the advisory lists `loopBudgetSpent` and
  `loopEdgeShadowed`; the union of `metric_keys`; graph-level metrics.
- Of the verdict: the legacy spellings of tags.
- Of the agents: path guards and the validation of a manifest's fields, which
  refuse before anything is written; the global toggles that remove the writer;
  the texts a tool returns; the hosted runner's own tools; the Vega path, one
  request to a remote agent. The required routing tags of a node are one
  (`routing`).
- Of the pull request: what comments and summaries say, more than a hundred
  comments or labels, the intake marker. A change has one flag, and `wired` is its code. The
  manifests that the planner and the steward write in one walk are one commit. A
  `git commit` that fails by itself, and a past run started again from the host's
  pages, are left out.
- Of the bridge: the `init` and `doctor` wizards, `sync` and `seed` (files in,
  files out), dry runs, two runs at once, several configs (they are treated alike and
  one after another).
- The editor extension. Its state is a timer and a flag: a commit made while a
  chain runs is not looked at again (`autoTrigger.ts:53-112`), the flag is reset
  only after the last notice is dismissed (`extension.ts:205-216`), and one of
  the two ways to start a chain does not ask it before its first await
  (`extension.ts:87-90`). A model of it would restate these lines.
- The notifier and the Railway front end (one call, no retry), preclassification,
  the context graph, Sentry reads and observability (read-only enrichment of a
  prompt: every failure means less context), installers, scripts and data.
