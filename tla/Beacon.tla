------------------------------- MODULE Beacon -------------------------------
(***************************************************************************)
(* Phase 2 ("Beacon"): deploy notifications are turned into flag releases. *)
(*                                                                         *)
(* A notification (service, sha) is one HTTP request.  Its handler         *)
(*   reads the deploy window -> diffs the manifest directory -> records    *)
(*   the sha -> re-reads the manifests the ledger still holds -> takes     *)
(*   them all, highest target first, through scope, guard and trigger ->   *)
(*   folds every outcome back into the ledger.                             *)
(* Node runs one handler at a time between two awaits, so one action here  *)
(* is the code from one await to the next; other requests, LaunchDarkly,   *)
(* the deploys and the people who use them act in between.                 *)
(***************************************************************************)
EXTENDS ReleaseLineage, FiniteSets, Sequences

CONSTANTS
  Service,        \* registered services, all deployed from one repository
  SideOf,         \* [Service -> {"frontend", "backend"}]
  Private,        \* services whose status endpoint Beacon cannot reach
  TipOf,          \* [Flag -> Version]: highest vN the flag has a variation for
  Policy,         \* [Flag -> PolicyKind]: the release policy LaunchDarkly holds for it
  MaxSha,         \* length of the commit history
  History,        \* the commit histories explored: [Sha -> [Manifest -> File]]
  Handler,        \* requests that may be in flight at once
  PromptListing,  \* BOOLEAN: the releases listing settles between notifications
  QuietGuardrail, \* BOOLEAN: no release is reverted or stopped during a notification
  Fault,          \* the kinds of misfortune this instance may meet
  MaxFaults,      \* bound on how many of them one behaviour meets
  MaxReleases,    \* bound on the automated releases of one flag
  NoFlag,
  NoManifest

Sha == 1 .. MaxSha

FaultKind == {"github",    \* a GitHub read fails
              "status",    \* a counterpart's status endpoint does not answer
              "ldread",    \* a LaunchDarkly read fails
              "policy",    \* the read of a release policy fails, retries included
              "lost",      \* a patch throws: declined, or not known to have been applied
              "refuse",    \* LaunchDarkly answers a patch 400 or 422
              "disk",      \* a state file cannot be written
              "crash",     \* the process dies and restarts
              "late",      \* a notification of an older sha is (re)delivered
              "explicit",  \* a notification names its own previousSha
              "rollback",  \* an older sha is deployed again
              "revert",    \* a guardrail reverts a release
              "stop",      \* a human stops a release's monitoring
              "human"}     \* a human serves a variation by hand

ASSUME BeaconAssumption ==
  /\ Service # {}
  /\ MaxSha \in Nat \ {0} /\ MaxFaults \in Nat /\ MaxReleases \in Nat
  /\ SideOf \in [Service -> {"frontend", "backend"}]
  /\ Private \subseteq Service
  /\ TipOf \in [Flag -> Version] /\ Policy \in [Flag -> PolicyKind]
  /\ History \subseteq [Sha -> [Manifest -> File]]
  /\ PromptListing \in BOOLEAN /\ QuietGuardrail \in BOOLEAN
  /\ Fault \subseteq FaultKind
  /\ NoFlag \notin Flag
  /\ NoManifest \notin Manifest
  /\ {Absent, Malformed, Keyless} \intersect ReleaseFile = {}

VARIABLES
  content,        \* the repository: what each manifest reads at each commit
  deployed,       \* [Service -> Sha or NoSha]: what each service runs
  served,         \* LaunchDarkly: the variation a flag's fallthrough serves
  rel,            \* LaunchDarkly: a flag's automated releases, oldest first
  store,          \* deploy windows in memory, and on disk
  storeFile,
  ledger,         \* pending manifests in memory, with the flag last named, and on disk
  ledgerFile,
  pc,             \* per request: where its handler is
  job,            \* the notification and what was read of the window for it
  todo,           \* candidates still to be evaluated
  fresh,          \* the discovered ones among the candidates
  cur,            \* the manifest being evaluated
  plan,           \* the move its trigger decided on
  slot,           \* flags whose action slot this notification has used
  result,         \* outcomes so far
  faults,         \* misfortunes so far
  reached,        \* history variable: highest variation a flag ever got a write for
  handled         \* history variable: the deployed sha a service's notification was answered for

repo    == <<content, deployed>>
ld      == <<served, rel, reached>>
memory  == <<store, ledger>>
disk    == <<storeFile, ledgerFile>>
request == <<pc, job, todo, fresh, cur, plan, slot, result>>
vars    == <<repo, ld, memory, disk, request, faults, handled>>

(***************************************************************************)
(* Types and initial state.                                                *)
(***************************************************************************)
Status  == {"running", "completed", "reverted", "monitoring_stopped"}
Release == [target : Version, from : Version, status : Status, seen : BOOLEAN, by : Manifest]
Window  == [last : 0 .. MaxSha, prior : 0 .. MaxSha]
Job     == [svc : Service, sha : Sha, prev : 0 .. MaxSha, repeat : BOOLEAN]
Plan    == [target : Version, from : Version, method : Method]
Ledger  == [Service -> [Manifest -> Flag \union {NoFlag}]]

PC == {"idle", "discover", "pick", "history", "scope", "guard", "repeat", "read", "patch", "failed"}

Free(n) == pc[n] \in {"idle", "failed"}

EmptyLedger == [s \in Service |-> [m \in Manifest |-> NoFlag]]
NoJob       == [svc |-> CHOOSE s \in Service : TRUE, sha |-> 1, prev |-> NoSha, repeat |-> FALSE]
NoPlan      == [target |-> Control, from |-> Control, method |-> "staged"]
NoResult    == [m \in Manifest |-> "none"]

Init ==
  /\ content \in History
  /\ deployed = [s \in Service |-> NoSha]
  /\ served = [f \in Flag |-> Control]
  /\ rel = [f \in Flag |-> << >>]
  /\ reached = [f \in Flag |-> Control]
  /\ store = [s \in Service |-> EmptyWindow] /\ storeFile = store
  /\ ledger = EmptyLedger /\ ledgerFile = ledger
  /\ pc = [n \in Handler |-> "idle"]
  /\ job = [n \in Handler |-> NoJob]
  /\ todo = [n \in Handler |-> {}]
  /\ fresh = [n \in Handler |-> {}]
  /\ cur = [n \in Handler |-> NoManifest]
  /\ plan = [n \in Handler |-> NoPlan]
  /\ slot = [n \in Handler |-> {}]
  /\ result = [n \in Handler |-> NoResult]
  /\ faults = 0
  /\ handled = [s \in Service |-> NoSha]

Spend(kind) == kind \in Fault /\ faults < MaxFaults /\ faults' = faults + 1

(***************************************************************************)
(* What a request reads.                                                   *)
(***************************************************************************)
FileAt(sha, m) == IF sha = NoSha THEN Absent ELSE content[sha][m]

Here(n) == FileAt(job[n].sha, cur[n])      \* the manifest under evaluation

\* A manifest is new when its file is at the sha and not at the previous one.
Discovered(sha, prev) ==
  {m \in Manifest : IsManifest(FileAt(sha, m)) /\ FileAt(prev, m) = Absent}

\* findActiveRelease: the releases listing, without the finished ones.
ActiveListed(f) == \E i \in 1 .. Len(rel[f]) : rel[f][i].seen /\ ~Terminal(rel[f][i].status)

\* findLatestRelease and terminalHistoryRefusal: the newest listed release
\* was ended by a guardrail or by a human.
LatestRefuses(f) ==
  \E i \in 1 .. Len(rel[f]) :
     /\ rel[f][i].seen /\ RefusesRelease(rel[f][i].status)
     /\ \A j \in (i + 1) .. Len(rel[f]) : ~rel[f][j].seen

\* decideScope, for the side that was deployed.
ScopeDecision(scope, side) ==
  IF scope = "fullstack" THEN "check_fullstack" ELSE IF scope = side THEN "trigger" ELSE "skip"

Counterparts(s) == {t \in Service : SideOf[t] # SideOf[s]}

\* otherSideHasFile, when the status endpoints in `down` do not answer.  An
\* endpoint of a service that was never deployed has no sha to report.
Readiness(s, m, down) ==
  LET witnesses == Counterparts(s) \ Private
      unread    == {t \in witnesses : t \in down \/ deployed[t] = NoSha}
  IN  IF \E t \in witnesses \ unread : FileAt(deployed[t], m) # Absent THEN "present"
      ELSE IF unread # {} \/ (Counterparts(s) # {} /\ witnesses = {}) THEN "unknown"
      ELSE "absent"

\* Highest target first; between equals, discovery before the ledger.
Precedes(n, m, o) ==
  LET rank(x) == TargetRank(FileAt(job[n].sha, x).target) IN
  \/ rank(m) > rank(o)
  \/ rank(m) = rank(o) /\ (m \in fresh[n] \/ o \notin fresh[n])

(***************************************************************************)
(* One request, from await to await.                                       *)
(***************************************************************************)
Goto(n, label) == pc' = [pc EXCEPT ![n] = label]

\* The manifest under evaluation has its outcome; on to the next one.
Finish(n, outcome) ==
  /\ result' = [result EXCEPT ![n][cur[n]] = outcome]
  /\ cur' = [cur EXCEPT ![n] = NoManifest]
  /\ plan' = [plan EXCEPT ![n] = NoPlan]
  /\ Goto(n, "pick")

\* ... or not yet: its evaluation goes on at `label`.
Continue(n, label) == Goto(n, label) /\ UNCHANGED <<result, cur, plan>>

\* The request is answered and what it held is gone.
Close(n, label) ==
  /\ Goto(n, label)
  /\ job' = [job EXCEPT ![n] = NoJob]
  /\ todo' = [todo EXCEPT ![n] = {}]
  /\ fresh' = [fresh EXCEPT ![n] = {}]
  /\ cur' = [cur EXCEPT ![n] = NoManifest]
  /\ plan' = [plan EXCEPT ![n] = NoPlan]
  /\ slot' = [slot EXCEPT ![n] = {}]
  /\ result' = [result EXCEPT ![n] = NoResult]

\* (Mutant: the slot is kept per manifest instead of per flag.)
ClaimManifestSlot(n) == slot' = [slot EXCEPT ![n] = @ \union {cur[n]}]

ClaimSlot(n) == slot' = [slot EXCEPT ![n] = @ \union {Here(n).flag}]

\* The window is read when the request arrives and written only after the diff.
Receive(n, s, sha, explicit) ==
  /\ Free(n)
  /\ deployed[s] # NoSha
  /\ \A f \in Flag : Len(rel[f]) < MaxReleases
  /\ PromptListing => \A f \in Flag : \A i \in 1 .. Len(rel[f]) : rel[f][i].seen
  /\ \/ sha = deployed[s] /\ explicit = NoSha /\ UNCHANGED faults
     \/ sha < deployed[s] /\ explicit = NoSha /\ Spend("late")
     \/ sha = deployed[s] /\ explicit # NoSha /\ Spend("explicit")
  /\ job' = [job EXCEPT ![n] = [svc |-> s, sha |-> sha,
                                prev |-> PreviousSha(store[s], sha, explicit),
                                repeat |-> AlreadyProcessed(store[s], sha)]]
  /\ Goto(n, "discover")
  /\ UNCHANGED <<repo, ld, memory, disk, todo, fresh, cur, plan, slot, result, handled>>

\* 502: nothing is recorded, the next notification diffs the same range.
DiscoveryFails(n) ==
  /\ pc[n] = "discover" /\ Spend("github") /\ Close(n, "idle")
  /\ UNCHANGED <<repo, ld, memory, disk, handled>>

RecordSha(n) ==
  store' = [store EXCEPT ![job[n].svc] = Recorded(@, job[n].sha)]

\* `unread` are the pending manifests whose re-read fails.
Discover(n, unread) ==
  LET sha     == job[n].sha
      found   == Discovered(sha, job[n].prev)
      pending == {m \in Manifest : ledger[job[n].svc][m] # NoFlag} \ found
      broken  == unread \union {m \in pending : FileAt(sha, m) = Malformed}
  IN
  /\ pc[n] = "discover"
  /\ unread \subseteq pending
  /\ IF unread = {} THEN UNCHANGED faults ELSE Spend("github")
  /\ RecordSha(n) /\ storeFile' = store'
  /\ fresh' = [fresh EXCEPT ![n] = found]
  /\ todo' = [todo EXCEPT ![n] =
                found \union {m \in pending \ broken : IsManifest(FileAt(sha, m))}]
  /\ result' = [result EXCEPT ![n] =
                [m \in Manifest |-> IF m \in broken THEN "unread"
                                    ELSE IF m \in pending /\ ~IsManifest(FileAt(sha, m)) THEN "skipped"
                                    ELSE "none"]]
  /\ Goto(n, "pick")
  /\ UNCHANGED <<repo, ld, ledger, ledgerFile, job, cur, plan, slot, handled>>

\* 500: the map was updated before the file write threw.
RecordFails(n) ==
  /\ pc[n] = "discover" /\ Spend("disk")
  /\ RecordSha(n)
  /\ Close(n, "failed")
  /\ UNCHANGED <<repo, ld, ledger, disk, handled>>

Pick(n, m) ==
  /\ pc[n] = "pick" /\ m \in todo[n]
  /\ \A o \in todo[n] : Precedes(n, m, o)
  /\ cur' = [cur EXCEPT ![n] = m]
  /\ todo' = [todo EXCEPT ![n] = @ \ {m}]
  /\ Goto(n, IF m \in fresh[n] THEN "scope" ELSE "history")
  /\ UNCHANGED <<repo, ld, memory, disk, job, fresh, plan, slot, result, faults, handled>>

\* A ledger entry first asks how the last release of the flag it names NOW ended.
LedgerHistory(n) ==
  LET f == Here(n).flag IN
  /\ pc[n] = "history"
  /\ \/ Spend("ldread") /\ Finish(n, "error")
     \/ LatestRefuses(f) /\ Finish(n, "error") /\ UNCHANGED faults
     \/ ~LatestRefuses(f) /\ Continue(n, "scope") /\ UNCHANGED faults
  /\ UNCHANGED <<repo, ld, memory, disk, job, todo, fresh, slot, handled>>

Scope(n, down) ==
  LET s        == job[n].svc
      decision == ScopeDecision(Here(n).scope, SideOf[s])
      verdict  == IF decision = "check_fullstack" THEN Readiness(s, cur[n], down) ELSE "unasked"
  IN
  /\ pc[n] = "scope"
  /\ down \subseteq Counterparts(s) \ Private
  /\ IF down = {} THEN UNCHANGED faults ELSE verdict # "unasked" /\ Spend("status")
  /\ \/ decision = "skip" /\ Finish(n, "skipped")
     \/ verdict = "unknown" /\ Finish(n, "error")
     \/ verdict = "absent" /\ Finish(n, "waiting")
     \/ (decision = "trigger" \/ verdict = "present") /\ Continue(n, "guard")
  /\ UNCHANGED <<repo, ld, memory, disk, job, todo, fresh, slot, handled>>

\* (Mutant: the listing alone decides whether the flag is being acted on.)
GuardByListing(n) ==
  /\ pc[n] = "guard"
  /\ \/ Spend("ldread") /\ Finish(n, "error")
     \/ ActiveListed(Here(n).flag) /\ Finish(n, "already_running") /\ UNCHANGED faults
     \/ /\ ~ActiveListed(Here(n).flag) /\ UNCHANGED faults
        /\ Continue(n, IF job[n].repeat THEN "repeat" ELSE "read")
  /\ UNCHANGED <<repo, ld, memory, disk, job, todo, fresh, slot, handled>>

\* One action per flag and notification, and none while a release is active.
Guard(n) ==
  LET f == Here(n).flag IN
  /\ pc[n] = "guard"
  /\ \/ f \in slot[n] /\ Finish(n, "held") /\ UNCHANGED faults
     \/ f \notin slot[n] /\ Spend("ldread") /\ Finish(n, "error")
     \/ f \notin slot[n] /\ ActiveListed(f) /\ Finish(n, "already_running") /\ UNCHANGED faults
     \/ /\ f \notin slot[n] /\ ~ActiveListed(f) /\ UNCHANGED faults
        /\ Continue(n, IF job[n].repeat THEN "repeat" ELSE "read")
  /\ UNCHANGED <<repo, ld, memory, disk, job, todo, fresh, slot, handled>>

\* (Mutant: a redelivery is as good as a deploy.)
RepeatUnasked(n) ==
  /\ pc[n] = "repeat" /\ Continue(n, "read")
  /\ UNCHANGED <<repo, ld, memory, disk, job, todo, fresh, slot, faults, handled>>

\* A repeat of a handled sha must not undo a guardrail's rollback.
RepeatHistory(n) ==
  LET f == Here(n).flag IN
  /\ pc[n] = "repeat"
  /\ \/ Spend("ldread") /\ Finish(n, "error")
     \/ LatestRefuses(f) /\ Finish(n, "error") /\ UNCHANGED faults
     \/ ~LatestRefuses(f) /\ Continue(n, "read") /\ UNCHANGED faults
  /\ UNCHANGED <<repo, ld, memory, disk, job, todo, fresh, slot, handled>>

\* The move that is decided on.  `answered`: the policy could be read.
PlanRelease(n, answered) ==
  LET file == Here(n) IN
  /\ plan' = [plan EXCEPT ![n] = [target |-> ResolvedTarget(file, TipOf[file.flag]),
                                 from   |-> served[file.flag],
                                 method |-> ReleaseMethod(file, ReadPolicy(Policy[file.flag], answered))]]
  /\ Goto(n, "patch")

\* (Mutant: the slot is claimed before the trigger knows whether it will write.)
ReadClaims(n) ==
  LET file     == Here(n)
      decision == TriggerDecision(file, TipOf[file.flag], served[file.flag])
  IN
  /\ pc[n] = "read" /\ ClaimSlot(n)
  /\ \/ file.intent # "hold" /\ Spend("ldread") /\ Finish(n, "unknown")
     \/ decision \in {"held", "noop"} /\ Finish(n, decision) /\ UNCHANGED faults
     \/ decision = "release" /\ PlanRelease(n, TRUE) /\ UNCHANGED <<cur, result, faults>>
     \/ decision = "release" /\ Spend("policy") /\ PlanRelease(n, FALSE) /\ UNCHANGED <<cur, result>>
  /\ UNCHANGED <<repo, ld, memory, disk, job, todo, fresh, handled>>

\* triggerRelease up to its patch: the intent, then the flag, then its policy.
Read(n) ==
  LET file     == Here(n)
      decision == TriggerDecision(file, TipOf[file.flag], served[file.flag])
  IN
  /\ pc[n] = "read"
  /\ \/ file.intent # "hold" /\ Spend("ldread") /\ Finish(n, "unknown") /\ ClaimSlot(n)
     \/ decision \in {"held", "noop"} /\ Finish(n, decision) /\ UNCHANGED <<slot, faults>>
     \/ decision = "release" /\ PlanRelease(n, TRUE) /\ UNCHANGED <<cur, result, slot, faults>>
     \/ /\ decision = "release" /\ file.method # "prerequisites" /\ Spend("policy")
        /\ PlanRelease(n, FALSE) /\ UNCHANGED <<cur, result, slot>>
  /\ UNCHANGED <<repo, ld, memory, disk, job, todo, fresh, handled>>

\* A staged release starts, serving mostly the original ...
StartRelease(n) ==
  LET f == Here(n).flag IN
  /\ rel' = [rel EXCEPT ![f] = Append(@, [target |-> plan[n].target, from |-> plan[n].from,
                                          status |-> "running", seen |-> FALSE, by |-> cur[n]])]
  /\ UNCHANGED served

\* ... or the fallthrough moves at once, behind prerequisites or not.
MoveFallthrough(n) ==
  served' = [served EXCEPT ![Here(n).flag] = plan[n].target] /\ UNCHANGED rel

\* What the patch does once LaunchDarkly has it.
Applied(n) ==
  /\ IF plan[n].method = "staged" THEN StartRelease(n) ELSE MoveFallthrough(n)
  /\ reached' = [reached EXCEPT ![Here(n).flag] = IF plan[n].target > @ THEN plan[n].target ELSE @]

PatchAccepted(n) ==
  /\ pc[n] = "patch"
  /\ Applied(n) /\ ClaimSlot(n) /\ Finish(n, "released")
  /\ UNCHANGED <<repo, memory, disk, job, todo, fresh, faults, handled>>

\* (Mutant: a write that may have landed leaves the slot free.)
ThrowFreesSlot(n) ==
  /\ pc[n] = "patch" /\ Spend("lost")
  /\ Applied(n) \/ UNCHANGED ld
  /\ Finish(n, "unknown")
  /\ UNCHANGED <<repo, memory, disk, job, todo, fresh, slot, handled>>

\* Any throw but a refusal of the content: the slot is used, whatever is known of the write.
PatchThrows(n) ==
  /\ pc[n] = "patch" /\ Spend("lost")
  /\ \E status \in Declined \union Unanswered : (status \in Unanswered /\ Applied(n)) \/ UNCHANGED ld
  /\ ClaimSlot(n) /\ Finish(n, "unknown")
  /\ UNCHANGED <<repo, memory, disk, job, todo, fresh, handled>>

\* heldOnContentRefusal: nothing was written, and the slot is used only when
\* no sibling can be told apart from this manifest.
HeldOnContentRefusal(n) ==
  /\ IF CarriesManifestContent(plan[n].method) THEN UNCHANGED slot ELSE ClaimSlot(n)
  /\ Finish(n, "held")

\* An unreadable prerequisite parent is held too.
PatchRefused(n) ==
  /\ pc[n] = "patch"
  /\ \/ \E status \in ContentRejection : Spend("refuse")
     \/ plan[n].method = "prerequisites" /\ Spend("ldread")
  /\ HeldOnContentRefusal(n)
  /\ UNCHANGED <<repo, ld, memory, disk, job, todo, fresh, handled>>

\* recordOutcome, for the manifests in `done`.
Folded(n, done) ==
  [ledger EXCEPT ![job[n].svc] =
     [m \in Manifest |->
        IF m \notin done \/ result[n][m] = "none" \/ result[n][m] = "unread" THEN @[m]
        ELSE IF result[n][m] \in PendingOutcomes THEN FileAt(job[n].sha, m).flag
        ELSE NoFlag]]

Fold(n) ==
  /\ pc[n] = "pick" /\ todo[n] = {}
  /\ ledger' = Folded(n, Manifest) /\ ledgerFile' = ledger'
  /\ handled' = [handled EXCEPT ![job[n].svc] = job[n].sha]
  /\ Close(n, "idle")
  /\ UNCHANGED <<repo, ld, store, storeFile, faults>>

\* 500 in the middle of the fold, at the first write it needs that fails: `m` is
\* in memory only, what follows it in neither.
FoldFails(n, done, m) ==
  /\ pc[n] = "pick" /\ todo[n] = {} /\ Spend("disk")
  /\ m \notin done /\ \A o \in done \union {m} : result[n][o] # "none"
  /\ result[n][m] \in PendingOutcomes \/ ledger[job[n].svc][m] # NoFlag
  /\ ledger' = Folded(n, done \union {m})
  /\ ledgerFile' = IF done = {} THEN ledgerFile ELSE Folded(n, done)
  /\ Close(n, "failed")
  /\ UNCHANGED <<repo, ld, store, storeFile, handled>>

\* (Mutant: deploy state that cannot be read is taken for a first run.)
StartEmpty == store' = [s \in Service |-> EmptyWindow] /\ ledger' = ledgerFile

\* Both stores load their file once, at construction.
Load == store' = storeFile /\ ledger' = ledgerFile

\* The process dies: requests in flight are gone, the files are what is left.
Crash ==
  /\ Spend("crash") /\ Load
  /\ pc' = [n \in Handler |-> "idle"]
  /\ job' = [n \in Handler |-> NoJob]
  /\ todo' = [n \in Handler |-> {}] /\ fresh' = [n \in Handler |-> {}]
  /\ cur' = [n \in Handler |-> NoManifest] /\ plan' = [n \in Handler |-> NoPlan]
  /\ slot' = [n \in Handler |-> {}] /\ result' = [n \in Handler |-> NoResult]
  /\ UNCHANGED <<repo, ld, disk, handled>>

(***************************************************************************)
(* The world around it: deploys, LaunchDarkly, people.                     *)
(***************************************************************************)
Deploy(s, sha) ==
  /\ \/ sha > deployed[s] /\ UNCHANGED faults
     \/ sha < deployed[s] /\ Spend("rollback")
  /\ deployed' = [deployed EXCEPT ![s] = sha]
  /\ handled' = [handled EXCEPT ![s] = NoSha]
  /\ UNCHANGED <<content, ld, memory, disk, request>>

SetStatus(f, i, status) == rel' = [rel EXCEPT ![f][i].status = status]

Serve(f, v) ==
  /\ served' = [served EXCEPT ![f] = v]
  /\ reached' = [reached EXCEPT ![f] = IF v > @ THEN v ELSE @]

Running(f, i) == rel[f][i].status = "running"

\* The listing is eventually consistent right after a start.
Settle(f, i) ==
  /\ ~rel[f][i].seen
  /\ rel' = [rel EXCEPT ![f][i].seen = TRUE]
  /\ UNCHANGED <<repo, served, reached, memory, disk, request, faults, handled>>

\* The target becomes the heaviest arm.
Ramp(f, i) ==
  /\ Running(f, i) /\ served[f] # rel[f][i].target
  /\ Serve(f, rel[f][i].target)
  /\ UNCHANGED <<repo, rel, memory, disk, request, faults, handled>>

Complete(f, i) ==
  /\ Running(f, i)
  /\ SetStatus(f, i, "completed") /\ Serve(f, rel[f][i].target)
  /\ UNCHANGED <<repo, memory, disk, request, faults, handled>>

Quiet == QuietGuardrail => \A n \in Handler : Free(n)

Revert(f, i) ==
  /\ Running(f, i) /\ Quiet /\ Spend("revert")
  /\ SetStatus(f, i, "reverted") /\ Serve(f, rel[f][i].from)
  /\ UNCHANGED <<repo, memory, disk, request, handled>>

StopMonitoring(f, i) ==
  /\ Running(f, i) /\ Quiet /\ Spend("stop")
  /\ SetStatus(f, i, "monitoring_stopped")
  /\ UNCHANGED <<repo, served, reached, memory, disk, request, handled>>

HumanServes(f, v) ==
  /\ \A i \in 1 .. Len(rel[f]) : ~Running(f, i)
  /\ v # served[f] /\ v <= TipOf[f] /\ Spend("human")
  /\ Serve(f, v)
  /\ UNCHANGED <<repo, rel, memory, disk, request, handled>>

(***************************************************************************)
(* The specification.                                                      *)
(***************************************************************************)
Step(n) ==
  \/ \E unread \in SUBSET Manifest : Discover(n, unread)
  \/ DiscoveryFails(n)
  \/ RecordFails(n)
  \/ \E m \in Manifest : Pick(n, m)
  \/ LedgerHistory(n)
  \/ \E down \in SUBSET Service : Scope(n, down)
  \/ Guard(n)
  \/ RepeatHistory(n)
  \/ Read(n)
  \/ PatchAccepted(n)
  \/ PatchThrows(n)
  \/ PatchRefused(n)
  \/ Fold(n)
  \/ \E done \in SUBSET Manifest, m \in Manifest : FoldFails(n, done, m)

LaunchDarkly(f, i) ==
  \/ Settle(f, i)
  \/ Ramp(f, i)
  \/ Complete(f, i)
  \/ Revert(f, i)
  \/ StopMonitoring(f, i)

Next ==
  \/ \E n \in Handler, s \in Service, sha \in Sha, explicit \in 0 .. MaxSha : Receive(n, s, sha, explicit)
  \/ \E n \in Handler : Step(n)
  \/ Crash
  \/ \E s \in Service, sha \in Sha : Deploy(s, sha)
  \/ \E f \in Flag : \E i \in 1 .. Len(rel[f]) : LaunchDarkly(f, i)
  \/ \E f \in Flag, v \in Version : HumanServes(f, v)

Spec == Init /\ [][Next]_vars

(***************************************************************************)
(* Properties.                                                             *)
(***************************************************************************)

WorldTypes ==
  /\ content \in [Sha -> [Manifest -> File]]
  /\ deployed \in [Service -> 0 .. MaxSha]
  /\ served \in [Flag -> Version] /\ reached \in [Flag -> Version]
  /\ rel \in [Flag -> Seq(Release)]
  /\ faults \in 0 .. MaxFaults
  /\ handled \in [Service -> 0 .. MaxSha]

StoreTypes ==
  /\ store \in [Service -> Window] /\ storeFile \in [Service -> Window]
  /\ ledger \in Ledger /\ ledgerFile \in Ledger

RequestTypes ==
  /\ pc \in [Handler -> PC]
  /\ job \in [Handler -> Job]
  /\ todo \in [Handler -> SUBSET Manifest] /\ fresh \in [Handler -> SUBSET Manifest]
  /\ cur \in [Handler -> Manifest \union {NoManifest}]
  /\ plan \in [Handler -> Plan]
  /\ slot \in [Handler -> SUBSET Flag]
  /\ result \in [Handler -> [Manifest -> Outcome]]

\* Every variable stays in its domain, whatever interleaves and whatever fails:
\* a slot holds flag keys, a plan a version the flag has, a ledger entry a flag.
TypeOK == WorldTypes /\ StoreTypes /\ RequestTypes

\* Within one notification at most one manifest per flag writes, or may have
\* written, to LaunchDarkly (actedOnFlag): the listing lags a start, so the
\* idempotency read alone would let a second release through.
OneWritePerFlag ==
  \A n \in Handler : \A m, o \in Manifest :
     /\ {result[n][m], result[n][o]} \subseteq {"released", "unknown"}
     /\ FileAt(job[n].sha, m).flag = FileAt(job[n].sha, o).flag
     => m = o

InScope(s, file) == file.scope \in {SideOf[s], "fullstack"}

Working(s) == \E n \in Handler : ~Free(n) /\ job[n].svc = s

\* No manifest is lost between discovery and the ledger: once the notification
\* for what a service runs has been answered, every manifest it has to release
\* is pending, or its flag got that variation (or a later one).
Accounted ==
  \A s \in Service, m \in Manifest :
     LET file == FileAt(deployed[s], m) IN
     deployed[s] # NoSha /\ handled[s] = deployed[s] /\ ~Working(s) /\ IsManifest(file)
       => \/ ~InScope(s, file)
          \/ reached[file.flag] >= ResolvedTarget(file, TipOf[file.flag])
          \/ ledger[s][m] # NoFlag

Started(f) == Len(rel'[f]) > Len(rel[f])

LastRefused(f) == Len(rel[f]) > 0 /\ RefusesRelease(rel[f][Len(rel[f])].status)

\* While the last release of a flag is one that a guardrail reverted, or a
\* human stopped, the manifest that started it does not start another: not by
\* a redelivery, not after a restart, not from the ledger, not from a later
\* commit.  (Another manifest may: fix and redeploy is the way out.)
RevertStands ==
  [][\A f \in Flag : Started(f) /\ LastRefused(f)
        => rel[f][Len(rel[f])].by # rel'[f][Len(rel'[f])].by]_vars

(***************************************************************************)
(* Liveness.  A handler's awaits return, LaunchDarkly's listing settles    *)
(* and its releases end, and what a service runs keeps being notified (a   *)
(* deploy, or the re-POST the logs ask for).  Deploys and misfortunes owe  *)
(* nobody anything.                                                        *)
(***************************************************************************)
Notify(s) == \E n \in Handler, sha \in Sha : Receive(n, s, sha, NoSha) /\ sha = deployed[s]

Fairness ==
  /\ \A n \in Handler : WF_vars(Step(n))
  /\ \A s \in Service : SF_vars(Notify(s))
  /\ \A f \in Flag, i \in 1 .. MaxReleases :
        WF_vars(i <= Len(rel[f]) /\ (Settle(f, i) \/ Complete(f, i)))

FairSpec == Spec /\ Fairness

\* A manifest its service could release: asked to, within the flag's lineage,
\* ahead of what is served, and deployed on the other side too if it must be.
Releasable(s, m) ==
  LET file == FileAt(deployed[s], m) IN
  /\ IsManifest(file)
  /\ file.intent = "release" /\ InScope(s, file)
  /\ LET t == ResolvedTarget(file, TipOf[file.flag]) IN served[file.flag] < t /\ t <= TipOf[file.flag]
  /\ file.scope = "fullstack" => Readiness(s, m, {}) = "present"

\* No manifest starves: not behind a held sibling, not behind a running
\* release, not after a lost response, a refusal or a failed read.
EventuallyReleased ==
  \A s \in Service, m \in Manifest : Releasable(s, m) ~> ~Releasable(s, m)

(***************************************************************************)
(* The contract it implements, while one notification is handled at a time *)
(* and the listing settles before the next.  The release in progress is    *)
(* the one of the flag's releases that runs.                               *)
(***************************************************************************)
Moving(f) ==
  IF \E i \in 1 .. Len(rel[f]) : Running(f, i)
  THEN LET i == CHOOSE j \in 1 .. Len(rel[f]) : Running(f, j)
       IN  [to |-> rel[f][i].target, from |-> rel[f][i].from]
  ELSE [to |-> Control, from |-> Control]

Contract == INSTANCE ReleaseContract WITH moving <- [f \in Flag |-> Moving(f)]

\* Every step is a step of the release contract: per flag one release at a
\* time, forward along the lineage, from what the flag serves.
ImplementsContract == Contract!Spec
=============================================================================
