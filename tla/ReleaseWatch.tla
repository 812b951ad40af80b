---------------------------- MODULE ReleaseWatch ----------------------------
(***************************************************************************)
(* What follows a release: the detached watch that polls it to its end,    *)
(* the re-pointing of the child flags whose prerequisite pins a variation  *)
(* of the released parent, and the autofix asked of Sentry after a revert. *)
(*                                                                         *)
(* One multivariate parent flag in one environment.  The handler here is   *)
(* Beacon's evaluation of the newest manifest of that flag, from its       *)
(* idempotency read to its patch in one step (Beacon opens it up); the     *)
(* watch and the re-pointing are taken apart at their awaits.              *)
(***************************************************************************)
EXTENDS ReleaseLineage, Sequences

CONSTANTS
  Child,           \* flags with a prerequisite on the parent
  Tagged,          \* those tagged auto-factory
  Watch,           \* detached watch tasks that could exist at once
  Handler,         \* requests that may be in flight at once
  AttachAttempts,  \* reads of the listing before a watch gives up (5 in the code)
  PromptListing,   \* BOOLEAN: a started release is listed within those reads
  PollErrorRetries,\* failed polls in a row a watch survives (5 in the code)
  Fault, MaxFaults,\* the misfortunes of this instance, and a bound on them
  MaxReleases      \* bound on the automated releases

FaultKind == {"ldread",   \* a LaunchDarkly read fails
              "poll",     \* a poll of the release fails
              "patch",    \* a re-pointing patch throws, applied or not
              "deadline", \* the monitoring window closes
              "crash",    \* the process dies; watches are in memory only
              "revert",   \* a guardrail reverts the release
              "pause",    \* a regression pauses it instead
              "stop",     \* a human stops its monitoring
              "human",    \* a human serves an earlier variation, or turns the flag off
              "repin"}    \* a human moves a child's prerequisite

ASSUME WatchAssumption ==
  /\ Tagged \subseteq Child
  /\ AttachAttempts \in Nat \ {0} /\ PollErrorRetries \in Nat
  /\ PromptListing \in BOOLEAN
  /\ MaxFaults \in Nat /\ MaxReleases \in Nat
  /\ Fault \subseteq FaultKind
  /\ Watch # {} /\ Watch \intersect Handler = {}

Repointer == Watch \union Handler

VARIABLES
  on, served,   \* the parent: targeting on, the variation repoint.ts reads as served
  rel, seen,    \* its automated releases, and how many of them the listing shows
  pin,          \* [Child -> Version]: the variation each prerequisite pins
  wanted, asked,\* the newest manifest's target, and where its evaluation stands
  inFlight,     \* dedupeMonitors' key of this flag
  watch,        \* [Watch -> the watch task]
  rp,           \* [Repointer -> a run of repointDependentPrerequisites]
  faults,
  excused       \* history: why children may be left behind

parent == <<on, served, rel, seen>>
vars == <<parent, pin, wanted, asked, inFlight, watch, rp, faults, excused>>

\* A release: `watched` once a watch was attached for it, `told` the releases
\* whose start (sha, variation) was given to Seer when this one reverted.
Release ==
  [from : Version, target : Version,
   status : {"in_progress", "paused", "completed", "reverted", "monitoring_stopped"},
   watched : BOOLEAN, told : Seq(0 .. MaxReleases)]

\* ctx is the release a watch was started for, 0 for a re-attachment.
IdleWatch   == [pc |-> "idle", ctx |-> 0, tries |-> 0, id |-> 0, errors |-> 0]
IdleRepoint == [pc |-> "idle", serving |-> Control, todo |-> {}, pinned |-> Control]

Spend(kind) == kind \in Fault /\ faults < MaxFaults /\ faults' = faults + 1

\* isReleaseFinished over the listing: what findActiveRelease and findLatestRelease answer.
Running(i)   == ~Terminal(rel[i].status)
ListedActive == {i \in 1 .. seen : Running(i)}
LatestStatus == IF seen = 0 THEN "none" ELSE rel[seen].status

Init ==
  /\ on = TRUE /\ served = Control /\ rel = <<>> /\ seen = 0
  /\ \E v \in {Control, 1} : pin = [c \in Child |-> v]
  /\ wanted = 1 /\ asked = "fresh"
  /\ inFlight = FALSE
  /\ watch = [w \in Watch |-> IdleWatch] /\ rp = [a \in Repointer |-> IdleRepoint]
  /\ faults = 0 /\ excused = FALSE

(***************************************************************************)
(* dedupeMonitors: one watch per flag and environment; the key is free     *)
(* again when the task settles.                                            *)
(***************************************************************************)
NoWatch == {w \in Watch : watch[w].pc = "idle"}

Attached(ctx) ==
  watch' = [watch EXCEPT ![CHOOSE w \in NoWatch : TRUE] = [IdleWatch EXCEPT !.pc = "resolve", !.ctx = ctx]]

\* (Mutant: a watch for every notification.)
AttachAlways(ctx) ==
  /\ inFlight' = TRUE
  /\ IF NoWatch = {} THEN UNCHANGED watch ELSE Attached(ctx)

Attach(ctx) ==
  IF inFlight THEN UNCHANGED <<inFlight, watch>> ELSE inFlight' = TRUE /\ Attached(ctx)

Settled(w) == inFlight' = FALSE /\ watch' = [watch EXCEPT ![w] = IdleWatch]

BeginRepoint(a) == rp' = [rp EXCEPT ![a] = [IdleRepoint EXCEPT !.pc = "parent"]]

(***************************************************************************)
(* The handler: an evaluation of the newest manifest.                      *)
(***************************************************************************)
Free(h) == rp[h].pc = "idle"

\* A ledger entry: a completed newest release is a chance to re-point, unless
\* a release still moves what the parent serves.
LedgerHistory(h) ==
  /\ Free(h) /\ asked = "pending" /\ ~RefusesRelease(LatestStatus)
  /\ asked' = "checked"
  /\ IF LatestStatus = "completed" /\ ListedActive = {} THEN BeginRepoint(h) ELSE UNCHANGED rp
  /\ UNCHANGED <<parent, pin, wanted, inFlight, watch, faults, excused>>

MayEvaluate(h) == Free(h) /\ asked \in {"fresh", "checked"}

AlreadyRunning(h) ==
  /\ MayEvaluate(h) /\ ListedActive # {}
  /\ Attach(0) /\ asked' = "pending"
  /\ UNCHANGED <<parent, pin, wanted, rp, faults, excused>>

\* What users are served: an off flag serves its off variation.
ServedNow == IF on THEN served ELSE Control

\* A staged release (guarded or progressive), which turns an off flag on.
StartRelease(h) ==
  /\ MayEvaluate(h) /\ ListedActive = {} /\ ServedNow # wanted /\ Len(rel) < MaxReleases
  /\ Attach(Len(rel) + 1)
  /\ rel' = Append(rel, [from |-> ServedNow, target |-> wanted, status |-> "in_progress",
                         watched |-> ~inFlight, told |-> <<>>])
  /\ on' = TRUE /\ served' = ServedNow /\ asked' = "done"
  /\ UNCHANGED <<seen, pin, wanted, rp, faults, excused>>

\* An immediate release moves the fallthrough here and now (and turns the flag on).
ReleaseImmediately(h) ==
  /\ MayEvaluate(h) /\ ListedActive = {} /\ ServedNow # wanted
  /\ on' = TRUE /\ served' = wanted /\ asked' = "done"
  /\ BeginRepoint(h)
  /\ UNCHANGED <<rel, seen, pin, wanted, inFlight, watch, faults, excused>>

\* Served already, as after a release that completed out of every watch's sight.
Noop(h) ==
  /\ MayEvaluate(h) /\ ListedActive = {} /\ ServedNow = wanted
  /\ BeginRepoint(h) /\ asked' = "done"
  /\ UNCHANGED <<parent, pin, wanted, inFlight, watch, faults, excused>>

(***************************************************************************)
(* monitorTriggeredRelease.                                                *)
(***************************************************************************)
Resolve(w) ==
  /\ watch[w].pc = "resolve"
  /\ PromptListing => seen = Len(rel) \/ watch[w].tries + 1 < AttachAttempts
  /\ IF ListedActive # {}
     THEN \E i \in ListedActive : watch' = [watch EXCEPT ![w].pc = "poll", ![w].id = i, ![w].tries = 0]
     ELSE watch' = [watch EXCEPT ![w].tries = @ + 1,
                                 ![w].pc = IF watch[w].tries + 1 = AttachAttempts THEN "latest" ELSE @]
  /\ UNCHANGED <<parent, pin, wanted, asked, inFlight, rp, faults, excused>>

\* (Mutant: a release nobody found running is never looked up again.)
LatestForgotten(w) ==
  /\ watch[w].pc = "latest" /\ Settled(w)
  /\ UNCHANGED <<parent, pin, wanted, asked, rp, faults, excused>>

BeginWatchRepoint(w) ==
  /\ BeginRepoint(w) /\ watch' = [watch EXCEPT ![w] = [IdleWatch EXCEPT !.pc = "repoint"]]
  /\ UNCHANGED inFlight

\* A release that completed inside the attempts above; any other end is only
\* logged.  The newest listed release may also be an older one, when the
\* listing lags past the last attempt: it is taken for the one just started.
Latest(w) ==
  /\ watch[w].pc = "latest"
  /\ \/ /\ LatestStatus = "completed" /\ BeginWatchRepoint(w)
        /\ excused' = (excused \/ seen < Len(rel))
     \/ LatestStatus # "completed" /\ Settled(w) /\ excused' = TRUE /\ UNCHANGED rp
  /\ UNCHANGED <<parent, pin, wanted, asked, faults>>

\* getReleaseStatus answers: a finished release ends the polling, a paused or
\* unknown one does not.
Poll(w) ==
  LET status == rel[watch[w].id].status IN
  /\ watch[w].pc = "poll"
  /\ \/ status = "completed" /\ BeginWatchRepoint(w)
     \/ /\ status = "reverted"
        /\ watch' = [watch EXCEPT ![w].pc = "seer", ![w].errors = 0] /\ UNCHANGED <<inFlight, rp>>
     \/ status = "monitoring_stopped" /\ Settled(w) /\ UNCHANGED rp
     \/ ~Terminal(status) /\ watch[w].errors # 0
        /\ watch' = [watch EXCEPT ![w].errors = 0] /\ UNCHANGED <<inFlight, rp>>
  /\ UNCHANGED <<parent, pin, wanted, asked, faults, excused>>

\* The window closes on a release that still runs, or is paused.
Deadline(w) ==
  /\ watch[w].pc = "poll" /\ ~Terminal(rel[watch[w].id].status) /\ Spend("deadline")
  /\ Settled(w) /\ excused' = TRUE
  /\ UNCHANGED <<parent, pin, wanted, asked, rp>>

PollFails(w) ==
  /\ watch[w].pc = "poll" /\ Spend("poll")
  /\ IF watch[w].errors = PollErrorRetries
     THEN Settled(w) /\ excused' = TRUE
     ELSE watch' = [watch EXCEPT ![w].errors = @ + 1] /\ UNCHANGED <<inFlight, excused>>
  /\ UNCHANGED <<parent, pin, wanted, asked, rp>>

\* A failed read of the listing ends the watch.
ResolveFails(w) ==
  /\ watch[w].pc \in {"resolve", "latest"} /\ Spend("ldread")
  /\ Settled(w) /\ excused' = TRUE
  /\ UNCHANGED <<parent, pin, wanted, asked, rp>>

\* triggerSeerOnRevert: whatever the issue search and the autofix request
\* answer, the watch is over; it never throws.
AskSeer(w) ==
  /\ watch[w].pc = "seer"
  /\ \/ rel' = [rel EXCEPT ![watch[w].id].told = Append(@, watch[w].ctx)]
     \/ UNCHANGED rel          \* not configured, no matching issue, or the search failed
  /\ Settled(w)
  /\ UNCHANGED <<on, served, seen, pin, wanted, asked, rp, faults, excused>>

(***************************************************************************)
(* repointDependentPrerequisites, of a watch or of a handler.              *)
(***************************************************************************)
Done(a) ==
  /\ rp' = [rp EXCEPT ![a] = IdleRepoint]
  /\ IF a \in Watch THEN Settled(a) ELSE UNCHANGED <<inFlight, watch>>

\* A flag that is off serves nothing to re-point to.
ReadParent(a) ==
  /\ rp[a].pc = "parent"
  /\ IF on THEN /\ rp' = [rp EXCEPT ![a].pc = "children", ![a].serving = served, ![a].todo = Child]
                /\ UNCHANGED <<inFlight, watch>>
     ELSE Done(a)
  /\ UNCHANGED <<parent, pin, wanted, asked, faults, excused>>

\* (Mutant: no lineage guard.)
FollowsAnywhere(c, pinned, serving) == c \in Tagged /\ pinned # serving

MayFollow(c, pinned, serving) == c \in Tagged /\ RepointAllowed(pinned, serving)

\* The children in the order getDependentFlags lists them.
ChildOf(a)   == CHOOSE c \in rp[a].todo : TRUE
NextChild(a) ==
  rp' = [rp EXCEPT ![a].pc = "children", ![a].todo = @ \ {ChildOf(a)}, ![a].pinned = Control]

ReadChild(a) ==
  LET c == ChildOf(a) IN
  /\ rp[a].pc = "children" /\ rp[a].todo # {}
  /\ IF MayFollow(c, pin[c], rp[a].serving)
     THEN rp' = [rp EXCEPT ![a].pc = "patch", ![a].pinned = pin[c]]
     ELSE NextChild(a)
  /\ UNCHANGED <<parent, pin, wanted, asked, inFlight, watch, faults, excused>>

\* removePrerequisite and addPrerequisite in one semantic patch, which carries
\* no precondition: whoever moved the prerequisite since it was read is overruled.
Repoint(a) ==
  /\ rp[a].pc = "patch"
  /\ pin' = [pin EXCEPT ![ChildOf(a)] = rp[a].serving]
  /\ excused' = (excused \/ pin[ChildOf(a)] # rp[a].pinned)
  /\ NextChild(a)
  /\ UNCHANGED <<parent, wanted, asked, inFlight, watch, faults>>

RepointFails(a) ==
  /\ rp[a].pc = "patch" /\ Spend("patch") /\ excused' = TRUE
  /\ \/ pin' = [pin EXCEPT ![ChildOf(a)] = rp[a].serving]
     \/ UNCHANGED pin
  /\ NextChild(a)
  /\ UNCHANGED <<parent, wanted, asked, inFlight, watch>>

\* A failed read of the parent ends the run, one of a child only skips it.
RepointReadFails(a) ==
  /\ Spend("ldread") /\ excused' = TRUE
  /\ \/ rp[a].pc = "parent" /\ Done(a)
     \/ /\ rp[a].pc = "children"
        /\ rp[a].todo # {} /\ NextChild(a)
        /\ UNCHANGED <<inFlight, watch>>
  /\ UNCHANGED <<parent, pin, wanted, asked>>

RepointEnds(a) ==
  /\ rp[a].pc = "children" /\ rp[a].todo = {} /\ Done(a)
  /\ UNCHANGED <<parent, pin, wanted, asked, faults, excused>>

(***************************************************************************)
(* LaunchDarkly, the people, the deploys, and the process itself.          *)
(***************************************************************************)
local == <<pin, wanted, asked, inFlight, watch, rp>>

Settle ==
  /\ seen < Len(rel) /\ seen' = Len(rel)
  /\ UNCHANGED <<on, served, rel, local, faults, excused>>

Ends(i, status, variation) ==
  /\ rel' = [rel EXCEPT ![i].status = status] /\ served' = variation
  /\ UNCHANGED <<on, seen, local, excused>>

Newest == Len(rel)
Live   == Newest > 0 /\ Running(Newest)

\* The target becomes the heaviest arm of the rollout.
Ramp ==
  /\ Live /\ served # rel[Newest].target /\ Ends(Newest, rel[Newest].status, rel[Newest].target)
  /\ UNCHANGED faults

Complete ==
  /\ Live /\ rel[Newest].status = "in_progress" /\ Ends(Newest, "completed", rel[Newest].target)
  /\ UNCHANGED faults

Resume ==
  /\ Live /\ rel[Newest].status = "paused" /\ Ends(Newest, "in_progress", served)
  /\ UNCHANGED faults

Misfortune ==
  /\ Live
  /\ \/ Spend("revert") /\ Ends(Newest, "reverted", rel[Newest].from)
     \/ Spend("stop") /\ Ends(Newest, "monitoring_stopped", served)
     \/ rel[Newest].status = "in_progress" /\ Spend("pause") /\ Ends(Newest, "paused", served)

\* A human takes the flag back, serves it off, or moves a child's prerequisite.
HumanActs ==
  \/ /\ ~Live /\ Spend("human")
     /\ \/ \E v \in Control .. wanted : v < served /\ served' = v /\ UNCHANGED on
        \/ on /\ on' = FALSE /\ UNCHANGED served
     /\ UNCHANGED <<rel, seen, local, excused>>
  \/ /\ Spend("repin") /\ excused' = TRUE
     /\ \E c \in Child, v \in Version : v <= wanted /\ pin[c] # v /\ pin' = [pin EXCEPT ![c] = v]
     /\ UNCHANGED <<parent, wanted, asked, inFlight, watch, rp>>

\* A later commit asks for the next variation, once the listing is consistent.
NextManifest ==
  /\ asked \in {"done", "pending"} /\ seen = Len(rel)
  /\ wanted < MaxVersion /\ wanted' = wanted + 1 /\ asked' = "fresh"
  /\ UNCHANGED <<parent, pin, inFlight, watch, rp, faults, excused>>

\* The commit that was deployed last is notified again.
Redeliver ==
  /\ asked = "done" /\ asked' = "pending" /\ seen = Len(rel)
  /\ UNCHANGED <<parent, pin, wanted, inFlight, watch, rp, faults, excused>>

Crash ==
  /\ Spend("crash") /\ excused' = TRUE
  /\ inFlight' = FALSE
  /\ watch' = [w \in Watch |-> IdleWatch] /\ rp' = [a \in Repointer |-> IdleRepoint]
  /\ asked' = "pending"
  /\ UNCHANGED <<parent, pin, wanted>>

Step(a) ==
  \/ ReadParent(a)
  \/ ReadChild(a)
  \/ Repoint(a)
  \/ RepointFails(a)
  \/ RepointReadFails(a)
  \/ RepointEnds(a)

Next ==
  \/ \E h \in Handler :
       \/ LedgerHistory(h)
       \/ AlreadyRunning(h)
       \/ StartRelease(h)
       \/ ReleaseImmediately(h)
       \/ Noop(h)
  \/ \E w \in Watch :
       \/ Resolve(w)
       \/ Latest(w)
       \/ Poll(w)
       \/ PollFails(w)
       \/ Deadline(w)
       \/ ResolveFails(w)
       \/ AskSeer(w)
  \/ \E a \in Repointer : Step(a)
  \/ Settle
  \/ Ramp
  \/ Complete
  \/ Resume
  \/ Misfortune
  \/ HumanActs
  \/ NextManifest
  \/ Redeliver
  \/ Crash

\* The tasks of the process run, the listing settles and a running release
\* ends; nothing says that commits, redeliveries, polls that fail or people do.
Fairness ==
  /\ \A w \in Watch : WF_vars(Resolve(w) \/ Latest(w) \/ Poll(w) \/ AskSeer(w))
  /\ \A a \in Repointer :
       WF_vars(ReadParent(a) \/ ReadChild(a) \/ Repoint(a) \/ RepointEnds(a))
  /\ WF_vars(Settle) /\ WF_vars(Complete)

Spec     == Init /\ [][Next]_vars
FairSpec == Spec /\ Fairness

(***************************************************************************)
(* Properties.                                                             *)
(***************************************************************************)
WatchState == [pc : {"idle", "resolve", "latest", "poll", "repoint", "seer"},
               ctx : 0 .. MaxReleases, tries : 0 .. AttachAttempts,
               id : 0 .. MaxReleases, errors : 0 .. PollErrorRetries]

RepointState == [pc : {"idle", "parent", "children", "patch"}, serving : Version,
                 todo : SUBSET Child, pinned : Version]

\* Every variable stays in its domain, the key in flight says exactly that a
\* task is alive, and a watch that re-points is one whose release completed.
TypeOK ==
  /\ on \in BOOLEAN /\ served \in Version
  /\ rel \in Seq(Release) /\ Len(rel) <= MaxReleases /\ seen \in 0 .. Len(rel)
  /\ pin \in [Child -> Version]
  /\ wanted \in Version /\ asked \in {"fresh", "pending", "checked", "done"}
  /\ watch \in [Watch -> WatchState] /\ rp \in [Repointer -> RepointState]
  /\ inFlight = (\E w \in Watch : watch[w].pc # "idle")
  /\ \A w \in Watch : (watch[w].pc = "repoint") = (rp[w].pc # "idle")
  /\ faults \in 0 .. MaxFaults /\ excused \in BOOLEAN

\* A reverted release is taken to Sentry at most once and no other is, whatever
\* is redelivered, re-attached, crashed or paused on the way (monitor.ts:129).
AutofixOnce ==
  \A i \in 1 .. Len(rel) :
    rel[i].told # <<>> => Len(rel[i].told) = 1 /\ rel[i].status = "reverted"

Rewritten(c) == pin'[c] # pin[c] /\ rp' # rp

\* Beacon moves a child backwards along its lineage, or off it, only if another
\* hand moved the prerequisite after this run had read it; and it never writes
\* a dependency a human built (repoint.ts:92-144).
ForwardAsRead ==
  [][\A c \in Child : Rewritten(c) =>
       /\ c \in Tagged
       /\ \/ InLineage(pin[c]) => pin'[c] >= pin[c]
          \/ \E a \in Repointer : rp[a].pc = "patch" /\ ChildOf(a) = c /\ rp[a].pinned # pin[c]]_vars

Follows(c) == pin[c] = served \/ (InLineage(pin[c]) /\ pin[c] > served)

\* What repoint.ts:8 promises: "After a release completes, this module re-points
\* auto-factory children of the released flag" - whichever watch was attached
\* when, as long as nothing fails and the parent does not move on.
CompletionFollowed ==
  \A i \in 1 .. MaxReleases :
    (i <= Len(rel) /\ rel[i].status = "completed")
      ~> (\A c \in Tagged : Follows(c)) \/ Len(rel) # i \/ ~on \/ served # rel[i].target

\* The children of a watched release that completes end up on what it serves,
\* or ahead of it, unless a task was lost on the way (a crash, a closed window,
\* a failed read or patch, a prerequisite moved under its hand), or the parent
\* moved on.
ChildrenFollow ==
  \A i \in 1 .. MaxReleases :
    (i <= Len(rel) /\ rel[i].status = "completed" /\ rel[i].watched)
      ~> \/ \A c \in Tagged : Follows(c)
         \/ excused \/ Len(rel) # i \/ ~on \/ served # rel[i].target
=============================================================================
