--------------------------- MODULE ReleaseLineage ---------------------------
(***************************************************************************)
(* The pure decisions Phase 2 takes about one flag: which manifest goes    *)
(* first, what a manifest's trigger does to a flag, and where a dependent  *)
(* child flag may be re-pointed.                                           *)
(*                                                                         *)
(* A variation is its index in the vN lineage.  Control (0) stands for a   *)
(* value that has no lineage index: `control`, or a hand-named variation.  *)
(* A boolean flag is the lineage with the single version 1.                *)
(***************************************************************************)
EXTENDS Integers

CONSTANTS
  MaxVersion,     \* highest vN any flag of the instance may carry
  Manifest,       \* manifest addresses (.release-flags/pr-N.json)
  Flag,           \* flag keys
  Absent,         \* no such file at a commit
  Malformed,      \* the file is there and does not parse
  Keyless         \* the file parses and names no flag

ASSUME MaxVersionAssumption == MaxVersion \in Nat \ {0}

Control   == 0
Version   == 0 .. MaxVersion
TipTarget == MaxVersion + 1            \* a manifest that names no targetVariation
Target    == 0 .. (MaxVersion + 1)

InLineage(v) == v > Control

(***************************************************************************)
(* What a manifest asks for, as far as the release logic tells manifests   *)
(* apart.  intent "hold" stands for hold, manual, a future notBefore,      *)
(* segments and every unintelligible intent: all fail closed to "held"     *)
(* before LaunchDarkly is read.  method is what the file itself settles: a *)
(* prerequisites intent, or the releaseMethod of its plan, if it has one.  *)
(* "staged" is a guarded or a progressive release.                         *)
(***************************************************************************)
Method      == {"staged", "immediate", "prerequisites"}
ReleaseFile == [flag : Flag, target : Target, intent : {"release", "hold"},
                scope : {"frontend", "backend", "fullstack"}, method : Method \union {"unset"}]
File        == ReleaseFile \union {Absent, Malformed, Keyless}

IsManifest(file) == file \notin {Absent, Malformed, Keyless}

\* Ordering key: an absent target is the tip, an off-lineage one is last.
TargetRank(t) == IF t = Control THEN -1 ELSE t

\* `tip` is the highest version the flag has a variation for (Control: none).
ResolvedTarget(file, tip) == IF file.target = TipTarget THEN tip ELSE file.target

\* Refusals that need a human: none of them writes.
MustHold(file, tip, served) ==
  LET t == ResolvedTarget(file, tip) IN
  \/ file.intent = "hold"
  \/ file.target = TipTarget /\ tip = Control
  \/ t > tip
  \/ InLineage(served) /\ ~InLineage(t)

\* (Mutant: only what is served already is moot, so a release may go backwards.)
MootIfServed(file, tip, served) == ResolvedTarget(file, tip) = served

\* Nothing left to release: served already, or a newer version superseded it.
Moot(file, tip, served) ==
  LET t == ResolvedTarget(file, tip) IN
  t = served \/ (InLineage(served) /\ InLineage(t) /\ t < served)

TriggerDecision(file, tip, served) ==
  IF MustHold(file, tip, served) THEN "held"
  ELSE IF Moot(file, tip, served) THEN "noop"
  ELSE "release"

(***************************************************************************)
(* How it is released: the file, else the flag's release policy, else in   *)
(* stages.  A policy's method may be one the code cannot map, and a policy *)
(* that cannot be read is ignored, never a reason to hold.                 *)
(***************************************************************************)
PolicyKind == {"none", "staged", "immediate", "unmapped"}

PolicyMethod(kind) == IF kind \in Method THEN kind ELSE "unset"

ReadPolicy(kind, answered) == IF answered THEN PolicyMethod(kind) ELSE "unset"

ReleaseMethod(file, policy) ==
  IF file.method # "unset" THEN file.method
  ELSE IF policy # "unset" THEN policy ELSE "staged"

(***************************************************************************)
(* What the answer to a patch proves.  A refusal of its content is certain *)
(* and recurs; other refusals are certain too, but say nothing about the   *)
(* manifest; a timeout, a 5xx (500 for all) or no answer at all (0) says   *)
(* nothing, not even whether the patch was applied.                        *)
(***************************************************************************)
ContentRejection == {400, 422}
Declined         == {401, 403, 404, 405, 409, 429}
Unanswered       == {0, 408, 500}

\* A refusal of the `immediate` patch cannot single out one manifest.
CarriesManifestContent(method) == method # "immediate"

\* A child pinned on `pinned` may follow its parent to `serving`: never
\* backwards along the lineage, never off it.
RepointAllowed(pinned, serving) ==
  pinned # serving /\ (InLineage(pinned) => serving >= pinned)

(***************************************************************************)
(* The two-deep deploy window of one (service, environment).               *)
(***************************************************************************)
NoSha == 0

EmptyWindow == [last |-> NoSha, prior |-> NoSha]

\* An explicit previousSha wins; a re-notification of `last` re-diffs from `prior`.
PreviousSha(window, sha, explicit) ==
  IF explicit # NoSha THEN explicit
  ELSE IF window.last = sha THEN window.prior ELSE window.last

AlreadyProcessed(window, sha) == window.last = sha

\* Re-recording either remembered sha leaves the window alone.
Recorded(window, sha) ==
  IF sha \in {window.last, window.prior} THEN window
  ELSE [last |-> sha, prior |-> window.last]

(***************************************************************************)
(* The re-evaluation ledger: which outcomes leave a manifest pending.      *)
(* Two of them report action "error": "unread" for a manifest that could   *)
(* not be re-read (no current flag is known), "unknown" for a trigger that *)
(* threw (the write may have landed).  "none" is not evaluated (yet).      *)
(***************************************************************************)
Outcome == {"none", "skipped", "waiting", "held", "error", "unknown", "unread",
            "already_running", "noop", "released"}

\* (Mutant: a running release settles every manifest of its flag.)
RunningIsFinal == {"held", "waiting", "error", "unknown", "unread"}

PendingOutcomes == {"held", "waiting", "error", "unknown", "unread", "already_running"}

\* LaunchDarkly ended the newest release without completing it.
RefusesRelease(status) == status \in {"reverted", "monitoring_stopped"}
Terminal(status)       == status \in {"completed", "reverted", "monitoring_stopped"}
=============================================================================
