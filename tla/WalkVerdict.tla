----------------------------- MODULE WalkVerdict -----------------------------
(***************************************************************************)
(* From an ended walk to the outcome the run record keeps: interpretWalk   *)
(* and decideApproval, then deriveOutcome.                                 *)
(***************************************************************************)
EXTENDS GraphWalk

SkipFlagging == TagsMatch(tags, [skip_flagging |-> "true"])

FlagWasCreated ==
  \/ TagsMatch(inventory, [flag_created |-> "true"])
  \/ TagsMatch(inventory, [flag_ready |-> "true"])
  \/ "flag_key" \in DOMAIN inventory

\* Flags an earlier iteration created and the final state no longer names.
OrphanedFlagKeys ==
  {runs[i].tags["flag_key"] : i \in {j \in DOMAIN runs : "flag_key" \in DOMAIN runs[j].tags}}
    \ {inventory[k] : k \in {"flag_key"} \cap DOMAIN inventory}

\* (Mutant: a flag that a rework pass renamed is not missed.)
AbandonedIfSkipped == SkipFlagging /\ FlagWasCreated

Abandoned == (SkipFlagging /\ FlagWasCreated) \/ OrphanedFlagKeys # {}
HasVerdict == "review_approved" \in DOMAIN tags
ReviewApproved == TagsMatch(tags, [review_approved |-> "true"])

Decision ==
  CASE Abandoned -> "incomplete"
    [] ~Abandoned /\ SkipFlagging -> "noop"
    [] ~Abandoned /\ ~SkipFlagging /\ ~HasVerdict -> "incomplete"
    [] ~Abandoned /\ ~SkipFlagging /\ HasVerdict ->
         IF ReviewApproved THEN "approved" ELSE "rejected"

Exhausted == halt.kind \in {"budget", "run-cap"}

Outcome ==
  IF halt.kind = "verification" THEN "verification-failed"
  ELSE IF Exhausted THEN "incomplete" ELSE Decision
=============================================================================
