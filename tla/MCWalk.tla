------------------------------- MODULE MCWalk -------------------------------
(***************************************************************************)
(* The committed graph, without its intake node, the steward folded into   *)
(* the edge planner -> implementer and testing into metrics -> reviewer,   *)
(* and what a dashboard edit made of it: the rework edge leads back to the *)
(* reviewer, and its budget is stored as text, so that it is no loop edge  *)
(* any more.                                                               *)
(***************************************************************************)
EXTENDS WalkResume, TLC

To(n) == [to |-> n, require |-> {}, skip |-> {}, below |-> {}, max |-> {}]

Rework == [To("implementer") EXCEPT !.require = {[review_approved |-> "false"]}]

Committed ==
  [planner |-> <<[To("implementer") EXCEPT !.skip = {[skip_flagging |-> "true"]}]>>,
   implementer |-> <<[To("metrics") EXCEPT !.require = {[flag_ready |-> "true"]}]>>,
   metrics |-> <<[To("metrics") EXCEPT !.below = {70}, !.max = {1}],
                 [To("reviewer") EXCEPT !.require = {[needs_tests |-> "true"]}]>>,
   reviewer |-> <<[Rework EXCEPT !.max = {1}]>>]

Drifted == [Committed EXCEPT !.reviewer = <<[Rework EXCEPT !.to = "reviewer"]>>]

MCGraphs == {Committed, Drifted}
OnlyCommitted == {Committed}

Done(t, s) == [status |-> "completed", tags |-> t, score |-> s, writes |-> {}]
Wrote(k) == [Done([flag_ready |-> "true", flag_key |-> k], {}) EXCEPT !.writes = {1}]
Failed == [Done(NoTags, {}) EXCEPT !.status = "failed"]

MCResults ==
  [planner |-> {Done([risk_score |-> "0.2"], {}), Failed,
                Done([skip_flagging |-> "true"], {})},
   implementer |-> {Wrote("k1"), Wrote("k2")},
   metrics |-> {Done([needs_tests |-> "true"], {30}),
                Done(NoTags, {30}),
                Done([needs_human_input |-> "true"], {})},
   reviewer |-> {Done([review_approved |-> "true"], {}),
                 Done([review_approved |-> "false"], {})}]

MCTag == {"risk_score", "risk_level", "skip_flagging", "flag_ready", "flag_key",
          "needs_tests", "needs_human_input", "review_approved"}
MCValue == {"true", "false", "k1", "k2", "0.2"}
MCRouting == MCTag \ {"flag_ready", "flag_key"}
MCThreshold == [n \in {"implementer"} |-> 60]
MCPercent == [v \in {"0.2"} |-> 20]

MCRank == [planner |-> 1, implementer |-> 2, metrics |-> 3, reviewer |-> 4]

ASSUME GraphsAsCommitted == VerdictIsFinal /\ InLine(MCRank) /\ BudgetsPlain
=============================================================================
