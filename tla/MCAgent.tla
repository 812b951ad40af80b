------------------------------ MODULE MCAgent ------------------------------
(* A parent flag and a child, one environment, and the agents that act on them. *)
EXTENDS AgentRun

CONSTANTS parent, child, prod, errors

Live(v)   == [Dark(v) EXCEPT !.on = TRUE]
Is(vs, t) == [FreshFlag(FALSE) EXCEPT !.vars = vs, !.env[prod] = t]
Parents   == {Is({0, 1, 2}, [Live(0) EXCEPT !.light = 1]),
              [Is({0, 1}, Live(1)) EXCEPT !.boolean = TRUE]}

Of(name, provider, detached) == [name |-> name, provider |-> provider, detached |-> detached]
Aside == {"write_manifest", "read_ld_docs", "get_flag_state", "run_tests", "commit_and_push"}

Flags(p, c) == [f \in Flag |-> IF f = parent THEN p ELSE c]
Released    == Is({0, 1, 2}, Live(1))
Worlds      == {Flags(p, NoFlag) : p \in Parents} \union {Flags(Released, Is({0, 1}, Dark(1)))}

\* An implementer of two minds, in a checkout that names the child already.
Rewrites == [flag |-> [f \in Flag |-> Is({0, 1}, Dark(1))], refs |-> {<<child, None>>},
             plan |-> <<Of("implementer", "loop", Aside \union {"write_file", "use_existing_flag", "inspect"})>>]

MCScenario ==
  {Rewrites}
    \union {[flag |-> w, refs |-> {}, plan |-> <<Of("implementer", "loop", Aside)>>] : w \in Worlds}
    \union {[flag |-> Flags(Released, NoFlag), refs |-> {}, plan |-> p] : p \in
       {<<Of("author", "loop", {"write_manifest", "read_ld_docs"})>>,
        <<Of("testing", "cursor", {"tag_conversation"}), Of("reviewer", "cursor", {})>>,
        <<Of("planner", "loop", {"get_flag_state"}), Of("steward", "loop", {})>>,
        <<Of("planner", "loop", {"write_manifest", "inspect"})>>}}
=============================================================================
