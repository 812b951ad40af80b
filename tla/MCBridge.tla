------------------------------ MODULE MCBridge ------------------------------
(* Three versions of the repository: new instructions; then another tool     *)
(* definition and graph, and judges.                                         *)
EXTENDS ConfigBridge

CONSTANTS t1, t2, main, copy, test, prod

Versions ==
  << [text |-> 1, def |-> 1, shape |-> 1, judged |-> FALSE],
     [text |-> 2, def |-> 1, shape |-> 1, judged |-> FALSE],
     [text |-> 2, def |-> 2, shape |-> 2, judged |-> TRUE] >>
=============================================================================
