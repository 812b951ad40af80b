------------------------------ MODULE MCBeacon ------------------------------
(***************************************************************************)
(* Instances of Beacon for TLC: one history of a repository per question.  *)
(***************************************************************************)
EXTENDS Beacon, TLC

CONSTANTS web, api, n1, n2, m1, m2, m3, f1, f2

\* web is the frontend, api the backend; or both are backends of one repository.
MCSides    == [s \in Service |-> IF s = web THEN "frontend" ELSE "backend"]
MCBackends == [s \in Service |-> "backend"]

\* f1 has v1 and v2, f2 (a boolean flag) has one version only.
MCTip == [f \in Flag |-> IF f = f1 THEN 2 ELSE 1]

\* f2's releases are immediate by policy; f1's policy is one nobody can map.
MCPolicy == [f \in Flag |-> IF f = f1 THEN "unmapped" ELSE "immediate"]

Asks(f, t, intent, scope, method) ==
  [flag |-> f, target |-> t, intent |-> intent, scope |-> scope, method |-> method]

Staged(f, t)    == Asks(f, t, "release", "backend", "staged")
Plainly(f, t)   == Asks(f, t, "release", "backend", "unset")
Immediate(f, t) == Asks(f, t, "release", "backend", "immediate")
Held(f, t)      == Asks(f, t, "hold", "backend", "staged")

\* Manifests are added, one per commit range, and never deleted.
Grows(born, file) ==
  [k \in Sha |-> [m \in Manifest |-> IF k >= born[m] THEN file[m] ELSE Absent]]

\* As above, but m reads `later` from commit k on.
Edited(history, m, k, later) ==
  [j \in Sha |-> [history[j] EXCEPT ![m] = IF j >= k THEN later ELSE @]]

Born(a, b, c) == [m \in Manifest |-> IF m = m1 THEN a ELSE IF m = m2 THEN b ELSE c]

Files(a, b, c) == [m \in Manifest |-> IF m = m1 THEN a ELSE IF m = m2 THEN b ELSE c]

(***************************************************************************)
(* Two versions of f1 in two manifests, merged in either order or at once, *)
(* and a third manifest of another flag.                                   *)
(***************************************************************************)
Lineage ==
  {Grows(Born(a, b, 1), Files(Plainly(f1, 1), second, Plainly(f2, 1))) :
      a \in {1, 2}, b \in {1, 2},
      second \in {Staged(f1, TipTarget), Immediate(f1, 2),
                  Asks(f1, 2, "release", "backend", "prerequisites")}}

\* A version that waits for the other side, an older one that does not, and a
\* manifest of the other side alone.
Fullstack ==
  {Grows(Born(1, b, 2), Files(Asks(f1, 2, "release", "fullstack", "staged"),
                              Asks(f1, 1, "release", "backend", "staged"),
                              Asks(f2, TipTarget, "release", "frontend", "unset"))) : b \in {1, 2}}

\* A manifest approved only after a newer version was asked for, beside one for
\* a variation that does not exist, or one that never parses.
Approvals ==
  {Edited(Grows(Born(1, 1, 2), Files(Held(f1, 1), Staged(f1, 2), third)), m1, 2, Staged(f1, 1)) :
      third \in {Staged(f1, 3), Malformed}}

Steady == Fullstack \union Approvals

\* One manifest per version, one commit apart.
Plain == {Grows(Born(1, 2, 1), Files(Staged(f1, 1), Staged(f1, 2), Absent))}

\* Manifests of two flags, one commit apart.
Unrelated == {Grows(Born(1, 2, 1), Files(Staged(f1, 1), Staged(f2, 1), Absent))}

\* Two manifests of one flag in one commit.
Siblings ==
  {Grows(Born(1, 1, 1), Files(first, second, Absent)) :
      first \in {Staged(f1, 1), Immediate(f1, 1)}, second \in {Staged(f1, 2), Staged(f1, TipTarget)}}

\* ... as two services of the repository are notified of it together.
Overlapping == {Grows(Born(1, 1, 1), Files(Immediate(f1, 1), Staged(f1, TipTarget), Absent))}

\* The first manifest is deleted again, as when its pull request is reverted.
Withdrawn == {Edited(h, m1, 2, Absent) : h \in Plain}

\* The second manifest is held until a human approves it in the third commit.
Approved == {Edited(Grows(Born(1, 2, 1), Files(Staged(f1, 1), Held(f1, 2), Absent)), m2, 3, Staged(f1, 2))}

Symmetric == Permutations(Handler)
=============================================================================
