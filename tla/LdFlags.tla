------------------------------ MODULE LdFlags ------------------------------
(***************************************************************************)
(* Feature flags and metrics in LaunchDarkly, the REST client with its     *)
(* retries, and the writer behind the agents' tools (ldClient.ts and       *)
(* ldWriter.ts): a flag is created dark, given a further variation, wired  *)
(* behind a parent flag, or read for what it serves.                       *)
(*                                                                         *)
(* A variation is a Version: Control is the off-variation (false of a      *)
(* legacy boolean flag), 1 its treatment (true), 2, 3 ... the iterations.  *)
(***************************************************************************)
EXTENDS Integers, FiniteSets

CONSTANTS
  Flag, Env, Metric, None,
  Production,          \* the environment of record, or None
  MaxVersion,          \* bound on the lineage
  RateLimitRetries,    \* 429s a request survives (6 in the code)
  ServerErrorRetries,  \* 5xx a repeatable request survives (2 in the code)
  Fault, MaxFaults,    \* the misfortunes of this instance, and a bound on them
  MaxWorld             \* bound on what humans and Beacon do meanwhile

FaultKind == {"429", "5xx", "network", "model", "git", "read"}

ASSUME LdAssumption ==
  /\ MaxVersion \in Nat \ {0} /\ MaxWorld \in Nat /\ MaxFaults \in Nat
  /\ RateLimitRetries \in Nat /\ ServerErrorRetries \in Nat
  /\ Fault \subseteq FaultKind
  /\ None \notin Flag \union Env \union Metric

Control == 0
Version == Control .. MaxVersion

VARIABLES
  flag,    \* [Flag -> FlagState]
  metric,  \* the metrics that exist
  api,     \* the request in flight
  call,    \* the tool call it belongs to
  faults,  \* misfortunes so far
  world    \* moves of others so far, and whether one was made since a node run began

ld == <<flag, metric>>
io == <<api, call, faults>>

\* One environment's targeting: heavy and light are the arms its fallthrough
\* serves, equal unless a release is in progress; pin is its prerequisites.
Targeting == [on : BOOLEAN, heavy : Version, light : Version, pin : [Flag -> Version \union {None}]]
FlagState == [boolean : BOOLEAN, vars : SUBSET Version, client : BOOLEAN, env : [Env -> Targeting]]

NoPin     == [f \in Flag |-> None]
Dark(arm) == [on |-> FALSE, heavy |-> arm, light |-> arm, pin |-> NoPin]

\* createFlag's body: control and v1, off, v1 as the on-variation.
FreshFlag(client) ==
  [boolean |-> FALSE, vars |-> {Control, 1}, client |-> client, env |-> [e \in Env |-> Dark(1)]]
NoFlag == [FreshFlag(FALSE) EXCEPT !.vars = {}]

Exists(f)       == flag[f].vars # {}
Releasing(f, e) == flag[f].env[e].heavy # flag[f].env[e].light

\* What a flag evaluates to where its prerequisites are met, and what of its
\* treatment users get: an unmet prerequisite serves them Control.
Arms(t) == IF t.on THEN {t.heavy, t.light} ELSE {Control}
Open(fs, f, e) == \A p \in Flag : fs[f].env[e].pin[p] \in {None} \union Arms(fs[p].env[e])
Reaches(fs, f, e) == IF Open(fs, f, e) THEN Arms(fs[f].env[e]) \ {Control} ELSE {}

(***************************************************************************)
(* LdClient.request.                                                       *)
(***************************************************************************)
Op(kind, key) == [kind |-> kind, key |-> key]

IdleApi  == [op |-> Op("none", None), status |-> "idle", rate |-> 0, server |-> 0, applied |-> 0]
Send(op) == [IdleApi EXCEPT !.op = op, !.status = "sent"]

IsGet(op)    == op.kind \in {"getFlag", "releases"}
IsCreate(op) == op.kind \in {"createFlag", "createMetric"}   \* okStatuses: [409]

\* (Mutant: a semantic patch is retried like a create.)
RetryAnything(op) == TRUE

IsRetryableOnServerError(op) == IsGet(op) \/ IsCreate(op)

(***************************************************************************)
(* What the writer concludes from flags it has read.                       *)
(***************************************************************************)
Tip(vars) == CHOOSE v \in vars : \A w \in vars : w <= v
NextVariationValue(vars) == Tip(vars \union {Control}) + 1

\* servedParentVariationId: the heaviest arm when on, else the off-variation.
ServedParent(parent, e) == IF parent.env[e].on THEN parent.env[e].heavy ELSE Control

\* resolveParentVariationId of "on" (None), "off" (Control) or an explicit
\* variation; None where the code throws.
ResolveParent(parent, e, want) ==
  CASE want = None    -> IF parent.boolean THEN 1 ELSE parent.env[e].heavy
    [] want = Control -> Control
    [] OTHER          -> IF want \in parent.vars /\ ~parent.boolean THEN want ELSE None

\* (Mutant: the child is armed whether or not the parent serves the variation.)
ArmAlways(child, parent, e, want) == ~child.env[e].on

\* The child is turned on, serving its treatment, only behind an unmet prerequisite.
Arm(child, parent, e, want) ==
  ResolveParent(parent, e, want) # ServedParent(parent, e) /\ ~child.env[e].on

\* addPrerequisite's instructions for one environment: a prerequisite is looked
\* for by the parent's key alone, whatever variation it pins.
Wired(t, child, parent, p, e, want) ==
  LET pinned == IF child.env[e].pin[p] = None THEN [t EXCEPT !.pin[p] = ResolveParent(parent, e, want)] ELSE t IN
  IF Arm(child, parent, e, want)
  THEN [pinned EXCEPT !.on = TRUE, !.heavy = Tip(child.vars), !.light = Tip(child.vars)] ELSE pinned

Instructed(child, parent, p, e, want) == child.env[e].pin[p] = None \/ Arm(child, parent, e, want)

EnvsOfRecord == IF Production \in Env THEN {Production} ELSE Env

\* (Mutant: only the heaviest arm counts as serving.)
HeaviestReleased(state, v, releasing) ==
  \E e \in EnvsOfRecord : state.env[e].on /\ v = state.env[e].heavy

\* variationReleased: served in the environment of record (in any, without
\* one), or a release of the flag is in progress there.
VariationReleased(state, v, releasing) ==
  \E e \in EnvsOfRecord :
    \/ state.env[e].on /\ v \in Arms(state.env[e])
    \/ e \in releasing

(***************************************************************************)
(* The tool call in progress: the step it awaits, its arguments, and what  *)
(* it has read; `live` is history: the parent is as it was read.           *)
(***************************************************************************)
IdleCall ==
  [tool |-> "none", step |-> "none", key |-> None, asked |-> None, client |-> FALSE, parent |-> None,
   want |-> None, seen |-> NoFlag, up |-> NoFlag, todo |-> {}, live |-> TRUE]

EnvOf(todo) == CHOOSE e \in todo : TRUE

\* The flags and metrics after LaunchDarkly has served a request.
FlagsAfter(op) ==
  CASE op.kind = "createFlag" /\ ~Exists(op.key) -> [flag EXCEPT ![op.key] = FreshFlag(call.client)]
    [] op.kind = "client" -> [flag EXCEPT ![op.key].client = TRUE]
    [] op.kind = "append" -> [flag EXCEPT ![op.key].vars = @ \union {call.asked}]
    [] op.kind = "wire"   ->
         [flag EXCEPT ![op.key].env[EnvOf(call.todo)] =
            Wired(@, call.seen, call.up, call.parent, EnvOf(call.todo), call.want)]
    [] OTHER -> flag
MetricsAfter(op) == IF op.kind = "createMetric" THEN metric \union {op.key} ELSE metric

\* The status LaunchDarkly answers, by what exists when the request arrives.
Answer(op) ==
  CASE op.kind = "createFlag"   -> IF Exists(op.key) THEN "conflict" ELSE "ok"
    [] op.kind = "createMetric" -> IF op.key \in metric THEN "conflict" ELSE "ok"
    [] op.kind = "append"       -> IF call.asked \in flag[op.key].vars THEN "failed" ELSE "ok"
    [] OTHER                    -> IF Exists(op.key) THEN "ok" ELSE "failed"

Take(op) ==
  /\ flag' = IF Answer(op) = "failed" THEN flag ELSE FlagsAfter(op)
  /\ metric' = MetricsAfter(op)

Serve ==
  /\ api.status = "sent" /\ Take(api.op)
  /\ api' = [api EXCEPT !.status = Answer(api.op), !.applied = @ + 1]
  /\ UNCHANGED <<call, faults, world>>

Spend(kind) == kind \in Fault /\ faults < MaxFaults /\ faults' = faults + 1

\* A 429 was not served; its budget is separate from that of the 5xx.
RateLimited ==
  /\ api.status = "sent" /\ Spend("429")
  /\ api' = IF api.rate < RateLimitRetries THEN [api EXCEPT !.rate = @ + 1] ELSE [api EXCEPT !.status = "failed"]
  /\ UNCHANGED <<ld, call, world>>

\* A 5xx or a broken connection says nothing of what was done; only the first
\* is retried, and only where a repeat is harmless.
ServerError ==
  /\ api.status = "sent"
  /\ \E done \in BOOLEAN :
       /\ IF done THEN Take(api.op) ELSE UNCHANGED ld
       /\ LET after == [api EXCEPT !.applied = IF done THEN @ + 1 ELSE @] IN
          \/ /\ Spend("5xx")
             /\ api' = IF api.server < ServerErrorRetries /\ IsRetryableOnServerError(api.op)
                       THEN [after EXCEPT !.server = @ + 1] ELSE [after EXCEPT !.status = "failed"]
          \/ Spend("network") /\ api' = [after EXCEPT !.status = "failed"]
  /\ UNCHANGED <<call, world>>

Request == Serve \/ RateLimited \/ ServerError

Answered(step) == call.step = step /\ api.status \notin {"idle", "sent"}
Succeeded      == api.status \in {"ok", "conflict"}

\* The call goes on with another request.
Await(step, op, next) == call' = [next EXCEPT !.step = step] /\ api' = Send(op)

(***************************************************************************)
(* createFlag, addPrerequisite, addVariation and getFlagState, step by     *)
(* step; how a call begins and ends is AgentTools'.                        *)
(***************************************************************************)
\* A frontend flag that exists is only made visible to browsers.
EnsureClientSide ==
  /\ Answered("created") /\ api.status = "conflict" /\ call.client
  /\ Await("client", Op("client", call.key), call)
  /\ UNCHANGED <<ld, faults, world>>

ReadParent ==
  /\ Answered("parent") /\ Succeeded
  /\ Await("child", Op("getFlag", call.key), [call EXCEPT !.up = flag[call.parent]])
  /\ UNCHANGED <<ld, faults, world>>

ReadChild ==
  /\ Answered("child") /\ Succeeded
  /\ call' = [call EXCEPT !.step = "wire", !.seen = flag[call.key], !.todo = Env, !.live = flag[call.parent] = call.up]
  /\ api' = IdleApi
  /\ UNCHANGED <<ld, faults, world>>

\* An environment whose variation cannot be resolved is given up, one that is
\* wired already is skipped, another is patched.
WireNext ==
  LET e == EnvOf(call.todo) IN
  /\ call.step = "wire" /\ api.status = "idle" /\ call.todo # {}
  /\ IF /\ ResolveParent(call.up, e, call.want) # None
        /\ Instructed(call.seen, call.up, call.parent, e, call.want)
     THEN Await("wire", Op("wire", call.key), call)
     ELSE call' = [call EXCEPT !.todo = @ \ {e}] /\ UNCHANGED api
  /\ UNCHANGED <<ld, faults, world>>

\* A patch that fails is that environment's failure only.
WireDone ==
  /\ Answered("wire") /\ api' = IdleApi
  /\ call' = [call EXCEPT !.todo = @ \ {EnvOf(@)}]
  /\ UNCHANGED <<ld, faults, world>>

\* The value asked for, or the next of the lineage; one that exists is a re-run.
Intended == IF call.asked = None THEN NextVariationValue(flag[call.key].vars) ELSE call.asked

AppendVariation ==
  /\ Answered("variations") /\ Succeeded /\ ~flag[call.key].boolean
  /\ Intended \in Version /\ Intended \notin flag[call.key].vars
  /\ Await("append", Op("append", call.key), [call EXCEPT !.asked = Intended])
  /\ UNCHANGED <<ld, faults, world>>

\* The releases are a read of their own, of each environment that is on.
ReadReleases ==
  /\ Answered("state") /\ Succeeded
  /\ Await("releases", Op("releases", call.key), [call EXCEPT !.seen = flag[call.key]])
  /\ UNCHANGED <<ld, faults, world>>

Writer ==
  \/ EnsureClientSide
  \/ ReadParent
  \/ ReadChild
  \/ WireNext
  \/ WireDone
  \/ AppendVariation
  \/ ReadReleases

(***************************************************************************)
(* Meanwhile Beacon and humans release, roll back, target and create.      *)
(***************************************************************************)
Meddle(fs) ==
  /\ world.moves < MaxWorld /\ world' = [moves |-> world.moves + 1, lately |-> TRUE]
  /\ flag' = fs /\ call' = [call EXCEPT !.live = FALSE]
  /\ UNCHANGED <<metric, api, faults>>

StartRollout(f, e) ==
  /\ flag[f].env[e].on /\ ~Releasing(f, e)
  /\ \E v \in flag[f].vars \ {flag[f].env[e].heavy} : Meddle([flag EXCEPT ![f].env[e].light = v])

EndRollout(f, e) ==
  /\ Releasing(f, e)
  /\ \E v \in Arms(flag[f].env[e]) : Meddle([flag EXCEPT ![f].env[e].heavy = v, ![f].env[e].light = v])

HumanTargets(f, e) ==
  /\ Exists(f) /\ ~Releasing(f, e)
  /\ \/ Meddle([flag EXCEPT ![f].env[e].on = ~@])
     \/ \E p \in Flag \ {f} : \E v \in flag[p].vars : Meddle([flag EXCEPT ![f].env[e].pin[p] = v])

OthersCreate(f) == ~Exists(f) /\ Meddle([flag EXCEPT ![f] = FreshFlag(FALSE)])

World ==
  \E f \in Flag :
    \/ OthersCreate(f)
    \/ \E e \in Env : StartRollout(f, e) \/ EndRollout(f, e) \/ HumanTargets(f, e)
=============================================================================
