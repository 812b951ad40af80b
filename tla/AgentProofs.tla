----------------------------- MODULE AgentProofs -----------------------------
(***************************************************************************)
(* What holds of an agent node for every set of flags, environments and    *)
(* metrics, every number of turns, retries and misfortunes, and whatever   *)
(* humans and Beacon do to the project meanwhile: a tag is a fact, a patch *)
(* is served once, a verified handoff names a variation that exists, what  *)
(* use_existing_flag rides is dark, wiring a flag behind its parent shows  *)
(* nobody its treatment, and a human's words in the manifest stand.        *)
(*                                                                         *)
(* The invariant says what a tool call relies on between two requests:     *)
(* which request it awaits (Protocol), what it was called with (ArgsOK),   *)
(* what an answer proves of the project (AnswerOK), and how far what it    *)
(* has read is still so (SeenOK).                                          *)
(***************************************************************************)
EXTENDS AgentRun, WellFoundedInduction, TLAPS

FlagTool == {"create_flag", "add_variation", "use_existing_flag", "get_flag_state"}

CallStep == {"none", "created", "client", "parent", "child", "wire", "variations", "append", "state",
             "releases", "metric"}

RequestKind == {"none", "createFlag", "createMetric", "client", "append", "wire", "getFlag", "releases"}

Tool == FlagTool \union
        {"inspect", "tag_conversation", "create_metric", "write_file", "run_tests", "commit_and_push",
         "write_manifest", "read_ld_docs", "query_related_repos"}

CallState ==
  [tool : {"none", "create_metric"} \union FlagTool, step : CallStep, key : Flag \union Metric \union {None},
   asked : Version \union {None}, client : BOOLEAN, parent : Flag \union {None}, want : Version \union {None},
   seen : FlagState, up : FlagState, todo : SUBSET Env, live : BOOLEAN]

ApiState ==
  [op : [kind : RequestKind, key : Flag \union Metric \union {None}],
   status : {"idle", "sent", "ok", "conflict", "failed"},
   rate : 0 .. RateLimitRetries, server : 0 .. ServerErrorRetries, applied : Nat]

NodeState ==
  [name : STRING \union {"none"}, provider : {"loop", "cursor"}, offered : SUBSET Tool, phase : Phase, status : Status,
   turn : 0 .. MaxTurns, calls : Nat, tries : 0 .. TransientRetries, docs : 0 .. DocsBudget,
   repos : 0 .. RepoBudget, tags : Tags, verdict : {"none", "ok", "failed"}]

LdTypes ==
  /\ flag \in [Flag -> FlagState] /\ metric \subseteq Metric
  /\ call \in CallState /\ api \in ApiState

RepoState == [refs : SUBSET Ref, manifest : Manifest, dirty : SUBSET {"code", "manifest"}, unpushed : BOOLEAN]

RestTypes ==
  repo \in RepoState /\ plan \in Seq(Session) /\ world \in [moves : Nat, lately : BOOLEAN]

\* A request that may not be repeated is sent until it is first served.
Applied ==
  ~IsRetryableOnServerError(api.op) => api.applied <= 1 /\ (api.status = "sent" => api.applied = 0)

\* What a good answer proves, for good: nothing here is ever deleted.
AnswerOK ==
  Succeeded =>
    /\ api.op.kind = "createMetric" => api.op.key \in metric
    /\ api.op.kind \in {"createFlag", "client", "getFlag", "releases", "append", "wire"} => Exists(api.op.key)

Awaits(step, kind, key) == call.step = step => api.op = Op(kind, key)

Protocol ==
  /\ call.tool = "none" => api = IdleApi /\ call.step = "none"
  /\ call.tool = "create_flag" => call.step \in {"created", "client", "parent", "child", "wire"}
  /\ call.tool = "add_variation" => call.step \in {"variations", "append"}
  /\ call.tool \in {"use_existing_flag", "get_flag_state"} => call.step \in {"state", "releases"}
  /\ call.tool = "create_metric" => call.step = "metric" /\ call.key \in Metric
  /\ call.tool \in FlagTool => call.key \in Flag
  /\ api.status = "idle" => call.step \in {"none", "wire"}
  /\ api.status # "idle" =>
       /\ Awaits("created", "createFlag", call.key) /\ Awaits("client", "client", call.key)
       /\ Awaits("parent", "getFlag", call.parent) /\ Awaits("child", "getFlag", call.key)
       /\ Awaits("wire", "wire", call.key)
       /\ Awaits("variations", "getFlag", call.key) /\ Awaits("append", "append", call.key)
       /\ Awaits("state", "getFlag", call.key) /\ Awaits("releases", "releases", call.key)
       /\ Awaits("metric", "createMetric", call.key)

ArgsOK ==
  /\ call.tool = "create_flag" => call.parent # call.key
  /\ call.step \in {"parent", "child", "wire"} => call.parent \in Flag
  /\ call.step = "append" => call.asked \in Version
  /\ call.step = "wire" => call.seen.vars # {}
  /\ call.step = "wire" /\ api.status # "idle" =>
       call.todo # {} /\ ResolveParent(call.up, EnvOf(call.todo), call.want) # None

\* What was read, while nobody else moved: of the child's environments, those
\* that are still to be wired.
SeenOK ==
  /\ call.step = "releases" => call.seen.vars \subseteq flag[call.key].vars
  /\ call.step = "releases" /\ ~world.lately => call.seen = flag[call.key]
  /\ call.step = "wire" /\ call.live =>
       /\ flag[call.parent] = call.up
       /\ \A e \in call.todo :
            api.status \in {"idle", "sent"} \/ e # EnvOf(call.todo) => flag[call.key].env[e] = call.seen.env[e]

LdInv == LdTypes /\ Applied /\ AnswerOK /\ Protocol /\ ArgsOK /\ SeenOK

\* A tag of a tool is a fact, and a node that has been judged acts no more.
TagsOK(tags) == /\ tags.ready => tags.key \in Flag /\ Exists(tags.key)
                /\ tags.metrics \subseteq metric

NodeInv ==
  /\ node \in NodeState
  /\ call.tool # "none" => node.phase \in {"acting", "forced"} /\ node.calls > 0
  /\ node.verdict # "none" => node.phase = "done"
  /\ TagsOK(node.tags) /\ HandoffHolds

IInv == LdInv /\ NodeInv /\ RestTypes
(***************************************************************************)
(* The model's operators.                                                  *)
(***************************************************************************)
LEMMA Versions == Control \in Version /\ 1 \in Version
BY LdAssumption DEF Control, Version

\* A set of variations has a latest one.
LEMMA Latest ==
  ASSUME NEW given \in SUBSET Version, given # {}
  PROVE  Tip(given) \in given
<1> DEFINE Less  == {p \in Nat \X Nat : p[1] < p[2]}
           Below == {MaxVersion - v : v \in given}
<1>1. IsWellFoundedOn(Less, Nat)
  BY NatLessThanWellFounded DEF OpToRel
<1>2. Below \in SUBSET Nat /\ Below # {}
  <2>1. \A v \in given : v \in 0 .. MaxVersion  BY DEF Version, Control
  <2>2. \A v \in given : MaxVersion - v \in Nat  BY <2>1, LdAssumption
  <2> QED BY <2>2
<1> HIDE DEF Less, Below
<1>3. PICK d \in Below : \A c \in Below : <<c, d>> \notin Less  BY <1>1, <1>2, WFMin
<1>4. PICK v \in given : d = MaxVersion - v  BY DEF Below
<1>5. ASSUME NEW w \in given PROVE w <= v
  <2>1. MaxVersion - w \in Below /\ MaxVersion - w \in Nat /\ d \in Nat /\ w \in Int /\ v \in Int
    BY <1>2, LdAssumption DEF Below, Version, Control
  <2>2. ~(MaxVersion - w < d)  BY <1>3, <2>1 DEF Less
  <2> QED BY <1>4, <2>1, <2>2, LdAssumption
<1> QED BY <1>5 DEF Tip

LEMMA FlagTypes ==
  /\ \A c \in BOOLEAN : FreshFlag(c) \in FlagState /\ FreshFlag(c).vars = {Control, 1}
  /\ NoFlag \in FlagState /\ NoFlag.vars = {}
<1>1. NoPin \in [Flag -> Version \union {None}]  BY DEF NoPin
<1>2. Dark(1) \in Targeting  BY <1>1, Versions DEF Dark, Targeting
<1>3. [e \in Env |-> Dark(1)] \in [Env -> Targeting]  BY <1>2
<1>4. \A c \in BOOLEAN : FreshFlag(c) \in FlagState /\ FreshFlag(c).vars = {Control, 1}
  BY <1>3, Versions DEF FreshFlag, FlagState
<1>5. NoFlag \in FlagState /\ NoFlag.vars = {}
  <2> DEFINE fresh == FreshFlag(FALSE)
  <2>1. fresh \in FlagState  BY <1>4
  <2> HIDE DEF fresh
  <2>2. [fresh EXCEPT !.vars = {}] \in FlagState /\ [fresh EXCEPT !.vars = {}].vars = {}  BY <2>1 DEF FlagState
  <2> QED BY <2>2 DEF NoFlag, fresh
<1> QED BY <1>4, <1>5

LEMMA IdleTypes ==
  /\ IdleCall \in CallState /\ IdleApi \in ApiState
  /\ IdleCall.tool = "none" /\ IdleCall.step = "none" /\ IdleApi.status = "idle"
  /\ NoTags \in Tags /\ ~NoTags.ready /\ NoTags.metrics = {}
<1>1. IdleCall \in CallState /\ IdleCall.tool = "none" /\ IdleCall.step = "none"
  <2>1. NoFlag \in FlagState  BY FlagTypes
  <2> QED BY <2>1 DEF IdleCall, CallState, CallStep
<1>2. 0 \in 0 .. RateLimitRetries /\ 0 \in 0 .. ServerErrorRetries  BY LdAssumption
<1>3. IdleApi \in ApiState /\ IdleApi.status = "idle"  BY <1>2 DEF IdleApi, Op, ApiState, RequestKind
<1>4. NoTags \in Tags /\ ~NoTags.ready /\ NoTags.metrics = {}  BY DEF NoTags, Tags
<1> QED BY <1>1, <1>3, <1>4

LEMMA Resolved ==
  ASSUME NEW parent \in FlagState, NEW e \in Env, NEW want \in Version \union {None}
  PROVE  ResolveParent(parent, e, want) \in Version \union {None}
<1>1. parent.env[e] \in Targeting  BY DEF FlagState
<1>2. parent.env[e].heavy \in Version  BY <1>1 DEF Targeting
<1> QED BY <1>2, Versions DEF ResolveParent

\* Wiring pins the parent where it was not pinned, and may arm the child.
LEMMA WiredTypes ==
  ASSUME NEW t \in Targeting, NEW child \in FlagState, NEW parent \in FlagState, NEW p \in Flag, NEW e \in Env,
         NEW want \in Version \union {None}, child.vars # {}
  PROVE  Wired(t, child, parent, p, e, want) \in Targeting
<1> DEFINE v == ResolveParent(parent, e, want)
           pinned == IF child.env[e].pin[p] = None THEN [t EXCEPT !.pin[p] = v] ELSE t
           tip == Tip(child.vars)
<1>1. v \in Version \union {None}  BY Resolved
<1>2. tip \in Version
  <2>1. child.vars \in SUBSET Version  BY DEF FlagState
  <2> QED BY <2>1, Latest
<1> HIDE DEF v, tip
<1>3. [t EXCEPT !.pin[p] = v] \in Targeting
  <2>1. t.pin \in [Flag -> Version \union {None}]  BY DEF Targeting
  <2>2. [t.pin EXCEPT ![p] = v] \in [Flag -> Version \union {None}]  BY <1>1, <2>1
  <2>3. [t EXCEPT !.pin[p] = v] = [t EXCEPT !.pin = [t.pin EXCEPT ![p] = v]]  BY DEF Targeting
  <2> QED BY <2>2, <2>3 DEF Targeting
<1>4. pinned \in Targeting  BY <1>3
<1> HIDE DEF pinned
<1>5. [pinned EXCEPT !.on = TRUE, !.heavy = tip, !.light = tip] \in Targeting  BY <1>2, <1>4 DEF Targeting
<1>6. Wired(t, child, parent, p, e, want)
        \in {pinned, [pinned EXCEPT !.on = TRUE, !.heavy = tip, !.light = tip]}
  BY DEF Wired, pinned, v, tip
<1> QED BY <1>4, <1>5, <1>6

(***************************************************************************)
(* Requests: whose they are, and what LaunchDarkly does about them.        *)
(***************************************************************************)
LEMMA Keys ==
  ASSUME LdInv, call.step \notin {"none", "metric"}
  PROVE  call.key \in Flag /\ call.tool \in FlagTool
<1>1. call.tool \in {"none", "create_metric"} \union FlagTool  BY DEF LdInv, LdTypes, CallState
<1> QED BY <1>1 DEF LdInv, Protocol

LEMMA Sent ==
  ASSUME LdInv, api.status # "idle"
  PROVE  /\ call.tool # "none" /\ call.step # "none" /\ api.op.kind \in RequestKind
         /\ api.op.kind # "none"
         /\ api.op.kind = "createFlag" => call.step = "created" /\ api.op.key = call.key /\ call.key \in Flag
         /\ api.op.kind = "client" => call.step = "client" /\ api.op.key = call.key /\ call.key \in Flag
         /\ api.op.kind = "append" => call.step = "append" /\ api.op.key = call.key /\ call.key \in Flag
         /\ api.op.kind = "wire" => call.step = "wire" /\ api.op.key = call.key /\ call.key \in Flag
         /\ api.op.kind = "releases" => call.step = "releases" /\ api.op.key = call.key /\ call.key \in Flag
         /\ api.op.kind = "createMetric" => call.step = "metric" /\ api.op.key = call.key /\ call.key \in Metric
         /\ api.op.kind = "getFlag" => api.op.key \in Flag /\ call.step \in {"parent", "child", "variations", "state"}
<1>1. call.tool # "none"  BY IdleTypes DEF LdInv, Protocol
<1>2. call.tool \in {"create_metric"} \union FlagTool /\ api.op.kind \in RequestKind
  BY <1>1 DEF LdInv, LdTypes, CallState, ApiState
<1>3. call.step \in CallStep \ {"none"}  BY <1>1, <1>2 DEF LdInv, Protocol, FlagTool, CallStep
<1>4. call.step \in {"parent", "child", "wire"} => call.parent \in Flag  BY DEF LdInv, ArgsOK
<1>5. call.step = "metric" => call.key \in Metric
  BY <1>2 DEF LdInv, Protocol, FlagTool
<1>6. call.step # "metric" => call.key \in Flag  BY <1>3, Keys
<1>7. /\ Awaits("created", "createFlag", call.key) /\ Awaits("client", "client", call.key)
      /\ Awaits("parent", "getFlag", call.parent) /\ Awaits("child", "getFlag", call.key)
      /\ Awaits("wire", "wire", call.key)
      /\ Awaits("variations", "getFlag", call.key) /\ Awaits("append", "append", call.key)
      /\ Awaits("state", "getFlag", call.key) /\ Awaits("releases", "releases", call.key)
      /\ Awaits("metric", "createMetric", call.key)
  BY DEF LdInv, Protocol
<1> QED BY <1>1, <1>2, <1>3, <1>4, <1>5, <1>6, <1>7 DEF Awaits, Op, CallStep

\* Flags and metrics only ever gain.
Grow ==
  /\ flag' \in [Flag -> FlagState] /\ metric' \subseteq Metric /\ metric \subseteq metric'
  /\ \A f \in Flag : flag[f].vars \subseteq flag'[f].vars

WiredFlag ==
  [flag EXCEPT ![call.key].env[EnvOf(call.todo)] =
     Wired(flag[call.key].env[EnvOf(call.todo)], call.seen, call.up, call.parent, EnvOf(call.todo), call.want)]

\* One environment of one flag is rewritten.
Rewrites(gs, fs, k, e, t) ==
  /\ gs \in [Flag -> FlagState]
  /\ \A f \in Flag : gs[f].vars = fs[f].vars
  /\ \A f \in Flag : f # k => gs[f] = fs[f]
  /\ \A d \in Env : d # e => gs[k].env[d] = fs[k].env[d]
  /\ gs[k].env[e] = t

LEMMA Rewrite ==
  ASSUME NEW fs \in [Flag -> FlagState], NEW k \in Flag, NEW e \in Env, NEW t \in Targeting,
         NEW gs, gs = [fs EXCEPT ![k].env[e] = t]
  PROVE  Rewrites(gs, fs, k, e, t)
<1> DEFINE env == [fs[k].env EXCEPT ![e] = t]
           s == [fs[k] EXCEPT !.env = env]
<1>1. fs[k] \in FlagState /\ fs[k].env \in [Env -> Targeting]  BY DEF FlagState
<1>2. env \in [Env -> Targeting] /\ env[e] = t /\ \A d \in Env : d # e => env[d] = fs[k].env[d]  BY <1>1
<1>3. gs = [fs EXCEPT ![k] = s]  OBVIOUS
<1> HIDE DEF env
<1>4. s \in FlagState /\ s.env = env /\ s.vars = fs[k].vars  BY <1>1, <1>2 DEF FlagState
<1> HIDE DEF s
<1>5. gs \in [Flag -> FlagState] /\ gs[k] = s /\ \A f \in Flag : f # k => gs[f] = fs[f]  BY <1>3, <1>4
<1> QED BY <1>2, <1>4, <1>5 DEF Rewrites

\* The flags after an environment of the child was wired.
LEMMA Wiring ==
  ASSUME LdInv, api.status = "sent", api.op.kind = "wire"
  PROVE  /\ call.step = "wire" /\ call.key \in Flag /\ call.parent \in Flag /\ call.parent # call.key
         /\ call.todo # {} /\ EnvOf(call.todo) \in Env /\ EnvOf(call.todo) \in call.todo
         /\ WiredFlag \in [Flag -> FlagState]
         /\ \A f \in Flag : WiredFlag[f].vars = flag[f].vars /\ (f # call.key => WiredFlag[f] = flag[f])
         /\ \A d \in Env : d # EnvOf(call.todo) => WiredFlag[call.key].env[d] = flag[call.key].env[d]
         /\ WiredFlag[call.key].env[EnvOf(call.todo)] =
              Wired(flag[call.key].env[EnvOf(call.todo)], call.seen, call.up, call.parent, EnvOf(call.todo), call.want)
<1> DEFINE k == call.key
           e == EnvOf(call.todo)
           t == Wired(flag[k].env[e], call.seen, call.up, call.parent, e, call.want)
<1>1. LdTypes  BY DEF LdInv
<1>2. /\ k \in Flag /\ call.step = "wire"
      /\ call.todo # {} /\ call.parent \in Flag /\ call.seen.vars # {}
  BY Sent DEF LdInv, ArgsOK
<1>3. call.parent # k
  <2>1. call.tool = "create_flag"  BY <1>2, Keys DEF LdInv, Protocol, FlagTool
  <2> QED BY <2>1 DEF LdInv, ArgsOK
<1>4. call \in CallState /\ flag[k] \in FlagState  BY <1>1, <1>2 DEF LdTypes
<1>5. e \in call.todo /\ e \in Env /\ call.seen \in FlagState /\ call.up \in FlagState /\ call.want \in Version \union {None}
  BY <1>2, <1>4 DEF EnvOf, CallState
<1>6. flag[k].env[e] \in Targeting  BY <1>4, <1>5 DEF FlagState
<1>7. t \in Targeting  BY <1>2, <1>5, <1>6, WiredTypes
<1>8. WiredFlag = [flag EXCEPT ![k].env[e] = t]  BY DEF WiredFlag
<1> HIDE DEF t, e
<1>9. /\ WiredFlag \in [Flag -> FlagState]
      /\ \A f \in Flag : WiredFlag[f].vars = flag[f].vars /\ (f # k => WiredFlag[f] = flag[f])
      /\ \A d \in Env : d # e => WiredFlag[k].env[d] = flag[k].env[d]
      /\ WiredFlag[k].env[e] = t
  <2>1. flag \in [Flag -> FlagState]  BY <1>1 DEF LdTypes
  <2>2. Rewrites(WiredFlag, flag, k, e, t)  BY <1>2, <1>5, <1>7, <1>8, <2>1, Rewrite
  <2> QED BY <2>2 DEF Rewrites
<1> QED BY <1>2, <1>3, <1>5, <1>9 DEF t, e

\* The flags after a request that was served.
LEMMA Served ==
  ASSUME LdInv, api.status = "sent", Take(api.op)
  PROVE  /\ Grow
         /\ api.op.kind \notin {"createFlag", "client", "append", "wire"} => flag' = flag
         /\ api.op.kind = "wire" => call.todo # {} /\ flag' \in {flag, WiredFlag}
<1> DEFINE k == call.key
<1>1. LdTypes /\ api.op.kind \in RequestKind \ {"none"}  BY Sent DEF LdInv
<1>2. metric' \subseteq Metric /\ metric \subseteq metric'
  BY <1>1, Sent DEF LdTypes, Take, MetricsAfter
<1>3. CASE flag' = flag
  <2>1. Grow  BY <1>1, <1>2, <1>3 DEF Grow, LdTypes
  <2>2. api.op.kind = "wire" => call.todo # {}  BY Sent DEF LdInv, ArgsOK
  <2> QED BY <1>3, <2>1, <2>2
<1>4. CASE flag' # flag /\ api.op.kind = "createFlag"
  <2>1. k \in Flag /\ flag[k].vars = {} /\ flag' = [flag EXCEPT ![k] = FreshFlag(call.client)] /\ call.client \in BOOLEAN
    BY <1>1, <1>4, Sent DEF Take, FlagsAfter, Exists, LdTypes, CallState
  <2>2. FreshFlag(call.client) \in FlagState  BY <2>1, FlagTypes
  <2>3. Grow  BY <1>1, <1>2, <2>1, <2>2 DEF Grow, LdTypes
  <2> QED BY <1>4, <2>3
<1>5. CASE flag' # flag /\ api.op.kind = "client"
  <2> DEFINE s == [flag[k] EXCEPT !.client = TRUE]
  <2>1. k \in Flag /\ flag' = [flag EXCEPT ![k] = s]
    BY <1>1, <1>5, Sent DEF Take, FlagsAfter
  <2>2. flag[k] \in FlagState  BY <1>1, <2>1 DEF LdTypes
  <2>3. s \in FlagState /\ s.vars = flag[k].vars  BY <2>2 DEF FlagState
  <2> HIDE DEF s
  <2>4. Grow  BY <1>1, <1>2, <2>1, <2>3 DEF Grow, LdTypes
  <2> QED BY <1>5, <2>4
<1>6. CASE flag' # flag /\ api.op.kind = "append"
  <2> DEFINE s == [flag[k] EXCEPT !.vars = flag[k].vars \union {call.asked}]
  <2>1. k \in Flag /\ flag' = [flag EXCEPT ![k] = s] /\ call.asked \in Version
    BY <1>1, <1>6, Sent DEF Take, FlagsAfter, LdInv, ArgsOK
  <2>2. flag[k] \in FlagState  BY <1>1, <2>1 DEF LdTypes
  <2>3. s \in FlagState /\ s.vars = flag[k].vars \union {call.asked}  BY <2>1, <2>2 DEF FlagState
  <2> HIDE DEF s
  <2>4. Grow  BY <1>1, <1>2, <2>1, <2>3 DEF Grow, LdTypes
  <2> QED BY <1>6, <2>4
<1>7. CASE flag' # flag /\ api.op.kind = "wire"
  <2>1. flag' = WiredFlag  BY <1>7, Sent DEF Take, FlagsAfter, WiredFlag
  <2>2. Grow  BY <1>2, <1>7, <2>1, Wiring DEF Grow
  <2> QED BY <1>7, <2>1, <2>2, Wiring
<1>8. flag' = flag \/ api.op.kind \in {"createFlag", "client", "append", "wire"}
  BY DEF Take, FlagsAfter
<1> QED BY <1>3, <1>4, <1>5, <1>6, <1>7, <1>8

\* A good answer is true of the project it left.
LEMMA Answers ==
  ASSUME LdInv, api.status = "sent", Take(api.op), Answer(api.op) \in {"ok", "conflict"}
  PROVE  /\ api.op.kind = "createMetric" => api.op.key \in metric'
         /\ api.op.kind \in {"createFlag", "client", "getFlag", "releases", "append", "wire"} =>
              flag'[api.op.key].vars # {}
<1>1. Grow  BY Served
<1>2. CASE api.op.kind = "createMetric"  BY <1>2 DEF Take, MetricsAfter
<1>3. CASE api.op.kind \in {"client", "getFlag", "releases", "wire"}
  <2>1. api.op.key \in Flag /\ flag[api.op.key].vars # {}  BY <1>3, Sent DEF Answer, Exists
  <2> QED BY <1>1, <1>3, <2>1 DEF Grow
<1>4. CASE api.op.kind = "createFlag"
  <2>1. api.op.key \in Flag /\ call.client \in BOOLEAN /\ flag \in [Flag -> FlagState]
    BY <1>4, Sent DEF LdInv, LdTypes, CallState
  <2>2. CASE Exists(api.op.key)  BY <1>1, <1>4, <2>1, <2>2 DEF Grow, Exists
  <2>3. CASE ~Exists(api.op.key)
    <3>1. flag' = [flag EXCEPT ![api.op.key] = FreshFlag(call.client)]
      BY <1>4, <2>3 DEF Take, FlagsAfter, Answer
    <3> QED BY <1>4, <2>1, <3>1, FlagTypes
  <2> QED BY <2>2, <2>3
<1>5. CASE api.op.kind = "append"
  <2>1. /\ api.op.key \in Flag /\ flag \in [Flag -> FlagState]
        /\ flag' = [flag EXCEPT ![api.op.key].vars = @ \union {call.asked}]
    BY <1>5, Sent DEF Take, FlagsAfter, Answer, LdInv, LdTypes
  <2>2. flag[api.op.key] \in FlagState  BY <2>1
  <2>3. call.asked \in flag'[api.op.key].vars  BY <2>1, <2>2 DEF FlagState
  <2> QED BY <1>5, <2>3
<1> QED BY <1>2, <1>3, <1>4, <1>5

(***************************************************************************)
(* The calls' part of the invariant, group of actions by group.            *)
(***************************************************************************)
LEMMA LdUnmoved ==
  ASSUME LdInv, UNCHANGED <<flag, metric, api, call>>, world'.lately = world.lately \/ call.tool = "none"
  PROVE  LdInv'
<1>1. LdTypes' /\ Applied' /\ AnswerOK' /\ Protocol' /\ ArgsOK'
  BY DEF LdInv, LdTypes, Applied, AnswerOK, Succeeded, Exists, Protocol, Awaits, ArgsOK, ResolveParent
<1>2. call.tool = "none" => call.step = "none"  BY DEF LdInv, Protocol
<1>3. SeenOK'  BY <1>2 DEF LdInv, SeenOK
<1> QED BY <1>1, <1>3 DEF LdInv

LEMMA CallEnds ==
  ASSUME LdInv, UNCHANGED ld, call' = IdleCall, api' = IdleApi
  PROVE  LdInv'
<1>1. LdTypes'  BY IdleTypes DEF LdInv, LdTypes, ld
<1>2. /\ call'.tool = "none" /\ call'.step = "none" /\ call'.key = None /\ call'.parent = None
      /\ api'.status = "idle" /\ api'.applied = 0
  BY DEF IdleCall, IdleApi
<1>3. Applied' /\ AnswerOK' /\ Protocol' /\ ArgsOK' /\ SeenOK'
  BY <1>2 DEF Applied, AnswerOK, Succeeded, Protocol, ArgsOK, SeenOK, FlagTool
<1> QED BY <1>1, <1>3 DEF LdInv

\* What a call may ask next, and what it must know by then.
Leads(c, step, kind, key) ==
  \/ /\ c.tool = "create_flag" /\ c.key \in Flag /\ c.parent # c.key
     /\ \/ step = "created" /\ kind = "createFlag" /\ key = c.key
        \/ step = "client" /\ kind = "client" /\ key = c.key
        \/ step = "parent" /\ kind = "getFlag" /\ key = c.parent /\ c.parent \in Flag
        \/ step = "child" /\ kind = "getFlag" /\ key = c.key /\ c.parent \in Flag
        \/ /\ step = "wire" /\ kind = "wire" /\ key = c.key /\ c = call /\ call.step = "wire" /\ api.status = "idle"
           /\ call.todo # {} /\ ResolveParent(call.up, EnvOf(call.todo), call.want) # None
  \/ /\ c.tool = "add_variation" /\ c.key \in Flag /\ key = c.key
     /\ \/ step = "variations" /\ kind = "getFlag"
        \/ step = "append" /\ kind = "append" /\ c.asked \in Version
  \/ /\ c.tool \in {"use_existing_flag", "get_flag_state"} /\ c.key \in Flag /\ key = c.key
     /\ \/ step = "state" /\ kind = "getFlag"
        \/ step = "releases" /\ kind = "releases" /\ c.seen = flag[c.key]
  \/ c.tool = "create_metric" /\ c.key \in Metric /\ key = c.key /\ step = "metric" /\ kind = "createMetric"

LEMMA Awaiting ==
  ASSUME LdInv, UNCHANGED <<flag, metric>>, NEW c \in CallState, NEW step, NEW kind, NEW key,
         Leads(c, step, kind, key), Await(step, Op(kind, key), c)
  PROVE  LdInv' /\ call'.tool = c.tool
<1>1. kind \in RequestKind /\ key \in Flag \union Metric \union {None} /\ step \in CallStep \ {"none"}
  BY DEF Leads, RequestKind, CallStep
<1>2. call' = [c EXCEPT !.step = step] /\ api' = Send(Op(kind, key))  BY DEF Await
<1>3. /\ call' \in CallState /\ call'.step = step /\ call'.tool = c.tool /\ call'.key = c.key
      /\ call'.asked = c.asked /\ call'.parent = c.parent /\ call'.want = c.want /\ call'.seen = c.seen
      /\ call'.up = c.up /\ call'.todo = c.todo /\ call'.live = c.live
  BY <1>1, <1>2 DEF CallState
<1>4. api' = [op |-> Op(kind, key), status |-> "sent", rate |-> 0, server |-> 0, applied |-> 0]
  BY <1>2 DEF Send, IdleApi
<1>5. api' \in ApiState /\ api'.status = "sent" /\ api'.op = Op(kind, key) /\ api'.applied = 0
  <2>1. 0 \in 0 .. RateLimitRetries /\ 0 \in 0 .. ServerErrorRetries  BY LdAssumption
  <2> QED BY <1>1, <1>4, <2>1 DEF Op, ApiState
<1>6. LdTypes' /\ Applied' /\ AnswerOK'
  BY <1>3, <1>5 DEF LdInv, LdTypes, Applied, AnswerOK, Succeeded
<1>7. Protocol'
  BY <1>3, <1>5 DEF Leads, Protocol, Awaits, FlagTool
<1>8. ArgsOK'
  <2>1. call.step = "wire" => call.parent \in Flag /\ call.seen.vars # {}  BY DEF LdInv, ArgsOK
  <2>2. step = "wire" => c = call /\ call.todo # {} /\ ResolveParent(call.up, EnvOf(call.todo), call.want) # None
                         /\ call.step = "wire" /\ call.tool = "create_flag"
    BY DEF Leads
  <2>3. ResolveParent(call'.up, EnvOf(call'.todo), call'.want) = ResolveParent(c.up, EnvOf(c.todo), c.want)
    BY <1>3
  <2> QED BY <1>3, <2>1, <2>2, <2>3 DEF Leads, ArgsOK
<1>9. SeenOK'
  <2>1. step = "wire" => c = call /\ call.step = "wire" /\ api.status = "idle"  BY DEF Leads
  <2>2. EnvOf(call'.todo) = EnvOf(c.todo)  BY <1>3
  <2>3. step = "releases" => c.seen = flag[c.key]  BY DEF Leads
  <2> QED BY <1>3, <1>5, <2>1, <2>2, <2>3 DEF LdInv, SeenOK
<1> QED BY <1>3, <1>6, <1>7, <1>8, <1>9 DEF LdInv

\* The call of a tool begins with its first request.
LEMMA BeginsInv ==
  ASSUME LdInv, CreateFlag \/ AddVariation \/ GetFlagState \/ UseExisting \/ CreateMetric
  PROVE  LdInv' /\ call'.tool # "none" /\ Acting /\ UNCHANGED <<flag, metric, world, node, repo>>
<1>1. CASE CreateFlag
  <2>1. PICK f \in Flag, p \in Flag \union {None}, want \in Ask \union {Control} :
             /\ p # f
             /\ Begins("create_flag", Op("createFlag", f), "created",
                       [IdleCall EXCEPT !.key = f, !.client = f \in Frontend, !.parent = p, !.want = want])
    BY <1>1 DEF CreateFlag
  <2> DEFINE b == f \in Frontend
             c == [[IdleCall EXCEPT !.key = f, !.client = b, !.parent = p, !.want = want] EXCEPT !.tool = "create_flag"]
  <2>2. b \in BOOLEAN /\ want \in Version \union {None}  BY AgentAssumption, Versions
  <2> HIDE DEF b
  <2>3. c \in CallState /\ c.tool = "create_flag" /\ c.key = f /\ c.parent = p
    BY <2>2, IdleTypes DEF CallState, FlagTool
  <2>4. Await("created", Op("createFlag", f), c) /\ UNCHANGED <<flag, metric, world, node, repo>> /\ Acting
    BY <2>1 DEF Begins, May, ld, b
  <2> HIDE DEF c
  <2>5. Leads(c, "created", "createFlag", f)  BY <2>1, <2>3 DEF Leads
  <2> QED BY <2>3, <2>4, <2>5, Awaiting
<1>2. CASE AddVariation
  <2>1. PICK f \in Flag, v \in Ask :
             Begins("add_variation", Op("getFlag", f), "variations", [IdleCall EXCEPT !.key = f, !.asked = v])
    BY <1>2 DEF AddVariation
  <2> DEFINE c == [[IdleCall EXCEPT !.key = f, !.asked = v] EXCEPT !.tool = "add_variation"]
  <2>2. v \in Version \union {None}  BY AgentAssumption
  <2>3. c \in CallState /\ c.tool = "add_variation" /\ c.key = f
    BY <2>2, IdleTypes DEF CallState, FlagTool
  <2>4. Await("variations", Op("getFlag", f), c) /\ UNCHANGED <<flag, metric, world, node, repo>> /\ Acting
    BY <2>1 DEF Begins, May, ld
  <2> HIDE DEF c
  <2>5. Leads(c, "variations", "getFlag", f)  BY <2>3 DEF Leads
  <2> QED BY <2>3, <2>4, <2>5, Awaiting
<1>3. CASE GetFlagState
  <2>1. PICK f \in Flag : Begins("get_flag_state", Op("getFlag", f), "state", [IdleCall EXCEPT !.key = f])
    BY <1>3 DEF GetFlagState
  <2> DEFINE c == [[IdleCall EXCEPT !.key = f] EXCEPT !.tool = "get_flag_state"]
  <2>2. c \in CallState /\ c.tool = "get_flag_state" /\ c.key = f
    BY IdleTypes DEF CallState, FlagTool
  <2>3. Await("state", Op("getFlag", f), c) /\ UNCHANGED <<flag, metric, world, node, repo>> /\ Acting
    BY <2>1 DEF Begins, May, ld
  <2> HIDE DEF c
  <2>4. Leads(c, "state", "getFlag", f)  BY <2>2 DEF Leads
  <2> QED BY <2>2, <2>3, <2>4, Awaiting
<1>4. CASE UseExisting
  <2>1. PICK f \in Flag, v \in Ask :
             Begins("use_existing_flag", Op("getFlag", f), "state", [IdleCall EXCEPT !.key = f, !.asked = v])
    BY <1>4 DEF UseExisting
  <2> DEFINE c == [[IdleCall EXCEPT !.key = f, !.asked = v] EXCEPT !.tool = "use_existing_flag"]
  <2>2. v \in Version \union {None}  BY AgentAssumption
  <2>3. c \in CallState /\ c.tool = "use_existing_flag" /\ c.key = f
    BY <2>2, IdleTypes DEF CallState, FlagTool
  <2>4. Await("state", Op("getFlag", f), c) /\ UNCHANGED <<flag, metric, world, node, repo>> /\ Acting
    BY <2>1 DEF Begins, May, ld
  <2> HIDE DEF c
  <2>5. Leads(c, "state", "getFlag", f)  BY <2>3 DEF Leads
  <2> QED BY <2>3, <2>4, <2>5, Awaiting
<1>5. CASE CreateMetric
  <2>1. PICK m \in Metric, e \in BOOLEAN :
             Begins("create_metric", Op("createMetric", m), "metric", [IdleCall EXCEPT !.key = m, !.client = e])
    BY <1>5 DEF CreateMetric
  <2> DEFINE c == [[IdleCall EXCEPT !.key = m, !.client = e] EXCEPT !.tool = "create_metric"]
  <2>2. c \in CallState /\ c.tool = "create_metric" /\ c.key = m
    BY IdleTypes DEF CallState
  <2>3. Await("metric", Op("createMetric", m), c) /\ UNCHANGED <<flag, metric, world, node, repo>> /\ Acting
    BY <2>1 DEF Begins, May, ld
  <2> HIDE DEF c
  <2>4. Leads(c, "metric", "createMetric", m)  BY <2>2 DEF Leads
  <2> QED BY <2>2, <2>3, <2>4, Awaiting
<1> QED BY <1>1, <1>2, <1>3, <1>4, <1>5

\* LaunchDarkly, or the network, answers the request in flight.
LEMMA Responded ==
  ASSUME LdInv, api.status = "sent", UNCHANGED <<call, world>>, Take(api.op) \/ UNCHANGED ld,
         api' \in ApiState, api'.op = api.op, api'.status # "idle", Applied',
         api'.status \in {"ok", "conflict"} => Take(api.op) /\ Answer(api.op) \in {"ok", "conflict"},
         api'.status = "sent" /\ ~IsRetryableOnServerError(api.op) => UNCHANGED ld
  PROVE  LdInv' /\ Grow
<1>1. LdTypes /\ call.step # "none" /\ call.tool # "none"  BY Sent DEF LdInv
<1>2. Grow  BY <1>1, Served DEF Grow, ld, LdTypes
<1>3. LdTypes'  BY <1>1, <1>2 DEF LdTypes, Grow
<1>4. AnswerOK'  BY Answers DEF AnswerOK, Succeeded, Exists
<1>5. Protocol'  BY <1>1 DEF LdInv, Protocol, Awaits
<1>6. ArgsOK'
  <2>1. ResolveParent(call'.up, EnvOf(call'.todo), call'.want) = ResolveParent(call.up, EnvOf(call.todo), call.want)
    OBVIOUS
  <2> QED BY <2>1 DEF LdInv, ArgsOK
<1>7. SeenOK'
  <2>1. CASE call.step = "releases"
    <3>1. api.op.kind = "releases"  BY <2>1 DEF LdInv, Protocol, Awaits, Op
    <3>2. flag' = flag  BY <3>1, Served DEF ld
    <3> QED BY <2>1, <3>2 DEF LdInv, SeenOK
  <2>2. CASE call.step = "wire"
    <3>1. api.op.kind = "wire"  BY <2>2 DEF LdInv, Protocol, Awaits, Op
    <3>2. CASE flag' = flag
      BY <2>2, <3>2 DEF LdInv, SeenOK
    <3>3. CASE flag' # flag
      <4>1. flag' = WiredFlag /\ api'.status # "sent"
        BY <3>1, <3>3, Served DEF ld, IsRetryableOnServerError, IsGet, IsCreate
      <4>2. call.todo \subseteq Env  BY <1>1 DEF LdTypes, CallState
      <4> QED BY <2>2, <3>1, <4>1, <4>2, Wiring DEF LdInv, SeenOK
    <3> QED BY <3>2, <3>3
  <2> QED BY <2>1, <2>2 DEF SeenOK
<1> QED BY <1>2, <1>3, <1>4, <1>5, <1>6, <1>7 DEF LdInv

LEMMA RequestInv ==
  ASSUME LdInv, Request
  PROVE  LdInv' /\ Grow /\ UNCHANGED <<call, world>>
<1>1. /\ api.status = "sent" /\ UNCHANGED <<call, world>> /\ api \in ApiState
      /\ api.applied \in Nat /\ api.rate \in 0 .. RateLimitRetries /\ api.server \in 0 .. ServerErrorRetries
      /\ ~IsRetryableOnServerError(api.op) => api.applied = 0
  BY DEF Request, Serve, RateLimited, ServerError, LdInv, LdTypes, ApiState, Applied
<1>2. CASE Serve
  <2> DEFINE n == api.applied + 1
             st == Answer(api.op)
  <2>1. st \in {"ok", "conflict", "failed"} /\ n \in Nat /\ (~IsRetryableOnServerError(api.op) => n = 1)
    BY <1>1 DEF Answer
  <2>2. api' = [api EXCEPT !.status = st, !.applied = n] /\ Take(api.op)  BY <1>2 DEF Serve
  <2> HIDE DEF n, st
  <2>3. api' \in ApiState /\ api'.op = api.op /\ api'.status = st /\ api'.applied = n
    BY <1>1, <2>1, <2>2 DEF ApiState
  <2>4. Applied'  BY <2>1, <2>3 DEF Applied, IsRetryableOnServerError, IsGet, IsCreate
  <2> QED BY <1>1, <2>1, <2>2, <2>3, <2>4, Responded DEF st
<1>3. CASE RateLimited
  <2>1. UNCHANGED ld  BY <1>3 DEF RateLimited
  <2>2. CASE api.rate < RateLimitRetries
    <3> DEFINE r == api.rate + 1
    <3>1. r \in 0 .. RateLimitRetries  BY <1>1, <2>2, LdAssumption
    <3>2. api' = [api EXCEPT !.rate = r]  BY <1>3, <2>2 DEF RateLimited
    <3> HIDE DEF r
    <3>3. api' \in ApiState /\ api'.op = api.op /\ api'.status = "sent" /\ api'.applied = api.applied
      BY <1>1, <3>1, <3>2 DEF ApiState
    <3>4. Applied'  BY <1>1, <3>3 DEF Applied, IsRetryableOnServerError, IsGet, IsCreate
    <3> QED BY <1>1, <2>1, <3>3, <3>4, Responded
  <2>3. CASE ~(api.rate < RateLimitRetries)
    <3>1. api' = [api EXCEPT !.status = "failed"]  BY <1>3, <2>3 DEF RateLimited
    <3>2. api' \in ApiState /\ api'.op = api.op /\ api'.status = "failed" /\ api'.applied = api.applied
      BY <1>1, <3>1 DEF ApiState
    <3>3. Applied'  BY <1>1, <3>2 DEF Applied, IsRetryableOnServerError, IsGet, IsCreate
    <3> QED BY <1>1, <2>1, <3>2, <3>3, Responded
  <2> QED BY <2>2, <2>3
<1>4. CASE ServerError
  <2>1. PICK done \in BOOLEAN :
          /\ IF done THEN Take(api.op) ELSE UNCHANGED ld
          /\ LET after == [api EXCEPT !.applied = IF done THEN @ + 1 ELSE @] IN
             \/ api' = IF api.server < ServerErrorRetries /\ IsRetryableOnServerError(api.op)
                       THEN [after EXCEPT !.server = @ + 1] ELSE [after EXCEPT !.status = "failed"]
             \/ api' = [after EXCEPT !.status = "failed"]
    BY <1>4 DEF ServerError
  <2> DEFINE n == IF done THEN api.applied + 1 ELSE api.applied
             after == [api EXCEPT !.applied = n]
  <2>2. n \in Nat /\ (~IsRetryableOnServerError(api.op) => n <= 1)  BY <1>1
  <2>3. after = [api EXCEPT !.applied = IF done THEN @ + 1 ELSE @]  OBVIOUS
  <2> HIDE DEF n
  <2>4. after \in ApiState /\ after.op = api.op /\ after.status = "sent" /\ after.applied = n /\ after.server = api.server
    BY <1>1, <2>2 DEF ApiState
  <2> HIDE DEF after
  <2>5. Take(api.op) \/ UNCHANGED ld  BY <2>1
  <2>6. CASE api.server < ServerErrorRetries /\ IsRetryableOnServerError(api.op) /\ api' = [after EXCEPT !.server = after.server + 1]
    <3>1. after.server + 1 \in 0 .. ServerErrorRetries  BY <1>1, <2>4, <2>6, LdAssumption
    <3>2. api' \in ApiState /\ api'.op = api.op /\ api'.status = "sent"
      BY <2>4, <2>6, <3>1 DEF ApiState
    <3>3. Applied'  BY <2>6, <3>2 DEF Applied, IsRetryableOnServerError, IsGet, IsCreate
    <3> QED BY <1>1, <2>5, <2>6, <3>2, <3>3, Responded
  <2>7. CASE api' = [after EXCEPT !.status = "failed"]
    <3>1. api' \in ApiState /\ api'.op = api.op /\ api'.status = "failed" /\ api'.applied = n
      BY <2>4, <2>7 DEF ApiState
    <3>2. Applied'  BY <2>2, <3>1 DEF Applied, IsRetryableOnServerError, IsGet, IsCreate
    <3> QED BY <1>1, <2>5, <3>1, <3>2, Responded
  <2> QED BY <2>1, <2>3, <2>6, <2>7
<1> QED BY <1>1, <1>2, <1>3, <1>4 DEF Request

LEMMA ToolOf ==
  ASSUME LdInv
  PROVE  /\ call \in CallState /\ flag \in [Flag -> FlagState]
         /\ call.step \in {"created", "client", "parent", "child", "wire"} =>
              call.tool = "create_flag" /\ call.key \in Flag /\ call.parent # call.key
         /\ call.step \in {"variations", "append"} => call.tool = "add_variation" /\ call.key \in Flag
         /\ call.step \in {"state", "releases"} =>
              call.tool \in {"use_existing_flag", "get_flag_state"} /\ call.key \in Flag
         /\ call.step \in {"parent", "child", "wire"} => call.parent \in Flag
<1>1. call.tool \in {"none", "create_metric"} \union FlagTool /\ call \in CallState /\ flag \in [Flag -> FlagState]
  BY DEF LdInv, LdTypes, CallState
<1>2. call.step \notin {"none", "metric"} => call.key \in Flag  BY Keys
<1> QED BY <1>1, <1>2 DEF LdInv, Protocol, ArgsOK, FlagTool

\* The child has been read: its environments are to be wired one by one.
LEMMA ReadChildInv == ASSUME LdInv, ReadChild PROVE LdInv' /\ call'.tool = call.tool
<1> DEFINE live == (flag[call.parent] = call.up)
<1>1. call.step = "child" /\ Succeeded /\ api.status # "idle" /\ UNCHANGED <<flag, metric>>
  BY DEF ReadChild, Answered, ld
<1>2. call.tool = "create_flag" /\ call.key \in Flag /\ call.parent \in Flag /\ call.parent # call.key
  BY <1>1, ToolOf
<1>3. flag[call.key].vars # {}
  <2>1. api.op.kind = "getFlag" /\ api.op.key = call.key  BY <1>1 DEF LdInv, Protocol, Awaits, Op
  <2> QED BY <1>1, <2>1 DEF LdInv, AnswerOK, Exists
<1>4. call' = [call EXCEPT !.step = "wire", !.seen = flag[call.key], !.todo = Env, !.live = live] /\ live \in BOOLEAN
      /\ api' = IdleApi
  BY DEF ReadChild
<1>5. flag[call.key] \in FlagState  BY <1>2, ToolOf
<1>6. /\ call' \in CallState /\ call'.step = "wire" /\ call'.tool = call.tool /\ call'.key = call.key
      /\ call'.parent = call.parent /\ call'.seen = flag[call.key] /\ call'.up = call.up /\ call'.live = live
  <2>1. PICK s \in FlagState : s = flag[call.key]  BY <1>5
  <2>2. PICK l \in BOOLEAN : l = live  BY <1>4
  <2>3. call \in CallState /\ "wire" \in CallStep  BY ToolOf DEF CallStep
  <2>4. call' = [call EXCEPT !.step = "wire", !.seen = s, !.todo = Env, !.live = l]  BY <1>4, <2>1, <2>2
  <2>5. call' \in CallState  BY <2>3, <2>4 DEF CallState
  <2> HIDE DEF live
  <2> QED BY <2>1, <2>2, <2>3, <2>4, <2>5 DEF CallState
<1>7. api'.status = "idle" /\ api'.applied = 0 /\ api' \in ApiState  BY <1>4, IdleTypes DEF IdleApi
<1>8. LdTypes' /\ Applied' /\ AnswerOK' /\ Protocol' /\ ArgsOK'
  <2>1. LdTypes' /\ Applied' /\ AnswerOK'
    BY <1>1, <1>6, <1>7 DEF LdInv, LdTypes, Applied, AnswerOK, Succeeded
  <2>2. Protocol'  BY <1>2, <1>6, <1>7 DEF Protocol, FlagTool
  <2>3. ArgsOK'  BY <1>2, <1>3, <1>6, <1>7 DEF ArgsOK
  <2> QED BY <2>1, <2>2, <2>3
<1>9. SeenOK'  BY <1>1, <1>6 DEF SeenOK
<1> QED BY <1>6, <1>8, <1>9 DEF LdInv

\* An environment is wired, or left as it is.
LEMMA EnvironmentDone ==
  ASSUME LdInv, call.step = "wire", call.todo # {}, api' = IdleApi, UNCHANGED <<flag, metric>>,
         call' = [call EXCEPT !.todo = @ \ {EnvOf(call.todo)}]
  PROVE  LdInv' /\ call'.tool = call.tool
<1>1. call \in CallState /\ call.tool = "create_flag"  BY ToolOf
<1>2. /\ call' \in CallState /\ call'.step = "wire" /\ call'.tool = call.tool /\ call'.key = call.key
      /\ call'.parent = call.parent /\ call'.seen = call.seen /\ call'.up = call.up /\ call'.live = call.live
      /\ call'.todo = call.todo \ {EnvOf(call.todo)}
  BY <1>1 DEF CallState
<1>3. api'.status = "idle" /\ api'.applied = 0 /\ api' \in ApiState  BY IdleTypes DEF IdleApi
<1>4. LdTypes' /\ Applied' /\ AnswerOK' /\ Protocol' /\ ArgsOK'
  BY <1>1, <1>2, <1>3, ToolOf DEF LdInv, LdTypes, Applied, AnswerOK, Succeeded, Protocol, ArgsOK, FlagTool
<1>5. SeenOK'  BY <1>2 DEF LdInv, SeenOK
<1> QED BY <1>2, <1>4, <1>5 DEF LdInv

LEMMA WriterInv ==
  ASSUME LdInv, Writer
  PROVE  LdInv' /\ UNCHANGED <<flag, metric, world>> /\ call'.tool = call.tool
<1>1. UNCHANGED <<flag, metric, world>>
  BY DEF Writer, EnsureClientSide, ReadParent, ReadChild, WireNext, WireDone, AppendVariation, ReadReleases, ld
<1>2. CASE EnsureClientSide
  <2>1. Leads(call, "client", "client", call.key)  BY <1>2, ToolOf DEF EnsureClientSide, Answered, Leads
  <2> QED BY <1>1, <1>2, <2>1, ToolOf, Awaiting DEF EnsureClientSide
<1>3. CASE ReadParent
  <2> DEFINE c == [call EXCEPT !.up = flag[call.parent]]
  <2>1. call.step = "parent" /\ Await("child", Op("getFlag", call.key), c)  BY <1>3 DEF ReadParent, Answered
  <2>2. call.parent \in Flag  BY <2>1, ToolOf
  <2>3. c \in CallState /\ c.tool = call.tool /\ c.key = call.key /\ c.parent = call.parent
    BY <2>2, ToolOf DEF CallState
  <2> HIDE DEF c
  <2>4. Leads(c, "child", "getFlag", call.key)  BY <2>1, <2>3, ToolOf DEF Leads
  <2> QED BY <1>1, <2>1, <2>3, <2>4, Awaiting
<1>4. CASE ReadChild  BY <1>1, <1>4, ReadChildInv
<1>5. CASE WireNext
  <2> DEFINE e == EnvOf(call.todo)
  <2>1. call.step = "wire" /\ api.status = "idle" /\ call.todo # {}  BY <1>5 DEF WireNext
  <2>2. CASE ResolveParent(call.up, e, call.want) # None /\ Await("wire", Op("wire", call.key), call)
    <3>1. Leads(call, "wire", "wire", call.key)  BY <2>1, <2>2, ToolOf DEF Leads
    <3> QED BY <1>1, <2>2, <3>1, ToolOf, Awaiting
  <2>3. CASE call' = [call EXCEPT !.todo = @ \ {e}] /\ UNCHANGED api
    <3>1. call \in CallState /\ call.tool = "create_flag"  BY <2>1, ToolOf
    <3>2. /\ call' \in CallState /\ call'.step = "wire" /\ call'.tool = call.tool /\ call'.key = call.key
          /\ call'.parent = call.parent /\ call'.seen = call.seen /\ call'.up = call.up /\ call'.live = call.live
          /\ call'.todo = call.todo \ {e}
      BY <2>1, <2>3, <3>1 DEF CallState
    <3>3. LdTypes' /\ Applied' /\ AnswerOK' /\ Protocol' /\ ArgsOK'
      BY <1>1, <2>1, <2>3, <3>1, <3>2, ToolOf
      DEF LdInv, LdTypes, Applied, AnswerOK, Succeeded, Protocol, ArgsOK, FlagTool
    <3>4. SeenOK'  BY <1>1, <2>1, <2>3, <3>2 DEF LdInv, SeenOK
    <3> QED BY <1>1, <3>2, <3>3, <3>4 DEF LdInv
  <2> QED BY <1>5, <2>2, <2>3 DEF WireNext
<1>6. CASE WireDone
  <2>1. call.step = "wire" /\ api.status # "idle" /\ api' = IdleApi  BY <1>6 DEF WireDone, Answered
  <2>2. call.todo # {}  BY <2>1 DEF LdInv, ArgsOK
  <2>3. call' = [call EXCEPT !.todo = @ \ {EnvOf(call.todo)}]  BY <1>6 DEF WireDone
  <2> QED BY <1>1, <2>1, <2>2, <2>3, EnvironmentDone
<1>7. CASE AppendVariation
  <2> DEFINE v == Intended
             c == [call EXCEPT !.asked = v]
  <2>1. call.step = "variations" /\ Await("append", Op("append", call.key), c) /\ v \in Version
    BY <1>7 DEF AppendVariation, Answered
  <2> HIDE DEF v
  <2>2. c \in CallState /\ c.tool = call.tool /\ c.key = call.key /\ c.asked = v
    BY <2>1, ToolOf DEF CallState
  <2> HIDE DEF c
  <2>3. Leads(c, "append", "append", call.key)  BY <2>1, <2>2, ToolOf DEF Leads
  <2> QED BY <1>1, <2>1, <2>2, <2>3, Awaiting
<1>8. CASE ReadReleases
  <2> DEFINE c == [call EXCEPT !.seen = flag[call.key]]
  <2>1. call.step = "state" /\ Await("releases", Op("releases", call.key), c)  BY <1>8 DEF ReadReleases, Answered
  <2>2. flag[call.key] \in FlagState  BY <2>1, ToolOf
  <2>3. c \in CallState /\ c.tool = call.tool /\ c.key = call.key /\ c.seen = flag[call.key]
    BY <2>2, ToolOf DEF CallState
  <2> HIDE DEF c
  <2>4. Leads(c, "releases", "releases", call.key)  BY <2>1, <2>3, ToolOf DEF Leads
  <2> QED BY <1>1, <2>1, <2>3, <2>4, Awaiting
<1> QED BY <1>2, <1>3, <1>4, <1>5, <1>6, <1>7, <1>8 DEF Writer

\* Somebody else's move: what a call has read may be stale from here on.
LEMMA Meddled ==
  ASSUME LdInv, NEW fs \in [Flag -> FlagState], \A f \in Flag : flag[f].vars \subseteq fs[f].vars, Meddle(fs)
  PROVE  LdInv' /\ Grow /\ call'.tool = call.tool
<1>1. /\ flag' = fs /\ call' = [call EXCEPT !.live = FALSE] /\ UNCHANGED <<metric, api>>
      /\ world' = [moves |-> world.moves + 1, lately |-> TRUE]
  BY DEF Meddle
<1>2. Grow  BY <1>1 DEF Grow, LdInv, LdTypes
<1>3. /\ call' \in CallState /\ call'.step = call.step /\ call'.tool = call.tool /\ call'.key = call.key
      /\ call'.asked = call.asked /\ call'.parent = call.parent /\ call'.want = call.want
      /\ call'.seen = call.seen /\ call'.up = call.up /\ call'.todo = call.todo /\ call'.live = FALSE
  BY <1>1, ToolOf DEF CallState
<1>4. LdTypes' /\ Applied' /\ Protocol'
  BY <1>1, <1>2, <1>3 DEF LdInv, LdTypes, Grow, Applied, Protocol, Awaits
<1>5. AnswerOK'
  <2>1. api.status # "idle" /\ api.op.kind \in {"createFlag", "client", "getFlag", "releases", "append", "wire"} =>
          api.op.key \in Flag
    BY Sent
  <2> QED BY <1>1, <1>2, <2>1 DEF LdInv, AnswerOK, Succeeded, Exists, Grow
<1>6. ArgsOK'
  <2>1. ResolveParent(call'.up, EnvOf(call'.todo), call'.want) = ResolveParent(call.up, EnvOf(call.todo), call.want)
    BY <1>3
  <2> QED BY <1>1, <1>3, <2>1 DEF LdInv, ArgsOK
<1>7. SeenOK'
  <2>1. call.step = "releases" => call.key \in Flag  BY ToolOf
  <2> QED BY <1>1, <1>3, <2>1 DEF LdInv, SeenOK
<1> QED BY <1>2, <1>3, <1>4, <1>5, <1>6, <1>7 DEF LdInv

LEMMA WorldInv ==
  ASSUME LdInv, World
  PROVE  LdInv' /\ Grow /\ call'.tool = call.tool /\ world' \in [moves : {world.moves + 1}, lately : {TRUE}]
<1>1. PICK f \in Flag : OthersCreate(f) \/ \E e \in Env : StartRollout(f, e) \/ EndRollout(f, e) \/ HumanTargets(f, e)
  BY DEF World
<1>2. flag \in [Flag -> FlagState] /\ flag[f] \in FlagState  BY ToolOf
<1>3. world' \in [moves : {world.moves + 1}, lately : {TRUE}]
  <2>1. \E fs : Meddle(fs)  BY <1>1 DEF OthersCreate, StartRollout, EndRollout, HumanTargets
  <2>2. world' = [moves |-> world.moves + 1, lately |-> TRUE]  BY <2>1 DEF Meddle
  <2> QED BY <2>2
<1>4. ASSUME NEW fs, Meddle(fs), NEW e \in Env, NEW t \in Targeting, fs = [flag EXCEPT ![f].env[e] = t]
      PROVE  LdInv' /\ Grow /\ call'.tool = call.tool
  <2>1. Rewrites(fs, flag, f, e, t)  BY <1>2, <1>4, Rewrite
  <2>2. fs \in [Flag -> FlagState] /\ \A g \in Flag : flag[g].vars \subseteq fs[g].vars  BY <2>1 DEF Rewrites
  <2> QED BY <1>4, <2>2, Meddled
<1>5. CASE OthersCreate(f)
  <2>1. PICK fs : fs = [flag EXCEPT ![f] = FreshFlag(FALSE)] /\ flag[f].vars = {} /\ Meddle(fs)
    BY <1>5 DEF OthersCreate, Exists
  <2>2. fs \in [Flag -> FlagState] /\ \A g \in Flag : flag[g].vars \subseteq fs[g].vars
    BY <1>2, <2>1, FlagTypes
  <2>3. Meddle(fs)  BY <2>1
  <2> QED BY <1>3, <2>2, <2>3, Meddled
<1>6. ASSUME NEW e \in Env, StartRollout(f, e) PROVE LdInv' /\ Grow /\ call'.tool = call.tool
  <2>1. PICK v \in flag[f].vars : Meddle([flag EXCEPT ![f].env[e].light = v])  BY <1>6 DEF StartRollout
  <2> DEFINE t == [flag[f].env[e] EXCEPT !.light = v]
  <2>2. flag[f].env[e] \in Targeting /\ v \in Version  BY <1>2 DEF FlagState
  <2>3. t \in Targeting  BY <2>2 DEF Targeting
  <2>4. [flag EXCEPT ![f].env[e].light = v] = [flag EXCEPT ![f].env[e] = t]  OBVIOUS
  <2> HIDE DEF t
  <2> QED BY <1>4, <2>1, <2>3, <2>4
<1>7. ASSUME NEW e \in Env, EndRollout(f, e) PROVE LdInv' /\ Grow /\ call'.tool = call.tool
  <2>1. PICK v \in Arms(flag[f].env[e]) : Meddle([flag EXCEPT ![f].env[e].heavy = v, ![f].env[e].light = v])
    BY <1>7 DEF EndRollout
  <2> DEFINE t == [flag[f].env[e] EXCEPT !.heavy = v, !.light = v]
  <2>2. flag[f].env[e] \in Targeting  BY <1>2 DEF FlagState
  <2>3. v \in Version  BY <2>2, Versions DEF Arms, Targeting
  <2>4. t \in Targeting  BY <2>2, <2>3 DEF Targeting
  <2>5. [flag EXCEPT ![f].env[e].heavy = v, ![f].env[e].light = v] = [flag EXCEPT ![f].env[e] = t]
    BY <1>2, <2>2 DEF FlagState
  <2> HIDE DEF t
  <2> QED BY <1>4, <2>1, <2>4, <2>5
<1>8. ASSUME NEW e \in Env, HumanTargets(f, e) PROVE LdInv' /\ Grow /\ call'.tool = call.tool
  <2>1. flag[f].env[e] \in Targeting  BY <1>2 DEF FlagState
  <2>2. CASE Meddle([flag EXCEPT ![f].env[e].on = ~@])
    <3> DEFINE t == [flag[f].env[e] EXCEPT !.on = ~flag[f].env[e].on]
    <3>1. t \in Targeting  BY <2>1 DEF Targeting
    <3>2. [flag EXCEPT ![f].env[e].on = ~@] = [flag EXCEPT ![f].env[e] = t]  OBVIOUS
    <3> HIDE DEF t
    <3> QED BY <1>4, <2>2, <3>1, <3>2
  <2>3. ASSUME NEW p \in Flag, NEW v \in flag[p].vars, Meddle([flag EXCEPT ![f].env[e].pin[p] = v])
        PROVE  LdInv' /\ Grow /\ call'.tool = call.tool
    <3> DEFINE pin == [flag[f].env[e].pin EXCEPT ![p] = v]
               t == [flag[f].env[e] EXCEPT !.pin = pin]
    <3>1. flag[p] \in FlagState  BY <1>2
    <3>2. v \in Version  BY <3>1 DEF FlagState
    <3>3. pin \in [Flag -> Version \union {None}]  BY <2>1, <3>2 DEF Targeting
    <3>4. [flag EXCEPT ![f].env[e].pin[p] = v] = [flag EXCEPT ![f].env[e] = t]  OBVIOUS
    <3> HIDE DEF pin
    <3>5. t \in Targeting  BY <2>1, <3>3 DEF Targeting
    <3> HIDE DEF t
    <3> QED BY <1>4, <2>3, <3>4, <3>5
  <2> QED BY <1>8, <2>2, <2>3 DEF HumanTargets
<1> QED BY <1>1, <1>3, <1>5, <1>6, <1>7, <1>8

(***************************************************************************)
(* The node's part of the invariant.                                       *)
(***************************************************************************)
LEMMA NodeUnmoved ==
  ASSUME NodeInv, Grow, UNCHANGED node, call'.tool # "none" => call.tool # "none" \/ Acting
  PROVE  NodeInv'
<1>1. TagsOK(node.tags)'
  BY DEF NodeInv, TagsOK, Exists, Grow
<1>2. HandoffHolds'
  BY DEF NodeInv, TagsOK, HandoffHolds, Grow
<1> QED BY <1>1, <1>2 DEF NodeInv, Acting

LEMMA NodeMoves ==
  ASSUME UNCHANGED <<flag, metric>>, NEW n \in NodeState, node' = n,
         call'.tool # "none" => n.phase \in {"acting", "forced"} /\ n.calls > 0,
         n.verdict # "none" => n.phase = "done", TagsOK(n.tags),
         n.verdict = "ok" /\ n.tags.ready /\ n.tags.variation # None =>
           n.tags.variation \in flag[n.tags.key].vars
  PROVE  NodeInv'
<1>1. TagsOK(node.tags)' /\ HandoffHolds'  BY DEF TagsOK, Exists, HandoffHolds
<1> QED BY <1>1 DEF NodeInv

\* A call that is over at once.
LEMMA Acts ==
  ASSUME NodeInv, Acting, UNCHANGED <<flag, metric, call>>, NEW n \in NodeState,
         n.phase = node.phase, n.calls = node.calls, n.verdict = node.verdict, TagsOK(n.tags),
         node' = [n EXCEPT !.calls = n.calls - 1]
  PROVE  NodeInv'
<1> DEFINE m == [n EXCEPT !.calls = n.calls - 1]
<1>1. n.calls \in Nat /\ n.calls > 0 /\ n.verdict = "none" /\ call.tool = "none"
  BY DEF NodeInv, Acting, NodeState
<1>2. n.calls - 1 \in Nat  BY <1>1
<1>3. m \in NodeState /\ m.phase = n.phase /\ m.verdict = n.verdict /\ m.tags = n.tags
  BY <1>2 DEF NodeState
<1>4. node' = m  OBVIOUS
<1> HIDE DEF m
<1> QED BY <1>1, <1>3, <1>4, NodeMoves

LEMMA TagsAct ==
  ASSUME NodeInv, NEW tags \in Tags
  PROVE  /\ [node EXCEPT !.tags = tags] \in NodeState
         /\ [node EXCEPT !.tags = tags].tags = tags
         /\ [node EXCEPT !.tags = tags].phase = node.phase
         /\ [node EXCEPT !.tags = tags].calls = node.calls
         /\ [node EXCEPT !.tags = tags].verdict = node.verdict
BY DEF NodeInv, NodeState

\* A call of the writer returns, or goes on, with tags that are facts.
LEMMA Returns ==
  ASSUME NodeInv, call.tool # "none", UNCHANGED ld, NEW tags \in Tags, TagsOK(tags), Returned(tags)
  PROVE  NodeInv'
<1> DEFINE m == [node EXCEPT !.calls = node.calls - 1, !.tags = tags]
<1>1. node \in NodeState /\ node.calls \in Nat /\ node.calls > 0 /\ node.verdict = "none"
  BY DEF NodeInv, NodeState
<1>2. node.calls - 1 \in Nat  BY <1>1
<1>3. m \in NodeState /\ m.verdict = "none" /\ m.tags = tags
  BY <1>1, <1>2 DEF NodeState
<1>4. node' = m /\ call' = IdleCall /\ UNCHANGED <<flag, metric>>  BY DEF Returned, ld
<1>5. call'.tool = "none"  BY <1>4, IdleTypes
<1> HIDE DEF m
<1> QED BY <1>3, <1>4, <1>5, NodeMoves

LEMMA TagTypes ==
  ASSUME NodeInv
  PROVE  node \in NodeState /\ node.tags \in Tags /\ TagsOK(node.tags)
BY DEF NodeInv, NodeState

LEMMA SimpleCalls ==
  ASSUME NodeInv, Inspect \/ Tag \/ ReadDocs \/ QueryRepos
  PROVE  NodeInv' /\ UNCHANGED <<flag, metric, call, api, world, repo>>
<1>1. UNCHANGED <<flag, metric, call, api, world, repo>> /\ Acting
  BY DEF Inspect, Tag, ReadDocs, QueryRepos, AtOnce, May, ld, io
<1>2. CASE Inspect \/ AtOnce("read_ld_docs", node) \/ AtOnce("query_related_repos", node)
  BY <1>1, <1>2, TagTypes, Acts DEF Inspect, AtOnce
<1>3. CASE Tag
  <2> DEFINE tags == [node.tags EXCEPT !.routing = TRUE]
             n == [node EXCEPT !.tags = tags]
  <2>1. tags \in Tags /\ tags.ready = node.tags.ready /\ tags.key = node.tags.key /\ tags.metrics = node.tags.metrics
    BY TagTypes DEF Tags
  <2>2. TagsOK(tags)  BY <2>1, TagTypes DEF TagsOK
  <2>3. node' = [n EXCEPT !.calls = n.calls - 1]  BY <1>3 DEF Tag, AtOnce
  <2> HIDE DEF tags
  <2>4. /\ n \in NodeState /\ n.phase = node.phase /\ n.calls = node.calls /\ n.verdict = node.verdict /\ n.tags = tags
    BY <2>1, TagsAct
  <2> HIDE DEF n
  <2> QED BY <1>1, <2>2, <2>3, <2>4, Acts
<1>4. CASE node.docs < DocsBudget /\ AtOnce("read_ld_docs", [node EXCEPT !.docs = @ + 1])
  <2> DEFINE d == node.docs + 1
             n == [node EXCEPT !.docs = d]
  <2>1. node.docs \in 0 .. DocsBudget  BY TagTypes DEF NodeState
  <2>2. d \in 0 .. DocsBudget  BY <1>4, <2>1, AgentAssumption
  <2>3. node' = [n EXCEPT !.calls = n.calls - 1]  BY <1>4 DEF AtOnce
  <2> HIDE DEF d
  <2>4. /\ n \in NodeState /\ n.phase = node.phase /\ n.calls = node.calls /\ n.verdict = node.verdict
        /\ n.tags = node.tags
    BY <2>2, TagTypes DEF NodeState
  <2> HIDE DEF n
  <2> QED BY <1>1, <2>3, <2>4, TagTypes, Acts
<1>5. CASE node.repos < RepoBudget /\ AtOnce("query_related_repos", [node EXCEPT !.repos = @ + 1])
  <2> DEFINE d == node.repos + 1
             n == [node EXCEPT !.repos = d]
  <2>1. node.repos \in 0 .. RepoBudget  BY TagTypes DEF NodeState
  <2>2. d \in 0 .. RepoBudget  BY <1>5, <2>1, AgentAssumption
  <2>3. node' = [n EXCEPT !.calls = n.calls - 1]  BY <1>5 DEF AtOnce
  <2> HIDE DEF d
  <2>4. /\ n \in NodeState /\ n.phase = node.phase /\ n.calls = node.calls /\ n.verdict = node.verdict
        /\ n.tags = node.tags
    BY <2>2, TagTypes DEF NodeState
  <2> HIDE DEF n
  <2> QED BY <1>1, <2>3, <2>4, TagTypes, Acts
<1> QED BY <1>1, <1>2, <1>3, <1>4, <1>5 DEF ReadDocs, QueryRepos

\* The calls that return from the writer.
LEMMA AnsweredOp ==
  ASSUME LdInv, NEW step, Answered(step), step # "none"
  PROVE  /\ call.tool # "none" /\ call.step = step
         /\ step \in {"created", "client", "append", "variations", "state", "releases"} /\ Succeeded =>
              call.key \in Flag /\ Exists(call.key)
         /\ step = "metric" /\ Succeeded => call.key \in metric
<1>1. call.step = step /\ api.status # "idle"  BY DEF Answered
<1>2. call.tool # "none"  BY <1>1, Sent
<1>3. CASE step \in {"created", "client", "append", "variations", "state", "releases"} /\ Succeeded
  <2>1. call.key \in Flag  BY <1>1, <1>3, ToolOf
  <2>2. /\ api.op.key = call.key
        /\ api.op.kind \in {"createFlag", "client", "getFlag", "releases", "append", "wire"}
    BY <1>1, <1>3 DEF LdInv, Protocol, Awaits, Op
  <2>3. Exists(api.op.key)  BY <1>3, <2>2 DEF LdInv, AnswerOK
  <2> QED BY <1>1, <1>2, <1>3, <2>1, <2>2, <2>3
<1>4. CASE step = "metric" /\ Succeeded
  <2>1. api.op.key = call.key /\ api.op.kind = "createMetric"
    BY <1>1, <1>4 DEF LdInv, Protocol, Awaits, Op
  <2> QED BY <1>1, <1>2, <1>4, <2>1 DEF LdInv, AnswerOK
<1> QED BY <1>1, <1>2, <1>3, <1>4

LEMMA FlagCreatedInv ==
  ASSUME LdInv, NodeInv, FlagCreated
  PROVE  LdInv' /\ NodeInv' /\ UNCHANGED <<flag, metric, world, repo>>
<1> DEFINE v == IF api.status = "ok" /\ call.step = "created" THEN 1 ELSE node.tags.variation
           tags == [node.tags EXCEPT !.ready = TRUE, !.created = TRUE, !.key = call.key, !.variation = v]
<1>1. UNCHANGED <<flag, metric, world, repo>> /\ call.tool = "create_flag" /\ FlagIsThere
  BY DEF FlagCreated, Ends, ld
<1>2. call.key \in Flag /\ Exists(call.key) /\ call.parent # call.key
  BY <1>1, AnsweredOp, ToolOf DEF FlagIsThere, Answered
<1>3. v \in Version \union {None}  BY Versions, TagTypes DEF Tags
<1> HIDE DEF v
<1>4. /\ tags \in Tags /\ tags.key = call.key /\ tags.metrics = node.tags.metrics
  BY <1>2, <1>3, TagTypes DEF Tags
<1>5. tags = FlagTags  BY DEF FlagTags, v
<1> HIDE DEF tags
<1>6. TagsOK(tags)  BY <1>2, <1>4, TagTypes DEF TagsOK
<1>7. CASE call.parent = None
  <2>1. Returned(tags)  BY <1>5, <1>7 DEF FlagCreated
  <2>2. LdInv'  BY <1>1, <2>1, CallEnds DEF Returned, ld
  <2> QED BY <1>1, <1>4, <1>6, <2>1, <2>2, Returns DEF ld
<1>8. CASE call.parent # None
  <2> DEFINE n == [node EXCEPT !.tags = tags]
  <2>1. Await("parent", Op("getFlag", call.parent), call) /\ node' = n
    BY <1>5, <1>8 DEF FlagCreated
  <2>2. call \in CallState /\ call.parent \in Flag  BY <1>8, ToolOf DEF CallState
  <2>3. Leads(call, "parent", "getFlag", call.parent)  BY <1>1, <1>2, <2>2 DEF Leads
  <2>4. LdInv' /\ call'.tool = call.tool  BY <1>1, <2>1, <2>2, <2>3, Awaiting
  <2>5. /\ n \in NodeState /\ n.phase = node.phase /\ n.calls = node.calls /\ n.verdict = node.verdict /\ n.tags = tags
    BY <1>4, TagsAct
  <2>6. node.phase \in {"acting", "forced"} /\ node.calls > 0 /\ node.verdict = "none"  BY <1>1 DEF NodeInv
  <2> HIDE DEF n
  <2> QED BY <1>1, <1>6, <2>1, <2>4, <2>5, <2>6, NodeMoves
<1> QED BY <1>7, <1>8

LEMMA ReturnsWith ==
  ASSUME LdInv, NodeInv, call.tool # "none", UNCHANGED <<ld, world, repo>>, NEW tags \in Tags, TagsOK(tags), Returned(tags)
  PROVE  LdInv' /\ NodeInv' /\ UNCHANGED <<flag, metric, world, repo>>
<1>1. LdInv'  BY CallEnds DEF Returned
<1> QED BY <1>1, Returns DEF ld

LEMMA OtherReturns ==
  ASSUME LdInv, NodeInv, FlagWired \/ VariationAdded \/ StateShown \/ RideVerified \/ MetricCreated \/ Refused
  PROVE  LdInv' /\ NodeInv' /\ UNCHANGED <<flag, metric, world, repo>>
<1>1. CASE FlagWired \/ StateShown \/ Refused
  <2>1. call.tool # "none" /\ UNCHANGED <<ld, world, repo>> /\ Returned(node.tags)
    BY <1>1 DEF FlagWired, StateShown, Refused, Ends
  <2> QED BY <2>1, TagTypes, ReturnsWith
<1>2. CASE VariationAdded
  <2> DEFINE tags == [node.tags EXCEPT !.ready = TRUE, !.key = call.key, !.variation = call.asked]
  <2>1. /\ call.tool # "none" /\ UNCHANGED <<ld, world, repo>> /\ Returned(tags) /\ Succeeded
        /\ Answered("append") \/ Answered("variations")
    BY <1>2 DEF VariationAdded, Ends
  <2>2. call.key \in Flag /\ Exists(call.key) /\ call.asked \in Version \union {None}
    BY <2>1, AnsweredOp, ToolOf DEF CallState
  <2>3. tags \in Tags /\ tags.key = call.key /\ tags.metrics = node.tags.metrics
    BY <2>2, TagTypes DEF Tags
  <2>4. Returned(tags)  BY <2>1
  <2> HIDE DEF tags
  <2>5. TagsOK(tags)  BY <2>2, <2>3, TagTypes DEF TagsOK
  <2> QED BY <2>1, <2>3, <2>4, <2>5, ReturnsWith
<1>3. CASE RideVerified
  <2> DEFINE v == Candidate
             tags == [node.tags EXCEPT !.ready = TRUE, !.key = call.key, !.variation = v]
  <2>1. /\ call.tool # "none" /\ UNCHANGED <<ld, world, repo>> /\ Returned(tags)
        /\ call.step = "releases" /\ v \in call.seen.vars
    BY <1>3 DEF RideVerified, Ends, Answered
  <2> HIDE DEF v
  <2>2. call.key \in Flag /\ call.seen \in FlagState  BY <2>1, ToolOf DEF CallState
  <2>3. v \in Version /\ Exists(call.key)  BY <2>1, <2>2 DEF LdInv, SeenOK, Exists, FlagState
  <2>4. tags \in Tags /\ tags.key = call.key /\ tags.metrics = node.tags.metrics
    BY <2>2, <2>3, TagTypes DEF Tags
  <2>5. Returned(tags)  BY <2>1
  <2> HIDE DEF tags
  <2>6. TagsOK(tags)  BY <2>2, <2>3, <2>4, TagTypes DEF TagsOK
  <2> QED BY <2>1, <2>4, <2>5, <2>6, ReturnsWith
<1>4. CASE MetricCreated
  <2> DEFINE ms == node.tags.metrics \union {call.key}
             es == IF call.client THEN node.tags.events \union {call.key} ELSE node.tags.events
             tags == [node.tags EXCEPT !.metrics = ms, !.events = es]
  <2>1. /\ call.tool # "none" /\ UNCHANGED <<ld, world, repo>> /\ Returned(tags)
        /\ Answered("metric") /\ Succeeded
    BY <1>4 DEF MetricCreated, Ends
  <2>2. call.key \in metric /\ metric \subseteq Metric  BY <2>1, AnsweredOp DEF LdInv, LdTypes
  <2>3. ms \subseteq Metric /\ es \subseteq Metric /\ ms \subseteq metric
    BY <2>2, TagTypes DEF Tags, TagsOK
  <2> HIDE DEF ms, es
  <2>4. tags \in Tags /\ tags.key = node.tags.key /\ tags.ready = node.tags.ready /\ tags.metrics = ms
    BY <2>3, TagTypes DEF Tags
  <2>5. Returned(tags)  BY <2>1
  <2> HIDE DEF tags
  <2>6. TagsOK(tags)  BY <2>3, <2>4, TagTypes DEF TagsOK
  <2> QED BY <2>1, <2>4, <2>5, <2>6, ReturnsWith
<1> QED BY <1>1, <1>2, <1>3, <1>4

(***************************************************************************)
(* The checkout and its manifest.                                          *)
(***************************************************************************)
\* An agent's write completes the manifest, and takes nothing of a human back.
LEMMA Merging ==
  ASSUME NEW old \in Manifest, NEW name, NEW given \in BOOLEAN, NEW ask \in BOOLEAN, NEW target \in Ask
  PROVE  /\ Merged(old, name, given, ask, target) \in Manifest
         /\ old.state = "written" =>
              /\ Merged(old, name, given, ask, target).answer = old.answer
              /\ old.intent = "human" /\ name # "steward" => Merged(old, name, given, ask, target).intent = "human"
<1> DEFINE was == IF old.state = "written" THEN old ELSE NoManifest
           tgt == IF target = None THEN was.target ELSE target
           int == Intent(was.intent, given, name)
<1>1. NoManifest \in Manifest  BY DEF NoManifest, Manifest
<1>2. was \in Manifest  BY <1>1
<1>3. Merged(old, name, given, ask, target) =
        [state |-> "written", answer |-> was.answer, target |-> tgt, question |-> was.question \/ ask, intent |-> int]
  BY DEF Merged
<1>4. old.state = "written" => was = old  OBVIOUS
<1> HIDE DEF was
<1>5. /\ was.target \in Version \union {None} /\ was.question \in BOOLEAN /\ was.answer \in BOOLEAN
      /\ was.intent \in {None, "skeleton", "human", "agent", "steward"}
  BY <1>2 DEF Manifest
<1>6. tgt \in Version \union {None}  BY <1>5, AgentAssumption
<1>7. /\ int \in {None, "skeleton", "human", "agent", "steward"}
      /\ was.intent = "human" /\ name # "steward" => int = "human"
  BY <1>5, AgentAssumption DEF Intent
<1> HIDE DEF tgt, int
<1>8. Merged(old, name, given, ask, target) \in Manifest  BY <1>3, <1>5, <1>6, <1>7 DEF Manifest
<1> QED BY <1>3, <1>4, <1>7, <1>8

LEMMA Landing ==
  ASSUME NEW r \in RepoState, NEW part, Landed(r, part)
  PROVE  repo' \in RepoState /\ repo'.manifest = r.manifest
<1> DEFINE dirty == r.dirty \ part
<1>1. dirty \in SUBSET {"code", "manifest"}  BY DEF RepoState
<1>2. \/ repo' = r
      \/ repo' = [r EXCEPT !.dirty = dirty, !.unpushed = FALSE]
      \/ repo' = [r EXCEPT !.dirty = dirty, !.unpushed = TRUE]
  BY DEF Landed
<1> HIDE DEF dirty
<1> QED BY <1>1, <1>2 DEF RepoState

LEMMA LocalTool ==
  ASSUME NodeInv, Acting, NEW tags \in Tags, TagsOK(tags), UNCHANGED <<flag, metric, call>>,
         node' = [node EXCEPT !.calls = node.calls - 1, !.tags = tags]
  PROVE  NodeInv'
<1> DEFINE n == [node EXCEPT !.tags = tags]
<1>1. /\ n \in NodeState /\ n.phase = node.phase /\ n.calls = node.calls /\ n.verdict = node.verdict /\ n.tags = tags
  BY TagsAct
<1>2. node' = [n EXCEPT !.calls = n.calls - 1]
  BY TagTypes DEF NodeState
<1> HIDE DEF n
<1> QED BY <1>1, <1>2, Acts

LEMMA CheckoutInv ==
  ASSUME NodeInv, RestTypes, WriteFile \/ RunTests \/ CommitAndPush \/ WriteManifest
  PROVE  NodeInv' /\ repo' \in RepoState /\ UNCHANGED <<flag, metric, call, api, world>>
<1>1. UNCHANGED <<flag, metric, call, api, world>> /\ Acting
  BY DEF WriteFile, RunTests, CommitAndPush, WriteManifest, Locally, May, ld, io
<1>2. repo \in RepoState  BY DEF RestTypes
<1>3. CASE WriteFile
  <2>1. PICK r \in Ref, keep \in BOOLEAN :
             Locally("write_file", node.tags,
               [repo EXCEPT !.refs = IF keep THEN @ \union {r} ELSE @ \ {r}, !.dirty = @ \union {"code"}])
    BY <1>3 DEF WriteFile
  <2> DEFINE refs == IF keep THEN repo.refs \union {r} ELSE repo.refs \ {r}
             dirty == repo.dirty \union {"code"}
  <2>2. refs \subseteq Ref /\ dirty \subseteq {"code", "manifest"}  BY <1>2 DEF RepoState
  <2>3. repo' = [repo EXCEPT !.refs = refs, !.dirty = dirty]  BY <2>1 DEF Locally
  <2> HIDE DEF refs, dirty
  <2>4. repo' \in RepoState  BY <1>2, <2>2, <2>3 DEF RepoState
  <2>5. node' = [node EXCEPT !.calls = node.calls - 1, !.tags = node.tags]  BY <2>1 DEF Locally
  <2>6. NodeInv'  BY <1>1, <2>5, TagTypes, LocalTool
  <2> QED BY <1>1, <2>4, <2>6
<1>4. CASE RunTests
  <2>1. PICK outcome \in {"missing", "pass", "fail"} :
             Locally("run_tests", [node.tags EXCEPT !.tests = IF outcome = "missing" THEN @ ELSE outcome], repo)
    BY <1>4 DEF RunTests
  <2> DEFINE tests == IF outcome = "missing" THEN node.tags.tests ELSE outcome
             tags == [node.tags EXCEPT !.tests = tests]
  <2>2. tests \in {"none", "pass", "fail"}  BY TagTypes DEF Tags
  <2>3. node' = [node EXCEPT !.calls = node.calls - 1, !.tags = tags] /\ repo' = repo  BY <2>1 DEF Locally
  <2> HIDE DEF tests
  <2>4. tags \in Tags /\ tags.key = node.tags.key /\ tags.ready = node.tags.ready /\ tags.metrics = node.tags.metrics
    BY <2>2, TagTypes DEF Tags
  <2> HIDE DEF tags
  <2>5. TagsOK(tags)  BY <2>4, TagTypes DEF TagsOK
  <2>6. NodeInv'  BY <1>1, <2>3, <2>4, <2>5, LocalTool
  <2> QED BY <1>1, <1>2, <2>3, <2>6
<1>5. ASSUME node' = [node EXCEPT !.calls = @ - 1] PROVE NodeInv'
  BY <1>1, <1>5, TagTypes, Acts
<1>6. CASE CommitAndPush
  BY <1>1, <1>2, <1>5, <1>6, Landing DEF CommitAndPush
<1>7. CASE WriteManifest
  <2>1. PICK given \in BOOLEAN, ask \in BOOLEAN, target \in Ask :
          LET m == Merged(repo.manifest, node.name, given, ask, target) IN
          Landed([repo EXCEPT !.manifest = m, !.dirty = IF m = repo.manifest THEN @ ELSE @ \union {"manifest"}],
                 {"manifest"})
    BY <1>7 DEF WriteManifest
  <2> DEFINE m == Merged(repo.manifest, node.name, given, ask, target)
             dirty == IF m = repo.manifest THEN repo.dirty ELSE repo.dirty \union {"manifest"}
             r == [repo EXCEPT !.manifest = m, !.dirty = dirty]
  <2>2. repo.manifest \in Manifest  BY <1>2 DEF RepoState
  <2>3. m \in Manifest  BY <2>2, Merging
  <2>4. dirty \subseteq {"code", "manifest"}  BY <1>2 DEF RepoState
  <2>5. Landed(r, {"manifest"})  BY <2>1
  <2> HIDE DEF m, dirty
  <2>6. r \in RepoState  BY <1>2, <2>3, <2>4 DEF RepoState
  <2>7. repo' \in RepoState
    <3>1. PICK q : q = r  OBVIOUS
    <3>2. Landed(q, {"manifest"})  BY <2>5, <3>1 DEF Landed
    <3> QED BY <2>6, <3>1, <3>2, Landing
  <2> QED BY <1>1, <1>5, <1>7, <2>7 DEF WriteManifest
<1> QED BY <1>3, <1>4, <1>6, <1>7

LEMMA HumanWritesInv ==
  ASSUME RestTypes, HumanWrites
  PROVE  /\ repo' \in RepoState /\ world' \in [moves : Nat, lately : BOOLEAN] /\ world'.lately = world.lately
         /\ UNCHANGED <<flag, metric, call, api, node>>
<1>1. PICK m \in {[repo.manifest EXCEPT !.answer = TRUE], [repo.manifest EXCEPT !.intent = "human"],
                  [repo.manifest EXCEPT !.state = "corrupt"]} :
          repo' = [repo EXCEPT !.manifest = m, !.dirty = IF PushMode THEN @ ELSE @ \union {"manifest"}]
  BY DEF HumanWrites
<1> DEFINE dirty == IF PushMode THEN repo.dirty ELSE repo.dirty \union {"manifest"}
<1>2. repo \in RepoState /\ repo.manifest \in Manifest /\ world \in [moves : Nat, lately : BOOLEAN]
  BY DEF RestTypes, RepoState
<1>3. m \in Manifest  BY <1>2 DEF Manifest
<1>4. dirty \subseteq {"code", "manifest"}  BY <1>2 DEF RepoState
<1>5. repo' = [repo EXCEPT !.manifest = m, !.dirty = dirty]  BY <1>1
<1> HIDE DEF dirty
<1>6. repo' \in RepoState  BY <1>2, <1>3, <1>4, <1>5 DEF RepoState
<1>7. world' = [world EXCEPT !.moves = world.moves + 1] /\ UNCHANGED <<flag, metric, call, api, node>>
  BY DEF HumanWrites, ld, io
<1> QED BY <1>2, <1>6, <1>7

(***************************************************************************)
(* The node's turns.                                                       *)
(***************************************************************************)
\* Between two calls, and before it is judged.
LEMMA Turns ==
  ASSUME NodeInv, UNCHANGED <<flag, metric, call>>, call.tool = "none", NEW n \in NodeState, node' = n,
         n.tags = node.tags, n.verdict = "none"
  PROVE  NodeInv'
BY NodeMoves, TagTypes

LEMMA LoopEnds ==
  ASSUME NEW n \in NodeState
  PROVE  AfterLoop(n) \in NodeState /\ AfterLoop(n).tags = n.tags /\ AfterLoop(n).verdict = n.verdict
<1> DEFINE f == [n EXCEPT !.phase = "forcing", !.tries = 0, !.calls = 0]
           d == [n EXCEPT !.phase = "done", !.calls = 0]
<1>1. 0 \in 0 .. TransientRetries /\ 0 \in Nat  BY AgentAssumption
<1>2. f \in NodeState /\ f.tags = n.tags /\ f.verdict = n.verdict  BY <1>1 DEF NodeState, Phase
<1>3. d \in NodeState /\ d.tags = n.tags /\ d.verdict = n.verdict  BY <1>1 DEF NodeState, Phase
<1>4. AfterLoop(n) \in {f, d}  BY DEF AfterLoop
<1> HIDE DEF f, d
<1> QED BY <1>2, <1>3, <1>4

LEMMA TurnsInv ==
  ASSUME NodeInv, Respond \/ TurnEnds \/ ModelFails \/ ForceTags \/ ForceFails \/ ForceEnds
  PROVE  NodeInv'
<1>1. UNCHANGED Others /\ (node.phase \in {"asking", "forcing"} \/ (node.phase \in {"acting", "forced"} /\ call.tool = "none"))
  <2>1. CASE Respond  BY <2>1 DEF Respond
  <2>2. CASE TurnEnds  BY <2>2 DEF TurnEnds
  <2>3. CASE ModelFails  BY <2>3 DEF ModelFails
  <2>4. CASE ForceTags  BY <2>4 DEF ForceTags
  <2>5. CASE ForceFails  BY <2>5 DEF ForceFails
  <2>6. CASE ForceEnds  BY <2>6 DEF ForceEnds
  <2> QED BY <2>1, <2>2, <2>3, <2>4, <2>5, <2>6
<1>2. node.phase # "done" /\ call.tool = "none" /\ UNCHANGED <<flag, metric, call>>
  BY <1>1 DEF NodeInv, Others, ld
<1>3. /\ node \in NodeState /\ node.verdict = "none" /\ node.tries \in 0 .. TransientRetries /\ node.turn \in 0 .. MaxTurns
      /\ 0 \in 0 .. TransientRetries
  BY <1>2, AgentAssumption DEF NodeInv, NodeState
<1>4. ASSUME NEW m \in NodeState, node' = m, m.tags = node.tags, m.verdict = "none" PROVE NodeInv'
  BY <1>2, <1>4, Turns
<1>5. CASE Respond
  <2>1. ASSUME NEW n \in 1 .. MaxCalls, node' = [node EXCEPT !.phase = "acting", !.calls = n, !.tries = 0] PROVE NodeInv'
    <3> DEFINE m == [node EXCEPT !.phase = "acting", !.calls = n, !.tries = 0]
    <3>1. n \in Nat  BY AgentAssumption
    <3>2. m \in NodeState /\ m.tags = node.tags /\ m.verdict = "none"  BY <1>3, <3>1 DEF NodeState, Phase
    <3>3. node' = m  BY <2>1
    <3> HIDE DEF m
    <3> QED BY <1>4, <3>2, <3>3
  <2>2. CASE node' = AfterLoop(node)  BY <1>3, <1>4, <2>2, LoopEnds
  <2> QED BY <1>5, <2>1, <2>2 DEF Respond
<1>6. CASE TurnEnds
  <2>1. CASE HitCap
    <3> DEFINE n == [node EXCEPT !.status = "stopped"]
    <3>1. n \in NodeState /\ n.tags = node.tags /\ n.verdict = "none"  BY <1>3 DEF NodeState, Status
    <3>2. node' = AfterLoop(n)  BY <1>6, <2>1 DEF TurnEnds
    <3> HIDE DEF n
    <3> QED BY <1>4, <3>1, <3>2, LoopEnds
  <2>2. CASE ~HitCap
    <3> DEFINE t == IF node.turn < MaxTurns THEN node.turn + 1 ELSE node.turn
               m == [node EXCEPT !.phase = "asking", !.turn = t]
    <3>1. t \in 0 .. MaxTurns  BY <1>3, AgentAssumption
    <3>2. node' = m  BY <1>6, <2>2 DEF TurnEnds
    <3> HIDE DEF t
    <3>3. m \in NodeState /\ m.tags = node.tags /\ m.verdict = "none"  BY <1>3, <3>1 DEF NodeState, Phase
    <3> HIDE DEF m
    <3> QED BY <1>4, <3>2, <3>3
  <2> QED BY <2>1, <2>2
<1>7. ASSUME NEW t \in 0 .. TransientRetries, node' = [node EXCEPT !.tries = t] PROVE NodeInv'
  <2> DEFINE m == [node EXCEPT !.tries = t]
  <2>1. m \in NodeState /\ m.tags = node.tags /\ m.verdict = "none"  BY <1>3 DEF NodeState
  <2>2. node' = m  BY <1>7
  <2> HIDE DEF m
  <2> QED BY <1>4, <2>1, <2>2
<1>8. ASSUME node.tries < TransientRetries, node' = [node EXCEPT !.tries = @ + 1] PROVE NodeInv'
  <2>1. node.tries + 1 \in 0 .. TransientRetries  BY <1>3, <1>8, AgentAssumption
  <2> QED BY <1>7, <1>8, <2>1
<1>9. ASSUME NEW st \in Status, node' = [node EXCEPT !.phase = "done", !.status = st] PROVE NodeInv'
  <2> DEFINE m == [node EXCEPT !.phase = "done", !.status = st]
  <2>1. m \in NodeState /\ m.tags = node.tags /\ m.verdict = "none"  BY <1>3 DEF NodeState, Phase
  <2>2. node' = m  BY <1>9
  <2> HIDE DEF m
  <2> QED BY <1>4, <2>1, <2>2
<1>10. CASE ModelFails
  <2>1. "failed" \in Status /\ "cancelled" \in Status  BY DEF Status
  <2> QED BY <1>8, <1>9, <1>10, <2>1 DEF ModelFails
<1>11. CASE ForceTags
  <2>1. \E n \in 0 .. MaxCalls : node' = [node EXCEPT !.phase = IF n = 0 THEN "done" ELSE "forced", !.calls = n]
    BY <1>11 DEF ForceTags
  <2>5. PICK n \in 0 .. MaxCalls, p \in {"done", "forced"} : node' = [node EXCEPT !.phase = p, !.calls = n]
    BY <2>1
  <2> DEFINE m == [node EXCEPT !.phase = p, !.calls = n]
  <2>2. n \in Nat /\ p \in Phase  BY AgentAssumption DEF Phase
  <2>3. node' = m  BY <2>5
  <2>4. m \in NodeState /\ m.tags = node.tags /\ m.verdict = "none"  BY <1>3, <2>2 DEF NodeState
  <2> HIDE DEF m
  <2> QED BY <1>4, <2>3, <2>4
<1>12. ASSUME node' = [node EXCEPT !.phase = "done"] PROVE NodeInv'
  <2> DEFINE m == [node EXCEPT !.phase = "done"]
  <2>1. m \in NodeState /\ m.tags = node.tags /\ m.verdict = "none"  BY <1>3 DEF NodeState, Phase
  <2>2. node' = m  BY <1>12
  <2> HIDE DEF m
  <2> QED BY <1>4, <2>1, <2>2
<1>13. CASE ForceFails  BY <1>8, <1>12, <1>13 DEF ForceFails
<1>14. CASE ForceEnds  BY <1>12, <1>14 DEF ForceEnds
<1> QED BY <1>5, <1>6, <1>10, <1>11, <1>13, <1>14

LEMMA VerifyInv == ASSUME NodeInv, Verify PROVE NodeInv'
<1>1. UNCHANGED <<flag, metric, call>> /\ node.phase = "done" /\ call.tool = "none"
  BY DEF Verify, Others, ld, NodeInv
<1>2. PICK v \in {"ok", "failed"} : node' = [node EXCEPT !.verdict = v] /\ (v = "ok" => FlagHolds)
  <2>1. CASE node' = [node EXCEPT !.verdict = IF Verified THEN "ok" ELSE "failed"]
    <3>1. CASE Verified  BY <2>1, <3>1 DEF Verified
    <3>2. CASE ~Verified  BY <2>1, <3>2
    <3> QED BY <3>1, <3>2
  <2>2. CASE node' = [node EXCEPT !.verdict = "failed"]  BY <2>2
  <2> QED BY <2>1, <2>2 DEF Verify
<1> DEFINE m == [node EXCEPT !.verdict = v]
<1>3. m \in NodeState /\ m.phase = "done" /\ m.tags = node.tags /\ m.verdict = v
  BY <1>1, TagTypes DEF NodeState
<1>4. node' = m  BY <1>2
<1> HIDE DEF m
<1>5. m.verdict = "ok" /\ m.tags.ready /\ m.tags.variation # None => m.tags.variation \in flag[m.tags.key].vars
  BY <1>2, <1>3 DEF FlagHolds
<1> QED BY <1>1, <1>3, <1>4, <1>5, TagTypes, NodeMoves

LEMMA OfferedTools == ASSUME NEW name, NEW detached PROVE Offered(name, detached) \subseteq Tool
<1>1. ASSUME NEW c PROVE ToolsOf(c) \subseteq Tool  BY DEF ToolsOf, Tool, FlagTool
<1> QED BY <1>1 DEF Offered

LEMMA NodeAtTypes ==
  ASSUME NEW s, s.name \in STRING \union {"none"}, s.provider \in {"loop", "cursor"}
  PROVE  NodeAt(s) \in NodeState /\ NodeAt(s).phase = "asking" /\ NodeAt(s).verdict = "none" /\ NodeAt(s).tags = NoTags
<1> DEFINE offered == Offered(s.name, s.detached)
<1>1. offered \subseteq Tool  BY OfferedTools
<1>2. /\ 0 \in 0 .. MaxTurns /\ 0 \in 0 .. TransientRetries /\ 0 \in 0 .. DocsBudget /\ 0 \in 0 .. RepoBudget
      /\ NoTags \in Tags
  BY AgentAssumption, IdleTypes
<1>3. NodeAt(s) =
        [name |-> s.name, provider |-> s.provider, offered |-> offered, phase |-> "asking", status |-> "completed",
         turn |-> 0, calls |-> 0, tries |-> 0, docs |-> 0, repos |-> 0, tags |-> NoTags, verdict |-> "none"]
  BY DEF NodeAt
<1> HIDE DEF offered
<1> QED BY <1>1, <1>2, <1>3 DEF NodeState, Phase, Status

LEMMA StartInv ==
  ASSUME LdInv, NodeInv, RestTypes, Start
  PROVE  LdInv' /\ NodeInv' /\ RestTypes'
<1>1. /\ UNCHANGED <<flag, metric, call, api, repo>> /\ plan # <<>> /\ plan' = Tail(plan)
      /\ world' = [world EXCEPT !.lately = FALSE] /\ node' = NodeAt(Head(plan))
      /\ node.phase \in {"idle", "done"}
  BY DEF Start, ld, io, NodeInv
<1>2. call.tool = "none"  BY <1>1 DEF NodeInv
<1>3. Head(plan) \in Session /\ Tail(plan) \in Seq(Session)  BY <1>1 DEF RestTypes
<1>4. PICK s \in Session : s = Head(plan)  BY <1>3
<1>5. PICK n : n = NodeAt(s)  OBVIOUS
<1>6. s.name \in STRING /\ s.provider \in {"loop", "cursor"}  BY DEF Session
<1>7. n \in NodeState /\ n.phase = "asking" /\ n.verdict = "none" /\ n.tags = NoTags
  BY <1>5, <1>6, NodeAtTypes
<1>11. world' \in [moves : Nat, lately : BOOLEAN]  BY <1>1 DEF RestTypes
<1>8. TagsOK(NoTags)  BY IdleTypes DEF TagsOK
<1>9. NodeInv'  BY <1>1, <1>2, <1>4, <1>5, <1>7, <1>8, NodeMoves
<1>10. LdInv'  BY <1>1, <1>2, LdUnmoved
<1> QED BY <1>1, <1>3, <1>9, <1>10, <1>11 DEF RestTypes
(***************************************************************************)
(* Every state and every step.                                             *)
(***************************************************************************)
LEMMA Initially == Init => IInv
<1> SUFFICES ASSUME Init PROVE IInv
  OBVIOUS
<1>1. PICK s \in Scenario :
        /\ flag = s.flag /\ plan = s.plan
        /\ repo = [refs |-> s.refs, manifest |-> NoManifest, dirty |-> {}, unpushed |-> FALSE]
  BY DEF Init
<1>2. /\ metric = {} /\ api = IdleApi /\ call = IdleCall /\ node = NoNode
      /\ world = [moves |-> 0, lately |-> FALSE]
  BY DEF Init
<1>3. flag \in [Flag -> FlagState] /\ s.refs \subseteq Ref /\ plan \in Seq(Session)  BY <1>1, AgentAssumption
<1>4. NoManifest \in Manifest  BY DEF NoManifest, Manifest
<1>5. RestTypes  BY <1>1, <1>2, <1>3, <1>4 DEF RestTypes, RepoState
<1>6. LdInv
  <2>1. LdTypes  BY <1>2, <1>3, IdleTypes DEF LdTypes
  <2>2. Applied /\ AnswerOK  BY <1>2 DEF IdleApi, Applied, AnswerOK, Succeeded
  <2>3. Protocol /\ ArgsOK /\ SeenOK
    BY <1>2, IdleTypes DEF Protocol, ArgsOK, SeenOK, FlagTool
  <2> QED BY <2>1, <2>2, <2>3 DEF LdInv
<1>7. NodeInv
  <2>1. PICK s0 : s0 = [name |-> "none", provider |-> "loop", detached |-> {}]  OBVIOUS
  <2>2. s0.name \in STRING \union {"none"} /\ s0.provider \in {"loop", "cursor"}  BY <2>1
  <2>3. PICK n : n = NodeAt(s0)  OBVIOUS
  <2>4. n \in NodeState /\ n.verdict = "none" /\ n.tags = NoTags  BY <2>2, <2>3, NodeAtTypes
  <2>5. node = [n EXCEPT !.phase = "idle"]  BY <1>2, <2>1, <2>3 DEF NoNode
  <2>6. node \in NodeState /\ node.verdict = "none" /\ node.tags = NoTags
    BY <2>4, <2>5 DEF NodeState, Phase
  <2>7. call.tool = "none"  BY <1>2, IdleTypes
  <2>8. TagsOK(node.tags)  BY <2>6, IdleTypes DEF TagsOK
  <2> QED BY <2>6, <2>7, <2>8 DEF NodeInv, HandoffHolds
<1> QED BY <1>5, <1>6, <1>7 DEF IInv

LEMMA ToolsInv ==
  ASSUME IInv, Tools
  PROVE  LdInv' /\ NodeInv' /\ repo' \in RepoState /\ UNCHANGED <<flag, world>>
<1>1. LdInv /\ NodeInv /\ RestTypes /\ repo \in RepoState  BY DEF IInv, RestTypes
<1>2. CASE CreateFlag \/ AddVariation \/ GetFlagState \/ UseExisting \/ CreateMetric
  <2>1. LdInv' /\ Acting /\ UNCHANGED <<flag, metric, world, node, repo>>  BY <1>1, <1>2, BeginsInv
  <2>2. Grow  BY <1>1, <2>1 DEF Grow, LdInv, LdTypes
  <2>3. NodeInv'  BY <1>1, <2>1, <2>2, NodeUnmoved
  <2> QED BY <1>1, <2>1, <2>3
<1>3. CASE Inspect \/ Tag \/ ReadDocs \/ QueryRepos
  <2>1. NodeInv' /\ UNCHANGED <<flag, metric, call, api, world, repo>>  BY <1>1, <1>3, SimpleCalls
  <2>2. LdInv'  BY <1>1, <2>1, LdUnmoved
  <2> QED BY <1>1, <2>1, <2>2
<1>4. CASE WriteFile \/ RunTests \/ CommitAndPush \/ WriteManifest
  <2>1. NodeInv' /\ repo' \in RepoState /\ UNCHANGED <<flag, metric, call, api, world>>
    BY <1>1, <1>4, CheckoutInv
  <2>2. LdInv'  BY <1>1, <2>1, LdUnmoved
  <2> QED BY <2>1, <2>2
<1>5. CASE FlagCreated  BY <1>1, <1>5, FlagCreatedInv
<1>6. CASE FlagWired \/ VariationAdded \/ StateShown \/ RideVerified \/ MetricCreated \/ Refused
  BY <1>1, <1>6, OtherReturns
<1> QED BY <1>2, <1>3, <1>4, <1>5, <1>6 DEF Tools

\* A step of LaunchDarkly's client, of its writer, or of the rest of the world.
LEMMA OutsideInv ==
  ASSUME IInv, Request \/ Writer \/ World, UNCHANGED <<node, repo, plan>>
  PROVE  IInv'
<1>1. LdInv /\ NodeInv /\ RestTypes  BY DEF IInv
<1>2. /\ LdInv' /\ Grow /\ (call'.tool # "none" => call.tool # "none")
      /\ world' \in [moves : Nat, lately : BOOLEAN]
  <2>1. CASE Request
    <3>1. LdInv' /\ Grow /\ UNCHANGED <<call, world>>  BY <1>1, <2>1, RequestInv
    <3> QED BY <1>1, <3>1 DEF RestTypes
  <2>2. CASE Writer
    <3>1. LdInv' /\ UNCHANGED <<flag, metric, world>> /\ call'.tool = call.tool  BY <1>1, <2>2, WriterInv
    <3> QED BY <1>1, <3>1 DEF RestTypes, Grow, LdInv, LdTypes
  <2>3. CASE World
    <3>1. /\ LdInv' /\ Grow /\ call'.tool = call.tool
          /\ world' \in [moves : {world.moves + 1}, lately : {TRUE}]
      BY <1>1, <2>3, WorldInv
    <3>2. world.moves + 1 \in Nat  BY <1>1 DEF RestTypes
    <3> QED BY <3>1, <3>2
  <2> QED BY <2>1, <2>2, <2>3
<1>3. NodeInv'  BY <1>1, <1>2, NodeUnmoved
<1> QED BY <1>1, <1>2, <1>3 DEF IInv, RestTypes

LEMMA Stepwise == IInv /\ [Next]_vars => IInv'
<1> SUFFICES ASSUME IInv, [Next]_vars PROVE IInv'
  OBVIOUS
<1>1. LdInv /\ NodeInv /\ RestTypes  BY DEF IInv
<1>2. CASE Start  BY <1>1, <1>2, StartInv DEF IInv
<1>3. CASE Agent
  <2>1. UNCHANGED <<flag, metric, call, api, world, repo, plan>>
    BY <1>3 DEF Agent, Respond, TurnEnds, ModelFails, ForceTags, ForceFails, ForceEnds, Verify, Others, ld
  <2>2. NodeInv'  BY <1>1, <1>3, TurnsInv, VerifyInv DEF Agent
  <2>3. LdInv'  BY <1>1, <2>1, LdUnmoved
  <2> QED BY <1>1, <2>1, <2>2, <2>3 DEF IInv, RestTypes
<1>4. CASE Tools /\ UNCHANGED plan
  <2>1. LdInv' /\ NodeInv' /\ repo' \in RepoState /\ UNCHANGED <<flag, world>>  BY <1>4, ToolsInv
  <2> QED BY <1>1, <1>4, <2>1 DEF IInv, RestTypes
<1>5. CASE HumanWrites /\ UNCHANGED plan
  <2>1. /\ repo' \in RepoState /\ world' \in [moves : Nat, lately : BOOLEAN] /\ world'.lately = world.lately
        /\ UNCHANGED <<flag, metric, call, api, node>>
    BY <1>1, <1>5, HumanWritesInv
  <2>2. LdInv'  BY <1>1, <2>1, LdUnmoved
  <2>3. Grow  BY <1>1, <2>1 DEF Grow, LdInv, LdTypes
  <2>4. NodeInv'  BY <1>1, <2>1, <2>3, NodeUnmoved
  <2> QED BY <1>1, <1>5, <2>1, <2>2, <2>4 DEF IInv, RestTypes
<1>6. CASE (Request \/ Writer \/ World) /\ UNCHANGED <<node, repo, plan>>  BY <1>6, OutsideInv
<1>7. CASE UNCHANGED vars
  <2>1. UNCHANGED <<flag, metric, call, api, world, node, repo, plan>>  BY <1>7 DEF vars, ld, io
  <2>2. LdInv'  BY <1>1, <2>1, LdUnmoved
  <2>3. Grow  BY <1>1, <2>1 DEF Grow, LdInv, LdTypes
  <2>4. NodeInv'  BY <1>1, <2>1, <2>3, NodeUnmoved
  <2> QED BY <1>1, <2>1, <2>2, <2>4 DEF IInv, RestTypes
<1> QED BY <1>2, <1>3, <1>4, <1>5, <1>6, <1>7 DEF Next

LEMMA Invariance == Spec => []IInv
BY Initially, Stepwise, PTL DEF Spec

(***************************************************************************)
(* What the invariant says of the steps that matter.                       *)
(***************************************************************************)
\* What a served patch of one environment lets through, where the parent is
\* as it was read: nothing new.
LEMMA Inert ==
  ASSUME LdInv, api.status = "sent", api.op.kind = "wire", call.live, NEW e \in Env,
         call.seen.env[e].pin[call.parent] = None, ~Releasing(call.parent, e)
  PROVE  Reaches(WiredFlag, call.key, e) \subseteq Reaches(flag, call.key, e)
<1> DEFINE k == call.key
           p == call.parent
           t == flag[k].env[e]
           w == WiredFlag[k].env[e]
<1>1. /\ call.step = "wire" /\ k \in Flag /\ p \in Flag /\ p # k /\ call.todo # {}
      /\ \A f \in Flag : f # k => WiredFlag[f] = flag[f]
      /\ \A d \in Env : d # EnvOf(call.todo) => WiredFlag[k].env[d] = flag[k].env[d]
  BY Wiring
<1>2. flag \in [Flag -> FlagState] /\ t \in Targeting  BY <1>1, ToolOf DEF FlagState
<1>3. ASSUME Arms(w) = Arms(t), \A q \in Flag : t.pin[q] \in {None, w.pin[q]}
      PROVE  Reaches(WiredFlag, k, e) \subseteq Reaches(flag, k, e)
  <2>1. ASSUME NEW q \in Flag PROVE Arms(WiredFlag[q].env[e]) = Arms(flag[q].env[e])
    BY <1>1, <1>3 DEF Arms
  <2>2. Open(WiredFlag, k, e) => Open(flag, k, e)  BY <1>3, <2>1 DEF Open
  <2> QED BY <1>3, <2>2 DEF Reaches
<1>4. CASE e # EnvOf(call.todo)
  <2>1. w = t  BY <1>1, <1>4
  <2> QED BY <1>3, <2>1
<1>5. CASE e = EnvOf(call.todo)
  <2> DEFINE v == ResolveParent(call.up, e, call.want)
             pinned == [t EXCEPT !.pin[p] = v]
  <2>1. /\ flag[p] = call.up /\ t = call.seen.env[e] /\ v # None /\ t.pin[p] = None
        /\ w = Wired(t, call.seen, call.up, p, e, call.want)
    <3>1. e \in call.todo  BY <1>1, <1>5 DEF EnvOf
    <3>2. flag[p] = call.up /\ t = call.seen.env[e]  BY <1>1, <3>1 DEF LdInv, SeenOK
    <3>3. v # None  BY <1>1, <1>5 DEF LdInv, ArgsOK
    <3> QED BY <1>5, <3>2, <3>3, Wiring
  <2>2. /\ pinned.pin[p] = v /\ pinned.on = t.on /\ pinned.heavy = t.heavy /\ pinned.light = t.light
        /\ \A q \in Flag : t.pin[q] \in {None, pinned.pin[q]}
    BY <1>1, <1>2, <2>1 DEF Targeting
  <2>3. CASE Arm(call.seen, call.up, e, call.want)
    <3>1. v \notin Arms(flag[p].env[e])
      BY <2>1, <2>3 DEF Arm, ServedParent, Arms, Releasing
    <3>2. w = [pinned EXCEPT !.on = TRUE, !.heavy = Tip(call.seen.vars), !.light = Tip(call.seen.vars)]
      BY <2>1, <2>3 DEF Wired
    <3>3. pinned \in [on : BOOLEAN, heavy : Version, light : Version, pin : [Flag -> Version \union {None}]]
      <4>1. call \in CallState  BY ToolOf
      <4>2. v \in Version \union {None}  BY <2>1, <4>1, Resolved DEF CallState
      <4> HIDE DEF v
      <4>3. [t.pin EXCEPT ![p] = v] \in [Flag -> Version \union {None}]  BY <1>2, <4>2 DEF Targeting
      <4>4. pinned = [t EXCEPT !.pin = [t.pin EXCEPT ![p] = v]]  OBVIOUS
      <4> QED BY <1>2, <4>3, <4>4 DEF Targeting
    <3> HIDE DEF pinned
    <3>4. w.pin = pinned.pin  BY <3>2, <3>3
    <3>5. w.pin[p] = v  BY <2>2, <3>4
    <3>6. ~Open(WiredFlag, k, e)  BY <1>1, <2>1, <3>1, <3>5 DEF Open
    <3> QED BY <3>6 DEF Reaches
  <2>4. CASE ~Arm(call.seen, call.up, e, call.want)
    <3>1. w = pinned  BY <2>1, <2>4 DEF Wired
    <3> QED BY <1>3, <2>2, <3>1 DEF Arms
  <2> QED BY <2>3, <2>4
<1> QED BY <1>4, <1>5

\* The flags move only where a request is served, or where others move them.
LEMMA FlagsStand ==
  ASSUME IInv, [Next]_vars, flag' # flag, world' = world
  PROVE  Request
<1>1. LdInv /\ NodeInv /\ RestTypes  BY DEF IInv
<1>2. ~Start  BY DEF Start, ld
<1>3. ~Agent  BY DEF Agent, Respond, TurnEnds, ModelFails, ForceTags, ForceFails, ForceEnds, Verify, Others, ld
<1>4. ~Tools  BY ToolsInv
<1>5. ~HumanWrites  BY <1>1, HumanWritesInv
<1>6. ~Writer  BY <1>1, WriterInv
<1>7. ~World
  <2>1. World => world'.moves = world.moves + 1  BY <1>1, WorldInv
  <2> QED BY <1>1, <2>1 DEF RestTypes
<1> QED BY <1>2, <1>3, <1>4, <1>5, <1>6, <1>7 DEF Next, vars, ld

LEMMA InertStep ==
  ASSUME IInv, [Next]_vars, Wires, call.live, NEW e \in Env,
         call.seen.env[e].pin[call.parent] = None, ~Releasing(call.parent, e)
  PROVE  Reaches(flag', call.key, e) \subseteq Reaches(flag, call.key, e)
<1>1. LdInv /\ Request /\ api.status = "sent" /\ api.op.kind = "wire" /\ flag' # flag
  BY FlagsStand DEF Wires, IInv
<1>2. Take(api.op)  BY <1>1 DEF Request, Serve, RateLimited, ServerError, ld
<1>3. flag' = WiredFlag  BY <1>1, <1>2, Served
<1> QED BY <1>1, <1>3, Inert

LEMMA DarkStep ==
  ASSUME IInv, RideVerified, ~world.lately, NEW e \in EnvsOfRecord
  PROVE  node.tags'.variation \notin Reaches(flag, node.tags'.key, e)
<1> DEFINE v == Candidate
<1>1. call.step = "releases" /\ ~VariationReleased(call.seen, v, SeenReleasing)
  BY DEF RideVerified, Answered
<1>2. node' = [node EXCEPT !.calls = @ - 1, !.tags = [node.tags EXCEPT !.ready = TRUE, !.key = call.key, !.variation = v]]
  BY DEF RideVerified, Returned
<1> HIDE DEF v
<1>3. call.seen = flag[call.key]  BY <1>1 DEF IInv, LdInv, SeenOK
<1>4. node \in NodeState /\ node.tags \in Tags  BY TagTypes DEF IInv
<1>5. node'.tags = [node.tags EXCEPT !.ready = TRUE, !.key = call.key, !.variation = v]
  BY <1>2, <1>4 DEF NodeState
<1>6. node'.tags.key = call.key /\ node'.tags.variation = v  BY <1>4, <1>5 DEF Tags
<1>7. ~(flag[call.key].env[e].on /\ v \in Arms(flag[call.key].env[e]))
  BY <1>1, <1>3 DEF VariationReleased
<1>8. v \notin Reaches(flag, call.key, e)  BY <1>7 DEF Reaches, Arms
<1> QED BY <1>6, <1>8

\* What a step may do to a manifest in which a human has written.
WordKept ==
  repo.manifest.state = "written" =>
    /\ repo.manifest'.answer = repo.manifest.answer
    /\ (repo.manifest.intent = "human" /\ node.name # "steward") => repo.manifest'.intent = "human"

LEMMA ToolsKeep == ASSUME IInv, Tools PROVE WordKept
<1>1. LdInv /\ NodeInv /\ RestTypes /\ repo \in RepoState /\ repo.manifest \in Manifest
  BY DEF IInv, RestTypes, RepoState
<1>2. CASE UNCHANGED repo  BY <1>2 DEF WordKept
<1>3. CASE WriteFile
  <2>1. PICK r \in Ref, keep \in BOOLEAN :
             repo' = [repo EXCEPT !.refs = IF keep THEN @ \union {r} ELSE @ \ {r}, !.dirty = @ \union {"code"}]
    BY <1>3 DEF WriteFile, Locally
  <2>2. repo'.manifest = repo.manifest  BY <1>1, <2>1 DEF RepoState
  <2> QED BY <2>2 DEF WordKept
<1>4. CASE RunTests  BY <1>2, <1>4 DEF RunTests, Locally
<1>5. CASE CommitAndPush
  <2>1. repo'.manifest = repo.manifest  BY <1>1, <1>5, Landing DEF CommitAndPush
  <2> QED BY <2>1 DEF WordKept
<1>6. CASE WriteManifest
  <2>1. PICK given \in BOOLEAN, ask \in BOOLEAN, target \in Ask :
          LET m == Merged(repo.manifest, node.name, given, ask, target) IN
          Landed([repo EXCEPT !.manifest = m, !.dirty = IF m = repo.manifest THEN @ ELSE @ \union {"manifest"}],
                 {"manifest"})
    BY <1>6 DEF WriteManifest
  <2> DEFINE m == Merged(repo.manifest, node.name, given, ask, target)
             dirty == IF m = repo.manifest THEN repo.dirty ELSE repo.dirty \union {"manifest"}
             r == [repo EXCEPT !.manifest = m, !.dirty = dirty]
  <2>2. /\ m \in Manifest
        /\ repo.manifest.state = "written" =>
             /\ m.answer = repo.manifest.answer
             /\ repo.manifest.intent = "human" /\ node.name # "steward" => m.intent = "human"
    BY <1>1, Merging
  <2>3. dirty \subseteq {"code", "manifest"}  BY <1>1 DEF RepoState
  <2>4. Landed(r, {"manifest"})  BY <2>1
  <2> HIDE DEF m, dirty
  <2>5. r \in RepoState /\ r.manifest = m  BY <1>1, <2>2, <2>3 DEF RepoState
  <2>6. repo'.manifest = m
    <3>1. PICK q : q = r  OBVIOUS
    <3>2. Landed(q, {"manifest"})  BY <2>4, <3>1 DEF Landed
    <3> QED BY <2>5, <3>1, <3>2, Landing
  <2> QED BY <2>2, <2>6 DEF WordKept
<1>7. CASE CreateFlag \/ AddVariation \/ GetFlagState \/ UseExisting \/ CreateMetric  BY <1>1, <1>2, <1>7, BeginsInv
<1>8. CASE Inspect \/ Tag \/ ReadDocs \/ QueryRepos  BY <1>1, <1>2, <1>8, SimpleCalls
<1>9. CASE FlagCreated  BY <1>1, <1>2, <1>9, FlagCreatedInv
<1>10. CASE FlagWired \/ VariationAdded \/ StateShown \/ RideVerified \/ MetricCreated \/ Refused
  BY <1>1, <1>2, <1>10, OtherReturns
<1> QED BY <1>3, <1>4, <1>5, <1>6, <1>7, <1>8, <1>9, <1>10 DEF Tools

LEMMA StepsKeep == ASSUME IInv, [Next]_vars, world' = world PROVE WordKept
<1>1. RestTypes  BY DEF IInv
<1>2. CASE UNCHANGED repo  BY <1>2 DEF WordKept
<1>3. ~HumanWrites
  <2>1. HumanWrites => world' = [world EXCEPT !.moves = world.moves + 1]  BY DEF HumanWrites
  <2>2. world \in [moves : Nat, lately : BOOLEAN]  BY <1>1 DEF RestTypes
  <2>3. HumanWrites => world'.moves = world.moves + 1  BY <2>1, <2>2
  <2> QED BY <2>2, <2>3
<1>4. Start \/ Agent => UNCHANGED repo
  BY DEF Start, Agent, Respond, TurnEnds, ModelFails, ForceTags, ForceFails, ForceEnds, Verify, Others
<1> QED BY <1>2, <1>3, <1>4, ToolsKeep DEF Next, vars

(***************************************************************************)
(* The theorems.                                                           *)
(***************************************************************************)
\* The variables hold what the code's types hold: retries, turns and budgets
\* stay within their limits whatever fails (ldClient.ts, anthropicAgentRunner.ts).
THEOREM Bounded == Spec => []TypeOK
<1>1. IInv => TypeOK
  <2> SUFFICES ASSUME IInv PROVE TypeOK
    OBVIOUS
  <2>1. flag \in [Flag -> FlagState] /\ metric \subseteq Metric /\ api \in ApiState  BY DEF IInv, LdInv, LdTypes
  <2>2. /\ api.status \in {"idle", "sent", "ok", "conflict", "failed"}
        /\ api.rate \in 0 .. RateLimitRetries /\ api.server \in 0 .. ServerErrorRetries
    BY <2>1 DEF ApiState
  <2>3. /\ node.phase \in Phase /\ node.status \in Status /\ node.tags \in Tags
        /\ node.tries \in 0 .. TransientRetries /\ node.turn \in 0 .. MaxTurns
        /\ node.docs \in 0 .. DocsBudget /\ node.repos \in 0 .. RepoBudget
    BY DEF IInv, NodeInv, NodeState
  <2>4. repo.refs \subseteq Ref /\ repo.manifest \in Manifest  BY DEF IInv, RestTypes, RepoState
  <2> QED BY <2>1, <2>2, <2>3, <2>4 DEF TypeOK
<1> QED BY <1>1, Invariance, PTL

\* A tag set by a tool names a flag or a metric that exists, through every
\* retry, lost answer and move of others (sandboxTools.ts sets it on success).
THEOREM Factual == Spec => []TagsAreFacts
<1>1. IInv => TagsAreFacts  BY DEF IInv, NodeInv, TagsOK, TagsAreFacts
<1> QED BY <1>1, Invariance, PTL

\* No patch is served twice: ldClient.ts repeats after a 5xx only what is
\* harmless to repeat, and after a 429 nothing had been served.
THEOREM ServedOnce == Spec => []NothingTwice
<1>1. IInv => NothingTwice
  <2> SUFFICES ASSUME IInv, api.applied > 1 PROVE IsGet(api.op) \/ IsCreate(api.op)
    BY DEF NothingTwice
  <2>1. api.applied \in Nat /\ (~IsRetryableOnServerError(api.op) => api.applied <= 1)
    BY DEF IInv, LdInv, LdTypes, ApiState, Applied
  <2> QED BY <2>1 DEF IsRetryableOnServerError
<1> QED BY <1>1, Invariance, PTL

\* A verified handoff names a variation of the flag it names, from the moment
\* handoffVerifier.ts has looked until the next node run begins.
THEOREM Verifiable == Spec => []HandoffHolds
<1>1. IInv => HandoffHolds  BY DEF IInv, NodeInv
<1> QED BY <1>1, Invariance, PTL

\* What use_existing_flag lets a change ride serves no user in the environment
\* of record, where nobody moved since the node run began (sandboxTools.ts).
THEOREM Darkness == Spec => RidesDark
<1>1. IInv /\ [Next]_vars =>
        [RideVerified /\ ~world.lately =>
           \A e \in EnvsOfRecord : node.tags'.variation \notin Reaches(flag, node.tags'.key, e)]_vars
  BY DarkStep
<1> QED BY <1>1, Invariance, PTL DEF Spec, RidesDark

\* Wiring a child behind its parent lets no user see the child's treatment,
\* where addPrerequisite's reads still hold, the parent is not mid-release and
\* was not pinned before (ldWriter.ts).
THEOREM Inertness == Spec => WiringIsInert
<1>1. IInv /\ [Next]_vars =>
        [Wires /\ call.live =>
           \A e \in Env :
             \/ call.seen.env[e].pin[call.parent] # None
             \/ Releasing(call.parent, e)
             \/ Reaches(flag', call.key, e) \subseteq Reaches(flag, call.key, e)]_vars
  BY InertStep
<1> QED BY <1>1, Invariance, PTL DEF Spec, WiringIsInert

\* A human's answer and intent outlive every tool call, and every merge of the
\* manifest; only the steward may rewrite the intent (sandboxTools.ts).
THEOREM HumanWord == Spec => HumanWordKept
<1>1. IInv /\ [Next]_vars =>
        [repo.manifest.state = "written" /\ world' = world =>
           /\ repo.manifest'.answer = repo.manifest.answer
           /\ (repo.manifest.intent = "human" /\ node.name # "steward") => repo.manifest'.intent = "human"]_vars
  BY StepsKeep DEF WordKept
<1> QED BY <1>1, Invariance, PTL DEF Spec, HumanWordKept
=============================================================================
