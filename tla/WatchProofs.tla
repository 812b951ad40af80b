----------------------------- MODULE WatchProofs -----------------------------
(***************************************************************************)
(* What holds of the release watch and of the re-pointing for every number *)
(* of child flags, requests, releases and misfortunes: they stay well      *)
(* typed, a reverted release is taken to Sentry at most once, and a child  *)
(* is moved forward along its lineage from where it was read.              *)
(*                                                                         *)
(* Once needs one watch: dedupeMonitors' key is what keeps a second one    *)
(* from following the same release (OneWatch), and a watch only follows a  *)
(* release that nobody was told of (WatchOK).  Forward needs what a run    *)
(* remembers between its read of a child and its patch (RepointOK).        *)
(***************************************************************************)
EXTENDS ReleaseWatch, TLAPS

WorldTypes ==
  /\ on \in BOOLEAN /\ served \in Version
  /\ rel \in Seq(Release) /\ Len(rel) <= MaxReleases /\ seen \in 0 .. Len(rel)
  /\ pin \in [Child -> Version]
  /\ wanted \in Version /\ asked \in {"fresh", "pending", "checked", "done"}
  /\ faults \in 0 .. MaxFaults /\ excused \in BOOLEAN

Alive(w) == watch[w].pc # "idle"

OneWatch == \A w, v \in Watch : Alive(w) /\ Alive(v) => w = v

TaskTypes ==
  /\ watch \in [Watch -> WatchState] /\ rp \in [Repointer -> RepointState]
  /\ inFlight = (\E w \in Watch : Alive(w))
  /\ \A w \in Watch : (watch[w].pc = "repoint") = (rp[w].pc # "idle")
  /\ OneWatch

\* A watch follows a release nobody was told of, and asks about a reverted one.
WatchOK(w) ==
  /\ watch[w].pc = "resolve" => watch[w].tries < AttachAttempts
  /\ watch[w].pc \in {"poll", "seer"} => watch[w].id \in 1 .. Len(rel) /\ rel[watch[w].id].told = <<>>
  /\ watch[w].pc = "seer" => rel[watch[w].id].status = "reverted"

\* A patch is on its way to a child that may follow from where it was read.
RepointOK(a) == rp[a].pc = "patch" => rp[a].todo # {} /\ MayFollow(ChildOf(a), rp[a].pinned, rp[a].serving)

IInv ==
  /\ WorldTypes /\ TaskTypes /\ AutofixOnce
  /\ \A w \in Watch : WatchOK(w)
  /\ \A a \in Repointer : RepointOK(a)

(***************************************************************************)
(* Tasks: how the watches, the key in flight and the runs may move.        *)
(***************************************************************************)
LEMMA IdleTypes ==
  /\ IdleWatch \in WatchState /\ IdleRepoint \in RepointState
  /\ [IdleRepoint EXCEPT !.pc = "parent"] \in RepointState
  /\ [IdleWatch EXCEPT !.pc = "repoint"] \in WatchState
BY WatchAssumption, MaxVersionAssumption DEF IdleWatch, IdleRepoint, WatchState, RepointState, Control, Version

\* The watch task after each kind of step of its own.
LEMMA Remembers ==
  ASSUME NEW s \in WatchState, NEW c \in 0 .. MaxReleases
  PROVE  [s EXCEPT !.pc = "resolve", !.ctx = c] \in WatchState
BY DEF WatchState

LEMMA Finds ==
  ASSUME NEW s \in WatchState, NEW i \in 0 .. MaxReleases, NEW t \in 0 .. AttachAttempts
  PROVE  [s EXCEPT !.pc = "poll", !.id = i, !.tries = t] \in WatchState
BY DEF WatchState

LEMMA Retries ==
  ASSUME NEW s \in WatchState, NEW t \in 0 .. AttachAttempts, NEW p \in {"resolve", "latest"}
  PROVE  [s EXCEPT !.tries = t, !.pc = p] \in WatchState
BY DEF WatchState

LEMMA Counts ==
  ASSUME NEW s \in WatchState, NEW e \in 0 .. PollErrorRetries
  PROVE  [s EXCEPT !.errors = e] \in WatchState /\ [s EXCEPT !.pc = "seer", !.errors = e] \in WatchState
BY DEF WatchState

LEMMA WatchFields ==
  ASSUME NEW s \in WatchState
  PROVE  s.tries \in 0 .. AttachAttempts /\ s.errors \in 0 .. PollErrorRetries
BY DEF WatchState

LEMMA SpendType == ASSUME WorldTypes, NEW kind, Spend(kind) PROVE faults' \in 0 .. MaxFaults
BY WatchAssumption DEF WorldTypes, Spend

\* A new watch starts only when none is alive.
LEMMA Attaching ==
  ASSUME TaskTypes, NEW ctx \in 0 .. MaxReleases, Attach(ctx), UNCHANGED rp
  PROVE  /\ TaskTypes'
         /\ \A w \in Watch : \/ watch'[w] = watch[w]
                             \/ watch'[w].pc = "resolve" /\ watch'[w].tries = 0
<1>1. CASE inFlight
  BY <1>1 DEF Attach, TaskTypes, OneWatch, Alive
<1>2. CASE ~inFlight
  <2> DEFINE v == CHOOSE w \in NoWatch : TRUE
             s == [IdleWatch EXCEPT !.pc = "resolve", !.ctx = ctx]
  <2>1. \A w \in Watch : watch[w].pc = "idle"  BY <1>2 DEF TaskTypes, Alive
  <2>2. v \in Watch  BY <2>1, WatchAssumption DEF NoWatch
  <2>3. s \in WatchState /\ s.pc = "resolve" /\ s.tries = 0
    <3>1. s \in WatchState  BY IdleTypes, Remembers
    <3> QED BY <3>1 DEF IdleWatch
  <2>4. watch' = [watch EXCEPT ![v] = s] /\ inFlight' = TRUE  BY <1>2 DEF Attach, Attached
  <2> HIDE DEF s, v
  <2>5. watch' \in [Watch -> WatchState] /\ watch'[v] = s /\ \A w \in Watch : w # v => watch'[w] = watch[w]
    BY <2>2, <2>3, <2>4 DEF TaskTypes
  <2>6. TaskTypes'
    BY <2>1, <2>2, <2>3, <2>4, <2>5 DEF TaskTypes, OneWatch, Alive
  <2> QED BY <2>3, <2>5, <2>6
<1> QED BY <1>1, <1>2

\* A watch goes on.
LEMMA Watching ==
  ASSUME TaskTypes, NEW w \in Watch, NEW s \in WatchState, watch' = [watch EXCEPT ![w] = s],
         watch[w].pc \notin {"idle", "repoint"}, s.pc \notin {"idle", "repoint"}, UNCHANGED <<inFlight, rp>>
  PROVE  TaskTypes' /\ watch'[w] = s /\ \A v \in Watch : v # w => watch'[v].pc = "idle"
<1>1. watch' \in [Watch -> WatchState] /\ watch'[w] = s /\ \A v \in Watch : v # w => watch'[v] = watch[v]
  BY DEF TaskTypes
<1>2. \A v \in Watch : v # w => watch[v].pc = "idle"  BY DEF TaskTypes, OneWatch, Alive
<1>3. TaskTypes'  BY <1>1, <1>2 DEF TaskTypes, OneWatch, Alive
<1> QED BY <1>1, <1>2, <1>3

LEMMA Settling ==
  ASSUME TaskTypes, NEW w \in Watch, Settled(w), watch[w].pc # "idle",
         \/ watch[w].pc # "repoint" /\ UNCHANGED rp
         \/ rp' = [rp EXCEPT ![w] = IdleRepoint]
  PROVE  TaskTypes' /\ \A v \in Watch : watch'[v].pc = "idle"
<1>1. /\ watch' \in [Watch -> WatchState] /\ watch'[w] = IdleWatch /\ inFlight' = FALSE
      /\ \A v \in Watch : v # w => watch'[v] = watch[v]
  BY IdleTypes DEF TaskTypes, Settled
<1>2. \A v \in Watch : v # w => watch[v].pc = "idle"  BY DEF TaskTypes, OneWatch, Alive
<1>3. \A v \in Watch : watch'[v].pc = "idle"  BY <1>1, <1>2 DEF IdleWatch
<1>4. w \in Repointer  BY DEF Repointer
<1>5. /\ rp' \in [Repointer -> RepointState] /\ \A v \in Watch : rp'[v].pc = "idle"
  <2>1. CASE watch[w].pc # "repoint" /\ UNCHANGED rp
    BY <1>2, <2>1 DEF TaskTypes
  <2>2. CASE rp' = [rp EXCEPT ![w] = IdleRepoint]
    <3>1. rp' \in [Repointer -> RepointState] /\ rp'[w] = IdleRepoint /\ \A b \in Repointer : b # w => rp'[b] = rp[b]
      BY <1>4, <2>2, IdleTypes DEF TaskTypes
    <3>2. \A v \in Watch : v \in Repointer /\ (v # w => rp[v].pc = "idle")
      BY <1>2 DEF TaskTypes, Repointer
    <3> QED BY <3>1, <3>2 DEF IdleRepoint
  <2> QED BY <2>1, <2>2
<1> QED BY <1>1, <1>3, <1>5 DEF TaskTypes, OneWatch, Alive

\* A run of the re-pointing goes on.
LEMMA Repointing ==
  ASSUME TaskTypes, NEW a \in Repointer, NEW r \in RepointState, rp' = [rp EXCEPT ![a] = r],
         a \in Handler \/ (rp[a].pc # "idle" /\ r.pc # "idle"), UNCHANGED <<inFlight, watch>>
  PROVE  TaskTypes' /\ rp'[a] = r /\ \A b \in Repointer : b # a => rp'[b] = rp[b]
<1>1. rp' \in [Repointer -> RepointState] /\ rp'[a] = r /\ \A b \in Repointer : b # a => rp'[b] = rp[b]
  BY DEF TaskTypes
<1>2. \A w \in Watch : w \in Repointer /\ (w = a => a \notin Handler)  BY WatchAssumption DEF Repointer
<1>3. TaskTypes'  BY <1>1, <1>2 DEF TaskTypes, OneWatch, Alive
<1> QED BY <1>1, <1>3

LEMMA WatchRepoints ==
  ASSUME TaskTypes, NEW w \in Watch, BeginWatchRepoint(w), watch[w].pc \notin {"idle", "repoint"}
  PROVE  /\ TaskTypes' /\ \A v \in Watch : watch'[v].pc \in {"idle", "repoint"}
         /\ \A b \in Repointer : rp'[b] = rp[b] \/ rp'[b].pc = "parent"
<1> DEFINE s == [IdleWatch EXCEPT !.pc = "repoint"]
           r == [IdleRepoint EXCEPT !.pc = "parent"]
<1>1. /\ watch' = [watch EXCEPT ![w] = s] /\ rp' = [rp EXCEPT ![w] = r] /\ UNCHANGED inFlight /\ w \in Repointer
      /\ s.pc = "repoint" /\ r.pc = "parent" /\ s \in WatchState /\ r \in RepointState
  BY IdleTypes DEF BeginWatchRepoint, BeginRepoint, Repointer, IdleWatch, IdleRepoint
<1> HIDE DEF s, r
<1>2. /\ watch' \in [Watch -> WatchState] /\ watch'[w] = s /\ \A v \in Watch : v # w => watch'[v] = watch[v]
      /\ rp' \in [Repointer -> RepointState] /\ rp'[w] = r /\ \A b \in Repointer : b # w => rp'[b] = rp[b]
  BY <1>1 DEF TaskTypes
<1>3. \A v \in Watch : v \in Repointer /\ (v # w => watch[v].pc = "idle")
  BY DEF TaskTypes, OneWatch, Alive, Repointer
<1>4. TaskTypes'  BY <1>1, <1>2, <1>3 DEF TaskTypes, OneWatch, Alive
<1> QED BY <1>1, <1>2, <1>3, <1>4

(***************************************************************************)
(* The rest of the invariant, given how the tasks and the releases moved.  *)
(***************************************************************************)
LEMMA SameRuns ==
  ASSUME IInv, \A a \in Repointer : rp'[a] = rp[a] \/ rp'[a].pc # "patch"
  PROVE  \A a \in Repointer : RepointOK(a)'
BY DEF IInv, RepointOK, ChildOf

LEMMA SameReleases ==
  ASSUME IInv, UNCHANGED rel,
         \A w \in Watch : \/ watch'[w] = watch[w]
                          \/ watch'[w].pc \in {"idle", "latest", "repoint"}
                          \/ watch'[w].pc = "resolve" /\ watch'[w].tries < AttachAttempts
  PROVE  AutofixOnce' /\ \A w \in Watch : WatchOK(w)'
BY DEF IInv, AutofixOnce, WatchOK

(***************************************************************************)
(* One lemma per action of a handler and of a watch.                       *)
(***************************************************************************)
\* A step that concerns neither watches nor runs nor releases.
LEMMA Elsewhere ==
  ASSUME IInv, WorldTypes', UNCHANGED <<rel, inFlight, watch, rp>>
  PROVE  IInv'
<1>1. TaskTypes'  BY DEF IInv, TaskTypes, OneWatch, Alive
<1> QED BY <1>1, SameRuns, SameReleases DEF IInv

LEMMA BeginsRepoint ==
  ASSUME IInv, NEW h \in Handler, BeginRepoint(h), WorldTypes', UNCHANGED <<rel, inFlight, watch>>
  PROVE  IInv'
<1> DEFINE r == [IdleRepoint EXCEPT !.pc = "parent"]
<1>1. h \in Repointer /\ rp' = [rp EXCEPT ![h] = r] /\ r \in RepointState /\ r.pc = "parent"
  BY IdleTypes DEF Repointer, BeginRepoint, IdleRepoint
<1> HIDE DEF r
<1>2. TaskTypes' /\ \A b \in Repointer : rp'[b] = rp[b] \/ rp'[b].pc = "parent"
  BY <1>1, Repointing DEF IInv
<1> QED BY <1>2, SameRuns, SameReleases DEF IInv

LEMMA LedgerHistoryInv == ASSUME IInv, NEW h \in Handler, LedgerHistory(h) PROVE IInv'
<1>1. WorldTypes'  BY DEF LedgerHistory, IInv, WorldTypes, parent
<1> QED BY <1>1, BeginsRepoint, Elsewhere DEF LedgerHistory, parent

LEMMA AlreadyRunningInv == ASSUME IInv, NEW h \in Handler, AlreadyRunning(h) PROVE IInv'
<1>1. WorldTypes'  BY DEF AlreadyRunning, IInv, WorldTypes, parent
<1>2. Attach(0) /\ UNCHANGED <<rel, rp>> /\ 0 \in 0 .. MaxReleases
  BY WatchAssumption DEF AlreadyRunning, parent
<1>3. TaskTypes' /\ \A w \in Watch : watch'[w] = watch[w] \/ (watch'[w].pc = "resolve" /\ watch'[w].tries = 0)
  BY <1>2, Attaching DEF IInv
<1>4. 0 < AttachAttempts  BY WatchAssumption
<1> QED BY <1>1, <1>2, <1>3, <1>4, SameRuns, SameReleases DEF IInv

LEMMA StartReleaseInv == ASSUME IInv, NEW h \in Handler, StartRelease(h) PROVE IInv'
<1> DEFINE r == [from |-> ServedNow, target |-> wanted, status |-> "in_progress",
                 watched |-> ~inFlight, told |-> <<>>]
           l == Len(rel) + 1
<1>0. ServedNow \in Version
  <2>1. Control \in Version  BY MaxVersionAssumption DEF Control, Version
  <2> QED BY <2>1 DEF ServedNow, IInv, WorldTypes
<1>1. Attach(l) /\ rel' = Append(rel, r) /\ UNCHANGED rp  BY DEF StartRelease
<1>2. rel \in Seq(Release) /\ l \in 0 .. MaxReleases
  BY WatchAssumption DEF StartRelease, IInv, WorldTypes
<1>3. r \in Release /\ r.told = <<>>
  <2>1. inFlight \in BOOLEAN /\ ServedNow \in Version /\ wanted \in Version
    BY <1>0 DEF IInv, WorldTypes, TaskTypes
  <2> QED BY <2>1 DEF Release
<1> HIDE DEF r
<1>4. /\ rel' \in Seq(Release) /\ Len(rel') = l /\ rel'[l] = r
      /\ \A i \in 1 .. Len(rel) : rel'[i] = rel[i]
  BY <1>1, <1>2, <1>3
<1>5. WorldTypes'  BY <1>2, <1>4, <1>0 DEF StartRelease, IInv, WorldTypes
<1>6. TaskTypes' /\ \A w \in Watch : watch'[w] = watch[w] \/ (watch'[w].pc = "resolve" /\ watch'[w].tries = 0)
  BY <1>1, <1>2, Attaching DEF IInv
<1>7. \A i \in 1 .. Len(rel') : i \in 1 .. Len(rel) \/ i = l  BY <1>2, <1>4
<1>8. AutofixOnce'  BY <1>3, <1>4, <1>7 DEF AutofixOnce, IInv
<1>9. ASSUME NEW w \in Watch PROVE WatchOK(w)'
  BY <1>2, <1>4, <1>6, WatchAssumption DEF IInv, WatchOK
<1> QED BY <1>1, <1>5, <1>6, <1>8, <1>9, SameRuns DEF IInv

LEMMA ImmediateInv == ASSUME IInv, NEW h \in Handler, ReleaseImmediately(h) \/ Noop(h) PROVE IInv'
<1>1. WorldTypes'  BY DEF ReleaseImmediately, Noop, IInv, WorldTypes, parent
<1> QED BY <1>1, BeginsRepoint DEF ReleaseImmediately, Noop, parent

\* A watch that is alive takes a step of its own.
LEMMA WatchGoesOn ==
  ASSUME IInv, NEW w \in Watch, NEW s \in WatchState, watch' = [watch EXCEPT ![w] = s],
         watch[w].pc \notin {"idle", "repoint"}, s.pc \notin {"idle", "repoint"},
         UNCHANGED <<inFlight, rp, rel>>, WorldTypes',
         s.pc = "resolve" => s.tries < AttachAttempts,
         s.pc \in {"poll", "seer"} => s.id \in 1 .. Len(rel) /\ rel[s.id].told = <<>>,
         s.pc = "seer" => rel[s.id].status = "reverted"
  PROVE  IInv'
<1>1. TaskTypes' /\ watch'[w] = s /\ \A v \in Watch : v # w => watch'[v].pc = "idle"
  BY Watching DEF IInv
<1>2. \A v \in Watch : WatchOK(v)'  BY <1>1 DEF WatchOK
<1> QED BY <1>1, <1>2, SameRuns DEF IInv, AutofixOnce

LEMMA WatchSettles ==
  ASSUME IInv, NEW w \in Watch, Settled(w), watch[w].pc \notin {"idle", "repoint"}, UNCHANGED rp,
         WorldTypes', AutofixOnce'
  PROVE  IInv'
<1>1. TaskTypes' /\ \A v \in Watch : watch'[v].pc = "idle"  BY Settling DEF IInv
<1>2. \A v \in Watch : WatchOK(v)'  BY <1>1 DEF WatchOK
<1> QED BY <1>1, <1>2, SameRuns DEF IInv

LEMMA WatchTurnsToChildren ==
  ASSUME IInv, NEW w \in Watch, BeginWatchRepoint(w), watch[w].pc \notin {"idle", "repoint"}, UNCHANGED rel,
         WorldTypes'
  PROVE  IInv'
<1>1. /\ TaskTypes' /\ \A v \in Watch : watch'[v].pc \in {"idle", "repoint"}
      /\ \A b \in Repointer : rp'[b] = rp[b] \/ rp'[b].pc = "parent"
  BY WatchRepoints DEF IInv
<1>2. (\A v \in Watch : WatchOK(v)') /\ AutofixOnce'  BY <1>1, SameReleases
<1> QED BY <1>1, <1>2, SameRuns DEF IInv

LEMMA ResolveInv == ASSUME IInv, NEW w \in Watch, Resolve(w) PROVE IInv'
<1>1. WorldTypes' /\ UNCHANGED <<rel, inFlight, rp>> /\ watch[w].pc = "resolve"
  BY DEF Resolve, IInv, WorldTypes, parent
<1>2. /\ watch[w] \in WatchState /\ watch[w].tries < AttachAttempts /\ watch[w].tries \in 0 .. AttachAttempts
  BY <1>1 DEF IInv, TaskTypes, WatchOK, WatchState
<1>3. ASSUME NEW i \in ListedActive, watch' = [watch EXCEPT ![w].pc = "poll", ![w].id = i, ![w].tries = 0]
      PROVE  IInv'
  <2> DEFINE s == [watch[w] EXCEPT !.pc = "poll", !.id = i, !.tries = 0]
  <2>1. i \in 1 .. Len(rel) /\ Len(rel) \in Nat /\ Len(rel) <= MaxReleases /\ ~Terminal(rel[i].status)
    BY <1>3 DEF ListedActive, Running, IInv, WorldTypes
  <2>2. s \in WatchState /\ s.pc = "poll" /\ s.id = i
    <3>1. i \in 0 .. MaxReleases /\ 0 \in 0 .. AttachAttempts  BY <2>1, WatchAssumption
    <3>2. s \in WatchState  BY <1>2, <3>1, Finds
    <3> QED BY <1>2, <3>2 DEF WatchState
  <2>3. rel[i].told = <<>>  BY <2>1 DEF IInv, AutofixOnce, Terminal
  <2>4. watch' = [watch EXCEPT ![w] = s]  BY <1>3
  <2> HIDE DEF s
  <2> QED BY <1>1, <2>1, <2>2, <2>3, <2>4, WatchGoesOn
<1>4. ASSUME watch' = [watch EXCEPT ![w].tries = @ + 1,
                                 ![w].pc = IF watch[w].tries + 1 = AttachAttempts THEN "latest" ELSE @]
      PROVE  IInv'
  <2> DEFINE s == [watch[w] EXCEPT !.tries = watch[w].tries + 1,
                                   !.pc = IF watch[w].tries + 1 = AttachAttempts THEN "latest" ELSE watch[w].pc]
  <2>1. /\ s \in WatchState /\ s.pc \in {"resolve", "latest"}
        /\ s.pc = "resolve" => s.tries < AttachAttempts
    <3>1. watch[w].tries + 1 \in 0 .. AttachAttempts  BY <1>2, WatchAssumption
    <3>2. s \in WatchState  BY <1>1, <1>2, <3>1, Retries
    <3>3. /\ s.tries = watch[w].tries + 1
          /\ s.pc = IF watch[w].tries + 1 = AttachAttempts THEN "latest" ELSE watch[w].pc
      BY <1>2 DEF WatchState
    <3> HIDE DEF s
    <3> QED BY <1>1, <1>2, <3>1, <3>2, <3>3, WatchAssumption
  <2>2. watch' = [watch EXCEPT ![w] = s]  BY <1>4
  <2> HIDE DEF s
  <2> QED BY <1>1, <2>1, <2>2, WatchGoesOn
<1> QED BY <1>3, <1>4 DEF Resolve

LEMMA LatestInv == ASSUME IInv, NEW w \in Watch, Latest(w) PROVE IInv'
<1>1. /\ WorldTypes' /\ UNCHANGED rel /\ watch[w].pc = "latest"
      /\ BeginWatchRepoint(w) \/ (Settled(w) /\ UNCHANGED rp)
  BY DEF Latest, IInv, WorldTypes, parent
<1>2. AutofixOnce'  BY <1>1 DEF IInv, AutofixOnce
<1> QED BY <1>1, <1>2, WatchSettles, WatchTurnsToChildren

LEMMA PollInv == ASSUME IInv, NEW w \in Watch, Poll(w) PROVE IInv'
<1>1. WorldTypes' /\ UNCHANGED rel /\ watch[w].pc = "poll"  BY DEF Poll, IInv, WorldTypes, parent
<1>2. AutofixOnce'  BY <1>1 DEF IInv, AutofixOnce
<1>3. watch[w] \in WatchState /\ watch[w].id \in 1 .. Len(rel) /\ rel[watch[w].id].told = <<>>
  BY <1>1 DEF IInv, TaskTypes, WatchOK
<1>4. CASE /\ rel[watch[w].id].status = "reverted"
           /\ watch' = [watch EXCEPT ![w].pc = "seer", ![w].errors = 0] /\ UNCHANGED <<inFlight, rp>>
  <2> DEFINE s == [watch[w] EXCEPT !.pc = "seer", !.errors = 0]
  <2>1. s \in WatchState /\ s.pc = "seer" /\ s.id = watch[w].id
    <3>1. 0 \in 0 .. PollErrorRetries  BY WatchAssumption
    <3>2. s \in WatchState  BY <1>3, <3>1, Counts
    <3> QED BY <1>3, <3>2 DEF WatchState
  <2>2. watch' = [watch EXCEPT ![w] = s]  BY <1>4
  <2> HIDE DEF s
  <2> QED BY <1>1, <1>3, <1>4, <2>1, <2>2, WatchGoesOn
<1>5. CASE watch' = [watch EXCEPT ![w].errors = 0] /\ UNCHANGED <<inFlight, rp>>
  <2> DEFINE s == [watch[w] EXCEPT !.errors = 0]
  <2>1. s \in WatchState /\ s.pc = "poll" /\ s.id = watch[w].id
    <3>1. 0 \in 0 .. PollErrorRetries  BY WatchAssumption
    <3>2. s \in WatchState  BY <1>3, <3>1, Counts
    <3> QED BY <1>1, <1>3, <3>2 DEF WatchState
  <2>2. watch' = [watch EXCEPT ![w] = s]  BY <1>5
  <2> HIDE DEF s
  <2> QED BY <1>1, <1>3, <1>5, <2>1, <2>2, WatchGoesOn
<1> QED BY <1>1, <1>2, <1>4, <1>5, WatchSettles, WatchTurnsToChildren DEF Poll

LEMMA PollFailsInv == ASSUME IInv, NEW w \in Watch, PollFails(w) PROVE IInv'
<1>1. WorldTypes' /\ UNCHANGED rel /\ watch[w].pc = "poll" /\ UNCHANGED rp
  BY SpendType DEF PollFails, IInv, WorldTypes, parent
<1>2. AutofixOnce'  BY <1>1 DEF IInv, AutofixOnce
<1>3. watch[w] \in WatchState /\ watch[w].id \in 1 .. Len(rel) /\ rel[watch[w].id].told = <<>>
  BY <1>1 DEF IInv, TaskTypes, WatchOK
<1>4. CASE watch[w].errors # PollErrorRetries
  <2> DEFINE s == [watch[w] EXCEPT !.errors = watch[w].errors + 1]
  <2>1. s \in WatchState /\ s.pc = "poll" /\ s.id = watch[w].id
    <3>1. watch[w].errors \in 0 .. PollErrorRetries  BY <1>3, WatchFields
    <3>2. watch[w].errors + 1 \in 0 .. PollErrorRetries  BY <1>4, <3>1, WatchAssumption
    <3>3. s \in WatchState  BY <1>3, <3>2, Counts
    <3> QED BY <1>1, <1>3, <3>3 DEF WatchState
  <2>2. watch' = [watch EXCEPT ![w] = s] /\ UNCHANGED inFlight  BY <1>4 DEF PollFails
  <2> HIDE DEF s
  <2> QED BY <1>1, <1>3, <2>1, <2>2, WatchGoesOn
<1>5. CASE watch[w].errors = PollErrorRetries
  BY <1>1, <1>2, <1>5, WatchSettles DEF PollFails
<1> QED BY <1>4, <1>5

LEMMA GivingUpInv == ASSUME IInv, NEW w \in Watch, Deadline(w) \/ ResolveFails(w) PROVE IInv'
<1>1. WorldTypes' /\ UNCHANGED <<rel, rp>> /\ watch[w].pc \notin {"idle", "repoint"} /\ Settled(w)
  BY SpendType DEF Deadline, ResolveFails, IInv, WorldTypes, parent
<1>2. AutofixOnce'  BY <1>1 DEF IInv, AutofixOnce
<1> QED BY <1>1, <1>2, WatchSettles

\* The one step that tells Sentry: nobody else follows this release.
LEMMA AskSeerInv == ASSUME IInv, NEW w \in Watch, AskSeer(w) PROVE IInv'
<1> DEFINE i == watch[w].id
<1>1. watch[w].pc = "seer" /\ Settled(w) /\ UNCHANGED rp  BY DEF AskSeer
<1>2. /\ i \in 1 .. Len(rel) /\ rel[i].told = <<>> /\ rel[i].status = "reverted" /\ watch[w].ctx \in 0 .. MaxReleases
      /\ rel \in Seq(Release)
  BY <1>1 DEF IInv, WatchOK, WorldTypes, TaskTypes, WatchState
<1>3. CASE UNCHANGED rel
  <2>1. WorldTypes' /\ AutofixOnce'  BY <1>3 DEF AskSeer, IInv, WorldTypes, AutofixOnce
  <2> QED BY <1>1, <2>1, WatchSettles
<1>4. CASE rel' = [rel EXCEPT ![i].told = Append(@, watch[w].ctx)]
  <2> DEFINE r == [rel[i] EXCEPT !.told = <<watch[w].ctx>>]
  <2>1. Append(rel[i].told, watch[w].ctx) = <<watch[w].ctx>>  BY <1>2
  <2>2. rel' = [rel EXCEPT ![i] = r]  BY <1>4, <2>1
  <2>3. rel[i] \in Release /\ <<watch[w].ctx>> \in Seq(0 .. MaxReleases) /\ Len(<<watch[w].ctx>>) = 1  BY <1>2
  <2>4. r \in Release /\ Len(r.told) = 1 /\ r.status = "reverted"  BY <1>2, <2>3 DEF Release
  <2> HIDE DEF r
  <2>5. /\ rel' \in Seq(Release) /\ Len(rel') = Len(rel) /\ rel'[i] = r
        /\ \A j \in 1 .. Len(rel) : j # i => rel'[j] = rel[j]
    BY <1>2, <2>2, <2>4
  <2>6. WorldTypes'  BY <2>5 DEF AskSeer, IInv, WorldTypes
  <2>7. AutofixOnce'  BY <2>4, <2>5 DEF IInv, AutofixOnce
  <2> QED BY <1>1, <2>6, <2>7, WatchSettles
<1> QED BY <1>3, <1>4 DEF AskSeer

(***************************************************************************)
(* One lemma per action of a run of the re-pointing.                       *)
(***************************************************************************)
LEMMA RunGoesOn ==
  ASSUME IInv, NEW a \in Repointer, NEW r \in RepointState, rp' = [rp EXCEPT ![a] = r],
         rp[a].pc # "idle", r.pc # "idle", UNCHANGED <<inFlight, watch, rel>>, WorldTypes',
         r.pc = "patch" => r.todo # {} /\ MayFollow(CHOOSE c \in r.todo : TRUE, r.pinned, r.serving)
  PROVE  IInv'
<1>1. TaskTypes' /\ rp'[a] = r /\ \A b \in Repointer : b # a => rp'[b] = rp[b]
  BY Repointing DEF IInv
<1>2. \A b \in Repointer : RepointOK(b)'  BY <1>1 DEF IInv, RepointOK, ChildOf
<1> QED BY <1>1, <1>2, SameReleases DEF IInv

\* The end of a run is the end of the watch that began it.
LEMMA RunEnds ==
  ASSUME IInv, NEW a \in Repointer, Done(a), rp[a].pc # "idle", UNCHANGED rel, WorldTypes'
  PROVE  IInv'
<1>1. AutofixOnce'  BY DEF IInv, AutofixOnce
<1>2. rp' = [rp EXCEPT ![a] = IdleRepoint] /\ IdleRepoint \in RepointState  BY IdleTypes DEF Done
<1>3. \A b \in Repointer : rp'[b] = rp[b] \/ rp'[b].pc = "idle"
  BY <1>2 DEF IInv, TaskTypes, IdleRepoint
<1>4. CASE a \in Watch
  <2>1. Settled(a) /\ watch[a].pc # "idle"  BY <1>4 DEF Done, IInv, TaskTypes
  <2>2. TaskTypes' /\ \A v \in Watch : watch'[v].pc = "idle"  BY <1>2, <1>4, <2>1, Settling DEF IInv
  <2>3. \A v \in Watch : WatchOK(v)'  BY <2>2 DEF WatchOK
  <2> QED BY <1>1, <1>3, <2>2, <2>3, SameRuns DEF IInv
<1>5. CASE a \notin Watch
  <2>1. a \in Handler /\ UNCHANGED <<inFlight, watch>>  BY <1>5 DEF Done, Repointer
  <2>2. TaskTypes'  BY <1>2, <2>1, Repointing DEF IInv
  <2> QED BY <1>1, <1>3, <2>1, <2>2, SameRuns, SameReleases DEF IInv
<1> QED BY <1>4, <1>5

LEMMA NextChildInv ==
  ASSUME IInv, NEW a \in Repointer, NextChild(a), rp[a].pc # "idle", UNCHANGED <<inFlight, watch, rel>>, WorldTypes'
  PROVE  IInv'
<1> DEFINE r == [rp[a] EXCEPT !.pc = "children", !.todo = rp[a].todo \ {ChildOf(a)}, !.pinned = Control]
<1>1. rp[a] \in RepointState  BY DEF IInv, TaskTypes
<1>2. r \in RepointState /\ r.pc = "children"
  <2>1. Control \in Version  BY MaxVersionAssumption DEF Control, Version
  <2> QED BY <1>1, <2>1 DEF RepointState
<1>3. rp' = [rp EXCEPT ![a] = r]  BY DEF NextChild
<1> HIDE DEF r
<1> QED BY <1>2, <1>3, RunGoesOn

LEMMA ReadParentInv == ASSUME IInv, NEW a \in Repointer, ReadParent(a) PROVE IInv'
<1>1. WorldTypes' /\ rp[a].pc # "idle" /\ UNCHANGED rel  BY DEF ReadParent, IInv, WorldTypes, parent
<1>2. CASE on
  <2> DEFINE r == [rp[a] EXCEPT !.pc = "children", !.serving = served, !.todo = Child]
  <2>1. rp[a] \in RepointState /\ served \in Version  BY DEF IInv, TaskTypes, WorldTypes
  <2>2. r \in RepointState /\ r.pc = "children"  BY <2>1 DEF RepointState
  <2>3. rp' = [rp EXCEPT ![a] = r] /\ UNCHANGED <<inFlight, watch>>  BY <1>2 DEF ReadParent
  <2> HIDE DEF r
  <2> QED BY <1>1, <2>2, <2>3, RunGoesOn
<1>3. CASE ~on  BY <1>1, <1>3, RunEnds DEF ReadParent
<1> QED BY <1>2, <1>3

LEMMA ReadChildInv == ASSUME IInv, NEW a \in Repointer, ReadChild(a) PROVE IInv'
<1> DEFINE c == ChildOf(a)
<1>1. WorldTypes' /\ rp[a].pc = "children" /\ rp[a].todo # {} /\ UNCHANGED <<inFlight, watch, rel>>
  BY DEF ReadChild, IInv, WorldTypes, parent
<1>2. CASE MayFollow(c, pin[c], rp[a].serving)
  <2> DEFINE r == [rp[a] EXCEPT !.pc = "patch", !.pinned = pin[c]]
  <2>1. rp[a] \in RepointState  BY DEF IInv, TaskTypes
  <2>2. c \in rp[a].todo /\ rp[a].todo \subseteq Child  BY <1>1, <2>1 DEF ChildOf, RepointState
  <2>3. pin[c] \in Version  BY <2>2 DEF IInv, WorldTypes
  <2>4. /\ r \in RepointState /\ r.pc = "patch" /\ r.todo = rp[a].todo
        /\ r.serving = rp[a].serving /\ r.pinned = pin[c]
    BY <2>1, <2>3 DEF RepointState
  <2>5. rp' = [rp EXCEPT ![a] = r]  BY <1>2 DEF ReadChild
  <2> HIDE DEF r
  <2>6. MayFollow(CHOOSE d \in r.todo : TRUE, r.pinned, r.serving)  BY <1>2, <2>4 DEF ChildOf
  <2> QED BY <1>1, <2>4, <2>5, <2>6, RunGoesOn
<1>3. CASE ~MayFollow(c, pin[c], rp[a].serving)
  BY <1>1, <1>3, NextChildInv DEF ReadChild
<1> QED BY <1>2, <1>3

\* What a patch writes: the variation the run read, to the child it read.
LEMMA Patch ==
  ASSUME IInv, NEW a \in Repointer, rp[a].pc = "patch"
  PROVE  /\ ChildOf(a) \in Child /\ rp[a].serving \in Version
         /\ [pin EXCEPT ![ChildOf(a)] = rp[a].serving] \in [Child -> Version]
<1>1. rp[a] \in RepointState /\ rp[a].todo # {}  BY DEF IInv, TaskTypes, RepointOK
<1>2. ChildOf(a) \in rp[a].todo /\ rp[a].todo \subseteq Child /\ rp[a].serving \in Version
  BY <1>1 DEF ChildOf, RepointState
<1> QED BY <1>2 DEF IInv, WorldTypes

LEMMA RepointInv == ASSUME IInv, NEW a \in Repointer, Repoint(a) \/ RepointFails(a) PROVE IInv'
<1>1. /\ rp[a].pc = "patch" /\ UNCHANGED <<inFlight, watch, rel, on, served, seen, wanted, asked>> /\ NextChild(a)
      /\ pin' = [pin EXCEPT ![ChildOf(a)] = rp[a].serving] \/ pin' = pin
      /\ faults' \in 0 .. MaxFaults /\ excused' \in BOOLEAN
  BY SpendType DEF Repoint, RepointFails, IInv, WorldTypes, parent
<1>2. pin' \in [Child -> Version]  BY <1>1, Patch DEF IInv, WorldTypes
<1>3. WorldTypes'  BY <1>1, <1>2 DEF IInv, WorldTypes
<1> QED BY <1>1, <1>3, NextChildInv

LEMMA RepointReadFailsInv == ASSUME IInv, NEW a \in Repointer, RepointReadFails(a) PROVE IInv'
<1>1. WorldTypes' /\ UNCHANGED rel  BY SpendType DEF RepointReadFails, IInv, WorldTypes, parent
<1> QED BY <1>1, RunEnds, NextChildInv DEF RepointReadFails

LEMMA RepointEndsInv == ASSUME IInv, NEW a \in Repointer, RepointEnds(a) PROVE IInv'
<1>1. WorldTypes' /\ UNCHANGED rel  BY DEF RepointEnds, IInv, WorldTypes, parent
<1> QED BY <1>1, RunEnds DEF RepointEnds

(***************************************************************************)
(* The world.                                                              *)
(***************************************************************************)
\* A release that moves has not been reverted: nobody was told of it, and no
\* watch asks about it.
LEMMA ReleaseMoves ==
  ASSUME IInv, Live, NEW v \in Version, faults' \in 0 .. MaxFaults,
         NEW status \in {"in_progress", "paused", "completed", "reverted", "monitoring_stopped"},
         Ends(Newest, status, v)
  PROVE  IInv'
<1> DEFINE i == Len(rel)
           r == [rel[i] EXCEPT !.status = status]
<1>1. rel \in Seq(Release) /\ i \in 1 .. Len(rel) /\ ~Terminal(rel[i].status)
  BY DEF Live, Newest, Running, IInv, WorldTypes
<1>2. rel[i] \in Release /\ rel[i].told = <<>> /\ rel[i].status # "reverted"
  BY <1>1 DEF IInv, AutofixOnce, Terminal
<1>3. r \in Release /\ r.told = <<>>  BY <1>2 DEF Release
<1>4. /\ rel' = [rel EXCEPT ![i] = r] /\ UNCHANGED <<inFlight, watch, rp, on, seen, pin, wanted, asked, excused>>
      /\ served' = v
  BY DEF Ends, Newest, local
<1> HIDE DEF r
<1>5. /\ rel' \in Seq(Release) /\ Len(rel') = Len(rel) /\ rel'[i] = r
      /\ \A j \in 1 .. Len(rel) : j # i => rel'[j] = rel[j]
  BY <1>1, <1>3, <1>4
<1>6. WorldTypes'  BY <1>4, <1>5 DEF IInv, WorldTypes
<1>7. TaskTypes'  BY <1>4 DEF IInv, TaskTypes, OneWatch, Alive
<1>8. AutofixOnce'  BY <1>3, <1>5 DEF IInv, AutofixOnce
<1>9. ASSUME NEW w \in Watch PROVE WatchOK(w)'
  BY <1>2, <1>3, <1>4, <1>5 DEF IInv, WatchOK
<1> QED BY <1>4, <1>6, <1>7, <1>8, <1>9, SameRuns DEF IInv

LEMMA LaunchDarklyInv == ASSUME IInv, Ramp \/ Complete \/ Resume \/ Misfortune PROVE IInv'
<1>1. Live /\ Len(rel) \in 1 .. Len(rel)  BY DEF Ramp, Complete, Resume, Misfortune, Live, Newest, IInv, WorldTypes
<1>2. rel[Newest] \in Release  BY <1>1 DEF Newest, IInv, WorldTypes
<1>3. /\ rel[Newest].from \in Version /\ rel[Newest].target \in Version /\ served \in Version
      /\ rel[Newest].status \in {"in_progress", "paused", "completed", "reverted", "monitoring_stopped"}
  BY <1>2 DEF Release, IInv, WorldTypes
<1>4. faults' \in 0 .. MaxFaults
  BY SpendType DEF Ramp, Complete, Resume, Misfortune, IInv, WorldTypes
<1>5. CASE Ramp  BY <1>1, <1>3, <1>4, <1>5, ReleaseMoves DEF Ramp
<1>6. CASE Complete  BY <1>1, <1>3, <1>4, <1>6, ReleaseMoves DEF Complete
<1>7. CASE Resume  BY <1>1, <1>3, <1>4, <1>7, ReleaseMoves DEF Resume
<1>8. CASE Misfortune  BY <1>1, <1>3, <1>4, <1>8, ReleaseMoves DEF Misfortune
<1> QED BY <1>5, <1>6, <1>7, <1>8

LEMMA OthersInv == ASSUME IInv, Settle \/ HumanActs \/ NextManifest \/ Redeliver PROVE IInv'
<1>1. UNCHANGED <<rel, inFlight, watch, rp>>
  BY DEF Settle, HumanActs, NextManifest, Redeliver, local, parent
<1>2. CASE Settle
  <2>1. seen' = Len(rel) /\ Len(rel) \in 0 .. Len(rel) /\ UNCHANGED <<on, served, pin, wanted, asked, faults, excused>>
    BY <1>2 DEF Settle, local, IInv, WorldTypes
  <2>2. WorldTypes'  BY <1>1, <2>1 DEF IInv, WorldTypes
  <2> QED BY <1>1, <2>2, Elsewhere
<1>3. CASE HumanActs
  <2>1. faults' \in 0 .. MaxFaults /\ UNCHANGED <<seen, wanted, asked>> /\ excused' \in BOOLEAN /\ on' \in BOOLEAN
    BY <1>3, SpendType DEF HumanActs, local, parent, IInv, WorldTypes
  <2>2. served' \in Version
    BY <1>3, MaxVersionAssumption DEF HumanActs, local, parent, IInv, WorldTypes, Version, Control
  <2>3. pin' \in [Child -> Version]
    BY <1>3 DEF HumanActs, local, IInv, WorldTypes
  <2>4. WorldTypes'  BY <1>1, <2>1, <2>2, <2>3 DEF IInv, WorldTypes
  <2> QED BY <1>1, <2>4, Elsewhere
<1>4. CASE NextManifest
  <2>1. wanted' \in Version /\ asked' = "fresh" /\ UNCHANGED <<on, served, seen, pin, faults, excused>>
    BY <1>4, MaxVersionAssumption DEF NextManifest, parent, IInv, WorldTypes, Version
  <2>2. WorldTypes'  BY <1>1, <2>1 DEF IInv, WorldTypes
  <2> QED BY <1>1, <2>2, Elsewhere
<1>5. CASE Redeliver
  <2>1. WorldTypes'  BY <1>5 DEF Redeliver, parent, IInv, WorldTypes
  <2> QED BY <1>1, <2>1, Elsewhere
<1> QED BY <1>2, <1>3, <1>4, <1>5

\* The process forgets its watches and its runs.
LEMMA CrashInv == ASSUME IInv, Crash PROVE IInv'
<1>1. WorldTypes' /\ AutofixOnce'  BY SpendType DEF Crash, parent, IInv, WorldTypes, AutofixOnce
<1>2. /\ watch' = [w \in Watch |-> IdleWatch] /\ rp' = [a \in Repointer |-> IdleRepoint] /\ inFlight' = FALSE
      /\ IdleWatch.pc = "idle" /\ IdleRepoint.pc = "idle"
  BY DEF Crash, IdleWatch, IdleRepoint
<1>3. \A w \in Watch : w \in Repointer  BY DEF Repointer
<1>4. TaskTypes'  BY <1>2, <1>3, IdleTypes DEF TaskTypes, OneWatch, Alive
<1>5. \A w \in Watch : WatchOK(w)'  BY <1>2 DEF WatchOK
<1>6. \A a \in Repointer : RepointOK(a)'  BY <1>2 DEF RepointOK
<1> QED BY <1>1, <1>4, <1>5, <1>6 DEF IInv

LEMMA Begins == Init => IInv
<1> SUFFICES ASSUME Init PROVE IInv  OBVIOUS
<1>1. WorldTypes
  <2>1. Control \in Version /\ 1 \in Version  BY MaxVersionAssumption DEF Control, Version
  <2>2. pin \in [Child -> Version]  BY <2>1 DEF Init
  <2>3. rel = <<>> /\ rel \in Seq(Release) /\ Len(rel) = 0  BY DEF Init
  <2>4. Len(rel) <= MaxReleases /\ seen \in 0 .. Len(rel) /\ faults \in 0 .. MaxFaults
    BY <2>3, WatchAssumption DEF Init
  <2> QED BY <2>1, <2>2, <2>3, <2>4 DEF Init, WorldTypes
<1>2. TaskTypes  BY IdleTypes DEF Init, TaskTypes, OneWatch, Alive, IdleWatch, IdleRepoint, Repointer
<1>3. AutofixOnce  BY DEF Init, AutofixOnce
<1>4. (\A w \in Watch : WatchOK(w)) /\ \A a \in Repointer : RepointOK(a)
  BY DEF Init, WatchOK, RepointOK, IdleWatch, IdleRepoint
<1> QED BY <1>1, <1>2, <1>3, <1>4 DEF IInv

LEMMA Steps == IInv /\ [Next]_vars => IInv'
<1> SUFFICES ASSUME IInv, [Next]_vars PROVE IInv'  OBVIOUS
<1>1. ASSUME NEW h \in Handler,
             LedgerHistory(h) \/ AlreadyRunning(h) \/ StartRelease(h) \/ ReleaseImmediately(h) \/ Noop(h)
      PROVE  IInv'
  BY <1>1, LedgerHistoryInv, AlreadyRunningInv, StartReleaseInv, ImmediateInv
<1>2. ASSUME NEW w \in Watch,
             Resolve(w) \/ Latest(w) \/ Poll(w) \/ PollFails(w) \/ Deadline(w) \/ ResolveFails(w) \/ AskSeer(w)
      PROVE  IInv'
  BY <1>2, ResolveInv, LatestInv, PollInv, PollFailsInv, GivingUpInv, AskSeerInv
<1>3. ASSUME NEW a \in Repointer, Step(a) PROVE IInv'
  BY <1>3, ReadParentInv, ReadChildInv, RepointInv, RepointReadFailsInv, RepointEndsInv DEF Step
<1>4. ASSUME Settle \/ Ramp \/ Complete \/ Resume \/ Misfortune \/ HumanActs \/ NextManifest \/ Redeliver \/ Crash
      PROVE  IInv'
  BY <1>4, LaunchDarklyInv, OthersInv, CrashInv
<1>5. CASE UNCHANGED vars
  <2>1. UNCHANGED <<on, served, rel, seen, pin, wanted, asked, inFlight, watch, rp, faults, excused>>
    BY <1>5 DEF vars, parent
  <2>2. WorldTypes'  BY <2>1 DEF IInv, WorldTypes
  <2> QED BY <2>1, <2>2, Elsewhere
<1> QED BY <1>1, <1>2, <1>3, <1>4, <1>5 DEF Next

LEMMA Invariance == Spec => []IInv
BY Begins, Steps, PTL DEF Spec

(***************************************************************************)
(* Theorems.                                                               *)
(***************************************************************************)
\* The watch tasks, the key of the one in flight, the runs of the re-pointing
\* and what they read and write stay in their domains.
THEOREM Typing == Spec => []TypeOK
<1>1. IInv => TypeOK  BY DEF IInv, WorldTypes, TaskTypes, TypeOK, Alive
<1> QED BY <1>1, Invariance, PTL

\* A reverted release is taken to Sentry at most once, and no other is
\* (monitor.ts:129, triggerSeerOnRevert).
THEOREM Once == Spec => []AutofixOnce
<1>1. IInv => AutofixOnce  BY DEF IInv
<1> QED BY <1>1, Invariance, PTL

LEMMA ForwardStep ==
  ASSUME IInv, [Next]_vars, NEW c \in Child, Rewritten(c)
  PROVE  \E a \in Repointer :
           /\ rp[a].pc = "patch" /\ ChildOf(a) = c /\ c \in Tagged
           /\ rp[a].pinned = pin[c] => (InLineage(pin[c]) => pin'[c] >= pin[c])
<1>1. PICK a \in Repointer : Repoint(a) \/ RepointFails(a)
  BY DEF Rewritten, vars, parent, Next, Step, LedgerHistory, AlreadyRunning, StartRelease, ReleaseImmediately, Noop,
         Resolve, Latest, Poll, PollFails, Deadline, ResolveFails, AskSeer, ReadParent, ReadChild, RepointReadFails,
         RepointEnds, Settle, Ramp, Complete, Resume, Misfortune, Ends, local, HumanActs, NextManifest, Redeliver, Crash
<1>2. rp[a].pc = "patch" /\ (pin' = [pin EXCEPT ![ChildOf(a)] = rp[a].serving] \/ pin' = pin)
  BY <1>1 DEF Repoint, RepointFails
<1>3. pin'[c] # pin[c]  BY DEF Rewritten
<1>4. pin \in [Child -> Version]  BY DEF IInv, WorldTypes
<1>5. c = ChildOf(a) /\ pin'[c] = rp[a].serving  BY <1>2, <1>3, <1>4
<1>6. MayFollow(c, rp[a].pinned, rp[a].serving)  BY <1>2, <1>5 DEF IInv, RepointOK
<1> QED BY <1>2, <1>5, <1>6 DEF MayFollow, RepointAllowed

\* Beacon re-points a child it owns, and backwards along its lineage, or off
\* it, only if another hand moved the prerequisite after this run had read it
\* (repoint.ts:92-144).
THEOREM Forward == Spec => ForwardAsRead
<1> DEFINE A == \A c \in Child : Rewritten(c) =>
       /\ c \in Tagged
       /\ \/ InLineage(pin[c]) => pin'[c] >= pin[c]
          \/ \E a \in Repointer : rp[a].pc = "patch" /\ ChildOf(a) = c /\ rp[a].pinned # pin[c]
<1>1. IInv /\ [Next]_vars => A  BY ForwardStep
<1> HIDE DEF A
<1>2. Spec => [][A]_vars  BY <1>1, Invariance, PTL DEF Spec
<1> QED BY <1>2 DEF A, ForwardAsRead
=============================================================================
