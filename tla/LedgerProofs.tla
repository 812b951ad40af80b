----------------------------- MODULE LedgerProofs -----------------------------
(***************************************************************************)
(* What Beacon remembers is enough: a rollback stands, and no manifest is  *)
(* lost, for every number of manifests, flags, commits and misfortunes.    *)
(*                                                                         *)
(* Both rest on the order of the deploy windows (OrderInv): a window never *)
(* runs ahead of what is deployed, and the request being answered is for   *)
(* the sha its window ends in, so "new in this diff" means "not released   *)
(* before" and "not new" means "released or in the ledger".                *)
(***************************************************************************)
EXTENDS ReleaseProofs

\* Notifications come in the order of the deploys, and name no sha of their own.
InOrder    == Fault \intersect {"late", "explicit", "rollback"} = {}
OneService == \A s, t \in Service : s = t

\* A manifest that was merged is not deleted again; nor is it edited.
Kept  == \A h \in History, j, k \in Sha, m \in Manifest : j <= k /\ h[j][m] # Absent => h[k][m] # Absent
Fixed == \A h \in History, j, k \in Sha, m \in Manifest : j <= k /\ h[j][m] # Absent => h[k][m] = h[j][m]

Busy(n) == pc[n] \notin {"idle", "failed", "discover"}

(***************************************************************************)
(* Windows and requests keep the order of the deploys.                     *)
(***************************************************************************)
WindowOK(w, s) == w.prior <= w.last /\ w.last <= deployed[s]

JobOK(n) ==
  LET s == job[n].svc
      k == job[n].sha
  IN
  /\ ~Free(n) => k <= deployed[s]
  /\ pc[n] = "discover" =>
       /\ store[s].last <= k /\ job[n].repeat = (store[s].last = k)
       /\ ~job[n].repeat => job[n].prev = store[s].last
  /\ Busy(n) => store[s].last = k /\ storeFile[s].last = k

OrderInv ==
  /\ content \in History
  /\ \A s \in Service : WindowOK(store[s], s) /\ WindowOK(storeFile[s], s)
  /\ \A n \in Handler : JobOK(n)

LEMMA RecordedLast ==
  ASSUME NEW w \in Window, NEW k \in Sha, w.prior <= w.last, w.last <= k
  PROVE  Recorded(w, k) \in Window /\ Recorded(w, k).last = k /\ Recorded(w, k).prior <= k
BY BeaconAssumption DEF Recorded, Window, Sha

LEMMA JobType ==
  ASSUME IInv, NEW n \in Handler
  PROVE  /\ job[n].svc \in Service /\ job[n].sha \in Sha /\ job[n].prev \in 0 .. MaxSha
         /\ job[n].repeat \in BOOLEAN
BY DEF IInv, RequestInv, RequestTypes, Job

LEMMA ServiceType ==
  ASSUME IInv, NEW s \in Service
  PROVE  /\ store[s] \in Window /\ storeFile[s] \in Window /\ deployed[s] \in 0 .. MaxSha
         /\ store[s].last \in 0 .. MaxSha /\ storeFile[s].last \in 0 .. MaxSha
BY DEF IInv, StoreTypes, WorldTypes, Window

\* Recording the sha of the request.
LEMMA Recording ==
  ASSUME IInv, OrderInv, NEW n \in Handler, pc[n] = "discover", RecordSha(n)
  PROVE  /\ store'[job[n].svc].last = job[n].sha /\ store'[job[n].svc].prior <= job[n].sha
         /\ job[n].sha <= deployed[job[n].svc]
         /\ \A s \in Service : s # job[n].svc => store'[s] = store[s]
         /\ \A s \in Service : store[s].last <= store'[s].last /\ store'[s].last \in 0 .. MaxSha
<1> DEFINE s == job[n].svc
<1>1. s \in Service /\ job[n].sha \in Sha /\ \A t \in Service : store[t] \in Window  BY JobType, ServiceType
<1>2. store[s].prior <= store[s].last /\ store[s].last <= job[n].sha /\ job[n].sha <= deployed[s]
  BY <1>1 DEF OrderInv, WindowOK, JobOK, Free
<1>3. store'[s] = Recorded(store[s], job[n].sha) /\ \A t \in Service : t # s => store'[t] = store[t]
  BY <1>1 DEF RecordSha, IInv, StoreTypes
<1>4. store'[s].last = job[n].sha /\ store'[s].prior <= job[n].sha
  BY <1>1, <1>2, <1>3, RecordedLast
<1>5. ASSUME NEW t \in Service PROVE store[t].last <= store'[t].last /\ store'[t].last \in 0 .. MaxSha
  BY <1>1, <1>2, <1>3, <1>4, BeaconAssumption DEF Window, Sha
<1> QED BY <1>2, <1>3, <1>4, <1>5

LEMMA ReceiveOrder ==
  ASSUME OneAtATime, InOrder, IInv, OrderInv, NEW n \in Handler, NEW s \in Service, NEW sha \in Sha,
         NEW explicit \in 0 .. MaxSha, Receive(n, s, sha, explicit)
  PROVE  OrderInv'
<1>1. sha = deployed[s] /\ explicit = NoSha  BY DEF Receive, InOrder, Spend
<1>2. UNCHANGED <<content, deployed, store, storeFile>>  BY DEF Receive, repo, memory, disk
<1>3. /\ pc'[n] = "discover"
      /\ job'[n] = [svc |-> s, sha |-> sha, prev |-> PreviousSha(store[s], sha, explicit),
                    repeat |-> AlreadyProcessed(store[s], sha)]
  BY Moves DEF Receive, IInv, RequestInv, RequestTypes
<1>4. /\ job'[n].svc = s /\ job'[n].sha = sha /\ job'[n].repeat = (store[s].last = sha)
      /\ store[s].last # sha => job'[n].prev = store[s].last
  BY <1>1, <1>3 DEF PreviousSha, AlreadyProcessed
<1>5. deployed[s] \in 0 .. MaxSha /\ store[s].last <= deployed[s]
  BY DEF OrderInv, WindowOK, IInv, WorldTypes
<1>6. sha <= deployed[s] /\ store[s].last <= sha
  BY <1>1, <1>5 DEF Sha
<1> HIDE DEF Receive
<1>7. JobOK(n)'
  BY <1>2, <1>3, <1>4, <1>6 DEF JobOK, Busy
<1> QED BY <1>2, <1>7 DEF OrderInv, WindowOK, OneAtATime

LEMMA DiscoverOrder ==
  ASSUME OneAtATime, IInv, OrderInv, NEW n \in Handler, NEW unread \in SUBSET Manifest, Discover(n, unread)
  PROVE  OrderInv'
<1>1. /\ UNCHANGED <<content, deployed, job>> /\ storeFile' = store' /\ pc'[n] = "pick"
      /\ pc[n] = "discover" /\ RecordSha(n)
  BY Moves DEF Discover, repo
<1>2. \A s \in Service : WindowOK(store'[s], s)
  BY <1>1, Recording, JobType, ServiceType DEF OrderInv, WindowOK
<1>3. JobOK(n)'
  BY <1>1, Recording DEF JobOK
<1> QED BY <1>1, <1>2, <1>3 DEF OrderInv, WindowOK, OneAtATime

LEMMA RecordFailsOrder ==
  ASSUME OneAtATime, IInv, OrderInv, NEW n \in Handler, RecordFails(n)
  PROVE  OrderInv'
<1>1. /\ UNCHANGED <<content, deployed, storeFile>> /\ pc'[n] = "failed"
      /\ pc[n] = "discover" /\ RecordSha(n)
  BY Moves DEF RecordFails, repo, disk
<1>2. \A s \in Service : WindowOK(store'[s], s)
  BY <1>1, Recording, JobType, ServiceType DEF OrderInv, WindowOK
<1>3. JobOK(n)'
  BY <1>1 DEF JobOK, Busy, Free
<1> QED BY <1>1, <1>2, <1>3 DEF OrderInv, WindowOK, OneAtATime

\* Every other step of a request leaves the windows alone: it is answered, or
\* stays with the job it has.
LEMMA StepKinds ==
  ASSUME IInv, NEW n \in Handler, Step(n)
  PROVE  \/ RecordFails(n)
         \/ \E unread \in SUBSET Manifest : Discover(n, unread)
         \/ /\ UNCHANGED <<content, deployed, store, storeFile>>
            /\ Free(n)' \/ (Busy(n) /\ Busy(n)' /\ UNCHANGED <<job, fresh>>)
<1>1. ASSUME \/ DiscoveryFails(n) \/ Fold(n)
             \/ \E done \in SUBSET Manifest, m \in Manifest : FoldFails(n, done, m)
      PROVE  UNCHANGED <<content, deployed, store, storeFile>> /\ Free(n)'
  BY <1>1, Moves DEF DiscoveryFails, Fold, FoldFails, repo, memory, disk, Free
<1>2. ASSUME NEW m \in Manifest, Pick(n, m)
      PROVE  UNCHANGED <<content, deployed, store, storeFile, job, fresh>> /\ Busy(n) /\ Busy(n)'
  BY <1>2, Moves DEF Pick, repo, memory, disk, Busy
<1>3. ASSUME \/ LedgerHistory(n) \/ (\E down \in SUBSET Service : Scope(n, down)) \/ Guard(n) \/ RepeatHistory(n)
      PROVE  UNCHANGED <<content, deployed, store, storeFile, job, fresh>> /\ Busy(n) /\ Busy(n)'
  BY <1>3, Moves DEF LedgerHistory, Scope, Guard, RepeatHistory, repo, memory, disk, Busy
<1>4. ASSUME Read(n)
      PROVE  UNCHANGED <<content, deployed, store, storeFile, job, fresh>> /\ Busy(n) /\ Busy(n)'
  BY <1>4, Moves DEF Read, PlanRelease, repo, memory, disk, Busy
<1>5. ASSUME PatchAccepted(n) \/ PatchThrows(n) \/ PatchRefused(n)
      PROVE  UNCHANGED <<content, deployed, store, storeFile, job, fresh>> /\ Busy(n) /\ Busy(n)'
  BY <1>5, Moves DEF PatchAccepted, PatchThrows, PatchRefused, HeldOnContentRefusal, repo, memory, disk, Busy
<1> QED BY <1>1, <1>2, <1>3, <1>4, <1>5 DEF Step

LEMMA StepOrder ==
  ASSUME OneAtATime, IInv, OrderInv, NEW n \in Handler, Step(n)
  PROVE  OrderInv'
<1>1. CASE /\ UNCHANGED <<content, deployed, store, storeFile>>
           /\ Free(n)' \/ (Busy(n) /\ Busy(n)' /\ UNCHANGED <<job, fresh>>)
  <2>1. JobOK(n)'
    BY <1>1 DEF OrderInv, JobOK, Free, Busy
  <2> QED BY <1>1, <2>1 DEF OrderInv, WindowOK, OneAtATime
<1> QED BY <1>1, StepKinds, DiscoverOrder, RecordFailsOrder

LEMMA DeployOrder ==
  ASSUME OneAtATime, InOrder, IInv, OrderInv, NEW s \in Service, NEW sha \in Sha, Deploy(s, sha)
  PROVE  OrderInv'
<1>1. sha > deployed[s] /\ UNCHANGED <<content, store, storeFile, pc, job>>
  BY DEF Deploy, InOrder, Spend, memory, disk, request
<1>2. \A t \in Service : deployed[t] <= deployed'[t] /\ deployed'[t] \in 0 .. MaxSha
  BY <1>1, BeaconAssumption DEF Deploy, IInv, WorldTypes, Sha
<1>3. ASSUME NEW t \in Service PROVE WindowOK(store[t], t)' /\ WindowOK(storeFile[t], t)'
  <2>1. WindowOK(store[t], t) /\ WindowOK(storeFile[t], t)  BY DEF OrderInv
  <2>2. store[t].last \in 0 .. MaxSha /\ storeFile[t].last \in 0 .. MaxSha  BY ServiceType
  <2>3. deployed[t] \in 0 .. MaxSha  BY ServiceType
  <2>4. store[t].last <= deployed'[t] /\ storeFile[t].last <= deployed'[t]
    BY <1>2, <2>1, <2>2, <2>3, BeaconAssumption DEF WindowOK
  <2> QED BY <1>1, <2>1, <2>4 DEF WindowOK
<1>4. ASSUME NEW n \in Handler PROVE JobOK(n)'
  BY <1>1, <1>2, JobType, ServiceType, BeaconAssumption DEF OrderInv, JobOK, Free, Busy, Sha
<1> QED BY <1>1, <1>3, <1>4 DEF OrderInv

LEMMA CrashOrder ==
  ASSUME IInv, OrderInv, Crash
  PROVE  OrderInv'
<1>1. UNCHANGED <<content, deployed, storeFile>> /\ store' = storeFile /\ \A n \in Handler : pc'[n] = "idle"
  BY DEF Crash, Load, repo, disk
<1> QED BY <1>1 DEF OrderInv, WindowOK, JobOK, Free, Busy

LEMMA InitOrder == Init => OrderInv
<1> SUFFICES ASSUME Init PROVE OrderInv  OBVIOUS
<1>1. \A s \in Service : WindowOK(store[s], s) /\ WindowOK(storeFile[s], s)
  BY DEF Init, WindowOK, EmptyWindow, NoSha
<1> QED BY <1>1 DEF Init, OrderInv, JobOK, Free, Busy

LEMMA NextOrder ==
  ASSUME OneAtATime, InOrder, IInv, OrderInv, [Next]_vars
  PROVE  OrderInv'
<1>1. CASE UNCHANGED <<repo, store, storeFile, request>>
  BY <1>1 DEF OrderInv, WindowOK, JobOK, Free, Busy, repo, request
<1>2. ASSUME \/ \E f \in Flag : \E i \in 1 .. Len(rel[f]) : LaunchDarkly(f, i)
             \/ \E f \in Flag, v \in Version : HumanServes(f, v)
      PROVE  UNCHANGED <<repo, store, storeFile, request>>
  BY <1>2 DEF LaunchDarkly, Settle, Ramp, Complete, Revert, StopMonitoring, HumanServes, memory, disk
<1> QED BY <1>1, <1>2, ReceiveOrder, StepOrder, CrashOrder, DeployOrder DEF Next, vars, memory, disk

LEMMA Ordered == ASSUME OneAtATime, InOrder PROVE Spec => [](IInv /\ OrderInv)
<1>1. Init => OrderInv  BY InitOrder
<1>2. IInv /\ OrderInv /\ [Next]_vars => OrderInv'  BY NextOrder
<1> QED BY <1>1, <1>2, Invariance, PTL DEF Spec

(***************************************************************************)
(* What was reverted stays so.                                             *)
(***************************************************************************)
Last(f) == rel[f][Len(rel[f])]

\* Whatever was released is behind the windows, in memory and on disk.
Remembered(m) == \A s \in Service : FileAt(store[s].last, m) # Absent /\ FileAt(storeFile[s].last, m) # Absent

\* What a request knows of rollbacks: the release a guardrail ended is listed;
\* it is not one of the manifests that are new in this diff; and past their
\* questions, neither a ledger entry nor a repeat is about such a flag.
RevertOK(n) ==
  /\ ~Free(n) => \A f \in Flag : LastRefused(f) => Last(f).seen
  /\ Busy(n) /\ ~job[n].repeat => \A m \in fresh[n], f \in Flag : LastRefused(f) => Last(f).by # m
  /\ pc[n] \in {"scope", "guard", "repeat", "read", "patch"} /\ cur[n] \notin fresh[n] => ~LastRefused(Here(n).flag)
  /\ pc[n] \in {"read", "patch"} /\ job[n].repeat => ~LastRefused(Here(n).flag)

RevertInv ==
  /\ \A f \in Flag : \A i \in 1 .. Len(rel[f]) : Remembered(rel[f][i].by)
  /\ \A n \in Handler : RevertOK(n)

\* No step but a guardrail's or a human's makes a flag's last release a refused one.
Calm ==
  \A f \in Flag :
     LET l == Len(rel'[f]) IN
     l > 0 /\ RefusesRelease(rel'[f][l].status)
       => /\ LastRefused(f) /\ rel'[f][l].by = Last(f).by
          /\ Last(f).seen => rel'[f][l].seen

LEMMA StaysAtSha ==
  ASSUME Kept, IInv, OrderInv, NEW m \in Manifest, NEW j \in 0 .. MaxSha, NEW k \in 0 .. MaxSha, j <= k,
         FileAt(j, m) # Absent
  PROVE  FileAt(k, m) # Absent
<1>1. j \in Sha /\ k \in Sha /\ content[j][m] # Absent
  BY BeaconAssumption DEF FileAt, Sha, NoSha
<1>2. content[k][m] # Absent  BY <1>1 DEF Kept, OrderInv
<1> QED BY <1>1, <1>2 DEF FileAt, Sha, NoSha

LEMMA LastListed ==
  ASSUME IInv, NEW f \in Flag, LastRefused(f), Last(f).seen
  PROVE  LatestRefuses(f)
<1> DEFINE l == Len(rel[f])
<1>1. l \in Nat /\ l > 0 /\ rel[f][l].seen /\ RefusesRelease(rel[f][l].status)
  BY DEF LastRefused, Last, IInv, WorldTypes
<1>2. l \in 1 .. Len(rel[f]) /\ \A j \in (l + 1) .. Len(rel[f]) : ~rel[f][j].seen
  BY <1>1
<1> QED BY <1>1, <1>2 DEF LatestRefuses

LEMMA ByType == ASSUME IInv, NEW f \in Flag, NEW i \in 1 .. Len(rel[f]) PROVE rel[f][i].by \in Manifest
<1>1. rel[f][i] \in Release  BY DEF IInv, WorldTypes
<1> QED BY <1>1 DEF Release

\* The windows only move on.
LEMMA Remembering ==
  ASSUME Kept, IInv, OrderInv, UNCHANGED content, NEW m \in Manifest, Remembered(m),
         \A s \in Service : store'[s].last \in 0 .. MaxSha /\ store[s].last <= store'[s].last,
         storeFile' \in {storeFile, store'}
  PROVE  Remembered(m)'
<1> SUFFICES ASSUME NEW s \in Service
             PROVE  FileAt(store'[s].last, m) # Absent /\ FileAt(storeFile'[s].last, m) # Absent
  BY DEF Remembered, FileAt
<1>1. FileAt(store[s].last, m) # Absent /\ FileAt(storeFile[s].last, m) # Absent  BY DEF Remembered
<1>2. FileAt(store'[s].last, m) # Absent  BY <1>1, ServiceType, StaysAtSha
<1> QED BY <1>1, <1>2

LEMMA SameReleases == ASSUME UNCHANGED rel PROVE Calm
BY DEF Calm, LastRefused, Last, RefusesRelease

\* A request that goes on, having asked what it has to ask.
LEMMA Proceeding ==
  ASSUME OneAtATime, IInv, RevertInv, NEW n \in Handler, Calm, UNCHANGED <<content, job, fresh>>, Busy(n), Busy(n)',
         /\ pc'[n] \in {"scope", "guard", "repeat", "read", "patch"} /\ cur'[n] \notin fresh[n]
         => UNCHANGED cur /\ Evaluating(n) /\ ~LastRefused(Here(n).flag),
         /\ pc'[n] \in {"read", "patch"} /\ job[n].repeat
         => UNCHANGED cur /\ Evaluating(n) /\ ~LastRefused(Here(n).flag)
  PROVE  \A k \in Handler : RevertOK(k)'
<1>1. RevertOK(n)  BY DEF RevertInv
<1>2. UNCHANGED cur => Here(n)' = Here(n)  BY DEF Here, FileAt
<1>3. Evaluating(n) => Here(n).flag \in Flag  BY HereType DEF IInv
<1>4. UNCHANGED cur /\ Evaluating(n) /\ ~LastRefused(Here(n).flag) => ~LastRefused(Here(n).flag)'
  <2> SUFFICES ASSUME UNCHANGED cur, NEW f \in Flag, f = Here(n).flag, ~LastRefused(f)
               PROVE  ~LastRefused(Here(n).flag)'
    BY <1>3
  <2>1. ~LastRefused(f)'  BY DEF Calm, LastRefused, Last, RefusesRelease
  <2>2. Here(n).flag' = f  BY <1>2
  <2> QED BY <2>1, <2>2 DEF LastRefused
<1>5. \A f \in Flag : LastRefused(f)' => Last(f)'.seen
  BY <1>1 DEF RevertOK, Calm, Busy, Free, LastRefused, Last, RefusesRelease
<1>6. Busy(n) /\ ~job[n].repeat => \A m \in fresh[n], f \in Flag : LastRefused(f)' => Last(f)'.by # m
  BY <1>1 DEF RevertOK, Calm, LastRefused, Last, RefusesRelease
<1>7. RevertOK(n)'
  BY <1>4, <1>5, <1>6 DEF RevertOK
<1> QED BY <1>7 DEF OneAtATime

LEMMA AnsweredRevert ==
  ASSUME OneAtATime, NEW n \in Handler, Free(n)'
  PROVE  \A k \in Handler : RevertOK(k)'
BY DEF OneAtATime, RevertOK, Free, Busy

LEMMA ReceiveRevert ==
  ASSUME OneAtATime, PromptListing, IInv, RevertInv, NEW n \in Handler, NEW s \in Service, NEW sha \in Sha,
         NEW explicit \in 0 .. MaxSha, Receive(n, s, sha, explicit)
  PROVE  RevertInv'
<1>1. UNCHANGED <<content, rel, store, storeFile>> /\ \A f \in Flag : \A i \in 1 .. Len(rel[f]) : rel[f][i].seen
  BY DEF Receive, ld, repo, memory, disk
<1>2. pc'[n] = "discover"  BY Moves DEF Receive
<1>3. \A f \in Flag : LastRefused(f) => Last(f).seen
  BY <1>1 DEF LastRefused, Last, IInv, WorldTypes
<1>4. \A f \in Flag : LastRefused(f)' => Last(f)'.seen
  BY <1>1, <1>3 DEF LastRefused, Last, RefusesRelease
<1>5. RevertOK(n)'  BY <1>2, <1>4 DEF RevertOK, Busy
<1> QED BY <1>1, <1>5 DEF RevertInv, OneAtATime, Remembered, FileAt

LEMMA DiscoverRevert ==
  ASSUME OneAtATime, Kept, IInv, OrderInv, RevertInv, NEW n \in Handler, NEW unread \in SUBSET Manifest,
         Discover(n, unread)
  PROVE  RevertInv'
<1>1. /\ UNCHANGED <<content, deployed, job, rel>> /\ storeFile' = store' /\ pc'[n] = "pick"
      /\ pc[n] = "discover" /\ RecordSha(n)
  BY Moves DEF Discover, repo, ld
<1>2. fresh'[n] = Discovered(job[n].sha, job[n].prev)
  BY DEF Discover, IInv, RequestInv, RequestTypes
<1>3. ASSUME NEW f \in Flag, NEW i \in 1 .. Len(rel[f]) PROVE Remembered(rel[f][i].by)'
  <2>1. PICK m \in Manifest : m = rel[f][i].by  BY ByType
  <2>2. Remembered(m)  BY <2>1 DEF RevertInv
  <2>3. Remembered(m)'  BY <1>1, <2>2, Recording, Remembering
  <2> QED BY <1>1, <2>1, <2>3 DEF Remembered
<1>4. ASSUME ~job[n].repeat, NEW m \in fresh'[n], NEW f \in Flag, LastRefused(f)
      PROVE  Last(f).by # m
  <2>1. Last(f).by \in Manifest /\ Remembered(Last(f).by)
    <3>1. Len(rel[f]) \in 1 .. Len(rel[f])  BY <1>4 DEF LastRefused, IInv, WorldTypes
    <3> QED BY <3>1, ByType DEF RevertInv, Last
  <2>2. job[n].svc \in Service /\ job[n].prev = store[job[n].svc].last
    BY <1>1, <1>4, JobType DEF OrderInv, JobOK
  <2>3. FileAt(job[n].prev, m) = Absent  BY <1>2, <1>4 DEF Discovered
  <2> QED BY <2>1, <2>2, <2>3 DEF Remembered
<1>5. \A f \in Flag : LastRefused(f) => Last(f).seen
  BY <1>1 DEF RevertInv, RevertOK, Free
<1>6. RevertOK(n)'
  BY <1>1, <1>4, <1>5 DEF RevertOK, LastRefused, Last, RefusesRelease
<1> QED BY <1>1, <1>3, <1>6 DEF RevertInv, OneAtATime

LEMMA RecordFailsRevert ==
  ASSUME OneAtATime, Kept, IInv, OrderInv, RevertInv, NEW n \in Handler, RecordFails(n)
  PROVE  RevertInv'
<1>1. /\ UNCHANGED <<content, rel, storeFile>> /\ pc'[n] = "failed"
      /\ pc[n] = "discover" /\ RecordSha(n)
  BY Moves DEF RecordFails, repo, ld, disk
<1>2. ASSUME NEW f \in Flag, NEW i \in 1 .. Len(rel[f]) PROVE Remembered(rel[f][i].by)'
  <2>1. PICK m \in Manifest : m = rel[f][i].by  BY ByType
  <2>2. Remembered(m)  BY <2>1 DEF RevertInv
  <2>3. Remembered(m)'  BY <1>1, <2>2, Recording, Remembering
  <2> QED BY <1>1, <2>1, <2>3 DEF Remembered
<1> QED BY <1>1, <1>2, AnsweredRevert DEF RevertInv, Free

\* The steps of a request that touch neither windows nor releases.
LEMMA AskingRevert ==
  ASSUME OneAtATime, IInv, RevertInv, NEW n \in Handler,
         \/ (\E m \in Manifest : Pick(n, m)) \/ LedgerHistory(n) \/ (\E down \in SUBSET Service : Scope(n, down))
         \/ Guard(n) \/ RepeatHistory(n) \/ Read(n)
  PROVE  RevertInv'
<1>1. UNCHANGED <<content, rel, job, fresh, store, storeFile>> /\ Calm /\ Busy(n)
  BY SameReleases DEF Pick, LedgerHistory, Scope, Guard, RepeatHistory, Read, repo, ld, memory, disk, Busy
<1>2. \A f \in Flag : LastRefused(f) => Last(f).seen
  BY <1>1 DEF RevertInv, RevertOK, Free, Busy
<1>3. Evaluating(n) => Here(n).flag \in Flag  BY HereType DEF IInv
<1>4. \A f \in Flag : ~LatestRefuses(f) => ~LastRefused(f)  BY <1>2, LastListed
<1>5. RevertOK(n)  BY DEF RevertInv
<1>6. \A k \in Handler : RevertOK(k)'
  <2>1. ASSUME pc'[n] = "pick" PROVE \A k \in Handler : RevertOK(k)'
    BY <1>1, <2>1, Proceeding DEF Busy
  <2>2. CASE \E m \in Manifest : Pick(n, m)
    <3>1. pc'[n] = "history" \/ (pc'[n] = "scope" /\ cur'[n] \in fresh[n])
      BY <2>2, Moves DEF Pick, IInv, RequestInv, RequestTypes
    <3> QED BY <1>1, <3>1, Proceeding DEF Busy
  <2>3. CASE LedgerHistory(n) /\ Continue(n, "scope") /\ ~LatestRefuses(Here(n).flag)
    <3>1. pc'[n] = "scope" /\ UNCHANGED cur /\ Evaluating(n) /\ ~LastRefused(Here(n).flag)
      BY <1>3, <1>4, <2>3, Moves DEF LedgerHistory, Continue, Evaluating
    <3> QED BY <1>1, <3>1, Proceeding DEF Busy
  <2>4. CASE RepeatHistory(n) /\ Continue(n, "read") /\ ~LatestRefuses(Here(n).flag)
    <3>1. pc'[n] = "read" /\ UNCHANGED cur /\ Evaluating(n) /\ ~LastRefused(Here(n).flag)
      BY <1>3, <1>4, <2>4, Moves DEF RepeatHistory, Continue, Evaluating
    <3> QED BY <1>1, <3>1, Proceeding DEF Busy
  <2>5. CASE \E down \in SUBSET Service : Scope(n, down) /\ Continue(n, "guard")
    <3>1. pc'[n] = "guard" /\ pc[n] = "scope" /\ UNCHANGED cur
      BY <2>5, Moves DEF Scope, Continue
    <3> QED BY <1>1, <1>5, <3>1, Proceeding DEF Busy, RevertOK, Evaluating
  <2>6. CASE Guard(n) /\ Continue(n, IF job[n].repeat THEN "repeat" ELSE "read")
    <3>1. pc'[n] = (IF job[n].repeat THEN "repeat" ELSE "read") /\ pc[n] = "guard" /\ UNCHANGED cur
      BY <2>6, Moves DEF Guard, Continue
    <3> QED BY <1>1, <1>5, <3>1, Proceeding DEF Busy, RevertOK, Evaluating
  <2>7. CASE Read(n) /\ (PlanRelease(n, TRUE) \/ PlanRelease(n, FALSE)) /\ UNCHANGED cur
    <3>1. pc'[n] = "patch" /\ pc[n] = "read"
      BY <2>7, Moves DEF Read, PlanRelease
    <3> QED BY <1>1, <1>5, <2>7, <3>1, Proceeding DEF Busy, RevertOK, Evaluating
  <2>8. CASE LedgerHistory(n)  BY <2>1, <2>3, <2>8, Moves DEF LedgerHistory
  <2>9. ASSUME NEW down \in SUBSET Service, Scope(n, down) PROVE \A k \in Handler : RevertOK(k)'
    BY <2>1, <2>5, <2>9, Moves DEF Scope
  <2>10. CASE Guard(n)          BY <2>1, <2>6, <2>10, Moves DEF Guard
  <2>11. CASE RepeatHistory(n)  BY <2>1, <2>4, <2>11, Moves DEF RepeatHistory
  <2>12. CASE Read(n)           BY <2>1, <2>7, <2>12, Moves DEF Read
  <2> QED BY <2>2, <2>8, <2>9, <2>10, <2>11, <2>12
<1> QED BY <1>1, <1>6 DEF RevertInv, Remembered, FileAt

\* A started release is remembered, and is not one that was refused.
LEMMA PatchRevert ==
  ASSUME OneAtATime, OneService, IInv, OrderInv, RevertInv, NEW n \in Handler,
         PatchAccepted(n) \/ PatchThrows(n) \/ PatchRefused(n)
  PROVE  RevertInv'
<1>1. /\ UNCHANGED <<content, job, fresh, store, storeFile>> /\ pc[n] = "patch" /\ pc'[n] = "pick"
      /\ UNCHANGED rel \/ StartRelease(n)
  BY Moves DEF PatchAccepted, PatchThrows, PatchRefused, HeldOnContentRefusal, Applied, MoveFallthrough,
               repo, ld, memory, disk
<1>2. CASE UNCHANGED rel
  <2>1. \A k \in Handler : RevertOK(k)'  BY <1>1, <1>2, SameReleases, Proceeding DEF Busy
  <2> QED BY <1>1, <1>2, <2>1 DEF RevertInv, Remembered, FileAt
<1>3. CASE StartRelease(n)
  <2>1. PICK f \in Flag : f = Here(n).flag  BY <1>1, HereType DEF Evaluating, IInv
  <2> DEFINE l == Len(rel[f]) + 1
  <2>2. /\ l \in Nat /\ Len(rel'[f]) = l /\ \A g \in Flag : g # f => rel'[g] = rel[g]
        /\ \A j \in 1 .. Len(rel[f]) : rel'[f][j] = rel[f][j]
        /\ rel'[f][l].status = "running" /\ rel'[f][l].by = cur[n]
    BY <1>1, <1>3, <2>1, Starting DEF Evaluating
  <2>3. \A j \in 1 .. l : j \in 1 .. Len(rel[f]) \/ j = l  BY <2>2
  <2>4. Calm
    <3>1. ~LastRefused(f)'  BY <2>2 DEF LastRefused, RefusesRelease
    <3>2. \A g \in Flag : g # f /\ LastRefused(g)' => LastRefused(g) /\ rel'[g] = rel[g]
      BY <2>2 DEF LastRefused
    <3> QED BY <3>1, <3>2 DEF Calm, LastRefused, Last, RefusesRelease
  <2>5. \A k \in Handler : RevertOK(k)'  BY <1>1, <2>4, Proceeding DEF Busy
  <2>6. Remembered(cur[n])
    <3>1. IsManifest(Here(n))  BY <1>1 DEF IInv, RequestInv, RequestOK, Evaluating
    <3>2. /\ store[job[n].svc].last = job[n].sha /\ storeFile[job[n].svc].last = job[n].sha
          /\ job[n].svc \in Service
      BY <1>1, JobType DEF OrderInv, JobOK, Busy
    <3> QED BY <3>1, <3>2 DEF Remembered, OneService, Here, IsManifest
  <2>7. \A g \in Flag : \A j \in 1 .. Len(rel'[g]) : Remembered(rel'[g][j].by)
    BY <2>2, <2>3, <2>6 DEF RevertInv
  <2>8. \A g \in Flag : \A j \in 1 .. Len(rel'[g]) : Remembered(rel[g][j].by)'
    BY <1>1, <2>7 DEF Remembered, FileAt
  <2> QED BY <2>5, <2>8 DEF RevertInv
<1> QED BY <1>1, <1>2, <1>3

LEMMA StepRevert ==
  ASSUME OneAtATime, OneService, Kept, IInv, OrderInv, RevertInv, NEW n \in Handler, Step(n)
  PROVE  RevertInv'
<1>1. ASSUME \/ DiscoveryFails(n) \/ Fold(n)
             \/ \E done \in SUBSET Manifest, m \in Manifest : FoldFails(n, done, m)
      PROVE  RevertInv'
  <2>1. UNCHANGED <<rel, content, store, storeFile>> /\ Free(n)'
    BY <1>1, Moves DEF DiscoveryFails, Fold, FoldFails, repo, ld, memory, disk, Free
  <2> QED BY <2>1, AnsweredRevert DEF RevertInv, Remembered, FileAt
<1> QED BY <1>1, DiscoverRevert, RecordFailsRevert, AskingRevert, PatchRevert DEF Step

LEMMA LaunchDarklyRevert ==
  ASSUME OneAtATime, QuietGuardrail, IInv, RevertInv, NEW f \in Flag, NEW i \in 1 .. Len(rel[f]),
         LaunchDarkly(f, i)
  PROVE  RevertInv'
<1>1. UNCHANGED <<content, store, storeFile, request>>
  BY DEF LaunchDarkly, Settle, Ramp, Complete, Revert, StopMonitoring, repo, memory, disk
<1>2. EntryChanges(f, i)  BY ReleaseChanges DEF IInv
<1>3. ASSUME NEW n \in Handler, ~Free(n)
      PROVE  rel'[f][i].status \in {rel[f][i].status, "completed"}
  <2> USE DEF IInv
  <2>1. ~Revert(f, i) /\ ~StopMonitoring(f, i)  BY <1>3 DEF Revert, StopMonitoring, Quiet
  <2>2. CASE Settle(f, i)    BY <2>2, SettleChanges
  <2>3. CASE Ramp(f, i)      BY <2>3 DEF Ramp
  <2>4. CASE Complete(f, i)  BY <2>4, StatusChanges DEF Complete, Status
  <2> QED BY <2>1, <2>2, <2>3, <2>4 DEF LaunchDarkly
<1>4. ASSUME NEW n \in Handler, ~Free(n) PROVE Calm
  <2> SUFFICES ASSUME NEW g \in Flag, Len(rel'[g]) > 0, RefusesRelease(rel'[g][Len(rel'[g])].status)
               PROVE  /\ LastRefused(g) /\ rel'[g][Len(rel'[g])].by = Last(g).by
                      /\ Last(g).seen => rel'[g][Len(rel'[g])].seen
    BY DEF Calm
  <2> DEFINE l == Len(rel[g])
  <2>1. l \in Nat /\ Len(rel'[g]) = l /\ l > 0  BY <1>2 DEF EntryChanges, IInv, WorldTypes
  <2>2. /\ rel'[g][l].by = rel[g][l].by /\ (rel[g][l].seen => rel'[g][l].seen)
        /\ g # f \/ l # i => rel'[g][l].status = rel[g][l].status
    BY <1>2, <2>1 DEF EntryChanges
  <2>3. RefusesRelease(rel[g][l].status)
    BY <1>3, <1>4, <2>1, <2>2 DEF RefusesRelease
  <2> QED BY <2>1, <2>2, <2>3 DEF LastRefused, Last
<1>5. ASSUME NEW n \in Handler PROVE RevertOK(n)'
  <2>1. CASE Free(n)
    BY <1>1, <2>1 DEF RevertOK, Free, Busy, request
  <2>2. CASE pc[n] = "discover"
    BY <1>1, <1>4, <2>2 DEF RevertInv, RevertOK, Free, Busy, request, Calm, LastRefused, Last, RefusesRelease
  <2>3. CASE Busy(n)
    <3>1. Calm  BY <1>4, <2>3 DEF Busy, Free
    <3> QED BY <1>1, <2>3, <3>1, Proceeding DEF RevertInv, RevertOK, Busy, request, Evaluating
  <2> QED BY <2>1, <2>2, <2>3 DEF Free, Busy
<1>6. \A g \in Flag : \A j \in 1 .. Len(rel'[g]) : Remembered(rel[g][j].by)' /\ rel'[g][j].by = rel[g][j].by
  BY <1>1, <1>2 DEF RevertInv, EntryChanges, Remembered, FileAt
<1> QED BY <1>5, <1>6 DEF RevertInv, Remembered

LEMMA CrashRevert == ASSUME RevertInv, Crash PROVE RevertInv'
<1>1. UNCHANGED <<content, rel, storeFile>> /\ store' = storeFile /\ \A n \in Handler : pc'[n] = "idle"
  BY DEF Crash, Load, repo, ld, disk
<1> QED BY <1>1 DEF RevertInv, RevertOK, Remembered, FileAt, Free, Busy

LEMMA InitRevert == Init => RevertInv
BY DEF Init, RevertInv, RevertOK, Free, Busy

LEMMA NextRevert ==
  ASSUME OneAtATime, OneService, Kept, PromptListing, QuietGuardrail, IInv, OrderInv, RevertInv, [Next]_vars
  PROVE  RevertInv'
<1>1. CASE UNCHANGED <<content, rel, store, storeFile, request>>
  BY <1>1 DEF RevertInv, RevertOK, Remembered, LastRefused, Last, Here, FileAt, Free, Busy, request
<1>2. ASSUME \/ \E s \in Service, sha \in Sha : Deploy(s, sha)
             \/ \E f \in Flag, v \in Version : HumanServes(f, v)
      PROVE  UNCHANGED <<content, rel, store, storeFile, request>>
  BY <1>2 DEF Deploy, HumanServes, repo, ld, memory, disk
<1> QED BY <1>1, <1>2, ReceiveRevert, StepRevert, CrashRevert, LaunchDarklyRevert DEF Next, vars, repo, ld, memory, disk

\* Only a patch starts a release.
LEMMA OnlyPatchesStart ==
  ASSUME IInv, [Next]_vars, NEW f \in Flag, Started(f)
  PROVE  \E n \in Handler : pc[n] = "patch" /\ StartRelease(n) /\ f = Here(n).flag
<1>1. ~UNCHANGED rel  BY DEF Started
<1>2. ASSUME NEW g \in Flag, NEW i \in 1 .. Len(rel[g]), LaunchDarkly(g, i) PROVE FALSE
  <2>1. EntryChanges(g, i)  BY <1>2, ReleaseChanges DEF IInv
  <2>2. Len(rel'[f]) = Len(rel[f]) /\ Len(rel[f]) \in Nat  BY <2>1 DEF EntryChanges, IInv, WorldTypes
  <2> QED BY <2>2 DEF Started
<1>3. ASSUME NEW n \in Handler, Step(n)
      PROVE  UNCHANGED rel \/ (pc[n] = "patch" /\ StartRelease(n))
  BY <1>3 DEF Step, Discover, DiscoveryFails, RecordFails, Pick, LedgerHistory, Scope, Guard, RepeatHistory,
              Read, PatchAccepted, PatchThrows, PatchRefused, Fold, FoldFails, Applied, MoveFallthrough, ld
<1>4. PICK n \in Handler : pc[n] = "patch" /\ StartRelease(n)
  BY <1>1, <1>2, <1>3 DEF Next, Receive, Crash, Deploy, HumanServes, vars, ld
<1>5. \A g \in Flag : g # Here(n).flag => rel'[g] = rel[g]
  BY <1>4, Starting DEF Evaluating
<1>6. f = Here(n).flag
  <2>1. Len(rel[f]) \in Nat  BY DEF IInv, WorldTypes
  <2> QED BY <1>5, <2>1 DEF Started
<1> QED BY <1>4, <1>6

\* A rollback stands: while the last release of a flag is one that a guardrail
\* reverted or a human stopped, its manifest does not start another, after
\* redeliveries, lost answers, failed writes and crashes, and from the ledger.
THEOREM RollbackStands ==
  ASSUME OneAtATime, OneService, InOrder, Kept, PromptListing, QuietGuardrail
  PROVE  Spec => RevertStands
<1>1. Init => RevertInv  BY InitRevert
<1>2. IInv /\ OrderInv /\ RevertInv /\ [Next]_vars => RevertInv'  BY NextRevert
<1>3. IInv /\ RevertInv /\ [Next]_vars =>
        [\A f \in Flag : Started(f) /\ LastRefused(f)
            => rel[f][Len(rel[f])].by # rel'[f][Len(rel'[f])].by]_vars
  <2> SUFFICES ASSUME IInv, RevertInv, [Next]_vars, NEW f \in Flag, Started(f), LastRefused(f)
               PROVE  Last(f).by # rel'[f][Len(rel'[f])].by
    BY DEF Last
  <2>1. PICK n \in Handler : pc[n] = "patch" /\ StartRelease(n) /\ f = Here(n).flag  BY OnlyPatchesStart
  <2>2. rel'[f][Len(rel'[f])].by = cur[n]  BY <2>1, Starting DEF Evaluating
  <2>3. cur[n] \in fresh[n] /\ ~job[n].repeat /\ Busy(n)  BY <2>1 DEF RevertInv, RevertOK, Busy
  <2> QED BY <2>2, <2>3 DEF RevertInv, RevertOK
<1>4. Spec => [](IInv /\ RevertInv)  BY <1>1, <1>2, Ordered, PTL DEF Spec
<1> QED BY <1>3, <1>4, PTL DEF Spec, RevertStands

(***************************************************************************)
(* Nothing is lost.                                                        *)
(***************************************************************************)
Owed(s, m) == IsManifest(FileAt(store[s].last, m)) /\ InScope(s, FileAt(store[s].last, m))

Served(file) == reached[file.flag] >= ResolvedTarget(file, TipOf[file.flag])

\* The request will evaluate it, is evaluating it, or will fold it as pending.
InHand(n, m) ==
  Busy(n) /\ (m \in todo[n] \/ (Evaluating(n) /\ cur[n] = m) \/ result[n][m] \in PendingOutcomes)

\* What could not be read again is in the ledger, a final outcome is earned, and
\* a patch moves to what the manifest asks for.
OutcomeOK(n) ==
  /\ Busy(n) => \A m \in Manifest :
       LET file == FileAt(job[n].sha, m) IN
       /\ result[n][m] = "unread" => ledger[job[n].svc][m] # NoFlag
       /\ result[n][m] = "skipped" => ~(IsManifest(file) /\ InScope(job[n].svc, file))
       /\ result[n][m] \in {"released", "noop"} => Served(file)
  /\ pc[n] = "patch" => plan[n].target = ResolvedTarget(Here(n), TipOf[Here(n).flag])

Kempt(s, m) ==
  \/ Served(FileAt(store[s].last, m)) \/ ledger[s][m] # NoFlag
  \/ \E n \in Handler : job[n].svc = s /\ InHand(n, m)

AccountInv ==
  /\ \A f \in Flag : served[f] <= reached[f]
  /\ \A s \in Service : handled[s] = deployed[s] => store[s].last = deployed[s]
  /\ \A n \in Handler : OutcomeOK(n)
  /\ \A s \in Service, m \in Manifest : Owed(s, m) => Kempt(s, m)

\* What a flag has reached it does not lose.
Reaches == \A f \in Flag : reached[f] <= reached'[f] /\ reached'[f] \in Version /\ served'[f] <= reached'[f]

LEMMA TargetInt ==
  ASSUME NEW file \in ReleaseFile
  PROVE  ResolvedTarget(file, TipOf[file.flag]) \in Int
<1>1. file.flag \in Flag /\ file.target \in Target  BY DEF ReleaseFile
<1> QED BY <1>1, BeaconAssumption, MaxVersionAssumption DEF ResolvedTarget, Version, Target

LEMMA StaysServed ==
  ASSUME IInv, NEW file \in ReleaseFile, Served(file), Reaches
  PROVE  Served(file)'
<1>1. file.flag \in Flag  BY DEF ReleaseFile
<1>2. ResolvedTarget(file, TipOf[file.flag]) \in Int  BY TargetInt
<1>3. reached[file.flag] \in Version  BY <1>1 DEF IInv, WorldTypes
<1> QED BY <1>1, <1>2, <1>3, MaxVersionAssumption DEF Served, Reaches, Version

LEMMA SameReached == ASSUME IInv, AccountInv, UNCHANGED <<served, reached>> PROVE Reaches
BY MaxVersionAssumption DEF AccountInv, Reaches, IInv, WorldTypes, Version

LEMMA OwedType ==
  ASSUME IInv, NEW s \in Service, NEW m \in Manifest, Owed(s, m)
  PROVE  FileAt(store[s].last, m) \in ReleaseFile
BY ServiceType, ManifestType DEF Owed, IInv

\* A final outcome is about a manifest, unless it is "skipped".
LEMMA OutcomeType ==
  ASSUME IInv, NEW n \in Handler, NEW m \in Manifest, result[n][m] \notin {"none", "unread", "skipped"}
  PROVE  FileAt(job[n].sha, m) \in ReleaseFile
<1>1. job[n].sha \in 0 .. MaxSha  BY JobType, BeaconAssumption DEF Sha
<1>2. IsManifest(FileAt(job[n].sha, m))  BY DEF IInv, RequestInv, RequestOK
<1> QED BY <1>1, <1>2, ManifestType DEF IInv

\* The world moves on, the requests do not.
LEMMA WorldAccount ==
  ASSUME IInv, AccountInv, Reaches, UNCHANGED <<content, store, ledger, request>>,
         \A s \in Service : handled'[s] = deployed'[s] => store[s].last = deployed'[s]
  PROVE  AccountInv'
<1>1. ASSUME NEW n \in Handler PROVE OutcomeOK(n)'
  <2>1. ASSUME Busy(n), NEW m \in Manifest, result[n][m] \in {"released", "noop"}
        PROVE  Served(FileAt(job[n].sha, m))'
    <3>1. PICK file \in ReleaseFile : file = FileAt(job[n].sha, m)  BY <2>1, OutcomeType
    <3>2. Served(file)'  BY <2>1, <3>1, StaysServed DEF AccountInv, OutcomeOK
    <3> QED BY <3>1, <3>2 DEF Served, FileAt, request
  <2> QED BY <2>1 DEF AccountInv, OutcomeOK, Busy, request, Here, FileAt
<1>2. ASSUME NEW s \in Service, NEW m \in Manifest, Owed(s, m)' PROVE Kempt(s, m)'
  <2>1. Owed(s, m)  BY <1>2 DEF Owed, FileAt
  <2>2. PICK file \in ReleaseFile : file = FileAt(store[s].last, m)  BY <2>1, OwedType
  <2>3. FileAt(store[s].last, m)' = file  BY <2>2 DEF FileAt
  <2>4. CASE Served(file)
    <3>1. Served(file)'  BY <2>4, StaysServed
    <3> QED BY <2>3, <3>1 DEF Kempt, Served
  <2>5. CASE ledger[s][m] # NoFlag  BY <2>5 DEF Kempt
  <2>6. ASSUME NEW n \in Handler, job[n].svc = s, InHand(n, m) PROVE Kempt(s, m)'
    BY <2>6 DEF Kempt, InHand, Busy, Evaluating, request
  <2> QED BY <2>1, <2>2, <2>4, <2>5, <2>6 DEF AccountInv, Kempt
<1> QED BY <1>1, <1>2 DEF AccountInv, Reaches

\* A request goes on to its next manifest with an outcome for this one.
LEMMA FinishAccount ==
  ASSUME OneAtATime, IInv, OrderInv, AccountInv, Reaches, NEW n \in Handler, Evaluating(n),
         NEW o \in Outcome, Finish(n, o), UNCHANGED <<content, store, ledger, job, todo, deployed, handled>>,
         \/ o \in PendingOutcomes \ {"unread"}
         \/ o = "skipped" /\ ~InScope(job[n].svc, Here(n))
         \/ o \in {"released", "noop"} /\ reached'[Here(n).flag] >= ResolvedTarget(Here(n), TipOf[Here(n).flag])
  PROVE  AccountInv'
<1>1. cur[n] \in Manifest /\ Here(n) \in ReleaseFile  BY HereType DEF IInv
<1>2. /\ pc'[n] = "pick" /\ Busy(n)
      /\ \A m \in Manifest : result'[n][m] = IF m = cur[n] THEN o ELSE result[n][m]
  BY <1>1, Moves DEF Finish, IInv, RequestInv, RequestTypes, Busy, Evaluating
<1>3. /\ store[job[n].svc].last = job[n].sha /\ job[n].svc \in Service  BY <1>2, JobType DEF OrderInv, JobOK
<1>4. \A m \in Manifest : FileAt(job[n].sha, m)' = FileAt(job[n].sha, m)  BY DEF FileAt
<1>5. ASSUME NEW m \in Manifest, result'[n][m] \in {"released", "noop"} PROVE Served(FileAt(job[n].sha, m))'
  <2>1. CASE m = cur[n]
    <3>1. PICK file \in ReleaseFile : file = Here(n)  BY <1>1
    <3>2. Served(file)'  BY <1>2, <1>5, <2>1, <3>1 DEF Served, PendingOutcomes
    <3> QED BY <1>4, <2>1, <3>1, <3>2 DEF Served, Here
  <2>2. CASE m # cur[n]
    <3>1. result[n][m] \in {"released", "noop"}  BY <1>2, <1>5, <2>2
    <3>2. PICK file \in ReleaseFile : file = FileAt(job[n].sha, m)  BY <3>1, OutcomeType
    <3>3. Served(file)'  BY <1>2, <3>1, <3>2, StaysServed DEF AccountInv, OutcomeOK
    <3> QED BY <1>4, <3>2, <3>3 DEF Served
  <2> QED BY <2>1, <2>2
<1>6. OutcomeOK(n)'
  <2>1. ASSUME NEW m \in Manifest, result'[n][m] = "skipped"
        PROVE  ~(IsManifest(FileAt(job[n].sha, m)) /\ InScope(job[n].svc, FileAt(job[n].sha, m)))
    BY <1>2, <2>1 DEF AccountInv, OutcomeOK, Here, PendingOutcomes
  <2>2. ASSUME NEW m \in Manifest, result'[n][m] = "unread" PROVE ledger[job[n].svc][m] # NoFlag
    BY <1>2, <2>2 DEF AccountInv, OutcomeOK
  <2> QED BY <1>2, <1>4, <1>5, <2>1, <2>2 DEF OutcomeOK
<1>7. ASSUME NEW s \in Service, NEW m \in Manifest, Owed(s, m)' PROVE Kempt(s, m)'
  <2>1. Owed(s, m)  BY <1>7 DEF Owed, FileAt
  <2>2. PICK file \in ReleaseFile : file = FileAt(store[s].last, m)  BY <2>1, OwedType
  <2>3. FileAt(store[s].last, m)' = file  BY <2>2 DEF FileAt
  <2>4. CASE Served(file)
    <3>1. Served(file)'  BY <2>4, StaysServed
    <3> QED BY <2>3, <3>1 DEF Kempt, Served
  <2>5. CASE ledger[s][m] # NoFlag  BY <2>5 DEF Kempt
  <2>6. CASE job[n].svc = s /\ InHand(n, m) /\ (m # cur[n] \/ o \in PendingOutcomes)
    <3>1. m \in todo'[n] \/ result'[n][m] \in PendingOutcomes  BY <1>2, <2>6 DEF InHand
    <3>2. InHand(n, m)'  BY <1>2, <3>1 DEF InHand, Busy
    <3> QED BY <2>6, <3>2 DEF Kempt
  <2>7. CASE job[n].svc = s /\ m = cur[n] /\ o \notin PendingOutcomes
    <3>1. file = Here(n) /\ InScope(s, file)  BY <1>3, <2>1, <2>2, <2>7 DEF Owed, Here
    <3>2. Served(file)'  BY <2>7, <3>1 DEF Served
    <3> QED BY <2>3, <3>2 DEF Kempt, Served
  <2>8. Served(file) \/ ledger[s][m] # NoFlag \/ (job[n].svc = s /\ InHand(n, m))
    BY <2>1, <2>2 DEF AccountInv, Kempt, OneAtATime
  <2> QED BY <2>4, <2>5, <2>6, <2>7, <2>8
<1> QED BY <1>6, <1>7 DEF AccountInv, Reaches, OneAtATime

\* A request goes on with the manifest in hand.
LEMMA ContinueAccount ==
  ASSUME OneAtATime, IInv, AccountInv, NEW n \in Handler,
         UNCHANGED <<content, ld, store, ledger, job, result, deployed, handled>>, Busy(n), Busy(n)',
         pc'[n] = "patch" => plan'[n].target = ResolvedTarget(Here(n), TipOf[Here(n).flag]) /\ UNCHANGED cur,
         \A m \in Manifest : m \in todo[n] \/ (Evaluating(n) /\ cur[n] = m)
                           => m \in todo'[n] \/ (Evaluating(n)' /\ cur'[n] = m)
  PROVE  AccountInv'
<1>1. OutcomeOK(n)'
  <2>1. ASSUME pc'[n] = "patch" PROVE Here(n)' = Here(n)  BY <2>1 DEF Here, FileAt
  <2> QED BY <2>1 DEF AccountInv, OutcomeOK, FileAt, Served, ld
<1>2. ASSUME NEW s \in Service, NEW m \in Manifest, Owed(s, m)' PROVE Kempt(s, m)'
  <2>1. Kempt(s, m)  BY <1>2 DEF AccountInv, Owed, FileAt
  <2>2. InHand(n, m) => InHand(n, m)'  BY DEF InHand
  <2> QED BY <2>1, <2>2 DEF Kempt, OneAtATime, Served, FileAt, ld
<1> QED BY <1>1, <1>2 DEF AccountInv, OneAtATime, ld

LEMMA ReceiveAccount ==
  ASSUME OneAtATime, IInv, AccountInv, NEW n \in Handler, NEW s \in Service, NEW sha \in Sha,
         NEW explicit \in 0 .. MaxSha, Receive(n, s, sha, explicit)
  PROVE  AccountInv'
<1>1. /\ UNCHANGED <<content, deployed, served, reached, store, ledger, handled>> /\ Free(n)
      /\ pc'[n] = "discover"
  BY Moves DEF Receive, repo, ld, memory
<1>2. OutcomeOK(n)'  BY <1>1 DEF OutcomeOK, Busy
<1>3. \A m \in Manifest : ~InHand(n, m)  BY <1>1 DEF InHand, Busy, Free
<1>4. ASSUME NEW t \in Service, NEW m \in Manifest, Owed(t, m)' PROVE Kempt(t, m)'
  BY <1>1, <1>3, <1>4 DEF AccountInv, Owed, Kempt, OneAtATime, Served, FileAt
<1> QED BY <1>1, <1>2, <1>4 DEF AccountInv, OneAtATime

LEMMA DiscoverAccount ==
  ASSUME OneAtATime, Fixed, IInv, OrderInv, AccountInv, NEW n \in Handler, NEW unread \in SUBSET Manifest,
         Discover(n, unread)
  PROVE  AccountInv'
<1> DEFINE s == job[n].svc
           k == job[n].sha
<1>1. /\ UNCHANGED <<content, deployed, job, served, reached, ledger, handled>> /\ pc'[n] = "pick"
      /\ pc[n] = "discover" /\ RecordSha(n)
  BY Moves DEF Discover, repo, ld
<1>2. /\ Discovered(k, job[n].prev) \subseteq todo'[n]
      /\ \A m \in Manifest :
           /\ result'[n][m] \in {"unread", "skipped", "none"}
           /\ result'[n][m] = "unread" => ledger[s][m] # NoFlag
           /\ result'[n][m] = "skipped" => ~IsManifest(FileAt(k, m))
  BY DEF Discover, IInv, RequestInv, RequestTypes
<1>3. OutcomeOK(n)'
  <2>1. \A m \in Manifest : FileAt(k, m)' = FileAt(k, m)  BY <1>1 DEF FileAt
  <2>2. ASSUME NEW m \in Manifest, result'[n][m] = "skipped" PROVE ~IsManifest(FileAt(k, m))
    BY <1>2, <2>2
  <2>3. ASSUME NEW m \in Manifest, result'[n][m] = "unread" PROVE ledger[s][m] # NoFlag
    BY <1>2, <2>3
  <2>4. ASSUME NEW m \in Manifest PROVE result'[n][m] \notin {"released", "noop"}
    BY <1>2
  <2> QED BY <1>1, <2>1, <2>2, <2>3, <2>4 DEF OutcomeOK
<1>4. /\ s \in Service /\ k \in Sha /\ store'[s].last = k /\ k <= deployed[s]
      /\ \A t \in Service : t # s => store'[t] = store[t]
      /\ store[s].last <= k /\ store[s].last \in 0 .. MaxSha
      /\ store[s].last # k => job[n].prev = store[s].last
  BY <1>1, Recording, JobType, ServiceType DEF OrderInv, JobOK
<1>5. \A m \in Manifest : ~InHand(n, m)  BY <1>1 DEF InHand, Busy
<1>6. ASSUME NEW t \in Service, NEW m \in Manifest, Owed(t, m)' PROVE Kempt(t, m)'
  <2>1. CASE Owed(t, m) /\ FileAt(store'[t].last, m) = FileAt(store[t].last, m)
    BY <1>1, <1>5, <2>1 DEF AccountInv, Kempt, OneAtATime, Served, FileAt
  <2>2. CASE t # s \/ store[s].last = k
    <3>1. store'[t].last = store[t].last  BY <1>4, <2>2
    <3> QED BY <1>1, <1>6, <2>1, <3>1 DEF Owed, FileAt
  <2>3. CASE t = s /\ store[s].last # k /\ FileAt(store[s].last, m) = Absent
    <3>1. m \in Discovered(k, job[n].prev)  BY <1>1, <1>4, <1>6, <2>3 DEF Discovered, Owed, FileAt
    <3>2. InHand(n, m)'  BY <1>1, <1>2, <3>1 DEF InHand, Busy
    <3> QED BY <1>1, <2>3, <3>2 DEF Kempt
  <2>4. CASE t = s /\ store[s].last # k /\ FileAt(store[s].last, m) # Absent
    <3>1. store[s].last \in Sha /\ content[store[s].last][m] # Absent
      BY <1>4, <2>4 DEF FileAt, Sha, NoSha
    <3>2. content[k][m] = content[store[s].last][m]  BY <1>4, <3>1 DEF Fixed, OrderInv
    <3>3. FileAt(k, m) = FileAt(store[s].last, m)  BY <1>4, <3>1, <3>2 DEF FileAt, Sha, NoSha
    <3>4. Owed(t, m)  BY <1>1, <1>4, <1>6, <2>4, <3>3 DEF Owed, FileAt
    <3> QED BY <1>4, <2>1, <2>4, <3>3, <3>4
  <2> QED BY <2>2, <2>3, <2>4
<1>7. ASSUME NEW t \in Service, handled[t] = deployed[t] PROVE store'[t].last = deployed[t]
  <2>1. store[t].last = deployed[t]  BY <1>7 DEF AccountInv
  <2> QED BY <1>4, <2>1, ServiceType DEF Sha
<1> QED BY <1>1, <1>3, <1>6, <1>7 DEF AccountInv, OneAtATime

\* A fold leaves every manifest that is pending in the ledger.
LEMMA FoldAccount ==
  ASSUME OneAtATime, IInv, OrderInv, AccountInv, NEW n \in Handler, Fold(n)
  PROVE  AccountInv'
<1> DEFINE s == job[n].svc
           k == job[n].sha
<1>1. /\ UNCHANGED <<content, deployed, served, reached, store>> /\ Free(n)'
      /\ pc[n] = "pick" /\ todo[n] = {}
  BY Moves DEF Fold, repo, ld, Free
<1>2. s \in Service /\ store[s].last = k /\ k \in Sha  BY <1>1, JobType DEF OrderInv, JobOK, Busy
<1>3. /\ \A t \in Service : t # s => ledger'[t] = ledger[t] /\ handled'[t] = handled[t]
      /\ handled'[s] = k
      /\ \A m \in Manifest :
           ledger'[s][m] = IF result[n][m] = "none" \/ result[n][m] = "unread" THEN ledger[s][m]
                           ELSE IF result[n][m] \in PendingOutcomes THEN FileAt(k, m).flag ELSE NoFlag
  BY <1>2 DEF Fold, Folded, IInv, StoreTypes, Ledger, WorldTypes
<1>4. OutcomeOK(n)'  BY <1>1 DEF OutcomeOK, Free, Busy
<1>5. ASSUME NEW t \in Service, NEW m \in Manifest, Owed(t, m)' PROVE Kempt(t, m)'
  <2>1. Owed(t, m)  BY <1>1, <1>5 DEF Owed, FileAt
  <2>2. Served(FileAt(store[t].last, m)) \/ ledger[t][m] # NoFlag \/ (s = t /\ result[n][m] \in PendingOutcomes)
    BY <1>1, <2>1 DEF AccountInv, Kempt, OneAtATime, InHand, Evaluating
  <2>3. CASE Served(FileAt(store[t].last, m))
    BY <1>1, <2>3 DEF Kempt, Served, FileAt
  <2>4. CASE t = s /\ result[n][m] \in PendingOutcomes \ {"unread"}
    <3>1. FileAt(k, m) \in ReleaseFile  BY <2>4, OutcomeType DEF PendingOutcomes
    <3>2. ledger'[s][m] \in Flag  BY <1>3, <2>4, <3>1 DEF ReleaseFile, PendingOutcomes
    <3> QED BY <2>4, <3>2, BeaconAssumption DEF Kempt
  <2>5. CASE t = s /\ result[n][m] \in {"unread", "none"} /\ ledger[t][m] # NoFlag
    BY <1>3, <2>5 DEF Kempt
  <2>0. result[n][m] = "unread" => ledger[s][m] # NoFlag
    BY <1>1 DEF AccountInv, OutcomeOK, Busy
  <2>6. CASE t = s /\ result[n][m] \in {"skipped", "released", "noop"}
    BY <1>1, <1>2, <2>1, <2>3, <2>6 DEF AccountInv, OutcomeOK, Owed, Busy
  <2>7. CASE t # s /\ ledger[t][m] # NoFlag  BY <1>3, <2>7 DEF Kempt
  <2>8. result[n][m] \in Outcome  BY DEF IInv, RequestInv, RequestTypes
  <2> QED BY <2>0, <2>2, <2>3, <2>4, <2>5, <2>6, <2>7, <2>8 DEF Outcome, PendingOutcomes
<1>6. \A t \in Service : handled'[t] = deployed[t] => store[t].last = deployed[t]
  BY <1>2, <1>3 DEF AccountInv
<1> QED BY <1>1, <1>4, <1>5, <1>6 DEF AccountInv, OneAtATime

LEMMA AskingAccount ==
  ASSUME OneAtATime, IInv, OrderInv, AccountInv, NEW n \in Handler,
         \/ (\E m \in Manifest : Pick(n, m)) \/ LedgerHistory(n) \/ (\E down \in SUBSET Service : Scope(n, down))
         \/ Guard(n) \/ RepeatHistory(n) \/ Read(n)
  PROVE  AccountInv'
<1>1. UNCHANGED <<content, deployed, ld, store, ledger, job, handled>> /\ Busy(n) /\ Reaches
  BY SameReached DEF Pick, LedgerHistory, Scope, Guard, RepeatHistory, Read, repo, ld, memory, Busy
<1>2. ASSUME NEW o \in {"error", "waiting", "held", "already_running", "unknown"}, Finish(n, o), Evaluating(n),
             UNCHANGED todo
      PROVE  AccountInv'
  BY <1>1, <1>2, FinishAccount DEF Outcome, PendingOutcomes
<1>3. ASSUME NEW l \in {"scope", "guard", "repeat", "read"}, Continue(n, l), Evaluating(n), UNCHANGED todo
      PROVE  AccountInv'
  <2>1. pc'[n] = l /\ UNCHANGED <<result, cur>>  BY <1>3, Moves DEF Continue
  <2> QED BY <1>1, <1>3, <2>1, ContinueAccount DEF Busy, Evaluating
<1>4. CASE \E m \in Manifest : Pick(n, m)
  <2>1. PICK m \in Manifest : Pick(n, m)  BY <1>4
  <2>2. /\ pc'[n] \in {"scope", "history"} /\ pc[n] = "pick" /\ cur'[n] = m /\ todo'[n] = todo[n] \ {m}
        /\ UNCHANGED result
    BY <2>1, Moves DEF Pick, IInv, RequestInv, RequestTypes
  <2> QED BY <1>1, <2>2, ContinueAccount DEF Busy, Evaluating
<1>5. CASE LedgerHistory(n)
  BY <1>2, <1>3, <1>5 DEF LedgerHistory, Evaluating
<1>6. ASSUME NEW down \in SUBSET Service, Scope(n, down) PROVE AccountInv'
  <2>1. Evaluating(n) /\ UNCHANGED todo  BY <1>6 DEF Scope, Evaluating
  <2>2. CASE Finish(n, "skipped") /\ ScopeDecision(Here(n).scope, SideOf[job[n].svc]) = "skip"
    <3>1. ~InScope(job[n].svc, Here(n))  BY <2>2 DEF ScopeDecision, InScope
    <3> QED BY <1>1, <2>1, <2>2, <3>1, FinishAccount DEF Outcome
  <2> QED BY <1>2, <1>3, <1>6, <2>1, <2>2 DEF Scope
<1>7. CASE Guard(n)
  BY <1>2, <1>3, <1>7 DEF Guard, Evaluating
<1>8. CASE RepeatHistory(n)
  BY <1>2, <1>3, <1>8 DEF RepeatHistory, Evaluating
<1>9. CASE Read(n)
  <2>1. Evaluating(n) /\ UNCHANGED todo /\ pc[n] = "read"  BY <1>9 DEF Read, Evaluating
  <2> DEFINE decision == TriggerDecision(Here(n), TipOf[Here(n).flag], served[Here(n).flag])
  <2>2. CASE Finish(n, "noop") /\ decision = "noop"
    <3>1. PICK file \in ReleaseFile : file = Here(n) /\ file.flag \in Flag  BY <2>1, HereType DEF IInv
    <3>2. Moot(file, TipOf[file.flag], served[file.flag])  BY <2>2, <3>1 DEF TriggerDecision
    <3>3. /\ served[file.flag] <= reached'[file.flag] /\ served[file.flag] \in Int /\ reached'[file.flag] \in Int
          /\ ResolvedTarget(file, TipOf[file.flag]) \in Int
      BY <1>1, <3>1, TargetInt, MaxVersionAssumption DEF Reaches, ld, IInv, WorldTypes, Version
    <3>4. reached'[file.flag] >= ResolvedTarget(file, TipOf[file.flag])  BY <3>2, <3>3 DEF Moot
    <3> QED BY <1>1, <2>1, <2>2, <3>1, <3>4, FinishAccount DEF Outcome
  <2>3. CASE (PlanRelease(n, TRUE) \/ PlanRelease(n, FALSE)) /\ UNCHANGED <<cur, result>>
    <3>1. pc'[n] = "patch" /\ plan'[n].target = ResolvedTarget(Here(n), TipOf[Here(n).flag])
      BY <2>3, Planned
    <3> QED BY <1>1, <2>1, <2>3, <3>1, ContinueAccount DEF Busy, Evaluating
  <2> QED BY <1>2, <1>9, <2>1, <2>2, <2>3 DEF Read
<1> QED BY <1>4, <1>5, <1>6, <1>7, <1>8, <1>9

LEMMA AppliedReaches ==
  ASSUME IInv, AccountInv, NEW n \in Handler, pc[n] = "patch", Applied(n)
  PROVE  Reaches /\ reached'[Here(n).flag] >= ResolvedTarget(Here(n), TipOf[Here(n).flag])
<1>1. PICK f \in Flag : f = Here(n).flag  BY HereType DEF Evaluating, IInv
<1>2. /\ plan[n].target \in Version /\ served \in [Flag -> Version] /\ reached \in [Flag -> Version]
      /\ \A g \in Flag : served[g] <= reached[g]
  BY DEF IInv, WorldTypes, RequestInv, RequestTypes, Plan, AccountInv
<1>3. /\ reached' = [reached EXCEPT ![f] = IF plan[n].target > reached[f] THEN plan[n].target ELSE reached[f]]
      /\ UNCHANGED served \/ served' = [served EXCEPT ![f] = plan[n].target]
  BY <1>1 DEF Applied, StartRelease, MoveFallthrough
<1>4. Reaches /\ reached'[f] >= plan[n].target
  BY <1>2, <1>3, MaxVersionAssumption DEF Reaches, Version
<1> QED BY <1>1, <1>4 DEF AccountInv, OutcomeOK

LEMMA PatchAccount ==
  ASSUME OneAtATime, IInv, OrderInv, AccountInv, NEW n \in Handler,
         PatchAccepted(n) \/ PatchThrows(n) \/ PatchRefused(n)
  PROVE  AccountInv'
<1>1. /\ UNCHANGED <<content, deployed, store, ledger, job, todo, handled>> /\ pc[n] = "patch" /\ Evaluating(n)
  BY DEF PatchAccepted, PatchThrows, PatchRefused, repo, memory, Evaluating
<1>2. CASE Applied(n) /\ (Finish(n, "released") \/ Finish(n, "unknown"))
  BY <1>1, <1>2, AppliedReaches, FinishAccount DEF Outcome, PendingOutcomes
<1>3. CASE UNCHANGED ld /\ (Finish(n, "unknown") \/ Finish(n, "held"))
  <2>1. Reaches  BY <1>3, SameReached DEF ld
  <2> QED BY <1>1, <1>3, <2>1, FinishAccount DEF Outcome, PendingOutcomes
<1> QED BY <1>2, <1>3 DEF PatchAccepted, PatchThrows, PatchRefused, HeldOnContentRefusal

LEMMA StepAccount ==
  ASSUME OneAtATime, Fixed, "disk" \notin Fault, IInv, OrderInv, AccountInv, NEW n \in Handler, Step(n)
  PROVE  AccountInv'
<1>1. CASE DiscoveryFails(n)
  <2>1. /\ UNCHANGED <<content, deployed, served, reached, store, ledger, handled>> /\ Free(n)' /\ ~Busy(n)
    BY <1>1, Moves DEF DiscoveryFails, repo, ld, memory, Free, Busy
  <2>2. OutcomeOK(n)'  BY <2>1 DEF OutcomeOK, Free, Busy
  <2>3. ASSUME NEW s \in Service, NEW m \in Manifest, Owed(s, m)' PROVE Kempt(s, m)'
    BY <2>1, <2>3 DEF AccountInv, Owed, Kempt, OneAtATime, InHand, Served, FileAt
  <2> QED BY <2>1, <2>2, <2>3 DEF AccountInv, OneAtATime
<1>2. ~RecordFails(n) /\ \A done \in SUBSET Manifest, m \in Manifest : ~FoldFails(n, done, m)
  BY DEF RecordFails, FoldFails, Spend
<1> QED BY <1>1, <1>2, DiscoverAccount, AskingAccount, PatchAccount, FoldAccount DEF Step

LEMMA ServeReaches ==
  ASSUME IInv, AccountInv, NEW f \in Flag, NEW v \in Version, Serve(f, v)
  PROVE  Reaches
BY MaxVersionAssumption DEF Serve, Reaches, AccountInv, IInv, WorldTypes, Version

LEMMA LaunchDarklyReaches ==
  ASSUME IInv, AccountInv, NEW f \in Flag, NEW i \in 1 .. Len(rel[f]), LaunchDarkly(f, i)
  PROVE  Reaches
<1>1. rel[f][i].target \in Version /\ rel[f][i].from \in Version
  <2>1. rel[f][i] \in Release  BY DEF IInv, WorldTypes
  <2> QED BY <2>1 DEF Release
<1>2. UNCHANGED <<served, reached>> \/ \E v \in Version : Serve(f, v)
  BY <1>1 DEF LaunchDarkly, Settle, Ramp, Complete, Revert, StopMonitoring
<1> QED BY <1>2, SameReached, ServeReaches

LEMMA InitAccount == Init => AccountInv
<1> SUFFICES ASSUME Init PROVE AccountInv  OBVIOUS
<1>1. \A f \in Flag : served[f] <= reached[f]  BY DEF Init, Control
<1>2. \A s \in Service : store[s].last = deployed[s]  BY DEF Init, EmptyWindow
<1>3. \A s \in Service, m \in Manifest : ~Owed(s, m)
  BY DEF Init, Owed, EmptyWindow, FileAt, IsManifest
<1>4. \A n \in Handler : OutcomeOK(n)  BY DEF Init, OutcomeOK, Busy
<1> QED BY <1>1, <1>2, <1>3, <1>4 DEF AccountInv

LEMMA NextAccount ==
  ASSUME OneAtATime, InOrder, Fixed, "disk" \notin Fault, "crash" \notin Fault,
         IInv, OrderInv, AccountInv, [Next]_vars
  PROVE  AccountInv'
<1>1. CASE UNCHANGED vars
  BY <1>1, SameReached, WorldAccount DEF vars, repo, ld, memory, AccountInv
<1>2. ~Crash  BY DEF Crash, Spend
<1>3. ASSUME NEW s \in Service, NEW sha \in Sha, Deploy(s, sha) PROVE AccountInv'
  <2>1. UNCHANGED <<content, served, reached, store, ledger, request>>  BY <1>3 DEF Deploy, ld, memory
  <2>2. \A t \in Service : handled'[t] = deployed'[t] => store[t].last = deployed'[t]
    BY <1>3 DEF Deploy, AccountInv, IInv, WorldTypes, Sha, NoSha
  <2> QED BY <2>1, <2>2, SameReached, WorldAccount
<1>4. ASSUME NEW f \in Flag, NEW i \in 1 .. Len(rel[f]), LaunchDarkly(f, i) PROVE AccountInv'
  <2>1. UNCHANGED <<content, deployed, store, ledger, request, handled>>
    BY <1>4 DEF LaunchDarkly, Settle, Ramp, Complete, Revert, StopMonitoring, repo, memory
  <2> QED BY <1>4, <2>1, LaunchDarklyReaches, WorldAccount DEF AccountInv
<1>5. ASSUME NEW f \in Flag, NEW v \in Version, HumanServes(f, v) PROVE AccountInv'
  <2>1. UNCHANGED <<content, deployed, store, ledger, request, handled>> /\ Serve(f, v)
    BY <1>5 DEF HumanServes, repo, memory
  <2> QED BY <2>1, ServeReaches, WorldAccount DEF AccountInv
<1> QED BY <1>1, <1>2, <1>3, <1>4, <1>5, ReceiveAccount, StepAccount DEF Next

\* No manifest is lost between discovery and the ledger, whatever reads fail,
\* whatever is refused or left unanswered, whichever releases a guardrail or a
\* human ends, and whatever humans serve meanwhile.
THEOREM NothingLost ==
  ASSUME OneAtATime, InOrder, Fixed, "disk" \notin Fault, "crash" \notin Fault
  PROVE  Spec => []Accounted
<1>1. Init => AccountInv  BY InitAccount
<1>2. IInv /\ OrderInv /\ AccountInv /\ [Next]_vars => AccountInv'  BY NextAccount
<1>3. IInv /\ AccountInv => Accounted
  <2> SUFFICES ASSUME IInv, AccountInv, NEW s \in Service, NEW m \in Manifest,
                      handled[s] = deployed[s], ~Working(s), IsManifest(FileAt(deployed[s], m)),
                      InScope(s, FileAt(deployed[s], m)), ledger[s][m] = NoFlag
               PROVE  Served(FileAt(deployed[s], m))
    BY DEF Accounted, Served
  <2>1. store[s].last = deployed[s]  BY DEF AccountInv
  <2>2. Kempt(s, m)  BY <2>1 DEF AccountInv, Owed
  <2> QED BY <2>1, <2>2 DEF Kempt, InHand, Working, Free, Busy
<1> QED BY <1>1, <1>2, <1>3, Ordered, PTL DEF Spec

=============================================================================
