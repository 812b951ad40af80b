---------------------------- MODULE ReleaseProofs ----------------------------
(***************************************************************************)
(* What production sees of Beacon: it implements the release contract, for *)
(* every number of services, manifests, flags, commits and misfortunes.    *)
(*                                                                         *)
(* Two requests that overlap can both find a flag at rest and both start a *)
(* release of it, so the hypothesis is that requests are answered one at a *)
(* time and that the releases listing settles in between; and a variation  *)
(* a human serves by hand is no step of the contract.  The invariant says  *)
(* why the idempotency read suffices then: the only release it cannot see  *)
(* is one this very request started, and that one's flag has no free slot. *)
(***************************************************************************)
EXTENDS BeaconProofs

\* Requests are answered one at a time.
OneAtATime == \A n, o \in Handler : n = o

(***************************************************************************)
(* One release at a time, and forward.                                     *)
(***************************************************************************)
OneRuns(rs)  == \A i, j \in 1 .. Len(rs) : rs[i].status = "running" /\ rs[j].status = "running" => i = j
NoneRuns(rs) == \A i \in 1 .. Len(rs) : rs[i].status # "running"
Forward(rs)  == \A i \in 1 .. Len(rs) : rs[i].target > rs[i].from

\* What is not listed yet is what this request started; past the guard the flag
\* is at rest, and a patch moves it ahead, from what it serves.
FlagOK(n) ==
  /\ ~Free(n) => \A f \in Flag : \A i \in 1 .. Len(rel[f]) : rel[f][i].seen \/ f \in slot[n]
  /\ pc[n] \in {"repeat", "read", "patch"} => NoneRuns(rel[Here(n).flag])
  /\ pc[n] = "patch" =>
       /\ plan[n].from = served[Here(n).flag] /\ plan[n].target > served[Here(n).flag]

ContractInv ==
  /\ \A f \in Flag : OneRuns(rel[f]) /\ Forward(rel[f])
  /\ \A n \in Handler : FlagOK(n)

(***************************************************************************)
(* Lemmas about the steps of a request and of a release.                   *)
(***************************************************************************)

\* Only the status or the listing of one release changes.
EntryChanges(f, i) ==
  \A g \in Flag :
     /\ Len(rel'[g]) = Len(rel[g])
     /\ \A j \in 1 .. Len(rel[g]) :
          /\ rel'[g][j].target = rel[g][j].target /\ rel'[g][j].from = rel[g][j].from
          /\ rel'[g][j].by = rel[g][j].by
          /\ rel[g][j].seen => rel'[g][j].seen
          /\ g # f \/ j # i => rel'[g][j].status = rel[g][j].status

LEMMA StatusChanges ==
  ASSUME WorldTypes, NEW f \in Flag, NEW i \in 1 .. Len(rel[f]), NEW status \in Status, SetStatus(f, i, status)
  PROVE  EntryChanges(f, i) /\ rel'[f][i].status = status
<1>1. rel[f] \in Seq(Release) /\ rel[f][i] \in Release
  BY DEF WorldTypes
<1>2. rel' = [rel EXCEPT ![f] = [rel[f] EXCEPT ![i] = [rel[f][i] EXCEPT !.status = status]]]
  BY DEF SetStatus
<1>3. /\ rel'[f] = [rel[f] EXCEPT ![i] = [rel[f][i] EXCEPT !.status = status]]
      /\ \A g \in Flag : g # f => rel'[g] = rel[g]
  BY <1>2 DEF WorldTypes
<1>4. /\ Len(rel'[f]) = Len(rel[f])
      /\ rel'[f][i] = [rel[f][i] EXCEPT !.status = status]
      /\ \A j \in 1 .. Len(rel[f]) : j # i => rel'[f][j] = rel[f][j]
  BY <1>1, <1>3
<1>5. /\ rel'[f][i].status = status /\ rel'[f][i].target = rel[f][i].target
      /\ rel'[f][i].from = rel[f][i].from /\ rel'[f][i].by = rel[f][i].by /\ rel'[f][i].seen = rel[f][i].seen
  BY <1>1, <1>4 DEF Release
<1> QED BY <1>3, <1>4, <1>5 DEF EntryChanges

LEMMA SettleChanges ==
  ASSUME WorldTypes, NEW f \in Flag, NEW i \in 1 .. Len(rel[f]), Settle(f, i)
  PROVE  EntryChanges(f, i) /\ rel'[f][i].status = rel[f][i].status
<1>1. rel[f] \in Seq(Release) /\ rel[f][i] \in Release
  BY DEF WorldTypes
<1>2. rel' = [rel EXCEPT ![f] = [rel[f] EXCEPT ![i] = [rel[f][i] EXCEPT !.seen = TRUE]]]
  BY DEF Settle
<1>3. /\ rel'[f] = [rel[f] EXCEPT ![i] = [rel[f][i] EXCEPT !.seen = TRUE]]
      /\ \A g \in Flag : g # f => rel'[g] = rel[g]
  BY <1>2 DEF WorldTypes
<1>4. /\ Len(rel'[f]) = Len(rel[f])
      /\ rel'[f][i] = [rel[f][i] EXCEPT !.seen = TRUE]
      /\ \A j \in 1 .. Len(rel[f]) : j # i => rel'[f][j] = rel[f][j]
  BY <1>1, <1>3
<1>5. /\ rel'[f][i].status = rel[f][i].status /\ rel'[f][i].target = rel[f][i].target
      /\ rel'[f][i].from = rel[f][i].from /\ rel'[f][i].by = rel[f][i].by /\ rel'[f][i].seen
  <2>1. rel[f][i] \in Release /\ rel'[f][i] = [rel[f][i] EXCEPT !.seen = TRUE]  BY <1>1, <1>4
  <2> QED BY <2>1 DEF Release
<1>6. ASSUME NEW g \in Flag, NEW j \in 1 .. Len(rel[g])
      PROVE  /\ rel'[g][j].target = rel[g][j].target /\ rel'[g][j].from = rel[g][j].from
             /\ rel'[g][j].by = rel[g][j].by /\ rel'[g][j].status = rel[g][j].status
             /\ rel[g][j].seen => rel'[g][j].seen
  <2>1. CASE g = f /\ j = i  BY <1>5, <2>1
  <2>2. CASE g = f /\ j # i  BY <1>4, <1>6, <2>2
  <2>3. CASE g # f  BY <1>3, <2>3
  <2> QED BY <2>1, <2>2, <2>3
<1> QED BY <1>3, <1>4, <1>5, <1>6 DEF EntryChanges

LEMMA ReleaseChanges ==
  ASSUME WorldTypes, NEW f \in Flag, NEW i \in 1 .. Len(rel[f]), LaunchDarkly(f, i)
  PROVE  /\ EntryChanges(f, i)
         /\ rel'[f][i].status \in {rel[f][i].status, "completed", "reverted", "monitoring_stopped"}
<1>1. CASE Settle(f, i)          BY <1>1, SettleChanges
<1>2. CASE Ramp(f, i)            BY <1>2 DEF Ramp, EntryChanges
<1>3. CASE Complete(f, i)        BY <1>3, StatusChanges DEF Complete, Status
<1>4. CASE Revert(f, i)          BY <1>4, StatusChanges DEF Revert, Status
<1>5. CASE StopMonitoring(f, i)  BY <1>5, StatusChanges DEF StopMonitoring, Status
<1> QED BY <1>1, <1>2, <1>3, <1>4, <1>5 DEF LaunchDarkly

\* A started release is appended to its flag's, running and not listed yet.
LEMMA Starting ==
  ASSUME IInv, NEW n \in Handler, Evaluating(n), StartRelease(n)
  PROVE  LET f == Here(n).flag
             l == Len(rel[f]) + 1
         IN  /\ f \in Flag /\ l \in Nat /\ Len(rel'[f]) = l /\ \A g \in Flag : g # f => rel'[g] = rel[g]
             /\ \A j \in 1 .. Len(rel[f]) : rel'[f][j] = rel[f][j]
             /\ rel'[f][l].target = plan[n].target /\ rel'[f][l].from = plan[n].from
             /\ rel'[f][l].status = "running" /\ rel'[f][l].by = cur[n] /\ ~rel'[f][l].seen
<1> DEFINE f == Here(n).flag
           r == [target |-> plan[n].target, from |-> plan[n].from,
                 status |-> "running", seen |-> FALSE, by |-> cur[n]]
<1>1. f \in Flag /\ cur[n] \in Manifest  BY HereType DEF IInv
<1>2. rel \in [Flag -> Seq(Release)]  BY DEF IInv, WorldTypes
<1>3. plan[n] \in Plan  BY DEF IInv, RequestInv, RequestTypes
<1>4. r \in Release  BY <1>1, <1>3 DEF Plan, Release, Status
<1>5. rel' = [rel EXCEPT ![f] = Append(rel[f], r)]  BY DEF StartRelease
<1>6. rel'[f] = Append(rel[f], r) /\ \A g \in Flag : g # f => rel'[g] = rel[g]  BY <1>1, <1>2, <1>5
<1> HIDE DEF r, f
<1>7. /\ Len(rel[f]) \in Nat /\ Len(rel'[f]) = Len(rel[f]) + 1 /\ rel'[f][Len(rel[f]) + 1] = r
      /\ \A j \in 1 .. Len(rel[f]) : rel'[f][j] = rel[f][j]
  BY <1>1, <1>2, <1>4, <1>6
<1>8. /\ r.target = plan[n].target /\ r.from = plan[n].from /\ r.status = "running"
      /\ r.by = cur[n] /\ ~r.seen
  BY DEF r
<1> QED BY <1>1, <1>6, <1>7, <1>8 DEF f

\* Where a request goes next.
LEMMA Moves ==
  ASSUME IInv, NEW n \in Handler
  PROVE  /\ \A o : Finish(n, o) => pc'[n] = "pick"
         /\ \A l : Continue(n, l) \/ Close(n, l) \/ Goto(n, l) => pc'[n] = l
         /\ ClaimSlot(n) => slot'[n] = slot[n] \union {Here(n).flag}
BY DEF IInv, RequestInv, RequestTypes, Finish, Continue, Close, Goto, ClaimSlot

LEMMA Planned ==
  ASSUME IInv, NEW n \in Handler, NEW answered \in BOOLEAN, PlanRelease(n, answered)
  PROVE  /\ pc'[n] = "patch" /\ plan'[n].target = ResolvedTarget(Here(n), TipOf[Here(n).flag])
         /\ plan'[n].from = served[Here(n).flag]
BY DEF IInv, RequestInv, RequestTypes, PlanRelease, Goto

\* A step that starts no release and does not leave the request past its guard.
LEMMA Resting ==
  ASSUME OneAtATime, ContractInv, NEW n \in Handler, UNCHANGED rel,
         pc'[n] \notin {"repeat", "read", "patch"},
         pc'[n] \in {"idle", "failed"} \/ (~Free(n) /\ slot[n] \subseteq slot'[n])
  PROVE  ContractInv'
<1>1. FlagOK(n)'  BY DEF ContractInv, FlagOK, Free
<1> QED BY <1>1 DEF ContractInv, OneAtATime

(***************************************************************************)
(* The invariant behind the contract.                                      *)
(***************************************************************************)
LEMMA ReceiveContract ==
  ASSUME OneAtATime, PromptListing, IInv, ContractInv, NEW n \in Handler, NEW s \in Service, NEW sha \in Sha,
         NEW explicit \in 0 .. MaxSha, Receive(n, s, sha, explicit)
  PROVE  ContractInv'
<1>1. UNCHANGED rel /\ \A f \in Flag : \A i \in 1 .. Len(rel[f]) : rel[f][i].seen
  BY DEF Receive, ld
<1>2. pc'[n] = "discover"  BY Moves DEF Receive
<1>3. FlagOK(n)'  BY <1>1, <1>2 DEF FlagOK
<1> QED BY <1>1, <1>3 DEF ContractInv, OneAtATime

LEMMA GuardContract ==
  ASSUME OneAtATime, IInv, ContractInv, NEW n \in Handler, Guard(n)
  PROVE  ContractInv'
<1>1. UNCHANGED <<rel, content, job, slot>> /\ ~Free(n)  BY DEF Guard, ld, repo, Free
<1>2. CASE \E o \in Outcome : Finish(n, o)
  BY <1>1, <1>2, Moves, Resting
<1>3. CASE /\ Here(n).flag \notin slot[n] /\ ~ActiveListed(Here(n).flag)
           /\ Continue(n, "repeat") \/ Continue(n, "read")
  <2> DEFINE f == Here(n).flag
  <2>1. f \in Flag  BY HereType DEF Guard, Evaluating, IInv
  <2>2. \A i \in 1 .. Len(rel[f]) : rel[f][i].seen
    BY <1>1, <1>3, <2>1 DEF ContractInv, FlagOK
  <2>3. NoneRuns(rel[f])
    BY <1>3, <2>2 DEF ActiveListed, NoneRuns, Terminal
  <2>4. pc'[n] \in {"repeat", "read"} /\ UNCHANGED cur
    BY <1>3, Moves DEF Continue
  <2>5. Here(n)' = Here(n)  BY <1>1, <2>4 DEF Here, FileAt
  <2>6. FlagOK(n)'
    BY <1>1, <2>3, <2>4, <2>5 DEF ContractInv, FlagOK
  <2> QED BY <1>1, <2>6 DEF ContractInv, OneAtATime
<1> QED BY <1>2, <1>3 DEF Guard, Outcome

LEMMA RepeatContract ==
  ASSUME OneAtATime, IInv, ContractInv, NEW n \in Handler, RepeatHistory(n)
  PROVE  ContractInv'
<1>1. UNCHANGED <<rel, content, job, slot>> /\ ~Free(n)  BY DEF RepeatHistory, ld, repo, Free
<1>2. CASE Finish(n, "error")
  BY <1>1, <1>2, Moves, Resting
<1>3. CASE Continue(n, "read")
  <2>1. pc'[n] = "read" /\ UNCHANGED cur  BY <1>3, Moves DEF Continue
  <2>2. Here(n)' = Here(n)  BY <1>1, <2>1 DEF Here, FileAt
  <2>3. FlagOK(n)'
    BY <1>1, <2>1, <2>2 DEF ContractInv, FlagOK, RepeatHistory
  <2> QED BY <1>1, <2>3 DEF ContractInv, OneAtATime
<1> QED BY <1>2, <1>3 DEF RepeatHistory

LEMMA DecisionAhead ==
  ASSUME NEW file \in ReleaseFile, NEW tip \in Version, NEW s \in Version,
         TriggerDecision(file, tip, s) = "release"
  PROVE  ResolvedTarget(file, tip) \in Version /\ ResolvedTarget(file, tip) > s
<1>1. ~MustHold(file, tip, s) /\ ~Moot(file, tip, s)  BY DEF TriggerDecision
<1>2. ResolvedTarget(file, tip) \in Version  BY TargetType
<1> QED BY <1>1, <1>2, MaxVersionAssumption DEF MustHold, Moot, InLineage, Control, Version

LEMMA PlanContract ==
  ASSUME OneAtATime, IInv, ContractInv, NEW n \in Handler, NEW answered \in BOOLEAN, pc[n] = "read",
         PlanRelease(n, answered),
         TriggerDecision(Here(n), TipOf[Here(n).flag], served[Here(n).flag]) = "release",
         UNCHANGED <<rel, served, content, job, cur, slot>>
  PROVE  ContractInv'
<1>1. Here(n) \in ReleaseFile /\ Here(n).flag \in Flag  BY HereType DEF Evaluating, IInv
<1>2. TipOf[Here(n).flag] \in Version /\ served[Here(n).flag] \in Version
  BY <1>1, BeaconAssumption DEF IInv, WorldTypes
<1>3. ResolvedTarget(Here(n), TipOf[Here(n).flag]) > served[Here(n).flag]  BY <1>1, <1>2, DecisionAhead
<1>4. Here(n)' = Here(n)  BY DEF Here, FileAt
<1>5. /\ pc'[n] = "patch" /\ plan'[n].target = ResolvedTarget(Here(n), TipOf[Here(n).flag])
      /\ plan'[n].from = served[Here(n).flag]
  BY Planned
<1>6. FlagOK(n)'
  BY <1>3, <1>4, <1>5 DEF ContractInv, FlagOK, Free
<1> QED BY <1>6 DEF ContractInv, OneAtATime

LEMMA ReadContract ==
  ASSUME OneAtATime, IInv, ContractInv, NEW n \in Handler, Read(n)
  PROVE  ContractInv'
<1>1. UNCHANGED <<rel, served, content, job>> /\ ~Free(n) /\ pc[n] = "read"  BY DEF Read, ld, repo, Free
<1>2. CASE \E o \in Outcome : Finish(n, o) /\ (ClaimSlot(n) \/ UNCHANGED slot)
  BY <1>1, <1>2, Moves, Resting
<1>3. CASE /\ TriggerDecision(Here(n), TipOf[Here(n).flag], served[Here(n).flag]) = "release"
           /\ PlanRelease(n, TRUE) \/ PlanRelease(n, FALSE)
           /\ UNCHANGED <<cur, slot>>
  BY <1>1, <1>3, PlanContract
<1> QED BY <1>2, <1>3 DEF Read, Outcome

LEMMA AppliedContract ==
  ASSUME OneAtATime, IInv, ContractInv, NEW n \in Handler, pc[n] = "patch", Applied(n),
         ClaimSlot(n), Finish(n, "released") \/ Finish(n, "unknown")
  PROVE  ContractInv'
<1>1. pc'[n] = "pick" /\ slot'[n] = slot[n] \union {Here(n).flag} /\ ~Free(n)
  BY Moves DEF Free
<1>2. CASE UNCHANGED rel
  BY <1>1, <1>2, Resting
<1>3. CASE StartRelease(n)
  <2> DEFINE f == Here(n).flag
             l == Len(rel[f]) + 1
  <2>1. /\ f \in Flag /\ l \in Nat /\ Len(rel'[f]) = l /\ \A g \in Flag : g # f => rel'[g] = rel[g]
        /\ \A j \in 1 .. Len(rel[f]) : rel'[f][j] = rel[f][j]
        /\ rel'[f][l].target = plan[n].target /\ rel'[f][l].from = plan[n].from
    BY <1>3, Starting DEF Evaluating
  <2>2. NoneRuns(rel[f]) /\ plan[n].target > plan[n].from
    BY DEF ContractInv, FlagOK
  <2> HIDE DEF f
  <2>3. \A j \in 1 .. l : j \in 1 .. Len(rel[f]) \/ j = l  BY <2>1
  <2>4. Forward(rel'[f])
    BY <2>1, <2>2, <2>3 DEF Forward, ContractInv
  <2>5. \A j \in 1 .. l : rel'[f][j].status = "running" => j = l
    BY <2>1, <2>2, <2>3 DEF NoneRuns
  <2>6. OneRuns(rel'[f])
    BY <2>1, <2>5 DEF OneRuns
  <2>7. \A g \in Flag : OneRuns(rel'[g]) /\ Forward(rel'[g])
    BY <2>1, <2>4, <2>6 DEF ContractInv
  <2>8. FlagOK(n)'
    BY <1>1, <2>1 DEF ContractInv, FlagOK, f
  <2> QED BY <2>7, <2>8 DEF ContractInv, OneAtATime
<1> QED BY <1>2, <1>3 DEF Applied, MoveFallthrough

LEMMA PatchContract ==
  ASSUME OneAtATime, IInv, ContractInv, NEW n \in Handler, PatchAccepted(n) \/ PatchThrows(n) \/ PatchRefused(n)
  PROVE  ContractInv'
<1>1. pc[n] = "patch" /\ ~Free(n)  BY DEF PatchAccepted, PatchThrows, PatchRefused, Free
<1>2. CASE Applied(n) /\ ClaimSlot(n) /\ (Finish(n, "released") \/ Finish(n, "unknown"))
  BY <1>1, <1>2, AppliedContract
<1>3. CASE UNCHANGED rel /\ (ClaimSlot(n) \/ UNCHANGED slot) /\ \E o \in Outcome : Finish(n, o)
  BY <1>1, <1>3, Moves, Resting
<1> QED BY <1>2, <1>3 DEF PatchAccepted, PatchThrows, PatchRefused, HeldOnContentRefusal, Outcome, ld

LEMMA StepContract ==
  ASSUME OneAtATime, IInv, ContractInv, NEW n \in Handler, Step(n)
  PROVE  ContractInv'
<1>1. ASSUME NEW unread \in SUBSET Manifest, Discover(n, unread) PROVE ContractInv'
  <2>1. UNCHANGED <<rel, slot>> /\ ~Free(n) /\ pc'[n] = "pick"  BY <1>1, Moves DEF Discover, ld, Free
  <2> QED BY <2>1, Resting
<1>2. ASSUME NEW m \in Manifest, Pick(n, m) PROVE ContractInv'
  <2>1. UNCHANGED <<rel, slot>> /\ ~Free(n) /\ pc'[n] \in {"scope", "history"}  BY <1>2, Moves DEF Pick, ld, Free
  <2> QED BY <2>1, Resting
<1>3. ASSUME \/ DiscoveryFails(n) \/ RecordFails(n) \/ Fold(n)
             \/ \E done \in SUBSET Manifest, m \in Manifest : FoldFails(n, done, m)
      PROVE  ContractInv'
  <2>1. UNCHANGED rel /\ (Close(n, "idle") \/ Close(n, "failed"))
    BY <1>3 DEF DiscoveryFails, RecordFails, Fold, FoldFails, ld
  <2> QED BY <2>1, Moves, Resting
<1>4. ASSUME LedgerHistory(n) \/ \E down \in SUBSET Service : Scope(n, down) PROVE ContractInv'
  <2>1. /\ UNCHANGED <<rel, slot>> /\ ~Free(n)
        /\ (\E o \in Outcome : Finish(n, o)) \/ Continue(n, "scope") \/ Continue(n, "guard")
    BY <1>4 DEF LedgerHistory, Scope, ld, Free, Outcome
  <2>2. pc'[n] \in {"pick", "scope", "guard"}  BY <2>1, Moves
  <2> QED BY <2>1, <2>2, Resting
<1> QED BY <1>1, <1>2, <1>3, <1>4, GuardContract, RepeatContract, ReadContract, PatchContract DEF Step

LEMMA LaunchDarklyContract ==
  ASSUME IInv, ContractInv, NEW f \in Flag, NEW i \in 1 .. Len(rel[f]), LaunchDarkly(f, i)
  PROVE  ContractInv'
<1>1. UNCHANGED <<content, request>>
  BY DEF LaunchDarkly, Settle, Ramp, Complete, Revert, StopMonitoring, repo
<1>2. /\ EntryChanges(f, i)
      /\ rel'[f][i].status \in {rel[f][i].status, "completed", "reverted", "monitoring_stopped"}
  BY ReleaseChanges DEF IInv
<1>3. rel[f][i].status = "running" \/ UNCHANGED served
  BY DEF LaunchDarkly, Settle, Ramp, Complete, Revert, StopMonitoring, Running
<1>4. \A g \in Flag : g # f => served'[g] = served[g]
  BY DEF LaunchDarkly, Settle, Ramp, Complete, Revert, StopMonitoring, Serve, IInv, WorldTypes
<1>5. ASSUME NEW g \in Flag PROVE OneRuns(rel'[g]) /\ Forward(rel'[g])
  <2>1. /\ Len(rel'[g]) = Len(rel[g])
        /\ \A j \in 1 .. Len(rel[g]) :
             /\ rel'[g][j].target = rel[g][j].target /\ rel'[g][j].from = rel[g][j].from
             /\ rel'[g][j].status = "running" => rel[g][j].status = "running"
    BY <1>2 DEF EntryChanges
  <2>2. OneRuns(rel[g]) /\ Forward(rel[g])  BY DEF ContractInv
  <2> QED BY <2>1, <2>2 DEF OneRuns, Forward
<1>6. \A g \in Flag : NoneRuns(rel[g]) => NoneRuns(rel'[g])
  BY <1>2 DEF NoneRuns, EntryChanges
<1>7. ASSUME NEW n \in Handler PROVE FlagOK(n)'
  <2>1. /\ pc' = pc /\ slot' = slot /\ plan' = plan /\ Here(n)' = Here(n)
    BY <1>1 DEF request, Here, FileAt
  <2>2. FlagOK(n)  BY DEF ContractInv
  <2>3. ~Free(n) => \A g \in Flag : \A j \in 1 .. Len(rel'[g]) : rel'[g][j].seen \/ g \in slot[n]
    BY <1>2, <2>2 DEF FlagOK, EntryChanges
  <2>4. pc[n] \in {"repeat", "read", "patch"} => Here(n).flag \in Flag
    BY HereType DEF IInv, Evaluating
  <2>5. pc[n] = "patch" => served'[Here(n).flag] = served[Here(n).flag]
    BY <1>3, <1>4, <2>2, <2>4 DEF FlagOK, NoneRuns
  <2> QED BY <1>6, <2>1, <2>2, <2>3, <2>4, <2>5 DEF FlagOK, Free
<1> QED BY <1>5, <1>7 DEF ContractInv

LEMMA InitContract == Init => ContractInv
BY DEF Init, ContractInv, FlagOK, OneRuns, Forward, Free

LEMMA NextContract ==
  ASSUME OneAtATime, PromptListing, "human" \notin Fault, IInv, ContractInv, [Next]_vars
  PROVE  ContractInv'
<1>1. CASE UNCHANGED <<rel, served, content, request>>
  BY <1>1 DEF ContractInv, FlagOK, Free, Here, FileAt, request
<1>2. CASE Crash
  <2>1. UNCHANGED rel /\ \A n \in Handler : pc'[n] = "idle"  BY <1>2 DEF Crash, ld
  <2> QED BY <2>1 DEF ContractInv, FlagOK, Free
<1>3. CASE \E s \in Service, sha \in Sha : Deploy(s, sha)
  BY <1>1, <1>3 DEF Deploy, ld
<1>4. CASE \E f \in Flag, v \in Version : HumanServes(f, v)
  BY <1>4 DEF HumanServes, Spend
<1> QED BY <1>1, <1>2, <1>3, <1>4, ReceiveContract, StepContract, LaunchDarklyContract DEF Next, vars, ld, repo

(***************************************************************************)
(* The refinement.                                                         *)
(***************************************************************************)

\* Moving, of the releases of one flag.
MovingOf(rs) ==
  IF \E i \in 1 .. Len(rs) : rs[i].status = "running"
  THEN LET i == CHOOSE j \in 1 .. Len(rs) : rs[j].status = "running"
       IN  [to |-> rs[i].target, from |-> rs[i].from]
  ELSE [to |-> Control, from |-> Control]

LEMMA MovingIs == \A f : Moving(f) = MovingOf(rel[f]) /\ Moving(f)' = MovingOf(rel'[f])
BY DEF Moving, MovingOf, Running

LEMMA MovingRuns ==
  ASSUME NEW rs, NEW i \in 1 .. Len(rs), OneRuns(rs), rs[i].status = "running"
  PROVE  MovingOf(rs) = [to |-> rs[i].target, from |-> rs[i].from]
<1> DEFINE c == CHOOSE j \in 1 .. Len(rs) : rs[j].status = "running"
<1>1. c \in 1 .. Len(rs) /\ rs[c].status = "running"  OBVIOUS
<1>2. c = i  BY <1>1 DEF OneRuns
<1> QED BY <1>2 DEF MovingOf

LEMMA MovingNone ==
  ASSUME NEW rs, NoneRuns(rs)
  PROVE  MovingOf(rs) = Contract!Idle
BY DEF MovingOf, NoneRuns, Contract!Idle, Control

Mapped == [f \in Flag |-> Moving(f)]

LEMMA InitRefines == Init => Contract!Init
<1> SUFFICES ASSUME Init PROVE Contract!Init  OBVIOUS
<1>1. \A f \in Flag : NoneRuns(rel[f])  BY DEF Init, NoneRuns
<1>2. \A f \in Flag : Moving(f) = Contract!Idle  BY <1>1, MovingNone, MovingIs
<1> QED BY <1>2 DEF Init, Contract!Init, Control

\* A step that changes neither the releases nor what is served.
LEMMA Stutters ==
  ASSUME UNCHANGED <<rel, served>>
  PROVE  UNCHANGED Contract!contractVars
<1>1. \A f \in Flag : Moving(f)' = Moving(f)  BY MovingIs
<1> QED BY <1>1 DEF Contract!contractVars

LEMMA AppliedRefines ==
  ASSUME IInv, ContractInv, NEW n \in Handler, pc[n] = "patch", Applied(n)
  PROVE  Contract!Next
<1> DEFINE t == plan[n].target
<1>1. PICK f \in Flag : f = Here(n).flag  BY HereType DEF Evaluating, IInv
<1>2. NoneRuns(rel[f]) /\ plan[n].from = served[f] /\ t > served[f]  BY <1>1 DEF ContractInv, FlagOK
<1>3. served[f] \in Version /\ t \in Version  BY <1>1 DEF IInv, WorldTypes, RequestInv, RequestTypes, Plan
<1>4. t \in 1 .. MaxVersion  BY <1>2, <1>3, MaxVersionAssumption DEF Version
<1>5. Moving(f) = Contract!Idle  BY <1>2, MovingNone, MovingIs
<1>6. CASE StartRelease(n) /\ UNCHANGED served
  <2> DEFINE l == Len(rel[f]) + 1
  <2>1. /\ l \in Nat /\ Len(rel'[f]) = l /\ \A g \in Flag : g # f => rel'[g] = rel[g]
        /\ \A j \in 1 .. Len(rel[f]) : rel'[f][j] = rel[f][j]
        /\ rel'[f][l].target = t /\ rel'[f][l].from = plan[n].from /\ rel'[f][l].status = "running"
    BY <1>1, <1>6, Starting DEF Evaluating
  <2> HIDE DEF t
  <2>2. \A j \in 1 .. l : j \in 1 .. Len(rel[f]) \/ j = l  BY <2>1
  <2>3. \A j \in 1 .. l : rel'[f][j].status = "running" => j = l  BY <1>2, <2>1, <2>2 DEF NoneRuns
  <2>4. OneRuns(rel'[f]) /\ l \in 1 .. Len(rel'[f])  BY <2>1, <2>3 DEF OneRuns
  <2>5. Moving(f)' = [to |-> t, from |-> served[f]]  BY <1>2, <2>1, <2>4, MovingRuns, MovingIs
  <2>6. \A g \in Flag : g # f => Moving(g)' = Moving(g)  BY <2>1, MovingIs
  <2>7. Mapped' = [Mapped EXCEPT ![f] = [to |-> t, from |-> served[f]]] /\ Mapped[f] = Contract!Idle
    BY <1>1, <1>5, <2>5, <2>6 DEF Mapped
  <2>8. Contract!Start(f, t)  BY <1>2, <1>6, <2>7 DEF Contract!Start, Mapped
  <2> QED BY <1>1, <1>4, <2>8 DEF Contract!Next
<1>7. CASE MoveFallthrough(n)
  <2>1. \A g \in Flag : Moving(g)' = Moving(g)  BY <1>7, MovingIs DEF MoveFallthrough
  <2>2. Contract!MoveNow(f, t)
    BY <1>1, <1>2, <1>5, <1>7, <2>1 DEF MoveFallthrough, Contract!MoveNow
  <2> QED BY <1>1, <1>4, <2>2 DEF Contract!Next
<1> QED BY <1>6, <1>7 DEF Applied, StartRelease

LEMMA LaunchDarklyRefines ==
  ASSUME IInv, ContractInv, NEW f \in Flag, NEW i \in 1 .. Len(rel[f]), LaunchDarkly(f, i)
  PROVE  Contract!Next \/ UNCHANGED Contract!contractVars
<1> DEFINE m == [to |-> rel[f][i].target, from |-> rel[f][i].from]
<1>1. /\ rel[f][i] \in Release /\ rel[f][i].target > rel[f][i].from
  BY DEF IInv, WorldTypes, ContractInv, Forward
<1>2. m # Contract!Idle
  BY <1>1, MaxVersionAssumption DEF Contract!Idle, Release, Version
<1>3. rel[f][i].status = "running" => Moving(f) = m
  BY MovingIs, MovingRuns DEF ContractInv
<1>4. CASE Settle(f, i)
  <2>1. EntryChanges(f, i) /\ rel'[f][i].status = rel[f][i].status  BY <1>4, SettleChanges DEF IInv
  <2>2. ASSUME NEW g \in Flag PROVE Moving(g)' = Moving(g)
    <3>1. OneRuns(rel[g]) /\ OneRuns(rel'[g])
      <4>1. Len(rel'[g]) = Len(rel[g]) /\ \A j \in 1 .. Len(rel[g]) : rel'[g][j].status = rel[g][j].status
        BY <2>1 DEF EntryChanges
      <4>2. OneRuns(rel[g])  BY DEF ContractInv
      <4> QED BY <4>1, <4>2 DEF OneRuns
    <3>2. CASE NoneRuns(rel[g])
      <4>1. NoneRuns(rel'[g])  BY <2>1, <3>2 DEF NoneRuns, EntryChanges
      <4> QED BY <3>2, <4>1, MovingNone, MovingIs
    <3>3. CASE ~NoneRuns(rel[g])
      <4>1. PICK j \in 1 .. Len(rel[g]) : rel[g][j].status = "running"  BY <3>3 DEF NoneRuns
      <4>2. /\ j \in 1 .. Len(rel'[g]) /\ rel'[g][j].status = "running"
            /\ rel'[g][j].target = rel[g][j].target /\ rel'[g][j].from = rel[g][j].from
        BY <2>1, <4>1 DEF EntryChanges
      <4>3. MovingOf(rel[g]) = [to |-> rel[g][j].target, from |-> rel[g][j].from]
        BY <3>1, <4>1, MovingRuns
      <4>4. MovingOf(rel'[g]) = [to |-> rel'[g][j].target, from |-> rel'[g][j].from]
        BY <3>1, <4>2, MovingRuns
      <4> QED BY <4>2, <4>3, <4>4, MovingIs
    <3> QED BY <3>2, <3>3
  <2> QED BY <1>4, <2>2 DEF Settle, Contract!contractVars
<1>5. CASE Ramp(f, i)
  <2>1. \A g \in Flag : Moving(g)' = Moving(g)  BY <1>5, MovingIs DEF Ramp
  <2>2. Mapped' = Mapped /\ Mapped[f] = m  BY <1>3, <1>5, <2>1 DEF Ramp, Running, Mapped
  <2>3. Mapped[f] # Contract!Idle /\ served' = [served EXCEPT ![f] = Mapped[f].to]
    BY <1>2, <1>5, <2>2 DEF Ramp, Serve
  <2>4. Contract!Ramp(f)
    BY <2>2, <2>3 DEF Contract!Ramp, Mapped
  <2> QED BY <2>4 DEF Contract!Next
<1>6. ASSUME NEW status \in {"completed", "reverted", "monitoring_stopped"}, SetStatus(f, i, status),
             rel[f][i].status = "running",
             NEW v \in {rel[f][i].target, rel[f][i].from, served[f]}, served' = [served EXCEPT ![f] = v]
      PROVE  Contract!Next
  <2>1. EntryChanges(f, i) /\ rel'[f][i].status = status  BY <1>6, StatusChanges DEF IInv, Status
  <2>2. NoneRuns(rel'[f])
    BY <1>6, <2>1 DEF EntryChanges, NoneRuns, OneRuns, ContractInv
  <2>3. Moving(f)' = Contract!Idle  BY <2>2, MovingNone, MovingIs
  <2>4. \A g \in Flag : g # f => rel'[g] = rel[g]  BY <1>6 DEF SetStatus, IInv, WorldTypes
  <2>5. \A g \in Flag : g # f => Moving(g)' = Moving(g)  BY <2>4, MovingIs
  <2>6. Mapped' = [Mapped EXCEPT ![f] = Contract!Idle] /\ Mapped[f] = m
    BY <1>3, <1>6, <2>3, <2>5 DEF Mapped
  <2>7. Contract!End(f, v)  BY <1>2, <1>6, <2>6 DEF Contract!End, Mapped
  <2>8. v \in 0 .. MaxVersion  BY <1>1 DEF Release, Version, IInv, WorldTypes
  <2> QED BY <2>7, <2>8 DEF Contract!Next
<1>7. CASE Complete(f, i)  BY <1>6, <1>7 DEF Complete, Serve, Running
<1>8. CASE Revert(f, i)  BY <1>6, <1>8 DEF Revert, Serve, Running
<1>9. CASE StopMonitoring(f, i)
  <2>1. served' = [served EXCEPT ![f] = served[f]]  BY <1>9 DEF StopMonitoring, IInv, WorldTypes
  <2> QED BY <1>6, <1>9, <2>1 DEF StopMonitoring, Running
<1> QED BY <1>4, <1>5, <1>7, <1>8, <1>9 DEF LaunchDarkly

LEMMA NextRefines ==
  ASSUME "human" \notin Fault, IInv, ContractInv, [Next]_vars
  PROVE  [Contract!Next]_Contract!contractVars
<1>1. CASE UNCHANGED <<rel, served>>
  BY <1>1, Stutters
<1>2. CASE \E n \in Handler : pc[n] = "patch" /\ Applied(n)
  BY <1>2, AppliedRefines
<1>3. CASE \E f \in Flag : \E i \in 1 .. Len(rel[f]) : LaunchDarkly(f, i)
  BY <1>3, LaunchDarklyRefines
<1>4. ASSUME NEW n \in Handler, Step(n)
      PROVE  UNCHANGED <<rel, served>> \/ (pc[n] = "patch" /\ Applied(n))
  BY <1>4 DEF Step, Discover, DiscoveryFails, RecordFails, Pick, LedgerHistory, Scope, Guard, RepeatHistory,
              Read, PatchAccepted, PatchThrows, PatchRefused, Fold, FoldFails, ld
<1>5. CASE \E f \in Flag, v \in Version : HumanServes(f, v)
  BY <1>5 DEF HumanServes, Spend
<1> QED BY <1>1, <1>2, <1>3, <1>4, <1>5 DEF Next, Receive, Crash, Deploy, vars, ld

\* While requests are answered one at a time, the releases listing settles in
\* between and nobody serves a variation by hand, Beacon implements the release
\* contract: no second release of a flag is started beside one, none goes back,
\* whatever is redelivered, lost, refused, rolled back or interrupted by a crash.
THEOREM Refinement ==
  ASSUME OneAtATime, PromptListing, "human" \notin Fault
  PROVE  Spec => ImplementsContract
<1>1. Init => ContractInv  BY InitContract
<1>2. IInv /\ IInv' /\ ContractInv /\ [Next]_vars => ContractInv'  BY NextContract
<1>3. Spec => [](IInv /\ ContractInv)  BY <1>1, <1>2, Invariance, PTL DEF Spec
<1>4. Init => Contract!Init  BY InitRefines
<1>5. IInv /\ ContractInv /\ [Next]_vars => [Contract!Next]_Contract!contractVars  BY NextRefines
<1> QED BY <1>3, <1>4, <1>5, PTL DEF Spec, ImplementsContract, Contract!Spec

=============================================================================
