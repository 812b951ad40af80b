---------------------------- MODULE BeaconProofs ----------------------------
(***************************************************************************)
(* What holds of Beacon for every number of services, manifests, flags,    *)
(* requests in flight, commits and misfortunes: it stays well typed, and   *)
(* a notification writes to a flag at most once.                           *)
(*                                                                         *)
(* Neither is inductive alone.  A ledger entry and a slot hold flag keys   *)
(* only because a manifest is evaluated only if it parsed and names a flag *)
(* (RequestOK), and at most one write per flag needs the slot to remember  *)
(* every write and to be free of the flag whose patch is on its way        *)
(* (SlotOK).  The invariant IInv is their conjunction.                     *)
(***************************************************************************)
EXTENDS Beacon, TLAPS

Evaluating(n) == pc[n] \in {"history", "scope", "guard", "repeat", "read", "patch"}

Wrote(n, m) == result[n][m] \in {"released", "unknown"}

\* Whatever a request evaluates, or has evaluated, is a manifest at its sha.
RequestOK(n) ==
  /\ pc[n] \in {"idle", "failed", "discover"} => todo[n] = {} /\ result[n] = NoResult
  /\ \A m \in todo[n] : IsManifest(FileAt(job[n].sha, m))
  /\ Evaluating(n) => cur[n] \in Manifest /\ IsManifest(Here(n))
  /\ \A m \in Manifest : result[n][m] \notin {"none", "unread", "skipped"} => IsManifest(FileAt(job[n].sha, m))

\* Every write has claimed its flag, and a flag past the guard is unclaimed.
SlotOK(n) ==
  /\ pc[n] \in {"repeat", "read", "patch"} => Here(n).flag \notin slot[n]
  /\ \A m \in Manifest : Wrote(n, m) => FileAt(job[n].sha, m).flag \in slot[n]
  /\ \A m, o \in Manifest :
        Wrote(n, m) /\ Wrote(n, o) /\ FileAt(job[n].sha, m).flag = FileAt(job[n].sha, o).flag => m = o

RequestInv == RequestTypes /\ \A n \in Handler : RequestOK(n) /\ SlotOK(n)

IInv == WorldTypes /\ StoreTypes /\ RequestInv

(***************************************************************************)
(* What the operators return.                                              *)
(***************************************************************************)
LEMMA FileType ==
  ASSUME WorldTypes, NEW sha \in 0 .. MaxSha, NEW m \in Manifest
  PROVE  FileAt(sha, m) \in File
BY BeaconAssumption DEF WorldTypes, FileAt, Sha, NoSha, File

LEMMA ManifestType ==
  ASSUME WorldTypes, NEW sha \in 0 .. MaxSha, NEW m \in Manifest, IsManifest(FileAt(sha, m))
  PROVE  FileAt(sha, m) \in ReleaseFile
BY FileType DEF IsManifest, File

LEMMA HereType ==
  ASSUME WorldTypes, RequestInv, NEW n \in Handler, Evaluating(n)
  PROVE  cur[n] \in Manifest /\ Here(n) \in ReleaseFile /\ Here(n).flag \in Flag
<1>1. cur[n] \in Manifest /\ IsManifest(Here(n))  BY DEF RequestInv, RequestOK
<1>2. job[n].sha \in 0 .. MaxSha  BY BeaconAssumption DEF RequestInv, RequestTypes, Job, Sha
<1>3. Here(n) \in ReleaseFile  BY <1>1, <1>2, ManifestType DEF Here
<1> QED BY <1>1, <1>3 DEF ReleaseFile

LEMMA TargetType ==
  ASSUME NEW file \in ReleaseFile, NEW tip \in Version, NEW s \in Version,
         TriggerDecision(file, tip, s) = "release"
  PROVE  ResolvedTarget(file, tip) \in Version
<1>1. ~MustHold(file, tip, s)  BY DEF TriggerDecision
<1>2. ResolvedTarget(file, tip) \in Target /\ ResolvedTarget(file, tip) <= tip
  BY <1>1, MaxVersionAssumption DEF MustHold, ResolvedTarget, ReleaseFile, Target, Version
<1> QED BY <1>2, MaxVersionAssumption DEF Target, Version

LEMMA NoJobType == NoJob \in Job
<1>1. (CHOOSE s \in Service : TRUE) \in Service  BY BeaconAssumption
<1> QED BY <1>1, BeaconAssumption DEF NoJob, Job, Sha, NoSha

LEMMA NoPlanType == NoPlan \in Plan
BY MaxVersionAssumption DEF NoPlan, Plan, Method, Control, Version

LEMMA MethodType ==
  ASSUME NEW file \in ReleaseFile, NEW kind \in PolicyKind, NEW answered \in BOOLEAN
  PROVE  ReleaseMethod(file, ReadPolicy(kind, answered)) \in Method
BY DEF ReleaseMethod, ReadPolicy, PolicyMethod, ReleaseFile, Method

LEMMA WindowType ==
  ASSUME NEW w \in Window, NEW sha \in Sha
  PROVE  Recorded(w, sha) \in Window
BY BeaconAssumption DEF Recorded, Window, Sha

LEMMA PreviousType ==
  ASSUME NEW w \in Window, NEW sha \in Sha, NEW explicit \in 0 .. MaxSha
  PROVE  PreviousSha(w, sha, explicit) \in 0 .. MaxSha /\ AlreadyProcessed(w, sha) \in BOOLEAN
BY DEF PreviousSha, AlreadyProcessed, Window

LEMMA SpendType ==
  ASSUME WorldTypes, NEW kind, Spend(kind)
  PROVE  faults' \in 0 .. MaxFaults
BY BeaconAssumption DEF WorldTypes, Spend

(***************************************************************************)
(* How one request moves on.                                               *)
(***************************************************************************)
Untouched(k) ==
  /\ pc'[k] = pc[k] /\ job'[k] = job[k] /\ todo'[k] = todo[k]
  /\ cur'[k] = cur[k] /\ slot'[k] = slot[k] /\ result'[k] = result[k]

LEMMA Frame ==
  ASSUME NEW k \in Handler, RequestOK(k), SlotOK(k), Untouched(k), UNCHANGED content
  PROVE  RequestOK(k)' /\ SlotOK(k)'
BY DEF RequestOK, SlotOK, Untouched, Evaluating, Wrote, Here, FileAt

LEMMA Finishing ==
  ASSUME WorldTypes, RequestInv, NEW n \in Handler, NEW o \in Outcome,
         Evaluating(n), Finish(n, o), o \notin {"none", "unread"},
         ClaimSlot(n) \/ UNCHANGED slot,
         o \in {"released", "unknown"} => ClaimSlot(n) /\ Here(n).flag \notin slot[n],
         UNCHANGED <<content, job, todo, fresh>>
  PROVE  RequestInv'
<1>1. cur[n] \in Manifest /\ IsManifest(Here(n)) /\ Here(n).flag \in Flag
  BY HereType DEF RequestInv, RequestOK
<1>2. RequestTypes'
  <2>1. plan' \in [Handler -> Plan]
    BY NoPlanType DEF RequestInv, RequestTypes, Finish
  <2>2. slot' \in [Handler -> SUBSET Flag]
    BY <1>1 DEF RequestInv, RequestTypes, ClaimSlot
  <2>3. result' \in [Handler -> [Manifest -> Outcome]]
    BY <1>1 DEF RequestInv, RequestTypes, Finish
  <2> QED BY <2>1, <2>2, <2>3 DEF RequestInv, RequestTypes, Finish, Goto, PC
<1>3. ASSUME NEW k \in Handler, k # n PROVE RequestOK(k)' /\ SlotOK(k)'
  BY <1>3, Frame DEF RequestInv, RequestTypes, Untouched, Finish, Goto, ClaimSlot
<1>4. /\ pc'[n] = "pick" /\ todo'[n] = todo[n] /\ job'[n] = job[n] /\ content' = content
      /\ result'[n] = [result[n] EXCEPT ![cur[n]] = o]
      /\ slot[n] \subseteq slot'[n]
      /\ ClaimSlot(n) => Here(n).flag \in slot'[n]
  BY DEF RequestInv, RequestTypes, Finish, Goto, ClaimSlot
<1>5. RequestOK(n)'
  BY <1>1, <1>4 DEF RequestInv, RequestTypes, RequestOK, Evaluating, Here, FileAt
<1>6. SlotOK(n)'
  <2>1. \A m \in Manifest : Wrote(n, m)' /\ m # cur[n] => Wrote(n, m) /\ FileAt(job[n].sha, m).flag \in slot[n]
    BY <1>1, <1>4 DEF RequestInv, RequestTypes, SlotOK, Wrote
  <2>2. result'[n][cur[n]] \in {"released", "unknown"} => ClaimSlot(n) /\ Here(n).flag \notin slot[n]
    BY <1>1, <1>4 DEF RequestInv, RequestTypes
  <2>3. \A m \in Manifest : Wrote(n, m)' => FileAt(job[n].sha, m).flag \in slot'[n]
    BY <1>4, <2>1, <2>2 DEF Here, Wrote
  <2>4. \A m, p \in Manifest :
           Wrote(n, m) /\ Wrote(n, p) /\ FileAt(job[n].sha, m).flag = FileAt(job[n].sha, p).flag => m = p
    BY DEF RequestInv, SlotOK
  <2>5. \A m, p \in Manifest :
           Wrote(n, m)' /\ Wrote(n, p)' /\ FileAt(job[n].sha, m).flag = FileAt(job[n].sha, p).flag => m = p
    <3> SUFFICES ASSUME NEW m \in Manifest, NEW p \in Manifest, Wrote(n, m)', Wrote(n, p)',
                        FileAt(job[n].sha, m).flag = FileAt(job[n].sha, p).flag
                 PROVE  m = p
      OBVIOUS
    <3>1. CASE m # cur[n] /\ p # cur[n]  BY <2>1, <2>4, <3>1
    <3>2. CASE m = cur[n] /\ p # cur[n]  BY <2>1, <2>2, <3>2 DEF Wrote, Here
    <3>3. CASE m # cur[n] /\ p = cur[n]  BY <2>1, <2>2, <3>3 DEF Wrote, Here
    <3> QED BY <3>1, <3>2, <3>3
  <2> QED BY <1>4, <2>3, <2>5 DEF SlotOK, FileAt, Wrote
<1> QED BY <1>2, <1>3, <1>5, <1>6 DEF RequestInv

LEMMA Continuing ==
  ASSUME WorldTypes, RequestInv, NEW n \in Handler, NEW label \in {"scope", "guard", "repeat", "read"},
         Evaluating(n), Continue(n, label),
         label \in {"repeat", "read"} => Here(n).flag \notin slot[n],
         UNCHANGED <<content, job, todo, fresh, slot>>
  PROVE  RequestInv'
<1>1. RequestTypes'
  BY DEF RequestInv, RequestTypes, Continue, Goto, PC
<1>2. ASSUME NEW k \in Handler, k # n PROVE RequestOK(k)' /\ SlotOK(k)'
  BY <1>2, Frame DEF RequestInv, RequestTypes, Untouched, Continue, Goto
<1>3. pc'[n] = label
  BY DEF RequestInv, RequestTypes, Continue, Goto
<1>4. RequestOK(n)'
  BY <1>3 DEF RequestInv, RequestOK, Continue, Evaluating, Here, FileAt
<1>5. SlotOK(n)'
  BY <1>3 DEF RequestInv, SlotOK, Continue, Wrote, Here, FileAt
<1> QED BY <1>1, <1>2, <1>4, <1>5 DEF RequestInv

LEMMA Closing ==
  ASSUME WorldTypes, RequestInv, NEW n \in Handler, NEW label \in {"idle", "failed"},
         Close(n, label), UNCHANGED content
  PROVE  RequestInv'
<1>1. RequestTypes'
  BY NoJobType, NoPlanType DEF RequestInv, RequestTypes, Close, Goto, PC, NoResult, Outcome
<1>2. ASSUME NEW k \in Handler, k # n PROVE RequestOK(k)' /\ SlotOK(k)'
  BY <1>2, Frame DEF RequestInv, RequestTypes, Untouched, Close, Goto
<1>3. /\ pc'[n] = label /\ todo'[n] = {} /\ result'[n] = NoResult
  BY DEF RequestInv, RequestTypes, Close, Goto
<1>4. RequestOK(n)' /\ SlotOK(n)'
  BY <1>3 DEF RequestOK, SlotOK, Evaluating, Wrote, NoResult
<1> QED BY <1>1, <1>2, <1>4 DEF RequestInv

LEMMA Standing ==
  ASSUME RequestInv, UNCHANGED <<request, content>>
  PROVE  RequestInv'
<1>1. RequestTypes'  BY DEF RequestInv, RequestTypes, request
<1>2. ASSUME NEW k \in Handler PROVE RequestOK(k)' /\ SlotOK(k)'
  BY Frame DEF RequestInv, Untouched, request
<1> QED BY <1>1, <1>2 DEF RequestInv

(***************************************************************************)
(* One lemma per action of a request.                                      *)
(***************************************************************************)
LEMMA ReceiveInv ==
  ASSUME IInv, NEW n \in Handler, NEW s \in Service, NEW sha \in Sha, NEW explicit \in 0 .. MaxSha,
         Receive(n, s, sha, explicit)
  PROVE  IInv'
<1> USE DEF IInv
<1>1. faults' \in 0 .. MaxFaults
  BY SpendType DEF Receive, WorldTypes
<1>2. WorldTypes' /\ StoreTypes'
  BY <1>1 DEF Receive, WorldTypes, StoreTypes, repo, ld, memory, disk
<1>3. store[s] \in Window  BY DEF StoreTypes
<1>4. [svc |-> s, sha |-> sha, prev |-> PreviousSha(store[s], sha, explicit),
       repeat |-> AlreadyProcessed(store[s], sha)] \in Job
  BY <1>3, PreviousType DEF Job
<1>5. RequestTypes'
  BY <1>4 DEF Receive, RequestInv, RequestTypes, Goto, PC
<1>6. ASSUME NEW k \in Handler, k # n PROVE RequestOK(k)' /\ SlotOK(k)'
  BY <1>6, Frame DEF RequestInv, RequestTypes, Untouched, Receive, Goto, repo
<1>7. todo[n] = {} /\ result[n] = NoResult
  BY DEF Receive, Free, RequestInv, RequestOK
<1>8. pc'[n] = "discover" /\ todo'[n] = {} /\ result'[n] = NoResult
  BY <1>7 DEF Receive, Goto, RequestInv, RequestTypes
<1>9. RequestOK(n)' /\ SlotOK(n)'
  BY <1>8 DEF RequestOK, SlotOK, Evaluating, Wrote, NoResult
<1> QED BY <1>2, <1>5, <1>6, <1>9 DEF RequestInv

LEMMA DiscoveryFailsInv ==
  ASSUME IInv, NEW n \in Handler, DiscoveryFails(n)
  PROVE  IInv'
<1> USE DEF IInv
<1>1. WorldTypes' /\ StoreTypes'
  BY SpendType DEF DiscoveryFails, WorldTypes, StoreTypes, repo, ld, memory, disk
<1>2. RequestInv'
  BY Closing DEF DiscoveryFails, repo
<1> QED BY <1>1, <1>2

LEMMA RecordType ==
  ASSUME StoreTypes, RequestTypes, NEW n \in Handler, RecordSha(n)
  PROVE  store' \in [Service -> Window]
<1>1. job[n].svc \in Service /\ job[n].sha \in Sha  BY DEF RequestTypes, Job
<1> QED BY <1>1, WindowType DEF StoreTypes, RecordSha

LEMMA DiscoverInv ==
  ASSUME IInv, NEW n \in Handler, NEW unread \in SUBSET Manifest, Discover(n, unread)
  PROVE  IInv'
<1> USE DEF IInv
<1> DEFINE sha     == job[n].sha
           found   == Discovered(sha, job[n].prev)
           pending == {m \in Manifest : ledger[job[n].svc][m] # NoFlag} \ found
           broken  == unread \union {m \in pending : FileAt(sha, m) = Malformed}
           known   == [m \in Manifest |-> IF m \in broken THEN "unread"
                                          ELSE IF m \in pending /\ ~IsManifest(FileAt(sha, m)) THEN "skipped"
                                          ELSE "none"]
           worth   == found \union {m \in pending \ broken : IsManifest(FileAt(sha, m))}
<1>1. faults' \in 0 .. MaxFaults
  BY SpendType DEF Discover, WorldTypes
<1>2. WorldTypes' /\ StoreTypes'
  BY <1>1, RecordType DEF Discover, WorldTypes, StoreTypes, RequestInv, repo, ld
<1>3. /\ pc' = [pc EXCEPT ![n] = "pick"] /\ fresh' = [fresh EXCEPT ![n] = found]
      /\ todo' = [todo EXCEPT ![n] = worth] /\ result' = [result EXCEPT ![n] = known]
      /\ UNCHANGED <<content, job, cur, plan, slot>>
  BY DEF Discover, Goto, repo
<1>4. found \subseteq Manifest /\ worth \subseteq Manifest /\ \A m \in worth : IsManifest(FileAt(sha, m))
  BY DEF Discovered
<1>5. known \in [Manifest -> Outcome] /\ \A m \in Manifest : known[m] \in {"none", "unread", "skipped"}
  BY DEF Outcome
<1> HIDE DEF sha, found, pending, broken, known, worth
<1>6. RequestTypes'
  BY <1>3, <1>4, <1>5 DEF RequestInv, RequestTypes, PC
<1>7. ASSUME NEW k \in Handler, k # n PROVE RequestOK(k)' /\ SlotOK(k)'
  BY <1>3, <1>7, Frame DEF RequestInv, RequestTypes, Untouched
<1>8. pc'[n] = "pick" /\ todo'[n] = worth /\ result'[n] = known
  BY <1>3 DEF RequestInv, RequestTypes
<1>9. RequestOK(n)' /\ SlotOK(n)'
  BY <1>3, <1>4, <1>5, <1>8 DEF RequestOK, SlotOK, Evaluating, Wrote, FileAt, sha
<1> QED BY <1>2, <1>6, <1>7, <1>9 DEF RequestInv

LEMMA RecordFailsInv ==
  ASSUME IInv, NEW n \in Handler, RecordFails(n)
  PROVE  IInv'
<1> USE DEF IInv
<1>1. WorldTypes' /\ StoreTypes'
  BY SpendType, RecordType DEF RecordFails, RequestInv, WorldTypes, StoreTypes, repo, ld, disk
<1>2. RequestInv'
  BY Closing DEF RecordFails, repo
<1> QED BY <1>1, <1>2

LEMMA PickInv ==
  ASSUME IInv, NEW n \in Handler, NEW m \in Manifest, Pick(n, m)
  PROVE  IInv'
<1> USE DEF IInv
<1>1. WorldTypes' /\ StoreTypes'
  BY DEF Pick, WorldTypes, StoreTypes, repo, ld, memory, disk
<1>2. RequestTypes'
  BY DEF Pick, Goto, PC, RequestInv, RequestTypes
<1>3. ASSUME NEW k \in Handler, k # n PROVE RequestOK(k)' /\ SlotOK(k)'
  BY <1>3, Frame DEF RequestInv, RequestTypes, Untouched, Pick, Goto, repo
<1>4. /\ pc'[n] \in {"scope", "history"} /\ cur'[n] = m /\ todo'[n] = todo[n] \ {m}
      /\ UNCHANGED <<job, result, slot, content>> /\ m \in todo[n]
  BY DEF Pick, Goto, RequestInv, RequestTypes, repo
<1>5. RequestOK(n)'
  BY <1>4 DEF RequestInv, RequestOK, Evaluating, Here, FileAt
<1>6. SlotOK(n)'
  BY <1>4 DEF RequestInv, SlotOK, Wrote, FileAt
<1> QED BY <1>1, <1>2, <1>3, <1>5, <1>6 DEF RequestInv

\* The four steps that ask a question: an outcome, or on to the next question.
LEMMA LedgerHistoryInv ==
  ASSUME IInv, NEW n \in Handler, LedgerHistory(n)
  PROVE  IInv'
<1> USE DEF IInv
<1>1. WorldTypes' /\ StoreTypes'
  BY SpendType DEF LedgerHistory, WorldTypes, StoreTypes, repo, ld, memory, disk
<1>2. Evaluating(n) /\ UNCHANGED <<content, job, todo, fresh, slot>>
  BY DEF LedgerHistory, Evaluating, repo
<1>3. Finish(n, "error") \/ Continue(n, "scope")
  BY DEF LedgerHistory
<1>4. RequestInv'
  BY <1>2, <1>3, Finishing, Continuing DEF Outcome
<1> QED BY <1>1, <1>4

LEMMA ScopeInv ==
  ASSUME IInv, NEW n \in Handler, NEW down \in SUBSET Service, Scope(n, down)
  PROVE  IInv'
<1> USE DEF IInv
<1>1. WorldTypes' /\ StoreTypes'
  BY SpendType DEF Scope, WorldTypes, StoreTypes, repo, ld, memory, disk
<1>2. Evaluating(n) /\ UNCHANGED <<content, job, todo, fresh, slot>>
  BY DEF Scope, Evaluating, repo
<1>3. Finish(n, "skipped") \/ Finish(n, "error") \/ Finish(n, "waiting") \/ Continue(n, "guard")
  BY DEF Scope
<1>4. RequestInv'
  BY <1>2, <1>3, Finishing, Continuing DEF Outcome
<1> QED BY <1>1, <1>4

LEMMA GuardInv ==
  ASSUME IInv, NEW n \in Handler, Guard(n)
  PROVE  IInv'
<1> USE DEF IInv
<1>1. WorldTypes' /\ StoreTypes'
  BY SpendType DEF Guard, WorldTypes, StoreTypes, repo, ld, memory, disk
<1>2. Evaluating(n) /\ UNCHANGED <<content, job, todo, fresh, slot>>
  BY DEF Guard, Evaluating, repo
<1>3. \/ Finish(n, "held") \/ Finish(n, "error") \/ Finish(n, "already_running")
      \/ Here(n).flag \notin slot[n] /\ (Continue(n, "repeat") \/ Continue(n, "read"))
  BY DEF Guard
<1>4. RequestInv'
  BY <1>2, <1>3, Finishing, Continuing DEF Outcome
<1> QED BY <1>1, <1>4

LEMMA RepeatHistoryInv ==
  ASSUME IInv, NEW n \in Handler, RepeatHistory(n)
  PROVE  IInv'
<1> USE DEF IInv
<1>1. WorldTypes' /\ StoreTypes'
  BY SpendType DEF RepeatHistory, WorldTypes, StoreTypes, repo, ld, memory, disk
<1>2. Evaluating(n) /\ UNCHANGED <<content, job, todo, fresh, slot>>
  BY DEF RepeatHistory, Evaluating, repo
<1>3. Here(n).flag \notin slot[n]
  BY DEF RepeatHistory, RequestInv, SlotOK
<1>4. Finish(n, "error") \/ Continue(n, "read")
  BY DEF RepeatHistory
<1>5. RequestInv'
  BY <1>2, <1>3, <1>4, Finishing, Continuing DEF Outcome
<1> QED BY <1>1, <1>5

LEMMA PlanReleaseInv ==
  ASSUME IInv, NEW n \in Handler, NEW answered \in BOOLEAN, pc[n] = "read", PlanRelease(n, answered),
         TriggerDecision(Here(n), TipOf[Here(n).flag], served[Here(n).flag]) = "release",
         UNCHANGED <<content, job, todo, fresh, cur, result, slot>>
  PROVE  RequestInv'
<1> USE DEF IInv
<1> DEFINE file   == Here(n)
           target == ResolvedTarget(file, TipOf[file.flag])
           method == ReleaseMethod(file, ReadPolicy(Policy[file.flag], answered))
<1>1. Evaluating(n) /\ Here(n).flag \notin slot[n]
  BY DEF Evaluating, RequestInv, SlotOK
<1>2. file \in ReleaseFile /\ file.flag \in Flag
  BY <1>1, HereType
<1>3. TipOf[file.flag] \in Version /\ served[file.flag] \in Version /\ Policy[file.flag] \in PolicyKind
  BY <1>2, BeaconAssumption DEF WorldTypes
<1>4. target \in Version
  BY <1>2, <1>3, TargetType
<1>5. method \in Method
  BY <1>2, <1>3, MethodType
<1>6. plan' = [plan EXCEPT ![n] = [target |-> target, from |-> served[file.flag], method |-> method]]
  BY DEF PlanRelease
<1> HIDE DEF file, target, method
<1>7. RequestTypes'
  BY <1>3, <1>4, <1>5, <1>6 DEF PlanRelease, RequestInv, RequestTypes, Plan, Goto, PC
<1>8. ASSUME NEW k \in Handler, k # n PROVE RequestOK(k)' /\ SlotOK(k)'
  BY <1>8, Frame DEF PlanRelease, RequestInv, RequestTypes, Untouched, Goto
<1>9. pc'[n] = "patch"
  BY DEF PlanRelease, Goto, RequestInv, RequestTypes
<1>10. RequestOK(n)'
  BY <1>1, <1>9 DEF RequestInv, RequestOK, Evaluating, Here, FileAt
<1>11. SlotOK(n)'
  BY <1>1, <1>9 DEF RequestInv, SlotOK, Wrote, Here, FileAt
<1> QED BY <1>7, <1>8, <1>10, <1>11 DEF RequestInv

LEMMA ReadInv ==
  ASSUME IInv, NEW n \in Handler, Read(n)
  PROVE  IInv'
<1> USE DEF IInv
<1>1. WorldTypes' /\ StoreTypes'
  BY SpendType DEF Read, WorldTypes, StoreTypes, repo, ld, memory, disk
<1>2. /\ Evaluating(n) /\ UNCHANGED <<content, job, todo, fresh>> /\ Here(n).flag \notin slot[n]
      /\ pc[n] = "read"
  BY DEF Read, Evaluating, RequestInv, SlotOK, repo
<1>3. \/ Finish(n, "unknown") /\ ClaimSlot(n)
      \/ (Finish(n, "held") \/ Finish(n, "noop")) /\ UNCHANGED slot
      \/ /\ TriggerDecision(Here(n), TipOf[Here(n).flag], served[Here(n).flag]) = "release"
         /\ PlanRelease(n, TRUE) \/ PlanRelease(n, FALSE)
         /\ UNCHANGED <<cur, result, slot>>
  BY DEF Read
<1>4. CASE Finish(n, "unknown") /\ ClaimSlot(n)
  <2>1. RequestInv'  BY <1>2, <1>4, Finishing DEF Outcome
  <2> QED BY <1>1, <2>1
<1>5. CASE (Finish(n, "held") \/ Finish(n, "noop")) /\ UNCHANGED slot
  <2>1. RequestInv'  BY <1>2, <1>5, Finishing DEF Outcome
  <2> QED BY <1>1, <2>1
<1>6. CASE /\ TriggerDecision(Here(n), TipOf[Here(n).flag], served[Here(n).flag]) = "release"
           /\ PlanRelease(n, TRUE) \/ PlanRelease(n, FALSE)
           /\ UNCHANGED <<cur, result, slot>>
  <2>1. RequestInv'  BY <1>2, <1>6, PlanReleaseInv
  <2> QED BY <1>1, <2>1
<1> QED BY <1>3, <1>4, <1>5, <1>6

LEMMA AppliedType ==
  ASSUME IInv, NEW n \in Handler, Evaluating(n), Applied(n)
  PROVE  /\ served' \in [Flag -> Version] /\ reached' \in [Flag -> Version]
         /\ rel' \in [Flag -> Seq(Release)]
<1> USE DEF IInv
<1>1. cur[n] \in Manifest /\ Here(n).flag \in Flag
  BY HereType
<1>2. plan[n].target \in Version /\ plan[n].from \in Version
  BY DEF RequestInv, RequestTypes, Plan
<1>3. [target |-> plan[n].target, from |-> plan[n].from, status |-> "running", seen |-> FALSE, by |-> cur[n]]
         \in Release
  BY <1>1, <1>2 DEF Release, Status
<1>4. rel[Here(n).flag] \in Seq(Release)
  BY <1>1 DEF WorldTypes
<1>5. Append(rel[Here(n).flag], [target |-> plan[n].target, from |-> plan[n].from, status |-> "running",
                                 seen |-> FALSE, by |-> cur[n]]) \in Seq(Release)
  BY <1>3, <1>4
<1> QED BY <1>1, <1>2, <1>5 DEF Applied, StartRelease, MoveFallthrough, WorldTypes

LEMMA PatchAcceptedInv ==
  ASSUME IInv, NEW n \in Handler, PatchAccepted(n)
  PROVE  IInv'
<1> USE DEF IInv
<1>1. Evaluating(n) /\ UNCHANGED <<content, job, todo, fresh>> /\ Here(n).flag \notin slot[n]
  BY DEF PatchAccepted, Evaluating, RequestInv, SlotOK, repo
<1>2. WorldTypes' /\ StoreTypes'
  BY <1>1, AppliedType DEF PatchAccepted, WorldTypes, StoreTypes, repo, memory, disk
<1>3. RequestInv'
  BY <1>1, Finishing DEF PatchAccepted, Outcome
<1> QED BY <1>2, <1>3

LEMMA PatchThrowsInv ==
  ASSUME IInv, NEW n \in Handler, PatchThrows(n)
  PROVE  IInv'
<1> USE DEF IInv
<1>1. Evaluating(n) /\ UNCHANGED <<content, job, todo, fresh>> /\ Here(n).flag \notin slot[n]
  BY DEF PatchThrows, Evaluating, RequestInv, SlotOK, repo
<1>2. WorldTypes' /\ StoreTypes'
  BY <1>1, AppliedType, SpendType DEF PatchThrows, WorldTypes, StoreTypes, repo, ld, memory, disk
<1>3. RequestInv'
  BY <1>1, Finishing DEF PatchThrows, Outcome
<1> QED BY <1>2, <1>3

LEMMA PatchRefusedInv ==
  ASSUME IInv, NEW n \in Handler, PatchRefused(n)
  PROVE  IInv'
<1> USE DEF IInv
<1>1. Evaluating(n) /\ UNCHANGED <<content, job, todo, fresh>>
  BY DEF PatchRefused, Evaluating, repo
<1>2. WorldTypes' /\ StoreTypes'
  BY SpendType DEF PatchRefused, WorldTypes, StoreTypes, repo, ld, memory, disk
<1>3. Finish(n, "held") /\ (ClaimSlot(n) \/ UNCHANGED slot)
  BY DEF PatchRefused, HeldOnContentRefusal
<1>4. RequestInv'
  BY <1>1, <1>3, Finishing DEF Outcome
<1> QED BY <1>2, <1>4

LEMMA FoldedType ==
  ASSUME IInv, NEW n \in Handler, NEW done \in SUBSET Manifest
  PROVE  Folded(n, done) \in Ledger
<1> USE DEF IInv
<1>1. job[n].svc \in Service /\ job[n].sha \in 0 .. MaxSha
  BY BeaconAssumption DEF RequestInv, RequestTypes, Job, Sha
<1>2. ledger[job[n].svc] \in [Manifest -> Flag \union {NoFlag}]
  BY <1>1 DEF StoreTypes, Ledger
<1>3. ASSUME NEW m \in Manifest, result[n][m] # "none", result[n][m] # "unread",
             result[n][m] \in PendingOutcomes
      PROVE  FileAt(job[n].sha, m).flag \in Flag
  <2>1. IsManifest(FileAt(job[n].sha, m))
    BY <1>3 DEF RequestInv, RequestOK, PendingOutcomes
  <2> QED BY <1>1, <2>1, ManifestType DEF ReleaseFile
<1> QED BY <1>1, <1>2, <1>3 DEF Folded, Ledger, StoreTypes

LEMMA FoldInv ==
  ASSUME IInv, NEW n \in Handler, Fold(n)
  PROVE  IInv'
<1> USE DEF IInv
<1>1. ledger' \in Ledger /\ ledgerFile' \in Ledger
  BY FoldedType DEF Fold
<1>2. job[n].svc \in Service /\ job[n].sha \in 0 .. MaxSha
  BY BeaconAssumption DEF RequestInv, RequestTypes, Job, Sha
<1>3. WorldTypes' /\ StoreTypes'
  BY <1>1, <1>2 DEF Fold, WorldTypes, StoreTypes, repo, ld
<1>4. RequestInv'
  BY Closing DEF Fold, repo
<1> QED BY <1>3, <1>4

LEMMA FoldFailsInv ==
  ASSUME IInv, NEW n \in Handler, NEW done \in SUBSET Manifest, NEW m \in Manifest, FoldFails(n, done, m)
  PROVE  IInv'
<1> USE DEF IInv
<1>1. ledger' \in Ledger
  <2>1. done \union {m} \in SUBSET Manifest  OBVIOUS
  <2> QED BY <2>1, FoldedType DEF FoldFails
<1>2. ledgerFile' \in Ledger
  BY FoldedType DEF FoldFails, StoreTypes
<1>3. WorldTypes' /\ StoreTypes'
  BY <1>1, <1>2, SpendType DEF FoldFails, WorldTypes, StoreTypes, repo, ld
<1>4. RequestInv'
  BY Closing DEF FoldFails, repo
<1> QED BY <1>3, <1>4

LEMMA CrashInv == ASSUME IInv, Crash PROVE IInv'
<1> USE DEF IInv
<1>1. WorldTypes' /\ StoreTypes'
  BY SpendType DEF Crash, Load, WorldTypes, StoreTypes, repo, ld, disk
<1>2. RequestTypes'
  BY NoJobType, NoPlanType DEF Crash, RequestTypes, PC, NoResult, Outcome
<1>3. ASSUME NEW k \in Handler PROVE RequestOK(k)' /\ SlotOK(k)'
  BY DEF Crash, RequestOK, SlotOK, Evaluating, Wrote, NoResult
<1> QED BY <1>1, <1>2, <1>3 DEF RequestInv

(***************************************************************************)
(* The environment touches no request.                                     *)
(***************************************************************************)
LEMMA DeployInv ==
  ASSUME IInv, NEW s \in Service, NEW sha \in Sha, Deploy(s, sha)
  PROVE  IInv'
<1> USE DEF IInv
<1>1. WorldTypes' /\ StoreTypes'
  BY SpendType, BeaconAssumption DEF Deploy, WorldTypes, StoreTypes, ld, memory, disk, Sha, NoSha
<1>2. RequestInv'
  BY Standing DEF Deploy
<1> QED BY <1>1, <1>2

LEMMA StatusType ==
  ASSUME WorldTypes, NEW f \in Flag, NEW i \in 1 .. Len(rel[f]), NEW status \in Status
  PROVE  /\ [rel EXCEPT ![f][i].status = status] \in [Flag -> Seq(Release)]
         /\ [rel EXCEPT ![f][i].seen = TRUE] \in [Flag -> Seq(Release)]
         /\ rel[f][i].target \in Version /\ rel[f][i].from \in Version
<1>1. rel[f] \in Seq(Release) /\ rel[f][i] \in Release
  BY DEF WorldTypes
<1>2. [rel[f][i] EXCEPT !.status = status] \in Release /\ [rel[f][i] EXCEPT !.seen = TRUE] \in Release
  BY <1>1 DEF Release
<1>3. /\ [rel[f] EXCEPT ![i] = [rel[f][i] EXCEPT !.status = status]] \in Seq(Release)
      /\ [rel[f] EXCEPT ![i] = [rel[f][i] EXCEPT !.seen = TRUE]] \in Seq(Release)
  BY <1>1, <1>2
<1> QED BY <1>1, <1>3 DEF WorldTypes, Release

LEMMA LaunchDarklyInv ==
  ASSUME IInv, NEW f \in Flag, NEW i \in 1 .. Len(rel[f]), LaunchDarkly(f, i)
  PROVE  IInv'
<1> USE DEF IInv
<1>1. UNCHANGED <<repo, memory, disk, request, handled>> /\ (UNCHANGED faults \/ faults' \in 0 .. MaxFaults)
  BY SpendType DEF LaunchDarkly, Settle, Ramp, Complete, Revert, StopMonitoring
<1>2. rel' \in [Flag -> Seq(Release)]
  <2>1. CASE Settle(f, i)          BY <2>1, StatusType DEF Settle, Status
  <2>2. CASE Ramp(f, i)            BY <2>2 DEF Ramp, WorldTypes
  <2>3. CASE Complete(f, i)        BY <2>3, StatusType DEF Complete, SetStatus, Status
  <2>4. CASE Revert(f, i)          BY <2>4, StatusType DEF Revert, SetStatus, Status
  <2>5. CASE StopMonitoring(f, i)  BY <2>5, StatusType DEF StopMonitoring, SetStatus, Status
  <2> QED BY <2>1, <2>2, <2>3, <2>4, <2>5 DEF LaunchDarkly
<1>3. served' \in [Flag -> Version] /\ reached' \in [Flag -> Version]
  BY StatusType DEF LaunchDarkly, Settle, Ramp, Complete, Revert, StopMonitoring, Serve, Status, WorldTypes
<1>4. WorldTypes' /\ StoreTypes'
  BY <1>1, <1>2, <1>3 DEF WorldTypes, StoreTypes, repo, memory, disk
<1>5. RequestInv'
  BY <1>1, Standing DEF repo
<1> QED BY <1>4, <1>5

LEMMA HumanServesInv ==
  ASSUME IInv, NEW f \in Flag, NEW v \in Version, HumanServes(f, v)
  PROVE  IInv'
<1> USE DEF IInv
<1>1. WorldTypes' /\ StoreTypes'
  BY SpendType DEF HumanServes, Serve, WorldTypes, StoreTypes, repo, memory, disk
<1>2. RequestInv'
  BY Standing DEF HumanServes, repo
<1> QED BY <1>1, <1>2

(***************************************************************************)
(* The invariant.                                                          *)
(***************************************************************************)
LEMMA InitInv == Init => IInv
<1> SUFFICES ASSUME Init PROVE IInv  OBVIOUS
<1>1. WorldTypes
  BY BeaconAssumption, MaxVersionAssumption DEF Init, WorldTypes, Sha, NoSha, Control, Version
<1>2. StoreTypes
  BY BeaconAssumption DEF Init, StoreTypes, EmptyWindow, Window, NoSha, EmptyLedger, Ledger
<1>3. RequestTypes
  BY NoJobType, NoPlanType DEF Init, RequestTypes, PC, NoResult, Outcome
<1>4. ASSUME NEW k \in Handler PROVE RequestOK(k) /\ SlotOK(k)
  BY DEF Init, RequestOK, SlotOK, Evaluating, Wrote, NoResult
<1> QED BY <1>1, <1>2, <1>3, <1>4 DEF IInv, RequestInv

LEMMA StepInv == ASSUME IInv, NEW n \in Handler, Step(n) PROVE IInv'
BY DiscoverInv, DiscoveryFailsInv, RecordFailsInv, PickInv, LedgerHistoryInv, ScopeInv, GuardInv,
   RepeatHistoryInv, ReadInv, PatchAcceptedInv, PatchThrowsInv, PatchRefusedInv, FoldInv, FoldFailsInv
DEF Step

LEMMA NextInv == IInv /\ [Next]_vars => IInv'
<1> SUFFICES ASSUME IInv, [Next]_vars PROVE IInv'  OBVIOUS
<1>1. CASE UNCHANGED vars
  <2>1. WorldTypes' /\ StoreTypes'
    BY <1>1 DEF IInv, vars, WorldTypes, StoreTypes, repo, ld, memory, disk
  <2>2. RequestInv'
    BY <1>1, Standing DEF IInv, vars, repo
  <2> QED BY <2>1, <2>2 DEF IInv
<1>2. CASE \E n \in Handler, s \in Service, sha \in Sha, explicit \in 0 .. MaxSha : Receive(n, s, sha, explicit)
  BY <1>2, ReceiveInv
<1>3. CASE \E n \in Handler : Step(n)
  BY <1>3, StepInv
<1>4. CASE Crash
  BY <1>4, CrashInv
<1>5. CASE \E s \in Service, sha \in Sha : Deploy(s, sha)
  BY <1>5, DeployInv
<1>6. CASE \E f \in Flag : \E i \in 1 .. Len(rel[f]) : LaunchDarkly(f, i)
  BY <1>6, LaunchDarklyInv
<1>7. CASE \E f \in Flag, v \in Version : HumanServes(f, v)
  BY <1>7, HumanServesInv
<1> QED BY <1>1, <1>2, <1>3, <1>4, <1>5, <1>6, <1>7 DEF Next

THEOREM Invariance == Spec => []IInv
BY InitInv, NextInv, PTL DEF Spec

\* Beacon stays well typed: in particular a slot only ever holds flag keys, and
\* whatever a fold writes into the ledger names a flag.
THEOREM Typing == Spec => []TypeOK
<1>1. IInv => TypeOK  BY DEF IInv, RequestInv, TypeOK
<1> QED BY <1>1, Invariance, PTL

\* At most one manifest per flag writes in one notification: for any number of
\* manifests, requests and services, and whatever the releases listing says.
THEOREM OneWrite == Spec => []OneWritePerFlag
<1>1. IInv => OneWritePerFlag
  BY DEF IInv, RequestInv, SlotOK, OneWritePerFlag, Wrote
<1> QED BY <1>1, Invariance, PTL
=============================================================================
