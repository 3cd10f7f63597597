--------------------------- MODULE DiscoveryProofs ---------------------------
(***************************************************************************)
(* The signatures in the data ConfigMap stay those of the payloads beside  *)
(* them, for any number of pods, executions and faults.                    *)
(***************************************************************************)
EXTENDS Postprocess, TLAPS

\* The executions of an init container.
Runs == 1 .. MaxExecutions
Snaps ==
  [pc : SnapPCs, run : Runs, memory : {"read", "unread"},
   cm : {"none", "known"}, sig : Nat, storage : {"none", "found"},
   files : {"none", "found"}, storSig : Nat]
DataEntries ==
  [disc : Runs \cup {0}, sig : Nat, memory : {"read", "unread"}, stor : Nat,
   storSig : Nat]

DiscoveryTypeOK ==
  /\ snap \in [Pods -> Snaps] /\ data \in [Pods -> DataEntries]
  /\ key \in {"mounted", "missing"}

\* What a process has signed, if anything, is its own payload; it has signed
\* if something of an earlier execution is signed, as the key stays.
SnapSigned(p) ==
  /\ snap[p].pc \in {"storage", "files", "signStorage", "write"} =>
       snap[p].sig = snap[p].run \/ (snap[p].sig = 0 /\ data[p].sig = 0)
  /\ snap[p].pc = "write" /\ HasStorage(p) =>
       snap[p].storSig = snap[p].run
       \/ (snap[p].storSig = 0 /\ data[p].storSig = 0)
  /\ snap[p].pc = "write" /\ ~HasStorage(p) => snap[p].storSig = 0
  /\ snap[p].sig # 0 \/ snap[p].storSig # 0 => key = "mounted"

DataSigned(p) ==
  /\ data[p].sig \in {0, data[p].disc} /\ data[p].storSig \in {0, data[p].stor}
  /\ data[p].sig # 0 \/ data[p].storSig # 0 => key = "mounted"

SignedInv ==
  DiscoveryTypeOK /\ \A p \in Pods : SnapSigned(p) /\ DataSigned(p)

-----------------------------------------------------------------------------
LEMMA RunsAre ==
  /\ Runs \subseteq Nat \ {0} /\ 1 \in Runs /\ MaxExecutions \in Runs
  /\ \A r \in Runs : r < MaxExecutions => r + 1 \in Runs
BY DiscoveryAssumption DEF Runs

LEMMA SignedInit == Init => SignedInv
<1> SUFFICES ASSUME Init PROVE SignedInv
  OBVIOUS
<1>1. key \in {"mounted", "missing"} /\ key = input.key
  BY PostprocessAssumption DEF Init, InputOK
<1>2. /\ NoSnap \in Snaps /\ Snapped \in Snaps
      /\ NoSnap.pc = "collect" /\ Snapped.pc = "done"
      /\ NoSnap.sig = 0 /\ NoSnap.storSig = 0
      /\ Snapped.sig = 0 /\ Snapped.storSig = 0
  <2>1. /\ NoSnap \in Snaps /\ NoSnap.pc = "collect"
        /\ NoSnap.sig = 0 /\ NoSnap.storSig = 0
    BY RunsAre DEF NoSnap, Snaps, SnapPCs
  <2>2. /\ Snapped \in Snaps /\ Snapped.pc = "done"
        /\ Snapped.sig = NoSnap.sig /\ Snapped.storSig = NoSnap.storSig
    BY <2>1, RunsAre DEF Snapped, Snaps, SnapPCs
  <2> QED
    BY <2>1, <2>2
<1>3. NoEntry \in DataEntries /\ Entered(key) \in DataEntries
  BY RunsAre, DiscoveryAssumption DEF NoEntry, Entered, DataEntries
<1>4. DiscoveryTypeOK
  BY <1>1, <1>2, <1>3 DEF Init, DiscoveryTypeOK
<1>5. ASSUME NEW p \in Pods PROVE SnapSigned(p) /\ DataSigned(p)
  <2>1. /\ snap[p].sig = 0 /\ snap[p].storSig = 0
        /\ snap[p].pc \in {"collect", "done"}
    BY <1>2 DEF Init
  <2>2. /\ data[p].storSig = 0 /\ data[p].stor = 0
        /\ data[p].sig \in {0, data[p].disc}
        /\ data[p].sig # 0 => key = "mounted"
    BY <1>1, <1>3, DiscoveryAssumption DEF Init, NoEntry, Entered
  <2> QED
    BY <2>1, <2>2 DEF SnapSigned, DataSigned
<1> QED
  BY <1>4, <1>5 DEF SignedInv

\* A stage between the signatures leaves them alone.
LEMMA StageKeeps ==
  ASSUME SignedInv, NEW p \in Pods, NEW s \in Snaps,
         snap' = [snap EXCEPT ![p] = s], UNCHANGED <<data, key>>,
         s.run = snap[p].run, s.sig = snap[p].sig, s.storSig = snap[p].storSig,
         s.pc \in {"name", "sign", "files", "signStorage", "done"},
         s.pc \in {"files", "signStorage"} => snap[p].pc \in {"storage", "files"}
  PROVE  SignedInv'
<1>1. DiscoveryTypeOK'
  BY DEF SignedInv, DiscoveryTypeOK
<1>2. snap'[p] = s /\ \A q \in Pods : q # p => snap'[q] = snap[q]
  BY DEF SignedInv, DiscoveryTypeOK
<1>3. \A q \in Pods : DataSigned(q)'
  BY DEF SignedInv, DataSigned
<1>4. SnapSigned(p)'
  BY <1>2 DEF SignedInv, SnapSigned
<1>5. ASSUME NEW q \in Pods, q # p PROVE SnapSigned(q)'
  BY <1>2, <1>5 DEF SignedInv, SnapSigned, HasStorage
<1> QED
  BY <1>1, <1>3, <1>4, <1>5 DEF SignedInv

\* The record that _run_stage leaves.
LEMMA StageResult ==
  ASSUME NEW p, NEW from, NEW to \in SnapPCs,
         NEW result \in Snaps, NEW nothing \in Snaps,
         Stage(p, from, to, result, nothing)
  PROVE  /\ snap[p].pc = from
         /\ \E s \in Snaps :
              /\ snap' = [snap EXCEPT ![p] = s] /\ s.pc = to
              /\ \E r \in {result, nothing} :
                   s.run = r.run /\ s.sig = r.sig /\ s.storSig = r.storSig
<1> DEFINE A == [result EXCEPT !.pc = to]
           B == [nothing EXCEPT !.pc = to]
<1>1. /\ A \in Snaps /\ A.pc = to /\ A.run = result.run /\ A.sig = result.sig
      /\ A.storSig = result.storSig
  BY DEF Snaps
<1>2. /\ B \in Snaps /\ B.pc = to /\ B.run = nothing.run /\ B.sig = nothing.sig
      /\ B.storSig = nothing.storSig
  BY DEF Snaps
<1>3. /\ snap[p].pc = from
      /\ snap' = [snap EXCEPT ![p] = A] \/ snap' = [snap EXCEPT ![p] = B]
  BY DEF Stage
<1> HIDE DEF A, B
<1> QED
  BY <1>1, <1>2, <1>3

-----------------------------------------------------------------------------
(* The stages *)

LEMMA SnapshotStep ==
  ASSUME SignedInv, NEW p \in Pods,
         \/ Snapshot(p) \/ ResolveName(p)
         \/ resolve_inference_service_storage(p) \/ read_model_source_files(p)
  PROVE  SignedInv'
<1>1. snap[p] \in Snaps /\ UNCHANGED <<data, key>>
  BY DEF SignedInv, DiscoveryTypeOK, Snapshot, ResolveName,
         resolve_inference_service_storage, read_model_source_files
<1>2. PICK from, to \in SnapPCs, result, nothing \in Snaps :
        /\ Stage(p, from, to, result, nothing)
        /\ \A r \in {result, nothing} : r.run = snap[p].run
             /\ r.sig = snap[p].sig /\ r.storSig = snap[p].storSig
        /\ to \in {"name", "sign", "files", "signStorage"}
        /\ to \in {"files", "signStorage"} => from \in {"storage", "files"}
  <2>1. CASE Snapshot(p)
    BY <1>1, <2>1 DEF Snapshot, Snaps, SnapPCs
  <2>2. CASE ResolveName(p)
    BY <1>1, <2>2 DEF ResolveName, Snaps, SnapPCs
  <2>3. CASE resolve_inference_service_storage(p)
    BY <1>1, <2>3 DEF resolve_inference_service_storage, Snaps, SnapPCs
  <2>4. CASE read_model_source_files(p)
    BY <1>1, <2>4 DEF read_model_source_files, Snaps, SnapPCs
  <2> QED
    BY <2>1, <2>2, <2>3, <2>4
<1>3. snap[p].pc = from
  BY <1>2, StageResult
<1>4. PICK s \in Snaps :
        /\ snap' = [snap EXCEPT ![p] = s] /\ s.pc = to
        /\ s.run = snap[p].run /\ s.sig = snap[p].sig /\ s.storSig = snap[p].storSig
  BY <1>2, StageResult
<1> QED
  BY <1>1, <1>2, <1>3, <1>4, StageKeeps

\* The two signatures: a process that finds an older one signs too.
LEMMA SignEntryStep ==
  ASSUME SignedInv, NEW p \in Pods, Sign(p) \/ SignStorage(p)
  PROVE  SignedInv'
<1>1. /\ snap[p] \in Snaps /\ UNCHANGED <<data, key>>
      /\ sign_payload(p) \in {0, snap[p].run}
      /\ sign_payload(p) = 0 => key # "mounted"
      /\ sign_payload(p) # 0 => key = "mounted"
  BY RunsAre DEF SignedInv, DiscoveryTypeOK, Sign, SignStorage, sign_payload, Snaps
<1>0. snap[p].run \in Nat
  <2>1. snap[p].run \in Runs
    BY <1>1 DEF Snaps
  <2> QED
    BY <2>1, RunsAre
<1>2. SnapSigned(p) /\ DataSigned(p)
  BY DEF SignedInv
<1>3. CASE Sign(p)
  <2> DEFINE signed == sign_payload(p)
             s == [snap[p] EXCEPT !.pc = "storage", !.sig = signed]
  <2>1. snap' = [snap EXCEPT ![p] = s]
    BY <1>3 DEF Sign, SignedInv, DiscoveryTypeOK
  <2>0. /\ s \in Snaps /\ s.pc = "storage" /\ s.sig = signed
        /\ s.run = snap[p].run /\ s.storSig = snap[p].storSig
    <3>1. signed \in Nat
      BY <1>0, <1>1
    <3> HIDE DEF signed
    <3> QED
      BY <1>1, <3>1 DEF Snaps, SnapPCs
  <2> HIDE DEF s
  <2>2. /\ snap'[p] \in Snaps /\ snap' \in [Pods -> Snaps]
        /\ snap'[p].pc = "storage" /\ snap'[p].sig = sign_payload(p)
        /\ snap'[p].run = snap[p].run /\ snap'[p].storSig = snap[p].storSig
        /\ \A q \in Pods : q # p => snap'[q] = snap[q]
    BY <2>0, <2>1 DEF SignedInv, DiscoveryTypeOK
  <2>3. SnapSigned(p)'
    BY <1>1, <1>2, <2>2 DEF SnapSigned, DataSigned
  <2>4. \A q \in Pods : DataSigned(q)' /\ (q # p => SnapSigned(q)')
    BY <1>1, <2>2 DEF SignedInv, SnapSigned, DataSigned, HasStorage
  <2> QED
    BY <1>1, <2>2, <2>3, <2>4 DEF SignedInv, DiscoveryTypeOK
<1>4. CASE SignStorage(p)
  <2> DEFINE signed == IF HasStorage(p) THEN sign_payload(p) ELSE 0
             s == [snap[p] EXCEPT !.pc = "write", !.storSig = signed]
  <2>1. snap' = [snap EXCEPT ![p] = s] /\ snap[p].pc = "signStorage"
    BY <1>4 DEF SignStorage, SignedInv, DiscoveryTypeOK
  <2>0. /\ s \in Snaps /\ s.pc = "write" /\ s.storSig = signed
        /\ s.run = snap[p].run /\ s.sig = snap[p].sig
        /\ s.storage = snap[p].storage /\ s.files = snap[p].files
    <3>1. signed \in Nat
      BY <1>0, <1>1
    <3> HIDE DEF signed
    <3> QED
      BY <1>1, <3>1 DEF Snaps, SnapPCs
  <2> HIDE DEF s
  <2>2. /\ snap'[p] \in Snaps /\ snap' \in [Pods -> Snaps]
        /\ snap'[p].pc = "write" /\ snap'[p].storSig = signed
        /\ snap'[p].run = snap[p].run /\ snap'[p].sig = snap[p].sig
        /\ snap'[p].storage = snap[p].storage /\ snap'[p].files = snap[p].files
        /\ \A q \in Pods : q # p => snap'[q] = snap[q]
    BY <2>0, <2>1 DEF SignedInv, DiscoveryTypeOK
  <2>3. SnapSigned(p)'
    BY <1>1, <1>2, <2>1, <2>2 DEF SnapSigned, DataSigned, HasStorage
  <2>4. \A q \in Pods : DataSigned(q)' /\ (q # p => SnapSigned(q)')
    BY <1>1, <2>2 DEF SignedInv, SnapSigned, DataSigned, HasStorage
  <2> QED
    BY <1>1, <2>2, <2>3, <2>4 DEF SignedInv, DiscoveryTypeOK
<1> QED
  BY <1>3, <1>4

\* The patch replaces a signature whenever it replaces its payload.
LEMMA WriteStep ==
  ASSUME SignedInv, NEW p \in Pods, Write(p)
  PROVE  SignedInv'
<1>1. snap[p] \in Snaps /\ data[p] \in DataEntries /\ snap[p].pc = "write"
  BY DEF SignedInv, DiscoveryTypeOK, Write, Stage
<1>2. SnapSigned(p) /\ DataSigned(p)
  BY DEF SignedInv
<1>3. PICK s \in Snaps :
        /\ snap' = [snap EXCEPT ![p] = s] /\ s.pc = "done"
        /\ s.run = snap[p].run /\ s.sig = snap[p].sig /\ s.storSig = snap[p].storSig
  <2>1. CASE Stage(p, "write", "done", snap[p], snap[p])
    <3>1. snap' = [snap EXCEPT ![p] = [snap[p] EXCEPT !.pc = "done"]]
      BY <2>1 DEF Stage
    <3>2. [snap[p] EXCEPT !.pc = "done"] \in Snaps
      BY <1>1 DEF Snaps, SnapPCs
    <3> QED
      BY <1>1, <3>1, <3>2 DEF Snaps
  <2>2. CASE snap' = [snap EXCEPT ![p].pc = "done"]
    <3>1. snap' = [snap EXCEPT ![p] = [snap[p] EXCEPT !.pc = "done"]]
      BY <2>2 DEF SignedInv, DiscoveryTypeOK
    <3>2. [snap[p] EXCEPT !.pc = "done"] \in Snaps
      BY <1>1 DEF Snaps, SnapPCs
    <3> QED
      BY <1>1, <3>1, <3>2 DEF Snaps
  <2> QED
    BY <2>1, <2>2 DEF Write
<1>4. key' = key
  BY DEF Write
<1>5. CASE UNCHANGED data
  BY <1>3, <1>4, <1>5, StageKeeps
<1>6. CASE data' = [data EXCEPT ![p] = Updates(p)]
  <2>1. /\ Updates(p) \in DataEntries
        /\ Updates(p).disc = snap[p].run
        /\ Updates(p).sig = IF snap[p].sig = 0 THEN data[p].sig ELSE snap[p].sig
        /\ Updates(p).stor = IF HasStorage(p) THEN snap[p].run ELSE data[p].stor
        /\ Updates(p).storSig = IF snap[p].storSig = 0 THEN data[p].storSig
                                ELSE snap[p].storSig
    BY <1>1, RunsAre DEF Updates, DataEntries, Snaps
  <2>2. /\ data' \in [Pods -> DataEntries] /\ data'[p] = Updates(p)
        /\ \A q \in Pods : q # p => data'[q] = data[q]
    BY <1>6, <2>1 DEF SignedInv, DiscoveryTypeOK
  <2>3. /\ snap' \in [Pods -> Snaps] /\ snap'[p] = s
        /\ \A q \in Pods : q # p => snap'[q] = snap[q]
    BY <1>3 DEF SignedInv, DiscoveryTypeOK
  <2>4. SnapSigned(p)'
    BY <1>2, <1>3, <1>4, <2>3 DEF SnapSigned
  <2>5. DataSigned(p)'
    <3>3. snap[p].run # 0
      BY <1>1, RunsAre DEF Snaps
    <3>0. /\ snap[p].sig = snap[p].run \/ (snap[p].sig = 0 /\ data[p].sig = 0)
          /\ HasStorage(p) => snap[p].storSig = snap[p].run
                              \/ (snap[p].storSig = 0 /\ data[p].storSig = 0)
          /\ ~HasStorage(p) => snap[p].storSig = 0
          /\ snap[p].sig # 0 \/ snap[p].storSig # 0 => key = "mounted"
          /\ data[p].storSig \in {0, data[p].stor}
          /\ data[p].sig # 0 \/ data[p].storSig # 0 => key = "mounted"
      BY <1>1, <1>2, Zenon DEF SnapSigned, DataSigned
    <3>1. /\ data'[p].sig \in {0, data'[p].disc}
          /\ data'[p].sig # 0 => key = "mounted"
      BY <2>1, <2>2, <3>0, <3>3
    <3>2. /\ data'[p].storSig \in {0, data'[p].stor}
          /\ data'[p].storSig # 0 => key = "mounted"
      <4>1. CASE HasStorage(p)
        BY <2>1, <2>2, <3>0, <3>3, <4>1
      <4>2. CASE ~HasStorage(p)
        BY <2>1, <2>2, <3>0, <4>2
      <4> QED
        BY <4>1, <4>2
    <3> QED
      BY <1>4, <3>1, <3>2 DEF DataSigned
  <2>6. ASSUME NEW q \in Pods, q # p PROVE SnapSigned(q)' /\ DataSigned(q)'
    BY <1>4, <2>2, <2>3, <2>6 DEF SignedInv, SnapSigned, DataSigned, HasStorage
  <2> QED
    BY <1>4, <2>2, <2>3, <2>4, <2>5, <2>6 DEF SignedInv, DiscoveryTypeOK
<1> QED
  BY <1>5, <1>6 DEF Write

\* A new execution has signed nothing.
LEMMA AgainStep ==
  ASSUME SignedInv, NEW p \in Pods, Again(p)
  PROVE  SignedInv'
<1> DEFINE s == [NoSnap EXCEPT !.run = snap[p].run + 1]
<1>1. snap' = [snap EXCEPT ![p] = s] /\ UNCHANGED <<data, key>> /\ snap[p] \in Snaps
  BY DEF Again, SignedInv, DiscoveryTypeOK
<1>2. NoSnap \in Snaps /\ NoSnap.pc = "collect" /\ NoSnap.sig = 0 /\ NoSnap.storSig = 0
  BY RunsAre DEF NoSnap, Snaps, SnapPCs
<1>3. s \in Snaps /\ s.pc = "collect" /\ s.sig = 0 /\ s.storSig = 0
  <2>1. snap[p].run + 1 \in Runs
    BY <1>1, RunsAre DEF Again, Snaps
  <2> QED
    BY <1>2, <2>1 DEF Snaps
<1> HIDE DEF s
<1>4. /\ snap' \in [Pods -> Snaps] /\ snap'[p] = s
      /\ \A q \in Pods : q # p => snap'[q] = snap[q]
  BY <1>1, <1>3 DEF SignedInv, DiscoveryTypeOK
<1>5. SnapSigned(p)'
  BY <1>3, <1>4 DEF SnapSigned
<1>6. \A q \in Pods : DataSigned(q)' /\ (q # p => SnapSigned(q)')
  BY <1>1, <1>4 DEF SignedInv, SnapSigned, DataSigned, HasStorage
<1> QED
  BY <1>1, <1>4, <1>5, <1>6 DEF SignedInv, DiscoveryTypeOK

LEMMA KeyStep == SignedInv /\ (DeleteService \/ KeyAppears) => SignedInv'
BY DEF SignedInv, DiscoveryTypeOK, SnapSigned, DataSigned, HasStorage,
       DeleteService, KeyAppears

LEMMA SignedNext == SignedInv /\ [Next]_vars => SignedInv'
<1> SUFFICES ASSUME SignedInv, [Next]_vars PROVE SignedInv'
  OBVIOUS
<1>1. CASE Workload
  BY <1>1, SnapshotStep, SignEntryStep, WriteStep, AgainStep, KeyStep
  DEF Workload, DiscoveryStep
<1>2. CASE UNCHANGED discoveryVars
  BY <1>2 DEF SignedInv, DiscoveryTypeOK, SnapSigned, DataSigned, HasStorage,
              discoveryVars
<1>3. Workload \/ UNCHANGED discoveryVars
  BY DEF Next, WorkloadEnds, RunStep, StartAttempt, Crash, Ingest, DeleteAibom,
         CollectSeries, Collect, Detect, SkipPod, BeginPod, Query, EndRound,
         EndLoop, BeginSeries, QuerySeries, Fit, Deliver, Compile, Publish,
         NoSeries, sign_aibom, PublishKey, CreateAibom, SetOwner, rest, vars
<1> QED
  BY <1>1, <1>2, <1>3

\* A signature in the data ConfigMap is that of the payload beside it, however
\* often an init container runs and whichever writes are lost
\* (generate_snapshot.py, data_updates).
THEOREM SignaturesMatch == Spec => []EntriesVerify
<1>1. SignedInv => EntriesVerify
  BY DEF SignedInv, DataSigned, EntriesVerify
<1> QED
  BY <1>1, SignedInit, SignedNext, PTL DEF Spec

=============================================================================
