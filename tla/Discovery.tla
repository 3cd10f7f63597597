------------------------------ MODULE Discovery ------------------------------
(***************************************************************************)
(* The discovery init containers (scripts/aibom-scripts/generate_snapshot.py)*)
(* of the pods of one workload.  Each writes what it found into the data   *)
(* ConfigMap, signed if the namespace's key is mounted, and must let the   *)
(* pod start whatever goes wrong (_run_stage).  A payload is the number of *)
(* the execution that made it: the kubelet may run an init container again.*)
(***************************************************************************)
EXTENDS Absent, Integers

CONSTANTS
  Pods,
  MaxExecutions    \* bound: executions of a pod's init container

ASSUME DiscoveryAssumption == MaxExecutions \in Nat \ {0}

VARIABLES
  snap,    \* each init container: its program counter and variables
  data,    \* the data ConfigMap: each pod's entries
  isvc,    \* "present" or "absent": the InferenceService of the pods
  key,     \* "mounted" or "missing": the signing key
  faults   \* bound: how many calls may still fail, or processes die

discoveryVars == <<snap, data, isvc, key>>

\* What an init container knows.  memory: "read", or "unread" if the command
\* failed and its value is the text "Not available".
NoSnap == [pc |-> "collect", run |-> 1, memory |-> "read", cm |-> "none",
           sig |-> 0, storage |-> "none", files |-> "none", storSig |-> 0]
Snapped == [NoSnap EXCEPT !.pc = "done", !.run = MaxExecutions]
NoEntry == [disc |-> 0, sig |-> 0, memory |-> "read",
            stor |-> 0, storSig |-> 0]
Entered(k) == [NoEntry EXCEPT !.disc = MaxExecutions,
                              !.sig = IF k = "mounted" THEN MaxExecutions ELSE 0]

Fault == faults > 0 /\ faults' = faults - 1

\* Mutant: the init container waits for a stage that does not end.
Stage_Hang(p, from, to, result, nothing) ==
  /\ snap[p].pc = from
  /\ \/ snap' = [snap EXCEPT ![p] = [result EXCEPT !.pc = to]] /\ UNCHANGED faults
     \/ snap' = [snap EXCEPT ![p] = [nothing EXCEPT !.pc = "hung"]] /\ Fault

\* _run_stage: a stage has a result, or raises or exceeds its deadline and
\* has none; the next one follows either way.
Stage(p, from, to, result, nothing) ==
  /\ snap[p].pc = from
  /\ \/ snap' = [snap EXCEPT ![p] = [result EXCEPT !.pc = to]] /\ UNCHANGED faults
     \/ snap' = [snap EXCEPT ![p] = [nothing EXCEPT !.pc = to]] /\ Fault

\* The facts about the node, each by a command that may fail; and the copy on
\* disk, which nothing depends on.
Snapshot(p) ==
  /\ Stage(p, "collect", "name", snap[p], [snap[p] EXCEPT !.memory = "unread"])
  /\ UNCHANGED <<data, isvc, key>>

ResolveName(p) ==
  /\ Stage(p, "name", "sign", [snap[p] EXCEPT !.cm = "known"], snap[p])
  /\ UNCHANGED <<data, isvc, key>>

sign_payload(p) == IF key = "mounted" THEN snap[p].run ELSE 0

Sign(p) ==
  /\ snap[p].pc = "sign"
  /\ snap' = [snap EXCEPT ![p].pc = "storage", ![p].sig = sign_payload(p)]
  /\ UNCHANGED <<data, isvc, key, faults>>

resolve_inference_service_storage(p) ==
  /\ Stage(p, "storage", "files",
           [snap[p] EXCEPT !.storage = IF isvc = "present" THEN "found" ELSE @],
           snap[p])
  /\ UNCHANGED <<data, isvc, key>>

\* The metadata of a model on a volume, which may have none.
read_model_source_files(p) ==
  /\ \E found \in {"none", "found"} :
       Stage(p, "files", "signStorage", [snap[p] EXCEPT !.files = found], snap[p])
  /\ UNCHANGED <<data, isvc, key>>

HasStorage(p) == snap[p].storage = "found" \/ snap[p].files = "found"

SignStorage(p) ==
  /\ snap[p].pc = "signStorage"
  /\ snap' = [snap EXCEPT ![p].pc = "write",
       ![p].storSig = IF HasStorage(p) THEN sign_payload(p) ELSE 0]
  /\ UNCHANGED <<data, isvc, key, faults>>

\* Mutant: the signatures are patched only when the payload is not there yet.
Updates_FirstSignature(p) ==
  [data[p] EXCEPT !.disc = snap[p].run, !.memory = snap[p].memory,
     !.sig = IF @ = 0 THEN snap[p].sig ELSE @]

\* data_updates: a merge patch leaves the keys alone that it does not name.
Updates(p) ==
  [data[p] EXCEPT !.disc = snap[p].run, !.memory = snap[p].memory,
     !.sig  = IF snap[p].sig = 0 THEN @ ELSE snap[p].sig,
     !.stor = IF HasStorage(p) THEN snap[p].run ELSE @,
     !.storSig = IF snap[p].storSig = 0 THEN @ ELSE snap[p].storSig]

\* patch_configmap (its requests are DatasetSidecar's); one that fails or
\* exceeds the deadline may have taken effect.
Write(p) ==
  /\ \/ /\ snap[p].cm = "known"
        /\ Stage(p, "write", "done", snap[p], snap[p])
        /\ \/ data' = [data EXCEPT ![p] = Updates(p)]
           \/ faults' # faults /\ UNCHANGED data
     \/ /\ snap[p].cm = "none" /\ snap[p].pc = "write"
        /\ snap' = [snap EXCEPT ![p].pc = "done"]
        /\ UNCHANGED <<data, faults>>
  /\ UNCHANGED <<isvc, key>>

DiscoveryStep(p) ==
  \/ Snapshot(p) \/ ResolveName(p) \/ Sign(p)
  \/ resolve_inference_service_storage(p) \/ read_model_source_files(p)
  \/ SignStorage(p) \/ Write(p)

\* The pod's sandbox is made anew and the init container runs again.
Again(p) ==
  /\ snap[p].pc = "done" /\ snap[p].run < MaxExecutions
  /\ snap' = [snap EXCEPT ![p] = [NoSnap EXCEPT !.run = snap[p].run + 1]]
  /\ UNCHANGED <<data, isvc, key, faults>>

DeleteService ==
  /\ isvc = "present" /\ isvc' = "absent"
  /\ UNCHANGED <<snap, data, key, faults>>

\* The chart that brings the key is installed; the key does not change.
KeyAppears ==
  /\ key = "missing" /\ key' = "mounted"
  /\ UNCHANGED <<snap, data, isvc, faults>>

\* The watcher's check of an entry: with a key, only a signed one counts.
Verified(p) == data[p].disc # 0 /\ (key = "mounted" => data[p].sig = data[p].disc)

=============================================================================
