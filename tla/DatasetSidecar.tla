--------------------------- MODULE DatasetSidecar ---------------------------
(***************************************************************************)
(* The dataset sidecars (scripts/aibom-scripts/dataset_sidecar.py) of the  *)
(* pods of one workload, which publish the pods' output files into the     *)
(* workload's data ConfigMap (k8s_api.py, patch_configmap).  The files are *)
(* the ones OutputFile describes; every write gives a file a new           *)
(* modification time.                                                      *)
(***************************************************************************)
EXTENDS Integers

CONSTANTS
  Pods,
  Items,        \* what the training processes can detect
  FINAL_PUBLISH_ATTEMPTS,
  MaxWrites,    \* bound: writes of each file
  MaxFaults,    \* bound: requests that fail
  MaxDeletes    \* bound: deletions of the data ConfigMap

ASSUME SidecarAssumption ==
  /\ FINAL_PUBLISH_ATTEMPTS \in Nat \ {0}
  /\ MaxWrites \in [Pods -> Nat]
  /\ MaxFaults \in Nat /\ MaxDeletes \in Nat

VARIABLES
  listed,     \* what each pod's file lists
  mtime,      \* its modification time; 0 if there is no file
  exited,     \* pods whose main containers have exited
  configMap,  \* "present" or "absent": the data ConfigMap
  keys,       \* its entry of each pod
  shutdown,   \* pods whose sidecar got SIGTERM
  pc,
  last,       \* last_mtime
  seen,       \* the modification time of this pass
  payload,    \* what this pass read
  attempt,    \* attempts of _publish_final made; 0 in the polling loop
  gaveUp,     \* pods whose sidecar used up the attempts
  stored,     \* history: what each sidecar last knew to be published
  faults, deletes

pods  == <<listed, mtime, exited>>
cm    == <<configMap, keys>>
local == <<last, seen, payload, attempt, gaveUp, stored>>
vars  == <<pods, cm, shutdown, pc, local, faults, deletes>>

Requests == {"patch", "create", "patchAgain"}
PCs == {"loop", "stat", "read", "passed", "done"} \cup Requests

\* The variables have their types.
TypeOK ==
  /\ listed \in [Pods -> SUBSET Items] /\ mtime \in [Pods -> Nat]
  /\ exited \in SUBSET Pods /\ shutdown \in SUBSET Pods
  /\ configMap \in {"present", "absent"} /\ keys \in [Pods -> SUBSET Items]
  /\ pc \in [Pods -> PCs]
  /\ last \in [Pods -> Nat] /\ seen \in [Pods -> Nat]
  /\ payload \in [Pods -> SUBSET Items] /\ stored \in [Pods -> SUBSET Items]
  /\ attempt \in [Pods -> Nat] /\ gaveUp \in SUBSET Pods
  /\ faults \in Nat /\ deletes \in Nat

File(p) == INSTANCE OutputFile WITH listed <- listed[p]

-----------------------------------------------------------------------------
(* The pods and the watcher *)

\* A training process replaces the file, as OutputFile allows.
Write(p) ==
  /\ p \notin exited /\ mtime[p] < MaxWrites[p]
  /\ \E new \in SUBSET Items : listed' = [listed EXCEPT ![p] = new]
  /\ File(p)!Write
  /\ mtime' = [mtime EXCEPT ![p] = @ + 1]
  /\ UNCHANGED <<exited, cm, shutdown, pc, local, faults, deletes>>

Exit(p) ==
  /\ p \notin exited /\ exited' = exited \cup {p}
  /\ UNCHANGED <<listed, mtime, cm, shutdown, pc, local, faults, deletes>>

\* A sidecar gets SIGTERM after the main containers have exited.
Sigterm(p) ==
  /\ p \in exited \ shutdown /\ shutdown' = shutdown \cup {p}
  /\ UNCHANGED <<pods, cm, pc, local, faults, deletes>>

\* The watcher's deleteWorkloadData.
DeleteConfigMap ==
  /\ configMap = "present" /\ configMap' = "absent"
  /\ keys' = [p \in Pods |-> {}]
  /\ deletes < MaxDeletes /\ deletes' = deletes + 1
  /\ UNCHANGED <<pods, shutdown, pc, local, faults>>

-----------------------------------------------------------------------------
(* main and _publish_final *)

Goto(p, from, to) == pc[p] = from /\ pc' = [pc EXCEPT ![p] = to]

\* The loop polls until SIGTERM; then the first final attempt begins.
Loop(p) ==
  /\ Goto(p, "loop", "stat")
  /\ attempt' = IF p \in shutdown THEN [attempt EXCEPT ![p] = 1] ELSE attempt
  /\ UNCHANGED <<pods, cm, shutdown, last, seen, payload, gaveUp, stored,
                 faults, deletes>>

\* The locals of _run_once end with it.
Forget(p) ==
  /\ seen' = [seen EXCEPT ![p] = 0]
  /\ payload' = [payload EXCEPT ![p] = {}]

\* Mutant: the final attempt is not repeated.
Passed_NoRetry(p) ==
  /\ Goto(p, "passed", IF attempt[p] = 0 THEN "loop" ELSE "done")
  /\ Forget(p)
  /\ UNCHANGED <<pods, cm, shutdown, last, attempt, gaveUp, stored, faults,
                 deletes>>

\* After a pass: wait and poll again, or look whether the file is published.
Passed(p) ==
  /\ \/ /\ attempt[p] = 0
        /\ Goto(p, "passed", "loop")
        /\ UNCHANGED <<attempt, gaveUp>>
     \/ /\ attempt[p] > 0 /\ mtime[p] \in {0, last[p]}
        /\ Goto(p, "passed", "done")
        /\ UNCHANGED <<attempt, gaveUp>>
     \/ /\ attempt[p] \in 1 .. FINAL_PUBLISH_ATTEMPTS - 1
        /\ mtime[p] \notin {0, last[p]}
        /\ Goto(p, "passed", "stat")
        /\ attempt' = [attempt EXCEPT ![p] = @ + 1] /\ UNCHANGED gaveUp
     \/ /\ attempt[p] >= FINAL_PUBLISH_ATTEMPTS /\ mtime[p] \notin {0, last[p]}
        /\ Goto(p, "passed", "done")
        /\ gaveUp' = gaveUp \cup {p} /\ UNCHANGED attempt
  /\ Forget(p)
  /\ UNCHANGED <<pods, cm, shutdown, last, stored, faults, deletes>>

-----------------------------------------------------------------------------
(* _run_once *)

Stat(p) ==
  /\ IF mtime[p] \in {0, last[p]} THEN Goto(p, "stat", "passed")
     ELSE Goto(p, "stat", "read")
  /\ seen' = [seen EXCEPT ![p] = mtime[p]]
  /\ UNCHANGED <<pods, cm, shutdown, last, payload, attempt, gaveUp, stored,
                 faults, deletes>>

\* The file may have been replaced since its modification time was read.
Read(p) ==
  /\ Goto(p, "read", "patch")
  /\ payload' = [payload EXCEPT ![p] = listed[p]]
  /\ UNCHANGED <<pods, cm, shutdown, last, seen, attempt, gaveUp, stored,
                 faults, deletes>>

Store(p) == keys' = [keys EXCEPT ![p] = payload[p]]

\* Mutant: the time recorded is the file's at the end of the pass.
Succeed_Restat(p) ==
  /\ last' = [last EXCEPT ![p] = mtime[p]]
  /\ stored' = [stored EXCEPT ![p] = payload[p]]
  /\ UNCHANGED <<seen, payload, attempt, gaveUp, faults>>

\* patch_configmap returned: the pass returns the time it began with.
Succeed(p) ==
  /\ last' = [last EXCEPT ![p] = seen[p]]
  /\ stored' = [stored EXCEPT ![p] = payload[p]]
  /\ UNCHANGED <<seen, payload, attempt, gaveUp, faults>>

\* It raised; last_mtime is not advanced.
Raise == UNCHANGED local

Fault == faults < MaxFaults /\ faults' = faults + 1

\* A merge patch of the pod's own keys; 404 if there is no ConfigMap.
PatchFrom(p, from, missing) ==
  \/ /\ configMap = "present" /\ Goto(p, from, "passed")
     /\ Store(p) /\ Succeed(p) /\ UNCHANGED configMap
  \/ /\ configMap = "absent" /\ Goto(p, from, missing)
     /\ UNCHANGED cm /\ Raise /\ UNCHANGED faults
  \/ /\ Goto(p, from, "passed") /\ Fault /\ Raise
     /\ UNCHANGED configMap
     /\ UNCHANGED keys \/ (configMap = "present" /\ Store(p))

Patch(p) ==
  /\ PatchFrom(p, "patch", "create")
  /\ UNCHANGED <<pods, shutdown, deletes>>

\* The ConfigMap that one pod creates has only its keys.
StoreNew(p) ==
  /\ configMap' = "present"
  /\ keys' = [q \in Pods |-> IF q = p THEN payload[p] ELSE {}]

\* Mutant: the create replaces a ConfigMap that is there.
Create_Replace(p) ==
  /\ \/ /\ Goto(p, "create", "passed") /\ StoreNew(p) /\ Succeed(p)
     \/ /\ Goto(p, "create", "passed") /\ Fault /\ Raise
        /\ UNCHANGED cm
  /\ UNCHANGED <<pods, shutdown, deletes>>

\* The create fails with 409 when a sibling was faster.  It, too, may take
\* effect although it is reported as failed.
Create(p) ==
  /\ \/ /\ configMap = "absent" /\ Goto(p, "create", "passed")
        /\ StoreNew(p) /\ Succeed(p)
     \/ /\ configMap = "present" /\ Goto(p, "create", "patchAgain")
        /\ UNCHANGED cm /\ Raise /\ UNCHANGED faults
     \/ /\ Goto(p, "create", "passed") /\ Fault /\ Raise
        /\ \/ UNCHANGED cm
           \/ configMap = "absent" /\ StoreNew(p)
  /\ UNCHANGED <<pods, shutdown, deletes>>

PatchAgain(p) ==
  /\ PatchFrom(p, "patchAgain", "passed")
  /\ UNCHANGED <<pods, shutdown, deletes>>

-----------------------------------------------------------------------------
Init ==
  /\ listed = [p \in Pods |-> {}] /\ mtime = [p \in Pods |-> 0]
  /\ exited = {} /\ shutdown = {}
  /\ configMap = "absent" /\ keys = [p \in Pods |-> {}]
  /\ pc = [p \in Pods |-> "loop"]
  /\ last = [p \in Pods |-> 0] /\ seen = [p \in Pods |-> 0]
  /\ payload = [p \in Pods |-> {}] /\ stored = [p \in Pods |-> {}]
  /\ attempt = [p \in Pods |-> 0] /\ gaveUp = {}
  /\ faults = 0 /\ deletes = 0

SidecarStep(p) ==
  \/ Loop(p) \/ Passed(p) \/ Stat(p) \/ Read(p)
  \/ Patch(p) \/ Create(p) \/ PatchAgain(p)

PodStep(p) == Write(p) \/ Exit(p) \/ Sigterm(p)

Next == (\E p \in Pods : SidecarStep(p) \/ PodStep(p)) \/ DeleteConfigMap

Spec == Init /\ [][Next]_vars

\* The sidecars run; the training processes need not do anything.
Fairness == \A p \in Pods : WF_vars(SidecarStep(p))

FairSpec == Spec /\ Fairness

-----------------------------------------------------------------------------
(* Properties *)

\* When a sidecar has ended without giving up, what it last published is all
\* that the file lists, whichever writes fell between its looks at the file's
\* time and contents and whichever requests failed (_publish_final, #107).
FinalIsPublished ==
  \A p \in Pods : pc[p] = "done" /\ p \notin gaveUp => stored[p] = listed[p]

\* The inductive invariant behind it: a recorded time that is the file's means
\* that the file is published, and a pass that is not overtaken publishes what
\* the file holds (_run_once).
PublishInv ==
  /\ TypeOK
  /\ \A p \in Pods :
       /\ last[p] <= mtime[p] /\ seen[p] <= mtime[p]
       /\ mtime[p] = 0 => listed[p] = {} /\ stored[p] = {}
       /\ mtime[p] # 0 /\ last[p] = mtime[p] => stored[p] = listed[p]
       /\ pc[p] \in Requests /\ seen[p] = mtime[p] => payload[p] = listed[p]
       /\ pc[p] \in Requests \cup {"read"} => seen[p] # 0
       /\ attempt[p] # 0 => p \in shutdown
       /\ pc[p] = "done" => p \in shutdown
       /\ pc[p] = "done" /\ p \notin gaveUp => mtime[p] \in {0, last[p]}
  /\ shutdown \subseteq exited

\* No sidecar's request touches the entry of another pod: patch_configmap is
\* "safe to call concurrently from multiple pods".
SiblingsKept ==
  [][\A p \in Pods : SidecarStep(p) =>
       \A q \in Pods \ {p} : keys'[q] = keys[q]]_vars

\* What a file lists is published while its pod goes on running, or the
\* sidecar says that it gave up (main, _publish_final).
ListedIsPublished ==
  \A p \in Pods :
    stored[p] # listed[p] ~> (stored[p] = listed[p] \/ p \in gaveUp)

=============================================================================
