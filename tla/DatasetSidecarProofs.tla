------------------------ MODULE DatasetSidecarProofs ------------------------
(***************************************************************************)
(* Theorems about DatasetSidecar, for any pods, writes and failures.       *)
(***************************************************************************)
EXTENDS DatasetSidecar, TLAPS

\* The pods' own steps keep the invariant: a write moves the file's time on,
\* and there is none once the sidecar is told to stop.
LEMMA InvPods ==
  ASSUME PublishInv, NEW p \in Pods, PodStep(p)
  PROVE  PublishInv'
<1>1. CASE Write(p)
  <2>1. TypeOK'
    BY <1>1 DEF Write, PublishInv, TypeOK, cm, local
  <2>2. p \notin exited /\ p \notin shutdown
    BY <1>1 DEF Write, PublishInv
  <2>3. mtime'[p] = mtime[p] + 1
    BY <1>1 DEF Write, PublishInv, TypeOK
  <2>4. \A q \in Pods \ {p} : mtime'[q] = mtime[q] /\ listed'[q] = listed[q]
    BY <1>1 DEF Write, PublishInv, TypeOK
  <2> QED BY <1>1, <2>1, <2>2, <2>3, <2>4
          DEF Write, PublishInv, TypeOK, local
<1>2. CASE Exit(p)
  BY <1>2 DEF Exit, PublishInv, TypeOK, cm, local
<1>3. CASE Sigterm(p)
  BY <1>3 DEF Sigterm, PublishInv, TypeOK, pods, cm, local
<1> QED BY <1>1, <1>2, <1>3 DEF PodStep

\* The polling loop and the final attempts keep it.
LEMMA InvLoop ==
  ASSUME PublishInv, NEW p \in Pods, Loop(p) \/ Passed(p)
  PROVE  PublishInv'
<1>1. CASE Loop(p)
  BY <1>1 DEF Loop, Goto, PublishInv, TypeOK, pods, cm, PCs, Requests
<1>2. CASE Passed(p)
  BY <1>2, SidecarAssumption
     DEF Passed, Forget, Goto, PublishInv, TypeOK, pods, cm, PCs, Requests
<1> QED BY <1>1, <1>2

\* So do the looks at the file.
LEMMA InvLook ==
  ASSUME PublishInv, NEW p \in Pods, Stat(p) \/ Read(p)
  PROVE  PublishInv'
<1>1. CASE Stat(p)
  BY <1>1 DEF Stat, Goto, PublishInv, TypeOK, pods, cm, PCs, Requests
<1>2. CASE Read(p)
  BY <1>2 DEF Read, Goto, PublishInv, TypeOK, pods, cm, PCs, Requests
<1> QED BY <1>1, <1>2

\* And the requests: a pass that succeeds has published the file as it was at
\* the time recorded, or a later state of it with a time that is out of date.
LEMMA InvRequest ==
  ASSUME PublishInv, NEW p \in Pods, Patch(p) \/ Create(p) \/ PatchAgain(p)
  PROVE  PublishInv'
<1>1. PICK from \in Requests, to \in {"passed", "create", "patchAgain"} :
        /\ Goto(p, from, to)
        /\ (Succeed(p) /\ to = "passed") \/ UNCHANGED local
        /\ faults' \in Nat
        /\ keys' \in [Pods -> SUBSET Items]
        /\ configMap' \in {"present", "absent"}
        /\ UNCHANGED <<pods, shutdown, deletes>>
  <2>0. Fault \/ UNCHANGED faults \/ Succeed(p) => faults' \in Nat
    BY DEF Fault, Succeed, PublishInv, TypeOK
  <2>1. Store(p) \/ StoreNew(p) => keys' \in [Pods -> SUBSET Items]
    BY DEF Store, StoreNew, PublishInv, TypeOK
  <2>2. /\ keys \in [Pods -> SUBSET Items] /\ faults \in Nat
        /\ configMap \in {"present", "absent"}
    BY DEF PublishInv, TypeOK
  <2>3. ASSUME NEW from, NEW missing, PatchFrom(p, from, missing)
        PROVE  /\ \/ Goto(p, from, "passed")
                  \/ Goto(p, from, missing) /\ UNCHANGED local
               /\ Succeed(p) \/ UNCHANGED local
          /\ faults' \in Nat
    BY <2>0, <2>3, Zenon DEF PatchFrom, Raise
  <2>4. ASSUME NEW from, NEW missing, PatchFrom(p, from, missing)
        PROVE  keys' \in [Pods -> SUBSET Items] /\ configMap' = configMap
    BY <2>1, <2>2, <2>4 DEF PatchFrom, cm
  <2>5. CASE Patch(p)
    BY <2>2, <2>3, <2>5, <2>4 DEF Patch, Requests
  <2>6. CASE PatchAgain(p)
    BY <2>2, <2>3, <2>6, <2>4 DEF PatchAgain, Requests
  <2>7. CASE Create(p)
    <3>1. /\ configMap' \in {"present", "absent"}
          /\ keys' \in [Pods -> SUBSET Items]
      BY <2>1, <2>2, <2>7 DEF Create, StoreNew, cm
    <3>2. /\ \/ Goto(p, "create", "passed")
             \/ Goto(p, "create", "patchAgain") /\ UNCHANGED local
          /\ Succeed(p) \/ UNCHANGED local
          /\ faults' \in Nat
      BY <2>0, <2>7, Zenon DEF Create, Raise
    <3> QED BY <2>7, <3>1, <3>2 DEF Create, Requests
  <2> QED BY <2>5, <2>6, <2>7
<1>2. CASE Succeed(p) /\ to = "passed"
  BY <1>1, <1>2 DEF Succeed, Goto, PublishInv, TypeOK, pods, PCs, Requests
<1>3. CASE UNCHANGED local
  BY <1>1, <1>3 DEF Goto, PublishInv, TypeOK, pods, local, PCs, Requests
<1> QED BY <1>1, <1>2, <1>3

\* Every step keeps the invariant.
LEMMA InvNext == PublishInv /\ [Next]_vars => PublishInv'
<1> SUFFICES ASSUME PublishInv, [Next]_vars PROVE PublishInv'
  OBVIOUS
<1>1. ASSUME NEW p \in Pods, SidecarStep(p) \/ PodStep(p) PROVE PublishInv'
  BY <1>1, InvPods, InvLoop, InvLook, InvRequest DEF SidecarStep
<1>2. CASE DeleteConfigMap
  <2>1. TypeOK'
    <3>1. /\ configMap' \in {"present", "absent"}
          /\ keys' \in [Pods -> SUBSET Items] /\ deletes' \in Nat
      BY <1>2 DEF DeleteConfigMap, PublishInv, TypeOK
    <3> QED BY <1>2, <3>1 DEF DeleteConfigMap, PublishInv, TypeOK, pods, local
  <2> QED BY <1>2, <2>1 DEF DeleteConfigMap, PublishInv, pods, local
<1>3. CASE UNCHANGED vars
  BY <1>3 DEF vars, pods, cm, local, PublishInv, TypeOK
<1> QED BY <1>1, <1>2, <1>3 DEF Next

\* A sidecar that ends without giving up has published all that its pod's file
\* lists, for any number of pods, writes, failing requests and deletions of
\* the ConfigMap (_publish_final, _run_once).
THEOREM Published == Spec => [](FinalIsPublished /\ PublishInv)
<1>1. Init => PublishInv
  <2> SUFFICES ASSUME Init PROVE PublishInv
    OBVIOUS
  <2>1. TypeOK
    BY DEF Init, TypeOK, PCs
  <2> QED BY <2>1 DEF Init, PublishInv, Requests
<1>2. PublishInv => FinalIsPublished
  BY DEF PublishInv, FinalIsPublished, TypeOK
<1> QED BY <1>1, <1>2, InvNext, PTL DEF Spec

-----------------------------------------------------------------------------
(* The entries of the other pods *)

\* What a ConfigMap held is gone with it, so that creating one anew takes
\* nothing from a sibling.
AbsentHasNone ==
  /\ keys \in [Pods -> SUBSET Items]
  /\ configMap = "absent" => \A p \in Pods : keys[p] = {}

\* A request changes no entry but its own pod's, whatever it meets and whether
\* or not it is reported as failed.
LEMMA RequestsSpare ==
  ASSUME AbsentHasNone, NEW p \in Pods, SidecarStep(p), NEW q \in Pods \ {p}
  PROVE  keys'[q] = keys[q]
<1>1. Store(p) => keys'[q] = keys[q]
  BY DEF Store, AbsentHasNone
<1>2. configMap = "absent" /\ StoreNew(p) => keys'[q] = keys[q]
  BY DEF StoreNew, AbsentHasNone
<1>3. CASE Loop(p) \/ Passed(p) \/ Stat(p) \/ Read(p)
  BY <1>3 DEF Loop, Passed, Stat, Read, cm
<1>4. ASSUME NEW from, NEW missing, PatchFrom(p, from, missing)
      PROVE  keys'[q] = keys[q]
  BY <1>1, <1>4 DEF PatchFrom, cm
<1>5. CASE Patch(p) \/ PatchAgain(p)
  BY <1>4, <1>5 DEF Patch, PatchAgain
<1>6. CASE Create(p)
  BY <1>2, <1>6 DEF Create, cm
<1> QED BY <1>3, <1>5, <1>6 DEF SidecarStep

\* Only a sidecar's request fills an absent ConfigMap, and then it is there.
LEMMA AbsentNext == TypeOK /\ AbsentHasNone /\ [Next]_vars => AbsentHasNone'
<1> SUFFICES ASSUME TypeOK, AbsentHasNone, [Next]_vars PROVE AbsentHasNone'
  OBVIOUS
<1>1. ASSUME NEW p \in Pods, SidecarStep(p) PROVE AbsentHasNone'
  <2>1. Store(p) => keys' \in [Pods -> SUBSET Items]
    BY DEF Store, AbsentHasNone, TypeOK
  <2>2. StoreNew(p) => AbsentHasNone'
    BY DEF StoreNew, AbsentHasNone, TypeOK
  <2>3. CASE Loop(p) \/ Passed(p) \/ Stat(p) \/ Read(p)
    BY <2>3 DEF Loop, Passed, Stat, Read, cm, AbsentHasNone
  <2>4. ASSUME NEW from, NEW missing, PatchFrom(p, from, missing)
        PROVE  AbsentHasNone'
    BY <2>1, <2>4 DEF PatchFrom, cm, AbsentHasNone
  <2>5. CASE Patch(p) \/ PatchAgain(p)
    BY <2>4, <2>5 DEF Patch, PatchAgain
  <2>6. CASE Create(p)
    BY <2>2, <2>6 DEF Create, cm, AbsentHasNone
  <2> QED BY <1>1, <2>3, <2>5, <2>6 DEF SidecarStep
<1>2. ASSUME NEW p \in Pods, PodStep(p) PROVE AbsentHasNone'
  BY <1>2 DEF PodStep, Write, Exit, Sigterm, cm, AbsentHasNone
<1>3. CASE DeleteConfigMap
  BY <1>3 DEF DeleteConfigMap, AbsentHasNone
<1>4. CASE UNCHANGED vars
  BY <1>4 DEF vars, cm, AbsentHasNone
<1> QED BY <1>1, <1>2, <1>3, <1>4 DEF Next

\* Any number of sidecars may publish at the same time, requests may fail with
\* or without an effect, and the watcher may delete the ConfigMap between any
\* two of them: no request touches a sibling's entry (patch_configmap is "safe
\* to call concurrently from multiple pods").
THEOREM Siblings == Spec => SiblingsKept
<1>1. Init => AbsentHasNone
  BY DEF Init, AbsentHasNone
<1>2. TypeOK /\ AbsentHasNone /\ [Next]_vars
      => [\A p \in Pods : SidecarStep(p) =>
            \A q \in Pods \ {p} : keys'[q] = keys[q]]_vars
  BY RequestsSpare
<1>3. PublishInv => TypeOK
  BY DEF PublishInv
<1> QED BY <1>1, <1>2, <1>3, AbsentNext, Published, PTL
        DEF Spec, SiblingsKept

=============================================================================
