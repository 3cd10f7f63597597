--------------------------- MODULE WatcherProofs ---------------------------
(***************************************************************************)
(* Theorems about Watcher, for every number of runs and every bound.       *)
(***************************************************************************)
EXTENDS Watcher, SequenceTheorems, TLAPS

\* The first event of a non-empty queue is an event, and the rest a queue.
LEMMA HeadTail ==
  ASSUME NEW S, NEW q \in Seq(S), q # <<>>
  PROVE  Head(q) \in S /\ Tail(q) \in Seq(S)
OBVIOUS

\* A single event is a queue.
LEMMA Singleton ==
  ASSUME NEW S, NEW e \in S
  PROVE  <<e>> \in Seq(S)
OBVIOUS

\* The objects that stand for "absent" have their types.
LEMMA AbsentTypes ==
  /\ NoJob \in JobObj /\ NoPP \in PPObj /\ NoInputs \in InputsObj
  /\ Idle \in Handler
BY ConstantsAssumption
   DEF NoJob, JobObj, NoPP, PPObj, NoInputs, InputsObj, Idle, Handler, PCs,
       Runs

\* An update of the workload's Job keeps the types of the Job and of the
\* stream of changes.
LEMMA SetJobType ==
  ASSUME TypeOK, NEW o \in JobObj, SetJob(o)
  PROVE  job' \in JobObj /\ watch' \in Seq(Event)
<1>1. [job EXCEPT !.fin = FALSE] \in JobObj
  BY DEF TypeOK, JobObj
<1>2. JobEvent(o, FALSE) \in Event
      /\ JobEvent([job EXCEPT !.fin = FALSE], TRUE) \in Event
  BY <1>1, AbsentTypes DEF JobEvent, Event
<1>3. watch' = watch \/ \E e \in Event : watch' = Append(watch, e)
  BY <1>2 DEF SetJob
<1>4. watch' \in Seq(Event)
  BY <1>3 DEF TypeOK
<1> QED BY <1>4 DEF SetJob

\* An update of the postprocess Job keeps the types, too.
LEMMA SetPPType ==
  ASSUME TypeOK, NEW o \in PPObj, SetPP(o)
  PROVE  pp' \in PPObj /\ watch' \in Seq(Event)
<1>1. PPEvent(o, FALSE) \in Event /\ PPEvent(pp, TRUE) \in Event
  BY AbsentTypes DEF PPEvent, Event, TypeOK
<1>2. watch' = watch \/ \E e \in Event : watch' = Append(watch, e)
  BY <1>1 DEF SetPP
<1>3. watch' \in Seq(Event)
  BY <1>2 DEF TypeOK
<1> QED BY <1>3 DEF SetPP

-----------------------------------------------------------------------------
(* Type correctness, one lemma per group of actions *)

\* A removal of the postprocess Job keeps the types.
LEMMA RemovePPType ==
  ASSUME TypeOK, RemovePP
  PROVE  pp' \in PPObj /\ watch' \in Seq(Event) /\ inputs' \in InputsObj
<1>1. pp' \in PPObj /\ watch' \in Seq(Event)
  BY SetPPType, AbsentTypes DEF RemovePP
<1>2. inputs' \in InputsObj
  BY DEF RemovePP, TypeOK, InputsObj
<1> QED BY <1>1, <1>2

\* Moving to another program counter, or returning, keeps the handler's type.
LEMMA GotoType ==
  ASSUME TypeOK, NEW pc \in PCs, Goto(pc)
  PROVE  h' \in Handler
BY DEF Goto, TypeOK, Handler

\* Returning leaves the handler idle, which is a handler state.
LEMMA ReturnType ==
  ASSUME Return
  PROVE  h' \in Handler
BY AbsentTypes DEF Return

\* Every call leaves the count of transient failures a natural number.
LEMMA OutcomeType ==
  ASSUME TypeOK, NEW call, NEW ok \in BOOLEAN, Outcome(call, ok)
  PROVE  faults' \in Nat
BY DEF Outcome, TypeOK

\* A failed creation continues at a program counter.
LEMMA AfterCreateErrorType == AfterCreateError \in PCs
BY DEF AfterCreateError, PCs

\* The informer, the resync, crashes and restarts keep the types.
LEMMA TypeInformer ==
  ASSUME TypeOK, InformerStep
  PROVE  TypeOK'
<1> USE DEF workload, shared, post, ns, informer, process, history
<1>1. CASE Deliver
  <2>1. Head(watch) \in Event /\ Tail(watch) \in Seq(Event)
    BY <1>1, HeadTail DEF Deliver, TypeOK
  <2>2. queue' \in Seq(Event)
    BY <1>1, <2>1 DEF Deliver, TypeOK
  <2>3. cache' \in [job: JobObj, pp: PPObj]
    BY <1>1, <2>1, AbsentTypes DEF Deliver, TypeOK, Event
  <2> QED BY <1>1, <2>1, <2>2, <2>3 DEF Deliver, TypeOK
<1>2. ASSUME NEW j \in JobObj, NEW p \in PPObj
      PROVE  Listings(j, p) \subseteq Seq(Event)
  <2>1. JobEvent(j, FALSE) \in Event /\ PPEvent(p, FALSE) \in Event
    BY AbsentTypes DEF JobEvent, PPEvent, Event
  <2> DEFINE a == IF j.uid = 0 THEN <<>> ELSE <<JobEvent(j, FALSE)>>
             b == IF p.uid = 0 THEN <<>> ELSE <<PPEvent(p, FALSE)>>
  <2>2. a \in Seq(Event) /\ b \in Seq(Event)
    <3>1. <<JobEvent(j, FALSE)>> \in Seq(Event)
      BY <2>1, Singleton
    <3>2. <<PPEvent(p, FALSE)>> \in Seq(Event)
      BY <2>1, Singleton
    <3>3. <<>> \in Seq(Event)
      OBVIOUS
    <3>4. a \in Seq(Event)
      BY <3>1, <3>3
    <3>5. b \in Seq(Event)
      BY <3>2, <3>3
    <3> QED BY <3>4, <3>5
  <2>3. Listings(j, p) = {a \o b, b \o a}
    BY DEF Listings
  <2> HIDE DEF a, b
  <2> QED BY <2>2, <2>3
<1>3. CASE Resync
  <2>1. queue' \in Seq(Event)
    BY <1>2, <1>3 DEF Resync, TypeOK
  <2> QED BY <1>3, <2>1 DEF Resync, TypeOK
<1>4. CASE SyncNamespace
  BY <1>4 DEF SyncNamespace, TypeOK
<1>5. CASE Crash
  <2>1. up' \in BOOLEAN
    BY <1>5 DEF Crash
  <2>2. cache' \in [job: JobObj, pp: PPObj]
    BY <1>5, AbsentTypes DEF Crash
  <2>3. crashes' \in Nat /\ watch' \in Seq(Event) /\ queue' \in Seq(Event)
        /\ nsCache' \in {"unknown", "enabled", "disabled"}
    BY <1>5 DEF Crash, TypeOK
  <2>4. h' \in Handler
    BY <1>5, AbsentTypes DEF Crash
  <2> QED BY <1>5, <2>1, <2>2, <2>3, <2>4 DEF Crash, TypeOK
<1>6. CASE Restart
  <2>1. queue' \in Seq(Event)
    BY <1>2, <1>6 DEF Restart, TypeOK
  <2> QED BY <1>6, <2>1 DEF Restart, TypeOK
<1> QED BY <1>1, <1>3, <1>4, <1>5, <1>6 DEF InformerStep

\* Users, pods and the cluster's controllers keep the types.
LEMMA TypeCluster ==
  ASSUME TypeOK, ClusterStep
  PROVE  TypeOK'
<1> USE DEF workload, shared, post, ns, informer, process, history
<1>1. CASE CreateJob
  <2>1. last + 1 \in Runs
    BY <1>1, ConstantsAssumption DEF CreateJob, TypeOK, Runs
  <2>2. [NoJob EXCEPT !.uid = last + 1] \in JobObj
    <3>1. last + 1 \in 0 .. MaxRuns
      BY <2>1, ConstantsAssumption DEF Runs
    <3> QED BY <3>1, AbsentTypes DEF JobObj
  <2>3. job' \in JobObj /\ watch' \in Seq(Event)
    BY <1>1, <2>2, SetJobType DEF CreateJob
  <2> QED BY <1>1, <2>1, <2>3 DEF CreateJob, TypeOK, Runs
<1>2. CASE StartPod
  <2>1. job.uid \in Runs
    BY <1>2 DEF StartPod, TypeOK, JobObj, Runs
  <2> QED BY <1>2, <2>1 DEF StartPod, TypeOK
<1>3. CASE FinishJob
  <2>1. [job EXCEPT !.finished = TRUE] \in JobObj
    BY DEF TypeOK, JobObj
  <2>2. job' \in JobObj /\ watch' \in Seq(Event)
    BY <1>3, <2>1, SetJobType DEF FinishJob
  <2> QED BY <1>3, <2>2 DEF FinishJob, TypeOK
<1>4. CASE DeleteJob
  <2>1. [job EXCEPT !.deleting = TRUE] \in JobObj
    BY DEF TypeOK, JobObj
  <2>2. job' \in JobObj /\ watch' \in Seq(Event)
    BY <1>4, <2>1, SetJobType, AbsentTypes DEF DeleteJob
  <2> QED BY <1>4, <2>2 DEF DeleteJob, TypeOK
<1>5. CASE ToggleNamespace
  BY <1>5 DEF ToggleNamespace, TypeOK
<1>6. ASSUME NEW u \in Runs, PodWrites(u) \/ RemovePods(u)
      PROVE  TypeOK'
  BY <1>6 DEF PodWrites, RemovePods, TypeOK
<1>7. CASE RunPP
  <2>1. PICK ok \in BOOLEAN :
          /\ Outcome("run", ok)
          /\ SetPP([pp EXCEPT !.result = IF ok THEN "Complete" ELSE "Failed"])
          /\ aiboms' = IF ok
                       THEN aiboms \cup {[run |-> pp.uid, data |-> inputs.data,
                                          signed |-> signingKey]}
                       ELSE aiboms
    BY <1>7 DEF RunPP
  <2>2. [pp EXCEPT !.result = IF ok THEN "Complete" ELSE "Failed"] \in PPObj
    BY DEF TypeOK, PPObj
  <2>3. pp' \in PPObj /\ watch' \in Seq(Event)
    BY <2>1, <2>2, SetPPType
  <2>4. [run |-> pp.uid, data |-> inputs.data, signed |-> signingKey]
          \in [run: Runs, data: SUBSET Runs, signed: BOOLEAN]
    <3>1. pp.uid \in Runs
      <4>1. pp.uid # 0
        BY <1>7 DEF RunPP
      <4>2. pp.uid \in 0 .. MaxRuns
        BY DEF TypeOK, PPObj
      <4> QED BY <4>1, <4>2, ConstantsAssumption DEF Runs
    <3>2. inputs.data \in SUBSET Runs /\ signingKey \in BOOLEAN
      BY DEF TypeOK, InputsObj
    <3> QED BY <3>1, <3>2
  <2>5. faults' \in Nat
    BY <2>1, OutcomeType
  <2>6. aiboms' \in SUBSET [run: Runs, data: SUBSET Runs, signed: BOOLEAN]
    BY <2>1, <2>4 DEF TypeOK
  <2> QED BY <1>7, <2>3, <2>5, <2>6 DEF RunPP, TypeOK
<1>8. CASE ExpirePP
  BY <1>8, RemovePPType DEF ExpirePP, TypeOK
<1>9. CASE CollectGarbage
  BY <1>9, AbsentTypes DEF CollectGarbage, TypeOK
<1> QED
  BY <1>1, <1>2, <1>3, <1>4, <1>5, <1>6, <1>7, <1>8, <1>9 DEF ClusterStep

\* Every call of the handler keeps the types.
LEMMA TypeHandler ==
  ASSUME TypeOK, HandlerStep
  PROVE  TypeOK'
<1> USE DEF workload, shared, post, ns, informer, process, history
<1>1. CASE HandleEvent
  <2>1. Head(queue) \in Event /\ Tail(queue) \in Seq(Event)
    BY <1>1, HeadTail DEF HandleEvent, TypeOK
  <2>2. h' \in Handler
    <3> DEFINE e  == Head(queue)
               pc == IF e.kind = "job" THEN onJobEvent(e.job)
                     ELSE onPostprocessJobEvent(e.pp)
    <3>1. pc \in PCs
      <4>1. onJobEvent(e.job) \in PCs
        BY DEF onJobEvent, isNamespaceOptedOut, isNamespaceEnabled, PCs, TypeOK
      <4>2. onPostprocessJobEvent(e.pp) \in PCs
        BY DEF onPostprocessJobEvent, PCs
      <4> QED BY <4>1, <4>2
    <3>2. e.job \in JobObj /\ e.pp \in PPObj
      BY <2>1 DEF Event
    <3>3. h' = IF pc = "idle" THEN Idle
               ELSE [Idle EXCEPT !.pc = pc, !.job = e.job, !.pp = e.pp]
      BY <1>1 DEF HandleEvent
    <3> HIDE DEF e, pc
    <3>4. [Idle EXCEPT !.pc = pc, !.job = e.job, !.pp = e.pp] \in Handler
      BY <3>1, <3>2, AbsentTypes DEF Handler
    <3> QED BY <3>3, <3>4, AbsentTypes
  <2> QED BY <1>1, <2>1, <2>2 DEF HandleEvent, TypeOK
<1>2. CASE QualifyRunning
  <2>1. h' \in Handler
    BY <1>2, GotoType, ReturnType DEF QualifyRunning, PCs
  <2>2. faults' \in Nat
    BY <1>2, OutcomeType DEF QualifyRunning
  <2> QED BY <1>2, <2>1, <2>2 DEF QualifyRunning, TypeOK
<1>3. CASE AddFinalizer
  <2>1. [job EXCEPT !.fin = TRUE] \in JobObj
    BY DEF TypeOK, JobObj, Handler
  <2>2. job' \in JobObj /\ watch' \in Seq(Event)
    BY <1>3, <2>1, SetJobType, AbsentTypes DEF AddFinalizer, TypeOK
  <2>3. h' \in Handler
    BY <1>3, GotoType, ReturnType DEF AddFinalizer, PCs
  <2>4. faults' \in Nat
    BY <1>3, OutcomeType DEF AddFinalizer
  <2> QED BY <1>3, <2>2, <2>3, <2>4 DEF AddFinalizer, TypeOK
<1>4. CASE QualifyFinished
  <2>1. h' \in Handler
    BY <1>4, GotoType, ReturnType DEF QualifyFinished, PCs
  <2>2. faults' \in Nat
    BY <1>4, OutcomeType DEF QualifyFinished
  <2> QED BY <1>4, <2>1, <2>2 DEF QualifyFinished, TypeOK
<1>5. CASE DeleteIdentity
  <2>1. identity' \in BOOLEAN
    BY <1>5 DEF DeleteIdentity
  <2>2. h' \in Handler
    BY <1>5, GotoType, ReturnType DEF DeleteIdentity, PCs
  <2>3. faults' \in Nat
    BY <1>5, OutcomeType DEF DeleteIdentity
  <2> QED BY <1>5, <2>1, <2>2, <2>3 DEF DeleteIdentity, TypeOK
<1>6. CASE RemoveFinalizer
  <2>1. [job EXCEPT !.fin = FALSE] \in JobObj
    BY DEF TypeOK, JobObj, Handler
  <2>2. job' \in JobObj /\ watch' \in Seq(Event)
    BY <1>6, <2>1, SetJobType, AbsentTypes DEF RemoveFinalizer, TypeOK
  <2>3. h' \in Handler
    BY <1>6, GotoType, ReturnType DEF RemoveFinalizer, PCs
  <2>4. faults' \in Nat
    BY <1>6, OutcomeType DEF RemoveFinalizer
  <2> QED BY <1>6, <2>2, <2>3, <2>4 DEF RemoveFinalizer, TypeOK
<1>7. CASE SetRetries
  <2>1. [job EXCEPT !.retries = h.job.retries + 1] \in JobObj
    <3>1. h.job.retries + 1 \in Nat
      BY DEF TypeOK, Handler, JobObj
    <3> QED BY <3>1 DEF TypeOK, JobObj
  <2>2. job' \in JobObj /\ watch' \in Seq(Event)
    BY <1>7, <2>1, SetJobType, AbsentTypes DEF SetRetries, TypeOK
  <2>3. h' \in Handler
    BY <1>7, GotoType, ReturnType DEF SetRetries, PCs
  <2>4. faults' \in Nat
    BY <1>7, OutcomeType DEF SetRetries
  <2> QED BY <1>7, <2>2, <2>3, <2>4 DEF SetRetries, TypeOK
<1>8. CASE ListPods
  <2>1. h' \in Handler
    BY <1>8 DEF ListPods, getInstrumentedPods, TypeOK, Handler, PCs
  <2>2. faults' \in Nat
    BY <1>8, OutcomeType DEF ListPods
  <2> QED BY <1>8, <2>1, <2>2 DEF ListPods, TypeOK
<1>9. CASE ExistingPostprocessJob
  <2>1. h' \in Handler
    BY <1>9, GotoType, ReturnType DEF ExistingPostprocessJob, PCs
  <2>2. faults' \in Nat
    BY <1>9, OutcomeType DEF ExistingPostprocessJob
  <2> QED BY <1>9, <2>1, <2>2 DEF ExistingPostprocessJob, TypeOK
<1>10. CASE DeleteStalePP
  <2>1. pp' \in PPObj /\ watch' \in Seq(Event) /\ inputs' \in InputsObj
    BY <1>10, RemovePPType DEF DeleteStalePP, TypeOK
  <2>2. h' \in Handler
    BY <1>10, GotoType, ReturnType DEF DeleteStalePP, PCs
  <2>3. faults' \in Nat
    BY <1>10, OutcomeType DEF DeleteStalePP
  <2> QED BY <1>10, <2>1, <2>2, <2>3 DEF DeleteStalePP, TypeOK
<1>11. CASE DeleteStaleInputs
  <2>1. inputs' \in InputsObj
    BY <1>11, AbsentTypes DEF DeleteStaleInputs, TypeOK
  <2>2. h' \in Handler
    BY <1>11, GotoType, ReturnType DEF DeleteStaleInputs, PCs
  <2>3. faults' \in Nat
    BY <1>11, OutcomeType DEF DeleteStaleInputs
  <2> QED BY <1>11, <2>1, <2>2, <2>3 DEF DeleteStaleInputs, TypeOK
<1>12. CASE BuildInputs
  <2>1. h' \in Handler
    <3>1. h.pods \cap data \in SUBSET Runs /\ {} \in SUBSET Runs
      BY DEF TypeOK
    <3>2. \E d \in SUBSET Runs : h' = [h EXCEPT !.pc = "writeInputs", !.data = d]
      BY <1>12, <3>1 DEF BuildInputs
    <3> QED BY <3>2 DEF TypeOK, Handler, PCs
  <2>2. faults' \in Nat
    BY <1>12, OutcomeType DEF BuildInputs
  <2> QED BY <1>12, <2>1, <2>2 DEF BuildInputs, TypeOK
<1>13. CASE WriteInputs
  <2>1. [inputs EXCEPT !.by = h.job.uid, !.data = h.data] \in InputsObj
    BY DEF TypeOK, InputsObj, Handler, JobObj
  <2>2. inputs' \in InputsObj
    BY <1>13, <2>1 DEF WriteInputs, TypeOK
  <2>3. h' \in Handler
    BY <1>13, GotoType DEF WriteInputs, PCs
  <2>4. faults' \in Nat
    BY <1>13, OutcomeType DEF WriteInputs
  <2> QED BY <1>13, <2>2, <2>3, <2>4 DEF WriteInputs, TypeOK
<1>14. CASE EnsureSigningKey
  <2>1. signingKey' \in BOOLEAN
    BY <1>14 DEF EnsureSigningKey
  <2>2. h' \in Handler
    BY <1>14, GotoType, ReturnType DEF EnsureSigningKey, PCs
  <2>3. faults' \in Nat
    BY <1>14, OutcomeType DEF EnsureSigningKey
  <2> QED BY <1>14, <2>1, <2>2, <2>3 DEF EnsureSigningKey, TypeOK
<1>15. CASE CreatePP
  <2>1. [uid |-> h.job.uid, result |-> "", collected |-> FALSE] \in PPObj
    BY DEF TypeOK, PPObj, Handler, JobObj
  <2>2. pp' \in PPObj /\ watch' \in Seq(Event)
    BY <1>15, <2>1, SetPPType DEF CreatePP, TypeOK
  <2>3. started' \in SUBSET (0 .. MaxRuns)
    <3>1. h.job.uid \in 0 .. MaxRuns
      BY DEF TypeOK, Handler, JobObj
    <3> QED BY <1>15, <3>1 DEF CreatePP, TypeOK
  <2>4. h' \in Handler
    BY <1>15, GotoType, AfterCreateErrorType DEF CreatePP, PCs
  <2>5. faults' \in Nat
    BY <1>15, OutcomeType DEF CreatePP
  <2> QED BY <1>15, <2>2, <2>3, <2>4, <2>5 DEF CreatePP, TypeOK
<1>16. CASE OwnInputs
  <2>1. inputs' \in InputsObj
    BY <1>16 DEF OwnInputs, TypeOK, InputsObj
  <2>2. h' \in Handler
    BY <1>16, GotoType, ReturnType DEF OwnInputs, PCs
  <2>3. faults' \in Nat
    BY <1>16, OutcomeType DEF OwnInputs
  <2> QED BY <1>16, <2>1, <2>2, <2>3 DEF OwnInputs, TypeOK
<1>17. CASE Annotate
  <2>1. [job EXCEPT !.ann = TRUE] \in JobObj
    BY DEF TypeOK, JobObj, Handler
  <2>2. job' \in JobObj /\ watch' \in Seq(Event)
    BY <1>17, <2>1, SetJobType, AbsentTypes DEF Annotate, TypeOK
  <2>3. h' \in Handler
    BY <1>17, GotoType, ReturnType, AfterCreateErrorType DEF Annotate, PCs
  <2>4. faults' \in Nat
    BY <1>17, OutcomeType DEF Annotate
  <2> QED BY <1>17, <2>2, <2>3, <2>4 DEF Annotate, TypeOK
<1>18. CASE MarkCollected
  <2>1. [pp EXCEPT !.collected = TRUE] \in PPObj
    BY DEF TypeOK, PPObj
  <2>2. pp' \in PPObj /\ watch' \in Seq(Event)
    BY <1>18, <2>1, SetPPType DEF MarkCollected, TypeOK
  <2>3. h' \in Handler
    BY <1>18, GotoType, ReturnType DEF MarkCollected, PCs
  <2>4. faults' \in Nat
    BY <1>18, OutcomeType DEF MarkCollected
  <2> QED BY <1>18, <2>2, <2>3, <2>4 DEF MarkCollected, TypeOK
<1>19. CASE DeleteWorkloadData
  <2>1. data' \in SUBSET Runs
    BY <1>19 DEF DeleteWorkloadData, TypeOK
  <2>2. h' \in Handler
    BY <1>19, GotoType, ReturnType DEF DeleteWorkloadData, PCs
  <2>3. faults' \in Nat
    BY <1>19, OutcomeType DEF DeleteWorkloadData
  <2> QED BY <1>19, <2>1, <2>2, <2>3 DEF DeleteWorkloadData, TypeOK
<1>20. CASE CollectIdentity
  <2>1. identity' \in BOOLEAN
    BY <1>20 DEF CollectIdentity
  <2>2. h' \in Handler
    BY <1>20, GotoType, ReturnType DEF CollectIdentity, PCs
  <2>3. faults' \in Nat
    BY <1>20, OutcomeType DEF CollectIdentity
  <2> QED BY <1>20, <2>1, <2>2, <2>3 DEF CollectIdentity, TypeOK
<1>21. CASE FailedEvent
  <2>1. warned' \in SUBSET (0 .. MaxRuns)
    <3>1. h.pp.uid \in 0 .. MaxRuns
      BY DEF TypeOK, Handler, PPObj
    <3> QED BY <1>21, <3>1 DEF FailedEvent, TypeOK
  <2>2. h' \in Handler
    BY <1>21, GotoType, ReturnType DEF FailedEvent, PCs
  <2>3. faults' \in Nat
    BY <1>21, OutcomeType DEF FailedEvent
  <2> QED BY <1>21, <2>1, <2>2, <2>3 DEF FailedEvent, TypeOK
<1>22. CASE DeletePP
  <2>1. pp' \in PPObj /\ watch' \in Seq(Event) /\ inputs' \in InputsObj
    BY <1>22, RemovePPType DEF DeletePP, TypeOK
  <2>2. h' \in Handler
    BY <1>22, GotoType, ReturnType DEF DeletePP, PCs
  <2>3. faults' \in Nat
    BY <1>22, OutcomeType DEF DeletePP
  <2> QED BY <1>22, <2>1, <2>2, <2>3 DEF DeletePP, TypeOK
<1>23. CASE DeleteInputs
  <2>1. inputs' \in InputsObj
    BY <1>23, AbsentTypes DEF DeleteInputs, TypeOK
  <2>2. h' \in Handler
    BY <1>23, GotoType, ReturnType DEF DeleteInputs, PCs
  <2>3. faults' \in Nat
    BY <1>23, OutcomeType DEF DeleteInputs
  <2> QED BY <1>23, <2>1, <2>2, <2>3 DEF DeleteInputs, TypeOK
<1> QED
  BY <1>1, <1>2, <1>3, <1>4, <1>5, <1>6, <1>7, <1>8, <1>9, <1>10, <1>11, <1>12, <1>13, <1>14, <1>15, <1>16, <1>17, <1>18, <1>19, <1>20, <1>21, <1>22, <1>23
     DEF HandlerStep

\* The variables keep their types, whatever the users, the cluster and the
\* failing calls do.
THEOREM TypeCorrect == Spec => []TypeOK
<1>1. Init => TypeOK
  <2> SUFFICES ASSUME Init PROVE TypeOK
    OBVIOUS
  <2>1. /\ job \in JobObj /\ pp \in PPObj /\ inputs \in InputsObj
        /\ h \in Handler
    BY AbsentTypes DEF Init
  <2>2. cache \in [job: JobObj, pp: PPObj]
    BY AbsentTypes DEF Init
  <2>3. /\ watch \in Seq(Event) /\ queue \in Seq(Event)
        /\ faults \in Nat /\ crashes \in Nat /\ toggles \in Nat
        /\ last \in 0 .. MaxRuns
    BY ConstantsAssumption DEF Init
  <2>4. /\ identity \in BOOLEAN /\ signingKey \in BOOLEAN
        /\ nsLabel \in BOOLEAN /\ up \in BOOLEAN
    BY DEF Init
  <2>5. nsCache \in {"unknown", "enabled", "disabled"}
    BY DEF Init
  <2>6. /\ pods \in SUBSET Runs /\ data \in SUBSET Runs
        /\ started \in SUBSET (0 .. MaxRuns) /\ warned \in SUBSET (0 .. MaxRuns)
        /\ aiboms \in SUBSET [run: Runs, data: SUBSET Runs, signed: BOOLEAN]
    BY DEF Init
  <2> QED BY <2>1, <2>2, <2>3, <2>4, <2>5, <2>6 DEF TypeOK
<1>2. TypeOK /\ [Next]_vars => TypeOK'
  <2> SUFFICES ASSUME TypeOK, [Next]_vars
               PROVE  TypeOK'
    OBVIOUS
  <2>1. CASE Next
    BY <2>1, TypeHandler, TypeInformer, TypeCluster DEF Next
  <2>2. CASE UNCHANGED vars
    BY <2>2 DEF vars, workload, shared, post, ns, informer, process, history,
                TypeOK
  <2> QED BY <2>1, <2>2
<1> QED BY <1>1, <1>2, PTL DEF Spec

-----------------------------------------------------------------------------
(* The inputs of a running postprocess Job, from the invariant InputsInv *)

\* What the handler does next does not change what it works on.
LEMMA GotoPC ==
  ASSUME TypeOK, NEW pc, Goto(pc)
  PROVE  h'.pc = pc /\ h'.job = h.job
BY DEF Goto, TypeOK, Handler

\* A handler that returned is not replacing a postprocess Job.
LEMMA ReturnPC ==
  ASSUME Return
  PROVE  h'.pc = "idle"
BY DEF Return, Idle

\* A call that Faults does not name succeeds.
LEMMA Succeeds ==
  ASSUME NEW call, NEW ok \in BOOLEAN, Outcome(call, ok),
         call \notin Faults, call # "create_pp"
  PROVE  ok
BY DEF Outcome, Refused

\* A removal of the postprocess Job leaves nothing running.
LEMMA RemovePPInputs ==
  ASSUME TypeOK, RemovePP
  PROVE  ~Running' /\ inputs'.by = inputs.by /\ inputs'.data = inputs.data
BY DEF RemovePP, SetPP, NoPP, Running, TypeOK, InputsObj

\* Steps that touch neither object keep the invariant, unless they bring the
\* handler to where it replaces the postprocess Job.
LEMMA InputsKept ==
  ASSUME InputsInv, pp' = pp, inputs' = inputs,
         h' = h \/ h'.pc \notin Replacing
  PROVE  InputsInv'
BY DEF InputsInv, RunningInputsBelong, Running, Replacing

\* The informer touches neither the inputs nor the postprocess Job.
LEMMA InputsInformer ==
  ASSUME TypeOK, InputsInv, InformerStep
  PROVE  InputsInv'
<1>1. pp' = pp /\ inputs' = inputs
  BY DEF InformerStep, Deliver, Resync, SyncNamespace, Crash, Restart, post
<1>2. h' = h \/ h' = Idle
  BY DEF InformerStep, Deliver, Resync, SyncNamespace, Crash, Restart
<1>3. Idle.pc \notin Replacing
  BY DEF Idle, Replacing
<1> QED BY <1>1, <1>2, <1>3, InputsKept

\* Nothing in the cluster starts a postprocess Job or writes inputs.
LEMMA InputsCluster ==
  ASSUME TypeOK, InputsInv, ClusterStep
  PROVE  InputsInv'
<1>1. CASE RunPP
  <2>1. ~Running' /\ inputs' = inputs /\ h' = h
    BY <1>1 DEF RunPP, SetPP, Running, TypeOK, PPObj
  <2> QED BY <2>1 DEF InputsInv, RunningInputsBelong
<1>2. CASE ExpirePP
  <2>1. ~Running' /\ inputs'.by = inputs.by /\ h' = h
    BY <1>2, RemovePPInputs DEF ExpirePP
  <2> QED BY <2>1 DEF InputsInv, RunningInputsBelong
<1>3. CASE CollectGarbage
  <2>1. pp' = pp /\ inputs'.by = 0 /\ h' = h
    BY <1>3 DEF CollectGarbage, NoInputs
  <2> QED BY <2>1 DEF InputsInv, RunningInputsBelong, Running
<1>4. CASE ~RunPP /\ ~ExpirePP /\ ~CollectGarbage
  <2>1. pp' = pp /\ inputs' = inputs /\ h' = h
    BY <1>4 DEF ClusterStep, CreateJob, StartPod, FinishJob, DeleteJob,
                ToggleNamespace, PodWrites, RemovePods, post
  <2> QED BY <2>1, InputsKept
<1> QED BY <1>1, <1>2, <1>3, <1>4

\* The handler keeps it because it looks before it writes, and because the
\* look and the write do not fail.
LEMMA InputsHandler ==
  ASSUME TypeOK, InputsInv, HandlerStep,
         "list_pp" \notin Faults,
         "write_inputs" \notin Faults
  PROVE  InputsInv'
<1> USE DEF post
<1>1. CASE HandleEvent
  <2>1. pp' = pp /\ inputs' = inputs
    BY <1>1 DEF HandleEvent
  <2>2. h'.pc \notin Replacing
    BY <1>1 DEF HandleEvent, Idle, onJobEvent, onPostprocessJobEvent,
                isNamespaceOptedOut, isNamespaceEnabled, Replacing, TypeOK
  <2> QED BY <2>1, <2>2, InputsKept
<1>2. CASE QualifyRunning
  <2>1. pp' = pp /\ inputs' = inputs
    BY <1>2 DEF QualifyRunning
  <2>2. h'.pc \notin Replacing
    BY <1>2, GotoPC, ReturnPC DEF QualifyRunning, Replacing
  <2> QED BY <2>1, <2>2, InputsKept
<1>3. CASE AddFinalizer
  <2>1. pp' = pp /\ inputs' = inputs
    BY <1>3 DEF AddFinalizer
  <2>2. h'.pc \notin Replacing
    BY <1>3, GotoPC, ReturnPC DEF AddFinalizer, Replacing
  <2> QED BY <2>1, <2>2, InputsKept
<1>4. CASE QualifyFinished
  <2>1. pp' = pp /\ inputs' = inputs
    BY <1>4 DEF QualifyFinished
  <2>2. h'.pc \notin Replacing
    BY <1>4, GotoPC, ReturnPC DEF QualifyFinished, Replacing
  <2> QED BY <2>1, <2>2, InputsKept
<1>5. CASE DeleteIdentity
  <2>1. pp' = pp /\ inputs' = inputs
    BY <1>5 DEF DeleteIdentity
  <2>2. h'.pc \notin Replacing
    BY <1>5, GotoPC, ReturnPC DEF DeleteIdentity, Replacing
  <2> QED BY <2>1, <2>2, InputsKept
<1>6. CASE RemoveFinalizer
  <2>1. pp' = pp /\ inputs' = inputs
    BY <1>6 DEF RemoveFinalizer
  <2>2. h'.pc \notin Replacing
    BY <1>6, GotoPC, ReturnPC DEF RemoveFinalizer, Replacing
  <2> QED BY <2>1, <2>2, InputsKept
<1>7. CASE SetRetries
  <2>1. pp' = pp /\ inputs' = inputs
    BY <1>7 DEF SetRetries
  <2>2. h'.pc \notin Replacing
    BY <1>7, GotoPC, ReturnPC DEF SetRetries, Replacing
  <2> QED BY <2>1, <2>2, InputsKept
<1>8. CASE ListPods
  <2>1. pp' = pp /\ inputs' = inputs
    BY <1>8 DEF ListPods
  <2>2. h'.pc \notin Replacing
    BY <1>8, GotoPC, ReturnPC DEF ListPods, Replacing, TypeOK, Handler
  <2> QED BY <2>1, <2>2, InputsKept
<1>9. CASE Annotate
  <2>1. pp' = pp /\ inputs' = inputs
    BY <1>9 DEF Annotate
  <2>2. h'.pc \notin Replacing
    <3>1. Goto(AfterCreateError) \/ Goto("removeFinalizer") \/ Return
      BY <1>9 DEF Annotate
    <3>2. h'.pc \in {AfterCreateError, "removeFinalizer", "idle"}
      BY <3>1, GotoPC, ReturnPC
    <3> QED BY <3>2 DEF AfterCreateError, Replacing
  <2> QED BY <2>1, <2>2, InputsKept
<1>10. CASE DeleteWorkloadData
  <2>1. pp' = pp /\ inputs' = inputs
    BY <1>10 DEF DeleteWorkloadData
  <2>2. h'.pc \notin Replacing
    BY <1>10, GotoPC, ReturnPC DEF DeleteWorkloadData, Replacing
  <2> QED BY <2>1, <2>2, InputsKept
<1>11. CASE CollectIdentity
  <2>1. pp' = pp /\ inputs' = inputs
    BY <1>11 DEF CollectIdentity
  <2>2. h'.pc \notin Replacing
    BY <1>11, GotoPC, ReturnPC DEF CollectIdentity, Replacing
  <2> QED BY <2>1, <2>2, InputsKept
<1>12. CASE FailedEvent
  <2>1. pp' = pp /\ inputs' = inputs
    BY <1>12 DEF FailedEvent
  <2>2. h'.pc \notin Replacing
    BY <1>12, GotoPC, ReturnPC DEF FailedEvent, Replacing
  <2> QED BY <2>1, <2>2, InputsKept
<1>13. CASE ExistingPostprocessJob
  <2>1. pp' = pp /\ inputs' = inputs
    BY <1>13 DEF ExistingPostprocessJob
  <2>2. h'.pc \notin {"signingKey", "create"}
    <3>1. Goto("build") \/ Goto("delStalePP") \/ Goto("annotate") \/ Return
      BY <1>13 DEF ExistingPostprocessJob
    <3> QED BY <3>1, GotoPC, ReturnPC
  <2>3. h'.pc \in Replacing => ~Running
    <3>1. PICK ok \in BOOLEAN :
            /\ Outcome("list_pp", ok)
            /\ CASE ~ok \/ pp.uid = 0 -> Goto("build")
                 [] ok /\ pp.uid # 0 /\ pp.result = "Failed" ->
                      Goto("delStalePP")
                 [] ok /\ pp.uid # 0 /\ pp.result # "Failed" ->
                      IF pp.uid = h.job.uid THEN Goto("annotate") ELSE Return
      BY <1>13 DEF ExistingPostprocessJob
    <3>2. ok
      BY <3>1, Succeeds
    <3>3. CASE pp.uid = 0
      BY <3>3 DEF Running
    <3>4. CASE pp.uid # 0 /\ pp.result = "Failed"
      BY <3>4 DEF Running
    <3>5. CASE pp.uid # 0 /\ pp.result # "Failed"
      <4>1. Goto("annotate") \/ Return
        BY <3>1, <3>2, <3>5
      <4>2. h'.pc \in {"annotate", "idle"}
        BY <4>1, GotoPC, ReturnPC
      <4> QED BY <4>2 DEF Replacing
    <3> QED BY <3>3, <3>4, <3>5
  <2> QED BY <2>1, <2>2, <2>3 DEF InputsInv, RunningInputsBelong, Running
<1>14. CASE DeleteStalePP
  <2>1. h.pc = "delStalePP" /\ h'.pc = "delStaleInputs"
    BY <1>14, GotoPC DEF DeleteStalePP
  <2>2. ~Running'
    BY <1>14, <2>1, RemovePPInputs
       DEF DeleteStalePP, InputsInv, Replacing, Running
  <2> QED BY <2>1, <2>2 DEF InputsInv, RunningInputsBelong
<1>15. CASE DeleteStaleInputs
  <2>1. h.pc = "delStaleInputs" /\ h'.pc = "build"
    BY <1>15, GotoPC DEF DeleteStaleInputs
  <2>2. ~Running'
    BY <1>15, <2>1 DEF DeleteStaleInputs, InputsInv, Replacing, Running
  <2> QED BY <2>1, <2>2 DEF InputsInv, RunningInputsBelong
<1>16. CASE BuildInputs
  <2>1. h.pc = "build" /\ h'.pc = "writeInputs"
    BY <1>16 DEF BuildInputs, TypeOK, Handler
  <2>2. ~Running'
    BY <1>16, <2>1 DEF BuildInputs, InputsInv, Replacing, Running
  <2> QED BY <2>1, <2>2 DEF InputsInv, RunningInputsBelong
<1>17. CASE WriteInputs
  <2>1. h.pc = "writeInputs" /\ h'.pc = "signingKey" /\ h'.job = h.job
    BY <1>17, GotoPC DEF WriteInputs
  <2>2. ~Running'
    BY <1>17, <2>1 DEF WriteInputs, InputsInv, Replacing, Running
  <2>3. inputs' = [inputs EXCEPT !.by = h.job.uid, !.data = h.data]
    BY <1>17, Succeeds DEF WriteInputs
  <2>4. inputs'.by = h.job.uid
    BY <2>3 DEF TypeOK, InputsObj
  <2> QED BY <2>1, <2>2, <2>4 DEF InputsInv, RunningInputsBelong
<1>18. CASE EnsureSigningKey
  <2>1. h.pc = "signingKey" /\ h'.pc = "create" /\ h'.job = h.job
    BY <1>18, GotoPC DEF EnsureSigningKey
  <2>2. pp' = pp /\ inputs' = inputs
    BY <1>18 DEF EnsureSigningKey
  <2> QED BY <2>1, <2>2 DEF InputsInv, RunningInputsBelong, Running, Replacing
<1>19. CASE CreatePP
  <2>1. inputs' = inputs /\ inputs.by \in {0, h.job.uid} /\ ~Running
    BY <1>19 DEF CreatePP, InputsInv, Replacing
  <2>2. h'.pc \notin Replacing
    <3>1. Goto(AfterCreateError) \/ Goto("own") \/ Goto("annotate")
      BY <1>19 DEF CreatePP
    <3>2. h'.pc \in {AfterCreateError, "own", "annotate"}
      BY <3>1, GotoPC
    <3> QED BY <3>2 DEF AfterCreateError, Replacing
  <2>3. pp' = pp \/ pp'.uid = h.job.uid
    <3> DEFINE new == [uid |-> h.job.uid, result |-> "", collected |-> FALSE]
    <3>1. SetPP(new) \/ pp' = pp
      BY <1>19 DEF CreatePP
    <3>2. pp' = new \/ pp' = pp
      <4> HIDE DEF new
      <4> QED BY <3>1 DEF SetPP
    <3>3. new.uid = h.job.uid
      OBVIOUS
    <3> HIDE DEF new
    <3> QED BY <3>2, <3>3
  <2>4. RunningInputsBelong'
    BY <2>1, <2>3 DEF RunningInputsBelong, Running
  <2> QED BY <2>2, <2>4 DEF InputsInv, Replacing
<1>20. CASE OwnInputs
  <2>1. pp' = pp /\ h'.pc = "annotate"
    BY <1>20, GotoPC DEF OwnInputs
  <2>2. inputs'.by = inputs.by
    BY <1>20 DEF OwnInputs, TypeOK, InputsObj
  <2> QED BY <2>1, <2>2
          DEF InputsInv, RunningInputsBelong, Running, Replacing
<1>21. CASE MarkCollected
  <2>1. inputs' = inputs /\ h'.pc \notin Replacing
    <3>1. \/ Goto("delData") \/ Goto("failedEvent") \/ Goto("delPP")
          \/ Return
      BY <1>21 DEF MarkCollected
    <3>2. h'.pc \in {"delData", "failedEvent", "delPP", "idle"}
      BY <3>1, GotoPC, ReturnPC
    <3> QED BY <1>21, <3>2 DEF MarkCollected, Replacing
  <2>2. pp'.uid = pp.uid /\ pp'.result = pp.result
    BY <1>21 DEF MarkCollected, SetPP, TypeOK, PPObj
  <2> QED BY <2>1, <2>2
          DEF InputsInv, RunningInputsBelong, Running, Replacing
<1>22. CASE DeletePP
  <2>1. h'.pc = "delInputs"
    BY <1>22, GotoPC DEF DeletePP
  <2>2. ~Running' \/ (pp' = pp /\ inputs' = inputs)
    BY <1>22, RemovePPInputs DEF DeletePP
  <2> QED BY <2>1, <2>2
          DEF InputsInv, RunningInputsBelong, Running, Replacing
<1>23. CASE DeleteInputs
  <2>1. pp' = pp /\ h'.pc = "idle"
    BY <1>23, ReturnPC DEF DeleteInputs
  <2>2. inputs' = inputs \/ inputs'.by = 0
    BY <1>23 DEF DeleteInputs, NoInputs
  <2> QED BY <2>1, <2>2
          DEF InputsInv, RunningInputsBelong, Running, Replacing
<1> QED
  BY <1>1, <1>2, <1>3, <1>4, <1>5, <1>6, <1>7, <1>8, <1>9, <1>10, <1>11,
     <1>12, <1>13, <1>14, <1>15, <1>16, <1>17, <1>18, <1>19, <1>20, <1>21,
     <1>22, <1>23
     DEF HandlerStep

\* Only the handler's write changes what the inputs hold without removing
\* them, and it is made when nothing runs.
LEMMA InputsFrozenStep ==
  ASSUME TypeOK, InputsInv, Next, Running, inputs.by # 0, inputs'.by # 0
  PROVE  inputs'.by = inputs.by /\ inputs'.data = inputs.data
<1> USE DEF post
<1>1. CASE InformerStep
  BY <1>1 DEF InformerStep, Deliver, Resync, SyncNamespace, Crash, Restart
<1>2. CASE ClusterStep
  <2>1. CASE ExpirePP
    BY <2>1, RemovePPInputs DEF ExpirePP
  <2>2. CASE CollectGarbage
    BY <2>2 DEF CollectGarbage, NoInputs
  <2>3. CASE ~ExpirePP /\ ~CollectGarbage
    BY <1>2, <2>3
       DEF ClusterStep, CreateJob, StartPod, FinishJob, DeleteJob,
           ToggleNamespace, PodWrites, RemovePods, RunPP
  <2> QED BY <2>1, <2>2, <2>3
<1>3. CASE HandlerStep
  <2>1. CASE WriteInputs
    BY <2>1 DEF WriteInputs, InputsInv, Replacing
  <2>2. CASE OwnInputs
    BY <2>2 DEF OwnInputs, TypeOK, InputsObj
  <2>3. CASE DeleteStalePP \/ DeletePP
    BY <2>3, RemovePPInputs DEF DeleteStalePP, DeletePP
  <2>4. CASE DeleteStaleInputs \/ DeleteInputs
    BY <2>4 DEF DeleteStaleInputs, DeleteInputs, NoInputs
  <2>5. CASE ~WriteInputs /\ ~OwnInputs /\ ~DeleteStalePP /\ ~DeletePP
             /\ ~DeleteStaleInputs /\ ~DeleteInputs
    BY <1>3, <2>5
       DEF HandlerStep, HandleEvent, QualifyRunning, AddFinalizer,
           QualifyFinished, DeleteIdentity, RemoveFinalizer, SetRetries,
           ListPods, ExistingPostprocessJob, BuildInputs, EnsureSigningKey,
           CreatePP, Annotate, MarkCollected, DeleteWorkloadData,
           CollectIdentity, FailedEvent
  <2> QED BY <2>1, <2>2, <2>3, <2>4, <2>5
<1> QED BY <1>1, <1>2, <1>3 DEF Next

\* If the list of postprocess Jobs and the write of the inputs never fail, a
\* running postprocess Job never mounts another run's inputs, and no step
\* rewrites the ones it has mounted: for any number of reruns, crashes and
\* failures of the other calls (createPostprocessJobCore).
THEOREM InputsBelong ==
  ASSUME "list_pp" \notin Faults,
         "write_inputs" \notin Faults
  PROVE  Spec => [](RunningInputsBelong /\ InputsInv) /\ RunningInputsFrozen
<1>1. Init => InputsInv
  <2> SUFFICES ASSUME Init PROVE InputsInv
    OBVIOUS
  <2>1. ~Running /\ h.pc = "idle"
    BY DEF Init, Running, NoPP, Idle
  <2> QED BY <2>1 DEF InputsInv, RunningInputsBelong, Replacing
<1>2. TypeOK /\ InputsInv /\ [Next]_vars => InputsInv'
  <2> SUFFICES ASSUME TypeOK, InputsInv, [Next]_vars
               PROVE  InputsInv'
    OBVIOUS
  <2>1. CASE Next
    BY <2>1, InputsHandler, InputsInformer, InputsCluster DEF Next
  <2>2. CASE UNCHANGED vars
    BY <2>2, InputsKept DEF vars, post
  <2> QED BY <2>1, <2>2
<1>3. InputsInv => RunningInputsBelong
  BY DEF InputsInv
<1>4. TypeOK /\ InputsInv /\ [Next]_vars
      => [Running /\ pp' = pp /\ inputs.by # 0 /\ inputs'.by # 0
            => inputs'.by = inputs.by /\ inputs'.data = inputs.data]_vars
  BY InputsFrozenStep
<1> QED BY <1>1, <1>2, <1>3, <1>4, TypeCorrect, PTL
        DEF Spec, RunningInputsFrozen

-----------------------------------------------------------------------------
(* The inputs of a running postprocess Job exist, from the invariant CleanInv *)

\* What a queue of events may hold: a Job event is about a Job that exists, and
\* Clean says that no postprocess Job was seen to have failed.  Told says that
\* an event on it still brings a finished postprocess Job to collectAIBOM.
Tells(e) == e.kind = "pp" /\ e.pp.result # "" /\ ~e.pp.collected
Named(s) == \A i \in 1 .. Len(s) : s[i].kind = "job" => s[i].job.uid # 0
Clean(s) == \A i \in 1 .. Len(s) : s[i].pp.result # "Failed"
Told(s)  == \E i \in 1 .. Len(s) : Tells(s[i])

\* From the qualification of a finished Job on, the handler works for a run.
OnJob == {"qualifyB", "listPods", "existing", "delStalePP", "delStaleInputs",
          "build", "writeInputs", "signingKey", "create"}
NamedInv == Named(watch) /\ Named(queue) /\ (h.pc \in OnJob => h.job.uid # 0)

\* While no call has failed and the watcher has not crashed: no postprocess Job
\* fails, the handler creates one only when there is none and after it wrote
\* the inputs for it, one that finished is on its way to be collected (so that
\* the TTL controller never removes it), and its inputs are left to the garbage
\* collector only between its removal and theirs.
Creating   == {"build", "writeInputs", "signingKey", "create"}
Collecting == {"delData", "delIdentity", "delPP"}
CleanInv ==
  /\ up
  /\ pp.result # "Failed" /\ cache.pp.result # "Failed"
  /\ h.pp.result # "Failed"
  /\ Clean(watch) /\ Clean(queue)
  /\ h.pc \notin {"failedEvent", "delStalePP", "delStaleInputs"}
  /\ h.pc \in Creating \cup {"delInputs"} => pp.uid = 0
  /\ h.pc = "own" => pp.uid # 0
  /\ h.pc \in {"signingKey", "create"} => inputs.by = h.job.uid
  /\ Running => inputs.by = pp.uid
  /\ pp.result # "" => \/ Told(watch) \/ Told(queue)
                       \/ h.pc \in Collecting \cup {"mark"}
  /\ pp.collected => h.pc \in Collecting
  /\ inputs.owner = "dead" => h.pc = "delInputs"

Untroubled == faults = 0 /\ crashes = 0

\* An event more at the end of a queue.
LEMMA QueueAppend ==
  ASSUME NEW s \in Seq(Event), NEW e \in Event
  PROVE  /\ Named(s) /\ (e.kind = "job" => e.job.uid # 0) => Named(Append(s, e))
         /\ Clean(s) /\ e.pp.result # "Failed" => Clean(Append(s, e))
         /\ Told(s) \/ Tells(e) => Told(Append(s, e))
<1> DEFINE t == Append(s, e)
<1>1. /\ Len(t) = Len(s) + 1 /\ Len(s) \in Nat
      /\ \A i \in 1 .. Len(s) : t[i] = s[i]
      /\ t[Len(s) + 1] = e
  BY AppendProperties
<1>2. \A i \in 1 .. Len(t) : i \in 1 .. Len(s) \/ i = Len(s) + 1
  BY <1>1
<1>3. 1 .. Len(s) \subseteq 1 .. Len(t) /\ Len(s) + 1 \in 1 .. Len(t)
  BY <1>1
<1> HIDE DEF t
<1>4. Named(s) /\ (e.kind = "job" => e.job.uid # 0) => Named(t)
  BY <1>1, <1>2 DEF Named
<1>5. Clean(s) /\ e.pp.result # "Failed" => Clean(t)
  BY <1>1, <1>2 DEF Clean
<1>6. Told(s) \/ Tells(e) => Told(t)
  BY <1>1, <1>3 DEF Told
<1> QED BY <1>4, <1>5, <1>6 DEF t

\* The events that are left when the first is taken.
LEMMA QueueTail ==
  ASSUME NEW s \in Seq(Event), s # <<>>
  PROVE  /\ Named(s) => /\ Named(Tail(s))
                        /\ Head(s).kind = "job" => Head(s).job.uid # 0
         /\ Clean(s) => Clean(Tail(s)) /\ Head(s).pp.result # "Failed"
         /\ Told(s) => Told(Tail(s)) \/ Tells(Head(s))
<1> DEFINE t == Tail(s)
<1>1. /\ Len(s) \in Nat /\ Len(s) > 0 /\ Len(t) = Len(s) - 1
      /\ Head(s) = s[1]
      /\ \A i \in 1 .. Len(t) : t[i] = s[i + 1]
  BY HeadTailProperties
<1>2. /\ \A i \in 1 .. Len(t) : i + 1 \in 1 .. Len(s)
      /\ 1 \in 1 .. Len(s)
  BY <1>1
<1>3. \A i \in 1 .. Len(s) : i = 1 \/ (i - 1 \in 1 .. Len(t) /\ t[i - 1] = s[i])
  BY <1>1
<1> HIDE DEF t
<1>4. Named(s) => Named(t) /\ (Head(s).kind = "job" => Head(s).job.uid # 0)
  BY <1>1, <1>2 DEF Named
<1>5. Clean(s) => Clean(t) /\ Head(s).pp.result # "Failed"
  BY <1>1, <1>2 DEF Clean
<1>6. Told(s) => Told(t) \/ Tells(Head(s))
  BY <1>1, <1>3 DEF Told
<1> QED BY <1>4, <1>5, <1>6 DEF t

\* Two queues after each other.
LEMMA QueueConcat ==
  ASSUME NEW s \in Seq(Event), NEW t \in Seq(Event)
  PROVE  /\ Named(s) /\ Named(t) => Named(s \o t)
         /\ Clean(s) /\ Clean(t) => Clean(s \o t)
         /\ Told(s) => Told(s \o t)
<1> DEFINE u == s \o t
<1>1. /\ Len(s) \in Nat /\ Len(t) \in Nat /\ Len(u) = Len(s) + Len(t)
      /\ \A i \in 1 .. Len(s) + Len(t) :
           u[i] = IF i <= Len(s) THEN s[i] ELSE t[i - Len(s)]
  BY ConcatProperties
<1> HIDE DEF u
<1>2. \A i \in 1 .. Len(u) :
        \/ i \in 1 .. Len(s) /\ u[i] = s[i]
        \/ i - Len(s) \in 1 .. Len(t) /\ u[i] = t[i - Len(s)]
  BY <1>1
<1>3. \A i \in 1 .. Len(s) : i \in 1 .. Len(u) /\ u[i] = s[i]
  BY <1>1
<1>4. Named(s) /\ Named(t) => Named(u)
  BY <1>2 DEF Named
<1>5. Clean(s) /\ Clean(t) => Clean(u)
  BY <1>2 DEF Clean
<1>6. Told(s) => Told(u)
  BY <1>3 DEF Told
<1> QED BY <1>4, <1>5, <1>6 DEF u

\* What the informer lists of the objects j and p.
LEMMA QueueListing ==
  ASSUME NEW j \in JobObj, NEW p \in PPObj, NEW events \in Listings(j, p)
  PROVE  /\ events \in Seq(Event) /\ Named(events)
         /\ p.result # "Failed" => Clean(events)
<1> DEFINE a == IF j.uid = 0 THEN <<>> ELSE <<JobEvent(j, FALSE)>>
           b == IF p.uid = 0 THEN <<>> ELSE <<PPEvent(p, FALSE)>>
<1>1. JobEvent(j, FALSE) \in Event /\ PPEvent(p, FALSE) \in Event
  BY AbsentTypes DEF JobEvent, PPEvent, Event
<1>2. a \in Seq(Event) /\ Named(a) /\ Clean(a)
  <2>1. <<JobEvent(j, FALSE)>> \in Seq(Event) /\ <<>> \in Seq(Event)
    <3>1. <<JobEvent(j, FALSE)>> \in Seq(Event)
      BY <1>1, Singleton
    <3>2. <<>> \in Seq(Event)
      OBVIOUS
    <3> QED BY <3>1, <3>2
  <2>2. Named(<<>>) /\ Clean(<<>>)
    BY DEF Named, Clean
  <2>3. j.uid # 0 => Named(<<JobEvent(j, FALSE)>>)
    BY DEF Named, JobEvent
  <2>4. Clean(<<JobEvent(j, FALSE)>>)
    <3>1. JobEvent(j, FALSE).pp.result = ""
      BY DEF JobEvent, NoPP
    <3>2. ASSUME NEW e \in Event, e.pp.result = ""
          PROVE  Clean(<<e>>)
      <4>1. Len(<<e>>) = 1 /\ <<e>>[1] = e
        OBVIOUS
      <4> DEFINE s == <<e>>
      <4>2. \A i \in 1 .. Len(s) : s[i] = e
        BY <4>1
      <4> HIDE DEF s, a
      <4>3. Clean(s)
        BY <3>2, <4>2 DEF Clean
      <4> QED BY <4>3 DEF s
    <3> QED BY <1>1, <3>1, <3>2
  <2>5. CASE j.uid = 0
    BY <2>1, <2>2, <2>5
  <2>6. CASE j.uid # 0
    BY <2>1, <2>3, <2>4, <2>6
  <2> QED BY <2>5, <2>6
<1>3. b \in Seq(Event) /\ Named(b) /\ (p.result # "Failed" => Clean(b))
  <2>1. <<PPEvent(p, FALSE)>> \in Seq(Event) /\ <<>> \in Seq(Event)
    <3>1. <<PPEvent(p, FALSE)>> \in Seq(Event)
      BY <1>1, Singleton
    <3>2. <<>> \in Seq(Event)
      OBVIOUS
    <3> QED BY <3>1, <3>2
  <2>2. Named(<<>>) /\ Clean(<<>>)
    BY DEF Named, Clean
  <2>3. Named(<<PPEvent(p, FALSE)>>)
    BY DEF Named, PPEvent
  <2>4. p.result # "Failed" => Clean(<<PPEvent(p, FALSE)>>)
    BY DEF Clean, PPEvent
  <2>5. CASE p.uid = 0
    BY <2>1, <2>2, <2>5
  <2>6. CASE p.uid # 0
    BY <2>1, <2>3, <2>4, <2>6
  <2> QED BY <2>5, <2>6
<1>4. events = a \o b \/ events = b \o a
  BY DEF Listings
<1> HIDE DEF a, b
<1>5. /\ a \o b \in Seq(Event) /\ b \o a \in Seq(Event)
      /\ Named(a \o b) /\ Named(b \o a)
      /\ p.result # "Failed" => Clean(a \o b) /\ Clean(b \o a)
  BY <1>2, <1>3, QueueConcat
<1> QED BY <1>4, <1>5

\* What an update of the workload's Job tells the informer.
LEMMA JobTold ==
  ASSUME TypeOK, NEW o \in JobObj, SetJob(o), o = job \/ o.uid # 0 \/ job.uid # 0
  PROVE  /\ Named(watch) => Named(watch')
         /\ Clean(watch) => Clean(watch')
         /\ Told(watch) => Told(watch')
<1>1. [job EXCEPT !.fin = FALSE] \in JobObj
      /\ [job EXCEPT !.fin = FALSE].uid = job.uid
  BY DEF TypeOK, JobObj
<1> DEFINE x == JobEvent(o, FALSE)
           y == JobEvent([job EXCEPT !.fin = FALSE], TRUE)
<1>2. x \in Event /\ y \in Event
  BY <1>1, AbsentTypes DEF JobEvent, Event
<1>3. x.pp.result = "" /\ y.pp.result = "" /\ x.job = o /\ y.job.uid = job.uid
  BY <1>1 DEF JobEvent, NoPP
<1>4. \/ watch' = watch
      \/ o # job /\ o.uid # 0 /\ watch' = Append(watch, x)
      \/ o # job /\ o.uid = 0 /\ watch' = Append(watch, y)
  BY DEF SetJob
<1>5. watch \in Seq(Event)
  BY DEF TypeOK
<1> HIDE DEF x, y
<1> QED BY <1>2, <1>3, <1>4, <1>5, QueueAppend

\* What an update of the postprocess Job tells it.
LEMMA PPTold ==
  ASSUME TypeOK, NEW o \in PPObj, SetPP(o)
  PROVE  /\ Named(watch) => Named(watch')
         /\ Clean(watch) /\ o.result # "Failed" /\ pp.result # "Failed"
              => Clean(watch')
         /\ Told(watch) => Told(watch')
         /\ up /\ o # pp /\ o.uid # 0 /\ o.result # "" /\ ~o.collected
              => Told(watch')
<1> DEFINE x == PPEvent(o, FALSE)
           y == PPEvent(pp, TRUE)
<1>1. x \in Event /\ y \in Event
  BY AbsentTypes DEF PPEvent, Event, TypeOK
<1>2. x.kind = "pp" /\ y.kind = "pp" /\ x.pp = o /\ y.pp = pp
  BY DEF PPEvent
<1>3. /\ \/ watch' = watch
         \/ watch' = Append(watch, x)
         \/ watch' = Append(watch, y)
      /\ up /\ o # pp /\ o.uid # 0 => watch' = Append(watch, x)
  BY DEF SetPP
<1>4. watch \in Seq(Event)
  BY DEF TypeOK
<1> HIDE DEF x, y
<1>5. o.result # "" /\ ~o.collected => Tells(x)
  BY <1>2 DEF Tells
<1> QED BY <1>1, <1>2, <1>3, <1>4, <1>5, QueueAppend

\* What the handler works on stays the same from one call to the next.
LEMMA GotoKeeps ==
  ASSUME TypeOK, NEW pc, Goto(pc)
  PROVE  h'.pc = pc /\ h'.job = h.job /\ h'.pp = h.pp
BY DEF Goto, TypeOK, Handler

\* The idle handler works on nothing.
LEMMA ReturnDrops ==
  ASSUME Return
  PROVE  h'.pc = "idle" /\ h'.pp.result = ""
BY DEF Return, Idle, NoPP

\* The handler's calls on the Job are made for a Job that exists, and the
\* events on one carry its UID.
LEMMA NamedStep ==
  ASSUME TypeOK, NamedInv, Next
  PROVE  NamedInv'
<1> USE DEF workload, shared, post, ns, informer, process, history
<1>1. CASE InformerStep
  <2>1. CASE Deliver
    <3>1. Head(watch) \in Event /\ Tail(watch) \in Seq(Event)
      BY <2>1, HeadTail DEF Deliver, TypeOK
    <3>2. Named(watch') /\ Named(queue')
      BY <2>1, <3>1, QueueTail, QueueAppend DEF Deliver, NamedInv, TypeOK
    <3> QED BY <2>1, <3>2 DEF Deliver, NamedInv
  <2>2. CASE Resync
    <3>1. PICK events \in Listings(cache.job, cache.pp) :
            queue' = queue \o events
      BY <2>2 DEF Resync
    <3>2. cache.job \in JobObj /\ cache.pp \in PPObj /\ queue \in Seq(Event)
      BY DEF TypeOK
    <3>3. Named(queue')
      BY <3>1, <3>2, QueueListing, QueueConcat DEF NamedInv
    <3> QED BY <2>2, <3>3 DEF Resync, NamedInv
  <2>3. CASE SyncNamespace
    BY <2>3 DEF SyncNamespace, NamedInv
  <2>4. CASE Crash
    BY <2>4 DEF Crash, NamedInv, Named, Idle, OnJob
  <2>5. CASE Restart
    <3>1. Named(queue')
      BY <2>5, QueueListing DEF Restart, TypeOK
    <3> QED BY <2>5, <3>1 DEF Restart, NamedInv
  <2> QED BY <1>1, <2>1, <2>2, <2>3, <2>4, <2>5 DEF InformerStep
<1>2. CASE ClusterStep
  <2>1. h' = h /\ queue' = queue
    BY <1>2 DEF ClusterStep, CreateJob, StartPod, FinishJob, DeleteJob,
                ToggleNamespace, PodWrites, RemovePods, RunPP, ExpirePP,
                CollectGarbage
  <2>2. Named(watch')
    <3>1. CASE CreateJob
      <4>1. [NoJob EXCEPT !.uid = last + 1] \in JobObj
            /\ [NoJob EXCEPT !.uid = last + 1].uid # 0
        <5>1. last + 1 \in 0 .. MaxRuns /\ last + 1 # 0
          BY <3>1, ConstantsAssumption DEF CreateJob, TypeOK
        <5> QED BY <5>1, AbsentTypes DEF JobObj
      <4> DEFINE o == [NoJob EXCEPT !.uid = last + 1]
      <4>2. SetJob(o)
        BY <3>1 DEF CreateJob
      <4> HIDE DEF o
      <4> QED BY <4>1, <4>2, JobTold DEF NamedInv, o
    <3>2. CASE FinishJob
      <4>1. [job EXCEPT !.finished = TRUE] \in JobObj /\ job.uid # 0
        BY <3>2 DEF FinishJob, TypeOK, JobObj
      <4> QED BY <3>2, <4>1, JobTold DEF FinishJob, NamedInv
    <3>3. CASE DeleteJob
      <4>1. [job EXCEPT !.deleting = TRUE] \in JobObj /\ job.uid # 0
        BY <3>3 DEF DeleteJob, TypeOK, JobObj
      <4> QED BY <3>3, <4>1, JobTold, AbsentTypes DEF DeleteJob, NamedInv
    <3>4. CASE RunPP
      <4>1. PICK o \in PPObj : SetPP(o)
        <5>1. PICK ok \in BOOLEAN :
                SetPP([pp EXCEPT !.result = IF ok THEN "Complete" ELSE "Failed"])
          BY <3>4 DEF RunPP
        <5>2. [pp EXCEPT !.result = IF ok THEN "Complete" ELSE "Failed"] \in PPObj
          BY DEF TypeOK, PPObj
        <5> QED BY <5>1, <5>2
      <4> QED BY <4>1, PPTold DEF NamedInv
    <3>5. CASE ExpirePP
      BY <3>5, PPTold, AbsentTypes DEF ExpirePP, RemovePP, NamedInv
    <3>6. CASE ~CreateJob /\ ~FinishJob /\ ~DeleteJob /\ ~RunPP /\ ~ExpirePP
      <4>1. watch' = watch
        BY <1>2, <3>6 DEF ClusterStep, StartPod, ToggleNamespace, PodWrites,
                          RemovePods, CollectGarbage
      <4> QED BY <4>1 DEF NamedInv
    <3> QED BY <3>1, <3>2, <3>3, <3>4, <3>5, <3>6
  <2> QED BY <2>1, <2>2 DEF NamedInv
<1>3. CASE HandlerStep
  <2>1. CASE HandleEvent
    <3>1. Named(queue') /\ watch' = watch
          /\ (Head(queue).kind = "job" => Head(queue).job.uid # 0)
      BY <2>1, QueueTail DEF HandleEvent, NamedInv, TypeOK
    <3>2. h'.pc \in OnJob => h'.job.uid # 0
      <4>1. CASE Head(queue).kind = "job"
        <5>1. h'.pc \in OnJob => h'.job = Head(queue).job
          BY <2>1, <4>1 DEF HandleEvent, Idle, OnJob
        <5> QED BY <3>1, <4>1, <5>1
      <4>2. CASE Head(queue).kind # "job"
        BY <2>1, <4>2 DEF HandleEvent, Idle, OnJob, onPostprocessJobEvent
      <4> QED BY <4>1, <4>2
    <3> QED BY <3>1, <3>2 DEF NamedInv
  <2>2. CASE ~HandleEvent
    <3>1. queue' = queue
      BY <1>3, <2>2
         DEF HandlerStep, QualifyRunning, AddFinalizer, QualifyFinished,
             DeleteIdentity, RemoveFinalizer, SetRetries, ListPods,
             ExistingPostprocessJob, DeleteStalePP, DeleteStaleInputs,
             BuildInputs, WriteInputs, EnsureSigningKey, CreatePP, OwnInputs,
             Annotate, MarkCollected, DeleteWorkloadData, CollectIdentity,
             FailedEvent, DeletePP, DeleteInputs
    <3>2. Named(watch')
      <4>1. \/ watch' = watch
            \/ \E o \in JobObj : SetJob(o) /\ (o = job \/ o.uid # 0 \/ job.uid # 0)
            \/ \E o \in PPObj : SetPP(o)
        <5>1. CASE AddFinalizer
          <6>1. [job EXCEPT !.fin = TRUE] \in JobObj
            BY DEF TypeOK, JobObj
          <6> QED BY <5>1, <6>1 DEF AddFinalizer, TypeOK
        <5>2. CASE RemoveFinalizer
          <6>1. [job EXCEPT !.fin = FALSE] \in JobObj
            BY DEF TypeOK, JobObj
          <6> QED BY <5>2, <6>1, AbsentTypes DEF RemoveFinalizer, TypeOK
        <5>3. CASE SetRetries
          <6>1. [job EXCEPT !.retries = h.job.retries + 1] \in JobObj
            <7>1. h.job.retries + 1 \in Nat
              BY DEF TypeOK, Handler, JobObj
            <7> QED BY <7>1 DEF TypeOK, JobObj
          <6> QED BY <5>3, <6>1 DEF SetRetries, TypeOK
        <5>4. CASE Annotate
          <6>1. [job EXCEPT !.ann = TRUE] \in JobObj
            BY DEF TypeOK, JobObj
          <6> QED BY <5>4, <6>1 DEF Annotate, TypeOK
        <5>5. CASE DeleteStalePP \/ DeletePP
          BY <5>5, AbsentTypes DEF DeleteStalePP, DeletePP, RemovePP
        <5>6. CASE CreatePP
          <6>1. [uid |-> h.job.uid, result |-> "", collected |-> FALSE] \in PPObj
            BY DEF TypeOK, PPObj, Handler, JobObj
          <6> QED BY <5>6, <6>1 DEF CreatePP
        <5>7. CASE MarkCollected
          <6>1. [pp EXCEPT !.collected = TRUE] \in PPObj
            BY DEF TypeOK, PPObj
          <6> QED BY <5>7, <6>1 DEF MarkCollected, TypeOK
        <5>8. CASE ~AddFinalizer /\ ~RemoveFinalizer /\ ~SetRetries
                   /\ ~Annotate /\ ~DeleteStalePP /\ ~DeletePP /\ ~CreatePP
                   /\ ~MarkCollected
          BY <1>3, <2>2, <5>8
             DEF HandlerStep, QualifyRunning, QualifyFinished, DeleteIdentity,
                 ListPods, ExistingPostprocessJob, DeleteStaleInputs,
                 BuildInputs, WriteInputs, EnsureSigningKey, OwnInputs,
                 DeleteWorkloadData, CollectIdentity, FailedEvent,
                 DeleteInputs
        <5> QED BY <5>1, <5>2, <5>3, <5>4, <5>5, <5>6, <5>7, <5>8
      <4> QED BY <4>1, JobTold, PPTold DEF NamedInv
    <3>3. h'.pc \in OnJob => h.pc \in OnJob /\ h'.job = h.job
      <4>1. CASE ListPods \/ BuildInputs
        BY <4>1 DEF ListPods, BuildInputs, OnJob, TypeOK, Handler
      <4>2. CASE ~ListPods /\ ~BuildInputs
        <5>1. \/ \E pc \in PCs \ OnJob : Goto(pc)
              \/ Return
              \/ h.pc \in OnJob /\ \E pc \in PCs : Goto(pc)
          BY <1>3, <2>2, <4>2
             DEF HandlerStep, QualifyRunning, AddFinalizer, QualifyFinished,
                 DeleteIdentity, RemoveFinalizer, SetRetries,
                 ExistingPostprocessJob, DeleteStalePP, DeleteStaleInputs,
                 WriteInputs, EnsureSigningKey, CreatePP, OwnInputs,
                 Annotate, MarkCollected, DeleteWorkloadData, CollectIdentity,
                 FailedEvent, DeletePP, DeleteInputs, AfterCreateError, PCs,
                 OnJob
        <5> QED BY <5>1, GotoKeeps, ReturnDrops DEF OnJob
      <4> QED BY <4>1, <4>2
    <3> QED BY <3>1, <3>2, <3>3 DEF NamedInv
  <2> QED BY <2>1, <2>2
<1> QED BY <1>1, <1>2, <1>3 DEF Next

\* While no call fails, every call but a refused create succeeds.
LEMMA CallSucceeds ==
  ASSUME TypeOK, NEW call, NEW ok \in BOOLEAN, Outcome(call, ok),
         faults' = 0, call # "create_pp"
  PROVE  ok
BY DEF Outcome, Refused, TypeOK

\* The program counters about which CleanInv says nothing.
Plain == PCs \ (Creating \cup Collecting
                \cup {"own", "mark", "delInputs", "failedEvent", "delStalePP",
                      "delStaleInputs"})

\* Steps that touch neither the postprocess Job nor its inputs.
LEMMA CleanKept ==
  ASSUME CleanInv, up' = up, pp' = pp, inputs' = inputs, cache'.pp = cache.pp,
         Clean(watch'), Clean(queue'),
         Told(watch) \/ Told(queue) => Told(watch') \/ Told(queue'),
         \/ h' = h
         \/ h.pc \in Plain \cup {"own"} /\ h'.pc \in Plain
            /\ h'.pp.result # "Failed"
  PROVE  CleanInv'
<1>1. CASE h' = h
  BY <1>1 DEF CleanInv, Running
<1>2. CASE h.pc \in Plain \cup {"own"} /\ h'.pc \in Plain
           /\ h'.pp.result # "Failed"
  <2>1. Told(watch) \/ Told(queue) \/ pp.result = ""
    BY <1>2 DEF CleanInv, Plain, Collecting
  <2>2. ~pp.collected /\ inputs.owner # "dead"
    BY <1>2 DEF CleanInv, Plain, Collecting
  <2>3. h'.pc \notin Creating \cup Collecting
                     \cup {"own", "mark", "delInputs", "failedEvent",
                           "delStalePP", "delStaleInputs"}
    BY <1>2 DEF Plain
  <2> QED BY <1>2, <2>1, <2>2, <2>3 DEF CleanInv, Running, Creating, Collecting
<1> QED BY <1>1, <1>2

\* The informer loses no event while the watcher runs.
LEMMA CleanInformer ==
  ASSUME TypeOK, CleanInv, InformerStep, crashes' = 0
  PROVE  CleanInv'
<1> USE DEF workload, shared, post, ns, informer, process, history
<1>1. CASE Deliver
  <2>1. Head(watch) \in Event /\ Tail(watch) \in Seq(Event)
        /\ watch \in Seq(Event) /\ queue \in Seq(Event) /\ watch # <<>>
    BY <1>1, HeadTail DEF Deliver, TypeOK
  <2>2. /\ watch' = Tail(watch) /\ queue' = Append(queue, Head(watch))
        /\ up' = up /\ pp' = pp /\ inputs' = inputs /\ h' = h
    BY <1>1 DEF Deliver
  <2>3. Clean(watch) /\ Clean(queue)
    BY DEF CleanInv
  <2>4. Clean(watch') /\ Clean(queue') /\ Head(watch).pp.result # "Failed"
    BY <2>1, <2>2, <2>3, QueueTail, QueueAppend
  <2>5. Told(watch) \/ Told(queue) => Told(watch') \/ Told(queue')
    BY <2>1, <2>2, QueueTail, QueueAppend
  <2>6. cache'.pp.result # "Failed"
    BY <1>1, <2>4 DEF Deliver, CleanInv, NoPP, TypeOK
  <2> QED BY <2>2, <2>4, <2>5, <2>6 DEF CleanInv, Running
<1>2. CASE Resync
  <2>1. PICK events \in Listings(cache.job, cache.pp) :
          queue' = queue \o events
    BY <1>2 DEF Resync
  <2>2. cache.job \in JobObj /\ cache.pp \in PPObj /\ queue \in Seq(Event)
    BY DEF TypeOK
  <2>3. cache.pp.result # "Failed" /\ Clean(queue) /\ Clean(watch)
    BY DEF CleanInv
  <2>4. events \in Seq(Event) /\ Clean(events)
    BY <2>1, <2>2, <2>3, QueueListing
  <2>5. Clean(queue') /\ (Told(queue) => Told(queue'))
    BY <2>1, <2>2, <2>3, <2>4, QueueConcat
  <2>6. /\ watch' = watch /\ cache' = cache /\ up' = up /\ pp' = pp
        /\ inputs' = inputs /\ h' = h
    BY <1>2 DEF Resync
  <2>7. Clean(watch') /\ (Told(watch) => Told(watch'))
    BY <2>3, <2>6
  <2> QED BY <2>5, <2>6, <2>7, CleanKept
<1>3. CASE SyncNamespace
  <2>1. /\ up' = up /\ pp' = pp /\ inputs' = inputs /\ cache' = cache /\ h' = h
        /\ watch' = watch /\ queue' = queue
    BY <1>3 DEF SyncNamespace
  <2> QED BY <2>1 DEF CleanInv, Running
<1>4. CASE Crash
  BY <1>4 DEF Crash, TypeOK
<1>5. CASE Restart
  BY <1>5 DEF Restart, CleanInv
<1> QED BY <1>1, <1>2, <1>3, <1>4, <1>5 DEF InformerStep

\* The cluster finishes postprocess Jobs and tells so; it never finds a
\* finished one whose event is still to come, nor inputs to collect.
LEMMA CleanCluster ==
  ASSUME TypeOK, CleanInv, ClusterStep, faults' = 0
  PROVE  CleanInv'
<1> USE DEF workload, shared, post, ns, informer, process, history
<1>1. CASE RunPP
  <2>1. PICK ok \in BOOLEAN :
          /\ Outcome("run", ok)
          /\ SetPP([pp EXCEPT !.result = IF ok THEN "Complete" ELSE "Failed"])
    BY <1>1 DEF RunPP
  <2>2. ok
    BY <2>1, CallSucceeds
  <2> DEFINE o == [pp EXCEPT !.result = "Complete"]
  <2>3. SetPP(o)
    BY <2>1, <2>2
  <2>4. /\ o \in PPObj /\ o.result = "Complete" /\ o.uid = pp.uid
        /\ o.collected = pp.collected
    BY DEF TypeOK, PPObj
  <2>5. pp.uid # 0 /\ pp.result = ""
    BY <1>1 DEF RunPP
  <2>6. /\ up' = up /\ inputs' = inputs /\ cache' = cache /\ queue' = queue
        /\ h' = h
    BY <1>1 DEF RunPP
  <2> HIDE DEF o
  <2>7. pp' = o
    BY <2>3 DEF SetPP
  <2>8. Clean(watch')
    BY <2>3, <2>4, <2>5, PPTold DEF CleanInv
  <2>9. pp.collected \/ Told(watch')
    BY <2>3, <2>4, <2>5, PPTold DEF CleanInv, TypeOK, PPObj
  <2>10. pp.result = "" /\ ~Running'
    BY <2>4, <2>5, <2>7 DEF Running
  <2> QED BY <2>4, <2>5, <2>6, <2>7, <2>8, <2>9, <2>10 DEF CleanInv
<1>2. CASE ExpirePP
  <2>1. pp.result # "" /\ watch = <<>> /\ queue = <<>> /\ h.pc = "idle"
    BY <1>2 DEF ExpirePP
  <2>2. ~Told(<<>>)
    BY DEF Told
  <2> QED BY <2>1, <2>2 DEF CleanInv, Collecting
<1>3. CASE CollectGarbage
  <2>1. h.pc = "delInputs" /\ inputs' = NoInputs
    BY <1>3 DEF CollectGarbage, CleanInv
  <2>2. /\ up' = up /\ pp' = pp /\ cache' = cache /\ watch' = watch
        /\ queue' = queue /\ h' = h
    BY <1>3 DEF CollectGarbage
  <2>3. NoInputs.owner = "none"
    BY DEF NoInputs
  <2> QED BY <2>1, <2>2, <2>3 DEF CleanInv, Running
<1>4. CASE ~RunPP /\ ~ExpirePP /\ ~CollectGarbage
  <2>1. /\ up' = up /\ pp' = pp /\ inputs' = inputs /\ cache' = cache /\ h' = h
        /\ queue' = queue
    BY <1>4 DEF ClusterStep, CreateJob, StartPod, FinishJob, DeleteJob,
                ToggleNamespace, PodWrites, RemovePods
  <2>2. \/ watch' = watch
        \/ \E o \in JobObj : SetJob(o) /\ (o = job \/ o.uid # 0 \/ job.uid # 0)
    <3>1. CASE CreateJob
      <4>1. [NoJob EXCEPT !.uid = last + 1] \in JobObj
            /\ [NoJob EXCEPT !.uid = last + 1].uid # 0
        <5>1. last + 1 \in 0 .. MaxRuns /\ last + 1 # 0
          BY <3>1, ConstantsAssumption DEF CreateJob, TypeOK
        <5> QED BY <5>1, AbsentTypes DEF JobObj
      <4> QED BY <3>1, <4>1 DEF CreateJob
    <3>2. CASE FinishJob
      <4>1. [job EXCEPT !.finished = TRUE] \in JobObj
        BY DEF TypeOK, JobObj
      <4> QED BY <3>2, <4>1 DEF FinishJob
    <3>3. CASE DeleteJob
      <4>1. [job EXCEPT !.deleting = TRUE] \in JobObj
        BY DEF TypeOK, JobObj
      <4> QED BY <3>3, <4>1, AbsentTypes DEF DeleteJob
    <3>4. CASE ~CreateJob /\ ~FinishJob /\ ~DeleteJob
      BY <1>4, <3>4 DEF ClusterStep, StartPod, ToggleNamespace, PodWrites,
                        RemovePods
    <3> QED BY <3>1, <3>2, <3>3, <3>4
  <2>3. Clean(watch) /\ Clean(queue)
    BY DEF CleanInv
  <2>4. Clean(watch') /\ (Told(watch) => Told(watch'))
    BY <2>2, <2>3, JobTold
  <2> QED BY <2>1, <2>3, <2>4, CleanKept
<1> QED BY <1>1, <1>2, <1>3, <1>4

\* The handler creates a postprocess Job after it wrote its inputs, and once a
\* postprocess Job has finished it collects it and removes both.
LEMMA CleanHandler ==
  ASSUME TypeOK, NamedInv, CleanInv, HandlerStep, ~DebugKeep, faults' = 0
  PROVE  CleanInv'
<1> USE DEF workload, shared, post, ns, informer, process, history
<1>0. Clean(watch) /\ Clean(queue) /\ h.pp.result # "Failed"
  BY DEF CleanInv
<1>1. CASE HandleEvent
  <2>1. /\ queue \in Seq(Event) /\ queue # <<>> /\ queue' = Tail(queue)
        /\ watch' = watch /\ up' = up /\ pp' = pp /\ inputs' = inputs
        /\ cache' = cache /\ h.pc = "idle"
    BY <1>1 DEF HandleEvent, TypeOK
  <2>2. /\ Clean(queue') /\ Head(queue).pp.result # "Failed"
        /\ Told(queue) => Told(queue') \/ Tells(Head(queue))
    BY <1>0, <2>1, QueueTail
  <2>3. h'.pp.result # "Failed"
    BY <1>1, <2>2 DEF HandleEvent, Idle, NoPP
  <2>4. CASE Tells(Head(queue))
    <3>1. h'.pc = "mark"
      BY <1>1, <2>4 DEF HandleEvent, Idle, Tells, onPostprocessJobEvent
    <3> QED BY <1>0, <2>1, <2>2, <2>3, <3>1
            DEF CleanInv, Running, Creating, Collecting
  <2>5. CASE ~Tells(Head(queue))
    <3>1. h'.pc \in Plain
      <4>1. h'.pc \in {"idle", "removeFinalizer", "qualifyA", "qualifyB"}
        <5>1. CASE Head(queue).kind = "job"
          <6>1. onJobEvent(Head(queue).job)
                  \in {"idle", "removeFinalizer", "qualifyA", "qualifyB"}
            BY DEF onJobEvent, isNamespaceOptedOut, isNamespaceEnabled, TypeOK
          <6> QED BY <1>1, <5>1, <6>1 DEF HandleEvent, Idle
        <5>2. CASE Head(queue).kind # "job"
          <6>1. Head(queue).kind = "pp"
            <7>1. Head(queue) \in Event
              BY <2>1, HeadTail
            <7> QED BY <5>2, <7>1 DEF Event
          <6>2. onPostprocessJobEvent(Head(queue).pp) = "idle"
            BY <2>5, <6>1 DEF Tells, onPostprocessJobEvent
          <6> QED BY <1>1, <5>2, <6>2 DEF HandleEvent, Idle
        <5> QED BY <5>1, <5>2
      <4> QED BY <4>1 DEF Plain, PCs, Creating, Collecting
    <3>2. h.pc \in Plain
      BY <2>1 DEF Plain, PCs, Creating, Collecting
    <3> QED BY <1>0, <2>1, <2>2, <2>3, <2>5, <3>1, <3>2, CleanKept
  <2> QED BY <2>4, <2>5
\* The calls on the workload's Job, and those that only read.
<1>2. ASSUME QualifyRunning \/ AddFinalizer \/ QualifyFinished \/ DeleteIdentity
             \/ RemoveFinalizer \/ SetRetries \/ ListPods \/ Annotate
      PROVE  CleanInv'
  <2>1. /\ up' = up /\ pp' = pp /\ inputs' = inputs /\ cache' = cache
        /\ queue' = queue
    BY <1>2 DEF QualifyRunning, AddFinalizer, QualifyFinished, DeleteIdentity,
                RemoveFinalizer, SetRetries, ListPods, Annotate
  <2>2. h.pc \in Plain
    BY <1>2 DEF QualifyRunning, AddFinalizer, QualifyFinished, DeleteIdentity,
                RemoveFinalizer, SetRetries, ListPods, Annotate, Plain, PCs,
                Creating, Collecting
  <2>3. h'.pc \in Plain /\ h'.pp.result # "Failed"
    <3>1. CASE ListPods
      BY <1>0, <3>1 DEF ListPods, TypeOK, Handler, Plain, PCs, Creating,
                        Collecting
    <3>2. CASE ~ListPods
      <4>1. Return \/ \E pc \in Plain : Goto(pc)
        BY <1>2, <3>2
           DEF QualifyRunning, AddFinalizer, QualifyFinished, DeleteIdentity,
               RemoveFinalizer, SetRetries, Annotate, AfterCreateError, Plain,
               PCs, Creating, Collecting
      <4>2. "idle" \in Plain
        BY DEF Plain, PCs, Creating, Collecting
      <4> QED BY <1>0, <4>1, <4>2, GotoKeeps, ReturnDrops
    <3> QED BY <3>1, <3>2
  <2>4. \/ watch' = watch
        \/ \E o \in JobObj : SetJob(o) /\ (o = job \/ o.uid # 0 \/ job.uid # 0)
    <3>1. CASE AddFinalizer
      <4>1. [job EXCEPT !.fin = TRUE] \in JobObj
        BY DEF TypeOK, JobObj
      <4> QED BY <3>1, <4>1 DEF AddFinalizer, TypeOK
    <3>2. CASE RemoveFinalizer
      <4>1. [job EXCEPT !.fin = FALSE] \in JobObj
        BY DEF TypeOK, JobObj
      <4> QED BY <3>2, <4>1, AbsentTypes DEF RemoveFinalizer, TypeOK
    <3>3. CASE SetRetries
      <4>1. [job EXCEPT !.retries = h.job.retries + 1] \in JobObj
        <5>1. h.job.retries + 1 \in Nat
          BY DEF TypeOK, Handler, JobObj
        <5> QED BY <5>1 DEF TypeOK, JobObj
      <4> QED BY <3>3, <4>1 DEF SetRetries, TypeOK
    <3>4. CASE Annotate
      <4>1. [job EXCEPT !.ann = TRUE] \in JobObj
        BY DEF TypeOK, JobObj
      <4> QED BY <3>4, <4>1 DEF Annotate, TypeOK
    <3>5. CASE QualifyRunning \/ QualifyFinished \/ DeleteIdentity \/ ListPods
      BY <3>5 DEF QualifyRunning, QualifyFinished, DeleteIdentity, ListPods
    <3> QED BY <1>2, <3>1, <3>2, <3>3, <3>4, <3>5
  <2>5. Clean(watch') /\ (Told(watch) => Told(watch'))
    BY <1>0, <2>4, JobTold
  <2> QED BY <1>0, <2>1, <2>2, <2>3, <2>5, CleanKept
\* createPostprocessJob.
<1>3. CASE ExistingPostprocessJob
  <2>1. PICK ok \in BOOLEAN :
          /\ Outcome("list_pp", ok)
          /\ CASE ~ok \/ pp.uid = 0 -> Goto("build")
               [] ok /\ pp.uid # 0 /\ pp.result = "Failed" ->
                    Goto("delStalePP")
               [] ok /\ pp.uid # 0 /\ pp.result # "Failed" ->
                    IF pp.uid = h.job.uid THEN Goto("annotate") ELSE Return
    BY <1>3 DEF ExistingPostprocessJob
  <2>2. ok
    BY <2>1, CallSucceeds
  <2>3. /\ up' = up /\ pp' = pp /\ inputs' = inputs /\ cache' = cache
        /\ queue' = queue /\ watch' = watch /\ h.pc = "existing"
    BY <1>3 DEF ExistingPostprocessJob
  <2>4. CASE pp.uid = 0
    <3>1. h'.pc = "build" /\ h'.pp.result # "Failed"
      BY <1>0, <2>1, <2>4, GotoKeeps
    <3> QED BY <2>3, <2>4, <3>1 DEF CleanInv, Running, Creating, Collecting
  <2>5. CASE pp.uid # 0
    <3>1. h'.pc \in {"annotate", "idle"} /\ h'.pp.result # "Failed"
      <4>1. pp.result # "Failed"
        BY DEF CleanInv
      <4>2. Goto("annotate") \/ Return
        BY <2>1, <2>2, <2>5, <4>1
      <4> QED BY <1>0, <4>2, GotoKeeps, ReturnDrops
    <3>2. h'.pc \in Plain /\ h.pc \in Plain
      BY <2>3, <3>1 DEF Plain, PCs, Creating, Collecting
    <3> QED BY <1>0, <2>3, <3>1, <3>2, CleanKept
  <2> QED BY <2>4, <2>5
<1>4. ASSUME DeleteStalePP \/ DeleteStaleInputs \/ FailedEvent
      PROVE  CleanInv'
  BY <1>4 DEF DeleteStalePP, DeleteStaleInputs, FailedEvent, CleanInv
<1>5. CASE BuildInputs
  <2>1. /\ up' = up /\ pp' = pp /\ inputs' = inputs /\ cache' = cache
        /\ queue' = queue /\ watch' = watch /\ h.pc = "build"
    BY <1>5 DEF BuildInputs
  <2>2. h'.pc = "writeInputs" /\ h'.pp = h.pp
    BY <1>5 DEF BuildInputs, TypeOK, Handler
  <2> QED BY <2>1, <2>2 DEF CleanInv, Running, Creating, Collecting
<1>6. CASE WriteInputs
  <2>1. PICK ok \in BOOLEAN :
          /\ Outcome("write_inputs", ok)
          /\ inputs' = IF ok THEN [inputs EXCEPT !.by = h.job.uid,
                                                 !.data = h.data]
                       ELSE inputs
    BY <1>6 DEF WriteInputs
  <2>2. ok
    BY <2>1, CallSucceeds
  <2>3. inputs'.by = h.job.uid /\ inputs'.owner = inputs.owner
    BY <2>1, <2>2 DEF TypeOK, InputsObj
  <2>4. /\ up' = up /\ pp' = pp /\ cache' = cache
        /\ queue' = queue /\ watch' = watch /\ h.pc = "writeInputs"
    BY <1>6 DEF WriteInputs
  <2>5. h'.pc = "signingKey" /\ h'.pp = h.pp /\ h'.job = h.job
    BY <1>6, GotoKeeps DEF WriteInputs
  <2> QED BY <2>3, <2>4, <2>5 DEF CleanInv, Running, Creating, Collecting
<1>7. CASE EnsureSigningKey
  <2>1. /\ up' = up /\ pp' = pp /\ inputs' = inputs /\ cache' = cache
        /\ queue' = queue /\ watch' = watch /\ h.pc = "signingKey"
    BY <1>7 DEF EnsureSigningKey
  <2>2. h'.pc = "create" /\ h'.pp = h.pp /\ h'.job = h.job
    BY <1>7, GotoKeeps DEF EnsureSigningKey
  <2> QED BY <2>1, <2>2 DEF CleanInv, Running, Creating, Collecting
<1>8. CASE CreatePP
  <2> DEFINE new == [uid |-> h.job.uid, result |-> "", collected |-> FALSE]
  <2>1. /\ pp.uid = 0 /\ inputs.by = h.job.uid /\ h.job.uid # 0
        /\ inputs.owner # "dead" /\ ~pp.collected
        /\ pp.result # "" => Told(watch) \/ Told(queue)
    BY <1>8 DEF CreatePP, CleanInv, NamedInv, OnJob, Creating, Collecting
  <2>2. PICK ok \in BOOLEAN :
          \E done \in BOOLEAN :
            /\ ok => done
            /\ done => ~Refused("create_pp")
            /\ Outcome("create_pp", ok)
            /\ IF done /\ pp.uid = 0 THEN SetPP(new)
               ELSE pp' = pp /\ watch' = watch
            /\ Goto(CASE ~ok -> AfterCreateError
                      [] ok /\ pp.uid = 0 -> "own"
                      [] ok /\ pp.uid # 0 -> "annotate")
    BY <1>8 DEF CreatePP
  <2>3. new \in PPObj /\ new.uid = h.job.uid /\ new.result = "" /\ ~new.collected
    BY DEF TypeOK, PPObj, Handler, JobObj
  <2>4. /\ up' = up /\ inputs' = inputs /\ cache' = cache /\ queue' = queue
    BY <1>8 DEF CreatePP
  <2> HIDE DEF new
  <2>5. CASE ok
    <3>1. SetPP(new) /\ Goto("own")
      BY <2>1, <2>2, <2>5
    <3>2. pp' = new /\ Clean(watch')
      BY <1>0, <2>3, <3>1, PPTold DEF SetPP, CleanInv
    <3>3. h'.pc = "own" /\ h'.pp.result # "Failed"
      BY <1>0, <3>1, GotoKeeps
    <3> QED BY <1>0, <2>1, <2>3, <2>4, <3>2, <3>3
            DEF CleanInv, Running, Creating, Collecting
  <2>6. CASE ~ok
    <3>1. pp' = pp /\ watch' = watch /\ Goto(AfterCreateError)
      <4>1. Refused("create_pp")
        BY <2>2, <2>6 DEF Outcome, TypeOK
      <4> QED BY <2>2, <2>6, <4>1
    <3>2. h'.pc \in Plain /\ h'.pp.result # "Failed"
      BY <1>0, <3>1, GotoKeeps
         DEF AfterCreateError, Plain, PCs, Creating, Collecting
    <3> QED BY <1>0, <2>1, <2>4, <3>1, <3>2
            DEF CleanInv, Running, Creating, Collecting, Plain
  <2> QED BY <2>5, <2>6
<1>9. CASE OwnInputs
  <2>1. pp.uid # 0 /\ inputs.owner # "dead"
    BY <1>9 DEF OwnInputs, CleanInv
  <2>2. inputs'.by = inputs.by /\ inputs'.owner # "dead"
    BY <1>9, <2>1 DEF OwnInputs, TypeOK, InputsObj
  <2>3. /\ up' = up /\ pp' = pp /\ cache' = cache
        /\ queue' = queue /\ watch' = watch /\ h.pc = "own"
    BY <1>9 DEF OwnInputs
  <2>4. h'.pc = "annotate" /\ h'.pp = h.pp
    BY <1>9, GotoKeeps DEF OwnInputs
  <2> QED BY <2>2, <2>3, <2>4 DEF CleanInv, Running, Creating, Collecting
\* collectAIBOM.
<1>10. CASE MarkCollected
  <2>1. PICK ok \in BOOLEAN :
          /\ Outcome("mark", ok)
          /\ SetPP(IF ok /\ pp.uid # 0 THEN [pp EXCEPT !.collected = TRUE]
                   ELSE pp)
    BY <1>10 DEF MarkCollected
  <2>2. ok
    BY <2>1, CallSucceeds
  <2> DEFINE o == IF pp.uid # 0 THEN [pp EXCEPT !.collected = TRUE] ELSE pp
  <2>3. /\ SetPP(o) /\ o \in PPObj
        /\ o.uid = pp.uid /\ o.result = pp.result
    BY <2>1, <2>2 DEF TypeOK, PPObj
  <2>4. /\ up' = up /\ inputs' = inputs /\ cache' = cache /\ queue' = queue
        /\ h.pc = "mark"
    BY <1>10 DEF MarkCollected
  <2>5. Goto("delData") \/ Goto("delPP")
    BY <1>0, <1>10 DEF MarkCollected
  <2>6. h'.pc \in {"delData", "delPP"} /\ h'.pp.result # "Failed"
    BY <1>0, <2>5, GotoKeeps
  <2> HIDE DEF o
  <2>7. pp' = o
    BY <2>3 DEF SetPP
  <2>8. Clean(watch')
    BY <1>0, <2>3, PPTold DEF CleanInv
  <2> QED BY <2>3, <2>4, <2>6, <2>7, <2>8
          DEF CleanInv, Running, Creating, Collecting
<1>11. ASSUME DeleteWorkloadData \/ CollectIdentity
       PROVE  CleanInv'
  <2>1. /\ up' = up /\ pp' = pp /\ inputs' = inputs /\ cache' = cache
        /\ queue' = queue /\ watch' = watch /\ h.pc \in Collecting
    BY <1>11 DEF DeleteWorkloadData, CollectIdentity, Collecting
  <2>2. Goto("delIdentity") \/ Goto("delPP")
    BY <1>0, <1>11 DEF DeleteWorkloadData, CollectIdentity
  <2>3. h'.pc \in {"delIdentity", "delPP"} /\ h'.pp.result # "Failed"
    BY <1>0, <2>2, GotoKeeps
  <2> QED BY <2>1, <2>3 DEF CleanInv, Running, Creating, Collecting
<1>12. CASE DeletePP
  <2>1. PICK ok \in BOOLEAN :
          /\ Outcome("del_pp", ok)
          /\ IF ok THEN RemovePP ELSE UNCHANGED <<pp, watch, inputs>>
    BY <1>12 DEF DeletePP
  <2>2. RemovePP
    BY <2>1, CallSucceeds
  <2>3. pp' = NoPP /\ SetPP(NoPP)
    BY <2>2 DEF RemovePP, SetPP
  <2>4. Clean(watch')
    BY <1>0, <2>3, PPTold, AbsentTypes DEF CleanInv, NoPP
  <2>5. /\ up' = up /\ cache' = cache /\ queue' = queue
    BY <1>12 DEF DeletePP
  <2>6. h'.pc = "delInputs" /\ h'.pp.result # "Failed"
    BY <1>0, <1>12, GotoKeeps DEF DeletePP
  <2>7. pp'.uid = 0 /\ pp'.result = "" /\ ~pp'.collected /\ ~Running'
    BY <2>3 DEF NoPP, Running
  <2> QED BY <2>4, <2>5, <2>6, <2>7 DEF CleanInv, Creating, Collecting
<1>13. CASE DeleteInputs
  <2>1. PICK ok \in BOOLEAN :
          /\ Outcome("del_inputs", ok)
          /\ inputs' = IF ok THEN NoInputs ELSE inputs
    BY <1>13 DEF DeleteInputs
  <2>2. inputs'.owner # "dead"
    BY <2>1, CallSucceeds DEF NoInputs
  <2>3. /\ up' = up /\ pp' = pp /\ cache' = cache
        /\ queue' = queue /\ watch' = watch /\ h.pc = "delInputs"
    BY <1>13 DEF DeleteInputs
  <2>4. h'.pc = "idle" /\ h'.pp.result # "Failed"
    BY <1>13, ReturnDrops DEF DeleteInputs
  <2>5. pp.uid = 0
    BY <2>3 DEF CleanInv
  <2> QED BY <2>2, <2>3, <2>4, <2>5 DEF CleanInv, Running, Creating, Collecting
<1> QED
  BY <1>1, <1>2, <1>3, <1>4, <1>5, <1>6, <1>7, <1>8, <1>9, <1>10, <1>11,
     <1>12, <1>13
     DEF HandlerStep

\* A postprocess Job that runs has its inputs, written for its own run, as
\* long as no call has failed and the watcher has not crashed: for any number
\* of reruns, and although the namespace opts in and out, postprocess Jobs are
\* refused and the TTL and garbage collectors run between any two calls.  The
\* hypothesis is Config.DebugKeepPostprocessJobs' default: a Job kept for
\* debugging expires after a day, and the garbage collector may then remove
\* the inputs a rerun has rewritten, as it may after a crash.
THEOREM HasInputs ==
  ASSUME ~DebugKeep
  PROVE  Spec => [](crashes = 0 => RunningHasInputs)
<1> DEFINE IInv == NamedInv /\ (Untroubled => CleanInv)
<1>1. Init => IInv
  <2> SUFFICES ASSUME Init PROVE IInv
    OBVIOUS
  <2>1. watch = <<>> /\ queue = <<>> /\ up /\ h = Idle /\ pp = NoPP
        /\ cache.pp = NoPP /\ inputs = NoInputs
    BY DEF Init
  <2>2. Named(<<>>) /\ Clean(<<>>)
    BY DEF Named, Clean
  <2>3. Idle.pc = "idle" /\ Idle.pp = NoPP /\ NoInputs.owner = "none"
        /\ NoPP.uid = 0 /\ NoPP.result = "" /\ ~NoPP.collected
    BY DEF Idle, NoPP, NoInputs
  <2> QED BY <2>1, <2>2, <2>3
          DEF NamedInv, CleanInv, OnJob, Running, Creating, Collecting
<1>2. TypeOK /\ IInv /\ [Next]_vars => IInv'
  <2> SUFFICES ASSUME TypeOK, IInv, [Next]_vars
               PROVE  IInv'
    OBVIOUS
  <2>1. CASE Next
    <3>1. NamedInv'
      BY <2>1, NamedStep
    <3>2. ASSUME Untroubled' PROVE CleanInv'
      <4>1. Untroubled
        <5>1. faults' \in {faults, faults + 1} /\ crashes' \in {crashes, crashes + 1}
          BY <2>1
             DEF Next, HandlerStep, InformerStep, ClusterStep, HandleEvent,
                 QualifyRunning, AddFinalizer, QualifyFinished, DeleteIdentity,
                 RemoveFinalizer, SetRetries, ListPods,
                 ExistingPostprocessJob, DeleteStalePP, DeleteStaleInputs,
                 BuildInputs, WriteInputs, EnsureSigningKey, CreatePP,
                 OwnInputs, Annotate, MarkCollected, DeleteWorkloadData,
                 CollectIdentity, FailedEvent, DeletePP, DeleteInputs,
                 Deliver, Resync, SyncNamespace, Crash, Restart, CreateJob,
                 StartPod, FinishJob, DeleteJob, ToggleNamespace, PodWrites,
                 RemovePods, RunPP, ExpirePP, CollectGarbage, Outcome, process
        <5>2. faults \in Nat /\ crashes \in Nat
          BY DEF TypeOK
        <5> QED BY <3>2, <5>1, <5>2 DEF Untroubled
      <4> QED BY <2>1, <3>2, <4>1, CleanHandler, CleanInformer, CleanCluster
              DEF Next, Untroubled
    <3> QED BY <3>1, <3>2
  <2>2. CASE UNCHANGED vars
    BY <2>2 DEF vars, workload, shared, post, ns, informer, process, history,
                NamedInv, CleanInv, OnJob, Running, Untroubled
  <2> QED BY <2>1, <2>2
<1>3. IInv => (crashes = 0 => RunningHasInputs)
  BY DEF CleanInv, Untroubled, RunningHasInputs
<1> HIDE DEF IInv
<1> QED BY <1>1, <1>2, <1>3, TypeCorrect, PTL DEF Spec

-----------------------------------------------------------------------------
(* The finalizer of one run, whatever fails and however often the watcher    *)
(* crashes.  A rerun's finalizer may come off too early: an event of the run *)
(* before it is handled late (the run WatcherStaleEvent).                    *)

OneRun == MaxRuns = 1

\* The run is over: no pod of it starts any more.
Over == last = 1 /\ (job.uid = 0 \/ ready(job))

\* What a snapshot of the Job says about the run is still true.
Truthful(j) ==
  j.uid # 0 => /\ j.uid = 1 /\ last = 1
               /\ j.ann => 1 \in started
               /\ ready(j) => Over
Truths == {e \in Event : IF e.kind = "job" THEN e.job.uid # 0 /\ Truthful(e.job)
                         ELSE e.job.uid = 0}

\* Why the finalizer may come off, once the handler is about to remove it.
Excused == \/ 1 \in started
           \/ h.job.retries + 1 >= maxPostprocessRetries
           \/ Over /\ pods \cap Gpu = {}

ForJob == OnJob \cup {"own", "annotate", "setRetries", "deleteIdentity",
                      "removeFinalizer"}

SnapInv ==
  /\ nsLabel /\ nsCache # "disabled"
  /\ ~up => watch = <<>>
  /\ Truthful(job) /\ Truthful(cache.job)
  /\ watch \in Seq(Truths) /\ queue \in Seq(Truths)
  /\ pp.uid # 0 => 1 \in started
ExcuseInv ==
  /\ Truthful(h.job)
  /\ h.pc \in ForJob => h.job.uid # 0
  /\ h.pc = "qualifyB" => ready(h.job)
  /\ h.pc \in {"own", "annotate"} => 1 \in started
  /\ h.pc \in {"deleteIdentity", "removeFinalizer"} => Excused

\* Events whose retry counts are in lo .. hi; of a Job that is not gone; of no
\* Job at all; and queues in which the counts do not decrease.
Within(lo, hi) == {e \in Event : e.kind = "job" =>
                     lo <= e.job.retries /\ e.job.retries <= hi}
Present == {e \in Event : e.kind = "job" => ~e.gone}
OfPP    == {e \in Event : e.kind # "job"}
InOrder(s) == \A i, j \in 1 .. Len(s) :
  i < j /\ s[i].kind = "job" /\ s[j].kind = "job"
  => s[i].job.retries <= s[j].job.retries

\* A retry is counted on the Job from the count in a snapshot.  No count is
\* lost, because every snapshot is at most one behind the Job, and the handler
\* sees them in their order.
CountsInv ==
  job.uid # 0 =>
    /\ ~up => cache.job.uid = 0
    /\ InOrder(watch) /\ InOrder(queue) /\ watch \in Seq(Present)
    /\ watch \in Seq(Within(job.retries - 1, job.retries))
    /\ cache.job.uid = 0 => queue \in Seq(OfPP) /\ h.job.uid = 0
    /\ cache.job.uid # 0 =>
         /\ job.retries - 1 <= cache.job.retries
         /\ cache.job.retries <= job.retries
         /\ queue \in Seq(Within(job.retries - 1, cache.job.retries))
         /\ watch \in Seq(Within(cache.job.retries, job.retries))
    /\ h.job.uid # 0 =>
         /\ job.retries - 1 <= h.job.retries
         /\ h.job.retries <= cache.job.retries
         /\ queue \in Seq(Within(h.job.retries, cache.job.retries))

-----------------------------------------------------------------------------

\* A queue of events of one kind is one of a wider kind.
LEMMA Widen ==
  ASSUME NEW S, NEW T, NEW s \in Seq(S), \A i \in 1 .. Len(s) : s[i] \in T
  PROVE  s \in Seq(T)
OBVIOUS

\* An element of a queue.
LEMMA Element ==
  ASSUME NEW S, NEW s \in Seq(S), NEW i \in 1 .. Len(s)
  PROVE  s[i] \in S
OBVIOUS

\* A queue over a set is one over a larger set.
LEMMA Wider ==
  ASSUME NEW S, NEW T, S \subseteq T, NEW s \in Seq(S)
  PROVE  s \in Seq(T)
BY Element, Widen

\* A wider interval admits more events, and those that carry no Job always.
LEMMA WithinWider ==
  ASSUME NEW a \in Int, NEW b \in Int, NEW c \in Int, NEW d \in Int, c <= a, b <= d
  PROVE  /\ Within(a, b) \subseteq Within(c, d) /\ OfPP \subseteq Within(c, d)
         /\ \A s : s \in Seq(Within(a, b)) \/ s \in Seq(OfPP) => s \in Seq(Within(c, d))
<1>1. Within(a, b) \subseteq Within(c, d)
  <2> SUFFICES ASSUME NEW e \in Event, e.kind = "job" => a <= e.job.retries /\ e.job.retries <= b
               PROVE  e.kind = "job" => c <= e.job.retries /\ e.job.retries <= d
    BY DEF Within
  <2>1. e.job.retries \in Nat
    BY DEF Event, JobObj
  <2> QED BY <2>1
<1>2. OfPP \subseteq Within(c, d)
  BY DEF OfPP, Within
<1> QED BY <1>1, <1>2, Wider

\* The event of a snapshot, and of the postprocess Job.
LEMMA EventIs ==
  /\ \A o \in JobObj, gone \in BOOLEAN :
       LET e == JobEvent(o, gone)
       IN e \in Event /\ e.kind = "job" /\ e.job = o /\ e.gone = gone
  /\ \A o \in PPObj, gone \in BOOLEAN :
       LET e == PPEvent(o, gone)
       IN e \in Event /\ e.kind = "pp" /\ e.job = NoJob
BY AbsentTypes DEF JobEvent, PPEvent, Event

\* An event at the end, which counts no less than those before it.
LEMMA OrderAppend ==
  ASSUME NEW s \in Seq(Event), InOrder(s), NEW e \in Event,
         NEW lo \in Int, NEW hi \in Int, s \in Seq(Within(lo, hi)),
         e.kind = "job" => hi <= e.job.retries
  PROVE  InOrder(Append(s, e))
<1> DEFINE t == Append(s, e)
<1>1. /\ Len(t) = Len(s) + 1 /\ Len(s) \in Nat
      /\ \A i \in 1 .. Len(s) : t[i] = s[i]
      /\ t[Len(s) + 1] = e
  BY AppendProperties
<1>2. \A i \in 1 .. Len(s) :
        s[i].kind = "job" => s[i].job.retries <= hi /\ s[i].job.retries \in Nat
  BY Element DEF Within, Event, JobObj
<1>3. e.job.retries \in Nat
  BY DEF Event, JobObj
<1> HIDE DEF t
<1>4. ASSUME NEW i \in 1 .. Len(t), NEW j \in 1 .. Len(t), i < j,
             t[i].kind = "job", t[j].kind = "job"
      PROVE  t[i].job.retries <= t[j].job.retries
  <2>1. i \in 1 .. Len(s) /\ (j \in 1 .. Len(s) \/ j = Len(s) + 1)
    BY <1>1, <1>4
  <2>2. CASE j \in 1 .. Len(s)
    BY <1>1, <1>4, <2>1, <2>2 DEF InOrder
  <2>3. CASE j = Len(s) + 1
    BY <1>1, <1>2, <1>3, <1>4, <2>1, <2>3
  <2> QED BY <2>1, <2>2, <2>3
<1>5. InOrder(t)
  BY <1>4 DEF InOrder
<1> QED BY <1>5 DEF t

\* The first event counts no more than the others.
LEMMA OrderTail ==
  ASSUME NEW s \in Seq(Event), s # <<>>, InOrder(s),
         NEW lo \in Int, NEW hi \in Int, s \in Seq(Within(lo, hi))
  PROVE  /\ InOrder(Tail(s))
         /\ Head(s).kind = "job" =>
              /\ Tail(s) \in Seq(Within(Head(s).job.retries, hi))
              /\ lo <= Head(s).job.retries /\ Head(s).job.retries <= hi
<1> DEFINE t == Tail(s)
<1>1. /\ Len(s) \in Nat /\ Len(s) > 0 /\ Len(t) = Len(s) - 1
      /\ Head(s) = s[1] /\ t \in Seq(Event)
      /\ \A i \in 1 .. Len(t) : t[i] = s[i + 1]
  BY HeadTailProperties
<1>2. /\ \A i \in 1 .. Len(t) : i + 1 \in 1 .. Len(s)
      /\ 1 \in 1 .. Len(s)
  BY <1>1
<1>3. \A i \in 1 .. Len(s) : s[i] \in Within(lo, hi)
  BY Element
<1> HIDE DEF t
<1>4. InOrder(t)
  <2> SUFFICES ASSUME NEW i \in 1 .. Len(t), NEW j \in 1 .. Len(t), i < j,
                      t[i].kind = "job", t[j].kind = "job"
               PROVE  t[i].job.retries <= t[j].job.retries
    BY DEF InOrder
  <2>1. i + 1 \in 1 .. Len(s) /\ j + 1 \in 1 .. Len(s) /\ i + 1 < j + 1
    BY <1>1, <1>2
  <2> QED BY <1>1, <2>1 DEF InOrder
<1>5. ASSUME s[1].kind = "job"
      PROVE  /\ t \in Seq(Within(s[1].job.retries, hi))
             /\ lo <= s[1].job.retries /\ s[1].job.retries <= hi
  <2>1. lo <= s[1].job.retries /\ s[1].job.retries <= hi
    BY <1>2, <1>3, <1>5 DEF Within
  <2>2. ASSUME NEW i \in 1 .. Len(t)
        PROVE  t[i] \in Within(s[1].job.retries, hi)
    <3>1. i + 1 \in 1 .. Len(s) /\ 1 < i + 1 /\ t[i] = s[i + 1]
      BY <1>1, <1>2
    <3>2. s[i + 1] \in Within(lo, hi)
      BY <1>3, <3>1
    <3>3. s[i + 1].kind = "job" => s[1].job.retries <= s[i + 1].job.retries
      BY <1>2, <1>5, <3>1 DEF InOrder
    <3> QED BY <3>1, <3>2, <3>3 DEF Within
  <2> QED BY <1>1, <2>1, <2>2, Widen
<1> QED BY <1>1, <1>4, <1>5 DEF t

\* A listing of the cache after the events that led to it.
LEMMA OrderConcat ==
  ASSUME NEW s \in Seq(Event), InOrder(s), NEW t \in Seq(Event),
         NEW lo \in Int, NEW hi \in Int, s \in Seq(Within(lo, hi)),
         t \in Seq(Within(hi, hi))
  PROVE  InOrder(s \o t)
<1> DEFINE u == s \o t
<1>1. /\ Len(s) \in Nat /\ Len(t) \in Nat /\ Len(u) = Len(s) + Len(t)
      /\ \A i \in 1 .. Len(s) + Len(t) :
           u[i] = IF i <= Len(s) THEN s[i] ELSE t[i - Len(s)]
  BY ConcatProperties
<1> HIDE DEF u
<1>2. \A i \in 1 .. Len(u) :
        \/ i \in 1 .. Len(s) /\ u[i] = s[i]
        \/ i > Len(s) /\ u[i] \in Within(hi, hi)
  <2> TAKE i \in 1 .. Len(u)
  <2>1. i \in 1 .. Len(s) \/ (i > Len(s) /\ i - Len(s) \in 1 .. Len(t))
    BY <1>1
  <2>2. CASE i \in 1 .. Len(s)
    BY <1>1, <2>2
  <2>3. CASE i > Len(s) /\ i - Len(s) \in 1 .. Len(t)
    BY <1>1, <2>3, Element
  <2> QED BY <2>1, <2>2, <2>3
<1>3. \A i \in 1 .. Len(s) : s[i] \in Within(lo, hi)
  BY Element
<1>4. ASSUME NEW i \in 1 .. Len(u), NEW j \in 1 .. Len(u), i < j,
             u[i].kind = "job", u[j].kind = "job"
      PROVE  u[i].job.retries <= u[j].job.retries
  <2>1. CASE j \in 1 .. Len(s) /\ u[j] = s[j]
    <3>1. i \in 1 .. Len(s) /\ u[i] = s[i]
      BY <1>1, <1>2, <1>4, <2>1
    <3> QED BY <1>4, <2>1, <3>1 DEF InOrder
  <2>2. CASE j > Len(s) /\ u[j] \in Within(hi, hi)
    <3>1. hi <= u[j].job.retries /\ u[j].job.retries \in Nat
      BY <1>4, <2>2 DEF Within, Event, JobObj
    <3>2. u[i].job.retries <= hi /\ u[i].job.retries \in Nat
      BY <1>2, <1>3, <1>4 DEF Within, Event, JobObj
    <3> QED BY <3>1, <3>2
  <2> QED BY <1>2, <2>1, <2>2
<1>5. InOrder(u)
  BY <1>4 DEF InOrder
<1> QED BY <1>5 DEF u

\* What a listing holds.
LEMMA ListingIn ==
  ASSUME NEW E, NEW j, NEW p, NEW events \in Listings(j, p),
         j.uid # 0 => JobEvent(j, FALSE) \in E,
         p.uid # 0 => PPEvent(p, FALSE) \in E
  PROVE  events \in Seq(E)
<1> DEFINE a == IF j.uid = 0 THEN <<>> ELSE <<JobEvent(j, FALSE)>>
           b == IF p.uid = 0 THEN <<>> ELSE <<PPEvent(p, FALSE)>>
<1>1. <<>> \in Seq(E)
  OBVIOUS
<1>2. a \in Seq(E)
  <2>1. CASE j.uid = 0
    BY <1>1, <2>1
  <2>2. CASE j.uid # 0
    <3>1. <<JobEvent(j, FALSE)>> \in Seq(E)
      BY <2>2, Singleton
    <3> QED BY <2>2, <3>1
  <2> QED BY <2>1, <2>2
<1>3. b \in Seq(E)
  <2>1. CASE p.uid = 0
    BY <1>1, <2>1
  <2>2. CASE p.uid # 0
    <3>1. <<PPEvent(p, FALSE)>> \in Seq(E)
      BY <2>2, Singleton
    <3> QED BY <2>2, <3>1
  <2> QED BY <2>1, <2>2
<1>4. events = a \o b \/ events = b \o a
  BY DEF Listings
<1> HIDE DEF a, b
<1>5. a \o b \in Seq(E) /\ b \o a \in Seq(E)
  BY <1>2, <1>3, ConcatProperties
<1> QED BY <1>4, <1>5

-----------------------------------------------------------------------------
(* Snapshots stay true *)

\* What no step undoes.
Onward ==
  /\ started \subseteq started' /\ last' \in {last, 1}
  /\ Over => Over' /\ pods' \subseteq pods

\* True snapshots stay true, because what they say is not undone (ready, the
\* AnnotationPostprocess patch).
LEMMA StaysTrue ==
  ASSUME Onward, last \in 0 .. 1
  PROVE  Truths \subseteq Truths'
<1>1. last = 1 => last' = 1
  BY DEF Onward
<1>2. ASSUME NEW j, Truthful(j)
      PROVE  j.uid # 0 => /\ j.uid = 1 /\ last' = 1
                          /\ j.ann => 1 \in started'
                          /\ ready(j) => Over'
  BY <1>1, <1>2 DEF Truthful, Onward
<1>3. ASSUME NEW e \in Event,
             IF e.kind = "job" THEN e.job.uid # 0 /\ Truthful(e.job)
             ELSE e.job.uid = 0
      PROVE  IF e.kind = "job" THEN e.job.uid # 0 /\ Truthful(e.job)'
             ELSE e.job.uid = 0
  BY <1>2, <1>3 DEF Truthful, ready
<1> QED BY <1>3 DEF Truths

\* A snapshot that nobody replaced.
LEMMA TruthKept ==
  ASSUME Onward, last \in 0 .. 1, NEW j, Truthful(j)
  PROVE  j.uid # 0 => /\ j.uid = 1 /\ last' = 1
                      /\ j.ann => 1 \in started'
                      /\ ready(j) => Over'
BY DEF Truthful, Onward

\* One Job at most exists under the name.
LEMMA OneJob ==
  ASSUME OneRun, TypeOK
  PROVE  last \in 0 .. 1 /\ job.uid \in {0, 1} /\ Runs = {1} /\ pp.uid \in {0, 1}
         /\ h.job.uid \in {0, 1}
<1>1. 0 .. MaxRuns = {0, 1} /\ Runs = {1}
  BY DEF OneRun, Runs
<1>2. /\ job.uid \in 0 .. MaxRuns /\ pp.uid \in 0 .. MaxRuns
      /\ h.job.uid \in 0 .. MaxRuns /\ last \in 0 .. MaxRuns
  BY DEF TypeOK, JobObj, PPObj, Handler
<1> QED BY <1>1, <1>2

\* An update of the Job that is no rerun.
Updates(o) ==
  /\ o.uid \in {0, job.uid} /\ job.uid # 0
  /\ o.ann => job.ann \/ 1 \in started
  /\ o.uid # 0 /\ ready(job) => ready(o)

\* An update of the Job queues a snapshot that is true.
LEMMA SnapSetJob ==
  ASSUME OneRun, TypeOK, SnapInv, NEW o \in JobObj, SetJob(o),
         o = job \/ Updates(o), pods' = pods, last' = last, started' = started,
         up' = up
  PROVE  /\ Onward /\ Truthful(job)' /\ watch' \in Seq(Truths')
         /\ ~up' => watch' = <<>>
<1>0. last \in 0 .. 1 /\ job \in JobObj /\ watch \in Seq(Truths)
  BY OneJob DEF TypeOK, SnapInv
<1>1. Over => Over'
  <2>1. o = job => job' = job
    BY DEF SetJob
  <2>2. Updates(o) => job'.uid = 0 \/ (ready(job) => ready(job'))
    BY DEF SetJob, Updates
  <2>3. Updates(o) => job'.uid \in {0, job.uid} /\ job.uid # 0
    BY DEF SetJob, Updates
  <2> QED BY <2>1, <2>2, <2>3 DEF Over, ready
<1>2. Onward
  BY <1>1 DEF Onward
<1>3. Truths \subseteq Truths'
  BY <1>0, <1>2, StaysTrue
<1>4. job' = o /\ (job = o \/ Updates(o))
  BY DEF SetJob
<1>5. job.uid # 0 => job.uid = 1 /\ last = 1 /\ (job.ann => 1 \in started)
                     /\ (ready(job) => Over)
  BY DEF SnapInv, Truthful
<1>6. o.uid # 0 => o.uid = 1 /\ last' = 1 /\ (o.ann => 1 \in started')
                   /\ (ready(o) => Over')
  BY <1>4, <1>5 DEF Updates, Over
<1>7. Truthful(job)'
  BY <1>4, <1>6 DEF Truthful
<1>8. CASE ~up \/ o = job
  <2>1. watch' = watch
    BY <1>8 DEF SetJob
  <2> QED BY <1>0, <1>2, <1>3, <1>7, <1>8, <2>1, Wider DEF SnapInv
<1>9. CASE up /\ o # job /\ o.uid # 0
  <2> DEFINE e == JobEvent(o, FALSE)
  <2>1. watch' = Append(watch, e)
    BY <1>9 DEF SetJob
  <2>2. e \in Event /\ e.kind = "job" /\ e.job = o
    BY EventIs
  <2> HIDE DEF e
  <2>3. e \in Truths'
    BY <1>6, <1>9, <2>2 DEF Truths, Truthful
  <2>4. watch \in Seq(Truths')
    BY <1>0, <1>3, Wider
  <2>5. watch' \in Seq(Truths')
    BY <2>1, <2>3, <2>4, AppendProperties
  <2> QED BY <1>2, <1>7, <1>9, <2>5
<1>10. CASE up /\ o # job /\ o.uid = 0
  <2> DEFINE j == [job EXCEPT !.fin = FALSE]
             e == JobEvent(j, TRUE)
  <2>1. watch' = Append(watch, e)
    BY <1>10 DEF SetJob
  <2>2. j \in JobObj /\ j.uid = job.uid /\ j.ann = job.ann
    BY <1>0 DEF JobObj
  <2>3. e \in Event /\ e.kind = "job" /\ e.job = j
    BY <2>2, EventIs
  <2> HIDE DEF e, j
  <2>4. job.uid # 0 /\ Over'
    <3>1. job.uid # 0
      BY <1>4, <1>10 DEF Updates
    <3> QED BY <1>4, <1>5, <1>10, <3>1 DEF Over
  <2>5. e \in Truths'
    BY <1>5, <2>2, <2>3, <2>4 DEF Truths, Truthful
  <2>6. watch \in Seq(Truths')
    BY <1>0, <1>3, Wider
  <2>7. watch' \in Seq(Truths')
    BY <2>1, <2>5, <2>6, AppendProperties
  <2> QED BY <1>2, <1>7, <1>10, <2>7
<1> QED BY <1>8, <1>9, <1>10

\* An update of the postprocess Job, which is the run's.
LEMMA SnapSetPP ==
  ASSUME TypeOK, SnapInv, NEW o \in PPObj, SetPP(o), Truths \subseteq Truths',
         up' = up
  PROVE  watch' \in Seq(Truths') /\ (~up' => watch' = <<>>)
<1>1. watch \in Seq(Truths') 
  BY Wider DEF SnapInv
<1>2. CASE ~up \/ o = pp
  BY <1>1, <1>2 DEF SetPP, SnapInv
<1>3. CASE up /\ o # pp
  <2>1. PICK e \in Event : e.kind = "pp" /\ e.job = NoJob /\ watch' = Append(watch, e)
    <3>1. watch' = Append(watch, IF o.uid = 0 THEN PPEvent(pp, TRUE) ELSE PPEvent(o, FALSE))
      BY <1>3 DEF SetPP
    <3>2. pp \in PPObj
      BY DEF TypeOK
    <3> QED BY <3>1, <3>2, EventIs
  <2>2. e \in Truths'
    BY <2>1 DEF Truths, NoJob
  <2> QED BY <1>1, <1>3, <2>1, <2>2, AppendProperties
<1> QED BY <1>2, <1>3

\* A step that lets the informer's cache and queue and the namespace alone.
LEMMA SnapKept ==
  ASSUME TypeOK, SnapInv, Onward, last \in 0 .. 1,
         UNCHANGED <<nsLabel, nsCache, cache, queue>>,
         Truthful(job)', watch' \in Seq(Truths'), ~up' => watch' = <<>>,
         pp'.uid # 0 => 1 \in started'
  PROVE  SnapInv'
<1>1. Truths \subseteq Truths'
  BY StaysTrue
<1>2. queue' \in Seq(Truths')
  BY <1>1, Wider DEF SnapInv
<1>3. Truthful(cache.job)'
  BY TruthKept DEF SnapInv, Truthful
<1> QED BY <1>2, <1>3 DEF SnapInv

\* A step that changes neither the Job nor a snapshot of it.
LEMMA SnapSame ==
  ASSUME OneRun, TypeOK, SnapInv, UNCHANGED <<job, last, up, watch>>,
         UNCHANGED <<nsLabel, nsCache, cache, queue>>,
         started \subseteq started', Over => pods' \subseteq pods,
         pp'.uid # 0 => 1 \in started'
  PROVE  Onward /\ SnapInv'
<1>1. last \in 0 .. 1
  BY OneJob
<1>2. Onward
  BY DEF Onward, Over
<1>3. Truthful(job)'
  BY <1>1, <1>2, TruthKept DEF SnapInv, Truthful
<1>4. watch' \in Seq(Truths')
  BY <1>1, <1>2, StaysTrue, Wider DEF SnapInv
<1> QED BY <1>1, <1>2, <1>3, <1>4, SnapKept DEF SnapInv

\* Steps of the handler.
LEMMA SnapHandler ==
  ASSUME OneRun, TypeOK, SnapInv, ExcuseInv, HandlerStep
  PROVE  Onward /\ SnapInv'
<1> USE DEF workload, shared, post, ns, informer, process, history
<1>0. last \in 0 .. 1 /\ job \in JobObj /\ pp \in PPObj /\ h.job.uid \in {0, 1}
  BY OneJob DEF TypeOK
<1>1. CASE \/ QualifyRunning \/ QualifyFinished \/ DeleteIdentity \/ ListPods
           \/ ExistingPostprocessJob \/ DeleteStaleInputs \/ BuildInputs
           \/ WriteInputs \/ EnsureSigningKey \/ OwnInputs
           \/ DeleteWorkloadData \/ CollectIdentity \/ FailedEvent
           \/ DeleteInputs
  <2>1. /\ UNCHANGED <<job, last, up, watch, pods, pp, started>>
        /\ UNCHANGED <<nsLabel, nsCache, cache, queue>>
    BY <1>1 DEF QualifyRunning, QualifyFinished, DeleteIdentity, ListPods,
         ExistingPostprocessJob, DeleteStaleInputs, BuildInputs, WriteInputs,
         EnsureSigningKey, OwnInputs, DeleteWorkloadData, CollectIdentity,
         FailedEvent, DeleteInputs
  <2> QED BY <2>1, SnapSame DEF SnapInv
<1>2. ASSUME NEW o \in JobObj, SetJob(o), o = job \/ Updates(o),
             UNCHANGED <<last, pods, up, started, pp>>,
             UNCHANGED <<nsLabel, nsCache, cache, queue>>
      PROVE  Onward /\ SnapInv'
  <2>1. Onward /\ Truthful(job)' /\ watch' \in Seq(Truths') /\ (~up' => watch' = <<>>)
    BY <1>2, SnapSetJob
  <2>2. pp'.uid # 0 => 1 \in started'
    BY <1>2 DEF SnapInv
  <2> QED BY <1>0, <1>2, <2>1, <2>2, SnapKept
<1>3. CASE AddFinalizer
  <2>1. PICK o \in JobObj : SetJob(o) /\ (o = job \/ Updates(o))
    <3>1. PICK ok \in BOOLEAN :
            SetJob(IF ok /\ job.uid # 0 /\ ~job.deleting
                   THEN [job EXCEPT !.fin = TRUE] ELSE job)
      BY <1>3 DEF AddFinalizer
    <3> DEFINE o == [job EXCEPT !.fin = TRUE]
    <3>2. o \in JobObj /\ (job.uid # 0 => Updates(o))
      BY <1>0 DEF JobObj, Updates, ready
    <3> HIDE DEF o
    <3> QED BY <1>0, <3>1, <3>2 DEF o
  <2> QED BY <1>2, <1>3, <2>1 DEF AddFinalizer
<1>4. CASE RemoveFinalizer
  <2>1. PICK o \in JobObj : SetJob(o) /\ (o = job \/ Updates(o))
    <3>1. PICK ok \in BOOLEAN :
            SetJob(CASE ~ok \/ job.uid = 0 -> job
                     [] ok /\ job.uid # 0 /\ job.deleting -> NoJob
                     [] ok /\ job.uid # 0 /\ ~job.deleting ->
                          [job EXCEPT !.fin = FALSE])
      BY <1>4 DEF RemoveFinalizer
    <3> DEFINE o == [job EXCEPT !.fin = FALSE]
    <3>2. o \in JobObj /\ (job.uid # 0 => Updates(o))
      BY <1>0 DEF JobObj, Updates, ready
    <3>3. NoJob \in JobObj /\ (job.uid # 0 /\ job.deleting => Updates(NoJob))
      BY AbsentTypes DEF Updates, NoJob, ready
    <3> HIDE DEF o
    <3>4. CASE ~ok \/ job.uid = 0
      BY <1>0, <3>1, <3>4
    <3>5. CASE ok /\ job.uid # 0 /\ job.deleting
      <4>1. SetJob(NoJob)
        BY <3>1, <3>5
      <4> QED BY <1>0, <3>3, <3>5, <4>1
    <3>6. CASE ok /\ job.uid # 0 /\ ~job.deleting
      <4>1. SetJob(o)
        BY <3>1, <3>6 DEF o
      <4> QED BY <3>2, <3>6, <4>1
    <3> QED BY <3>4, <3>5, <3>6
  <2> QED BY <1>2, <1>4, <2>1 DEF RemoveFinalizer
<1>5. CASE SetRetries
  <2>1. PICK o \in JobObj : SetJob(o) /\ (o = job \/ Updates(o))
    <3>1. PICK ok \in BOOLEAN :
            SetJob(IF ok /\ job.uid # 0
                   THEN [job EXCEPT !.retries = h.job.retries + 1] ELSE job)
      BY <1>5 DEF SetRetries
    <3> DEFINE o == [job EXCEPT !.retries = h.job.retries + 1]
    <3>2. h.job.retries + 1 \in Nat
      BY DEF TypeOK, Handler, JobObj
    <3>3. o \in JobObj /\ (job.uid # 0 => Updates(o))
      BY <1>0, <3>2 DEF JobObj, Updates, ready
    <3> HIDE DEF o
    <3> QED BY <1>0, <3>1, <3>3 DEF o
  <2> QED BY <1>2, <1>5, <2>1 DEF SetRetries
<1>6. CASE Annotate
  <2>0. 1 \in started
    BY <1>6 DEF Annotate, ExcuseInv
  <2>1. PICK o \in JobObj : SetJob(o) /\ (o = job \/ Updates(o))
    <3>1. PICK done \in BOOLEAN :
            SetJob(IF done /\ job.uid # 0 THEN [job EXCEPT !.ann = TRUE] ELSE job)
      BY <1>6 DEF Annotate
    <3> DEFINE o == [job EXCEPT !.ann = TRUE]
    <3>2. o \in JobObj /\ (job.uid # 0 => Updates(o))
      BY <1>0, <2>0 DEF JobObj, Updates, ready
    <3> HIDE DEF o
    <3> QED BY <1>0, <3>1, <3>2 DEF o
  <2> QED BY <1>2, <1>6, <2>1 DEF Annotate
<1>7. CASE HandleEvent
  <2>1. UNCHANGED <<job, last, up, watch, pods, pp, started, nsLabel, nsCache, cache>>
        /\ queue # <<>> /\ queue' = Tail(queue)
    BY <1>7 DEF HandleEvent
  <2>2. Onward /\ Truths' = Truths
    BY <2>1 DEF Onward, Over, Truths, Truthful, ready
  <2>3. queue' \in Seq(Truths')
    BY <2>1, <2>2, HeadTail DEF SnapInv
  <2> QED BY <2>1, <2>2, <2>3 DEF SnapInv, Truthful, Over
<1>8. ASSUME NEW o \in PPObj, SetPP(o), o.uid # 0 => 1 \in started',
             UNCHANGED <<job, last, pods, up>>, started \subseteq started',
             UNCHANGED <<nsLabel, nsCache, cache, queue>>
      PROVE  Onward /\ SnapInv'
  <2>1. Onward
    BY <1>8 DEF Onward, Over
  <2>2. Truths \subseteq Truths'
    BY <1>0, <2>1, StaysTrue
  <2>3. watch' \in Seq(Truths') /\ (~up' => watch' = <<>>)
    BY <1>8, <2>2, SnapSetPP
  <2>4. Truthful(job)'
    BY <1>0, <1>8, <2>1, TruthKept DEF SnapInv, Truthful
  <2>5. pp'.uid # 0 => 1 \in started'
    BY <1>8 DEF SetPP
  <2> QED BY <1>0, <1>8, <2>1, <2>3, <2>4, <2>5, SnapKept
<1>9. CASE DeleteStalePP \/ DeletePP
  <2>1. /\ UNCHANGED <<job, last, pods, up, started>>
        /\ UNCHANGED <<nsLabel, nsCache, cache, queue>>
        /\ RemovePP \/ UNCHANGED <<pp, watch>>
    BY <1>9 DEF DeleteStalePP, DeletePP
  <2>2. CASE RemovePP
    <3>1. SetPP(NoPP) /\ NoPP \in PPObj /\ NoPP.uid = 0
      BY <2>2, AbsentTypes DEF RemovePP, NoPP
    <3> QED BY <1>8, <2>1, <3>1
  <2>3. CASE UNCHANGED <<pp, watch>>
    BY <2>1, <2>3, SnapSame DEF SnapInv
  <2> QED BY <2>1, <2>2, <2>3
<1>10. CASE CreatePP
  <2>1. /\ UNCHANGED <<job, last, pods, up>>
        /\ UNCHANGED <<nsLabel, nsCache, cache, queue>>
        /\ \/ /\ SetPP([uid |-> h.job.uid, result |-> "", collected |-> FALSE])
              /\ started' = started \cup {h.job.uid}
           \/ UNCHANGED <<pp, watch, started>>
    BY <1>10 DEF CreatePP
  <2>2. h.job.uid = 1
    BY <1>0, <1>10 DEF CreatePP, ExcuseInv, ForJob, OnJob
  <2>3. CASE /\ SetPP([uid |-> h.job.uid, result |-> "", collected |-> FALSE])
             /\ started' = started \cup {h.job.uid}
    <3>1. [uid |-> h.job.uid, result |-> "", collected |-> FALSE] \in PPObj
      BY DEF TypeOK, Handler, JobObj, PPObj
    <3>2. 1 \in started' /\ started \subseteq started'
      BY <2>2, <2>3
    <3> QED BY <1>8, <2>1, <2>3, <3>1, <3>2
  <2>4. CASE UNCHANGED <<pp, watch, started>>
    BY <2>1, <2>4, SnapSame DEF SnapInv
  <2> QED BY <2>1, <2>3, <2>4
<1>11. CASE MarkCollected
  <2>1. PICK o \in PPObj : SetPP(o) /\ o.uid = pp.uid
    <3>1. PICK ok \in BOOLEAN :
            SetPP(IF ok /\ pp.uid # 0 THEN [pp EXCEPT !.collected = TRUE] ELSE pp)
      BY <1>11 DEF MarkCollected
    <3> DEFINE o == [pp EXCEPT !.collected = TRUE]
    <3>2. o \in PPObj /\ o.uid = pp.uid
      BY <1>0 DEF PPObj
    <3> HIDE DEF o
    <3> QED BY <1>0, <3>1, <3>2 DEF o
  <2>2. /\ UNCHANGED <<job, last, pods, up, started>>
        /\ UNCHANGED <<nsLabel, nsCache, cache, queue>>
    BY <1>11 DEF MarkCollected
  <2> QED BY <1>8, <2>1, <2>2 DEF SnapInv
<1> QED BY <1>1, <1>3, <1>4, <1>5, <1>6, <1>7, <1>9, <1>10, <1>11 DEF HandlerStep

\* Deliveries, resyncs, crashes and restarts.
LEMMA SnapInformer ==
  ASSUME OneRun, TypeOK, SnapInv, InformerStep
  PROVE  Onward /\ SnapInv'
<1> USE DEF workload, shared, post, ns, informer, process, history
<1>0. UNCHANGED <<job, last, pods, started, pp, nsLabel>>
  BY DEF InformerStep, Deliver, Resync, SyncNamespace, Crash, Restart
<1>1. Onward /\ Truths' = Truths
  BY <1>0 DEF Onward, Over, Truths, Truthful, ready
<1>2. /\ \A o \in JobObj : Truthful(o)' <=> Truthful(o)
      /\ Truthful(job)' /\ Truthful(cache.job) /\ Truthful(job)
  BY <1>0 DEF SnapInv, Truthful, Over, ready
<1>3. /\ job \in JobObj /\ cache.job \in JobObj /\ pp \in PPObj /\ cache.pp \in PPObj
      /\ watch \in Seq(Truths) /\ queue \in Seq(Truths)
  BY DEF TypeOK, SnapInv
<1>4. NoJob.uid = 0 /\ NoPP.uid = 0 /\ <<>> \in Seq(Truths)
  BY DEF NoJob, NoPP
<1>5. ASSUME NEW j \in JobObj, NEW p \in PPObj, Truthful(j),
             NEW events \in Listings(j, p)
      PROVE  events \in Seq(Truths)
  <2>1. j.uid # 0 => JobEvent(j, FALSE) \in Truths
    BY <1>5, EventIs DEF Truths
  <2>2. PPEvent(p, FALSE) \in Truths
    BY <1>4, <1>5, EventIs DEF Truths
  <2> QED BY <1>5, <2>1, <2>2, ListingIn
<1>6. CASE Deliver
  <2>1. Head(watch) \in Truths /\ Tail(watch) \in Seq(Truths)
    BY <1>3, <1>6, HeadTail DEF Deliver
  <2>2. watch' \in Seq(Truths) /\ queue' \in Seq(Truths)
    BY <1>3, <1>6, <2>1 DEF Deliver
  <2>3. cache'.job \in {NoJob, cache.job} \/ (Truthful(Head(watch).job) /\ cache'.job = Head(watch).job)
    BY <1>6, <2>1 DEF Deliver, Truths, TypeOK
  <2>4. Truthful(cache.job)'
    BY <1>0, <1>2, <1>4, <2>3 DEF Truthful, Over, ready
  <2>5. up' /\ nsCache' = nsCache
    BY <1>6 DEF Deliver
  <2> QED BY <1>0, <1>1, <1>2, <2>2, <2>4, <2>5 DEF SnapInv
<1>7. CASE Resync
  <2>1. PICK events \in Listings(cache.job, cache.pp) : queue' = queue \o events
    BY <1>7 DEF Resync
  <2>2. events \in Seq(Truths)
    BY <1>2, <1>3, <1>5
  <2>3. queue' \in Seq(Truths)
    BY <1>3, <2>1, <2>2, ConcatProperties
  <2>4. UNCHANGED <<up, watch, nsCache, cache>>
    BY <1>7 DEF Resync
  <2>5. Truthful(cache.job)'
    BY <1>0, <1>2, <2>4 DEF Truthful, Over, ready
  <2> QED BY <1>0, <1>1, <1>2, <2>3, <2>4, <2>5 DEF SnapInv
<1>8. CASE SyncNamespace
  <2>1. UNCHANGED <<up, watch, cache, queue>> /\ nsCache' = "enabled"
    BY <1>8 DEF SyncNamespace, SnapInv
  <2>2. Truthful(cache.job)'
    BY <1>0, <1>2, <2>1 DEF Truthful, Over, ready
  <2> QED BY <1>0, <1>1, <1>2, <2>1, <2>2 DEF SnapInv
<1>9. CASE Crash
  <2>1. watch' = <<>> /\ queue' = <<>> /\ nsCache' = "unknown" /\ cache'.job = NoJob
    BY <1>9 DEF Crash
  <2>2. Truthful(cache.job)'
    BY <1>4, <2>1 DEF Truthful
  <2> QED BY <1>0, <1>1, <1>2, <1>4, <2>1, <2>2 DEF SnapInv
<1>10. CASE Restart
  <2>1. /\ watch' = watch /\ queue' \in Listings(job, pp) /\ nsCache' = nsCache
        /\ cache'.job = job /\ up'
    BY <1>10 DEF Restart
  <2>2. queue' \in Seq(Truths)
    BY <1>2, <1>3, <1>5, <2>1
  <2>3. Truthful(cache.job)'
    BY <1>0, <1>2, <2>1 DEF Truthful, Over, ready
  <2> QED BY <1>0, <1>1, <1>2, <1>3, <2>1, <2>2, <2>3 DEF SnapInv
<1> QED BY <1>6, <1>7, <1>8, <1>9, <1>10 DEF InformerStep

\* A new Job, in a namespace and a cache where there was none.
LEMMA SnapCreate ==
  ASSUME OneRun, TypeOK, SnapInv, CreateJob
  PROVE  /\ Onward /\ SnapInv' /\ job'.uid = 1 /\ last = 0
         /\ job' = [NoJob EXCEPT !.uid = 1]
         /\ Truths \subseteq OfPP /\ cache.job.uid = 0
<1> USE DEF workload, shared, post, ns, informer, process, history
<1>1. /\ job.uid = 0 /\ last = 0 /\ last' = 1 /\ SetJob([NoJob EXCEPT !.uid = 1])
      /\ UNCHANGED <<pods, started, pp, nsLabel, nsCache, cache, queue, up>>
  BY OneJob DEF CreateJob, OneRun
<1>a. PICK o : o = [NoJob EXCEPT !.uid = 1]
  OBVIOUS
<1>2. o \in JobObj /\ o.uid = 1 /\ ~ready(o) /\ ~o.ann /\ job' = o
  <2>1. 1 \in 0 .. MaxRuns /\ NoJob \in JobObj
    BY AbsentTypes, ConstantsAssumption DEF OneRun
  <2>2. o \in JobObj
    BY <1>a, <2>1 DEF JobObj
  <2>3. o.uid = 1 /\ ~ready(o) /\ ~o.ann
    BY <1>a DEF NoJob, ready
  <2>4. job' = o
    BY <1>1, <1>a DEF SetJob
  <2> QED BY <2>2, <2>3, <2>4
<1>3. Onward
  BY <1>1 DEF Onward, Over
<1>4. Truths \subseteq OfPP /\ cache.job.uid = 0
  BY <1>1 DEF Truths, OfPP, Truthful, SnapInv
<1>5. Truthful(job)'
  BY <1>1, <1>2 DEF Truthful
<1>6. Truths \subseteq Truths'
  BY <1>1, <1>3, StaysTrue
<1>7. watch \in Seq(Truths')
  BY <1>6, Wider DEF SnapInv
<1>8. watch' \in Seq(Truths') /\ (~up' => watch' = <<>>)
  <2>1. PICK e \in Event : e = JobEvent(o, FALSE) /\ e.kind = "job" /\ e.job = o
    BY <1>2, EventIs
  <2>0. SetJob(o)
    BY <1>1, <1>a
  <2>2. e \in Truths'
    <3>1. e.kind = "job" /\ e.job = o
      BY <2>1
    <3>2. o.uid = 1 /\ last' = 1 /\ ~o.ann /\ ~o.finished /\ ~o.deleting
      BY <1>1, <1>2 DEF ready
    <3>3. e.job.uid # 0 /\ Truthful(e.job)'
      BY <3>1, <3>2 DEF Truthful, ready
    <3> QED BY <3>1, <3>3 DEF Truths
  <2>3. watch' = watch \/ (up /\ watch' = Append(watch, e))
    <3>1. o.uid # 0 /\ e = JobEvent(o, FALSE)
      BY <1>2, <2>1
    <3>2. watch' = IF ~up \/ o = job THEN watch ELSE Append(watch, JobEvent(o, FALSE))
      BY <1>2, <2>0 DEF SetJob
    <3> QED BY <3>1, <3>2
  <2>4. CASE watch' = watch
    BY <1>1, <1>7, <2>4 DEF SnapInv
  <2>5. CASE up /\ watch' = Append(watch, e)
    <3>1. watch' \in Seq(Truths')
      BY <1>7, <2>2, <2>5, AppendProperties
    <3> QED BY <1>1, <2>5, <3>1
  <2> QED BY <2>3, <2>4, <2>5
<1>9. SnapInv'
  BY <1>1, <1>3, <1>5, <1>8, SnapKept DEF SnapInv
<1> QED BY <1>1, <1>2, <1>a, <1>3, <1>4, <1>9

\* Users, pods and the cluster.
LEMMA SnapCluster ==
  ASSUME OneRun, MaxToggles = 0, TypeOK, SnapInv, ClusterStep
  PROVE  Onward /\ SnapInv'
<1> USE DEF workload, shared, post, ns, informer, process, history
<1>0. last \in 0 .. 1 /\ job \in JobObj /\ pp \in PPObj
  BY OneJob DEF TypeOK
<1>1. CASE CreateJob
  BY <1>1, SnapCreate
<1>2. CASE StartPod
  <2>1. /\ UNCHANGED <<job, last, up, watch, pp, started>>
        /\ UNCHANGED <<nsLabel, nsCache, cache, queue>> /\ ~Over
    BY <1>2 DEF StartPod, Over, ready
  <2> QED BY <2>1, SnapSame DEF SnapInv
<1>3. CASE CollectGarbage \/ \E u \in Runs : PodWrites(u) \/ RemovePods(u)
  <2>1. /\ UNCHANGED <<job, last, up, watch, pp, started>>
        /\ UNCHANGED <<nsLabel, nsCache, cache, queue>> /\ pods' \subseteq pods
    BY <1>3 DEF CollectGarbage, PodWrites, RemovePods
  <2> QED BY <2>1, SnapSame DEF SnapInv
<1>4. CASE FinishJob \/ DeleteJob
  <2>1. PICK o \in JobObj : SetJob(o) /\ Updates(o)
    <3> DEFINE a == [job EXCEPT !.finished = TRUE]
               b == [job EXCEPT !.deleting = TRUE]
    <3>1. a \in JobObj /\ b \in JobObj /\ NoJob \in JobObj /\ job.uid # 0
      BY <1>0, <1>4, AbsentTypes DEF JobObj, FinishJob, DeleteJob
    <3>2. Updates(a) /\ Updates(b) /\ Updates(NoJob)
      BY <1>0, <3>1 DEF JobObj, Updates, ready, NoJob
    <3>3. SetJob(a) \/ SetJob(b) \/ SetJob(NoJob)
      BY <1>4 DEF FinishJob, DeleteJob
    <3> HIDE DEF a, b
    <3> QED BY <3>1, <3>2, <3>3
  <2>2. UNCHANGED <<last, pods, up, started, pp, nsLabel, nsCache, cache, queue>>
    BY <1>4 DEF FinishJob, DeleteJob
  <2>3. Onward /\ Truthful(job)' /\ watch' \in Seq(Truths') /\ (~up' => watch' = <<>>)
    BY <2>1, <2>2, SnapSetJob
  <2> QED BY <1>0, <2>2, <2>3, SnapKept DEF SnapInv
<1>5. CASE ToggleNamespace
  BY <1>5 DEF ToggleNamespace, TypeOK
<1>6. CASE RunPP \/ ExpirePP
  <2>1. /\ UNCHANGED <<job, last, pods, up, started>>
        /\ UNCHANGED <<nsLabel, nsCache, cache, queue>>
    BY <1>6 DEF RunPP, ExpirePP
  <2>2. PICK o \in PPObj : SetPP(o) /\ o.uid \in {0, pp.uid}
    <3>1. CASE ExpirePP
      <4>1. SetPP(NoPP) /\ NoPP \in PPObj /\ NoPP.uid = 0
        BY <3>1, AbsentTypes DEF ExpirePP, RemovePP, NoPP
      <4> QED BY <4>1
    <3>2. CASE RunPP
      <4>1. PICK r \in {"Complete", "Failed"} : SetPP([pp EXCEPT !.result = r])
        BY <3>2 DEF RunPP
      <4> DEFINE o == [pp EXCEPT !.result = r]
      <4>2. o \in PPObj /\ o.uid = pp.uid
        BY <1>0 DEF PPObj
      <4> HIDE DEF o
      <4> QED BY <4>1, <4>2 DEF o
    <3> QED BY <1>6, <3>1, <3>2
  <2>3. Onward
    BY <2>1 DEF Onward, Over
  <2>4. Truths \subseteq Truths'
    BY <1>0, <2>3, StaysTrue
  <2>5. watch' \in Seq(Truths') /\ (~up' => watch' = <<>>)
    BY <2>1, <2>2, <2>4, SnapSetPP
  <2>6. Truthful(job)'
    BY <1>0, <2>1, <2>3, TruthKept DEF SnapInv, Truthful
  <2>7. pp'.uid # 0 => 1 \in started'
    BY <2>1, <2>2 DEF SetPP, SnapInv
  <2> QED BY <1>0, <2>1, <2>3, <2>5, <2>6, <2>7, SnapKept
<1> QED BY <1>1, <1>2, <1>3, <1>4, <1>5, <1>6 DEF ClusterStep

-----------------------------------------------------------------------------
(* The handler has a reason to take the finalizer off *)

\* The handler goes on with the same event, or has done so.
LEMMA ExcuseMove ==
  ASSUME OneRun, TypeOK, ExcuseInv, Onward, h'.job = h.job,
         h'.pc \in ForJob => h.job.uid # 0,
         h'.pc = "qualifyB" => ready(h.job),
         h'.pc \in {"own", "annotate"} => 1 \in started',
         h'.pc \in {"deleteIdentity", "removeFinalizer"} => Excused \/ 1 \in started'
  PROVE  ExcuseInv'
<1>1. Truthful(h.job)'
  BY OneJob, TruthKept DEF ExcuseInv, Truthful
<1>2. Excused \/ 1 \in started' => Excused'
  BY DEF Excused, Onward
<1> QED BY <1>1, <1>2 DEF ExcuseInv, ready

\* An idle handler needs no reason.
LEMMA ExcuseIdle ==
  ASSUME h' = Idle
  PROVE  ExcuseInv'
BY DEF Idle, NoJob, ExcuseInv, Truthful, ForJob, OnJob

\* The handler takes an event.
LEMMA ExcuseTake ==
  ASSUME OneRun, TypeOK, SnapInv, HandleEvent
  PROVE  ExcuseInv'
<1> DEFINE e == Head(queue)
<1>0. e \in Truths /\ e \in Event
  BY HeadTail DEF HandleEvent, SnapInv, TypeOK
<1>1. UNCHANGED <<job, last, started, pods>> /\ nsCache # "disabled"
  BY DEF HandleEvent, workload, history, SnapInv
<1>2. PICK pc : /\ pc = IF e.kind = "job" THEN onJobEvent(e.job)
                        ELSE onPostprocessJobEvent(e.pp)
                /\ h' = IF pc = "idle" THEN Idle
                        ELSE [Idle EXCEPT !.pc = pc, !.job = e.job, !.pp = e.pp]
  BY DEF HandleEvent
<1> HIDE DEF e
<1>3. CASE pc = "idle"
  BY <1>2, <1>3, ExcuseIdle
<1>4. CASE pc # "idle" /\ e.kind = "job"
  <2>1. h'.pc = pc /\ h'.job = e.job
    BY <1>2, <1>4 DEF Idle
  <2>2. e.job.uid # 0 /\ Truthful(e.job)
    BY <1>0, <1>4 DEF Truths
  <2>3. /\ pc \in {"qualifyA", "qualifyB", "removeFinalizer"}
        /\ pc = "qualifyB" => ready(e.job)
        /\ pc = "removeFinalizer" => e.job.ann
    BY <1>1, <1>2, <1>4
       DEF onJobEvent, isNamespaceOptedOut, isNamespaceEnabled
  <2>4. Truthful(h.job)'
    BY <1>1, <2>1, <2>2 DEF Truthful, Over, ready
  <2>5. pc = "removeFinalizer" => Excused'
    BY <1>1, <2>2, <2>3 DEF Truthful, Excused
  <2> QED BY <2>1, <2>2, <2>3, <2>4, <2>5 DEF ExcuseInv, ready
<1>5. CASE pc # "idle" /\ e.kind # "job"
  <2>1. h'.pc = "mark" /\ h'.job = e.job
    BY <1>2, <1>5 DEF Idle, onPostprocessJobEvent
  <2>2. e.job.uid = 0
    BY <1>0, <1>5 DEF Truths
  <2> QED BY <2>1, <2>2 DEF ExcuseInv, Truthful, ForJob, OnJob
<1> QED BY <1>3, <1>4, <1>5

\* Every step keeps the reason: onJobEvent and createPostprocessJob branch on
\* it, and the calls between do not disturb it.
LEMMA ExcuseNext ==
  ASSUME OneRun, "list_pods" \notin Faults, TypeOK, SnapInv, ExcuseInv, Onward,
         [Next]_vars
  PROVE  ExcuseInv'
<1> USE DEF workload, shared, post, ns, informer, process, history
<1>0. Truthful(h.job) /\ h \in Handler /\ h.job.uid \in {0, 1} /\ pp.uid \in {0, 1}
  BY OneJob DEF ExcuseInv, TypeOK
<1>1. /\ DOMAIN h = {"pc", "job", "pp", "pods", "data"}
      /\ \A pc : Goto(pc) => h'.pc = pc /\ h'.job = h.job
  BY <1>0 DEF Handler, Goto
<1>2. CASE InformerStep \/ ClusterStep \/ UNCHANGED vars
  <2>1. h' = h \/ h' = Idle
    BY <1>2 DEF InformerStep, Deliver, Resync, SyncNamespace, Crash, Restart,
         ClusterStep, CreateJob, StartPod, FinishJob, DeleteJob,
         ToggleNamespace, PodWrites, RemovePods, RunPP, ExpirePP,
         CollectGarbage, vars
  <2>2. h' = h => ExcuseInv'
    <3> SUFFICES ASSUME h' = h PROVE ExcuseInv'
      OBVIOUS
    <3>1. 1 \in started => 1 \in started'
      BY DEF Onward
    <3> QED BY <3>1, ExcuseMove DEF ExcuseInv
  <2> QED BY <2>1, <2>2, ExcuseIdle
<1>3. CASE HandleEvent
  BY <1>3, ExcuseTake
<1>4. CASE QualifyRunning \/ AddFinalizer \/ RemoveFinalizer \/ SetRetries
           \/ FailedEvent \/ DeleteInputs
  <2>1. h' = Idle \/ Goto("addFinalizer")
    BY <1>4 DEF QualifyRunning, AddFinalizer, RemoveFinalizer, SetRetries,
         FailedEvent, DeleteInputs, Return
  <2>2. ASSUME Goto("addFinalizer") PROVE ExcuseInv'
    BY <1>1, <2>2, ExcuseMove DEF ForJob, OnJob
  <2> QED BY <2>1, <2>2, ExcuseIdle
<1>5. CASE MarkCollected \/ DeleteWorkloadData \/ CollectIdentity \/ DeletePP
  <2>1. h' = Idle \/ \E pc \in {"delData", "delIdentity", "failedEvent",
                                "delPP", "delInputs"} : Goto(pc)
    BY <1>5 DEF MarkCollected, DeleteWorkloadData, CollectIdentity, DeletePP,
         Return
  <2>2. ASSUME NEW pc \in {"delData", "delIdentity", "failedEvent",
                           "delPP", "delInputs"}, Goto(pc)
        PROVE  ExcuseInv'
    BY <1>1, <2>2, ExcuseMove DEF ForJob, OnJob
  <2> QED BY <2>1, <2>2, ExcuseIdle
<1>6. CASE QualifyFinished
  <2>1. h.job.uid # 0 /\ ready(h.job)
    BY <1>6 DEF QualifyFinished, ExcuseInv, ForJob, OnJob
  <2>2. \/ Goto("listPods")
        \/ Goto("deleteIdentity") /\ ~shouldPostprocess(h.job)
    BY <1>6 DEF QualifyFinished, Outcome, Refused
  <2>3. CASE Goto("listPods")
    BY <1>1, <2>1, <2>3, ExcuseMove
  <2>4. CASE Goto("deleteIdentity") /\ ~shouldPostprocess(h.job)
    <3>1. pods \cap Gpu = {}
      BY <2>4 DEF shouldPostprocess, podsRequestGPU, getInstrumentedPods
    <3>2. Excused
      BY <1>0, <2>1, <3>1 DEF Excused, Truthful
    <3> QED BY <1>1, <2>1, <2>4, <3>2, ExcuseMove
  <2> QED BY <2>2, <2>3, <2>4
<1>7. CASE DeleteIdentity
  <2>1. h.job.uid # 0 /\ Excused
    BY <1>7 DEF DeleteIdentity, ExcuseInv, ForJob
  <2>2. Goto("removeFinalizer") \/ h' = Idle
    BY <1>7 DEF DeleteIdentity, Return
  <2>3. CASE Goto("removeFinalizer")
    BY <1>1, <2>1, <2>3, ExcuseMove
  <2> QED BY <2>2, <2>3, ExcuseIdle
<1>8. CASE \/ ListPods \/ DeleteStalePP \/ DeleteStaleInputs \/ BuildInputs
           \/ WriteInputs \/ EnsureSigningKey
  <2>1. h.job.uid # 0
    BY <1>8 DEF ListPods, DeleteStalePP, DeleteStaleInputs, BuildInputs,
         WriteInputs, EnsureSigningKey, ExcuseInv, ForJob, OnJob
  <2>2. /\ h'.job = h.job
        /\ h'.pc \in {"existing", "delStaleInputs", "build", "writeInputs",
                      "signingKey", "create"}
    BY <1>1, <1>8 DEF ListPods, DeleteStalePP, DeleteStaleInputs, BuildInputs,
         WriteInputs, EnsureSigningKey
  <2> QED BY <2>1, <2>2, ExcuseMove
<1>9. CASE ExistingPostprocessJob
  <2>1. h.job.uid = 1
    BY <1>0, <1>9 DEF ExistingPostprocessJob, ExcuseInv, ForJob, OnJob
  <2>2. \/ \E pc \in {"build", "delStalePP"} : Goto(pc)
        \/ Goto("annotate") /\ pp.uid # 0
        \/ h' = Idle
    BY <1>9 DEF ExistingPostprocessJob, Return
  <2>3. ASSUME NEW pc \in {"build", "delStalePP"}, Goto(pc) PROVE ExcuseInv'
    BY <1>1, <2>1, <2>3, ExcuseMove
  <2>4. ASSUME Goto("annotate"), pp.uid # 0 PROVE ExcuseInv'
    <3>1. 1 \in started'
      BY <2>4 DEF SnapInv, Onward
    <3> QED BY <1>1, <2>1, <2>4, <3>1, ExcuseMove
  <2> QED BY <2>2, <2>3, <2>4, ExcuseIdle
<1>10. ASSUME h.job.uid = 1, Goto(AfterCreateError) PROVE ExcuseInv'
  <2>1. CASE h.job.retries + 1 >= maxPostprocessRetries
    <3>1. Goto("deleteIdentity") /\ Excused
      BY <1>10, <2>1 DEF AfterCreateError, Excused
    <3> QED BY <1>1, <1>10, <3>1, ExcuseMove
  <2>2. CASE ~(h.job.retries + 1 >= maxPostprocessRetries)
    <3>1. Goto("setRetries")
      BY <1>10, <2>2 DEF AfterCreateError
    <3> QED BY <1>1, <1>10, <3>1, ExcuseMove
  <2> QED BY <2>1, <2>2
<1>11. CASE CreatePP
  <2>1. h.job.uid = 1
    BY <1>0, <1>11 DEF CreatePP, ExcuseInv, ForJob, OnJob
  <2>2. \/ Goto(AfterCreateError)
        \/ Goto("own") /\ 1 \in started'
        \/ Goto("annotate") /\ pp.uid # 0
    BY <1>11, <2>1 DEF CreatePP
  <2>3. ASSUME NEW pc \in {"own", "annotate"}, Goto(pc), 1 \in started'
        PROVE  ExcuseInv'
    BY <1>1, <2>1, <2>3, ExcuseMove
  <2>4. pp.uid # 0 => 1 \in started'
    BY DEF SnapInv, Onward
  <2> QED BY <1>10, <2>1, <2>2, <2>3, <2>4
<1>12. CASE OwnInputs
  <2>1. h.job.uid = 1 /\ Goto("annotate") /\ 1 \in started'
    BY <1>0, <1>12 DEF OwnInputs, ExcuseInv, ForJob, Onward
  <2> QED BY <1>1, <2>1, ExcuseMove
<1>13. CASE Annotate
  <2>1. h.job.uid = 1 /\ 1 \in started'
    BY <1>0, <1>13 DEF Annotate, ExcuseInv, ForJob, Onward
  <2>2. Goto(AfterCreateError) \/ Goto("removeFinalizer") \/ h' = Idle
    BY <1>13 DEF Annotate, Return
  <2>3. CASE Goto("removeFinalizer")
    BY <1>1, <2>1, <2>3, ExcuseMove
  <2> QED BY <1>10, <2>1, <2>2, <2>3, ExcuseIdle
<1> QED BY <1>2, <1>3, <1>4, <1>5, <1>6, <1>7, <1>8, <1>9, <1>11, <1>12, <1>13
        DEF Next, HandlerStep

-----------------------------------------------------------------------------
(* No retry is counted twice or forgotten *)

\* A queue with no event on the Job is in order.
LEMMA PPsInOrder ==
  ASSUME NEW s \in Seq(OfPP)
  PROVE  /\ s \in Seq(Event) /\ InOrder(s) /\ s \in Seq(Present)
         /\ \A lo, hi \in Int : s \in Seq(Within(lo, hi))
<1>1. OfPP \subseteq Event /\ OfPP \subseteq Present
  BY DEF OfPP, Present
<1>2. \A i \in 1 .. Len(s) : s[i].kind # "job"
  BY Element DEF OfPP
<1>3. \A lo, hi \in Int : s \in Seq(Within(lo, hi))
  BY WithinWider
<1> QED BY <1>1, <1>2, <1>3, Wider DEF InOrder

\* The types of the counts and the queues.
LEMMA CountTypes ==
  ASSUME TypeOK
  PROVE  /\ job.retries \in Nat /\ cache.job.retries \in Nat
         /\ h.job.retries \in Nat
         /\ watch \in Seq(Event) /\ queue \in Seq(Event)
BY DEF TypeOK, JobObj, Handler

\* An event on a Job with the same count, or on the postprocess Job, follows.
LEMMA CountsWatch ==
  ASSUME TypeOK, CountsInv, job.uid # 0, job'.retries = job.retries,
         UNCHANGED <<cache, queue, up>>, h'.job \in {h.job, NoJob},
         \/ watch' = watch
         \/ \E e \in Event : /\ watch' = Append(watch, e)
                             /\ e.kind = "job" => ~e.gone /\ e.job.retries = job.retries
  PROVE  CountsInv'
<1>0. NoJob.uid = 0 /\ job.retries \in Nat /\ cache.job.retries \in Nat
  BY CountTypes DEF NoJob
<1>1. CASE watch' = watch
  BY <1>0, <1>1 DEF CountsInv
<1>2. ASSUME NEW e \in Event, watch' = Append(watch, e),
             e.kind = "job" => ~e.gone /\ e.job.retries = job.retries
      PROVE  CountsInv'
  <2>1. e \in Present /\ e \in Within(job.retries - 1, job.retries)
    BY <1>0, <1>2 DEF Present, Within
  <2>2. InOrder(watch')
    <3>1. /\ watch \in Seq(Event) /\ InOrder(watch)
          /\ watch \in Seq(Within(job.retries - 1, job.retries))
      BY <1>0, CountTypes DEF CountsInv
    <3>2. /\ job.retries - 1 \in Int /\ job.retries \in Int
          /\ e.kind = "job" => job.retries <= e.job.retries
      BY <1>0, <1>2
    <3>3. InOrder(Append(watch, e))
      BY <3>1, <3>2, OrderAppend
    <3> QED BY <1>2, <3>3
  <2>3. watch' \in Seq(Present)
    BY <1>2, <2>1, AppendProperties DEF CountsInv
  <2>4. watch' \in Seq(Within(job.retries - 1, job.retries))
    BY <1>2, <2>1, AppendProperties DEF CountsInv
  <2>5. cache.job.uid # 0 => watch' \in Seq(Within(cache.job.retries, job.retries))
    <3>1. cache.job.uid # 0 => e \in Within(cache.job.retries, job.retries)
      BY <1>0, <1>2 DEF Within, CountsInv
    <3> QED BY <1>2, <3>1, AppendProperties DEF CountsInv
  <2> QED BY <1>0, <2>2, <2>3, <2>4, <2>5 DEF CountsInv
<1> QED BY <1>1, <1>2

\* The failure of an attempt is counted.
LEMMA CountsRetry ==
  ASSUME TypeOK, ExcuseInv, CountsInv, SetRetries
  PROVE  CountsInv'
<1>0. /\ NoJob.uid = 0 /\ job.retries \in Nat /\ cache.job.retries \in Nat
      /\ h.job.retries \in Nat /\ watch \in Seq(Event) /\ h'.job = NoJob
  BY CountTypes DEF NoJob, SetRetries, Return, Idle
<1>1. PICK ok \in BOOLEAN :
        SetJob(IF ok /\ job.uid # 0
               THEN [job EXCEPT !.retries = h.job.retries + 1] ELSE job)
  BY DEF SetRetries
<1>2. UNCHANGED <<cache, queue, up>>
  BY DEF SetRetries, informer, process
<1>3. PICK o : o = [job EXCEPT !.retries = h.job.retries + 1]
  OBVIOUS
<1>4. o \in JobObj /\ o.uid = job.uid /\ o.retries = h.job.retries + 1
  <2>1. job \in JobObj /\ h.job.retries + 1 \in Nat
    BY <1>0 DEF TypeOK
  <2> QED BY <1>3, <2>1 DEF JobObj
<1>5. CASE ~(ok /\ job.uid # 0)
  <2>1. job' = job /\ watch' = watch
    BY <1>1, <1>5 DEF SetJob
  <2> QED BY <1>0, <1>2, <2>1 DEF CountsInv
<1>6. CASE ok /\ job.uid # 0
  <2>1. SetJob(o)
    BY <1>1, <1>3, <1>6
  <2>2. /\ job' = o
        /\ watch' = watch \/ watch' = Append(watch, JobEvent(o, FALSE))
    BY <1>4, <1>6, <2>1 DEF SetJob
  <2>3. PICK e \in Event : /\ e = JobEvent(o, FALSE) /\ e.kind = "job"
                           /\ e.job = o /\ ~e.gone
    BY <1>4, EventIs
  <2>4. /\ h.job.uid # 0 /\ job'.retries = h.job.retries + 1
        /\ h.job.retries \in {job.retries - 1, job.retries}
        /\ cache.job.uid # 0
        /\ h.job.retries <= cache.job.retries /\ cache.job.retries <= job.retries
    BY <1>0, <1>4, <1>6, <2>2 DEF SetRetries, ExcuseInv, ForJob, CountsInv
  <2>5. watch' = watch \/ (watch' = Append(watch, e) /\ e.job.retries = job'.retries)
    BY <1>4, <2>2, <2>3
  <2>6. CASE h.job.retries = job.retries - 1
    <3>1. job'.retries = job.retries
      BY <1>0, <2>4, <2>6
    <3> QED BY <1>0, <1>2, <1>6, <2>3, <2>5, <3>1, CountsWatch
  <2>7. CASE h.job.retries = job.retries
    <3>0. PICK r : r = job.retries
      OBVIOUS
    <3>1. r \in Nat /\ cache.job.retries = r /\ job'.retries = r + 1
      BY <1>0, <2>4, <2>7, <3>0
    <3>2. /\ queue \in Seq(Within(r, r)) /\ watch \in Seq(Within(r, r))
          /\ InOrder(watch) /\ InOrder(queue) /\ watch \in Seq(Present)
      BY <1>6, <2>4, <2>7, <3>0, <3>1 DEF CountsInv
    <3>3. watch \in Seq(Within(r, r + 1))
      BY <3>1, <3>2, WithinWider
    <3>a. e.job.retries = r + 1
      BY <1>4, <2>2, <2>3, <3>1
    <3>b. r <= e.job.retries /\ e.job.retries <= r + 1
      BY <3>1, <3>a
    <3>4. e \in Within(r, r + 1) /\ e \in Present
      BY <2>3, <3>b DEF Within, Present
    <3>5. watch' \in Seq(Within(r, r + 1)) /\ watch' \in Seq(Present)
      <4>1. CASE watch' = watch
        BY <3>2, <3>3, <4>1
      <4>2. CASE watch' = Append(watch, e)
        BY <3>2, <3>3, <3>4, <4>2, AppendProperties
      <4> QED BY <2>5, <4>1, <4>2
    <3>6. InOrder(watch')
      <4>1. InOrder(Append(watch, e))
        BY <1>0, <3>1, <3>2, <3>b, OrderAppend
      <4> QED BY <2>5, <3>2, <4>1
    <3>7. up
      BY <1>6, <2>4 DEF CountsInv
    <3>8. job'.retries - 1 = r /\ r <= r /\ r <= job'.retries
      BY <3>1
    <3>9. /\ cache'.job.uid # 0 /\ cache'.job.retries = r /\ h'.job.uid = 0
          /\ up' /\ queue' = queue
      BY <1>0, <1>2, <2>4, <3>1, <3>7
    <3> QED BY <3>1, <3>2, <3>5, <3>6, <3>8, <3>9 DEF CountsInv
  <2> QED BY <2>4, <2>6, <2>7
<1> QED BY <1>5, <1>6

\* The handler takes an event.
LEMMA CountsTake ==
  ASSUME TypeOK, SnapInv, CountsInv, HandleEvent
  PROVE  CountsInv'
<1> DEFINE e == Head(queue)
<1>0. e \in Truths /\ e \in Event /\ queue \in Seq(Event) /\ queue # <<>>
  BY HeadTail DEF HandleEvent, SnapInv, TypeOK
<1>1. UNCHANGED <<job, cache, watch, up>> /\ queue' = Tail(queue)
  BY DEF HandleEvent, workload, process
<1>2. h'.job = NoJob \/ h'.job = e.job
  BY DEF HandleEvent, Idle
<1>3. /\ NoJob.uid = 0 /\ job.retries \in Nat /\ cache.job.retries \in Nat
      /\ e.kind # "job" => e.job.uid = 0
  BY <1>0, CountTypes DEF NoJob, Truths
<1> HIDE DEF e
<1> SUFFICES ASSUME job.uid # 0 PROVE CountsInv'
  BY <1>1 DEF CountsInv
<1>4. CASE cache.job.uid = 0
  <2>1. queue \in Seq(OfPP)
    BY <1>4 DEF CountsInv
  <2>2. queue' \in Seq(OfPP) /\ e \in OfPP
    BY <1>0, <1>1, <2>1, HeadTail DEF e
  <2>3. h'.job.uid = 0
    BY <1>2, <1>3, <2>2 DEF OfPP
  <2>4. InOrder(queue')
    BY <2>2, PPsInOrder
  <2> QED BY <1>1, <1>4, <2>2, <2>3, <2>4 DEF CountsInv
<1>5. CASE cache.job.uid # 0
  <2> DEFINE lo == job.retries - 1
             hi == cache.job.retries
  <2>0. lo \in Int /\ hi \in Int
    BY <1>3
  <2>1. queue \in Seq(Within(lo, hi)) /\ InOrder(queue)
    BY <1>5 DEF CountsInv
  <2> HIDE DEF lo, hi
  <2>2. /\ InOrder(queue')
        /\ e.kind = "job" => /\ queue' \in Seq(Within(e.job.retries, hi))
                             /\ lo <= e.job.retries /\ e.job.retries <= hi
    BY <1>0, <1>1, <2>0, <2>1, OrderTail DEF e
  <2>3. queue' \in Seq(Within(lo, hi))
    BY <1>0, <1>1, <2>1, HeadTail
  <2>4. h'.job.uid # 0 => h'.job = e.job /\ e.kind = "job"
    BY <1>2, <1>3
  <2> QED BY <1>1, <1>5, <2>2, <2>3, <2>4 DEF CountsInv, lo, hi
<1> QED BY <1>4, <1>5

\* The reflector reads a change.
LEMMA CountsDeliver ==
  ASSUME TypeOK, SnapInv, CountsInv, Deliver
  PROVE  CountsInv'
<1> DEFINE e == Head(watch)
<1>0. /\ e \in Truths /\ e \in Event /\ watch \in Seq(Event) /\ watch # <<>>
      /\ queue \in Seq(Event)
  BY HeadTail DEF Deliver, SnapInv, TypeOK
<1>1. /\ UNCHANGED <<job, h, up>> /\ up
      /\ watch' = Tail(watch) /\ queue' = Append(queue, e)
      /\ cache'.job = IF e.kind = "job" THEN IF e.gone THEN NoJob ELSE e.job
                      ELSE cache.job
  BY DEF Deliver, workload, process, TypeOK
<1>2. job.retries \in Nat /\ cache.job.retries \in Nat /\ h.job.retries \in Nat
  BY CountTypes
<1>3. e.job.retries \in Nat
  BY <1>0 DEF Event, JobObj
<1> SUFFICES ASSUME job.uid # 0 PROVE CountsInv'
  BY <1>1 DEF CountsInv
<1>R. PICK R : R = job.retries
  OBVIOUS
<1>4. /\ InOrder(watch) /\ InOrder(queue) /\ watch \in Seq(Present)
      /\ watch \in Seq(Within(R - 1, R))
  BY <1>R DEF CountsInv
<1>5. R \in Int /\ R - 1 \in Int
  BY <1>2, <1>R
<1>6. /\ InOrder(watch') /\ watch' \in Seq(Present)
      /\ watch' \in Seq(Within(R - 1, R)) /\ e \in Present
      /\ e \in Within(R - 1, R)
  <2>1. InOrder(watch')
    BY <1>0, <1>1, <1>4, <1>5, OrderTail
  <2>2. watch' \in Seq(Present) /\ e \in Present
    BY <1>0, <1>1, <1>4, HeadTail
  <2>3. watch' \in Seq(Within(R - 1, R)) /\ e \in Within(R - 1, R)
    BY <1>0, <1>1, <1>4, HeadTail
  <2> QED BY <2>1, <2>2, <2>3
<1>7. CASE e.kind = "job"
  <2>r. PICK r : r = e.job.retries
    OBVIOUS
  <2>0. r \in Nat
    BY <1>3, <2>r
  <2>1. cache'.job = e.job /\ e.job.uid # 0
    BY <1>0, <1>1, <1>6, <1>7 DEF Present, Truths
  <2>2. /\ watch' \in Seq(Within(r, R)) /\ R - 1 <= r /\ r <= R
    BY <1>0, <1>1, <1>4, <1>5, <1>7, <2>r, OrderTail
  <2>3. cache.job.uid # 0 => cache.job.retries <= r
    <3>1. cache.job.uid # 0 => watch \in Seq(Within(cache.job.retries, R))
      BY <1>R DEF CountsInv
    <3>2. cache.job.uid # 0 => e \in Within(cache.job.retries, R)
      BY <1>0, <3>1, HeadTail
    <3> QED BY <1>7, <2>r, <3>2 DEF Within
  <2>4. queue \in Seq(Within(R - 1, r))
    <3>1. CASE cache.job.uid = 0
      <4>1. queue \in Seq(OfPP)
        BY <3>1 DEF CountsInv
      <4> QED BY <1>5, <2>0, <4>1, PPsInOrder
    <3>2. CASE cache.job.uid # 0
      <4>1. queue \in Seq(Within(R - 1, cache.job.retries))
        BY <1>R, <3>2 DEF CountsInv
      <4>2. /\ cache.job.retries \in Int /\ r \in Int /\ R - 1 <= R - 1
            /\ cache.job.retries <= r
        BY <1>2, <1>5, <2>0, <2>3, <3>2
      <4> QED BY <1>5, <4>1, <4>2, WithinWider
    <3> QED BY <3>1, <3>2
  <2>5. queue' \in Seq(Within(R - 1, r))
    <3>1. e \in Within(R - 1, r)
      BY <1>0, <2>0, <2>2, <2>r DEF Within
    <3> QED BY <1>1, <2>4, <3>1, AppendProperties
  <2>6. InOrder(queue')
    <3>1. InOrder(Append(queue, e))
      BY <1>0, <1>4, <1>5, <2>0, <2>4, <2>r, OrderAppend
    <3> QED BY <1>1, <3>1
  <2>7. h.job.uid # 0 =>
          /\ R - 1 <= h.job.retries /\ h.job.retries <= r
          /\ queue' \in Seq(Within(h.job.retries, r))
    <3> SUFFICES ASSUME h.job.uid # 0
                 PROVE  /\ R - 1 <= h.job.retries /\ h.job.retries <= r
                        /\ queue' \in Seq(Within(h.job.retries, r))
      OBVIOUS
    <3>1. /\ cache.job.uid # 0 /\ R - 1 <= h.job.retries
          /\ h.job.retries <= cache.job.retries
          /\ queue \in Seq(Within(h.job.retries, cache.job.retries))
      BY <1>R DEF CountsInv
    <3>2. h.job.retries <= r
      BY <1>2, <2>0, <2>3, <3>1
    <3>3. queue \in Seq(Within(h.job.retries, r))
      BY <1>2, <2>0, <2>3, <3>1, WithinWider
    <3>4. e \in Within(h.job.retries, r)
      BY <1>0, <2>0, <2>r, <3>2 DEF Within
    <3>5. queue' \in Seq(Within(h.job.retries, r))
      BY <1>1, <3>3, <3>4, AppendProperties
    <3> QED BY <3>1, <3>2, <3>5
  <2> QED BY <1>R, <1>1, <1>6, <2>1, <2>2, <2>5, <2>6, <2>7, <2>r DEF CountsInv
<1>8. CASE e.kind # "job"
  <2>1. cache'.job = cache.job /\ e \in OfPP
    BY <1>0, <1>1, <1>8 DEF OfPP
  <2>2. \A lo, hi \in Int : e \in Within(lo, hi)
    BY <1>0, <1>8 DEF Within
  <2>3. InOrder(queue')
    <3>1. CASE cache.job.uid = 0
      <4>1. queue \in Seq(Within(R - 1, R))
        BY <1>5, <3>1, PPsInOrder DEF CountsInv
      <4>2. InOrder(Append(queue, e))
        BY <1>0, <1>4, <1>5, <1>8, <4>1, OrderAppend
      <4> QED BY <1>1, <4>2
    <3>2. CASE cache.job.uid # 0
      <4>1. queue \in Seq(Within(R - 1, cache.job.retries)) /\ cache.job.retries \in Int
        BY <1>R, <1>2, <3>2 DEF CountsInv
      <4>2. InOrder(Append(queue, e))
        BY <1>0, <1>4, <1>5, <1>8, <4>1, OrderAppend
      <4> QED BY <1>1, <4>2
    <3> QED BY <3>1, <3>2
  <2>4. CASE cache.job.uid = 0
    <3>1. queue' \in Seq(OfPP)
      BY <1>1, <2>1, <2>4, AppendProperties DEF CountsInv
    <3> QED BY <1>R, <1>1, <1>6, <2>1, <2>3, <2>4, <3>1 DEF CountsInv
  <2>5. CASE cache.job.uid # 0
    <3>c. PICK c : c = cache.job.retries
      OBVIOUS
    <3>1. /\ queue \in Seq(Within(R - 1, c)) /\ watch \in Seq(Within(c, R))
          /\ h.job.uid # 0 => queue \in Seq(Within(h.job.retries, c))
      BY <1>R, <2>5, <3>c DEF CountsInv
    <3>2. queue' \in Seq(Within(R - 1, c))
      BY <1>1, <1>2, <1>5, <2>2, <3>1, <3>c, AppendProperties
    <3>3. h.job.uid # 0 => queue' \in Seq(Within(h.job.retries, c))
      BY <1>1, <1>2, <2>2, <3>1, <3>c, AppendProperties
    <3>4. watch' \in Seq(Within(c, R))
      BY <1>0, <1>1, <3>1, HeadTail
    <3> QED BY <1>R, <1>1, <1>6, <2>1, <2>3, <2>5, <3>2, <3>3, <3>4, <3>c DEF CountsInv
  <2> QED BY <2>4, <2>5
<1> QED BY <1>7, <1>8

\* A listing of one snapshot: every count in it is the snapshot's.
LEMMA ListingCounts ==
  ASSUME NEW j \in JobObj, NEW p \in PPObj, NEW events \in Listings(j, p)
  PROVE  /\ events \in Seq(Event) /\ events \in Seq(Within(j.retries, j.retries))
         /\ InOrder(events)
         /\ j.uid = 0 => events \in Seq(OfPP)
<1>1. j.retries \in Nat
  BY DEF JobObj
<1>2. PICK e \in Event : e = JobEvent(j, FALSE) /\ e.kind = "job" /\ e.job = j
  BY EventIs
<1>3. PICK f \in Event : f = PPEvent(p, FALSE) /\ f.kind = "pp"
  BY EventIs
<1>4. e \in Within(j.retries, j.retries) /\ f \in Within(j.retries, j.retries)
  <2>1. e.job.retries = j.retries
    BY <1>2
  <2>2. j.retries <= e.job.retries /\ e.job.retries <= j.retries
    BY <1>1, <2>1
  <2> QED BY <1>3, <2>2 DEF Within
<1>5. f \in OfPP
  BY <1>3 DEF OfPP
<1>6. events \in Seq(Event)
  BY <1>2, <1>3, ListingIn
<1>7. events \in Seq(Within(j.retries, j.retries))
  BY <1>2, <1>3, <1>4, ListingIn
<1>8. j.uid = 0 => events \in Seq(OfPP)
  BY <1>3, <1>5, ListingIn
<1>9. InOrder(events)
  <2>1. \A i \in 1 .. Len(events) :
          events[i] \in Event /\ (events[i].kind = "job" =>
            events[i].job.retries \in Nat /\ j.retries <= events[i].job.retries
            /\ events[i].job.retries <= j.retries)
    BY <1>7, Element DEF Within, Event, JobObj
  <2>2. \A i \in 1 .. Len(events) :
          events[i].kind = "job" => events[i].job.retries = j.retries
    BY <1>1, <2>1
  <2> QED BY <1>1, <2>2 DEF InOrder
<1> QED BY <1>6, <1>7, <1>8, <1>9

\* The cache is listed again.
LEMMA CountsResync ==
  ASSUME TypeOK, CountsInv, Resync
  PROVE  CountsInv'
<1>1. PICK events \in Listings(cache.job, cache.pp) : queue' = queue \o events
  BY DEF Resync
<1>2. UNCHANGED <<job, cache, watch, up, h>>
  BY DEF Resync, workload, process
<1> SUFFICES ASSUME job.uid # 0 PROVE CountsInv'
  BY <1>2 DEF CountsInv
<1>3. cache.job \in JobObj /\ cache.pp \in PPObj
  BY DEF TypeOK
<1>c. PICK c : c = cache.job.retries
  OBVIOUS
<1>R. PICK R : R = job.retries
  OBVIOUS
<1>4. /\ events \in Seq(Event) /\ events \in Seq(Within(c, c))
      /\ cache.job.uid = 0 => events \in Seq(OfPP)
  BY <1>3, <1>c, ListingCounts
<1>5. /\ c \in Nat /\ R \in Nat /\ h.job.retries \in Nat /\ queue \in Seq(Event)
  BY <1>c, <1>R, CountTypes
<1>6. CASE cache.job.uid = 0
  <2>1. queue' \in Seq(OfPP)
    BY <1>1, <1>4, <1>6, ConcatProperties DEF CountsInv
  <2>2. InOrder(queue')
    BY <2>1, PPsInOrder
  <2> QED BY <1>2, <1>6, <2>1, <2>2 DEF CountsInv
<1>7. CASE cache.job.uid # 0
  <2>1. /\ R - 1 <= c /\ queue \in Seq(Within(R - 1, c)) /\ InOrder(queue)
        /\ h.job.uid # 0 => /\ h.job.retries <= c
                            /\ queue \in Seq(Within(h.job.retries, c))
    BY <1>7, <1>c, <1>R DEF CountsInv
  <2>2. R - 1 \in Int /\ c \in Int /\ h.job.retries \in Int /\ c <= c
    BY <1>5
  <2>3. InOrder(queue \o events)
    BY <1>4, <1>5, <2>1, <2>2, OrderConcat
  <2>4. queue \o events \in Seq(Within(R - 1, c))
    <3>1. events \in Seq(Within(R - 1, c))
      BY <1>4, <2>1, <2>2, WithinWider
    <3> QED BY <2>1, <3>1, ConcatProperties
  <2>5. h.job.uid # 0 => queue \o events \in Seq(Within(h.job.retries, c))
    <3>1. h.job.uid # 0 => events \in Seq(Within(h.job.retries, c))
      BY <1>4, <2>1, <2>2, WithinWider
    <3> QED BY <2>1, <3>1, ConcatProperties
  <2> QED BY <1>1, <1>2, <1>7, <1>c, <1>R, <2>3, <2>4, <2>5 DEF CountsInv
<1> QED BY <1>6, <1>7

\* A crash forgets every snapshot, and a restart takes new ones.
LEMMA CountsCrash ==
  ASSUME TypeOK, CountsInv, Crash
  PROVE  CountsInv'
<1>1. /\ job' = job /\ cache'.job.uid = 0 /\ h'.job.uid = 0
      /\ watch' = <<>> /\ queue' = <<>> /\ ~up'
  BY DEF Crash, workload, Idle, NoJob
<1>2. <<>> \in Seq(OfPP)
  OBVIOUS
<1>3. /\ InOrder(<<>>) /\ <<>> \in Seq(Present)
      /\ \A lo, hi \in Int : <<>> \in Seq(Within(lo, hi))
  BY <1>2, PPsInOrder
<1>4. job.retries \in Int /\ job.retries - 1 \in Int
  BY CountTypes
<1> QED BY <1>1, <1>2, <1>3, <1>4 DEF CountsInv

\* A restart lists the Job as it is.
LEMMA CountsRestart ==
  ASSUME TypeOK, SnapInv, CountsInv, Restart
  PROVE  CountsInv'
<1>1. /\ job' = job /\ cache'.job = job /\ h' = h /\ up' /\ ~up
      /\ watch' = <<>> /\ queue' \in Listings(job, pp)
  BY DEF Restart, workload, process, SnapInv
<1> SUFFICES ASSUME job.uid # 0 PROVE CountsInv'
  BY <1>1 DEF CountsInv
<1>2. h'.job.uid = 0
  BY <1>1 DEF CountsInv
<1>3. job \in JobObj /\ pp \in PPObj
  BY DEF TypeOK
<1>R. PICK R : R = job.retries
  OBVIOUS
<1>4. /\ R \in Int /\ R - 1 \in Int /\ R - 1 <= R /\ R <= R
  BY <1>R, CountTypes
<1>5. queue' \in Seq(Within(R, R)) /\ InOrder(queue')
  BY <1>1, <1>3, <1>R, ListingCounts
<1>6. queue' \in Seq(Within(R - 1, R))
  BY <1>4, <1>5, WithinWider
<1>7. /\ InOrder(watch') /\ watch' \in Seq(Present)
      /\ watch' \in Seq(Within(R - 1, R)) /\ watch' \in Seq(Within(R, R))
  <2>1. <<>> \in Seq(OfPP)
    OBVIOUS
  <2> QED BY <1>1, <1>4, <2>1, PPsInOrder
<1> QED BY <1>1, <1>2, <1>4, <1>5, <1>6, <1>7, <1>R DEF CountsInv

\* A new Job: no snapshot of it was taken yet.
LEMMA CountsCreate ==
  ASSUME OneRun, TypeOK, SnapInv, ExcuseInv, CreateJob
  PROVE  CountsInv'
<1>1. /\ last = 0 /\ job' = [NoJob EXCEPT !.uid = 1]
      /\ Truths \subseteq OfPP /\ cache.job.uid = 0
  BY SnapCreate
<1>2. UNCHANGED <<cache, queue, up, h>>
  BY DEF CreateJob, informer, process
<1>3. h.job.uid = 0
  BY <1>1 DEF ExcuseInv, Truthful
<1>4. queue \in Seq(OfPP) /\ watch \in Seq(OfPP)
  BY <1>1, Wider DEF SnapInv
<1>a. PICK o : o = [NoJob EXCEPT !.uid = 1]
  OBVIOUS
<1>5. o \in JobObj /\ o.uid = 1 /\ o.retries = 0 /\ job' = o
  <2>1. 1 \in 0 .. MaxRuns /\ NoJob \in JobObj
    BY AbsentTypes, ConstantsAssumption DEF OneRun
  <2>2. o \in JobObj
    BY <1>a, <2>1 DEF JobObj
  <2>3. o.uid = 1 /\ o.retries = 0
    BY <1>a DEF NoJob
  <2> QED BY <1>1, <1>a, <2>2, <2>3
<1>6. PICK e \in Event : /\ e = JobEvent(o, FALSE) /\ e.kind = "job"
                         /\ e.job = o /\ ~e.gone
  BY <1>5, EventIs
<1>7. watch' = watch \/ watch' = Append(watch, e)
  <2>1. SetJob(o)
    BY <1>1, <1>a DEF CreateJob
  <2>2. o.uid # 0
    BY <1>5
  <2> QED BY <1>6, <2>1, <2>2 DEF SetJob
<1>8. /\ InOrder(watch) /\ watch \in Seq(Present) /\ watch \in Seq(Event)
      /\ watch \in Seq(Within(0 - 1, 0)) /\ InOrder(queue)
  BY <1>4, PPsInOrder
<1>b. e.job.retries = 0
  BY <1>5, <1>6
<1>9. e \in Present /\ e \in Within(0 - 1, 0)
  <2>1. 0 - 1 <= e.job.retries /\ e.job.retries <= 0
    BY <1>b
  <2> QED BY <1>6, <2>1 DEF Present, Within
<1>10. watch' \in Seq(Present) /\ watch' \in Seq(Within(0 - 1, 0))
  BY <1>7, <1>8, <1>9, AppendProperties
<1>11. InOrder(watch')
  <2>1. 0 - 1 \in Int /\ 0 \in Int /\ 0 <= e.job.retries
    BY <1>b
  <2>2. InOrder(Append(watch, e))
    BY <1>8, <2>1, OrderAppend
  <2> QED BY <1>7, <1>8, <2>2
<1>12. cache'.job.uid = 0 /\ h'.job.uid = 0 /\ job'.retries = 0
  BY <1>1, <1>2, <1>3, <1>5
<1> QED BY <1>2, <1>4, <1>8, <1>10, <1>11, <1>12 DEF CountsInv

\* An update of the Job that leaves the count alone, or removes the Job.
LEMMA CountsSetJob ==
  ASSUME TypeOK, CountsInv, NEW o \in JobObj, SetJob(o), o.uid \in {0, job.uid},
         o.uid # 0 => o.retries = job.retries,
         UNCHANGED <<cache, queue, up>>, h'.job \in {h.job, NoJob}
  PROVE  CountsInv'
<1>1. job' = o
  BY DEF SetJob
<1>2. CASE o.uid = 0
  BY <1>1, <1>2 DEF CountsInv
<1>3. CASE o.uid # 0
  <2>1. PICK e \in Event : e = JobEvent(o, FALSE) /\ e.job = o /\ ~e.gone
    BY EventIs
  <2>2. watch' = watch \/ watch' = Append(watch, e)
    BY <1>3, <2>1 DEF SetJob
  <2>3. e.job.retries = job.retries /\ job.uid # 0 /\ job'.retries = job.retries
    BY <1>1, <1>3, <2>1
  <2> QED BY <2>1, <2>2, <2>3, CountsWatch
<1> QED BY <1>2, <1>3

\* A step that leaves the Job alone.
LEMMA CountsSame ==
  ASSUME TypeOK, CountsInv, job' = job,
         watch' = watch \/ \E o \in PPObj : SetPP(o),
         UNCHANGED <<cache, queue, up>>, h'.job \in {h.job, NoJob}
  PROVE  CountsInv'
<1>1. CASE job.uid = 0
  BY <1>1 DEF CountsInv
<1>2. CASE job.uid # 0
  <2>1. CASE watch' = watch
    BY <1>2, <2>1, CountsWatch
  <2>2. ASSUME NEW o \in PPObj, SetPP(o)
        PROVE  CountsInv'
    <3>1. watch' = watch \/ \E e \in Event : e.kind = "pp" /\ watch' = Append(watch, e)
      <4>1. pp \in PPObj
        BY DEF TypeOK
      <4> QED BY <2>2, <4>1, EventIs DEF SetPP
    <3> QED BY <1>2, <3>1, CountsWatch
  <2> QED BY <2>1, <2>2
<1> QED BY <1>1, <1>2

\* Every step keeps the snapshots of the count in their order.
LEMMA CountsNext ==
  ASSUME OneRun, TypeOK, SnapInv, ExcuseInv, CountsInv, [Next]_vars
  PROVE  CountsInv'
<1> USE DEF workload, shared, post, ns, informer, process, history
<1>0. /\ job \in JobObj /\ pp \in PPObj /\ h \in Handler
      /\ NoPP \in PPObj /\ NoJob \in JobObj /\ NoJob.uid = 0
  BY AbsentTypes DEF TypeOK, NoJob
<1>1. /\ \A pc : Goto(pc) => h'.job = h.job
      /\ Return => h'.job = NoJob
  BY <1>0 DEF Handler, Goto, Return, Idle
<1>2. CASE \/ QualifyRunning \/ QualifyFinished \/ DeleteIdentity
           \/ ExistingPostprocessJob \/ DeleteStaleInputs
           \/ WriteInputs \/ EnsureSigningKey \/ OwnInputs
           \/ DeleteWorkloadData \/ CollectIdentity \/ FailedEvent
           \/ DeleteInputs
  <2>1. UNCHANGED <<job, watch, cache, queue, up>>
    BY <1>2 DEF QualifyRunning, QualifyFinished, DeleteIdentity,
         ExistingPostprocessJob, DeleteStaleInputs, WriteInputs,
         EnsureSigningKey, OwnInputs, DeleteWorkloadData, CollectIdentity,
         FailedEvent, DeleteInputs
  <2>2. Return \/ \E pc : Goto(pc)
    BY <1>2 DEF QualifyRunning, QualifyFinished, DeleteIdentity,
         ExistingPostprocessJob, DeleteStaleInputs, WriteInputs,
         EnsureSigningKey, OwnInputs, DeleteWorkloadData, CollectIdentity,
         FailedEvent, DeleteInputs
  <2> QED BY <1>1, <2>1, <2>2, CountsSame
<1>3. CASE ListPods \/ BuildInputs
  <2>1. UNCHANGED <<job, watch, cache, queue, up>> /\ h'.job = h.job
    BY <1>0, <1>3 DEF ListPods, BuildInputs, Handler
  <2> QED BY <2>1, CountsSame
<1>4. CASE DeleteStalePP \/ DeletePP \/ MarkCollected \/ CreatePP
  <2>1. UNCHANGED <<job, cache, queue, up>>
    BY <1>4 DEF DeleteStalePP, DeletePP, MarkCollected, CreatePP
  <2>2. Return \/ \E pc : Goto(pc)
    BY <1>4 DEF DeleteStalePP, DeletePP, MarkCollected, CreatePP
  <2>3. watch' = watch \/ \E o \in PPObj : SetPP(o)
    <3>1. CASE DeleteStalePP \/ DeletePP
      BY <1>0, <3>1 DEF DeleteStalePP, DeletePP, RemovePP
    <3>2. CASE MarkCollected
      <4>1. PICK ok \in BOOLEAN :
              SetPP(IF ok /\ pp.uid # 0 THEN [pp EXCEPT !.collected = TRUE] ELSE pp)
        BY <3>2 DEF MarkCollected
      <4>2. [pp EXCEPT !.collected = TRUE] \in PPObj
        BY <1>0 DEF PPObj
      <4> QED BY <1>0, <4>1, <4>2
    <3>3. CASE CreatePP
      <4>1. [uid |-> h.job.uid, result |-> "", collected |-> FALSE] \in PPObj
        BY <1>0 DEF Handler, JobObj, PPObj
      <4> QED BY <3>3, <4>1 DEF CreatePP
    <3> QED BY <1>4, <3>1, <3>2, <3>3
  <2> QED BY <1>1, <2>1, <2>2, <2>3, CountsSame
<1>5. CASE AddFinalizer \/ RemoveFinalizer \/ Annotate
  <2>1. UNCHANGED <<cache, queue, up>>
    BY <1>5 DEF AddFinalizer, RemoveFinalizer, Annotate
  <2>2. Return \/ \E pc : Goto(pc)
    BY <1>5 DEF AddFinalizer, RemoveFinalizer, Annotate
  <2>3. PICK o : SetJob(o) /\ o \in {job, NoJob, [job EXCEPT !.fin = TRUE],
                                     [job EXCEPT !.fin = FALSE],
                                     [job EXCEPT !.ann = TRUE]}
    BY <1>5 DEF AddFinalizer, RemoveFinalizer, Annotate
  <2>4. /\ o \in JobObj /\ o.uid \in {0, job.uid}
        /\ o.uid # 0 => o.retries = job.retries
    BY <1>0, <2>3 DEF JobObj
  <2> QED BY <1>1, <2>1, <2>2, <2>3, <2>4, CountsSetJob
<1>6. CASE FinishJob \/ DeleteJob
  <2>1. UNCHANGED <<cache, queue, up, h>>
    BY <1>6 DEF FinishJob, DeleteJob
  <2>2. PICK o : SetJob(o) /\ o \in {NoJob, [job EXCEPT !.finished = TRUE],
                                     [job EXCEPT !.deleting = TRUE]}
    BY <1>6 DEF FinishJob, DeleteJob
  <2>3. /\ o \in JobObj /\ o.uid \in {0, job.uid}
        /\ o.uid # 0 => o.retries = job.retries
    BY <1>0, <2>2 DEF JobObj
  <2> QED BY <2>1, <2>2, <2>3, CountsSetJob
<1>7. CASE RunPP \/ ExpirePP
  <2>1. UNCHANGED <<job, cache, queue, up, h>>
    BY <1>7 DEF RunPP, ExpirePP
  <2>2. PICK o : SetPP(o) /\ o \in {NoPP, [pp EXCEPT !.result = "Complete"],
                                    [pp EXCEPT !.result = "Failed"]}
    BY <1>7 DEF RunPP, ExpirePP, RemovePP
  <2>3. o \in PPObj
    BY <1>0, <2>2 DEF PPObj
  <2> QED BY <2>1, <2>2, <2>3, CountsSame
<1>8. CASE \/ StartPod \/ ToggleNamespace \/ CollectGarbage \/ SyncNamespace
           \/ (\E u \in Runs : PodWrites(u) \/ RemovePods(u)) \/ UNCHANGED vars
  <2>1. UNCHANGED <<job, watch, cache, queue, up, h>>
    BY <1>8 DEF StartPod, ToggleNamespace, CollectGarbage, SyncNamespace,
         PodWrites, RemovePods, vars
  <2> QED BY <2>1, CountsSame
<1> QED BY <1>2, <1>3, <1>4, <1>5, <1>6, <1>7, <1>8, CountsRetry, CountsTake,
           CountsDeliver, CountsResync, CountsCrash, CountsRestart, CountsCreate
        DEF Next, HandlerStep, InformerStep, ClusterStep

-----------------------------------------------------------------------------
(* The finalizer is held *)

\* Only the call that removes the finalizer takes it off a Job.
LEMMA OnlyRemoves ==
  ASSUME TypeOK, [Next]_vars, job.uid # 0, job.fin, ~job'.fin
  PROVE  RemoveFinalizer
<1> USE DEF workload, shared, post, ns, informer, process, history
<1>0. job \in JobObj
  BY DEF TypeOK
<1>1. job' # job
  OBVIOUS
<1>2. CASE AddFinalizer \/ SetRetries \/ Annotate \/ FinishJob \/ DeleteJob
  <2>1. PICK n : \E o \in {job, [job EXCEPT !.fin = TRUE], [job EXCEPT !.ann = TRUE],
                           [job EXCEPT !.retries = n],
                           [job EXCEPT !.finished = TRUE],
                           [job EXCEPT !.deleting = TRUE]} : job' = o
    BY <1>2 DEF AddFinalizer, SetRetries, Annotate, FinishJob, DeleteJob, SetJob
  <2> QED BY <1>0, <2>1 DEF JobObj
<1>3. CASE CreateJob
  BY <1>3 DEF CreateJob
<1>4. CASE \/ QualifyRunning \/ QualifyFinished \/ DeleteIdentity
           \/ ExistingPostprocessJob \/ DeleteStaleInputs
           \/ WriteInputs \/ EnsureSigningKey \/ OwnInputs
           \/ DeleteWorkloadData \/ CollectIdentity \/ FailedEvent
           \/ DeleteInputs \/ HandleEvent \/ ListPods \/ DeleteStalePP
           \/ BuildInputs \/ CreatePP \/ MarkCollected \/ DeletePP
  BY <1>1, <1>4 DEF QualifyRunning, QualifyFinished, DeleteIdentity,
       ExistingPostprocessJob, DeleteStaleInputs, WriteInputs,
       EnsureSigningKey, OwnInputs, DeleteWorkloadData, CollectIdentity,
       FailedEvent, DeleteInputs, HandleEvent, ListPods, DeleteStalePP,
       BuildInputs, CreatePP, MarkCollected, DeletePP
<1>5. CASE InformerStep
  BY <1>1, <1>5 DEF InformerStep, Deliver, Resync, SyncNamespace, Crash, Restart
<1>6. CASE \/ StartPod \/ ToggleNamespace \/ RunPP \/ ExpirePP \/ CollectGarbage
           \/ (\E u \in Runs : PodWrites(u) \/ RemovePods(u)) \/ UNCHANGED vars
  BY <1>1, <1>6 DEF StartPod, ToggleNamespace, RunPP, ExpirePP, CollectGarbage,
       PodWrites, RemovePods, vars
<1> QED BY <1>2, <1>3, <1>4, <1>5, <1>6 DEF Next, HandlerStep, ClusterStep

\* The inductive invariant behind HeldUntilStarted.
HeldInv == SnapInv /\ ExcuseInv /\ CountsInv

\* When the handler is about to remove the finalizer it has one of the reasons
\* that HeldUntilStarted allows, and the reason still holds.
LEMMA HeldStep ==
  ASSUME OneRun, TypeOK, HeldInv, [Next]_vars, job.uid # 0, job.fin, ~job'.fin,
         pods \cap Gpu # {}
  PROVE  job.uid \in started \/ job.retries + 1 >= maxPostprocessRetries
<1>1. h.pc = "removeFinalizer"
  BY OnlyRemoves DEF RemoveFinalizer
<1>2. h.job.uid # 0 /\ Excused
  BY <1>1 DEF HeldInv, ExcuseInv, ForJob
<1>3. CASE 1 \in started
  BY <1>3, OneJob
<1>4. CASE h.job.retries + 1 >= maxPostprocessRetries
  <2>1. cache.job.uid # 0 /\ h.job.retries <= cache.job.retries
    BY <1>2 DEF HeldInv, CountsInv
  <2>2. cache.job.retries <= job.retries
    BY <2>1 DEF HeldInv, CountsInv
  <2>3. maxPostprocessRetries \in Nat
    BY ConstantsAssumption
  <2> QED BY <1>4, <2>1, <2>2, <2>3, CountTypes
<1> QED BY <1>2, <1>3, <1>4 DEF Excused

\* HeldUntilStarted, for a name that has one run: a Job whose GPU pods exist
\* keeps its finalizer until a postprocess Job was created for the run or the
\* retries are used up (onJobEvent), whatever other call fails and wherever the
\* watcher crashes.  The namespace stays opted in, and the list of pods, whose
\* failure counts as "does not qualify", succeeds.
THEOREM HeldBack ==
  ASSUME OneRun, MaxToggles = 0, "list_pods" \notin Faults
  PROVE  Spec => HeldUntilStarted
<1>1. Init => HeldInv
  <2> SUFFICES ASSUME Init PROVE HeldInv
    OBVIOUS
  <2>1. /\ job.uid = 0 /\ cache.job.uid = 0 /\ h.job.uid = 0 /\ pp.uid = 0
        /\ h.pc = "idle" /\ watch = <<>> /\ queue = <<>>
    BY DEF Init, NoJob, NoPP, Idle
  <2>2. SnapInv
    BY <2>1 DEF Init, SnapInv, Truthful
  <2>3. ExcuseInv
    BY <2>1 DEF ExcuseInv, Truthful, ForJob, OnJob
  <2> QED BY <2>1, <2>2, <2>3 DEF HeldInv, CountsInv
<1>2. TypeOK /\ HeldInv /\ [Next]_vars => HeldInv'
  <2> SUFFICES ASSUME TypeOK, HeldInv, [Next]_vars PROVE HeldInv'
    OBVIOUS
  <2>1. SnapInv /\ ExcuseInv /\ CountsInv
    BY DEF HeldInv
  <2>2. Onward /\ SnapInv'
    <3>1. CASE Next
      BY <2>1, <3>1, SnapHandler, SnapInformer, SnapCluster DEF Next
    <3>2. CASE UNCHANGED vars
      <4>1. /\ UNCHANGED <<job, last, pods, up, watch, pp, started>>
            /\ UNCHANGED <<nsLabel, nsCache, cache, queue>>
        BY <3>2 DEF vars, workload, ns, informer, process, history, post
      <4> QED BY <2>1, <4>1, SnapSame DEF SnapInv
    <3> QED BY <3>1, <3>2
  <2>3. ExcuseInv'
    BY <2>1, <2>2, ExcuseNext
  <2>4. CountsInv'
    BY <2>1, CountsNext
  <2> QED BY <2>2, <2>3, <2>4 DEF HeldInv
<1>3. TypeOK /\ HeldInv /\ [Next]_vars
      => [job.uid # 0 /\ job.fin /\ ~job'.fin /\ pods \cap Gpu # {}
            => \/ job.uid \in started
               \/ nsCache = "disabled"
               \/ job.retries + 1 >= maxPostprocessRetries]_vars
  BY HeldStep
<1> QED BY <1>1, <1>2, <1>3, TypeCorrect, PTL DEF Spec, HeldUntilStarted

=============================================================================
