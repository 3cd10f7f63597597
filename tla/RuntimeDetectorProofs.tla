----------------------- MODULE RuntimeDetectorProofs -----------------------
(***************************************************************************)
(* Theorems about RuntimeDetector, for any processes and timers.           *)
(***************************************************************************)
EXTENDS RuntimeDetector, TLAPS

\* The empty contents have their types.
LEMMA EmptyTypes ==
  /\ NoGit \in Git /\ NoInfo \in Info
  /\ Empty \in Content /\ NoLocal \in Local
<1>1. NoGit \in Git /\ NoInfo \in Info
  BY DEF NoGit, Git, NoInfo, Info
<1>2. Empty \in Content
  BY <1>1 DEF Empty, Content
<1> QED BY <1>1, <1>2 DEF NoLocal, Local

\* dict.update with keys of git or of argv keeps the type, and no key is lost.
LEMMA UpdatedType ==
  ASSUME NEW old \in Info, NEW D \in SUBSET Keys,
         NEW new \in [D -> SUBSET Values]
  PROVE  /\ Updated(old, new) \in Info
         /\ \A k \in Keys : old[k] # {} => Updated(old, new)[k] # {}
         /\ \A k \in D : new[k] # {} => Updated(old, new)[k] # {}
         /\ \A k \in Keys \ D : Updated(old, new)[k] = old[k]
BY DEF Updated, Info

\* What argv and git give are values of keys.
LEMMA GivenTypes ==
  /\ GitKeys \subseteq Keys /\ ArgKeys \subseteq Keys
  /\ GitKeys \cap ArgKeys = {}
  /\ \A p \in Procs : Argv[p] \in [ArgKeys -> SUBSET Values]
  /\ \A g \in Git : g \in [GitKeys -> SUBSET Values]
<1>1. Trees \subseteq Values
  BY DEF Values
<1>2. ASSUME NEW p \in Procs PROVE Argv[p] \in [ArgKeys -> SUBSET Values]
  <2>1. Argv[p] \in [ArgKeys -> SUBSET Nat]
    BY DetectorAssumption
  <2>2. \A k \in ArgKeys : Argv[p][k] \subseteq Values
    BY DEF Values
  <2> QED BY <2>1, <2>2
<1> QED BY <1>1, <1>2, DetectorAssumption DEF Keys, Git

\* A content lists what another one does when it has its datasets and its keys.
LEMMA ListingGrows ==
  ASSUME NEW a, NEW b, a.items \subseteq b.items,
         \A k \in ArgKeys : a.info[k] # {} => b.info[k] # {}
  PROVE  Listing(a) \subseteq Listing(b)
BY DEF Listing

\* A merge of two contents is a content, and lists what either of them lists.
LEMMA MergeType ==
  ASSUME NEW a \in Content, NEW b \in Content
  PROVE  /\ _merge_output(a, b) \in Content
         /\ Listing(a) \subseteq Listing(_merge_output(a, b))
         /\ Listing(b) \subseteq Listing(_merge_output(a, b))
<1>1. PICK dropped \in {{}, GitKeys}, kept \in Info :
        /\ kept = [k \in Keys |-> IF k \in dropped THEN {} ELSE a.info[k]]
        /\ _merge_output(a, b) = [items |-> a.items \cup b.items,
                                 info  |-> Updated(kept, b.info)]
  <2>1. \A d : [k \in Keys |-> IF k \in d THEN {} ELSE a.info[k]] \in Info
    BY DEF Content, Info
  <2> QED BY <2>1 DEF _merge_output
<1>2. /\ Updated(kept, b.info) \in Info
      /\ \A k \in Keys : kept[k] # {} => Updated(kept, b.info)[k] # {}
      /\ \A k \in Keys : b.info[k] # {} => Updated(kept, b.info)[k] # {}
  <2>1. b.info \in [Keys -> SUBSET Values] /\ Keys \in SUBSET Keys
    BY DEF Content, Info
  <2> QED BY <2>1, UpdatedType
<1>3. \A k \in ArgKeys : kept[k] = a.info[k]
  BY <1>1, GivenTypes
<1>4. /\ \A k \in ArgKeys : a.info[k] # {} => Updated(kept, b.info)[k] # {}
      /\ \A k \in ArgKeys : b.info[k] # {} => Updated(kept, b.info)[k] # {}
  BY <1>2, <1>3, GivenTypes
<1>5. _merge_output(a, b) \in Content
  BY <1>1, <1>2 DEF Content
<1>6. /\ a.items \subseteq _merge_output(a, b).items
      /\ b.items \subseteq _merge_output(a, b).items
      /\ _merge_output(a, b).info = Updated(kept, b.info)
  BY <1>1
<1> QED BY <1>4, <1>5, <1>6, ListingGrows

\* What a process has in its memory is a content.
LEMMA MemoryType ==
  ASSUME TypeOK, NEW p \in Procs PROVE Memory(p) \in Content
BY DEF TypeOK, Memory, Content

\* A thread's step keeps the type of the program counters.
LEMMA StepType ==
  ASSUME TypeOK, NEW p \in Procs, NEW t \in Threads, NEW from, NEW to \in PCs,
         Step(p, t, from, to)
  PROVE  pc' \in [Procs -> [Threads -> PCs]]
BY DEF Step, TypeOK

\* A change of one thread's local variables keeps their type.
LEMMA LocalType ==
  ASSUME NEW l \in Local, NEW c \in Content, NEW g \in Git
  PROVE  /\ [l EXCEPT !.found = g] \in Local
         /\ [l EXCEPT !.copy = c] \in Local
         /\ [l EXCEPT !.existing = c] \in Local
<1>1. /\ [l EXCEPT !.found = g] =
            [found |-> g, copy |-> l.copy, existing |-> l.existing]
      /\ [l EXCEPT !.copy = c] =
            [found |-> l.found, copy |-> c, existing |-> l.existing]
      /\ [l EXCEPT !.existing = c] =
            [found |-> l.found, copy |-> l.copy, existing |-> c]
  BY DEF Local
<1>2. l.found \in Git /\ l.copy \in Content /\ l.existing \in Content
  BY DEF Local
<1> QED BY <1>1, <1>2 DEF Local

\* The same for all threads' variables.
LEMMA LocType ==
  ASSUME TypeOK, NEW p \in Procs, NEW t \in Threads, NEW l \in Local
  PROVE  [loc EXCEPT ![p][t] = l] \in [Procs -> [Threads -> Local]]
BY DEF TypeOK

\* Recording and the timers keep the types.
LEMMA TypeRecording ==
  ASSUME TypeOK, NEW p \in Procs, NEW t \in Threads,
         \/ Record(p) \/ RecordEntry(p) \/ Notify(p) \/ Arm(p) \/ Fire(p, t)
  PROVE  TypeOK'
<1>1. CASE Record(p)
  BY <1>1, StepType DEF Record, TypeOK, state, PCs, Threads
<1>2. CASE RecordEntry(p)
  <2>1. Undetected(p) \subseteq Items
    BY DetectorAssumption DEF Undetected, Items
  <2>2. PICK i \in Undetected(p) : mem' = [mem EXCEPT ![p] = @ \cup {i}]
    BY <1>2 DEF RecordEntry
  <2>3. mem' \in [Procs -> SUBSET Items]
    BY <2>1, <2>2 DEF TypeOK
  <2> QED BY <1>2, <2>3, StepType DEF RecordEntry, TypeOK, PCs, Threads
<1>3. CASE Notify(p)
  BY <1>3, StepType DEF Notify, TypeOK, state, PCs, Threads
<1>4. CASE Arm(p)
  BY <1>4, StepType DEF Arm, TypeOK, state, PCs, Threads
<1>5. CASE Fire(p, t)
  BY <1>5, StepType DEF Fire, TypeOK, state, locks, PCs
<1> QED BY <1>1, <1>2, <1>3, <1>4, <1>5

\* The steps of a flush keep the types.
LEMMA TypeFlush ==
  ASSUME TypeOK, NEW p \in Procs, NEW t \in Threads, FlushStep(p, t),
         ~Done(p, t)
  PROVE  TypeOK'
<1>1. CASE Args(p, t)
  <2>1. Updated(info[p], Argv[p]) \in Info
    BY GivenTypes, UpdatedType DEF TypeOK
  <2>2. info' \in [Procs -> Info]
    BY <1>1, <2>1 DEF Args, TypeOK
  <2> QED BY <1>1, <2>2, StepType DEF Args, NotifyIf, TypeOK, locks, PCs
<1>2. CASE Check(p, t)
  BY <1>2, StepType DEF Check, TypeOK, state, locks, PCs
<1>3. CASE GitNone(p, t)
  BY <1>3, StepType DEF GitNone, TypeOK, locks, PCs
<1>4. CASE GitLock(p, t)
  BY <1>4, StepType DEF GitLock, TypeOK, state, PCs
<1>5. CASE GitUpdate(p, t)
  <2>1. loc[p][t].found \in Git
    BY DEF TypeOK, Local
  <2>2. Updated(info[p], loc[p][t].found) \in Info
    BY <2>1, GivenTypes, UpdatedType DEF TypeOK
  <2>3. info' \in [Procs -> Info]
    BY <1>5, <2>2 DEF GitUpdate, TypeOK
  <2> QED BY <1>5, <2>3, StepType, LocType, EmptyTypes
          DEF GitUpdate, NotifyIf, TypeOK, PCs
<1>6. CASE Copy(p, t)
  <2>1. [loc[p][t] EXCEPT !.copy = Memory(p)] \in Local
    <3>1. /\ Memory(p) \in Content /\ loc[p][t] \in Local
          /\ NoGit \in Git
      BY MemoryType, EmptyTypes DEF TypeOK
    <3> QED BY <3>1, LocalType
  <2>2. loc' = [loc EXCEPT ![p][t] = [loc[p][t] EXCEPT !.copy = Memory(p)]]
    BY <1>6 DEF Copy, TypeOK
  <2> QED BY <1>6, <2>1, <2>2, StepType, LocType
          DEF Copy, TypeOK, state, locks, PCs
<1>7. CASE Flock(p, t)
  BY <1>7, StepType DEF Flock, TypeOK, state, locks, PCs, Critical
<1>8. CASE FlockTimeout(p, t)
  BY <1>8, StepType, LocType, EmptyTypes
     DEF FlockTimeout, TypeOK, state, locks, PCs
<1>9. CASE Read(p, t)
  <2>1. [loc[p][t] EXCEPT !.existing = file] \in Local
    <3>1. file \in Content /\ loc[p][t] \in Local /\ NoGit \in Git
      BY EmptyTypes DEF TypeOK
    <3> QED BY <3>1, LocalType
  <2>2. loc' = [loc EXCEPT ![p][t] = [loc[p][t] EXCEPT !.existing = file]]
    BY <1>9 DEF Read, TypeOK
  <2> QED BY <1>9, <2>1, <2>2, StepType, LocType
          DEF Read, TypeOK, state, locks, PCs, Critical
<1>10. CASE Replace(p, t)
  <2>1. loc[p][t].existing \in Content /\ loc[p][t].copy \in Content
    BY DEF TypeOK, Local
  <2> QED BY <1>10, <2>1, StepType, LocType, EmptyTypes, MergeType
          DEF Replace, TypeOK, state, locks, PCs, Critical
<1>11. CASE Close(p, t)
  BY <1>11, StepType DEF Close, TypeOK, state, locks, PCs
<1>12. CASE GitObserve(p, t)
  <2>1. TreeOf[p] \in Trees
    BY <1>12, DetectorAssumption DEF GitObserve, Trees
  <2>2. PICK g \in Git : loc' = [loc EXCEPT ![p][t].found = g]
    BY <1>12, <2>1 DEF GitObserve, Git
  <2>3. [loc[p][t] EXCEPT !.found = g] \in Local
    <3>1. loc[p][t] \in Local /\ Empty \in Content
      BY EmptyTypes DEF TypeOK
    <3> QED BY <3>1, LocalType
  <2>4. loc' = [loc EXCEPT ![p][t] = [loc[p][t] EXCEPT !.found = g]]
    BY <2>2 DEF TypeOK
  <2> QED BY <1>12, <2>3, <2>4, StepType, LocType
          DEF GitObserve, TypeOK, state, locks, PCs
<1> QED
  BY <1>1, <1>2, <1>3, <1>4, <1>5, <1>6, <1>7, <1>8, <1>9, <1>10, <1>11,
     <1>12 DEF FlushStep

\* The end of a process keeps the types.
LEMMA TypeDie ==
  ASSUME TypeOK, NEW p \in Procs, NEW how \in Dead, Die(p, how)
  PROVE  TypeOK'
BY EmptyTypes DEF Die, Dead, TypeOK, Lives, PCs

\* Processes that exit, fork or get a signal keep the types.
LEMMA TypeProcess ==
  ASSUME TypeOK, NEW p \in Procs, ProcessStep(p)
  PROVE  TypeOK'
<1>1. CASE Record(p)
  BY <1>1, TypeRecording DEF Threads
<1>2. CASE BeginExit(p)
  BY <1>2, StepType DEF BeginExit, TypeOK, state, locks, Lives, PCs, Threads
<1>3. CASE Sigterm(p)
  BY <1>3, LocType, EmptyTypes
     DEF Sigterm, TypeOK, state, locks, Lives, PCs, Threads
<1>4. CASE Sigkill(p)
  BY <1>4, TypeDie DEF Sigkill, Dead
<1>5. ASSUME NEW c \in Procs, Fork(p, c) PROVE TypeOK'
  BY <1>5 DEF Fork, TypeOK, locks, Lives, PCs, Threads
<1> QED BY <1>1, <1>2, <1>3, <1>4, <1>5 DEF ProcessStep

\* Every step keeps the types.
LEMMA TypeNext == TypeOK /\ [Next]_vars => TypeOK'
<1> SUFFICES ASSUME TypeOK, [Next]_vars PROVE TypeOK'
  OBVIOUS
<1>1. ASSUME NEW p \in Procs, ProcessStep(p) PROVE TypeOK'
  BY <1>1, TypeProcess
<1>2. ASSUME NEW p \in Procs, NEW t \in Threads, ThreadStep(p, t)
      PROVE  TypeOK'
  <2>1. CASE Done(p, t)
    <3>1. CASE t = "main"
      BY <2>1, <3>1, TypeDie DEF Done, Dead
    <3>2. CASE t # "main"
      BY <2>1, <3>2, StepType DEF Done, TypeOK, state, locks, PCs
    <3> QED BY <3>1, <3>2
  <2>2. CASE ~Done(p, t)
    BY <1>2, <2>2, TypeFlush, TypeRecording DEF ThreadStep
  <2> QED BY <2>1, <2>2
<1>3. CASE UNCHANGED vars
  BY <1>3 DEF vars, state, locks, TypeOK
<1> QED BY <1>1, <1>2, <1>3 DEF Next

-----------------------------------------------------------------------------
\* A step after which only threads that were inside before are inside, with
\* the file, the lock and their variables as they were, keeps the invariant.
LEMMA KeptInside ==
  ASSUME FlockInv, TypeOK', file' = file,
         \A q \in Procs, u \in Threads : pc'[q][u] \in Critical =>
           pc'[q][u] = pc[q][u] /\ q \in flock' /\ loc'[q][u] = loc[q][u]
  PROVE  FlockInv'
BY DEF FlockInv, Critical

\* A thread's step from outside to outside keeps it.
LEMMA StepOutside ==
  ASSUME FlockInv, TypeOK', NEW p \in Procs, NEW t \in Threads, NEW from,
         NEW to \in PCs \ Critical, Step(p, t, from, to),
         file' = file, flock' = flock,
         \A q \in Procs, u \in Threads :
           <<q, u>> # <<p, t>> => loc'[q][u] = loc[q][u]
  PROVE  FlockInv'
<1>1. ASSUME NEW q \in Procs, NEW u \in Threads, pc'[q][u] \in Critical
      PROVE  pc'[q][u] = pc[q][u] /\ q \in flock' /\ loc'[q][u] = loc[q][u]
  <2>1. <<q, u>> # <<p, t>>
    BY <1>1 DEF Step, FlockInv, TypeOK
  <2>2. pc'[q][u] = pc[q][u]
    BY <2>1 DEF Step, FlockInv, TypeOK
  <2> QED BY <1>1, <2>1, <2>2 DEF FlockInv
<1> QED BY <1>1, KeptInside

\* A process that ends takes its threads out.
LEMMA DieOutside ==
  ASSUME FlockInv, TypeOK', NEW p \in Procs, NEW how, Die(p, how)
  PROVE  FlockInv'
<1>1. ASSUME NEW q \in Procs, NEW u \in Threads, pc'[q][u] \in Critical
      PROVE  pc'[q][u] = pc[q][u] /\ q \in flock' /\ loc'[q][u] = loc[q][u]
  <2>1. q # p
    BY <1>1 DEF Die, FlockInv, TypeOK, Critical
  <2> QED BY <1>1, <2>1 DEF Die, FlockInv, TypeOK
<1> QED BY <1>1, KeptInside DEF Die

\* The steps of a flush keep the invariant: the flock is taken only when no
\* process has it, hence when nobody is inside.
LEMMA InvFlush ==
  ASSUME FlockInv, TypeOK', NEW p \in Procs, NEW t \in Threads,
         FlushStep(p, t)
  PROVE  FlockInv'
<1>0. TypeOK
  BY DEF FlockInv
<1>1. CASE Args(p, t)
  BY <1>1, StepOutside DEF Args, PCs, Critical
<1>2. CASE Check(p, t)
  BY <1>2, StepOutside DEF Check, PCs, Critical
<1>3. CASE GitNone(p, t)
  BY <1>3, StepOutside DEF GitNone, PCs, Critical
<1>4. CASE GitLock(p, t)
  BY <1>4, StepOutside DEF GitLock, PCs, Critical
<1>5. CASE GitUpdate(p, t)
  <2>1. \A q \in Procs, u \in Threads :
          <<q, u>> # <<p, t>> => loc'[q][u] = loc[q][u]
    BY <1>0, <1>5 DEF GitUpdate, TypeOK
  <2> QED BY <1>5, <2>1, StepOutside DEF GitUpdate, PCs, Critical
<1>6. CASE Copy(p, t)
  <2>1. \A q \in Procs, u \in Threads :
          <<q, u>> # <<p, t>> => loc'[q][u] = loc[q][u]
    BY <1>0, <1>6 DEF Copy, TypeOK
  <2> QED BY <1>6, <2>1, StepOutside DEF Copy, PCs, Critical
<1>7. CASE Flock(p, t)
  <2>1. \A q \in Procs, u \in Threads : pc[q][u] \notin Critical
    BY <1>7 DEF Flock, FlockInv
  <2>2. \A q \in Procs, u \in Threads :
          pc'[q][u] \in Critical => q = p /\ u = t /\ pc'[q][u] = "read"
    BY <1>0, <1>7, <2>1 DEF Flock, Step, TypeOK
  <2>3. \A q \in Procs, u \in Threads : pc'[q][u] # "replace"
    BY <2>2 DEF Critical
  <2>4. p \in flock'
    BY <1>7 DEF Flock
  <2> QED BY <2>2, <2>3, <2>4 DEF FlockInv
<1>8. CASE FlockTimeout(p, t)
  BY <1>0, <1>8, StepOutside DEF FlockTimeout, PCs, Critical, TypeOK
<1>9. CASE Read(p, t)
  <2>1. pc[p][t] \in Critical
    BY <1>9 DEF Read, Step, Critical
  <2>2. \A q \in Procs, u \in Threads :
          pc'[q][u] \in Critical => q = p /\ u = t
    BY <1>0, <1>9, <2>1 DEF Read, Step, TypeOK, FlockInv
  <2>3. loc'[p][t].existing = file
    BY <1>0, <1>9 DEF Read, TypeOK, Local
  <2> QED BY <1>9, <2>1, <2>2, <2>3 DEF Read, FlockInv, Critical
<1>10. CASE Replace(p, t)
  <2>1. pc[p][t] \in Critical
    BY <1>10 DEF Replace, Step, Critical
  <2>2. \A q \in Procs, u \in Threads : pc'[q][u] \in Critical =>
          q = p /\ u = t /\ pc'[q][u] = "close"
    BY <1>0, <1>10, <2>1 DEF Replace, Step, TypeOK, FlockInv
  <2> QED BY <1>10, <2>1, <2>2 DEF Replace, FlockInv, Critical
<1>11. CASE Close(p, t)
  <2>1. pc[p][t] \in Critical
    BY <1>11 DEF Close, Step, Critical
  <2>2. \A q \in Procs, u \in Threads : pc'[q][u] \notin Critical
    BY <1>0, <1>11, <2>1 DEF Close, Step, TypeOK, FlockInv, Critical
  <2> QED BY <1>11, <2>2, KeptInside DEF Close
<1>12. CASE Done(p, t)
  <2>1. CASE t = "main"
    BY <1>12, <2>1, DieOutside DEF Done
  <2>2. CASE t # "main"
    BY <1>12, <2>2, StepOutside DEF Done, PCs, Critical
  <2> QED BY <2>1, <2>2
<1>13. CASE GitObserve(p, t)
  <2>1. \A q \in Procs, u \in Threads :
          <<q, u>> # <<p, t>> => loc'[q][u] = loc[q][u]
    BY <1>0, <1>13 DEF GitObserve, TypeOK
  <2> QED BY <1>13, <2>1, StepOutside DEF GitObserve, PCs, Critical
<1> QED
  BY <1>1, <1>2, <1>3, <1>4, <1>5, <1>6, <1>7, <1>8, <1>9, <1>10, <1>11,
     <1>12, <1>13 DEF FlushStep

\* So do the other steps of threads and processes: a fork passes the locked
\* file on but puts no thread inside.
LEMMA InvOther ==
  ASSUME FlockInv, TypeOK', NEW p \in Procs, NEW t \in Threads,
         \/ RecordEntry(p) \/ Notify(p) \/ Arm(p) \/ Fire(p, t)
         \/ ProcessStep(p)
  PROVE  FlockInv'
<1>0. TypeOK /\ "main" \in Threads
  BY DEF FlockInv, Threads
<1>1. CASE RecordEntry(p) \/ Notify(p) \/ Arm(p) \/ Fire(p, t) \/ Record(p)
  BY <1>0, <1>1, StepOutside
     DEF RecordEntry, Notify, Arm, Fire, Record, PCs, Critical
<1>2. CASE BeginExit(p)
  BY <1>0, <1>2, StepOutside DEF BeginExit, PCs, Critical
<1>3. CASE Sigterm(p)
  <2>1. ASSUME NEW q \in Procs, NEW u \in Threads, pc'[q][u] \in Critical
        PROVE  pc'[q][u] = pc[q][u] /\ q \in flock' /\ loc'[q][u] = loc[q][u]
    <3>1. <<q, u>> # <<p, "main">>
      BY <1>0, <1>3, <2>1 DEF Sigterm, TypeOK, Critical
    <3>2. pc'[q][u] = pc[q][u] /\ loc'[q][u] = loc[q][u]
      BY <1>0, <1>3, <3>1 DEF Sigterm, TypeOK
    <3> QED BY <1>3, <2>1, <3>2 DEF Sigterm, FlockInv
  <2> QED BY <1>3, <2>1, KeptInside DEF Sigterm
<1>4. CASE Sigkill(p)
  BY <1>4, DieOutside DEF Sigkill
<1>5. ASSUME NEW c \in Procs, Fork(p, c) PROVE FlockInv'
  <2>1. ASSUME NEW q \in Procs, NEW u \in Threads, pc'[q][u] \in Critical
        PROVE  pc'[q][u] = pc[q][u] /\ q \in flock' /\ loc'[q][u] = loc[q][u]
    <3>1. <<q, u>> # <<c, "main">>
      BY <1>0, <1>5, <2>1 DEF Fork, TypeOK, Critical
    <3>2. pc'[q][u] = pc[q][u]
      BY <1>0, <1>5, <3>1 DEF Fork, TypeOK
    <3> QED BY <1>5, <2>1, <3>2 DEF Fork, FlockInv
  <2> QED BY <1>5, <2>1, KeptInside DEF Fork
<1> QED BY <1>1, <1>2, <1>3, <1>4, <1>5 DEF ProcessStep

\* Every step keeps the invariant.
LEMMA InvNext == FlockInv /\ [Next]_vars => FlockInv'
<1> SUFFICES ASSUME FlockInv, [Next]_vars PROVE FlockInv'
  OBVIOUS
<1>0. TypeOK'
  BY TypeNext DEF FlockInv
<1>1. ASSUME NEW p \in Procs, ProcessStep(p) PROVE FlockInv'
  BY <1>0, <1>1, InvOther DEF Threads
<1>2. ASSUME NEW p \in Procs, NEW t \in Threads, ThreadStep(p, t)
      PROVE  FlockInv'
  BY <1>0, <1>2, InvFlush, InvOther DEF ThreadStep
<1>3. CASE UNCHANGED vars
  BY <1>0, <1>3 DEF vars, FlockInv
<1> QED BY <1>1, <1>2, <1>3 DEF Next

\* Initially nobody is inside.
LEMMA InvInit == Init => FlockInv
<1> SUFFICES ASSUME Init PROVE FlockInv
  OBVIOUS
<1>1. TypeOK
  BY EmptyTypes, DetectorAssumption
     DEF Init, TypeOK, Lives, PCs, Threads, Empty
<1>2. \A p \in Procs, t \in Threads : pc[p][t] \notin Critical
  BY DEF Init, Critical
<1> QED BY <1>1, <1>2 DEF FlockInv, Critical

\* At most one thread of all the processes is between its read of the output
\* file and its rename, and what it read is still there, for any number of
\* processes and timers, forks, signals and kills (_output_lock).
THEOREM OneWriter == Spec => []FlockInv
BY InvInit, InvNext, PTL DEF Spec

\* The steps of the processes are writes of the abstract file, or leave it as
\* it is.
LEMMA WritesFile ==
  FlockInv /\ [Next]_vars => [Output!Write]_(Listing(file))
<1> SUFFICES ASSUME FlockInv, [Next]_vars, file' # file
             PROVE  Output!Write
  OBVIOUS
<1>1. TypeOK /\ TypeOK'
  BY TypeNext DEF FlockInv
<1>2. PICK p \in Procs, t \in Threads : Replace(p, t)
  <2>1. ASSUME NEW p \in Procs, ProcessStep(p) PROVE file' = file
    BY <2>1 DEF ProcessStep, Record, BeginExit, Sigterm, Sigkill, Die, Fork
  <2>2. ASSUME NEW p \in Procs, NEW t \in Threads, ThreadStep(p, t)
        PROVE  file' = file \/ Replace(p, t)
    <3>1. CASE RecordEntry(p) \/ Notify(p) \/ Arm(p) \/ Fire(p, t)
      BY <3>1 DEF RecordEntry, Notify, Arm, Fire
    <3>2. CASE \/ Args(p, t) \/ Check(p, t) \/ GitNone(p, t)
               \/ GitObserve(p, t) \/ GitLock(p, t) \/ GitUpdate(p, t)
               \/ Copy(p, t)
      BY <3>2 DEF Args, Check, GitNone, GitObserve, GitLock, GitUpdate, Copy
    <3>3. CASE \/ Flock(p, t) \/ FlockTimeout(p, t) \/ Read(p, t)
               \/ Close(p, t) \/ Done(p, t)
      BY <3>3 DEF Flock, FlockTimeout, Read, Close, Done, Die
    <3> QED BY <2>2, <3>1, <3>2, <3>3 DEF ThreadStep, FlushStep
  <2>3. Next
    BY DEF vars
  <2> QED BY <2>1, <2>2, <2>3 DEF Next
<1>3. loc[p][t].existing = file /\ loc[p][t].copy \in Content
  BY <1>1, <1>2 DEF Replace, Step, FlockInv, TypeOK, Local
<1>4. Listing(file) \subseteq Listing(file')
  BY <1>1, <1>2, <1>3, MergeType DEF Replace, TypeOK
<1>5. Listing(file') \subseteq Items \cup {<<k>> : k \in ArgKeys}
  BY <1>1 DEF TypeOK, Content, Listing
<1>6. Listing(file)' = Listing(file')
  BY DEF Listing
<1> QED BY <1>4, <1>5, <1>6 DEF Output!Write

\* The runtime detector implements the output file that its readers rely on:
\* a dataset or a key from argv that one process wrote goes on being listed,
\* whoever writes next, whatever it has captured itself, and although the last
\* writer replaces a key's value (_flush, _output_lock, _merge_output).
THEOREM FileGrows == Spec => FileOnlyGrows
<1>1. Init => Output!Init
  BY GivenTypes DEF Init, Output!Init, Empty, NoInfo, Listing
<1>2. Spec => []FlockInv
  BY OneWriter
<1> QED BY <1>1, <1>2, WritesFile, PTL
        DEF Spec, FileOnlyGrows, Output!Spec

-----------------------------------------------------------------------------
(* One observation of git: it holds when no process is forked into another *)
(* working tree than its parent's; after such a fork the child keeps keys  *)
(* of the parent's tree that its own tree does not have.                   *)

ForksShareTree ==
  \A p \in Procs, c \in Procs \ Initial : TreeOf[c] = TreeOf[p]

\* The git keys among g are of one working tree.
OfTree(g, w) == \A k \in GitKeys : g[k] \subseteq {w}

\* The inductive invariant: what a process has of git in its memory, and what
\* its threads carry to the file, is of its own tree (_capture_git_provenance,
\* _flush).
GitInv ==
  /\ FlockInv
  /\ \A p \in Procs : life[p] = "none" => p \notin Initial
  /\ \A p \in Procs : OfTree(info[p], TreeOf[p])
  /\ \A p \in Procs, t \in Threads :
       /\ OfTree(loc[p][t].found, TreeOf[p])
       /\ OfTree(loc[p][t].copy.info, TreeOf[p])
  /\ GitOneObservation

\* No keys are of any tree.
LEMMA NoGitOfTree ==
  ASSUME NEW w
  PROVE  /\ OfTree(NoGit, w)
         /\ OfTree(NoLocal.found, w) /\ OfTree(NoLocal.copy.info, w)
         /\ OfTree(NoInfo, w)
BY GivenTypes DEF OfTree, NoGit, NoInfo, NoLocal, Empty

\* A merge with git keys of one tree leaves one observation: the group is
\* replaced whole or not at all (_merge_output).
LEMMA MergeOneObservation ==
  ASSUME NEW a \in Content, NEW b \in Content, NEW w, OfTree(b.info, w),
         \A k, l \in GitKeys :
           a.info[k] # {} /\ a.info[l] # {} => a.info[k] = a.info[l]
  PROVE  \A k, l \in GitKeys :
           LET i == _merge_output(a, b).info
           IN  i[k] # {} /\ i[l] # {} => i[k] = i[l]
<1>0. GitKeys \subseteq Keys /\ DOMAIN b.info = Keys
  BY DEF Keys, Content, Info
<1>1. CASE \E k \in GitKeys : b.info[k] # {}
  <2>1. \A k \in GitKeys : _merge_output(a, b).info[k] = b.info[k]
    BY <1>0, <1>1 DEF _merge_output, Updated
  <2>2. \A k \in GitKeys : b.info[k] # {} => b.info[k] = {w}
    BY DEF OfTree
  <2> QED BY <2>1, <2>2
<1>2. CASE ~\E k \in GitKeys : b.info[k] # {}
  <2>1. \A k \in GitKeys : _merge_output(a, b).info[k] = a.info[k]
    BY <1>0, <1>2 DEF _merge_output, Updated
  <2> QED BY <2>1
<1> QED BY <1>1, <1>2

\* A step that starts no process and changes neither the git keys in memory
\* nor the file, and at most drops those of a thread, keeps the invariant.
LEMMA GitKept ==
  ASSUME GitInv, FlockInv', file' = file,
         \A q \in Procs, k \in GitKeys : info'[q][k] = info[q][k],
         \A q \in Procs : life'[q] = "none" => life[q] = "none",
         \A q \in Procs, u \in Threads :
           /\ loc'[q][u].found \in {loc[q][u].found, NoGit}
           /\ loc'[q][u].copy.info \in {loc[q][u].copy.info, NoInfo}
  PROVE  GitInv'
<1>1. ASSUME NEW q \in Procs, NEW u \in Threads
      PROVE  /\ OfTree(loc'[q][u].found, TreeOf[q])
             /\ OfTree(loc'[q][u].copy.info, TreeOf[q])
  BY NoGitOfTree DEF GitInv
<1>2. GitOneObservation'
  BY DEF GitInv, GitOneObservation
<1>3. \A q \in Procs : OfTree(info'[q], TreeOf[q])
  BY DEF GitInv, OfTree
<1> QED BY <1>1, <1>2, <1>3 DEF GitInv

\* A process that ends changes no keys.
LEMMA GitDie ==
  ASSUME GitInv, FlockInv', NEW p \in Procs, NEW how \in Dead, Die(p, how)
  PROVE  GitInv'
<1>0. TypeOK
  BY DEF GitInv, FlockInv
<1>1. \A q \in Procs : life'[q] = "none" => life[q] = "none"
  BY <1>0 DEF Die, Dead, TypeOK
<1>2. \A q \in Procs : OfTree(info'[q], TreeOf[q])
  BY DEF Die, GitInv
<1>3. ASSUME NEW q \in Procs, NEW u \in Threads
      PROVE  /\ OfTree(loc'[q][u].found, TreeOf[q])
             /\ OfTree(loc'[q][u].copy.info, TreeOf[q])
  <2>1. loc'[q][u] \in {loc[q][u], NoLocal}
    BY <1>0 DEF Die, TypeOK
  <2> QED BY <2>1, NoGitOfTree DEF GitInv
<1>4. GitOneObservation'
  BY DEF Die, GitInv, GitOneObservation
<1> QED BY <1>1, <1>2, <1>3, <1>4 DEF GitInv

\* The steps of a flush keep the invariant.
LEMMA GitFlush ==
  ASSUME GitInv, FlockInv', NEW p \in Procs, NEW t \in Threads,
         FlushStep(p, t)
  PROVE  GitInv'
<1>0. TypeOK /\ TypeOK' /\ TreeOf[p] \in Nat
  BY DetectorAssumption DEF GitInv, FlockInv
<1>1. CASE Args(p, t)
  <2>1. \A k \in GitKeys : Updated(info[p], Argv[p])[k] = info[p][k]
    <3>1. Argv[p] \in [ArgKeys -> SUBSET Values] /\ info[p] \in Info
      BY <1>0, GivenTypes DEF TypeOK
    <3>2. ArgKeys \in SUBSET Keys /\ \A k \in GitKeys : k \in Keys \ ArgKeys
      BY GivenTypes
    <3> QED BY <3>1, <3>2, UpdatedType
  <2>2. \A q \in Procs, k \in GitKeys : info'[q][k] = info[q][k]
    BY <1>0, <1>1, <2>1 DEF Args, TypeOK
  <2> QED BY <1>1, <2>2, GitKept DEF Args
<1>10. CASE Check(p, t) \/ GitNone(p, t) \/ GitLock(p, t)
  BY <1>10, GitKept DEF Check, GitNone, GitLock, state
<1>2. CASE Flock(p, t) \/ Close(p, t)
  BY <1>2, GitKept DEF Flock, Close, state
<1>3. CASE FlockTimeout(p, t)
  <2>1. \A q \in Procs, u \in Threads : loc'[q][u] \in {loc[q][u], NoLocal}
    BY <1>0, <1>3 DEF FlockTimeout, TypeOK
  <2> QED BY <1>3, <2>1, GitKept DEF FlockTimeout, state, NoLocal, Empty
<1>4. CASE Read(p, t)
  <2>1. \A q \in Procs, u \in Threads :
          loc'[q][u].found = loc[q][u].found /\ loc'[q][u].copy = loc[q][u].copy
    BY <1>0, <1>4 DEF Read, TypeOK, Local
  <2> QED BY <1>4, <2>1, GitKept DEF Read, state
<1>5. CASE GitObserve(p, t)
  <2>1. \A q \in Procs, u \in Threads :
          /\ <<q, u>> # <<p, t>> => loc'[q][u] = loc[q][u]
          /\ loc'[q][u].copy = loc[q][u].copy
    BY <1>0, <1>5 DEF GitObserve, TypeOK, Local
  <2>2. PICK keys \in Found(TreeOf[p], p, t) : loc'[p][t].found =
          [k \in GitKeys |-> IF k \in keys THEN {TreeOf[p]} ELSE {}]
    BY <1>0, <1>5 DEF GitObserve, TypeOK, Local
  <2>3. OfTree(loc'[p][t].found, TreeOf[p])
    BY <2>2 DEF OfTree
  <2>4. ASSUME NEW q \in Procs, NEW u \in Threads
        PROVE  /\ OfTree(loc'[q][u].found, TreeOf[q])
               /\ OfTree(loc'[q][u].copy.info, TreeOf[q])
    BY <2>1, <2>3 DEF GitInv
  <2>5. GitOneObservation'
    BY <1>5 DEF GitObserve, GitInv, GitOneObservation
  <2> QED BY <1>5, <2>4, <2>5 DEF GitObserve, state, GitInv
<1>6. CASE GitUpdate(p, t)
  <2>1. \A q \in Procs, u \in Threads : loc'[q][u] \in {loc[q][u], NoLocal}
    BY <1>0, <1>6 DEF GitUpdate, TypeOK
  <2>2. ASSUME NEW q \in Procs, NEW u \in Threads
        PROVE  /\ OfTree(loc'[q][u].found, TreeOf[q])
               /\ OfTree(loc'[q][u].copy.info, TreeOf[q])
    BY <2>1, NoGitOfTree DEF GitInv
  <2>3. \A k \in GitKeys : info'[p][k] \in {loc[p][t].found[k], info[p][k]}
    <3>1. info'[p] = Updated(info[p], loc[p][t].found)
      BY <1>0, <1>6 DEF GitUpdate, TypeOK
    <3>2. DOMAIN info[p] = Keys /\ GitKeys \subseteq Keys
      BY <1>0 DEF TypeOK, Info, Keys
    <3> QED BY <3>1, <3>2 DEF Updated
  <2>4. OfTree(info'[p], TreeOf[p])
    <3>1. OfTree(loc[p][t].found, TreeOf[p]) /\ OfTree(info[p], TreeOf[p])
      BY DEF GitInv
    <3> QED BY <2>3, <3>1 DEF OfTree
  <2>5. \A q \in Procs : OfTree(info'[q], TreeOf[q])
    BY <1>0, <1>6, <2>4 DEF GitUpdate, TypeOK, GitInv
  <2>6. GitOneObservation'
    BY <1>6 DEF GitUpdate, GitInv, GitOneObservation
  <2> QED BY <1>6, <2>2, <2>5, <2>6 DEF GitUpdate, GitInv
<1>7. CASE Copy(p, t)
  <2>1. \A q \in Procs, u \in Threads :
          /\ <<q, u>> # <<p, t>> => loc'[q][u] = loc[q][u]
          /\ loc'[q][u].found = loc[q][u].found
    BY <1>0, <1>7 DEF Copy, TypeOK, Local
  <2>2. loc'[p][t].copy.info = info[p]
    BY <1>0, <1>7 DEF Copy, Memory, TypeOK, Local
  <2>3. ASSUME NEW q \in Procs, NEW u \in Threads
        PROVE  /\ OfTree(loc'[q][u].found, TreeOf[q])
               /\ OfTree(loc'[q][u].copy.info, TreeOf[q])
    BY <2>1, <2>2 DEF GitInv
  <2>4. GitOneObservation'
    BY <1>7 DEF Copy, GitInv, GitOneObservation
  <2> QED BY <1>7, <2>3, <2>4 DEF Copy, state, GitInv
<1>8. CASE Replace(p, t)
  <2>1. \A q \in Procs, u \in Threads : loc'[q][u] \in {loc[q][u], NoLocal}
    BY <1>0, <1>8 DEF Replace, TypeOK
  <2>2. ASSUME NEW q \in Procs, NEW u \in Threads
        PROVE  /\ OfTree(loc'[q][u].found, TreeOf[q])
               /\ OfTree(loc'[q][u].copy.info, TreeOf[q])
    BY <2>1, NoGitOfTree DEF GitInv
  <2>3. /\ loc[p][t].existing = file /\ file \in Content
        /\ loc[p][t].copy \in Content
        /\ OfTree(loc[p][t].copy.info, TreeOf[p])
    BY <1>0, <1>8 DEF Replace, Step, GitInv, FlockInv, TypeOK, Local
  <2>4. GitOneObservation'
    <3>1. file' = _merge_output(file, loc[p][t].copy)
      BY <1>8, <2>3 DEF Replace
    <3>2. \A k, l \in GitKeys : file.info[k] # {} /\ file.info[l] # {}
                                  => file.info[k] = file.info[l]
      BY DEF GitInv, GitOneObservation
    <3> QED BY <2>3, <3>1, <3>2, MergeOneObservation DEF GitOneObservation
  <2> QED BY <1>8, <2>2, <2>4 DEF Replace, state, GitInv
<1>9. CASE Done(p, t)
  BY <1>9, GitDie, GitKept DEF Done, Dead, state
<1> QED
  BY <1>1, <1>2, <1>3, <1>4, <1>5, <1>6, <1>7, <1>8, <1>9, <1>10 DEF FlushStep

\* So do the others; a child is given keys of its own tree.
LEMMA GitOther ==
  ASSUME ForksShareTree, GitInv, FlockInv', NEW p \in Procs,
         NEW t \in Threads,
         \/ RecordEntry(p) \/ Notify(p) \/ Arm(p) \/ Fire(p, t)
         \/ ProcessStep(p)
  PROVE  GitInv'
<1>0. TypeOK /\ "main" \in Threads
  BY DEF GitInv, FlockInv, Threads
<1>1. CASE RecordEntry(p) \/ Notify(p) \/ Arm(p) \/ Fire(p, t) \/ Record(p)
  BY <1>1, GitKept DEF RecordEntry, Notify, Arm, Fire, Record, state
<1>2. CASE BeginExit(p)
  BY <1>0, <1>2, GitKept DEF BeginExit, state, TypeOK
<1>3. CASE Sigterm(p)
  <2>1. \A q \in Procs, u \in Threads : loc'[q][u] \in {loc[q][u], NoLocal}
    BY <1>0, <1>3 DEF Sigterm, TypeOK
  <2>2. \A q \in Procs : life'[q] = "none" => life[q] = "none"
    BY <1>0, <1>3 DEF Sigterm, TypeOK
  <2> QED BY <1>3, <2>1, <2>2, GitKept DEF Sigterm, state, NoLocal, Empty
<1>4. CASE Sigkill(p)
  BY <1>4, GitDie DEF Sigkill, Dead
<1>5. ASSUME NEW c \in Procs, Fork(p, c) PROVE GitInv'
  <2>1. c \notin Initial /\ TreeOf[c] = TreeOf[p]
    BY <1>5 DEF Fork, GitInv, ForksShareTree
  <2>2. \A q \in Procs : OfTree(info'[q], TreeOf[q])
    BY <1>0, <1>5, <2>1 DEF Fork, TypeOK, GitInv
  <2>3. \A q \in Procs : life'[q] = "none" => life[q] = "none"
    BY <1>0, <1>5 DEF Fork, TypeOK
  <2>4. GitOneObservation'
    BY <1>5 DEF Fork, GitInv, GitOneObservation
  <2> QED BY <1>5, <2>2, <2>3, <2>4 DEF Fork, GitInv
<1> QED BY <1>1, <1>2, <1>3, <1>4, <1>5 DEF ProcessStep

\* Every step keeps the invariant.
LEMMA GitNext == ForksShareTree /\ GitInv /\ [Next]_vars => GitInv'
<1> SUFFICES ASSUME ForksShareTree, GitInv, [Next]_vars PROVE GitInv'
  OBVIOUS
<1>0. FlockInv'
  BY InvNext DEF GitInv
<1>1. ASSUME NEW p \in Procs, ProcessStep(p) PROVE GitInv'
  BY <1>0, <1>1, GitOther DEF Threads
<1>2. ASSUME NEW p \in Procs, NEW t \in Threads, ThreadStep(p, t)
      PROVE  GitInv'
  BY <1>0, <1>2, GitFlush, GitOther DEF ThreadStep
<1>3. CASE UNCHANGED vars
  BY <1>0, <1>3, GitKept DEF vars, state
<1> QED BY <1>1, <1>2, <1>3 DEF Next

\* Initially nobody has keys.
LEMMA GitInit == Init => GitInv
<1> SUFFICES ASSUME Init PROVE GitInv
  OBVIOUS
<1>1. \A p \in Procs : OfTree(info[p], TreeOf[p])
  BY NoGitOfTree DEF Init
<1>2. \A p \in Procs, t \in Threads : loc[p][t] = NoLocal
  BY DEF Init
<1>3. GitOneObservation
  BY GivenTypes DEF Init, GitOneObservation, Empty, NoInfo
<1>4. \A p \in Procs : life[p] = "none" => p \notin Initial
  BY DEF Init
<1> QED BY <1>1, <1>2, <1>3, <1>4, NoGitOfTree, InvInit DEF GitInv

\* The git keys in the output file are one observation of one checkout, for
\* any processes in any trees that write it together, as long as a forked
\* process stays in its parent's tree (_merge_output's "a commit from one
\* working tree is never labelled with the branch of another").
THEOREM OneObservation ==
  ASSUME ForksShareTree PROVE Spec => []GitOneObservation
<1>1. GitInv => GitOneObservation
  BY DEF GitInv
<1> QED BY <1>1, GitInit, GitNext, ForksShareTree, PTL DEF Spec

-----------------------------------------------------------------------------
(* The flush at exit is never given up: it holds when no process is forked *)
(* and nobody holds the flock beyond the timeouts.  A forked child that    *)
(* keeps the locked file refutes it (the run DetectorFork), and so does a  *)
(* holder that is too slow.                                                *)

WithoutForks == Procs = Initial /\ ~SlowHolder

\* Where the main thread is before it exits.
Working == {"run", "record", "notify", "arm"}

\* What a process has to see listed.
Has(p) == Listing(Memory(p))

\* How far the flush at exit has got: from the capture of argv on no dataset
\* and no key from argv is added, the copy lists what is in memory, and the
\* file does in the end.
ExitingOK(p) ==
  LET at == pc[p]["main"]
  IN  /\ at \notin Working \cup {"off"}
      /\ at # "args" => \A k \in ArgKeys : Argv[p][k] # {} => info[p][k] # {}
      /\ at \in {"flock", "read", "replace"} =>
           Listing(loc[p]["main"].copy) = Has(p)
      /\ at \in {"close", "done"} => Has(p) \subseteq Listing(file)

\* The inductive invariant: whoever has the flock is writing or about to die,
\* so nobody waits for it in vain.
ExitInv ==
  /\ FlockInv
  /\ \A p \in Procs : life[p] # "none"
  /\ \A p \in flock : Inside(p) \/ life[p] = "sigterm"
  /\ \A p \in Procs : life[p] = "running" => pc[p]["main"] \in Working
  /\ \A p \in Procs : life[p] = "exiting" => ExitingOK(p)
  /\ ExitedIsFlushed

\* A step after which a process has the datasets and the keys it had, although
\* perhaps with other values.
SameListing(p) ==
  /\ mem'[p] = mem[p]
  /\ \A k \in ArgKeys : info'[p][k] # {} <=> info[p][k] # {}

\* Such a step changes nothing of what has to be listed.
LEMMA HasKept == ASSUME NEW p, SameListing(p) PROVE Has(p)' = Has(p)
BY DEF SameListing, Has, Memory, Listing

\* What a process does not touch stays as good while the file grows.
LEMMA ExitingKept ==
  ASSUME NEW p, ExitingOK(p), pc'[p]["main"] = pc[p]["main"],
         loc'[p]["main"] = loc[p]["main"], SameListing(p),
         Listing(file) \subseteq Listing(file)'
  PROVE  ExitingOK(p)'
<1>1. Has(p)' = Has(p)
  BY HasKept
<1>2. Listing(loc[p]["main"].copy)' = Listing(loc[p]["main"].copy)
  BY DEF Listing
<1>3. pc'[p]["main"] # "args"
        => \A k \in ArgKeys : Argv[p][k] # {} => info'[p][k] # {}
  BY DEF ExitingOK, SameListing
<1> QED BY <1>1, <1>2, <1>3 DEF ExitingOK

\* A process that has exited is as well off as it was.
LEMMA ExitedKept ==
  ASSUME ExitedIsFlushed, Listing(file) \subseteq Listing(file)',
         \A q \in Procs : life'[q] = "exited" =>
           \/ life[q] = "exited" /\ SameListing(q)
           \/ Has(q)' \subseteq Listing(file)'
  PROVE  ExitedIsFlushed'
<1> SUFFICES ASSUME NEW q \in Procs, life'[q] = "exited"
             PROVE  Has(q)' \subseteq Listing(file)'
  BY DEF ExitedIsFlushed, Unwritten, Has
<1>1. CASE life[q] = "exited" /\ SameListing(q)
  <2>1. Has(q) \subseteq Listing(file)
    BY <1>1 DEF ExitedIsFlushed, Unwritten, Has
  <2>2. Has(q)' = Has(q)
    BY <1>1, HasKept
  <2> QED BY <2>1, <2>2
<1> QED BY <1>1

\* A step that only moves one thread keeps the invariant, when a process that
\* still has the flock is still writing and the main thread goes on as it must.
LEMMA ExitStep ==
  ASSUME ExitInv, FlockInv', NEW p \in Procs, NEW t \in Threads, NEW from,
         NEW to, Step(p, t, from, to), life' = life,
         \A q \in Procs : SameListing(q),
         Listing(file) \subseteq Listing(file)',
         \A q \in Procs, u \in Threads :
           <<q, u>> # <<p, t>> => loc'[q][u] = loc[q][u],
         \A q \in flock' :
           \/ q = p /\ to \in Critical
           \/ q \in flock /\ (q = p => from \notin Critical),
         t = "main" /\ life[p] = "running" => to \in Working,
         t = "main" /\ life[p] = "exiting" => ExitingOK(p)'
  PROVE  ExitInv'
<1>0. TypeOK /\ "main" \in Threads
  BY DEF ExitInv, FlockInv, Threads
<1>1. /\ pc'[p][t] = to /\ pc[p][t] = from
      /\ \A q \in Procs, u \in Threads :
           <<q, u>> # <<p, t>> => pc'[q][u] = pc[q][u]
  BY <1>0 DEF Step, TypeOK
<1>2. ASSUME NEW q \in flock' PROVE Inside(q)' \/ life'[q] = "sigterm"
  <2>1. CASE q = p /\ to \in Critical
    BY <1>1, <2>1 DEF Inside
  <2>2. CASE q \in flock /\ (q = p => from \notin Critical)
    <3>1. q \in Procs
      BY <1>0, <2>2 DEF TypeOK
    <3>2. CASE life[q] = "sigterm"
      BY <3>2
    <3>3. CASE Inside(q)
      <4>1. PICK u \in Threads : pc[q][u] \in Critical
        BY <3>3 DEF Inside
      <4>2. <<q, u>> # <<p, t>>
        BY <1>1, <2>2, <4>1
      <4> QED BY <1>1, <3>1, <4>1, <4>2 DEF Inside
    <3> QED BY <2>2, <3>2, <3>3 DEF ExitInv
  <2> QED BY <1>2, <2>1, <2>2
<1>3. ASSUME NEW q \in Procs, life'[q] = "running"
      PROVE  pc'[q]["main"] \in Working
  BY <1>0, <1>1, <1>3 DEF ExitInv
<1>4. ASSUME NEW q \in Procs, life'[q] = "exiting" PROVE ExitingOK(q)'
  <2>1. CASE <<q, "main">> = <<p, t>>
    BY <1>4, <2>1
  <2>2. CASE <<q, "main">> # <<p, t>>
    <3>1. pc'[q]["main"] = pc[q]["main"] /\ loc'[q]["main"] = loc[q]["main"]
      BY <1>0, <1>1, <2>2
    <3> QED BY <1>4, <3>1, ExitingKept DEF ExitInv
  <2> QED BY <2>1, <2>2
<1>5. ExitedIsFlushed'
  BY ExitedKept DEF ExitInv
<1> QED BY <1>2, <1>3, <1>4, <1>5 DEF ExitInv

\* A process may end when it has not exited, or when the file has all it had.
LEMMA ExitDie ==
  ASSUME ExitInv, FlockInv', NEW p \in Procs, NEW how \in Dead, Die(p, how),
         how = "exited" => Has(p) \subseteq Listing(file)
  PROVE  ExitInv'
<1>0. TypeOK /\ "main" \in Threads
  BY DEF ExitInv, FlockInv, Threads
<1>1. /\ life'[p] = how
      /\ \A q \in Procs \ {p} : /\ life'[q] = life[q] /\ pc'[q] = pc[q]
                                /\ loc'[q] = loc[q]
      /\ \A q \in Procs : SameListing(q)
      /\ Listing(file)' = Listing(file)
  BY <1>0 DEF Die, TypeOK, SameListing, Listing
<1>2. \A q \in flock' : Inside(q)' \/ life'[q] = "sigterm"
  BY <1>0, <1>1 DEF Die, ExitInv, Inside, TypeOK
<1>3. ASSUME NEW q \in Procs, life'[q] = "exiting" PROVE ExitingOK(q)'
  <2>1. q # p
    BY <1>1, <1>3 DEF Dead
  <2> QED BY <1>1, <1>3, <2>1, ExitingKept DEF ExitInv
<1>4. \A q \in Procs : life'[q] # "none"
  BY <1>1 DEF ExitInv, Dead
<1>5. \A q \in Procs : life'[q] = "running" => pc'[q]["main"] \in Working
  BY <1>1 DEF ExitInv, Dead
<1>6. ExitedIsFlushed'
  BY <1>1, HasKept, ExitedKept DEF ExitInv
<1> QED BY <1>2, <1>3, <1>4, <1>5, <1>6 DEF ExitInv

\* What a process adds to its memory does no harm unless it is exiting or has
\* exited.
LEMMA ExitMem ==
  ASSUME ExitInv, FlockInv', NEW p \in Procs, NEW t \in Threads, NEW from,
         NEW to, Step(p, t, from, to), life' = life, loc' = loc,
         flock' = flock, file' = file, from \notin Critical,
         \A q \in Procs \ {p} : SameListing(q),
         t = "main" /\ life[p] = "running" => to \in Working,
         life[p] = "exiting" => ExitingOK(p)'
  PROVE  ExitInv'
<1>0. TypeOK /\ "main" \in Threads
  BY DEF ExitInv, FlockInv, Threads
<1>1. /\ pc'[p][t] = to /\ pc[p][t] = from /\ life[p] \in Alive
      /\ \A q \in Procs, u \in Threads :
           <<q, u>> # <<p, t>> => pc'[q][u] = pc[q][u]
  BY <1>0 DEF Step, TypeOK
<1>2. ASSUME NEW q \in flock' PROVE Inside(q)' \/ life'[q] = "sigterm"
  <2>1. CASE life[q] = "sigterm"
    BY <2>1
  <2>2. CASE Inside(q)
    <3>1. PICK u \in Threads : pc[q][u] \in Critical
      BY <2>2 DEF Inside
    <3>2. <<q, u>> # <<p, t>> /\ q \in Procs
      BY <1>0, <1>1, <3>1 DEF TypeOK
    <3> QED BY <1>1, <3>1, <3>2 DEF Inside
  <2> QED BY <2>1, <2>2 DEF ExitInv
<1>3. ASSUME NEW q \in Procs, life'[q] = "running"
      PROVE  pc'[q]["main"] \in Working
  BY <1>0, <1>1, <1>3 DEF ExitInv
<1>4. Listing(file)' = Listing(file)
  BY DEF Listing
<1>5. ASSUME NEW q \in Procs, life'[q] = "exiting" PROVE ExitingOK(q)'
  <2>1. CASE q = p
    BY <1>5, <2>1
  <2>2. CASE q # p
    BY <1>0, <1>1, <1>4, <1>5, <2>2, ExitingKept DEF ExitInv
  <2> QED BY <2>1, <2>2
<1>6. ExitedIsFlushed'
  <2>1. life[p] # "exited"
    BY <1>1 DEF Alive
  <2> QED BY <1>4, <2>1, ExitedKept DEF ExitInv
<1> QED BY <1>2, <1>3, <1>5, <1>6 DEF ExitInv

\* A step that does not touch memory changes nothing of what has to be listed.
LEMMA Unlisted ==
  ASSUME mem' = mem, info' = info PROVE \A q \in Procs : SameListing(q)
BY DEF SameListing

\* The flush at exit goes on as it must when what it carries to the file lists
\* what is in memory, and so does the file when it is done.
LEMMA ExitingMoves ==
  ASSUME NEW p, ExitingOK(p), SameListing(p), pc[p]["main"] # "args",
         pc'[p]["main"] \notin Working \cup {"off"},
         pc'[p]["main"] \in {"flock", "read", "replace"} =>
           Listing(loc'[p]["main"].copy) = Has(p),
         pc'[p]["main"] \in {"close", "done"} => Has(p) \subseteq Listing(file')
  PROVE  ExitingOK(p)'
<1>1. Has(p)' = Has(p)
  BY HasKept
<1>2. /\ Listing(loc[p]["main"].copy)' = Listing(loc'[p]["main"].copy)
      /\ Listing(file)' = Listing(file')
  BY DEF Listing
<1>3. \A k \in ArgKeys : Argv[p][k] # {} => info'[p][k] # {}
  BY DEF ExitingOK, SameListing
<1> QED BY <1>1, <1>2, <1>3 DEF ExitingOK

\* Nobody gives up on the flock while it exits: who has it is writing, or is
\* another process that is about to die.
LEMMA NotGivenUp ==
  ASSUME WithoutForks, ExitInv, NEW p \in Procs, NEW t \in Threads,
         FlockTimeout(p, t)
  PROVE  life[p] # "exiting"
<1>1. Stuck(p)
  BY DEF FlockTimeout, WithoutForks
<1>2. PICK q \in flock : ~Inside(q) /\ (q = p \/ life[q] # "sigterm")
  BY <1>1 DEF Stuck
<1> QED BY <1>2 DEF ExitInv

\* The steps of a flush keep the invariant.
LEMMA ExitFlush ==
  ASSUME WithoutForks, ExitInv, FlockInv',
         Listing(file) \subseteq Listing(file)',
         NEW p \in Procs, NEW t \in Threads, FlushStep(p, t)
  PROVE  ExitInv'
<1>0. /\ TypeOK /\ TypeOK' /\ "main" \in Threads
      /\ life[p] = "exiting" => ExitingOK(p)
      /\ life[p] = "running" => pc[p]["main"] \in Working
  BY DEF ExitInv, FlockInv, Threads
<1>1. CASE Args(p, t)
  <2>1. pc[p][t] = "args" /\ pc'[p][t] = "check"
    BY <1>0, <1>1 DEF Args, Step, TypeOK
  <2>2. /\ mem' = mem /\ info'[p] = Updated(info[p], Argv[p])
        /\ \A q \in Procs \ {p} : info'[q] = info[q]
    BY <1>0, <1>1 DEF Args, TypeOK
  <2>3. /\ \A k \in ArgKeys : Argv[p][k] # {} => info'[p][k] # {}
        /\ \A k \in ArgKeys : Argv[p][k] = {} => info'[p][k] = info[p][k]
    <3>1. DOMAIN Argv[p] = ArgKeys /\ DOMAIN info[p] = Keys
      BY <1>0, GivenTypes DEF TypeOK, Info
    <3> QED BY <2>2, <3>1, GivenTypes DEF Updated
  <2>4. \A q \in Procs \ {p} : SameListing(q)
    BY <2>2 DEF SameListing
  <2>5. ASSUME life[p] = "exiting" PROVE ExitingOK(p)'
    <3>1. CASE t = "main"
      BY <2>1, <2>3, <3>1 DEF ExitingOK, Working
    <3>2. CASE t # "main"
      <4>1. pc'[p]["main"] = pc[p]["main"]
        BY <1>0, <1>1, <3>2 DEF Args, Step, TypeOK
      <4>2. CASE pc[p]["main"] = "args"
        BY <4>1, <4>2 DEF ExitingOK, Working
      <4>3. CASE pc[p]["main"] # "args"
        <5>1. \A k \in ArgKeys : Argv[p][k] # {} => info[p][k] # {}
          BY <1>0, <2>5, <4>3 DEF ExitingOK
        <5>2. SameListing(p)
          BY <2>2, <2>3, <5>1 DEF SameListing
        <5> QED BY <1>0, <1>1, <2>5, <4>1, <5>2, ExitingKept DEF Args
      <4> QED BY <4>2, <4>3
    <3> QED BY <3>1, <3>2
  <2>6. ~(t = "main" /\ life[p] = "running")
    BY <1>0, <2>1 DEF Working
  <2> QED BY <1>1, <2>4, <2>5, <2>6, ExitMem DEF Args, Critical
<1>2. CASE Check(p, t)
  <2>1. PICK to \in {"done", "git", "copy"} :
          Step(p, t, "check", to) /\ (to = "done" => Nothing(p))
    BY <1>0, <1>2 DEF Check, TypeOK
  <2>2. \A q \in Procs : SameListing(q)
    BY <1>2, Unlisted DEF Check, state
  <2>3. Nothing(p) => Has(p) = {}
    BY GivenTypes DEF Nothing, NoInfo, Has, Memory, Listing
  <2>4. t = "main" => pc[p]["main"] = "check" /\ pc'[p]["main"] = to
    BY <1>0, <2>1 DEF Step, TypeOK
  <2>5. ASSUME t = "main", life[p] = "exiting" PROVE ExitingOK(p)'
    BY <1>0, <2>1, <2>2, <2>3, <2>4, <2>5, ExitingMoves DEF Working
  <2>6. ~(t = "main" /\ life[p] = "running")
    BY <1>0, <2>4 DEF Working
  <2> QED BY <1>2, <2>1, <2>2, <2>5, <2>6, ExitStep DEF Check, Critical
<1>3. CASE GitNone(p, t)
  <2>1. \A q \in Procs : SameListing(q)
    BY <1>3, Unlisted DEF GitNone
  <2>2. t = "main" => pc[p]["main"] = "git" /\ pc'[p]["main"] = "copy"
    BY <1>0, <1>3 DEF GitNone, Step, TypeOK
  <2>3. ASSUME t = "main", life[p] = "exiting" PROVE ExitingOK(p)'
    BY <1>0, <2>1, <2>2, <2>3, ExitingMoves
       DEF Working, ExitingOK
  <2>4. ~(t = "main" /\ life[p] = "running")
    BY <1>0, <2>2 DEF Working
  <2> QED BY <1>3, <2>1, <2>3, <2>4, ExitStep
          DEF GitNone, Critical
<1>4. CASE GitLock(p, t)
  <2>1. \A q \in Procs : SameListing(q)
    BY <1>4, Unlisted DEF GitLock, state
  <2>2. t = "main" => pc[p]["main"] = "gitLock" /\ pc'[p]["main"] = "gitUpdate"
    BY <1>0, <1>4 DEF GitLock, Step, TypeOK
  <2>3. ASSUME t = "main", life[p] = "exiting" PROVE ExitingOK(p)'
    BY <1>0, <2>1, <2>2, <2>3, ExitingMoves
       DEF Working, ExitingOK
  <2>4. ~(t = "main" /\ life[p] = "running")
    BY <1>0, <2>2 DEF Working
  <2> QED BY <1>4, <2>1, <2>3, <2>4, ExitStep
          DEF GitLock, state, Critical
<1>5. CASE GitObserve(p, t)
  <2>1. \A q \in Procs, u \in Threads :
          <<q, u>> # <<p, t>> => loc'[q][u] = loc[q][u]
    BY <1>0, <1>5 DEF GitObserve, TypeOK
  <2>2. \A q \in Procs : SameListing(q)
    BY <1>5, Unlisted DEF GitObserve, state
  <2>3. t = "main" => pc[p]["main"] = "git" /\ pc'[p]["main"] = "gitLock"
    BY <1>0, <1>5 DEF GitObserve, Step, TypeOK
  <2>4. ASSUME t = "main", life[p] = "exiting" PROVE ExitingOK(p)'
    BY <1>0, <2>2, <2>3, <2>4, ExitingMoves
       DEF Working, ExitingOK
  <2>5. ~(t = "main" /\ life[p] = "running")
    BY <1>0, <2>3 DEF Working
  <2> QED BY <1>5, <2>1, <2>2, <2>4, <2>5, ExitStep
          DEF GitObserve, state, Critical
<1>6. CASE GitUpdate(p, t)
  <2>1. \A q \in Procs, u \in Threads :
          <<q, u>> # <<p, t>> => loc'[q][u] = loc[q][u]
    BY <1>0, <1>6 DEF GitUpdate, TypeOK
  <2>2. \A k \in ArgKeys : Updated(info[p], loc[p][t].found)[k] = info[p][k]
    <3>1. /\ loc[p][t].found \in Git
          /\ DOMAIN info[p] = Keys
      BY <1>0 DEF TypeOK, Local, Info
    <3>2. DOMAIN loc[p][t].found = GitKeys
      BY <3>1 DEF Git
    <3> QED BY <3>1, <3>2, GivenTypes DEF Updated
  <2>3. \A q \in Procs : SameListing(q)
    BY <1>0, <1>6, <2>2 DEF GitUpdate, SameListing, TypeOK
  <2>4. t = "main" => pc[p]["main"] = "gitUpdate" /\ pc'[p]["main"] = "copy"
    BY <1>0, <1>6 DEF GitUpdate, Step, TypeOK
  <2>5. ASSUME t = "main", life[p] = "exiting" PROVE ExitingOK(p)'
    BY <1>0, <2>3, <2>4, <2>5, ExitingMoves
       DEF Working, ExitingOK
  <2>6. ~(t = "main" /\ life[p] = "running")
    BY <1>0, <2>4 DEF Working
  <2> QED BY <1>6, <2>1, <2>3, <2>5, <2>6, ExitStep
          DEF GitUpdate, Critical
<1>7. CASE Copy(p, t)
  <2>1. \A q \in Procs, u \in Threads :
          <<q, u>> # <<p, t>> => loc'[q][u] = loc[q][u]
    BY <1>0, <1>7 DEF Copy, TypeOK
  <2>2. \A q \in Procs : SameListing(q)
    BY <1>7, Unlisted DEF Copy, state
  <2>3. t = "main" => pc[p]["main"] = "copy" /\ pc'[p]["main"] = "flock"
    BY <1>0, <1>7 DEF Copy, Step, TypeOK
  <2>4. Listing(loc'[p][t].copy) = Has(p)
    BY <1>0, <1>7 DEF Copy, TypeOK, Local, Has
  <2>5. ASSUME t = "main", life[p] = "exiting" PROVE ExitingOK(p)'
    BY <1>0, <2>2, <2>3, <2>4, <2>5, ExitingMoves
       DEF Working, ExitingOK
  <2>6. ~(t = "main" /\ life[p] = "running")
    BY <1>0, <2>3 DEF Working
  <2> QED BY <1>7, <2>1, <2>2, <2>5, <2>6, ExitStep
          DEF Copy, state, Critical
<1>8. CASE Flock(p, t)
  <2>1. \A q \in Procs : SameListing(q)
    BY <1>8, Unlisted DEF Flock, state
  <2>2. t = "main" => pc[p]["main"] = "flock" /\ pc'[p]["main"] = "read"
    BY <1>0, <1>8 DEF Flock, Step, TypeOK
  <2>3. loc' = loc
    BY <1>8 DEF Flock
  <2>4. ASSUME t = "main", life[p] = "exiting" PROVE ExitingOK(p)'
    BY <1>0, <2>1, <2>2, <2>3, <2>4, ExitingMoves
       DEF Working, ExitingOK
  <2>5. ~(t = "main" /\ life[p] = "running")
    BY <1>0, <2>2 DEF Working
  <2> QED BY <1>8, <2>1, <2>4, <2>5, ExitStep
          DEF Flock, state, Critical
<1>9. CASE FlockTimeout(p, t)
  <2>1. \A q \in Procs, u \in Threads :
          <<q, u>> # <<p, t>> => loc'[q][u] = loc[q][u]
    BY <1>0, <1>9 DEF FlockTimeout, TypeOK
  <2>2. \A q \in Procs : SameListing(q)
    BY <1>9, Unlisted DEF FlockTimeout, state
  <2>3. life[p] # "exiting"
    BY <1>9, NotGivenUp
  <2>4. ~(t = "main" /\ life[p] = "running")
    BY <1>0, <1>9 DEF FlockTimeout, Step, Working
  <2> QED BY <1>9, <2>1, <2>2, <2>3, <2>4, ExitStep
          DEF FlockTimeout, state, Critical
<1>10. CASE Read(p, t)
  <2>1. \A q \in Procs, u \in Threads :
          <<q, u>> # <<p, t>> => loc'[q][u] = loc[q][u]
    BY <1>0, <1>10 DEF Read, TypeOK
  <2>2. \A q \in Procs : SameListing(q)
    BY <1>10, Unlisted DEF Read, state
  <2>3. t = "main" => pc[p]["main"] = "read" /\ pc'[p]["main"] = "replace"
    BY <1>0, <1>10 DEF Read, Step, TypeOK
  <2>4. loc'[p][t].copy = loc[p][t].copy
    BY <1>0, <1>10 DEF Read, TypeOK, Local
  <2>5. ASSUME t = "main", life[p] = "exiting" PROVE ExitingOK(p)'
    BY <1>0, <2>2, <2>3, <2>4, <2>5, ExitingMoves
       DEF Working, ExitingOK
  <2>6. ~(t = "main" /\ life[p] = "running")
    BY <1>0, <2>3 DEF Working
  <2> QED BY <1>10, <2>1, <2>2, <2>5, <2>6, ExitStep
          DEF Read, state, Critical
<1>11. CASE Replace(p, t)
  <2>1. \A q \in Procs, u \in Threads :
          <<q, u>> # <<p, t>> => loc'[q][u] = loc[q][u]
    BY <1>0, <1>11 DEF Replace, TypeOK
  <2>2. \A q \in Procs : SameListing(q)
    BY <1>11, Unlisted DEF Replace, state
  <2>3. t = "main" => pc[p]["main"] = "replace" /\ pc'[p]["main"] = "close"
    BY <1>0, <1>11 DEF Replace, Step, TypeOK
  <2>4. Listing(loc[p][t].copy) \subseteq Listing(file')
    <3>1. loc[p][t].existing \in Content /\ loc[p][t].copy \in Content
      BY <1>0 DEF TypeOK, Local
    <3> QED BY <1>11, <3>1, MergeType DEF Replace
  <2>5. ASSUME t = "main", life[p] = "exiting" PROVE ExitingOK(p)'
    BY <1>0, <2>2, <2>3, <2>4, <2>5, ExitingMoves
       DEF Working, ExitingOK
  <2>6. ~(t = "main" /\ life[p] = "running")
    BY <1>0, <2>3 DEF Working
  <2> QED BY <1>11, <2>1, <2>2, <2>5, <2>6, ExitStep
          DEF Replace, state, Critical
<1>12. CASE Close(p, t)
  <2>1. \A q \in Procs : SameListing(q)
    BY <1>12, Unlisted DEF Close, state
  <2>2. t = "main" => pc[p]["main"] = "close" /\ pc'[p]["main"] = "done"
    BY <1>0, <1>12 DEF Close, Step, TypeOK
  <2>3. file' = file
    BY <1>12 DEF Close
  <2>4. ASSUME t = "main", life[p] = "exiting" PROVE ExitingOK(p)'
    BY <1>0, <2>1, <2>2, <2>3, <2>4, ExitingMoves
       DEF Working, ExitingOK
  <2>5. ~(t = "main" /\ life[p] = "running")
    BY <1>0, <2>2 DEF Working
  <2>6. flock' = flock \ {p}
    BY <1>12 DEF Close
  <2> QED BY <1>12, <2>1, <2>4, <2>5, <2>6, ExitStep
          DEF Close, state
<1>13. CASE Done(p, t)
  <2>1. CASE t = "main"
    <3>1. life[p] \in {"exiting", "sigterm"}
      BY <1>0, <1>13, <2>1 DEF Done, Alive, Working
    <3>2. life[p] = "exiting" => Has(p) \subseteq Listing(file)
      BY <1>0, <1>13, <2>1 DEF Done, ExitingOK
    <3> QED BY <1>13, <2>1, <3>1, <3>2, ExitDie DEF Done, Dead
  <2>2. CASE t # "main"
    <3>1. \A q \in Procs : SameListing(q)
      BY <1>13, <2>2, Unlisted DEF Done, state
    <3> QED BY <1>13, <2>2, <3>1, ExitStep DEF Done, state, Critical
  <2> QED BY <2>1, <2>2
<1> QED
  BY <1>1, <1>2, <1>3, <1>4, <1>5, <1>6, <1>7, <1>8, <1>9, <1>10, <1>11,
     <1>12, <1>13 DEF FlushStep

\* So do the others: a signal leaves the flock with a process about to die.
LEMMA ExitOther ==
  ASSUME WithoutForks, ExitInv, FlockInv',
         Listing(file) \subseteq Listing(file)',
         NEW p \in Procs, NEW t \in Threads,
         \/ RecordEntry(p) \/ Notify(p) \/ Arm(p) \/ Fire(p, t)
         \/ ProcessStep(p)
  PROVE  ExitInv'
<1>0. /\ TypeOK /\ "main" \in Threads
      /\ life[p] = "exiting" => pc[p]["main"] \notin Working
  BY DEF ExitInv, FlockInv, Threads, ExitingOK
<1>1. CASE RecordEntry(p)
  <2>1. pc[p]["main"] = "record" /\ life[p] # "exiting"
    BY <1>0, <1>1 DEF RecordEntry, Step, Working
  <2>2. \A q \in Procs \ {p} : SameListing(q)
    BY <1>0, <1>1 DEF RecordEntry, TypeOK, SameListing
  <2> QED BY <1>0, <1>1, <2>1, <2>2, ExitMem DEF RecordEntry, Working, Critical
<1>2. CASE Notify(p) \/ Arm(p) \/ Record(p)
  <2>1. PICK from \in Working, to \in Working : Step(p, "main", from, to)
    BY <1>2 DEF Notify, Arm, Record, Working
  <2>2. life[p] # "exiting"
    BY <1>0, <2>1 DEF Step
  <2>3. /\ life' = life /\ loc' = loc /\ flock' = flock
        /\ \A q \in Procs : SameListing(q)
    BY <1>2, Unlisted DEF Notify, Arm, Record, state
  <2>4. from \notin Critical
    BY DEF Working, Critical
  <2> QED BY <1>0, <2>1, <2>2, <2>3, <2>4, ExitStep
<1>3. CASE Fire(p, t)
  <2>1. \A q \in Procs : SameListing(q)
    BY <1>3, Unlisted DEF Fire, state
  <2> QED BY <1>3, <2>1, ExitStep DEF Fire, Critical
<1>4. CASE BeginExit(p)
  <2>0. \A q \in Procs : SameListing(q)
    BY <1>4, Unlisted DEF BeginExit, state
  <2>1. /\ life'[p] = "exiting" /\ pc'[p]["main"] = "args"
        /\ \A q \in Procs \ {p} : life'[q] = life[q] /\ pc'[q] = pc[q]
    BY <1>0, <1>4 DEF BeginExit, Step, TypeOK
  <2>2. ASSUME NEW q \in flock' PROVE Inside(q)' \/ life'[q] = "sigterm"
    <3>1. q \in flock /\ q \in Procs /\ life[p] = "running"
      BY <1>0, <1>4 DEF BeginExit, TypeOK
    <3>2. CASE q # p
      BY <2>1, <3>1, <3>2 DEF ExitInv, Inside
    <3>3. CASE q = p
      <4>1. PICK u \in Threads : pc[p][u] \in Critical
        BY <3>1, <3>3 DEF ExitInv, Inside
      <4>2. u # "main"
        BY <1>4, <4>1 DEF BeginExit, Step, Critical
      <4>3. pc'[p][u] = pc[p][u]
        BY <1>0, <1>4, <4>2 DEF BeginExit, Step, TypeOK
      <4> QED BY <3>3, <4>1, <4>3 DEF Inside
    <3> QED BY <3>2, <3>3
  <2>3. ASSUME NEW q \in Procs, life'[q] = "exiting" PROVE ExitingOK(q)'
    <3>1. CASE q = p
      BY <2>1, <3>1 DEF ExitingOK, Working
    <3>2. CASE q # p
      BY <1>4, <2>0, <2>1, <2>3, <3>2, ExitingKept DEF BeginExit, ExitInv
    <3> QED BY <3>1, <3>2
  <2>4. /\ \A q \in Procs : life'[q] # "none"
        /\ \A q \in Procs : life'[q] = "running" => pc'[q]["main"] \in Working
    BY <2>1 DEF ExitInv
  <2>5. ExitedIsFlushed'
    BY <2>0, <2>1, ExitedKept DEF ExitInv
  <2> QED BY <2>2, <2>3, <2>4, <2>5 DEF ExitInv
<1>5. CASE Sigterm(p)
  <2>0. \A q \in Procs : SameListing(q)
    BY <1>5, Unlisted DEF Sigterm, state
  <2>1. /\ life'[p] = "sigterm"
        /\ \A q \in Procs \ {p} : /\ life'[q] = life[q] /\ pc'[q] = pc[q]
                                  /\ loc'[q] = loc[q]
    BY <1>0, <1>5 DEF Sigterm, TypeOK
  <2>2. \A q \in flock' : Inside(q)' \/ life'[q] = "sigterm"
    BY <1>0, <1>5, <2>1 DEF Sigterm, ExitInv, Inside, TypeOK
  <2>3. ASSUME NEW q \in Procs, life'[q] = "exiting" PROVE ExitingOK(q)'
    BY <2>0, <2>1, <2>3, ExitingKept DEF ExitInv
  <2>4. /\ \A q \in Procs : life'[q] # "none"
        /\ \A q \in Procs : life'[q] = "running" => pc'[q]["main"] \in Working
    BY <2>1 DEF ExitInv
  <2>5. ExitedIsFlushed'
    BY <2>0, <2>1, ExitedKept DEF ExitInv
  <2> QED BY <2>2, <2>3, <2>4, <2>5 DEF ExitInv
<1>6. CASE Sigkill(p)
  BY <1>6, ExitDie DEF Sigkill, Dead
<1>7. ASSUME NEW c \in Procs, Fork(p, c) PROVE FALSE
  BY <1>7 DEF Fork, ExitInv
<1> QED BY <1>1, <1>2, <1>3, <1>4, <1>5, <1>6, <1>7 DEF ProcessStep

\* Every step keeps the invariant.
LEMMA ExitNext == WithoutForks /\ ExitInv /\ [Next]_vars => ExitInv'
<1> SUFFICES ASSUME WithoutForks, ExitInv, [Next]_vars PROVE ExitInv'
  OBVIOUS
<1>0. FlockInv /\ FlockInv'
  BY InvNext DEF ExitInv
<1>1. Listing(file) \subseteq Listing(file)'
  BY <1>0, WritesFile DEF Output!Write
<1>2. ASSUME NEW p \in Procs, ProcessStep(p) PROVE ExitInv'
  BY <1>0, <1>1, <1>2, ExitOther DEF Threads
<1>3. ASSUME NEW p \in Procs, NEW t \in Threads, ThreadStep(p, t)
      PROVE  ExitInv'
  BY <1>0, <1>1, <1>3, ExitFlush, ExitOther DEF ThreadStep
<1>4. CASE UNCHANGED vars
  <2>1. \A q \in Procs : SameListing(q)
    BY <1>4, Unlisted DEF vars, state
  <2>2. \A q \in Procs : life'[q] = "exiting" => ExitingOK(q)'
    BY <1>1, <1>4, <2>1, ExitingKept DEF vars, ExitInv
  <2>3. ExitedIsFlushed'
    BY <1>1, <1>4, <2>1, ExitedKept DEF vars, ExitInv
  <2> QED BY <1>0, <1>4, <2>2, <2>3 DEF vars, ExitInv, Inside
<1> QED BY <1>2, <1>3, <1>4 DEF Next

\* Initially every process works.
LEMMA ExitInit == WithoutForks /\ Init => ExitInv
<1> SUFFICES ASSUME WithoutForks, Init PROVE ExitInv
  OBVIOUS
<1>1. \A p \in Procs : life[p] = "running" /\ pc[p]["main"] = "run"
  BY DEF Init, WithoutForks, Threads
<1> QED BY <1>1, InvInit DEF Init, ExitInv, ExitedIsFlushed, Working

\* The datasets that a process has detected by the time it exits are in the
\* file, and so are the keys of its argv, with its values or a later writer's,
\* for any number of processes and timers and whatever signals and kills hit
\* the others, as long as nobody forks and nobody holds the flock beyond the
\* timeouts (_flush as at-exit handler, _output_lock, _merge_output).
THEOREM ExitFlushed ==
  ASSUME WithoutForks PROVE Spec => []ExitedIsFlushed
<1>1. ExitInv => ExitedIsFlushed
  BY DEF ExitInv
<1> QED BY <1>1, ExitInit, ExitNext, WithoutForks, PTL DEF Spec

=============================================================================
