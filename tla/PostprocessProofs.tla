-------------------------- MODULE PostprocessProofs --------------------------
(***************************************************************************)
(* Whatever fails while an AIBOM and its series are published, an AIBOM    *)
(* refers to a series that is stored: for any number of pods, metrics,     *)
(* attempts and faults.                                                    *)
(***************************************************************************)
EXTENDS Postprocess, FiniteSetTheorems, TLAPS

Collecting == {"load", "pod", "query", "series", "lines", "compile"}
Delivering == {"sign", "anchor", "create", "owner"}

\* The shape of the state, as far as the argument needs it.
Shape ==
  /\ pc \in Collecting \cup Delivering \cup {"idle", "publish"}
  /\ \E P : job \in [state : {"waiting", "active", "succeeded", "failed"},
                     attempts : 0 .. BackoffLimit + 1, pods : P]
  /\ series = [a \in Attempts |-> series[a]]
  /\ owner \in [Attempts -> 0 .. BackoffLimit + 1]
  /\ aiboms = [a \in Attempts |-> aiboms[a]]

\* A process runs only while the Job has an attempt for it.
AttemptsLeft ==
  /\ pc # "idle" => job.state = "active" /\ job.attempts >= 1
  /\ pc = "idle" /\ job.state \in {"waiting", "active"} => job.attempts <= BackoffLimit

\* What later attempts will write is not there; the running one has no AIBOM
\* before it creates it and owns nothing before it ends.
Unwritten ==
  /\ \A n \in Attempts : n > job.attempts => aiboms[n] = None /\ owner[n] = 0
  /\ pc # "idle" => owner[job.attempts] = 0
  /\ pc \notin {"idle", "owner"} => aiboms[job.attempts] = None
  /\ \A n \in Attempts : owner[n] \in {0, n}

\* The reference and the signature that the process holds.
DraftStored ==
  /\ pc \notin Delivering => ref = None
  /\ pc = "owner" => ref # None
  /\ ref # None => /\ ref.name = job.attempts
                   /\ series[job.attempts] # NoDoc
                   /\ series[job.attempts] = ref.digest
  /\ sig \in {None, <<aibom, ref>>}
  /\ pc \notin Delivering \ {"sign"} => sig = None

\* An AIBOM refers to the series of its own attempt.
AibomStored(a) ==
  aiboms[a] # None =>
    /\ aiboms[a].ref # None => /\ aiboms[a].ref.name = a
                               /\ series[a] # NoDoc
                               /\ series[a] = aiboms[a].ref.digest
    /\ aiboms[a].sig \in {None, <<aiboms[a].data, aiboms[a].ref>>}

RefInv ==
  /\ Shape /\ AttemptsLeft /\ Unwritten /\ DraftStored
  /\ \A a \in Attempts : AibomStored(a)

JobShape(P) == [state : {"waiting", "active", "succeeded", "failed"},
                attempts : 0 .. BackoffLimit + 1, pods : P]
kept == <<job, draft, series, owner, aiboms>>

-----------------------------------------------------------------------------
LEMMA Backoff == BackoffLimit \in Nat
BY PostprocessAssumption

LEMMA RefInit == Init => RefInv
<1> SUFFICES ASSUME Init PROVE RefInv
  OBVIOUS
<1>1. job \in JobShape({<<>>})
  BY Backoff DEF Init, JobShape
<1>2. Shape
  BY <1>1, Backoff
  DEF Init, Shape, JobShape, Attempts, Collecting, Delivering
<1>3. /\ AttemptsLeft /\ Unwritten /\ DraftStored
      /\ \A a \in Attempts : AibomStored(a)
  BY Backoff
  DEF Init, AttemptsLeft, Unwritten, DraftStored, AibomStored, Attempts, Delivering
<1> QED
  BY <1>2, <1>3 DEF RefInv

\* A step that only moves the process, before it publishes, keeps everything.
LEMMA Moves ==
  ASSUME RefInv, UNCHANGED kept,
         \/ pc' = pc
         \/ pc \in Collecting /\ pc' \in Collecting \cup {"publish"}
  PROVE  RefInv'
<1>1. Shape'
  BY DEF RefInv, Shape, kept, Attempts
<1>2. AttemptsLeft' /\ Unwritten'
  BY DEF RefInv, Shape, AttemptsLeft, Unwritten, kept, Attempts, Collecting
<1>3. DraftStored'
  BY DEF RefInv, DraftStored, kept, draft, Collecting, Delivering
<1>4. \A a \in Attempts : AibomStored(a)'
  BY DEF RefInv, AibomStored, kept, Attempts
<1> QED
  BY <1>1, <1>2, <1>3, <1>4 DEF RefInv, Attempts

\* The end of a process leaves the attempts and drops what it held.
LEMMA Exits ==
  ASSUME Shape, AttemptsLeft, pc # "idle", NEW code \in {0, 1}, Exit(code)
  PROVE  /\ \E P : job' \in JobShape(P)
         /\ job'.attempts = job.attempts /\ job.attempts \in Attempts
         /\ pc' = "idle" /\ ref' = None /\ sig' = None
         /\ AttemptsLeft'
<1>1. PICK P : job \in JobShape(P)
  BY DEF Shape, JobShape
<1> DEFINE next == CASE code = 0 -> "succeeded"
                     [] code = 1 /\ job.attempts > BackoffLimit -> "failed"
                     [] OTHER -> job.state
<1>2. job' = [job EXCEPT !.state = next]
  BY DEF Exit
<1>3. /\ job.state = "active" /\ job.attempts \in Attempts
  BY <1>1, Backoff DEF AttemptsLeft, JobShape, Attempts
<1>4. /\ next \in {"succeeded", "failed", "active"}
      /\ next = "active" => job.attempts <= BackoffLimit
  BY <1>1, <1>3, Backoff DEF JobShape
<1> HIDE DEF next
<1>5. job' \in JobShape(P) /\ job'.attempts = job.attempts /\ job'.state = next
  BY <1>1, <1>2, <1>4 DEF JobShape
<1> QED
  BY <1>3, <1>4, <1>5 DEF Exit, AttemptsLeft

\* With it the invariant only needs the objects to be in order.
LEMMA ExitKeeps ==
  ASSUME RefInv, pc # "idle", NEW code \in {0, 1}, Exit(code),
         UNCHANGED series,
         aiboms' = [a \in Attempts |-> aiboms'[a]],
         owner' \in [Attempts -> 0 .. BackoffLimit + 1],
         \A n \in Attempts : n # job.attempts =>
            owner'[n] = owner[n] /\ aiboms'[n] = aiboms[n],
         owner'[job.attempts] \in {0, job.attempts},
         \A a \in Attempts : AibomStored(a)'
  PROVE  RefInv'
<1>1. /\ Shape /\ AttemptsLeft /\ Unwritten /\ DraftStored
      /\ \A a \in Attempts : AibomStored(a)
  BY DEF RefInv
<1>2. /\ \E P : job' \in JobShape(P)
      /\ job'.attempts = job.attempts /\ job.attempts \in Attempts
      /\ pc' = "idle" /\ ref' = None /\ sig' = None
      /\ AttemptsLeft'
  BY <1>1, Exits
<1>3. Shape'
  BY <1>1, <1>2 DEF Shape, JobShape, Attempts
<1>4. Unwritten'
  BY <1>1, <1>2, Backoff DEF Unwritten, Attempts
<1>5. DraftStored'
  BY <1>2 DEF DraftStored, Delivering
<1> QED
  BY <1>2, <1>3, <1>4, <1>5 DEF RefInv, Attempts

-----------------------------------------------------------------------------
(* One lemma per action that does more than move *)

LEMMA EndsStep == RefInv /\ WorkloadEnds => RefInv'
<1> SUFFICES ASSUME RefInv, WorkloadEnds PROVE RefInv'
  OBVIOUS
<1>1. PICK P : job \in JobShape(P)
  BY DEF RefInv, Shape, JobShape
<1>2. /\ job' \in JobShape(P \cup {discoveries})
      /\ job'.attempts = job.attempts /\ job'.state = "active"
  BY <1>1 DEF WorkloadEnds, JobShape
<1>3. UNCHANGED <<pc, draft, series, owner, aiboms>> /\ job.state = "waiting"
  BY DEF WorkloadEnds, store
<1>4. Shape' /\ AttemptsLeft' /\ Unwritten'
  BY <1>2, <1>3 DEF RefInv, Shape, AttemptsLeft, Unwritten, JobShape, Attempts
<1>5. DraftStored'
  BY <1>2, <1>3 DEF RefInv, DraftStored, draft
<1>6. \A a \in Attempts : AibomStored(a)'
  BY <1>3 DEF RefInv, AibomStored
<1> QED
  BY <1>4, <1>5, <1>6 DEF RefInv, Attempts

LEMMA StartStep == RefInv /\ StartAttempt => RefInv'
<1> SUFFICES ASSUME RefInv, StartAttempt PROVE RefInv'
  OBVIOUS
<1>1. PICK P : job \in JobShape(P)
  BY DEF RefInv, Shape, JobShape
<1>2. UNCHANGED <<draft, series, owner, aiboms>>
      /\ job.state = "active" /\ pc = "idle" /\ pc' = "load"
  BY DEF StartAttempt, store
<1>3. job.attempts <= BackoffLimit
  BY <1>2 DEF RefInv, AttemptsLeft
<1>4. /\ job' \in JobShape(P)
      /\ job'.attempts = job.attempts + 1 /\ job'.state = "active"
  BY <1>1, <1>2, <1>3, Backoff DEF StartAttempt, JobShape
<1>5. job.attempts \in Nat /\ job'.attempts \in Attempts
  BY <1>1, <1>3, <1>4, Backoff DEF JobShape, Attempts
<1>6. Shape' /\ AttemptsLeft'
  BY <1>2, <1>4, <1>5
  DEF RefInv, Shape, AttemptsLeft, JobShape, Attempts, Collecting
<1>7. Unwritten'
  BY <1>2, <1>4, <1>5, Backoff DEF RefInv, Unwritten, Attempts
<1>8. DraftStored'
  BY <1>2 DEF RefInv, DraftStored, draft, Delivering
<1>9. \A a \in Attempts : AibomStored(a)'
  BY <1>2 DEF RefInv, AibomStored
<1> QED
  BY <1>6, <1>7, <1>8, <1>9 DEF RefInv, Attempts

LEMMA CrashStep == RefInv /\ Crash => RefInv'
<1> SUFFICES ASSUME RefInv, Crash PROVE RefInv'
  OBVIOUS
<1>1. Exit(1) /\ pc # "idle" /\ UNCHANGED <<series, owner, aiboms>>
  BY DEF Crash, store
<1>2. /\ owner \in [Attempts -> 0 .. BackoffLimit + 1]
      /\ aiboms = [a \in Attempts |-> aiboms[a]]
      /\ owner[job.attempts] = 0
  BY <1>1 DEF RefInv, Shape, Unwritten
<1>3. \A a \in Attempts : AibomStored(a)'
  BY <1>1 DEF RefInv, AibomStored
<1> QED
  BY <1>1, <1>2, <1>3, ExitKeeps

LEMMA CompileStep == RefInv /\ Compile => RefInv'
<1> SUFFICES ASSUME RefInv, Compile PROVE RefInv'
  OBVIOUS
<1>1. pc = "compile" /\ UNCHANGED <<series, owner, aiboms>>
  BY DEF Compile, store
<1>2. CASE Exit(1)
  <2>1. /\ owner \in [Attempts -> 0 .. BackoffLimit + 1]
        /\ aiboms = [a \in Attempts |-> aiboms[a]]
        /\ owner[job.attempts] = 0
    BY <1>1 DEF RefInv, Shape, Unwritten
  <2>2. \A a \in Attempts : AibomStored(a)'
    BY <1>1 DEF RefInv, AibomStored
  <2> QED
    BY <1>1, <1>2, <2>1, <2>2, ExitKeeps
<1>3. CASE pc' = "publish" /\ UNCHANGED <<job, run, ref, sig>>
  <2>1. Shape' /\ AttemptsLeft' /\ Unwritten'
    BY <1>1, <1>3 DEF RefInv, Shape, AttemptsLeft, Unwritten, Attempts
  <2>2. DraftStored'
    BY <1>1, <1>3 DEF RefInv, DraftStored, Delivering
  <2>3. \A a \in Attempts : AibomStored(a)'
    BY <1>1 DEF RefInv, AibomStored
  <2> QED
    BY <2>1, <2>2, <2>3 DEF RefInv, Attempts
<1> QED
  BY <1>2, <1>3 DEF Compile

\* What the running process writes is in its attempt's place.
LEMMA Running ==
  ASSUME RefInv, pc # "idle"
  PROVE  job.attempts \in Attempts
BY Backoff DEF RefInv, Shape, AttemptsLeft, Attempts

LEMMA PublishStep == RefInv /\ Publish => RefInv'
<1> SUFFICES ASSUME RefInv, Publish PROVE RefInv'
  OBVIOUS
<1>1. /\ pc = "publish" /\ pc' = "sign" /\ run.doc # NoDoc
      /\ UNCHANGED <<job, aibom, sig, owner, aiboms>>
      /\ ref = None /\ sig = None /\ aiboms[job.attempts] = None
  BY DEF Publish, RefInv, DraftStored, Unwritten, Delivering
<1>2. job.attempts \in Attempts
  BY <1>1, Running
<1>3. \/ Stored /\ ref' \in {None, Reference}
      \/ UNCHANGED <<series, ref>>
  BY <1>1 DEF Publish, Answered, Failed
<1>4. CASE UNCHANGED <<series, ref>>
  <2>1. Shape' /\ AttemptsLeft' /\ Unwritten'
    BY <1>1, <1>4 DEF RefInv, Shape, AttemptsLeft, Unwritten, Attempts, Delivering
  <2>2. DraftStored' /\ \A a \in Attempts : AibomStored(a)'
    BY <1>1, <1>4 DEF RefInv, DraftStored, AibomStored, Delivering
  <2> QED
    BY <2>1, <2>2 DEF RefInv, Attempts
<1>5. CASE Stored /\ ref' \in {None, Reference}
  <2>1. /\ series' = [a \in Attempts |-> IF a = job.attempts THEN run.doc
                                         ELSE series[a]]
    BY <1>2, <1>5 DEF Stored, RefInv, Shape
  <2>2. Shape' /\ AttemptsLeft' /\ Unwritten'
    BY <1>1, <2>1 DEF RefInv, Shape, AttemptsLeft, Unwritten, Attempts, Delivering
  <2>3. DraftStored'
    BY <1>1, <1>2, <1>5, <2>1 DEF DraftStored, Reference, Delivering
  <2>4. \A a \in Attempts : AibomStored(a)'
    BY <1>1, <2>1 DEF RefInv, AibomStored
  <2> QED
    BY <2>2, <2>3, <2>4 DEF RefInv, Attempts
<1> QED
  BY <1>3, <1>4, <1>5

LEMMA SignStep == RefInv /\ (NoSeries \/ sign_aibom \/ PublishKey) => RefInv'
<1> SUFFICES ASSUME RefInv, NoSeries \/ sign_aibom \/ PublishKey PROVE RefInv'
  OBVIOUS
<1>1. /\ pc \in {"publish", "sign", "anchor"} /\ pc' \in {"sign", "anchor", "create"}
      /\ UNCHANGED <<job, aibom, ref, series, owner, aiboms>>
      /\ pc' = "sign" => pc = "publish" /\ UNCHANGED sig
      /\ sig' \in {sig, <<aibom, ref>>}
  BY DEF NoSeries, sign_aibom, PublishKey, rest, draft, store
<1>2. Shape' /\ AttemptsLeft' /\ Unwritten'
  BY <1>1 DEF RefInv, Shape, AttemptsLeft, Unwritten, Attempts, Delivering
<1>3. DraftStored'
  BY <1>1 DEF RefInv, DraftStored, Delivering
<1>4. \A a \in Attempts : AibomStored(a)'
  BY <1>1 DEF RefInv, AibomStored
<1> QED
  BY <1>2, <1>3, <1>4 DEF RefInv, Attempts

LEMMA CreateStep == RefInv /\ CreateAibom => RefInv'
<1> SUFFICES ASSUME RefInv, CreateAibom PROVE RefInv'
  OBVIOUS
<1>1. /\ pc = "create" /\ UNCHANGED <<series, owner>>
      /\ Created \/ UNCHANGED aiboms
      /\ Exit(0) \/ Exit(1) \/ (ref # None /\ pc' = "owner" /\ UNCHANGED <<job, draft>>)
  BY DEF CreateAibom, Answered, Failed
<1>2. job.attempts \in Attempts /\ owner[job.attempts] = 0
  BY <1>1, Running DEF RefInv, Unwritten
<1>3. \/ UNCHANGED aiboms
      \/ aiboms' = [a \in Attempts |->
                      IF a = job.attempts
                      THEN [data |-> aibom, ref |-> ref, sig |-> sig]
                      ELSE aiboms[a]]
  BY <1>1, <1>2 DEF Created, RefInv, Shape
<1>4. /\ aiboms' = [a \in Attempts |-> aiboms'[a]]
      /\ \A n \in Attempts : n # job.attempts => aiboms'[n] = aiboms[n]
  BY <1>3 DEF RefInv, Shape
<1>5. ASSUME NEW a \in Attempts PROVE AibomStored(a)'
  <2>1. CASE aiboms'[a] = aiboms[a]
    BY <1>1, <2>1 DEF RefInv, AibomStored
  <2>2. CASE aiboms'[a] # aiboms[a]
    <3>1. /\ a = job.attempts
          /\ aiboms'[a] = [data |-> aibom, ref |-> ref, sig |-> sig]
      BY <1>3, <2>2
    <3>2. /\ ref # None => /\ ref.name = a /\ series[a] # NoDoc
                           /\ series[a] = ref.digest
          /\ sig \in {None, <<aibom, ref>>}
      BY <3>1 DEF RefInv, DraftStored
    <3>3. series'[a] = series[a]
      BY <1>1
    <3> QED
      BY <3>1, <3>2, <3>3 DEF AibomStored
  <2> QED
    BY <2>1, <2>2
<1>6. CASE Exit(0) \/ Exit(1)
  <2>1. owner' \in [Attempts -> 0 .. BackoffLimit + 1]
    BY <1>1 DEF RefInv, Shape
  <2> QED
    BY <1>1, <1>2, <1>4, <1>5, <1>6, <2>1, ExitKeeps
<1>7. CASE ref # None /\ pc' = "owner" /\ UNCHANGED <<job, draft>>
  <2>1. Shape' /\ AttemptsLeft'
    BY <1>1, <1>4, <1>7 DEF RefInv, Shape, AttemptsLeft, Attempts, Delivering
  <2>2. Unwritten'
    BY <1>1, <1>2, <1>4, <1>7 DEF RefInv, Unwritten, Attempts
  <2>3. DraftStored'
    BY <1>1, <1>7 DEF RefInv, DraftStored, draft, Delivering
  <2> QED
    BY <1>5, <2>1, <2>2, <2>3 DEF RefInv, Attempts
<1> QED
  BY <1>1, <1>6, <1>7

LEMMA OwnerStep == RefInv /\ SetOwner => RefInv'
<1> SUFFICES ASSUME RefInv, SetOwner PROVE RefInv'
  OBVIOUS
<1>1. /\ pc = "owner" /\ Exit(0) /\ UNCHANGED <<series, aiboms>>
      /\ \/ owner' = [owner EXCEPT ![ref.name] = job.attempts]
         \/ UNCHANGED owner
  BY DEF SetOwner, Owned, Answered, Failed
<1>2. job.attempts \in Attempts /\ owner[job.attempts] = 0
  BY <1>1, Running DEF RefInv, Unwritten
<1>3. CASE UNCHANGED owner
  <2>1. /\ owner' \in [Attempts -> 0 .. BackoffLimit + 1]
        /\ aiboms' = [a \in Attempts |-> aiboms'[a]]
    BY <1>1, <1>3 DEF RefInv, Shape
  <2>2. \A a \in Attempts : AibomStored(a)'
    BY <1>1 DEF RefInv, AibomStored
  <2> QED
    BY <1>1, <1>2, <1>3, <2>1, <2>2, ExitKeeps
<1>4. CASE ref # None /\ owner' = [owner EXCEPT ![ref.name] = job.attempts]
  <2>1. ref.name = job.attempts
    BY <1>4 DEF RefInv, DraftStored
  <2>2. /\ owner' \in [Attempts -> 0 .. BackoffLimit + 1]
        /\ owner'[job.attempts] = job.attempts
        /\ \A n \in Attempts : n # job.attempts => owner'[n] = owner[n]
    BY <1>2, <1>4, <2>1 DEF RefInv, Shape, Attempts
  <2>3. aiboms' = [a \in Attempts |-> aiboms'[a]]
    BY <1>1 DEF RefInv, Shape
  <2>4. \A a \in Attempts : AibomStored(a)'
    BY <1>1 DEF RefInv, AibomStored
  <2> QED
    BY <1>1, <1>2, <2>2, <2>3, <2>4, ExitKeeps
<1> QED
  BY <1>1, <1>3, <1>4 DEF RefInv, DraftStored

LEMMA DeleteStep == RefInv /\ (\E a \in Attempts : DeleteAibom(a)) => RefInv'
<1> SUFFICES ASSUME RefInv, NEW d \in Attempts, DeleteAibom(d) PROVE RefInv'
  OBVIOUS
<1>1. /\ aiboms' = [aiboms EXCEPT ![d] = None] /\ Ended
      /\ UNCHANGED <<job, pc, draft, series, owner>>
  BY DEF DeleteAibom
<1>2. /\ aiboms' = [a \in Attempts |-> aiboms'[a]]
      /\ \A a \in Attempts : aiboms'[a] \in {aiboms[a], None}
  BY <1>1 DEF RefInv, Shape
<1>3. Shape' /\ AttemptsLeft'
  BY <1>1, <1>2 DEF RefInv, Shape, AttemptsLeft, Attempts
<1>4. Unwritten'
  BY <1>1, <1>2, Running DEF RefInv, Unwritten, Attempts
<1>5. DraftStored'
  BY <1>1 DEF RefInv, DraftStored, draft
<1>6. \A a \in Attempts : AibomStored(a)'
  BY <1>1, <1>2 DEF RefInv, AibomStored
<1> QED
  BY <1>3, <1>4, <1>5, <1>6 DEF RefInv, Attempts

\* Only an AIBOM's own series is collected with it, and none that the running
\* process refers to.
LEMMA CollectStep == RefInv /\ (\E n \in Attempts : CollectSeries(n)) => RefInv'
<1> SUFFICES ASSUME RefInv, NEW n \in Attempts, CollectSeries(n) PROVE RefInv'
  OBVIOUS
<1>1. /\ owner[n] # 0 /\ aiboms[owner[n]] = None
      /\ series' = [series EXCEPT ![n] = NoDoc]
      /\ UNCHANGED <<job, pc, draft, owner, aiboms>>
  BY DEF CollectSeries
<1>2. owner[n] = n /\ aiboms[n] = None
  BY <1>1 DEF RefInv, Unwritten
<1>3. /\ series' = [a \in Attempts |-> series'[a]]
      /\ \A a \in Attempts : a # n => series'[a] = series[a]
  BY <1>1 DEF RefInv, Shape
<1>4. Shape' /\ AttemptsLeft' /\ Unwritten'
  BY <1>1, <1>3 DEF RefInv, Shape, AttemptsLeft, Unwritten, Attempts
<1>5. ref # None => job.attempts # n /\ job.attempts \in Attempts
  <2>1. ref # None => pc # "idle"
    BY DEF RefInv, DraftStored, Delivering
  <2> QED
    BY <1>1, <2>1, Running DEF RefInv, Unwritten
<1>6. DraftStored'
  BY <1>1, <1>3, <1>5 DEF RefInv, DraftStored, draft
<1>7. \A a \in Attempts : AibomStored(a)'
  BY <1>1, <1>2, <1>3 DEF RefInv, AibomStored
<1> QED
  BY <1>4, <1>6, <1>7 DEF RefInv, Attempts

\* The other actions move the process, or not even that.
LEMMA CollectingStep ==
  ASSUME RefInv, Collect \/ Workload \/ \E p \in Pods, m \in Usage \cup Serving : Ingest(p, m)
  PROVE  RefInv'
<1>1. CASE Workload
  BY <1>1, Moves DEF Workload, kept, store
<1>2. CASE \E p \in Pods, m \in Usage \cup Serving : Ingest(p, m)
  BY <1>2, Moves DEF Ingest, kept, store
<1>3. CASE Detect
  BY <1>3, Moves DEF Detect, kept, rest, draft, store, Collecting
<1>4. CASE SkipPod
  BY <1>4, Moves DEF SkipPod, kept, rest, draft, store
<1>5. CASE BeginPod
  BY <1>5, Moves DEF BeginPod, kept, rest, draft, store, Collecting
<1>6. CASE EndRound
  BY <1>6, Moves DEF EndRound, NextRound, NextPod, kept, rest, draft, store, Collecting
<1>7. CASE EndLoop
  BY <1>7, Moves DEF EndLoop, kept, rest, draft, store, Collecting
<1>8. CASE BeginSeries
  BY <1>8, Moves DEF BeginSeries, kept, rest, draft, store, Collecting
<1>9. CASE Fit
  BY <1>9, Moves DEF Fit, kept, rest, draft, store, Collecting
<1>10. CASE \E m \in Usage \cup Serving : Query(m) \/ QuerySeries(m)
  BY <1>10, Moves DEF Query, QuerySeries, kept, rest, draft, store
<1> QED
  BY <1>1, <1>2, <1>3, <1>4, <1>5, <1>6, <1>7, <1>8, <1>9, <1>10 DEF Collect

LEMMA RefNext == RefInv /\ [Next]_vars => RefInv'
<1> SUFFICES ASSUME RefInv, [Next]_vars PROVE RefInv'
  OBVIOUS
<1>1. CASE Workload \/ Collect \/ \E p \in Pods, m \in Usage \cup Serving : Ingest(p, m)
  BY <1>1, CollectingStep
<1>2. CASE WorkloadEnds
  BY <1>2, EndsStep
<1>3. CASE StartAttempt
  BY <1>3, StartStep
<1>4. CASE Crash
  BY <1>4, CrashStep
<1>5. CASE Deliver
  BY <1>5, CompileStep, PublishStep, SignStep, CreateStep, OwnerStep DEF Deliver
<1>6. CASE \E a \in Attempts : DeleteAibom(a) \/ CollectSeries(a)
  BY <1>6, DeleteStep, CollectStep
<1>7. CASE UNCHANGED vars
  BY <1>7, Moves DEF vars, kept, store
<1> QED
  BY <1>1, <1>2, <1>3, <1>4, <1>5, <1>6, <1>7 DEF Next, RunStep

\* Every series that an AIBOM refers to is stored as the reference says, and
\* every signature is of the AIBOM's data and reference, after any failures,
\* crashes, deletions and collections (main, publish_series_object).
THEOREM ReferencesHold == Spec => []RefStored
<1>1. RefInv => RefStored
  BY DEF RefInv, AibomStored, RefStored
<1> QED
  BY <1>1, RefInit, RefNext, PTL DEF Spec

-----------------------------------------------------------------------------
(* The Job's result *)

\* None, which stands for no AIBOM and no reference, is not one.
NoneIsNoObject ==
  /\ \A d, r, s : [data |-> d, ref |-> r, sig |-> s] # None
  /\ \A n, d : [name |-> n, digest |-> d] # None

\* How many processes of the Job have ended.
Gone == IF pc = "idle" THEN job.attempts ELSE job.attempts - 1

\* Each of them met a failure, unless what they were given cannot be compiled;
\* and a process that sets an owner has created its AIBOM.
CountInv ==
  /\ input.faults \in Nat /\ faults \in 0 .. input.faults
  /\ job.state = "waiting" => job.attempts = 0
  /\ job.state = "active" /\ Readable => faults + Gone <= input.faults
  /\ pc = "owner" => aiboms[job.attempts] # None /\ aiboms[job.attempts].ref = ref

\* What a step that is no process's end does to the counts.
LEMMA CountKept ==
  ASSUME RefInv, CountInv, input' = input,
         faults' = faults \/ Fault,
         pc # "idle", pc' # "idle", job' = job, data' = data,
         pc' = "owner" => \/ pc = "owner" /\ UNCHANGED <<aiboms, ref>>
                          \/ /\ aiboms'[job.attempts] # None
                             /\ aiboms'[job.attempts].ref = ref'
  PROVE  CountInv'
<1>1. job.attempts \in Nat
  BY DEF RefInv, Shape
<1>2. faults' \in 0 .. input.faults /\ faults' <= faults
  BY DEF CountInv, Fault
<1>3. Readable' = Readable
  BY DEF Readable
<1>4. Gone' = Gone /\ Gone \in Int
  BY <1>1 DEF Gone
<1>5. job.state = "active" /\ Readable => faults' + Gone <= input.faults
  BY <1>2, <1>4 DEF CountInv
<1> QED
  BY <1>2, <1>3, <1>4, <1>5 DEF CountInv

\* What the end of a process does to them.
LEMMA CountExit ==
  ASSUME RefInv, CountInv, input' = input, pc # "idle", data' = data,
         NEW code \in {0, 1}, Exit(code),
         faults' = faults \/ Fault,
         code = 1 => Fault \/ ~Readable
  PROVE  CountInv'
<1>1. PICK P : job \in JobShape(P)
  BY DEF RefInv, Shape, JobShape
<1> DEFINE next == CASE code = 0 -> "succeeded"
                     [] code = 1 /\ job.attempts > BackoffLimit -> "failed"
                     [] OTHER -> job.state
<1>2. job' = [job EXCEPT !.state = next] /\ pc' = "idle"
  BY DEF Exit
<1>3. job.state = "active" /\ job.attempts \in Nat
  BY <1>1 DEF RefInv, AttemptsLeft, JobShape
<1>4. next \in {"succeeded", "failed", "active"} /\ (next = "active" => code = 1)
  BY <1>3, Backoff
<1> HIDE DEF next
<1>5. job'.attempts = job.attempts /\ job'.state = next /\ job'.pods = job.pods
  BY <1>1, <1>2 DEF JobShape
<1>6. Readable' = Readable
  BY <1>5 DEF Readable
<1>7. faults' \in 0 .. input.faults
  BY DEF CountInv, Fault
<1>8. Gone' = Gone + 1 /\ Gone \in Int
  BY <1>2, <1>3, <1>5 DEF Gone
<1>9. next = "active" /\ Readable => faults' + Gone' <= input.faults
  <2>1. next = "active" /\ Readable => faults' = faults - 1
    BY <1>4 DEF Fault
  <2>2. Readable => faults + Gone <= input.faults
    BY <1>3 DEF CountInv
  <2> QED
    BY <1>8, <2>1, <2>2 DEF CountInv
<1> QED
  BY <1>2, <1>4, <1>5, <1>6, <1>7, <1>9 DEF CountInv

LEMMA CountInit == Init => CountInv
<1> SUFFICES ASSUME Init PROVE CountInv
  OBVIOUS
<1>1. input.faults \in Nat /\ faults = input.faults
  BY PostprocessAssumption DEF Init, InputOK
<1> QED
  BY <1>1 DEF Init, CountInv

LEMMA CountCollect ==
  ASSUME RefInv, CountInv, Collect PROVE CountInv'
<1>1. /\ pc # "idle" /\ pc' \notin {"idle", "owner"} /\ job' = job
      /\ input' = input /\ data' = data /\ (faults' = faults \/ Fault)
  <2>1. CASE Detect \/ SkipPod \/ BeginPod
    BY <2>1 DEF Detect, SkipPod, BeginPod, rest, world, discoveryVars
  <2>2. CASE EndRound \/ EndLoop \/ BeginSeries \/ Fit
    BY <2>2 DEF EndRound, NextRound, NextPod, EndLoop, BeginSeries, Fit, rest,
                world, discoveryVars
  <2>3. CASE \E m \in Usage \cup Serving : Query(m) \/ QuerySeries(m)
    BY <2>3 DEF Query, QuerySeries, rest, world, discoveryVars
  <2> QED
    BY <2>1, <2>2, <2>3 DEF Collect
<1> QED
  BY <1>1, CountKept

LEMMA CountDeliver ==
  ASSUME NoneIsNoObject, RefInv, CountInv, Deliver PROVE CountInv'
<1>1. CASE Compile
  <2>1. /\ pc = "compile" /\ input' = input /\ data' = data /\ faults' = faults
        /\ \/ ~Readable /\ Exit(1)
           \/ pc' = "publish" /\ job' = job
    BY <1>1 DEF Compile, world, discoveryVars
  <2> QED
    BY <2>1, CountKept, CountExit
<1>2. CASE Publish \/ NoSeries \/ sign_aibom \/ PublishKey
  <2>1. /\ pc # "idle" /\ pc' \notin {"idle", "owner"} /\ job' = job
        /\ input' = input /\ data' = data /\ (faults' = faults \/ Fault)
    BY <1>2 DEF Publish, NoSeries, sign_aibom, PublishKey, Answered, Failed, rest,
                world, discoveryVars
  <2> QED
    BY <2>1, CountKept
<1>3. CASE CreateAibom
  <2>1. /\ pc = "create" /\ input' = input /\ data' = data
        /\ \/ Created /\ faults' = faults /\ Exit(0)
           \/ Created /\ faults' = faults /\ pc' = "owner" /\ UNCHANGED <<job, draft>>
           \/ Fault /\ Exit(1)
    BY <1>3 DEF CreateAibom, Answered, Failed, world, discoveryVars
  <2>2. job.attempts \in Attempts
    BY <2>1, Running
  <2>3. Created => aiboms'[job.attempts] = [data |-> aibom, ref |-> ref, sig |-> sig]
    BY <2>2 DEF Created, RefInv, Shape
  <2>4. CASE Created /\ faults' = faults /\ pc' = "owner" /\ UNCHANGED <<job, draft>>
    <3>1. aiboms'[job.attempts] # None /\ aiboms'[job.attempts].ref = ref'
      BY <2>3, <2>4 DEF NoneIsNoObject, draft
    <3> QED
      BY <2>1, <2>4, <3>1, CountKept
  <2> QED
    BY <2>1, <2>4, CountExit
<1>4. CASE SetOwner
  <2>1. /\ pc = "owner" /\ input' = input /\ data' = data /\ Exit(0)
        /\ faults' = faults \/ Fault
    BY <1>4 DEF SetOwner, Answered, Failed, world, discoveryVars
  <2> QED
    BY <2>1, CountExit
<1> QED
  BY <1>1, <1>2, <1>3, <1>4 DEF Deliver

\* The pods' steps come before the first attempt.
LEMMA DiscoveryFaults ==
  ASSUME Workload PROVE faults' = faults \/ Fault
<1>1. ASSUME NEW p \in Pods, NEW from, NEW to, NEW result, NEW nothing,
             Stage(p, from, to, result, nothing)
      PROVE  faults' = faults \/ Fault
  BY <1>1 DEF Stage
<1>2. ASSUME NEW p \in Pods, DiscoveryStep(p) PROVE faults' = faults \/ Fault
  BY <1>2 DEF DiscoveryStep, Snapshot, ResolveName, Sign, SignStorage, Write,
              resolve_inference_service_storage, read_model_source_files, Stage
<1> QED
  BY <1>2 DEF Workload, Again, DeleteService, KeyAppears

LEMMA CountNext ==
  ASSUME NoneIsNoObject, RefInv, CountInv, [Next]_vars PROVE CountInv'
<1>1. CASE Workload
  <2>1. job.state = "waiting" /\ UNCHANGED <<input, job, pc, aiboms, ref>>
    BY <1>1 DEF Workload, world, draft, store
  <2>2. faults' \in 0 .. input.faults
    BY <1>1, DiscoveryFaults DEF Fault, CountInv
  <2>3. pc = "idle"
    BY <2>1 DEF RefInv, AttemptsLeft
  <2> QED
    BY <2>1, <2>2, <2>3 DEF CountInv
<1>2. CASE WorkloadEnds
  <2>1. PICK P : job \in JobShape(P)
    BY DEF RefInv, Shape, JobShape
  <2>2. /\ job.state = "waiting" /\ UNCHANGED <<input, faults, pc, aiboms, ref>>
        /\ job'.attempts = job.attempts /\ job'.state = "active"
    BY <1>2, <2>1 DEF WorkloadEnds, JobShape, world, draft, store
  <2>3. pc = "idle" /\ job.attempts = 0
    BY <2>2 DEF RefInv, AttemptsLeft, CountInv
  <2> QED
    BY <2>2, <2>3 DEF CountInv, Gone
<1>3. CASE StartAttempt
  <2>1. PICK P : job \in JobShape(P)
    BY DEF RefInv, Shape, JobShape
  <2>2. /\ job.state = "active" /\ UNCHANGED <<input, faults, data, aiboms, ref>>
        /\ pc = "idle" /\ pc' = "load" /\ job'.pods = job.pods
        /\ job'.attempts = job.attempts + 1 /\ job'.state = "active"
    BY <1>3, <2>1 DEF StartAttempt, JobShape, world, draft, store, discoveryVars
  <2>3. Gone' = Gone /\ Readable' = Readable
    BY <2>1, <2>2 DEF Gone, Readable, JobShape
  <2> QED
    BY <2>2, <2>3 DEF CountInv
<1>4. CASE Crash
  BY <1>4, CountExit DEF Crash, world, discoveryVars
<1>5. CASE \E p \in Pods, m \in Usage \cup Serving : Ingest(p, m)
  BY <1>5, CountKept DEF Ingest, discoveryVars, draft, store
<1>6. CASE \E a \in Attempts : DeleteAibom(a) \/ CollectSeries(a)
  <2>1. /\ UNCHANGED <<input, faults, data, job, pc, ref>>
        /\ Ended \/ UNCHANGED aiboms
    BY <1>6 DEF DeleteAibom, CollectSeries, world, draft, discoveryVars
  <2>2. pc = "owner" => ~Ended
    BY DEF RefInv, AttemptsLeft, Ended
  <2>3. Readable' = Readable /\ Gone' = Gone
    BY <2>1 DEF Readable, Gone
  <2> QED
    BY <2>1, <2>2, <2>3 DEF CountInv
<1>7. CASE UNCHANGED vars
  BY <1>7 DEF vars, world, draft, store, discoveryVars, CountInv, Readable, Gone
<1> QED
  BY <1>1, <1>2, <1>3, <1>4, <1>5, <1>6, <1>7, CountCollect, CountDeliver
  DEF Next, RunStep

\* What the step that ends the Job says of it.
LEMMA TruthStep ==
  ASSUME NoneIsNoObject, RefInv, CountInv, Next
  PROVE  /\ job'.state = "succeeded" /\ job.state # "succeeded" =>
              aiboms'[job.attempts] # None
         /\ job'.state = "failed" /\ job.state # "failed" =>
              \/ input.faults - faults' > BackoffLimit
              \/ ~Readable
<1>1. PICK P : job \in JobShape(P)
  BY DEF RefInv, Shape, JobShape
<1>2. ASSUME Exit(1), pc # "idle", Fault \/ ~Readable
      PROVE  /\ job'.state # "succeeded"
             /\ job'.state = "failed" =>
                  input.faults - faults' > BackoffLimit \/ ~Readable
  <2>1. /\ job.state = "active" /\ job.attempts \in Nat
        /\ job' = [job EXCEPT !.state = IF job.attempts > BackoffLimit THEN "failed" ELSE @]
    BY <1>1, <1>2 DEF Exit, RefInv, AttemptsLeft, JobShape
  <2>2. /\ job'.state # "succeeded"
        /\ job'.state = "failed" => job.attempts > BackoffLimit
    BY <1>1, <2>1 DEF JobShape
  <2>3. Readable => faults' = faults - 1 /\ faults + (job.attempts - 1) <= input.faults
    BY <1>2, <2>1 DEF Fault, CountInv, Gone
  <2> QED
    BY <2>1, <2>2, <2>3, Backoff DEF CountInv
<1>3. ASSUME Exit(0) PROVE job'.state = "succeeded"
  BY <1>1, <1>3 DEF Exit, JobShape
<1>4. CASE job' = job
  BY <1>4
<1>5. CASE WorkloadEnds
  BY <1>1, <1>5 DEF WorkloadEnds, JobShape
<1>6. CASE StartAttempt
  BY <1>1, <1>6 DEF StartAttempt, JobShape
<1>7. CASE Crash
  BY <1>2, <1>7 DEF Crash
<1>8. CASE Compile
  BY <1>2, <1>4, <1>8 DEF Compile
<1>9. CASE CreateAibom
  <2>1. job.attempts \in Attempts
    BY <1>9, Running DEF CreateAibom
  <2>2. Created => aiboms'[job.attempts] # None
    BY <2>1 DEF Created, NoneIsNoObject, RefInv, Shape
  <2> QED
    BY <1>2, <1>3, <1>4, <1>9, <2>2 DEF CreateAibom, Answered, Failed
<1>10. CASE SetOwner
  BY <1>3, <1>10 DEF SetOwner, CountInv
<1>11. Publish \/ NoSeries \/ sign_aibom \/ PublishKey => job' = job
  BY DEF Publish, NoSeries, sign_aibom, PublishKey, rest
<1>12. Collect => job' = job
  BY DEF Collect, Detect, SkipPod, BeginPod, EndRound, EndLoop, BeginSeries, Fit,
         Query, QuerySeries, rest
<1>13. \/ Workload \/ \E p \in Pods, m \in Usage \cup Serving : Ingest(p, m)
       \/ \E a \in Attempts : DeleteAibom(a) \/ CollectSeries(a)
       => job' = job
  BY DEF Workload, Ingest, DeleteAibom, CollectSeries
<1> QED
  BY <1>4, <1>5, <1>6, <1>7, <1>8, <1>9, <1>10, <1>11, <1>12, <1>13
  DEF Next, RunStep, Deliver

\* A Job succeeds only with an AIBOM, and fails only if each of its processes
\* met a failure or what it was given cannot be compiled, for any number of
\* attempts and any failures, crashes and deletions (main, sys.exit).
THEOREM JobTruth == ASSUME NoneIsNoObject PROVE Spec => JobTellsTruth
<1>1. Init => RefInv /\ CountInv
  BY RefInit, CountInit
<1>2. RefInv /\ CountInv /\ [Next]_vars => RefInv' /\ CountInv'
  BY RefNext, CountNext, NoneIsNoObject
<1> DEFINE Truth ==
      /\ job'.state = "succeeded" /\ job.state # "succeeded" =>
           aiboms'[job.attempts] # None
      /\ job'.state = "failed" /\ job.state # "failed" =>
           \/ input.faults - faults' > BackoffLimit
           \/ ~Readable
<1>3. RefInv /\ CountInv /\ [Next]_vars => [Truth]_vars
  BY TruthStep, NoneIsNoObject
<1> QED
  BY <1>1, <1>2, <1>3, PTL DEF Spec, JobTellsTruth

-----------------------------------------------------------------------------
(* What is left over *)

\* By RefInv, only attempt n's own reference is to the series n.
Referred(n) ==
  \/ ref # None /\ n = job.attempts
  \/ aiboms[n] # None /\ aiboms[n].ref # None
Orphans == {n \in Attempts : series[n] # NoDoc /\ owner[n] = 0 /\ ~Referred(n)}
Existing == {a \in Attempts : aiboms[a] # None}

\* A signature is there, or about to be, that nobody has the key for.
KeyUnknown ==
  IF /\ anchor = "absent"
     /\ \/ pc = "create" /\ sig # None
        \/ \E a \in Existing : aiboms[a].sig # None
  THEN 1 ELSE 0

\* The AIBOM of the process that succeeds costs nothing: as long as it exists
\* and will take its series with it.
Wanted ==
  IF \/ pc = "owner"
     \/ /\ job.state = "succeeded" /\ job.attempts \in Existing
        /\ aiboms[job.attempts].ref = None \/ owner[job.attempts] # 0
  THEN 1 ELSE 0

LeftInv ==
  Cardinality(Orphans) + Cardinality(Existing) + KeyUnknown
    <= input.faults - faults + Wanted

LEMMA Cards ==
  ASSUME NEW S \in SUBSET Attempts, NEW T \in SUBSET Attempts, NEW x
  PROVE  /\ Cardinality(S) \in Nat /\ Cardinality(T) \in Nat
         /\ T \subseteq S \cup {x} => Cardinality(T) <= Cardinality(S) + 1
         /\ T \subseteq S => Cardinality(T) <= Cardinality(S)
         /\ x \in S /\ T \subseteq S \ {x} => Cardinality(T) <= Cardinality(S) - 1
         /\ x \in S => Cardinality(S) >= 1
<1>1. IsFiniteSet(Attempts)
  BY FS_Interval, Backoff DEF Attempts
<1>2. IsFiniteSet(S) /\ IsFiniteSet(T)
  BY <1>1, FS_Subset
<1>3. Cardinality(S) \in Nat /\ Cardinality(T) \in Nat
  BY <1>2, FS_CardinalityType
<1>4. IsFiniteSet(S \cup {x}) /\ Cardinality(S \cup {x}) <= Cardinality(S) + 1
  <2>1. /\ IsFiniteSet(S \cup {x})
        /\ Cardinality(S \cup {x}) = IF x \in S THEN Cardinality(S)
                                     ELSE Cardinality(S) + 1
    BY <1>2, FS_AddElement
  <2> QED
    BY <1>3, <2>1
<1>5. /\ IsFiniteSet(S \ {x}) /\ Cardinality(S \ {x}) \in Nat
      /\ x \in S => Cardinality(S \ {x}) = Cardinality(S) - 1
  BY <1>2, FS_RemoveElement, FS_CardinalityType
<1>6. T \subseteq S \cup {x} => Cardinality(T) <= Cardinality(S \cup {x})
  BY <1>4, FS_Subset
<1>7. T \subseteq S => Cardinality(T) <= Cardinality(S)
  BY <1>2, FS_Subset
<1>8. T \subseteq S \ {x} => Cardinality(T) <= Cardinality(S \ {x})
  BY <1>5, FS_Subset
<1>9. Cardinality(S \cup {x}) \in Nat
  BY <1>4, FS_CardinalityType
<1> QED
  BY <1>3, <1>4, <1>5, <1>6, <1>7, <1>8, <1>9

LEMMA Sums ==
  ASSUME NEW a \in Int, NEW b \in Int, NEW k \in Int, NEW w \in Int,
         NEW a1 \in Int, NEW b1 \in Int, NEW k1 \in Int, NEW w1 \in Int,
         NEW f \in Int, NEW f1 \in Int, NEW i \in Int,
         NEW o \in Int, NEW c \in Int, NEW dk \in Int, NEW df \in Int, NEW dw \in Int,
         a1 <= a + o, b1 <= b + c, k1 <= k + dk, f1 <= f - df, w + dw <= w1,
         a + b + k <= i - f + w, o + c + dk <= df + dw
  PROVE  a1 + b1 + k1 <= i - f1 + w1
OBVIOUS

\* The balance of a step: at most o more orphans, c more AIBOMs and dk more
\* unknown keys, for df faults and dw more AIBOMs that are wanted.
LEMMA Balance ==
  ASSUME LeftInv, CountInv, CountInv', input' = input, NEW x,
         NEW o \in {0, 1}, NEW c \in {-1, 0, 1},
         NEW dk \in Int, NEW df \in Int, NEW dw \in Int,
         Orphans' \subseteq IF o = 0 THEN Orphans ELSE Orphans \cup {x},
         c = 1 => Existing' \subseteq Existing \cup {x},
         c = 0 => Existing' \subseteq Existing,
         c = -1 => x \in Existing /\ Existing' \subseteq Existing \ {x},
         KeyUnknown' <= KeyUnknown + dk, faults' <= faults - df,
         Wanted + dw <= Wanted', o + c + dk <= df + dw
  PROVE  LeftInv'
<1>1. /\ Orphans \in SUBSET Attempts /\ Orphans' \in SUBSET Attempts
      /\ Existing \in SUBSET Attempts /\ Existing' \in SUBSET Attempts
  BY DEF Orphans, Existing, Attempts
<1>2. /\ Cardinality(Orphans) \in Nat /\ Cardinality(Orphans') \in Nat
      /\ Cardinality(Orphans') <= Cardinality(Orphans) + o
  BY <1>1, Cards
<1>3. /\ Cardinality(Existing) \in Nat /\ Cardinality(Existing') \in Nat
      /\ Cardinality(Existing') <= Cardinality(Existing) + c
  BY <1>1, Cards
<1>4. KeyUnknown \in Int /\ KeyUnknown' \in Int /\ Wanted \in Int /\ Wanted' \in Int
  BY DEF KeyUnknown, Wanted
<1>5. faults \in Int /\ faults' \in Int /\ input.faults \in Int
  BY DEF CountInv
<1>6. Cardinality(Orphans) + Cardinality(Existing) + KeyUnknown
        <= input.faults - faults + Wanted
  BY DEF LeftInv
<1>7. o \in Int /\ c \in Int
  OBVIOUS
<1> DEFINE a == Cardinality(Orphans)
           a1 == Cardinality(Orphans')
           b == Cardinality(Existing)
           b1 == Cardinality(Existing')
           k == KeyUnknown
           k1 == KeyUnknown'
           w == Wanted
           w1 == Wanted'
           i == input.faults
           f == faults
           f1 == faults'
<1>8. /\ a \in Int /\ a1 \in Int /\ b \in Int /\ b1 \in Int /\ k \in Int
      /\ k1 \in Int /\ w \in Int /\ w1 \in Int /\ i \in Int /\ f \in Int /\ f1 \in Int
  BY <1>2, <1>3, <1>4, <1>5
<1>9. /\ a1 <= a + o /\ b1 <= b + c /\ k1 <= k + dk /\ f1 <= f - df
      /\ w + dw <= w1 /\ a + b + k <= i - f + w
  BY <1>2, <1>3, <1>6
<1> HIDE DEF a, a1, b, b1, k, k1, w, w1, i, f, f1
<1>10. a1 + b1 + k1 <= i - f1 + w1
  BY <1>7, <1>8, <1>9, Sums
<1> QED
  BY <1>10 DEF LeftInv, a1, b1, k1, w1, i, f1

LEMMA Units ==
  /\ KeyUnknown \in {0, 1} /\ KeyUnknown' \in {0, 1}
  /\ Wanted \in {0, 1} /\ Wanted' \in {0, 1}
BY DEF KeyUnknown, Wanted

\* A step without a cost: nothing new, and nothing that was wanted goes.
LEMMA LeftFree ==
  ASSUME LeftInv, CountInv, CountInv', input' = input,
         Orphans' \subseteq Orphans, Existing' \subseteq Existing,
         KeyUnknown' <= KeyUnknown, faults' <= faults, Wanted <= Wanted'
  PROVE  LeftInv'
<1> DEFINE o == 0
           c == 0
           d == 0
<1>1. /\ KeyUnknown \in Int /\ KeyUnknown' \in Int /\ Wanted \in Int /\ Wanted' \in Int
      /\ faults \in Int /\ faults' \in Int
  BY Units DEF CountInv
<1>2. /\ o \in {0, 1} /\ c \in {-1, 0, 1} /\ d \in Int /\ c = 0 /\ o = 0
      /\ o + c + d <= d + d
  OBVIOUS
<1>3. KeyUnknown' <= KeyUnknown + d
  BY <1>1
<1>4. faults' <= faults - d
  BY <1>1
<1>5. Wanted + d <= Wanted'
  BY <1>1
<1> HIDE DEF o, c, d
<1> QED
  BY <1>2, <1>3, <1>4, <1>5, Balance

\* A step that costs a fault may leave one orphan or lose what was wanted, or
\* create an AIBOM or leave the key unknown: one of them.
LEMMA LeftFault ==
  ASSUME LeftInv, CountInv, CountInv', input' = input, faults' = faults - 1,
         NEW x,
         \/ /\ Orphans' \subseteq Orphans \cup {x} /\ Existing' \subseteq Existing
            /\ KeyUnknown' <= KeyUnknown /\ Wanted <= Wanted'
         \/ /\ Orphans' \subseteq Orphans /\ Existing' \subseteq Existing \cup {x}
            /\ KeyUnknown' <= KeyUnknown /\ Wanted <= Wanted'
         \/ /\ Orphans' \subseteq Orphans /\ Existing' \subseteq Existing
            /\ KeyUnknown' <= KeyUnknown
         \/ /\ Orphans' \subseteq Orphans /\ Existing' \subseteq Existing
            /\ Wanted <= Wanted'
  PROVE  LeftInv'
<1> DEFINE zero == 0
           one == 1
           less == -1
<1>1. /\ KeyUnknown \in Int /\ KeyUnknown' \in Int /\ Wanted \in Int /\ Wanted' \in Int
      /\ faults \in Int /\ faults' \in Int
      /\ KeyUnknown' <= KeyUnknown + 1 /\ Wanted - 1 <= Wanted'
  BY Units DEF CountInv
<1>2. /\ zero \in {0, 1} /\ one \in {0, 1} /\ zero \in {-1, 0, 1} /\ one \in {-1, 0, 1}
      /\ zero \in Int /\ one \in Int /\ less \in Int /\ zero = 0 /\ one = 1
      /\ one + zero + zero <= one + zero /\ zero + one + zero <= one + zero
      /\ zero + zero + zero <= one + less /\ zero + zero + one <= one + zero
  OBVIOUS
<1>3. /\ KeyUnknown' <= KeyUnknown => KeyUnknown' <= KeyUnknown + zero
      /\ KeyUnknown' <= KeyUnknown + one
  BY <1>1
<1>4. /\ faults' <= faults - one
  BY <1>1
<1>5. /\ Wanted <= Wanted' => Wanted + zero <= Wanted'
      /\ Wanted + less <= Wanted'
  BY <1>1
<1> HIDE DEF zero, one, less
<1>6. CASE /\ Orphans' \subseteq Orphans \cup {x} /\ Existing' \subseteq Existing
           /\ KeyUnknown' <= KeyUnknown /\ Wanted <= Wanted'
  BY <1>2, <1>3, <1>4, <1>5, <1>6, Balance
<1>7. CASE /\ Orphans' \subseteq Orphans /\ Existing' \subseteq Existing \cup {x}
           /\ KeyUnknown' <= KeyUnknown /\ Wanted <= Wanted'
  BY <1>2, <1>3, <1>4, <1>5, <1>7, Balance
<1>8. CASE /\ Orphans' \subseteq Orphans /\ Existing' \subseteq Existing
           /\ KeyUnknown' <= KeyUnknown
  BY <1>2, <1>3, <1>4, <1>5, <1>8, Balance
<1>9. CASE /\ Orphans' \subseteq Orphans /\ Existing' \subseteq Existing
           /\ Wanted <= Wanted'
  BY <1>2, <1>3, <1>4, <1>5, <1>9, Balance
<1> QED
  BY <1>6, <1>7, <1>8, <1>9

\* An AIBOM that is created is wanted, unless its process fails.
LEMMA LeftWanted ==
  ASSUME LeftInv, CountInv, CountInv', input' = input, faults' = faults, NEW x,
         Orphans' \subseteq Orphans, Existing' \subseteq Existing \cup {x},
         KeyUnknown' <= KeyUnknown, Wanted = 0, Wanted' = 1
  PROVE  LeftInv'
<1> DEFINE zero == 0
           one == 1
<1>1. /\ KeyUnknown \in Int /\ KeyUnknown' \in Int /\ faults \in Int
  BY Units DEF CountInv
<1>2. /\ zero \in {0, 1} /\ one \in {-1, 0, 1} /\ zero \in Int /\ one \in Int
      /\ zero = 0 /\ one = 1 /\ zero + one + zero <= zero + one
  OBVIOUS
<1>3. KeyUnknown' <= KeyUnknown + zero /\ faults' <= faults - zero
      /\ Wanted + one <= Wanted'
  BY <1>1
<1> HIDE DEF zero, one
<1> QED
  BY <1>2, <1>3, Balance

\* An AIBOM that is deleted may have been wanted, or leave an orphan.
LEMMA LeftDeleted ==
  ASSUME LeftInv, CountInv, CountInv', input' = input, faults' = faults, NEW x,
         x \in Existing, Existing' \subseteq Existing \ {x},
         KeyUnknown' <= KeyUnknown,
         \/ Orphans' \subseteq Orphans
         \/ Orphans' \subseteq Orphans \cup {x} /\ Wanted <= Wanted'
  PROVE  LeftInv'
<1> DEFINE zero == 0
           one == 1
           less == -1
<1>1. /\ KeyUnknown \in Int /\ KeyUnknown' \in Int /\ Wanted \in Int /\ Wanted' \in Int
      /\ faults \in Int /\ Wanted - 1 <= Wanted'
  BY Units DEF CountInv
<1>2. /\ zero \in {0, 1} /\ one \in {0, 1} /\ less \in {-1, 0, 1}
      /\ zero \in Int /\ one \in Int /\ less \in Int
      /\ zero = 0 /\ one = 1 /\ less = -1
      /\ zero + less + zero <= zero + less /\ one + less + zero <= zero + zero
  OBVIOUS
<1>3. /\ KeyUnknown' <= KeyUnknown + zero /\ faults' <= faults - zero
      /\ Wanted + less <= Wanted'
      /\ Wanted <= Wanted' => Wanted + zero <= Wanted'
  BY <1>1
<1> HIDE DEF zero, one, less
<1>4. CASE Orphans' \subseteq Orphans
  BY <1>2, <1>3, <1>4, Balance
<1>5. CASE Orphans' \subseteq Orphans \cup {x} /\ Wanted <= Wanted'
  BY <1>2, <1>3, <1>5, Balance
<1> QED
  BY <1>4, <1>5

\* The leftovers are no more when the objects and what refers to them are the
\* same.
LEMMA SameObjects ==
  ASSUME UNCHANGED <<series, owner, aiboms, anchor>>,
         \/ ref' = ref /\ job'.attempts = job.attempts
         \/ ref = None /\ ref' = None
         \/ /\ ref' = None /\ aiboms[job.attempts] # None
            /\ aiboms[job.attempts].ref # None
  PROVE  /\ Orphans' \subseteq Orphans /\ Existing' \subseteq Existing
         /\ (pc' = "create" /\ sig' # None => pc = "create" /\ sig # None)
              => KeyUnknown' <= KeyUnknown
<1>1. \A n \in Attempts : Referred(n) => Referred(n)'
  BY DEF Referred
<1>2. Orphans' \subseteq Orphans
  BY <1>1 DEF Orphans, Attempts
<1>3. Existing' = Existing
  BY DEF Existing, Attempts
<1>4. (pc' = "create" /\ sig' # None => pc = "create" /\ sig # None)
              => KeyUnknown' <= KeyUnknown
  BY <1>3 DEF KeyUnknown
<1> QED
  BY <1>2, <1>3, <1>4

\* While a process runs, and has not created its AIBOM, none is wanted.
LEMMA NoneWanted ==
  ASSUME RefInv, pc \notin {"idle", "owner"} PROVE Wanted = 0
BY DEF RefInv, AttemptsLeft, Wanted

LEMMA LeftCollect ==
  ASSUME RefInv, CountInv, CountInv', LeftInv, Collect PROVE LeftInv'
<1>1. /\ pc \in Collecting /\ pc' \in Collecting /\ job' = job
      /\ UNCHANGED <<series, owner, aiboms, anchor, ref, sig, input>>
      /\ faults' = faults \/ Fault
  <2>1. CASE Detect \/ SkipPod \/ BeginPod
    BY <2>1 DEF Detect, SkipPod, BeginPod, rest, world, store, draft, Collecting
  <2>2. CASE EndRound \/ EndLoop \/ BeginSeries \/ Fit
    BY <2>2 DEF EndRound, NextRound, NextPod, EndLoop, BeginSeries, Fit, rest,
                world, store, draft, Collecting
  <2>3. CASE \E m \in Usage \cup Serving : Query(m) \/ QuerySeries(m)
    BY <2>3 DEF Query, QuerySeries, rest, world, store, draft, Collecting
  <2> QED
    BY <2>1, <2>2, <2>3 DEF Collect
<1>2. faults' <= faults /\ input' = input
  BY <1>1 DEF Fault, CountInv
<1>3. Wanted <= Wanted'
  <2>1. Wanted = 0 /\ Wanted' = 0
    BY <1>1 DEF RefInv, AttemptsLeft, Wanted, Collecting
  <2> QED
    BY <2>1
<1>4. /\ Orphans' \subseteq Orphans /\ Existing' \subseteq Existing
      /\ KeyUnknown' <= KeyUnknown
  BY <1>1, SameObjects DEF Collecting
<1> QED
  BY <1>2, <1>3, <1>4, LeftFree

\* The process loses its reference when it ends.
LEMMA ExitOrphans ==
  ASSUME RefInv, pc # "idle", NEW code \in {0, 1}, Exit(code),
         UNCHANGED <<series, owner, aiboms>>
  PROVE  /\ Orphans' \subseteq Orphans \cup {job.attempts}
         /\ Existing' \subseteq Existing
         /\ ref = None => Orphans' \subseteq Orphans
         /\ anchor' = anchor => KeyUnknown' <= KeyUnknown
         /\ pc' = "idle" /\ job'.attempts = job.attempts
         /\ code = 1 => Wanted' = 0
<1>1. /\ pc' = "idle" /\ ref' = None /\ job'.attempts = job.attempts
  BY Exits DEF RefInv
<1>2. Orphans' \subseteq Orphans \cup {job.attempts}
  <2>1. \A n \in Attempts : Referred(n) => n = job.attempts \/ Referred(n)'
    BY DEF Referred
  <2> QED
    BY <2>1 DEF Orphans, Attempts
<1>3. ref = None => Orphans' \subseteq Orphans
  <2>1. ref = None => \A n \in Attempts : Referred(n) => Referred(n)'
    BY DEF Referred
  <2> QED
    BY <2>1 DEF Orphans, Attempts
<1>4. Existing' = Existing
  BY DEF Existing, Attempts
<1>5. anchor' = anchor => KeyUnknown' <= KeyUnknown
  BY <1>1, <1>4 DEF KeyUnknown
<1>6. code = 1 => Wanted' = 0
  <2>1. PICK P : job \in JobShape(P)
    BY DEF RefInv, Shape, JobShape
  <2>2. code = 1 => job'.state \in {"failed", "active"}
    BY <2>1 DEF Exit, RefInv, AttemptsLeft, JobShape
  <2> QED
    BY <1>1, <2>2 DEF Wanted
<1> QED
  BY <1>1, <1>2, <1>3, <1>4, <1>5, <1>6

LEMMA LeftCrash ==
  ASSUME RefInv, CountInv, CountInv', LeftInv, Crash PROVE LeftInv'
<1>1. /\ pc # "idle" /\ Exit(1) /\ UNCHANGED <<series, owner, aiboms, anchor, input>>
      /\ faults' = faults - 1
  BY DEF Crash, Fault, store, world
<1>2. /\ Orphans' \subseteq Orphans \cup {job.attempts}
      /\ Existing' \subseteq Existing /\ KeyUnknown' <= KeyUnknown /\ Wanted' = 0
      /\ job'.attempts = job.attempts
  BY <1>1, ExitOrphans
<1>3. CASE pc = "owner"
  <2>1. aiboms[job.attempts] # None /\ aiboms[job.attempts].ref # None /\ ref' = None
    BY <1>1, <1>3 DEF CountInv, RefInv, DraftStored, Exit
  <2>2. Orphans' \subseteq Orphans
    BY <1>1, <2>1, SameObjects
  <2> QED
    BY <1>1, <1>2, <2>2, LeftFault
<1>4. CASE pc # "owner"
  <2>1. Wanted = 0 /\ Wanted <= Wanted'
    BY <1>1, <1>2, <1>4, NoneWanted
  <2> QED
    BY <1>1, <1>2, <2>1, LeftFault
<1> QED
  BY <1>3, <1>4

LEMMA LeftCompile ==
  ASSUME RefInv, CountInv, CountInv', LeftInv, Compile PROVE LeftInv'
<1>1. /\ pc = "compile" /\ UNCHANGED <<series, owner, aiboms, anchor, input, faults>>
      /\ ref = None /\ Wanted = 0 /\ faults' <= faults
  BY NoneWanted DEF Compile, store, world, RefInv, DraftStored, Delivering, CountInv
<1>2. CASE Exit(1)
  <2>1. /\ Orphans' \subseteq Orphans /\ Existing' \subseteq Existing
        /\ KeyUnknown' <= KeyUnknown /\ Wanted' = 0
    BY <1>1, <1>2, ExitOrphans
  <2>2. Wanted <= Wanted'
    BY <1>1, <2>1
  <2> QED
    BY <1>1, <2>1, <2>2, LeftFree
<1>3. CASE pc' = "publish" /\ UNCHANGED <<job, ref, sig>>
  <2>1. /\ Orphans' \subseteq Orphans /\ Existing' \subseteq Existing
        /\ KeyUnknown' <= KeyUnknown
    BY <1>1, <1>3, SameObjects
  <2>2. Wanted <= Wanted'
    BY <1>1, <1>3 DEF RefInv, AttemptsLeft, Wanted
  <2> QED
    BY <1>1, <2>1, <2>2, LeftFree
<1> QED
  BY <1>2, <1>3 DEF Compile

LEMMA LeftPublish ==
  ASSUME NoneIsNoObject, RefInv, CountInv, CountInv', LeftInv, Publish PROVE LeftInv'
<1>1. /\ pc = "publish" /\ pc' = "sign" /\ ref = None
      /\ UNCHANGED <<job, owner, aiboms, anchor, input>>
      /\ \/ Stored /\ ref' = Reference /\ faults' = faults
         \/ (Stored \/ UNCHANGED series) /\ ref' = ref /\ faults' = faults - 1
  BY DEF Publish, Answered, Failed, Fault, world, RefInv, DraftStored, Delivering
<1>2. \A n \in Attempts : n # job.attempts => series'[n] = series[n]
  BY <1>1 DEF Stored, RefInv, Shape
<1>3. Existing' = Existing /\ KeyUnknown' <= KeyUnknown
  <2>1. Existing' = Existing
    BY <1>1 DEF Existing, Attempts
  <2> QED
    BY <1>1, <2>1 DEF KeyUnknown
<1>4. Wanted = 0 /\ Wanted' = 0
  BY <1>1 DEF RefInv, AttemptsLeft, Wanted
<1>5. Wanted <= Wanted'
  BY <1>4
<1>6. Orphans' \subseteq Orphans \cup {job.attempts}
  <2>1. \A n \in Attempts : Referred(n) => Referred(n)'
    BY <1>1 DEF Referred
  <2> QED
    BY <1>1, <1>2, <2>1 DEF Orphans, Attempts
<1>7. CASE Stored /\ ref' = Reference /\ faults' = faults
  <2>1. ref' # None
    BY <1>7 DEF Reference, NoneIsNoObject
  <2>2. job.attempts \notin Orphans'
    BY <1>1, <2>1 DEF Orphans, Referred
  <2>3. Orphans' \subseteq Orphans /\ faults' <= faults
    BY <1>6, <1>7, <2>2 DEF CountInv
  <2> QED
    BY <1>1, <1>3, <1>5, <2>3, LeftFree
<1>8. CASE faults' = faults - 1
  BY <1>1, <1>3, <1>5, <1>6, <1>8, LeftFault
<1> QED
  BY <1>1, <1>7, <1>8

LEMMA LeftSign ==
  ASSUME RefInv, CountInv, CountInv', LeftInv, NoSeries \/ sign_aibom \/ PublishKey
  PROVE  LeftInv'
<1>1. /\ pc \in {"publish", "sign", "anchor"} /\ pc' \in {"sign", "anchor", "create"}
      /\ UNCHANGED <<job, ref, series, owner, aiboms, input>>
  BY DEF NoSeries, sign_aibom, PublishKey, rest, draft, store, world
<1>2. Wanted <= Wanted'
  BY <1>1 DEF RefInv, AttemptsLeft, Wanted
<1>3. CASE NoSeries \/ sign_aibom
  <2>1. /\ anchor' = anchor
        /\ faults' = faults \/ Fault
        /\ pc' = "create" => sig' = None
    <3>1. pc \in {"publish", "sign"} => sig = None
      BY DEF RefInv, DraftStored, Delivering
    <3>2. CASE NoSeries
      BY <3>2 DEF NoSeries, rest, store
    <3>3. CASE sign_aibom
      BY <3>1, <3>3 DEF sign_aibom, store
    <3> QED
      BY <1>3, <3>2, <3>3
  <2>2. /\ Orphans' \subseteq Orphans /\ Existing' \subseteq Existing
        /\ KeyUnknown' <= KeyUnknown
    BY <1>1, <2>1, SameObjects
  <2>3. faults' <= faults
    BY <2>1 DEF Fault, CountInv
  <2> QED
    BY <1>1, <1>2, <2>2, <2>3, LeftFree
<1>4. CASE PublishKey
  <2>1. \/ anchor' = "published" /\ faults' = faults
        \/ faults' = faults - 1
    BY <1>4 DEF PublishKey, Answered, Failed, Fault
  <2>2. Orphans' \subseteq Orphans /\ Existing' \subseteq Existing
    BY <1>1 DEF Orphans, Existing, Referred, Attempts
  <2>3. CASE anchor' = "published" /\ faults' = faults
    <3>1. KeyUnknown' <= KeyUnknown /\ faults' <= faults
      BY <2>3 DEF KeyUnknown, CountInv
    <3> QED
      BY <1>1, <1>2, <2>2, <3>1, LeftFree
  <2>4. CASE faults' = faults - 1
    BY <1>1, <1>2, <2>2, <2>4, LeftFault
  <2> QED
    BY <2>1, <2>3, <2>4
<1> QED
  BY <1>3, <1>4

LEMMA LeftCreate ==
  ASSUME NoneIsNoObject, RefInv, CountInv, CountInv', LeftInv, CreateAibom
  PROVE  LeftInv'
<1> DEFINE a == job.attempts
           new == [data |-> aibom, ref |-> ref, sig |-> sig]
<1>1. /\ pc = "create" /\ UNCHANGED <<series, owner, anchor, input>>
      /\ \/ /\ Created /\ faults' = faults
            /\ \/ ref = None /\ Exit(0)
               \/ ref # None /\ pc' = "owner" /\ UNCHANGED <<job, draft>>
         \/ Created /\ Exit(1) /\ faults' = faults - 1
         \/ UNCHANGED aiboms /\ Exit(1) /\ faults' = faults - 1
  BY DEF CreateAibom, Answered, Failed, Fault, world
<1>2. Wanted = 0 /\ a \in Attempts /\ aiboms[a] = None
  BY <1>1, NoneWanted, Running DEF RefInv, Unwritten
<1>3. CASE UNCHANGED aiboms /\ Exit(1) /\ faults' = faults - 1
  <2>1. /\ Orphans' \subseteq Orphans \cup {a} /\ Existing' \subseteq Existing
        /\ KeyUnknown' <= KeyUnknown /\ Wanted' = 0
    BY <1>1, <1>3, ExitOrphans
  <2>2. Wanted <= Wanted'
    BY <1>2, <2>1
  <2> QED
    BY <1>1, <1>3, <2>1, <2>2, LeftFault
<1>4. CASE Created
  <2>1. /\ aiboms'[a] = new /\ new # None /\ new.ref = ref /\ new.sig = sig
        /\ \A n \in Attempts : n # a => aiboms'[n] = aiboms[n]
    BY <1>2, <1>4 DEF Created, RefInv, Shape, NoneIsNoObject
  <2> HIDE DEF new
  <2>2. /\ job'.attempts = a
        /\ \/ Exit(0) /\ ref = None
           \/ Exit(1)
           \/ ref # None /\ pc' = "owner" /\ UNCHANGED <<job, draft>>
        /\ pc' \in {"idle", "owner"}
    BY <1>1, Exits DEF RefInv, Exit
  <2>3. Orphans' \subseteq Orphans
    <3>1. \A n \in Attempts : Referred(n) => Referred(n)'
      BY <1>2, <2>1, <2>2 DEF Referred, draft
    <3> QED
      BY <1>1, <3>1 DEF Orphans, Attempts
  <2>4. Existing' \subseteq Existing \cup {a}
    BY <2>1 DEF Existing, Attempts
  <2>5. KeyUnknown' <= KeyUnknown
    <3>1. ASSUME NEW n \in Existing', aiboms'[n].sig # None, anchor = "absent"
          PROVE  KeyUnknown = 1
      <4>1. CASE n = a
        BY <1>1, <2>1, <3>1, <4>1 DEF KeyUnknown
      <4>2. CASE n # a
        <5>1. n \in Attempts /\ aiboms'[n] # None
          BY <3>1 DEF Existing, Attempts
        <5>2. n \in Existing /\ aiboms[n].sig # None
          BY <2>1, <3>1, <4>2, <5>1 DEF Existing
        <5> QED
          BY <3>1, <5>2 DEF KeyUnknown
      <4> QED
        BY <4>1, <4>2
    <3>2. pc' # "create" /\ anchor' = anchor
      BY <1>1, <2>2
    <3> QED
      BY <3>1, <3>2, Units DEF KeyUnknown
  <2>6. CASE faults' = faults - 1
    <3>1. Wanted <= Wanted'
      BY <1>2, Units
    <3> QED
      BY <1>1, <2>3, <2>4, <2>5, <2>6, <3>1, LeftFault
  <2>7. CASE faults' = faults
    <3>1. CASE ref = None /\ Exit(0)
      <4>1. PICK P : job \in JobShape(P)
        BY DEF RefInv, Shape, JobShape
      <4>2. job'.state = "succeeded"
        BY <3>1, <4>1 DEF Exit, JobShape
      <4>3. a \in Existing'
        BY <1>2, <2>1 DEF Existing, Attempts
      <4>4. Wanted' = 1
        BY <2>1, <2>2, <3>1, <4>2, <4>3 DEF Wanted
      <4> QED
        BY <1>1, <1>2, <2>3, <2>4, <2>5, <2>7, <4>4, LeftWanted
    <3>2. CASE pc' = "owner"
      <4>1. Wanted' = 1
        BY <3>2 DEF Wanted
      <4> QED
        BY <1>1, <1>2, <2>3, <2>4, <2>5, <2>7, <4>1, LeftWanted
    <3>3. faults - 1 # faults
      BY DEF CountInv
    <3> QED
      BY <1>1, <2>7, <3>1, <3>2, <3>3
  <2> QED
    BY <1>1, <2>6, <2>7
<1> QED
  BY <1>1, <1>3, <1>4

LEMMA LeftOwner ==
  ASSUME RefInv, CountInv, CountInv', LeftInv, SetOwner PROVE LeftInv'
<1> DEFINE a == job.attempts
<1>1. /\ pc = "owner" /\ Exit(0) /\ UNCHANGED <<series, aiboms, anchor, input>>
      /\ \/ Owned /\ faults' = faults
         \/ (Owned \/ UNCHANGED owner) /\ faults' = faults - 1
  BY DEF SetOwner, Answered, Failed, Fault, world
<1>2. /\ a \in Attempts /\ ref # None /\ ref.name = a
      /\ aiboms[a] # None /\ aiboms[a].ref # None
  BY <1>1, Running DEF RefInv, DraftStored, CountInv
<1>3. /\ pc' = "idle" /\ ref' = None /\ job'.attempts = a
  BY <1>1, Exits DEF RefInv
<1>4. /\ \A n \in Attempts : owner'[n] # owner[n] => n = a
      /\ Owned => owner'[a] = a
  BY <1>1, <1>2 DEF Owned, RefInv, Shape
<1>5. Existing' = Existing /\ KeyUnknown' <= KeyUnknown
  <2>1. Existing' = Existing
    BY <1>1 DEF Existing, Attempts
  <2> QED
    BY <1>1, <1>3, <2>1 DEF KeyUnknown
<1>6. Orphans' \subseteq Orphans
  <2>1. \A n \in Attempts : Referred(n) => Referred(n)'
    BY <1>1, <1>2, <1>3 DEF Referred
  <2>2. \A n \in Attempts : n = a => Referred(n)'
    BY <1>1, <1>2 DEF Referred
  <2> QED
    BY <1>1, <1>4, <2>1, <2>2 DEF Orphans, Attempts
<1>7. CASE faults' = faults - 1
  BY <1>1, <1>5, <1>6, <1>7, LeftFault
<1>8. CASE Owned /\ faults' = faults
  <2>1. PICK P : job \in JobShape(P)
    BY DEF RefInv, Shape, JobShape
  <2>2. job'.state = "succeeded"
    BY <1>1, <2>1 DEF Exit, JobShape
  <2>3. owner'[a] # 0
    BY <1>2, <1>4, <1>8, Backoff DEF Attempts
  <2>4. Wanted' = 1
    BY <1>1, <1>2, <1>3, <2>2, <2>3 DEF Wanted, Existing
  <2>5. Wanted <= Wanted' /\ faults' <= faults
    BY <1>8, <2>4, Units DEF CountInv
  <2> QED
    BY <1>1, <1>5, <1>6, <2>5, LeftFree
<1> QED
  BY <1>1, <1>7, <1>8

LEMMA LeftDelete ==
  ASSUME RefInv, CountInv, CountInv', LeftInv,
         NEW d \in Attempts, DeleteAibom(d)
  PROVE  LeftInv'
<1>1. /\ Ended /\ aiboms[d] # None /\ aiboms' = [aiboms EXCEPT ![d] = None]
      /\ UNCHANGED <<job, pc, draft, series, owner, anchor, input>> /\ faults' = faults
  BY DEF DeleteAibom, world
<1>2. /\ aiboms'[d] = None
      /\ \A n \in Attempts : n # d => aiboms'[n] = aiboms[n]
  BY <1>1 DEF RefInv, Shape
<1>3. pc = "idle" /\ ref = None /\ ref' = None /\ pc' = "idle"
  BY <1>1 DEF RefInv, AttemptsLeft, DraftStored, Delivering, Ended, draft
<1>4. d \in Existing /\ Existing' \subseteq Existing \ {d}
  BY <1>1, <1>2 DEF Existing, Attempts
<1>5. KeyUnknown' <= KeyUnknown
  <2>1. ASSUME NEW n \in Existing', aiboms'[n].sig # None
        PROVE  n \in Existing /\ aiboms[n].sig # None
    BY <1>2, <1>4, <2>1 DEF Attempts, Existing
  <2> QED
    BY <1>1, <1>3, <2>1 DEF KeyUnknown
<1>6. Orphans' \subseteq Orphans \cup {d}
  <2>1. \A n \in Attempts : n # d /\ Referred(n) => Referred(n)'
    BY <1>1, <1>2, <1>3 DEF Referred
  <2> QED
    BY <1>1, <2>1 DEF Orphans, Attempts
<1>7. CASE aiboms[d].ref = None \/ owner[d] # 0
  <2>1. d \in Orphans' => d \in Orphans
    BY <1>1, <1>3, <1>7 DEF Orphans, Referred
  <2> QED
    BY <1>1, <1>4, <1>5, <1>6, <2>1, LeftDeleted
<1>8. CASE aiboms[d].ref # None /\ owner[d] = 0
  <2>1. d = job.attempts => Wanted = 0
    BY <1>3, <1>8 DEF Wanted
  <2>2. d # job.attempts /\ Wanted = 1 => Wanted' = 1
    <3>1. d # job.attempts /\ Wanted = 1 =>
            /\ job.state = "succeeded" /\ job.attempts \in Existing
            /\ aiboms[job.attempts].ref = None \/ owner[job.attempts] # 0
      BY <1>3 DEF Wanted
    <3>2. d # job.attempts => aiboms'[job.attempts] = aiboms[job.attempts]
      BY <1>1 DEF RefInv, Shape
    <3>3. d # job.attempts /\ Wanted = 1 => job.attempts \in Existing'
      BY <3>1, <3>2 DEF Existing, Attempts
    <3> QED
      BY <1>1, <3>1, <3>2, <3>3 DEF Wanted
  <2>3. Wanted <= Wanted'
    BY <2>1, <2>2, Units
  <2> QED
    BY <1>1, <1>4, <1>5, <1>6, <2>3, LeftDeleted
<1> QED
  BY <1>7, <1>8

LEMMA LeftCollectSeries ==
  ASSUME RefInv, CountInv, CountInv', LeftInv,
         NEW n \in Attempts, CollectSeries(n)
  PROVE  LeftInv'
<1>1. /\ series' = [series EXCEPT ![n] = NoDoc]
      /\ UNCHANGED <<job, pc, draft, owner, aiboms, anchor, input>> /\ faults' = faults
  BY DEF CollectSeries, world
<1>2. \A a \in Attempts : series'[a] # NoDoc => series[a] # NoDoc
  BY <1>1 DEF RefInv, Shape
<1>3. Orphans' \subseteq Orphans
  BY <1>1, <1>2 DEF Orphans, Referred, Attempts, draft
<1>4. Existing' = Existing
  BY <1>1 DEF Existing, Attempts
<1>5. Wanted <= Wanted' /\ KeyUnknown' <= KeyUnknown /\ faults' <= faults
  BY <1>1, <1>4 DEF Wanted, KeyUnknown, draft, CountInv
<1> QED
  BY <1>1, <1>3, <1>4, <1>5, LeftFree

LEMMA LeftNext ==
  ASSUME NoneIsNoObject, RefInv, CountInv, CountInv', LeftInv, [Next]_vars
  PROVE  LeftInv'
<1>1. CASE \/ Workload \/ WorkloadEnds \/ StartAttempt \/ UNCHANGED vars
           \/ \E p \in Pods, m \in Usage \cup Serving : Ingest(p, m)
  <2>1. /\ UNCHANGED <<series, owner, aiboms, anchor, input, ref, sig>>
        /\ faults' = faults \/ Fault
        /\ pc' = pc \/ pc' = "load"
    BY <1>1, DiscoveryFaults
    DEF Workload, WorkloadEnds, StartAttempt, Ingest, vars, world, store, draft
  <2>2. \/ job' = job /\ pc' = pc
        \/ /\ pc = "idle" /\ pc' # "owner" /\ ref = None
           /\ job.state \in {"waiting", "active"} /\ job'.state # "succeeded"
    <3>1. PICK P : job \in JobShape(P)
      BY DEF RefInv, Shape, JobShape
    <3>2. CASE WorkloadEnds
      BY <3>1, <3>2 DEF WorkloadEnds, RefInv, AttemptsLeft, DraftStored, Delivering,
                       JobShape
    <3>3. CASE StartAttempt
      BY <3>1, <3>3 DEF StartAttempt, RefInv, DraftStored, Delivering, JobShape
    <3> QED
      BY <1>1, <3>2, <3>3 DEF Workload, Ingest, vars
  <2>3. Wanted <= Wanted'
    <3>1. Existing' = Existing
      BY <2>1 DEF Existing, Attempts
    <3>2. Wanted = Wanted'
      BY <2>1, <2>2, <3>1 DEF Wanted
    <3> QED
      BY <3>2, Units
  <2>4. /\ Orphans' \subseteq Orphans /\ Existing' \subseteq Existing
        /\ KeyUnknown' <= KeyUnknown
    BY <2>1, <2>2, SameObjects
  <2>5. faults' <= faults
    BY <2>1 DEF Fault, CountInv
  <2> QED
    BY <2>1, <2>3, <2>4, <2>5, LeftFree
<1>2. CASE Deliver
  BY <1>2, LeftCompile, LeftPublish, LeftSign, LeftCreate, LeftOwner DEF Deliver
<1>3. CASE \E a \in Attempts : DeleteAibom(a) \/ CollectSeries(a)
  BY <1>3, LeftDelete, LeftCollectSeries
<1> QED
  BY <1>1, <1>2, <1>3, LeftCollect, LeftCrash DEF Next, RunStep

LEMMA LeftInit == Init => LeftInv
<1> SUFFICES ASSUME Init PROVE LeftInv
  OBVIOUS
<1>1. Orphans = {} /\ Existing = {}
  BY DEF Init, Orphans, Existing
<1>2. Cardinality(Orphans) = 0 /\ Cardinality(Existing) = 0
  BY <1>1, FS_EmptySet
<1>3. KeyUnknown = 0 /\ Wanted \in {0, 1}
  BY <1>1, Units DEF Init, KeyUnknown
<1>4. input.faults \in Nat /\ faults = input.faults
  BY PostprocessAssumption DEF Init, InputOK
<1> QED
  BY <1>2, <1>3, <1>4 DEF LeftInv

LEMMA MaxOfTwo ==
  ASSUME NEW c \in Nat PROVE Max({c - 1, 0}) = IF c >= 1 THEN c - 1 ELSE 0
<1> DEFINE m == IF c >= 1 THEN c - 1 ELSE 0
           IsMax(z) == z \in {c - 1, 0} /\ \A y \in {c - 1, 0} : z >= y
<1>1. IsMax(m) /\ \A z : IsMax(z) => z = m
  OBVIOUS
<1>2. Max({c - 1, 0}) = CHOOSE z : IsMax(z)
  BY DEF Max
<1> HIDE DEF m, IsMax
<1>3. Max({c - 1, 0}) = m
  BY <1>1, <1>2
<1> QED
  BY <1>3 DEF m

\* The balance is what the property says, in its own terms.
LEMMA Leftovers ==
  ASSUME RefInv, CountInv, LeftInv PROVE LeftoversCostFaults
<1> DEFINE referred(n) == \/ ref # None /\ ref.name = n
                          \/ \E a \in Attempts : /\ aiboms[a] # None
                               /\ aiboms[a].ref # None /\ aiboms[a].ref.name = n
           created == {a \in Attempts : aiboms[a] # None}
           orphans == {n \in Attempts : series[n] # NoDoc /\ owner[n] = 0 /\ ~referred(n)}
           unknown == {k \in {"key"} : /\ anchor = "absent"
                                       /\ \E a \in created : aiboms[a].sig # None}
           more == Max({Cardinality(created) - 1, 0})
<1>1. \A n \in Attempts : Referred(n) <=> referred(n)
  BY DEF Referred, RefInv, DraftStored, AibomStored
<1>2. orphans = Orphans /\ created = Existing
  BY <1>1 DEF Orphans, Existing
<1>3. Cardinality(unknown) \in Int /\ Cardinality(unknown) <= KeyUnknown
  <2>1. Cardinality({"key"}) = 1 /\ Cardinality({}) = 0
    BY FS_EmptySet, FS_Singleton
  <2>2. unknown = {} \/ unknown = {"key"}
    OBVIOUS
  <2>3. unknown = {"key"} => KeyUnknown = 1
    BY DEF KeyUnknown, Existing
  <2> HIDE DEF unknown
  <2> QED
    BY <2>1, <2>2, <2>3, Units
<1>4. /\ Orphans \in SUBSET Attempts /\ Existing \in SUBSET Attempts
  BY DEF Orphans, Existing, Attempts
<1>5. /\ Cardinality(Orphans) \in Nat /\ Cardinality(Existing) \in Nat
      /\ \A x \in Existing : Cardinality(Existing) >= 1
  BY <1>4, Cards
<1>6. Wanted = 1 => Cardinality(Existing) >= 1
  <2>1. pc = "owner" => job.attempts \in Existing
    BY Running DEF RefInv, CountInv, DraftStored, Existing
  <2>2. Wanted = 1 => job.attempts \in Existing
    BY <2>1 DEF Wanted
  <2> QED
    BY <1>5, <2>2
<1>7. more \in Int /\ more <= Cardinality(Existing) - Wanted
  <2> DEFINE c == Cardinality(Existing)
  <2> HIDE DEF c
  <2>1. c \in Nat /\ more = Max({c - 1, 0})
    BY <1>2, <1>5 DEF c
  <2>2. Max({c - 1, 0}) = IF c >= 1 THEN c - 1 ELSE 0
    BY <2>1, MaxOfTwo
  <2>3. Wanted \in {0, 1} /\ (Wanted = 1 => c >= 1)
    BY <1>6, Units DEF c
  <2> HIDE DEF more
  <2>4. more \in Int /\ more <= c - Wanted
    BY <2>1, <2>2, <2>3
  <2> QED
    BY <2>4 DEF c
<1>8. LeftoversCostFaults <=>
        Cardinality(orphans) + more + Cardinality(unknown) <= input.faults - faults
  BY DEF LeftoversCostFaults
<1> HIDE DEF orphans, created, unknown, more
<1> DEFINE o == Cardinality(Orphans)
           c == Cardinality(Existing)
           u == Cardinality(unknown)
           k == KeyUnknown
           w == Wanted
           i == input.faults
           f == faults
<1>9. /\ o \in Int /\ c \in Int /\ u \in Int /\ k \in Int /\ w \in Int /\ i \in Int
      /\ f \in Int /\ u <= k /\ more <= c - w /\ o + c + k <= i - f + w
  BY <1>3, <1>5, <1>7, Units DEF LeftInv, CountInv
<1> HIDE DEF o, c, u, k, w, i, f
<1>10. o + more + u <= i - f
  BY <1>7, <1>9
<1> QED
  BY <1>2, <1>8, <1>10 DEF o, u, i, f

\* Every object too many costs a failed call or process: second AIBOMs, series
\* that nothing refers to or will be collected with, a key not published; for
\* any number of attempts and faults, and whatever is deleted and collected.
THEOREM LeftoversPaid ==
  ASSUME NoneIsNoObject PROVE Spec => []LeftoversCostFaults
<1>1. Init => RefInv /\ CountInv /\ LeftInv
  BY RefInit, CountInit, LeftInit
<1>2. RefInv /\ CountInv /\ LeftInv /\ [Next]_vars => RefInv' /\ CountInv' /\ LeftInv'
  BY RefNext, CountNext, LeftNext, NoneIsNoObject
<1>3. RefInv /\ CountInv /\ LeftInv => LeftoversCostFaults
  BY Leftovers
<1> QED
  BY <1>1, <1>2, <1>3, PTL DEF Spec

=============================================================================
