-------------------------- MODULE RuntimeDetector --------------------------
(***************************************************************************)
(* The runtime detector (scripts/aibom-scripts/runtime_detector.py) in the *)
(* processes of one pod.  Each process has a main thread, which runs the   *)
(* hooks, the at-exit flush and the SIGTERM handler, and the threads of    *)
(* its debounce timers.  They share two locks; all processes share the     *)
(* output file and the flock on the file next to it.                       *)
(*                                                                         *)
(* A dataset is a pair of the process that detected it and a number.  Of   *)
(* the keys of runtime_info, a git key has for its value the working tree  *)
(* it was observed in, and a key taken from argv what argv gives it; {} is *)
(* a key that is not there.                                                *)
(* The keys that hooks set (framework, model_name, ...) are merged like    *)
(* those from argv and have no action of their own.                        *)
(***************************************************************************)
EXTENDS Integers, FiniteSets

CONSTANTS
  Procs,          \* processes, the forked ones included
  Initial,        \* the processes the containers start
  Timers,         \* timer threads per process
  TreeOf,         \* the working tree a process runs in, or 0 for none
  Detached,       \* trees whose HEAD is on no branch
  StatusFails,    \* processes whose `git status` may fail (no git, timeout)
  ArgKeys,        \* keys of runtime_info that come from argv
  Argv,           \* what each process's argv gives them
  Signalled,      \* processes that may get SIGTERM
  Killed,         \* processes that may get SIGKILL
  MaxDetections,  \* bound: datasets a process detects
  SlowHolder      \* whether one may hold the flock beyond the others' timeouts

Threads == {"main"} \cup Timers
Items   == Procs \X (1 .. MaxDetections)
Trees   == {TreeOf[p] : p \in Procs} \ {0}
GitKeys == {"commit", "branch", "dirty"}
Keys    == GitKeys \cup ArgKeys
Values  == Trees \cup UNION {Argv[p][k] : p \in Procs, k \in ArgKeys}

ASSUME DetectorAssumption ==
  /\ Initial \subseteq Procs
  /\ "main" \notin Timers
  /\ TreeOf \in [Procs -> Nat]
  /\ Detached \subseteq Trees
  /\ StatusFails \subseteq Procs
  /\ ArgKeys \cap GitKeys = {}
  /\ Argv \in [Procs -> [ArgKeys -> SUBSET Nat]]
  /\ Signalled \subseteq Procs
  /\ Killed \subseteq Procs
  /\ MaxDetections \in Nat
  /\ SlowHolder \in BOOLEAN

VARIABLES
  life,      \* how far each process is
  pc,        \* each thread's program counter
  loc,       \* each thread's local variables in _flush
  mem,       \* _detected_datasets
  info,      \* _runtime_info
  captured,  \* _git_captured
  armed,     \* _flush_timer is not None
  lock,      \* the holder of _lock
  tlock,     \* the holder of _flush_timer_lock
  flock,     \* processes that have the locked open file
  file       \* the output file

state  == <<mem, info, captured>>
locks  == <<lock, tlock>>
vars   == <<life, pc, loc, state, armed, locks, flock, file>>

-----------------------------------------------------------------------------
Lives == {"none", "running", "exiting", "sigterm",
          "exited", "terminated", "killed"}
Alive == {"running", "exiting", "sigterm"}
Dead  == {"exited", "terminated", "killed"}

\* Where _output_lock is held.
Critical == {"read", "replace", "close"}
PCs == {"off", "run", "record", "notify", "arm", "args", "check", "git",
        "gitLock", "gitUpdate", "copy", "flock", "done"} \cup Critical

Git     == [GitKeys -> SUBSET Trees]
NoGit   == [k \in GitKeys |-> {}]
Info    == [Keys -> SUBSET Values]
NoInfo  == [k \in Keys |-> {}]
Content == [items: SUBSET Items, info: Info]
Empty   == [items |-> {}, info |-> NoInfo]
Local   == [found: Git, copy: Content, existing: Content]
NoLocal == [found |-> NoGit, copy |-> Empty, existing |-> Empty]

\* The variables have their types.
TypeOK ==
  /\ life \in [Procs -> Lives]
  /\ pc \in [Procs -> [Threads -> PCs]]
  /\ loc \in [Procs -> [Threads -> Local]]
  /\ mem \in [Procs -> SUBSET Items]
  /\ info \in [Procs -> Info]
  /\ captured \in [Procs -> BOOLEAN]
  /\ armed \in [Procs -> BOOLEAN]
  /\ lock \in [Procs -> Threads \cup {"free"}]
  /\ tlock \in [Procs -> Threads \cup {"free"}]
  /\ flock \in SUBSET Procs
  /\ file \in Content

Step(p, t, from, to) ==
  /\ life[p] \in Alive /\ pc[p][t] = from
  /\ pc' = [pc EXCEPT ![p][t] = to]

InSignal(p, t) == t = "main" /\ life[p] = "sigterm"

-----------------------------------------------------------------------------
(* Recording *)

\* _notify_change as part of a larger step: it gives up when the lock is held.
NotifyIf(p, changed) ==
  armed' = IF changed /\ tlock[p] = "free" THEN [armed EXCEPT ![p] = TRUE]
           ELSE armed

Undetected(p) == {p} \X (1 .. MaxDetections) \ mem[p]

\* A hook calls _record, which takes _lock ...
Record(p) ==
  /\ life[p] = "running" /\ Undetected(p) # {}
  /\ Step(p, "main", "run", "record")
  /\ lock[p] = "free" /\ lock' = [lock EXCEPT ![p] = "main"]
  /\ UNCHANGED <<life, loc, state, armed, tlock, flock, file>>

\* ... appends the entry and releases it.
RecordEntry(p) ==
  /\ Step(p, "main", "record", "notify")
  /\ \E i \in Undetected(p) : mem' = [mem EXCEPT ![p] = @ \cup {i}]
  /\ lock' = [lock EXCEPT ![p] = "free"]
  /\ UNCHANGED <<life, loc, info, captured, armed, tlock, flock, file>>

\* _notify_change takes _flush_timer_lock with a bounded wait ...
Notify(p) ==
  /\ \/ /\ Step(p, "main", "notify", "arm")
        /\ tlock[p] = "free" /\ tlock' = [tlock EXCEPT ![p] = "main"]
     \/ /\ Step(p, "main", "notify", "run")
        /\ tlock[p] # "free" /\ UNCHANGED tlock
  /\ UNCHANGED <<life, loc, state, armed, lock, flock, file>>

\* ... and starts a timer unless one is pending.
Arm(p) ==
  /\ Step(p, "main", "arm", "run")
  /\ armed' = [armed EXCEPT ![p] = TRUE]
  /\ tlock' = [tlock EXCEPT ![p] = "free"]
  /\ UNCHANGED <<life, loc, state, lock, flock, file>>

\* The timer fires: _debounced_flush forgets it, then flushes.
Fire(p, t) ==
  /\ t # "main" /\ armed[p] /\ tlock[p] = "free"
  /\ Step(p, t, "off", "args")
  /\ armed' = [armed EXCEPT ![p] = FALSE]
  /\ UNCHANGED <<life, loc, state, locks, flock, file>>

-----------------------------------------------------------------------------
(* _flush *)

\* dict.update
Updated(old, new) ==
  [k \in DOMAIN old |-> IF k \in DOMAIN new /\ new[k] # {} THEN new[k] ELSE old[k]]

\* _capture_training_args and _capture_accelerate_config; only a real change
\* notifies (_NotifyingDict).
Args(p, t) ==
  /\ Step(p, t, "args", "check")
  /\ info' = [info EXCEPT ![p] = Updated(@, Argv[p])]
  /\ NotifyIf(p, info' # info)
  /\ UNCHANGED <<life, loc, mem, captured, locks, flock, file>>

Nothing(p) == mem[p] = {} /\ info[p] = NoInfo

\* Mutant: the signal handler waits for the lock like everyone else.
CanRead_Blocking(p, t) == lock[p] = "free"

\* _lock.acquire: a signal handler goes on without the lock after a while.
CanRead(p, t) == lock[p] = "free" \/ InSignal(p, t)

\* Mutant: at exit nothing is written unless a timer is pending.
Check_OnlyIfPending(p, t) ==
  /\ CanRead(p, t)
  /\ Step(p, t, "check",
          CASE Nothing(p) \/ (t = "main" /\ ~armed[p]) -> "done"
            [] ~Nothing(p) /\ t = "main" /\ armed[p] -> "git"
            [] ~Nothing(p) /\ t # "main" /\ ~captured[p] -> "git"
            [] ~Nothing(p) /\ t # "main" /\ captured[p] -> "copy")
  /\ UNCHANGED <<life, loc, state, armed, locks, flock, file>>

Check(p, t) ==
  /\ CanRead(p, t)
  /\ Step(p, t, "check",
          CASE Nothing(p) -> "done"
            [] ~Nothing(p) /\ (t = "main" \/ ~captured[p]) -> "git"
            [] ~Nothing(p) /\ t # "main" /\ captured[p] -> "copy")
  /\ UNCHANGED <<life, loc, state, armed, locks, flock, file>>

\* _capture_git_provenance finds no checkout, ...
GitNone(p, t) ==
  /\ TreeOf[p] = 0
  /\ Step(p, t, "git", "copy")
  /\ captured' = [captured EXCEPT ![p] = TRUE]
  /\ UNCHANGED <<life, loc, mem, info, armed, locks, flock, file>>

\* The keys found in a tree: a detached HEAD has no branch, and the slow
\* `git status` is not run in a signal handler.  git_repository, like
\* git_dirty, is there or not.
Found(w, p, t) ==
  {keys \in SUBSET GitKeys :
     /\ "commit" \in keys
     /\ "branch" \in keys <=> w \notin Detached
     /\ "dirty" \in keys => ~InSignal(p, t)
     /\ "dirty" \notin keys => p \in StatusFails \/ InSignal(p, t)}

\* ... or it collects the keys it finds, without a lock.
GitObserve(p, t) ==
  /\ TreeOf[p] # 0
  /\ Step(p, t, "git", "gitLock")
  /\ \E keys \in Found(TreeOf[p], p, t) :
       loc' = [loc EXCEPT ![p][t].found =
                 [k \in GitKeys |-> IF k \in keys THEN {TreeOf[p]} ELSE {}]]
  /\ UNCHANGED <<life, state, armed, locks, flock, file>>

\* It takes _lock, for as long as that takes, ...
GitLock(p, t) ==
  /\ lock[p] = "free"
  /\ Step(p, t, "gitLock", "gitUpdate")
  /\ lock' = [lock EXCEPT ![p] = t]
  /\ UNCHANGED <<life, loc, state, armed, tlock, flock, file>>

\* ... and updates the keys it found.
GitUpdate(p, t) ==
  /\ Step(p, t, "gitUpdate", "copy")
  /\ info' = [info EXCEPT ![p] = Updated(@, loc[p][t].found)]
  /\ NotifyIf(p, info' # info)
  /\ captured' = [captured EXCEPT ![p] = TRUE]
  /\ lock' = [lock EXCEPT ![p] = "free"]
  /\ loc' = [loc EXCEPT ![p][t] = NoLocal]
  /\ UNCHANGED <<life, mem, tlock, flock, file>>

Memory(p) == [items |-> mem[p], info |-> info[p]]

Copy(p, t) ==
  /\ CanRead(p, t)
  /\ Step(p, t, "copy", "flock")
  /\ loc' = [loc EXCEPT ![p][t].copy = Memory(p)]
  /\ UNCHANGED <<life, state, armed, locks, flock, file>>

\* Mutant: the flock is not waited for.
Flock_NoWait(p, t) ==
  /\ Step(p, t, "flock", "read")
  /\ flock' = flock \cup {p}
  /\ UNCHANGED <<life, loc, state, armed, locks, file>>

\* _output_lock opens the lock file anew and takes the flock.
Flock(p, t) ==
  /\ flock = {}
  /\ Step(p, t, "flock", "read")
  /\ flock' = {p}
  /\ UNCHANGED <<life, loc, state, armed, locks, file>>

Inside(p) == \E t \in Threads : pc[p][t] \in Critical

\* A process that holds the flock without writing outlasts the wait of p,
\* unless it is about to die of SIGTERM.
Stuck(p) ==
  /\ \A q \in flock : ~Inside(q)
  /\ \E q \in flock : q = p \/ life[q] # "sigterm"

\* Its wait is bounded, and the exception ends the flush.
FlockTimeout(p, t) ==
  /\ Stuck(p) \/ (SlowHolder /\ flock # {})
  /\ Step(p, t, "flock", "done")
  /\ loc' = [loc EXCEPT ![p][t] = NoLocal]
  /\ UNCHANGED <<life, state, armed, locks, flock, file>>

Read(p, t) ==
  /\ Step(p, t, "read", "replace")
  /\ loc' = [loc EXCEPT ![p][t].existing = file]
  /\ UNCHANGED <<life, state, armed, locks, flock, file>>

\* Mutant: the git_* keys are merged one by one like the others.
_merge_output_PerKey(existing, own) ==
  [items |-> existing.items \cup own.items,
   info  |-> Updated(existing.info, own.info)]

\* Mutant: the writer that captured git replaces all of runtime_info.
_merge_output_AllKeys(existing, own) ==
  [items |-> existing.items \cup own.items,
   info  |-> IF \E k \in GitKeys : own.info[k] # {} THEN own.info
             ELSE Updated(existing.info, own.info)]

\* Datasets are added to those listed.  Of runtime_info the last writer wins
\* per key, but the git_* keys are replaced as a group.
_merge_output(existing, own) ==
  LET dropped == IF \E k \in GitKeys : own.info[k] # {} THEN GitKeys ELSE {}
      kept    == [k \in Keys |-> IF k \in dropped THEN {} ELSE existing.info[k]]
  IN [items |-> existing.items \cup own.items, info |-> Updated(kept, own.info)]

\* A temporary file is written and renamed over the output file.
Replace(p, t) ==
  /\ Step(p, t, "replace", "close")
  /\ file' = _merge_output(loc[p][t].existing, loc[p][t].copy)
  /\ loc' = [loc EXCEPT ![p][t] = NoLocal]
  /\ UNCHANGED <<life, state, armed, locks, flock>>

\* Closing the lock file drops this process's hold on it.
Close(p, t) ==
  /\ Step(p, t, "close", "done")
  /\ flock' = flock \ {p}
  /\ UNCHANGED <<life, loc, state, armed, locks, file>>

-----------------------------------------------------------------------------
(* Processes *)

\* A process's threads end with it, and so does its hold on the flock.  What
\* it had detected is kept as history.
Die(p, how) ==
  /\ life' = [life EXCEPT ![p] = how]
  /\ pc' = [pc EXCEPT ![p] = [t \in Threads |-> "off"]]
  /\ loc' = [loc EXCEPT ![p] = [t \in Threads |-> NoLocal]]
  /\ flock' = flock \ {p}
  /\ captured' = [captured EXCEPT ![p] = FALSE]
  /\ armed' = [armed EXCEPT ![p] = FALSE]
  /\ lock' = [lock EXCEPT ![p] = "free"]
  /\ tlock' = [tlock EXCEPT ![p] = "free"]
  /\ UNCHANGED <<mem, info, file>>

\* Mutant: the timer is forgotten after its flush.
Done_ForgetTimer(p, t) ==
  /\ life[p] \in Alive /\ pc[p][t] = "done"
  /\ IF t = "main"
     THEN Die(p, IF life[p] = "sigterm" THEN "terminated" ELSE "exited")
     ELSE /\ Step(p, t, "done", "off")
          /\ armed' = [armed EXCEPT ![p] = FALSE]
          /\ UNCHANGED <<life, loc, state, locks, flock, file>>

\* The end of a timer's flush ends its thread; the end of the main thread's
\* (at exit, or in the SIGTERM handler) ends the process.
Done(p, t) ==
  /\ life[p] \in Alive /\ pc[p][t] = "done"
  /\ IF t = "main"
     THEN Die(p, IF life[p] = "sigterm" THEN "terminated" ELSE "exited")
     ELSE /\ Step(p, t, "done", "off")
          /\ UNCHANGED <<life, loc, state, armed, locks, flock, file>>

\* The interpreter runs the at-exit handlers.
BeginExit(p) ==
  /\ life[p] = "running" /\ Step(p, "main", "run", "args")
  /\ life' = [life EXCEPT ![p] = "exiting"]
  /\ UNCHANGED <<loc, state, armed, locks, flock, file>>

\* _on_sigterm interrupts the main thread wherever it is and never returns to
\* it: the locks that the interrupted code holds stay held.
Sigterm(p) ==
  /\ p \in Signalled /\ life[p] \in {"running", "exiting"}
  /\ life' = [life EXCEPT ![p] = "sigterm"]
  /\ pc' = [pc EXCEPT ![p]["main"] = "args"]
  /\ loc' = [loc EXCEPT ![p]["main"] = NoLocal]
  /\ UNCHANGED <<state, armed, locks, flock, file>>

Sigkill(p) ==
  /\ p \in Killed /\ life[p] \in Alive
  /\ Die(p, "killed")

\* Mutant: the child keeps the locks as it inherits them.
Fork_KeepLocks(p, c) ==
  /\ life[p] = "running" /\ pc[p]["main"] = "run" /\ life[c] = "none"
  /\ life' = [life EXCEPT ![c] = "running"]
  /\ pc' = [pc EXCEPT ![c]["main"] = "run"]
  /\ mem' = [mem EXCEPT ![c] = mem[p]]
  /\ info' = [info EXCEPT ![c] = info[p]]
  /\ lock' = [lock EXCEPT ![c] = lock[p]]
  /\ flock' = IF p \in flock THEN flock \cup {c} ELSE flock
  /\ UNCHANGED <<loc, captured, armed, tlock, file>>

\* os.fork: the child has the parent's memory and open files but only the
\* thread that forked.  _after_fork_in_child makes new locks and forgets the
\* timer and that git was captured; the open lock file stays open.
Fork(p, c) ==
  /\ life[p] = "running" /\ pc[p]["main"] = "run" /\ life[c] = "none"
  /\ life' = [life EXCEPT ![c] = "running"]
  /\ pc' = [pc EXCEPT ![c]["main"] = "run"]
  /\ mem' = [mem EXCEPT ![c] = mem[p]]
  /\ info' = [info EXCEPT ![c] = info[p]]
  /\ flock' = IF p \in flock THEN flock \cup {c} ELSE flock
  /\ UNCHANGED <<loc, captured, armed, locks, file>>

-----------------------------------------------------------------------------
Init ==
  /\ life = [p \in Procs |-> IF p \in Initial THEN "running" ELSE "none"]
  /\ pc = [p \in Procs |-> [t \in Threads |->
             IF p \in Initial /\ t = "main" THEN "run" ELSE "off"]]
  /\ loc = [p \in Procs |-> [t \in Threads |-> NoLocal]]
  /\ mem = [p \in Procs |-> {}]
  /\ info = [p \in Procs |-> NoInfo]
  /\ captured = [p \in Procs |-> FALSE]
  /\ armed = [p \in Procs |-> FALSE]
  /\ lock = [p \in Procs |-> "free"]
  /\ tlock = [p \in Procs |-> "free"]
  /\ flock = {}
  /\ file = Empty

FlushStep(p, t) ==
  \/ Args(p, t) \/ Check(p, t) \/ GitNone(p, t) \/ GitObserve(p, t)
  \/ GitLock(p, t) \/ GitUpdate(p, t) \/ Copy(p, t) \/ Flock(p, t) \/ FlockTimeout(p, t)
  \/ Read(p, t) \/ Replace(p, t) \/ Close(p, t) \/ Done(p, t)

\* What a thread goes on doing once it has begun.
ThreadStep(p, t) ==
  \/ FlushStep(p, t)
  \/ Fire(p, t)
  \/ t = "main" /\ (RecordEntry(p) \/ Notify(p) \/ Arm(p))

ProcessStep(p) ==
  \/ Record(p) \/ BeginExit(p) \/ Sigterm(p) \/ Sigkill(p)
  \/ \E c \in Procs : Fork(p, c)

Next ==
  \E p \in Procs : ProcessStep(p) \/ \E t \in Threads : ThreadStep(p, t)

Spec == Init /\ [][Next]_vars

\* The operating system runs every thread that can run; nothing makes a
\* process record, fork or exit.
Fairness == \A p \in Procs, t \in Threads : WF_vars(ThreadStep(p, t))

FairSpec == Spec /\ Fairness

-----------------------------------------------------------------------------
(* Properties *)

\* What a content lists: its datasets, and the keys from argv that it has,
\* whatever their values (the last writer's).
Listing(c) == c.items \cup {<<k>> : k \in {a \in ArgKeys : c.info[a] # {}}}

Output == INSTANCE OutputFile
            WITH Items <- Items \cup {<<k>> : k \in ArgKeys}, listed <- Listing(file)

\* The processes together implement the file that OutputFile describes: no
\* writer drops a dataset or an argv key that another process wrote between
\* its read and its rename (_flush, _output_lock, _merge_output).
FileOnlyGrows == Output!Spec

\* The inductive invariant behind it: a thread between the flock and the close
\* is the only one, its process has the locked file, and what it read is still
\* what the file holds, although forks pass the locked file on and signals
\* abandon it (_output_lock).
FlockInv ==
  /\ TypeOK
  /\ \A p \in Procs, t \in Threads : pc[p][t] \in Critical =>
       /\ p \in flock
       /\ \A q \in Procs, u \in Threads :
            pc[q][u] \in Critical => q = p /\ u = t
  /\ \A p \in Procs, t \in Threads :
       pc[p][t] = "replace" => loc[p][t].existing = file

\* The git keys in the file are one observation of one checkout: "a commit
\* from one working tree is never labelled with the branch (or dirty flag) of
\* another" (_merge_output).
GitOneObservation ==
  \A k, l \in GitKeys : file.info[k] # {} /\ file.info[l] # {}
                          => file.info[k] = file.info[l]

Unwritten(p) == ~(Listing(Memory(p)) \subseteq Listing(file))

\* The datasets that a process had detected when it exited are in the file, and
\* so are the keys of its argv, with its values or with those of a process that
\* wrote later, whatever the other processes and its own timer were doing
\* (_flush as at-exit handler).
ExitedIsFlushed == \A p \in Procs : life[p] = "exited" => ~Unwritten(p)

\* What a process has recorded reaches the file while the process goes on
\* running: no change falls between a timer that has fired and the next one
\* (_notify_change, _debounced_flush).
RecordedIsWritten ==
  \A p \in Procs : Unwritten(p) ~> (~Unwritten(p) \/ life[p] \in Dead)

\* A process that exits or is told to terminate does end: neither a lock that
\* a fork or a signal left held nor a stuck holder of the flock hangs it
\* (_output_lock, _after_fork_in_child, _flush's in_signal).
ExitCompletes ==
  \A p \in Procs : life[p] \in {"exiting", "sigterm"} ~> life[p] \in Dead

=============================================================================
