------------------------------ MODULE Execution ------------------------------
(***************************************************************************)
(* What the AIBOM says about how the workload ran: the status of its pods, *)
(* rolled up to one, its duration, and the window of a pod's statistics    *)
(* (postprocess/postprocess.py).  A container is a record of containers.json:*)
(* [pod, reason, finished, last, job, gpu, ...], where reason is that of   *)
(* its termination (exit code 0 if and only if "Completed"), last that of  *)
(* the termination before its last restart, job its Job's final condition. *)
(***************************************************************************)
EXTENDS Absent, Integers, SequencesExt

CONSTANT Scrape   \* SCRAPE_INTERVAL_MS

ASSUME ScrapeAssumption == Scrape \in Nat \ {0}

\* The elements of a sequence that are in S, in their order.
Among(s, S) ==
  LET kept[n \in 0 .. Len(s)] ==
        IF n = 0 THEN <<>>
        ELSE IF s[n] \in S THEN Append(kept[n - 1], s[n]) ELSE kept[n - 1]
  IN kept[Len(s)]

Of(pod, containers) ==
  Among(containers, {c \in ToSet(containers) : c.pod = pod})

\* Mutant: the first failure is reported, also when another one was a kill.
Representative_FirstFailure(reasons) ==
  LET failed == SelectInSeq(reasons, LAMBDA r : r # "Completed")
  IN CASE reasons = <<>> -> None
       [] failed # 0 -> reasons[failed]
       [] OTHER -> reasons[1]

\* The reason to report of several: a kill, else a failure, else the first.
Representative(reasons) ==
  LET failed == SelectInSeq(reasons, LAMBDA r : r # "Completed")
  IN CASE reasons = <<>> -> None
       [] Contains(reasons, "OOMKilled") -> "OOMKilled"
       [] failed # 0 /\ ~Contains(reasons, "OOMKilled") -> reasons[failed]
       [] OTHER -> reasons[1]

Known(values) == Among(values, ToSet(values) \ {None})
Field(pod, containers, F(_)) ==
  LET mine == Of(pod, containers)
  IN Known([i \in DOMAIN mine |-> F(mine[i])])

pod_status_from_containers(pod, containers) ==
  Representative(Field(pod, containers, LAMBDA c : c.reason))

pod_restart_info(pod, containers) ==
  Representative(Field(pod, containers, LAMBDA c : c.last))

pod_job_result(pod, containers) ==
  LET results == Field(pod, containers, LAMBDA c : c.job)
  IN IF results = <<>> THEN None ELSE results[1]

\* The sum of the pod's claims; its discovery's count if there are none.
pod_gpu_count(pod, containers, discovered) ==
  LET claims == Field(pod, containers, LAMBDA c : c.gpu)
  IN IF claims = <<>> THEN discovered ELSE FoldLeft(+, 0, claims)

\* The entry of a pod.  A failed pod of a Job that completed is an earlier
\* attempt, which does not count for the workload.
PodEntry(pod, containers) ==
  LET status == pod_status_from_containers(pod, containers)
      result == pod_job_result(pod, containers)
  IN [pod |-> pod, status |-> status, result |-> result,
      last |-> pod_restart_info(pod, containers),
      retried |-> result = "Complete" /\ status \notin {None, "Completed"}]

\* The status of the workload, from the entries of its pods.
Rollup(pods) ==
  LET counted == Known([i \in DOMAIN pods |->
                    IF pods[i].retried THEN None ELSE pods[i].status])
      said(result) == \E i \in DOMAIN pods : pods[i].result = result
      status == Representative(counted)
      done   == IF status = None /\ said("Complete") THEN "Completed"
                ELSE status
  IN IF done \in {None, "Completed"} /\ said("Failed") THEN "Failed"
     ELSE done

-----------------------------------------------------------------------------
MaxOf(S) == CHOOSE x \in S : \A y \in S : y <= x
MinOf(S) == CHOOSE x \in S : \A y \in S : x <= y

\* When the last of the pod's containers finished, if all of them have.
_pod_finished_ms(pod, containers) ==
  LET mine == ToSet(Of(pod, containers))
  IN IF mine = {} \/ \E c \in mine : c.finished = None THEN None
     ELSE MaxOf({c.finished : c \in mine})

\* Mutant: the first scrape interval is left out whatever the length of the run.
Window_NoCap(start, finished, now) ==
  LET end == IF finished = None THEN now ELSE MinOf({finished, now})
  IN [start |-> start, end |-> MaxOf({start, end}), stats |-> start + Scrape]

\* _pod_stats_window: from the start to the finish, without the first scrape
\* interval, or without half of the run if that is shorter.
StatsWindow(start, finished, now) ==
  LET known == IF finished = None THEN now ELSE MinOf({finished, now})
      end   == MaxOf({start, known})
      cold  == MinOf({Scrape, (end - start) \div 2})
  IN [start |-> start, end |-> end, stats |-> start + cold]

\* From the first start to the last finish, or to now if a pod has not
\* finished; unknown if there is no start.
Duration(starts, finishes, now) ==
  IF starts = {} THEN None
  ELSE (IF None \in finishes THEN now ELSE MinOf({MaxOf(finishes), now}))
       - MinOf(starts)

=============================================================================
