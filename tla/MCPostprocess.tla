---------------------------- MODULE MCPostprocess ----------------------------
(***************************************************************************)
(* Model-checking instances of Postprocess.  The inputs are families: each *)
(* varies one part of what a workload can look like and keeps the rest.    *)
(***************************************************************************)
EXTENDS Postprocess

MCAbbrev == {<<"s1", "c1">>}
MCNormalRepo == [r \in {"r1", "r1.git", "r2"} |-> IF r = "r2" THEN "r2" ELSE "r1"]

NoLabels == [build |-> None, ref |-> None, source |-> None, revision |-> None,
             ociSource |-> None]
Container(pod) == [pod |-> pod, reason |-> "Completed", finished |-> 3,
                   last |-> None, job |-> "Complete", gpu |-> 1,
                   script |-> <<>>, labels |-> NoLabels]
NoScrapes == [p \in Pods |-> [m \in Usage \cup Serving |-> {}]]

Plain ==
  [pods |-> <<"p1", "p2">>, containers |-> <<Container("p1"), Container("p2")>>,
   annotated |-> Nothing, runtime |-> Nothing, engine |-> "other",
   prometheus |-> "off", exported |-> {}, scrapes |-> NoScrapes,
   start |-> [p \in Pods |-> IF p = "p1" THEN 0 ELSE 1],
   gpus |-> [p \in Pods |-> 1], signing |-> "none", faults |-> 0,
   discovering |-> {}, key |-> "mounted", now |-> Horizon]

\* Commands of a container: one clone, then up to three of anything.
Cmd(op, dir, repo, new, cref) ==
  [op |-> op, dir |-> dir, repo |-> repo, new |-> new, ref |-> cref]
CloneA == Cmd("clone", "a", "r1", None, "b1")
CloneB == Cmd("clone", "b", "r2", None, None)
Commands ==
  {CloneA, CloneB, Cmd("cd", "a", None, None, None), Cmd("cd", "b", None, None, None),
   Cmd("cd", "..", None, None, None), Cmd("cd", None, None, None, None),
   Cmd("checkout", None, None, None, "c1"), Cmd("checkout", None, None, "b2", "c2"),
   Cmd("checkout", "a", None, None, "b2"), Cmd("checkout", "b", None, None, "HEAD")}
Running(script) == <<[Container("p1") EXCEPT !.script = script], Container("p2")>>
Scripts ==
  {[Plain EXCEPT !.containers = Running(<<first>> \o rest_)] :
     first \in {CloneA, CloneB}, rest_ \in UNION {[1 .. n -> Commands] : n \in 0 .. 3}}

\* What annotations, the runtime detector, the command and the image say.
Annotated == {[Nothing EXCEPT !.commit = c, !.repo = r] :
                c \in {None, "s1", "c1", "c2"}, r \in {None, "r1.git"}}
             \cup {[Nothing EXCEPT !.branch = "b1"]}
Found == {[Nothing EXCEPT !.commit = c, !.repo = r, !.branch = "b2", !.dirty = "yes"] :
            c \in {None, "c1"}, r \in {None, "r1", "r2"}}
Cloned == {<<>>} \cup
  {<<Cmd("clone", "a", r, None, "b3"), Cmd("checkout", None, None, None, c)>> :
     r \in {"r1.git", "r2"}, c \in {None, "s1", "c2"}}
Labels == {[NoLabels EXCEPT !.build = c, !.source = r, !.ref = "b5"] :
             c \in {None, "c1", "c2"}, r \in {None, "r1"}}
          \cup {[NoLabels EXCEPT !.build = b, !.revision = c, !.ociSource = "r2"] :
                  b \in {None, "c2"}, c \in {"c1", "c2"}}
Checkouts ==
  {[Plain EXCEPT !.annotated = a, !.runtime = r,
      !.containers = <<[Container("p1") EXCEPT !.script = s, !.labels = l]>>] :
     a \in Annotated, r \in Found \cup {Nothing}, s \in Cloned, l \in Labels}

\* Images with different labels, one of which may not be read.
Images ==
  {[Plain EXCEPT !.runtime = r, !.faults = 1,
      !.containers[1].labels = [NoLabels EXCEPT !.build = "c1", !.source = "r1"],
      !.containers[2].labels = l] : r \in Found, l \in Labels}

\* How the containers of two pods ended: two of p1, one of p2.
EndedAs(pod, reason, last, result) ==
  [Container(pod) EXCEPT !.reason = reason, !.last = last, !.job = result,
     !.finished = IF reason = None THEN None ELSE 3]
Reasons == {None, "Completed", "Error", "OOMKilled"}
Results == {None, "Complete", "Failed"}
Endings ==
  {[Plain EXCEPT !.containers = <<EndedAs("p1", r, l, j), EndedAs("p1", s, "Error", j),
                                  EndedAs("p2", t, None, k)>>] :
     r, s, t \in Reasons, l \in {None, "OOMKilled"}, j, k \in Results}

\* Telemetry that arrives late, of pods that ran at different times.
Measured == [Plain EXCEPT !.prometheus = "on", !.exported = {"gpu"}]
Times ==
  {[Measured EXCEPT !.start = [p \in Pods |-> IF p = "p1" THEN 7 ELSE s],
      !.faults = IF f = None THEN 0 ELSE 1, !.now = 10,
      !.containers = <<[Container("p1") EXCEPT !.finished = 9],
                       [Container("p2") EXCEPT !.finished = f]>>] :
     s \in {9, 10}, f \in {10, None}}
  \cup {[Measured EXCEPT !.engine = "known", !.exported = x,
           !.containers[1].gpu = None, !.gpus["p1"] = g] :
          x \in {{"tokens"}, {"gpu"}}, g \in 0 .. 1}
  \cup {[Measured EXCEPT !.containers[1].gpu = 0, !.containers[2].gpu = 0],
        [Measured EXCEPT !.containers[2].finished = None, !.start["p2"] = 6,
           !.scrapes["p1"]["gpu"] = 1 .. 2, !.scrapes["p2"]["gpu"] = 7 .. 9]}

\* Failures between and after the writes, and processes that die.
Failures ==
  {[Measured EXCEPT !.pods = <<"p1">>, !.containers = <<Container("p1")>>,
      !.scrapes["p1"]["gpu"] = 1 .. 3,
      !.signing = s, !.faults = IF s = "key" THEN 3 ELSE 2] : s \in {"key", "none"}}

\* Scrapes with gaps, of more or fewer points than the object holds.
Sizes ==
  {[Measured EXCEPT !.engine = "known", !.exported = {},
      !.containers[1].finished = 5, !.containers[2].finished = 5,
      !.scrapes["p1"]["gpu"] = a, !.scrapes["p2"]["gpu"] = b,
      !.scrapes["p1"]["tokens"] = c, !.scrapes["p2"]["tokens"] = d] :
     a \in SUBSET (1 .. 5), b \in {{}, {2, 3}, 2 .. 5},
     c \in {{}, {5}, {1, 3, 4}, 1 .. 5}, d \in {{}, 2 .. 5}}

\* Runs so long that the step is two scrape intervals, or three, which is as
\* long as the rates' window.
Long ==
  {[Measured EXCEPT !.engine = "known", !.exported = {},
      !.containers[1].finished = f, !.containers[2].finished = 6,
      !.scrapes["p1"]["gpu"] = a \cap 1 .. f, !.scrapes["p1"]["tokens"] = a \cap 1 .. f,
      !.scrapes["p2"]["gpu"] = b, !.scrapes["p2"]["tokens"] = b] :
     f \in {8, 11}, a \in {1 .. 11, {1, 2, 5, 7, 8}, {3, 6, 9}, {4, 10, 11}},
     b \in {{}, 2 .. 6, {2, 3, 5}}}

\* Discovery that fails at a stage, or runs again.
Discoveries ==
  {[Plain EXCEPT !.discovering = {p}, !.key = k, !.faults = 1,
      !.containers[2] = EndedAs("p2", "OOMKilled", None, "Failed")] :
     p \in Pods, k \in {"mounted", "missing"}}

MCInputs == Scripts \cup Checkouts \cup Images \cup Endings \cup Times \cup Failures
            \cup Sizes \cup Long \cup Discoveries

=============================================================================
