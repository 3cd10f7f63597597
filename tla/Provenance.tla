----------------------------- MODULE Provenance -----------------------------
(***************************************************************************)
(* Which git checkout the AIBOM says the workload ran: the sources of git  *)
(* provenance and their ranking (postprocess/postprocess.py).  A value is  *)
(* a token; None stands for a field that is absent.                        *)
(***************************************************************************)
EXTENDS Absent, Integers, SequencesExt

CONSTANTS
  Commits,     \* strings that look like a commit
  Abbrev,      \* pairs of commits of which the first abbreviates the second
  Unpinned,    \* refs that name no commit or branch (FETCH_HEAD, $REF)
  NormalRepo   \* _normalize_repo: from the spelling of a remote to the remote

\* What one source says; Nothing is a source that found no checkout.
Nothing == [commit |-> None, repo |-> None, branch |-> None, dirty |-> None,
            via |-> None]
Said(commit, repo, branch, via) ==
  [Nothing EXCEPT !.commit = commit, !.repo = repo, !.branch = branch,
                  !.via = via]

-----------------------------------------------------------------------------
(* `git clone` and `git checkout` in a container's command.  A command is a
   record [op, dir, repo, new, ref]: "cd" to dir; "clone" repo into dir on
   branch ref; "checkout" (git -C dir) of ref, or of a new branch.  A clone
   without a remote is not counted. *)

ScriptOK(script) ==
  /\ script \in Seq(ToSet(script))
  /\ \A cmd \in ToSet(script) :
       /\ cmd.op \in {"cd", "clone", "checkout"}
       /\ cmd.op = "clone" => cmd.repo # None

_usable_ref(ref) == ref \notin Unpinned \cup {None}
_is_commit_ref(ref) == ref \in Commits
Usable(ref) == IF _usable_ref(ref) THEN ref ELSE None

\* os.path.basename(os.path.normpath(path)) of a path given by its components.
PathStep(done, c) ==
  IF c = ".." /\ done # <<>> /\ Last(done) # ".." THEN Front(done)
  ELSE Append(done, c)
normpath(path) ==
  LET done[n \in 0 .. Len(path)] ==
        IF n = 0 THEN <<>> ELSE PathStep(done[n - 1], path[n])
  IN done[Len(path)]
basename(path) == IF normpath(path) = <<>> THEN "." ELSE Last(normpath(path))

\* Mutant: of two clones with the directory's name, and of none, the last.
CloneAt_Last(clones, path) == Len(clones)

\* The first clone whose directory has the path's last name; 0 if there is none.
_clone_at(clones, path) ==
  SelectInSeq(clones, LAMBDA c : path # <<>> /\ c.dir = basename(path))

\* Checking out something unknown clears what was known before.
Checkout(clone, new, ref) ==
  CASE new # None -> [clone EXCEPT
         !.branch = Usable(new),
         !.commit = IF _is_commit_ref(ref) THEN ref ELSE None]
    [] new = None /\ ref # None -> [clone EXCEPT
         !.commit = IF _is_commit_ref(ref) THEN ref ELSE None,
         !.branch = IF _is_commit_ref(ref) THEN None ELSE Usable(ref)]
    [] OTHER -> clone

\* One command: st.cwd is <<>> while the directory is unknown.
NoCommand == [clones |-> <<>>, cwd |-> <<>>, primary |-> 0]
CommandStep(st, cmd) ==
  CASE cmd.op = "cd" ->
         LET cwd == IF cmd.dir = None THEN <<>> ELSE Append(st.cwd, cmd.dir)
             at  == _clone_at(st.clones, cwd)
         IN [st EXCEPT !.cwd = cwd, !.primary = IF at = 0 THEN @ ELSE at]
    [] cmd.op = "clone" ->
         [st EXCEPT !.clones = Append(@, [repo |-> cmd.repo, dir |-> cmd.dir,
                        commit |-> None, branch |-> Usable(cmd.ref)])]
    [] cmd.op = "checkout" ->
         LET where == IF cmd.dir = None THEN st.cwd
                      ELSE Append(st.cwd, cmd.dir)
             found == _clone_at(st.clones, where)
             at    == IF found = 0 /\ Len(st.clones) = 1 THEN 1 ELSE found
         IN IF at = 0 THEN st
            ELSE [st EXCEPT
                    !.primary = IF cmd.dir = None THEN @ ELSE at,
                    !.clones[at] = Checkout(@, cmd.new, cmd.ref)]

Ran(script) ==
  LET st[n \in 0 .. Len(script)] ==
        IF n = 0 THEN NoCommand ELSE CommandStep(st[n - 1], script[n])
  IN st[Len(script)]

detect_git_clone_from_command(script) ==
  LET st == Ran(script)
      chosen == st.clones[IF st.primary = 0 THEN 1 ELSE st.primary]
  IN IF st.clones = <<>> THEN Nothing
     ELSE Said(chosen.commit, chosen.repo, chosen.branch, "cli_arg")

\* The first result that is not Nothing, in the order of the containers.
FirstFound(detect(_), containers) ==
  LET i == SelectInSeq(containers, LAMBDA c : detect(c) # Nothing)
  IN IF i = 0 THEN Nothing ELSE detect(containers[i])

detect_git_clone_from_containers(containers) ==
  FirstFound(LAMBDA c : detect_git_clone_from_command(c.script), containers)

-----------------------------------------------------------------------------
(* The other sources *)

\* What the runtime detector read in .git; only it knows the dirty flag.
detect_git_provenance_from_runtime_info(info) ==
  IF info.commit = None /\ info.repo = None THEN Nothing
  ELSE [info EXCEPT !.via = "git_directory"]

\* The labels of a container's image (from the Image object, one of its
\* manifests, or the registry): a build's and the vendor-neutral ones, which
\* may be a base image's.  A container that is not the workload's, or whose
\* image has no digest, has no labels.
ImageProvenance(labels) ==
  CASE labels.build # None /\ labels.revision \in {None, labels.build} ->
         Said(labels.build, labels.source, labels.ref, "openshift_build_label")
    [] labels.build = None /\ labels.revision # None ->
         Said(labels.revision, labels.ociSource, None, "oci_image_label")
    [] OTHER -> Nothing

detect_git_provenance_from_containers(containers) ==
  FirstFound(LAMBDA c : ImageProvenance(c.labels), containers)

-----------------------------------------------------------------------------
(* Ranking *)

SameCommit(a, b) == a = b \/ <<a, b>> \in Abbrev \/ <<b, a>> \in Abbrev
SameRepo(a, b) == NormalRepo[a] = NormalRepo[b]

\* What abbreviates a commit are prefixes of it.
ASSUME AbbrevAssumption ==
  \A p, q \in Abbrev : p[2] = q[2] => SameCommit(p[1], q[1])

\* The two sources name different commits or repositories.
Contradict(p, q) ==
  \/ p.commit # None /\ q.commit # None /\ ~SameCommit(p.commit, q.commit)
  \/ p.repo # None /\ q.repo # None /\ ~SameRepo(p.repo, q.repo)

Filled(a, b) == IF a = None THEN b ELSE a

\* Mutant: different commits do not keep the sources apart.
Merge_AnyCommit(primary, fallback) ==
  IF primary = Nothing THEN fallback
  ELSE [primary EXCEPT !.commit = Filled(@, fallback.commit),
                       !.repo = Filled(@, fallback.repo),
                       !.branch = Filled(@, fallback.branch),
                       !.dirty = Filled(@, fallback.dirty)]

merge_provenance(primary, fallback) ==
  CASE primary = Nothing -> fallback
    [] primary # Nothing /\ Contradict(primary, fallback) -> primary
    [] OTHER -> [primary EXCEPT !.commit = Filled(@, fallback.commit),
                                !.repo = Filled(@, fallback.repo),
                                !.branch = Filled(@, fallback.branch),
                                !.dirty = Filled(@, fallback.dirty)]

\* main: the image is only looked at while commit or repository is unknown.
detected_provenance(runtime, cli, image) ==
  LET seen == merge_provenance(runtime, cli)
  IN IF seen.commit # None /\ seen.repo # None THEN seen
     ELSE merge_provenance(seen, image)

\* compile_aibom: the annotations come first, and any of them is the source.
source_code(annotated, detected) ==
  LET prov == merge_provenance(annotated, detected)
  IN [prov EXCEPT !.via =
        CASE annotated # Nothing -> "annotation"
          [] annotated = Nothing
             /\ (detected.commit # None \/ detected.repo # None) -> detected.via
          [] OTHER -> None]

-----------------------------------------------------------------------------
(* What a script does, to compare with: a shell that follows the directories
   by their paths.  A script is plain if its clones have directories of their
   own with different names, it only enters a clone's top directory or leaves
   a directory, and it checks out only in a clone's top directory. *)

CloneIn(clones, path) == SelectInSeq(clones, LAMBDA c : c.path = path)

ShellStep(st, cmd) ==
  LET there == IF cmd.dir = None THEN st.cwd ELSE normpath(Append(st.cwd, cmd.dir))
      at    == CloneIn(st.clones, there)
      lost  == cmd.op = "cd" /\ cmd.dir = None
  IN CASE cmd.op = "cd" ->
            [st EXCEPT !.cwd = there, !.last = IF at = 0 THEN @ ELSE at,
               !.plain = @ /\ ~lost /\ (at # 0 \/ cmd.dir = "..")]
       [] cmd.op = "clone" ->
            [st EXCEPT !.clones = Append(@, [path |-> there, dir |-> cmd.dir,
                          co |-> Said(None, cmd.repo, Usable(cmd.ref), "cli_arg")]),
               !.plain = @ /\ cmd.dir \notin {None, ".", ".."}
                           /\ \A i \in DOMAIN st.clones : st.clones[i].dir # cmd.dir]
       [] cmd.op = "checkout" /\ at # 0 ->
            [st EXCEPT !.clones[at].co = Checkout(@, cmd.new, cmd.ref),
               !.last = IF cmd.dir = None THEN @ ELSE at]
       [] OTHER -> [st EXCEPT !.plain = FALSE]

NoShell == [clones |-> <<>>, cwd |-> <<>>, last |-> 0, plain |-> TRUE]
Shell(script) ==
  LET st[n \in 0 .. Len(script)] ==
        IF n = 0 THEN NoShell ELSE ShellStep(st[n - 1], script[n])
  IN st[Len(script)]

\* The clone last entered, else the first one.
ShellCheckout(script) ==
  LET st == Shell(script)
  IN IF st.clones = <<>> THEN Nothing
     ELSE st.clones[IF st.last = 0 THEN 1 ELSE st.last].co

=============================================================================
