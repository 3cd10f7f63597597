------------------------ MODULE DetectorHooksProofs ------------------------
(***************************************************************************)
(* Theorems about ImportHooks in a process that DetectorHooks describes,   *)
(* for any threads, modules, triggers, imports and scripts.                *)
(***************************************************************************)
EXTENDS DetectorHooks, SequenceTheorems, TLAPS

-----------------------------------------------------------------------------
(* Stacks *)

\* A nonempty sequence without its last element.
LEMMA FrontShape ==
  ASSUME NEW S, NEW s \in Seq(S), s # <<>>
  PROVE  /\ Len(s) \in Nat \ {0}
         /\ Last(s) = s[Len(s)] /\ Last(s) \in S
         /\ Front(s) \in Seq(S) /\ Len(Front(s)) = Len(s) - 1
         /\ \A i \in 1 .. Len(s) - 1 : Front(s)[i] = s[i]
<1>1. Len(s) \in Nat \ {0} /\ DOMAIN s = 1 .. Len(s)
  BY EmptySeq, LenProperties
<1>2. \A i \in 1 .. Len(s) : s[i] \in S
  BY ElementOfSeq
<1>3. \A i \in 1 .. Len(s) - 1 : s[i] \in S
  BY <1>1, <1>2
<1>4. /\ SubSeq(s, 1, Len(s) - 1) \in Seq(S)
      /\ Len(SubSeq(s, 1, Len(s) - 1)) = Len(s) - 1
      /\ \A i \in 1 .. Len(s) - 1 : SubSeq(s, 1, Len(s) - 1)[i] = s[i]
  BY <1>1, <1>3, SubSeqProperties
<1> QED BY <1>1, <1>2, <1>4 DEF Last, Front

\* A nonempty sequence with its last element replaced.
LEMMA ReplacedLast ==
  ASSUME NEW S, NEW s \in Seq(S), s # <<>>, NEW g \in S
  PROVE  LET r == Append(Front(s), g)
         IN  /\ r \in Seq(S) /\ Len(r) = Len(s) /\ r[Len(s)] = g
             /\ \A i \in 1 .. Len(s) - 1 : r[i] = s[i]
<1> DEFINE q == Front(s)
<1>1. /\ q \in Seq(S) /\ Len(q) = Len(s) - 1 /\ Len(s) \in Nat \ {0}
      /\ \A i \in 1 .. Len(s) - 1 : q[i] = s[i]
  BY FrontShape
<1> HIDE DEF q
<1>2. /\ Append(q, g) \in Seq(S) /\ Len(Append(q, g)) = Len(q) + 1
      /\ \A i \in 1 .. Len(q) : Append(q, g)[i] = q[i]
      /\ Append(q, g)[Len(q) + 1] = g
  BY <1>1, AppendProperties
<1> QED BY <1>1, <1>2 DEF q

\* A sequence without its last element and with the one before it replaced.
LEMMA UnwoundShape ==
  ASSUME NEW S, NEW s \in Seq(S), s # <<>>, Front(s) # <<>>, NEW g \in S
  PROVE  LET r == Append(Front(Front(s)), g)
             k == Len(s) - 1
         IN  /\ k \in Nat \ {0} /\ Last(s) = s[Len(s)]
             /\ Last(Front(s)) = s[k]
             /\ r \in Seq(S) /\ Len(r) = k /\ r[k] = g
             /\ \A i \in 1 .. k - 1 : r[i] = s[i]
             /\ DOMAIN r = 1 .. k /\ DOMAIN s = 1 .. Len(s)
<1> DEFINE q == Front(s)
           r == Append(Front(q), g)
<1>1. /\ Len(s) \in Nat \ {0} /\ Last(s) = s[Len(s)]
      /\ q \in Seq(S) /\ Len(q) = Len(s) - 1
      /\ \A i \in 1 .. Len(s) - 1 : q[i] = s[i]
  BY FrontShape
<1>2. q # <<>>
  OBVIOUS
<1> HIDE DEF q
<1>3. Len(q) \in Nat \ {0} /\ Last(q) = q[Len(q)]
  BY <1>1, <1>2, FrontShape
<1>4. /\ r \in Seq(S) /\ Len(r) = Len(q) /\ r[Len(q)] = g
      /\ \A i \in 1 .. Len(q) - 1 : r[i] = q[i]
  BY <1>1, <1>2, ReplacedLast
<1>5. DOMAIN s = 1 .. Len(s) /\ DOMAIN r = 1 .. Len(r)
  BY <1>1, <1>4, LenProperties
<1> HIDE DEF r
<1>6. Last(q) = s[Len(s) - 1]
  BY <1>1, <1>3
<1>7. \A i \in 1 .. (Len(s) - 1) - 1 : r[i] = s[i]
  BY <1>1, <1>3, <1>4
<1> QED BY <1>1, <1>3, <1>4, <1>5, <1>6, <1>7 DEF q, r

-----------------------------------------------------------------------------
(* The inductive invariant *)

ImportPCs == {"import", "find", "load", "exec", "claim", "pop", "hook",
              "bind", "raised"}
Frames == [name: Modules, pc: ImportPCs, at: Nat, chain: SUBSET Triggers,
           todo: SUBSET Modules]

\* The types of the import system's variables: only triggers have wrappers.
HooksTypeOK ==
  /\ pending \in SUBSET Triggers
  /\ modules \in [Modules -> {"absent", "loading", "loaded"}]
  /\ hook \in [Triggers -> {"none", "installed", "failed"}]
  /\ stack \in [Importers -> Seq(Frames)]
  /\ script \in [Importers -> Seq(Modules)]
  /\ shared \in SUBSET (Triggers \cap Archive)

\* A module is being loaded by one import only: its lock is held.
OneLoader ==
  \A t, u \in Importers : \A i \in DOMAIN stack[t], j \in DOMAIN stack[u] :
    /\ stack[t][i].name = stack[u][j].name
    /\ stack[t][i].pc # "import" /\ stack[u][j].pc # "import"
    => t = u /\ i = j

\* m's hook is running.
InHook(m) ==
  \E t \in Importers : \E i \in DOMAIN stack[t] :
    stack[t][i].name = m /\ stack[t][i].pc = "hook"

\* The import of a trigger whose hook has not run is still to ask the
\* detector's finder, or has its wrapper on the way to exec_module.
Covered(f, hooks, wrappers) ==
  /\ f.pc = "import" => f.at = 1
  /\ f.name \in Triggers /\ hooks[f.name] = "none" =>
       /\ f.pc = "find" => f.at = 1
       /\ f.pc = "load" => IF f.name \in Archive THEN f.name \in wrappers
                           ELSE f.name \in f.chain
       /\ f.pc = "exec" => f.name \in f.chain
       /\ f.pc # "bind"

FrameOK(t, i) == Covered(stack[t][i], hook, shared)

\* The detector's finder is asked first while a trigger is pending, and a
\* trigger is pending until its hook runs.
HooksInv ==
  /\ HooksTypeOK
  /\ OneLoader
  /\ pending # {} => metaPath[1] = "detector" /\ 1 <= Len(metaPath)
  /\ \A m \in Triggers : m \in pending \/ hook[m] # "none" \/ InHook(m)
  /\ \A t \in Importers : \A i \in DOMAIN stack[t] : FrameOK(t, i)
  /\ BoundIsHooked

\* What a step must do, and leave alone, to keep it.
LEMMA HooksKept ==
  ASSUME HooksInv, HooksTypeOK', OneLoader',
         \A u \in Importers : \A i \in DOMAIN stack'[u] :
           \/ i \in DOMAIN stack[u] /\ stack'[u][i] = stack[u][i]
           \/ FrameOK(u, i)',
         \A m \in Triggers : hook[m] # "none" => hook'[m] # "none",
         \A m \in Triggers : InHook(m) => InHook(m)' \/ hook'[m] # "none",
         \A m \in shared \ shared' :
           \A u \in Importers : \A i \in DOMAIN stack[u] :
             ~(stack[u][i].name = m /\ stack[u][i].pc = "load"),
         pending' \subseteq pending,
         \A m \in pending \ pending' : InHook(m)' \/ hook'[m] # "none",
         pending' # {} => metaPath' = metaPath,
         \A m \in Triggers : modules'[m] = "loaded" =>
           modules[m] = "loaded" \/ hook'[m] # "none"
  PROVE  HooksInv'
<1>1. ASSUME NEW u \in Importers, NEW i \in DOMAIN stack'[u]
      PROVE  FrameOK(u, i)'
  <2>1. CASE i \in DOMAIN stack[u] /\ stack'[u][i] = stack[u][i]
    <3>1. FrameOK(u, i)
      BY <2>1 DEF HooksInv
    <3> QED BY <2>1, <3>1 DEF FrameOK, Covered
  <2> QED BY <2>1
<1>2. \A m \in Triggers : m \in pending' \/ hook'[m] # "none" \/ InHook(m)'
  BY DEF HooksInv
<1>3. BoundIsHooked'
  BY DEF HooksInv, BoundIsHooked
<1>4. pending' # {} => metaPath'[1] = "detector" /\ 1 <= Len(metaPath')
  BY DEF HooksInv
<1> QED BY <1>1, <1>2, <1>3, <1>4 DEF HooksInv

\* A module goes on being loaded by one import when no other begins to.
LEMMA OneLoaderKept ==
  ASSUME OneLoader,
         \A u \in Importers : \A i \in DOMAIN stack'[u] :
           stack'[u][i].pc # "import" =>
             /\ i \in DOMAIN stack[u] /\ stack[u][i].pc # "import"
             /\ stack[u][i].name = stack'[u][i].name
  PROVE  OneLoader'
<1> SUFFICES ASSUME NEW t \in Importers, NEW u \in Importers,
                    NEW i \in DOMAIN stack'[t], NEW j \in DOMAIN stack'[u],
                    stack'[t][i].name = stack'[u][j].name,
                    stack'[t][i].pc # "import", stack'[u][j].pc # "import"
             PROVE  t = u /\ i = j
  BY DEF OneLoader
<1>1. /\ i \in DOMAIN stack[t] /\ stack[t][i].pc # "import"
      /\ j \in DOMAIN stack[u] /\ stack[u][j].pc # "import"
      /\ stack[t][i].name = stack[u][j].name
  OBVIOUS
<1> QED BY <1>1 DEF OneLoader

\* The frames after the innermost import of a thread has gone on.
LEMMA GoOnShape ==
  ASSUME HooksTypeOK, NEW t \in Importers, stack[t] # <<>>,
         NEW g \in Frames, GoOn(t, g)
  PROVE  /\ stack' \in [Importers -> Seq(Frames)]
         /\ \A u \in Importers : DOMAIN stack'[u] = DOMAIN stack[u]
         /\ Len(stack[t]) \in DOMAIN stack[t]
         /\ Innermost(t) = stack[t][Len(stack[t])] /\ Innermost(t) \in Frames
         /\ stack'[t][Len(stack[t])] = g
         /\ \A u \in Importers : \A i \in DOMAIN stack[u] :
              <<u, i>> # <<t, Len(stack[t])>> => stack'[u][i] = stack[u][i]
<1> DEFINE s == stack[t]
           r == Append(Front(s), g)
<1>1. s \in Seq(Frames) /\ s # <<>>
  BY DEF HooksTypeOK
<1>2. stack' = [stack EXCEPT ![t] = r]
  BY DEF GoOn
<1>3. /\ r \in Seq(Frames) /\ Len(r) = Len(s) /\ r[Len(s)] = g
      /\ \A i \in 1 .. Len(s) - 1 : r[i] = s[i]
  BY <1>1, ReplacedLast
<1>4. /\ DOMAIN s = 1 .. Len(s) /\ DOMAIN r = 1 .. Len(r)
      /\ Len(s) \in Nat \ {0} /\ Last(s) = s[Len(s)] /\ Last(s) \in Frames
  BY <1>1, <1>3, LenProperties, FrontShape
<1> HIDE DEF r
<1>5. stack'[t] = r /\ \A u \in Importers : u # t => stack'[u] = stack[u]
  BY <1>2 DEF HooksTypeOK
<1>6. stack' \in [Importers -> Seq(Frames)]
  BY <1>2, <1>3 DEF HooksTypeOK
<1>7. \A i \in DOMAIN s : i # Len(s) => r[i] = s[i]
  BY <1>3, <1>4
<1> QED BY <1>3, <1>4, <1>5, <1>6, <1>7 DEF Innermost

\* The frames after a thread's innermost import is over.
LEMMA OverShape ==
  ASSUME HooksTypeOK, NEW t \in Importers, stack[t] # <<>>,
         stack' = [stack EXCEPT ![t] = Front(@)]
  PROVE  /\ stack' \in [Importers -> Seq(Frames)]
         /\ Len(stack[t]) \in DOMAIN stack[t]
         /\ Innermost(t) = stack[t][Len(stack[t])] /\ Innermost(t) \in Frames
         /\ \A u \in Importers : DOMAIN stack'[u] =
              IF u = t THEN DOMAIN stack[t] \ {Len(stack[t])}
              ELSE DOMAIN stack[u]
         /\ \A u \in Importers : \A i \in DOMAIN stack'[u] :
              i \in DOMAIN stack[u] /\ stack'[u][i] = stack[u][i]
<1> DEFINE s == stack[t]
           r == Front(s)
<1>1. s \in Seq(Frames) /\ s # <<>>
  BY DEF HooksTypeOK
<1>3. /\ r \in Seq(Frames) /\ Len(r) = Len(s) - 1
      /\ \A i \in 1 .. Len(s) - 1 : r[i] = s[i]
      /\ Len(s) \in Nat \ {0} /\ Last(s) = s[Len(s)] /\ Last(s) \in Frames
  BY <1>1, FrontShape
<1>4. DOMAIN s = 1 .. Len(s) /\ DOMAIN r = 1 .. Len(r)
  BY <1>1, <1>3, LenProperties
<1>2. stack' = [stack EXCEPT ![t] = r]
  OBVIOUS
<1> HIDE DEF r
<1>5. stack'[t] = r /\ \A u \in Importers : u # t => stack'[u] = stack[u]
  BY <1>2 DEF HooksTypeOK
<1>6. stack' \in [Importers -> Seq(Frames)]
  BY <1>2, <1>3 DEF HooksTypeOK
<1>7. DOMAIN r = DOMAIN s \ {Len(s)}
  BY <1>3, <1>4
<1>8. \A i \in DOMAIN r : i \in DOMAIN s /\ r[i] = s[i]
  BY <1>3, <1>4
<1> QED BY <1>3, <1>4, <1>5, <1>6, <1>7, <1>8 DEF Innermost

\* The changes of a frame's fields.
LEMMA FrameChanges ==
  ASSUME NEW f \in Frames, NEW w \in ImportPCs, NEW n \in Nat,
         NEW c \in SUBSET Triggers, NEW d \in SUBSET Modules
  PROVE  /\ f.name \in Modules /\ f.at \in Nat /\ f.chain \subseteq Triggers
         /\ f.todo \subseteq Modules /\ f.pc \in ImportPCs
         /\ [f EXCEPT !.pc = w] \in Frames
         /\ [f EXCEPT !.at = n] \in Frames
         /\ [f EXCEPT !.todo = d] \in Frames
         /\ [f EXCEPT !.pc = w, !.chain = c] \in Frames
         /\ [f EXCEPT !.pc = w, !.todo = d] \in Frames
         /\ [f EXCEPT !.pc = w, !.todo = d, !.chain = c] \in Frames
<1>1. /\ f.name \in Modules /\ f.at \in Nat /\ f.chain \subseteq Triggers
      /\ f.todo \subseteq Modules /\ f.pc \in ImportPCs
  BY DEF Frames
<1>2. [f EXCEPT !.pc = w] \in Frames
  BY DEF Frames
<1>3. [f EXCEPT !.at = n] \in Frames
  BY DEF Frames
<1>4. [f EXCEPT !.todo = d] \in Frames
  BY DEF Frames
<1>5. [f EXCEPT !.pc = w, !.chain = c] \in Frames
  BY DEF Frames
<1>6. [f EXCEPT !.pc = w, !.todo = d] \in Frames
  BY DEF Frames
<1>7. [f EXCEPT !.pc = w, !.todo = d, !.chain = c] \in Frames
  BY DEF Frames
<1> QED BY <1>1, <1>2, <1>3, <1>4, <1>5, <1>6, <1>7

\* A thread that is somewhere in an import has a frame for it.
LEMMA InnermostFrame ==
  ASSUME HooksTypeOK, NEW t \in Importers, stack[t] # <<>>
  PROVE  /\ Len(stack[t]) \in DOMAIN stack[t]
         /\ Innermost(t) = stack[t][Len(stack[t])] /\ Innermost(t) \in Frames
<1>1. stack[t] \in Seq(Frames)
  BY DEF HooksTypeOK
<1>2. /\ Len(stack[t]) \in Nat \ {0} /\ Last(stack[t]) \in Frames
      /\ DOMAIN stack[t] = 1 .. Len(stack[t])
      /\ Last(stack[t]) = stack[t][Len(stack[t])]
  BY <1>1, FrontShape, LenProperties
<1> QED BY <1>2 DEF Innermost

\* While a module is being loaded its hook runs nowhere else.
LEMMA NotInHook ==
  ASSUME HooksInv, NEW t \in Importers, NEW i \in DOMAIN stack[t],
         stack[t][i].pc \notin {"import", "hook"}
  PROVE  ~InHook(stack[t][i].name)
BY DEF HooksInv, OneLoader, InHook

\* The innermost import of a thread goes on, outside fire.
LEMMA HooksGoOn ==
  ASSUME HooksInv, NEW t \in Importers, stack[t] # <<>>, NEW g \in Frames,
         GoOn(t, g), g.name = Innermost(t).name,
         Innermost(t).pc # "import" \/ ~Loading(g.name),
         Innermost(t).pc # "hook",
         hook' = hook, pending' = pending, metaPath' = metaPath,
         script' = script,
         modules' \in [Modules -> {"absent", "loading", "loaded"}],
         \A m \in Triggers : modules'[m] = "loaded" => modules[m] = "loaded",
         shared' \in SUBSET (Triggers \cap Archive),
         \A m \in shared \ shared' :
           m = g.name /\ Innermost(t).pc \notin {"import", "load"},
         Covered(g, hook', shared')
  PROVE  HooksInv'
<1> DEFINE n == Len(stack[t])
<1>0. HooksTypeOK /\ OneLoader
  BY DEF HooksInv
<1>1. /\ stack' \in [Importers -> Seq(Frames)]
      /\ \A u \in Importers : DOMAIN stack'[u] = DOMAIN stack[u]
      /\ n \in DOMAIN stack[t] /\ Innermost(t) = stack[t][n]
      /\ stack'[t][n] = g
      /\ \A u \in Importers : \A i \in DOMAIN stack[u] :
           <<u, i>> # <<t, n>> => stack'[u][i] = stack[u][i]
  BY <1>0, GoOnShape
<1> HIDE DEF n
<1>2. HooksTypeOK'
  BY <1>0, <1>1 DEF HooksTypeOK
<1>3. OneLoader'
  <2>1. CASE Innermost(t).pc # "import"
    <3>1. ASSUME NEW u \in Importers, NEW i \in DOMAIN stack'[u],
                 stack'[u][i].pc # "import"
          PROVE  /\ i \in DOMAIN stack[u] /\ stack[u][i].pc # "import"
                 /\ stack[u][i].name = stack'[u][i].name
      <4>1. CASE <<u, i>> = <<t, n>>
        BY <1>1, <2>1, <4>1
      <4>2. CASE <<u, i>> # <<t, n>>
        BY <1>1, <3>1, <4>2
      <4> QED BY <4>1, <4>2
    <3> QED BY <1>0, <3>1, OneLoaderKept
  <2>2. CASE ~Loading(g.name)
    <3>1. \A u \in Importers : \A i \in DOMAIN stack[u] :
            stack[u][i].name = g.name => stack[u][i].pc = "import"
      BY <2>2 DEF Loading
    <3>2. ASSUME NEW a \in Importers, NEW b \in Importers,
                 NEW i \in DOMAIN stack'[a], NEW j \in DOMAIN stack'[b],
                 stack'[a][i].name = stack'[b][j].name,
                 stack'[a][i].pc # "import", stack'[b][j].pc # "import"
          PROVE  a = b /\ i = j
      <4>1. i \in DOMAIN stack[a] /\ j \in DOMAIN stack[b]
        BY <1>1
      <4>2. CASE <<a, i>> = <<t, n>> /\ <<b, j>> # <<t, n>>
        BY <1>1, <3>1, <3>2, <4>1, <4>2
      <4>3. CASE <<a, i>> # <<t, n>> /\ <<b, j>> = <<t, n>>
        BY <1>1, <3>1, <3>2, <4>1, <4>3
      <4>4. CASE <<a, i>> # <<t, n>> /\ <<b, j>> # <<t, n>>
        BY <1>0, <1>1, <3>2, <4>1, <4>4 DEF OneLoader
      <4> QED BY <4>2, <4>3, <4>4
    <3> QED BY <3>2 DEF OneLoader
  <2> QED BY <2>1, <2>2
<1>4. \A u \in Importers : \A i \in DOMAIN stack'[u] :
        \/ i \in DOMAIN stack[u] /\ stack'[u][i] = stack[u][i]
        \/ FrameOK(u, i)'
  BY <1>1 DEF FrameOK
<1>5. ASSUME NEW m \in Triggers, InHook(m) PROVE InHook(m)'
  <2>1. PICK u \in Importers : \E i \in DOMAIN stack[u] :
          stack[u][i].name = m /\ stack[u][i].pc = "hook"
    BY <1>5 DEF InHook
  <2>2. PICK i \in DOMAIN stack[u] :
          stack[u][i].name = m /\ stack[u][i].pc = "hook"
    BY <2>1
  <2>3. <<u, i>> # <<t, n>>
    BY <1>1, <2>2
  <2> QED BY <1>1, <2>2, <2>3 DEF InHook
<1>6. ASSUME NEW m \in shared \ shared', NEW u \in Importers,
             NEW i \in DOMAIN stack[u],
             stack[u][i].name = m, stack[u][i].pc = "load"
      PROVE  FALSE
  <2>1. m = stack[t][n].name /\ stack[t][n].pc \notin {"import", "load"}
    BY <1>1, <1>6
  <2>2. u = t /\ i = n
    BY <1>0, <1>1, <1>6, <2>1 DEF OneLoader
  <2> QED BY <1>6, <2>1, <2>2
<1> QED BY <1>2, <1>3, <1>4, <1>5, <1>6, HooksKept

\* Two triggers that one archive holds share the wrappers on its loader, and
\* the first to have run removes both.
OneShared == \A a, b \in Triggers \cap Archive : a = b

\* A thread starts an import, finds the module loaded, or takes its lock.
LEMMA HooksBegin ==
  ASSUME HooksInv, NEW t \in Importers, Statement(t) \/ Enter(t)
  PROVE  HooksInv'
<1>0. HooksTypeOK /\ OneLoader
  BY DEF HooksInv
<1>1. CASE Statement(t)
  <2>1. script[t] \in Seq(Modules) /\ script[t] # <<>>
    BY <1>0, <1>1 DEF Statement, HooksTypeOK
  <2>2. Head(script[t]) \in Modules /\ Tail(script[t]) \in Seq(Modules)
    BY <2>1, HeadTailProperties
  <2> DEFINE f == Frame(Head(script[t]))
  <2>3. f \in Frames /\ f.pc = "import" /\ f.at = 1
    BY <2>2 DEF Frame, Frames, ImportPCs
  <2>4. /\ stack' = [stack EXCEPT ![t] = <<f>>]
        /\ script' = [script EXCEPT ![t] = Tail(@)]
        /\ stack[t] = <<>>
    BY <1>1 DEF Statement
  <2> HIDE DEF f
  <2>5. HooksTypeOK'
    BY <1>0, <1>1, <2>2, <2>3, <2>4 DEF Statement, HooksTypeOK
  <2>6. /\ \A u \in Importers : u # t => stack'[u] = stack[u]
        /\ stack'[t] = <<f>>
    BY <1>0, <2>4 DEF HooksTypeOK
  <2>7. \A i \in DOMAIN stack'[t] : stack'[t][i] = f
    BY <2>6
  <2>8. OneLoader'
    BY <1>0, <2>3, <2>6, <2>7, OneLoaderKept
  <2>9. ASSUME NEW u \in Importers, NEW i \in DOMAIN stack'[u]
        PROVE  \/ i \in DOMAIN stack[u] /\ stack'[u][i] = stack[u][i]
               \/ FrameOK(u, i)'
    <3>1. CASE u = t
      BY <2>3, <2>7, <2>9, <3>1 DEF FrameOK, Covered
    <3> QED BY <2>6, <2>9, <3>1
  <2>10. \A m \in Triggers : InHook(m) => InHook(m)'
    BY <2>4, <2>6 DEF InHook
  <2> QED BY <1>1, <2>5, <2>8, <2>9, <2>10, HooksKept DEF Statement
<1>2. ASSUME At(t, "import"), modules[Innermost(t).name] = "loaded",
             stack' = [stack EXCEPT ![t] = Front(@)], Enter(t)
      PROVE  HooksInv'
  <2>1. stack[t] # <<>> /\ Innermost(t).pc = "import"
    BY <1>2 DEF At
  <2>2. /\ stack' \in [Importers -> Seq(Frames)]
        /\ Innermost(t) = stack[t][Len(stack[t])]
        /\ \A u \in Importers : DOMAIN stack'[u] =
             IF u = t THEN DOMAIN stack[t] \ {Len(stack[t])}
             ELSE DOMAIN stack[u]
        /\ \A u \in Importers : \A i \in DOMAIN stack'[u] :
             i \in DOMAIN stack[u] /\ stack'[u][i] = stack[u][i]
    BY <1>0, <1>2, <2>1, OverShape
  <2>3. HooksTypeOK'
    BY <1>0, <1>2, <2>2 DEF Enter, HooksTypeOK
  <2>4. OneLoader'
    BY <1>0, <2>2, OneLoaderKept
  <2>5. \A m \in Triggers : InHook(m) => InHook(m)'
    BY <2>1, <2>2 DEF InHook
  <2> QED BY <1>2, <2>2, <2>3, <2>4, <2>5, HooksKept DEF Enter
<1>3. ASSUME At(t, "import"), ~Loading(Innermost(t).name),
             GoOn(t, [Innermost(t) EXCEPT !.pc = "find"]), Enter(t)
      PROVE  HooksInv'
  <2> DEFINE f == Innermost(t)
             g == [f EXCEPT !.pc = "find"]
             n == Len(stack[t])
  <2>1. stack[t] # <<>> /\ f.pc = "import"
    BY <1>3 DEF At
  <2>2. n \in DOMAIN stack[t] /\ f = stack[t][n] /\ f \in Frames
    BY <1>0, <2>1, InnermostFrame
  <2>3. g \in Frames
    BY <2>2, FrameChanges DEF ImportPCs
  <2>4. g.name = f.name /\ g.pc = "find" /\ g.at = f.at
    BY <2>2 DEF Frames
  <2>5. f.at = 1
    BY <2>1, <2>2 DEF HooksInv, FrameOK, Covered
  <2>6. GoOn(t, g)
    BY <1>3
  <2> HIDE DEF g
  <2>7. Covered(g, hook', shared')
    BY <2>4, <2>5 DEF Covered
  <2> QED BY <1>0, <1>3, <2>1, <2>3, <2>4, <2>6, <2>7, HooksGoOn
          DEF Enter, HooksTypeOK
<1> QED BY <1>1, <1>2, <1>3 DEF Enter

\* The import of a trigger whose hook has not run gets its wrapper: nobody
\* else can have taken the hook, so it is pending and the detector's finder,
\* which is first, wraps the loader (find_spec).
LEMMA HooksFind ==
  ASSUME HooksInv, NEW t \in Importers, find_spec(t)
  PROVE  HooksInv'
<1> DEFINE f == Innermost(t)
           n == Len(stack[t])
           finder == metaPath[f.at]
           wraps == finder = "detector" /\ f.name \in pending
           own == wraps /\ f.name \notin Archive
<1>0. HooksTypeOK
  BY DEF HooksInv
<1>1. stack[t] # <<>> /\ f.pc = "find"
  BY DEF find_spec, At
<1>2. n \in DOMAIN stack[t] /\ f = stack[t][n] /\ f \in Frames
  BY <1>0, <1>1, InnermostFrame
<1>3. /\ metaPath' = metaPath /\ pending' = pending /\ modules' = modules
      /\ hook' = hook /\ script' = script
  BY DEF find_spec
<1>4. ASSUME f.name \in Triggers, hook[f.name] = "none"
      PROVE  f.at = 1 /\ wraps /\ f.at <= Len(metaPath)
  <2>1. f.at = 1
    BY <1>1, <1>2, <1>4 DEF HooksInv, FrameOK, Covered
  <2>2. ~InHook(f.name)
    BY <1>1, <1>2, NotInHook
  <2>3. f.name \in pending
    BY <1>4, <2>2 DEF HooksInv
  <2> QED BY <2>1, <2>3 DEF HooksInv
<1>5. f.at \in Nat /\ f.chain \subseteq Triggers /\ f.name \in Modules
  BY <1>2 DEF Frames
<1>6. CASE GoOn(t, [f EXCEPT !.pc = "raised"]) /\ UNCHANGED shared
  <2> DEFINE g == [f EXCEPT !.pc = "raised"]
  <2>1. g \in Frames
    BY <1>2, FrameChanges DEF ImportPCs
  <2>2. g.name = f.name /\ g.pc = "raised"
    BY <1>2 DEF Frames
  <2>3. GoOn(t, g)
    BY <1>6
  <2> HIDE DEF g
  <2>4. Covered(g, hook', shared')
    BY <2>2 DEF Covered
  <2> QED BY <1>0, <1>1, <1>3, <1>6, <2>1, <2>2, <2>3, <2>4, HooksGoOn
          DEF HooksTypeOK
<1>7. CASE /\ wraps \/ finder = "path"
           /\ GoOn(t, [f EXCEPT !.pc = "load",
                         !.chain = IF own THEN {f.name} ELSE {}])
           /\ shared' = IF wraps /\ ~own THEN shared \cup {f.name} ELSE shared
  <2> DEFINE c == IF own THEN {f.name} ELSE {}
             g == [f EXCEPT !.pc = "load", !.chain = c]
  <2>1. c \in SUBSET Triggers
    BY <1>0 DEF HooksTypeOK
  <2>2. GoOn(t, g)
    BY <1>7
  <2>3. own => f.name \in c
    OBVIOUS
  <2> HIDE DEF c
  <2>4. g \in Frames
    BY <1>2, <2>1, FrameChanges DEF ImportPCs
  <2>5. g.name = f.name /\ g.pc = "load" /\ g.chain = c
    BY <1>2 DEF Frames
  <2> HIDE DEF g
  <2>6. /\ shared' \in SUBSET (Triggers \cap Archive) /\ shared \subseteq shared'
        /\ wraps /\ ~own => f.name \in shared'
    BY <1>0, <1>7 DEF HooksTypeOK
  <2>7. Covered(g, hook', shared')
    BY <1>3, <1>4, <2>3, <2>5, <2>6 DEF Covered
  <2> HIDE DEF wraps, own
  <2> QED BY <1>0, <1>1, <1>3, <2>2, <2>4, <2>5, <2>6, <2>7, HooksGoOn
          DEF HooksTypeOK
<1>8. CASE /\ ~(wraps \/ finder = "path") /\ f.at <= Len(metaPath)
           /\ GoOn(t, [f EXCEPT !.at = @ + 1])
           /\ UNCHANGED shared
  <2> DEFINE g == [f EXCEPT !.at = f.at + 1]
  <2>1. g \in Frames
    BY <1>2, <1>5 DEF Frames
  <2>2. g.name = f.name /\ g.pc = f.pc
    BY <1>2 DEF Frames
  <2>3. GoOn(t, g)
    BY <1>8
  <2> HIDE DEF g
  <2>4. Covered(g, hook', shared')
    BY <1>1, <1>3, <1>4, <1>8, <2>2 DEF Covered
  <2> QED BY <1>0, <1>1, <1>3, <1>8, <2>1, <2>2, <2>3, <2>4, HooksGoOn
          DEF HooksTypeOK
<1> QED BY <1>6, <1>7, <1>8 DEF find_spec, Wraps

\* A probe only adds a wrapper.
LEMMA HooksProbe ==
  ASSUME HooksInv, NEW t \in Importers, NEW m \in Modules, Probe(t, m)
  PROVE  HooksInv'
<1>1. HooksTypeOK' /\ shared \subseteq shared'
  BY DEF Probe, Wraps, HooksInv, HooksTypeOK
<1>2. OneLoader'
  BY DEF Probe, HooksInv, OneLoader
<1>3. \A a \in Triggers : InHook(a) => InHook(a)'
  BY DEF Probe, InHook
<1> QED BY <1>1, <1>2, <1>3, HooksKept DEF Probe

\* The wrapper is still there when exec_module is looked up.
LEMMA HooksLoad ==
  ASSUME HooksInv, NEW t \in Importers, Load(t)
  PROVE  HooksInv'
<1> DEFINE f == Innermost(t)
           c == IF f.name \in Archive THEN shared ELSE f.chain
           g == [f EXCEPT !.pc = "exec", !.todo = Imports[f.name], !.chain = c]
<1>0. HooksTypeOK
  BY DEF HooksInv
<1>1. stack[t] # <<>> /\ f.pc = "load"
  BY DEF Load, At
<1>2. /\ Len(stack[t]) \in DOMAIN stack[t] /\ f = stack[t][Len(stack[t])]
      /\ f \in Frames
  BY <1>0, <1>1, InnermostFrame
<1>3. f.name \in Modules /\ f.chain \subseteq Triggers
  BY <1>2 DEF Frames
<1>4. c \in SUBSET Triggers /\ Imports[f.name] \in SUBSET Modules
  BY <1>0, <1>3, HooksAssumption DEF HooksTypeOK
<1>5. f.name \in Triggers /\ hook[f.name] = "none" => f.name \in c
  BY <1>1, <1>2 DEF HooksInv, FrameOK, Covered
<1>6. GoOn(t, g)
  BY DEF Load
<1> HIDE DEF c
<1>7. g \in Frames
  BY <1>2, <1>4, FrameChanges DEF ImportPCs
<1>8. g.name = f.name /\ g.pc = "exec" /\ g.chain = c
  BY <1>2 DEF Frames
<1> HIDE DEF g
<1>9. /\ hook' = hook /\ shared' = shared /\ pending' = pending
      /\ metaPath' = metaPath /\ script' = script
      /\ modules' = [modules EXCEPT ![f.name] = "loading"]
  BY DEF Load
<1>10. Covered(g, hook', shared')
  BY <1>5, <1>8, <1>9 DEF Covered
<1>11. /\ modules' \in [Modules -> {"absent", "loading", "loaded"}]
       /\ \A m \in Triggers : modules'[m] = "loaded" => modules[m] = "loaded"
  BY <1>0, <1>3, <1>9, HooksAssumption DEF HooksTypeOK
<1> QED BY <1>0, <1>1, <1>6, <1>7, <1>8, <1>9, <1>10, <1>11, HooksGoOn
        DEF HooksTypeOK

\* A wrapper is removed by its own module only, which is past its load.
LEMMA RestoreKeeps ==
  ASSUME OneShared, HooksTypeOK, NEW f \in Frames, Restore(f)
  PROVE  /\ shared' \in SUBSET (Triggers \cap Archive)
         /\ \A m \in shared \ shared' : m = f.name
<1>1. f.chain \subseteq Triggers
  BY DEF Frames
<1> QED BY <1>1 DEF Restore, OneShared, HooksTypeOK

\* The top level of a module ends or raises: the import of a trigger whose hook
\* has not run goes on to fire.
LEMMA HooksExec ==
  ASSUME OneShared, HooksInv, NEW t \in Importers,
         Executed(t) \/ ExecRaises(t) \/ _claim(t)
  PROVE  HooksInv'
<1> DEFINE f == Innermost(t)
<1>0. HooksTypeOK
  BY DEF HooksInv
<1>1. stack[t] # <<>> /\ f.pc \in {"exec", "claim"}
  BY DEF Executed, ExecRaises, _claim, At
<1>2. /\ Len(stack[t]) \in DOMAIN stack[t] /\ f = stack[t][Len(stack[t])]
      /\ f \in Frames
  BY <1>0, <1>1, InnermostFrame
<1>3. f.name \in Modules
  BY <1>2 DEF Frames
<1>4. /\ hook' = hook /\ pending' = pending /\ metaPath' = metaPath
      /\ script' = script
  BY DEF Executed, ExecRaises, _claim, Raises
<1>5. CASE Executed(t)
  <2> DEFINE w == IF Fires(f) THEN "claim" ELSE "bind"
             g == [f EXCEPT !.pc = w]
  <2>1. w \in ImportPCs
    BY DEF ImportPCs
  <2>2. GoOn(t, g) /\ modules' = modules /\ Restore(f) /\ f.pc = "exec"
    BY <1>5 DEF Executed, At
  <2>3. f.name \in Triggers /\ hook[f.name] = "none" => w # "bind"
    BY <1>2, <2>2 DEF HooksInv, FrameOK, Covered, Fires
  <2>4. w \in {"claim", "bind"}
    OBVIOUS
  <2> HIDE DEF w
  <2>5. g \in Frames
    BY <1>2, <2>1, FrameChanges
  <2>6. g.name = f.name /\ g.pc = w
    BY <1>2 DEF Frames
  <2> HIDE DEF g
  <2>7. Covered(g, hook', shared')
    BY <1>4, <2>3, <2>4, <2>6 DEF Covered
  <2>8. /\ shared' \in SUBSET (Triggers \cap Archive)
        /\ \A m \in shared \ shared' : m = f.name
    BY <1>0, <1>2, <2>2, RestoreKeeps
  <2> QED BY <1>0, <1>1, <1>4, <2>2, <2>5, <2>6, <2>7, <2>8, HooksGoOn
          DEF HooksTypeOK
<1>6. CASE ExecRaises(t)
  <2> DEFINE g == [f EXCEPT !.pc = "raised"]
  <2>1. /\ GoOn(t, g) /\ Restore(f) /\ f.pc = "exec"
        /\ modules' = [modules EXCEPT ![f.name] = "absent"]
    BY <1>6 DEF ExecRaises, Raises, GoOn, Innermost, At
  <2>2. g \in Frames
    BY <1>2, FrameChanges DEF ImportPCs
  <2>3. g.name = f.name /\ g.pc = "raised"
    BY <1>2 DEF Frames
  <2> HIDE DEF g
  <2>4. Covered(g, hook', shared')
    BY <2>3 DEF Covered
  <2>5. /\ shared' \in SUBSET (Triggers \cap Archive)
        /\ \A m \in shared \ shared' : m = f.name
    BY <1>0, <1>2, <2>1, RestoreKeeps
  <2>6. /\ modules' \in [Modules -> {"absent", "loading", "loaded"}]
        /\ \A m \in Triggers : modules'[m] = "loaded" => modules[m] = "loaded"
    BY <1>0, <1>3, <2>1, HooksAssumption DEF HooksTypeOK
  <2> QED BY <1>1, <1>4, <2>1, <2>2, <2>3, <2>4, <2>5, <2>6, HooksGoOn
<1>7. CASE _claim(t)
  <2> DEFINE g == [f EXCEPT !.pc = "pop"]
  <2>1. GoOn(t, g) /\ modules' = modules /\ shared' = shared /\ f.pc = "claim"
    BY <1>7 DEF _claim, At
  <2>2. g \in Frames
    BY <1>2, FrameChanges DEF ImportPCs
  <2>3. g.name = f.name /\ g.pc = "pop"
    BY <1>2 DEF Frames
  <2> HIDE DEF g
  <2>4. Covered(g, hook', shared')
    BY <2>3 DEF Covered
  <2> QED BY <1>0, <1>1, <1>4, <2>1, <2>2, <2>3, <2>4, HooksGoOn
          DEF HooksTypeOK
<1> QED BY <1>5, <1>6, <1>7

\* A module or a hook that imports another one stays where it is.
LEMMA HooksNested ==
  ASSUME HooksInv, NEW t \in Importers, Nested(t)
  PROVE  HooksInv'
<1> DEFINE f == Innermost(t)
           n == Len(stack[t])
<1>0. HooksTypeOK /\ OneLoader
  BY DEF HooksInv
<1>1. stack[t] # <<>> /\ f.pc \in {"exec", "hook"}
  BY DEF Nested, At
<1>2. n \in DOMAIN stack[t] /\ f = stack[t][n] /\ f \in Frames
  BY <1>0, <1>1, InnermostFrame
<1>3. PICK m \in f.todo : stack' = [stack EXCEPT ![t] =
        Append(Append(Front(stack[t]), [f EXCEPT !.todo = f.todo \ {m}]),
               Frame(m))]
  BY DEF Nested
<1> DEFINE g == [f EXCEPT !.todo = f.todo \ {m}]
           h == Frame(m)
           q == Append(Front(stack[t]), g)
           r == Append(q, h)
<1>4. m \in Modules /\ f.todo \ {m} \subseteq Modules
  BY <1>2 DEF Frames
<1>5. g \in Frames /\ g.name = f.name /\ g.pc = f.pc /\ g.chain = f.chain
  BY <1>2, <1>4 DEF Frames
<1>6. h \in Frames /\ h.pc = "import" /\ h.at = 1
  BY <1>4 DEF Frame, Frames, ImportPCs
<1>7. stack[t] \in Seq(Frames) /\ n \in Nat \ {0} /\ DOMAIN stack[t] = 1 .. n
  BY <1>0, <1>1, LenProperties, EmptySeq DEF HooksTypeOK
<1> HIDE DEF g, h
<1>8. /\ r \in Seq(Frames) /\ Len(r) = n + 1 /\ r[n] = g /\ r[n + 1] = h
      /\ \A i \in 1 .. n - 1 : r[i] = stack[t][i]
  <2>1. /\ q \in Seq(Frames) /\ Len(q) = n /\ q[n] = g
        /\ \A i \in 1 .. n - 1 : q[i] = stack[t][i]
    BY <1>1, <1>5, <1>7, ReplacedLast
  <2> HIDE DEF q
  <2>2. /\ r \in Seq(Frames) /\ Len(r) = Len(q) + 1 /\ r[Len(q) + 1] = h
        /\ \A i \in 1 .. Len(q) : r[i] = q[i]
    BY <1>6, <2>1, AppendProperties
  <2> HIDE DEF r
  <2> QED BY <1>7, <2>1, <2>2
<1>9. DOMAIN r = 1 .. n + 1
  BY <1>8, LenProperties
<1>10. stack' = [stack EXCEPT ![t] = r]
  BY <1>3 DEF g, h
<1> HIDE DEF r, n
<1>11. stack'[t] = r /\ \A u \in Importers : u # t => stack'[u] = stack[u]
  BY <1>0, <1>10 DEF HooksTypeOK
<1>12. /\ hook' = hook /\ shared' = shared /\ pending' = pending
       /\ metaPath' = metaPath /\ script' = script /\ modules' = modules
  BY DEF Nested
<1>13. HooksTypeOK'
  BY <1>0, <1>8, <1>10, <1>12 DEF HooksTypeOK
<1>14. \A i \in DOMAIN r : \/ i \in DOMAIN stack[t] /\ r[i] = stack[t][i]
                           \/ i = n /\ r[i] = g
                           \/ r[i] = h
  <2>1. ASSUME NEW i \in DOMAIN r
        PROVE  i \in 1 .. n - 1 \/ i = n \/ i = n + 1
    BY <1>7, <1>9
  <2> QED BY <1>7, <1>8, <2>1
<1>15. OneLoader'
  <2>1. ASSUME NEW u \in Importers, NEW i \in DOMAIN stack'[u],
               stack'[u][i].pc # "import"
        PROVE  /\ i \in DOMAIN stack[u] /\ stack[u][i].pc # "import"
               /\ stack[u][i].name = stack'[u][i].name
    BY <1>2, <1>5, <1>6, <1>11, <1>14, <2>1
  <2> QED BY <1>0, <2>1, OneLoaderKept
<1>16. Covered(g, hook', shared') /\ Covered(h, hook', shared')
  <2>1. Covered(f, hook, shared)
    BY <1>2 DEF HooksInv, FrameOK
  <2> QED BY <1>1, <1>5, <1>6, <1>12, <2>1 DEF Covered
<1>17. \A u \in Importers : \A i \in DOMAIN stack'[u] :
         \/ i \in DOMAIN stack[u] /\ stack'[u][i] = stack[u][i]
         \/ FrameOK(u, i)'
  BY <1>11, <1>14, <1>16 DEF FrameOK
<1>18. ASSUME NEW a \in Triggers, InHook(a) PROVE InHook(a)'
  <2>1. PICK u \in Importers : \E i \in DOMAIN stack[u] :
          stack[u][i].name = a /\ stack[u][i].pc = "hook"
    BY <1>18 DEF InHook
  <2>2. PICK i \in DOMAIN stack[u] :
          stack[u][i].name = a /\ stack[u][i].pc = "hook"
    BY <2>1
  <2>3. CASE u # t
    BY <1>11, <2>2, <2>3 DEF InHook
  <2>4. CASE u = t
    <3>1. i \in DOMAIN r /\ (i = n \/ i \in 1 .. n - 1)
      BY <1>7, <1>9, <2>2, <2>4
    <3>2. r[i].name = a /\ r[i].pc = "hook"
      BY <1>2, <1>5, <1>8, <2>2, <2>4, <3>1
    <3> QED BY <1>11, <3>1, <3>2 DEF InHook
  <2> QED BY <2>3, <2>4
<1> QED BY <1>12, <1>13, <1>15, <1>17, <1>18, HooksKept

\* The innermost import of a thread goes on inside fire.
LEMMA FireGoOn ==
  ASSUME HooksInv, NEW t \in Importers, stack[t] # <<>>, NEW g \in Frames,
         GoOn(t, g), g.name = Innermost(t).name,
         Innermost(t).pc # "import",
         modules' = modules, shared' = shared, script' = script,
         hook' \in [Triggers -> {"none", "installed", "failed"}],
         \A m \in Triggers : hook[m] # "none" => hook'[m] # "none",
         Innermost(t).pc = "hook" /\ g.name \in Triggers =>
           hook'[g.name] # "none",
         pending' \subseteq pending,
         \A m \in pending \ pending' : m = g.name /\ g.pc = "hook",
         pending' # {} => metaPath' = metaPath,
         Covered(g, hook', shared')
  PROVE  HooksInv'
<1> DEFINE n == Len(stack[t])
<1>0. HooksTypeOK /\ OneLoader
  BY DEF HooksInv
<1>1. /\ stack' \in [Importers -> Seq(Frames)]
      /\ \A u \in Importers : DOMAIN stack'[u] = DOMAIN stack[u]
      /\ n \in DOMAIN stack[t] /\ Innermost(t) = stack[t][n]
      /\ stack'[t][n] = g
      /\ \A u \in Importers : \A i \in DOMAIN stack[u] :
           <<u, i>> # <<t, n>> => stack'[u][i] = stack[u][i]
  BY <1>0, GoOnShape
<1> HIDE DEF n
<1>2. HooksTypeOK'
  BY <1>0, <1>1 DEF HooksTypeOK
<1>3. OneLoader'
  <2>1. ASSUME NEW u \in Importers, NEW i \in DOMAIN stack'[u],
               stack'[u][i].pc # "import"
        PROVE  /\ i \in DOMAIN stack[u] /\ stack[u][i].pc # "import"
               /\ stack[u][i].name = stack'[u][i].name
    <3>1. CASE <<u, i>> = <<t, n>>
      BY <1>1, <3>1
    <3>2. CASE <<u, i>> # <<t, n>>
      BY <1>1, <2>1, <3>2
    <3> QED BY <3>1, <3>2
  <2> QED BY <1>0, <2>1, OneLoaderKept
<1>4. \A u \in Importers : \A i \in DOMAIN stack'[u] :
        \/ i \in DOMAIN stack[u] /\ stack'[u][i] = stack[u][i]
        \/ FrameOK(u, i)'
  BY <1>1 DEF FrameOK
<1>5. ASSUME NEW m \in Triggers, InHook(m)
      PROVE  InHook(m)' \/ hook'[m] # "none"
  <2>1. PICK u \in Importers : \E i \in DOMAIN stack[u] :
          stack[u][i].name = m /\ stack[u][i].pc = "hook"
    BY <1>5 DEF InHook
  <2>2. PICK i \in DOMAIN stack[u] :
          stack[u][i].name = m /\ stack[u][i].pc = "hook"
    BY <2>1
  <2>3. CASE <<u, i>> # <<t, n>>
    BY <1>1, <2>2, <2>3 DEF InHook
  <2>4. CASE <<u, i>> = <<t, n>>
    BY <1>1, <2>2, <2>4
  <2> QED BY <2>3, <2>4
<1>6. \A m \in pending \ pending' : InHook(m)' \/ hook'[m] # "none"
  BY <1>1 DEF InHook
<1> QED BY <1>2, <1>3, <1>4, <1>5, <1>6, HooksKept

\* A hook is taken from _pending and run, or has been already (fire).
LEMMA HooksFire ==
  ASSUME HooksInv, NEW t \in Importers, Pop(t) \/ Hook(t)
  PROVE  HooksInv'
<1> DEFINE f == Innermost(t)
<1>0. HooksTypeOK
  BY DEF HooksInv
<1>1. stack[t] # <<>> /\ f.pc \in {"pop", "hook"}
  BY DEF Pop, Hook, At
<1>2. /\ Len(stack[t]) \in DOMAIN stack[t] /\ f = stack[t][Len(stack[t])]
      /\ f \in Frames
  BY <1>0, <1>1, InnermostFrame
<1>3. modules' = modules /\ shared' = shared /\ script' = script
  BY DEF Pop, Hook
<1>4. CASE Pop(t)
  <2>1. /\ pending' = pending \ {f.name} /\ hook' = hook /\ f.pc = "pop"
        /\ pending' # {} => metaPath' = metaPath
    BY <1>4 DEF Pop, At
  <2>2. CASE f.name \in pending
    <3> DEFINE g == [f EXCEPT !.pc = "hook", !.todo = HookImports[f.name]]
    <3>1. HookImports[f.name] \in SUBSET Modules
      BY <1>0, <2>2, HooksAssumption DEF HooksTypeOK
    <3>2. g \in Frames
      BY <1>2, <3>1, FrameChanges DEF ImportPCs
    <3>3. g.name = f.name /\ g.pc = "hook"
      BY <1>2 DEF Frames
    <3>4. GoOn(t, g)
      BY <1>4, <2>2 DEF Pop
    <3> HIDE DEF g
    <3>5. Covered(g, hook', shared')
      BY <3>3 DEF Covered
    <3> QED BY <1>0, <1>1, <1>3, <2>1, <3>2, <3>3, <3>4, <3>5, FireGoOn
            DEF HooksTypeOK
  <2>3. CASE f.name \notin pending
    <3> DEFINE g == [f EXCEPT !.pc = "bind"]
    <3>1. f.name \in Triggers => hook[f.name] # "none"
      BY <1>2, <2>1, <2>3, NotInHook DEF HooksInv
    <3>2. g \in Frames
      BY <1>2, FrameChanges DEF ImportPCs
    <3>3. g.name = f.name /\ g.pc = "bind"
      BY <1>2 DEF Frames
    <3>4. GoOn(t, g)
      BY <1>4, <2>3 DEF Pop
    <3> HIDE DEF g
    <3>5. Covered(g, hook', shared')
      BY <2>1, <3>1, <3>3 DEF Covered
    <3> QED BY <1>0, <1>1, <1>3, <2>1, <2>3, <3>2, <3>3, <3>4, <3>5, FireGoOn
            DEF HooksTypeOK
  <2> QED BY <2>2, <2>3
<1>5. CASE Hook(t)
  <2> DEFINE g == [f EXCEPT !.pc = "bind"]
  <2>1. /\ GoOn(t, g) /\ pending' = pending /\ metaPath' = metaPath
        /\ f.pc = "hook"
    BY <1>5 DEF Hook, At
  <2>2. PICK how \in {"installed", "failed"} :
          hook' = [hook EXCEPT ![f.name] = how]
    BY <1>5 DEF Hook
  <2>3. /\ hook' \in [Triggers -> {"none", "installed", "failed"}]
        /\ \A m \in Triggers : hook[m] # "none" => hook'[m] # "none"
        /\ f.name \in Triggers => hook'[f.name] # "none"
    BY <1>0, <2>2 DEF HooksTypeOK
  <2>4. g \in Frames
    BY <1>2, FrameChanges DEF ImportPCs
  <2>5. g.name = f.name /\ g.pc = "bind"
    BY <1>2 DEF Frames
  <2> HIDE DEF g
  <2>6. Covered(g, hook', shared')
    BY <2>3, <2>5 DEF Covered
  <2> QED BY <1>1, <1>3, <2>1, <2>3, <2>4, <2>5, <2>6, FireGoOn
<1> QED BY <1>4, <1>5

\* An import is over: it was bound, or its exception went to the importer.
LEMMA HooksOver ==
  ASSUME HooksInv, NEW t \in Importers, stack[t] # <<>>,
         stack' = [stack EXCEPT ![t] = Front(@)],
         Innermost(t).pc # "hook",
         hook' = hook, pending' = pending, metaPath' = metaPath,
         shared' = shared, script' \in [Importers -> Seq(Modules)],
         modules' \in [Modules -> {"absent", "loading", "loaded"}],
         \A m \in Triggers : modules'[m] = "loaded" =>
           modules[m] = "loaded" \/ hook[m] # "none"
  PROVE  HooksInv'
<1>0. HooksTypeOK /\ OneLoader
  BY DEF HooksInv
<1>1. /\ stack' \in [Importers -> Seq(Frames)]
      /\ Innermost(t) = stack[t][Len(stack[t])]
      /\ \A u \in Importers : DOMAIN stack'[u] =
           IF u = t THEN DOMAIN stack[t] \ {Len(stack[t])}
           ELSE DOMAIN stack[u]
      /\ \A u \in Importers : \A i \in DOMAIN stack'[u] :
           i \in DOMAIN stack[u] /\ stack'[u][i] = stack[u][i]
  BY <1>0, OverShape
<1>2. HooksTypeOK'
  BY <1>0, <1>1 DEF HooksTypeOK
<1>3. OneLoader'
  BY <1>0, <1>1, OneLoaderKept
<1>4. \A m \in Triggers : InHook(m) => InHook(m)'
  BY <1>1 DEF InHook
<1> QED BY <1>1, <1>2, <1>3, <1>4, HooksKept

\* What is bound has been through its hook.
LEMMA HooksBind ==
  ASSUME HooksInv, NEW t \in Importers, Bind(t)
  PROVE  HooksInv'
<1> DEFINE f == Innermost(t)
<1>0. HooksTypeOK
  BY DEF HooksInv
<1>1. stack[t] # <<>> /\ f.pc = "bind"
  BY DEF Bind, At
<1>2. /\ Len(stack[t]) \in DOMAIN stack[t] /\ f = stack[t][Len(stack[t])]
      /\ f \in Frames
  BY <1>0, <1>1, InnermostFrame
<1>3. f.name \in Triggers => hook[f.name] # "none"
  BY <1>1, <1>2 DEF HooksInv, FrameOK, Covered
<1>4. f.name \in Modules
  BY <1>2 DEF Frames
<1>5. modules' = [modules EXCEPT ![f.name] = "loaded"]
  BY DEF Bind
<1>6. /\ modules' \in [Modules -> {"absent", "loading", "loaded"}]
      /\ \A m \in Triggers : modules'[m] = "loaded" =>
           modules[m] = "loaded" \/ hook[m] # "none"
  BY <1>0, <1>3, <1>4, <1>5, HooksAssumption DEF HooksTypeOK
<1> QED BY <1>0, <1>1, <1>6, HooksOver DEF Bind, HooksTypeOK

\* The innermost import's exception ends the module or the hook that imported
\* it.
LEMMA HooksUnwind ==
  ASSUME HooksInv, NEW t \in Importers, stack[t] # <<>>,
         Innermost(t).pc = "raised",
         Front(stack[t]) # <<>>, NEW STATE g, g \in Frames,
         stack' = [stack EXCEPT ![t] = Append(Front(Front(stack[t])), g)],
         g.name = Last(Front(stack[t])).name,
         Last(Front(stack[t])).pc \in {"exec", "hook"},
         Last(Front(stack[t])).pc = "hook" /\ g.name \in Triggers =>
           hook'[g.name] # "none",
         pending' = pending, metaPath' = metaPath, script' = script,
         hook' \in [Triggers -> {"none", "installed", "failed"}],
         \A m \in Triggers : hook[m] # "none" => hook'[m] # "none",
         modules' \in [Modules -> {"absent", "loading", "loaded"}],
         \A m \in Triggers : modules'[m] = "loaded" => modules[m] = "loaded",
         shared' \in SUBSET (Triggers \cap Archive),
         \A m \in shared \ shared' : m = g.name,
         Covered(g, hook', shared')
  PROVE  HooksInv'
<1> DEFINE n == Len(stack[t])
           k == n - 1
           r == Append(Front(Front(stack[t])), g)
<1>0. HooksTypeOK /\ OneLoader
  BY DEF HooksInv
<1>1. stack[t] \in Seq(Frames)
  BY <1>0 DEF HooksTypeOK
<1>2. /\ k \in Nat \ {0} /\ Last(stack[t]) = stack[t][n]
      /\ Last(Front(stack[t])) = stack[t][k]
      /\ r \in Seq(Frames) /\ Len(r) = k /\ r[k] = g
      /\ \A i \in 1 .. k - 1 : r[i] = stack[t][i]
      /\ DOMAIN r = 1 .. k /\ DOMAIN stack[t] = 1 .. n
  BY <1>1, UnwoundShape
<1>3. n \in Nat
  BY <1>1, LenProperties
<1>4. Innermost(t) = stack[t][n]
  BY <1>2 DEF Innermost
<1> HIDE DEF r
<1>5. stack'[t] = r /\ \A u \in Importers : u # t => stack'[u] = stack[u]
  BY <1>0 DEF HooksTypeOK, r
<1>6. stack' \in [Importers -> Seq(Frames)]
  BY <1>0, <1>2 DEF HooksTypeOK, r
<1>7. /\ \A i \in DOMAIN r : i \in DOMAIN stack[t]
                             /\ (i # k => r[i] = stack[t][i])
      /\ \A i \in DOMAIN stack[t] : i # n => i \in DOMAIN r
      /\ k \in DOMAIN stack[t] /\ k \in DOMAIN r
  <2>1. n \in Nat /\ k = n - 1 /\ k \in Nat \ {0}
    BY <1>2, <1>3
  <2> HIDE DEF n, k
  <2>2. ASSUME NEW i \in DOMAIN r
        PROVE  i \in DOMAIN stack[t] /\ (i # k => r[i] = stack[t][i])
    <3>1. i \in 1 .. n /\ i \in 1 .. k /\ (i # k => i \in 1 .. k - 1)
      BY <1>2, <2>1, <2>2
    <3> QED BY <1>2, <3>1
  <2>3. \A i \in DOMAIN stack[t] : i # n => i \in DOMAIN r
    BY <1>2, <2>1
  <2>4. k \in DOMAIN stack[t] /\ k \in DOMAIN r
    BY <1>2, <2>1
  <2> QED BY <2>2, <2>3, <2>4
<1> HIDE DEF n, k
<1>8. HooksTypeOK'
  BY <1>0, <1>6 DEF HooksTypeOK
<1>9. OneLoader'
  <2>1. ASSUME NEW u \in Importers, NEW i \in DOMAIN stack'[u],
               stack'[u][i].pc # "import"
        PROVE  /\ i \in DOMAIN stack[u] /\ stack[u][i].pc # "import"
               /\ stack[u][i].name = stack'[u][i].name
    <3>1. CASE u = t /\ i = k
      BY <1>2, <1>5, <1>7, <3>1
    <3>2. CASE u = t /\ i # k
      BY <1>5, <1>7, <2>1, <3>2
    <3>3. CASE u # t
      BY <1>5, <2>1, <3>3
    <3> QED BY <3>1, <3>2, <3>3
  <2> QED BY <1>0, <2>1, OneLoaderKept
<1>10. \A u \in Importers : \A i \in DOMAIN stack'[u] :
         \/ i \in DOMAIN stack[u] /\ stack'[u][i] = stack[u][i]
         \/ FrameOK(u, i)'
  <2> SUFFICES ASSUME NEW u \in Importers, NEW i \in DOMAIN stack'[u]
               PROVE  \/ i \in DOMAIN stack[u] /\ stack'[u][i] = stack[u][i]
                      \/ FrameOK(u, i)'
    OBVIOUS
  <2>1. CASE u = t /\ i = k
    <3>1. stack'[u][i] = g
      BY <1>2, <1>5, <2>1
    <3>2. Covered(stack'[u][i], hook', shared')
      BY <3>1
    <3> QED BY <3>2 DEF FrameOK
  <2>2. CASE u = t /\ i # k
    BY <1>5, <1>7, <2>2
  <2>3. CASE u # t
    BY <1>5, <2>3
  <2> QED BY <2>1, <2>2, <2>3
<1>11. ASSUME NEW m \in Triggers, InHook(m)
       PROVE  InHook(m)' \/ hook'[m] # "none"
  <2>1. PICK u \in Importers : \E i \in DOMAIN stack[u] :
          stack[u][i].name = m /\ stack[u][i].pc = "hook"
    BY <1>11 DEF InHook
  <2>2. PICK i \in DOMAIN stack[u] :
          stack[u][i].name = m /\ stack[u][i].pc = "hook"
    BY <2>1
  <2>3. CASE u # t
    BY <1>5, <2>2, <2>3 DEF InHook
  <2>4. CASE u = t /\ i = k
    BY <1>2, <2>2, <2>4
  <2>5. CASE u = t /\ i # k
    <3>1. i # n
      BY <1>4, <2>2, <2>5
    <3>2. i \in DOMAIN r /\ r[i] = stack[t][i]
      BY <1>7, <2>2, <2>5, <3>1
    <3> QED BY <1>5, <2>2, <2>5, <3>2 DEF InHook
  <2> QED BY <2>3, <2>4, <2>5
<1>12. ASSUME NEW m \in shared \ shared', NEW u \in Importers,
              NEW i \in DOMAIN stack[u],
              stack[u][i].name = m, stack[u][i].pc = "load"
       PROVE  FALSE
  <2>1. m = stack[t][k].name /\ stack[t][k].pc \in {"exec", "hook"}
    BY <1>2, <1>12
  <2>2. u = t /\ i = k
    BY <1>0, <1>7, <1>12, <2>1 DEF OneLoader
  <2> QED BY <1>12, <2>1, <2>2
<1> QED BY <1>8, <1>9, <1>10, <1>11, <1>12, HooksKept

\* A failed import keeps the invariant, wherever its exception goes.
LEMMA HooksPropagate ==
  ASSUME OneShared, HooksInv, NEW t \in Importers, Propagate(t)
  PROVE  HooksInv'
<1> DEFINE f == Innermost(t)
           below == Front(stack[t])
           b == Last(below)
<1>0. HooksTypeOK
  BY DEF HooksInv
<1>1. stack[t] # <<>> /\ f.pc = "raised"
  BY DEF Propagate, At
<1>2. f \in Frames /\ f.name \in Modules
  BY <1>0, <1>1, InnermostFrame DEF Frames
<1>3. stack[t] \in Seq(Frames) /\ below \in Seq(Frames)
  BY <1>0, <1>1, FrontShape DEF HooksTypeOK
<1>4. pending' = pending /\ metaPath' = metaPath
  BY DEF Propagate
<1>5. ASSUME below # <<>> PROVE b \in Frames /\ b.name \in Modules
  <2>1. b \in Frames
    BY <1>3, <1>5, FrontShape
  <2> QED BY <2>1 DEF Frames
<1>6. CASE /\ below = <<>>
           /\ stack' = [stack EXCEPT ![t] = <<>>]
           /\ \/ script' = [script EXCEPT ![t] = <<f.name>> \o @]
              \/ UNCHANGED script
           /\ UNCHANGED <<modules, hook, shared>>
  <2>1. script' \in [Importers -> Seq(Modules)]
    <3>1. <<f.name>> \in Seq(Modules) /\ script[t] \in Seq(Modules)
      BY <1>0, <1>2 DEF HooksTypeOK
    <3>2. <<f.name>> \o script[t] \in Seq(Modules)
      BY <3>1, ConcatProperties
    <3> QED BY <1>0, <1>6, <3>2 DEF HooksTypeOK
  <2>2. stack' = [stack EXCEPT ![t] = Front(@)]
    BY <1>6
  <2> QED BY <1>0, <1>1, <1>4, <1>6, <2>1, <2>2, HooksOver DEF HooksTypeOK
<1>7. CASE /\ stack' = [stack EXCEPT ![t] = below]
           /\ UNCHANGED <<modules, hook, shared, script>>
  BY <1>0, <1>1, <1>4, <1>7, HooksOver DEF HooksTypeOK
<1>8. CASE below # <<>> /\ Raises(t, below) /\ UNCHANGED script
  <2> DEFINE g == [b EXCEPT !.pc = "raised"]
  <2>1. /\ stack' = [stack EXCEPT ![t] = Append(Front(below), g)]
        /\ Restore(b) /\ hook' = hook /\ b.pc = "exec"
        /\ modules' = [modules EXCEPT ![b.name] = "absent"]
    BY <1>8 DEF Raises
  <2>2. g \in Frames
    BY <1>5, <1>8, FrameChanges DEF ImportPCs
  <2>3. g.name = b.name /\ g.pc = "raised"
    BY <1>5, <1>8 DEF Frames
  <2> HIDE DEF g
  <2>4. Covered(g, hook', shared')
    BY <2>3 DEF Covered
  <2>5. /\ shared' \in SUBSET (Triggers \cap Archive)
        /\ \A m \in shared \ shared' : m = b.name
    BY <1>0, <1>5, <1>8, <2>1, RestoreKeeps
  <2>6. /\ modules' \in [Modules -> {"absent", "loading", "loaded"}]
        /\ \A m \in Triggers : modules'[m] = "loaded" => modules[m] = "loaded"
    BY <1>0, <1>5, <1>8, <2>1, HooksAssumption DEF HooksTypeOK
  <2> HIDE DEF below
  <2> QED BY <1>0, <1>1, <1>4, <1>8, <2>1, <2>2, <2>3, <2>4, <2>5, <2>6,
             HooksUnwind DEF HooksTypeOK, below
<1>9. CASE /\ below # <<>> /\ b.pc = "hook"
           /\ hook' = [hook EXCEPT ![b.name] = "failed"]
           /\ stack' = [stack EXCEPT ![t] =
                          Append(Front(below), [b EXCEPT !.pc = "bind"])]
           /\ UNCHANGED <<modules, shared, script>>
  <2> DEFINE g == [b EXCEPT !.pc = "bind"]
  <2>1. stack' = [stack EXCEPT ![t] = Append(Front(below), g)]
    BY <1>9
  <2>2. g \in Frames
    BY <1>5, <1>9, FrameChanges DEF ImportPCs
  <2>3. g.name = b.name /\ g.pc = "bind"
    BY <1>5, <1>9 DEF Frames
  <2> HIDE DEF g
  <2>4. /\ hook' \in [Triggers -> {"none", "installed", "failed"}]
        /\ \A m \in Triggers : hook[m] # "none" => hook'[m] # "none"
        /\ b.name \in Triggers => hook'[b.name] # "none"
    BY <1>0, <1>9 DEF HooksTypeOK
  <2>5. Covered(g, hook', shared')
    BY <2>3, <2>4 DEF Covered
  <2>6. /\ modules' \in [Modules -> {"absent", "loading", "loaded"}]
        /\ modules' = modules /\ shared' = shared /\ script' = script
        /\ shared' \in SUBSET (Triggers \cap Archive)
    BY <1>0, <1>9 DEF HooksTypeOK
  <2> QED BY <1>1, <1>4, <1>9, <2>1, <2>2, <2>3, <2>4, <2>5, <2>6,
             HooksUnwind
<1> QED BY <1>6, <1>7, <1>8, <1>9 DEF Propagate

\* Every step of the process keeps the invariant.
LEMMA HooksNext == OneShared /\ HooksInv /\ [HostedNext]_allVars => HooksInv'
<1> SUFFICES ASSUME OneShared, HooksInv, [HostedNext]_allVars PROVE HooksInv'
  OBVIOUS
<1>1. CASE ImportsStep
  <2>1. PICK t \in Importers : ImportStep(t) \/ ImportBegins(t)
    BY <1>1 DEF ImportsStep
  <2>2. CASE ImportStep(t)
    BY <2>2, HooksBegin, HooksFind, HooksLoad, HooksNested, HooksExec,
       HooksFire, HooksBind, HooksPropagate DEF ImportStep
  <2>3. CASE ImportBegins(t)
    BY <2>3, HooksBegin, HooksProbe DEF ImportBegins
  <2> QED BY <2>1, <2>2, <2>3
<1>2. CASE UNCHANGED importVars
  BY <1>2 DEF importVars, HooksInv, HooksTypeOK, OneLoader, InHook, FrameOK,
              BoundIsHooked
<1>3. LoadsModels => UNCHANGED importVars
  BY DEF LoadsModels, ModelStep, _patched_from_pretrained, LoadFails, LoadEnds
<1> QED BY <1>1, <1>2, <1>3 DEF HostedNext, allVars, hookVars

\* install_hooks_lazy establishes it.
LEMMA HooksStart == HooksInit => HooksInv
<1> SUFFICES ASSUME HooksInit PROVE HooksInv
  OBVIOUS
<1>1. PICK already \in SUBSET {m \in Triggers : HookImports[m] = {}} :
        install_hooks_lazy(already)
  BY DEF HooksInit
<1>2. HooksTypeOK
  BY <1>1, HooksAssumption DEF HooksInit, install_hooks_lazy, HooksTypeOK
<1>3. \A t \in Importers : stack[t] = <<>>
  BY DEF HooksInit
<1>4. pending # {} => metaPath[1] = "detector" /\ 1 <= Len(metaPath)
  <2>1. pending # {} => metaPath = <<"detector">> \o <<"builtin", "path">>
    BY <1>1 DEF install_hooks_lazy
  <2> QED BY <2>1
<1>5. \A m \in Triggers : m \in pending \/ hook[m] # "none"
  BY <1>1 DEF install_hooks_lazy
<1>6. BoundIsHooked
  BY <1>1, HooksAssumption DEF install_hooks_lazy, BoundIsHooked
<1> QED BY <1>2, <1>3, <1>4, <1>5, <1>6 DEF HooksInv, OneLoader

\* A framework that any thread can have bound a name from has been through its
\* hook, for any threads, scripts, module graphs and failures, as long as no
\* two triggers come from one shared loader (_PostImportHookFinder).
THEOREM AllHooked ==
  ASSUME OneShared PROVE HostedSpec => []BoundIsHooked
<1>1. HooksInv => BoundIsHooked
  BY DEF HooksInv
<1> QED BY <1>1, HooksStart, HooksNext, OneShared, PTL DEF HostedSpec

-----------------------------------------------------------------------------
(* The first model *)

LoadCalls == [model: Nat, primary: BOOLEAN]

\* Only the outermost model load can have the claim; while it has, no model is
\* on record, and the claim is not given out while a load runs or once a model
\* is on record.
ModelInv ==
  /\ loads \in Seq(LoadCalls) /\ next \in Nat
  /\ \A i \in DOMAIN loads : loads[i].primary => i = 1 /\ model = 0
  /\ loads # <<>> \/ model # 0 => claimed

\* What the innermost model load is, and what its end leaves.
LEMMA LastLoad ==
  ASSUME ModelInv, loads # <<>>
  PROVE  /\ Last(loads).primary => Len(loads) = 1 /\ model = 0
         /\ Front(loads) \in Seq(LoadCalls)
         /\ Last(loads).primary => Front(loads) = <<>>
         /\ \A i \in DOMAIN Front(loads) :
              /\ Front(loads)[i].primary => i = 1 /\ model = 0
              /\ ~Last(loads).primary \/ ~Front(loads)[i].primary
<1> DEFINE q == Front(loads)
<1>1. loads \in Seq(LoadCalls)
  BY DEF ModelInv
<1>2. /\ Len(loads) \in Nat \ {0} /\ Last(loads) = loads[Len(loads)]
      /\ q \in Seq(LoadCalls) /\ Len(q) = Len(loads) - 1
      /\ \A i \in 1 .. Len(loads) - 1 : q[i] = loads[i]
  BY <1>1, FrontShape
<1> HIDE DEF q
<1>3. DOMAIN loads = 1 .. Len(loads) /\ DOMAIN q = 1 .. Len(q)
  BY <1>1, <1>2, LenProperties
<1>4. Len(loads) \in DOMAIN loads
  BY <1>2, <1>3
<1>5. Last(loads).primary => Len(loads) = 1 /\ model = 0
  BY <1>2, <1>4 DEF ModelInv
<1>6. Last(loads).primary => q = <<>>
  <2>1. q \in Seq(LoadCalls) /\ (Last(loads).primary => Len(q) = 0)
    BY <1>2, <1>5
  <2>2. Len(q) = 0 => q = <<>>
    BY <2>1, EmptySeq, Zenon
  <2> QED BY <2>1, <2>2
<1>7. ASSUME NEW i \in DOMAIN q
      PROVE  /\ q[i].primary => i = 1 /\ model = 0
             /\ ~Last(loads).primary
  <2>1. i \in DOMAIN loads /\ q[i] = loads[i]
    BY <1>2, <1>3
  <2>2. Len(q) # 0
    BY <1>2, <1>3
  <2> QED BY <1>2, <1>5, <2>1, <2>2 DEF ModelInv
<1> QED BY <1>2, <1>5, <1>6, <1>7 DEF q

\* A model load that begins keeps the invariant.
LEMMA ModelBegins ==
  ASSUME ModelInv, _patched_from_pretrained PROVE ModelInv'
<1> DEFINE c == [model |-> next + 1, primary |-> ~claimed]
<1>1. loads \in Seq(LoadCalls) /\ next \in Nat
  BY DEF ModelInv
<1>2. c \in LoadCalls
  BY <1>1 DEF LoadCalls
<1>3. c.primary <=> ~claimed
  OBVIOUS
<1>4. /\ loads' = Append(loads, c) /\ claimed' = TRUE /\ next' = next + 1
      /\ model' = model
  BY DEF _patched_from_pretrained
<1> HIDE DEF c
<1>5. /\ loads' \in Seq(LoadCalls) /\ Len(loads') = Len(loads) + 1
      /\ \A i \in 1 .. Len(loads) : loads'[i] = loads[i]
      /\ loads'[Len(loads) + 1] = c
  BY <1>1, <1>2, <1>4, AppendProperties
<1>6. /\ DOMAIN loads = 1 .. Len(loads) /\ Len(loads) \in Nat
      /\ DOMAIN loads' = 1 .. Len(loads) + 1
  BY <1>1, <1>5, LenProperties
<1>7. ~claimed => Len(loads) = 0 /\ model = 0
  BY <1>1, EmptySeq DEF ModelInv
<1>8. ASSUME NEW i \in DOMAIN loads', loads'[i].primary
      PROVE  i = 1 /\ model = 0
  <2>1. CASE i \in DOMAIN loads
    BY <1>5, <1>6, <1>8, <2>1 DEF ModelInv
  <2>2. CASE i = Len(loads) + 1
    BY <1>3, <1>5, <1>7, <1>8, <2>2
  <2> QED BY <1>6, <2>1, <2>2
<1> QED BY <1>1, <1>4, <1>5, <1>8 DEF ModelInv

\* A model load that ends, with an exception or without, keeps it.
LEMMA ModelEnds ==
  ASSUME ModelInv, LoadFails \/ LoadEnds PROVE ModelInv'
<1>1. loads # <<>> /\ loads' = Front(loads) /\ next' = next
  BY DEF LoadFails, LoadEnds
<1>2. /\ Last(loads).primary => Len(loads) = 1 /\ model = 0
      /\ loads' \in Seq(LoadCalls)
      /\ Last(loads).primary => loads' = <<>>
      /\ \A i \in DOMAIN loads' :
           /\ loads'[i].primary => i = 1 /\ model = 0
           /\ ~Last(loads).primary \/ ~loads'[i].primary
  BY <1>1, LastLoad
<1>3. claimed
  BY <1>1 DEF ModelInv
<1>4. CASE LoadFails
  <2>1. model' = model /\ claimed' = (claimed /\ ~Last(loads).primary)
    BY <1>4 DEF LoadFails
  <2> QED BY <1>1, <1>2, <1>3, <2>1 DEF ModelInv
<1>5. CASE LoadEnds
  <2>1. claimed' = claimed /\ (model' # model => Last(loads).primary)
    BY <1>5 DEF LoadEnds
  <2> QED BY <1>1, <1>2, <1>3, <2>1 DEF ModelInv
<1> QED BY <1>4, <1>5

\* The process's steps change what is known of models only by loading them.
LEMMA ModelNext ==
  ASSUME ModelInv, [HostedNext]_allVars
  PROVE  ModelInv' /\ (model' # model => model = 0 /\ Len(loads) = 1)
<1>1. CASE UNCHANGED modelVars
  BY <1>1 DEF modelVars, ModelInv
<1>2. CASE _patched_from_pretrained
  BY <1>2, ModelBegins DEF _patched_from_pretrained
<1>3. CASE LoadFails
  BY <1>3, ModelEnds DEF LoadFails
<1>4. CASE LoadEnds
  <2>1. loads # <<>> /\ (model' # model => Last(loads).primary)
    BY <1>4 DEF LoadEnds
  <2> QED BY <1>4, <2>1, ModelEnds, LastLoad
<1>5. ImportsStep => UNCHANGED modelVars
  BY DEF ImportsStep, ImportStep, ImportBegins, Statement, Enter, find_spec,
         Probe, Load, Nested, Executed, ExecRaises, _claim, Pop, Hook, Bind,
         Propagate
<1> QED BY <1>1, <1>2, <1>3, <1>4, <1>5
        DEF HostedNext, LoadsModels, ModelStep, allVars, hookVars

\* The model on record is the first that the process loaded: nothing replaces
\* it, and no load nested in another one is ever recorded, however many loads
\* there are and whichever of them fail (_patched_from_pretrained, claimed).
THEOREM FirstModel == HostedSpec => FirstModelKept
<1>1. HooksInit => ModelInv
  <2>1. HooksInit => loads \in Seq(LoadCalls) /\ DOMAIN loads = {}
    BY DEF HooksInit
  <2> QED BY <2>1 DEF HooksInit, ModelInv
<1>2. ModelInv /\ [HostedNext]_allVars => ModelInv'
  BY ModelNext
<1>3. ModelInv /\ [HostedNext]_allVars =>
        [model' # model => model = 0 /\ Len(loads) = 1]_model
  BY ModelNext
<1> QED BY <1>1, <1>2, <1>3, PTL DEF HostedSpec, FirstModelKept

=============================================================================
