------------------------------ MODULE ReportProofs ------------------------------
(***************************************************************************)
(* What the operators compute that the AIBOM's report is made of: the      *)
(* selection of a sequence's elements, the windows of statistics, the      *)
(* status of pods and workload, the document of the series and the sources *)
(* of one checkout, for sequences, times, documents and scripts of any     *)
(* size.                                                                   *)
(***************************************************************************)
EXTENDS Execution, Provenance, SeriesFit, SequenceTheorems, FiniteSetTheorems,
        WellFoundedInduction, TLAPS

-----------------------------------------------------------------------------
(* Induction, as the least counterexample *)

\* A set of numbers that is not empty has a least one.
LEMMA Least ==
  ASSUME NEW S \in SUBSET Nat, S # {}
  PROVE  \E n \in S : \A m \in S : n <= m
<1>1. PICK n \in S : \A m \in S : ~(<<m, n>> \in OpToRel(<, Nat))
  BY WFMin, NatLessThanWellFounded
<1>2. ASSUME NEW m \in S, m < n PROVE FALSE
  <2>1. <<m, n>> \in Nat \X Nat /\ <<m, n>>[1] < <<m, n>>[2]
    BY <1>2
  <2> QED
    BY <1>1, <2>1 DEF OpToRel
<1>3. \A m \in S : n <= m
  BY <1>2
<1> QED
  BY <1>3

\* What holds of 0, and of n + 1 if it holds of n, holds of every number.
LEMMA Inductive ==
  ASSUME NEW S \in SUBSET Nat, 0 \in S, \A n \in S : n + 1 \in S
  PROVE  S = Nat
<1>1. SUFFICES ASSUME Nat \ S # {} PROVE FALSE
  OBVIOUS
<1>2. PICK n \in Nat \ S : \A m \in Nat \ S : n <= m
  BY <1>1, Least
<1>3. n # 0 /\ n - 1 \in Nat
  BY <1>2
<1>4. n - 1 \in S
  BY <1>2, <1>3
<1> QED
  BY <1>2, <1>3, <1>4

-----------------------------------------------------------------------------
(* The elements of a sequence that are in a set *)

\* What Among builds: a sequence for each prefix, from the one before.
Builds(f, s, S, m) ==
  f = [n \in 0 .. m |->
         IF n = 0 THEN <<>>
         ELSE IF s[n] \in S THEN Append(f[n - 1], s[n]) ELSE f[n - 1]]

LEMMA KeptExists ==
  ASSUME NEW s, NEW S, NEW N \in Nat
  PROVE  \E f : Builds(f, s, S, N)
<1> DEFINE Next1(v, n) == IF s[n] \in S THEN Append(v, s[n]) ELSE v
           Is(f, m) == f = [n \in 0 .. m |->
                              IF n = 0 THEN <<>> ELSE Next1(f[n - 1], n)]
           Good == {m \in Nat : \E f : Is(f, m)}
<1>1. 0 \in Good
  <2>1. Is([n \in 0 .. 0 |-> <<>>], 0)
    OBVIOUS
  <2> QED
    BY <2>1
<1>2. ASSUME NEW m \in Good PROVE m + 1 \in Good
  <2>1. PICK f : Is(f, m)
    OBVIOUS
  <2> HIDE DEF Next1
  <2> DEFINE g == [n \in 0 .. m + 1 |-> IF n <= m THEN f[n] ELSE Next1(f[m], m + 1)]
  <2>2. \A n \in 0 .. m : f[n] = IF n = 0 THEN <<>> ELSE Next1(f[n - 1], n)
    BY <2>1
  <2>3. ASSUME NEW n \in 0 .. m + 1
        PROVE  g[n] = IF n = 0 THEN <<>> ELSE Next1(g[n - 1], n)
    BY <2>2
  <2>4. Is(g, m + 1)
    BY <2>3
  <2> HIDE DEF g, Is
  <2>5. \E h : Is(h, m + 1)
    BY <2>4
  <2> QED
    BY <2>5
<1>3. Good = Nat
  <2>1. Good \in SUBSET Nat
    OBVIOUS
  <2> HIDE DEF Good
  <2> QED
    BY <1>1, <1>2, <2>1, Inductive
<1>4. \E f : Is(f, N)
  BY <1>3
<1> QED
  BY <1>4 DEF Builds

\* The value that Among builds for each prefix.
LEMMA KeptSteps ==
  ASSUME NEW s, NEW S, Len(s) \in Nat
  PROVE  \E f : /\ Among(s, S) = f[Len(s)] /\ f[0] = <<>>
                /\ \A n \in 1 .. Len(s) :
                     f[n] = IF s[n] \in S THEN Append(f[n - 1], s[n]) ELSE f[n - 1]
<1> DEFINE kept0 == CHOOSE f : Builds(f, s, S, Len(s))
<1>1. Builds(kept0, s, S, Len(s))
  BY KeptExists
<1>2. Among(s, S) = kept0[Len(s)]
  BY DEF Among, Builds
<1> HIDE DEF kept0
<1>3. kept0[0] = <<>>
  BY <1>1 DEF Builds
<1>4. ASSUME NEW n \in 1 .. Len(s)
      PROVE  kept0[n] = IF s[n] \in S THEN Append(kept0[n - 1], s[n]) ELSE kept0[n - 1]
  <2>1. n \in 0 .. Len(s) /\ n # 0
    OBVIOUS
  <2> QED
    BY <1>1, <2>1 DEF Builds
<1> QED
  BY <1>2, <1>3, <1>4

\* A sequence with one element more has its set with that element.
LEMMA AppendedSet ==
  ASSUME NEW T, NEW t \in Seq(T), NEW x \in T
  PROVE  Append(t, x) \in Seq(T) /\ ToSet(Append(t, x)) = ToSet(t) \cup {x}
<1>1. /\ Append(t, x) \in Seq(T) /\ Len(Append(t, x)) = Len(t) + 1
      /\ \A i \in 1 .. Len(t) : Append(t, x)[i] = t[i]
      /\ Append(t, x)[Len(t) + 1] = x /\ Len(t) \in Nat
      /\ DOMAIN t = 1 .. Len(t) /\ DOMAIN Append(t, x) = 1 .. Len(t) + 1
  BY AppendProperties
<1> DEFINE u == Append(t, x)
           n == Len(t)
<1> HIDE DEF u, n
<1>2. {u[i] : i \in 1 .. n + 1} = {t[i] : i \in 1 .. n} \cup {x}
  BY <1>1 DEF u, n
<1> QED
  BY <1>1, <1>2 DEF u, n, ToSet

\* Among's result is a sequence of the elements that are in S: all of them.
LEMMA AmongOf ==
  ASSUME NEW T, NEW s \in Seq(T), NEW S
  PROVE  /\ Among(s, S) \in Seq(T \cap S)
         /\ ToSet(Among(s, S)) = ToSet(s) \cap S
<1>1. Len(s) \in Nat /\ \A n \in 1 .. Len(s) : s[n] \in T
  OBVIOUS
<1>2. PICK f : /\ Among(s, S) = f[Len(s)] /\ f[0] = <<>>
               /\ \A n \in 1 .. Len(s) :
                    f[n] = IF s[n] \in S THEN Append(f[n - 1], s[n]) ELSE f[n - 1]
  BY <1>1, KeptSteps
<1> DEFINE Prefix(n) == {s[i] : i \in 1 .. n} \cap S
           Right(n) == n <= Len(s) => /\ f[n] \in Seq(T \cap S)
                                      /\ ToSet(f[n]) = Prefix(n)
           Good == {n \in Nat : Right(n)}
<1>3. Right(0)
  <2>1. <<>> \in Seq(T \cap S) /\ ToSet(<<>>) = {} /\ Prefix(0) = {}
    BY DEF ToSet
  <2> QED
    BY <1>2, <2>1
<1>4. ASSUME NEW n \in Nat, Right(n) PROVE Right(n + 1)
  <2>1. SUFFICES ASSUME n + 1 <= Len(s)
                 PROVE  f[n + 1] \in Seq(T \cap S) /\ ToSet(f[n + 1]) = Prefix(n + 1)
    OBVIOUS
  <2>2. /\ f[n] \in Seq(T \cap S) /\ ToSet(f[n]) = Prefix(n)
        /\ n + 1 \in 1 .. Len(s) /\ (n + 1) - 1 = n
    BY <1>1, <1>4, <2>1
  <2> DEFINE x == s[n + 1]
             t == f[n]
  <2>3. x \in T /\ f[n + 1] = IF x \in S THEN Append(t, x) ELSE t
    BY <1>1, <1>2, <2>2
  <2>4. {s[i] : i \in 1 .. n + 1} = {s[i] : i \in 1 .. n} \cup {x}
    OBVIOUS
  <2>5. t \in Seq(T \cap S) /\ ToSet(t) = Prefix(n)
    BY <2>2
  <2> HIDE DEF x, t
  <2>6. CASE x \in S
    <3>1. x \in T \cap S
      BY <2>3, <2>6
    <3>2. Append(t, x) \in Seq(T \cap S) /\ ToSet(Append(t, x)) = ToSet(t) \cup {x}
      BY <2>5, <3>1, AppendedSet
    <3> QED
      BY <2>3, <2>4, <2>5, <2>6, <3>2
  <2>7. CASE x \notin S
    BY <2>3, <2>4, <2>5, <2>7
  <2> QED
    BY <2>6, <2>7
<1>5. Good = Nat
  <2> HIDE DEF Right
  <2>1. Good \in SUBSET Nat /\ 0 \in Good
    BY <1>3
  <2>2. \A n \in Good : n + 1 \in Good
    BY <1>4
  <2> HIDE DEF Good
  <2> QED
    BY <2>1, <2>2, Inductive
<1>6. Right(Len(s))
  <2> HIDE DEF Right
  <2> QED
    BY <1>1, <1>5
<1>7. ToSet(s) = {s[i] : i \in 1 .. Len(s)}
  BY DEF ToSet
<1> QED
  BY <1>1, <1>2, <1>6, <1>7

\* The entries of a pod, as a set, and the texts that are not missing.
LEMMA OfPod ==
  ASSUME NEW T, NEW cs \in Seq(T), NEW pod
  PROVE  /\ Of(pod, cs) \in Seq(T)
         /\ ToSet(Of(pod, cs)) = {c \in ToSet(cs) : c.pod = pod}
<1> DEFINE S == {c \in ToSet(cs) : c.pod = pod}
<1>1. Among(cs, S) \in Seq(T \cap S) /\ ToSet(Among(cs, S)) = ToSet(cs) \cap S
  BY AmongOf
<1>2. Among(cs, S) \in Seq(T)
  BY <1>1
<1>3. ToSet(cs) \cap S = S
  OBVIOUS
<1> QED
  BY <1>1, <1>2, <1>3 DEF Of

LEMMA KnownOf ==
  ASSUME NEW T, NEW s \in Seq(T)
  PROVE  /\ Known(s) \in Seq(T \ {None})
         /\ ToSet(Known(s)) = ToSet(s) \ {None}
<1> DEFINE S == ToSet(s) \ {None}
<1>1. Among(s, S) \in Seq(T \cap S) /\ ToSet(Among(s, S)) = ToSet(s) \cap S
  BY AmongOf
<1>2. Among(s, S) \in Seq(T \ {None})
  BY <1>1
<1> QED
  BY <1>1, <1>2 DEF Known

-----------------------------------------------------------------------------
(* Least and greatest times *)

\* Numbers that are given one after the other have a greatest.
LEMMA Greatest ==
  ASSUME NEW g, NEW n \in Nat \ {0}, \A i \in 1 .. n : g[i] \in Nat
  PROVE  \E k \in 1 .. n : \A i \in 1 .. n : g[i] <= g[k]
<1> DEFINE Right(m) == m + 1 <= n => \E k \in 1 .. m + 1 : \A i \in 1 .. m + 1 : g[i] <= g[k]
           Good == {m \in Nat : Right(m)}
<1>1. Right(0)
  OBVIOUS
<1>2. ASSUME NEW m \in Nat, Right(m) PROVE Right(m + 1)
  <2>1. SUFFICES ASSUME (m + 1) + 1 <= n
                 PROVE  \E k \in 1 .. (m + 1) + 1 : \A i \in 1 .. (m + 1) + 1 : g[i] <= g[k]
    OBVIOUS
  <2>2. PICK k \in 1 .. m + 1 : \A i \in 1 .. m + 1 : g[i] <= g[k]
    BY <1>2, <2>1
  <2>3. g[(m + 1) + 1] \in Nat /\ g[k] \in Nat
    BY <2>1, <2>2
  <2>4. \A i \in 1 .. (m + 1) + 1 : i \in 1 .. m + 1 \/ i = (m + 1) + 1
    OBVIOUS
  <2>5. CASE g[(m + 1) + 1] <= g[k]
    BY <2>2, <2>4, <2>5
  <2>6. CASE g[k] < g[(m + 1) + 1]
    <3>1. ASSUME NEW i \in 1 .. (m + 1) + 1 PROVE g[i] <= g[(m + 1) + 1]
      <4>1. CASE i \in 1 .. m + 1
        <5>1. g[i] \in Nat /\ g[i] <= g[k]
          BY <2>1, <2>2, <4>1
        <5> QED
          BY <2>3, <2>6, <5>1
      <4> QED
        BY <2>3, <2>4, <4>1
    <3> QED
      BY <3>1
  <2> QED
    BY <2>3, <2>5, <2>6
<1>3. Good = Nat
  <2> HIDE DEF Right
  <2>1. Good \in SUBSET Nat /\ 0 \in Good
    BY <1>1
  <2>2. \A m \in Good : m + 1 \in Good
    BY <1>2
  <2> HIDE DEF Good
  <2> QED
    BY <2>1, <2>2, Inductive
<1>4. Right(n - 1)
  <2> HIDE DEF Right
  <2>1. n - 1 \in Nat
    OBVIOUS
  <2> QED
    BY <1>3, <2>1
<1> QED
  BY <1>4

\* A set of numbers up to some number has a greatest one.
LEMMA Bounded ==
  ASSUME NEW S \in SUBSET Nat, S # {}, NEW b \in Nat, \A x \in S : x <= b
  PROVE  \E k \in S : \A x \in S : x <= k
<1> DEFINE T == {b - x : x \in S}
<1>1. T \in SUBSET Nat /\ T # {}
  <2>1. \A x \in S : b - x \in Nat /\ b - x \in T
    OBVIOUS
  <2>2. T \subseteq Nat
    BY <2>1
  <2> QED
    BY <2>1, <2>2
<1>2. PICK n \in T : \A m \in T : n <= m
  <2> HIDE DEF T
  <2> QED
    BY <1>1, Least
<1>3. PICK k \in S : n = b - k
  OBVIOUS
<1>4. ASSUME NEW x \in S PROVE x <= k
  BY <1>2, <1>3
<1> QED
  BY <1>4

LEMMA MaxOfIs ==
  ASSUME NEW S, NEW k \in S, \A i \in S : i <= k
  PROVE  MaxOf(S) \in S /\ \A i \in S : i <= MaxOf(S)
BY DEF MaxOf

LEMMA MinOfIs ==
  ASSUME NEW S \in SUBSET Nat, S # {}
  PROVE  MinOf(S) \in S /\ \A i \in S : MinOf(S) <= i
BY Least DEF MinOf

LEMMA PairOf ==
  ASSUME NEW a \in Int, NEW b \in Int
  PROVE  /\ MaxOf({a, b}) = IF a <= b THEN b ELSE a
         /\ MinOf({a, b}) = IF a <= b THEN a ELSE b
<1> DEFINE hi == IF a <= b THEN b ELSE a
           lo == IF a <= b THEN a ELSE b
           IsHi(z) == z \in {a, b} /\ \A y \in {a, b} : y <= z
           IsLo(z) == z \in {a, b} /\ \A y \in {a, b} : z <= y
<1>1. /\ IsHi(hi) /\ \A z : IsHi(z) => z = hi
      /\ IsLo(lo) /\ \A z : IsLo(z) => z = lo
  OBVIOUS
<1>2. MaxOf({a, b}) = (CHOOSE z : IsHi(z)) /\ MinOf({a, b}) = (CHOOSE z : IsLo(z))
  BY DEF MaxOf, MinOf
<1> HIDE DEF hi, lo, IsHi, IsLo
<1>3. MaxOf({a, b}) = hi /\ MinOf({a, b}) = lo
  BY <1>1, <1>2
<1> QED
  BY <1>3 DEF hi, lo

\* The greatest of what a function has on the elements of a sequence.
LEMMA MaxOfSeq ==
  ASSUME NEW T, NEW s \in Seq(T), ToSet(s) # {}, NEW g,
         \A c \in ToSet(s) : g[c] \in Nat
  PROVE  /\ MaxOf({g[c] : c \in ToSet(s)}) \in {g[c] : c \in ToSet(s)}
         /\ \A c \in ToSet(s) : g[c] <= MaxOf({g[x] : x \in ToSet(s)})
<1>1. Len(s) \in Nat /\ ToSet(s) = {s[i] : i \in 1 .. Len(s)}
  BY DEF ToSet
<1> DEFINE h == [i \in 1 .. Len(s) |-> g[s[i]]]
<1>2. /\ Len(s) \in Nat \ {0} /\ \A i \in 1 .. Len(s) : h[i] \in Nat
      /\ {g[c] : c \in ToSet(s)} = {h[i] : i \in 1 .. Len(s)}
  BY <1>1
<1> HIDE DEF h
<1>3. PICK k \in 1 .. Len(s) : \A i \in 1 .. Len(s) : h[i] <= h[k]
  BY <1>2, Greatest
<1> DEFINE S == {h[i] : i \in 1 .. Len(s)}
<1>4. h[k] \in S /\ \A x \in S : x <= h[k]
  BY <1>3
<1> HIDE DEF S
<1>5. MaxOf(S) \in S /\ \A x \in S : x <= MaxOf(S)
  BY <1>4, MaxOfIs
<1> QED
  BY <1>2, <1>5 DEF S

\* A pod has finished, when its last container has.
LEMMA PodFinished ==
  ASSUME NEW T, NEW cs \in Seq(T), NEW pod,
         \A c \in ToSet(cs) : c.finished \in Nat \cup {None}
  PROVE  LET f == _pod_finished_ms(pod, cs)
         IN /\ f \in Nat \cup {None}
            /\ f # None => \E c \in ToSet(cs) : c.pod = pod /\ c.finished = f
<1> DEFINE s == Of(pod, cs)
           mine == ToSet(s)
           f == _pod_finished_ms(pod, cs)
<1>1. s \in Seq(T) /\ mine = {c \in ToSet(cs) : c.pod = pod}
  BY OfPod
<1>2. f = IF mine = {} \/ \E c \in mine : c.finished = None THEN None
          ELSE MaxOf({c.finished : c \in mine})
  BY DEF _pod_finished_ms
<1> HIDE DEF s, f
<1>3. CASE mine = {} \/ \E c \in mine : c.finished = None
  <2>1. f = None
    BY <1>2, <1>3
  <2> QED
    BY <2>1 DEF f
<1>4. CASE mine # {} /\ \A c \in mine : c.finished # None
  <2> DEFINE g == [c \in mine |-> c.finished]
  <2>1. \A c \in ToSet(s) : g[c] \in Nat
    BY <1>1, <1>4
  <2>2. {c.finished : c \in mine} = {g[c] : c \in ToSet(s)}
    OBVIOUS
  <2> HIDE DEF g
  <2>3. MaxOf({g[c] : c \in ToSet(s)}) \in {g[c] : c \in ToSet(s)}
    BY <1>1, <1>4, <2>1, MaxOfSeq
  <2>4. f \in {g[c] : c \in ToSet(s)}
    BY <1>2, <1>4, <2>2, <2>3
  <2>5. PICK c \in mine : f = c.finished
    BY <2>4 DEF g
  <2>6. c \in ToSet(cs) /\ c.pod = pod /\ f \in Nat
    BY <1>1, <1>4, <2>5
  <2> QED
    BY <2>5, <2>6 DEF f
<1> QED
  BY <1>3, <1>4

\* The window of a pod's statistics is a part of its run that is not empty, if
\* the run is not, and ends by the time of the look.
LEMMA WindowOf ==
  ASSUME NEW start \in Nat, NEW f \in Nat \cup {None}, NEW now \in Nat
  PROVE  LET w == StatsWindow(start, f, now)
         IN /\ w = [start |-> start, end |-> w.end, stats |-> w.stats]
            /\ w.stats \in Nat /\ w.end \in Nat
            /\ start <= w.stats /\ start <= w.end /\ (start < w.end => w.stats < w.end)
            /\ w.end = start \/ (w.end <= now /\ (f # None => w.end <= f))
<1> DEFINE known == IF f = None THEN now ELSE MinOf({f, now})
           end == MaxOf({start, known})
           half == (end - start) \div 2
           cold == MinOf({Scrape, half})
<1>1. StatsWindow(start, f, now) = [start |-> start, end |-> end, stats |-> start + cold]
  BY DEF StatsWindow
<1>2. known \in Nat /\ known <= now /\ (f # None => known <= f)
  <2>1. CASE f = None
    BY <2>1
  <2>2. CASE f \in Nat /\ f # None
    <3>1. known = IF f <= now THEN f ELSE now
      BY <2>2, PairOf
    <3> QED
      BY <2>2, <3>1
  <2> QED
    BY <2>1, <2>2
<1> HIDE DEF known
<1>3. end \in Nat /\ end >= start /\ (end = start \/ end = known)
  BY <1>2, PairOf
<1> HIDE DEF end
<1>4. half \in Nat /\ half <= end - start /\ (start < end => half < end - start)
  BY <1>3
<1> HIDE DEF half
<1>5. cold = IF Scrape <= half THEN Scrape ELSE half
  <2>1. Scrape \in Int /\ half \in Int
    BY <1>4, ScrapeAssumption
  <2> QED
    BY <2>1, PairOf, Zenon
<1>6. cold \in Nat /\ cold <= half
  BY <1>4, <1>5, ScrapeAssumption
<1> HIDE DEF cold
<1> QED
  BY <1>1, <1>2, <1>3, <1>4, <1>6

-----------------------------------------------------------------------------
(* The reason to report of several *)

\* What is told of some reasons: nothing, or one of them; a kill if there is
\* one, and completion only if there is nothing else.
Tells(v, S) ==
  /\ S = {} => v = None
  /\ S # {} => v \in S
  /\ "OOMKilled" \in S => v = "OOMKilled"
  /\ v = "Completed" => S \subseteq {"Completed"}

LEMMA SetOfSeq ==
  ASSUME NEW T, NEW s \in Seq(T)
  PROVE  /\ Len(s) \in Nat /\ ToSet(s) = {s[i] : i \in 1 .. Len(s)}
         /\ s = <<>> <=> ToSet(s) = {}
         /\ ToSet(s) # {} => s[1] \in ToSet(s)
<1>1. Len(s) \in Nat /\ ToSet(s) = {s[i] : i \in 1 .. Len(s)}
  BY DEF ToSet
<1>2. s = <<>> <=> Len(s) = 0
  OBVIOUS
<1>3. Len(s) # 0 => 1 \in 1 .. Len(s)
  BY <1>1
<1> QED
  BY <1>1, <1>2, <1>3

LEMMA RepresentativeOf ==
  ASSUME NEW T, NEW rs \in Seq(T), None \notin ToSet(rs)
  PROVE  Tells(Representative(rs), ToSet(rs))
<1> DEFINE v == Representative(rs)
           I == {i \in 1 .. Len(rs) : rs[i] # "Completed"}
           failed == IF I # {} THEN Min(I) ELSE 0
<1>1. /\ Len(rs) \in Nat /\ ToSet(rs) = {rs[i] : i \in 1 .. Len(rs)}
      /\ rs = <<>> <=> ToSet(rs) = {}
      /\ ToSet(rs) # {} => rs[1] \in ToSet(rs)
  BY SetOfSeq
<1>2. failed = SelectInSeq(rs, LAMBDA r : r # "Completed")
  BY DEF SelectInSeq
<1>3. I # {} => failed \in I
  <2> SUFFICES ASSUME I # {} PROVE Min(I) \in I
    OBVIOUS
  <2>1. I \subseteq 1 .. Len(rs)
    OBVIOUS
  <2> HIDE DEF I
  <2>2. \A n \in Nat : 1 .. n \subseteq Nat
    OBVIOUS
  <2>3. I \in SUBSET Nat
    BY <1>1, <2>1, <2>2, Zenon
  <2> QED
    BY <2>3, Least DEF Min
<1>4. v = CASE rs = <<>> -> None
            [] Contains(rs, "OOMKilled") -> "OOMKilled"
            [] failed # 0 /\ ~Contains(rs, "OOMKilled") -> rs[failed]
            [] OTHER -> rs[1]
  BY <1>2 DEF Representative
<1>5. Contains(rs, "OOMKilled") <=> "OOMKilled" \in ToSet(rs)
  BY <1>1 DEF Contains
<1>6. I = {} => failed = 0 /\ ToSet(rs) \subseteq {"Completed"}
  BY <1>1
<1>7. I # {} => /\ failed \in 1 .. Len(rs) /\ rs[failed] \in ToSet(rs)
                /\ rs[failed] # "Completed"
  BY <1>1, <1>3
<1> HIDE DEF I, failed, v
<1>8. CASE rs = <<>>
  <2>1. v = None
    BY <1>1, <1>4, <1>5, <1>6, <1>7, <1>8
  <2> QED
    BY <1>1, <1>8, <2>1, AbsentAssumption DEF v, Tells
<1>9. CASE rs # <<>> /\ "OOMKilled" \in ToSet(rs)
  <2>1. v = "OOMKilled"
    BY <1>4, <1>5, <1>9
  <2> QED
    BY <1>9, <2>1 DEF v, Tells
<1>10. CASE rs # <<>> /\ "OOMKilled" \notin ToSet(rs)
  <2>1. CASE I = {}
    <3>1. v = rs[1]
      BY <1>4, <1>5, <1>6, <1>10, <2>1
    <3> QED
      BY <1>1, <1>6, <1>10, <2>1, <3>1 DEF v, Tells
  <2>2. CASE I # {}
    <3>1. v = rs[failed]
      BY <1>4, <1>5, <1>7, <1>10, <2>2
    <3> QED
      BY <1>1, <1>7, <1>10, <2>2, <3>1 DEF v, Tells
  <2> QED
    BY <2>1, <2>2
<1> QED
  BY <1>8, <1>9, <1>10

\* A field of a pod's entries, where it is known.
LEMMA FieldOf ==
  ASSUME NEW T, NEW cs \in Seq(T), NEW pod, NEW g
  PROVE  LET mine == Of(pod, cs)
             s == Known([i \in DOMAIN mine |-> g[mine[i]]])
         IN /\ s \in Seq({g[c] : c \in ToSet(mine)} \ {None})
            /\ ToSet(s) = {g[c] : c \in {x \in ToSet(cs) : x.pod = pod}} \ {None}
<1> DEFINE mine == Of(pod, cs)
           t == [i \in DOMAIN mine |-> g[mine[i]]]
           S == {g[c] : c \in ToSet(mine)}
<1>1. mine \in Seq(T) /\ ToSet(mine) = {c \in ToSet(cs) : c.pod = pod}
  BY OfPod
<1> HIDE DEF mine
<1>2. DOMAIN mine = 1 .. Len(mine) /\ Len(mine) \in Nat
  BY <1>1
<1>3. \A i \in DOMAIN mine : mine[i] \in ToSet(mine)
  BY DEF ToSet
<1>4. t \in Seq(S)
  BY <1>2, <1>3
<1>5. ToSet(t) = S
  BY DEF ToSet
<1> HIDE DEF t
<1>6. Known(t) \in Seq(S \ {None}) /\ ToSet(Known(t)) = ToSet(t) \ {None}
  <2> HIDE DEF S
  <2> QED
    BY <1>4, KnownOf
<1> QED
  BY <1>1, <1>5, <1>6 DEF t, mine

LEMMA StatusOf ==
  ASSUME NEW T, NEW cs \in Seq(T), NEW pod
  PROVE  LET mine == {c \in ToSet(cs) : c.pod = pod}
         IN /\ Tells(pod_status_from_containers(pod, cs),
                     {c.reason : c \in mine} \ {None})
            /\ Tells(pod_restart_info(pod, cs), {c.last : c \in mine} \ {None})
<1> DEFINE mine == {c \in ToSet(cs) : c.pod = pod}
           s == Of(pod, cs)
<1>1. \A i \in DOMAIN s : s[i] \in mine
  <2>1. ToSet(s) = mine
    BY OfPod
  <2> HIDE DEF s, mine
  <2> QED
    BY <2>1 DEF ToSet
<1>2. Tells(pod_status_from_containers(pod, cs), {c.reason : c \in mine} \ {None})
  <2> DEFINE g == [c \in mine |-> c.reason]
             t == Known([i \in DOMAIN s |-> g[s[i]]])
  <2>1. [i \in DOMAIN s |-> g[s[i]]] = [i \in DOMAIN s |-> s[i].reason]
    BY <1>1
  <2>2. pod_status_from_containers(pod, cs) = Representative(t)
    BY <2>1 DEF pod_status_from_containers, Field
  <2>3. {g[c] : c \in mine} = {c.reason : c \in mine}
    OBVIOUS
  <2> HIDE DEF g
  <2>4. /\ t \in Seq({g[c] : c \in ToSet(s)} \ {None})
        /\ ToSet(t) = {g[c] : c \in mine} \ {None}
    BY FieldOf
  <2> HIDE DEF t, s
  <2>5. Tells(Representative(t), ToSet(t))
    BY <2>4, RepresentativeOf
  <2> QED
    BY <2>2, <2>3, <2>4, <2>5
<1>3. Tells(pod_restart_info(pod, cs), {c.last : c \in mine} \ {None})
  <2> DEFINE g == [c \in mine |-> c.last]
             t == Known([i \in DOMAIN s |-> g[s[i]]])
  <2>1. [i \in DOMAIN s |-> g[s[i]]] = [i \in DOMAIN s |-> s[i].last]
    BY <1>1
  <2>2. pod_restart_info(pod, cs) = Representative(t)
    BY <2>1 DEF pod_restart_info, Field
  <2>3. {g[c] : c \in mine} = {c.last : c \in mine}
    OBVIOUS
  <2> HIDE DEF g
  <2>4. /\ t \in Seq({g[c] : c \in ToSet(s)} \ {None})
        /\ ToSet(t) = {g[c] : c \in mine} \ {None}
    BY FieldOf
  <2> HIDE DEF t, s
  <2>5. Tells(Representative(t), ToSet(t))
    BY <2>4, RepresentativeOf
  <2> QED
    BY <2>2, <2>3, <2>4, <2>5
<1> QED
  BY <1>2, <1>3

\* The condition of a pod's Job is one of its entries'.
LEMMA JobsOf ==
  ASSUME NEW T, NEW cs \in Seq(T), NEW pod
  PROVE  LET jobs == {c.job : c \in {x \in ToSet(cs) : x.pod = pod}} \ {None}
         IN pod_job_result(pod, cs) \in IF jobs = {} THEN {None} ELSE jobs
<1> DEFINE mine == {c \in ToSet(cs) : c.pod = pod}
           s == Of(pod, cs)
           g == [c \in mine |-> c.job]
           t == Known([i \in DOMAIN s |-> g[s[i]]])
<1>1. \A i \in DOMAIN s : s[i] \in mine
  <2>1. ToSet(s) = mine
    BY OfPod
  <2> HIDE DEF s, mine
  <2> QED
    BY <2>1 DEF ToSet
<1>2. [i \in DOMAIN s |-> g[s[i]]] = [i \in DOMAIN s |-> s[i].job]
  BY <1>1
<1>3. pod_job_result(pod, cs) = IF t = <<>> THEN None ELSE t[1]
  BY <1>2 DEF pod_job_result, Field
<1>4. {g[c] : c \in mine} = {c.job : c \in mine}
  OBVIOUS
<1> HIDE DEF g
<1>5. /\ t \in Seq({g[c] : c \in ToSet(s)} \ {None})
      /\ ToSet(t) = {g[c] : c \in mine} \ {None}
  BY FieldOf
<1> HIDE DEF t, s
<1>6. (t = <<>> <=> ToSet(t) = {}) /\ (ToSet(t) # {} => t[1] \in ToSet(t))
  BY <1>5, SetOfSeq
<1> HIDE DEF mine
<1>7. pod_job_result(pod, cs) \in IF ToSet(t) = {} THEN {None} ELSE ToSet(t)
  BY <1>3, <1>6
<1> QED
  BY <1>4, <1>5, <1>7 DEF mine

LEMMA ResultOf ==
  ASSUME NEW T, NEW cs \in Seq(T), NEW c \in ToSet(cs),
         \A d \in ToSet(cs) : d.pod = c.pod => d.job = c.job
  PROVE  pod_job_result(c.pod, cs) = c.job
<1> DEFINE jobs == {d.job : d \in {x \in ToSet(cs) : x.pod = c.pod}} \ {None}
<1>1. jobs = {c.job} \ {None}
  OBVIOUS
<1>2. pod_job_result(c.pod, cs) \in IF jobs = {} THEN {None} ELSE jobs
  BY JobsOf
<1> HIDE DEF jobs
<1> QED
  BY <1>1, <1>2

\* The status of the workload is told of the entries that count, and then
\* corrected by what the Jobs say.
Corrected(st, es) ==
  LET said(result) == \E i \in DOMAIN es : es[i].result = result
      done == IF st = None /\ said("Complete") THEN "Completed" ELSE st
  IN IF done \in {None, "Completed"} /\ said("Failed") THEN "Failed" ELSE done

LEMMA RollupOf ==
  ASSUME NEW n \in Nat, NEW es, DOMAIN es = 1 .. n
  PROVE  \E st : /\ Tells(st, {es[i].status : i \in {j \in 1 .. n : ~es[j].retried}} \ {None})
                 /\ Rollup(es) = Corrected(st, es)
<1> DEFINE t == [i \in 1 .. n |-> IF es[i].retried THEN None ELSE es[i].status]
           S == {t[i] : i \in 1 .. n}
           K == {es[i].status : i \in {j \in 1 .. n : ~es[j].retried}} \ {None}
           st == Representative(Known(t))
<1>1. t \in Seq(S) /\ Len(t) = n
  <2>1. DOMAIN t = 1 .. n /\ \A i \in 1 .. n : t[i] \in S
    OBVIOUS
  <2>2. t = [i \in 1 .. n |-> t[i]]
    OBVIOUS
  <2> HIDE DEF t, S
  <2>3. t \in [1 .. n -> S]
    BY <2>1, <2>2
  <2> QED
    BY <2>3
<1>2. Known(t) \in Seq(S \ {None}) /\ ToSet(Known(t)) = ToSet(t) \ {None}
  <2> HIDE DEF t, S
  <2> QED
    BY <1>1, KnownOf
<1>3. ToSet(t) = S
  BY <1>1 DEF ToSet
<1>4. S \ {None} = K
  <2>1. ASSUME NEW x \in S \ {None} PROVE x \in K
    OBVIOUS
  <2>2. ASSUME NEW x \in K PROVE x \in S \ {None}
    <3>1. PICK i \in 1 .. n : ~es[i].retried /\ es[i].status = x
      OBVIOUS
    <3>2. t[i] = x /\ x # None
      BY <3>1
    <3> QED
      BY <3>2
  <2> QED
    BY <2>1, <2>2
<1>5. Rollup(es) = Corrected(st, es)
  BY DEF Rollup, Corrected
<1>6. Tells(st, ToSet(Known(t)))
  <2>1. None \notin ToSet(Known(t))
    BY <1>2
  <2> HIDE DEF t, S
  <2> QED
    BY <1>2, <2>1, RepresentativeOf
<1> HIDE DEF t, S, st
<1>7. Tells(st, K)
  BY <1>2, <1>3, <1>4, <1>6
<1> QED
  BY <1>5, <1>7 DEF K

\* An entry tells of its pod's containers.
EntryTells(e, mine) ==
  /\ Tells(e.status, {c.reason : c \in mine} \ {None})
  /\ Tells(e.last, {c.last : c \in mine} \ {None})
  /\ \A c \in mine : e.result = c.job
  /\ mine = {} => e.result = None
  /\ e.retried <=> e.result = "Complete" /\ e.status \notin {None, "Completed"}

LEMMA EntryOf ==
  ASSUME NEW T, NEW cs \in Seq(T), NEW pod,
         \A c, d \in ToSet(cs) : d.pod = c.pod => d.job = c.job
  PROVE  /\ EntryTells(PodEntry(pod, cs), {c \in ToSet(cs) : c.pod = pod})
         /\ PodEntry(pod, cs).pod = pod
<1> DEFINE mine == {c \in ToSet(cs) : c.pod = pod}
           e == PodEntry(pod, cs)
<1>1. /\ e.pod = pod /\ e.status = pod_status_from_containers(pod, cs)
      /\ e.result = pod_job_result(pod, cs) /\ e.last = pod_restart_info(pod, cs)
      /\ e.retried <=> e.result = "Complete" /\ e.status \notin {None, "Completed"}
  BY DEF PodEntry
<1>2. /\ Tells(e.status, {c.reason : c \in mine} \ {None})
      /\ Tells(e.last, {c.last : c \in mine} \ {None})
  <2>1. /\ Tells(pod_status_from_containers(pod, cs), {c.reason : c \in mine} \ {None})
        /\ Tells(pod_restart_info(pod, cs), {c.last : c \in mine} \ {None})
    BY StatusOf
  <2> HIDE DEF e, mine
  <2> QED
    BY <1>1, <2>1
<1>3. ASSUME NEW c \in mine PROVE e.result = c.job
  BY <1>1, ResultOf
<1>4. mine = {} => e.result = None
  <2>1. mine = {} => {c.job : c \in mine} \ {None} = {}
    OBVIOUS
  <2> QED
    BY <1>1, <2>1, JobsOf
<1> HIDE DEF e, mine
<1>5. EntryTells(e, mine)
  BY <1>1, <1>2, <1>3, <1>4 DEF EntryTells
<1> QED
  BY <1>1, <1>5 DEF e, mine

\* What a status v says of the containers of the pods that are reported.
Worst(v, listed) ==
  LET counted  == {c \in listed : c.job # "Complete"}
      reasons  == {c.reason : c \in counted} \ {None}
      finished == {c \in listed : c.job = "Complete" \/ c.reason = "Completed"}
  IN /\ v = "OOMKilled" <=> "OOMKilled" \in reasons
     /\ v = "Completed" <=> /\ reasons \subseteq {"Completed"} /\ finished # {}
                            /\ \A c \in listed : c.job # "Failed"
     /\ v # "Failed" => v \in reasons \cup {None, "Completed"}

\* The containers of a pod, and of the pods that are listed.
OfOne(C, pod) == {c \in C : c.pod = pod}
OfThese(C, ps, n) == {c \in C : \E i \in 1 .. n : c.pod = ps[i]}

\* The rolled up status is the worst of what counts, and a kill is in the entry
\* of its pod.
LEMMA RollupIsWorst ==
  ASSUME NEW n \in Nat, NEW ps, NEW C, NEW es, DOMAIN es = 1 .. n,
         \A i \in 1 .. n : EntryTells(es[i], OfOne(C, ps[i]))
  PROVE  /\ Worst(Rollup(es), OfThese(C, ps, n))
         /\ \A c \in C, i \in 1 .. n :
              c.pod = ps[i] /\ "OOMKilled" \in {c.reason, c.last} =>
                "OOMKilled" \in {es[i].status, es[i].last}
<1> DEFINE listed == {c \in C : \E i \in 1 .. n : c.pod = ps[i]}
           reasons == {c.reason : c \in {d \in listed : d.job # "Complete"}} \ {None}
           finished == {c \in listed : c.job = "Complete" \/ c.reason = "Completed"}
           K == {es[i].status : i \in {j \in 1 .. n : ~es[j].retried}} \ {None}
           v == Rollup(es)
<1>1. PICK st : Tells(st, K) /\ v = Corrected(st, es)
  BY RollupOf
<1>2. \A i \in 1 .. n, c \in C : c.pod = ps[i] =>
        /\ es[i].result = c.job
        /\ c.reason # None => es[i].status # None
        /\ c.reason # None /\ es[i].status = "Completed" => c.reason = "Completed"
        /\ c.reason = "OOMKilled" => es[i].status = "OOMKilled"
        /\ c.last = "OOMKilled" => es[i].last = "OOMKilled"
        /\ c \in listed
  <2> SUFFICES ASSUME NEW i \in 1 .. n, NEW c \in C, c.pod = ps[i]
               PROVE  /\ es[i].result = c.job
                      /\ c.reason # None => es[i].status # None
                      /\ c.reason # None /\ es[i].status = "Completed"
                           => c.reason = "Completed"
                      /\ c.reason = "OOMKilled" => es[i].status = "OOMKilled"
                      /\ c.last = "OOMKilled" => es[i].last = "OOMKilled"
                      /\ c \in listed
    OBVIOUS
  <2> DEFINE mine == {d \in C : d.pod = ps[i]}
             rs == {d.reason : d \in mine} \ {None}
             ls == {d.last : d \in mine} \ {None}
  <2>1. /\ Tells(es[i].status, rs) /\ Tells(es[i].last, ls)
        /\ \A d \in mine : es[i].result = d.job
    BY DEF EntryTells, OfOne
  <2>2. /\ c \in mine /\ c \in listed
        /\ c.reason # None => c.reason \in rs
        /\ c.last # None => c.last \in ls
        /\ None \notin rs
    OBVIOUS
  <2>3. "OOMKilled" # None /\ "Completed" # None
    BY AbsentAssumption
  <2> HIDE DEF mine, rs, ls, listed
  <2> QED
    BY <2>1, <2>2, <2>3 DEF Tells
<1>3. \A i \in 1 .. n : es[i].status # None =>
        \E c \in C : c.pod = ps[i] /\ c.reason = es[i].status
  <2> SUFFICES ASSUME NEW i \in 1 .. n, es[i].status # None
               PROVE  \E c \in C : c.pod = ps[i] /\ c.reason = es[i].status
    OBVIOUS
  <2> DEFINE rs == {d.reason : d \in {d \in C : d.pod = ps[i]}} \ {None}
  <2>1. Tells(es[i].status, rs)
    BY DEF EntryTells, OfOne
  <2> HIDE DEF rs
  <2>2. es[i].status \in rs
    BY <2>1 DEF Tells
  <2> QED
    BY <2>2 DEF rs
<1>4. \A i \in 1 .. n : es[i].result # None =>
        \E c \in C : c.pod = ps[i] /\ c.job = es[i].result
  <2> SUFFICES ASSUME NEW i \in 1 .. n, es[i].result # None
               PROVE  \E c \in C : c.pod = ps[i] /\ c.job = es[i].result
    OBVIOUS
  <2> DEFINE mine == {d \in C : d.pod = ps[i]}
  <2>1. mine # {} /\ \A d \in mine : es[i].result = d.job
    BY DEF EntryTells, OfOne
  <2> QED
    BY <2>1
<1>5. \A i \in 1 .. n : es[i].retried <=> es[i].result = "Complete"
                                        /\ es[i].status \notin {None, "Completed"}
  BY DEF EntryTells, OfOne
<1>6. /\ "OOMKilled" # None /\ "Completed" # None /\ "Complete" # None
      /\ "Failed" # None
  BY AbsentAssumption
<1>7. \A x \in listed : \E i \in 1 .. n : x \in C /\ x.pod = ps[i]
  OBVIOUS
<1>8. /\ \A x \in reasons : x # None /\
           \E c \in listed : c.job # "Complete" /\ c.reason = x
      /\ \A c \in listed : c.job # "Complete" /\ c.reason # None => c.reason \in reasons
  OBVIOUS
<1>9. /\ \A x \in K : x # None /\ \E i \in 1 .. n : ~es[i].retried /\ es[i].status = x
      /\ \A i \in 1 .. n : ~es[i].retried /\ es[i].status # None => es[i].status \in K
  OBVIOUS
<1>10. /\ \A c \in listed : c.job = "Complete" \/ c.reason = "Completed" => c \in finished
       /\ \A c \in finished : c \in listed /\ (c.job = "Complete" \/ c.reason = "Completed")
  OBVIOUS
<1> HIDE DEF listed, reasons, finished, K, v
<1>11. "OOMKilled" \in K <=> "OOMKilled" \in reasons
  <2>1. ASSUME "OOMKilled" \in K PROVE "OOMKilled" \in reasons
    <3>1. PICK i \in 1 .. n : ~es[i].retried /\ es[i].status = "OOMKilled"
      BY <2>1, <1>9
    <3>2. PICK c \in C : c.pod = ps[i] /\ c.reason = "OOMKilled"
      BY <3>1, <1>3, <1>6
    <3> QED
      BY <3>1, <3>2, <1>2, <1>5, <1>6, <1>8
  <2>2. ASSUME "OOMKilled" \in reasons PROVE "OOMKilled" \in K
    <3>1. PICK c \in listed : c.job # "Complete" /\ c.reason = "OOMKilled"
      BY <2>2, <1>8
    <3>2. PICK i \in 1 .. n : c \in C /\ c.pod = ps[i]
      BY <1>7
    <3> QED
      BY <3>1, <3>2, <1>2, <1>5, <1>6, <1>9
  <2> QED
    BY <2>1, <2>2
<1>12. K \subseteq reasons \cup {"Completed"}
  <2> SUFFICES ASSUME NEW x \in K, x # "Completed" PROVE x \in reasons
    OBVIOUS
  <2>1. PICK i \in 1 .. n : ~es[i].retried /\ es[i].status = x
    BY <1>9
  <2>2. PICK c \in C : c.pod = ps[i] /\ c.reason = x
    BY <2>1, <1>3, <1>9
  <2> QED
    BY <2>1, <2>2, <1>2, <1>5, <1>8, <1>9
<1>13. K \subseteq {"Completed"} <=> reasons \subseteq {"Completed"}
  <2>1. ASSUME K \subseteq {"Completed"}, NEW x \in reasons PROVE x = "Completed"
    <3>1. PICK c \in listed : c.job # "Complete" /\ c.reason = x
      BY <1>8
    <3>2. PICK i \in 1 .. n : c \in C /\ c.pod = ps[i]
      BY <1>7
    <3>3. es[i].status \in K
      BY <3>1, <3>2, <1>2, <1>5, <1>8, <1>9
    <3> QED
      BY <2>1, <3>1, <3>2, <3>3, <1>2, <1>8
  <2> QED
    BY <2>1, <1>12
<1>14. \A r \in {"Complete", "Failed"} :
         (\E i \in 1 .. n : es[i].result = r) <=> \E c \in listed : c.job = r
  BY <1>2, <1>4, <1>6, <1>7
<1>15. K \subseteq {"Completed"} =>
         (K # {} \/ (\E i \in 1 .. n : es[i].result = "Complete") <=> finished # {})
  <2>1. ASSUME K \subseteq {"Completed"}, K # {} PROVE finished # {}
    <3>1. PICK i \in 1 .. n : es[i].status = "Completed"
      <4>1. PICK x \in K : x = "Completed"
        BY <2>1
      <4> QED
        BY <4>1, <1>9
    <3>2. PICK c \in C : c.pod = ps[i] /\ c.reason = "Completed"
      BY <3>1, <1>3, <1>6
    <3> QED
      BY <3>2, <1>2, <1>10
  <2>2. ASSUME NEW c \in finished, c.job # "Complete" PROVE K # {}
    <3>1. c \in listed /\ c.reason = "Completed"
      BY <2>2, <1>10
    <3>2. PICK i \in 1 .. n : c \in C /\ c.pod = ps[i]
      BY <3>1, <1>7
    <3> QED
      BY <2>2, <3>1, <3>2, <1>2, <1>5, <1>6, <1>9
  <2> QED
    BY <2>1, <2>2, <1>10, <1>14
<1>16. /\ st = None <=> K = {}
       /\ st # None => st \in K
       /\ st = "OOMKilled" <=> "OOMKilled" \in K
       /\ st = "Completed" <=> K # {} /\ K \subseteq {"Completed"}
  BY <1>1, <1>6, <1>9 DEF Tells
<1>17. /\ v = "OOMKilled" <=> st = "OOMKilled"
       /\ v = "Completed" <=>
            /\ st = "Completed" \/ (st = None /\ \E i \in 1 .. n : es[i].result = "Complete")
            /\ ~\E i \in 1 .. n : es[i].result = "Failed"
       /\ v # "Failed" => v \in {st, "Completed"}
  BY <1>1, <1>6 DEF Corrected
<1>18. /\ v = "OOMKilled" <=> "OOMKilled" \in reasons
       /\ v = "Completed" <=> /\ reasons \subseteq {"Completed"} /\ finished # {}
                              /\ \A c \in listed : c.job # "Failed"
       /\ v # "Failed" => v \in reasons \cup {None, "Completed"}
  <2>1. v = "OOMKilled" <=> "OOMKilled" \in reasons
    BY <1>11, <1>16, <1>17
  <2>2. v = "Completed" <=> /\ reasons \subseteq {"Completed"} /\ finished # {}
                            /\ \A c \in listed : c.job # "Failed"
    BY <1>13, <1>14, <1>15, <1>16, <1>17
  <2>3. v # "Failed" => v \in reasons \cup {None, "Completed"}
    BY <1>12, <1>16, <1>17
  <2> QED
    BY <2>1, <2>2, <2>3
<1>19. Worst(v, listed)
  BY <1>18 DEF Worst, reasons, finished
<1> QED
  BY <1>2, <1>19 DEF listed, v, OfThese

\* The same for the entries of a sequence of pods.
LEMMA ReportIsWorst ==
  ASSUME NEW P, NEW ps \in Seq(P), NEW T, NEW cs \in Seq(T), NEW es,
         \A c, d \in ToSet(cs) : d.pod = c.pod => d.job = c.job,
         DOMAIN es = DOMAIN ps, \A i \in DOMAIN ps : es[i] = PodEntry(ps[i], cs)
  PROVE  LET listed == {c \in ToSet(cs) : c.pod \in ToSet(ps)}
         IN /\ Worst(Rollup(es), listed)
            /\ \A c \in listed : "OOMKilled" \in {c.reason, c.last} =>
                 \E i \in DOMAIN es :
                   es[i].pod = c.pod /\ "OOMKilled" \in {es[i].status, es[i].last}
<1> DEFINE n == Len(ps)
           C == ToSet(cs)
           listed == {c \in C : c.pod \in ToSet(ps)}
<1>1. n \in Nat /\ DOMAIN es = 1 .. n
  OBVIOUS
<1>2. \A i \in 1 .. n : /\ EntryTells(es[i], OfOne(C, ps[i]))
                        /\ es[i].pod = ps[i]
  <2> SUFFICES ASSUME NEW i \in 1 .. n
               PROVE  /\ EntryTells(es[i], OfOne(C, ps[i]))
                      /\ es[i].pod = ps[i]
    OBVIOUS
  <2>1. es[i] = PodEntry(ps[i], cs)
    OBVIOUS
  <2>2. /\ EntryTells(PodEntry(ps[i], cs), OfOne(C, ps[i]))
        /\ PodEntry(ps[i], cs).pod = ps[i]
    BY EntryOf DEF OfOne
  <2> QED
    BY <2>1, <2>2
<1>3. listed = OfThese(C, ps, n)
  BY DEF ToSet, OfThese
<1> HIDE DEF n, C
<1>4. /\ Worst(Rollup(es), OfThese(C, ps, n))
      /\ \A c \in C, i \in 1 .. n :
           c.pod = ps[i] /\ "OOMKilled" \in {c.reason, c.last} =>
             "OOMKilled" \in {es[i].status, es[i].last}
  <2>1. \A i \in 1 .. n : EntryTells(es[i], OfOne(C, ps[i]))
    BY <1>2
  <2>2. Worst(Rollup(es), OfThese(C, ps, n))
    BY <1>1, <2>1, RollupIsWorst
  <2>3. \A c \in C, i \in 1 .. n :
           c.pod = ps[i] /\ "OOMKilled" \in {c.reason, c.last} =>
             "OOMKilled" \in {es[i].status, es[i].last}
    BY <1>1, <2>1, RollupIsWorst
  <2> QED
    BY <2>2, <2>3
<1>5. \A c \in listed : \E i \in 1 .. n : c \in C /\ c.pod = ps[i]
  BY <1>3 DEF OfThese
<1> HIDE DEF listed
<1>6. /\ Worst(Rollup(es), listed)
      /\ \A c \in listed : "OOMKilled" \in {c.reason, c.last} =>
           \E i \in DOMAIN es :
             es[i].pod = c.pod /\ "OOMKilled" \in {es[i].status, es[i].last}
  BY <1>1, <1>2, <1>3, <1>4, <1>5
<1> QED
  BY <1>6 DEF listed, C

-----------------------------------------------------------------------------
(* The series document *)

\* The place of a point on a grid that is f times as coarse.
LEMMA BucketOf ==
  ASSUME NEW i \in Nat, NEW f \in Nat \ {0}
  PROVE  /\ i \div f \in Nat /\ i \div f <= i
         /\ i % f \in 0 .. f - 1 /\ i = f * (i \div f) + (i % f)
OBVIOUS

LEMMA BucketIs ==
  ASSUME NEW i \in Nat, NEW f \in Nat \ {0}, NEW b \in Nat
  PROVE  i \div f = b <=> b * f <= i /\ i < (b + 1) * f
OBVIOUS

LEMMA CeilBound ==
  ASSUME NEW c \in Nat, NEW f \in Nat \ {0}, NEW k \in Nat, c <= f * k
  PROVE  Ceil(c, f) <= k
BY DEF Ceil

\* The buckets that have a point of a line.
Buckets(line, f, H) == {b \in 0 .. H : \E i \in line : b * f <= i /\ i < (b + 1) * f}

LEMMA RebucketIs ==
  ASSUME NEW H \in Nat, NEW line \in SUBSET (0 .. H), NEW f \in Nat \ {0}
  PROVE  _rebucket_points(line, f) = Buckets(line, f, H)
<1>1. ASSUME NEW i \in line PROVE i \div f \in Buckets(line, f, H)
  <2>1. i \in Nat /\ i <= H
    OBVIOUS
  <2>2. i \div f \in Nat /\ i \div f <= i
    BY <2>1, BucketOf
  <2>3. (i \div f) * f <= i /\ i < ((i \div f) + 1) * f
    BY <2>1, <2>2, BucketIs
  <2> QED
    BY <2>1, <2>2, <2>3 DEF Buckets
<1>2. ASSUME NEW b \in Buckets(line, f, H) PROVE \E i \in line : i \div f = b
  <2>1. PICK i \in line : b * f <= i /\ i < (b + 1) * f
    BY DEF Buckets
  <2>2. b \in Nat /\ i \in Nat
    BY DEF Buckets
  <2> QED
    BY <2>1, <2>2, BucketIs
<1> QED
  BY <1>1, <1>2 DEF _rebucket_points

LEMMA RebucketByOne ==
  ASSUME NEW line \in SUBSET Nat
  PROVE  _rebucket_points(line, 1) = line
<1>1. ASSUME NEW i \in line PROVE i \div 1 = i
  OBVIOUS
<1> QED
  BY <1>1 DEF _rebucket_points

\* No more than f points fall into one bucket.
LEMMA BucketsHold ==
  ASSUME NEW line \in SUBSET Nat, IsFiniteSet(line), NEW f \in Nat \ {0}
  PROVE  /\ IsFiniteSet(_rebucket_points(line, f))
         /\ Cardinality(line) <= f * Cardinality(_rebucket_points(line, f))
<1> DEFINE B == _rebucket_points(line, f)
           R == 0 .. f - 1
           to == [i \in line |-> i \div f]
           g == [i \in line |-> <<i \div f, i % f>>]
<1>1. IsFiniteSet(B)
  <2>1. to \in Surjection(line, B)
    BY DEF Surjection, _rebucket_points
  <2> HIDE DEF to, B
  <2> QED
    BY <2>1, FS_Surjection
<1>2. g \in Injection(line, B \X R)
  <2>1. ASSUME NEW i \in line PROVE g[i] = <<i \div f, i % f>> /\ g[i] \in B \X R
    <3>1. i % f \in R
      BY BucketOf
    <3>2. i \div f \in B
      BY DEF _rebucket_points
    <3> HIDE DEF B, R
    <3> QED
      BY <3>1, <3>2
  <2>2. g \in [line -> B \X R]
    <3> HIDE DEF B, R
    <3> QED
      BY <2>1
  <2>3. ASSUME NEW i \in line, NEW j \in line, g[i] = g[j] PROVE i = j
    <3>1. i \div f = j \div f /\ i % f = j % f
      BY <2>1, <2>3
    <3>2. i = f * (i \div f) + (i % f) /\ j = f * (j \div f) + (j % f)
      BY BucketOf
    <3> QED
      BY <3>1, <3>2
  <2> HIDE DEF g, B, R
  <2> QED
    BY <2>2, <2>3 DEF Injection, IsInjective
<1>3. IsFiniteSet(R) /\ Cardinality(R) = f
  BY FS_Interval
<1>4. IsFiniteSet(B \X R) /\ Cardinality(B \X R) = Cardinality(B) * Cardinality(R)
  <2> HIDE DEF B, R
  <2> QED
    BY <1>1, <1>3, FS_Product
<1>5. Cardinality(line) <= Cardinality(B \X R)
  <2> HIDE DEF g, B, R
  <2> QED
    BY <1>2, <1>4, FS_Injection
<1>6. Cardinality(B) \in Nat
  <2> HIDE DEF B
  <2> QED
    BY <1>1, FS_CardinalityType
<1> HIDE DEF B, R
<1>7. Cardinality(B) * f = f * Cardinality(B)
  BY <1>6
<1> QED
  BY <1>1, <1>3, <1>4, <1>5, <1>6, <1>7 DEF B

\* A document: each metric has lines of a grid of H places.
SeriesEntries(H) ==
  [agg: SUBSET (0 .. H), peak: SUBSET (0 .. H), lines: Seq(SUBSET (0 .. H))]
DocOK(doc, H) ==
  /\ IsFiniteSet(DOMAIN doc) /\ doc = [m \in DOMAIN doc |-> doc[m]]
  /\ \A m \in DOMAIN doc : doc[m] \in SeriesEntries(H)

LEMMA LineSize ==
  ASSUME NEW H \in Nat, NEW line \in SUBSET (0 .. H)
  PROVE  IsFiniteSet(line) /\ Cardinality(line) \in Nat /\ Cardinality(line) <= H + 1
<1>1. IsFiniteSet(0 .. H) /\ Cardinality(0 .. H) = H + 1
  BY FS_Interval
<1> QED
  BY <1>1, FS_Subset, FS_CardinalityType

LEMMA GreatestIs ==
  ASSUME NEW S \in SUBSET Nat, S # {}, NEW b \in Nat, \A x \in S : x <= b
  PROVE  Max(S) \in S /\ \A x \in S : x <= Max(S)
<1>1. PICK k \in S : \A x \in S : x <= k
  BY Bounded
<1>2. \E y \in S : \A x \in S : y >= x
  BY <1>1
<1>3. Max(S) \in S /\ \A x \in S : Max(S) >= x
  BY <1>2, Zenon DEF Max
<1> QED
  BY <1>3

LEMMA LeastIs ==
  ASSUME NEW S \in SUBSET Nat, S # {}
  PROVE  Min(S) \in S /\ \A x \in S : Min(S) <= x
BY Least DEF Min

\* The longest aggregate line.
LEMMA LongestIs ==
  ASSUME NEW H \in Nat, NEW doc, DocOK(doc, H), DOMAIN doc # {}
  PROVE  /\ Longest(doc) \in Nat /\ Longest(doc) <= H + 1
         /\ \A m \in DOMAIN doc : Cardinality(doc[m].agg) <= Longest(doc)
         /\ \E m \in DOMAIN doc : Cardinality(doc[m].agg) = Longest(doc)
<1> DEFINE S == {Cardinality(doc[m].agg) : m \in DOMAIN doc}
<1>1. \A m \in DOMAIN doc : /\ Cardinality(doc[m].agg) \in Nat
                            /\ Cardinality(doc[m].agg) <= H + 1
  BY LineSize DEF DocOK, SeriesEntries
<1>2. S \in SUBSET Nat /\ S # {} /\ \A x \in S : x <= H + 1
  BY <1>1
<1>3. Max(S) \in S /\ \A x \in S : x <= Max(S)
  <2> DEFINE b == H + 1
  <2>1. b \in Nat /\ \A x \in S : x <= b
    BY <1>2
  <2> HIDE DEF S, b
  <2> QED
    BY <1>2, <2>1, GreatestIs
<1>4. Longest(doc) = Max(S)
  BY DEF Longest
<1> QED
  BY <1>1, <1>2, <1>3, <1>4

\* A metric on a coarser grid: its lines may have fewer points.
OnCoarser(new, doc, m, f, H) ==
  /\ new[m].agg = Buckets(doc[m].agg, f, H)
  /\ new[m].peak = Buckets(doc[m].peak, f, H)
  /\ new[m].lines = [i \in DOMAIN doc[m].lines |-> Buckets(doc[m].lines[i], f, H)]
  /\ Len(new[m].lines) = Len(doc[m].lines)
  /\ new[m] \in SeriesEntries(H)
  /\ Cardinality(doc[m].agg) <= f * Cardinality(new[m].agg)

LEMMA CoarserIs ==
  ASSUME NEW H \in Nat, NEW doc, DocOK(doc, H), NEW f \in Nat \ {0},
         NEW m \in DOMAIN doc
  PROVE  OnCoarser(_rebucket_series_doc(doc, f), doc, m, f, H)
<1> DEFINE agg == _rebucket_points(doc[m].agg, f)
           peak == _rebucket_points(doc[m].peak, f)
           lines == [i \in DOMAIN doc[m].lines |-> _rebucket_points(doc[m].lines[i], f)]
           L == doc[m].lines
           B == [i \in DOMAIN doc[m].lines |-> Buckets(doc[m].lines[i], f, H)]
<1>1. _rebucket_series_doc(doc, f)[m] = [agg |-> agg, peak |-> peak, lines |-> lines]
  BY DEF _rebucket_series_doc
<1>2. /\ doc[m].agg \in SUBSET (0 .. H) /\ doc[m].peak \in SUBSET (0 .. H)
      /\ L \in Seq(SUBSET (0 .. H))
  BY DEF DocOK, SeriesEntries
<1>3. agg = Buckets(doc[m].agg, f, H) /\ peak = Buckets(doc[m].peak, f, H)
  BY <1>2, RebucketIs
<1>4. lines = B
  <2>1. \A i \in DOMAIN L : L[i] \in SUBSET (0 .. H)
    BY <1>2
  <2>2. \A i \in DOMAIN L : _rebucket_points(L[i], f) = Buckets(L[i], f, H)
    BY <2>1, RebucketIs
  <2> QED
    BY <2>2
<1>5. B \in Seq(SUBSET (0 .. H)) /\ Len(B) = Len(L)
  <2>1. Len(L) \in Nat /\ DOMAIN L = 1 .. Len(L)
    BY <1>2
  <2>2. \A i \in DOMAIN L : Buckets(L[i], f, H) \in SUBSET (0 .. H)
    BY DEF Buckets
  <2>3. B \in [1 .. Len(L) -> SUBSET (0 .. H)]
    BY <2>1, <2>2
  <2> HIDE DEF B, L
  <2> QED
    BY <2>1, <2>3
<1>6. Cardinality(doc[m].agg) <= f * Cardinality(agg)
  <2>1. IsFiniteSet(doc[m].agg)
    BY <1>2, LineSize
  <2>2. doc[m].agg \in SUBSET Nat
    BY <1>2
  <2> QED
    BY <2>1, <2>2, BucketsHold
<1>7. agg \in SUBSET (0 .. H) /\ peak \in SUBSET (0 .. H)
  BY <1>3 DEF Buckets
<1> HIDE DEF agg, peak, lines, B, L
<1> QED
  BY <1>1, <1>3, <1>4, <1>5, <1>6, <1>7 DEF OnCoarser, SeriesEntries, B, L

\* The grids on which a document may be stored.
Grids(doc) == {1} \cup Factors(doc)

Coarser(new, doc, f, H) == \A m \in DOMAIN doc :
  /\ new[m].agg = Buckets(doc[m].agg, f, H)
  /\ new[m].peak = Buckets(doc[m].peak, f, H)
  /\ new[m].lines \in
       {<<>>, [i \in DOMAIN doc[m].lines |-> Buckets(doc[m].lines[i], f, H)]}
Kept(new, doc, m) == Len(new[m].lines) = Len(doc[m].lines)

LEMMA GridsAre ==
  ASSUME NEW H \in Nat, NEW doc, DocOK(doc, H), DOMAIN doc # {}
  PROVE  /\ Factors(doc) \in SUBSET Nat /\ Grids(doc) \subseteq Nat \ {0}
         /\ Max(Grids(doc)) = IF Factors(doc) = {} THEN 1 ELSE Max(Factors(doc))
         /\ Factors(doc) # {} => Max(Factors(doc)) \in Factors(doc)
<1> DEFINE b == H + 1
           F == Factors(doc)
           G == {1} \cup F
<1>1. \A f \in F : f \in Nat /\ f >= 2 /\ f <= b
  BY LongestIs DEF Factors
<1>2. b \in Nat /\ 1 <= b
  OBVIOUS
<1> HIDE DEF F, b
<1>3. G \in SUBSET Nat /\ G # {} /\ \A g \in G : g <= b
  BY <1>1, <1>2
<1>4. Max(G) \in G /\ \A g \in G : g <= Max(G)
  <2> HIDE DEF G
  <2> QED
    BY <1>2, <1>3, GreatestIs
<1>5. F # {} => Max(F) \in F /\ \A f \in F : f <= Max(F)
  BY <1>1, <1>2, GreatestIs
<1>6. CASE F = {}
  BY <1>1, <1>4, <1>6 DEF Grids, F
<1>7. CASE F # {}
  <2>1. Max(F) \in G /\ Max(F) <= Max(G) /\ Max(G) # 1
    <3>1. \A f \in F : f \in G /\ f <= Max(G)
      BY <1>4
    <3> QED
      BY <1>1, <1>3, <1>4, <1>5, <1>7, <3>1
  <2>2. Max(G) \in F
    BY <1>4, <2>1
  <2>3. Max(G) = Max(F)
    BY <1>1, <1>5, <1>7, <2>1, <2>2
  <2> QED
    BY <1>1, <1>5, <1>7, <2>3 DEF Grids, F
<1> QED
  BY <1>6, <1>7

LEMMA PairLeast ==
  ASSUME NEW a \in Nat, NEW b \in Nat
  PROVE  Min({a, b}) <= a /\ Min({a, b}) <= b /\ Min({a, b}) \in {a, b}
<1> DEFINE S == {a, b}
<1>1. S \in SUBSET Nat /\ S # {} /\ a \in S /\ b \in S
  OBVIOUS
<1> HIDE DEF S
<1>2. Min(S) \in S /\ \A x \in S : Min(S) <= x
  BY <1>1, LeastIs
<1> QED
  BY <1>1, <1>2 DEF S

\* A document on one of these grids: all of it, with lines that are long enough.
LEMMA OnGrid ==
  ASSUME NEW H \in Nat, NEW doc, DocOK(doc, H), DOMAIN doc # {}, NEW f \in Grids(doc)
  PROVE  LET new == _rebucket_series_doc(doc, f)
         IN /\ DocOK(new, H) /\ DOMAIN new = DOMAIN doc
            /\ Coarser(new, doc, f, H)
            /\ \A m \in DOMAIN doc : Kept(new, doc, m)
            /\ Longest(new) >= Min({SERIES_MIN_POINTS, Longest(doc)})
<1> DEFINE new == _rebucket_series_doc(doc, f)
<1>1. f \in Nat \ {0}
  BY GridsAre
<1>2. DOMAIN new = DOMAIN doc /\ new = [m \in DOMAIN doc |-> new[m]]
  BY DEF _rebucket_series_doc
<1>3. \A m \in DOMAIN doc : OnCoarser(new, doc, m, f, H)
  BY <1>1, CoarserIs
<1> HIDE DEF new
<1>4. DocOK(new, H)
  BY <1>2, <1>3 DEF DocOK, OnCoarser
<1>5. Coarser(new, doc, f, H) /\ \A m \in DOMAIN doc : Kept(new, doc, m)
  BY <1>3 DEF Coarser, Kept, OnCoarser
<1>6. Longest(new) >= Min({SERIES_MIN_POINTS, Longest(doc)})
  <2>1. PICK m \in DOMAIN doc : Cardinality(doc[m].agg) = Longest(doc)
    BY LongestIs
  <2>2. /\ Longest(doc) \in Nat /\ Longest(new) \in Nat
        /\ Cardinality(new[m].agg) <= Longest(new)
    BY <1>2, <1>4, LongestIs
  <2>3. Cardinality(new[m].agg) \in Nat
    BY <1>3, LineSize DEF SeriesEntries, OnCoarser
  <2>4. Longest(doc) <= f * Cardinality(new[m].agg)
    BY <1>3, <2>1 DEF OnCoarser
  <2>5. /\ SERIES_MIN_POINTS \in Nat
        /\ Min({SERIES_MIN_POINTS, Longest(doc)}) <= SERIES_MIN_POINTS
        /\ Min({SERIES_MIN_POINTS, Longest(doc)}) <= Longest(doc)
        /\ Min({SERIES_MIN_POINTS, Longest(doc)}) \in Nat
    BY <2>2, SeriesAssumption, PairLeast
  <2>6. CASE f = 1
    BY <2>2, <2>3, <2>4, <2>5, <2>6
  <2>7. CASE f \in Factors(doc)
    <3>1. Ceil(Longest(doc), f) <= Cardinality(new[m].agg)
      BY <1>1, <2>2, <2>3, <2>4, CeilBound
    <3>2. Ceil(Longest(doc), f) >= SERIES_MIN_POINTS
      BY <2>7 DEF Factors
    <3>3. Ceil(Longest(doc), f) \in Int
      BY <1>1, <2>2 DEF Ceil
    <3> QED
      BY <2>2, <2>3, <2>5, <3>1, <3>2, <3>3
  <2> QED
    BY <2>6, <2>7 DEF Grids
<1> QED
  BY <1>2, <1>4, <1>5, <1>6 DEF new

LEMMA SameDocument ==
  ASSUME NEW H \in Nat, NEW doc, DocOK(doc, H)
  PROVE  _rebucket_series_doc(doc, 1) = doc
<1>1. ASSUME NEW m \in DOMAIN doc
      PROVE  [agg   |-> _rebucket_points(doc[m].agg, 1),
              peak  |-> _rebucket_points(doc[m].peak, 1),
              lines |-> [i \in DOMAIN doc[m].lines |->
                           _rebucket_points(doc[m].lines[i], 1)]] = doc[m]
  <2> DEFINE L == doc[m].lines
  <2>1. /\ doc[m] \in SeriesEntries(H)
        /\ doc[m] = [agg |-> doc[m].agg, peak |-> doc[m].peak, lines |-> doc[m].lines]
    BY DEF DocOK, SeriesEntries
  <2>2. /\ doc[m].agg \in SUBSET Nat /\ doc[m].peak \in SUBSET Nat
        /\ L = [i \in DOMAIN L |-> L[i]] /\ \A i \in DOMAIN L : L[i] \in SUBSET Nat
    BY <2>1 DEF SeriesEntries
  <2>3. \A i \in DOMAIN L : _rebucket_points(L[i], 1) = L[i]
    BY <2>2, RebucketByOne
  <2>4. [i \in DOMAIN L |-> _rebucket_points(L[i], 1)] = L
    BY <2>2, <2>3
  <2> QED
    BY <2>1, <2>2, <2>4, RebucketByOne
<1>2. doc = [m \in DOMAIN doc |-> doc[m]]
  BY DEF DocOK
<1> QED
  BY <1>1, <1>2 DEF _rebucket_series_doc

\* A document without the detail of some metrics is otherwise the same.
LEMMA WithoutIs ==
  ASSUME NEW H \in Nat, NEW doc, DocOK(doc, H), NEW ms \in SUBSET DOMAIN doc
  PROVE  /\ DOMAIN WithoutDetail(doc, ms) = DOMAIN doc
         /\ \A m \in DOMAIN doc :
              /\ WithoutDetail(doc, ms)[m].agg = doc[m].agg
              /\ WithoutDetail(doc, ms)[m].peak = doc[m].peak
              /\ WithoutDetail(doc, ms)[m].lines \in {<<>>, doc[m].lines}
         /\ Longest(WithoutDetail(doc, ms)) = Longest(doc)
<1> DEFINE new == WithoutDetail(doc, ms)
<1>1. DOMAIN new = DOMAIN doc
  BY DEF WithoutDetail
<1>2. ASSUME NEW m \in DOMAIN doc
      PROVE  /\ new[m].agg = doc[m].agg /\ new[m].peak = doc[m].peak
             /\ new[m].lines \in {<<>>, doc[m].lines}
  BY DEF WithoutDetail, DocOK, SeriesEntries
<1> HIDE DEF new
<1>3. {Cardinality(new[m].agg) : m \in DOMAIN new} = {Cardinality(doc[m].agg) : m \in DOMAIN doc}
  BY <1>1, <1>2
<1>4. Longest(new) = Longest(doc)
  BY <1>3 DEF Longest
<1> QED
  BY <1>1, <1>2, <1>4 DEF new

\* Nothing is gained where there is no detail.
LEMMA NothingToDrop ==
  ASSUME NEW H \in Nat, NEW doc, DocOK(doc, H)
  PROVE  WithoutDetail(doc, {m \in DOMAIN doc : doc[m].lines # <<>>})
           = WithoutDetail(doc, DOMAIN doc)
<1>1. ASSUME NEW m \in DOMAIN doc, doc[m].lines = <<>>
      PROVE  doc[m] = [doc[m] EXCEPT !.lines = <<>>]
  BY <1>1 DEF DocOK, SeriesEntries
<1> QED
  BY <1>1 DEF WithoutDetail

\* A set of finite sets has a smallest.
LEMMA Smallest ==
  ASSUME NEW S, S # {}, \A s \in S : Cardinality(s) \in Nat
  PROVE  \E s \in S : \A t \in S : Cardinality(s) <= Cardinality(t)
<1> DEFINE C == {Cardinality(s) : s \in S}
<1>1. C \in SUBSET Nat /\ C # {}
  OBVIOUS
<1>2. PICK n \in C : \A k \in C : n <= k
  <2> HIDE DEF C
  <2> QED
    BY <1>1, Least
<1> QED
  BY <1>2

-----------------------------------------------------------------------------
(* What a document must be after _fit_series_doc *)

FitGood(doc, new, H) ==
  \/ /\ new = NoDoc
     /\ ~Fits(WithoutDetail(_rebucket_series_doc(doc, Max(Grids(doc))), DOMAIN doc))
  \/ /\ DOMAIN new = DOMAIN doc /\ Fits(new)
     /\ \E f \in Grids(doc) : Coarser(new, doc, f, H)
     /\ Longest(new) >= Min({SERIES_MIN_POINTS, Longest(doc)})
     /\ \/ \A m \in DOMAIN doc : Kept(new, doc, m)
        \/ \A f \in Grids(doc) : ~Fits(_rebucket_series_doc(doc, f))

LEMMA FitIsGood ==
  ASSUME NEW H \in Nat, NEW doc, DocOK(doc, H), DOMAIN doc # {}
  PROVE  FitGood(doc, _fit_series_doc(doc), H)
<1> DEFINE F == Factors(doc)
           on(f) == _rebucket_series_doc(doc, f)
           fitting == {f \in F : Fits(on(f))}
           coarsest == IF F = {} THEN doc ELSE on(Max(F))
           detailed == {m \in DOMAIN coarsest : coarsest[m].lines # <<>>}
           rounds == {ms \in DropRounds(coarsest) : Fits(WithoutDetail(coarsest, ms))}
           ms0 == CHOOSE ms \in rounds : \A other \in rounds :
                    Cardinality(ms) <= Cardinality(other)
           fit == _fit_series_doc(doc)
<1>1. fit = CASE Fits(doc) -> doc
              [] ~Fits(doc) /\ fitting # {} -> on(Min(fitting))
              [] ~Fits(doc) /\ fitting = {} /\ rounds # {} -> WithoutDetail(coarsest, ms0)
              [] OTHER -> NoDoc
  BY DEF _fit_series_doc
<1>2. /\ \A f \in Grids(doc) :
           /\ DocOK(on(f), H) /\ DOMAIN on(f) = DOMAIN doc
           /\ Coarser(on(f), doc, f, H)
           /\ \A m \in DOMAIN doc : Kept(on(f), doc, m)
           /\ Longest(on(f)) >= Min({SERIES_MIN_POINTS, Longest(doc)})
      /\ on(1) = doc /\ F \in SUBSET Nat /\ F \subseteq Grids(doc)
      /\ 1 \in Grids(doc) /\ Max(Grids(doc)) \in Grids(doc)
      /\ coarsest = on(Max(Grids(doc)))
  BY OnGrid, SameDocument, GridsAre DEF Grids
<1>3. /\ DocOK(coarsest, H) /\ DOMAIN coarsest = DOMAIN doc
      /\ Coarser(coarsest, doc, Max(Grids(doc)), H)
      /\ Longest(coarsest) >= Min({SERIES_MIN_POINTS, Longest(doc)})
  BY <1>2
<1>4. detailed \in DropRounds(coarsest) /\ DropRounds(coarsest) \subseteq SUBSET DOMAIN doc
  BY <1>3 DEF DropRounds
<1>5. WithoutDetail(coarsest, detailed) = WithoutDetail(coarsest, DOMAIN doc)
  BY <1>3, NothingToDrop
<1>6. rounds # {} => ms0 \in rounds
  <2> SUFFICES ASSUME rounds # {} PROVE ms0 \in rounds
    OBVIOUS
  <2>1. IsFiniteSet(DOMAIN doc)
    BY DEF DocOK
  <2>2. \A ms \in rounds : Cardinality(ms) \in Nat
    BY <1>4, <2>1, FS_Subset, FS_CardinalityType
  <2> HIDE DEF rounds
  <2> QED
    BY <2>2, Smallest
<1>7. CASE Fits(doc)
  <2>1. fit = on(1)
    BY <1>1, <1>2, <1>7
  <2> HIDE DEF fit, on
  <2> QED
    BY <1>2, <1>7, <2>1 DEF FitGood, fit, on
<1>8. CASE ~Fits(doc) /\ fitting # {}
  <2>1. fit = on(Min(fitting))
    BY <1>1, <1>8
  <2>2. fitting \in SUBSET Nat
    BY <1>2
  <2>3. Min(fitting) \in fitting
    <3> HIDE DEF fitting
    <3> QED
      BY <1>8, <2>2, LeastIs
  <2>4. Min(fitting) \in Grids(doc) /\ Fits(fit)
    BY <1>2, <2>1, <2>3
  <2> HIDE DEF fit, on, fitting
  <2> QED
    BY <1>2, <2>1, <2>4 DEF FitGood, fit, on
<1>9. ASSUME ~Fits(doc), fitting = {}
      PROVE  \A f \in Grids(doc) : ~Fits(_rebucket_series_doc(doc, f))
  BY <1>2, <1>9 DEF Grids
<1>10. CASE ~Fits(doc) /\ fitting = {} /\ rounds # {}
  <2>1. fit = WithoutDetail(coarsest, ms0)
    BY <1>1, <1>10
  <2>2. ms0 \in SUBSET DOMAIN coarsest /\ Fits(fit)
    BY <1>3, <1>4, <1>6, <1>10, <2>1
  <2> HIDE DEF fit, on, rounds, ms0, coarsest, fitting
  <2>3. /\ DOMAIN fit = DOMAIN doc /\ Longest(fit) = Longest(coarsest)
        /\ \A m \in DOMAIN doc :
             /\ fit[m].agg = coarsest[m].agg /\ fit[m].peak = coarsest[m].peak
             /\ fit[m].lines \in {<<>>, coarsest[m].lines}
    BY <1>3, <2>1, <2>2, WithoutIs
  <2>4. Coarser(fit, doc, Max(Grids(doc)), H)
    BY <1>3, <2>3 DEF Coarser
  <2> QED
    BY <1>2, <1>3, <1>9, <1>10, <2>2, <2>3, <2>4 DEF FitGood, fit
<1>11. CASE ~Fits(doc) /\ fitting = {} /\ rounds = {}
  <2>1. fit = NoDoc
    BY <1>1, <1>11
  <2>2. ~Fits(WithoutDetail(coarsest, detailed))
    BY <1>4, <1>11
  <2> HIDE DEF fit, on, rounds, ms0, coarsest, fitting, detailed
  <2> QED
    BY <1>2, <1>5, <2>1, <2>2 DEF FitGood, fit, on
<1> QED
  BY <1>7, <1>8, <1>10, <1>11

-----------------------------------------------------------------------------
(* What a container's command and the images say of the checkout *)

\* What a script does, command by command.
Executes(f, script, m) ==
  f = [n \in 0 .. m |->
         IF n = 0 THEN NoCommand ELSE CommandStep(f[n - 1], script[n])]

LEMMA RunExists ==
  ASSUME NEW script, NEW N \in Nat
  PROVE  \E f : Executes(f, script, N)
<1> DEFINE Next1(v, n) == CommandStep(v, script[n])
           Is(f, m) == f = [n \in 0 .. m |->
                              IF n = 0 THEN NoCommand ELSE Next1(f[n - 1], n)]
           Good == {m \in Nat : \E f : Is(f, m)}
<1>1. 0 \in Good
  <2>1. Is([n \in 0 .. 0 |-> NoCommand], 0)
    OBVIOUS
  <2> QED
    BY <2>1
<1>2. ASSUME NEW m \in Good PROVE m + 1 \in Good
  <2>1. PICK f : Is(f, m)
    OBVIOUS
  <2> HIDE DEF Next1
  <2> DEFINE g == [n \in 0 .. m + 1 |-> IF n <= m THEN f[n] ELSE Next1(f[m], m + 1)]
  <2>2. \A n \in 0 .. m : f[n] = IF n = 0 THEN NoCommand ELSE Next1(f[n - 1], n)
    BY <2>1
  <2>3. ASSUME NEW n \in 0 .. m + 1
        PROVE  g[n] = IF n = 0 THEN NoCommand ELSE Next1(g[n - 1], n)
    BY <2>2
  <2>4. Is(g, m + 1)
    BY <2>3
  <2> HIDE DEF g, Is
  <2>5. \E h : Is(h, m + 1)
    BY <2>4
  <2> QED
    BY <2>5
<1>3. Good = Nat
  <2>1. Good \in SUBSET Nat
    OBVIOUS
  <2> HIDE DEF Good
  <2> QED
    BY <1>1, <1>2, <2>1, Inductive
<1>4. \E f : Is(f, N)
  BY <1>3
<1> QED
  BY <1>4 DEF Executes

LEMMA RanSteps ==
  ASSUME NEW script, Len(script) \in Nat
  PROVE  \E f : /\ Ran(script) = f[Len(script)] /\ f[0] = NoCommand
                /\ \A n \in 1 .. Len(script) : f[n] = CommandStep(f[n - 1], script[n])
<1> DEFINE st == CHOOSE f : Executes(f, script, Len(script))
<1>1. Executes(st, script, Len(script))
  BY RunExists
<1>2. Ran(script) = st[Len(script)]
  BY DEF Ran, Executes
<1> HIDE DEF st
<1>3. st[0] = NoCommand
  BY <1>1 DEF Executes
<1>4. ASSUME NEW n \in 1 .. Len(script)
      PROVE  st[n] = CommandStep(st[n - 1], script[n])
  <2>1. n \in 0 .. Len(script) /\ n # 0
    OBVIOUS
  <2> QED
    BY <1>1, <2>1 DEF Executes
<1> QED
  BY <1>2, <1>3, <1>4

\* A sequence with one element replaced.
LEMMA ReplacedIn ==
  ASSUME NEW T, NEW s \in Seq(T), NEW i \in 1 .. Len(s), NEW e \in T
  PROVE  /\ [s EXCEPT ![i] = e] \in Seq(T) /\ Len([s EXCEPT ![i] = e]) = Len(s)
         /\ [s EXCEPT ![i] = e][i] = e
         /\ \A j \in 1 .. Len(s) : j # i => [s EXCEPT ![i] = e][j] = s[j]
OBVIOUS

\* Every clone has a remote, and the chosen one is a clone.
Remotes(T) ==
  \A c \in T : DOMAIN c = {"repo", "dir", "commit", "branch"} /\ c.repo # None
ClonesOK(st) ==
  /\ DOMAIN st = {"clones", "cwd", "primary"}
  /\ \E T : Remotes(T) /\ st.clones \in Seq(T)
  /\ st.primary \in 0 .. Len(st.clones)

\* The place of the first element of a set of places.
LEMMA FirstPlace ==
  ASSUME NEW n \in Nat, NEW I \in SUBSET (1 .. n)
  PROVE  LET i == IF I # {} THEN Min(I) ELSE 0
         IN /\ i \in 0 .. n
            /\ IF i = 0 THEN I = {} ELSE i \in I /\ \A j \in I : i <= j
<1>1. CASE I = {}
  BY <1>1
<1>2. CASE I # {}
  <2>1. I \in SUBSET Nat
    OBVIOUS
  <2>2. PICK m \in I : \A j \in I : m <= j
    BY <1>2, <2>1, Least
  <2>3. Min(I) \in I /\ \A j \in I : Min(I) <= j
    BY <2>2 DEF Min
  <2>4. Min(I) \in 1 .. n
    BY <2>3
  <2> QED
    BY <1>2, <2>3, <2>4
<1> QED
  BY <1>1, <1>2

LEMMA CloneAtIs ==
  ASSUME NEW T, NEW clones \in Seq(T), NEW path
  PROVE  /\ _clone_at(clones, path) \in 0 .. Len(clones)
         /\ _clone_at(clones, path) = 0 =>
              \A i \in 1 .. Len(clones) : ~(path # <<>> /\ clones[i].dir = basename(path))
         /\ _clone_at(clones, path) # 0 =>
              LET i == _clone_at(clones, path)
              IN /\ path # <<>> /\ clones[i].dir = basename(path)
                 /\ \A j \in 1 .. Len(clones) :
                      clones[j].dir = basename(path) => i <= j
<1> DEFINE I == {i \in 1 .. Len(clones) : path # <<>> /\ clones[i].dir = basename(path)}
           at == IF I # {} THEN Min(I) ELSE 0
<1>1. _clone_at(clones, path) = at
  BY DEF _clone_at, SelectInSeq
<1>2. IF at = 0 THEN I = {} ELSE at \in I /\ \A j \in I : at <= j
  <2>1. Len(clones) \in Nat /\ I \in SUBSET (1 .. Len(clones))
    OBVIOUS
  <2> HIDE DEF I
  <2> QED
    BY <2>1, FirstPlace
<1> HIDE DEF at
<1> QED
  BY <1>1, <1>2

LEMMA CheckoutKeeps ==
  ASSUME NEW c, NEW new, NEW ref, DOMAIN c = {"repo", "dir", "commit", "branch"}
  PROVE  /\ DOMAIN Checkout(c, new, ref) = DOMAIN c
         /\ Checkout(c, new, ref).repo = c.repo /\ Checkout(c, new, ref).dir = c.dir
<1>1. CASE new # None
  BY <1>1 DEF Checkout
<1>2. CASE new = None /\ ref # None
  BY <1>2 DEF Checkout
<1>3. CASE new = None /\ ref = None
  BY <1>3 DEF Checkout
<1> QED
  BY <1>1, <1>2, <1>3

LEMMA ClonesKept ==
  ASSUME NEW st, ClonesOK(st), NEW cmd, cmd.op \in {"cd", "clone", "checkout"},
         cmd.op = "clone" => cmd.repo # None
  PROVE  ClonesOK(CommandStep(st, cmd))
<1>0. PICK T : Remotes(T) /\ st.clones \in Seq(T)
  BY DEF ClonesOK
<1> DEFINE new == CommandStep(st, cmd)
<1>1. CASE cmd.op = "cd"
  <2> DEFINE cwd == IF cmd.dir = None THEN <<>> ELSE Append(st.cwd, cmd.dir)
             at == _clone_at(st.clones, cwd)
  <2>1. new = [st EXCEPT !.cwd = cwd, !.primary = IF at = 0 THEN @ ELSE at]
    BY <1>1 DEF CommandStep
  <2>2. at \in 0 .. Len(st.clones)
    BY <1>0, CloneAtIs
  <2> HIDE DEF cwd, at
  <2>3. /\ DOMAIN new = DOMAIN st /\ new.clones = st.clones
        /\ new.primary = IF at = 0 THEN st.primary ELSE at
    BY <2>1 DEF ClonesOK
  <2> QED
    BY <1>0, <2>2, <2>3 DEF ClonesOK
<1>2. CASE cmd.op = "clone"
  <2> DEFINE c == [repo |-> cmd.repo, dir |-> cmd.dir, commit |-> None,
                   branch |-> Usable(cmd.ref)]
             T2 == T \cup {c}
  <2>1. new = [st EXCEPT !.clones = Append(@, c)]
    BY <1>2 DEF CommandStep
  <2>2. Remotes(T2)
    BY <1>0, <1>2 DEF Remotes
  <2> HIDE DEF c
  <2>3. st.clones \in Seq(T2) /\ c \in T2
    BY <1>0
  <2> HIDE DEF T2
  <2>4. /\ Append(st.clones, c) \in Seq(T2)
        /\ Len(Append(st.clones, c)) = Len(st.clones) + 1
    BY <2>3, AppendProperties
  <2>5. /\ DOMAIN new = DOMAIN st /\ new.clones = Append(st.clones, c)
        /\ new.primary = st.primary
    BY <2>1 DEF ClonesOK
  <2>6. Len(st.clones) \in Nat
    BY <1>0
  <2> QED
    BY <2>2, <2>4, <2>5, <2>6 DEF ClonesOK
<1>3. CASE cmd.op = "checkout"
  <2> DEFINE where == IF cmd.dir = None THEN st.cwd ELSE Append(st.cwd, cmd.dir)
             found == _clone_at(st.clones, where)
             at == IF found = 0 /\ Len(st.clones) = 1 THEN 1 ELSE found
  <2>1. new = IF at = 0 THEN st
              ELSE [st EXCEPT !.primary = IF cmd.dir = None THEN @ ELSE at,
                              !.clones[at] = Checkout(@, cmd.new, cmd.ref)]
    BY <1>3 DEF CommandStep
  <2>2. at \in 0 .. Len(st.clones)
    <3>1. found \in 0 .. Len(st.clones)
      BY <1>0, CloneAtIs
    <3> HIDE DEF found
    <3> QED
      BY <3>1
  <2> HIDE DEF where, found, at
  <2>3. CASE at = 0
    BY <2>1, <2>3
  <2>4. CASE at # 0
    <3> DEFINE old == st.clones[at]
               co == Checkout(old, cmd.new, cmd.ref)
               T2 == T \cup {co}
               cs == [st.clones EXCEPT ![at] = co]
    <3>1. /\ DOMAIN new = DOMAIN st /\ new.clones = cs
          /\ new.primary = IF cmd.dir = None THEN st.primary ELSE at
      BY <2>1, <2>4 DEF ClonesOK
    <3>2. old \in T
      BY <1>0, <2>2, <2>4
    <3>3. Remotes(T2)
      BY <1>0, <3>2, CheckoutKeeps DEF Remotes
    <3> HIDE DEF co, old
    <3>4. cs \in Seq(T2) /\ Len(cs) = Len(st.clones)
      <4>1. st.clones \in Seq(T2) /\ co \in T2 /\ at \in 1 .. Len(st.clones)
        BY <1>0, <2>2, <2>4
      <4> HIDE DEF T2
      <4> QED
        BY <4>1, ReplacedIn
    <3> HIDE DEF cs, T2
    <3> QED
      BY <2>2, <2>4, <3>1, <3>3, <3>4 DEF ClonesOK
  <2> QED
    BY <2>3, <2>4
<1> QED
  BY <1>1, <1>2, <1>3

LEMMA RanOK ==
  ASSUME NEW script, ScriptOK(script)
  PROVE  ClonesOK(Ran(script))
<1>1. Len(script) \in Nat /\ \A n \in 1 .. Len(script) : script[n] \in ToSet(script)
  BY DEF ScriptOK
<1>2. PICK f : /\ Ran(script) = f[Len(script)] /\ f[0] = NoCommand
               /\ \A n \in 1 .. Len(script) : f[n] = CommandStep(f[n - 1], script[n])
  BY <1>1, RanSteps
<1> DEFINE Right(n) == n <= Len(script) => ClonesOK(f[n])
           Good == {n \in Nat : Right(n)}
<1>3. Right(0)
  <2>1. Remotes({}) /\ <<>> \in Seq({}) /\ Len(<<>>) = 0
    BY DEF Remotes
  <2> QED
    BY <1>2, <2>1 DEF ClonesOK, NoCommand
<1>4. ASSUME NEW n \in Nat, Right(n) PROVE Right(n + 1)
  <2>1. SUFFICES ASSUME n + 1 <= Len(script) PROVE ClonesOK(f[n + 1])
    OBVIOUS
  <2>2. /\ f[n + 1] = CommandStep(f[n], script[n + 1]) /\ ClonesOK(f[n])
        /\ script[n + 1] \in ToSet(script)
    <3>1. n + 1 \in 1 .. Len(script) /\ (n + 1) - 1 = n
      BY <1>1, <2>1
    <3> QED
      BY <1>1, <1>2, <1>4, <2>1, <3>1
  <2> QED
    BY <2>2, ClonesKept DEF ScriptOK
<1>5. Good = Nat
  <2> HIDE DEF Right
  <2>1. Good \in SUBSET Nat /\ 0 \in Good
    BY <1>3
  <2>2. \A n \in Good : n + 1 \in Good
    BY <1>4
  <2> HIDE DEF Good
  <2> QED
    BY <2>1, <2>2, Inductive
<1>6. Right(Len(script))
  <2> HIDE DEF Right
  <2> QED
    BY <1>1, <1>5
<1> QED
  BY <1>1, <1>2, <1>6

\* What a source of provenance says: a checkout that it only knows the commit
\* of, it has not cloned.
SourceOK(s) == DOMAIN s = DOMAIN Nothing
CloneOK(s) == SourceOK(s) /\ (s.commit # None => s.repo # None)

LEMMA SaidIs ==
  ASSUME NEW commit, NEW repo, NEW branch, NEW via
  PROVE  LET s == Said(commit, repo, branch, via)
         IN /\ SourceOK(s) /\ s.commit = commit /\ s.repo = repo
            /\ s.branch = branch /\ s.dirty = None /\ s.via = via
BY DEF Said, SourceOK, Nothing

LEMMA NothingIs ==
  /\ SourceOK(Nothing) /\ Nothing.commit = None /\ Nothing.repo = None
  /\ Nothing.branch = None /\ Nothing.dirty = None
BY DEF Nothing, SourceOK

LEMMA CommandClone ==
  ASSUME NEW script, ScriptOK(script)
  PROVE  CloneOK(detect_git_clone_from_command(script))
<1> DEFINE st == Ran(script)
           i == IF st.primary = 0 THEN 1 ELSE st.primary
           chosen == st.clones[i]
<1>1. ClonesOK(st)
  BY RanOK
<1>2. detect_git_clone_from_command(script) =
        IF st.clones = <<>> THEN Nothing
        ELSE Said(chosen.commit, chosen.repo, chosen.branch, "cli_arg")
  BY DEF detect_git_clone_from_command
<1> HIDE DEF st
<1>3. PICK T : Remotes(T) /\ st.clones \in Seq(T)
  BY <1>1 DEF ClonesOK
<1>4. CASE st.clones = <<>>
  BY <1>2, <1>4, NothingIs DEF CloneOK
<1>5. CASE st.clones # <<>>
  <2>1. i \in 1 .. Len(st.clones)
    BY <1>1, <1>3, <1>5 DEF ClonesOK
  <2> HIDE DEF i
  <2>2. chosen.repo # None
    BY <1>3, <2>1 DEF Remotes
  <2> HIDE DEF chosen
  <2> QED
    BY <1>2, <1>5, <2>2, SaidIs DEF CloneOK
<1> QED
  BY <1>4, <1>5

LEMMA FirstClone ==
  ASSUME NEW T, NEW cs \in Seq(T), \A c \in T : ScriptOK(c.script)
  PROVE  CloneOK(detect_git_clone_from_containers(cs))
<1> DEFINE I == {i \in 1 .. Len(cs) : detect_git_clone_from_command(cs[i].script) # Nothing}
           i == IF I # {} THEN Min(I) ELSE 0
<1>1. detect_git_clone_from_containers(cs) =
        IF i = 0 THEN Nothing ELSE detect_git_clone_from_command(cs[i].script)
  BY DEF detect_git_clone_from_containers, FirstFound, SelectInSeq
<1>2. i \in 0 .. Len(cs)
  <2>1. Len(cs) \in Nat /\ I \in SUBSET (1 .. Len(cs))
    OBVIOUS
  <2> HIDE DEF I
  <2> QED
    BY <2>1, FirstPlace
<1> HIDE DEF i
<1>3. CASE i = 0
  BY <1>1, <1>3, NothingIs DEF CloneOK
<1>4. CASE i # 0
  BY <1>1, <1>2, <1>4, CommandClone
<1> QED
  BY <1>3, <1>4

LEMMA ImageIs ==
  ASSUME NEW labels
  PROVE  SourceOK(ImageProvenance(labels))
BY SaidIs, NothingIs DEF ImageProvenance

LEMMA FirstImage ==
  ASSUME NEW T, NEW cs \in Seq(T)
  PROVE  detect_git_provenance_from_containers(cs) \in
           {ImageProvenance(c.labels) : c \in T} \cup {Nothing}
<1> DEFINE I == {i \in 1 .. Len(cs) : ImageProvenance(cs[i].labels) # Nothing}
           i == IF I # {} THEN Min(I) ELSE 0
<1>1. detect_git_provenance_from_containers(cs) =
        IF i = 0 THEN Nothing ELSE ImageProvenance(cs[i].labels)
  BY DEF detect_git_provenance_from_containers, FirstFound, SelectInSeq
<1>2. i \in 0 .. Len(cs)
  <2>1. Len(cs) \in Nat /\ I \in SUBSET (1 .. Len(cs))
    OBVIOUS
  <2> HIDE DEF I
  <2> QED
    BY <2>1, FirstPlace
<1> HIDE DEF i
<1>3. CASE i = 0
  BY <1>1, <1>3
<1>4. CASE i # 0
  <2>1. cs[i] \in T
    BY <1>2, <1>4
  <2> QED
    BY <1>1, <1>4, <2>1
<1> QED
  BY <1>3, <1>4

LEMMA RemovedIn ==
  ASSUME NEW T, NEW s \in Seq(T), NEW i \in 0 .. Len(s)
  PROVE  RemoveAt(s, i) \in Seq(T)
<1>1. i - 1 \in Int /\ i + 1 \in Int /\ Len(s) \in Int
  OBVIOUS
<1>2. /\ \A j \in 1 .. i - 1 : s[j] \in T
      /\ \A j \in i + 1 .. Len(s) : s[j] \in T
  OBVIOUS
<1>3. SubSeq(s, 1, i - 1) \in Seq(T) /\ SubSeq(s, i + 1, Len(s)) \in Seq(T)
  BY <1>1, <1>2, SubSeqProperties
<1> QED
  BY <1>3, ConcatProperties DEF RemoveAt

-----------------------------------------------------------------------------
(* What normpath and a shell do, one step at a time *)

\* What a shell does, command by command, and what normpath does.
ShellRuns(f, script, m) ==
  f = [n \in 0 .. m |->
         IF n = 0 THEN NoShell ELSE ShellStep(f[n - 1], script[n])]
Walks(f, path, m) ==
  f = [n \in 0 .. m |->
         IF n = 0 THEN <<>> ELSE PathStep(f[n - 1], path[n])]

LEMMA ShellExists ==
  ASSUME NEW script, NEW N \in Nat
  PROVE  \E f : ShellRuns(f, script, N)
<1> DEFINE Next1(v, n) == ShellStep(v, script[n])
           Is(f, m) == f = [n \in 0 .. m |->
                              IF n = 0 THEN NoShell ELSE Next1(f[n - 1], n)]
           Good == {m \in Nat : \E f : Is(f, m)}
<1>1. 0 \in Good
  <2>1. Is([n \in 0 .. 0 |-> NoShell], 0)
    OBVIOUS
  <2> QED
    BY <2>1
<1>2. ASSUME NEW m \in Good PROVE m + 1 \in Good
  <2>1. PICK f : Is(f, m)
    OBVIOUS
  <2> HIDE DEF Next1
  <2> DEFINE g == [n \in 0 .. m + 1 |-> IF n <= m THEN f[n] ELSE Next1(f[m], m + 1)]
  <2>2. \A n \in 0 .. m : f[n] = IF n = 0 THEN NoShell ELSE Next1(f[n - 1], n)
    BY <2>1
  <2>3. ASSUME NEW n \in 0 .. m + 1
        PROVE  g[n] = IF n = 0 THEN NoShell ELSE Next1(g[n - 1], n)
    BY <2>2
  <2>4. Is(g, m + 1)
    BY <2>3
  <2> HIDE DEF g, Is
  <2>5. \E h : Is(h, m + 1)
    BY <2>4
  <2> QED
    BY <2>5
<1>3. Good = Nat
  <2>1. Good \in SUBSET Nat
    OBVIOUS
  <2> HIDE DEF Good
  <2> QED
    BY <1>1, <1>2, <2>1, Inductive
<1>4. \E f : Is(f, N)
  BY <1>3
<1> QED
  BY <1>4 DEF ShellRuns

LEMMA ShellSteps ==
  ASSUME NEW script, Len(script) \in Nat
  PROVE  \E f : /\ Shell(script) = f[Len(script)] /\ f[0] = NoShell
                /\ \A n \in 1 .. Len(script) : f[n] = ShellStep(f[n - 1], script[n])
<1> DEFINE st == CHOOSE f : ShellRuns(f, script, Len(script))
<1>1. ShellRuns(st, script, Len(script))
  BY ShellExists
<1>2. Shell(script) = st[Len(script)]
  BY DEF Shell, ShellRuns
<1> HIDE DEF st
<1>3. st[0] = NoShell
  BY <1>1 DEF ShellRuns
<1>4. ASSUME NEW n \in 1 .. Len(script)
      PROVE  st[n] = ShellStep(st[n - 1], script[n])
  <2>1. n \in 0 .. Len(script) /\ n # 0
    OBVIOUS
  <2> QED
    BY <1>1, <2>1 DEF ShellRuns
<1> QED
  BY <1>2, <1>3, <1>4

LEMMA WalkExists ==
  ASSUME NEW path, NEW N \in Nat
  PROVE  \E f : Walks(f, path, N)
<1> DEFINE Next1(v, n) == PathStep(v, path[n])
           Is(f, m) == f = [n \in 0 .. m |->
                              IF n = 0 THEN <<>> ELSE Next1(f[n - 1], n)]
           Good == {m \in Nat : \E f : Is(f, m)}
<1>1. 0 \in Good
  <2>1. Is([n \in 0 .. 0 |-> <<>>], 0)
    OBVIOUS
  <2> QED
    BY <2>1
<1>2. ASSUME NEW m \in Good PROVE m + 1 \in Good
  <2>1. PICK f : Is(f, m)
    OBVIOUS
  <2> HIDE DEF Next1
  <2> DEFINE g == [n \in 0 .. m + 1 |-> IF n <= m THEN f[n] ELSE Next1(f[m], m + 1)]
  <2>2. \A n \in 0 .. m : f[n] = IF n = 0 THEN <<>> ELSE Next1(f[n - 1], n)
    BY <2>1
  <2>3. ASSUME NEW n \in 0 .. m + 1
        PROVE  g[n] = IF n = 0 THEN <<>> ELSE Next1(g[n - 1], n)
    BY <2>2
  <2>4. Is(g, m + 1)
    BY <2>3
  <2> HIDE DEF g, Is
  <2>5. \E h : Is(h, m + 1)
    BY <2>4
  <2> QED
    BY <2>5
<1>3. Good = Nat
  <2>1. Good \in SUBSET Nat
    OBVIOUS
  <2> HIDE DEF Good
  <2> QED
    BY <1>1, <1>2, <2>1, Inductive
<1>4. \E f : Is(f, N)
  BY <1>3
<1> QED
  BY <1>4 DEF Walks

LEMMA WalkSteps ==
  ASSUME NEW path, Len(path) \in Nat
  PROVE  \E f : /\ normpath(path) = f[Len(path)] /\ f[0] = <<>>
                /\ \A n \in 1 .. Len(path) : f[n] = PathStep(f[n - 1], path[n])
<1> DEFINE st == CHOOSE f : Walks(f, path, Len(path))
<1>1. Walks(st, path, Len(path))
  BY WalkExists
<1>2. normpath(path) = st[Len(path)]
  BY DEF normpath, Walks
<1> HIDE DEF st
<1>3. st[0] = <<>>
  BY <1>1 DEF Walks
<1>4. ASSUME NEW n \in 1 .. Len(path)
      PROVE  st[n] = PathStep(st[n - 1], path[n])
  <2>1. n \in 0 .. Len(path) /\ n # 0
    OBVIOUS
  <2> QED
    BY <1>1, <2>1 DEF Walks
<1> QED
  BY <1>2, <1>3, <1>4

\* normpath goes on from what it made of the path before.
LEMMA WalkOn ==
  ASSUME NEW D, NEW path \in Seq(D), NEW c \in D
  PROVE  normpath(Append(path, c)) = PathStep(normpath(path), c)
<1> DEFINE N == Len(path)
           p == Append(path, c)
<1>1. /\ N \in Nat /\ Len(p) = N + 1 /\ p[N + 1] = c
      /\ \A i \in 1 .. N : p[i] = path[i]
  BY AppendProperties
<1> HIDE DEF p
<1>2. PICK f : /\ normpath(path) = f[Len(path)] /\ f[0] = <<>>
               /\ \A n \in 1 .. Len(path) : f[n] = PathStep(f[n - 1], path[n])
  BY <1>1, WalkSteps
<1>3. PICK g : /\ normpath(p) = g[Len(p)] /\ g[0] = <<>>
               /\ \A n \in 1 .. Len(p) : g[n] = PathStep(g[n - 1], p[n])
  BY <1>1, WalkSteps
<1> DEFINE Right(n) == n <= N => f[n] = g[n]
           Good == {n \in Nat : Right(n)}
<1>4. Right(0)
  BY <1>2, <1>3
<1>5. ASSUME NEW n \in Nat, Right(n) PROVE Right(n + 1)
  <2>1. SUFFICES ASSUME n + 1 <= N PROVE f[n + 1] = g[n + 1]
    OBVIOUS
  <2>2. /\ n + 1 \in 1 .. Len(path) /\ n + 1 \in 1 .. Len(p)
        /\ (n + 1) - 1 = n /\ f[n] = g[n] /\ p[n + 1] = path[n + 1]
    BY <1>1, <1>5, <2>1
  <2>3. f[n + 1] = PathStep(f[n], path[n + 1])
    BY <1>2, <2>2
  <2>4. g[n + 1] = PathStep(g[n], p[n + 1])
    BY <1>3, <2>2
  <2> QED
    BY <2>2, <2>3, <2>4
<1>6. Good = Nat
  <2> HIDE DEF Right
  <2>1. Good \in SUBSET Nat /\ 0 \in Good
    BY <1>4
  <2>2. \A n \in Good : n + 1 \in Good
    BY <1>5
  <2> HIDE DEF Good
  <2> QED
    BY <2>1, <2>2, Inductive
<1>7. f[N] = g[N]
  BY <1>1, <1>6
<1>8. N + 1 \in 1 .. Len(p) /\ (N + 1) - 1 = N
  BY <1>1
<1>9. g[N + 1] = PathStep(g[N], p[N + 1])
  BY <1>3, <1>8
<1> QED
  BY <1>1, <1>2, <1>3, <1>7, <1>9 DEF p

LEMMA WalkNowhere == normpath(<<>>) = <<>>
<1>1. Len(<<>>) = 0
  OBVIOUS
<1> QED
  BY <1>1, WalkSteps

\* A path that only leaves directories is normal.
LEMMA Upwards ==
  ASSUME NEW path \in Seq({".."})
  PROVE  normpath(path) = path
<1> DEFINE Up(n) == [i \in 1 .. n |-> ".."]
           Right(n) == normpath(Up(n)) = Up(n)
           Good == {n \in Nat : Right(n)}
<1>1. Right(0)
  <2>1. Up(0) = <<>>
    OBVIOUS
  <2> QED
    BY <2>1, WalkNowhere
<1>2. ASSUME NEW n \in Nat, Right(n) PROVE Right(n + 1)
  <2>1. Up(n) \in Seq({".."}) /\ Len(Up(n)) = n
    OBVIOUS
  <2>2. Up(n + 1) = Append(Up(n), "..")
    OBVIOUS
  <2>3. Up(n) # <<>> => Last(Up(n)) = ".."
    BY <2>1 DEF Last
  <2> HIDE DEF Up
  <2>4. normpath(Append(Up(n), "..")) = PathStep(normpath(Up(n)), "..")
    BY <2>1, WalkOn
  <2> QED
    BY <1>2, <2>2, <2>3, <2>4 DEF PathStep
<1>3. Good = Nat
  <2> HIDE DEF Right
  <2>1. Good \in SUBSET Nat /\ 0 \in Good
    BY <1>1
  <2>2. \A n \in Good : n + 1 \in Good
    BY <1>2
  <2> HIDE DEF Good
  <2> QED
    BY <2>1, <2>2, Inductive
<1>4. path = Up(Len(path)) /\ Len(path) \in Nat
  OBVIOUS
<1>5. Right(Len(path))
  <2> HIDE DEF Right
  <2> QED
    BY <1>3, <1>4
<1> QED
  BY <1>4, <1>5

-----------------------------------------------------------------------------
(* A plain script's shell *)

\* Where a plain script is: in a clone's top directory, or only outward.
Reached(clones, path) ==
  path \in Seq({".."}) \/ \E i \in 1 .. Len(clones) : clones[i].path = path

Dirs(script) == {cmd.dir : cmd \in ToSet(script)} \cup {".."}

\* A clone of the shell's: its path is that of a known directory and its name.
ClonedAt(clones, c, D) ==
  /\ c.dir \in D \ {None, ".", ".."} /\ normpath(c.path) = c.path
  /\ \E base \in Seq(D) : Reached(clones, base) /\ c.path = Append(base, c.dir)

\* The same clone, as the code and as the shell keep it.
SameClone(c, s) ==
  /\ c.dir = s.dir /\ SourceOK(s.co)
  /\ s.co = Said(c.commit, c.repo, c.branch, "cli_arg")

ShellFields(sh) ==
  /\ DOMAIN sh = {"clones", "cwd", "last", "plain"}
  /\ \E U : /\ sh.clones \in Seq(U)
            /\ \A c \in U : DOMAIN c = {"path", "dir", "co"}

\* What the code knows is what the shell knows.
Follows(st, sh, D) ==
  /\ ClonesOK(st) /\ ShellFields(sh)
  /\ Len(st.clones) = Len(sh.clones) /\ st.primary = sh.last
  /\ st.cwd \in Seq(D) /\ sh.cwd \in Seq(D) /\ sh.cwd = normpath(st.cwd)
  /\ Reached(sh.clones, sh.cwd)
  /\ \A i \in 1 .. Len(sh.clones) : /\ SameClone(st.clones[i], sh.clones[i])
                                    /\ ClonedAt(sh.clones, sh.clones[i], D)
  /\ \A i, j \in 1 .. Len(sh.clones) :
       i # j => sh.clones[i].dir # sh.clones[j].dir

LEMMA ShellAt ==
  ASSUME NEW U, NEW clones \in Seq(U), NEW path
  PROVE  LET at == CloneIn(clones, path)
         IN /\ at \in 0 .. Len(clones)
            /\ IF at = 0 THEN \A i \in 1 .. Len(clones) : clones[i].path # path
               ELSE clones[at].path = path
<1> DEFINE I == {i \in 1 .. Len(clones) : clones[i].path = path}
           at == IF I # {} THEN Min(I) ELSE 0
<1>1. CloneIn(clones, path) = at
  BY DEF CloneIn, SelectInSeq
<1>2. /\ at \in 0 .. Len(clones)
      /\ IF at = 0 THEN I = {} ELSE at \in I /\ \A j \in I : at <= j
  <2>1. Len(clones) \in Nat /\ I \in SUBSET (1 .. Len(clones))
    OBVIOUS
  <2> HIDE DEF I
  <2> QED
    BY <2>1, FirstPlace
<1> HIDE DEF at
<1> QED
  BY <1>1, <1>2

\* A path that ends with a directory's name.
LEMMA Ends ==
  ASSUME NEW D, NEW base \in Seq(D), NEW d \in D
  PROVE  /\ Append(base, d) \in Seq(D) /\ Append(base, d) # <<>>
         /\ Last(Append(base, d)) = d /\ Front(Append(base, d)) = base
<1>1. /\ Append(base, d) \in Seq(D) /\ Append(base, d) # <<>>
      /\ Len(Append(base, d)) = Len(base) + 1 /\ Append(base, d)[Len(base) + 1] = d
  BY AppendProperties
<1>2. Front(Append(base, d)) = base
  BY DEF Front
<1> QED
  BY <1>1, <1>2 DEF Last

\* Following names finds the clone that following paths finds.
LEMMA FoundAlike ==
  ASSUME NEW st, NEW sh, NEW D, Follows(st, sh, D), NEW path \in Seq(D),
         Reached(sh.clones, normpath(path)) 
  PROVE  _clone_at(st.clones, path) =
           CloneIn(sh.clones, normpath(path))
<1> DEFINE there == normpath(path)
           at == CloneIn(sh.clones, there)
           found == _clone_at(st.clones, path)
<1>1. PICK U : sh.clones \in Seq(U)
  BY DEF Follows, ShellFields
<1>2. PICK T : st.clones \in Seq(T)
  BY DEF Follows, ClonesOK
<1>3. /\ at \in 0 .. Len(sh.clones)
      /\ IF at = 0 THEN \A i \in 1 .. Len(sh.clones) : sh.clones[i].path # there
         ELSE sh.clones[at].path = there
  BY <1>1, ShellAt
<1>4. /\ found \in 0 .. Len(sh.clones)
      /\ found = 0 => \A i \in 1 .. Len(sh.clones) :
           ~(path # <<>> /\ st.clones[i].dir = basename(path))
      /\ found # 0 => st.clones[found].dir = basename(path)
  BY <1>2, CloneAtIs DEF Follows
<1>5. \A i \in 1 .. Len(sh.clones) :
        /\ st.clones[i].dir = sh.clones[i].dir
        /\ sh.clones[i].dir \notin {".", ".."}
  BY DEF Follows, SameClone, ClonedAt
<1> HIDE DEF at, found
<1>6. CASE at # 0
  <2>0. ClonedAt(sh.clones, sh.clones[at], D) /\ sh.clones[at].path = there
    BY <1>3, <1>6 DEF Follows
  <2>1. PICK base \in Seq(D) : there = Append(base, sh.clones[at].dir)
    BY <2>0 DEF ClonedAt
  <2>2. sh.clones[at].dir \in D
    BY <1>3, <1>6 DEF Follows, ClonedAt
  <2>3. there # <<>> /\ Last(there) = sh.clones[at].dir
    BY <2>1, <2>2, Ends
  <2>4. path # <<>> /\ basename(path) = sh.clones[at].dir
    BY <2>3, WalkNowhere DEF basename
  <2>5. found # 0
    BY <1>3, <1>4, <1>5, <1>6, <2>4
  <2>6. sh.clones[found].dir = sh.clones[at].dir /\ found \in 1 .. Len(sh.clones)
    BY <1>4, <1>5, <2>4, <2>5
  <2> QED
    BY <1>3, <1>6, <2>6 DEF Follows, at, found
<1>7. CASE at = 0
  <2>1. there \in Seq({".."})
    BY <1>3, <1>7 DEF Reached
  <2>2. there = <<>> \/ Last(there) = ".."
    BY <2>1 DEF Last
  <2>3. basename(path) \in {".", ".."}
    BY <2>2 DEF basename
  <2>4. found = 0
    BY <1>4, <1>5, <2>3
  <2> QED
    BY <1>7, <2>4 DEF at, found
<1> QED
  BY <1>6, <1>7

\* Where a command of a plain script leads.
LEMMA LeadsTo ==
  ASSUME NEW st, NEW sh, NEW D, Follows(st, sh, D), NEW d \in D
  PROVE  /\ normpath(Append(st.cwd, d)) = normpath(Append(sh.cwd, d))
         /\ normpath(Append(sh.cwd, d)) = PathStep(sh.cwd, d)
         /\ Append(st.cwd, d) \in Seq(D)
<1>1. st.cwd \in Seq(D) /\ sh.cwd \in Seq(D) /\ sh.cwd = normpath(st.cwd)
  BY DEF Follows
<1>2. normpath(sh.cwd) = sh.cwd
  <2>1. CASE sh.cwd \in Seq({".."})
    BY <2>1, Upwards
  <2>2. CASE \E i \in 1 .. Len(sh.clones) : sh.clones[i].path = sh.cwd
    BY <2>2 DEF Follows, ClonedAt
  <2> QED
    BY <2>1, <2>2 DEF Follows, Reached
<1>3. /\ normpath(Append(st.cwd, d)) = PathStep(normpath(st.cwd), d)
      /\ normpath(Append(sh.cwd, d)) = PathStep(normpath(sh.cwd), d)
  BY <1>1, WalkOn
<1>4. Append(st.cwd, d) \in Seq(D)
  BY <1>1, Ends
<1> QED
  BY <1>1, <1>2, <1>3, <1>4

\* Leaving a known directory leads to a known one.
LEMMA LeadsOut ==
  ASSUME NEW st, NEW sh, NEW D, Follows(st, sh, D)
  PROVE  Reached(sh.clones, PathStep(sh.cwd, ".."))
<1>1. CASE sh.cwd \in Seq({".."})
  <2>1. sh.cwd # <<>> => Last(sh.cwd) = ".."
    BY <1>1 DEF Last
  <2>2. PathStep(sh.cwd, "..") = Append(sh.cwd, "..")
    BY <2>1 DEF PathStep
  <2> QED
    BY <1>1, <2>2, AppendProperties DEF Reached
<1>2. CASE \E i \in 1 .. Len(sh.clones) : sh.clones[i].path = sh.cwd
  <2>1. PICK i \in 1 .. Len(sh.clones) : sh.clones[i].path = sh.cwd
    BY <1>2
  <2>2. ClonedAt(sh.clones, sh.clones[i], D)
    BY DEF Follows
  <2> DEFINE d == sh.clones[i].dir
  <2>3. /\ d \in D /\ d # ".."
        /\ \E base \in Seq(D) : Reached(sh.clones, base) /\ sh.cwd = Append(base, d)
    BY <2>1, <2>2 DEF ClonedAt
  <2> HIDE DEF d
  <2>4. PICK base \in Seq(D) : Reached(sh.clones, base) /\ sh.cwd = Append(base, d)
    BY <2>3
  <2>5. PathStep(sh.cwd, "..") = base
    BY <2>3, <2>4, Ends DEF PathStep
  <2> QED
    BY <2>4, <2>5
<1> QED
  BY <1>1, <1>2 DEF Follows, Reached

\* A plain script is at a known directory, whatever the command.
LEMMA Arrives ==
  ASSUME NEW st, NEW sh, NEW D, ".." \in D, Follows(st, sh, D), NEW path,
         Reached(sh.clones, normpath(path))
  PROVE  normpath(path) \in Seq(D)
<1>1. CASE normpath(path) \in Seq({".."})
  BY <1>1
<1>2. CASE \E i \in 1 .. Len(sh.clones) : sh.clones[i].path = normpath(path)
  <2>1. PICK i \in 1 .. Len(sh.clones) : sh.clones[i].path = normpath(path)
    BY <1>2
  <2>2. ClonedAt(sh.clones, sh.clones[i], D)
    BY DEF Follows
  <2>3. normpath(path) \in Seq(D)
    BY <2>1, <2>2, Ends DEF ClonedAt
  <2> QED
    BY <2>3
<1> QED
  BY <1>1, <1>2 DEF Reached

LEMMA FollowsEntering ==
  ASSUME NEW st, NEW sh, NEW D, ".." \in D, Follows(st, sh, D), NEW cmd,
         cmd.op = "cd", cmd.dir \in D, ShellStep(sh, cmd).plain
  PROVE  Follows(CommandStep(st, cmd), ShellStep(sh, cmd), D)
<1> DEFINE new == CommandStep(st, cmd)
           after == ShellStep(sh, cmd)
           cwd == IF cmd.dir = None THEN <<>> ELSE Append(st.cwd, cmd.dir)
           there == IF cmd.dir = None THEN sh.cwd
                    ELSE normpath(Append(sh.cwd, cmd.dir))
           at == CloneIn(sh.clones, there)
           found == _clone_at(st.clones, cwd)
           lost == cmd.op = "cd" /\ cmd.dir = None
<1>1. new = [st EXCEPT !.cwd = cwd, !.primary = IF found = 0 THEN @ ELSE found]
  BY DEF CommandStep
<1>2. after = [sh EXCEPT !.cwd = there, !.last = IF at = 0 THEN @ ELSE at,
                 !.plain = @ /\ ~lost /\ (at # 0 \/ cmd.dir = "..")]
  BY DEF ShellStep
<1> HIDE DEF found, at, there, cwd
<1>3. /\ DOMAIN new = DOMAIN st /\ new.clones = st.clones /\ new.cwd = cwd
      /\ new.primary = IF found = 0 THEN st.primary ELSE found
  BY <1>1 DEF Follows, ClonesOK
<1>4. /\ DOMAIN after = DOMAIN sh /\ after.clones = sh.clones
      /\ after.cwd = there /\ after.last = IF at = 0 THEN sh.last ELSE at
      /\ after.plain = (sh.plain /\ ~lost /\ (at # 0 \/ cmd.dir = ".."))
  BY <1>2 DEF Follows, ShellFields
<1> HIDE DEF new, after
<1>5. cmd.dir # None /\ (at # 0 \/ cmd.dir = "..")
  BY <1>4 DEF after
<1>6. /\ cwd = Append(st.cwd, cmd.dir) /\ there = normpath(Append(sh.cwd, cmd.dir))
  BY <1>5 DEF cwd, there
<1>7. /\ cwd \in Seq(D) /\ there = normpath(cwd)
      /\ there = PathStep(sh.cwd, cmd.dir)
  BY <1>6, LeadsTo
<1>8. PICK U : /\ sh.clones \in Seq(U)
               /\ \A c \in U : DOMAIN c = {"path", "dir", "co"}
  BY DEF Follows, ShellFields
<1>9. /\ at \in 0 .. Len(sh.clones)
      /\ at # 0 => sh.clones[at].path = there
  BY <1>8, ShellAt DEF at
<1>10. Reached(sh.clones, there)
  <2>1. CASE at # 0
    BY <1>9, <2>1 DEF Reached
  <2>2. CASE cmd.dir = ".."
    BY <1>7, <2>2, LeadsOut
  <2> QED
    BY <1>5, <2>1, <2>2
<1>11. found = at
  BY <1>7, <1>10, FoundAlike DEF found, at
<1>12. there \in Seq(D)
  BY <1>7, <1>10, Arrives
<1>13. ClonesOK(new)
  <2>1. PICK T : Remotes(T) /\ st.clones \in Seq(T)
    BY DEF Follows, ClonesOK
  <2> QED
    BY <1>3, <1>9, <1>11, <2>1 DEF Follows, ClonesOK
<1>14. ShellFields(after)
  BY <1>4, <1>8 DEF Follows, ShellFields
<1>15. Follows(new, after, D)
  BY <1>3, <1>4, <1>7, <1>10, <1>11, <1>12, <1>13, <1>14 DEF Follows
<1> QED
  BY <1>15 DEF new, after

\* A clone more does not change what is known of the others.
LEMMA ReachedGrows ==
  ASSUME NEW U, NEW clones \in Seq(U), NEW c \in U, NEW path, Reached(clones, path)
  PROVE  Reached(Append(clones, c), path)
<1>1. /\ Len(Append(clones, c)) = Len(clones) + 1 /\ Len(clones) \in Nat
      /\ \A i \in 1 .. Len(clones) : Append(clones, c)[i] = clones[i]
  BY AppendProperties
<1> QED
  BY <1>1 DEF Reached

LEMMA FollowsCloning ==
  ASSUME NEW st, NEW sh, NEW D, Follows(st, sh, D), NEW cmd,
         cmd.op = "clone", cmd.repo # None, cmd.dir \in D,
         ShellStep(sh, cmd).plain
  PROVE  Follows(CommandStep(st, cmd), ShellStep(sh, cmd), D)
<1> DEFINE new == CommandStep(st, cmd)
           after == ShellStep(sh, cmd)
           d == cmd.dir
           there == IF d = None THEN sh.cwd ELSE normpath(Append(sh.cwd, d))
           co == Said(None, cmd.repo, Usable(cmd.ref), "cli_arg")
           c == [repo |-> cmd.repo, dir |-> d, commit |-> None,
                 branch |-> Usable(cmd.ref)]
           s == [path |-> there, dir |-> d, co |-> co]
           cs == Append(st.clones, c)
           ss == Append(sh.clones, s)
           n == Len(sh.clones)
<1>1. new = [st EXCEPT !.clones = Append(@, c)]
  BY DEF CommandStep
<1>2. after = [sh EXCEPT !.clones = Append(@, s),
                 !.plain = @ /\ cmd.dir \notin {None, ".", ".."}
                             /\ \A i \in DOMAIN sh.clones : sh.clones[i].dir # cmd.dir]
  BY DEF ShellStep
<1>3. /\ SameClone(c, s) /\ DOMAIN s = {"path", "dir", "co"}
      /\ s.path = there /\ s.dir = d /\ c.dir = d
  BY SaidIs DEF SameClone
<1> HIDE DEF c, s, there
<1>4. /\ DOMAIN new = DOMAIN st /\ new.clones = cs /\ new.cwd = st.cwd
      /\ new.primary = st.primary
  BY <1>1 DEF Follows, ClonesOK
<1>5. /\ DOMAIN after = DOMAIN sh /\ after.clones = ss
      /\ after.cwd = sh.cwd /\ after.last = sh.last
      /\ after.plain => /\ d \notin {None, ".", ".."}
                        /\ \A i \in DOMAIN sh.clones : sh.clones[i].dir # d
  BY <1>2 DEF Follows, ShellFields
<1>6. ClonesOK(new)
  BY ClonesKept DEF Follows
<1> HIDE DEF new, after
<1>7. d \notin {None, ".", ".."} /\ \A i \in DOMAIN sh.clones : sh.clones[i].dir # d
  BY <1>5 DEF after
<1>8. PICK U : /\ sh.clones \in Seq(U)
               /\ \A u \in U : DOMAIN u = {"path", "dir", "co"}
  BY DEF Follows, ShellFields
<1>9. PICK T : st.clones \in Seq(T)
  BY DEF Follows, ClonesOK
<1>10. /\ ss \in Seq(U \cup {s}) /\ Len(ss) = n + 1 /\ ss[n + 1] = s
       /\ \A i \in 1 .. n : ss[i] = sh.clones[i]
  <2>1. sh.clones \in Seq(U \cup {s}) /\ s \in U \cup {s}
    BY <1>8
  <2> QED
    BY <2>1, AppendProperties
<1>11. /\ Len(cs) = n + 1 /\ cs[n + 1] = c
       /\ \A i \in 1 .. n : cs[i] = st.clones[i]
  <2>1. st.clones \in Seq(T \cup {c}) /\ c \in T \cup {c} /\ Len(st.clones) = n
    BY <1>9 DEF Follows
  <2> QED
    BY <2>1, AppendProperties
<1>12. n \in Nat /\ DOMAIN sh.clones = 1 .. n
  BY <1>8
<1>13. ASSUME NEW path, Reached(sh.clones, path)
       PROVE  Reached(ss, path)
  <2>1. sh.clones \in Seq(U \cup {s}) /\ s \in U \cup {s}
    BY <1>8
  <2> QED
    BY <1>13, <2>1, ReachedGrows
<1>14. there = Append(sh.cwd, d) /\ normpath(there) = there
  <2>1. there = normpath(Append(sh.cwd, d))
    BY <1>7 DEF there
  <2>2. there = Append(sh.cwd, d)
    <3>1. normpath(Append(sh.cwd, d)) = PathStep(sh.cwd, d)
      BY LeadsTo
    <3>2. PathStep(sh.cwd, d) = Append(sh.cwd, d)
      BY <1>7 DEF PathStep
    <3> QED
      BY <2>1, <3>1, <3>2
  <2> QED
    BY <2>1, <2>2
<1>15. ClonedAt(ss, s, D)
  <2>1. sh.cwd \in Seq(D) /\ Reached(ss, sh.cwd)
    BY <1>13 DEF Follows
  <2> QED
    BY <1>3, <1>7, <1>14, <2>1 DEF ClonedAt
<1>16. ShellFields(after)
  <2>1. \A u \in U \cup {s} : DOMAIN u = {"path", "dir", "co"}
    BY <1>3, <1>8
  <2> QED
    BY <1>5, <1>10, <2>1 DEF Follows, ShellFields
<1> HIDE DEF cs, ss, n, d
<1>17. ASSUME NEW i \in 1 .. n + 1
       PROVE  SameClone(cs[i], ss[i]) /\ ClonedAt(ss, ss[i], D)
  <2>1. CASE i = n + 1
    BY <1>3, <1>10, <1>11, <1>15, <2>1
  <2>2. CASE i \in 1 .. n
    <3>1. SameClone(st.clones[i], sh.clones[i]) /\ ClonedAt(sh.clones, sh.clones[i], D)
      BY <2>2 DEF Follows, n
    <3>2. ClonedAt(ss, sh.clones[i], D)
      BY <1>13, <3>1 DEF ClonedAt
    <3> QED
      BY <1>10, <1>11, <2>2, <3>1, <3>2
  <2> QED
    BY <1>12, <2>1, <2>2
<1>18. ASSUME NEW i \in 1 .. n + 1, NEW j \in 1 .. n + 1, i # j
       PROVE  ss[i].dir # ss[j].dir
  <2>1. /\ \A k \in 1 .. n : ss[k].dir = sh.clones[k].dir /\ sh.clones[k].dir # d
        /\ ss[n + 1].dir = d
    BY <1>3, <1>7, <1>10, <1>12
  <2>2. \A k, l \in 1 .. n : k # l => sh.clones[k].dir # sh.clones[l].dir
    BY DEF Follows, n
  <2>3. (i \in 1 .. n \/ i = n + 1) /\ (j \in 1 .. n \/ j = n + 1)
    BY <1>12
  <2> QED
    BY <1>18, <2>1, <2>2, <2>3
<1>19. Reached(ss, sh.cwd)
  BY <1>13 DEF Follows
<1>20. Follows(new, after, D)
  BY <1>4, <1>5, <1>6, <1>10, <1>11, <1>16, <1>17, <1>18, <1>19 DEF Follows
<1> QED
  BY <1>20 DEF new, after

LEMMA FollowsCheckout ==
  ASSUME NEW st, NEW sh, NEW D, ".." \in D, Follows(st, sh, D), NEW cmd,
         cmd.op = "checkout", cmd.dir \in D \cup {None}, ShellStep(sh, cmd).plain
  PROVE  Follows(CommandStep(st, cmd), ShellStep(sh, cmd), D)
<1> DEFINE new == CommandStep(st, cmd)
           after == ShellStep(sh, cmd)
           where == IF cmd.dir = None THEN st.cwd ELSE Append(st.cwd, cmd.dir)
           there == IF cmd.dir = None THEN sh.cwd
                    ELSE normpath(Append(sh.cwd, cmd.dir))
           found == _clone_at(st.clones, where)
           at == CloneIn(sh.clones, there)
           pick == IF found = 0 /\ Len(st.clones) = 1 THEN 1 ELSE found
           out(c) == Checkout(c, cmd.new, cmd.ref)
           c == st.clones[at]
           s == sh.clones[at]
           cs == [st.clones EXCEPT ![at] = out(c)]
           s1 == [s EXCEPT !.co = out(@)]
           ss == [sh.clones EXCEPT ![at] = s1]
           n == Len(sh.clones)
<1>1. PICK U : /\ sh.clones \in Seq(U)
               /\ \A u \in U : DOMAIN u = {"path", "dir", "co"}
  BY DEF Follows, ShellFields
<1>2. PICK T : Remotes(T) /\ st.clones \in Seq(T)
  BY DEF Follows, ClonesOK
<1>3. /\ at \in 0 .. n
      /\ at # 0 => s.path = there
  <2> HIDE DEF there
  <2> QED
    BY <1>1, ShellAt
<1>4. at # 0
  <2>1. SUFFICES ASSUME at = 0 PROVE FALSE
    OBVIOUS
  <2>2. after = [sh EXCEPT !.plain = FALSE]
    BY <2>1 DEF ShellStep
  <2> QED
    BY <2>2 DEF Follows, ShellFields
<1>5. after = [sh EXCEPT !.clones[at].co = out(@),
                 !.last = IF cmd.dir = None THEN @ ELSE at]
  BY <1>4 DEF ShellStep
<1>6. where \in Seq(D) /\ there = normpath(where)
  <2>1. CASE cmd.dir = None
    BY <2>1 DEF Follows
  <2>2. CASE cmd.dir # None
    <3>1. cmd.dir \in D
      BY <2>2
    <3> QED
      BY <2>2, <3>1, LeadsTo
  <2> QED
    BY <2>1, <2>2
<1> HIDE DEF where, there
<1>7. found = at
  <2>1. Reached(sh.clones, normpath(where))
    BY <1>3, <1>4, <1>6 DEF Reached
  <2> QED
    BY <1>6, <2>1, FoundAlike
<1>8. pick = at
  BY <1>4, <1>7
<1>9. new = IF pick = 0 THEN st
            ELSE [st EXCEPT !.primary = IF cmd.dir = None THEN @ ELSE pick,
                            !.clones[pick] = out(@)]
  BY DEF CommandStep, where
<1> HIDE DEF found, at, pick
<1>10. /\ DOMAIN new = DOMAIN st /\ new.clones = cs /\ new.cwd = st.cwd
       /\ new.primary = IF cmd.dir = None THEN st.primary ELSE at
  BY <1>4, <1>8, <1>9 DEF Follows, ClonesOK
<1>11. /\ DOMAIN after = DOMAIN sh /\ after.clones = ss
       /\ after.cwd = sh.cwd
       /\ after.last = IF cmd.dir = None THEN sh.last ELSE at
  BY <1>4, <1>5 DEF Follows, ShellFields
<1>12. ClonesOK(new)
  BY ClonesKept DEF Follows
<1> HIDE DEF new, after
<1>13. at \in 1 .. n /\ Len(st.clones) = n /\ n \in Nat
  BY <1>1, <1>3, <1>4 DEF Follows
<1>14. c \in T /\ s \in U /\ SameClone(c, s) /\ ClonedAt(sh.clones, s, D)
  BY <1>1, <1>2, <1>13 DEF Follows
<1>15. /\ DOMAIN s1 = {"path", "dir", "co"} /\ s1.path = s.path
       /\ s1.dir = s.dir /\ s1.co = out(s.co)
  BY <1>1, <1>14
<1>16. SameClone(out(c), s1)
  <2>1. /\ out(c).repo = c.repo /\ out(c).dir = c.dir
        /\ DOMAIN c = {"repo", "dir", "commit", "branch"}
    BY <1>2, <1>14, CheckoutKeeps DEF Remotes
  <2>2. out(Said(c.commit, c.repo, c.branch, "cli_arg")) =
          Said(out(c).commit, c.repo, out(c).branch, "cli_arg")
    BY <2>1 DEF Checkout, Said, Nothing
  <2> QED
    BY <1>14, <1>15, <2>1, <2>2, SaidIs DEF SameClone
<1> HIDE DEF out, c, s, s1
<1>17. /\ ss \in Seq(U \cup {s1}) /\ Len(ss) = n /\ ss[at] = s1
       /\ \A i \in 1 .. n : i # at => ss[i] = sh.clones[i]
  <2>1. sh.clones \in Seq(U \cup {s1}) /\ s1 \in U \cup {s1} /\ at \in 1 .. Len(sh.clones)
    BY <1>1, <1>13
  <2> QED
    BY <2>1, ReplacedIn
<1>18. /\ Len(cs) = n /\ cs[at] = out(c)
       /\ \A i \in 1 .. n : i # at => cs[i] = st.clones[i]
  <2>1. st.clones \in Seq(T \cup {out(c)}) /\ out(c) \in T \cup {out(c)}
        /\ at \in 1 .. Len(st.clones)
    BY <1>2, <1>13
  <2> QED
    BY <1>13, <2>1, ReplacedIn
<1> HIDE DEF cs, ss, n
<1>19. \A i \in 1 .. n : ss[i].path = sh.clones[i].path /\ ss[i].dir = sh.clones[i].dir
  BY <1>15, <1>17 DEF s
<1>20. ASSUME NEW path, Reached(sh.clones, path)
       PROVE  Reached(ss, path)
  BY <1>17, <1>19, <1>20 DEF Reached, n
<1>21. ShellFields(after)
  <2>1. \A u \in U \cup {s1} : DOMAIN u = {"path", "dir", "co"}
    BY <1>1, <1>15
  <2> QED
    BY <1>11, <1>17, <2>1 DEF Follows, ShellFields
<1>22. ASSUME NEW i \in 1 .. n
       PROVE  SameClone(cs[i], ss[i]) /\ ClonedAt(ss, ss[i], D)
  <2>1. SameClone(st.clones[i], sh.clones[i]) /\ ClonedAt(sh.clones, sh.clones[i], D)
    BY DEF Follows, n
  <2>2. ClonedAt(ss, ss[i], D)
    BY <1>19, <1>20, <2>1 DEF ClonedAt
  <2>3. SameClone(cs[i], ss[i])
    BY <1>16, <1>17, <1>18, <2>1
  <2> QED
    BY <2>2, <2>3
<1>23. Reached(ss, sh.cwd)
  BY <1>20 DEF Follows
<1>24. \A i, j \in 1 .. n : i # j => ss[i].dir # ss[j].dir
  BY <1>19 DEF Follows, n
<1>25. Follows(new, after, D)
  BY <1>10, <1>11, <1>12, <1>13, <1>17, <1>18, <1>21, <1>22, <1>23, <1>24 DEF Follows
<1> QED
  BY <1>25 DEF new, after

\* A script that is not plain does not become plain again.
LEMMA StaysOdd ==
  ASSUME NEW sh, NEW cmd, DOMAIN sh = {"clones", "cwd", "last", "plain"}
  PROVE  /\ DOMAIN ShellStep(sh, cmd) = DOMAIN sh
         /\ ShellStep(sh, cmd).plain => sh.plain
<1> DEFINE there == IF cmd.dir = None THEN sh.cwd
                    ELSE normpath(Append(sh.cwd, cmd.dir))
           at == CloneIn(sh.clones, there)
<1>1. CASE cmd.op = "cd"
  BY <1>1 DEF ShellStep
<1>2. CASE cmd.op = "clone"
  BY <1>2 DEF ShellStep
<1>3. CASE cmd.op = "checkout" /\ at # 0
  <2>1. ShellStep(sh, cmd) =
          [sh EXCEPT !.clones[at].co = Checkout(@, cmd.new, cmd.ref),
                     !.last = IF cmd.dir = None THEN @ ELSE at]
    BY <1>3 DEF ShellStep
  <2> HIDE DEF at
  <2> QED
    BY <2>1
<1>4. CASE ~(cmd.op = "cd" \/ cmd.op = "clone" \/ (cmd.op = "checkout" /\ at # 0))
  <2>1. ShellStep(sh, cmd) = [sh EXCEPT !.plain = FALSE]
    BY <1>4 DEF ShellStep
  <2> QED
    BY <2>1
<1> QED
  BY <1>1, <1>2, <1>3, <1>4

LEMMA FollowsStep ==
  ASSUME NEW script, ScriptOK(script), NEW cmd \in ToSet(script), NEW st, NEW sh,
         Follows(st, sh, Dirs(script)), ShellStep(sh, cmd).plain
  PROVE  Follows(CommandStep(st, cmd), ShellStep(sh, cmd), Dirs(script))
<1>1. cmd.dir \in Dirs(script) /\ ".." \in Dirs(script)
  BY DEF Dirs
<1>2. CASE cmd.op = "cd"
  BY <1>1, <1>2, FollowsEntering
<1>3. CASE cmd.op = "clone"
  BY <1>1, <1>3, FollowsCloning DEF ScriptOK
<1>4. CASE cmd.op = "checkout"
  BY <1>1, <1>4, FollowsCheckout
<1> QED
  BY <1>2, <1>3, <1>4 DEF ScriptOK

\* For a plain script, what the code finds is what a shell has checked out.
LEMMA PlainScript ==
  ASSUME NEW script, ScriptOK(script), Shell(script).plain
  PROVE  detect_git_clone_from_command(script) = ShellCheckout(script)
<1> DEFINE D == Dirs(script)
           N == Len(script)
<1>1. N \in Nat /\ \A n \in 1 .. N : script[n] \in ToSet(script)
  BY DEF ScriptOK
<1>2. PICK f : /\ Ran(script) = f[N] /\ f[0] = NoCommand
               /\ \A n \in 1 .. N : f[n] = CommandStep(f[n - 1], script[n])
  BY <1>1, RanSteps
<1>3. PICK g : /\ Shell(script) = g[N] /\ g[0] = NoShell
               /\ \A n \in 1 .. N : g[n] = ShellStep(g[n - 1], script[n])
  BY <1>1, ShellSteps
<1> DEFINE Right(n) == n <= N => /\ DOMAIN g[n] = {"clones", "cwd", "last", "plain"}
                                 /\ g[n].plain => Follows(f[n], g[n], D)
           Good == {n \in Nat : Right(n)}
<1>4. Right(0)
  <2>1. DOMAIN NoShell = {"clones", "cwd", "last", "plain"}
    BY DEF NoShell
  <2>2. ClonesOK(NoCommand)
    <3>1. Remotes({}) /\ <<>> \in Seq({}) /\ Len(<<>>) = 0
      BY DEF Remotes
    <3> QED
      BY <3>1 DEF ClonesOK, NoCommand
  <2>3. ShellFields(NoShell)
    <3> DEFINE none == {}
    <3>1. <<>> \in Seq(none) /\ \A c \in none : DOMAIN c = {"path", "dir", "co"}
      OBVIOUS
    <3>2. NoShell.clones = <<>>
      BY DEF NoShell
    <3> HIDE DEF none
    <3> QED
      BY <2>1, <3>1, <3>2 DEF ShellFields
  <2>4. <<>> \in Seq(D) /\ <<>> \in Seq({".."}) /\ Len(<<>>) = 0
    OBVIOUS
  <2> HIDE DEF D
  <2>5. Follows(NoCommand, NoShell, D)
    <3>1. /\ NoCommand.clones = <<>> /\ NoCommand.cwd = <<>> /\ NoCommand.primary = 0
          /\ NoShell.clones = <<>> /\ NoShell.cwd = <<>> /\ NoShell.last = 0
      BY DEF NoCommand, NoShell
    <3> QED
      BY <2>2, <2>3, <2>4, <3>1, WalkNowhere DEF Follows, Reached
  <2> QED
    BY <1>2, <1>3, <2>1, <2>5
<1>5. ASSUME NEW n \in Nat, Right(n) PROVE Right(n + 1)
  <2>1. SUFFICES ASSUME n + 1 <= N
                 PROVE  /\ DOMAIN g[n + 1] = {"clones", "cwd", "last", "plain"}
                        /\ g[n + 1].plain => Follows(f[n + 1], g[n + 1], D)
    OBVIOUS
  <2>2. n + 1 \in 1 .. N /\ (n + 1) - 1 = n /\ n <= N
    BY <1>1, <2>1
  <2>3. /\ f[n + 1] = CommandStep(f[n], script[n + 1])
        /\ g[n + 1] = ShellStep(g[n], script[n + 1])
        /\ script[n + 1] \in ToSet(script)
    BY <1>1, <1>2, <1>3, <2>2
  <2>4. /\ DOMAIN g[n + 1] = DOMAIN g[n] /\ (g[n + 1].plain => g[n].plain)
    BY <1>5, <2>2, <2>3, StaysOdd
  <2>5. ASSUME g[n + 1].plain PROVE Follows(f[n + 1], g[n + 1], D)
    BY <1>5, <2>2, <2>3, <2>4, <2>5, FollowsStep
  <2> QED
    BY <1>5, <2>2, <2>4, <2>5
<1>6. Good = Nat
  <2> HIDE DEF Right
  <2>1. Good \in SUBSET Nat /\ 0 \in Good
    BY <1>4
  <2>2. \A n \in Good : n + 1 \in Good
    BY <1>5
  <2> HIDE DEF Good
  <2> QED
    BY <2>1, <2>2, Inductive
<1>7. Right(N)
  <2> HIDE DEF Right
  <2> QED
    BY <1>1, <1>6
<1> DEFINE st == Ran(script)
           sh == Shell(script)
           i == IF st.primary = 0 THEN 1 ELSE st.primary
           chosen == st.clones[i]
<1>8. Follows(st, sh, D)
  BY <1>1, <1>2, <1>3, <1>7
<1>9. /\ detect_git_clone_from_command(script) =
           IF st.clones = <<>> THEN Nothing
           ELSE Said(chosen.commit, chosen.repo, chosen.branch, "cli_arg")
      /\ ShellCheckout(script) =
           IF sh.clones = <<>> THEN Nothing
           ELSE sh.clones[IF sh.last = 0 THEN 1 ELSE sh.last].co
  BY DEF detect_git_clone_from_command, ShellCheckout
<1> HIDE DEF st, sh, D
<1>10. /\ sh.last = st.primary /\ Len(st.clones) = Len(sh.clones)
       /\ Len(st.clones) \in Nat /\ st.primary \in 0 .. Len(st.clones)
       /\ st.clones = <<>> <=> Len(st.clones) = 0
       /\ sh.clones = <<>> <=> Len(sh.clones) = 0
  BY <1>8 DEF Follows, ClonesOK, ShellFields
<1>11. CASE st.clones = <<>>
  BY <1>9, <1>10, <1>11
<1>12. CASE st.clones # <<>>
  <2>1. i \in 1 .. Len(sh.clones)
    BY <1>10, <1>12
  <2>2. SameClone(st.clones[i], sh.clones[i])
    BY <1>8, <2>1 DEF Follows
  <2> QED
    BY <1>9, <1>10, <1>12, <2>2 DEF SameClone
<1> QED
  BY <1>11, <1>12

-----------------------------------------------------------------------------
(* The sources of one checkout *)

\* Two sources that do not contradict each other do so in neither order.
LEMMA ContradictSym ==
  ASSUME NEW p, NEW q
  PROVE  Contradict(p, q) <=> Contradict(q, p)
BY DEF Contradict, SameCommit, SameRepo

\* A source that found nothing contradicts none.
LEMMA NothingAgrees ==
  ASSUME NEW p
  PROVE  ~Contradict(Nothing, p) /\ ~Contradict(p, Nothing)
BY DEF Contradict, Nothing

\* What agrees with a full commit agrees with each other.
LEMMA FullCommit ==
  ASSUME NEW c, \A p \in Abbrev : p[1] # c, NEW a, NEW b,
         SameCommit(a, c), SameCommit(b, c)
  PROVE  SameCommit(a, b)
<1>1. a = c \/ <<a, c>> \in Abbrev
  BY DEF SameCommit
<1>2. b = c \/ <<b, c>> \in Abbrev
  BY DEF SameCommit
<1>3. CASE <<a, c>> \in Abbrev /\ <<b, c>> \in Abbrev
  BY <1>3, AbbrevAssumption
<1> QED
  BY <1>1, <1>2, <1>3 DEF SameCommit

\* The fields of two sources that were merged.
LEMMA MergedIs ==
  ASSUME NEW p, NEW q, DOMAIN p = DOMAIN Nothing, p # Nothing, ~Contradict(p, q)
  PROVE  /\ DOMAIN merge_provenance(p, q) = DOMAIN Nothing
         /\ merge_provenance(p, q).commit = Filled(p.commit, q.commit)
         /\ merge_provenance(p, q).repo = Filled(p.repo, q.repo)
         /\ merge_provenance(p, q).branch = Filled(p.branch, q.branch)
         /\ merge_provenance(p, q).dirty = Filled(p.dirty, q.dirty)
<1>1. merge_provenance(p, q) =
        [p EXCEPT !.commit = Filled(@, q.commit), !.repo = Filled(@, q.repo),
                  !.branch = Filled(@, q.branch), !.dirty = Filled(@, q.dirty)]
  BY DEF merge_provenance
<1>2. DOMAIN p = {"commit", "repo", "branch", "dirty", "via"}
  BY DEF Nothing
<1> QED
  BY <1>1, <1>2

\* q is p completed with the fields of r.
Completes(q, p, r) ==
  /\ q.commit = Filled(p.commit, r.commit) /\ q.repo = Filled(p.repo, r.repo)
  /\ q.branch = Filled(p.branch, r.branch) /\ q.dirty = Filled(p.dirty, r.dirty)

\* A merge completes the first source, which may be none, with all of the
\* second one or with nothing of it.
LEMMA MergeCompletes ==
  ASSUME NEW p, NEW q, DOMAIN p = DOMAIN Nothing, DOMAIN q = DOMAIN Nothing
  PROVE  /\ DOMAIN merge_provenance(p, q) = DOMAIN Nothing
         /\ \E r \in {q, Nothing} :
              ~Contradict(p, r) /\ Completes(merge_provenance(p, q), p, r)
<1>1. CASE p = Nothing
  <2>1. merge_provenance(p, q) = q
    BY <1>1 DEF merge_provenance
  <2>2. Completes(q, p, q)
    BY <1>1 DEF Completes, Filled, Nothing
  <2> QED
    BY <1>1, <2>1, <2>2, NothingAgrees
<1>2. CASE p # Nothing /\ Contradict(p, q)
  <2>1. merge_provenance(p, q) = p
    BY <1>2 DEF merge_provenance
  <2>2. Completes(p, p, Nothing)
    BY DEF Completes, Filled, Nothing
  <2> QED
    BY <2>1, <2>2, NothingAgrees
<1>3. CASE p # Nothing /\ ~Contradict(p, q)
  BY <1>3, MergedIs DEF Completes
<1> QED
  BY <1>1, <1>2, <1>3

\* d is what main's ranking makes of the runtime's, the command's and the
\* image's account: the image comes in while something is still missing.
RankedBy(d, r, c, i) ==
  \E seen : /\ ~Contradict(r, c) /\ Completes(seen, r, c)
            /\ ~Contradict(seen, i) /\ Completes(d, seen, i)
            /\ i # Nothing => seen.commit = None \/ seen.repo = None

\* The sources that main's ranking used: each one, or nothing of it.
LEMMA DetectedIs ==
  ASSUME NEW R, NEW C, NEW I, DOMAIN R = DOMAIN Nothing,
         DOMAIN C = DOMAIN Nothing, DOMAIN I = DOMAIN Nothing
  PROVE  LET d == detected_provenance(
                    detect_git_provenance_from_runtime_info(R), C, I)
         IN /\ DOMAIN d = DOMAIN Nothing
            /\ \E r \in {R, Nothing}, c \in {C, Nothing}, i \in {I, Nothing} :
                 RankedBy(d, r, c, i)
<1> DEFINE R1 == detect_git_provenance_from_runtime_info(R)
           seen == merge_provenance(R1, C)
           d == detected_provenance(R1, C, I)
<1>1. /\ DOMAIN R1 = DOMAIN Nothing
      /\ \E r \in {R, Nothing} :
           /\ R1.commit = r.commit /\ R1.repo = r.repo
           /\ R1.branch = r.branch /\ R1.dirty = r.dirty
  <2>1. CASE R.commit = None /\ R.repo = None
    BY <2>1 DEF detect_git_provenance_from_runtime_info
  <2>2. CASE ~(R.commit = None /\ R.repo = None)
    <3>1. R1 = [R EXCEPT !.via = "git_directory"]
      BY <2>2 DEF detect_git_provenance_from_runtime_info
    <3>2. DOMAIN R = {"commit", "repo", "branch", "dirty", "via"}
      BY DEF Nothing
    <3> QED
      BY <3>1, <3>2
  <2> QED
    BY <2>1, <2>2
<1> HIDE DEF R1
<1>2. PICK r \in {R, Nothing} :
        /\ R1.commit = r.commit /\ R1.repo = r.repo
        /\ R1.branch = r.branch /\ R1.dirty = r.dirty
  BY <1>1
<1>3. /\ DOMAIN seen = DOMAIN Nothing
      /\ \E c \in {C, Nothing} : ~Contradict(R1, c) /\ Completes(seen, R1, c)
  BY <1>1, MergeCompletes
<1>4. PICK c \in {C, Nothing} : ~Contradict(R1, c) /\ Completes(seen, R1, c)
  BY <1>3
<1>5. ~Contradict(r, c) /\ Completes(seen, r, c)
  BY <1>2, <1>4 DEF Contradict, Completes
<1>6. d = IF seen.commit # None /\ seen.repo # None THEN seen
          ELSE merge_provenance(seen, I)
  BY DEF detected_provenance
<1> HIDE DEF seen
<1>7. CASE seen.commit # None /\ seen.repo # None
  <2>1. d = seen /\ Completes(seen, seen, Nothing) /\ ~Contradict(seen, Nothing)
    BY <1>6, <1>7, NothingAgrees DEF Completes, Filled, Nothing
  <2> HIDE DEF d
  <2>2. RankedBy(d, r, c, Nothing)
    BY <1>5, <2>1 DEF RankedBy
  <2> QED
    BY <1>3, <2>1, <2>2 DEF d, R1
<1>8. CASE ~(seen.commit # None /\ seen.repo # None)
  <2>1. d = merge_provenance(seen, I)
    BY <1>6, <1>8
  <2>2. /\ DOMAIN d = DOMAIN Nothing
        /\ \E i \in {I, Nothing} : ~Contradict(seen, i) /\ Completes(d, seen, i)
    BY <1>3, <2>1, MergeCompletes
  <2> HIDE DEF d
  <2>3. PICK i \in {I, Nothing} : ~Contradict(seen, i) /\ Completes(d, seen, i)
    BY <2>2
  <2>4. RankedBy(d, r, c, i)
    BY <1>5, <1>8, <2>3 DEF RankedBy
  <2> QED
    BY <2>2, <2>4 DEF d, R1
<1> QED
  BY <1>7, <1>8

\* Four sources of which no two contradict each other provide every field.
OneOf(s, a, r, c, i) ==
  /\ ~Contradict(a, r) /\ ~Contradict(a, c) /\ ~Contradict(a, i)
  /\ ~Contradict(r, c) /\ ~Contradict(r, i) /\ ~Contradict(c, i)
  /\ \A f \in {"commit", "repo", "branch", "dirty"} :
       s[f] # None => s[f] \in {a[f], r[f], c[f], i[f]}

\* The merged sources agree pairwise, although agreeing is not transitive in
\* general: two commits may share an abbreviation.  Here, the runtime's commit
\* is a full one, and a clone, whose commit may be abbreviated, always names its
\* repository, so that the image does not come in.
LEMMA OneCommit ==
  ASSUME NEW A, NEW r, NEW c, NEW i, NEW d, NEW s,
         r.commit # None => \A p \in Abbrev : p[1] # r.commit,
         c.commit # None => c.repo # None,
         RankedBy(d, r, c, i), ~Contradict(A, d), Completes(s, A, d)
  PROVE  OneOf(s, A, r, c, i)
<1>0. PICK seen : /\ ~Contradict(r, c) /\ Completes(seen, r, c)
                  /\ ~Contradict(seen, i) /\ Completes(d, seen, i)
                  /\ i # Nothing => seen.commit = None \/ seen.repo = None
  BY DEF RankedBy
<1> DEFINE Agree(a, b) == a # None /\ b # None => SameCommit(a, b)
           Same(a, b) == a # None /\ b # None => SameRepo(a, b)
<1>1. ASSUME NEW p, NEW q
      PROVE  Contradict(p, q) <=> ~(Agree(p.commit, q.commit) /\ Same(p.repo, q.repo))
  BY DEF Contradict
<1>2. /\ Agree(r.commit, c.commit) /\ Agree(seen.commit, i.commit)
      /\ Agree(A.commit, d.commit)
  BY <1>0, <1>1
<1>3. Same(r.repo, c.repo) /\ Same(seen.repo, i.repo) /\ Same(A.repo, d.repo)
  BY <1>0, <1>1
<1>4. /\ seen.commit = Filled(r.commit, c.commit)
      /\ d.commit = Filled(seen.commit, i.commit)
      /\ seen.repo = Filled(r.repo, c.repo) /\ d.repo = Filled(seen.repo, i.repo)
  BY <1>0 DEF Completes
<1>5. /\ Agree(A.commit, r.commit) /\ Agree(A.commit, c.commit)
      /\ Agree(A.commit, i.commit) /\ Agree(r.commit, i.commit)
      /\ Agree(c.commit, i.commit)
  <2>1. CASE r.commit # None
    <3>1. seen.commit = r.commit /\ d.commit = r.commit
      BY <1>4, <2>1 DEF Filled
    <3>2. /\ A.commit # None => SameCommit(A.commit, r.commit)
          /\ i.commit # None => SameCommit(i.commit, r.commit)
          /\ c.commit # None => SameCommit(c.commit, r.commit)
      BY <1>2, <2>1, <3>1 DEF SameCommit
    <3>3. /\ Agree(A.commit, c.commit) /\ Agree(A.commit, i.commit)
          /\ Agree(c.commit, i.commit)
      BY <2>1, <3>2, FullCommit
    <3> QED
      BY <1>2, <3>1, <3>3
  <2>2. CASE r.commit = None /\ c.commit # None
    <3>1. seen.commit = c.commit /\ seen.repo # None /\ d.commit = c.commit
      BY <1>4, <2>2 DEF Filled
    <3>2. i = Nothing
      BY <1>0, <2>2, <3>1
    <3>3. i.commit = None
      BY <3>2 DEF Nothing
    <3> QED
      BY <1>2, <2>2, <3>1, <3>3
  <2>3. CASE r.commit = None /\ c.commit = None
    <3>1. d.commit = i.commit
      BY <1>4, <2>3 DEF Filled
    <3> QED
      BY <1>2, <2>3, <3>1
  <2> QED
    BY <2>1, <2>2, <2>3
<1>6. /\ Same(A.repo, r.repo) /\ Same(A.repo, c.repo)
      /\ Same(A.repo, i.repo) /\ Same(r.repo, i.repo) /\ Same(c.repo, i.repo)
  BY <1>3, <1>4 DEF Filled, SameRepo
<1>7. /\ ~Contradict(A, r) /\ ~Contradict(A, c) /\ ~Contradict(A, i)
      /\ ~Contradict(r, i) /\ ~Contradict(c, i)
  <2> HIDE DEF Agree, Same
  <2> QED
    BY <1>1, <1>5, <1>6
<1>8. ASSUME NEW f \in {"commit", "repo", "branch", "dirty"}, s[f] # None
      PROVE  s[f] \in {A[f], r[f], c[f], i[f]}
  BY <1>0, <1>8 DEF Completes, Filled
<1> QED
  BY <1>0, <1>7, <1>8 DEF OneOf

\* Every source of code the AIBOM reports is one checkout.
LEMMA SourceIsOne ==
  ASSUME NEW A, NEW R, NEW C, NEW I, DOMAIN A = DOMAIN Nothing,
         DOMAIN R = DOMAIN Nothing, DOMAIN C = DOMAIN Nothing,
         DOMAIN I = DOMAIN Nothing,
         \A p \in Abbrev : p[1] # R.commit,
         C.commit # None => C.repo # None
  PROVE  \E r \in {R, Nothing}, c \in {C, Nothing}, i \in {I, Nothing} :
           OneOf(source_code(A, detected_provenance(
                   detect_git_provenance_from_runtime_info(R), C, I)), A, r, c, i)
<1> DEFINE d == detected_provenance(
                  detect_git_provenance_from_runtime_info(R), C, I)
           m == merge_provenance(A, d)
           s == source_code(A, d)
<1>1. DOMAIN d = DOMAIN Nothing
  BY DetectedIs
<1>2. \E r \in {R, Nothing}, c \in {C, Nothing}, i \in {I, Nothing} :
        RankedBy(d, r, c, i)
  BY DetectedIs
<1> HIDE DEF d
<1>3. PICK r \in {R, Nothing}, c \in {C, Nothing}, i \in {I, Nothing} :
        RankedBy(d, r, c, i)
  BY <1>2
<1>4. /\ DOMAIN m = DOMAIN Nothing
      /\ \E e \in {d, Nothing} : ~Contradict(A, e) /\ Completes(m, A, e)
  BY <1>1, MergeCompletes
<1>5. PICK e \in {d, Nothing} : ~Contradict(A, e) /\ Completes(m, A, e)
  BY <1>4
<1>6. \E v : s = [m EXCEPT !.via = v]
  BY DEF source_code
<1> HIDE DEF m
<1>7. /\ s.commit = m.commit /\ s.repo = m.repo /\ s.branch = m.branch
      /\ s.dirty = m.dirty
  <2>1. DOMAIN m = {"commit", "repo", "branch", "dirty", "via"}
    BY <1>4 DEF Nothing
  <2> QED
    BY <1>6, <2>1
<1> HIDE DEF s
<1>8. Completes(s, A, e)
  BY <1>5, <1>7 DEF Completes
<1>9. CASE e = d
  <2>1. /\ r.commit # None => \A p \in Abbrev : p[1] # r.commit
        /\ c.commit # None => c.repo # None
    <3>1. Nothing.commit = None
      BY DEF Nothing
    <3>2. r.commit # None => \A p \in Abbrev : p[1] # r.commit
      BY <1>3, <3>1
    <3> QED
      BY <1>3, <3>1, <3>2
  <2>2. OneOf(s, A, r, c, i)
    BY <1>3, <1>5, <1>8, <1>9, <2>1, OneCommit
  <2> QED
    BY <2>2 DEF s, d
<1>10. CASE e = Nothing
  <2>1. OneOf(s, A, Nothing, Nothing, Nothing)
    BY <1>8, <1>10, NothingAgrees DEF OneOf, Completes, Filled, Nothing
  <2> QED
    BY <2>1 DEF s, d
<1> QED
  BY <1>5, <1>9, <1>10

===============================================================================
