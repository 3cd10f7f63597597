------------------------------ MODULE SeriesFit ------------------------------
(***************************************************************************)
(* The telemetry series document (postprocess/postprocess.py): its grid,   *)
(* and _fit_series_doc, which makes it fit into one object.  A line is the *)
(* set of the grid positions at which it has a point; a document maps a    *)
(* metric to [agg, peak, lines]: the aggregate line, the line of peaks     *)
(* ({} if there is none) and the lines of the pods (<<>> once dropped).    *)
(* Its size is its number of points.                                       *)
(***************************************************************************)
EXTENDS Integers, FiniteSets, FiniteSetsExt, SequencesExt

CONSTANTS
  SERIES_MAX_POINTS,     \* SERIES_MAX_BYTES, in points
  SERIES_MIN_POINTS,
  SERIES_TARGET_POINTS

ASSUME SeriesAssumption ==
  /\ SERIES_MAX_POINTS \in Nat
  /\ SERIES_MIN_POINTS \in Nat \ {0, 1}   \* with 1, the loop need not end
  /\ SERIES_TARGET_POINTS \in Nat \ {0}

Ceil(a, b) == (a + b - 1) \div b

\* The step of the grid over a span of scrape intervals.
SeriesStep(span) == Max({Ceil(span, SERIES_TARGET_POINTS), 1})

\* Mutant: a bucket is averaged away when it is not full.
Rebucket_Full(line, factor) ==
  {b \in {i \div factor : i \in line} :
     \A i \in b * factor .. (b + 1) * factor - 1 : i \in line}

_rebucket_points(line, factor) == {i \div factor : i \in line}

_rebucket_series_doc(doc, factor) ==
  [m \in DOMAIN doc |->
     [agg   |-> _rebucket_points(doc[m].agg, factor),
      peak  |-> _rebucket_points(doc[m].peak, factor),
      lines |-> [i \in DOMAIN doc[m].lines |->
                   _rebucket_points(doc[m].lines[i], factor)]]]

Detail(metric) == FoldLeft(LAMBDA n, line : n + Cardinality(line), 0, metric.lines)
Size(doc) ==
  MapThenSumSet(LAMBDA m : Cardinality(doc[m].agg) + Cardinality(doc[m].peak)
                           + Detail(doc[m]), DOMAIN doc)
Fits(doc) == Size(doc) <= SERIES_MAX_POINTS

\* The longest aggregate line, which bounds how coarse the grid may become.
Longest(doc) == Max({Cardinality(doc[m].agg) : m \in DOMAIN doc})
Factors(doc) == {f \in 2 .. Longest(doc) :
                   Ceil(Longest(doc), f) >= SERIES_MIN_POINTS}

WithoutDetail(doc, ms) == [m \in DOMAIN doc |->
  IF m \in ms THEN [doc[m] EXCEPT !.lines = <<>>] ELSE doc[m]]

\* Detail goes metric by metric, the largest first: the sets of metrics that
\* are without it after some rounds.
DropRounds(doc) ==
  LET detailed == {m \in DOMAIN doc : doc[m].lines # <<>>}
  IN {ms \in SUBSET detailed :
        \A m \in ms, n \in detailed \ ms : Detail(doc[n]) <= Detail(doc[m])}

NoDoc == <<>>

\* The document as it is, else the first coarser one that fits, else the
\* coarsest with as little detail dropped as will do, else none.
_fit_series_doc(doc) ==
  LET fitting  == {f \in Factors(doc) : Fits(_rebucket_series_doc(doc, f))}
      coarsest == IF Factors(doc) = {} THEN doc
                  ELSE _rebucket_series_doc(doc, Max(Factors(doc)))
      rounds   == {ms \in DropRounds(coarsest) : Fits(WithoutDetail(coarsest, ms))}
  IN CASE Fits(doc) -> doc
       [] ~Fits(doc) /\ fitting # {} -> _rebucket_series_doc(doc, Min(fitting))
       [] ~Fits(doc) /\ fitting = {} /\ rounds # {} ->
            WithoutDetail(coarsest, CHOOSE ms \in rounds : \A other \in rounds :
                            Cardinality(ms) <= Cardinality(other))
       [] OTHER -> NoDoc

=============================================================================
