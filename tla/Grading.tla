-------------------------------- MODULE Grading --------------------------------
(***************************************************************************)
(* From marks to percentages and grades (services/                         *)
(* report_card_calculation_service.py, grading_scale_service.py).          *)
(* Percentages are whole numbers up to Whole, which stands for 100.00; the *)
(* quotients in between have 28 digits, and Side says on which side of the *)
(* exact value they come out.  A paper is the schedule of an exam, its     *)
(* subject and type of assessment, the maximum, and the student's marks or *)
(* None: an index leaves a paper one result, so RetestPolicy, which        *)
(* chooses among several, has nothing to choose.                           *)
(***************************************************************************)
EXTENDS Integers, Sequences
LOCAL INSTANCE FiniteSets
LOCAL INSTANCE FiniteSetsExt

CONSTANTS Whole, None

RoundingMode    == {"ROUND_HALF_UP", "ROUND_FLOOR", "ROUND_CEIL"}
CalculationMode == {"SIMPLE_TOTAL", "WEIGHTED_ASSESSMENT_TYPE"}

Rounded(mode, n, d) ==
    CASE mode = "ROUND_FLOOR" -> n \div d
      [] mode = "ROUND_CEIL"  -> (n + d - 1) \div d
      [] OTHER                -> (2 * n + d) \div (2 * d)

-----------------------------------------------------------------------------
\* A scale is the sequence of its entries; they are read from the highest to the lowest.
InRange(entries) == \A k \in DOMAIN entries :
    0 <= entries[k].min /\ entries[k].min <= entries[k].max /\ entries[k].max <= Whole

Larger(a, b)  == IF a > b THEN a ELSE b
Smaller(a, b) == IF a < b THEN a ELSE b

Overlap(a, b)       == Larger(a.min, b.min) <= Smaller(a.max, b.max)

validate_entries(entries) ==
    /\ InRange(entries)
    /\ \A j, k \in DOMAIN entries : j # k =>
           entries[j].code # entries[k].code /\ ~Overlap(entries[j], entries[k])

Within(pct, entry) == entry.min <= pct /\ pct <= entry.max

\* The highest band that fits, and else the lowest band of all.
match_grade_entry(entries, pct) ==
    LET all  == {entries[k] : k \in DOMAIN entries}
        fits == {e \in all : Within(pct, e)}
    IN CASE fits # {} -> CHOOSE e \in fits : \A f \in fits : f.min <= e.min
         [] fits = {} /\ all # {} -> CHOOSE e \in all : \A f \in all : e.min <= f.min
         [] OTHER -> None

-----------------------------------------------------------------------------
Marks(p) == IF p.marks = None THEN 0 ELSE p.marks

Obtained(papers) == MapThenSumSet(Marks, papers)

Maximum(papers) == LET Highest(p) == p.max IN MapThenSumSet(Highest, papers)

simple_total(papers, mode) ==
    IF Maximum(papers) = 0 THEN 0
    ELSE Rounded(mode, Whole * Obtained(papers), Maximum(papers))

Types(papers) == {p.type : p \in papers}

OfType(papers, a) == {p \in papers : p.type = a}

\* Mutant: the weights that are used are not scaled up to the whole.
Unscaled(papers, weights) == LET Weight(a) == weights[a] IN MapThenSumSet(Weight, DOMAIN weights)
WeightUsed(papers, weights) == LET Weight(a) == weights[a] IN MapThenSumSet(Weight, Types(papers))

\* The maximum marks of several types, multiplied: a common denominator.
Common(papers, types) ==
    MapThenFoldSet(LAMBDA x, y : x * y, 1, LAMBDA a : Maximum(OfType(papers, a)),
                   LAMBDA S : CHOOSE a \in S : TRUE, types)

Side == {-1, 0, 1}

\* The percentages of the types, and 100 / used, come out even.
Exact(papers, weights) ==
    /\ Whole % WeightUsed(papers, weights) = 0
    /\ \A a \in Types(papers) :
           (Whole * Obtained(OfType(papers, a))) % Maximum(OfType(papers, a)) = 0

\* Whole / used times used, with 28 digits, is Whole or just falls short of it.
Error(papers, weights, side) ==
    IF Exact(papers, weights) \/ (Obtained(papers) = Maximum(papers) /\ side = 1) THEN 0 ELSE side

\* A type counts as much as its weight, whatever its maximum marks.
weighted(papers, weights, mode, side) ==
    LET types    == Types(papers)
        Share(a) == Obtained(OfType(papers, a)) * weights[a] * Common(papers, types \ {a})
        used     == WeightUsed(papers, weights)
        n        == Whole * MapThenSumSet(Share, types)
        d        == Common(papers, types) * used
    IN IF used = 0 \/ n = 0 THEN 0
       ELSE Rounded(mode, 3 * n + Error(papers, weights, side), 3 * d)

Percentage(papers, config, side) ==
    IF config.mode = "SIMPLE_TOTAL" THEN simple_total(papers, config.rounding)
    ELSE weighted(papers, config.weights, config.rounding, side)

Subjects(papers) == {p.subject : p \in papers}

OfSubject(papers, u) == {p \in papers : p.subject = u}

\* One member of each set.
Picks(sets) == {f \in [DOMAIN sets -> UNION {sets[k] : k \in DOMAIN sets}] :
                   \A k \in DOMAIN sets : f[k] \in sets[k]}

\* What the percentages of the subjects may come out as.
Percentages(papers, config) ==
    Picks([u \in Subjects(papers) |->
               {Percentage(OfSubject(papers, u), config, side) : side \in Side}])

Overall(papers, config, pcts) ==
    IF config.mode = "SIMPLE_TOTAL" \/ papers = {} THEN simple_total(papers, config.rounding)
    ELSE LET Part(u) == pcts[u]
         IN Rounded(config.rounding, MapThenSumSet(Part, Subjects(papers)),
                    Cardinality(Subjects(papers)))

\* Weights are to make up the whole, and every type in use to have one.
Calculable(papers, config) == config.mode = "WEIGHTED_ASSESSMENT_TYPE" =>
    /\ Unscaled(papers, config.weights) = Whole
    /\ Types(papers) \subseteq DOMAIN config.weights

\* What a report card may show.
calculate_student_evaluation(papers, config, entries) ==
    LET Card(pcts) ==
        LET pct   == Overall(papers, config, pcts)
            grade == match_grade_entry(entries, pct)
        IN [max |-> Maximum(papers), obtained |-> Obtained(papers), percentage |-> pct,
            grade |-> IF grade = None THEN None ELSE grade.code,
            passed |-> \A u \in Subjects(papers) :
                LET entry == match_grade_entry(entries, pcts[u]) IN entry # None => entry.pass]
    IN {Card(pcts) : pcts \in Percentages(papers, config)}
=============================================================================
