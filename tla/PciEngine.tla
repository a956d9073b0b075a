----------------------------- MODULE PciEngine -----------------------------
(***************************************************************************)
(* The pavement condition index of an inspection, from the detections of   *)
(* its images, as the analysis worker obtains it.                          *)
(*                                                                         *)
(* Confidences, severities and areas are multiples of 1/Unit, weights are  *)
(* hundredths.  Numbers are exact fractions <<numerator, denominator>>: the *)
(* rounding of floating point arithmetic is left out, the rounding of the  *)
(* stored score to two decimals is not.                                    *)
(***************************************************************************)
EXTENDS Integers, Sequences, FiniteSets, Functions

CONSTANTS
    Weight,        \* damage_types.pci_weight in hundredths, by damage code
    Images,        \* number of images of the inspection
    Unit,          \* confidences, severities and areas are multiples of 1/Unit
    Confidences,   \* confidences of the detections, at least one half
    Areas,         \* relative areas of the detections
    MaxDetections  \* bound on the number of detections

ASSUME PciAssumption ==
    /\ Images \in Nat \ {0} /\ Unit \in Nat \ {0} /\ MaxDetections \in Nat
    /\ \A c \in DOMAIN Weight : Weight[c] \in 0..100
    /\ Confidences \subseteq {q \in 1..Unit : 2 * q >= Unit}
    /\ Areas \subseteq 1..Unit

VARIABLE detections  \* all_detections, in the order of the images

DetectionInput ==
    [code : DOMAIN Weight, image : 1..Images, area : 0..Unit, severity : 0..Unit]

-----------------------------------------------------------------------------

Least(a, b) == IF a < b THEN a ELSE b
Plus(p, q) == <<p[1] * q[2] + q[1] * p[2], p[2] * q[2]>>
AtLeast(q, n) == q[1] >= n * q[2]

\* 0.4 confidence + 0.6 min(1, 10 area), rounded to the nearest 1/Unit: four decimals
\* when Unit is 10000.  Which way a tie goes depends on the binary fraction.
ProvisionalSeverity(confidence, area) ==
    (4 * confidence + 6 * Least(Unit, 10 * area) + 5) \div 10

\* by_type: the places of the detections of a type.
Codes(ds) == {ds[k].code : k \in DOMAIN ds}
OfType(ds, c) == {k \in DOMAIN ds : ds[k].code = c}

\* The part of an image that the first k detections damage, in 1/Unit: capped after
\* every one of them.
PerImage(ds, c, image) ==
    LET covered[k \in 0..Len(ds)] ==
            IF k = 0 THEN 0
            ELSE IF ds[k].code = c /\ ds[k].image = image
                 THEN Least(Unit, covered[k - 1] + ds[k].area)
                 ELSE covered[k - 1]
    IN  covered

\* Operators named ...Mutant are faulty variants of the definition that follows.
\* Here the mean is over the images that show the type, and not over all images.
DensityMutant(ds, c) ==
    <<SumFunction([i \in 1..Images |-> PerImage(ds, c, i)[Len(ds)]]),
      Cardinality({ds[k].image : k \in OfType(ds, c)})>>

Density(ds, c) == <<SumFunction([i \in 1..Images |-> PerImage(ds, c, i)[Len(ds)]]), Images>>

AreaOf(ds, places)     == SumFunction([k \in places |-> ds[k].area])
SeverityOf(ds, places) == SumFunction([k \in places |-> ds[k].severity])
WeightedOf(ds, places) == SumFunction([k \in places |-> ds[k].severity * ds[k].area])

\* The plain mean, whatever the areas.
MeanSeverityMutant(ds, c) == <<SeverityOf(ds, OfType(ds, c)), Cardinality(OfType(ds, c))>>

\* Weighted by area, in 1/Unit; the plain mean if the areas are all zero.
MeanSeverity(ds, c) ==
    LET typed == OfType(ds, c) IN
    IF AreaOf(ds, typed) > 0
    THEN <<WeightedOf(ds, typed), AreaOf(ds, typed)>>
    ELSE <<SeverityOf(ds, typed), Cardinality(typed)>>

\* The points that a damage type takes from 100, in 1/(Unit * Unit).
Deduction(ds, c) ==
    LET severity == MeanSeverity(ds, c)
        density  == Density(ds, c)
    IN  <<Weight[c] * severity[1] * density[1], severity[2] * density[2]>>

TotalDeduction(ds) == FoldFunction(Plus, <<0, 1>>, [c \in Codes(ds) |-> Deduction(ds, c)])

\* The score that compute_pci classifies and stores.
Score(ds) ==
    LET taken == TotalDeduction(ds)
        whole == taken[2] * Unit * Unit
    IN  IF taken[1] >= 100 * whole THEN <<0, 1>> ELSE <<100 * whole - taken[1], whole>>

\* Hundredths, half up: pci_scores.score is NUMERIC(5,2).
Round2(q) ==
    100 * (q[1] \div q[2]) + (200 * (q[1] % q[2]) + q[2]) \div (2 * q[2])

ClassifySeverity(q) ==
    CASE AtLeast(q, 70) -> "FAIBLE"
      [] AtLeast(q, 55) /\ ~AtLeast(q, 70) -> "MODERE"
      [] AtLeast(q, 40) /\ ~AtLeast(q, 55) -> "GRAVE"
      [] ~AtLeast(q, 40) -> "CRITIQUE"

\* The bands of P2 and P3 meet at 65.
ClassifyPriorityMutant(q) ==
    CASE AtLeast(q, 85) -> "P4_EXCELLENT"
      [] AtLeast(q, 65) /\ ~AtLeast(q, 85) -> "P3_SURVEILLANCE"
      [] AtLeast(q, 55) /\ ~AtLeast(q, 65) -> "P2_PLANIFIE"
      [] AtLeast(q, 40) /\ ~AtLeast(q, 55) -> "P1_URGENT"
      [] ~AtLeast(q, 40) -> "P0_CRITIQUE"

ClassifyPriority(q) ==
    CASE AtLeast(q, 85) -> "P4_EXCELLENT"
      [] AtLeast(q, 70) /\ ~AtLeast(q, 85) -> "P3_SURVEILLANCE"
      [] AtLeast(q, 55) /\ ~AtLeast(q, 70) -> "P2_PLANIFIE"
      [] AtLeast(q, 40) /\ ~AtLeast(q, 55) -> "P1_URGENT"
      [] ~AtLeast(q, 40) -> "P0_CRITIQUE"

\* What the worker stores.
ComputePci(ds) ==
    LET score == Score(ds)
    IN  [score |-> Round2(score), severity |-> ClassifySeverity(score),
         priority |-> ClassifyPriority(score)]

-----------------------------------------------------------------------------

PciInit == detections = << >>

\* Images are analysed one after the other; a class without a damage type is skipped.
Detect ==
    /\ Len(detections) < MaxDetections
    /\ \E c \in DOMAIN Weight, i \in 1..Images, q \in Confidences, a \in Areas :
          /\ detections # << >> => i >= detections[Len(detections)].image
          /\ detections' = Append(detections,
                [code |-> c, image |-> i, area |-> a, severity |-> ProvisionalSeverity(q, a)])

PciNext == Detect

PciSpec == PciInit /\ [][PciNext]_detections

-----------------------------------------------------------------------------

\* compute_pci raises ValueError on a severity or an area outside of [0, 1]: it
\* never does, because the severity of a detection is bounded where it is made.
InputsInRange == detections \in Seq(DetectionInput)

\* No type covers an image more than once.
Unsaturated(ds) ==
    \A c \in DOMAIN Weight, i \in 1..Images :
        AreaOf(ds, {k \in OfType(ds, c) : ds[k].image = i}) <= Unit

DamageOf(ds) ==
    SumFunction([k \in DOMAIN ds |-> Weight[ds[k].code] * (ds[k].severity * ds[k].area)])

\* The formula of the CDC: as long as no image is saturated, weighting severities
\* by area and averaging areas over the images amounts to adding up
\* weight * severity * area over the detections, in any order.
CdcFormula ==
    Unsaturated(detections) =>
        LET taken == TotalDeduction(detections)
        IN  taken[1] * Images = DamageOf(detections) * taken[2]

\* A further detection never raises the score, unless its image is saturated.
\* (Under the cap it may: a milder detection lowers the mean severity and adds
\* nothing to the density.)
MoreDamageNeverHelps ==
    [][Unsaturated(detections') =>
         ComputePci(detections').score <= ComputePci(detections).score]_detections

Threshold == [P4_EXCELLENT |-> 85, P3_SURVEILLANCE |-> 70, P2_PLANIFIE |-> 55,
              P1_URGENT |-> 40, P0_CRITIQUE |-> 0]

\* The stored priority is that of the stored score, or the class just below
\* where rounding lifted the score to a threshold.
ClassUpToRounding ==
    LET pci == ComputePci(detections) IN
    /\ pci.score >= 100 * Threshold[pci.priority]
    /\ \A p \in DOMAIN Threshold :
          Threshold[p] > Threshold[pci.priority] => pci.score <= 100 * Threshold[p]

\* "PCI >= 85 -> FAIBLE / P4_EXCELLENT, 70 <= PCI < 85 -> FAIBLE / P3_SURVEILLANCE,
\* 55 <= PCI < 70 -> MODERE / P2_PLANIFIE, ...": read on the stored score.
ClassOfStoredScore ==
    LET pci == ComputePci(detections)
        stored == <<pci.score, 100>>
    IN  /\ pci.severity = ClassifySeverity(stored)
        /\ pci.priority = ClassifyPriority(stored)
=============================================================================
