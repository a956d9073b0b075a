----------------------------- MODULE Assessment -----------------------------
(***************************************************************************)
(* An inspection from its detections to the rule that decides on works:    *)
(* the worker computes the PCI, stores it with a summary of the analysis,  *)
(* and the recommendation service evaluates the rules on what it finds     *)
(* stored.  PciEngine and RuleEngine are composed as they are; this module *)
(* adds what lies between them.                                            *)
(***************************************************************************)
EXTENDS PciEngine, SeedRules

CONSTANT Rank  \* the alphabetical order of the damage codes

ASSUME AssessmentAssumption ==
    /\ DOMAIN Weight \subseteq Types
    /\ Rank \in [DOMAIN Weight -> Nat]
    /\ \A c, d \in DOMAIN Weight : Rank[c] = Rank[d] => c = d
    /\ None \notin Analyses

VARIABLE analysis  \* the rows of pci_scores and analysis_results, once committed

allVars == <<detections, analysis, vars>>

-----------------------------------------------------------------------------

\* round(deduction, 4), in ten thousandths: to the nearest, halves to the even one.
Round4(q) ==
    LET part  == 10000 * (q[1] % q[2])
        whole == 10000 * (q[1] \div q[2]) + part \div q[2]
        rest  == part % q[2]
    IN  IF 2 * rest > q[2] \/ (2 * rest = q[2] /\ whole % 2 = 1) THEN whole + 1 ELSE whole

\* The deduction in the breakdown by type.
Breakdown(ds, c) ==
    LET taken == Deduction(ds, c)
    IN  Round4(<<taken[1], taken[2] * (Unit * Unit)>>)

\* The type that takes most; of several, the one detected first.
DominantMutant(ds) ==
    IF ds = << >> THEN NoType
    ELSE LET k == CHOOSE k \in DOMAIN ds : \A j \in DOMAIN ds :
                     \/ Breakdown(ds, ds[j].code) < Breakdown(ds, ds[k].code)
                     \/ Breakdown(ds, ds[j].code) = Breakdown(ds, ds[k].code) /\ k <= j
         IN  ds[k].code

\* The items of the breakdown, <<code, deduction>>.
Items(ds) == {<<c, Breakdown(ds, c)>> : c \in Codes(ds)}

\* x comes before y under max(items), which are sorted by code.
Precedes(x, y) ==
    \/ y[2] < x[2]
    \/ y[2] = x[2] /\ Rank[x[1]] <= Rank[y[1]]

\* The type that takes most; of several, the first in alphabetical order.
Dominant(ds) ==
    IF ds = << >> THEN NoType
    ELSE LET items == Items(ds)
         IN  (CHOOSE x \in items : \A y \in items : Precedes(x, y))[1]

\* What the rules see of an analysis of the detections.
FactsOf(ds) ==
    LET pci == ComputePci(ds)
    IN  [pci |-> pci.score, severity |-> pci.severity, priority |-> pci.priority,
         dominant |-> Dominant(ds), detections |-> Len(ds)]

-----------------------------------------------------------------------------

AssessInit ==
    /\ PciInit
    /\ analysis = None
    /\ base = << >> /\ ctx = None /\ seen = {} /\ outcome = None

Collect ==
    /\ analysis = None
    /\ Detect
    /\ UNCHANGED <<analysis, vars>>

\* The commit of the worker.
Save ==
    /\ analysis = None
    /\ analysis' = FactsOf(detections)
    /\ UNCHANGED <<detections, vars>>

\* generate_for_analysis reads the analysis, its PCI and the rules.
Generate ==
    /\ analysis # None
    /\ ctx = None
    /\ base' \in RuleBases
    /\ ctx' = analysis
    /\ UNCHANGED <<detections, analysis, seen, outcome>>

Scan ==
    /\ ctx # None
    /\ Next
    /\ UNCHANGED <<detections, analysis>>

AssessNext == Collect \/ Save \/ Generate \/ Scan

AssessSpec == AssessInit /\ [][AssessNext]_allVars

-----------------------------------------------------------------------------

\* The inductive invariant: what is stored is the analysis of the detections, it is what
\* the rules are evaluated on, and the scan has passed over none that has a say.
AssessInv ==
    /\ InputsInRange
    /\ analysis \in {None, FactsOf(detections)}
    /\ ctx \in {None, analysis}
    /\ IF ctx = None THEN seen = {} /\ outcome = None ELSE Scanned

-----------------------------------------------------------------------------

\* Some of the detections, in some order.
Part(ds, e) == [k \in DOMAIN e |-> ds[e[k]]]

\* The places of n detections, in the order of the list.
Selections(ds, n) ==
    {e \in Injection(1..n, DOMAIN ds) : \A j, k \in 1..n : j < k => e[j] < e[k]}

\* "DETERMINISTIC BY DESIGN: ... numeric results are reproducible": the query for the
\* images names no order, and whatever the worker commits is the same in any.
Reproducible ==
    [][Save =>
         \A e \in Bijection(DOMAIN detections, DOMAIN detections) :
            analysis' = FactsOf(Part(detections, e))]_allVars

\* The bounds written into the rules of the seed data are those of the classes of the
\* PCI: the rule that decides is one for the class of the stored priority, unless
\* rounding has lifted the stored score to where the class above begins.
BandsAgree ==
    base = Seed /\ outcome # None =>
        LET band  == Seed[outcome.rule].condition
            class == analysis.priority
        IN  /\ outcome.rule \in DOMAIN Seed
            /\ \/ band.min = 100 * Threshold[class]
               \/ band.min > 100 * Threshold[class] /\ analysis.pci = band.min

\* Had some of the detections been missed, the works would be no stricter and no
\* sooner: as long as no image is saturated, and the missing ones do not change the
\* dominant type.
MoreDamageNeverMilder ==
    (base = Seed /\ outcome # None /\ Unsaturated(detections)) =>
        \A n \in 0..Len(detections) :
        \A fewer \in {FactsOf(Part(detections, e)) : e \in Selections(detections, n)} :
            LET rule == Seed[Verdict(Seed, fewer)]
            IN  fewer.dominant = analysis.dominant =>
                    /\ Severity[rule.strategy] <= Severity[outcome.result]
                    /\ Seed[outcome.rule].deadline <= rule.deadline
=============================================================================
