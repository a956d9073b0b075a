-------------------------- MODULE AssessmentProofs --------------------------
(***************************************************************************)
(* Proofs about RuleEngine, for any rule bases and any contexts; about the *)
(* rules of the seed data, for the facts of any analysis; and about        *)
(* Assessment, which brings them together with the index that              *)
(* PciEngineProofs is about.                                               *)
(***************************************************************************)
EXTENDS Assessment, PciEngineProofs

-----------------------------------------------------------------------------
(***************************************************************************)
(* The scan of the rules.                                                  *)
(***************************************************************************)

\* What makes a rule malformed is raised as one of three exceptions (_parse,
\* float() and int(), MaintenanceStrategy(...), str.format).
LEMMA FaultIsAnError ==
    ASSUME NEW rule, NEW x, rule.fault \in ActionFaults
    PROVE  Fault(rule, x) \in Errors \cup {"none"}
BY DEF Fault, ActionFaults, Errors

\* The rule the loop has come to is the first one that has a say, if it has a
\* say at all: those before it have been gone past.
LEMMA CurrentIsFirst ==
    ASSUME NEW c, Current(c), seen \cap Met(base, ctx) = {}, c \in Met(base, ctx)
    PROVE  First(base, ctx, c)
BY DEF Current, First, Met

\* Two rules cannot both be first: (priority, code) is a total order.
THEOREM FirstIsUnique ==
    ASSUME NEW b \in RuleBases, NEW x, NEW c, NEW d,
           First(b, x, c), First(b, x, d)
    PROVE  c = d
<1>1. c \in DOMAIN b /\ d \in DOMAIN b
  BY DEF First, Met, Active
<1>2. /\ c \in Nat /\ d \in Nat
      /\ b[c].priority \in Nat /\ b[d].priority \in Nat
  BY <1>1, RuleBasesAssumption
<1>3. c # d => Before(b, c, d) /\ Before(b, d, c)
  BY DEF First
<1>4. ~(Before(b, c, d) /\ Before(b, d, c))
  BY <1>2 DEF Before
<1> QED
  BY <1>3, <1>4

\* The loop starts with nothing decided and nothing gone past.
LEMMA ScanInit == Init => ScanInv
BY DEF Init, ScanInv, Scanned, FirstMatchWins

\* Every step of the loop preserves the invariant.
LEMMA ScanStep == Scanned /\ [Next]_vars => Scanned' /\ UNCHANGED ctx
<1> SUFFICES ASSUME Scanned, [Next]_vars
             PROVE  Scanned' /\ UNCHANGED ctx
  OBVIOUS
<1> USE DEF Scanned
<1>1. ASSUME NEW c \in DOMAIN base, Skip(c)
      PROVE  Scanned' /\ UNCHANGED ctx
  <2>1. UNCHANGED <<base, ctx, outcome>> /\ outcome = None
    BY <1>1 DEF Skip, Current
  <2>2. c \in Active(base) \ Met(base, ctx)
    BY <1>1 DEF Skip, Current, Met, Applies
  <2>3. Active(base)' = Active(base) /\ Met(base, ctx)' = Met(base, ctx)
    BY <2>1 DEF Active, Met
  <2>4. (seen \subseteq Active(base) \ Met(base, ctx))'
    BY <1>1, <2>2, <2>3 DEF Skip
  <2> QED
    BY <2>1, <2>4 DEF FirstMatchWins
<1>2. ASSUME NEW c \in DOMAIN base, Decide(c)
      PROVE  Scanned' /\ UNCHANGED ctx
  <2>1. UNCHANGED <<base, ctx, seen>> /\ outcome' = [rule |-> c, result |-> base[c].strategy]
    BY <1>2 DEF Decide
  <2>2. c \in Nat /\ base[c].strategy \in Strategies
    BY RuleBasesAssumption
  <2>3. outcome' \in Outcome
    BY <2>1, <2>2 DEF Outcome
  <2>4. First(base, ctx, c)
    <3>1. c \in Met(base, ctx)
      BY <1>2 DEF Decide, Current, Met
    <3> QED
      BY <1>2, <3>1, CurrentIsFirst DEF Decide
  <2>5. Applies(base[c], ctx)
    BY <1>2 DEF Decide
  <2>6. FirstMatchWins'
    BY <2>1, <2>4, <2>5 DEF FirstMatchWins, First, Met, Active, Before
  <2>7. (seen \subseteq Active(base) \ Met(base, ctx))'
    BY <2>1 DEF Active, Met
  <2> QED
    BY <2>1, <2>3, <2>6, <2>7
<1>3. ASSUME NEW c \in DOMAIN base, Raise(c)
      PROVE  Scanned' /\ UNCHANGED ctx
  <2>1. UNCHANGED <<base, ctx, seen>> /\ outcome' = [rule |-> c, result |-> Fault(base[c], ctx)]
    BY <1>3 DEF Raise
  <2>2. c \in Nat /\ Fault(base[c], ctx) \in Errors
    BY <1>3, RuleBasesAssumption, FaultIsAnError DEF Raise
  <2>3. outcome' \in Outcome
    BY <2>1, <2>2 DEF Outcome
  <2>4. First(base, ctx, c)
    <3>1. c \in Met(base, ctx)
      BY <1>3 DEF Raise, Current, Met
    <3> QED
      BY <1>3, <3>1, CurrentIsFirst DEF Raise
  <2>5. ~Applies(base[c], ctx)
    BY <1>3 DEF Raise, Applies
  <2>6. FirstMatchWins'
    BY <2>1, <2>4, <2>5 DEF FirstMatchWins, First, Met, Active, Before
  <2>7. (seen \subseteq Active(base) \ Met(base, ctx))'
    BY <2>1 DEF Active, Met
  <2> QED
    BY <2>1, <2>3, <2>6, <2>7
<1>4. CASE FallBack
  <2>1. UNCHANGED <<base, ctx, seen>> /\ outcome' = Default
    BY <1>4 DEF FallBack
  <2>2. outcome' \in Outcome
    BY <2>1 DEF Outcome, Default, Strategies
  <2>3. Met(base, ctx) = {}
    BY <1>4 DEF FallBack, Met
  <2>4. FirstMatchWins'
    BY <2>1, <2>3 DEF FirstMatchWins, Met, Active
  <2>5. (seen \subseteq Active(base) \ Met(base, ctx))'
    BY <2>1 DEF Active, Met
  <2> QED
    BY <2>1, <2>2, <2>4, <2>5
<1>5. CASE UNCHANGED vars
  BY <1>5 DEF vars, FirstMatchWins, First, Met, Active, Before
<1> QED
  BY <1>1, <1>2, <1>3, <1>4, <1>5 DEF Next, Evaluate

\* The invariant holds throughout the evaluation.
THEOREM ScanInvariance == Spec => []ScanInv
<1>1. ScanInv /\ [Next]_vars => ScanInv'
  BY ScanStep DEF ScanInv
<1> QED
  BY <1>1, ScanInit, PTL DEF Spec

\* Whatever the rules and the facts, evaluate returns what the first rule that
\* has a say gives, and no malformed rule before it is passed over.
THEOREM FirstMatch == Spec => []FirstMatchWins
<1>1. ScanInv => FirstMatchWins
  BY DEF ScanInv, Scanned
<1> QED
  BY <1>1, ScanInvariance, PTL

-----------------------------------------------------------------------------
(***************************************************************************)
(* The seed data.                                                          *)
(***************************************************************************)

\* A rule of the seed data never fails, and applies by its bounds, its types and its
\* number of detections: every severity and every priority will do.
LEMMA RowIsSound ==
  ASSUME NEW x \in Analyses, NEW p, NEW min \in Int, NEW max \in Int, NEW types, NEW n \in Int,
         NEW s, NEW d, Condition(min, max, types, n) # NotJson,
         NEW rule, rule = Row(p, Condition(min, max, types, n), s, d)
  PROVE  /\ Fault(rule, x) = "none"
         /\ Applies(rule, x) <=> /\ x.pci >= min /\ x.pci < max
                                 /\ x.dominant \in types /\ x.detections >= n
<1> DEFINE cond == Condition(min, max, types, n)
<1>1. rule.condition = cond /\ rule.fault = "none" /\ cond # NotJson
  BY DEF Row
<1>2. /\ cond.min = min /\ cond.max = max /\ cond.types = types /\ cond.detections = n
      /\ cond.severities = Severities /\ cond.priorities = Priorities
  BY DEF Condition
<1>3. x.severity \in Severities /\ x.priority \in Priorities
  BY DEF Analyses
<1>4. ~BadBound(cond, x)
  BY <1>2, SeedAssumption DEF BadBound
<1>5. Matches(cond, x) <=> /\ x.pci >= min /\ x.pci < max
                           /\ x.dominant \in types /\ x.detections >= n
  BY <1>2, <1>3 DEF Matches, Above, Below, Listed
<1> HIDE DEF cond
<1>6. Fault(rule, x) = "none"
  BY <1>1, <1>4 DEF Fault
<1> QED
  BY <1>1, <1>5, <1>6 DEF Applies

\* The seed data, row by row.
LEMMA SeedIsTable ==
  /\ DOMAIN Seed = 1..9
  /\ Seed[1] = Row(10, Condition(0, 4000, AnyType, 0), "RECONSTRUCTION", 30)
  /\ Seed[2] = Row(20, Condition(4000, 5500, {"POTHOLE", "ALLIGATOR_CRACK", "RUTTING"}, 0),
                   "REHABILITATION", 60)
  /\ Seed[3] = Row(25, Condition(4000, 5500, AnyType, 0), "RESURFACAGE", 90)
  /\ Seed[4] = Row(30, Condition(5500, 7000, {"RAVELLING", "RUTTING"}, 0), "RESURFACAGE", 180)
  /\ Seed[5] = Row(35, Condition(5500, 7000, Fissures \cup {"ALLIGATOR_CRACK"}, 0),
                   "COLMATAGE", 120)
  /\ Seed[6] = Row(39, Condition(5500, 7000, AnyType, 0), "COLMATAGE", 180)
  /\ Seed[7] = Row(40, Condition(7000, 8500, Fissures, 1), "COLMATAGE", 365)
  /\ Seed[8] = Row(45, Condition(7000, 8500, AnyType, 0), "SURVEILLANCE", 365)
  /\ Seed[9] = Row(50, Condition(8500, MaxPci + 1, AnyType, 0), "SURVEILLANCE", 730)
BY DEF Seed

\* Its priorities, strategies and deadlines: the priorities ascend.
LEMMA SeedIsSorted ==
  /\ \A c \in 1..9 : Seed[c].active /\ Seed[c].strategy \in Strategies
  /\ \A c, d \in 1..9 : c < d => Before(Seed, c, d)
<1>1. \A p, condition, s, d : /\ Row(p, condition, s, d).priority = p
                              /\ Row(p, condition, s, d).active
                              /\ Row(p, condition, s, d).strategy = s
  BY DEF Row
<1>2. /\ Seed[1].priority = 10 /\ Seed[2].priority = 20 /\ Seed[3].priority = 25
      /\ Seed[4].priority = 30 /\ Seed[5].priority = 35 /\ Seed[6].priority = 39
      /\ Seed[7].priority = 40 /\ Seed[8].priority = 45 /\ Seed[9].priority = 50
  BY <1>1, SeedIsTable
<1>3. /\ Seed[1].active /\ Seed[2].active /\ Seed[3].active /\ Seed[4].active /\ Seed[5].active
      /\ Seed[6].active /\ Seed[7].active /\ Seed[8].active /\ Seed[9].active
  BY <1>1, SeedIsTable
<1>4. /\ Seed[1].strategy = "RECONSTRUCTION" /\ Seed[2].strategy = "REHABILITATION"
      /\ Seed[3].strategy = "RESURFACAGE" /\ Seed[4].strategy = "RESURFACAGE"
      /\ Seed[5].strategy = "COLMATAGE" /\ Seed[6].strategy = "COLMATAGE"
      /\ Seed[7].strategy = "COLMATAGE" /\ Seed[8].strategy = "SURVEILLANCE"
      /\ Seed[9].strategy = "SURVEILLANCE"
  BY <1>1, SeedIsTable
<1>5. \A c \in 1..9 : c = 1 \/ c = 2 \/ c = 3 \/ c = 4 \/ c = 5 \/ c = 6 \/ c = 7 \/ c = 8 \/ c = 9
  OBVIOUS
<1>6. \A c \in 1..9 : Seed[c].active /\ Seed[c].strategy \in Strategies
  BY <1>3, <1>4, <1>5 DEF Strategies
<1>7. \A c, d \in 1..9 : c < d => Seed[c].priority < Seed[d].priority
  BY <1>2, <1>5
<1> QED
  BY <1>6, <1>7 DEF Before

\* The rule that decides: by the score, then by the dominant type.
Ruling(x) ==
    IF x.pci < 4000 THEN 1
    ELSE IF x.pci < 5500
         THEN IF x.dominant \in {"POTHOLE", "ALLIGATOR_CRACK", "RUTTING"} THEN 2 ELSE 3
    ELSE IF x.pci < 7000
         THEN IF x.dominant \in {"RAVELLING", "RUTTING"} THEN 4
              ELSE IF x.dominant \in Fissures \cup {"ALLIGATOR_CRACK"} THEN 5 ELSE 6
    ELSE IF x.pci < 8500
         THEN IF x.dominant \in Fissures /\ x.detections >= 1 THEN 7 ELSE 8
    ELSE 9

\* The rules that apply to an analysis; no rule fails.
LEMMA SeedApplies ==
  ASSUME NEW x \in Analyses
  PROVE  /\ \A c \in 1..9 : Fault(Seed[c], x) = "none"
         /\ Applies(Seed[1], x) <=> x.pci < 4000
         /\ Applies(Seed[2], x) <=> /\ x.pci >= 4000 /\ x.pci < 5500
                                    /\ x.dominant \in {"POTHOLE", "ALLIGATOR_CRACK", "RUTTING"}
         /\ Applies(Seed[3], x) <=> x.pci >= 4000 /\ x.pci < 5500
         /\ Applies(Seed[4], x) <=> /\ x.pci >= 5500 /\ x.pci < 7000
                                    /\ x.dominant \in {"RAVELLING", "RUTTING"}
         /\ Applies(Seed[5], x) <=> /\ x.pci >= 5500 /\ x.pci < 7000
                                    /\ x.dominant \in Fissures \cup {"ALLIGATOR_CRACK"}
         /\ Applies(Seed[6], x) <=> x.pci >= 5500 /\ x.pci < 7000
         /\ Applies(Seed[7], x) <=> /\ x.pci >= 7000 /\ x.pci < 8500
                                    /\ x.dominant \in Fissures /\ x.detections >= 1
         /\ Applies(Seed[8], x) <=> x.pci >= 7000 /\ x.pci < 8500
         /\ Applies(Seed[9], x) <=> x.pci >= 8500
<1>1. MaxPci \in Nat
  BY DEF MaxPci
<1>2. /\ x.pci \in Int /\ x.pci >= 0 /\ x.pci < MaxPci + 1
      /\ x.dominant \in AnyType /\ x.detections \in Int /\ x.detections >= 0
  <2>1. x.pci \in 0..MaxPci /\ x.dominant \in AnyType /\ x.detections \in Nat
    BY DEF Analyses
  <2> QED
    BY <1>1, <2>1
<1>3. \A c \in 1..9 : Seed[c].condition # NotJson
  BY SeedAssumption, SeedIsTable
<1>4. ASSUME NEW c \in 1..9, NEW p, NEW min \in Int, NEW max \in Int, NEW types, NEW n \in Int,
             NEW s, NEW d, Seed[c] = Row(p, Condition(min, max, types, n), s, d)
      PROVE  /\ Fault(Seed[c], x) = "none"
             /\ Applies(Seed[c], x) <=> /\ x.pci >= min /\ x.pci < max
                                        /\ x.dominant \in types /\ x.detections >= n
  <2>1. Condition(min, max, types, n) # NotJson
    BY <1>3, <1>4 DEF Row
  <2> QED
    BY <1>4, <2>1, RowIsSound
<1>5. Fault(Seed[1], x) = "none" /\ (Applies(Seed[1], x) <=> x.pci < 4000)
  BY <1>2, <1>4, SeedIsTable
<1>6. /\ Fault(Seed[2], x) = "none"
      /\ Applies(Seed[2], x) <=> /\ x.pci >= 4000 /\ x.pci < 5500
                                 /\ x.dominant \in {"POTHOLE", "ALLIGATOR_CRACK", "RUTTING"}
  BY <1>2, <1>4, SeedIsTable
<1>7. Fault(Seed[3], x) = "none" /\ (Applies(Seed[3], x) <=> x.pci >= 4000 /\ x.pci < 5500)
  BY <1>2, <1>4, SeedIsTable
<1>8. /\ Fault(Seed[4], x) = "none"
      /\ Applies(Seed[4], x) <=> /\ x.pci >= 5500 /\ x.pci < 7000
                                 /\ x.dominant \in {"RAVELLING", "RUTTING"}
  BY <1>2, <1>4, SeedIsTable
<1>9. /\ Fault(Seed[5], x) = "none"
      /\ Applies(Seed[5], x) <=> /\ x.pci >= 5500 /\ x.pci < 7000
                                 /\ x.dominant \in Fissures \cup {"ALLIGATOR_CRACK"}
  BY <1>2, <1>4, SeedIsTable
<1>10. Fault(Seed[6], x) = "none" /\ (Applies(Seed[6], x) <=> x.pci >= 5500 /\ x.pci < 7000)
  BY <1>2, <1>4, SeedIsTable
<1>11. /\ Fault(Seed[7], x) = "none"
       /\ Applies(Seed[7], x) <=> /\ x.pci >= 7000 /\ x.pci < 8500
                                  /\ x.dominant \in Fissures /\ x.detections >= 1
  BY <1>2, <1>4, SeedIsTable
<1>12. Fault(Seed[8], x) = "none" /\ (Applies(Seed[8], x) <=> x.pci >= 7000 /\ x.pci < 8500)
  BY <1>2, <1>4, SeedIsTable
<1>13. Fault(Seed[9], x) = "none" /\ (Applies(Seed[9], x) <=> x.pci >= 8500)
  <2>1. MaxPci + 1 \in Int
    BY <1>1
  <2> QED
    BY <1>2, <1>4, <2>1, SeedIsTable
<1>14. \A c \in 1..9 : c = 1 \/ c = 2 \/ c = 3 \/ c = 4 \/ c = 5 \/ c = 6 \/ c = 7 \/ c = 8 \/ c = 9
  OBVIOUS
<1>15. \A c \in 1..9 : Fault(Seed[c], x) = "none"
  BY <1>5, <1>6, <1>7, <1>8, <1>9, <1>10, <1>11, <1>12, <1>13, <1>14
<1> QED
  BY <1>5, <1>6, <1>7, <1>8, <1>9, <1>10, <1>11, <1>12, <1>13, <1>15

\* The first rule that applies is the one that Ruling names.
LEMMA SeedDecides ==
  ASSUME NEW x \in Analyses
  PROVE  Ruling(x) \in 1..9 /\ First(Seed, x, Ruling(x))
<1>1. x.pci \in Int
  BY DEF Analyses
<1>2. Met(Seed, x) = {c \in 1..9 : Applies(Seed[c], x)}
  BY SeedIsTable, SeedIsSorted, SeedApplies DEF Met, Active
<1>3. Ruling(x) \in 1..9
  BY DEF Ruling
<1>4. /\ Applies(Seed[Ruling(x)], x)
      /\ \A d \in 1..9 : Applies(Seed[d], x) => d >= Ruling(x)
  <2> DEFINE A(c) == Applies(Seed[c], x)
  <2>1. /\ A(1) <=> x.pci < 4000
        /\ A(2) <=> /\ x.pci >= 4000 /\ x.pci < 5500
                    /\ x.dominant \in {"POTHOLE", "ALLIGATOR_CRACK", "RUTTING"}
        /\ A(3) <=> x.pci >= 4000 /\ x.pci < 5500
        /\ A(4) <=> /\ x.pci >= 5500 /\ x.pci < 7000
                    /\ x.dominant \in {"RAVELLING", "RUTTING"}
        /\ A(5) <=> /\ x.pci >= 5500 /\ x.pci < 7000
                    /\ x.dominant \in Fissures \cup {"ALLIGATOR_CRACK"}
        /\ A(6) <=> x.pci >= 5500 /\ x.pci < 7000
        /\ A(7) <=> /\ x.pci >= 7000 /\ x.pci < 8500
                    /\ x.dominant \in Fissures /\ x.detections >= 1
        /\ A(8) <=> x.pci >= 7000 /\ x.pci < 8500
        /\ A(9) <=> x.pci >= 8500
    BY SeedApplies
  <2>2. \A c \in 1..9 : c = 1 \/ c = 2 \/ c = 3 \/ c = 4 \/ c = 5 \/ c = 6 \/ c = 7 \/ c = 8 \/ c = 9
    OBVIOUS
  <2> HIDE DEF A
  <2>3. A(Ruling(x))
    BY <1>1, <2>1 DEF Ruling
  <2>4. \A d \in 1..9 : A(d) => d >= Ruling(x)
    <3> SUFFICES ASSUME NEW d \in 1..9, A(d) PROVE d >= Ruling(x)
      OBVIOUS
    <3> QED
      BY <1>1, <2>1, <2>2 DEF Ruling
  <2> QED
    BY <2>3, <2>4 DEF A
<1>5. ASSUME NEW d \in Met(Seed, x) PROVE d = Ruling(x) \/ Before(Seed, Ruling(x), d)
  <2>1. d \in 1..9 /\ (d = Ruling(x) \/ Ruling(x) < d)
    BY <1>2, <1>3, <1>4
  <2> QED
    BY <1>3, <2>1, SeedIsSorted
<1> QED
  BY <1>2, <1>3, <1>4, <1>5 DEF First

\* What the scan of the seed data ends with.
LEMMA SeedOutcome ==
  ASSUME Scanned, ctx \in Analyses, base = Seed, outcome # None
  PROVE  /\ Seed \in RuleBases
         /\ outcome.rule = Ruling(ctx) /\ outcome.result = Seed[Ruling(ctx)].strategy
<1>1. Seed \in RuleBases /\ FirstMatchWins
  BY DEF Scanned
<1>2. First(Seed, ctx, Ruling(ctx)) /\ Ruling(ctx) \in 1..9
  BY <1>1, SeedDecides
<1>3. Met(base, ctx) # {}
  BY <1>2 DEF First
<1>4. PICK c \in DOMAIN base :
         /\ First(base, ctx, c)
         /\ outcome = [rule |-> c, result |-> IF Applies(base[c], ctx) THEN base[c].strategy
                                             ELSE Fault(base[c], ctx)]
  BY <1>1, <1>3 DEF FirstMatchWins
<1>5. c = Ruling(ctx)
  BY <1>1, <1>2, <1>4, FirstIsUnique
<1>6. Applies(Seed[c], ctx)
  <2>1. Fault(Seed[c], ctx) = "none"
    BY <1>1, <1>2, <1>5, SeedApplies
  <2> QED
    BY <1>2, <1>5, <2>1 DEF First, Met
<1> QED
  BY <1>1, <1>4, <1>5, <1>6

\* The rules of the seed data have no gap: whatever the score, the dominant type and the
\* number of detections, one of them decides, and none fails.
THEOREM SeedHasNoGap == Spec => []SeedNeverFallsBack
<1>1. ScanInv => SeedNeverFallsBack
  <2> SUFFICES ASSUME ScanInv, base = Seed, outcome # None
               PROVE  outcome.result \in Strategies /\ outcome.rule # FALLBACK
    BY DEF SeedNeverFallsBack, Covers
  <2>1. /\ ctx \in Analyses /\ outcome.rule = Ruling(ctx)
        /\ outcome.result = Seed[Ruling(ctx)].strategy
    BY SeedOutcome, SeedAssumption DEF ScanInv
  <2>2. Ruling(ctx) \in 1..9
    BY <2>1, SeedDecides
  <2> QED
    BY <2>1, <2>2, SeedIsSorted, SeedAssumption
<1> QED
  BY <1>1, ScanInvariance, PTL

\* For one dominant type, the ruling on a worse score is no milder and no later.
LEMMA RulingsGetStricter ==
  ASSUME NEW x \in Analyses, NEW y \in Analyses, x.pci <= y.pci, x.dominant = y.dominant
  PROVE  /\ Severity[Seed[Ruling(x)].strategy] >= Severity[Seed[Ruling(y)].strategy]
         /\ Seed[Ruling(x)].deadline <= Seed[Ruling(y)].deadline
<1> DEFINE S(c) == Severity[Seed[c].strategy]
           D(c) == Seed[c].deadline
<1>1. \A p, condition, s, d : /\ Row(p, condition, s, d).strategy = s
                              /\ Row(p, condition, s, d).deadline = d
  BY DEF Row
<1>2. /\ Seed[1].strategy = "RECONSTRUCTION" /\ Seed[2].strategy = "REHABILITATION"
      /\ Seed[3].strategy = "RESURFACAGE" /\ Seed[4].strategy = "RESURFACAGE"
      /\ Seed[5].strategy = "COLMATAGE" /\ Seed[6].strategy = "COLMATAGE"
      /\ Seed[7].strategy = "COLMATAGE" /\ Seed[8].strategy = "SURVEILLANCE"
      /\ Seed[9].strategy = "SURVEILLANCE"
  BY <1>1, SeedIsTable
<1>3. /\ S(1) = 4 /\ S(2) = 3 /\ S(3) = 2 /\ S(4) = 2 /\ S(5) = 1 /\ S(6) = 1 /\ S(7) = 1
      /\ S(8) = 0 /\ S(9) = 0
  BY <1>2 DEF Severity
<1>4. /\ D(1) = 30 /\ D(2) = 60 /\ D(3) = 90 /\ D(4) = 180 /\ D(5) = 120 /\ D(6) = 180
      /\ D(7) = 365 /\ D(8) = 365 /\ D(9) = 730
  BY <1>1, SeedIsTable
<1>5. /\ x.pci \in Int /\ y.pci \in Int
      /\ x.dominant \in Fissures => x.detections >= 1
      /\ y.dominant \in Fissures => y.detections >= 1
  <2>1. NoType \notin Fissures
    BY SeedAssumption DEF Fissures, Types
  <2> QED
    BY <2>1 DEF Analyses
<1>6. /\ "POTHOLE" \notin Fissures /\ "ALLIGATOR_CRACK" \notin Fissures
      /\ "RUTTING" \notin Fissures /\ "RAVELLING" \notin Fissures
  BY DEF Fissures
<1> HIDE DEF S, D
<1>7. S(Ruling(x)) >= S(Ruling(y)) /\ D(Ruling(x)) <= D(Ruling(y))
  BY <1>3, <1>4, <1>5, <1>6 DEF Ruling
<1> QED
  BY <1>7 DEF S, D

\* The rule that Verdict names.
LEMMA VerdictIsRuling ==
  ASSUME NEW x \in Analyses, Seed \in RuleBases
  PROVE  Verdict(Seed, x) = Ruling(x) /\ Ruling(x) \in DOMAIN Seed
<1>1. Ruling(x) \in DOMAIN Seed /\ First(Seed, x, Ruling(x))
  BY SeedDecides, SeedIsTable
<1>2. \A c : First(Seed, x, c) => c = Ruling(x)
  BY <1>1, FirstIsUnique
<1> DEFINE met     == Met(Seed, x)
           Says(c) == \A d \in met : d = c \/ Before(Seed, c, d)
<1>3. Ruling(x) \in met /\ Says(Ruling(x)) /\ \A c \in met : Says(c) => c = Ruling(x)
  BY <1>1, <1>2 DEF First
<1>4. Verdict(Seed, x) = IF met = {} THEN FALLBACK ELSE CHOOSE c \in met : Says(c)
  BY DEF Verdict
<1> HIDE DEF met, Says
<1> QED
  BY <1>1, <1>3, <1>4

\* With the rules of the seed data, a road with a worse score and the same dominant type
\* never gets a milder strategy or a later deadline.
THEOREM SeedGetsStricter == Spec => []SeedWorseNeverMilder
<1>1. ScanInv => SeedWorseNeverMilder
  <2> SUFFICES ASSUME ScanInv, base = Seed, outcome # None, NEW x \in Contexts,
                      x.pci <= ctx.pci, x.dominant = ctx.dominant
               PROVE  /\ Verdict(Seed, x) \in DOMAIN Seed
                      /\ Severity[Seed[Verdict(Seed, x)].strategy] >= Severity[outcome.result]
                      /\ Seed[Verdict(Seed, x)].deadline <= Seed[outcome.rule].deadline
    BY DEF SeedWorseNeverMilder, WorseNeverMilder
  <2>1. /\ ctx \in Analyses /\ Seed \in RuleBases /\ outcome.rule = Ruling(ctx)
        /\ outcome.result = Seed[Ruling(ctx)].strategy
    BY SeedOutcome, SeedAssumption DEF ScanInv
  <2>2. x \in Analyses
    BY SeedAssumption
  <2>3. Verdict(Seed, x) = Ruling(x) /\ Ruling(x) \in DOMAIN Seed
    BY <2>1, <2>2, VerdictIsRuling
  <2> QED
    BY <2>1, <2>2, <2>3, RulingsGetStricter
<1> QED
  BY <1>1, ScanInvariance, PTL

-----------------------------------------------------------------------------
(***************************************************************************)
(* Some of the detections, in some order.                                  *)
(***************************************************************************)

\* e names n of the detections, each once.
Chosen(ds, n, e) == e \in Injection(1..n, DOMAIN ds)

\* They are detections as well.
LEMMA PartOfRows ==
  ASSUME NEW ds \in Seq(DetectionInput), NEW n \in Nat, NEW e, Chosen(ds, n, e)
  PROVE  /\ Part(ds, e) \in Seq(DetectionInput)
         /\ DOMAIN Part(ds, e) = 1..n /\ Len(Part(ds, e)) = n
         /\ \A k \in 1..n : e[k] \in DOMAIN ds /\ Part(ds, e)[k] = ds[e[k]]
         /\ \A j, k \in 1..n : e[j] = e[k] => j = k
<1>1. /\ DOMAIN e = 1..n
      /\ \A k \in 1..n : e[k] \in DOMAIN ds
      /\ \A j, k \in 1..n : e[j] = e[k] => j = k
  BY DEF Chosen, Injection, IsInjective
<1>2. \A k \in DOMAIN ds : ds[k] \in DetectionInput
  BY Rows
<1>3. Part(ds, e) = [k \in 1..n |-> ds[e[k]]]
  BY <1>1 DEF Part
<1>4. Part(ds, e) \in Seq(DetectionInput) /\ Len(Part(ds, e)) = n
  BY <1>1, <1>2, <1>3
<1> QED
  BY <1>1, <1>3, <1>4

\* The places, among all the detections, of those at the places P of the part.
From(e, P) == {e[k] : k \in P}

\* No two of them are the same.
Apart(e, P) == \A j, k \in P : e[j] = e[k] => j = k

\* es shows the detections of ds that are there.
Shows(es, ds, e, P) == \A k \in P : e[k] \in DOMAIN ds /\ es[k] = ds[e[k]]

\* There are as many of them.
LEMMA SizeMoved ==
  ASSUME NEW P, IsFiniteSet(P), NEW e, Apart(e, P)
  PROVE  Cardinality(From(e, P)) = Cardinality(P)
<1>1. Cardinality({e[k] : k \in P}) = Cardinality(P)
  BY FiniteImage DEF Apart
<1> QED
  BY <1>1 DEF From

\* A sum over them is a sum over the places P.
LEMMA SumMoved ==
  ASSUME NEW P, IsFiniteSet(P), NEW e, Apart(e, P),
         NEW f, f \in [From(e, P) -> Int], NEW c, c = [k \in P |-> f[e[k]]]
  PROVE  SumFunction(c) = SumFunction(f)
<1>1. f \in [{e[k] : k \in P} -> Int]
  BY DEF From
<1>2. SumFunction(f) = SumFunction([k \in P |-> f[e[k]]])
  BY <1>1, SumOfImage DEF Apart
<1> QED
  BY <1>2

\* What they add up to is what they add up to among all.
LEMMA MovedSums ==
  ASSUME NEW ds \in Seq(DetectionInput), NEW P, IsFiniteSet(P), NEW e, NEW es,
         Shows(es, ds, e, P), Apart(e, P)
  PROVE  /\ From(e, P) \in SUBSET DOMAIN ds
         /\ AreaOf(es, P) = AreaOf(ds, From(e, P))
         /\ SeverityOf(es, P) = SeverityOf(ds, From(e, P))
         /\ WeightedOf(es, P) = WeightedOf(ds, From(e, P))
<1> DEFINE Q == From(e, P)
<1>1. \A k \in P : e[k] \in DOMAIN ds /\ es[k] = ds[e[k]]
  BY DEF Shows
<1>2. Q \in SUBSET DOMAIN ds
  BY <1>1 DEF From
<1>3. \A k \in P : e[k] \in Q
  BY DEF From
<1>4. \A k \in DOMAIN ds : /\ ds[k].area \in Int /\ ds[k].severity \in Int
                           /\ ds[k].severity * ds[k].area \in Int
  <2>1. \A k \in DOMAIN ds : ds[k].area \in Nat /\ ds[k].severity \in Nat
    BY Rows
  <2>2. \A a, b \in Nat : a \in Int /\ b \in Int /\ b * a \in Int
    OBVIOUS
  <2> QED
    BY <2>1, <2>2
<1> HIDE DEF Q
<1>5. AreaOf(es, P) = AreaOf(ds, Q)
  <2> DEFINE f == [k \in Q |-> ds[k].area]
             c == [k \in P |-> es[k].area]
  <2>1. f \in [From(e, P) -> Int]
    BY <1>2, <1>4 DEF Q
  <2>2. c = [k \in P |-> f[e[k]]]
    BY <1>1, <1>3
  <2> HIDE DEF f, c
  <2>3. SumFunction(c) = SumFunction(f)
    BY <2>1, <2>2, SumMoved
  <2> QED
    BY <2>3 DEF AreaOf, f, c
<1>6. SeverityOf(es, P) = SeverityOf(ds, Q)
  <2> DEFINE f == [k \in Q |-> ds[k].severity]
             c == [k \in P |-> es[k].severity]
  <2>1. f \in [From(e, P) -> Int]
    BY <1>2, <1>4 DEF Q
  <2>2. c = [k \in P |-> f[e[k]]]
    BY <1>1, <1>3
  <2> HIDE DEF f, c
  <2>3. SumFunction(c) = SumFunction(f)
    BY <2>1, <2>2, SumMoved
  <2> QED
    BY <2>3 DEF SeverityOf, f, c
<1>7. WeightedOf(es, P) = WeightedOf(ds, Q)
  <2> DEFINE f == [k \in Q |-> ds[k].severity * ds[k].area]
             c == [k \in P |-> es[k].severity * es[k].area]
  <2>1. f \in [From(e, P) -> Int]
    BY <1>2, <1>4 DEF Q
  <2>2. c = [k \in P |-> f[e[k]]]
    BY <1>1, <1>3
  <2> HIDE DEF f, c
  <2>3. SumFunction(c) = SumFunction(f)
    BY <2>1, <2>2, SumMoved
  <2> QED
    BY <2>3 DEF WeightedOf, f, c
<1> QED
  BY <1>2, <1>5, <1>6, <1>7 DEF Q

\* The detections of a type, and those of a type on an image, are some of them.
LEMMA PartByType ==
  ASSUME NEW ds \in Seq(DetectionInput), NEW n \in Nat, NEW e, Chosen(ds, n, e),
         NEW c, NEW i, NEW es, es = Part(ds, e)
  PROVE  /\ OfType(es, c) \in SUBSET (1..n) /\ Here(es, c, i) \in SUBSET (1..n)
         /\ OfType(ds, c) \in SUBSET DOMAIN ds /\ Here(ds, c, i) \in SUBSET DOMAIN ds
         /\ From(e, OfType(es, c)) \in SUBSET OfType(ds, c)
         /\ From(e, Here(es, c, i)) \in SUBSET Here(ds, c, i)
<1>1. /\ DOMAIN es = 1..n
      /\ \A k \in 1..n : e[k] \in DOMAIN ds /\ es[k] = ds[e[k]]
  BY PartOfRows
<1> QED
  BY <1>1 DEF OfType, Here, From

\* The sums of some of the detections at the places P of a part are sums of detections.
LEMMA PartSums ==
  ASSUME NEW ds \in Seq(DetectionInput), NEW n \in Nat, NEW e, Chosen(ds, n, e),
         NEW P \in SUBSET (1..n), NEW es, es = Part(ds, e)
  PROVE  /\ From(e, P) \in SUBSET DOMAIN ds
         /\ Cardinality(From(e, P)) = Cardinality(P)
         /\ AreaOf(es, P) = AreaOf(ds, From(e, P))
         /\ SeverityOf(es, P) = SeverityOf(ds, From(e, P))
         /\ WeightedOf(es, P) = WeightedOf(ds, From(e, P))
<1>1. IsFiniteSet(P)
  <2>1. IsFiniteSet(1..n)
    BY FS_Interval
  <2> QED
    BY <2>1, FS_Subset
<1>2. Apart(e, P) /\ Shows(es, ds, e, P)
  <2>1. /\ \A k \in 1..n : e[k] \in DOMAIN ds /\ es[k] = ds[e[k]]
        /\ \A j, k \in 1..n : e[j] = e[k] => j = k
    BY PartOfRows
  <2> QED
    BY <2>1 DEF Apart, Shows
<1>3. Cardinality(From(e, P)) = Cardinality(P)
  BY <1>1, <1>2, SizeMoved
<1> QED
  BY <1>1, <1>2, <1>3, MovedSums

\* Part of the detections is at most the damage, and saturates no more images.
LEMMA PartIsLess ==
  ASSUME NEW ds \in Seq(DetectionInput), NEW n \in Nat, NEW e, Chosen(ds, n, e),
         NEW es, es = Part(ds, e)
  PROVE  /\ DamageOf(es) <= DamageOf(ds)
         /\ Unsaturated(ds) => Unsaturated(es)
<1>1. /\ es \in Seq(DetectionInput) /\ DOMAIN es = 1..n
      /\ \A k \in 1..n : e[k] \in DOMAIN ds /\ es[k] = ds[e[k]]
      /\ \A j, k \in 1..n : e[j] = e[k] => j = k
  BY PartOfRows
<1>2. DamageOf(es) <= DamageOf(ds)
  <2> DEFINE Q == From(e, 1..n)
             f == [r \in Q |-> Damage(ds)[r]]
  <2>1. /\ IntOn(Damage(ds), DOMAIN ds) /\ DamageOf(ds) = SumFunctionOnSet(Damage(ds), DOMAIN ds)
        /\ IsFiniteSet(DOMAIN ds) /\ IsFiniteSet(1..n)
    BY RowSums, Rows, FS_Interval
  <2>2. Q \in SUBSET DOMAIN ds
    BY <1>1 DEF From
  <2>3. SumFunction(f) = SumFunctionOnSet(Damage(ds), Q)
    <3> HIDE DEF Q
    <3> QED
      BY <2>1, <2>2, SumOfRestriction
  <2>4. \A k \in DOMAIN ds : Damage(ds)[k] \in Nat
    <3>1. \A a, b, d \in Nat : a * (b * d) \in Nat
      OBVIOUS
    <3> QED
      BY <3>1, Rows DEF Damage
  <2>5. SumFunctionOnSet(Damage(ds), Q) <= SumFunctionOnSet(Damage(ds), DOMAIN ds)
    <3> HIDE DEF Q
    <3> QED
      BY <2>1, <2>2, <2>4, SumOfPart
  <2>6. Damage(es) = [k \in 1..n |-> f[e[k]]]
    <3>1. \A k \in 1..n : e[k] \in Q /\ Damage(ds)[e[k]] = f[e[k]]
      BY DEF From
    <3>2. \A k \in 1..n : Damage(ds)[e[k]]
                           = Weight[ds[e[k]].code] * (ds[e[k]].severity * ds[e[k]].area)
      BY <1>1 DEF Damage
    <3> HIDE DEF f
    <3>3. Damage(es) = [k \in 1..n |-> Weight[es[k].code] * (es[k].severity * es[k].area)]
      BY <1>1 DEF Damage
    <3>4. \A k \in 1..n : Weight[es[k].code] * (es[k].severity * es[k].area) = f[e[k]]
      BY <1>1, <3>1, <3>2
    <3> QED
      BY <3>3, <3>4
  <2>7. SumFunction(f) = SumFunction(Damage(es))
    <3> DEFINE P == 1..n
    <3>1. f \in [From(e, P) -> Int]
      BY <2>2, <2>4
    <3>2. IsFiniteSet(P) /\ Apart(e, P)
      BY <1>1, <2>1 DEF Apart
    <3>3. Damage(es) = [k \in P |-> f[e[k]]]
      BY <2>6
    <3> HIDE DEF f, P
    <3> QED
      BY <3>1, <3>2, <3>3, SumMoved
  <2>8. DamageOf(es) = SumFunction(Damage(es))
    BY DEF DamageOf, Damage
  <2> HIDE DEF f, Q
  <2> QED
    BY <2>1, <2>3, <2>5, <2>7, <2>8
<1>3. ASSUME Unsaturated(ds), NEW c \in DOMAIN Weight, NEW i \in 1..Images
      PROVE  AreaOf(es, Here(es, c, i)) <= Unit
  <2> DEFINE P == Here(es, c, i)
             R == Here(ds, c, i)
  <2>1. /\ P \in SUBSET (1..n) /\ R \in SUBSET DOMAIN ds /\ From(e, P) \in SUBSET R
    BY PartByType
  <2>2. AreaOf(ds, R) <= Unit
    BY <1>3 DEF Unsaturated, Here
  <2> HIDE DEF P, R
  <2>3. AreaOf(es, P) = AreaOf(ds, From(e, P))
    BY <2>1, PartSums
  <2>4. /\ AreaOf(ds, From(e, P)) = SumFunctionOnSet(Area(ds), From(e, P))
        /\ AreaOf(ds, R) = SumFunctionOnSet(Area(ds), R)
        /\ AreaOf(ds, From(e, P)) \in Nat /\ AreaOf(ds, R) \in Nat
    BY <2>1, RowSums
  <2>5. IsFiniteSet(R) /\ \A k \in R : Area(ds)[k] \in Nat
    <3>1. IsFiniteSet(DOMAIN ds) /\ \A k \in DOMAIN ds : ds[k].area \in Nat
      BY Rows
    <3> QED
      BY <2>1, <3>1, FS_Subset DEF Area
  <2>6. SumFunctionOnSet(Area(ds), From(e, P)) <= SumFunctionOnSet(Area(ds), R)
    BY <2>1, <2>5, SumOfPart
  <2>7. Unit \in Nat
    BY PciAssumption
  <2> QED
    BY <2>2, <2>3, <2>4, <2>6, <2>7 DEF P
<1> QED
  BY <1>2, <1>3 DEF Unsaturated, Here

\* All of the detections, in another order, are the same detections of every type and
\* on every image.
LEMMA OrderByType ==
  ASSUME NEW ds \in Seq(DetectionInput), NEW n, n = Len(ds), NEW e, Chosen(ds, n, e),
         DOMAIN ds \in SUBSET From(e, 1..n), NEW c, NEW i, NEW es, es = Part(ds, e)
  PROVE  /\ OfType(es, c) \in SUBSET (1..n) /\ Here(es, c, i) \in SUBSET (1..n)
         /\ From(e, OfType(es, c)) = OfType(ds, c)
         /\ From(e, Here(es, c, i)) = Here(ds, c, i)
<1>1. n \in Nat
  BY Rows
<1>2. /\ DOMAIN es = 1..n
      /\ \A k \in 1..n : e[k] \in DOMAIN ds /\ es[k] = ds[e[k]]
  BY <1>1, PartOfRows
<1>3. \A r \in DOMAIN ds : \E k \in 1..n : r = e[k]
  BY DEF From
<1>4. /\ From(e, OfType(es, c)) \in SUBSET OfType(ds, c)
      /\ From(e, Here(es, c, i)) \in SUBSET Here(ds, c, i)
      /\ OfType(es, c) \in SUBSET (1..n) /\ Here(es, c, i) \in SUBSET (1..n)
  BY <1>1, PartByType
<1>5. ASSUME NEW r \in OfType(ds, c) PROVE r \in From(e, OfType(es, c))
  <2>1. PICK k \in 1..n : r = e[k]
    BY <1>3 DEF OfType
  <2> QED
    BY <1>2, <2>1 DEF OfType, From
<1>6. ASSUME NEW r \in Here(ds, c, i) PROVE r \in From(e, Here(es, c, i))
  <2>1. PICK k \in 1..n : r = e[k]
    BY <1>3 DEF OfType, Here
  <2> QED
    BY <1>2, <2>1 DEF OfType, Here, From
<1> QED
  BY <1>4, <1>5, <1>6

\* What a type takes from the score is the same in any order.
LEMMA OrderOfDeduction ==
  ASSUME NEW ds \in Seq(DetectionInput), NEW n, n = Len(ds), NEW e, Chosen(ds, n, e),
         DOMAIN ds \in SUBSET From(e, 1..n), NEW c, NEW es, es = Part(ds, e)
  PROVE  Deduction(es, c) = Deduction(ds, c)
<1>1. n \in Nat
  BY Rows
<1>2. es \in Seq(DetectionInput)
  BY <1>1, PartOfRows
<1> DEFINE P == OfType(es, c)
           T == OfType(ds, c)
<1>3. P \in SUBSET (1..n) /\ From(e, P) = T
  BY OrderByType
<1>4. /\ Cardinality(P) = Cardinality(T) /\ AreaOf(es, P) = AreaOf(ds, T)
      /\ SeverityOf(es, P) = SeverityOf(ds, T) /\ WeightedOf(es, P) = WeightedOf(ds, T)
  <2> HIDE DEF P, T
  <2> QED
    BY <1>1, <1>3, PartSums
<1>5. MeanSeverity(es, c) = MeanSeverity(ds, c)
  BY <1>4 DEF MeanSeverity
<1>6. \A i \in 1..Images : PerImage(es, c, i)[Len(es)] = PerImage(ds, c, i)[Len(ds)]
  <2> SUFFICES ASSUME NEW i \in 1..Images
               PROVE  PerImage(es, c, i)[Len(es)] = PerImage(ds, c, i)[Len(ds)]
    OBVIOUS
  <2>1. Here(es, c, i) \in SUBSET (1..n) /\ From(e, Here(es, c, i)) = Here(ds, c, i)
    BY OrderByType
  <2>2. AreaOf(es, Here(es, c, i)) = AreaOf(ds, Here(ds, c, i))
    BY <1>1, <2>1, PartSums
  <2> QED
    BY <1>2, <2>2, DamageOfImage
<1>7. Density(es, c) = Density(ds, c)
  <2>1. [i \in 1..Images |-> PerImage(es, c, i)[Len(es)]]
          = [i \in 1..Images |-> PerImage(ds, c, i)[Len(ds)]]
    BY <1>6
  <2> QED
    BY <2>1 DEF Density
<1> QED
  BY <1>5, <1>7 DEF Deduction

\* So is the index.
LEMMA OrderOfIndex ==
  ASSUME NEW ds \in Seq(DetectionInput), NEW n, n = Len(ds), NEW e, Chosen(ds, n, e),
         DOMAIN ds \in SUBSET From(e, 1..n), NEW es, es = Part(ds, e)
  PROVE  /\ Codes(es) = Codes(ds)
         /\ ComputePci(es) = ComputePci(ds)
         /\ \A c : Breakdown(es, c) = Breakdown(ds, c)
<1>1. n \in Nat
  BY Rows
<1>2. /\ DOMAIN es = 1..n
      /\ \A k \in 1..n : e[k] \in DOMAIN ds /\ es[k] = ds[e[k]]
  BY <1>1, PartOfRows
<1>3. Codes(es) = Codes(ds)
  <2>1. \A r \in DOMAIN ds : \E k \in 1..n : r = e[k]
    BY DEF From
  <2> QED
    BY <1>2, <2>1 DEF Codes
<1>4. \A c : Deduction(es, c) = Deduction(ds, c)
  BY OrderOfDeduction
<1>5. TotalDeduction(es) = TotalDeduction(ds)
  <2>1. [c \in Codes(es) |-> Deduction(es, c)] = [c \in Codes(ds) |-> Deduction(ds, c)]
    BY <1>3, <1>4
  <2> QED
    BY <2>1 DEF TotalDeduction
<1>6. Score(es) = Score(ds)
  BY <1>5 DEF Score
<1> QED
  BY <1>3, <1>4, <1>6 DEF ComputePci, Breakdown

-----------------------------------------------------------------------------
(***************************************************************************)
(* The dominant type.                                                      *)
(***************************************************************************)

\* The deductions of the breakdown are natural numbers.
LEMMA BreakdownInNat ==
  ASSUME NEW ds \in Seq(DetectionInput), NEW c \in Codes(ds)
  PROVE  Breakdown(ds, c) \in Nat
<1> DEFINE t == Deduction(ds, c)
           a == t[1]
           b == t[2] * (Unit * Unit)
<1>1. a \in Nat /\ b \in Nat \ {0}
  <2>1. t[1] \in Nat /\ t[2] \in Nat /\ t[2] > 0
    BY DeductionOfType DEF Fractions
  <2>2. Unit \in Nat /\ Unit > 0
    BY PciAssumption
  <2>3. \A u, v \in Nat : (u > 0 /\ v > 0) => u * v \in Nat /\ u * v > 0
    OBVIOUS
  <2>4. Unit * Unit \in Nat /\ Unit * Unit > 0
    BY <2>2, <2>3
  <2> HIDE DEF t
  <2> QED
    BY <2>1, <2>3, <2>4
<1> HIDE DEF a, b
<1>2. a \div b \in Nat /\ 10000 * (a % b) \in Nat
  BY <1>1, Division
<1>3. (10000 * (a % b)) \div b \in Nat /\ 10000 * (a \div b) \in Nat
  <2> DEFINE p == 10000 * (a % b)
  <2> HIDE DEF p
  <2>1. p \div b \in Nat
    BY <1>1, <1>2, Division DEF p
  <2> QED
    BY <1>2, <2>1 DEF p
<1>4. Round4(<<a, b>>) \in Nat
  BY <1>3 DEF Round4
<1> QED
  BY <1>4 DEF Breakdown, a, b

\* The item of c comes before that of d.
Dominates(ds, c, d) == Precedes(<<c, Breakdown(ds, c)>>, <<d, Breakdown(ds, d)>>)

\* There is one type that comes before all.
LEMMA DominantIsUnique ==
  ASSUME NEW ds \in Seq(DetectionInput), NEW c \in Codes(ds), NEW d \in Codes(ds),
         Dominates(ds, c, d), Dominates(ds, d, c)
  PROVE  c = d
<1>1. Breakdown(ds, c) \in Nat /\ Breakdown(ds, d) \in Nat
  BY BreakdownInNat
<1>2. c \in DOMAIN Weight /\ d \in DOMAIN Weight
  BY DeductionOfType
<1>3. Rank[c] \in Nat /\ Rank[d] \in Nat
  BY <1>2, AssessmentAssumption
<1>4. Rank[c] = Rank[d]
  BY <1>1, <1>3 DEF Dominates, Precedes
<1> QED
  BY <1>2, <1>4, AssessmentAssumption

\* The dominant type is the type of a detection, and comes before all others.
LEMMA DominantIsFirst ==
  ASSUME NEW ds \in Seq(DetectionInput), ds # << >>
  PROVE  /\ Dominant(ds) \in Codes(ds)
         /\ \A d \in Codes(ds) : Dominates(ds, Dominant(ds), d)
<1> DEFINE C == Codes(ds)
           Good == {T \in SUBSET C : T = {} \/ \E c \in T : \A d \in T : Dominates(ds, c, d)}
<1>1. IsFiniteSet(C)
  BY DamageByType
<1>2. \A c \in C : Breakdown(ds, c) \in Nat /\ Rank[c] \in Nat
  BY BreakdownInNat, DeductionOfType, AssessmentAssumption
<1>3. C # {}
  <2>1. 1 \in DOMAIN ds
    OBVIOUS
  <2> QED
    BY <2>1 DEF Codes
<1>4. /\ \A c \in C : Dominates(ds, c, c)
      /\ \A c, d \in C : Dominates(ds, c, d) \/ Dominates(ds, d, c)
      /\ \A b, c, d \in C : Dominates(ds, b, c) /\ Dominates(ds, c, d) => Dominates(ds, b, d)
  <2> HIDE DEF C
  <2> QED
    BY <1>2 DEF Dominates, Precedes
<1>5. ASSUME NEW T \in Good, NEW x \in C \ T PROVE T \cup {x} \in Good
  <2> HIDE DEF C
  <2>1. CASE T = {}
    BY <1>4, <2>1
  <2>2. CASE T # {}
    <3>1. PICK c \in T : \A d \in T : Dominates(ds, c, d)
      BY <2>2
    <3>2. T \cup {x} \in SUBSET C /\ c \in C
      OBVIOUS
    <3>3. CASE Dominates(ds, c, x)
      <4>1. \A d \in T \cup {x} : Dominates(ds, c, d)
        BY <3>1, <3>3
      <4> QED
        BY <3>2, <4>1
    <3>4. CASE Dominates(ds, x, c)
      <4>1. \A d \in T \cup {x} : Dominates(ds, x, d)
        BY <1>4, <3>1, <3>2, <3>4
      <4> QED
        BY <3>2, <4>1
    <3> QED
      BY <1>4, <3>2, <3>3, <3>4
  <2> QED
    BY <2>1, <2>2
<1>6. C \in Good
  <2>1. Good \in SUBSET SUBSET C /\ {} \in Good
    OBVIOUS
  <2> HIDE DEF Good, C
  <2> QED
    BY <1>1, <1>5, <2>1, FiniteInduction
<1>7. PICK c \in C : \A d \in C : Dominates(ds, c, d)
  BY <1>3, <1>6
<1> DEFINE x == CHOOSE x \in Items(ds) : \A y \in Items(ds) : Precedes(x, y)
<1>8. x \in Items(ds) /\ \A y \in Items(ds) : Precedes(x, y)
  <2>1. <<c, Breakdown(ds, c)>> \in Items(ds)
    BY DEF Items
  <2>2. \A y \in Items(ds) : Precedes(<<c, Breakdown(ds, c)>>, y)
    BY <1>7 DEF Items, Dominates
  <2> QED
    BY <2>1, <2>2
<1>9. Dominant(ds) = x[1]
  BY DEF Dominant
<1> HIDE DEF x
<1>10. PICK d \in Codes(ds) : x = <<d, Breakdown(ds, d)>>
  BY <1>8 DEF Items
<1>11. \A y \in Codes(ds) : Dominates(ds, d, y)
  BY <1>8, <1>10 DEF Items, Dominates
<1> QED
  BY <1>9, <1>10, <1>11

\* What the rules see does not depend on the order of the detections.
LEMMA OrderOfFacts ==
  ASSUME NEW ds \in Seq(DetectionInput), NEW e, e \in Bijection(DOMAIN ds, DOMAIN ds)
  PROVE  FactsOf(Part(ds, e)) = FactsOf(ds)
<1> DEFINE n  == Len(ds)
           es == Part(ds, e)
<1>1. n \in Nat /\ DOMAIN ds = 1..n
  BY Rows
<1>2. Chosen(ds, n, e)
  BY <1>1 DEF Bijection, Chosen
<1>3. DOMAIN ds \in SUBSET From(e, 1..n)
  <2>1. \A r \in DOMAIN ds : \E k \in DOMAIN ds : e[k] = r
    BY DEF Bijection, Surjection
  <2> QED
    BY <1>1, <2>1 DEF From
<1> HIDE DEF n
<1>4. es \in Seq(DetectionInput) /\ Len(es) = n
  BY <1>1, <1>2, PartOfRows
<1> HIDE DEF es
<1>5. /\ Codes(es) = Codes(ds)
      /\ ComputePci(es) = ComputePci(ds)
      /\ \A c : Breakdown(es, c) = Breakdown(ds, c)
  BY <1>2, <1>3, OrderOfIndex DEF n, es
<1>6. Dominant(es) = Dominant(ds)
  <2>1. es = << >> <=> ds = << >>
    BY <1>4 DEF n
  <2>2. ASSUME ds # << >> PROVE Dominant(es) = Dominant(ds)
    <3>1. /\ Dominant(es) \in Codes(es) /\ \A d \in Codes(es) : Dominates(es, Dominant(es), d)
          /\ Dominant(ds) \in Codes(ds) /\ \A d \in Codes(ds) : Dominates(ds, Dominant(ds), d)
      BY <1>4, <2>1, <2>2, DominantIsFirst
    <3>2. \A c, d : Dominates(es, c, d) = Dominates(ds, c, d)
      BY <1>5 DEF Dominates
    <3>3. /\ Dominant(es) \in Codes(ds)
          /\ Dominates(ds, Dominant(es), Dominant(ds)) /\ Dominates(ds, Dominant(ds), Dominant(es))
      BY <1>5, <3>1, <3>2
    <3> QED
      BY <3>1, <3>3, DominantIsUnique
  <2>3. ASSUME ds = << >> PROVE Dominant(es) = Dominant(ds)
    BY <2>1, <2>3 DEF Dominant
  <2> QED
    BY <2>2, <2>3
<1> QED
  BY <1>4, <1>5, <1>6 DEF FactsOf, n, es

\* A stored score is at most 100.
LEMMA ScoreIsBounded ==
  ASSUME NEW ds \in Seq(DetectionInput)
  PROVE  Score(ds) \in Fractions /\ Round2(Score(ds)) \in 0..MaxPci
<1>1. Score(ds) \in Fractions /\ TotalDeduction(ds) \in Fractions
  BY TotalOfTypes, ScoreIsFraction
<1>2. Score(ds)[1] <= 100 * Score(ds)[2]
  <2> DEFINE a == TotalDeduction(ds)[1]
             w == TotalDeduction(ds)[2] * Unit * Unit
  <2>1. a \in Nat /\ w \in Nat
    <3>1. /\ TotalDeduction(ds)[1] \in Nat /\ TotalDeduction(ds)[2] \in Nat /\ Unit \in Nat
      BY <1>1, PciAssumption DEF Fractions
    <3>2. \A u, v \in Nat : u * v \in Nat
      OBVIOUS
    <3> QED
      BY <3>1, <3>2
  <2>2. Score(ds) = IF a >= 100 * w THEN <<0, 1>> ELSE <<100 * w - a, w>>
    BY DEF Score
  <2> HIDE DEF a, w
  <2> QED
    BY <2>1, <2>2
<1>3. <<100, 1>> \in Fractions /\ <<100, 1>>[1] = 100 /\ <<100, 1>>[2] = 1
  BY DEF Fractions
<1>4. Score(ds)[1] * 1 <= 100 * Score(ds)[2]
  BY <1>1, <1>2 DEF Fractions
<1>5. Round2(Score(ds)) <= Round2(<<100, 1>>)
  BY <1>1, <1>3, <1>4, Round2IsMonotone
<1>6. Round2(<<100, 1>>) = MaxPci /\ MaxPci \in Nat
  BY DEF Round2, MaxPci
<1>7. Round2(Score(ds)) \in Nat
  BY <1>1, Round2IsNearest
<1>8. \A r, m \in Nat : r <= m => r \in 0..m
  OBVIOUS
<1> QED
  BY <1>1, <1>5, <1>6, <1>7, <1>8

\* What is stored is the facts of an analysis, as the rules expect them.
LEMMA FactsAreAnalysis ==
  ASSUME NEW ds \in Seq(DetectionInput)
  PROVE  FactsOf(ds) \in Analyses
<1> DEFINE q == Score(ds)
           x == FactsOf(ds)
<1>1. q \in Fractions /\ Round2(q) \in 0..MaxPci
  BY ScoreIsBounded
<1>2. ClassifySeverity(q) \in Severities /\ ClassifyPriority(q) \in Priorities
  <2> HIDE DEF q
  <2>1. /\ AtLeast(q, 85) => AtLeast(q, 70)
        /\ AtLeast(q, 70) => AtLeast(q, 55)
        /\ AtLeast(q, 55) => AtLeast(q, 40)
    BY <1>1 DEF AtLeast, Fractions
  <2> QED
    BY <2>1 DEF ClassifySeverity, ClassifyPriority, Severities, Priorities
<1>3. Len(ds) \in Nat /\ (ds # << >> => Len(ds) >= 1)
  OBVIOUS
<1>4. /\ Dominant(ds) \in AnyType
      /\ Dominant(ds) # NoType => ds # << >>
  <2>1. CASE ds = << >>
    BY <2>1 DEF Dominant, AnyType
  <2>2. CASE ds # << >>
    <3>1. Dominant(ds) \in Codes(ds)
      BY <2>2, DominantIsFirst
    <3>2. Dominant(ds) \in DOMAIN Weight
      BY <3>1, DeductionOfType
    <3> QED
      BY <2>2, <3>2, AssessmentAssumption DEF AnyType
  <2> QED
    BY <2>1, <2>2
<1>5. /\ x = [pci |-> Round2(q), severity |-> ClassifySeverity(q),
              priority |-> ClassifyPriority(q), dominant |-> Dominant(ds), detections |-> Len(ds)]
  BY DEF FactsOf, ComputePci
<1> HIDE DEF q, x
<1>6. x.dominant # NoType => x.detections >= 1
  BY <1>3, <1>4, <1>5
<1>7. x \in [pci : 0..MaxPci, severity : Severities, priority : Priorities,
             dominant : AnyType, detections : Nat]
  BY <1>1, <1>2, <1>3, <1>4, <1>5
<1> QED
  BY <1>6, <1>7 DEF Analyses, x

-----------------------------------------------------------------------------
(***************************************************************************)
(* The whole of an assessment.                                             *)
(***************************************************************************)

\* A detection is within the ranges that compute_pci insists on, as in PciEngine.
LEMMA CollectKeepsRange ==
  ASSUME InputsInRange, Detect
  PROVE  InputsInRange'
<1>1. PICK d \in DetectionInput : detections' = Append(detections, d)
  BY StepAppends DEF PciNext
<1> QED
  BY <1>1 DEF InputsInRange

\* Nothing is stored, read or evaluated at the start.
LEMMA AssessStart == AssessInit => AssessInv
<1> SUFFICES ASSUME AssessInit PROVE AssessInv
  OBVIOUS
<1>1. InputsInRange
  BY DEF AssessInit, PciInit, InputsInRange
<1> QED
  BY <1>1 DEF AssessInit, AssessInv

\* Every step of the assessment preserves the invariant.
LEMMA AssessStep == AssessInv /\ [AssessNext]_allVars => AssessInv'
<1> SUFFICES ASSUME AssessInv, [AssessNext]_allVars
             PROVE  AssessInv'
  OBVIOUS
<1>1. FactsOf(detections) # None
  BY FactsAreAnalysis, AssessmentAssumption DEF AssessInv, InputsInRange
<1>2. CASE Collect
  <2>1. analysis = None /\ ctx = None /\ UNCHANGED <<analysis, base, ctx, seen, outcome>>
    BY <1>2 DEF Collect, AssessInv, vars
  <2>2. InputsInRange'
    BY <1>2, CollectKeepsRange DEF Collect, AssessInv
  <2> QED
    BY <2>1, <2>2 DEF AssessInv
<1>3. CASE Save
  <2>1. /\ ctx = None /\ analysis' = FactsOf(detections)
        /\ UNCHANGED <<detections, base, ctx, seen, outcome>>
    BY <1>3 DEF Save, AssessInv, vars
  <2> QED
    BY <2>1 DEF AssessInv, InputsInRange
<1>4. CASE Generate
  <2>1. /\ analysis # None /\ ctx = None /\ base' \in RuleBases /\ ctx' = analysis
        /\ UNCHANGED <<detections, analysis, seen, outcome>>
    BY <1>4 DEF Generate
  <2>2. seen = {} /\ outcome = None
    BY <2>1 DEF AssessInv
  <2>3. Scanned'
    BY <2>1, <2>2 DEF Scanned, FirstMatchWins
  <2> QED
    BY <2>1, <2>3 DEF AssessInv, InputsInRange
<1>5. CASE Scan
  <2>1. ctx # None /\ Next /\ UNCHANGED <<detections, analysis>>
    BY <1>5 DEF Scan
  <2>2. Scanned' /\ ctx' = ctx
    BY <2>1, ScanStep DEF AssessInv
  <2> QED
    BY <2>1, <2>2 DEF AssessInv, InputsInRange
<1>6. CASE UNCHANGED allVars
  <2>1. UNCHANGED <<detections, analysis, base, ctx, seen, outcome>>
    BY <1>6 DEF allVars, vars
  <2>2. ctx # None => Scanned'
    BY <2>1, ScanStep DEF AssessInv, vars
  <2> QED
    BY <2>1, <2>2 DEF AssessInv, InputsInRange
<1> QED
  BY <1>2, <1>3, <1>4, <1>5, <1>6 DEF AssessNext

\* What the rules are evaluated on is the stored analysis of the detections.
THEOREM AssessInvariance == AssessSpec => []AssessInv
<1> QED
  BY AssessStart, AssessStep, PTL DEF AssessSpec

\* The detections are collected as in PciEngine: what is proved of the index there holds
\* throughout an assessment.
THEOREM IndexOfAssessment == AssessSpec => PciSpec
<1>1. AssessInit => PciInit
  BY DEF AssessInit
<1>2. [AssessNext]_allVars => [PciNext]_detections
  BY DEF AssessNext, Collect, Save, Generate, Scan, PciNext, allVars
<1> QED
  BY <1>1, <1>2, PTL DEF AssessSpec, PciSpec

\* What is stored does not depend on the order in which the images are read.
THEOREM AnalysisIsReproducible == AssessSpec => Reproducible
<1>1. ASSUME AssessInv, Save,
             NEW e \in Bijection(DOMAIN detections, DOMAIN detections)
      PROVE  analysis' = FactsOf(Part(detections, e))
  <2>1. analysis' = FactsOf(detections) /\ detections \in Seq(DetectionInput)
    BY <1>1 DEF Save, AssessInv, InputsInRange
  <2> QED
    BY <2>1, OrderOfFacts
<1>2. AssessInv =>
        [Save => \A e \in Bijection(DOMAIN detections, DOMAIN detections) :
                    analysis' = FactsOf(Part(detections, e))]_allVars
  BY <1>1
<1> QED
  BY <1>2, AssessInvariance, PTL DEF AssessSpec, Reproducible

\* Once a rule of the seed data has decided: on which facts, and which rule.
LEMMA Decided ==
  ASSUME AssessInv, base = Seed, outcome # None
  PROVE  /\ detections \in Seq(DetectionInput)
         /\ analysis = FactsOf(detections) /\ analysis \in Analyses /\ Seed \in RuleBases
         /\ outcome.rule = Ruling(analysis) /\ Ruling(analysis) \in DOMAIN Seed
         /\ outcome.result = Seed[Ruling(analysis)].strategy
<1>1. ctx # None /\ ctx = analysis /\ Scanned
  BY DEF AssessInv
<1>2. detections \in Seq(DetectionInput) /\ analysis = FactsOf(detections)
  BY <1>1 DEF AssessInv, InputsInRange
<1>3. analysis \in Analyses
  BY <1>2, FactsAreAnalysis
<1>4. /\ Seed \in RuleBases
      /\ outcome.rule = Ruling(ctx) /\ outcome.result = Seed[Ruling(ctx)].strategy
  BY <1>1, <1>3, SeedOutcome
<1>5. Ruling(analysis) \in DOMAIN Seed
  BY <1>3, SeedDecides, SeedIsTable
<1> QED
  BY <1>1, <1>2, <1>3, <1>4, <1>5

\* The lower bounds of the rules of the seed data.
LEMMA SeedBounds ==
  /\ Seed[1].condition.min = 0
  /\ Seed[2].condition.min = 4000 /\ Seed[3].condition.min = 4000
  /\ Seed[4].condition.min = 5500 /\ Seed[5].condition.min = 5500
  /\ Seed[6].condition.min = 5500
  /\ Seed[7].condition.min = 7000 /\ Seed[8].condition.min = 7000
  /\ Seed[9].condition.min = 8500
<1>1. \A p, min, max, types, n, s, d : Row(p, Condition(min, max, types, n), s, d).condition.min = min
  BY DEF Row, Condition
<1> QED
  BY <1>1, SeedIsTable

\* The rule that decides is one for the class of the stored priority, but for rounding.
THEOREM RulesAgreeWithClasses == AssessSpec => []BandsAgree
<1>1. AssessInv => BandsAgree
  <2> SUFFICES ASSUME AssessInv, base = Seed, outcome # None
               PROVE  LET min   == Seed[outcome.rule].condition.min
                          class == analysis.priority
                      IN  /\ outcome.rule \in DOMAIN Seed
                          /\ \/ min = 100 * Threshold[class]
                             \/ min > 100 * Threshold[class] /\ analysis.pci = min
    BY DEF BandsAgree
  <2> DEFINE q == Score(detections)
             r == analysis.pci
             p == analysis.priority
             m == Seed[Ruling(analysis)].condition.min
  <2>1. /\ detections \in Seq(DetectionInput) /\ analysis = FactsOf(detections)
        /\ analysis \in Analyses /\ outcome.rule = Ruling(analysis)
        /\ Ruling(analysis) \in DOMAIN Seed
    BY Decided
  <2>2. r = Round2(q) /\ p = ClassifyPriority(q) /\ q \in Fractions
    BY <2>1, ScoreIsBounded DEF FactsOf, ComputePci
  <2>3. r \in Nat
    BY <2>2, Round2IsNearest
  <2> HIDE DEF q, r, p
  <2>4. /\ p \in DOMAIN Threshold /\ r >= 100 * Threshold[p]
        /\ \A u \in DOMAIN Threshold : Threshold[u] > Threshold[p] => r <= 100 * Threshold[u]
    BY <2>2, ClassOfScore
  <2>5. /\ m = 0 => r < 4000
        /\ m \in {0, 4000, 5500, 7000, 8500}
        /\ m = 4000 => r >= 4000 /\ r < 5500
        /\ m = 5500 => r >= 5500 /\ r < 7000
        /\ m = 7000 => r >= 7000 /\ r < 8500
        /\ m = 8500 => r >= 8500
    BY <2>3, SeedBounds DEF Ruling, r
  <2> HIDE DEF m
  <2>6. /\ DOMAIN Threshold = {"P4_EXCELLENT", "P3_SURVEILLANCE", "P2_PLANIFIE", "P1_URGENT",
                               "P0_CRITIQUE"}
        /\ Threshold["P4_EXCELLENT"] = 85 /\ Threshold["P3_SURVEILLANCE"] = 70
        /\ Threshold["P2_PLANIFIE"] = 55 /\ Threshold["P1_URGENT"] = 40
        /\ Threshold["P0_CRITIQUE"] = 0
    BY DEF Threshold
  <2>7. m = 100 * Threshold[p] \/ (m > 100 * Threshold[p] /\ r = m)
    BY <2>3, <2>4, <2>5, <2>6
  <2> QED
    BY <2>1, <2>7 DEF m, p, r
<1> QED
  BY <1>1, AssessInvariance, PTL

\* With some of the detections missed, the works are no stricter and no sooner, as long
\* as no image is saturated and the dominant type stays.
THEOREM MoreDamageIsStricter == AssessSpec => []MoreDamageNeverMilder
<1>1. AssessInv => MoreDamageNeverMilder
  <2> SUFFICES ASSUME AssessInv, base = Seed, outcome # None, Unsaturated(detections),
                      NEW n \in 0..Len(detections), NEW e, Chosen(detections, n, e),
                      FactsOf(Part(detections, e)).dominant = analysis.dominant
               PROVE  LET rule == Seed[Verdict(Seed, FactsOf(Part(detections, e)))]
                      IN  /\ Severity[rule.strategy] <= Severity[outcome.result]
                          /\ Seed[outcome.rule].deadline <= rule.deadline
    <3>1. \A m : \A r \in Selections(detections, m) : Chosen(detections, m, r)
      BY DEF Selections, Chosen
    <3> QED
      BY <3>1 DEF MoreDamageNeverMilder
  <2> DEFINE es == Part(detections, e)
             y  == FactsOf(es)
  <2>1. /\ detections \in Seq(DetectionInput) /\ analysis = FactsOf(detections)
        /\ analysis \in Analyses /\ Seed \in RuleBases
        /\ outcome.rule = Ruling(analysis) /\ outcome.result = Seed[Ruling(analysis)].strategy
    BY Decided
  <2>2. n \in Nat
    OBVIOUS
  <2>3. es \in Seq(DetectionInput)
    BY <2>1, <2>2, PartOfRows
  <2>4. DamageOf(es) <= DamageOf(detections) /\ Unsaturated(es)
    BY <2>1, <2>2, PartIsLess
  <2>5. y.pci = ComputePci(es).score /\ analysis.pci = ComputePci(detections).score
    BY <2>1 DEF FactsOf
  <2> HIDE DEF es
  <2>6. analysis.pci <= y.pci
    BY <2>1, <2>3, <2>4, <2>5, LessDamageScores
  <2>7. y \in Analyses
    BY <2>3, FactsAreAnalysis
  <2>8. y.dominant = analysis.dominant
    BY DEF es
  <2> HIDE DEF y
  <2>9. Verdict(Seed, y) = Ruling(y)
    BY <2>1, <2>7, VerdictIsRuling
  <2>10. /\ Severity[Seed[Ruling(analysis)].strategy] >= Severity[Seed[Ruling(y)].strategy]
         /\ Seed[Ruling(analysis)].deadline <= Seed[Ruling(y)].deadline
    BY <2>1, <2>6, <2>7, <2>8, RulingsGetStricter
  <2> QED
    BY <2>1, <2>9, <2>10 DEF y, es
<1> QED
  BY <1>1, AssessInvariance, PTL
=============================================================================
