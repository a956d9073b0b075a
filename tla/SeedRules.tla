----------------------------- MODULE SeedRules -----------------------------
(***************************************************************************)
(* The rules of the seed data, R010 to R050 in the order of their codes,   *)
(* and what they promise for every analysis.                               *)
(***************************************************************************)
EXTENDS RuleEngine

Severities == {"FAIBLE", "MODERE", "GRAVE", "CRITIQUE"}
Priorities == {"P4_EXCELLENT", "P3_SURVEILLANCE", "P2_PLANIFIE", "P1_URGENT", "P0_CRITIQUE"}
Types == {"POTHOLE", "ALLIGATOR_CRACK", "RUTTING", "RAVELLING", "LONGITUDINAL_CRACK",
          "LATERAL_CRACK", "EDGE_CRACKING", "STRIPING"}
Fissures == {"LONGITUDINAL_CRACK", "LATERAL_CRACK", "EDGE_CRACKING"}
AnyType  == Types \cup {NoType}

Condition(min, max, types, detections) ==
    [min |-> min, max |-> max, severities |-> Severities, priorities |-> Priorities,
     types |-> types, detections |-> detections]

Row(priority, condition, strategy, deadline) ==
    [priority |-> priority, active |-> TRUE, condition |-> condition,
     strategy |-> strategy, deadline |-> deadline, fault |-> "none"]

Seed == <<
    Row(10, Condition(0, 4000, AnyType, 0), "RECONSTRUCTION", 30),
    Row(20, Condition(4000, 5500, {"POTHOLE", "ALLIGATOR_CRACK", "RUTTING"}, 0),
        "REHABILITATION", 60),
    Row(25, Condition(4000, 5500, AnyType, 0), "RESURFACAGE", 90),
    Row(30, Condition(5500, 7000, {"RAVELLING", "RUTTING"}, 0), "RESURFACAGE", 180),
    Row(35, Condition(5500, 7000, Fissures \cup {"ALLIGATOR_CRACK"}, 0), "COLMATAGE", 120),
    Row(39, Condition(5500, 7000, AnyType, 0), "COLMATAGE", 180),
    Row(40, Condition(7000, 8500, Fissures, 1), "COLMATAGE", 365),
    Row(45, Condition(7000, 8500, AnyType, 0), "SURVEILLANCE", 365),
    Row(50, Condition(8500, MaxPci + 1, AnyType, 0), "SURVEILLANCE", 730) >>

\* Facts of an analysis: a score with two decimals and at most 100, whatever its class;
\* a dominant type is that of some detection.
Analyses ==
    {x \in [pci : 0..MaxPci, severity : Severities, priority : Priorities,
            dominant : AnyType, detections : Nat] : x.dominant # NoType => x.detections >= 1}

\* The seed data is well-formed.
ASSUME SeedAssumption ==
    /\ Contexts \subseteq Analyses
    /\ \A c \in DOMAIN Seed : Seed[c].condition # NotJson
    /\ NoType \notin Types
    /\ NotANumber \notin Int
    /\ FALLBACK \notin Nat

\* The rules of the seed data cover every PCI and every damage type.
SeedNeverFallsBack == Covers(Seed)

\* With the rules of the seed data, worse roads never get milder or later works.
SeedWorseNeverMilder == WorseNeverMilder(Seed)
=============================================================================
