---------------------------- MODULE MCRuleEngine ----------------------------
(***************************************************************************)
(* Small instances of RuleEngine for TLC: the rules of the seed data, and  *)
(* the bases of two or three rules from a few rows, malformed ones         *)
(* included.                                                               *)
(***************************************************************************)
EXTENDS SeedRules

Band(pci) ==
    CASE pci >= 8500 -> <<"FAIBLE", "P4_EXCELLENT">>
      [] pci >= 7000 /\ pci < 8500 -> <<"FAIBLE", "P3_SURVEILLANCE">>
      [] pci >= 5500 /\ pci < 7000 -> <<"MODERE", "P2_PLANIFIE">>
      [] pci >= 4000 /\ pci < 5500 -> <<"GRAVE", "P1_URGENT">>
      [] pci < 4000 -> <<"CRITIQUE", "P0_CRITIQUE">>

Facts(pci, type, detections) ==
    [pci |-> pci, severity |-> Band(pci)[1], priority |-> Band(pci)[2],
     dominant |-> type, detections |-> detections]

AllContexts ==
    {Facts(MaxPci, NoType, 0)} \cup
    {Facts(p, t, 1) : p \in {0, 3999, 4000, 5499, 5500, 6999, 7000, 8499, 8500, MaxPci},
                      t \in Types}

Anything == Condition(0, MaxPci + 1, AnyType, 0)
SmallConditions ==
    {Anything, Condition(0, 4000, AnyType, 0), NotJson, Condition(NotANumber, 4000, AnyType, 0),
     Condition(4000, NotANumber, AnyType, 0), Condition(0, 4000, AnyType, NotANumber)}

Flawed(row, faults) == {[row EXCEPT !.fault = f] : f \in faults}

SmallRows ==
    {Row(p, c, "COLMATAGE", 1) : p \in {10, 20}, c \in SmallConditions}
    \cup UNION {Flawed(Row(p, c, "COLMATAGE", 1), {"strategy", "template", "cost"}) :
                   p \in {10, 20}, c \in {Anything, Condition(0, 4000, AnyType, 0)}}
    \cup {[Row(10, Anything, "COLMATAGE", 1) EXCEPT !.active = FALSE]}

SortedRows ==
    {Row(p, c, "COLMATAGE", 1) : p \in {10, 20}, c \in {Anything, Condition(0, 4000, AnyType, 0)}}

Bases == {Seed} \cup [1..2 -> SmallRows] \cup [1..3 -> SortedRows]
=============================================================================
