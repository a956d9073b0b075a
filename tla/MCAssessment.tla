---------------------------- MODULE MCAssessment ----------------------------
(***************************************************************************)
(* A small instance of Assessment for TLC.  Its inspections show three of  *)
(* the damage types of the seed data: two detections of the lightest take  *)
(* as much as one of the heaviest.                                         *)
(*                                                                         *)
(* These few detections reach few scores, and meet the rules of the seed   *)
(* only.  The specification starts with analyses of other inspections as   *)
(* well, of which the detections are left out and the facts are given: a   *)
(* PCI at and just below every bound, and rules of every kind.             *)
(***************************************************************************)
EXTENDS Assessment, MCRuleEngine

MixedWeight  == [ALLIGATOR_CRACK |-> 30, RUTTING |-> 28, LONGITUDINAL_CRACK |-> 15]
Alphabetical == [ALLIGATOR_CRACK |-> 1, LONGITUDINAL_CRACK |-> 2, RUTTING |-> 3]

\* The conditions of the small bases tell no more than these contexts apart.
OnEitherSide == {Facts(3999, "POTHOLE", 1), Facts(4000, "POTHOLE", 1), Facts(MaxPci, NoType, 0)}

\* An analysis whose facts and rules have been read.
Given ==
    /\ PciInit
    /\ Init
    /\ base = Seed \/ ctx \in OnEitherSide
    /\ analysis = ctx

GivenOrAssessed == AssessInit \/ Given

MeetsTheSeed == Collect \/ Save \/ (base' = Seed /\ Generate) \/ Scan

SmallSpec == GivenOrAssessed /\ [][MeetsTheSeed]_allVars
=============================================================================
