----------------------------- MODULE RuleEngine -----------------------------
(***************************************************************************)
(* The evaluation of the maintenance rules against the facts of an         *)
(* analysis: a scan of the active rules by (priority, code) that ends at   *)
(* the first rule that matches, or at the first that is malformed.         *)
(*                                                                         *)
(* The code of a rule is its rank in alphabetical order.  A PCI is in      *)
(* hundredths.  An absent field of a condition is a wildcard: the bound 0  *)
(* or MaxPci + 1, or the set of all values, for a dominant type with       *)
(* NoType, which no list names.                                            *)
(***************************************************************************)
EXTENDS Integers

CONSTANTS
    RuleBases,    \* contents of the table rules: functions from codes to rows
    Contexts,     \* facts of an analysis
    NoType,       \* the dominant type of an analysis without detections
    NotJson,      \* a condition that is no JSON object
    NotANumber,   \* a bound that float() or int() refuses
    FALLBACK,     \* stands for the code of a rule in the default decision
    None          \* the evaluation has not ended

MaxPci == 10000

Strategies == {"SURVEILLANCE", "COLMATAGE", "RESURFACAGE", "REHABILITATION", "RECONSTRUCTION"}

\* What is wrong with the action: no JSON object, no strategy or an unknown one, a
\* placeholder in the justification that str.format does not know, a cost that
\* Decimal does not take.
ActionFaults == {"none", "not_json", "strategy", "template", "cost"}

\* RuleFormatError is a ValueError; "ValueError" is that of float() and int(), which
\* is none.
Errors == {"RuleFormatError", "ValueError", "KeyError", "InvalidOperation"}

\* The rule that ends the scan, and its strategy or the exception it causes.
Outcome == [rule : Nat \cup {FALLBACK}, result : Strategies \cup Errors]

ASSUME RuleBasesAssumption ==
    \A base \in RuleBases : \A c \in DOMAIN base :
        /\ c \in Nat
        /\ base[c].priority \in Nat
        /\ base[c].active \in BOOLEAN
        /\ base[c].strategy \in Strategies
        /\ base[c].fault \in ActionFaults

ASSUME RuleNoneAssumption == None \notin Outcome

VARIABLES
    base,    \* the rules generate_for_analysis has read
    ctx,     \* the AnalysisContext
    seen,    \* the rules the loop has gone past
    outcome  \* the decision returned, or the exception raised

vars == <<base, ctx, seen, outcome>>

Default == [rule |-> FALLBACK, result |-> "SURVEILLANCE"]

-----------------------------------------------------------------------------

Active(b) == {c \in DOMAIN b : b[c].active}

Before(b, c, d) ==
    \/ b[c].priority < b[d].priority
    \/ b[c].priority = b[d].priority /\ c < d

\* Operators named ...Mutant are faulty variants of the definition that follows.
\* Here the lower bound is exclusive.
AboveMutant(cond, x) == x.pci > cond.min

Above(cond, x)  == x.pci >= cond.min
Below(cond, x)  == x.pci < cond.max
Listed(cond, x) ==
    /\ x.severity \in cond.severities
    /\ x.priority \in cond.priorities
    /\ x.dominant \in cond.types

\* float() or int() fails on a bound, once the fields before it have held.
BadBound(cond, x) ==
    \/ cond.min = NotANumber
    \/ Above(cond, x) /\ cond.max = NotANumber
    \/ Above(cond, x) /\ Below(cond, x) /\ Listed(cond, x) /\ cond.detections = NotANumber

Matches(cond, x) ==
    /\ Above(cond, x)
    /\ Below(cond, x)
    /\ Listed(cond, x)
    /\ x.detections >= cond.detections

\* What the loop does when it comes to the rule: the exception raised ...
Fault(rule, x) ==
    CASE rule.condition = NotJson -> "RuleFormatError"
      [] rule.condition # NotJson /\ BadBound(rule.condition, x) -> "ValueError"
      [] rule.condition # NotJson /\ ~BadBound(rule.condition, x) ->
            IF ~Matches(rule.condition, x) THEN "none"
            ELSE CASE rule.fault \in {"not_json", "strategy"} -> "RuleFormatError"
                   [] rule.fault = "template" -> "KeyError"
                   [] rule.fault = "cost" -> "InvalidOperation"
                   [] rule.fault = "none" -> "none"

\* ... or its decision.
Applies(rule, x) ==
    Fault(rule, x) = "none" /\ Matches(rule.condition, x)

-----------------------------------------------------------------------------

Init ==
    /\ base \in RuleBases
    /\ ctx \in Contexts
    /\ seen = {}
    /\ outcome = None

\* The rules in the order of the table.
CurrentMutant(c) ==
    /\ outcome = None
    /\ c \in Active(base) \ seen
    /\ \A d \in Active(base) \ seen : c <= d

\* sorted(active rules, key = (priority, code))
Current(c) ==
    /\ outcome = None
    /\ c \in Active(base) \ seen
    /\ \A d \in Active(base) \ seen : d = c \/ Before(base, c, d)

Skip(c) ==
    /\ Current(c)
    /\ Fault(base[c], ctx) = "none"
    /\ ~Matches(base[c].condition, ctx)
    /\ seen' = seen \cup {c}
    /\ UNCHANGED <<base, ctx, outcome>>

Decide(c) ==
    /\ Current(c)
    /\ Applies(base[c], ctx)
    /\ outcome' = [rule |-> c, result |-> base[c].strategy]
    /\ UNCHANGED <<base, ctx, seen>>

Raise(c) ==
    /\ Current(c)
    /\ Fault(base[c], ctx) # "none"
    /\ outcome' = [rule |-> c, result |-> Fault(base[c], ctx)]
    /\ UNCHANGED <<base, ctx, seen>>

FallBack ==
    /\ outcome = None
    /\ Active(base) \subseteq seen
    /\ outcome' = Default
    /\ UNCHANGED <<base, ctx, seen>>

Evaluate(c) == Skip(c) \/ Decide(c) \/ Raise(c)

Next == (\E c \in DOMAIN base : Evaluate(c)) \/ FallBack

Spec == Init /\ [][Next]_vars

-----------------------------------------------------------------------------

\* The rules that have a say: they apply, or are malformed and must not be missed.
Met(b, x) == {c \in Active(b) : Fault(b[c], x) # "none" \/ Applies(b[c], x)}

First(b, x, c) ==
    /\ c \in Met(b, x)
    /\ \A d \in Met(b, x) : d = c \/ Before(b, c, d)

\* "First-match evaluation over active rules sorted by (priority, code)", and a
\* broken rule base does not "silently skip safety rules": the outcome is that of
\* the first rule that applies or is malformed, and SURVEILLANCE only if there is
\* none.  In the second case it is an exception; which one is the matter of
\* MalformedRaisesRuleFormatError, and not as documented.
FirstMatchWins ==
    outcome # None =>
        \/ Met(base, ctx) = {} /\ outcome = Default
        \/ LET c == outcome.rule IN
              /\ c \in DOMAIN base
              /\ First(base, ctx, c)
              /\ outcome = [rule |-> c, result |-> IF Applies(base[c], ctx)
                                                  THEN base[c].strategy
                                                  ELSE Fault(base[c], ctx)]

\* "Malformed rules raise RuleFormatError": whatever makes evaluate raise, its caller
\* can catch as that.
MalformedRaisesRuleFormatError ==
    outcome # None => outcome.result \in Strategies \cup {"RuleFormatError"}

\* The inductive invariant: no rule that has a say has been gone past.
Scanned ==
    /\ base \in RuleBases
    /\ outcome \in Outcome \cup {None}
    /\ seen \subseteq Active(base) \ Met(base, ctx)
    /\ FirstMatchWins

ScanInv == ctx \in Contexts /\ Scanned

-----------------------------------------------------------------------------
\* The rule base as a whole.

\* The rule that decides for x.
Verdict(b, x) ==
    LET met == Met(b, x)
    IN  IF met = {} THEN FALLBACK
        ELSE CHOOSE c \in met : \A d \in met : d = c \/ Before(b, c, d)

Severity == [SURVEILLANCE |-> 0, COLMATAGE |-> 1, RESURFACAGE |-> 2,
             REHABILITATION |-> 3, RECONSTRUCTION |-> 4]

\* The rules of b cover every context, so that it never comes to the default, and
\* none is malformed.
Covers(b) ==
    base = b /\ outcome # None => outcome.result \in Strategies /\ outcome.rule # FALLBACK

\* With the rules of b, for the same dominant type, a road in a worse condition
\* never gets a milder strategy or a later deadline.
WorseNeverMilder(b) ==
    (base = b /\ outcome # None /\ outcome.rule \in DOMAIN b) =>
        \A x \in Contexts : (x.pci <= ctx.pci /\ x.dominant = ctx.dominant) =>
            LET c     == Verdict(b, x)
                worse == b[c]
            IN  /\ c \in DOMAIN b
                /\ Severity[worse.strategy] >= Severity[outcome.result]
                /\ worse.deadline <= b[outcome.rule].deadline
=============================================================================
