\* Two images, three damage types, up to four detections, and the rules of the seed
\* data: the four upper bands, images saturated or just not, ties between types, and
\* detections that change the dominant type.  Next to them, facts at and just below
\* every bound of a rule, with the seed data and with bases of two or three rules in
\* any order and with faults that end in every exception.
SPECIFICATION SmallSpec
CONSTANTS
    Weight <- MixedWeight
    Rank <- Alphabetical
    Images = 2
    Unit = 12
    Confidences = {11}
    Areas = {1, 11}
    MaxDetections = 4
    RuleBases <- Bases
    Contexts <- AllContexts
    NoType = NoType
    NotJson = NotJson
    NotANumber = NotANumber
    FALLBACK = FALLBACK
    None = None
INVARIANTS
    FirstMatchWins SeedNeverFallsBack SeedWorseNeverMilder
    CdcFormula ClassUpToRounding BandsAgree MoreDamageNeverMilder
PROPERTIES Reproducible MoreDamageNeverHelps
CHECK_DEADLOCK FALSE
