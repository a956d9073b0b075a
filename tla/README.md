# RoadVisionAI: TLA+ models, model checking and proofs

RoadVisionAI is a FastAPI back end over PostgreSQL, MinIO and ChromaDB: field
agents create road inspections and upload images, a background task detects
damage with the active YOLO model and computes a pavement condition index (PCI),
and an engineer obtains a rule-based maintenance recommendation that an LLM
justifies with normative passages. This directory holds TLA+ models of it, the
TLC configurations that check them and TLAPS proofs about them. Paths below
are relative to `src/backend/` unless they start with `src/`.

## 1. The system

| Component | State | Operations | Talks to |
|---|---|---|---|
| Inspection service (`app/services/inspection_service.py`, `app/repositories/`) | tables `inspections`, `road_images` | create, list, detail, PATCH (optimistic lock), soft delete, upload, request analysis (202) | database, object store, schedules the worker |
| Analysis worker (`app/workers/analysis_worker.py`) | tables `damage_detections`, `pci_scores`, `analysis_results`, `inspections.status` | `run_analysis` in a FastAPI background task, own session, one transaction, exception handler | database, store, detector cache, PCI engine |
| Detector cache (same file) | `_detector_cache`, `_cache_lock`, per process | `_get_detector` | model registry, store |
| Model registry (`app/ai/detection/model_registry.py`) | table `ai_models`, bucket `models` | register, promote, get_active, load_artifacts | database, store |
| Detector (`app/ai/detection/detector.py`, `class_mapping.py`) | loaded YOLO network | `from_weights`, `detect` | ultralytics |
| PCI engine (`app/ai/engines/pci_engine.py`) | none | `compute_pci`, classification | |
| Rule engine (`app/ai/engines/rule_engine.py`) | table `rules` (seeded) | `evaluate` | |
| Recommendation service and pipeline (`app/services/recommendation_service.py`, `app/ai/agents/recommendation_pipeline.py`) | tables `maintenance_recommendations`, `xai_explanations` | generate, get, list pending | rule engine, knowledge search, LLM |
| Knowledge service (`app/ai/rag/`) | table `knowledge_documents`, Chroma collection | ingest PDF, search, list, get | embedder, ChromaDB |
| Report service (`app/services/report_service.py`) | table `inspection_reports`, bucket `reports` | generate, list, get, download URL | store |
| Dashboard (`app/services/dashboard_service.py`, `app/workers/snapshot_job.py`) | tables `dashboard_snapshots`, `damage_type_stats` | summary, trends, compute snapshot | database |
| Authentication (`app/services/auth_service.py`, `app/core/security.py`, `app/core/dependencies.py`) | table `users`; tokens are stateless | login, refresh, logout, role checks | database |
| Audit log (`app/repositories/audit_repository.py`) | table `audit_logs` | one row in every mutating transaction | |
| Schema (`alembic/sql/schema_v4.2.sql`) | constraints, 16 triggers | version and timestamp triggers, unique indexes | |

How they meet: the endpoints create one service object per request over one
database session; a session is one READ COMMITTED transaction at a time. The
inspection service schedules `run_analysis` on the event loop of the API process,
with a session of its own, and the two communicate only through the tables. The
worker shares the detector dictionary and its lock with the other tasks of the
process, and the temporary files with the processes before it. Recommendations
and reports read what the worker has committed. Nothing is persisted about a
request or a task that is running.

### What is hard here, and what makes each component correct

| Component | Hard behaviour | Correct means |
|---|---|---|
| Inspection service | simultaneous PATCH, DELETE, upload and analyse requests on one row; every check is a SELECT whose answer may be old at the UPDATE; object and row in two stores | the version decides every race; no PATCH and no new analysis after deletion; each image row has its object; at most one analysis at a time |
| Analysis worker | a failure or a crash at any await; a COMMIT that takes effect and raises; the exception handler needs the resource that failed | results exist exactly for TERMINEE and are those of the last accepted run; every run ends; any failure ends in ERREUR |
| Detector cache | tasks that queue for a lock, a load that raises under it, a read of the dictionary after the lock; files that outlive the process | one load per model and process, the entry is there when read, every waiter is served, a detection names the model that made it |
| Model registry | promotions that lock rows in different orders and see old snapshots; two objects and a row per registration | one active model, its status PRODUCTION, its objects stored; never none once there was one |
| PCI engine | rounding at the thresholds, the cap on the density, the order of the detections | the sum of weight, severity and area; more damage never helps; the stored class is that of the stored score |
| Rule engine | rules of one priority; half-open bounds; malformed rows | the first rule that has a say decides, or raises; the seeded rules have no gap and get stricter with the damage |
| Recommendation service | two requests for one analysis; a run that commits between two reads or during the calls of the search and the LLM; a refused INSERT after a flushed one; answers of an LLM | one recommendation per analysis, decided on one run, with its explanation; it cites a reference or is flagged |
| Knowledge service | vectors and rows in two stores without a common transaction, a process that dies between them; the last window of the chunking | a listed document is found word for word, on the pages cited; a passage without a document comes from a failed ingestion only; the windowing ends |
| Report service | two requests for one plan; the object is stored before its row; a run that deletes the plan by cascade during the generation | one report per plan, of the stored analysis, with the PDF made for it |
| Dashboard | five SELECTs between which runs commit; rounding of the shares; deleted inspections; two reads of a summary | figures add up unless a run came in between, shares always do; a summary is that of one snapshot |

`PROJECT.json` lists every hazard at its line, with the properties that watch it.

## 2. The modules

| Module | Models | Extends / composes |
|---|---|---|
| `AnalysisLifecycle` | abstract: state machine SM1 as API clients see it | |
| `Inspections` | inspection service and analysis worker | implements `AnalysisLifecycle` (`SM1 == INSTANCE ... WITH`) |
| `ModelRegistry` | registration and promotion | |
| `DetectorCache` | the loading of detectors by the tasks of the worker | extends and composes `ModelRegistry` |
| `PciEngine` | `compute_pci`, fed by the detections of a run | |
| `RuleEngine` | `evaluate`, one rule per step | |
| `SeedRules` | the nine rules of `03_seed_rules.sql` and the facts an analysis can have | extends `RuleEngine` |
| `Assessment` | an inspection from its detections to the rule that decides on works | extends and composes `PciEngine` and `SeedRules` |
| `Recommendations` | recommendation service and pipeline | takes from `Inspections` that a run replaces result and score in one transaction |
| `Reports` | maintenance plans, report service and downloads | extends `Recommendations` and composes with it: a run takes recommendation, plan and report away |
| `Knowledge` | ingestion, windowing and search of normative documents | what it shows of search results is what `Hits` of `Recommendations` leaves open |
| `Dashboard` | snapshot job and summary | takes from `Inspections` that a run is committed whole and that a deletion leaves its results |
| `InspectionsProofs`, `DetectorCacheProofs` (registry and cache), `PciEngineProofs`, `AssessmentProofs` (rule engine, seed data and assessment; extends `PciEngineProofs`), `ReportsProofs` (recommendations and reports), `KnowledgeProofs`, `DashboardProofs` | theorems and their proofs | extend the module and `TLAPS` |
| `SumTheorems` | lemmas about sums of functions over finite sets | used by `PciEngineProofs`, `AssessmentProofs` and `DashboardProofs` |
| `MCWorker` | the two waits of an analysis, for its run and for its detector, as behaviours of one run | extends `DetectorCache`, instantiates `Inspections` |
| `MC...` | symmetry sets, and constants that a `.cfg` cannot write | extend the module |

Operators named `...Mutant` are faulty variants of the definition that follows
them (a dropped guard, a missing reset, a swapped order). No specification uses
them; put in the place of that definition, each makes TLC find the property violated that
`PROJECT.json` pairs it with.

### Steps and atomicity

The unit of interleaving is the statement whose effect others can see. A SELECT
is a step, because under READ COMMITTED the next statement may see what was
committed in between. An UPDATE or INSERT and the COMMIT that follows it are one
step where the row lock or index entry keeps every other request in the model
out in between (`Inspections`, `Recommendations`, `Reports`); in `ModelRegistry`, where
`promote` has two UPDATEs with different locks, each statement is a step and
uncommitted changes stay in the request. A call to the object store, to the search or to
the LLM is a step. An exception is a disjunct (`...Fails`) that ends the request
without its uncommitted changes.

### Inspections

`row` is the table `inspections` (status, version, deleted_at as a flag, the
editable columns as one value of `Notes`), `images` is `road_images`, `results`
stands for `analysis_results`, `pci_scores` and `damage_detections` of a run,
which one transaction deletes and writes together. `req[r]` is a coroutine: first of a
request, then, after a 202, of its background task. `Create`, `PatchCheck` /
`PatchCommit`, `DeleteCheck` / `DeleteCommit`, `UploadCheck` / `PutImage` /
`NextSequenceNum` / `InsertImage`, `AnalyseRead` / `AnalyseCheck` /
`StartRun` are `inspection_service.py` statement by statement; `LoadImages`, `SaveResults`,
`WorkerFails`, `RecordError`, `HandlerFails` are `analysis_worker.py`. `Bumped`
is the SQL trigger `fn_increment_version`. `Crash` loses every coroutine.
`lastRun` is a history variable: the version written by the analysis accepted last.
The constant `Faults` selects crashes, failing handlers and lost acknowledgements.

### ModelRegistry and DetectorCache

`table`, `weights` and `config` are `ai_models` and the two objects of a
registration. `FindIncumbents` and `Deactivate` are the two halves of the first
UPDATE of `promote` (find rows in a snapshot, wait for locks and look
again), `Activate` is the second, refused by `uq_one_active_model` when a rival
remains (`Rivals`). `PromoteFails` includes the victim of a deadlock.
`DetectorCache` adds `_detector_cache`, the FIFO queue of `_cache_lock`, the temporary file of each
model and the detections made. `Restart` empties the dictionary and keeps the
files, as a restart in the same container does.

### PciEngine and RuleEngine

`PciEngine` grows a list of detections in the order the worker makes them and
computes the score in exact fractions: types and their detections are sets of places in the list
(`Codes`, `OfType`), sums are `SumFunction` over them, the deductions a fold with the addition of fractions, and
the density of an image is the recursion that caps after every detection (`PerImage`). Floating point
rounding is left out; the rounding of the stored score to two decimals is not. `RuleEngine` runs `evaluate` rule
by rule over a chosen base and context. A condition is a record of bounds and
sets; defects of a row (not JSON, a bound that is no number, an unknown
strategy, a template that fails, a cost that is no number) are values, and so are the exceptions they end in
(`Fault`). `TypeError` is not told apart from `ValueError`. The wording of a justification is left out.

### Assessment

`PciEngine` and `RuleEngine` are taken as they are; `analysis` is what lies between them, the rows of
`pci_scores` and `analysis_results`. `Collect` is a detection of the worker, `Save` its commit, `Generate` the
reading of the stored analysis and of the rules by the recommendation service, `Scan` a step of `evaluate`.
`FactsOf` is what the rules see: score, class and priority of the score, the number of detections and the
dominant type, which `max` takes from the deductions by type. These are rounded to four decimals (`Round4`) and
sorted by damage code (`Items`, `Precedes`), so that the first in alphabetical order (`Rank`) wins a tie. That the order in which floating point numbers are
added may change their last digit is left out with floating point itself. How requests and runs meet is the matter of
`Inspections` and `Recommendations` and left to them: here one analysis is made and decided on.

### Recommendations

`run[i]` numbers the runs of an inspection; a result and a score are known by
the run that wrote them. `Generate`, `ReadAnalysis` (404), `ReadExisting`
(409), `ReadScore`, `Retrieve`, `Narrate`, `Store` are the request from entry to
COMMIT; `Analyse` is the worker, whose DELETE takes the recommendation of the
old result along (ON DELETE CASCADE). `Cited` and `NormativeRefs` are the
fallbacks for references; an LLM may cite any reference, retrieved or not, may give no
list, or may fail. The 409 for a missing score cannot occur once an analysis
result has been read, since both are written in one transaction. That an
inspection with a result is analysed again takes a lost
acknowledgement (a finished run turned into ERREUR), which `Inspections` shows
possible.

### Reports

`plans` and `reports` are the tables `maintenance_plans` and `inspection_reports`,
`bucket` the PDFs in the store. A plan is known by the recommendation it is for,
that is by an inspection and a run. `GenerateReport`, `PlanExists` (404),
`GetByPlan` (409), `BuildPdf`, `PutObject`, `InsertReport` are
`report_service.py` in its order; `Download` is a link to the object a row
names. A step of `Recommendations` is a step here, and an `Analyse` comes with
`Cascade`. No service inserts plans, so that `CreatePlan` allows what the table
allows.

### Knowledge

`rows` are the committed rows of `knowledge_documents`, `passages` the Chroma
collection. A text is the sequence of the pages its words stand on, which is all
that the citations tell apart. `Chunk` is one iteration of `chunk_pages`:
nothing can come between two of them, but the loop becomes an invariant that way
and is proved for every text. `IngestFails` and `Restart` leave the vectors that were
sent, in the one case because nothing deletes them, in the other because
ChromaDB may go on without the process. `abandoned` is a history variable, the documents of which
that is true. Between the upsert and the COMMIT a search finds passages of a document that is not
listed yet; after a failure there it finds them for good. A recommendation may thus
cite a document that the list does not show.

### Dashboard

`TriggerSnapshot` to `CommitSnapshot` are the job, a step per SELECT; creation,
runs and deletions are the commits of `Inspections`, a step each. An
average is kept as a sum and a number, a share in hundredths of a percent (`Full` is all of them); sums are
`SumFunction` over the finite sets of runs, sections and types. `first` and `last` in a
snapshot are history: how many runs had been committed at its second and at its last SELECT.
`uq_snapshot_date_region` does not keep the job from adding a second row for a day,
because region and province are NULL and NULLs are distinct: no job replaces the row of another.

## 3. The runs

| Run | Instance | Shows |
|---|---|---|
| `inspections_safety` | 1 inspection, 3 requests, 2 objects, 2 notes, versions to 4, all faults, symmetry | one run at a time, runs only on EN_COURS, TERMINEE shows the last run, images stored and numbered without gaps, no PATCH on a changed row, no PATCH and no new analysis after deletion (an upload, or a task that was running, still writes); the tables implement SM1 |
| `inspections_failure` | 1 inspection, 2 requests, failing handler | **violated**: an inspection whose handler fails stays EN_COURS |
| `model_registry` | 3 models, 3 requests | one active model, never none again, artefacts stored; deadlock-free |
| `worker_waits` | 2 models, 1 request, 2 tasks; and, in behaviours of their own, 1 inspection, 2 clients, no faults | one load at a time and per model, the entry is there, every waiter is served; every accepted analysis ends |
| `detector_names` | 1 model, 2 uploads, 2 requests, 1 task | **violated**: a detection names a version whose registered weights did not make it |
| `pci_classes` | 3 images, 2 types, finer unit | **violated**: 84.9983 is stored as 85.00 with the class below 85 |
| `rules` | bases of two or three rules in any order, with defects that end in every exception | **violated**: a malformed rule raises another exception than RuleFormatError |
| `assessment` | 2 images, 3 damage types, areas in twelfths (a small and an almost whole image), up to 4 detections, then the seeded rules; and, from given facts, the seeded rules and bases of two or three rules in any order, with defects that end in every exception | formula of the CDC, monotonicity, class of the stored score up to rounding; what is committed does not depend on the order of the detections; first match, or the exception of the first match; the seeded rules have no gap and worse is never milder; the rule that decides is for the class of the stored priority; works are never milder for more damage |
| `reports` | 1 inspection of 2 runs, 2 requests, 2 clerks, 2 titles, 2 objects, a search that finds a passage or nothing, every citation, symmetry | one recommendation per analysis, on one run, explained, grounded or flagged; one report per plan, of the stored run, with its PDF |
| `knowledge` | 2 documents, 2 requests, windows of 3 words that share 1, six texts of 0 to 6 words and an unreadable file | a listed document is whole, windows overlap, hits have a document, every ingestion ends |
| `dashboard` | 2 inspections of 1 section, 3 damage types, 3 outcomes, 2 runs, 2 jobs, 1 viewer, symmetry | figures add up, a summary is whole |
| `dashboard_deleted` | the same, 1 run, 1 job | **violated**: a job counts the detections of a deleted inspection |

Why the bounds are enough. Each race here is between two parties over one row, and needs
a third at most to move the row once more; three requests on one inspection give
that, and the theorems below lift the bound where they exist. `MaxVersion` bounds
only the start of requests: those that have started finish at any version, and four
versions are create, change, analyse and analyse again. Every proved property
holds for any number of inspections, which lets the runs do with one where two requests have to meet
on it (`reports`). Three models are
an incumbent and two rivals. The texts of `knowledge` end in the first window, at its end, one word past
it, at the end of the second window and in the third, and turn the page inside a window or between two.
Two runs are what a snapshot needs to lie between; the three damage types make three shares that do not
add up to a whole number of hundredths. Two runs per inspection are the one read first and
the one that replaces it. Four detections on
two images reach four bands, ties between types (two detections of weight 15 take as much as one of
weight 30), images filled to the brim and beyond, and a change of the dominant type inside a band: without either condition of
`MoreDamageNeverMilder` TLC finds a violation. Two things the detections do not reach: P0, which the given facts of the run do, and scores
rounded up to a bound, which `pci_classes` does; the theorems cover both. Given facts have a PCI at
and just below every bound that occurs in a rule, which is all a comparison can tell apart.

Deadlock checking is off where the system may rest: all inspections finished and
the bound on versions reached, the list of detections full, a decision taken.

### Fairness

`worker_waits` (`MCWorker`), for runs: weak fairness of the steps of a background task. The event
loop resumes every task whose await has returned, and each await in the worker
(database, store, thread) returns or raises; requests have none, as nothing makes a client
send one. The run excludes crashes and failing handlers, with which the
property is false (`inspections_failure`). For detectors, crashes included: weak fairness of a
task between ResolveModel and the end of the loading. `anyio.Lock` is handed
to its waiters in order, so that weak fairness is enough. Promotions, uploads and
the start of tasks have no fairness. `knowledge`: weak fairness of the steps of an ingestion,
each of which follows an await on a thread that returns or raises, or is plain computation; restarts and failures are
allowed. Searches and new ingestions have none. An identifier is always there to be drawn
(`gen_random_uuid`); when the two of the run are used up, an ingestion can only fail.

## 4. The proofs

Every theorem holds for all values of the constants, under the named
assumptions of the modules only: `None` and the other markers are
no members of the sets they are added to, bounds are natural numbers, priorities
in rule bases are natural numbers, weights, confidences and areas are in their ranges, an empty
search result is possible, and, for the seed data only, its conditions are objects and its bounds numbers, and a dominant
type is that of some detection (`analysis_worker.py:162` takes it from the deductions); for `Assessment`, that the
catalogue names damage codes the rules know (`pci_engine.py` and the seed data are written for the same codes) and that
no two codes are at the same place of the alphabet.

* **Inspections** (`Invariance`, `TypeCorrectness`, `AnalysisSafety`, `UploadSafety`,
  `OptimisticLocking`, `SoftDelete`, `Refinement`). The properties are not inductive:
  that two tasks never share an inspection follows from what a request has read being
  *the* row as long as the version has not moved (`ReadsAreVersioned`), so that
  the second UPDATE finds another version. `IInv` adds that, the ownership of stored objects
  (`UploadsOwnTheirObject`), drawn numbers (`DrawnNumbersFollow`), the checks
  before StartRun (`ChecksHold`) and that a task that can still succeed is the one accepted last
  (`RunIsTheLast`). The proof first shows how any step moves a row and
  a request (`RowsAdvance`, `RequestsAdvance`), then takes reads, uploads and runs in turn. `Refinement`:
  each step is a step of SM1 or a stutter, a lost acknowledgement being its `Retract`.
* **ModelRegistry** (`RegistryInvariance`, `OneModelInProduction`, `ProductionIsServed`).
  `RegistryInv` adds `LocksHold`: retired rows are active in the table and
  locked by one promotion each, and a promotion about to commit is alone and has no rival.
  Hence a commit takes an incumbent away only together with activating its successor.
* **DetectorCache** (`CacheInvariance`, `CacheTypeCorrectness`, `CacheSafety`, `DetectorsStay`,
  `RegistrySurvivesRestarts`). `CacheInv` says of each task, by the place it has come to (`Sound`), what its local
  variables hold and whether it has the lock, which exactly the head of the queue has; a task past the
  lock finds its model in the dictionary because entries are only added, by the task that has the
  lock, after it has looked again. The steps of the registry leave the cache alone and those of the
  cache the registry, so that `RegistryInv` carries over; `RegistrySurvivesRestarts` adds the restart.
* **PciEngine** (`InputsAreInRange`, `AgreesWithTheFormula`, `ClassFollowsScore`,
  `FurtherDamageNeverHelps`). For any catalogue, any number of images and detections and any precision.
  `InputsInRange` is the invariant (and says that `compute_pci` never raises `ValueError`); the rest is
  arithmetic about the list it describes. Capping after every detection is capping the
  sum (`DamageOfImage`): the sums solve the recursion, and by the least number principle nothing else does. Areas by
  image add up to the area of a type (`DamageOfType`), the mean weighted by area cancels it
  (`DeductionOfType`), and types add up to detections (`DamageByType`), all by `SumByKey`;
  `FoldOfFractions` carries a common multiple of the denominators through the fold. The
  score falls as the deductions grow (`ScoreIsAntitone`), and rounding preserves order (`Round2IsMonotone`),
  which also places the rounded score against the thresholds, since those are whole.
* **RuleEngine** (`ScanInvariance`, `FirstMatch`, `FirstIsUnique`). `ScanInv`: no
  rule that has a say has been passed (`Scanned`, which does not ask where the context comes from, so that `Assessment` uses
  it too). For every rule base and every context.
* **SeedRules** (`SeedHasNoGap`, `SeedGetsStricter`). `Ruling` reads the nine rules as a decision by score and dominant type;
  `SeedDecides` shows it to be the first rule that applies, for every score from 0 to 100, and the
  theorems compare its branches. A road with fissures and no detections would break the second one (R040 asks for
  a detection): hence the assumption on dominant types.
* **Assessment** (`AssessInvariance`, `IndexOfAssessment`, `AnalysisIsReproducible`, `RulesAgreeWithClasses`,
  `MoreDamageIsStricter`). For any catalogue, any images and any number of detections. `AssessInv`, which TLC
  checked on the instance of the run first, says that what is stored is the analysis of the detections and what the rules are evaluated on,
  and that the scan has passed over no rule that has a say. Every behaviour is one of `PciEngine`
  (`IndexOfAssessment`), and with the rules of the seed alone the rule reached is that of `Ruling` by `SeedDecides`, whose
  assumption on dominant types is here a fact (`FactsAreAnalysis`). A part of the detections (`Part`) is given by an injection of places, a selection in the order of the list or a bijection; sums over the part are sums over
  the places it takes (`MovedSums`, `PartSums`), so a reordering leaves every sum (`OrderByType`, `OrderOfDeduction`,
  `OrderOfIndex`) and, since the greatest deduction is taken with the alphabet to break ties (`DominantIsUnique`), the dominant type;
  leaving detections out lowers the sums (`PartIsLess`), hence raises the score where no cap is in the way, and
  `RulingsGetStricter` compares the rules. The bands are compared with the classes once each, from `ClassOfScore`.
* **Recommendations** (`Invariance`, `TypeCorrectness`, `DecisionSafety`,
  `Grounding`). `DecidedOnOneRun` rests on order, not on a check:
  the run of the analysis is at most that of the score, which is at most the stored
  one (`InOrder`); the foreign key makes the first equal to the last at the INSERT, so all three
  are equal. `FlagFits` carries the flag to the audit log, `NothingAhead` makes the
  explanations of replaced runs harmless.
* **Reports** (`ReportsRefineRecommendations`, `ReportInvariance`, `ReportTypeCorrectness`,
  `ReportSafety`, `ReportsFollowTheRun`). Every behaviour of the composition is one of
  `Recommendations`, so that its invariant is used and not proved again. `ReportInv` adds that
  drawn names are owned (`Drafted`, `NamesAreOwn`) and that the rows hang together
  (`RowsHangTogether`); that a report is of the *stored* run then follows from
  `DecidedOnOneRun` of its recommendation.
* **Knowledge** (`KnowledgeInvariance`, `KnowledgeTypeCorrectness`, `IngestionSafety`,
  `SearchSafety`). For texts of any length, and any `Overlap < Size`. `Loop` is the invariant of
  `chunk_pages`: the windows so far cover the text up to the end of the last of them, of which the next one repeats
  `Overlap` words, and which is before the end of the text. `Owns`: passages of a document in work are none before the upsert and its chunks after.

* **Dashboard** (`DashboardInvariance`, `DashboardTypeCorrectness`, `StatisticsAddUp`,
  `FiguresFollowTheRuns`, `SummariesAreWhole`). The invariant keeps apart what a job has read and what
  has been committed since: identifiers are unique (`IdsAreUnique`), figures read while no run intervened are the current
  ones (`ReadsAreCurrent`), a snapshot's figures are those of the runs it counts (`FiguresFollowRuns`), the
  statistics of a job add up before they are committed (`PendingAddUp`), and what a viewer has read is stored (`ServedIsStored`).
  Of the rounding of shares the proof uses only that it moves a share by half a hundredth at most,
  so that it holds whichever way a tie goes.
* **SumTheorems**. `SumFunction` takes elements in an order that `CHOOSE` determines, by a recursion whose solution has to be
  shown to exist. The induction theorems of the library take an operator; the lemmas use its least-element theorem for
  well-founded relations in their place (`LeastNumber`), and reason about a set of counterexamples. On it rest that terms may be
  taken out in any order (`SumStep`), that linear inequalities add up (`SumsCompare`), and that sums may be split by key
  (`SumByKey`).

Every invariant and action property of the runs that hold is stated by a theorem, refinement of SM1
included. Only model-checked: liveness under fairness and anything about ENABLED (`EveryRunEnds`,
`EveryTaskServed`, `IngestionEnds`), which the prover does not treat; and the violations of the
next section, which are counterexamples. Six invariants have no run of their own, because a theorem states
them for every instance: the type invariants `TypeOK`, `KnowledgeTypeOK`, `DashboardTypeOK` and, for `PciEngine`,
`InputsInRange`, the inductive `AssessInv`, and `FiguresIgnoreDeletions`, by which deletions show in no figure of a snapshot
but the number of inspections.

## 5. Findings

* `FailureSurfaces`: `analysis_worker.py:17` promises ERREUR on any exception. When the
  handler itself fails, the row stays EN_COURS for ever, and is refused by
  `request_analysis` from then on. A crash has the same effect.
* `DetectionsNameTheirModel`: two registrations of one version share the path of
  `best.pt`; the one whose row is refused may have overwritten it.
* `ClassOfStoredScore`: the score is rounded after it was classified. What follows from it for the works is in
  `BandsAgree`: the rule that decides, which reads the rounded score, may be one for the class above the stored one,
  at the bound between the two and nowhere else.
* `MalformedRaisesRuleFormatError`: `rule_engine.py:121-122` promises RuleFormatError for malformed rules. A bound that is no
  number ends in a plain `ValueError`, a template with an unknown placeholder in `KeyError`, a cost that is no number in
  `InvalidOperation`. That the rule base fails and no rule is skipped, the other half of the sentence, holds (`FirstMatchWins`).
* `DeletedAreFiltered`: rule 5 of `src/README.md` (line 70) has `deleted_at` filtered on every read. Of the SELECTs of the
  snapshot job the first does, and the others count detections, scores and sections of deleted inspections.

Found on the way, without a run of its own: `from_weights` prefers an existing temporary file to the bytes it is
given, so that a file that was cut short makes every later load in the container fail (`CacheTypeOK`: it
never becomes a detector); vectors of failed ingestions are never deleted (`HitsHaveADocument` names them), and a client that repeats an
ingestion whose COMMIT it did not see acknowledged stores the document twice; PDFs of refused or
deleted reports stay in the store; two uploads at
the same time may draw the same `sequence_num` (only gaps are excluded,
`SequenceWithoutGaps`); under the cap on density a further, milder detection raises
the PCI (`MoreDamageNeverHelps` says so by its premise);
further damage that changes the dominant type may lead to milder works in the bands from 40 to 85, where the rules ask for that type (`MoreDamageNeverMilder` says so by its premise); the loser of a race
for a recommendation gets a server error in place of 409; a `cited_refs` that is a JSON
object or string passes every fallback of the pipeline and fails the CHECK of
`normative_refs`, a 500 in a place whose comment says "Never a 500"; a
re-analysis deletes a pending recommendation silently; explanations of
replaced runs stay, and nothing links them to a run.

## 6. What is left out

Inside modelled components: floating point, wording, formats and logging; the
inference of the network and the geometry of boxes; the class mapping is one value;
validation of payloads by the API schemas; role checks. Reads that change
nothing (lists, details) are the reads of the requests that write. In `Knowledge`, how similar a passage
is to a query; in `Reports`, the layout of the PDF; in `Dashboard`, the filters by region and province, which no
snapshot sets, and the trend of the PCI, a table without writer.

Not modelled: authentication (tokens are signed and nothing about them is stored, logout writes an audit
entry only, and no code creates, deactivates or deletes an account: one lookup per request and cryptography are left);
notifications (a table without code); the application shell
(configuration and error formatting); training and scripts (offline programs).

## 7. Plan

Order: what decides the outcome of an inspection first, then what is built on it.

1. `Inspections` with `AnalysisLifecycle`, `ModelRegistry`, `DetectorCache`,
   `PciEngine`, `RuleEngine`, `Recommendations`: done.
2. `Reports` composed with `Recommendations`, `Knowledge`, `Dashboard`, with the proofs of the first two: done.
3. Proofs of `DetectorCache`, `Dashboard`, `PciEngine` and of the seed data: done.
4. `Assessment`, with its proofs: `PciEngine` and `SeedRules` joined on the stored score, where `FurtherDamageNeverHelps`
   and `SeedGetsStricter` meet: done.

Runs that answer a question a later module contains are replaced by the run of
that module, so that the number of runs stays small.
