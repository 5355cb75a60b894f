# A TLA+ model of KatalogAI

KatalogAI turns a product text or photo into a catalogue entry: an API takes the
call, an extraction agent (Gemini with tools) finds the fields, and the product is
stored with a confidence per field, the doubtful ones for a human to review. Images
go through a job queue and a worker. This directory holds TLA+ modules of that code,
TLC configurations that check them on small instances, and proofs checked by TLAPS.

## 1. Inventory

| Component | State it keeps | Operations | Modelled in |
|---|---|---|---|
| Ingestion API (`app/api/v1/ingest.py`) | the call in hand | `POST /ingest/text`, `POST /ingest/image` | `Ingestion` |
| Ingestion service (`app/services/ingestion_service.py`) | one transaction | `ingest_text`, `process_image_pipeline` | `Ingestion`, `ReviewRules` |
| Worker task (`app/workers/tasks.py`) | one session | `process_image_job` | `Ingestion` |
| ARQ settings and sweeper (`app/workers/arq_worker.py`) | ARQ's queue and try counts, in Redis | deliver, acknowledge, time out, `sweep_stuck_jobs` | `Ingestion` (ARQ is external) |
| Review rules (`app/ml/confidence.py`, `app/services/review_service.py`) | none | aggregation, triggers | `ReviewRules` |
| Extraction agent (`app/ml/agent/orchestrator.py`) | accumulation, candidates, OCR cache | `run`, five tools | `ExtractionAgent` |
| Merge and parse (`app/ml/vlm.py`), HSN (`app/ml/hsn/*`), OCR (`app/ml/ocr.py`) | none (OCR: one shared model) | `merge_extractions`, `retrieve_hsn`, `verify_hsn`, OCR with a timeout | `ExtractionAgent` |
| Product API (`app/api/v1/products.py`) | product and field rows | list, get, PATCH | `ProductEdit` (PATCH, and what get may show), `CatalogueReads` (list) |
| Review API (`app/api/v1/review.py`) | review items | list, resolve | `CatalogueReads` (list), `ProductEdit` (resolve) |
| Job API (`app/api/v1/jobs.py`) | none | status, product | `CatalogueReads` |
| Authentication, bootstrap, seeding | API keys, HSN codes | verify, create, seed | not modelled |
| Text parser, image decoding, ONDC schemas, prompts, logging, migrations | none | pure functions or declarations | not modelled |

How they interact. The image handler commits a `queued` row, then puts its id into
ARQ's queue, and answers 202. The worker loads the row, runs the pipeline and commits
product, fields and status together. The text handler does all of it in its own
transaction and answers 201. Both pipelines await one run of the agent, and decide on
the status with the review rules. Handlers, worker and sweeper share the tables; they
see each other's commits and nothing else. PATCH and resolve change the stored product
while others read it: the listing, the job API and the review list are each one query
between whatever ingestion and edits commit.

What is hard, and what makes each part correct:

* Ingestion: a commit in one store and an enqueue in another with failures between
  them; retries under an idempotency key; a worker that is lost, cancelled or refused
  by the database at any point. Correct means: the job table, the catalogue, the
  review queue and the answers clients hold never contradict each other, outcomes are
  final, and every accepted job gets one.
* The agent: an order of tool calls nobody controls, two passes with a reset in
  between, exceptions that are swallowed and some that are not. Correct means: nothing
  found is lost, nothing leaks from one pass into the other except the OCR text, and the
  second pass makes the product worse only for what it has found besides.
* Review rules: thresholds at 0.65, 0.70, 0.75 and 0.80 in different places that have
  to fit together.
* Product and review edits: concurrent read-modify-write on the same rows, from a baseline
  that is never read again; UPDATEs that SQLAlchemy sends only for what differs from that
  baseline, in the middle of the handler; row locks taken in the order of the request; a
  CHECK constraint the code does not respect; queries after the commit that may fail.
  Correct means: an edit is made as a whole or
  not at all, column and field row say the same, what a human set is not undone, and no
  handler waits for ever.
* Reads: a page, or the next poll, comes in a later transaction than the one before.
  Correct means: a walk repeats nothing and misses nothing that stays, and what a poller
  was told still holds.

PROJECT.json lists every hazard with its line.

## 2. Modules

**ReviewRules** has no state: `WEIGHTS`, `AggregateConfidence`, the required fields, the
review triggers and the two row builders of the ingestion service. Confidences are in
thousandths, weights in tenths. An extraction is a function from the extracted fields to
their confidences. The mean is rounded to the nearest thousandth; where Python's
`round` meets an exact tie its result depends on the binary float, and the model takes
the upper value.

**Ingestion** is the core. `pc` and `resp` are the handlers (`new`, `text`, `lookup`,
`insert`, `enqueue`, `answer`, `done`, `aborted`), `status`, `products` and `items` the
committed rows, `queue` and `tries` what ARQ keeps, `work` what the worker is doing with
a job: `running`, in the `except` branch on a usable session (`failing`) or on one that
needs a rollback (`broken`), or `returned` and not yet acknowledged.

| Code | Actions |
|---|---|
| `ingest_text_endpoint`, `ingest_text` | `Receive`, `RefuseInput`, `IngestText`, `IngestTextFails`, `Answer` |
| `ingest_image_endpoint` | `Receive`, `RefuseInput`, `LookupKey`, `LookupKeyMiss`, `InsertJob`, `EnqueueJob`, `EnqueueJobFails`, `Answer` |
| a handler cut off | `Abort` |
| `process_image_job`, `process_image_pipeline` | `Deliver`, `RunPipeline`, `PipelineRaises`, `FlushFails`, `MarkFailed`, `MarkFailedRaises` |
| ARQ | `Deliver`, `GiveUp`, `Expire`, `Acknowledge`, `LoseWorker`, `JobTimeout` |
| `sweep_stuck_jobs` | `SweepStuckJobs` |

Choices a reader should know:

* A transaction is one step, taken at its commit. Flushed rows are invisible to others
  and vanish with the session, so an interrupted transaction is a step that changes
  nothing in the tables. A step ends at every await whose effect others can see.
* `Faults` says which failures an instance has. `redis_down` may or may not have stored
  the job; `unstorable` is a product the database refuses (an HSN code that is not in
  `hsn_codes`, a confidence above 1, a value too long, a transaction a tool has already
  spoilt), `unconvertible` a price or weight `float()` refuses, `agent_raises` an exception
  the agent does not swallow. `refresh_fails` is everything after a commit that can still
  raise (`ingestion_service.py:234-272`, `ingest.py:128`): the caller gets a 500 for a job
  that is stored. `job_expired` is ARQ's own: the arguments of a job that has waited for a
  day are gone from Redis.
* `LoseWorker` gives back one job at a time. A crash gives back all of them at once, which
  is a sequence of such steps.
* The name of a request is also the name of the job it may create.
* The caller's tenant is given: authentication comes before the handler and has no effect
  on it. 401 and 422 answers are left out, or folded into `RefuseInput`.
* The `ocr_text` row, timings, the error text and the response body are left out.
* `Repaired` says which of the repairs the worker needs it has had. As committed it has had
  none and does not start: `redis_settings` is a client and not a `RedisSettings`
  (`arq_worker.py:61`), the hooks take no context (`:87`, `:92`), and the image's command only
  imports the module. The sweeper does not run either: `cron_config` (`:75`) is no setting of
  ARQ's, and the cutoff (`:34`) is a string compared with a timestamp. `WorkerStarts` and
  `SweeperRuns` guard the steps of the two. `worker_never_starts` has `Repaired = {}` and is a
  finding; every other instance has all repairs, and shows what the parts do once they run.
  The theorems hold for any `Repaired`.
* `ImageStatus` is always `completed`: the pipeline may set `needs_review`, and the task
  sets `completed` in the same transaction before it commits.

**IngestionContract** is the abstract specification, without transactions, queue or worker:
a text is published at once; an image is accepted, then published or failed. Publishing sets
status, product and review items in one step, and of a text exactly the doubtful fields are
reviewed, of an image none; a client is told of a job that exists. `Ingestion` implements it
under the mapping `texts <- textJobs`, `catalogue <- products`, `reviews <- items`,
`told <- toldJob`, the status being its own.

**ExtractionAgent** is one run of the agent: `pass`, `turn` and `left` are the position in
`run()` and `_agent_loop()`, `accumulated`, `candidates` and `ocr` the attributes of the
object, `first` and `result` the results of the passes. Each tool is an action, and
`ToolWithoutEffect` is every call that only produces an answer for the model. `RunRaises` is a
response the loop cannot read (`orchestrator.py:208`, no parts; `:230`, a call without
arguments), which ends the run outside every `try`; `Ingestion` has it as `agent_raises`. Gemini is
unrestricted: any tool, any number of times, in any order, within the turn limit. `seen`
and `offered` are history variables the properties speak of. `verify_hsn` falls back to 85 %
of a score, here rounded down to a thousandth. Confidences may exceed 1 but are numbers: a
model that answers with a string is left out. An HSN code that Gemini wrote into the
argument is kept like any other, and `session` records that a failed query has spoilt the
job's transaction without the agent noticing; `Ingestion` has both as `unstorable`.

**ProductEdit** is the editing of one product, by any number of concurrent PATCH and
resolve calls. Of each call: `call` what it asks, `pc` where its handler stands (`new`,
`product` and `row` before the two statements of a flush, `select` before the query of a
field row, `end`, `done`), `at` the key it is at, and its session: `loaded` the product as
it was read, `wrote` and `stored` what it has flushed and not committed, `dirty` what it
has changed in memory only. `product`, `rows` and `items` are the committed tables, and
`origin` is the product as ingestion left it, which the accept of a review item reads.

| Code | Actions |
|---|---|
| `update_product`: the product query | `NotFound`, `Load` |
| a key that is not in `editable_fields` | `SkipKey` |
| `setattr`, then the flush before the next query or the commit | `FlushProduct`, `ProductRefused`, `FlushRow` |
| the `ProductField` query, and the assignments or the new row | `SelectField` |
| `confidence_overall = 1.0`, the commit, the queries for the answer | `FlushProduct` at the end, `Commit` |
| `resolve_review_item` | `NotFound`, `BadRequest`, `Load`, the same flushes, `FlushItem`, `ItemRefused` |
| PostgreSQL's deadlock detector; a handler cut off | `DeadlockVictim`; `Abort` |

* The isolation is PostgreSQL's default, READ COMMITTED. A flush writes only the columns
  that differ from `loaded`, and sends nothing if none does: so an edit that sets a field to
  the value it has loaded takes no lock (`Changes`). Of a field row, value and mark (source
  and confidence) are compared with the row as it was just read (`Differing`).
* The row a `first()` returns among several is any of them. A row is named for who inserted
  it and its field; nothing in the code depends on the random id it really has.
* A resolve runs three selects before it changes anything, all over rows of one product and
  with nothing flushed in between; they are one `Load`.
* Both handlers query again after the commit, only to answer. With the fault `answer_lost`
  those queries may fail or be cut off: the edit is made and the caller has a 500 or nothing
  (`LOST_ANSWER`). The queries lock nothing and are part of the commit step.
* Values are compared as Python compares them. The instances use text fields; a price,
  which is compared after a conversion by the database, differs in nothing the properties
  speak of.
* A resolve never gets past `ck_review_status`. Its commit is modelled all the same, so that
  the mutated CHECK shows what a repaired constraint alone would let happen
  (`HumanEditsStay`).

**EditContract** is the abstract specification of an edit: it reads the product in one step
(`Read`), and in another one it is applied with every field it sets, or refused and without
effect. A column holds the value asked for if that is not the value read; one the edit merely
confirms keeps what is there, which another edit may have replaced since the read. Each field
it sets has a row with a human's mark. `ProductEdit` implements the contract under `askedOf`,
`outcomeOf`, `readOf`, `shownOf`.

**CatalogueReads** is the reading half, with ingestion and edits as its environment:
`Accept`, `Publish` and `Fail` are the actions of `IngestionContract` (which `Ingestion` is shown
to implement), publishing sets `confidence_overall` besides, and an edit sets it again. A client either walks listings,
with a plan of filters and a page size, or polls jobs.

| Code | Actions |
|---|---|
| `list_products` | `ListProducts` (one page), `NextWalk` (the client's next filter) |
| `get_job_status`, `get_job_product` | `GetJobStatus`, `GetJobProduct` |
| `list_review_items` | `ListReviews` |

* Products are ordered by a random UUID, in no relation to when they were made. The product
  of job number j has number j, and jobs are published in any order.
* Clients change nothing, so they cannot affect each other and one is enough for TLC; the
  proofs have any number.
* `listed`, `twice`, `seen`, `steady` and `before` are history variables of a walk.
* `GetJobProduct` answers 500 for every completed job: `ProductOut` has `FieldValue` fields
  and the handler fills them with plain column values, which pydantic refuses; and 400 for a
  job that is not completed. `JobProductsAsDocumented` is what the docstring says instead.

**MCIngestion**, **MCExtractionAgent**, **MCProductEdit** and **MCCatalogueReads** give the
constants values for TLC. **ReviewRulesProofs**, **IngestionProofs**,
**ExtractionAgentProofs**, **ProductEditProofs** and **CatalogueReadsProofs** hold the theorems.

## 3. Runs

| Run | Configuration | What it shows |
|---|---|---|
| `safety` | `MCIngestion.cfg` | with all ten faults: tables, review queue, answers and outcomes agree; every queued job is accounted for, and one that was given up stays so; the contract is implemented |
| `progress` | `MCIngestionProgress.cfg` | with a repaired worker, every call is answered, every accepted job settles and none is lost on the way, replays create nothing; the two rules of review disagree only in the gap between their thresholds, or over a missing field |
| `agent` | `MCExtractionAgent.cfg` | nothing found is lost, HSN codes come from their pass, a second pass has something to improve and lowers the product's confidence only by fields that are new, the result is an extraction, the run ends |
| `edits` | `MCProductEdit.cfg` | column and row agree where edits change something, rows are doubled only by confirmations, nothing of a refused edit stays, human edits stay; the contract of an edit is implemented; every handler ends |
| `reads` | `MCCatalogueReads.cfg` | walks repeat nothing, miss nothing that stays, and end; later reads do not deny a status that was polled, and tell nothing of other callers' jobs |
| `lost_enqueue` | `LostEnqueue.cfg` | finding: an accepted job that nobody will run |
| `broken_session` | `BrokenSession.cfg` | finding: an exception that does not mark the job failed |
| `swept_orphans` | `SweptOrphans.cfg` | finding: the sweeper looks for a status no orphan has |
| `worker_never_starts` | `WorkerNeverStarts.cfg` | finding: no accepted job settles, because the committed worker does not start |
| `unqueued_fields` | `UnqueuedFields.cfg` | finding: doubtful fields of image products never reach the review queue |
| `unresolvable` | `Unresolvable.cfg` | finding: no review item can be resolved |
| `job_products` | `JobProducts.cfg` | findings: a completed job's product is a 500, a job not completed a 400 instead of a 404 |

Bounds. `safety` has three interchangeable requests, so two callers with one key and a third
with the same key of another tenant, or a text, meet in every order; two job slots let one
job run beside another and a third wait; the two extractions are the empty one (no API key
configured) and one with a doubtful name. Nothing in the code relates more than two jobs,
and only the slot count relates more than one worker slot. `progress` has two requests, the
call without a key, and one slot, so that a job has to wait for the other. It has no fault that
excuses a lost job: `JobsAreAccountedFor` says there that none is. Its five extractions lie on
every side of 0.70 and 0.75: empty, sure, with one doubtful field, mediocre throughout, and
mediocre with a guessed optional field. `agent` has three
turns of at most two calls in each of two passes: enough to read a text, retrieve and
verify, and to do it again in another order; the confidences lie on both sides of 0.95 and of
the 0.75 that decides on a second pass, the rankings on both sides of the 0.80 and 0.05 of
`verify_hsn`. The real limit of eight turns is a constant of the proofs.

`edits` has three calls on a product with two fields, one with a row from ingestion and one
that may have none: two calls are needed to wait for each other or to double a row, the
third to meet what they have left. The calls change both fields, confirm both, change them
in the other order, fail at the second key, or resolve the item. `unresolvable` has two
resolves. `reads` has four jobs, three of the caller's, from texts and an image, and pages
of one and two: pages that are full, cut, and last; the two extractions are a sure product
with a doubtful field, which the listing calls completed and the job needs_review, and a
poor one. A review list has room for two items, so that lists that are cut and lists that
show some item or all of them occur. `job_products` needs two texts' jobs and a client that
only polls.

`CHECK_DEADLOCK FALSE` everywhere: when all calls are answered and all jobs settled the
system has nothing to do, and a finished agent run stays finished.

Fairness. `progress` assumes weak fairness of each handler (the event loop resumes what can
go on), of the worker for each job (ARQ polls its queue; a lost worker is restarted) and of
the sweeper. This is the scheduling of a worker that runs, so `progress` is about a repaired
one. For the worker as committed the assumption is empty, since `WorkerStarts` is false, and
`worker_never_starts` violates the same property. `progress` excludes the faults that cut
things short: with `redis_down`, `unstorable`, `job_timeout`, `job_expired` or a lost worker
`AcceptedJobsSettle` does not hold for a repaired worker either, which `lost_enqueue`,
`broken_session` and `swept_orphans` are about. Only `swept_orphans` uses fairness of the sweeper: the counterexample is a
job the fair sweeper passes by for ever. `agent` assumes that the one caller awaits `run()` to
its end, and that each awaited call returns. `edits` assumes weak fairness of each handler,
its waits for row locks included, and of PostgreSQL's deadlock detector, which runs after
`deadlock_timeout`; without it `EditsEnd` fails in a deadlock. `reads` assumes that a client
asks for the next page as long as it is given a cursor; nothing is assumed of ingestion
or of edits, each of which moves a job or its product only once and so cannot hold a walk up.

Each property has a mutated form of the code (a definition marked "Mutated form") that breaks
it, listed in PROJECT.json under "mutants".

## 4. Findings

1. `ingest.py:127-142`: the row is committed before the enqueue; if Redis fails, the job stays
   queued for ever, and a retry with the same idempotency key is answered 202 with it.
2. `tasks.py:58-73`: after a failed flush the handler commits without `rollback()`, raises, and
   leaves the job queued, against "Marks job failed ... on any exception".
3. `arq_worker.py:35`: the sweeper selects `processing`; image jobs are never committed in that
   status, so the orphans it is there for stay queued.
4. `ingestion_service.py:375`: the review rows of image products are built and dropped.
5. `review.py:164` and `116`: resolve writes the statuses `resolved` and `dismissed`, which
   `ck_review_status` (`review_item.py:30`) refuses: every resolve ends in an error and a
   rollback, against "dismiss: Remove the review item without changes" (`review.py:84`).
6. `arq_worker.py:61`, `:87`, `Dockerfile.worker`: the worker as committed cannot start, so that
   every image call is answered 202 and none of the jobs is ever processed, against
   "processing happens asynchronously via ARQ worker" (`ingest.py:83`).
7. `jobs.py:101`: the product of a completed job is never delivered, against "Get the extracted
   product from a completed job" (`jobs.py:68`) and `README.md:251`.
8. `jobs.py:86`: a job that is not completed gives a 400, against "Returns 404 if the job isn't
   completed" (`jobs.py:70`). Findings 7 and 8 are two cases of one property, and TLC's trace
   shows one of them; both are four steps from the start.

Other things the model shows. The first two depart from a docstring (`review_service.py:90`) and a
comment (`vlm.py:279`), each in one case of one function; no document denies the rest.

* `ingestion_service.py:228` sets a product that a high-severity trigger has flagged, but that has
  no doubtful field, from `needs_review` to `completed`. `FlaggedTextsAreBorderline` says how far
  this goes.
* `vlm.py:289` drops a regex field below 0.95 for any Gemini value, which is not quite the
  "prefer higher confidence" of its comment.
* A second pass of the agent may leave the product less confident than the first one did: the
  merge is field by field, and a new field of low confidence pulls the mean down.
  `SecondPassLowersByNewFields` says that nothing else does.
* Two concurrent calls with one idempotency key may create two jobs (there is no unique
  constraint), and the text endpoint stores its key and never looks it up.
* Two concurrent edits of a field without a row, one of which sets the value the column
  already has, insert a row each, and an edit of this kind may leave a row that contradicts
  the column. `DuplicatesAreConfirmations` and `SerialisedEditsAgree` say that nothing else
  does.
* Two edits may be in a deadlock with each other, if at most one of them changes the product
  with its first key (`DeadlocksNeedConfirmations`); the victim's client gets a 500.
* The listing's `completed` and `needs_review` are bounds on `confidence_overall` and not the
  status of the job: a job in `needs_review` may have its product under `completed`, and an
  edit of any field, of an unknown one too, moves the product there.
* A resolve that the CHECK let through would, on accept, write the value extracted at
  ingestion over a human edit; a mutant of `HumanEditsStay` shows it.

## 5. Proofs

The theorems hold for any set of requests, calls and extractions, any faults and repairs, any number of
job slots, and for the agent any results, rankings, confidences and limits, under the named
assumptions of the modules (`RequestAssumption` and the others: types of the constants, at
least one slot, retrievals ordered and above the threshold).

`ReviewRulesProofs`. The weighted mean is a quotient of two folds over the scored fields, and
what a fold computes needs induction over finite sets. The library's induction theorems cannot
be used here, but well-founded relations can: of all subsets on which a claim fails there is a
least one (`LeastFailure`, from the library's fact that the strict subsets of a finite set are
well-founded), and taking out the element the fold takes leads from it to a smaller one. So
`SumExists` gives a function with the recursion's equations, `SumOnSet` says the fold is that
function, and `SumsCompare` compares two sums term by term. `AggregateIsAMean` follows: for
any scoring, confidences above 1 included, `aggregate_confidence` lies in 0..1 and between any
bounds in 0..1 that its scored fields have, the rounding notwithstanding. `AggregateGrows`
compares two extractions: the sum over the larger one is split into the fields both score and
the new ones (`SumSplit`), each part is bounded from below, and rounding keeps the order
(`RoundedNotBelow`).

`IngestionProofs`. `TypeCorrect` is inductive alone. The rest follows from `PipelineInv`:
`CatalogueMatchesStatus` alone is not inductive, because nothing in it excludes a second
delivery of a job that has published. `PipelineInv` adds what excludes it: until a handler has
enqueued its job ARQ has not heard of it (`HandlerInv`), a job ARQ has not started is untouched,
and one that runs is still queued and has used its only try (`ArqInv`). `AnswerInv` carries
what an answer says from the step that prepared it to the client. `DatabaseSteps` classifies
what a step may do to the tables, and is used throughout.

`JobsAccountedFor` is inductive given `PipelineInv` (`AccountedStep`): each action that takes a
queued job off its way is one of a fault that the property's last two disjuncts name.
`StrandedJobsStayStranded` shows the other side, that no action takes up what is off its way.
`ReplaysCreateNoJob` nests two temporal operators and needs no fairness: `Replays` says that a
call which has found a job is before its answer with a job still to be found, or past it.
`FlaggedTextsBorderline` needs `TriageInv`, that a completed text has no doubtful field and that
no text is ever in ARQ's queue, and `AggregateIsAMean`. In `ContractImplemented` each step is
shown to be a step of the contract or a stutter; that a job the worker publishes is no text, so
that nothing of it is reviewed, is again `TriageInv`.

`ExtractionAgentProofs`. `AgentInv` says where everything the tools have handed over is: in
the accumulation (first pass), or in the best of it and the first result (second pass). It
needs that taking the higher confidence is associative (`BestAssociates`), and that the merge
of the passes, which drops fields at confidence 0, still agrees with it (`MergePassesFields`).
How confidences are aggregated plays no part in it. `AgentReturnsExtractions` adds `RangeInv`,
that everything kept of the tools' answers is in 0..1 if the answers are; it is the assumption
`Ingestion` makes of its extractions (`ExtractionAssumption`). An answer that is not in the range
is refused by the database, the fault `unstorable` there. `AgentDoubts` rests on
`AggregateIsAMean`: a mean below 0.75 has a field below 0.75, or none at all.
`AgentLowersByNewFields` rests on `AggregateGrows` and on the merge keeping the first pass's fields.

`ProductEditProofs`. The theorems hold for any number of calls, any fields, values, products
and database checks. The properties are not inductive: nothing in them says why two edits that
change the product cannot both insert a row. `EditInv` does. `WroteInv`: the columns a session
has flushed include every one it has changed and is past; `LockInv`: one session at a time has
flushed any, because an UPDATE waits for the row. So from its query for a field's row to its
commit a changing edit is alone (`OneChanger`), and finds what the one before has left.
`CellInv` says of each row a session has touched in which cells it differs from the table and
why it still may be written; `NewRowInv` what is not there yet when a session adds a row;
`MadeInv` that an update which is made has marked a row, and given its value to all rows of a
field that is only ever changed. `LocalStep` deals at once with all steps within a session,
which leave the tables alone; `CommitStep` is the rest. From the invariant:
`DeadlocksConfirm`, because in a minimal circle each call is waited for (`AllAreWaitedFor`)
and one whose first key changes the product holds the product row once it holds anything
(`FirstKeyFirst`); and `EditContractImplemented`, where loading the product is the
contract's `Read`, a commit its `Apply`, an error of any kind its `Refuse`, and every other step a
stutter. That a changed value is in the column at the commit is `WroteInv` again.

`CatalogueReadsProofs`. The theorems hold for any finite set of jobs, any number of clients, any
plans and page sizes. `ReadInv` says what a cursor means: a walk has listed only what is at or
above it, and every product that has passed the filter since its first page is listed or below
it. The least element of a page is taken with the library's facts on well-founded relations
(`MinOf`), and that a page is not empty needs `IsFiniteSet(Job)` (`PageIsNotEmpty`).
`ReviewThenCompletedSeesAll` rests on an edit moving products one way only, and `PollsAgree` on an
outcome being final in the tables while a poll goes on. That
`confidence_overall` stays in 0..1 is `AggregateIsAMean`.

TLC checked `PipelineInv`, `AgentInv`, `EditInv` and `ReadInv` as invariants before they were
proved. Only model-checked are the five liveness properties (`CallsAreAnswered`,
`AcceptedJobsSettle`, `RunEnds`, `EditsEnd`, `WalksEnd`), which rest on fairness and so on
ENABLED, and the violations. Every other property of a passing run is a theorem.

## 6. Not modelled

* Authentication: a query that changes nothing before every handler, and a bcrypt check; the
  models take the tenant as given, and nothing in the code revokes a key.
* Bootstrap and seeding: `init_db` builds an `APIKey` with a column the model does not have and
  raises before it has written anything; `seed_hsn` opens a path that does not exist. Neither has a behaviour to check.
* The OCR thread that a timeout leaves behind, and what the shared model object does under two
  threads: it is library code. Its late result is dropped, which `ExtractionAgent` has.
* That the synchronous Gemini calls hold up the event loop: time is not modelled.
* The regular expressions of the text parser, image decoding, embeddings and prompts (string,
  pixel and numeric code without state), ONDC schemas, logging, configuration, the generated
  migrations, and the empty files `product_service.py`, `currency.py`, `eval_pipeline.py` and
  the tests.
* `Ingestion` and `ExtractionAgent` are not composed in one specification: the agent is awaited
  and touches nothing shared but its own session, so `Ingestion` takes its result as a member of
  `Extraction`. The theorem `AgentReturnsExtractions` is the link between the two.
