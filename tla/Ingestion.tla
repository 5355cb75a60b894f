------------------------------ MODULE Ingestion ------------------------------
(***************************************************************************)
(* The ingestion pipeline of KatalogAI: the two POST /ingest handlers, the *)
(* job queue, the ARQ worker that runs process_image_job, and the sweeper. *)
(*                                                                         *)
(* The database is what is COMMITTED: what a session has flushed and not   *)
(* yet committed is seen by nobody else and vanishes with the session, so  *)
(* a transaction is one step, taken when it commits, and an interrupted    *)
(* one leaves no trace.  Steps are cut where the code awaits something     *)
(* other actors see: a commit, a Redis call, an answer.                    *)
(*                                                                         *)
(* Request r can create at most one job, which is named r as well.         *)
(***************************************************************************)
EXTENDS Integers, Sequences, FiniteSets, ReviewRules

CONSTANTS
  Request,      \* the calls clients make; also the names of the jobs
  NoJob,        \* "no job" in an answer
  Calls,        \* what they may ask: [kind, tenant, key], the tenant being an API
                \* key and key the idempotency key of the call
  NoKey,        \* no idempotency key
  Extraction,   \* what the extraction agent may return
  Faults,       \* which of AllFaults may happen
  Repaired,     \* which of AllRepairs the worker has had; as committed, none
  MaxJobs       \* WorkerSettings.max_jobs

AllFaults == {
  "image_rejected",   \* the stored image does not decode or is too small
  "agent_raises",     \* the extraction agent ends with an exception of its own
  "unconvertible",    \* float() refuses an extracted price, weight or volume
  "unstorable",       \* the database refuses the product or its rows
  "redis_down",       \* create_pool or enqueue_job raises
  "refresh_fails",    \* the refresh after a commit, or what is built of it, raises
  "api_abort",        \* a handler stops between two awaits
  "worker_lost",      \* the worker dies, or gives its job back on shutdown
  "job_timeout",      \* ARQ cancels a job that runs too long
  "job_expired"}      \* a job waits in Redis for longer than ARQ keeps it, a day

\* What keeps the committed worker, and with it the sweeper, from running.
AllRepairs == {
  "entry_point",      \* the image's command imports the module and starts no worker
  "redis_settings",   \* a redis client where ARQ reads the host of a RedisSettings
  "hooks",            \* ARQ calls startup with a context, which it does not take
  "cron",             \* cron_config is no setting of ARQ's
  "cutoff"}           \* the sweeper compares a timestamp with a string

ASSUME RequestAssumption == NoJob \notin Request
ASSUME CallsAssumption ==
  \A c \in Calls : /\ DOMAIN c = {"kind", "tenant", "key"}
                   /\ c.kind \in {"text", "image"}
ASSUME ExtractionAssumption == \A e \in Extraction : IsExtraction(e)
ASSUME FaultsAssumption == Faults \subseteq AllFaults
ASSUME RepairedAssumption == Repaired \subseteq AllRepairs
ASSUME MaxJobsAssumption == MaxJobs \in Nat \ {0}

Job == Request

\* "absent": no committed row.  The others are ck_job_status.
Status == {"absent", "queued", "processing", "completed", "failed", "needs_review"}

Stage == {"new", "text", "lookup", "insert", "enqueue", "answer", "done", "aborted"}

\* An answer without a job: 0 is no answer yet.
Refusal(code) == [code |-> code, job |-> NoJob, status |-> "absent"]

NoResponse == Refusal(0)

Response == [code : {201, 202}, job : Job, status : Status]
              \cup {Refusal(code) : code \in {0, 400, 500}}

VARIABLES
  call,       \* what each request asks for
  pc,         \* where its handler stands
  resp,       \* the answer it has prepared, the client's once pc is "done"
  status,     \* ingestion_jobs.status
  products,   \* per job, its products with the confidences of their field rows
  items,      \* per job, the fields with a committed review item
  queue,      \* the jobs whose id is in ARQ's queue
  tries,      \* ARQ's count of the times it has taken up a job
  work        \* what the worker is doing with a job

apiVars == <<call, pc, resp>>
dbVars == <<status, products, items>>
arqVars == <<queue, tries, work>>
vars == <<call, pc, resp, status, products, items, queue, tries, work>>

Init ==
  /\ call \in [Request -> Calls]
  /\ pc = [r \in Request |-> "new"]
  /\ resp = [r \in Request |-> NoResponse]
  /\ status = [j \in Job |-> "absent"]
  /\ products = [j \in Job |-> <<>>]
  /\ items = [j \in Job |-> {}]
  /\ queue = {}
  /\ tries = [j \in Job |-> 0]
  /\ work = [j \in Job |-> "idle"]

Committed(j) == status[j] # "absent"

Settled(j) == status[j] \in {"completed", "failed", "needs_review"}
-----------------------------------------------------------------------------
(* What one ingestion transaction leaves behind for extraction e. *)

\* Mutated form: the status follows should_require_review, as line 219 of
\* ingestion_service.py has it before line 229 overwrites it.
TextStatusByReviewRule(e) ==
  IF ShouldRequireReview(e) THEN "needs_review" ELSE "completed"

\* The needs_review of line 219 is for products without review rows, and
\* line 229 makes exactly those "completed" again.
TextStatus(e) == IF LowFields(e) # {} THEN "needs_review" ELSE "completed"

TextItems(e) == LowFields(e)

\* process_image_pipeline may set needs_review, in the same transaction, and
\* process_image_job then sets "completed" before it commits.
ImageStatus(e) == "completed"

\* process_image_pipeline builds the review rows and never adds them.
ImageItems(e) == {}

Publish(j, e, st, its) ==
  /\ status' = [status EXCEPT ![j] = st]
  /\ products' = [products EXCEPT ![j] = Append(@, FieldRows(e))]
  /\ items' = [items EXCEPT ![j] = its]
-----------------------------------------------------------------------------
(* The handlers of app/api/v1/ingest.py. *)

Prepare(r, response) ==
  /\ pc' = [pc EXCEPT ![r] = "answer"]
  /\ resp' = [resp EXCEPT ![r] = response]

GoTo(r, stage) ==
  /\ pc' = [pc EXCEPT ![r] = stage]
  /\ UNCHANGED resp

\* A well-formed call starts its handler.  Only an image call with an
\* idempotency key looks the key up.
Receive(r) ==
  /\ pc[r] = "new"
  /\ GoTo(r, IF call[r].kind = "text" THEN "text"
             ELSE IF call[r].key = NoKey THEN "insert" ELSE "lookup")
  /\ UNCHANGED <<call, dbVars, arqVars>>

\* An image over 5 MB or of another content type; a blank or too long text
\* (there FastAPI answers 422).
RefuseInput(r) ==
  /\ pc[r] = "new"
  /\ Prepare(r, Refusal(400))
  /\ UNCHANGED <<call, dbVars, arqVars>>

\* ingest_text is one transaction, from the flushed "processing" row to the
\* commit; after it the refreshes and the answer's schema may still raise.  The
\* idempotency key is stored and never looked up.
IngestText(r) ==
  /\ pc[r] = "text"
  /\ \E e \in Extraction :
       /\ Publish(r, e, TextStatus(e), TextItems(e))
       /\ \/ Prepare(r, [code |-> 201, job |-> r, status |-> TextStatus(e)])
          \/ "refresh_fails" \in Faults /\ Prepare(r, Refusal(500))
  /\ UNCHANGED <<call, arqVars>>

\* Any exception before the commit leaves ingest_text with nothing committed.
IngestTextFails(r) ==
  /\ pc[r] = "text"
  /\ Faults \cap {"agent_raises", "unconvertible", "unstorable"} # {}
  /\ Prepare(r, Refusal(500))
  /\ UNCHANGED <<call, dbVars, arqVars>>

\* Mutated form: the lookup forgets whose job it is.
MatchesOfAnyTenant(r) ==
  {j \in Job : Committed(j) /\ call[j].key = call[r].key}

\* Mutated form: the lookup ignores jobs that have failed.
MatchesNotFailed(r) ==
  {j \in Job : /\ Committed(j) /\ status[j] # "failed"
               /\ call[j].tenant = call[r].tenant
               /\ call[j].key = call[r].key}

\* The jobs the SELECT returns: of any kind, in any status.
Matches(r) ==
  {j \in Job : /\ Committed(j)
               /\ call[j].tenant = call[r].tenant
               /\ call[j].key = call[r].key}

\* Mutated form: a replay puts the job it found into the queue.
LookupKeyRequeues(r) ==
  /\ pc[r] = "lookup"
  /\ \E j \in Matches(r) :
       /\ Prepare(r, [code |-> 202, job |-> j, status |-> status[j]])
       /\ queue' = queue \cup {j}
  /\ UNCHANGED <<call, dbVars, tries, work>>

\* Mutated form: a replay of a failed job is left without an answer.
LookupKeyWaits(r) ==
  /\ pc[r] = "lookup"
  /\ \E j \in Matches(r) :
       /\ status[j] # "failed"
       /\ Prepare(r, [code |-> 202, job |-> j, status |-> status[j]])
  /\ UNCHANGED <<call, dbVars, arqVars>>

\* The key is known: answer with a job it found, first() of no particular order.
LookupKey(r) ==
  /\ pc[r] = "lookup"
  /\ \E j \in Matches(r) :
       Prepare(r, [code |-> 202, job |-> j, status |-> status[j]])
  /\ UNCHANGED <<call, dbVars, arqVars>>

LookupKeyMiss(r) ==
  /\ pc[r] = "lookup"
  /\ Matches(r) = {}
  /\ GoTo(r, "insert")
  /\ UNCHANGED <<call, dbVars, arqVars>>

InsertJob(r) ==
  /\ pc[r] = "insert"
  /\ status' = [status EXCEPT ![r] = "queued"]
  /\ GoTo(r, "enqueue")
  /\ UNCHANGED <<call, products, items, arqVars>>

\* Mutated form: the id goes to a list ARQ does not read, as in the unused
\* _enqueue_image_job.
EnqueueElsewhere(r) ==
  /\ pc[r] = "enqueue"
  /\ Prepare(r, [code |-> 202, job |-> r, status |-> "queued"])
  /\ UNCHANGED <<call, dbVars, arqVars>>

EnqueueJob(r) ==
  /\ pc[r] = "enqueue"
  /\ queue' = queue \cup {r}
  /\ Prepare(r, [code |-> 202, job |-> r, status |-> "queued"])
  /\ UNCHANGED <<call, dbVars, tries, work>>

\* The refresh of the committed row raises; or create_pool, enqueue_job or close does,
\* and Redis may hold the job all the same.
EnqueueJobFails(r) ==
  /\ pc[r] = "enqueue"
  /\ \/ "refresh_fails" \in Faults /\ UNCHANGED queue
     \/ "redis_down" \in Faults /\ queue' \in {queue, queue \cup {r}}
  /\ Prepare(r, Refusal(500))
  /\ UNCHANGED <<call, dbVars, tries, work>>

Answer(r) ==
  /\ pc[r] = "answer"
  /\ GoTo(r, "done")
  /\ UNCHANGED <<call, dbVars, arqVars>>

\* The process dies, or an exception nobody expects ends the handler: the
\* session closes, and the client gets no answer.
Abort(r) ==
  /\ "api_abort" \in Faults
  /\ pc[r] \notin {"new", "done", "aborted"}
  /\ pc' = [pc EXCEPT ![r] = "aborted"]
  /\ resp' = [resp EXCEPT ![r] = NoResponse]
  /\ UNCHANGED <<call, dbVars, arqVars>>
-----------------------------------------------------------------------------
(* ARQ and its WorkerSettings. *)

\* As committed, run_worker raises before it has taken a job, if anybody calls it.
WorkerStarts == {"entry_point", "redis_settings", "hooks"} \subseteq Repaired

SweeperRuns == WorkerStarts /\ {"cron", "cutoff"} \subseteq Repaired

\* Mutated form: ARQ may start a job a second time.
max_tries_two == 2

max_tries == 1

\* ARQ's worker polls, and has a slot for a job that waits in the queue.
MayStart(j) ==
  /\ WorkerStarts
  /\ j \in queue /\ work[j] = "idle"
  /\ Cardinality({i \in Job : work[i] # "idle"}) < MaxJobs

\* Mutated form: the count of tries is not compared with max_tries.
DeliverAgain(j) ==
  /\ MayStart(j)
  /\ tries' = [tries EXCEPT ![j] = @ + 1]
  /\ work' = [work EXCEPT ![j] = "running"]
  /\ UNCHANGED <<apiVars, dbVars, queue>>

\* The worker starts the job, and process_image_job finds its row or returns.
Deliver(j) ==
  /\ MayStart(j)
  /\ tries[j] < max_tries
  /\ tries' = [tries EXCEPT ![j] = @ + 1]
  /\ work' = [work EXCEPT ![j] = IF Committed(j) THEN "running" ELSE "returned"]
  /\ UNCHANGED <<apiVars, dbVars, queue>>

\* ARQ drops a job it has started max_tries times, without calling the task.
GiveUp(j) ==
  /\ MayStart(j)
  /\ tries[j] = max_tries
  /\ queue' = queue \ {j}
  /\ UNCHANGED <<apiVars, dbVars, tries, work>>

\* The arguments of the job have expired in Redis: ARQ counts the try and drops the job.
Expire(j) ==
  /\ "job_expired" \in Faults
  /\ MayStart(j)
  /\ tries[j] < max_tries
  /\ tries' = [tries EXCEPT ![j] = @ + 1]
  /\ queue' = queue \ {j}
  /\ UNCHANGED <<apiVars, dbVars, work>>

\* The task has returned or raised: ARQ removes the job.
Acknowledge(j) ==
  /\ work[j] = "returned"
  /\ queue' = queue \ {j}
  /\ work' = [work EXCEPT ![j] = "idle"]
  /\ UNCHANGED <<apiVars, dbVars, tries>>

\* The worker stops with the job in hand: the id stays in the queue.
LoseWorker(j) ==
  /\ "worker_lost" \in Faults
  /\ work[j] # "idle"
  /\ work' = [work EXCEPT ![j] = "idle"]
  /\ UNCHANGED <<apiVars, dbVars, queue, tries>>

\* The CancelledError is no Exception: process_image_job does not catch it.
JobTimeout(j) ==
  /\ "job_timeout" \in Faults
  /\ work[j] \in {"running", "failing", "broken"}
  /\ work' = [work EXCEPT ![j] = "idle"]
  /\ queue' = queue \ {j}
  /\ UNCHANGED <<apiVars, dbVars, tries>>
-----------------------------------------------------------------------------
(* process_image_job of app/workers/tasks.py, from the loaded row on. *)

RunPipeline(j) ==
  /\ work[j] = "running"
  /\ \E e \in Extraction : Publish(j, e, ImageStatus(e), ImageItems(e))
  /\ work' = [work EXCEPT ![j] = "returned"]
  /\ UNCHANGED <<apiVars, queue, tries>>

\* Mutated form: the exception goes past the except branch.
PipelineRaisesUncaught(j) ==
  /\ work[j] = "running"
  /\ Faults \cap {"image_rejected", "agent_raises", "unconvertible"} # {}
  /\ work' = [work EXCEPT ![j] = "returned"]
  /\ UNCHANGED <<apiVars, dbVars, queue, tries>>

\* An exception before the product is flushed: the session is still good.
PipelineRaises(j) ==
  /\ work[j] = "running"
  /\ Faults \cap {"image_rejected", "agent_raises", "unconvertible"} # {}
  /\ work' = [work EXCEPT ![j] = "failing"]
  /\ UNCHANGED <<apiVars, dbVars, queue, tries>>

\* Mutated form: the pipeline commits the product before its field rows.
FlushFailsAfterCommit(j) ==
  /\ work[j] = "running"
  /\ "unstorable" \in Faults
  /\ \E e \in Extraction : products' = [products EXCEPT ![j] = Append(@, e)]
  /\ work' = [work EXCEPT ![j] = "broken"]
  /\ UNCHANGED <<apiVars, status, items, queue, tries>>

\* The database refuses the product (at the flush) or its rows (at the commit):
\* the transaction is rolled back and the session wants a rollback().
FlushFails(j) ==
  /\ work[j] = "running"
  /\ "unstorable" \in Faults
  /\ work' = [work EXCEPT ![j] = "broken"]
  /\ UNCHANGED <<apiVars, dbVars, queue, tries>>

\* The except branch, on a good session.
MarkFailed(j) ==
  /\ work[j] = "failing"
  /\ status' = [status EXCEPT ![j] = "failed"]
  /\ work' = [work EXCEPT ![j] = "returned"]
  /\ UNCHANGED <<apiVars, products, items, queue, tries>>

\* The except branch, on a session that wants a rollback() it never gets:
\* commit() raises PendingRollbackError and the task ends with it.
MarkFailedRaises(j) ==
  /\ work[j] = "broken"
  /\ work' = [work EXCEPT ![j] = "returned"]
  /\ UNCHANGED <<apiVars, dbVars, queue, tries>>
-----------------------------------------------------------------------------
\* sweep_stuck_jobs: of the jobs it finds "processing", those older than the limit
\* (any subset) are failed.
SweepStuckJobs ==
  /\ SweeperRuns
  /\ \E stuck \in SUBSET {j \in Job : status[j] = "processing"} :
       status' = [j \in Job |-> IF j \in stuck THEN "failed" ELSE status[j]]
  /\ UNCHANGED <<apiVars, products, items, arqVars>>

Handler(r) ==
  \/ Receive(r) \/ RefuseInput(r)
  \/ IngestText(r) \/ IngestTextFails(r)
  \/ LookupKey(r) \/ LookupKeyMiss(r) \/ InsertJob(r)
  \/ EnqueueJob(r) \/ EnqueueJobFails(r)
  \/ Answer(r)

Worker(j) ==
  \/ Deliver(j) \/ GiveUp(j) \/ Acknowledge(j)
  \/ RunPipeline(j) \/ PipelineRaises(j) \/ FlushFails(j)
  \/ MarkFailed(j) \/ MarkFailedRaises(j)

Interruption(r) == Abort(r) \/ LoseWorker(r) \/ JobTimeout(r) \/ Expire(r)

Next ==
  \/ \E r \in Request : Handler(r) \/ Worker(r) \/ Interruption(r)
  \/ SweepStuckJobs

Spec == Init /\ [][Next]_vars

\* The event loop runs every handler that can go on.  A worker that starts polls its
\* queue and runs what it finds, and is restarted when it is lost; a sweeper that runs
\* does so every 300 s.  Of the worker as committed this says nothing: WorkerStarts is
\* FALSE and none of its steps is ever enabled.
Fairness ==
  /\ \A r \in Request : WF_vars(Handler(r)) /\ WF_vars(Worker(r))
  /\ WF_vars(SweepStuckJobs)

FairSpec == Spec /\ Fairness
-----------------------------------------------------------------------------
(* Safety *)

ApiTypeOK ==
  /\ call \in [Request -> Calls]
  /\ pc \in [Request -> Stage]
  /\ resp \in [Request -> Response]

DbTypeOK ==
  /\ status \in [Job -> Status]
  /\ products \in [Job -> Seq(Extraction)]
  /\ items \in [Job -> SUBSET Field]

ArqTypeOK ==
  /\ queue \in SUBSET Job
  /\ tries \in [Job -> 0 .. max_tries]
  /\ work \in [Job -> {"idle", "running", "failing", "broken", "returned"}]

\* Every variable keeps its type, and ARQ's count of the tries stays within max_tries.
TypeOK == ApiTypeOK /\ DbTypeOK /\ ArqTypeOK

\* The catalogue and the job table agree: a job that reports success has exactly
\* one product, and one that is queued or failed has none, wherever the task, its
\* exception handler, a timeout or a lost worker cut the work short.
CatalogueMatchesStatus ==
  \A j \in Job :
    Len(products[j]) = IF status[j] \in {"completed", "needs_review"} THEN 1 ELSE 0

\* An answer of success names a committed job of the caller's own API key, either
\* the one this call created or one under the idempotency key it gave; and an
\* outcome it reports is still the outcome when the client reads it.
AnswersAreTrue ==
  \A r \in Request :
    pc[r] = "done" /\ resp[r].code \in {201, 202} =>
      LET j == resp[r].job IN
      /\ j \in Job /\ Committed(j)
      /\ call[j].tenant = call[r].tenant
      /\ j # r => call[r].key # NoKey /\ call[j].key = call[r].key
      /\ resp[r].status # "queued" => status[j] = resp[r].status

\* The review queue and the job table agree: exactly the needs_review jobs have
\* review items, those of the product's fields below the threshold.
ReviewItemsMatchStatus ==
  \A j \in Job :
    IF status[j] = "needs_review"
      THEN items[j] # {} /\ items[j] = LowFields(products[j][1])
      ELSE items[j] = {}

\* A queued job is on its way: its handler is about to enqueue it, ARQ has not started it
\* yet, or the worker has it and will settle it.
OnItsWay(j) ==
  \/ pc[j] = "enqueue"
  \/ j \in queue /\ tries[j] = 0
  \/ work[j] \in {"running", "failing"}

\* Of every queued job it is known where it is.  Only a failing Redis, a failed refresh or a
\* handler cut off between the commit and the enqueue loses one that ARQ has not taken up,
\* and then its own call is not answered with 202; only a refused flush, a timeout, a lost
\* worker or ARQ's expiry leaves one that ARQ has taken up without an outcome.
JobsAreAccountedFor ==
  \A j \in Job : status[j] = "queued" =>
    \/ OnItsWay(j)
    \/ /\ tries[j] = 0 /\ resp[j].code # 202
       /\ Faults \cap {"redis_down", "refresh_fails", "api_abort"} # {}
    \/ /\ tries[j] = max_tries
       /\ Faults \cap {"unstorable", "worker_lost", "job_timeout", "job_expired"} # {}

\* The two rules of review agree but for a gap: a text product that is "completed" although
\* a high-severity trigger fires lacks a required field, or its overall confidence lies
\* between the threshold of the single fields and that of the mean.
FlaggedTextsAreBorderline ==
  \A j \in Job :
    call[j].kind = "text" /\ status[j] = "completed" /\ ShouldRequireReview(products[j][1])
      => \/ MissingRequired(products[j][1]) # {}
         \/ AggregateConfidence(products[j][1]) \in REVIEW_THRESHOLD .. LOW_OVERALL - 1

\* A queued job that neither its handler nor ARQ nor the worker has.
Stranded(j) ==
  status[j] = "queued" /\ pc[j] # "enqueue" /\ j \notin queue /\ work[j] = "idle"

\* Nobody takes up a job that was given up: after a timeout, a lost enqueue or a failed
\* flush no late result is stored, no retry under its key starts it again, and the sweeper
\* does not touch it.
StrandedJobsStay == [][\A j \in Job : Stranded(j) => Stranded(j)']_vars

\* Of OutcomesAreFinal: what a step leaves of a job that has an outcome.
KeepsOutcomes ==
  \A j \in Job : Settled(j) => /\ status'[j] = status[j]
                               /\ products'[j] = products[j]
                               /\ items'[j] = items[j]

\* A job that has an outcome keeps it, with its product and its review items,
\* although ARQ may deliver the job again after the commit.
OutcomesAreFinal == [][KeepsOutcomes]_vars

\* The refinement mapping: the tables are the contract's, and of an answer it sees what
\* the client has.
textJobs == {j \in Job : call[j].kind = "text"}

toldJob == [r \in Request |-> IF pc[r] = "done" THEN resp[r].job ELSE NoJob]

Contract == INSTANCE IngestionContract WITH
  texts <- textJobs, catalogue <- products, reviews <- items, told <- toldJob

\* Ingestion implements its contract: whatever the transactions, the queue and the
\* worker do, jobs are accepted, and published or failed in one step, the status, the product
\* and the review items together.
ImplementsContract == Contract!Spec
-----------------------------------------------------------------------------
(* Safety: how the handlers, the queue, the worker and the tables stay in step *)

\* Before its INSERT commits, a handler has no row; until it has enqueued the job,
\* ARQ has not heard of it.  The stages of the two handlers do not mix.
HandlerInv(r) ==
  /\ pc[r] \in {"new", "text", "lookup", "insert"} => status[r] = "absent"
  /\ pc[r] \in {"new", "text", "lookup", "insert", "enqueue"} =>
       r \notin queue /\ tries[r] = 0
  /\ pc[r] = "enqueue" => status[r] = "queued"
  /\ pc[r] = "text" => call[r].kind = "text"
  /\ pc[r] \in {"lookup", "insert", "enqueue"} => call[r].kind = "image"
  /\ pc[r] = "lookup" => call[r].key # NoKey

\* A job ARQ still has to start is an image job nothing has been done to; one it runs
\* is still in its queue, should the worker be lost; and until the task has returned
\* the row says "queued".
ArqInv(j) ==
  /\ j \in queue /\ tries[j] = 0 => call[j].kind = "image" /\ status[j] = "queued"
  /\ work[j] # "idle" => j \in queue /\ tries[j] = max_tries
  /\ work[j] \in {"running", "failing", "broken"} => status[j] = "queued"

\* The tables agree with each other, and no committed row is "processing".
CatalogueInv(j) ==
  /\ status[j] # "processing"
  /\ IF status[j] \in {"completed", "needs_review"}
       THEN Len(products[j]) = 1 ELSE products[j] = <<>>
  /\ IF status[j] = "needs_review"
       THEN items[j] # {} /\ items[j] = LowFields(products[j][1])
       ELSE items[j] = {}

\* What a prepared answer says stays true while it travels.
AnswerInv(r) ==
  pc[r] \in {"answer", "done"} /\ resp[r].code \in {201, 202} =>
    LET j == resp[r].job IN
    /\ j \in Job /\ Committed(j)
    /\ call[j].tenant = call[r].tenant
    /\ j # r => call[r].key # NoKey /\ call[j].key = call[r].key
    /\ resp[r].status # "queued" => Settled(j) /\ status[j] = resp[r].status

\* The inductive invariant: no handler, delivery, exception, timeout or loss of the
\* worker brings the API's stages, ARQ's bookkeeping and the tables out of step.
PipelineInv ==
  /\ TypeOK
  /\ \A r \in Request :
       HandlerInv(r) /\ ArqInv(r) /\ CatalogueInv(r) /\ AnswerInv(r)
-----------------------------------------------------------------------------
(* Idempotency and progress *)

\* A call that finds a job under its idempotency key never creates another one,
\* whatever became of that job.
ReplaysCreateNothing ==
  \A r \in Request :
    [](pc[r] = "lookup" /\ Matches(r) # {} => [](status[r] = "absent"))

\* While no handler is cut off, every call is answered.
CallsAreAnswered == \A r \in Request : <>(pc[r] = "done")

\* ingest.py:83-84, "processing happens asynchronously via ARQ worker.  Poll the returned
\* job_id to get status and results": every job that was answered with 202 gets an outcome,
\* as long as exceptions leave the session usable and nothing is lost.  Of the worker with
\* all its repairs this is so; of the committed one it is not.
AcceptedJobsSettle ==
  \A r \in Request :
    pc[r] = "done" /\ resp[r].code = 202 ~> \E j \in Job : j = resp[r].job /\ Settled(j)
-----------------------------------------------------------------------------
(* What the documentation says of the code, and the code does not do *)

\* ingest.py:83, "processing happens asynchronously via ARQ worker": a job that was
\* answered with 202, and whose own handler is over, waits in the queue, or the
\* worker has had it.
AcceptedJobsAreScheduled ==
  \A r \in Request :
    pc[r] = "done" /\ resp[r].code = 202 =>
      LET j == resp[r].job IN
      pc[j] \in {"done", "aborted"} => Settled(j) \/ j \in queue \/ tries[j] > 0

\* tasks.py:30, "Marks job failed with sanitized error on any exception": a task
\* that has ended leaves its job with an outcome.
ExceptionsMarkFailed == \A j \in Job : work[j] = "returned" => Settled(j)

\* The worker has started the job, left it without an outcome and lost its id.
Orphaned(j) == tries[j] > 0 /\ work[j] = "idle" /\ j \notin queue /\ ~Settled(j)

\* arq_worker.py:28, "Runs periodically to catch orphaned processing jobs."
OrphansAreSwept == \A j \in Job : Orphaned(j) ~> status[j] = "failed"

\* README.md:76, "Each field gets a score; low-confidence fields enter the human review
\* queue": of a product in the catalogue, every field below the threshold has an item.
LowFieldsAreQueued ==
  \A j \in Job : products[j] # <<>> => LowFields(products[j][1]) \subseteq items[j]
=============================================================================
