--------------------------- MODULE IngestionProofs ---------------------------
(***************************************************************************)
(* Theorems about Ingestion, for every value of its constants.             *)
(***************************************************************************)
EXTENDS Ingestion, ReviewRulesProofs

-----------------------------------------------------------------------------
(* What the shared parts of the actions do to the types *)

\* A handler that prepares a well-formed answer keeps the API's variables typed.
LEMMA PrepareType ==
  ASSUME NEW r \in Request, NEW response \in Response,
         ApiTypeOK, Prepare(r, response), UNCHANGED call
  PROVE  ApiTypeOK'
BY DEF ApiTypeOK, Prepare, Stage

\* A handler that goes on to another of its stages keeps them typed.
LEMMA GoToType ==
  ASSUME NEW r \in Request, NEW stage \in Stage,
         ApiTypeOK, GoTo(r, stage), UNCHANGED call
  PROVE  ApiTypeOK'
BY DEF ApiTypeOK, GoTo

\* The refusals are well-formed answers.
LEMMA RefusalType ==
  {NoResponse, Refusal(400), Refusal(500)} \subseteq Response
BY DEF NoResponse, Response

\* A transaction that publishes an extraction keeps the tables typed.
LEMMA PublishType ==
  ASSUME NEW j \in Job, NEW e \in Extraction, NEW st \in Status,
         NEW its \in SUBSET Field, DbTypeOK, Publish(j, e, st, its)
  PROVE  DbTypeOK'
BY DEF DbTypeOK, Publish, FieldRows

\* The review items of an extraction are fields, and its status is a status.
LEMMA TextOutcomeType ==
  ASSUME NEW e \in Extraction
  PROVE  /\ TextStatus(e) \in {"completed", "needs_review"}
         /\ TextItems(e) \in SUBSET Field
BY ExtractionAssumption DEF TextStatus, TextItems, LowFields, IsExtraction

-----------------------------------------------------------------------------
\* Every variable of the pipeline keeps its type, and ARQ's count of a job's tries
\* never exceeds max_tries.
THEOREM TypeCorrect == Spec => []TypeOK
<1>1. Init => TypeOK
  BY RefusalType DEF Init, TypeOK, ApiTypeOK, DbTypeOK, ArqTypeOK, Stage, Status, Job,
                     max_tries
<1>2. TypeOK /\ [Next]_vars => TypeOK'
  <2> SUFFICES ASSUME TypeOK, [Next]_vars PROVE TypeOK'
    OBVIOUS
  <2>a. dbVars' = dbVars => DbTypeOK'
    BY DEF TypeOK, DbTypeOK, dbVars
  <2>b. arqVars' = arqVars => ArqTypeOK'
    BY DEF TypeOK, ArqTypeOK, arqVars
  <2>c. apiVars' = apiVars => ApiTypeOK'
    BY DEF TypeOK, ApiTypeOK, apiVars
  <2> USE DEF TypeOK, Job
  <2>1. ASSUME NEW r \in Request, Handler(r) PROVE TypeOK'
    <3>1. CASE Receive(r)
      BY <3>1, <2>a, <2>b, GoToType DEF Receive, Stage
    <3>2. CASE RefuseInput(r)
      BY <3>2, <2>a, <2>b, PrepareType, RefusalType DEF RefuseInput
    <3>3. CASE IngestText(r)
      <4>1. PICK e \in Extraction :
              /\ Publish(r, e, TextStatus(e), TextItems(e))
              /\ \/ Prepare(r, [code |-> 201, job |-> r, status |-> TextStatus(e)])
                 \/ Prepare(r, Refusal(500))
        BY <3>3 DEF IngestText
      <4>2. TextStatus(e) \in Status /\ TextItems(e) \in SUBSET Field
        BY TextOutcomeType DEF Status
      <4>3. [code |-> 201, job |-> r, status |-> TextStatus(e)] \in Response
        BY <4>2 DEF Response
      <4> QED
        BY <3>3, <4>1, <4>2, <4>3, <2>b, PublishType, PrepareType, RefusalType DEF IngestText
    <3>4. CASE IngestTextFails(r)
      BY <3>4, <2>a, <2>b, PrepareType, RefusalType DEF IngestTextFails
    <3>5. CASE LookupKey(r)
      <4>1. PICK j \in Matches(r) :
              Prepare(r, [code |-> 202, job |-> j, status |-> status[j]])
        BY <3>5 DEF LookupKey
      <4>2. [code |-> 202, job |-> j, status |-> status[j]] \in Response
        BY DEF Matches, Response, DbTypeOK
      <4> QED
        BY <3>5, <4>1, <4>2, <2>a, <2>b, PrepareType DEF LookupKey
    <3>6. CASE LookupKeyMiss(r)
      BY <3>6, <2>a, <2>b, GoToType DEF LookupKeyMiss, Stage
    <3>7. CASE InsertJob(r)
      <4>1. DbTypeOK'
        BY <3>7 DEF InsertJob, DbTypeOK, Status
      <4> QED
        BY <3>7, <4>1, <2>b, GoToType DEF InsertJob, Stage
    <3>8. CASE EnqueueJob(r)
      <4>1. [code |-> 202, job |-> r, status |-> "queued"] \in Response
        BY DEF Response, Status
      <4>2. ArqTypeOK'
        BY <3>8 DEF EnqueueJob, ArqTypeOK
      <4> QED
        BY <3>8, <4>1, <4>2, <2>a, PrepareType DEF EnqueueJob
    <3>9. CASE EnqueueJobFails(r)
      <4>1. ArqTypeOK'
        BY <3>9 DEF EnqueueJobFails, ArqTypeOK
      <4> QED
        BY <3>9, <4>1, <2>a, PrepareType, RefusalType DEF EnqueueJobFails
    <3>10. CASE Answer(r)
      BY <3>10, <2>a, <2>b, GoToType DEF Answer, Stage
    <3> QED
      BY <2>1, <3>1, <3>2, <3>3, <3>4, <3>5, <3>6, <3>7, <3>8, <3>9, <3>10
      DEF Handler
  <2>2. ASSUME NEW j \in Request, Worker(j) PROVE TypeOK'
    <3>1. CASE Deliver(j)
      <4>1. ArqTypeOK'
        BY <3>1 DEF Deliver, ArqTypeOK, max_tries
      <4> QED
        BY <3>1, <4>1, <2>a, <2>c DEF Deliver
    <3>2. CASE GiveUp(j) \/ Acknowledge(j)
      <4>1. ArqTypeOK'
        BY <3>2 DEF GiveUp, Acknowledge, ArqTypeOK
      <4> QED
        BY <3>2, <4>1, <2>a, <2>c DEF GiveUp, Acknowledge
    <3>3. CASE RunPipeline(j)
      <4>1. PICK e \in Extraction : Publish(j, e, ImageStatus(e), ImageItems(e))
        BY <3>3 DEF RunPipeline
      <4>2. ImageStatus(e) \in Status /\ ImageItems(e) \in SUBSET Field
        BY DEF ImageStatus, ImageItems, Status
      <4>3. ArqTypeOK'
        BY <3>3 DEF RunPipeline, ArqTypeOK
      <4> QED
        BY <3>3, <4>1, <4>2, <4>3, <2>c, PublishType DEF RunPipeline
    <3>4. CASE PipelineRaises(j) \/ FlushFails(j) \/ MarkFailedRaises(j)
      <4>1. ArqTypeOK'
        BY <3>4 DEF PipelineRaises, FlushFails, MarkFailedRaises, ArqTypeOK
      <4> QED
        BY <3>4, <4>1, <2>a, <2>c DEF PipelineRaises, FlushFails, MarkFailedRaises
    <3>5. CASE MarkFailed(j)
      <4>1. ArqTypeOK' /\ DbTypeOK'
        BY <3>5 DEF MarkFailed, ArqTypeOK, DbTypeOK, Status
      <4> QED
        BY <3>5, <4>1, <2>c DEF MarkFailed
    <3> QED
      BY <2>2, <3>1, <3>2, <3>3, <3>4, <3>5 DEF Worker
  <2>3. ASSUME NEW r \in Request, Interruption(r) PROVE TypeOK'
    <3>1. CASE Abort(r)
      <4>1. ApiTypeOK'
        BY <3>1, RefusalType DEF Abort, ApiTypeOK, Stage
      <4> QED
        BY <3>1, <4>1, <2>a, <2>b DEF Abort
    <3>2. CASE LoseWorker(r) \/ JobTimeout(r)
      <4>1. ArqTypeOK'
        BY <3>2 DEF LoseWorker, JobTimeout, ArqTypeOK
      <4> QED
        BY <3>2, <4>1, <2>a, <2>c DEF LoseWorker, JobTimeout
    <3>3. CASE Expire(r)
      <4>1. ArqTypeOK'
        BY <3>3 DEF Expire, ArqTypeOK, max_tries
      <4> QED
        BY <3>3, <4>1, <2>a, <2>c DEF Expire
    <3> QED
      BY <2>3, <3>1, <3>2, <3>3 DEF Interruption
  <2>4. CASE SweepStuckJobs
    <3>1. DbTypeOK'
      BY <2>4 DEF SweepStuckJobs, DbTypeOK, Status
    <3> QED
      BY <2>4, <3>1, <2>b, <2>c DEF SweepStuckJobs
  <2>5. CASE UNCHANGED vars
    BY <2>5, <2>a, <2>b, <2>c DEF vars, apiVars, dbVars, arqVars
  <2> QED
    BY <2>1, <2>2, <2>3, <2>4, <2>5 DEF Next
<1> QED
  BY <1>1, <1>2, PTL DEF Spec


-----------------------------------------------------------------------------
(* The inductive invariant *)

\* Which actions can change the tables; the others leave all three alone.
LEMMA DatabaseSteps ==
  ASSUME Next
  PROVE  \/ UNCHANGED dbVars
         \/ \E r \in Request : IngestText(r) \/ InsertJob(r)
         \/ \E j \in Request : RunPipeline(j) \/ MarkFailed(j)
         \/ SweepStuckJobs
BY DEF Next, Handler, Worker, Interruption, Receive, RefuseInput, IngestTextFails,
       LookupKey, LookupKeyMiss, EnqueueJob, EnqueueJobFails, Answer, Deliver, GiveUp,
       Acknowledge, PipelineRaises, FlushFails, MarkFailedRaises, Abort, LoseWorker,
       JobTimeout, Expire

\* The extraction a transaction publishes becomes the job's one product, if the job
\* had none, and the review items are its low fields or none.
LEMMA PublishOnce ==
  ASSUME NEW j \in Job, NEW e \in Extraction, NEW st \in Status, NEW its \in SUBSET Field,
         DbTypeOK, products[j] = <<>>, Publish(j, e, st, its)
  PROVE  /\ status'[j] = st /\ items'[j] = its
         /\ Len(products'[j]) = 1 /\ products'[j][1] = e
         /\ \A i \in Job \ {j} : /\ status'[i] = status[i]
                                 /\ products'[i] = products[i]
                                 /\ items'[i] = items[i]
BY DEF DbTypeOK, Publish, FieldRows

\* A committed row stays, an outcome stays, and the tables stay in step.
LEMMA CatalogueStep ==
  ASSUME PipelineInv, [Next]_vars, NEW j \in Job
  PROVE  /\ CatalogueInv(j)'
         /\ Committed(j) => Committed(j)'
         /\ Settled(j) => /\ status'[j] = status[j]
                          /\ products'[j] = products[j]
                          /\ items'[j] = items[j]
<1> USE DEF Job
<1>0. CatalogueInv(j) /\ TypeOK /\ DbTypeOK
  BY DEF PipelineInv, TypeOK
<1>1. CASE UNCHANGED dbVars
  BY <1>0, <1>1 DEF CatalogueInv, Committed, dbVars
<1>2. ASSUME NEW r \in Request, IngestText(r)
      PROVE  /\ CatalogueInv(j)'
             /\ Committed(j) => Committed(j)'
             /\ Settled(j) => /\ status'[j] = status[j]
                              /\ products'[j] = products[j]
                              /\ items'[j] = items[j]
  <2>1. status[r] = "absent" /\ products[r] = <<>>
    BY <1>2 DEF IngestText, PipelineInv, HandlerInv, CatalogueInv
  <2>2. PICK e \in Extraction : Publish(r, e, TextStatus(e), TextItems(e))
    BY <1>2 DEF IngestText
  <2>3. TextStatus(e) \in Status /\ TextItems(e) \in SUBSET Field
    BY TextOutcomeType DEF Status
  <2>4. /\ status'[r] = TextStatus(e) /\ items'[r] = TextItems(e)
        /\ Len(products'[r]) = 1 /\ products'[r][1] = e
        /\ \A i \in Job \ {r} : /\ status'[i] = status[i]
                                /\ products'[i] = products[i]
                                /\ items'[i] = items[i]
    BY <1>0, <2>1, <2>2, <2>3, PublishOnce
  <2>5. CatalogueInv(r)'
    BY <2>4 DEF CatalogueInv, TextStatus, TextItems
  <2> QED
    BY <1>0, <2>1, <2>4, <2>5, TextOutcomeType DEF CatalogueInv, Committed, Settled
<1>3. ASSUME NEW r \in Request, InsertJob(r)
      PROVE  /\ CatalogueInv(j)'
             /\ Committed(j) => Committed(j)'
             /\ Settled(j) => /\ status'[j] = status[j]
                              /\ products'[j] = products[j]
                              /\ items'[j] = items[j]
  <2>1. status[r] = "absent"
    BY <1>3 DEF InsertJob, PipelineInv, HandlerInv
  <2> QED
    BY <1>0, <1>3, <2>1 DEF InsertJob, CatalogueInv, Committed, Settled, DbTypeOK
<1>4. ASSUME NEW r \in Request, RunPipeline(r)
      PROVE  /\ CatalogueInv(j)'
             /\ Committed(j) => Committed(j)'
             /\ Settled(j) => /\ status'[j] = status[j]
                              /\ products'[j] = products[j]
                              /\ items'[j] = items[j]
  <2>1. status[r] = "queued" /\ products[r] = <<>>
    BY <1>4 DEF RunPipeline, PipelineInv, ArqInv, CatalogueInv
  <2>2. PICK e \in Extraction : Publish(r, e, "completed", {})
    BY <1>4 DEF RunPipeline, ImageStatus, ImageItems
  <2>3. /\ status'[r] = "completed" /\ items'[r] = {}
        /\ Len(products'[r]) = 1
        /\ \A i \in Job \ {r} : /\ status'[i] = status[i]
                                /\ products'[i] = products[i]
                                /\ items'[i] = items[i]
    BY <1>0, <2>1, <2>2, PublishOnce DEF Status
  <2> QED
    BY <1>0, <2>1, <2>3 DEF CatalogueInv, Committed, Settled
<1>5. ASSUME NEW r \in Request, MarkFailed(r)
      PROVE  /\ CatalogueInv(j)'
             /\ Committed(j) => Committed(j)'
             /\ Settled(j) => /\ status'[j] = status[j]
                              /\ products'[j] = products[j]
                              /\ items'[j] = items[j]
  <2>1. status[r] = "queued"
    BY <1>5 DEF MarkFailed, PipelineInv, ArqInv
  <2> QED
    BY <1>0, <1>5, <2>1 DEF MarkFailed, CatalogueInv, Committed, Settled, DbTypeOK
<1>6. CASE SweepStuckJobs
  <2>1. \A i \in Job : status[i] # "processing"
    BY DEF PipelineInv, CatalogueInv
  <2>2. UNCHANGED dbVars
    BY <1>0, <1>6, <2>1 DEF SweepStuckJobs, dbVars, DbTypeOK
  <2> QED
    BY <1>1, <2>2
<1>7. CASE UNCHANGED vars
  BY <1>1, <1>7 DEF vars, dbVars
<1> QED
  BY <1>1, <1>2, <1>3, <1>4, <1>5, <1>6, <1>7, DatabaseSteps

\* A handler's stage tells what its row and ARQ know of its job.
LEMMA HandlerStep ==
  ASSUME PipelineInv, [Next]_vars, NEW r \in Request
  PROVE  HandlerInv(r)'
<1> USE DEF Job
<1>0. /\ HandlerInv(r) /\ ArqInv(r) /\ CatalogueInv(r)
      /\ ApiTypeOK /\ DbTypeOK /\ ArqTypeOK
  BY DEF PipelineInv, TypeOK
<1>1. ASSUME NEW s \in Request, Handler(s) PROVE HandlerInv(r)'
  <2>1. CASE Receive(s)
    <3>1. call[s].kind \in {"text", "image"}
      BY <1>0, CallsAssumption DEF ApiTypeOK
    <3> QED
      BY <1>0, <2>1, <3>1
      DEF Receive, GoTo, HandlerInv, ApiTypeOK, dbVars, arqVars
  <2>2. CASE \/ RefuseInput(s) \/ IngestTextFails(s) \/ LookupKey(s)
    BY <1>0, <2>2 DEF RefuseInput, IngestTextFails, LookupKey, Prepare, HandlerInv,
                      ApiTypeOK, dbVars, arqVars
  <2>3. CASE IngestText(s)
    <3>1. PICK e \in Extraction :
            /\ Publish(s, e, TextStatus(e), TextItems(e))
            /\ \E answer : Prepare(s, answer)
      BY <2>3 DEF IngestText
    <3> QED
      BY <1>0, <2>3, <3>1 DEF IngestText, Publish, Prepare, HandlerInv, ApiTypeOK,
                              DbTypeOK, arqVars
  <2>4. CASE LookupKeyMiss(s) \/ Answer(s)
    BY <1>0, <2>4 DEF LookupKeyMiss, Answer, GoTo, HandlerInv, ApiTypeOK, dbVars, arqVars
  <2>5. CASE InsertJob(s)
    BY <1>0, <2>5 DEF InsertJob, GoTo, HandlerInv, ApiTypeOK, DbTypeOK, arqVars
  <2>6. CASE EnqueueJob(s) \/ EnqueueJobFails(s)
    BY <1>0, <2>6 DEF EnqueueJob, EnqueueJobFails, Prepare, HandlerInv, ApiTypeOK, dbVars
  <2> QED
    BY <1>1, <2>1, <2>2, <2>3, <2>4, <2>5, <2>6 DEF Handler
<1>2. ASSUME NEW j \in Request, Worker(j) PROVE HandlerInv(r)'
  <2>1. CASE Deliver(j) \/ GiveUp(j) \/ Acknowledge(j)
    BY <1>0, <2>1 DEF Deliver, GiveUp, Acknowledge, MayStart, HandlerInv, ArqTypeOK, apiVars,
                      dbVars
  <2>2. CASE PipelineRaises(j) \/ FlushFails(j) \/ MarkFailedRaises(j)
    BY <1>0, <2>2 DEF PipelineRaises, FlushFails, MarkFailedRaises, HandlerInv, apiVars,
                      dbVars
  <2>3. CASE RunPipeline(j)
    <3>1. j \in queue /\ tries[j] # 0
      BY <2>3 DEF RunPipeline, PipelineInv, ArqInv, max_tries
    <3>2. \A i \in Job \ {j} : status'[i] = status[i]
      BY <1>0, <2>3 DEF RunPipeline, Publish, DbTypeOK
    <3> QED
      BY <1>0, <2>3, <3>1, <3>2 DEF RunPipeline, HandlerInv, apiVars
  <2>4. CASE MarkFailed(j)
    <3>1. j \in queue /\ tries[j] # 0
      BY <2>4 DEF MarkFailed, PipelineInv, ArqInv, max_tries
    <3> QED
      BY <1>0, <2>4, <3>1 DEF MarkFailed, HandlerInv, DbTypeOK, apiVars
  <2> QED
    BY <1>2, <2>1, <2>2, <2>3, <2>4 DEF Worker
<1>3. ASSUME NEW j \in Request, Interruption(j) PROVE HandlerInv(r)'
  <2>1. CASE Abort(j)
    BY <1>0, <2>1 DEF Abort, HandlerInv, ApiTypeOK, dbVars, arqVars
  <2>2. CASE LoseWorker(j) \/ JobTimeout(j) \/ Expire(j)
    BY <1>0, <2>2 DEF LoseWorker, JobTimeout, Expire, MayStart, HandlerInv, ArqTypeOK,
                      apiVars, dbVars
  <2> QED
    BY <1>3, <2>1, <2>2 DEF Interruption
<1>4. CASE SweepStuckJobs
  <2>1. status[r] # "processing" /\ status'[r] = status[r]
    BY <1>0, <1>4 DEF CatalogueInv, SweepStuckJobs, DbTypeOK
  <2> QED
    BY <1>0, <1>4, <2>1 DEF SweepStuckJobs, HandlerInv, apiVars, arqVars
<1>5. CASE UNCHANGED vars
  BY <1>0, <1>5 DEF HandlerInv, vars
<1> QED
  BY <1>1, <1>2, <1>3, <1>4, <1>5 DEF Next

\* ARQ's bookkeeping of a job agrees with the job's row.
LEMMA ArqStep ==
  ASSUME PipelineInv, [Next]_vars, NEW i \in Job
  PROVE  ArqInv(i)'
<1> USE DEF Job
<1>0. /\ HandlerInv(i) /\ ArqInv(i) /\ CatalogueInv(i)
      /\ ApiTypeOK /\ DbTypeOK /\ ArqTypeOK
  BY DEF PipelineInv, TypeOK
<1>1. ASSUME NEW s \in Request, Handler(s) PROVE ArqInv(i)'
  <2>1. HandlerInv(s)
    BY DEF PipelineInv
  <2>2. CASE \/ Receive(s) \/ RefuseInput(s) \/ IngestTextFails(s)
             \/ LookupKey(s) \/ LookupKeyMiss(s) \/ Answer(s)
    BY <1>0, <2>2 DEF Receive, RefuseInput, IngestTextFails, LookupKey, LookupKeyMiss,
                      Answer, ArqInv, dbVars, arqVars
  <2>3. CASE IngestText(s)
    <3>1. s \notin queue /\ work[s] = "idle"
      BY <2>1, <2>3 DEF IngestText, HandlerInv, PipelineInv, ArqInv
    <3>2. \A k \in Job \ {s} : status'[k] = status[k]
      BY <1>0, <2>3 DEF IngestText, Publish, DbTypeOK
    <3> QED
      BY <1>0, <2>3, <3>1, <3>2 DEF IngestText, ArqInv, arqVars
  <2>4. CASE InsertJob(s)
    <3>1. s \notin queue /\ work[s] = "idle"
      BY <2>1, <2>4 DEF InsertJob, HandlerInv, PipelineInv, ArqInv
    <3> QED
      BY <1>0, <2>4, <3>1 DEF InsertJob, ArqInv, DbTypeOK, arqVars
  <2>5. CASE EnqueueJob(s) \/ EnqueueJobFails(s)
    <3>1. call[s].kind = "image" /\ status[s] = "queued"
      BY <2>1, <2>5 DEF EnqueueJob, EnqueueJobFails, HandlerInv
    <3> QED
      BY <1>0, <2>5, <3>1 DEF EnqueueJob, EnqueueJobFails, ArqInv, ArqTypeOK, dbVars
  <2> QED
    BY <1>1, <2>2, <2>3, <2>4, <2>5 DEF Handler
<1>2. ASSUME NEW j \in Request, Worker(j) PROVE ArqInv(i)'
  <2>1. ArqInv(j) /\ tries[j] \in 0 .. max_tries
    BY <1>0 DEF PipelineInv, ArqTypeOK
  <2>2. CASE Deliver(j)
    BY <1>0, <2>1, <2>2 DEF Deliver, MayStart, ArqInv, ArqTypeOK, apiVars, dbVars, max_tries
  <2>3. CASE GiveUp(j) \/ Acknowledge(j)
    BY <1>0, <2>3 DEF GiveUp, Acknowledge, MayStart, ArqInv, ArqTypeOK, apiVars, dbVars
  <2>4. CASE PipelineRaises(j) \/ FlushFails(j) \/ MarkFailedRaises(j)
    BY <1>0, <2>1, <2>4 DEF PipelineRaises, FlushFails, MarkFailedRaises, ArqInv,
                            ArqTypeOK, apiVars, dbVars
  <2>5. CASE RunPipeline(j)
    <3>1. \A k \in Job \ {j} : status'[k] = status[k]
      BY <1>0, <2>5 DEF RunPipeline, Publish, DbTypeOK
    <3> QED
      BY <1>0, <2>1, <2>5, <3>1 DEF RunPipeline, ArqInv, ArqTypeOK, apiVars, max_tries
  <2>6. CASE MarkFailed(j)
    BY <1>0, <2>1, <2>6 DEF MarkFailed, ArqInv, ArqTypeOK, DbTypeOK, apiVars, max_tries
  <2> QED
    BY <1>2, <2>2, <2>3, <2>4, <2>5, <2>6 DEF Worker
<1>3. ASSUME NEW j \in Request, Interruption(j) PROVE ArqInv(i)'
  BY <1>0, <1>3 DEF Interruption, Abort, LoseWorker, JobTimeout, Expire, MayStart, ArqInv,
                    ArqTypeOK, apiVars, dbVars, arqVars
<1>4. CASE SweepStuckJobs
  <2>1. status[i] # "processing" /\ status'[i] = status[i]
    BY <1>0, <1>4 DEF CatalogueInv, SweepStuckJobs, DbTypeOK
  <2> QED
    BY <1>0, <1>4, <2>1 DEF SweepStuckJobs, ArqInv, apiVars, arqVars
<1>5. CASE UNCHANGED vars
  BY <1>0, <1>5 DEF ArqInv, vars
<1> QED
  BY <1>1, <1>2, <1>3, <1>4, <1>5 DEF Next

\* A step that leaves a request's answer alone leaves it true.
LEMMA AnswerKept ==
  ASSUME PipelineInv, [Next]_vars, NEW r \in Request, UNCHANGED call,
         resp'[r] = resp[r], pc'[r] \in {"answer", "done"} => pc[r] \in {"answer", "done"}
  PROVE  AnswerInv(r)'
<1> SUFFICES ASSUME (pc[r] \in {"answer", "done"} /\ resp[r].code \in {201, 202})'
             PROVE  LET j == resp[r].job IN
                    /\ j \in Job /\ Committed(j)'
                    /\ call'[j].tenant = call'[r].tenant
                    /\ j # r => call'[r].key # NoKey /\ call'[j].key = call'[r].key
                    /\ resp[r].status # "queued" =>
                         Settled(j)' /\ status'[j] = resp[r].status
  BY DEF AnswerInv
<1>1. AnswerInv(r)
  BY DEF PipelineInv
<1>2. pc[r] \in {"answer", "done"} /\ resp[r].code \in {201, 202}
  OBVIOUS
<1> DEFINE j == resp[r].job
<1>3. /\ j \in Job /\ Committed(j)
      /\ call[j].tenant = call[r].tenant
      /\ j # r => call[r].key # NoKey /\ call[j].key = call[r].key
      /\ resp[r].status # "queued" => Settled(j) /\ status[j] = resp[r].status
  BY <1>1, <1>2 DEF AnswerInv
<1>4. /\ Committed(j)'
      /\ Settled(j) => Settled(j)' /\ status'[j] = status[j]
  BY <1>3, CatalogueStep DEF Settled
<1> QED
  BY <1>3, <1>4

\* What a prepared answer says stays true while it travels.
LEMMA AnswerStep ==
  ASSUME PipelineInv, [Next]_vars, NEW r \in Request
  PROVE  AnswerInv(r)'
<1> USE DEF Job
<1>0. ApiTypeOK /\ DbTypeOK /\ HandlerInv(r)
  BY DEF PipelineInv, TypeOK
<1>1. ASSUME NEW s \in Request, Handler(s), s # r PROVE AnswerInv(r)'
  <2>1. /\ UNCHANGED call
        /\ pc'[r] = pc[r] /\ resp'[r] = resp[r]
    BY <1>0, <1>1 DEF Handler, Receive, RefuseInput, IngestText, IngestTextFails,
         LookupKey, LookupKeyMiss, InsertJob, EnqueueJob, EnqueueJobFails, Answer,
         Prepare, GoTo, ApiTypeOK
  <2> QED
    BY <2>1, AnswerKept
<1>2. ASSUME Handler(r) PROVE AnswerInv(r)'
  <2>1. CASE Receive(r) \/ LookupKeyMiss(r) \/ InsertJob(r) \/ Answer(r)
    <3>1. /\ UNCHANGED <<call, resp>>
          /\ pc'[r] \in {"answer", "done"} => pc[r] \in {"answer", "done"}
      BY <1>0, <2>1 DEF Receive, LookupKeyMiss, InsertJob, Answer, GoTo, ApiTypeOK
    <3> QED
      BY <3>1, AnswerKept
  <2>2. CASE RefuseInput(r) \/ IngestTextFails(r) \/ EnqueueJobFails(r)
    <3>1. resp'[r].code \notin {201, 202}
      BY <1>0, <2>2 DEF RefuseInput, IngestTextFails, EnqueueJobFails, Prepare, Refusal,
                        ApiTypeOK
    <3> QED
      BY <3>1 DEF AnswerInv
  <2>3. CASE IngestText(r)
    <3>1. PICK e \in Extraction :
            /\ Publish(r, e, TextStatus(e), TextItems(e))
            /\ \/ Prepare(r, [code |-> 201, job |-> r, status |-> TextStatus(e)])
               \/ Prepare(r, Refusal(500))
      BY <2>3 DEF IngestText
    <3>2. /\ \/ resp'[r] = [code |-> 201, job |-> r, status |-> TextStatus(e)]
             \/ resp'[r].code = 500
          /\ status'[r] = TextStatus(e)
      BY <1>0, <3>1 DEF Publish, Prepare, Refusal, ApiTypeOK, DbTypeOK
    <3>3. TextStatus(e) \in {"completed", "needs_review"}
      BY TextOutcomeType
    <3> QED
      BY <3>2, <3>3 DEF AnswerInv, Committed, Settled
  <2>4. CASE LookupKey(r)
    <3>1. PICK j \in Matches(r) :
            Prepare(r, [code |-> 202, job |-> j, status |-> status[j]])
      BY <2>4 DEF LookupKey
    <3>2. /\ resp'[r] = [code |-> 202, job |-> j, status |-> status[j]]
          /\ UNCHANGED <<call, status>>
      BY <1>0, <2>4, <3>1 DEF LookupKey, Prepare, ApiTypeOK, dbVars
    <3>3. /\ j \in Job /\ Committed(j)
          /\ call[j].tenant = call[r].tenant /\ call[j].key = call[r].key
      BY DEF Matches
    <3>4. call[r].key # NoKey
      BY <1>0, <2>4 DEF LookupKey, HandlerInv
    <3>5. status[j] # "processing" /\ status[j] \in Status
      BY <1>0, <3>3 DEF PipelineInv, CatalogueInv, DbTypeOK
    <3> QED
      BY <3>2, <3>3, <3>4, <3>5 DEF AnswerInv, Committed, Settled, Status
  <2>5. CASE EnqueueJob(r)
    <3>1. /\ resp'[r] = [code |-> 202, job |-> r, status |-> "queued"]
          /\ status[r] = "queued" /\ UNCHANGED status
      BY <1>0, <2>5 DEF EnqueueJob, Prepare, HandlerInv, ApiTypeOK, dbVars
    <3> QED
      BY <3>1 DEF AnswerInv, Committed
  <2> QED
    BY <1>2, <2>1, <2>2, <2>3, <2>4, <2>5 DEF Handler
<1>3. ASSUME NEW j \in Request, Worker(j) PROVE AnswerInv(r)'
  <2>1. UNCHANGED <<call, pc, resp>>
    BY <1>3 DEF Worker, Deliver, GiveUp, Acknowledge, RunPipeline, PipelineRaises,
                FlushFails, MarkFailed, MarkFailedRaises, apiVars
  <2> QED
    BY <2>1, AnswerKept
<1>4. ASSUME NEW j \in Request, Interruption(j) PROVE AnswerInv(r)'
  <2>1. CASE Abort(j)
    <3>1. CASE j = r
      BY <1>0, <2>1, <3>1 DEF Abort, AnswerInv, ApiTypeOK
    <3>2. CASE j # r
      <4>1. UNCHANGED call /\ pc'[r] = pc[r] /\ resp'[r] = resp[r]
        BY <1>0, <2>1, <3>2 DEF Abort, ApiTypeOK
      <4> QED
        BY <4>1, AnswerKept
    <3> QED
      BY <3>1, <3>2
  <2>2. CASE LoseWorker(j) \/ JobTimeout(j) \/ Expire(j)
    <3>1. UNCHANGED <<call, pc, resp>>
      BY <2>2 DEF LoseWorker, JobTimeout, Expire, apiVars
    <3> QED
      BY <3>1, AnswerKept
  <2> QED
    BY <1>4, <2>1, <2>2 DEF Interruption
<1>5. CASE SweepStuckJobs \/ UNCHANGED vars
  <2>1. UNCHANGED <<call, pc, resp>>
    BY <1>5 DEF SweepStuckJobs, apiVars, vars
  <2> QED
    BY <2>1, AnswerKept
<1> QED
  BY <1>1, <1>2, <1>3, <1>4, <1>5 DEF Next

\* The invariant from which the results below follow is inductive.
THEOREM PipelineInvariant == Spec => []PipelineInv
<1>1. Init => PipelineInv
  <2> SUFFICES ASSUME Init PROVE PipelineInv
    OBVIOUS
  <2>1. TypeOK
    BY RefusalType DEF Init, TypeOK, ApiTypeOK, DbTypeOK, ArqTypeOK, Stage, Status, Job,
                       max_tries
  <2>2. ASSUME NEW r \in Request
        PROVE  HandlerInv(r) /\ ArqInv(r) /\ CatalogueInv(r) /\ AnswerInv(r)
    BY DEF Init, HandlerInv, ArqInv, CatalogueInv, AnswerInv, NoResponse, Refusal,
           Job
  <2> QED
    BY <2>1, <2>2 DEF PipelineInv
<1>2. PipelineInv /\ [Next]_vars /\ TypeOK' => PipelineInv'
  BY HandlerStep, ArqStep, CatalogueStep, AnswerStep DEF PipelineInv, Job
<1> QED
  BY <1>1, <1>2, TypeCorrect, PTL DEF Spec

-----------------------------------------------------------------------------
(* What follows from it *)

\* A job that reports success has exactly one product, any other has none.
THEOREM CatalogueCorrect == Spec => []CatalogueMatchesStatus
<1>0. Len(<<>>) = 0
  OBVIOUS
<1>1. PipelineInv => CatalogueMatchesStatus
  BY <1>0 DEF PipelineInv, CatalogueInv, CatalogueMatchesStatus, Job
<1> QED
  BY <1>1, PipelineInvariant, PTL

\* Exactly the jobs that need a review have review items, those of the low fields.
THEOREM ReviewItemsCorrect == Spec => []ReviewItemsMatchStatus
<1>1. PipelineInv => ReviewItemsMatchStatus
  BY DEF PipelineInv, CatalogueInv, ReviewItemsMatchStatus, Job
<1> QED
  BY <1>1, PipelineInvariant, PTL

\* An answer of success names a job of the caller, and tells its outcome truly.
THEOREM AnswersCorrect == Spec => []AnswersAreTrue
<1>1. PipelineInv => AnswersAreTrue
  BY DEF PipelineInv, AnswerInv, AnswersAreTrue
<1> QED
  BY <1>1, PipelineInvariant, PTL

\* No retry, exception handler, timeout or sweep changes an outcome.
THEOREM OutcomesFinal == Spec => OutcomesAreFinal
<1>1. PipelineInv /\ [Next]_vars => [KeepsOutcomes]_vars
  BY CatalogueStep DEF KeepsOutcomes
<1> QED
  BY <1>1, PipelineInvariant, PTL DEF Spec, OutcomesAreFinal

-----------------------------------------------------------------------------
(* What becomes of jobs that are not settled *)

\* A step leaves what its actor does not hold alone: a queued row is changed by the worker
\* that runs the job and by nobody else.
LEMMA QueuedRowStep ==
  ASSUME PipelineInv, [Next]_vars, NEW j \in Job, status[j] # "absent",
         work[j] \notin {"running", "failing"}
  PROVE  status'[j] = status[j]
<1> USE DEF Job
<1>0. DbTypeOK /\ HandlerInv(j) /\ \A i \in Job : status[i] # "processing"
  BY DEF PipelineInv, TypeOK, CatalogueInv
<1>1. CASE UNCHANGED dbVars
  BY <1>1 DEF dbVars
<1>2. ASSUME NEW r \in Request, IngestText(r) \/ InsertJob(r) PROVE status'[j] = status[j]
  <2>1. r # j
    BY <1>0, <1>2 DEF IngestText, InsertJob, HandlerInv
  <2> QED
    BY <1>0, <1>2, <2>1 DEF IngestText, InsertJob, Publish, DbTypeOK
<1>3. ASSUME NEW i \in Job, RunPipeline(i) \/ MarkFailed(i) PROVE status'[j] = status[j]
  <2>1. i # j
    BY <1>3 DEF RunPipeline, MarkFailed
  <2> QED
    BY <1>0, <1>3, <2>1 DEF RunPipeline, MarkFailed, Publish, DbTypeOK
<1>4. CASE SweepStuckJobs
  BY <1>0, <1>4 DEF SweepStuckJobs, DbTypeOK
<1>5. CASE UNCHANGED vars
  BY <1>5 DEF vars
<1> QED
  BY <1>1, <1>2, <1>3, <1>4, <1>5, DatabaseSteps

\* Only its own handler enqueues a job, and only ARQ's deliveries are counted.
LEMMA StrandedStep ==
  ASSUME PipelineInv, [Next]_vars, NEW j \in Job, Stranded(j)
  PROVE  Stranded(j)'
<1> USE DEF Job
<1>0. ApiTypeOK /\ ArqTypeOK /\ HandlerInv(j)
  BY DEF PipelineInv, TypeOK
<1>1. status'[j] = "queued"
  BY QueuedRowStep DEF Stranded
<1>2. ASSUME NEW r \in Request, Handler(r)
      PROVE  pc'[j] # "enqueue" /\ j \notin queue' /\ work'[j] = "idle"
  <2>1. pc[j] \notin {"insert", "enqueue"}
    BY <1>0 DEF Stranded, HandlerInv
  <2> QED
    BY <1>0, <1>2, <2>1
    DEF Handler, Receive, RefuseInput, IngestText, IngestTextFails, LookupKey, LookupKeyMiss,
        InsertJob, EnqueueJob, EnqueueJobFails, Answer, Prepare, GoTo, ApiTypeOK, arqVars,
        Stranded
<1>3. ASSUME NEW i \in Request, Worker(i) \/ Interruption(i)
      PROVE  pc'[j] # "enqueue" /\ j \notin queue' /\ work'[j] = "idle"
  <2>1. CASE Worker(i)
    BY <1>0, <2>1
    DEF Worker, Deliver, GiveUp, Acknowledge, MayStart, RunPipeline, PipelineRaises,
        FlushFails, MarkFailed, MarkFailedRaises, ArqTypeOK, apiVars, Stranded
  <2>2. CASE Interruption(i)
    BY <1>0, <2>2
    DEF Interruption, Abort, LoseWorker, JobTimeout, Expire, ApiTypeOK, ArqTypeOK, apiVars,
        arqVars, Stranded
  <2> QED
    BY <1>3, <2>1, <2>2
<1>4. CASE SweepStuckJobs \/ UNCHANGED vars
  BY <1>4 DEF SweepStuckJobs, apiVars, arqVars, vars, Stranded
<1> QED
  BY <1>1, <1>2, <1>3, <1>4 DEF Next, Stranded

\* Whatever was given up stays as it is, for any number of calls and jobs.
THEOREM StrandedJobsStayStranded == Spec => StrandedJobsStay
<1>1. PipelineInv /\ [Next]_vars => [\A j \in Job : Stranded(j) => Stranded(j)']_vars
  BY StrandedStep
<1> QED
  BY <1>1, PipelineInvariant, PTL DEF Spec, StrandedJobsStay

\* A queued job stays accounted for: a step that takes it off its way is one of the faults.
LEMMA AccountedStep ==
  ASSUME PipelineInv, JobsAreAccountedFor, [Next]_vars
  PROVE  JobsAreAccountedFor'
<1> USE DEF Job
<1> DEFINE Lost(j) == /\ tries[j] = 0 /\ resp[j].code # 202
                      /\ Faults \cap {"redis_down", "refresh_fails", "api_abort"} # {}
           Dropped(j) == /\ tries[j] = max_tries
                         /\ Faults \cap {"unstorable", "worker_lost", "job_timeout",
                                         "job_expired"} # {}
           Accounted(j) == status[j] = "queued" => OnItsWay(j) \/ Lost(j) \/ Dropped(j)
<1> SUFFICES ASSUME NEW j \in Job PROVE Accounted(j)'
  BY DEF JobsAreAccountedFor
<1>0. /\ ApiTypeOK /\ DbTypeOK /\ ArqTypeOK /\ HandlerInv(j) /\ ArqInv(j)
      /\ Accounted(j) /\ max_tries # 0
  BY DEF PipelineInv, TypeOK, JobsAreAccountedFor, max_tries
<1>1. ASSUME NEW r \in Request, Handler(r), r # j PROVE Accounted(j)'
  <2>1. /\ pc'[j] = pc[j] /\ resp'[j] = resp[j] /\ tries' = tries /\ work' = work
        /\ j \in queue => j \in queue'
    BY <1>0, <1>1
    DEF Handler, Receive, RefuseInput, IngestText, IngestTextFails, LookupKey, LookupKeyMiss,
        InsertJob, EnqueueJob, EnqueueJobFails, Answer, Prepare, GoTo, ApiTypeOK, arqVars
  <2>2. status'[j] = status[j]
    BY <1>0, <1>1
    DEF Handler, Receive, RefuseInput, IngestText, IngestTextFails, LookupKey, LookupKeyMiss,
        InsertJob, EnqueueJob, EnqueueJobFails, Answer, Publish, DbTypeOK, dbVars
  <2> QED
    BY <1>0, <2>1, <2>2 DEF OnItsWay
<1>2. ASSUME Handler(j) PROVE Accounted(j)'
  <2>1. CASE InsertJob(j)
    BY <1>0, <2>1 DEF InsertJob, GoTo, OnItsWay, ApiTypeOK
  <2>2. CASE EnqueueJob(j)
    BY <1>0, <2>2 DEF EnqueueJob, HandlerInv, OnItsWay
  <2>3. CASE EnqueueJobFails(j)
    <3>1. tries'[j] = 0 /\ resp'[j].code # 202
      BY <1>0, <2>3 DEF EnqueueJobFails, Prepare, Refusal, HandlerInv, ApiTypeOK
    <3> QED
      BY <2>3, <3>1 DEF EnqueueJobFails
  <2>4. CASE Answer(j)
    BY <1>0, <2>4 DEF Answer, GoTo, OnItsWay, dbVars, arqVars
  <2>5. CASE \/ Receive(j) \/ RefuseInput(j) \/ IngestTextFails(j) \/ LookupKey(j)
             \/ LookupKeyMiss(j)
    <3>1. status'[j] = "absent"
      BY <1>0, <2>5 DEF Receive, RefuseInput, IngestTextFails, LookupKey, LookupKeyMiss,
                        HandlerInv, dbVars
    <3> QED
      BY <3>1
  <2>6. CASE IngestText(j)
    <3>1. PICK e \in Extraction : Publish(j, e, TextStatus(e), TextItems(e))
      BY <2>6 DEF IngestText
    <3>2. status'[j] = TextStatus(e)
      BY <1>0, <3>1 DEF Publish, DbTypeOK
    <3> QED
      BY <3>2, TextOutcomeType
  <2> QED
    BY <1>2, <2>1, <2>2, <2>3, <2>4, <2>5, <2>6 DEF Handler
<1>3. ASSUME NEW i \in Request, Worker(i) \/ Interruption(i), i # j PROVE Accounted(j)'
  <2>1. /\ status'[j] = status[j]
        /\ pc'[j] = pc[j] /\ resp'[j] = resp[j] /\ tries'[j] = tries[j] /\ work'[j] = work[j]
        /\ j \in queue => j \in queue'
    BY <1>0, <1>3
    DEF Worker, Deliver, GiveUp, Acknowledge, RunPipeline, PipelineRaises, FlushFails,
        MarkFailed, MarkFailedRaises, Interruption, Abort, LoseWorker, JobTimeout, Expire,
        Publish, ApiTypeOK, DbTypeOK, ArqTypeOK, apiVars, dbVars, arqVars
  <2> QED
    BY <1>0, <2>1 DEF OnItsWay
<1>4. ASSUME Worker(j) PROVE Accounted(j)'
  <2>1. CASE Deliver(j)
    <3>1. tries[j] = 0
      BY <1>0, <2>1 DEF Deliver, MayStart, ArqTypeOK, max_tries
    <3>2. CASE status[j] = "queued"
      BY <1>0, <2>1, <3>2 DEF Deliver, Committed, OnItsWay, ArqTypeOK
    <3>3. CASE status[j] # "queued"
      BY <2>1, <3>3 DEF Deliver, dbVars
    <3> QED
      BY <3>2, <3>3
  <2>2. CASE GiveUp(j) \/ Acknowledge(j)
    <3>1. tries[j] # 0 /\ work[j] \notin {"running", "failing"}
      BY <1>0, <2>2 DEF GiveUp, Acknowledge, MayStart, ArqInv
    <3>2. UNCHANGED <<apiVars, dbVars, tries>> /\ pc[j] # "enqueue"
      BY <1>0, <2>2, <3>1 DEF GiveUp, Acknowledge, HandlerInv
    <3> QED
      BY <1>0, <3>1, <3>2 DEF OnItsWay, apiVars, dbVars
  <2>3. CASE RunPipeline(j) \/ MarkFailed(j)
    <3>1. status'[j] # "queued"
      BY <1>0, <2>3 DEF RunPipeline, MarkFailed, Publish, ImageStatus, DbTypeOK
    <3> QED
      BY <3>1
  <2>4. CASE PipelineRaises(j)
    BY <1>0, <2>4 DEF PipelineRaises, OnItsWay, ArqTypeOK
  <2>5. CASE FlushFails(j)
    <3>1. tries'[j] = max_tries
      BY <1>0, <2>5 DEF FlushFails, ArqInv
    <3> QED
      BY <2>5, <3>1 DEF FlushFails
  <2>6. CASE MarkFailedRaises(j)
    <3>1. tries[j] # 0 /\ work[j] \notin {"running", "failing"}
      BY <1>0, <2>6 DEF MarkFailedRaises, ArqInv
    <3>2. UNCHANGED <<apiVars, dbVars, tries>> /\ pc[j] # "enqueue"
      BY <1>0, <2>6, <3>1 DEF MarkFailedRaises, HandlerInv
    <3> QED
      BY <1>0, <3>1, <3>2 DEF OnItsWay, apiVars, dbVars
  <2> QED
    BY <1>4, <2>1, <2>2, <2>3, <2>4, <2>5, <2>6 DEF Worker
<1>5. ASSUME Interruption(j) PROVE Accounted(j)'
  <2>1. CASE Abort(j)
    <3>1. /\ resp'[j].code # 202 /\ "api_abort" \in Faults
          /\ UNCHANGED <<dbVars, arqVars>>
      BY <1>0, <2>1 DEF Abort, NoResponse, Refusal, ApiTypeOK
    <3>2. pc[j] = "enqueue" => tries[j] = 0
      BY <1>0 DEF HandlerInv
    <3> QED
      BY <1>0, <3>1, <3>2 DEF OnItsWay, dbVars, arqVars
  <2>2. CASE LoseWorker(j) \/ JobTimeout(j)
    <3>1. tries'[j] = max_tries /\ Faults \cap {"worker_lost", "job_timeout"} # {}
      BY <1>0, <2>2 DEF LoseWorker, JobTimeout, ArqInv
    <3> QED
      BY <3>1
  <2>3. CASE Expire(j)
    <3>1. tries'[j] = max_tries /\ "job_expired" \in Faults
      BY <1>0, <2>3 DEF Expire, ArqTypeOK, max_tries
    <3> QED
      BY <3>1
  <2> QED
    BY <1>5, <2>1, <2>2, <2>3 DEF Interruption
<1>6. CASE SweepStuckJobs \/ UNCHANGED vars
  <2>1. status'[j] = "queued" => status[j] = "queued"
    BY <1>0, <1>6 DEF SweepStuckJobs, vars, DbTypeOK
  <2>2. UNCHANGED <<pc, resp, queue, tries, work>>
    BY <1>6 DEF SweepStuckJobs, apiVars, arqVars, vars
  <2> QED
    BY <1>0, <2>1, <2>2 DEF OnItsWay
<1> QED
  BY <1>1, <1>2, <1>3, <1>4, <1>5, <1>6 DEF Next

\* Where a queued job may be, and which faults may have lost it, for any calls and any
\* faults: without those faults, every queued job is on its way to an outcome.
THEOREM JobsAccountedFor == Spec => []JobsAreAccountedFor
<1>1. Init => JobsAreAccountedFor
  BY DEF Init, JobsAreAccountedFor, Job
<1>2. PipelineInv /\ JobsAreAccountedFor /\ [Next]_vars => JobsAreAccountedFor'
  BY AccountedStep
<1> QED
  BY <1>1, <1>2, PipelineInvariant, PTL DEF Spec
-----------------------------------------------------------------------------
(* Replays *)

\* What was asked for stays.
LEMMA CallsStay ==
  ASSUME [Next]_vars
  PROVE  call' = call
BY DEF Next, Handler, Receive, RefuseInput, IngestText, IngestTextFails, LookupKey,
       LookupKeyMiss, InsertJob, EnqueueJob, EnqueueJobFails, Answer, Worker, Deliver,
       GiveUp, Acknowledge, RunPipeline, PipelineRaises, FlushFails, MarkFailed,
       MarkFailedRaises, Interruption, Abort, LoseWorker, JobTimeout, Expire, SweepStuckJobs,
       apiVars, vars

\* A call that has looked its key up, found a job and not been cut off before answers, and
\* a job stays found.
Replays(r) ==
  /\ status[r] = "absent"
  /\ \/ pc[r] = "lookup" /\ Matches(r) # {}
     \/ pc[r] \in {"answer", "done", "aborted"}

LEMMA ReplayStep ==
  ASSUME PipelineInv, [Next]_vars, NEW r \in Request, Replays(r)
  PROVE  Replays(r)'
<1> USE DEF Job
<1>0. ApiTypeOK /\ DbTypeOK /\ ArqInv(r)
  BY DEF PipelineInv, TypeOK
<1>1. call' = call
  BY CallsStay
<1>2. Matches(r) # {} => Matches(r)' # {}
  BY <1>1, CatalogueStep DEF Matches
<1>3. status'[r] = "absent"
  <2>1. CASE UNCHANGED dbVars
    BY <2>1 DEF Replays, dbVars
  <2>2. ASSUME NEW s \in Request, IngestText(s) \/ InsertJob(s) PROVE status'[r] = "absent"
    <3>1. s # r
      BY <2>2 DEF Replays, IngestText, InsertJob
    <3> QED
      BY <1>0, <2>2, <3>1 DEF Replays, IngestText, InsertJob, Publish, DbTypeOK
  <2>3. ASSUME NEW j \in Job, RunPipeline(j) \/ MarkFailed(j) PROVE status'[r] = "absent"
    <3>1. j # r
      BY <1>0, <2>3 DEF Replays, ArqInv, RunPipeline, MarkFailed
    <3> QED
      BY <1>0, <2>3, <3>1 DEF Replays, RunPipeline, MarkFailed, Publish, DbTypeOK
  <2>4. CASE SweepStuckJobs
    BY <2>4 DEF Replays, SweepStuckJobs
  <2>5. CASE UNCHANGED vars
    BY <2>5 DEF Replays, vars
  <2> QED
    BY <2>1, <2>2, <2>3, <2>4, <2>5, DatabaseSteps
<1>4. \/ pc'[r] = pc[r]
      \/ pc'[r] \in {"answer", "done", "aborted"}
  <2>1. ASSUME NEW s \in Request, Handler(s)
        PROVE  pc'[r] = pc[r] \/ pc'[r] \in {"answer", "done", "aborted"}
    BY <1>0, <2>1
    DEF Handler, Receive, RefuseInput, IngestText, IngestTextFails, LookupKey, LookupKeyMiss,
        InsertJob, EnqueueJob, EnqueueJobFails, Answer, Prepare, GoTo, ApiTypeOK, Replays
  <2>2. ASSUME NEW s \in Request, Worker(s) \/ Interruption(s)
        PROVE  pc'[r] = pc[r] \/ pc'[r] \in {"answer", "done", "aborted"}
    BY <1>0, <2>2
    DEF Worker, Deliver, GiveUp, Acknowledge, RunPipeline, PipelineRaises, FlushFails,
        MarkFailed, MarkFailedRaises, Interruption, Abort, LoseWorker, JobTimeout, Expire, apiVars,
        ApiTypeOK
  <2> QED
    BY <2>1, <2>2 DEF Next, SweepStuckJobs, apiVars, vars
<1> QED
  BY <1>2, <1>3, <1>4 DEF Replays

\* A call that finds a job under its idempotency key creates none, whatever became of that
\* job and however long its handler takes.
THEOREM ReplaysCreateNoJob == Spec => ReplaysCreateNothing
<1> SUFFICES ASSUME NEW r \in Request
             PROVE  Spec => [](pc[r] = "lookup" /\ Matches(r) # {} => [](status[r] = "absent"))
  BY DEF ReplaysCreateNothing
<1>1. PipelineInv /\ pc[r] = "lookup" /\ Matches(r) # {} => Replays(r)
  BY DEF PipelineInv, HandlerInv, Replays
<1>2. PipelineInv /\ Replays(r) /\ [Next]_vars => Replays(r)'
  BY ReplayStep
<1>3. Replays(r) => status[r] = "absent"
  BY DEF Replays
<1> QED
  BY <1>1, <1>2, <1>3, PipelineInvariant, PTL DEF Spec
-----------------------------------------------------------------------------
(* The two rules of review *)

\* What decides that a text product is "completed" is that it has no doubtful field; jobs in
\* ARQ's queue are no texts.
TriageInv ==
  \A j \in Job :
    /\ j \in queue => call[j].kind = "image"
    /\ call[j].kind = "text" /\ status[j] = "completed" => LowFields(products[j][1]) = {}

LEMMA TriageStep ==
  ASSUME PipelineInv, TriageInv, [Next]_vars
  PROVE  TriageInv'
<1> USE DEF Job
<1> SUFFICES ASSUME NEW j \in Job
             PROVE  /\ (j \in queue => call[j].kind = "image")'
                    /\ (call[j].kind = "text" /\ status[j] = "completed"
                          => LowFields(products[j][1]) = {})'
  BY DEF TriageInv
<1>0. ApiTypeOK /\ DbTypeOK /\ ArqTypeOK
  BY DEF PipelineInv, TypeOK
<1>1. call' = call
  BY CallsStay
<1>2. j \in queue' => call[j].kind = "image"
  <2>1. ASSUME NEW r \in Request, Handler(r) PROVE j \in queue' => call[j].kind = "image"
    BY <2>1
    DEF Handler, Receive, RefuseInput, IngestText, IngestTextFails, LookupKey, LookupKeyMiss,
        InsertJob, EnqueueJob, EnqueueJobFails, Answer, arqVars, TriageInv, PipelineInv,
        HandlerInv
  <2>2. ASSUME NEW r \in Request, Worker(r) \/ Interruption(r)
        PROVE  j \in queue' => call[j].kind = "image"
    BY <2>2
    DEF Worker, Deliver, GiveUp, Acknowledge, RunPipeline, PipelineRaises, FlushFails,
        MarkFailed, MarkFailedRaises, Interruption, Abort, LoseWorker, JobTimeout, Expire, arqVars,
        TriageInv
  <2> QED
    BY <2>1, <2>2 DEF Next, SweepStuckJobs, arqVars, vars, TriageInv
<1>3. call[j].kind = "text" /\ status'[j] = "completed" => LowFields(products'[j][1]) = {}
  <2>1. CASE status'[j] = status[j] /\ products'[j] = products[j]
    BY <2>1 DEF TriageInv
  <2>2. CASE UNCHANGED dbVars \/ UNCHANGED vars
    BY <2>1, <2>2 DEF dbVars, vars
  <2>3. ASSUME NEW r \in Request, IngestText(r)
        PROVE  call[j].kind = "text" /\ status'[j] = "completed"
                 => LowFields(products'[j][1]) = {}
    <3>1. status[r] = "absent" /\ products[r] = <<>>
      BY <2>3 DEF IngestText, PipelineInv, HandlerInv, CatalogueInv
    <3>2. PICK e \in Extraction : Publish(r, e, TextStatus(e), TextItems(e))
      BY <2>3 DEF IngestText
    <3>3. TextStatus(e) \in Status /\ TextItems(e) \in SUBSET Field
      BY TextOutcomeType DEF Status
    <3>4. /\ status'[r] = TextStatus(e) /\ products'[r][1] = e
          /\ \A i \in Job \ {r} : status'[i] = status[i] /\ products'[i] = products[i]
      BY <1>0, <3>1, <3>2, <3>3, PublishOnce
    <3> QED
      BY <2>1, <3>4 DEF TextStatus
  <2>4. ASSUME NEW r \in Request, InsertJob(r)
        PROVE  call[j].kind = "text" /\ status'[j] = "completed"
                 => LowFields(products'[j][1]) = {}
    BY <1>0, <2>1, <2>4 DEF InsertJob, DbTypeOK
  <2>5. ASSUME NEW i \in Job, RunPipeline(i) \/ MarkFailed(i)
        PROVE  call[j].kind = "text" /\ status'[j] = "completed"
                 => LowFields(products'[j][1]) = {}
    <3>1. call[i].kind = "image"
      BY <2>5 DEF RunPipeline, MarkFailed, PipelineInv, ArqInv, TriageInv
    <3>2. i # j => status'[j] = status[j] /\ products'[j] = products[j]
      BY <1>0, <2>5 DEF RunPipeline, MarkFailed, Publish, DbTypeOK
    <3> QED
      BY <2>1, <3>1, <3>2
  <2>6. CASE SweepStuckJobs
    BY <1>0, <2>1, <2>6 DEF SweepStuckJobs, DbTypeOK
  <2> QED
    BY <2>2, <2>3, <2>4, <2>5, <2>6, DatabaseSteps
<1> QED
  BY <1>1, <1>2, <1>3

\* What jobs in ARQ's queue and "completed" texts are, at every step.
LEMMA TriageInvariant == Spec => []TriageInv
<1>1. Init => TriageInv
  BY DEF Init, TriageInv, Job
<1>2. PipelineInv /\ TriageInv /\ [Next]_vars => TriageInv'
  BY TriageStep
<1> QED
  BY <1>1, <1>2, PipelineInvariant, PTL DEF Spec

\* An extraction without a doubtful field has a mean of at least the threshold of a field.
LEMMA NoLowFieldMean ==
  ASSUME NEW e, IsExtraction(e), LowFields(e) = {}, Scored(e) # {}
  PROVE  AggregateConfidence(e) >= REVIEW_THRESHOLD
<1>1. IsScoring(e)
  BY ExtractionIsScoring
<1>2. \A f \in Scored(e) : e[f] \in Confidence /\ REVIEW_THRESHOLD <= e[f]
  BY DEF IsExtraction, LowFields, Scored, Confidence, REVIEW_THRESHOLD
<1>3. REVIEW_THRESHOLD \in Confidence
  BY DEF Confidence, REVIEW_THRESHOLD
<1>4. AggregateConfidence(e) \in Confidence /\ REVIEW_THRESHOLD <= AggregateConfidence(e)
  BY <1>1, <1>2, <1>3, AggregateIsAMean
<1> QED
  BY <1>4 DEF Confidence, REVIEW_THRESHOLD

\* The triggers of high severity fire for a missing field or a low mean, and for nothing else.
LEMMA HighSeverityTriggers ==
  ASSUME NEW e, ShouldRequireReview(e)
  PROVE  AggregateConfidence(e) < LOW_OVERALL \/ MissingRequired(e) # {}
<1>1. PICK t \in EvaluateReviewTriggers(e) : t.severity = "high"
  BY DEF ShouldRequireReview
<1>2. t = LowOverall \/ t = MissingField
  <2>1. t \in {LowOverall, MissingField, AmbiguousHsn, UnverifiedHsn}
    BY DEF EvaluateReviewTriggers
  <2>2. AmbiguousHsn.severity # "high" /\ UnverifiedHsn.severity # "high"
    BY DEF AmbiguousHsn, UnverifiedHsn
  <2> QED
    BY <1>1, <2>1, <2>2
<1> QED
  BY <1>1, <1>2 DEF EvaluateReviewTriggers, LowOverall, MissingField, AmbiguousHsn,
                    UnverifiedHsn

\* What the two rules of review disagree on, for any extractions: the gap between 0.70 and
\* 0.75, and required fields that are missing.
THEOREM FlaggedTextsBorderline == Spec => []FlaggedTextsAreBorderline
<1>1. PipelineInv /\ TriageInv => FlaggedTextsAreBorderline
  <2> SUFFICES ASSUME PipelineInv, TriageInv, NEW j \in Job,
                      call[j].kind = "text", status[j] = "completed",
                      ShouldRequireReview(products[j][1]),
                      MissingRequired(products[j][1]) = {}
               PROVE  AggregateConfidence(products[j][1]) \in REVIEW_THRESHOLD .. LOW_OVERALL - 1
    BY DEF FlaggedTextsAreBorderline
  <2> DEFINE e == products[j][1]
  <2>1. LowFields(e) = {}
    BY DEF TriageInv
  <2>2. e \in Extraction
    <3>1. products[j] \in Seq(Extraction) /\ Len(products[j]) = 1
      BY DEF PipelineInv, TypeOK, DbTypeOK, CatalogueInv, Job
    <3> QED
      BY <3>1
  <2>3. IsExtraction(e)
    BY <2>2, ExtractionAssumption
  <2>4. Scored(e) # {}
    BY DEF MissingRequired, REQUIRED_FIELDS
  <2> HIDE DEF e
  <2>5. AggregateConfidence(e) \in Confidence /\ AggregateConfidence(e) >= REVIEW_THRESHOLD
    BY <2>1, <2>3, <2>4, NoLowFieldMean, ExtractionIsScoring, AggregateIsAMean
  <2>6. AggregateConfidence(e) < LOW_OVERALL
    BY HighSeverityTriggers DEF e
  <2>7. AggregateConfidence(e) \in REVIEW_THRESHOLD .. LOW_OVERALL - 1
    BY <2>5, <2>6 DEF Confidence, REVIEW_THRESHOLD, LOW_OVERALL
  <2> QED
    BY <2>7 DEF e
<1> QED
  BY <1>1, PipelineInvariant, TriageInvariant, PTL
-----------------------------------------------------------------------------
(* Ingestion implements its contract *)

\* The step that inserts a text product is the contract's Publish.
LEMMA TextRefines ==
  ASSUME PipelineInv, NEW r \in Request, IngestText(r)
  PROVE  \E e \in Extraction : Contract!Publish(r, e)
<1> USE DEF Job
<1>1. PICK e \in Extraction : Publish(r, e, TextStatus(e), TextItems(e))
  BY DEF IngestText
<1>2. status[r] = "absent" /\ products[r] = <<>> /\ r \in textJobs
  BY DEF IngestText, PipelineInv, HandlerInv, CatalogueInv, textJobs
<1>3. products' = [products EXCEPT ![r] = <<e>>]
  BY <1>1, <1>2 DEF Publish, FieldRows, PipelineInv, TypeOK, DbTypeOK
<1>4. Contract!Doubtful(r, e) = LowFields(e)
  BY <1>2 DEF Contract!Doubtful, Contract!LowFields, LowFields, Contract!REVIEW_THRESHOLD,
              REVIEW_THRESHOLD
<1>5. /\ status' = [status EXCEPT ![r] = IF LowFields(e) = {} THEN "completed"
                                         ELSE "needs_review"]
      /\ items' = [items EXCEPT ![r] = LowFields(e)]
  BY <1>1 DEF Publish, TextStatus, TextItems
<1> QED
  BY <1>2, <1>3, <1>4, <1>5 DEF Contract!Publish

\* So is the one that stores what the pipeline made of an image: what it found doubtful is
\* not reviewed.
LEMMA ImageRefines ==
  ASSUME PipelineInv, TriageInv, NEW j \in Request, RunPipeline(j)
  PROVE  \E e \in Extraction : Contract!Publish(j, e)
<1> USE DEF Job
<1>1. PICK e \in Extraction : Publish(j, e, "completed", {})
  BY DEF RunPipeline, ImageStatus, ImageItems
<1>2. status[j] = "queued" /\ products[j] = <<>> /\ j \notin textJobs
  BY DEF RunPipeline, PipelineInv, ArqInv, CatalogueInv, TriageInv, textJobs
<1>3. products' = [products EXCEPT ![j] = <<e>>]
  BY <1>1, <1>2 DEF Publish, FieldRows, PipelineInv, TypeOK, DbTypeOK
<1>4. Contract!Doubtful(j, e) = {}
  BY <1>2 DEF Contract!Doubtful
<1> QED
  BY <1>1, <1>2, <1>3, <1>4 DEF Publish, Contract!Publish

\* Every step of the pipeline is a step of the contract, or invisible to it.
LEMMA StepRefines ==
  ASSUME PipelineInv, TriageInv, [Next]_vars
  PROVE  [Contract!Next]_<<textJobs, status, products, items, toldJob>>
<1> USE DEF Job
<1>0. ApiTypeOK /\ DbTypeOK
  BY DEF PipelineInv, TypeOK
<1> DEFINE Hidden == UNCHANGED <<textJobs, status, products, items, toldJob>>
<1>t. textJobs' = textJobs
  BY CallsStay DEF textJobs
<1>a. UNCHANGED dbVars => UNCHANGED <<status, products, items>>
  BY DEF dbVars
<1>b. UNCHANGED apiVars => UNCHANGED toldJob
  BY DEF apiVars, toldJob
<1>c. ASSUME NEW r \in Request, pc[r] # "done",
             \/ \E response : Prepare(r, response)
             \/ \E stage \in Stage \ {"done"} : GoTo(r, stage)
      PROVE  UNCHANGED toldJob
  BY <1>0, <1>c DEF Prepare, GoTo, toldJob, ApiTypeOK
<1>d. ASSUME NEW r \in Request, Contract!Progress(r), UNCHANGED toldJob
      PROVE  Contract!Next
  BY <1>d, <1>t DEF Contract!Next
<1>1. ASSUME NEW r \in Request, Handler(r) PROVE Contract!Next \/ Hidden
  <2>1. CASE Receive(r) \/ LookupKeyMiss(r)
    BY <2>1, <1>a, <1>c, <1>t DEF Receive, LookupKeyMiss, Stage
  <2>2. CASE \/ RefuseInput(r) \/ IngestTextFails(r) \/ LookupKey(r)
             \/ EnqueueJob(r) \/ EnqueueJobFails(r)
    BY <2>2, <1>a, <1>c, <1>t DEF RefuseInput, IngestTextFails, LookupKey, EnqueueJob,
                                  EnqueueJobFails
  <2>3. CASE IngestText(r)
    <3>1. UNCHANGED toldJob
      BY <2>3, <1>c DEF IngestText
    <3> QED
      BY <2>3, <3>1, <1>d, TextRefines DEF Contract!Progress
  <2>4. CASE InsertJob(r)
    <3>1. status[r] = "absent" /\ r \notin textJobs
      BY <2>4 DEF InsertJob, PipelineInv, HandlerInv, textJobs
    <3>2. UNCHANGED toldJob
      BY <2>4, <1>c DEF InsertJob, Stage
    <3>3. Contract!Accept(r)
      BY <2>4, <3>1 DEF InsertJob, Contract!Accept
    <3> QED
      BY <3>2, <3>3, <1>d DEF Contract!Progress
  <2>5. CASE Answer(r)
    <3>1. /\ UNCHANGED <<status, products, items>>
          /\ toldJob[r] = NoJob
          /\ toldJob' = [toldJob EXCEPT ![r] = resp[r].job]
      BY <1>0, <1>a, <2>5 DEF Answer, GoTo, toldJob, ApiTypeOK
    <3>2. CASE resp[r].code \in {201, 202}
      <4>1. resp[r].job \in Job /\ status[resp[r].job] # "absent"
        BY <2>5, <3>2 DEF Answer, PipelineInv, AnswerInv, Committed
      <4>2. Contract!Tell(r)
        BY <3>1, <4>1 DEF Contract!Tell
      <4> QED
        BY <4>2, <1>t DEF Contract!Next
    <3>3. CASE resp[r].code \notin {201, 202}
      <4>1. resp[r].job = NoJob
        BY <1>0, <3>3 DEF ApiTypeOK, Response, Refusal
      <4> QED
        BY <3>1, <4>1, <1>t DEF toldJob
    <3> QED
      BY <3>2, <3>3
  <2> QED
    BY <1>1, <2>1, <2>2, <2>3, <2>4, <2>5 DEF Handler
<1>2. ASSUME NEW j \in Request, Worker(j) PROVE Contract!Next \/ Hidden
  <2>1. CASE \/ Deliver(j) \/ GiveUp(j) \/ Acknowledge(j)
             \/ PipelineRaises(j) \/ FlushFails(j) \/ MarkFailedRaises(j)
    BY <2>1, <1>a, <1>b, <1>t DEF Deliver, GiveUp, Acknowledge, PipelineRaises, FlushFails,
                                  MarkFailedRaises
  <2>2. CASE RunPipeline(j)
    <3>1. UNCHANGED toldJob
      BY <2>2, <1>b DEF RunPipeline
    <3> QED
      BY <2>2, <3>1, <1>d, ImageRefines DEF Contract!Progress
  <2>3. CASE MarkFailed(j)
    <3>1. status[j] = "queued" /\ j \notin textJobs
      BY <2>3 DEF MarkFailed, PipelineInv, ArqInv, TriageInv, textJobs
    <3>2. UNCHANGED toldJob
      BY <2>3, <1>b DEF MarkFailed
    <3>3. Contract!Fail(j)
      BY <2>3, <3>1 DEF MarkFailed, Contract!Fail
    <3> QED
      BY <3>2, <3>3, <1>d DEF Contract!Progress
  <2> QED
    BY <1>2, <2>1, <2>2, <2>3 DEF Worker
<1>3. ASSUME NEW r \in Request, Interruption(r) PROVE Hidden
  <2>1. CASE Abort(r)
    <3>1. UNCHANGED toldJob
      BY <1>0, <2>1 DEF Abort, toldJob, ApiTypeOK
    <3> QED
      BY <2>1, <3>1, <1>a, <1>t DEF Abort
  <2>2. CASE LoseWorker(r) \/ JobTimeout(r) \/ Expire(r)
    BY <2>2, <1>a, <1>b, <1>t DEF LoseWorker, JobTimeout, Expire
  <2> QED
    BY <1>3, <2>1, <2>2 DEF Interruption
<1>4. CASE SweepStuckJobs
  <2>1. \A i \in Job : status[i] # "processing"
    BY DEF PipelineInv, CatalogueInv
  <2>2. UNCHANGED dbVars
    BY <1>0, <1>4, <2>1 DEF SweepStuckJobs, dbVars, DbTypeOK
  <2> QED
    BY <1>4, <2>2, <1>a, <1>b, <1>t DEF SweepStuckJobs
<1>5. CASE UNCHANGED vars
  BY <1>5, <1>a, <1>b, <1>t DEF vars, dbVars, apiVars
<1> QED
  BY <1>1, <1>2, <1>3, <1>4, <1>5 DEF Next

\* The pipeline implements its contract, for any number of calls, tenants and keys and
\* under all its faults.
THEOREM ContractImplemented == Spec => ImplementsContract
<1>1. Init => Contract!Init
  BY DEF Init, Contract!Init, textJobs, toldJob, Job
<1>2. PipelineInv /\ TriageInv /\ [Next]_vars
        => [Contract!Next]_<<textJobs, status, products, items, toldJob>>
  BY StepRefines
<1> QED
  BY <1>1, <1>2, PipelineInvariant, TriageInvariant, PTL
  DEF Spec, ImplementsContract, Contract!Spec, Contract!contractVars
=============================================================================
