--------------------------- MODULE CatalogueReads ---------------------------
(***************************************************************************)
(* The reading half of the API, beside ingestion and edits that go on: a   *)
(* client walks through GET /products page by page                         *)
(* (app/api/v1/products.py), another polls GET /jobs/{id} and fetches the  *)
(* product (app/api/v1/jobs.py) or looks into the review queue with        *)
(* GET /review (app/api/v1/review.py).                                     *)
(*                                                                         *)
(* Each read is one SELECT, hence one step.  What ingestion may do between *)
(* two of them is what its contract allows, and of an edit only            *)
(* confidence_overall matters here.  Product ids are random UUIDs, ordered *)
(* in no relation to when a product was made: the product of job j has     *)
(* number j, and jobs are published in any order.                          *)
(***************************************************************************)
EXTENDS Integers, Sequences, FiniteSets, ReviewRules

CONSTANTS
  Job,          \* numbers
  NoJob,        \* none of them
  Mine,         \* the jobs of the API key the clients call with
  Texts,        \* the jobs that come from a text; the others come from an image
  Extraction,   \* what ingestion may extract
  Client,       \* those who read
  Plans,        \* the filters a client walks through, one after the other; none if it
                \* polls jobs
  Limits,       \* the page sizes
  ReviewLimit   \* the limit of the review list

SURE == 1000

COMPLETED_FROM == 750       \* products.py: the bound between the two filters

Filter == {"all", "completed", "needs_review"}

ASSUME JobAssumption ==
  Job \subseteq Nat \ {0} /\ IsFiniteSet(Job) /\ NoJob \notin Job
ASSUME MineAssumption == Mine \subseteq Job /\ Texts \subseteq Job
ASSUME PlansAssumption == \A p \in Plans : p \in Seq(Filter)
ASSUME LimitsAssumption == Limits \subseteq Nat \ {0} /\ ReviewLimit \in Nat \ {0}
ASSUME ExtractionsAssumption == \A e \in Extraction : IsExtraction(e)

VARIABLES
  status,     \* of each job, "absent" for none
  catalogue,  \* of each job, its products
  overall,    \* of each product, its confidence_overall
  items,      \* of each product, the fields with a pending review item
  walk,       \* of each client that lists products, how far it is and what it has seen
  poll        \* of each client that polls, the job it has asked for, the status it was told, and
              \* what it got then

dbVars == <<status, catalogue, overall, items>>
vars == <<status, catalogue, overall, items, walk, poll>>

Absent == [job |-> NoJob, status |-> "none", then |-> "nothing"]

Init ==
  /\ status = [j \in Job |-> "absent"]
  /\ catalogue = [j \in Job |-> <<>>]
  /\ overall = [j \in Job |-> 0]
  /\ items = [j \in Job |-> {}]
  /\ walk \in [Client -> {[plan |-> p, limit |-> n, leg |-> 1, stage |-> "new", cursor |-> 0,
                           listed |-> {}, twice |-> {}, seen |-> {},
                           steady |-> {}, before |-> {}] : p \in Plans, n \in Limits}]
  /\ poll = [p \in Client |-> Absent]
-----------------------------------------------------------------------------
(* The environment: ingestion, as its contract has it, and edits. *)

Contract == INSTANCE IngestionContract WITH
  Request <- Job, texts <- Texts, reviews <- items, told <- [j \in Job |-> NoJob]

Accept(j) ==
  /\ Contract!Accept(j)
  /\ UNCHANGED <<overall, walk, poll>>

Fail(j) ==
  /\ Contract!Fail(j)
  /\ UNCHANGED <<overall, walk, poll>>

Publish(j) ==
  /\ \E e \in Extraction :
       /\ Contract!Publish(j, e)
       /\ overall' = [overall EXCEPT ![j] = AggregateConfidence(e)]
  /\ UNCHANGED <<walk, poll>>

\* Mutated form: "needs_review" is what is below the threshold of the single fields.
PassesWithGap(filter, confidence) ==
  CASE filter = "completed" -> confidence >= COMPLETED_FROM
    [] filter = "needs_review" -> confidence < REVIEW_THRESHOLD
    [] OTHER -> TRUE

\* The filter of list_products: not the status of the job, but how sure the product is.
Passes(filter, confidence) ==
  CASE filter = "completed" -> confidence >= COMPLETED_FROM
    [] filter = "needs_review" -> confidence < COMPLETED_FROM
    [] OTHER -> TRUE

FilterOf(w) == walk[w].plan[walk[w].leg]

\* Mutated form: an edit also clears the field's review items.
EditClearsItems(j) ==
  /\ catalogue[j] # <<>>
  /\ overall' = [overall EXCEPT ![j] = SURE]
  /\ items' = [items EXCEPT ![j] = {}]
  /\ UNCHANGED <<status, catalogue, walk, poll>>

\* Any PATCH, of whatever fields, sets confidence_overall.  A product that leaves a
\* walker's filter is not steady any more.
EditProduct(j) ==
  /\ catalogue[j] # <<>>
  /\ overall' = [overall EXCEPT ![j] = SURE]
  /\ walk' = [w \in Client |->
                [walk[w] EXCEPT !.steady =
                   {k \in walk[w].steady : k # j \/ Passes(FilterOf(w), SURE)}]]
  /\ UNCHANGED <<status, catalogue, items, poll>>
-----------------------------------------------------------------------------
(* GET /products *)

\* Mutated form: the query forgets whose products they are.
MatchingOfAnyKey(filter) ==
  {j \in Job : catalogue[j] # <<>> /\ Passes(filter, overall[j])}

\* The caller's products that pass the filter.
Matching(filter) ==
  {j \in Mine : catalogue[j] # <<>> /\ Passes(filter, overall[j])}

\* ORDER BY id DESC LIMIT n: those that fewer than n others precede.
FirstOf(rest, n) == {j \in rest : Cardinality({k \in rest : k > j}) < n}

\* Mutated form: the product the cursor names is listed again.
AfterOrAt(w) ==
  {j \in Matching(FilterOf(w)) : walk[w].stage = "walking" => j <= walk[w].cursor}

\* What is left of the listing from the cursor on.
After(w) ==
  {j \in Matching(FilterOf(w)) : walk[w].stage = "walking" => j < walk[w].cursor}

\* Mutated form: the id of the row beyond the page.
NextCursorBeyond(page, rest) == Max(rest \ page)

\* The cursor that is given out: the id of the last row of the page.
NextCursor(page, rest) == Min(page)

\* One page.  The query asks for one row more than the page has, to know whether to
\* give out a next_cursor.  The walker notes what passes its filter from its first page
\* on, and what there was when it began.
ListProducts(w) ==
  /\ walk[w].plan # <<>> /\ walk[w].stage \in {"new", "walking"}
  /\ LET v == walk[w]
         rest == After(w)
         page == FirstOf(rest, v.limit)
         first == v.stage = "new"
     IN walk' = [walk EXCEPT ![w] =
            [v EXCEPT !.stage  = IF page = rest THEN "ended" ELSE "walking",
                      !.cursor = IF page = rest THEN v.cursor ELSE NextCursor(page, rest),
                      !.listed = v.listed \cup page,
                      !.twice  = v.twice \cup (v.listed \cap page),
                      !.seen   = v.seen \cup page,
                      !.steady = IF first THEN rest ELSE v.steady,
                      !.before = IF first /\ v.leg = 1 THEN Matching("all") ELSE v.before]]
  /\ UNCHANGED <<dbVars, poll>>

\* The next filter of the walker's plan.
NextWalk(w) ==
  /\ walk[w].stage = "ended" /\ walk[w].leg < Len(walk[w].plan)
  /\ walk' = [walk EXCEPT ![w] =
       [walk[w] EXCEPT !.stage = "new", !.leg = walk[w].leg + 1, !.cursor = 0,
                       !.listed = {}, !.twice = {}, !.steady = {}]]
  /\ UNCHANGED <<dbVars, poll>>
-----------------------------------------------------------------------------
(* GET /jobs/{id}, GET /jobs/{id}/product and GET /review *)

\* A job of another API key is told from none by no answer.
Visible(j) == j \in Mine /\ status[j] # "absent"

\* Mutated form: a job with a completed_at is reported as completed.
GetJobStatusByTimestamp(p) ==
  /\ \E j \in Job :
       poll' = [poll EXCEPT ![p] =
         [job |-> j,
          status |-> IF ~Visible(j) THEN "not_found"
                     ELSE IF catalogue[j] # <<>> THEN "completed" ELSE status[j],
          then |-> "nothing"]]
  /\ UNCHANGED <<dbVars, walk>>

GetJobStatus(p) ==
  /\ \E j \in Job :
       poll' = [poll EXCEPT ![p] =
         [job |-> j, status |-> IF Visible(j) THEN status[j] ELSE "not_found",
          then |-> "nothing"]]
  /\ UNCHANGED <<dbVars, walk>>

\* The answer is built from the product's columns, and ProductOut wants FieldValues:
\* pydantic refuses it, so that a product that is there is answered with 500.
ProductAnswer(j) ==
  CASE ~Visible(j) -> "404"
    [] Visible(j) /\ status[j] # "completed" -> "400"
    [] OTHER -> IF catalogue[j] = <<>> THEN "404" ELSE "500"

\* The poller fetches the product of the job it has polled.
GetJobProduct(p) ==
  /\ poll[p].job # NoJob
  /\ poll' = [poll EXCEPT ![p].then = ProductAnswer(poll[p].job)]
  /\ UNCHANGED <<dbVars, walk>>

PendingItems == UNION {{j} \X items[j] : j \in Mine}

\* The review list has no order and no cursor: of more items than its limit, any.  The
\* poller looks for an item of the job it has polled.
ListReviews(p) ==
  /\ poll[p].job # NoJob
  /\ \E list \in SUBSET PendingItems :
       /\ Cardinality(list) = Min({ReviewLimit, Cardinality(PendingItems)})
       /\ poll' = [poll EXCEPT ![p].then =
            IF \E item \in list : item[1] = poll[p].job THEN "listed"
            ELSE IF Cardinality(list) = ReviewLimit THEN "cut" ELSE "missing"]
  /\ UNCHANGED <<dbVars, walk>>
-----------------------------------------------------------------------------
Environment == \E j \in Job : Accept(j) \/ Publish(j) \/ Fail(j) \/ EditProduct(j)

Walks(w) == ListProducts(w) \/ NextWalk(w)

Polls(p) ==
  walk[p].plan = <<>> /\ (GetJobStatus(p) \/ GetJobProduct(p) \/ ListReviews(p))

Next ==
  \/ Environment
  \/ \E w \in Client : Walks(w)
  \/ \E p \in Client : Polls(p)

Spec == Init /\ [][Next]_vars

\* A walker asks for the next page as long as there is one.
FairSpec == Spec /\ \A w \in Client : WF_vars(Walks(w))
-----------------------------------------------------------------------------
(* Safety *)

Stage == {"new", "walking", "ended"}

Walk ==
  [plan : Plans, limit : Limits, leg : Nat, stage : Stage, cursor : Mine \cup {0},
   listed : SUBSET Mine, twice : SUBSET Mine, seen : SUBSET Mine,
   steady : SUBSET Mine, before : SUBSET Mine]

Poll ==
  [job : Job \cup {NoJob},
   status : {"none", "not_found", "queued", "completed", "needs_review", "failed"},
   then : {"nothing", "400", "404", "500", "listed", "cut", "missing"}]

\* Every variable keeps its type.
TypeOK ==
  /\ status \in [Job -> Contract!Status]
  /\ catalogue \in [Job -> Seq(Extraction)]
  /\ overall \in [Job -> Confidence]
  /\ items \in [Job -> SUBSET Field]
  /\ walk \in [Client -> Walk]
  /\ \A w \in Client : IF walk[w].plan = <<>> THEN walk[w].stage = "new"
                       ELSE walk[w].leg \in DOMAIN walk[w].plan
  /\ poll \in [Client -> Poll]

\* No product is on two pages of a walk, whatever is published or edited between them.
WalksListOnce == \A w \in Client : walk[w].twice = {}

\* A walk misses no product that passes its filter from its first page to its last.
SteadyProductsAreListed ==
  \A w \in Client : walk[w].stage = "ended" => walk[w].steady \subseteq walk[w].listed

\* Who walks through what needs review first, and through what is completed then, sees
\* every product there was in the beginning: an edit moves a product out of the first
\* filter into the second and never back.
ReviewThenCompletedSeesAll ==
  \A w \in Client :
    walk[w].plan = <<"needs_review", "completed">> /\ walk[w].leg = 2
      /\ walk[w].stage = "ended" => walk[w].before \subseteq walk[w].seen

\* A poller that was told of an outcome finds nothing afterwards that denies it.  Of a
\* completed job it does not hear that it is not completed or has no product, and no
\* review of it is pending; of one that failed it finds neither a product nor a review,
\* of one that needs review no product.  Of another API key's job it learns nothing.
\* (That the product of a completed job is a 500, see JobProductsAsDocumented, does not
\* deny the job's status.)
PolledOutcomesHold ==
  \A p \in Client :
    LET told == poll[p].status
        got == poll[p].then
    IN /\ told = "completed" => got \notin {"400", "404", "listed"}
       /\ told = "failed" => got \notin {"500", "listed"}
       /\ told = "needs_review" => got # "500"
       /\ poll[p].job \notin Mine =>
            told \in {"none", "not_found"} /\ got \notin {"400", "500", "listed"}

\* A job that was polled as needs_review has an item in every review list that is not
\* cut at its limit.
PolledReviewsAreQueued ==
  \A p \in Client : poll[p].status = "needs_review" => poll[p].then # "missing"
-----------------------------------------------------------------------------
(* Progress *)

\* Every walk ends, however much is published and edited meanwhile.
WalksEnd ==
  \A w \in Client : walk[w].plan # <<>> =>
    <>(walk[w].stage = "ended" /\ walk[w].leg = Len(walk[w].plan))
-----------------------------------------------------------------------------
(* What the documentation says of the code, and the code does not do *)

\* jobs.py:68-70, "Get the extracted product from a completed job.  Returns 404 if the job
\* isn't completed or doesn't have a product.": a fetch is answered with the product of
\* a job that is completed and has one, and with 404 else.
JobProductsAsDocumented ==
  [][\A p \in Client : GetJobProduct(p) =>
       LET j == poll[p].job IN
       poll'[p].then = IF Visible(j) /\ status[j] = "completed" /\ catalogue[j] # <<>>
                       THEN "product" ELSE "404"]_vars
=============================================================================
