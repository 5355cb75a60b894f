-------------------------- MODULE IngestionContract --------------------------
(***************************************************************************)
(* What ingestion promises those who call it and those who read what it    *)
(* has stored, without transactions, queue or worker.  A text is published *)
(* at once; an image is accepted, and then it is published or it fails.    *)
(* Product, status and review items are there from one and the same step   *)
(* on, and stay; a job a client has been told of exists from then on.      *)
(***************************************************************************)
EXTENDS Sequences, ReviewRules

CONSTANTS Request, NoJob, Extraction

VARIABLES
  texts,      \* the jobs that come from a text; the others come from an image
  status,     \* of each job
  catalogue,  \* of each job, its products
  reviews,    \* of each job, the fields in the review queue
  told        \* the job each request has been told of

contractVars == <<texts, status, catalogue, reviews, told>>

Status == {"absent", "queued", "completed", "needs_review", "failed"}

Init ==
  /\ texts \in SUBSET Request
  /\ status = [j \in Request |-> "absent"]
  /\ catalogue = [j \in Request |-> <<>>]
  /\ reviews = [j \in Request |-> {}]
  /\ told = [r \in Request |-> NoJob]

Accept(j) ==
  /\ j \notin texts /\ status[j] = "absent"
  /\ status' = [status EXCEPT ![j] = "queued"]
  /\ UNCHANGED <<catalogue, reviews>>

\* Only texts have their doubtful fields reviewed.
Doubtful(j, e) == IF j \in texts THEN LowFields(e) ELSE {}

Publish(j, e) ==
  /\ status[j] = IF j \in texts THEN "absent" ELSE "queued"
  /\ status' = [status EXCEPT ![j] =
                  IF Doubtful(j, e) = {} THEN "completed" ELSE "needs_review"]
  /\ catalogue' = [catalogue EXCEPT ![j] = <<e>>]
  /\ reviews' = [reviews EXCEPT ![j] = Doubtful(j, e)]

Fail(j) ==
  /\ j \notin texts /\ status[j] = "queued"
  /\ status' = [status EXCEPT ![j] = "failed"]
  /\ UNCHANGED <<catalogue, reviews>>

Tell(r) ==
  /\ told[r] = NoJob
  /\ \E j \in Request :
       /\ status[j] # "absent"
       /\ told' = [told EXCEPT ![r] = j]
  /\ UNCHANGED <<status, catalogue, reviews>>

\* What becomes of a job, whoever is told.
Progress(j) == Accept(j) \/ (\E e \in Extraction : Publish(j, e)) \/ Fail(j)

Next ==
  /\ texts' = texts
  /\ \E r \in Request : (Progress(r) /\ told' = told) \/ Tell(r)

Spec == Init /\ [][Next]_contractVars
=============================================================================
