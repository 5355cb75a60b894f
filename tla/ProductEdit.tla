----------------------------- MODULE ProductEdit -----------------------------
(***************************************************************************)
(* Edits of one product: PATCH /products/{id} (app/api/v1/products.py) and *)
(* POST /review/{id}/resolve (app/api/v1/review.py), each a transaction    *)
(* that reads the product, changes it in memory field by field, and lets   *)
(* SQLAlchemy write the changes when it queries again (autoflush) or       *)
(* commits.                                                                *)
(*                                                                         *)
(* Transactions are READ COMMITTED: a query sees what is committed, and    *)
(* what its own transaction has flushed.  An UPDATE names only the columns *)
(* that differ from what the session has LOADED, and holds the row until   *)
(* the transaction ends; one with nothing to change is not sent.           *)
(***************************************************************************)
EXTENDS Integers, Sequences, FiniteSets

CONSTANTS
  Request,      \* the calls clients make
  Calls,        \* what they may ask, see IsCall
  Editable,     \* editable_fields
  Value,        \* what a field may be set to
  None,         \* null
  Falsy,        \* the values that are false to Python: None, 0, ""
  Unstorable,   \* <<field, value>> the database refuses: no name, an unknown HSN
                \* code, a price that is no number, a text too long
  Owner,        \* the API key the product belongs to
  OverallConfidences, \* the confidence_overall it may have left
  Ingested,     \* whoever wrote the rows that ingestion left
  Products,     \* the product as ingestion may have left it, see IsProduct
  NoRow,        \* no such row
  Faults        \* what may go wrong: "api_abort", a handler stops between two awaits;
                \* "answer_lost", it fails or stops after its commit

Overall == "confidence_overall"

Column == Editable \cup {Overall}

Confidence == 0 .. 1000

SURE == 1000

Cell == {"value", "mark"}

\* A product_fields row has a value and a mark, who gave it and how sure that is.
\* Every row is named for who inserted it, and for its field.
RowId == (Request \cup {Ingested}) \X Editable

Row == [value : Value, confidence : Confidence, source : {"machine", "human"}]

ReviewStatus == {"pending", "accepted", "rejected", "resolved", "dismissed"}

\* A product with its field rows and review items: for a field that was extracted a
\* column, a row, and an item if it is doubtful; ingestion leaves some columns empty
\* (subcategory, description), and gives the name a value of its own if it has to.
IsProduct(p) ==
  /\ DOMAIN p = {"columns", "rows", "items"}
  /\ p.columns \in [Editable -> Value]
  /\ DOMAIN p.rows \subseteq Editable
  /\ p.rows \in [DOMAIN p.rows -> [value : Value, confidence : Confidence]]
  /\ p.items \subseteq DOMAIN p.rows

\* The calls: updates is the body of a PATCH, in the order of its keys.  A resolve
\* names an item by its field, the product having at most one for each.
IsCall(c) ==
  IF c.kind = "patch"
  THEN /\ DOMAIN c = {"kind", "tenant", "updates"}
       /\ c.updates \in Seq([field : STRING, value : Value])
       /\ \A i, j \in DOMAIN c.updates :
            c.updates[i].field = c.updates[j].field => i = j
  ELSE /\ c.kind = "resolve"
       /\ DOMAIN c = {"kind", "tenant", "field", "action", "value"}
       /\ c.field \in Editable /\ c.value \in Value

ASSUME CallsAssumption == \A c \in Calls : IsCall(c)
ASSUME ValueAssumption == None \in Falsy /\ Falsy \subseteq Value
ASSUME EditableAssumption == Editable \subseteq STRING /\ Overall \notin Editable
ASSUME NamesAssumption == Ingested \notin Request /\ NoRow \notin Row
ASSUME ProductsAssumption == \A p \in Products : IsProduct(p)
ASSUME OverallAssumption == OverallConfidences \subseteq Confidence

VARIABLES
  call,      \* what each request asks
  pc,        \* where its handler stands
  at,        \* the update it is at, one past the last when it commits
  loaded,    \* the product row as its session has read it
  wrote,     \* the product's columns it has updated and not committed
  dirty,     \* the cells of a field row it has changed in memory only
  stored,    \* the cells of field rows it has written and not committed
  resp,      \* the status code of its answer, 0 for none
  product,   \* the product row: its columns
  rows,      \* the product_fields rows of the product
  items,     \* the status of the review item of each field that has one
  origin     \* the product as ingestion left it, never changed

sessionVars == <<at, loaded, wrote, dirty, stored>>
dbVars == <<product, rows, items>>
vars == <<call, pc, at, loaded, wrote, dirty, stored, resp, product, rows, items, origin>>

Init ==
  /\ call \in [Request -> Calls]
  /\ origin \in Products
  /\ \E confidence \in OverallConfidences :
       product = [c \in Column |-> IF c = Overall THEN confidence ELSE origin.columns[c]]
  /\ rows = [id \in RowId |->
               IF id[1] = Ingested /\ id[2] \in DOMAIN origin.rows
               THEN [value |-> origin.rows[id[2]].value,
                     confidence |-> origin.rows[id[2]].confidence, source |-> "machine"]
               ELSE NoRow]
  /\ items = [f \in origin.items |-> "pending"]
  /\ pc = [r \in Request |-> "new"]
  /\ at = [r \in Request |-> 1]
  /\ loaded = [r \in Request |-> product]
  /\ wrote = [r \in Request |-> {}]
  /\ dirty = [r \in Request |-> {}]
  /\ stored = [r \in Request |-> {}]
  /\ resp = [r \in Request |-> 0]
-----------------------------------------------------------------------------
(* What a call does to the session's objects. *)

\* The value a resolve gives the field, and how sure it is: an accept takes both from
\* the item, which has what ingestion extracted.
FinalValue(c) ==
  IF c.action = "accept" THEN origin.rows[c.field].value ELSE c.value

Sureness(r) ==
  IF call[r].kind = "resolve" /\ call[r].action = "accept"
  THEN origin.rows[call[r].field].confidence ELSE SURE

\* The fields a call sets, in order.
Updates(r) ==
  CASE call[r].kind = "patch" -> call[r].updates
    [] call[r].kind = "resolve" /\ call[r].action = "dismiss" -> <<>>
    [] OTHER -> <<[field |-> call[r].field, value |-> FinalValue(call[r])]>>

Sets(r, f) == \E i \in DOMAIN Updates(r) : Updates(r)[i].field = f

Asked(r, c) ==
  IF c = Overall THEN SURE
  ELSE Updates(r)[CHOOSE i \in DOMAIN Updates(r) : Updates(r)[i].field = c].value

\* Mutated form: str(value), whatever the value.
RawOfNone(r, v) == IF call[r].kind = "patch" /\ v = None THEN "None" ELSE v

\* The text a field row gets for a value: str(value) if value else None.
Raw(r, v) == IF call[r].kind = "patch" /\ v \in Falsy THEN None ELSE v

\* All updates are made: what is left is to commit.
AtEnd(r) == at[r] > Len(Updates(r))

\* Mutated form: the column is assigned after the query for the field's row.
ChangesAfterQuery(r) ==
  LET assigned == (IF at[r] > 1 THEN {Updates(r)[at[r] - 1].field} \cap Editable ELSE {})
                    \cup (IF AtEnd(r) /\ call[r].kind = "patch" THEN {Overall} ELSE {})
  IN {c \in assigned : Asked(r, c) # loaded[r][c]}

\* Mutated form: the columns are assigned after the loop over the keys.
ChangesAtEnd(r) ==
  LET assigned == IF ~AtEnd(r) THEN {}
                  ELSE {Updates(r)[i].field : i \in DOMAIN Updates(r)} \cap Editable
  IN {c \in assigned : Asked(r, c) # loaded[r][c]}

\* The columns of the product that differ from what the session has loaded and are
\* not written yet.  A PATCH sets confidence_overall last.
Changes(r) ==
  LET assigned == IF ~AtEnd(r) THEN {Updates(r)[at[r]].field} \cap Editable
                  ELSE IF call[r].kind = "patch" THEN {Overall} ELSE {}
  IN {c \in assigned : Asked(r, c) # loaded[r][c]}

HoldsProduct(r) == wrote[r] # {}

HoldsRow(r, id) == \E k \in Cell : <<id, k>> \in stored[r]

RowsOf(f) == {id \in RowId : id[2] = f /\ rows[id] # NoRow}

\* Mutated form: a row that is there keeps its source and its confidence.
DifferingValue(r, id, v) ==
  {k \in Cell : \/ rows[id] = NoRow
                \/ k = "value" /\ Raw(r, v) # rows[id].value}

\* The cells of a row that an edit changes: of a new row, both.
Differing(r, id, v) ==
  {k \in Cell : \/ rows[id] = NoRow
                \/ k = "value" /\ Raw(r, v) # rows[id].value
                \/ k = "mark" /\ <<Sureness(r), "human">> # <<rows[id].confidence, rows[id].source>>}

\* The row once the written cells are committed.
Committed(r, id) ==
  IF ~HoldsRow(r, id) THEN rows[id]
  ELSE [value      |-> IF <<id, "value">> \in stored[r] THEN Raw(r, Asked(r, id[2]))
                       ELSE rows[id].value,
        confidence |-> IF <<id, "mark">> \in stored[r] THEN Sureness(r)
                       ELSE rows[id].confidence,
        source     |-> IF <<id, "mark">> \in stored[r] THEN "human" ELSE rows[id].source]
-----------------------------------------------------------------------------
(* The two handlers. *)

GoTo(r, stage) == pc' = [pc EXCEPT ![r] = stage]

\* The edit is committed, but one of the queries for the answer fails or is cut off: the
\* caller gets a 500, or nothing.
LOST_ANSWER == 1

\* How a call that is committed may be answered.
Answers == {200} \cup (IF "answer_lost" \in Faults THEN {LOST_ANSWER} ELSE {})

\* Mutated form: after an error the session is not closed, and holds its rows.
FinishKeepsSession(r, code) ==
  /\ GoTo(r, "done")
  /\ resp' = [resp EXCEPT ![r] = code]
  /\ wrote' = [wrote EXCEPT ![r] = IF code \in Answers THEN {} ELSE @]
  /\ stored' = [stored EXCEPT ![r] = IF code \in Answers THEN {} ELSE @]
  /\ dirty' = [dirty EXCEPT ![r] = {}]
  /\ UNCHANGED <<call, at, loaded, origin>>

\* The handler is over, and its transaction with it: what was written and not
\* committed is gone, and the rows it held are free.
Finish(r, code) ==
  /\ GoTo(r, "done")
  /\ resp' = [resp EXCEPT ![r] = code]
  /\ wrote' = [wrote EXCEPT ![r] = {}]
  /\ dirty' = [dirty EXCEPT ![r] = {}]
  /\ stored' = [stored EXCEPT ![r] = {}]
  /\ UNCHANGED <<call, at, loaded, origin>>

Publish(r) ==
  /\ product' = [c \in Column |-> IF c \in wrote[r] THEN Asked(r, c) ELSE product[c]]
  /\ rows' = [id \in RowId |-> Committed(r, id)]

\* Mutated form: what was flushed before an error is committed.
RefuseCommits(r, code) == Finish(r, code) /\ Publish(r) /\ UNCHANGED items

Refuse(r, code) == Finish(r, code) /\ UNCHANGED dbVars

\* Neither handler tells a product, or an item, of another API key from none.
Found(r) ==
  /\ call[r].tenant = Owner
  /\ call[r].kind = "resolve" => call[r].field \in DOMAIN items

\* The body of a resolve: an action of the three, and for an override a value.
WellFormed(r) ==
  call[r].kind = "resolve" =>
    \/ call[r].action \in {"accept", "dismiss"}
    \/ call[r].action = "override" /\ call[r].value \notin Falsy

NotFound(r) ==
  /\ pc[r] = "new" /\ ~Found(r)
  /\ Refuse(r, 404)

BadRequest(r) ==
  /\ pc[r] = "new" /\ Found(r) /\ ~WellFormed(r)
  /\ Refuse(r, 400)

\* The product is read.  No query later in the session refreshes it.
Load(r) ==
  /\ pc[r] = "new" /\ Found(r) /\ WellFormed(r)
  /\ loaded' = [loaded EXCEPT ![r] = product]
  /\ GoTo(r, IF call[r].kind = "resolve" /\ AtEnd(r) THEN "end" ELSE "product")
  /\ UNCHANGED <<call, at, wrote, dirty, stored, resp, dbVars, origin>>

AtOtherKey(r) == ~AtEnd(r) /\ Updates(r)[at[r]].field \notin Editable

\* A key that is not editable is passed over.
SkipKey(r) ==
  /\ pc[r] = "product" /\ AtOtherKey(r)
  /\ at' = [at EXCEPT ![r] = @ + 1]
  /\ UNCHANGED <<call, pc, loaded, wrote, dirty, stored, resp, dbVars, origin>>

AfterProduct(r) ==
  IF dirty[r] # {} THEN "row" ELSE IF AtEnd(r) THEN "end" ELSE "select"

\* The first statement of a flush: UPDATE products, as soon as nobody else has the
\* row.  The session flushes before it queries the row of the next field, and when it
\* commits.
FlushProduct(r) ==
  /\ pc[r] = "product"
  /\ ~AtOtherKey(r)
  /\ \A c \in Changes(r) : <<c, Asked(r, c)>> \notin Unstorable
  /\ Changes(r) # {} => \A s \in Request \ {r} : ~HoldsProduct(s)
  /\ wrote' = [wrote EXCEPT ![r] = @ \cup Changes(r)]
  /\ GoTo(r, AfterProduct(r))
  /\ UNCHANGED <<call, at, loaded, dirty, stored, resp, dbVars, origin>>

\* The database refuses the UPDATE, and SQLAlchemy rolls the transaction back.
ProductRefused(r) ==
  /\ pc[r] = "product"
  /\ \E c \in Changes(r) : <<c, Asked(r, c)>> \in Unstorable
  /\ Refuse(r, 500)

\* The second statement: the INSERT or UPDATE of the field row the last update
\* touched, as soon as nobody else has that row.
FlushRow(r) ==
  /\ pc[r] = "row"
  /\ \A s \in Request \ {r}, cell \in dirty[r] : ~HoldsRow(s, cell[1])
  /\ stored' = [stored EXCEPT ![r] = @ \cup dirty[r]]
  /\ dirty' = [dirty EXCEPT ![r] = {}]
  /\ GoTo(r, IF AtEnd(r) THEN "end" ELSE "select")
  /\ UNCHANGED <<call, at, loaded, wrote, resp, dbVars, origin>>

\* The query for the field's row, and the assignments to what first() returns, of
\* several rows any; without one, a new row.
SelectField(r) ==
  /\ pc[r] = "select"
  /\ LET u == Updates(r)[at[r]] IN
       \E id \in IF RowsOf(u.field) = {} THEN {<<r, u.field>>} ELSE RowsOf(u.field) :
         dirty' = [dirty EXCEPT ![r] = {id} \X Differing(r, id, u.value)]
  /\ at' = [at EXCEPT ![r] = @ + 1]
  /\ GoTo(r, "product")
  /\ UNCHANGED <<call, loaded, wrote, stored, resp, dbVars, origin>>

\* The commit.  What follows it only reads.
Commit(r) ==
  /\ pc[r] = "end" /\ call[r].kind = "patch"
  /\ Publish(r)
  /\ \E code \in Answers : Finish(r, code)
  /\ UNCHANGED items

\* Mutated form: the constraint knows the statuses that review.py writes.
ck_review_status_widened == {"pending", "resolved", "dismissed"}

\* ck_review_status of the review_items table.
ck_review_status == {"pending", "accepted", "rejected"}

NewStatus(r) == IF call[r].action = "dismiss" THEN "dismissed" ELSE "resolved"

\* A resolve also updates its item.  The database checks the new status, and the
\* transaction commits or is rolled back as a whole.
FlushItem(r) ==
  /\ pc[r] = "end" /\ call[r].kind = "resolve"
  /\ IF NewStatus(r) \in ck_review_status
     THEN /\ Publish(r)
          /\ items' = [items EXCEPT ![call[r].field] = NewStatus(r)]
          /\ \E code \in Answers : Finish(r, code)
     ELSE Refuse(r, 500)

\* The flush may write the item before the field row.
ItemRefused(r) ==
  /\ pc[r] = "row" /\ call[r].kind = "resolve"
  /\ NewStatus(r) \notin ck_review_status
  /\ Refuse(r, 500)

\* The process dies, or the handler is cancelled: the session closes.
Abort(r) ==
  /\ "api_abort" \in Faults
  /\ pc[r] \notin {"new", "done"}
  /\ Refuse(r, 0)
-----------------------------------------------------------------------------
(* PostgreSQL's deadlock detection. *)

WaitsFor(r, s) ==
  /\ r # s
  /\ \/ pc[r] = "product" /\ Changes(r) # {} /\ HoldsProduct(s)
     \/ pc[r] = "row" /\ \E cell \in dirty[r] : HoldsRow(s, cell[1])

\* Everyone in S waits for someone in S, and it takes all of S to say so.
WaitCycle(S) ==
  /\ S # {} /\ \A r \in S : \E s \in S : WaitsFor(r, s)
  /\ \A T \in SUBSET S : T # {} /\ T # S => \E r \in T : \A s \in T : ~WaitsFor(r, s)

\* One of those that wait for each other is refused, and the others go on.
DeadlockVictim(r) ==
  /\ \E S \in SUBSET Request : r \in S /\ WaitCycle(S)
  /\ Refuse(r, 500)
-----------------------------------------------------------------------------
Handler(r) ==
  \/ NotFound(r) \/ BadRequest(r) \/ Load(r)
  \/ SkipKey(r) \/ FlushProduct(r) \/ ProductRefused(r)
  \/ FlushRow(r) \/ SelectField(r)
  \/ Commit(r) \/ FlushItem(r) \/ ItemRefused(r)
  \/ DeadlockVictim(r)

Next == \E r \in Request : Handler(r) \/ Abort(r)

Spec == Init /\ [][Next]_vars

\* The event loop resumes every handler whose statement has returned, and PostgreSQL
\* looks for deadlocks after deadlock_timeout.
Fairness == \A r \in Request : WF_vars(Handler(r))

FairSpec == Spec /\ Fairness
-----------------------------------------------------------------------------
(* Safety *)

\* A row of the products table.
IsColumns(p) ==
  /\ p = [c \in Column |-> p[c]]
  /\ p[Overall] \in Confidence
  /\ \A f \in Editable : p[f] \in Value

\* Every variable keeps its type.
TypeOK ==
  /\ call \in [Request -> Calls]
  /\ pc \in [Request -> {"new", "product", "row", "select", "end", "done"}]
  /\ at \in [Request -> Nat \ {0}]
  /\ IsColumns(product)
  /\ DOMAIN loaded = Request /\ \A r \in Request : IsColumns(loaded[r])
  /\ wrote \in [Request -> SUBSET Column]
  /\ dirty \in [Request -> SUBSET (RowId \X Cell)]
  /\ stored \in [Request -> SUBSET (RowId \X Cell)]
  /\ resp \in [Request -> {0, 200, LOST_ANSWER, 400, 404, 500}]
  /\ rows \in [RowId -> Row \cup {NoRow}]
  /\ items \in [origin.items -> ReviewStatus]
  /\ origin \in Products

\* Call r has asked for another value than the product had when it was loaded.  What
\* is no such edit merely confirms a value, as far as the product row is concerned.
Changed(r, f) == Sets(r, f) /\ Asked(r, f) # loaded[r][f]

Applied(r) == resp[r] \in {200, LOST_ANSWER}

\* The product's column and the field's row tell the same as long as every edit of the
\* field that went through has changed it: those are serialised by the product row,
\* which each of them holds from before its query for the field row to its commit.  An
\* edit that confirms a value has no such hold, and may part the two.
SerialisedEditsAgree ==
  \A f \in Editable :
    LET edits == {r \in Request : Applied(r) /\ Sets(r, f)} IN
    edits # {} /\ (\A r \in edits : Changed(r, f)) =>
      \A r \in edits, id \in RowsOf(f) : rows[id].value = Raw(r, product[f])

\* A field has two rows, which nothing in the schema forbids, only where it had none
\* from ingestion, and only if at most one of the edits that inserted them has
\* changed the product.
DuplicatesAreConfirmations ==
  \A f \in Editable : \A i, j \in RowsOf(f) :
    i # j => /\ Ingested \notin {i[1], j[1]}
             /\ ~Changed(i[1], f) \/ ~Changed(j[1], f)

\* A row that names a human as its source has a value some call that went through
\* gave to this field, or one that such a call confirmed: a transaction that was
\* refused, aborted or chosen as a deadlock's victim leaves nothing behind.
HumanValuesWereAsked ==
  \A id \in RowId :
    rows[id] # NoRow /\ rows[id].source = "human" =>
      \E r \in Request :
        Applied(r) /\ Sets(r, id[2]) /\ rows[id].value = Raw(r, Asked(r, id[2]))

\* What a human has set, with confidence 1, is never set back by a review of what the
\* machine had extracted before.
HumanEditsStay ==
  [][\A id \in RowId :
       rows[id] # NoRow /\ rows[id].source = "human" =>
         rows'[id] # NoRow /\ rows'[id].source = "human" /\ rows'[id].confidence = SURE]_vars

\* Edits that change the product take its row before any field row: of the calls that
\* wait for each other in a circle, at most one does so with its first key.
FirstKeyChanges(r) ==
  \E i \in DOMAIN Updates(r) :
    /\ Updates(r)[i].field \in Editable /\ Changed(r, Updates(r)[i].field)
    /\ \A j \in 1 .. i - 1 : Updates(r)[j].field \notin Editable

DeadlocksNeedConfirmations ==
  \A S \in SUBSET Request :
    WaitCycle(S) => \A r, s \in S : FirstKeyChanges(r) /\ FirstKeyChanges(s) => r = s

\* The refinement mapping: what the contract sees of the calls, the product and the
\* rows.
askedOf ==
  [r \in Request |->
     {[field |-> f, value |-> Asked(r, f), text |-> Raw(r, Asked(r, f))] :
        f \in {g \in Editable : Sets(r, g)}}]

outcomeOf ==
  [r \in Request |->
     IF pc[r] = "new" THEN "new" ELSE IF pc[r] # "done" THEN "pending"
     ELSE IF Applied(r) THEN "applied" ELSE "refused"]

readOf == [r \in Request |-> [f \in Editable |-> loaded[r][f]]]

shownOf ==
  [f \in Editable |->
     {[value |-> rows[id].value, source |-> rows[id].source] : id \in RowsOf(f)}]

Contract == INSTANCE EditContract WITH
  Field <- Editable, Sure <- SURE, asked <- askedOf, outcome <- outcomeOf,
  read <- readOf, columns <- [f \in Editable |-> product[f]], overall <- product[Overall],
  shown <- shownOf

\* Edits implement their contract: whatever the flushes, locks, deadlocks and aborts in
\* between, an edit is made in one step and as a whole, or not at all.
ImplementsEditContract == Contract!Spec
-----------------------------------------------------------------------------
(* Progress *)

\* No handler waits for ever: whoever waits for a row gets it, or is chosen to break a
\* deadlock, also when the one that has the row is cut off.
EditsEnd == <>(\A r \in Request : pc[r] = "done")
-----------------------------------------------------------------------------
(* What the documentation says of the code, and the code does not do *)

\* review.py:84, "dismiss: Remove the review item without changes", and 82 and 83 for
\* the other actions of "Resolve a review item": a well-formed resolve that finds its
\* item takes it out of the review queue.
ResolvedItemsLeaveQueue ==
  \A r \in Request :
    (call[r].kind = "resolve" /\ Found(r) /\ WellFormed(r))
      ~> items[call[r].field] # "pending"
=============================================================================
