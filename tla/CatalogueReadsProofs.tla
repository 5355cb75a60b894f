------------------------- MODULE CatalogueReadsProofs -------------------------
(***************************************************************************)
(* Theorems about CatalogueReads, for every value of its constants: any    *)
(* jobs and extractions, any number of clients with any plans, any page    *)
(* size.                                                                   *)
(***************************************************************************)
EXTENDS CatalogueReads, ReviewRulesProofs

ReviewFirst == <<"needs_review", "completed">>

\* The job table, the catalogue and the review queue stay in step.
TablesInv ==
  \A j \in Job :
    /\ catalogue[j] # <<>> <=> status[j] \in {"completed", "needs_review"}
    /\ status[j] = "needs_review" <=> items[j] # {}

\* Within a walk: what lies on this side of the cursor was listed, as far as it is
\* steady, and nothing else was.
PagesInv(w) ==
  /\ walk[w].twice = {} /\ walk[w].listed \subseteq walk[w].seen
  /\ walk[w].stage = "new" => walk[w].listed = {} /\ walk[w].steady = {}
  /\ walk[w].stage = "walking" =>
       /\ walk[w].steady \subseteq Matching(FilterOf(w))
       /\ \A j \in walk[w].listed : j >= walk[w].cursor
       /\ \A j \in walk[w].steady : j >= walk[w].cursor => j \in walk[w].listed
  /\ walk[w].stage = "ended" => walk[w].steady \subseteq walk[w].listed

\* From filter to filter: of the products there were in the beginning, those not seen yet
\* are still to come in this walk, or pass the filter of the next.
PlanInv(w) ==
  /\ \A j \in walk[w].before : catalogue[j] # <<>>
  /\ walk[w].plan = ReviewFirst =>
       \A j \in walk[w].before :
         IF walk[w].leg = 1
         THEN walk[w].stage = "new" \/ j \in walk[w].steady \/ overall[j] >= COMPLETED_FROM
         ELSE \/ j \in walk[w].seen
              \/ IF walk[w].stage = "new" THEN overall[j] >= COMPLETED_FROM
                 ELSE j \in walk[w].steady

\* What a poller was told of an outcome stays true, and what it got then agrees.
PollInv(p) ==
  /\ poll[p].status \in {"completed", "needs_review", "failed"} =>
       poll[p].job \in Mine /\ status[poll[p].job] = poll[p].status
  /\ poll[p].status = "completed" => poll[p].then \notin {"400", "404", "listed"}
  /\ poll[p].status = "failed" => poll[p].then \notin {"500", "listed"}
  /\ poll[p].status = "needs_review" => poll[p].then \notin {"500", "missing"}
  /\ poll[p].job \notin Mine =>
       /\ poll[p].status \in {"none", "not_found"}
       /\ poll[p].then \notin {"400", "500", "listed"}

\* The inductive invariant.
ReadInv ==
  /\ TypeOK
  /\ TablesInv
  /\ \A w \in Client : PagesInv(w) /\ PlanInv(w) /\ PollInv(w)
-----------------------------------------------------------------------------
(* Pages *)

\* A nonempty set of numbers has a least one, and Min is it.
LEMMA MinOf ==
  ASSUME NEW S \in SUBSET Nat, S # {}
  PROVE  Min(S) \in S /\ \A x \in S : Min(S) <= x
<1>1. PICK x \in S : \A y \in S : ~(<<y, x>> \in OpToRel(<, Nat))
  BY WFMin, NatLessThanWellFounded
<1>2. \A y \in S : x <= y
  <2> TAKE y \in S
  <2>1. x \in Nat /\ y \in Nat
    OBVIOUS
  <2>2. ~(y < x)
    BY <1>1, <2>1 DEF OpToRel
  <2> QED
    BY <2>1, <2>2
<1> QED
  BY <1>2 DEF Min

\* Those that follow a row of a finite listing.
Beyond(rest, j) == {k \in rest : k > j}

LEMMA BeyondIsFinite ==
  ASSUME NEW rest \in SUBSET Nat, IsFiniteSet(rest), NEW j \in rest
  PROVE  IsFiniteSet(Beyond(rest, j)) /\ Cardinality(Beyond(rest, j)) \in Nat
BY FS_Subset, FS_CardinalityType DEF Beyond

\* From further down the listing less of it follows.
LEMMA BeyondShrinks ==
  ASSUME NEW rest \in SUBSET Nat, IsFiniteSet(rest), NEW j \in rest, NEW k \in rest, k >= j
  PROVE  /\ Beyond(rest, k) \subseteq Beyond(rest, j)
         /\ k \notin Beyond(rest, k)
         /\ Cardinality(Beyond(rest, k)) <= Cardinality(Beyond(rest, j))
<1>1. ASSUME NEW i \in Beyond(rest, k) PROVE i \in Beyond(rest, j) /\ i # k
  <2>1. i \in Nat /\ j \in Nat /\ k \in Nat /\ i > k
    BY DEF Beyond
  <2> QED
    BY <2>1 DEF Beyond
<1> QED
  BY <1>1, BeyondIsFinite, FS_Subset

\* A page has, with a row, every one that precedes it.
LEMMA PageIsPrefix ==
  ASSUME NEW rest \in SUBSET Nat, IsFiniteSet(rest), NEW n \in Nat,
         NEW j \in FirstOf(rest, n), NEW k \in rest, k >= j
  PROVE  k \in FirstOf(rest, n)
<1>1. j \in rest
  BY DEF FirstOf
<1>2. Cardinality(Beyond(rest, k)) <= Cardinality(Beyond(rest, j))
  BY <1>1, BeyondShrinks
<1> QED
  BY <1>1, <1>2, BeyondIsFinite DEF FirstOf, Beyond

\* A page of a listing with something left is not empty.
LEMMA PageIsNotEmpty ==
  ASSUME NEW rest \in SUBSET Nat, IsFiniteSet(rest), rest # {}, NEW n \in Nat \ {0}
  PROVE  FirstOf(rest, n) # {}
<1> DEFINE sizes == {Cardinality(Beyond(rest, j)) : j \in rest}
<1>1. sizes \subseteq Nat /\ sizes # {}
  BY BeyondIsFinite
<1>2. PICK j \in rest : \A k \in rest :
               Cardinality(Beyond(rest, j)) <= Cardinality(Beyond(rest, k))
  <2>1. PICK m \in sizes : \A x \in sizes : m <= x
    <3> HIDE DEF sizes
    <3> QED
      BY <1>1, MinOf
  <2> QED
    BY <2>1
<1>3. ASSUME NEW k \in Beyond(rest, j) PROVE FALSE
  <2>1. k \in rest /\ k \in Nat /\ j \in Nat /\ k > j
    BY DEF Beyond
  <2>2. Cardinality(Beyond(rest, k)) = Cardinality(Beyond(rest, j))
    <3>1. Cardinality(Beyond(rest, k)) <= Cardinality(Beyond(rest, j))
      BY <2>1, BeyondShrinks
    <3>2. Cardinality(Beyond(rest, j)) <= Cardinality(Beyond(rest, k))
      BY <1>2, <2>1
    <3> QED
      BY <3>1, <3>2, <2>1, BeyondIsFinite
  <2>3. Beyond(rest, k) = Beyond(rest, j) /\ k \notin Beyond(rest, k)
    BY <2>1, <2>2, BeyondShrinks, BeyondIsFinite, FS_Subset
  <2> QED
    BY <2>3
<1>4. Cardinality(Beyond(rest, j)) = 0
  BY <1>3, FS_EmptySet
<1> QED
  BY <1>4 DEF FirstOf, Beyond

\* The listing that is left is a finite set of the caller's products.
LEMMA RestIsFinite ==
  ASSUME NEW w \in Client
  PROVE  After(w) \in SUBSET Nat /\ IsFiniteSet(After(w)) /\ After(w) \subseteq Mine
<1>1. After(w) \subseteq Job
  BY MineAssumption DEF After, Matching
<1> QED
  BY <1>1, JobAssumption, FS_Subset DEF After, Matching
-----------------------------------------------------------------------------
(* The environment *)

\* What the contract of ingestion lets happen to the tables.
LEMMA PublishStep ==
  ASSUME NEW j \in Job, Publish(j)
  PROVE  /\ status[j] \in {"absent", "queued"} /\ UNCHANGED <<walk, poll>>
         /\ \E e \in Extraction :
              LET doubtful == IF j \in Texts THEN LowFields(e) ELSE {} IN
              /\ status' = [status EXCEPT ![j] =
                              IF doubtful = {} THEN "completed" ELSE "needs_review"]
              /\ catalogue' = [catalogue EXCEPT ![j] = <<e>>]
              /\ overall' = [overall EXCEPT ![j] = AggregateConfidence(e)]
              /\ items' = [items EXCEPT ![j] = doubtful]
<1>1. \A e : Contract!Doubtful(j, e) = IF j \in Texts THEN LowFields(e) ELSE {}
  BY DEF Contract!Doubtful, Contract!LowFields, LowFields, Contract!REVIEW_THRESHOLD,
         REVIEW_THRESHOLD
<1> QED
  BY <1>1 DEF Publish, Contract!Publish

\* Whatever ingestion and edits do, an outcome stays and a product stays.  Its
\* confidence changes only if it is edited.
LEMMA TablesStep ==
  ASSUME TypeOK, TablesInv, Environment
  PROVE  /\ TablesInv' /\ poll' = poll
         /\ \A j \in Job :
              /\ status[j] \in {"completed", "needs_review", "failed"} => status'[j] = status[j]
              /\ catalogue[j] # <<>> => catalogue'[j] = catalogue[j]
         /\ \/ \E j \in Job : EditProduct(j)
            \/ walk' = walk /\ \A j \in Job : catalogue[j] # <<>> => overall'[j] = overall[j]
<1>1. ASSUME NEW j \in Job, Accept(j)
      PROVE  status[j] = "absent" /\ UNCHANGED <<catalogue, overall, items, walk, poll>>
  BY <1>1 DEF Accept, Contract!Accept
<1>2. ASSUME NEW j \in Job, Fail(j)
      PROVE  status[j] = "queued" /\ UNCHANGED <<catalogue, overall, items, walk, poll>>
  BY <1>2 DEF Fail, Contract!Fail
<1>3. ASSUME NEW j \in Job, Publish(j) PROVE status[j] \in {"absent", "queued"}
  BY <1>3, PublishStep
<1>4. CASE \E j \in Job : Accept(j)
  BY <1>1, <1>4 DEF Accept, Contract!Accept, TypeOK, TablesInv
<1>5. CASE \E j \in Job : Fail(j)
  BY <1>2, <1>5 DEF Fail, Contract!Fail, TypeOK, TablesInv
<1>6. CASE \E j \in Job : Publish(j)
  <2>1. PICK j \in Job : Publish(j)
    BY <1>6
  <2>2. PICK e \in Extraction :
          LET doubtful == IF j \in Texts THEN LowFields(e) ELSE {} IN
          /\ status' = [status EXCEPT ![j] =
                          IF doubtful = {} THEN "completed" ELSE "needs_review"]
          /\ catalogue' = [catalogue EXCEPT ![j] = <<e>>]
          /\ overall' = [overall EXCEPT ![j] = AggregateConfidence(e)]
          /\ items' = [items EXCEPT ![j] = doubtful]
    BY <2>1, PublishStep
  <2>3. catalogue[j] = <<>> /\ <<e>> # <<>> /\ UNCHANGED <<walk, poll>>
    BY <1>3, <2>1, PublishStep DEF TablesInv
  <2>4. TablesInv'
    BY <2>2, <2>3 DEF TypeOK, TablesInv
  <2> QED
    BY <1>3, <2>1, <2>2, <2>3, <2>4 DEF TypeOK
<1>7. CASE \E j \in Job : EditProduct(j)
  BY <1>7 DEF EditProduct, TypeOK, TablesInv
<1> QED
  BY <1>4, <1>5, <1>6, <1>7 DEF Environment
-----------------------------------------------------------------------------
(* The clients *)

\* What a page does to its walk, field by field.
LEMMA ListStep ==
  ASSUME TypeOK, NEW w \in Client, ListProducts(w),
         NEW rest, rest = After(w), NEW page, page = FirstOf(rest, walk[w].limit)
  PROVE  /\ page \subseteq rest /\ rest \subseteq Mine /\ rest \subseteq Nat
         /\ page # rest => /\ walk'[w].cursor \in page
                           /\ \A j \in page : walk'[w].cursor <= j
         /\ \A j \in page, k \in rest : k >= j => k \in page
         /\ walk'[w].plan = walk[w].plan /\ walk'[w].leg = walk[w].leg
         /\ walk'[w].stage = IF page = rest THEN "ended" ELSE "walking"
         /\ walk'[w].listed = walk[w].listed \cup page
         /\ walk'[w].twice = walk[w].twice \cup (walk[w].listed \cap page)
         /\ walk'[w].seen = walk[w].seen \cup page
         /\ walk'[w].steady = IF walk[w].stage = "new" THEN rest ELSE walk[w].steady
         /\ walk'[w].before = IF walk[w].stage = "new" /\ walk[w].leg = 1
                              THEN Matching("all") ELSE walk[w].before
         /\ walk' \in [Client -> Walk] /\ \A x \in Client \ {w} : walk'[x] = walk[x]
         /\ walk[w].plan # <<>> /\ walk[w].stage \in {"new", "walking"}
         /\ UNCHANGED <<status, catalogue, overall, items, poll>>
<1>1. /\ rest \in SUBSET Nat /\ IsFiniteSet(rest) /\ rest \subseteq Mine
      /\ page \subseteq rest /\ walk[w].limit \in Nat \ {0}
  BY RestIsFinite, LimitsAssumption DEF FirstOf, TypeOK, Walk
<1>2. page # rest => Min(page) \in page /\ \A j \in page : Min(page) <= j
  BY <1>1, PageIsNotEmpty, MinOf
<1>3. \A j \in page, k \in rest : k >= j => k \in page
  BY <1>1, PageIsPrefix
<1>4. /\ walk' = [walk EXCEPT ![w] =
            [walk[w] EXCEPT
               !.stage  = IF page = rest THEN "ended" ELSE "walking",
               !.cursor = IF page = rest THEN walk[w].cursor ELSE Min(page),
               !.listed = walk[w].listed \cup page,
               !.twice  = walk[w].twice \cup (walk[w].listed \cap page),
               !.seen   = walk[w].seen \cup page,
               !.steady = IF walk[w].stage = "new" THEN rest ELSE walk[w].steady,
               !.before = IF walk[w].stage = "new" /\ walk[w].leg = 1
                          THEN Matching("all") ELSE walk[w].before]]
      /\ walk[w].plan # <<>> /\ walk[w].stage \in {"new", "walking"}
      /\ UNCHANGED <<status, catalogue, overall, items, poll>>
  BY DEF ListProducts, NextCursor, dbVars
<1>5. Matching("all") \subseteq Mine
  BY DEF Matching
<1>6. walk[w] \in Walk
  BY DEF TypeOK
<1>7. walk'[w] = [walk[w] EXCEPT
               !.stage  = IF page = rest THEN "ended" ELSE "walking",
               !.cursor = IF page = rest THEN walk[w].cursor ELSE Min(page),
               !.listed = walk[w].listed \cup page,
               !.twice  = walk[w].twice \cup (walk[w].listed \cap page),
               !.seen   = walk[w].seen \cup page,
               !.steady = IF walk[w].stage = "new" THEN rest ELSE walk[w].steady,
               !.before = IF walk[w].stage = "new" /\ walk[w].leg = 1
                          THEN Matching("all") ELSE walk[w].before]
  BY <1>4 DEF TypeOK
<1>8. walk'[w] \in Walk
  <2>1. /\ (IF page = rest THEN "ended" ELSE "walking") \in Stage
        /\ (IF page = rest THEN walk[w].cursor ELSE Min(page)) \in Mine \cup {0}
    BY <1>1, <1>2, <1>6 DEF Walk, Stage
  <2>2. /\ walk[w].listed \cup page \in SUBSET Mine
        /\ walk[w].twice \cup (walk[w].listed \cap page) \in SUBSET Mine
        /\ walk[w].seen \cup page \in SUBSET Mine
        /\ (IF walk[w].stage = "new" THEN rest ELSE walk[w].steady) \in SUBSET Mine
        /\ (IF walk[w].stage = "new" /\ walk[w].leg = 1
            THEN Matching("all") ELSE walk[w].before) \in SUBSET Mine
    BY <1>1, <1>5, <1>6 DEF Walk
  <2>3. PICK s, c, l, t, n, y, b :
          /\ s = IF page = rest THEN "ended" ELSE "walking"
          /\ c = IF page = rest THEN walk[w].cursor ELSE Min(page)
          /\ l = walk[w].listed \cup page
          /\ t = walk[w].twice \cup (walk[w].listed \cap page)
          /\ n = walk[w].seen \cup page
          /\ y = IF walk[w].stage = "new" THEN rest ELSE walk[w].steady
          /\ b = IF walk[w].stage = "new" /\ walk[w].leg = 1
                 THEN Matching("all") ELSE walk[w].before
    OBVIOUS
  <2>4. walk'[w] = [walk[w] EXCEPT !.stage = s, !.cursor = c, !.listed = l, !.twice = t,
                                   !.seen = n, !.steady = y, !.before = b]
    BY <1>7, <2>3
  <2>5. /\ s \in Stage /\ c \in Mine \cup {0} /\ l \in SUBSET Mine /\ t \in SUBSET Mine
        /\ n \in SUBSET Mine /\ y \in SUBSET Mine /\ b \in SUBSET Mine
    BY <2>1, <2>2, <2>3
  <2> QED
    BY <1>6, <2>4, <2>5 DEF Walk
<1>9. walk' \in [Client -> Walk] /\ \A x \in Client \ {w} : walk'[x] = walk[x]
  BY <1>4, <1>8 DEF TypeOK
<1>10. /\ walk'[w].plan = walk[w].plan /\ walk'[w].leg = walk[w].leg
       /\ walk'[w].stage = IF page = rest THEN "ended" ELSE "walking"
       /\ walk'[w].cursor = IF page = rest THEN walk[w].cursor ELSE Min(page)
       /\ walk'[w].listed = walk[w].listed \cup page
       /\ walk'[w].twice = walk[w].twice \cup (walk[w].listed \cap page)
       /\ walk'[w].seen = walk[w].seen \cup page
       /\ walk'[w].steady = IF walk[w].stage = "new" THEN rest ELSE walk[w].steady
       /\ walk'[w].before = IF walk[w].stage = "new" /\ walk[w].leg = 1
                            THEN Matching("all") ELSE walk[w].before
  BY <1>6, <1>7 DEF Walk
<1> QED
  BY <1>1, <1>2, <1>3, <1>4, <1>9, <1>10

\* What the beginning of the next walk does, field by field.
LEMMA NextWalkStep ==
  ASSUME TypeOK, NEW w \in Client, NextWalk(w)
  PROVE  /\ walk'[w].plan = walk[w].plan /\ walk'[w].leg = walk[w].leg + 1
         /\ walk[w].stage = "ended" /\ walk'[w].stage = "new"
         /\ walk'[w].listed = {} /\ walk'[w].twice = {} /\ walk'[w].steady = {}
         /\ walk'[w].seen = walk[w].seen /\ walk'[w].before = walk[w].before
         /\ walk' \in [Client -> Walk] /\ \A x \in Client \ {w} : walk'[x] = walk[x]
         /\ walk[w].leg \in Nat /\ walk[w].leg + 1 <= Len(walk[w].plan)
         /\ UNCHANGED <<status, catalogue, overall, items, poll>>
<1>1. walk[w] \in Walk /\ walk[w].plan \in Seq(Filter)
  BY PlansAssumption DEF TypeOK, Walk
<1>2. /\ walk' = [walk EXCEPT ![w] =
            [walk[w] EXCEPT !.stage = "new", !.leg = walk[w].leg + 1, !.cursor = 0,
                            !.listed = {}, !.twice = {}, !.steady = {}]]
      /\ walk[w].stage = "ended" /\ walk[w].leg < Len(walk[w].plan)
      /\ UNCHANGED <<status, catalogue, overall, items, poll>>
  BY DEF NextWalk, dbVars
<1>3. walk'[w] = [walk[w] EXCEPT !.stage = "new", !.leg = walk[w].leg + 1, !.cursor = 0,
                                 !.listed = {}, !.twice = {}, !.steady = {}]
  BY <1>2 DEF TypeOK
<1>4. /\ walk[w].leg \in Nat /\ walk[w].leg + 1 <= Len(walk[w].plan)
      /\ walk[w].plan # <<>> /\ walk[w].leg + 1 \in DOMAIN walk[w].plan
  BY <1>1, <1>2 DEF Walk
<1>5. walk'[w] \in Walk
  <2>1. "new" \in Stage /\ walk[w].leg + 1 \in Nat /\ 0 \in Mine \cup {0}
    BY <1>4 DEF Stage
  <2>2. {} \in SUBSET Mine
    OBVIOUS
  <2> QED
    BY <2>1, <2>2, <1>1, <1>3 DEF Walk
<1>6. walk' \in [Client -> Walk] /\ \A x \in Client \ {w} : walk'[x] = walk[x]
  BY <1>2, <1>5 DEF TypeOK
<1> QED
  BY <1>1, <1>2, <1>3, <1>4, <1>6 DEF Walk

\* An edit takes products out of a walk's steady ones, and does nothing else to it.
LEMMA EditStep ==
  ASSUME TypeOK, NEW j \in Job, EditProduct(j), NEW w \in Client
  PROVE  /\ \A f \in DOMAIN walk[w] \ {"steady"} : walk'[w][f] = walk[w][f]
         /\ DOMAIN walk'[w] = DOMAIN walk[w] /\ walk'[w] \in Walk
         /\ walk'[w].steady =
              {k \in walk[w].steady : k # j \/ Passes(FilterOf(w), SURE)}
         /\ FilterOf(w)' = FilterOf(w)
<1>1. walk[w] \in Walk
  BY DEF TypeOK
<1>2. walk'[w] = [walk[w] EXCEPT !.steady =
                    {k \in walk[w].steady : k # j \/ Passes(FilterOf(w), SURE)}]
  BY DEF EditProduct
<1>3. /\ DOMAIN walk'[w] = DOMAIN walk[w]
      /\ \A f \in DOMAIN walk[w] \ {"steady"} : walk'[w][f] = walk[w][f]
      /\ walk'[w].steady = {k \in walk[w].steady : k # j \/ Passes(FilterOf(w), SURE)}
  BY <1>1, <1>2 DEF Walk
<1>4. walk'[w] \in Walk
  BY <1>1, <1>2 DEF Walk
<1>5. walk'[w].plan = walk[w].plan /\ walk'[w].leg = walk[w].leg
  BY <1>1, <1>2 DEF Walk
<1> QED
  BY <1>3, <1>4, <1>5 DEF FilterOf

\* There are finitely many fields.
LEMMA FourAreFinite ==
  ASSUME NEW a, NEW b, NEW c, NEW d
  PROVE  IsFiniteSet({a, b, c, d})
<1>1. IsFiniteSet({a} \cup {b})
  BY FS_Singleton, FS_AddElement
<1>2. IsFiniteSet(({a} \cup {b}) \cup {c})
  BY <1>1, FS_AddElement
<1>3. IsFiniteSet((({a} \cup {b}) \cup {c}) \cup {d})
  BY <1>2, FS_AddElement
<1>4. (({a} \cup {b}) \cup {c}) \cup {d} = {a, b, c, d}
  OBVIOUS
<1> QED
  BY <1>3, <1>4

LEMMA FieldsAreFinite == IsFiniteSet(Field)
<1> DEFINE A == {"name", "brand", "category", "subcategory"}
           B == {"mrp", "selling_price", "unit", "weight_grams"}
           C == {"volume_ml", "barcode", "hsn_code", "ondc_category"}
           D == {"description", "ondc_subcategory", "name", "brand"}
<1>1. IsFiniteSet(A) /\ IsFiniteSet(B) /\ IsFiniteSet(C) /\ IsFiniteSet(D)
  BY FourAreFinite
<1>2. Field = (A \cup B) \cup (C \cup D)
  BY DEF Field, WEIGHTS
<1> HIDE DEF A, B, C, D
<1>3. IsFiniteSet(A \cup B) /\ IsFiniteSet(C \cup D)
  BY <1>1, FS_Union
<1> QED
  BY <1>2, <1>3, FS_Union

\* And so finitely many pending items.
LEMMA PendingItemsAreFinite ==
  ASSUME TypeOK
  PROVE  IsFiniteSet(PendingItems) /\ Cardinality(PendingItems) \in Nat
<1>2. IsFiniteSet(Job \X Field)
  BY FieldsAreFinite, JobAssumption, FS_Product
<1>3. PendingItems \subseteq Job \X Field
  BY MineAssumption DEF PendingItems, TypeOK
<1> QED
  BY <1>2, <1>3, FS_Subset, FS_CardinalityType

\* A review list that is not cut has every item.
LEMMA FullListHasAll ==
  ASSUME TypeOK, NEW list \in SUBSET PendingItems,
         Cardinality(list) = Min({ReviewLimit, Cardinality(PendingItems)}),
         Cardinality(list) # ReviewLimit
  PROVE  list = PendingItems
<1>1. {ReviewLimit, Cardinality(PendingItems)} \in SUBSET Nat
  BY PendingItemsAreFinite, LimitsAssumption
<1>2. Cardinality(list) = Cardinality(PendingItems)
  BY <1>1, MinOf
<1> QED
  BY <1>2, PendingItemsAreFinite, FS_Subset

\* A poll keeps what it says in step with the tables, which it does not touch.
LEMMA PollStep ==
  ASSUME ReadInv, NEW p \in Client, Polls(p)
  PROVE  /\ poll' \in [Client -> Poll] /\ \A x \in Client : PollInv(x)'
         /\ UNCHANGED <<status, catalogue, overall, items, walk>>
<1>0. TypeOK /\ TablesInv /\ poll \in [Client -> Poll] /\ \A x \in Client : PollInv(x)
  BY DEF ReadInv, TypeOK
<1>1. poll[p] \in Poll /\ PollInv(p)
  BY <1>0
<1>2. ASSUME NEW new \in Poll, poll' = [poll EXCEPT ![p] = new], PollInv(p)',
             UNCHANGED <<status, catalogue, overall, items, walk>>
      PROVE  /\ poll' \in [Client -> Poll] /\ \A x \in Client : PollInv(x)'
             /\ UNCHANGED <<status, catalogue, overall, items, walk>>
  BY <1>0, <1>2 DEF PollInv
<1>3. CASE GetJobStatus(p)
  <2>1. PICK j \in Job : poll' = [poll EXCEPT ![p] =
          [job |-> j, status |-> IF Visible(j) THEN status[j] ELSE "not_found",
           then |-> "nothing"]]
    BY <1>3 DEF GetJobStatus
  <2> DEFINE told == IF Visible(j) THEN status[j] ELSE "not_found"
             new == [job |-> j, status |-> told, then |-> "nothing"]
  <2>2. told \in {"not_found", "queued", "completed", "needs_review", "failed"}
    BY <1>0 DEF TypeOK, Contract!Status, Visible
  <2>3. new \in Poll /\ poll' = [poll EXCEPT ![p] = new]
    <3>1. new \in Poll
      <4> HIDE DEF told
      <4> QED
        BY <2>2 DEF Poll
    <3> QED
      BY <2>1, <3>1
  <2>4. poll'[p] = new
    BY <1>0, <2>3
  <2>5. UNCHANGED <<status, catalogue, overall, items, walk>>
    BY <1>3 DEF GetJobStatus, dbVars
  <2>6. PollInv(p)'
    BY <2>4, <2>5 DEF PollInv, Visible
  <2> QED
    BY <2>3, <2>5, <2>6, <1>2
<1>4. CASE GetJobProduct(p)
  <2> DEFINE new == [poll[p] EXCEPT !.then = ProductAnswer(poll[p].job)]
  <2>1. poll' = [poll EXCEPT ![p] = new] /\ UNCHANGED <<status, catalogue, overall, items, walk>>
    BY <1>4 DEF GetJobProduct, dbVars
  <2>2. ProductAnswer(poll[p].job) \in {"400", "404", "500"}
    BY DEF ProductAnswer
  <2>3. new \in Poll /\ new.job = poll[p].job /\ new.status = poll[p].status
        /\ new.then = ProductAnswer(poll[p].job)
    BY <1>1, <2>2 DEF Poll
  <2>4. poll'[p] = new
    BY <1>0, <2>1
  <2>5. PollInv(p)'
    <3>1. /\ new.status \in {"completed", "needs_review", "failed"} =>
               poll[p].job \in Mine /\ poll[p].job \in Job /\ status[poll[p].job] = new.status
      BY <1>1, <2>3, MineAssumption DEF PollInv
    <3>2. new.status = "completed" => new.then = "500"
      BY <1>0, <2>3, <3>1 DEF ProductAnswer, Visible, TablesInv
    <3>3. new.status \in {"needs_review", "failed"} => new.then = "400"
      BY <2>3, <3>1 DEF ProductAnswer, Visible
    <3>4. poll[p].job \notin Mine =>
            new.then = "404" /\ new.status \in {"none", "not_found"}
      BY <1>1, <2>3 DEF ProductAnswer, Visible, PollInv
    <3> HIDE DEF new
    <3> QED
      BY <2>1, <2>3, <2>4, <3>1, <3>2, <3>3, <3>4 DEF PollInv
  <2> HIDE DEF new
  <2> QED
    BY <2>1, <2>3, <2>5, <1>2
<1>5. CASE ListReviews(p)
  <2>1. PICK list \in SUBSET PendingItems :
          /\ Cardinality(list) = Min({ReviewLimit, Cardinality(PendingItems)})
          /\ poll' = [poll EXCEPT ![p].then =
               IF \E item \in list : item[1] = poll[p].job THEN "listed"
               ELSE IF Cardinality(list) = ReviewLimit THEN "cut" ELSE "missing"]
    BY <1>5 DEF ListReviews
  <2> DEFINE got == IF \E item \in list : item[1] = poll[p].job THEN "listed"
                    ELSE IF Cardinality(list) = ReviewLimit THEN "cut" ELSE "missing"
             new == [poll[p] EXCEPT !.then = got]
  <2>2. poll' = [poll EXCEPT ![p] = new] /\ UNCHANGED <<status, catalogue, overall, items, walk>>
    BY <1>5, <2>1 DEF ListReviews, dbVars
  <2>3. got \in {"listed", "cut", "missing"}
    OBVIOUS
  <2>4. new \in Poll /\ new.job = poll[p].job /\ new.status = poll[p].status /\ new.then = got
    BY <1>1, <2>3 DEF Poll
  <2>5. poll'[p] = new
    BY <1>0, <2>2
  <2>6. poll[p].status = "needs_review" => got # "missing"
    <3>1. SUFFICES ASSUME poll[p].status = "needs_review", got = "missing" PROVE FALSE
      OBVIOUS
    <3>2. poll[p].job \in Mine /\ items[poll[p].job] # {}
      BY <1>0, <1>1, <3>1, MineAssumption DEF PollInv, TablesInv
    <3>3. PICK f : <<poll[p].job, f>> \in PendingItems
      BY <3>2 DEF PendingItems
    <3>4. list = PendingItems
      BY <1>0, <2>1, <3>1, FullListHasAll
    <3> QED
      BY <3>1, <3>3, <3>4
  <2>7. got = "listed" => poll[p].job \in Mine /\ poll[p].status \notin {"completed", "failed"}
    <3> SUFFICES ASSUME NEW item \in list, item[1] = poll[p].job
                 PROVE  poll[p].job \in Mine /\ poll[p].status \notin {"completed", "failed"}
      OBVIOUS
    <3>1. PICK j \in Mine : item \in {j} \X items[j]
      BY DEF PendingItems
    <3>2. poll[p].job = j /\ items[j] # {}
      BY <3>1
    <3>3. status[j] = "needs_review"
      BY <1>0, <3>2, MineAssumption DEF TablesInv
    <3> QED
      BY <1>1, <3>2, <3>3 DEF PollInv
  <2> HIDE DEF got, new
  <2>8. PollInv(p)'
    BY <1>1, <2>2, <2>3, <2>4, <2>5, <2>6, <2>7 DEF PollInv
  <2> QED
    BY <2>2, <2>4, <2>8, <1>2
<1> QED
  BY <1>3, <1>4, <1>5 DEF Polls
-----------------------------------------------------------------------------
(* The inductive invariant *)

\* What the tables, and the products of other keys, say to a walk does not change with
\* a step that touches neither the walk nor a product that is there.
LEMMA UntouchedWalk ==
  ASSUME NEW w \in Client, PagesInv(w), PlanInv(w), walk'[w] = walk[w],
         walk[w] \in Walk,
         \A j \in Job : catalogue[j] # <<>> => catalogue'[j] = catalogue[j] /\ overall'[j] = overall[j]
  PROVE  PagesInv(w)' /\ PlanInv(w)'
<1>1. FilterOf(w)' = FilterOf(w)
  BY DEF FilterOf
<1>2. \A f : Matching(f) \subseteq Matching(f)'
  BY MineAssumption DEF Matching
<1>3. PagesInv(w)'
  BY <1>1, <1>2 DEF PagesInv
<1>4. walk[w].before \subseteq Job
  BY MineAssumption DEF Walk
<1>5. PlanInv(w)'
  BY <1>4 DEF PlanInv
<1> QED
  BY <1>3, <1>5

\* An edit moves a product out of a walk or raises it where it is.
LEMMA EditedWalk ==
  ASSUME TypeOK, NEW w \in Client, PagesInv(w), PlanInv(w), NEW j \in Job, EditProduct(j)
  PROVE  PagesInv(w)' /\ PlanInv(w)'
<1>0. walk[w] \in Walk /\ walk[w].before \subseteq Job /\ walk[w].steady \subseteq Mine
  BY MineAssumption DEF TypeOK, Walk
<1>1. /\ walk'[w].plan = walk[w].plan /\ walk'[w].leg = walk[w].leg
      /\ walk'[w].stage = walk[w].stage /\ walk'[w].cursor = walk[w].cursor
      /\ walk'[w].listed = walk[w].listed /\ walk'[w].twice = walk[w].twice
      /\ walk'[w].seen = walk[w].seen /\ walk'[w].before = walk[w].before
      /\ walk'[w].steady = {k \in walk[w].steady : k # j \/ Passes(FilterOf(w), SURE)}
      /\ FilterOf(w)' = FilterOf(w)
  BY <1>0, EditStep DEF Walk
<1>2. catalogue' = catalogue /\ overall' = [overall EXCEPT ![j] = SURE]
  BY DEF EditProduct
<1>3. \A k \in Job : overall'[k] = IF k = j THEN SURE ELSE overall[k]
  BY <1>2 DEF TypeOK
<1>4. walk[w].stage = "walking" => walk'[w].steady \subseteq Matching(FilterOf(w))'
  BY <1>0, <1>1, <1>2, <1>3, MineAssumption DEF PagesInv, Matching
<1>5. PagesInv(w)'
  BY <1>1, <1>4 DEF PagesInv
<1>6. SURE >= COMPLETED_FROM
  BY DEF SURE, COMPLETED_FROM
<1>7. walk[w].plan = ReviewFirst /\ walk[w].leg # 1 => walk'[w].steady = walk[w].steady
  <2>1. SUFFICES ASSUME walk[w].plan = ReviewFirst, walk[w].leg # 1
                 PROVE  Passes(FilterOf(w), SURE)
    BY <1>1
  <2>2. walk[w].leg \in 1 .. 2
    <3>1. ReviewFirst # <<>> /\ DOMAIN ReviewFirst = 1 .. 2
      BY DEF ReviewFirst
    <3> QED
      BY <2>1, <3>1 DEF TypeOK
  <2> QED
    BY <1>6, <2>1, <2>2 DEF FilterOf, ReviewFirst, Passes
<1>8. PlanInv(w)'
  BY <1>0, <1>1, <1>2, <1>3, <1>6, <1>7 DEF PlanInv
<1> QED
  BY <1>5, <1>8

\* A page lists what was left of the listing down to the new cursor, or all of it.
LEMMA ListedWalk ==
  ASSUME TypeOK, NEW w \in Client, PagesInv(w), PlanInv(w), ListProducts(w)
  PROVE  PagesInv(w)' /\ PlanInv(w)'
<1> DEFINE rest == After(w)
           page == FirstOf(rest, walk[w].limit)
<1>1. /\ page \subseteq rest /\ rest \subseteq Mine /\ rest \subseteq Nat
      /\ page # rest => /\ walk'[w].cursor \in page
                        /\ \A j \in page : walk'[w].cursor <= j
      /\ \A j \in page, k \in rest : k >= j => k \in page
      /\ walk'[w].plan = walk[w].plan /\ walk'[w].leg = walk[w].leg
      /\ walk'[w].stage = IF page = rest THEN "ended" ELSE "walking"
      /\ walk'[w].listed = walk[w].listed \cup page
      /\ walk'[w].twice = walk[w].twice \cup (walk[w].listed \cap page)
      /\ walk'[w].seen = walk[w].seen \cup page
      /\ walk'[w].steady = IF walk[w].stage = "new" THEN rest ELSE walk[w].steady
      /\ walk'[w].before = IF walk[w].stage = "new" /\ walk[w].leg = 1
                           THEN Matching("all") ELSE walk[w].before
      /\ walk[w].plan # <<>> /\ walk[w].stage \in {"new", "walking"}
      /\ UNCHANGED <<status, catalogue, overall, items, poll>>
  BY ListStep
<1>2. rest = {j \in Matching(FilterOf(w)) : walk[w].stage = "walking" => j < walk[w].cursor}
  BY DEF After
<1>3. /\ walk[w] \in Walk /\ walk[w].cursor \in Nat /\ Mine \subseteq Nat
      /\ walk[w].listed \subseteq Nat /\ walk[w].steady \subseteq Nat
  <2>1. walk[w] \in Walk
    BY DEF TypeOK
  <2>2. Mine \subseteq Nat
    BY MineAssumption, JobAssumption
  <2>3. walk[w].cursor \in Mine \cup {0} /\ walk[w].listed \subseteq Mine
        /\ walk[w].steady \subseteq Mine
    BY <2>1 DEF Walk
  <2>4. walk[w].cursor \in Nat
    <3>1. Mine \cup {0} \subseteq Nat
      BY <2>2
    <3> QED
      BY <2>3, <3>1
  <2>5. walk[w].listed \subseteq Nat /\ walk[w].steady \subseteq Nat
    BY <2>2, <2>3
  <2> QED
    BY <2>1, <2>2, <2>4, <2>5
<1>4. FilterOf(w)' = FilterOf(w) /\ \A f : Matching(f)' = Matching(f)
  BY <1>1 DEF FilterOf, Matching
<1> HIDE DEF rest, page
<1>5. PagesInv(w)'
  <2>1. walk[w].listed \cap page = {}
    BY <1>1, <1>2, <1>3 DEF PagesInv
  <2>2. walk'[w].steady \subseteq Matching(FilterOf(w))
    BY <1>1, <1>2 DEF PagesInv
  <2>3. \A j \in walk'[w].steady : j \in walk[w].listed \/ j \in rest
    <3>1. CASE walk[w].stage = "new"
      BY <1>1, <3>1
    <3>2. CASE walk[w].stage = "walking"
      BY <1>1, <1>2, <1>3, <3>2 DEF PagesInv
    <3> QED
      BY <1>1, <3>1, <3>2
  <2>4. ASSUME page # rest, NEW j \in walk'[w].listed PROVE j >= walk'[w].cursor
    <3>1. walk'[w].cursor \in Nat /\ j \in Nat
      BY <1>1, <1>3, <2>4
    <3>2. CASE j \in page
      BY <1>1, <2>4, <3>1, <3>2
    <3>3. CASE j \in walk[w].listed
      <4>1. walk[w].stage = "walking" /\ j >= walk[w].cursor /\ walk'[w].cursor < walk[w].cursor
        BY <1>1, <1>2, <2>4, <3>3 DEF PagesInv
      <4> QED
        BY <1>3, <3>1, <4>1
    <3> QED
      BY <1>1, <2>4, <3>2, <3>3
  <2>5. ASSUME page # rest, NEW j \in walk'[w].steady, j >= walk'[w].cursor
        PROVE  j \in walk'[w].listed
    BY <1>1, <2>3, <2>5
  <2> QED
    BY <1>1, <1>4, <2>1, <2>2, <2>3, <2>4, <2>5 DEF PagesInv
<1>6. PlanInv(w)'
  <2>1. \A j \in walk'[w].before : catalogue[j] # <<>>
    BY <1>1 DEF PlanInv, Matching
  <2>2. ASSUME walk[w].plan = ReviewFirst, NEW j \in walk'[w].before, walk[w].leg = 1
        PROVE  j \in walk'[w].steady \/ overall[j] >= COMPLETED_FROM
    <3>1. CASE walk[w].stage = "new"
      <4>1. FilterOf(w) = "needs_review"
        BY <2>2 DEF FilterOf, ReviewFirst
      <4>2. j \in Matching("all") /\ j \in Job
        BY <1>1, <2>2, <3>1, MineAssumption DEF Matching
      <4>3. overall[j] \in Int
        <5>1. overall[j] \in Confidence
          BY <4>2 DEF TypeOK
        <5> QED
          BY <5>1 DEF Confidence
      <4> QED
        BY <1>1, <1>2, <3>1, <4>1, <4>2, <4>3 DEF Matching, Passes, COMPLETED_FROM
    <3>2. CASE walk[w].stage = "walking"
      BY <1>1, <2>2, <3>2 DEF PlanInv
    <3> QED
      BY <1>1, <3>1, <3>2
  <2>3. ASSUME walk[w].plan = ReviewFirst, NEW j \in walk'[w].before, walk[w].leg # 1
        PROVE  j \in walk'[w].seen \/ j \in walk'[w].steady
    <3>0. j \in walk[w].before /\ catalogue[j] # <<>> /\ j \in Mine
      BY <1>1, <1>3, <2>3 DEF PlanInv, Walk
    <3>1. CASE walk[w].stage = "new"
      <4>1. FilterOf(w) = "completed"
        <5>1. ReviewFirst # <<>> /\ DOMAIN ReviewFirst = 1 .. 2
          BY DEF ReviewFirst
        <5>2. walk[w].leg \in 1 .. 2
          BY <2>3, <5>1 DEF TypeOK
        <5> QED
          BY <2>3, <5>2 DEF FilterOf, ReviewFirst
      <4>2. j \in walk[w].seen \/ overall[j] >= COMPLETED_FROM
        BY <2>3, <3>0, <3>1 DEF PlanInv
      <4> QED
        BY <1>1, <1>2, <3>0, <3>1, <4>1, <4>2 DEF Matching, Passes
    <3>2. CASE walk[w].stage = "walking"
      BY <1>1, <2>3, <3>0, <3>2 DEF PlanInv
    <3> QED
      BY <1>1, <3>1, <3>2
  <2> QED
    BY <1>1, <2>1, <2>2, <2>3 DEF PlanInv
<1> QED
  BY <1>5, <1>6

\* From one filter of the plan to the next nothing gets lost.
LEMMA NextWalkWalk ==
  ASSUME TypeOK, NEW w \in Client, PagesInv(w), PlanInv(w), NextWalk(w)
  PROVE  PagesInv(w)' /\ PlanInv(w)'
<1>1. PagesInv(w)'
  BY NextWalkStep DEF PagesInv
<1>2. walk[w].plan = ReviewFirst => walk[w].leg = 1
  <2>1. Len(ReviewFirst) = 2 /\ ReviewFirst # <<>> /\ DOMAIN ReviewFirst = 1 .. 2
    BY DEF ReviewFirst
  <2>2. SUFFICES ASSUME walk[w].plan = ReviewFirst PROVE walk[w].leg = 1
    OBVIOUS
  <2>3. walk[w].leg \in 1 .. 2
    BY <2>1, <2>2 DEF TypeOK
  <2>4. walk[w].leg + 1 <= 2
    BY <2>1, <2>2, NextWalkStep
  <2> QED
    BY <2>3, <2>4
<1>3. PlanInv(w)'
  BY <1>2, NextWalkStep DEF PlanInv, PagesInv
<1> QED
  BY <1>1, <1>3
-----------------------------------------------------------------------------
(* The theorems *)

\* The variables' types hold from the start and at every step of the environment.
LEMMA EnvironmentType ==
  ASSUME TypeOK, TablesInv, Environment
  PROVE  TypeOK'
<1> USE DEF Contract!Status
<1>1. CASE \E j \in Job : Accept(j) \/ Fail(j)
  <2>1. PICK j \in Job : Accept(j) \/ Fail(j)
    BY <1>1
  <2>2. UNCHANGED <<catalogue, overall, items, walk, poll>>
    BY <2>1 DEF Accept, Fail, Contract!Accept, Contract!Fail
  <2>3. \/ status' = [status EXCEPT ![j] = "queued"]
        \/ status' = [status EXCEPT ![j] = "failed"]
    BY <2>1 DEF Accept, Fail, Contract!Accept, Contract!Fail
  <2>4. status' \in [Job -> Contract!Status]
    BY <2>3 DEF TypeOK
  <2> QED
    BY <2>2, <2>4 DEF TypeOK
<1>2. CASE \E j \in Job : Publish(j)
  <2>1. PICK j \in Job : Publish(j)
    BY <1>2
  <2>2. PICK e \in Extraction :
          LET doubtful == IF j \in Texts THEN LowFields(e) ELSE {} IN
          /\ status' = [status EXCEPT ![j] =
                          IF doubtful = {} THEN "completed" ELSE "needs_review"]
          /\ catalogue' = [catalogue EXCEPT ![j] = <<e>>]
          /\ overall' = [overall EXCEPT ![j] = AggregateConfidence(e)]
          /\ items' = [items EXCEPT ![j] = doubtful]
    BY <2>1, PublishStep
  <2>3. AggregateConfidence(e) \in Confidence
    BY ExtractionsAssumption, ExtractionIsScoring, AggregateIsAMean
  <2>4. LowFields(e) \subseteq Field
    BY ExtractionsAssumption DEF LowFields, IsExtraction
  <2>5. <<e>> \in Seq(Extraction) /\ UNCHANGED <<walk, poll>>
    BY <2>1, PublishStep
  <2>6. status' \in [Job -> Contract!Status]
    BY <2>2 DEF TypeOK
  <2>7. catalogue' \in [Job -> Seq(Extraction)] /\ overall' \in [Job -> Confidence]
    BY <2>2, <2>3, <2>5 DEF TypeOK
  <2>8. items' \in [Job -> SUBSET Field]
    BY <2>2, <2>4 DEF TypeOK
  <2> QED
    BY <2>5, <2>6, <2>7, <2>8 DEF TypeOK
<1>3. CASE \E j \in Job : EditProduct(j)
  <2>1. PICK j \in Job : EditProduct(j)
    BY <1>3
  <2>2. SURE \in Confidence
    BY DEF SURE, Confidence
  <2>3. overall' \in [Job -> Confidence]
    BY <2>1, <2>2 DEF EditProduct, TypeOK
  <2>4. \A w \in Client : /\ walk'[w] \in Walk /\ walk'[w].plan = walk[w].plan
                          /\ walk'[w].stage = walk[w].stage /\ walk'[w].leg = walk[w].leg
    <3> TAKE w \in Client
    <3>1. walk[w] \in Walk
      BY DEF TypeOK
    <3> QED
      BY <2>1, <3>1, EditStep DEF Walk
  <2>5. walk' \in [Client -> Walk]
    BY <2>1, <2>4 DEF EditProduct
  <2> QED
    BY <2>1, <2>3, <2>4, <2>5 DEF EditProduct, TypeOK
<1> QED
  BY <1>1, <1>2, <1>3 DEF Environment

\* The tables, the walks and the polls stay in step: the inductive invariant, of which
\* the safety properties are parts.
THEOREM ReadInvariant == Spec => []ReadInv
<1>1. Init => ReadInv
  <2> SUFFICES ASSUME Init PROVE ReadInv
    OBVIOUS
  <2>1. \A w \in Client :
          \E p \in Plans, n \in Limits :
            walk[w] = [plan |-> p, limit |-> n, leg |-> 1, stage |-> "new", cursor |-> 0,
                       listed |-> {}, twice |-> {}, seen |-> {},
                       steady |-> {}, before |-> {}]
    BY DEF Init
  <2>2. \A w \in Client :
          /\ walk[w] \in Walk /\ walk[w].leg = 1 /\ walk[w].stage = "new"
          /\ walk[w].plan # <<>> => walk[w].leg \in DOMAIN walk[w].plan
          /\ walk[w].listed = {} /\ walk[w].twice = {} /\ walk[w].steady = {}
          /\ walk[w].before = {}
    <3> TAKE w \in Client
    <3>1. PICK p \in Plans, n \in Limits :
            walk[w] = [plan |-> p, limit |-> n, leg |-> 1, stage |-> "new", cursor |-> 0,
                       listed |-> {}, twice |-> {}, seen |-> {},
                       steady |-> {}, before |-> {}]
      BY <2>1
    <3>2. p # <<>> => 1 \in DOMAIN p
      BY PlansAssumption
    <3>3. walk[w] \in Walk
      BY <3>1 DEF Walk, Stage
    <3> QED
      BY <3>1, <3>2, <3>3
  <2>3. walk \in [Client -> Walk]
    BY <2>2 DEF Init
  <2>4. Absent \in Poll /\ Absent.status = "none" /\ Absent.then = "nothing"
    BY DEF Absent, Poll
  <2>5. TypeOK
    BY <2>2, <2>3, <2>4 DEF Init, TypeOK, Contract!Status, Confidence
  <2>6. TablesInv
    BY DEF Init, TablesInv
  <2>7. \A w \in Client : PagesInv(w) /\ PlanInv(w)
    BY <2>2 DEF PagesInv, PlanInv
  <2>8. \A p \in Client : PollInv(p)
    BY <2>4 DEF Init, PollInv
  <2> QED
    BY <2>5, <2>6, <2>7, <2>8 DEF ReadInv
<1>2. ReadInv /\ [Next]_vars => ReadInv'
  <2> SUFFICES ASSUME ReadInv, [Next]_vars PROVE ReadInv'
    OBVIOUS
  <2>0. /\ TypeOK /\ TablesInv /\ \A w \in Client : PagesInv(w) /\ PlanInv(w) /\ PollInv(w)
        /\ \A w \in Client : walk[w] \in Walk
        /\ \A w \in Client : poll[w] \in Poll
    BY DEF ReadInv, TypeOK
  <2>1. CASE Environment
    <3>1. TypeOK' /\ TablesInv'
      BY <2>0, <2>1, EnvironmentType, TablesStep
    <3>2. \A p \in Client : PollInv(p)'
      BY <2>0, <2>1, TablesStep, MineAssumption DEF PollInv
    <3>3. \A w \in Client : PagesInv(w)' /\ PlanInv(w)'
      <4>1. CASE \E j \in Job : EditProduct(j)
        BY <2>0, <4>1, EditedWalk
      <4>2. CASE /\ walk' = walk
                 /\ \A j \in Job : catalogue[j] # <<>> =>
                      catalogue'[j] = catalogue[j] /\ overall'[j] = overall[j]
        BY <2>0, <4>2, UntouchedWalk
      <4> QED
        BY <2>0, <2>1, <4>1, <4>2, TablesStep
    <3> QED
      BY <3>1, <3>2, <3>3 DEF ReadInv
  <2>2. ASSUME NEW w \in Client, Walks(w) PROVE ReadInv'
    <3>1. /\ walk' \in [Client -> Walk] /\ \A x \in Client \ {w} : walk'[x] = walk[x]
          /\ UNCHANGED <<status, catalogue, overall, items, poll>>
          /\ walk'[w].plan # <<>> /\ walk'[w].leg \in DOMAIN walk'[w].plan
      <4>1. CASE ListProducts(w)
        BY <2>0, <4>1, ListStep DEF TypeOK
      <4>2. CASE NextWalk(w)
        <5>1. walk[w].plan \in Seq(Filter)
          BY <2>0, PlansAssumption DEF Walk
        <5> QED
          BY <2>0, <4>2, <5>1, NextWalkStep
      <4> QED
        BY <2>2, <4>1, <4>2 DEF Walks
    <3>2. TypeOK'
      <4>1. \A x \in Client : IF walk'[x].plan = <<>> THEN walk'[x].stage = "new"
                             ELSE walk'[x].leg \in DOMAIN walk'[x].plan
        BY <2>0, <3>1 DEF TypeOK
      <4> QED
        BY <2>0, <3>1, <4>1 DEF TypeOK
    <3>3. TablesInv' /\ \A p \in Client : PollInv(p)'
      BY <2>0, <3>1 DEF TablesInv, PollInv
    <3>4. PagesInv(w)' /\ PlanInv(w)'
      BY <2>0, <2>2, ListedWalk, NextWalkWalk DEF Walks
    <3>5. \A x \in Client \ {w} : PagesInv(x)' /\ PlanInv(x)'
      BY <2>0, <3>1, UntouchedWalk
    <3> QED
      BY <3>2, <3>3, <3>4, <3>5 DEF ReadInv
  <2>3. ASSUME NEW p \in Client, Polls(p) PROVE ReadInv'
    <3>1. /\ poll' \in [Client -> Poll] /\ \A x \in Client : PollInv(x)'
          /\ UNCHANGED <<status, catalogue, overall, items, walk>>
      BY <2>3, PollStep
    <3>2. TypeOK' /\ TablesInv'
      BY <2>0, <3>1 DEF TypeOK, TablesInv
    <3>3. \A w \in Client : PagesInv(w)' /\ PlanInv(w)'
      BY <2>0, <3>1, UntouchedWalk
    <3> QED
      BY <3>1, <3>2, <3>3 DEF ReadInv
  <2>4. CASE UNCHANGED vars
    <3>1. UNCHANGED <<status, catalogue, overall, items, walk, poll>>
      BY <2>4 DEF vars
    <3>2. TypeOK' /\ TablesInv' /\ \A p \in Client : PollInv(p)'
      BY <2>0, <3>1 DEF TypeOK, TablesInv, PollInv
    <3>3. \A w \in Client : PagesInv(w)' /\ PlanInv(w)'
      BY <2>0, <3>1, UntouchedWalk
    <3> QED
      BY <3>2, <3>3 DEF ReadInv
  <2> QED
    BY <2>1, <2>2, <2>3, <2>4 DEF Next
<1> QED
  BY <1>1, <1>2, PTL DEF Spec

\* Every variable keeps its type, and so do the page's cursor and limit.
THEOREM ReadTypeCorrect == Spec => []TypeOK
<1>1. ReadInv => TypeOK
  BY DEF ReadInv
<1> QED
  BY <1>1, ReadInvariant, PTL

\* list_products never gives a client a product on two pages of one walk, whatever is
\* published or edited between them.
THEOREM WalksNeverRepeat == Spec => []WalksListOnce
<1>1. ReadInv => WalksListOnce
  BY DEF ReadInv, PagesInv, WalksListOnce
<1> QED
  BY <1>1, ReadInvariant, PTL

\* A walk that has come to its end has listed every product that passed its filter all
\* along: a cut at the id of a page's last row loses none.
THEOREM WalksAreComplete == Spec => []SteadyProductsAreListed
<1>1. ReadInv => SteadyProductsAreListed
  BY DEF ReadInv, PagesInv, SteadyProductsAreListed
<1> QED
  BY <1>1, ReadInvariant, PTL

\* A walk through what needs review, followed by one through what is completed, shows
\* every product there was in the beginning.
THEOREM ReviewFirstSeesAll == Spec => []ReviewThenCompletedSeesAll
<1>1. ReadInv => ReviewThenCompletedSeesAll
  BY DEF ReadInv, PagesInv, PlanInv, ReviewThenCompletedSeesAll, ReviewFirst
<1> QED
  BY <1>1, ReadInvariant, PTL

\* Neither get_job_product nor list_review_items denies what get_job_status has said of
\* the job before, and none of the three tells anything of another API key's job.
THEOREM PollsAgree == Spec => []PolledOutcomesHold
<1>1. ReadInv => PolledOutcomesHold
  BY DEF ReadInv, PollInv, PolledOutcomesHold
<1> QED
  BY <1>1, ReadInvariant, PTL

\* A job that get_job_status has reported as needs_review is in the review queue.
THEOREM ReviewsAreQueued == Spec => []PolledReviewsAreQueued
<1>1. ReadInv => PolledReviewsAreQueued
  BY DEF ReadInv, PollInv, PolledReviewsAreQueued
<1> QED
  BY <1>1, ReadInvariant, PTL
===============================================================================
