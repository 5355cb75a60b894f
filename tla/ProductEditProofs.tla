-------------------------- MODULE ProductEditProofs --------------------------
(***************************************************************************)
(* Theorems about ProductEdit, for every value of its constants: any       *)
(* number of concurrent calls, any fields, values and products.            *)
(***************************************************************************)
EXTENDS ProductEdit, TLAPS

\* Between the first query of a handler and its end.
Active(r) == pc[r] \notin {"new", "done"}

\* What a session has changed of the field rows, in memory or in the database.
Cells(r) == dirty[r] \cup stored[r]

\* The update of f is behind the handler.
Made(r, f) == \E i \in DOMAIN Updates(r) : i < at[r] /\ Updates(r)[i].field = f

\* So is the flush of the product row that follows the assignment to f.
Flushed(r, f) ==
  \E i \in DOMAIN Updates(r) :
    /\ i < at[r] \/ (i = at[r] /\ pc[r] \in {"row", "select"})
    /\ Updates(r)[i].field = f

\* What a call asks for the row of a field.
Text(r, f) == Raw(r, Asked(r, f))

Human(id) == rows[id] # NoRow /\ rows[id].source = "human"

\* No edit of f that went through has merely confirmed a value.
AllChanged(f) == \A r \in Request : Applied(r) /\ Sets(r, f) => Changed(r, f)

\* Where a handler stands, and what its session has to write there.
StageInv(r) ==
  /\ ~Active(r) => wrote[r] = {} /\ dirty[r] = {} /\ stored[r] = {}
  /\ pc[r] = "new" => at[r] = 1
  /\ pc[r] \in {"select", "end"} => dirty[r] = {}
  /\ pc[r] = "end" => AtEnd(r)
  /\ pc[r] = "select" => ~AtEnd(r)
  /\ pc[r] \in {"row", "select"} => ~AtOtherKey(r)
  /\ pc[r] # "done" => resp[r] = 0
  /\ Applied(r) => call[r].kind = "patch"

\* The columns written are those that were changed so far.
WroteInv(r) ==
  /\ \A c \in wrote[r] : c = Overall \/ (c \in Editable /\ Changed(r, c))
  /\ Active(r) => \A f \in Editable : Flushed(r, f) /\ Changed(r, f) => f \in wrote[r]

\* The cells changed of a row are those in which it differed when it was read: both of a
\* new row, and of one with a mark the value, if another call has not changed it since.
CellOk(r, id) ==
  /\ \A k \in Cell : <<id, k>> \in Cells(r) =>
       /\ Made(r, id[2])
       /\ rows[id] = NoRow => /\ id[1] = r
                              /\ \/ \A l \in Cell : <<id, l>> \in dirty[r]
                                 \/ \A l \in Cell : <<id, l>> \in stored[r]
  /\ <<id, "value">> \in Cells(r) /\ <<id, "mark">> \notin Cells(r) => Human(id)
  /\ <<id, "mark">> \in Cells(r) /\ <<id, "value">> \notin Cells(r) =>
       Human(id) \/ rows[id].value = Text(r, id[2])

CellInv(r) == \A id \in RowId : CellOk(r, id)

\* A call adds a row to a field that had none from ingestion, and if it changes the
\* product, none from another that did.
NewRowInv(r) ==
  \A f \in Editable, k \in Cell : <<<<r, f>>, k>> \in Cells(r) =>
    /\ rows[<<Ingested, f>>] = NoRow
    /\ Changed(r, f) => \A s \in Request : Changed(s, f) => rows[<<s, f>>] = NoRow

\* An update that is made leaves a human row, and the value asked for in every row of a
\* field that is only ever changed.
MadeInv(r) ==
  Active(r) =>
    \A f \in Editable : Made(r, f) =>
      /\ \E id \in RowId : id[2] = f /\ (<<id, "mark">> \in Cells(r) \/ Human(id))
      /\ Changed(r, f) /\ AllChanged(f) =>
           \A id \in RowsOf(f) :
             <<id, "value">> \in Cells(r) \/ rows[id].value = Text(r, f)

\* The product row has one writer at a time.
LockInv == \A r, s \in Request : r # s => wrote[r] = {} \/ wrote[s] = {}

\* A row that is not from ingestion was inserted by a call that went through, and what a
\* human has set is sure.
RowInv(id) ==
  rows[id] # NoRow =>
    /\ id[1] \in Request =>
         Applied(id[1]) /\ Sets(id[1], id[2]) /\ rows[<<Ingested, id[2]>>] = NoRow
    /\ rows[id].source = "human" => rows[id].confidence = SURE

SessionInv(r) == StageInv(r) /\ WroteInv(r) /\ CellInv(r) /\ NewRowInv(r) /\ MadeInv(r)

\* The inductive invariant.
EditInv ==
  /\ TypeOK
  /\ LockInv
  /\ \A r \in Request : SessionInv(r)
  /\ \A id \in RowId : RowInv(id)
  /\ DuplicatesAreConfirmations /\ HumanValuesWereAsked /\ SerialisedEditsAgree
-----------------------------------------------------------------------------
(* What a call asks *)

\* The updates of a call are a sequence, and no field is in it twice.
LEMMA UpdatesShape ==
  ASSUME TypeOK, NEW r \in Request
  PROVE  /\ Len(Updates(r)) \in Nat /\ DOMAIN Updates(r) = 1 .. Len(Updates(r))
         /\ \A i, j \in DOMAIN Updates(r) :
              Updates(r)[i].field = Updates(r)[j].field => i = j
         /\ call[r].kind = "patch" => Updates(r) \in Seq([field : STRING, value : Value])
<1>1. IsCall(call[r])
  BY CallsAssumption DEF TypeOK
<1>2. CASE call[r].kind = "patch"
  BY <1>1, <1>2 DEF IsCall, Updates
<1>3. CASE call[r].kind # "patch"
  <2>1. \/ Updates(r) = <<>>
        \/ Updates(r) = <<[field |-> call[r].field, value |-> FinalValue(call[r])]>>
    BY <1>3 DEF Updates
  <2> QED
    BY <1>3, <2>1
<1> QED
  BY <1>2, <1>3

\* What is asked for a field is the value of its one update.
LEMMA AskedIs ==
  ASSUME TypeOK, NEW r \in Request, NEW i \in DOMAIN Updates(r),
         Updates(r)[i].field \in Editable
  PROVE  Asked(r, Updates(r)[i].field) = Updates(r)[i].value
<1>1. Updates(r)[i].field # Overall
  BY EditableAssumption
<1>2. \A j \in DOMAIN Updates(r) : Updates(r)[j].field = Updates(r)[i].field => j = i
  BY UpdatesShape
<1> DEFINE k == CHOOSE j \in DOMAIN Updates(r) : Updates(r)[j].field = Updates(r)[i].field
<1>3. k = i
  BY <1>2
<1> QED
  BY <1>1, <1>3 DEF Asked

LEMMA ElementOf ==
  ASSUME NEW S, NEW s \in Seq(S), NEW i \in 1 .. Len(s)
  PROVE  s[i] \in S
OBVIOUS

\* An editable field that a PATCH sets gets a value, and so does its row.
LEMMA AskedType ==
  ASSUME TypeOK, NEW r \in Request, call[r].kind = "patch", NEW f \in Editable, Sets(r, f)
  PROVE  Asked(r, f) \in Value /\ Raw(r, Asked(r, f)) \in Value
<1>1. PICK i \in DOMAIN Updates(r) : Updates(r)[i].field = f
  BY DEF Sets
<1>2. Asked(r, f) = Updates(r)[i].value
  BY <1>1, AskedIs
<1>3. Updates(r)[i] \in [field : STRING, value : Value]
  <2>1. Updates(r) \in Seq([field : STRING, value : Value]) /\ i \in 1 .. Len(Updates(r))
    BY UpdatesShape
  <2> QED
    BY <2>1, ElementOf
<1> QED
  BY <1>2, <1>3, ValueAssumption DEF Raw

\* No step changes what is asked.
LEMMA AskedStays ==
  ASSUME NEW r \in Request, call' = call, origin' = origin
  PROVE  /\ Updates(r)' = Updates(r) /\ Sureness(r)' = Sureness(r)
         /\ \A f :
              /\ Asked(r, f)' = Asked(r, f) /\ (Sets(r, f)' <=> Sets(r, f))
              /\ Raw(r, Asked(r, f))' = Raw(r, Asked(r, f))
         /\ product' = product => \A f : Raw(r, product[f])' = Raw(r, product[f])
<1>1. Updates(r)' = Updates(r)
  BY DEF Updates, FinalValue
<1> QED
  BY <1>1 DEF Sureness, Asked, Sets, Raw
-----------------------------------------------------------------------------
(* Steps within a session, which leave the tables alone *)

\* The part of the state that belongs to one handler.
Same(x) ==
  /\ pc'[x] = pc[x] /\ at'[x] = at[x] /\ loaded'[x] = loaded[x] /\ wrote'[x] = wrote[x]
  /\ dirty'[x] = dirty[x] /\ stored'[x] = stored[x] /\ resp'[x] = resp[x]

\* What one does within its session disturbs no other one: a call that has not gone
\* through has no row, so that it does not matter what it loads.
LEMMA OtherSession ==
  ASSUME EditInv, NEW x \in Request, Same(x),
         UNCHANGED <<call, origin, rows>>,
         \A s \in Request : Applied(s)' <=> Applied(s),
         \A s \in Request : Applied(s) => loaded'[s] = loaded[s]
  PROVE  SessionInv(x)'
<1>1. /\ \A s \in Request : \A f :
           Asked(s, f)' = Asked(s, f) /\ (Sets(s, f)' <=> Sets(s, f))
      /\ \A f : Raw(x, Asked(x, f))' = Raw(x, Asked(x, f))
      /\ Updates(x)' = Updates(x)
  BY AskedStays
<1>2. SessionInv(x)
  BY DEF EditInv
<1>3. \A f : Changed(x, f)' <=> Changed(x, f)
  BY <1>1 DEF Changed, Same
<1>4. /\ Cells(x)' = Cells(x) /\ (Active(x)' <=> Active(x))
      /\ (AtEnd(x)' <=> AtEnd(x)) /\ (AtOtherKey(x)' <=> AtOtherKey(x))
  BY <1>1 DEF Cells, Active, AtEnd, AtOtherKey, Same
<1>5. \A f : (Made(x, f)' <=> Made(x, f)) /\ (Flushed(x, f)' <=> Flushed(x, f))
  BY <1>1 DEF Made, Flushed, Same
<1>6. StageInv(x)' /\ WroteInv(x)'
  BY <1>1, <1>2, <1>3, <1>4, <1>5 DEF SessionInv, StageInv, WroteInv, Same
<1>a. \A f : RowsOf(f)' = RowsOf(f)
  BY DEF RowsOf
<1>b. \A f : Text(x, f)' = Text(x, f)
  BY <1>1 DEF Text
<1>7. ASSUME NEW id \in RowId PROVE CellOk(x, id)' /\ (Human(id)' <=> Human(id))
  <2>1. /\ Made(x, id[2])' <=> Made(x, id[2])
        /\ Text(x, id[2])' = Text(x, id[2])
        /\ Human(id)' <=> Human(id)
    BY <1>5, <1>b DEF Human
  <2>2. CellOk(x, id) /\ dirty'[x] = dirty[x] /\ stored'[x] = stored[x] /\ rows' = rows
    BY <1>2 DEF SessionInv, CellInv, Same
  <2> QED
    BY <1>4, <2>1, <2>2 DEF CellOk
<1>8. NewRowInv(x)'
  <2>1. ASSUME NEW s \in Request, NEW f \in Editable, Changed(s, f)', ~Changed(s, f)
        PROVE  rows[<<s, f>>] = NoRow
    <3>1. ~Applied(s)
      BY <1>1, <2>1 DEF Changed
    <3>2. <<s, f>> \in RowId /\ RowInv(<<s, f>>)
      BY DEF EditInv, RowId
    <3> QED
      BY <3>1, <3>2 DEF RowInv
  <2> QED
    BY <1>2, <1>3, <1>4, <2>1 DEF SessionInv, NewRowInv
<1>9. MadeInv(x)'
  <2>1. \A f : AllChanged(f)' => AllChanged(f)
    BY <1>1 DEF AllChanged, Changed
  <2> QED
    BY <1>2, <1>3, <1>4, <1>5, <1>7, <1>a, <1>b, <2>1 DEF SessionInv, MadeInv
<1> QED
  BY <1>6, <1>7, <1>8, <1>9 DEF SessionInv, CellInv

\* The parts of the invariant that speak of the rows and of calls that went through.
LEMMA TablesStay ==
  ASSUME EditInv, UNCHANGED <<call, origin, rows, product>>,
         \A s \in Request : Applied(s)' <=> Applied(s),
         \A s \in Request : Applied(s) => loaded'[s] = loaded[s]
  PROVE  /\ \A id \in RowId : RowInv(id)'
         /\ DuplicatesAreConfirmations' /\ HumanValuesWereAsked' /\ SerialisedEditsAgree'
<1>1. \A s \in Request : \A f :
        /\ Asked(s, f)' = Asked(s, f) /\ (Sets(s, f)' <=> Sets(s, f))
        /\ Raw(s, Asked(s, f))' = Raw(s, Asked(s, f))
        /\ Raw(s, product[f])' = Raw(s, product[f])
  BY AskedStays
<1>2. \A s \in Request :
        /\ Applied(s)' <=> Applied(s)
        /\ Applied(s) => \A f : Changed(s, f)' <=> Changed(s, f)
  BY <1>1 DEF Changed
<1>3. \A id \in RowId : RowInv(id)'
  BY <1>1, <1>2 DEF EditInv, RowInv, RowId
<1>4. DuplicatesAreConfirmations'
  <2>1. ASSUME NEW f \in Editable, NEW i \in RowsOf(f)', NEW j \in RowsOf(f)', i # j
        PROVE  /\ Ingested \notin {i[1], j[1]}
               /\ ~Changed(i[1], f)' \/ ~Changed(j[1], f)'
    <3>1. i \in RowsOf(f) /\ j \in RowsOf(f) /\ RowInv(i) /\ RowInv(j)
      BY DEF RowsOf, EditInv
    <3>2. /\ Ingested \notin {i[1], j[1]}
          /\ ~Changed(i[1], f) \/ ~Changed(j[1], f)
      BY <2>1, <3>1 DEF EditInv, DuplicatesAreConfirmations
    <3>3. i[1] \in Request /\ j[1] \in Request
      BY <3>1, <3>2 DEF RowsOf, RowId
    <3>4. Applied(i[1]) /\ Applied(j[1])
      BY <3>1, <3>3 DEF RowsOf, RowInv
    <3> QED
      <4>1. /\ Changed(i[1], f)' <=> Changed(i[1], f)
            /\ Changed(j[1], f)' <=> Changed(j[1], f)
        BY <1>2, <3>3, <3>4
      <4> QED
        BY <3>2, <4>1
  <2> QED
    BY <2>1 DEF DuplicatesAreConfirmations
<1>5. HumanValuesWereAsked'
  BY <1>1, <1>2 DEF EditInv, HumanValuesWereAsked
<1>6. SerialisedEditsAgree'
  BY <1>1, <1>2 DEF EditInv, SerialisedEditsAgree, RowsOf
<1> QED
  BY <1>3, <1>4, <1>5, <1>6

\* So it is enough to look at the session that makes the step.
LEMMA LocalStep ==
  ASSUME EditInv, NEW r \in Request, UNCHANGED <<call, origin, product, rows>>,
         \A x \in Request \ {r} : Same(x),
         resp[r] \in {0, 400, 404, 500}, resp'[r] \in {0, 400, 404, 500},
         TypeOK', LockInv', SessionInv(r)'
  PROVE  EditInv'
<1>1. /\ \A s \in Request : Applied(s)' <=> Applied(s)
      /\ \A s \in Request : Applied(s) => loaded'[s] = loaded[s]
  BY DEF Same, Applied, LOST_ANSWER
<1>2. ASSUME NEW x \in Request, x # r PROVE SessionInv(x)'
  BY <1>1, <1>2, OtherSession
<1>3. /\ \A id \in RowId : RowInv(id)'
      /\ DuplicatesAreConfirmations' /\ HumanValuesWereAsked' /\ SerialisedEditsAgree'
  BY <1>1, TablesStay
<1> QED
  BY <1>2, <1>3 DEF EditInv

\* After its first query a handler has changed nothing.
LEMMA LoadStep ==
  ASSUME EditInv, NEW r \in Request, Load(r)
  PROVE  EditInv'
<1> USE DEF EditInv
<1>1. /\ pc[r] = "new" /\ at[r] = 1 /\ wrote[r] = {} /\ dirty[r] = {} /\ stored[r] = {}
      /\ resp[r] = 0
  BY DEF Load, SessionInv, StageInv, Active
<1>2. /\ pc'[r] \in {"product", "end"}
      /\ pc'[r] = "end" => AtEnd(r)
      /\ UNCHANGED <<call, at, wrote, dirty, stored, resp, product, rows, items, origin>>
      /\ pc' = [pc EXCEPT ![r] = pc'[r]] /\ loaded' = [loaded EXCEPT ![r] = product]
  BY DEF Load, GoTo, TypeOK, dbVars
<1>3. \A x \in Request \ {r} : Same(x)
  BY <1>2 DEF Same, TypeOK
<1>4. TypeOK'
  <2>1. \A x \in Request : IsColumns(loaded'[x])
    BY <1>2 DEF TypeOK
  <2>2. DOMAIN loaded' = Request /\ \A x \in Request : IsColumns(loaded[x])'
    BY <1>2, <2>1 DEF TypeOK, IsColumns
  <2>3. IsColumns(product)'
    BY <1>2 DEF TypeOK, IsColumns
  <2>4. pc' \in [Request -> {"new", "product", "row", "select", "end", "done"}]
    BY <1>2 DEF TypeOK
  <2> QED
    BY <1>2, <2>2, <2>3, <2>4 DEF TypeOK
<1>5. LockInv'
  BY <1>2 DEF LockInv
<1>6. Updates(r)' = Updates(r) /\ DOMAIN Updates(r) = 1 .. Len(Updates(r))
  BY <1>2, AskedStays, UpdatesShape
<1>7. \A f : ~Made(r, f)' /\ ~Flushed(r, f)'
  BY <1>1, <1>2, <1>6 DEF Made, Flushed
<1>8. Cells(r)' = {}
  BY <1>1, <1>2 DEF Cells
<1>9. StageInv(r)'
  BY <1>1, <1>2, <1>6 DEF StageInv, Active, AtEnd, Applied, LOST_ANSWER
<1>10. WroteInv(r)' /\ CellInv(r)' /\ NewRowInv(r)' /\ MadeInv(r)'
  BY <1>1, <1>2, <1>7, <1>8 DEF WroteInv, CellInv, CellOk, NewRowInv, MadeInv
<1> QED
  BY <1>1, <1>2, <1>3, <1>4, <1>5, <1>9, <1>10, LocalStep DEF SessionInv

\* A transaction that is over without a commit leaves nothing.
LEMMA RefuseStep ==
  ASSUME EditInv, NEW r \in Request, pc[r] # "done", NEW code \in {0, 400, 404, 500},
         Refuse(r, code)
  PROVE  EditInv'
<1> USE DEF EditInv
<1>1. /\ UNCHANGED <<call, at, loaded, product, rows, items, origin>>
      /\ pc' = [pc EXCEPT ![r] = "done"] /\ resp' = [resp EXCEPT ![r] = code]
      /\ wrote' = [wrote EXCEPT ![r] = {}] /\ dirty' = [dirty EXCEPT ![r] = {}]
      /\ stored' = [stored EXCEPT ![r] = {}]
  BY DEF Refuse, Finish, GoTo, dbVars
<1>2. resp[r] = 0
  BY DEF SessionInv, StageInv
<1>3. /\ pc'[r] = "done" /\ resp'[r] = code /\ wrote'[r] = {} /\ dirty'[r] = {}
      /\ stored'[r] = {}
  BY <1>1 DEF TypeOK
<1>4. \A x \in Request \ {r} : Same(x)
  BY <1>1 DEF Same, TypeOK
<1>5. TypeOK'
  BY <1>1 DEF TypeOK, IsColumns
<1>6. LockInv'
  BY <1>1 DEF LockInv, TypeOK
<1>7. Cells(r)' = {} /\ ~Active(r)'
  BY <1>3 DEF Cells, Active
<1>8. StageInv(r)' /\ WroteInv(r)' /\ CellInv(r)' /\ NewRowInv(r)' /\ MadeInv(r)'
  BY <1>3, <1>7 DEF StageInv, WroteInv, CellInv, CellOk, NewRowInv, MadeInv, Applied, LOST_ANSWER
<1> QED
  BY <1>1, <1>2, <1>3, <1>4, <1>5, <1>6, <1>8, LocalStep DEF SessionInv

\* Within a session only these variables change, and their types are all there is to see.
LEMMA SessionType ==
  ASSUME TypeOK, UNCHANGED <<call, loaded, resp, product, rows, items, origin>>,
         pc' \in [Request -> {"new", "product", "row", "select", "end", "done"}],
         at' \in [Request -> Nat \ {0}],
         wrote' \in [Request -> SUBSET Column],
         dirty' \in [Request -> SUBSET (RowId \X Cell)],
         stored' \in [Request -> SUBSET (RowId \X Cell)]
  PROVE  TypeOK'
BY DEF TypeOK, IsColumns

\* Nor do steps after the first query change what is asked and who has changed what.
LEMMA SteadyFacts ==
  ASSUME NEW r \in Request, UNCHANGED <<call, origin, loaded, resp, rows>>
  PROVE  /\ \A s \in Request : \A f : Changed(s, f)' <=> Changed(s, f)
         /\ \A f : Sets(r, f)' <=> Sets(r, f)
         /\ \A f : Text(r, f)' = Text(r, f)
         /\ \A f : RowsOf(f)' = RowsOf(f)
         /\ \A f : AllChanged(f)' <=> AllChanged(f)
         /\ \A id : Human(id)' <=> Human(id)
BY AskedStays DEF Changed, Text, RowsOf, AllChanged, Applied, Human

\* A step that leaves the cells as they are, and the updates that are made.
LEMMA CellsStay ==
  ASSUME EditInv, NEW r \in Request, UNCHANGED <<call, origin, loaded, resp, rows>>,
         Cells(r)' = Cells(r), Active(r)' <=> Active(r),
         \A f \in Editable : Made(r, f)' <=> Made(r, f)
  PROVE  NewRowInv(r)' /\ MadeInv(r)'
<1>1. /\ \A s \in Request : \A f : Changed(s, f)' <=> Changed(s, f)
      /\ \A f : Text(r, f)' = Text(r, f)
      /\ \A f : RowsOf(f)' = RowsOf(f)
      /\ \A f : AllChanged(f)' <=> AllChanged(f)
      /\ \A id : Human(id)' <=> Human(id)
  BY SteadyFacts
<1>2. NewRowInv(r) /\ MadeInv(r)
  BY DEF EditInv, SessionInv
<1>3. NewRowInv(r)'
  BY <1>1, <1>2 DEF NewRowInv
<1>4. MadeInv(r)'
  <2> SUFFICES ASSUME Active(r), NEW f \in Editable, Made(r, f)
               PROVE  /\ \E id \in RowId : id[2] = f /\ (<<id, "mark">> \in Cells(r) \/ Human(id))
                      /\ Changed(r, f) /\ AllChanged(f) =>
                           \A id \in RowsOf(f) : \/ <<id, "value">> \in Cells(r)
                                                 \/ rows[id].value = Text(r, f)
    BY <1>1 DEF MadeInv
  <2> QED
    BY <1>2 DEF MadeInv
<1> QED
  BY <1>3, <1>4

\* A key that is not editable is nothing that was made or flushed.
LEMMA SkipKeyStep ==
  ASSUME EditInv, NEW r \in Request, SkipKey(r)
  PROVE  EditInv'
<1> USE DEF EditInv
<1>1. /\ pc[r] = "product" /\ AtOtherKey(r) /\ at[r] \in Nat \ {0}
      /\ UNCHANGED <<call, pc, loaded, wrote, dirty, stored, resp, product, rows, items, origin>>
      /\ at' = [at EXCEPT ![r] = at[r] + 1]
  BY DEF SkipKey, dbVars, TypeOK
<1>2. at'[r] = at[r] + 1 /\ resp[r] = 0
  BY <1>1 DEF TypeOK, SessionInv, StageInv
<1>3. \A x \in Request \ {r} : Same(x)
  BY <1>1 DEF Same, TypeOK
<1>4. TypeOK'
  <2>1. at' \in [Request -> Nat \ {0}]
    BY <1>1 DEF TypeOK
  <2> QED
    BY <1>1, <2>1, SessionType DEF TypeOK
<1>5. LockInv'
  BY <1>1 DEF LockInv
<1>6. /\ Updates(r)' = Updates(r) /\ DOMAIN Updates(r) = 1 .. Len(Updates(r))
      /\ Updates(r)[at[r]].field \notin Editable
  BY <1>1, AskedStays, UpdatesShape DEF AtOtherKey
<1>7. \A f \in Editable : (Made(r, f)' <=> Made(r, f)) /\ (Flushed(r, f)' <=> Flushed(r, f))
  <2> TAKE f \in Editable
  <2>1. ASSUME NEW i \in DOMAIN Updates(r), Updates(r)[i].field = f
        PROVE  i < at'[r] <=> i < at[r]
    BY <1>1, <1>2, <1>6, <2>1
  <2> QED
    BY <1>1, <1>6, <2>1 DEF Made, Flushed
<1>8. SessionInv(r)'
  <2>1. /\ \A s \in Request : \A f : Changed(s, f)' <=> Changed(s, f)
        /\ \A f : Sets(r, f)' <=> Sets(r, f)
        /\ \A f : Text(r, f)' = Text(r, f)
        /\ \A f : RowsOf(f)' = RowsOf(f)
        /\ \A f : AllChanged(f)' <=> AllChanged(f)
    BY <1>1, SteadyFacts
  <2>2. Cells(r)' = Cells(r) /\ (Active(r)' <=> Active(r))
    BY <1>1 DEF Cells, Active
  <2>3. StageInv(r)'
    BY <1>1 DEF SessionInv, StageInv, Active, Applied, LOST_ANSWER
  <2>4. WroteInv(r)'
    BY <1>1, <1>7, <2>1, <2>2 DEF SessionInv, WroteInv
  <2>5. ASSUME NEW id \in RowId PROVE CellOk(r, id)' /\ (Human(id)' <=> Human(id))
    <3>1. /\ Made(r, id[2])' <=> Made(r, id[2])
          /\ Text(r, id[2])' = Text(r, id[2])
          /\ Human(id)' <=> Human(id)
      BY <1>1, <1>7, <2>1 DEF Human, RowId
    <3>2. CellOk(r, id) /\ UNCHANGED <<rows, dirty, stored>>
      BY <1>1 DEF SessionInv, CellInv
    <3> QED
      BY <2>2, <3>1, <3>2 DEF CellOk
  <2>6. NewRowInv(r)' /\ MadeInv(r)'
    BY <1>1, <1>7, <2>2, CellsStay
  <2> QED
    BY <2>3, <2>4, <2>5, <2>6 DEF SessionInv, CellInv
<1> QED
  BY <1>1, <1>2, <1>3, <1>4, <1>5, <1>8, LocalStep

\* Before the next query the column just assigned is written, and by nobody else.
LEMMA FlushProductStep ==
  ASSUME EditInv, NEW r \in Request, FlushProduct(r)
  PROVE  EditInv'
<1> USE DEF EditInv
<1>1. /\ pc[r] = "product" /\ ~AtOtherKey(r)
      /\ Changes(r) # {} => \A s \in Request \ {r} : wrote[s] = {}
      /\ pc' = [pc EXCEPT ![r] = AfterProduct(r)]
      /\ wrote' = [wrote EXCEPT ![r] = wrote[r] \cup Changes(r)]
      /\ UNCHANGED <<call, at, loaded, dirty, stored, resp, product, rows, items, origin>>
  BY DEF FlushProduct, GoTo, HoldsProduct, dbVars
<1>2. /\ pc'[r] = AfterProduct(r) /\ wrote'[r] = wrote[r] \cup Changes(r)
      /\ resp[r] = 0 /\ pc'[r] \in {"row", "end", "select"}
      /\ at[r] \in Nat \ {0}
  BY <1>1 DEF TypeOK, SessionInv, StageInv, AfterProduct
<1>3. \A x \in Request \ {r} : Same(x)
  BY <1>1 DEF Same, TypeOK
<1>4. /\ Updates(r)' = Updates(r) /\ DOMAIN Updates(r) = 1 .. Len(Updates(r))
      /\ Len(Updates(r)) \in Nat
  BY <1>1, AskedStays, UpdatesShape
<1>5. /\ Changes(r) \subseteq Column
      /\ \A c \in Changes(r) : c = Overall \/ (c \in Editable /\ Changed(r, c))
  <2>1. CASE AtEnd(r)
    BY <2>1 DEF Changes, Column
  <2>2. CASE ~AtEnd(r)
    <3>1. at[r] \in DOMAIN Updates(r)
      BY <1>2, <1>4, <2>2 DEF AtEnd
    <3> QED
      BY <2>2, <3>1 DEF Changes, Column, Sets, Changed
  <2> QED
    BY <2>1, <2>2
<1>6. TypeOK'
  <2>1. wrote' \in [Request -> SUBSET Column]
    BY <1>1, <1>5 DEF TypeOK
  <2>2. pc' \in [Request -> {"new", "product", "row", "select", "end", "done"}]
    BY <1>1, <1>2 DEF TypeOK
  <2> QED
    BY <1>1, <2>1, <2>2, SessionType DEF TypeOK
<1>7. LockInv'
  <2>1. ASSUME NEW s \in Request, s # r PROVE wrote'[s] = {} \/ wrote'[r] = {}
    BY <1>1, <1>2, <2>1 DEF LockInv, TypeOK
  <2> QED
    BY <1>1, <2>1 DEF LockInv, TypeOK
<1>8. SessionInv(r)'
  <2>1. /\ \A s \in Request : \A f : Changed(s, f)' <=> Changed(s, f)
        /\ \A f : Sets(r, f)' <=> Sets(r, f)
        /\ \A f : Text(r, f)' = Text(r, f)
        /\ \A f : RowsOf(f)' = RowsOf(f)
        /\ \A f : AllChanged(f)' <=> AllChanged(f)
    BY <1>1, SteadyFacts
  <2>2. Cells(r)' = Cells(r) /\ Active(r)' /\ Active(r)
    BY <1>1, <1>2 DEF Cells, Active
  <2>3. StageInv(r)'
    <3>1. (AtEnd(r)' <=> AtEnd(r)) /\ (AtOtherKey(r)' <=> AtOtherKey(r))
      BY <1>1, <1>4 DEF AtEnd, AtOtherKey
    <3> QED
      BY <1>1, <1>2, <2>2, <3>1 DEF SessionInv, StageInv, AfterProduct, Applied, LOST_ANSWER
  <2>4. \A f : Made(r, f)' <=> Made(r, f)
    BY <1>1, <1>4 DEF Made
  <2>5. ASSUME NEW f \in Editable, Flushed(r, f)', Changed(r, f) PROVE f \in wrote'[r]
    <3>1. CASE Made(r, f)
      BY <1>2, <2>2, <2>5, <3>1 DEF SessionInv, WroteInv, Flushed, Made
    <3>2. CASE ~Made(r, f)
      <4>1. at[r] \in DOMAIN Updates(r) /\ Updates(r)[at[r]].field = f
        BY <1>1, <1>4, <2>5, <3>2 DEF Flushed, Made
      <4>2. ~AtEnd(r)
        BY <1>2, <1>4, <4>1 DEF AtEnd
      <4>3. f \in Changes(r)
        BY <2>5, <4>1, <4>2 DEF Changes, Changed
      <4> QED
        BY <1>2, <4>3
    <3> QED
      BY <3>1, <3>2
  <2>6. WroteInv(r)'
    BY <1>2, <1>5, <2>1, <2>5 DEF SessionInv, WroteInv
  <2>7. ASSUME NEW id \in RowId PROVE CellOk(r, id)' /\ (Human(id)' <=> Human(id))
    <3>1. /\ Made(r, id[2])' <=> Made(r, id[2])
          /\ Text(r, id[2])' = Text(r, id[2])
          /\ Human(id)' <=> Human(id)
      BY <1>1, <2>1, <2>4 DEF Human
    <3>2. CellOk(r, id) /\ UNCHANGED <<rows, dirty, stored>>
      BY <1>1 DEF SessionInv, CellInv
    <3> QED
      BY <2>2, <3>1, <3>2 DEF CellOk
  <2>8. NewRowInv(r)' /\ MadeInv(r)'
    BY <1>1, <2>2, <2>4, CellsStay
  <2> QED
    BY <2>3, <2>6, <2>7, <2>8 DEF SessionInv, CellInv
<1> QED
  BY <1>1, <1>2, <1>3, <1>6, <1>7, <1>8, LocalStep

\* Writing a row moves its cells from memory to the database.
LEMMA FlushRowStep ==
  ASSUME EditInv, NEW r \in Request, FlushRow(r)
  PROVE  EditInv'
<1> USE DEF EditInv
<1>1. /\ pc[r] = "row"
      /\ pc' = [pc EXCEPT ![r] = IF AtEnd(r) THEN "end" ELSE "select"]
      /\ stored' = [stored EXCEPT ![r] = stored[r] \cup dirty[r]]
      /\ dirty' = [dirty EXCEPT ![r] = {}]
      /\ UNCHANGED <<call, at, loaded, wrote, resp, product, rows, items, origin>>
  BY DEF FlushRow, GoTo, dbVars
<1>2. /\ pc'[r] = IF AtEnd(r) THEN "end" ELSE "select"
      /\ stored'[r] = stored[r] \cup dirty[r] /\ dirty'[r] = {}
      /\ resp[r] = 0 /\ at[r] \in Nat \ {0}
  BY <1>1 DEF TypeOK, SessionInv, StageInv
<1>3. \A x \in Request \ {r} : Same(x)
  BY <1>1 DEF Same, TypeOK
<1>4. /\ Updates(r)' = Updates(r) /\ DOMAIN Updates(r) = 1 .. Len(Updates(r))
      /\ Len(Updates(r)) \in Nat
  BY <1>1, AskedStays, UpdatesShape
<1>5. TypeOK'
  <2>1. /\ stored' \in [Request -> SUBSET (RowId \X Cell)]
        /\ dirty' \in [Request -> SUBSET (RowId \X Cell)]
    BY <1>1 DEF TypeOK
  <2>2. pc' \in [Request -> {"new", "product", "row", "select", "end", "done"}]
    BY <1>1 DEF TypeOK
  <2> QED
    BY <1>1, <2>1, <2>2, SessionType DEF TypeOK
<1>6. LockInv'
  BY <1>1 DEF LockInv
<1>7. SessionInv(r)'
  <2>1. /\ \A s \in Request : \A f : Changed(s, f)' <=> Changed(s, f)
        /\ \A f : Sets(r, f)' <=> Sets(r, f)
        /\ \A f : Text(r, f)' = Text(r, f)
        /\ \A f : RowsOf(f)' = RowsOf(f)
        /\ \A f : AllChanged(f)' <=> AllChanged(f)
    BY <1>1, SteadyFacts
  <2>2. Cells(r)' = Cells(r) /\ Active(r)' /\ Active(r)
    BY <1>1, <1>2 DEF Cells, Active
  <2>3. StageInv(r)'
    <3>1. (AtEnd(r)' <=> AtEnd(r)) /\ (AtOtherKey(r)' <=> AtOtherKey(r))
      BY <1>1, <1>4 DEF AtEnd, AtOtherKey
    <3> QED
      BY <1>1, <1>2, <2>2, <3>1 DEF SessionInv, StageInv, Applied, LOST_ANSWER
  <2>4. \A f : Made(r, f)' <=> Made(r, f)
    BY <1>1, <1>4 DEF Made
  <2>5. \A f : Flushed(r, f)' => Flushed(r, f)
    BY <1>1, <1>4 DEF Flushed
  <2>6. WroteInv(r)'
    BY <1>1, <2>1, <2>2, <2>5 DEF SessionInv, WroteInv
  <2>7. ASSUME NEW id \in RowId PROVE CellOk(r, id)' /\ (Human(id)' <=> Human(id))
    <3>1. /\ Made(r, id[2])' <=> Made(r, id[2])
          /\ Text(r, id[2])' = Text(r, id[2])
          /\ Human(id)' <=> Human(id)
      BY <1>1, <2>1, <2>4 DEF Human
    <3>2. CellOk(r, id) /\ rows' = rows
      BY <1>1 DEF SessionInv, CellInv
    <3> QED
      BY <1>2, <2>2, <3>1, <3>2 DEF Cells, CellOk
  <2>8. NewRowInv(r)' /\ MadeInv(r)'
    BY <1>1, <2>2, <2>4, CellsStay
  <2> QED
    BY <2>3, <2>6, <2>7, <2>8 DEF SessionInv, CellInv
<1> QED
  BY <1>1, <1>2, <1>3, <1>5, <1>6, <1>7, LocalStep

\* A field that every call has changed has one row: of two, an edit would be a mere
\* confirmation.
LEMMA OneRow ==
  ASSUME EditInv, NEW f \in Editable, AllChanged(f), NEW i \in RowsOf(f), NEW j \in RowsOf(f)
  PROVE  i = j
<1> SUFFICES ASSUME i # j PROVE FALSE
  OBVIOUS
<1>1. Ingested \notin {i[1], j[1]} /\ (~Changed(i[1], f) \/ ~Changed(j[1], f))
  BY DEF EditInv, DuplicatesAreConfirmations
<1>2. /\ i[1] \in Request /\ j[1] \in Request /\ i[2] = f /\ j[2] = f
      /\ RowInv(i) /\ RowInv(j) /\ rows[i] # NoRow /\ rows[j] # NoRow
  BY <1>1 DEF RowsOf, RowId, EditInv
<1>3. Applied(i[1]) /\ Sets(i[1], f) /\ Applied(j[1]) /\ Sets(j[1], f)
  BY <1>2 DEF RowInv
<1> QED
  BY <1>1, <1>2, <1>3 DEF AllChanged

\* The query for a field's row finds one, which is changed where it differs, or adds one
\* to a field that has none.
LEMMA SelectFieldStep ==
  ASSUME EditInv, NEW r \in Request, SelectField(r)
  PROVE  EditInv'
<1> USE DEF EditInv
<1>0. PICK f, v : f = Updates(r)[at[r]].field /\ v = Updates(r)[at[r]].value
  OBVIOUS
<1>1. /\ pc[r] = "select"
      /\ pc' = [pc EXCEPT ![r] = "product"]
      /\ at' = [at EXCEPT ![r] = at[r] + 1]
      /\ UNCHANGED <<call, loaded, wrote, stored, resp, product, rows, items, origin>>
  BY DEF SelectField, GoTo, dbVars
<1>2. PICK id0 \in IF RowsOf(f) = {} THEN {<<r, f>>} ELSE RowsOf(f) :
        dirty' = [dirty EXCEPT ![r] = {id0} \X Differing(r, id0, v)]
  BY <1>0 DEF SelectField
<1>3. /\ pc'[r] = "product" /\ at'[r] = at[r] + 1 /\ dirty[r] = {}
      /\ dirty'[r] = {id0} \X Differing(r, id0, v)
      /\ resp[r] = 0 /\ at[r] \in Nat \ {0}
      /\ ~AtEnd(r) /\ ~AtOtherKey(r)
  BY <1>1, <1>2 DEF TypeOK, SessionInv, StageInv
<1>4. /\ Updates(r)' = Updates(r) /\ DOMAIN Updates(r) = 1 .. Len(Updates(r))
      /\ Len(Updates(r)) \in Nat
      /\ \A i, j \in DOMAIN Updates(r) :
           Updates(r)[i].field = Updates(r)[j].field => i = j
  BY <1>1, AskedStays, UpdatesShape
<1>5. /\ at[r] \in DOMAIN Updates(r) /\ f \in Editable
      /\ Raw(r, v) = Text(r, f)
  <2>1. at[r] \in DOMAIN Updates(r) /\ f \in Editable
    BY <1>0, <1>3, <1>4 DEF AtEnd, AtOtherKey
  <2> QED
    BY <1>0, <2>1, AskedIs DEF Text
<1>d. PICK D : D = Differing(r, id0, v)
  OBVIOUS
<1>6. /\ id0 \in RowId /\ id0[2] = f
      /\ RowsOf(f) # {} => id0 \in RowsOf(f)
      /\ rows[id0] = NoRow => id0 = <<r, f>> /\ RowsOf(f) = {}
      /\ RowsOf(f) = {} => rows[id0] = NoRow /\ id0 = <<r, f>>
  <2>1. CASE RowsOf(f) = {}
    <3>1. id0 = <<r, f>> /\ <<r, f>> \in RowId
      BY <1>2, <1>5, <2>1 DEF RowId
    <3>2. rows[id0] = NoRow
      BY <2>1, <3>1 DEF RowsOf
    <3> QED
      BY <2>1, <3>1, <3>2
  <2>2. CASE RowsOf(f) # {}
    <3>1. id0 \in RowsOf(f)
      BY <1>2, <2>2
    <3> QED
      BY <2>2, <3>1 DEF RowsOf
  <2> QED
    BY <2>1, <2>2
<1>7. /\ D \subseteq Cell
      /\ rows[id0] = NoRow => D = Cell
      /\ "mark" \notin D => Human(id0)
      /\ "value" \notin D => rows[id0].value = Text(r, f)
  BY <1>5, <1>d DEF Differing, Human, Cell
<1>8. \A x \in Request \ {r} : Same(x)
  BY <1>1, <1>2 DEF Same, TypeOK
<1>9. TypeOK'
  <2>1. dirty' \in [Request -> SUBSET (RowId \X Cell)]
    BY <1>2, <1>6, <1>7, <1>d DEF TypeOK
  <2>2. pc' \in [Request -> {"new", "product", "row", "select", "end", "done"}]
    BY <1>1 DEF TypeOK
  <2>3. at' \in [Request -> Nat \ {0}]
    BY <1>1 DEF TypeOK
  <2> QED
    BY <1>1, <2>1, <2>2, <2>3, SessionType DEF TypeOK
<1>10. LockInv'
  BY <1>1 DEF LockInv
<1>11. /\ \A s \in Request : \A g : Changed(s, g)' <=> Changed(s, g)
       /\ \A g : Sets(r, g)' <=> Sets(r, g)
       /\ \A g : Text(r, g)' = Text(r, g)
       /\ \A g : RowsOf(g)' = RowsOf(g)
       /\ \A g : AllChanged(g)' <=> AllChanged(g)
       /\ \A id : Human(id)' <=> Human(id)
  BY <1>1, SteadyFacts
<1>12. /\ Active(r)' /\ Active(r) /\ Cells(r) = stored[r]
       /\ Cells(r)' = stored[r] \cup ({id0} \X D)
  BY <1>1, <1>3, <1>d DEF Cells, Active
<1>13. ~Made(r, f) /\ Made(r, f)' /\ \A g : Made(r, g)' <=> Made(r, g) \/ g = f
  <2>1. \A i \in DOMAIN Updates(r) : i < at[r] + 1 <=> i < at[r] \/ i = at[r]
    BY <1>3, <1>4
  <2>2. ~Made(r, f)
    BY <1>0, <1>3, <1>4, <1>5 DEF Made
  <2>3. \A g : Made(r, g)' <=>
               \E i \in DOMAIN Updates(r) : i < at[r] + 1 /\ Updates(r)[i].field = g
    BY <1>3, <1>4 DEF Made
  <2>4. \A g : Made(r, g)' <=> Made(r, g) \/ g = f
    <3> TAKE g
    <3>1. g = f => Made(r, g)'
      BY <1>0, <1>3, <1>5, <2>3
    <3>2. Made(r, g) => Made(r, g)'
      BY <2>1, <2>3 DEF Made
    <3>3. Made(r, g)' => Made(r, g) \/ g = f
      BY <1>0, <2>1, <2>3 DEF Made
    <3> QED
      BY <3>1, <3>2, <3>3
  <2> QED
    BY <2>2, <2>4
<1>14. \A g : Flushed(r, g)' => Flushed(r, g)
  <2>1. \A i \in DOMAIN Updates(r) : i < at[r] + 1 <=> i < at[r] \/ i = at[r]
    BY <1>3, <1>4
  <2> QED
    BY <1>1, <1>3, <1>4, <2>1 DEF Flushed
<1>15. \A k \in Cell : <<id0, k>> \notin stored[r]
  BY <1>6, <1>12, <1>13 DEF SessionInv, CellInv, CellOk
<1>16. StageInv(r)'
  BY <1>1, <1>3, <1>12 DEF SessionInv, StageInv, Applied, LOST_ANSWER
<1>17. WroteInv(r)'
  BY <1>1, <1>11, <1>12, <1>14 DEF SessionInv, WroteInv
<1>18. ASSUME NEW id \in RowId PROVE CellOk(r, id)'
  <2>1. CASE id = id0
    <3>1. \A k \in Cell : <<id, k>> \in Cells(r)' <=> k \in D
      BY <1>12, <1>15, <2>1
    <3>2. Made(r, id[2])' /\ Text(r, id[2])' = Text(r, f)
      BY <1>6, <1>11, <1>13, <2>1
    <3>3. rows[id] = NoRow => id[1] = r /\ \A l \in Cell : <<id, l>> \in dirty'[r]
      BY <1>3, <1>6, <1>7, <1>d, <2>1
    <3> QED
      BY <1>1, <1>7, <1>11, <2>1, <3>1, <3>2, <3>3 DEF CellOk, Cell
  <2>2. CASE id # id0
    <3>1. \A k : <<id, k>> \in Cells(r)' <=> <<id, k>> \in Cells(r)
      BY <1>12, <2>2
    <3>2. /\ Made(r, id[2]) => Made(r, id[2])'
          /\ Text(r, id[2])' = Text(r, id[2]) /\ (Human(id)' <=> Human(id))
      BY <1>11, <1>13
    <3> QED
      BY <1>1, <1>3, <3>1, <3>2 DEF SessionInv, CellInv, CellOk, Cell
  <2> QED
    BY <2>1, <2>2
<1>19. NewRowInv(r)'
  <2> SUFFICES ASSUME NEW g \in Editable, NEW k \in Cell, <<<<r, g>>, k>> \in Cells(r)'
               PROVE  /\ rows[<<Ingested, g>>] = NoRow
                      /\ Changed(r, g) => \A s \in Request : Changed(s, g) =>
                                             rows[<<s, g>>] = NoRow
    BY <1>1, <1>11 DEF NewRowInv
  <2>1. CASE <<<<r, g>>, k>> \in Cells(r)
    BY <2>1 DEF SessionInv, NewRowInv
  <2>2. CASE <<<<r, g>>, k>> \notin Cells(r)
    <3>1. id0 = <<r, g>> /\ g = f
      BY <1>6, <1>12, <2>2
    <3>2. rows[id0] = NoRow
      <4>1. RowInv(id0) /\ ~Applied(r)
        BY <1>3, <1>6 DEF Applied, LOST_ANSWER
      <4> QED
        BY <3>1, <4>1 DEF RowInv
    <3>3. \A s \in Request \cup {Ingested} : rows[<<s, g>>] = NoRow
      BY <1>6, <3>1, <3>2 DEF RowsOf, RowId
    <3> QED
      BY <3>3
  <2> QED
    BY <2>1, <2>2
<1>20. MadeInv(r)'
  <2> SUFFICES ASSUME NEW g \in Editable, Made(r, g)'
               PROVE  /\ \E id \in RowId : id[2] = g
                             /\ (<<id, "mark">> \in Cells(r)' \/ Human(id))
                      /\ Changed(r, g) /\ AllChanged(g) =>
                           \A id \in RowsOf(g) : \/ <<id, "value">> \in Cells(r)'
                                                 \/ rows[id].value = Text(r, g)
    BY <1>1, <1>11 DEF MadeInv
  <2>1. CASE g # f
    <3>1. Made(r, g) /\ Cells(r) \subseteq Cells(r)'
      BY <1>12, <1>13, <2>1
    <3> QED
      BY <1>12, <3>1 DEF SessionInv, MadeInv
  <2>2. CASE g = f
    <3>1. \A k \in D : <<id0, k>> \in Cells(r)'
      BY <1>12
    <3>2. \E id \in RowId : id[2] = g /\ (<<id, "mark">> \in Cells(r)' \/ Human(id))
      BY <1>6, <1>7, <2>2, <3>1
    <3>3. ASSUME AllChanged(g), NEW id \in RowsOf(g)
          PROVE  <<id, "value">> \in Cells(r)' \/ rows[id].value = Text(r, g)
      <4>1. id0 \in RowsOf(g)
        BY <1>6, <2>2, <3>3
      <4>2. id = id0
        BY <3>3, <4>1, OneRow
      <4> QED
        BY <1>7, <2>2, <3>1, <4>2
    <3> QED
      BY <3>2, <3>3
  <2> QED
    BY <2>1, <2>2
<1>21. SessionInv(r)'
  BY <1>16, <1>17, <1>18, <1>19, <1>20 DEF SessionInv, CellInv
<1> QED
  BY <1>1, <1>3, <1>8, <1>9, <1>10, <1>21, LocalStep
-----------------------------------------------------------------------------
(* The commit, the only step that changes the tables *)

\* At its end a call has made all its updates and holds what it has changed.
LEMMA AtTheEnd ==
  ASSUME EditInv, NEW r \in Request, pc[r] = "end"
  PROVE  /\ dirty[r] = {} /\ Cells(r) = stored[r] /\ resp[r] = 0 /\ Active(r)
         /\ \A f : Made(r, f) <=> Sets(r, f)
         /\ \A f \in Editable : Changed(r, f) <=> f \in wrote[r]
         /\ \A f \in Editable : f \in wrote[r] => Sets(r, f)
<1> USE DEF EditInv
<1>1. dirty[r] = {} /\ resp[r] = 0 /\ Active(r) /\ AtEnd(r)
  BY DEF SessionInv, StageInv, Active
<1>2. \A i \in DOMAIN Updates(r) : i < at[r]
  BY <1>1, UpdatesShape DEF AtEnd, TypeOK
<1>3. \A f : (Made(r, f) <=> Sets(r, f)) /\ (Made(r, f) => Flushed(r, f))
  BY <1>2 DEF Made, Sets, Flushed
<1> QED
  BY <1>1, <1>3, EditableAssumption DEF SessionInv, WroteInv, Changed, Cells

\* What a commit does to the rows and the product.
LEMMA CommitFacts ==
  ASSUME EditInv, NEW r \in Request, Commit(r)
  PROVE  /\ call[r].kind = "patch" /\ pc[r] = "end"
         /\ UNCHANGED <<call, at, loaded, items, origin>>
         /\ pc' = [pc EXCEPT ![r] = "done"]
         /\ resp' = [resp EXCEPT ![r] = resp'[r]] /\ resp'[r] \in {200, LOST_ANSWER}
         /\ wrote' = [wrote EXCEPT ![r] = {}] /\ dirty' = [dirty EXCEPT ![r] = {}]
         /\ stored' = [stored EXCEPT ![r] = {}]
         /\ product' = [c \in Column |-> IF c \in wrote[r] THEN Asked(r, c) ELSE product[c]]
         /\ rows' \in [RowId -> Row \cup {NoRow}]
         /\ \A id \in RowId :
              /\ ~HoldsRow(r, id) => rows'[id] = rows[id]
              /\ HoldsRow(r, id) =>
                   /\ Sets(r, id[2])
                   /\ rows'[id] # NoRow /\ rows'[id].source = "human"
                   /\ rows'[id].confidence = SURE
                   /\ rows[id] = NoRow => id[1] = r
                   /\ IF <<id, "value">> \in stored[r] THEN rows'[id].value = Text(r, id[2])
                      ELSE rows[id] # NoRow /\ rows'[id].value = rows[id].value
<1> USE DEF EditInv
<1>1. /\ call[r].kind = "patch" /\ pc[r] = "end"
      /\ UNCHANGED <<call, at, loaded, items, origin>>
      /\ pc' = [pc EXCEPT ![r] = "done"]
      /\ \E code \in Answers : resp' = [resp EXCEPT ![r] = code]
      /\ wrote' = [wrote EXCEPT ![r] = {}] /\ dirty' = [dirty EXCEPT ![r] = {}]
      /\ stored' = [stored EXCEPT ![r] = {}]
      /\ product' = [c \in Column |-> IF c \in wrote[r] THEN Asked(r, c) ELSE product[c]]
      /\ rows' = [id \in RowId |-> Committed(r, id)]
  BY DEF Commit, Publish, Finish, GoTo
<1>2. ASSUME NEW id \in RowId, ~HoldsRow(r, id)
      PROVE  rows'[id] = rows[id] /\ rows'[id] \in Row \cup {NoRow}
  BY <1>1, <1>2 DEF Committed, TypeOK
<1>3. ASSUME NEW id \in RowId, HoldsRow(r, id)
      PROVE  /\ Sets(r, id[2])
             /\ rows'[id] \in Row /\ rows'[id].source = "human"
             /\ rows'[id].confidence = SURE
             /\ rows[id] = NoRow => id[1] = r
             /\ IF <<id, "value">> \in stored[r] THEN rows'[id].value = Text(r, id[2])
                ELSE rows[id] # NoRow /\ rows'[id].value = rows[id].value
  <2>1. /\ dirty[r] = {} /\ Cells(r) = stored[r]
        /\ \A f : Made(r, f) <=> Sets(r, f)
    BY <1>1, AtTheEnd
  <2>2. CellOk(r, id) /\ RowInv(id) /\ rows[id] \in Row \cup {NoRow} /\ id[2] \in Editable
    BY DEF SessionInv, CellInv, TypeOK, RowId
  <2>3. PICK k \in Cell : <<id, k>> \in stored[r]
    BY <1>3 DEF HoldsRow
  <2>4. /\ Sets(r, id[2])
        /\ rows[id] = NoRow => id[1] = r /\ \A l \in Cell : <<id, l>> \in stored[r]
    BY <2>1, <2>2, <2>3 DEF CellOk
  <2>5. /\ rows'[id] = [value      |-> IF <<id, "value">> \in stored[r] THEN Text(r, id[2])
                                      ELSE rows[id].value,
                        confidence |-> IF <<id, "mark">> \in stored[r] THEN SURE
                                      ELSE rows[id].confidence,
                        source     |-> IF <<id, "mark">> \in stored[r] THEN "human"
                                      ELSE rows[id].source]
    BY <1>1, <1>3 DEF Committed, Text, Sureness
  <2>6. <<id, "value">> \notin stored[r] => rows[id] # NoRow /\ rows[id].value \in Value
    BY <2>2, <2>4 DEF Cell, Row
  <2>7. <<id, "mark">> \notin stored[r] =>
          rows[id].source = "human" /\ rows[id].confidence = SURE
    <3>1. SUFFICES ASSUME <<id, "mark">> \notin stored[r]
                   PROVE  rows[id].source = "human" /\ rows[id].confidence = SURE
      OBVIOUS
    <3>2. <<id, "value">> \in stored[r]
      BY <2>3, <3>1 DEF Cell
    <3> QED
      BY <2>1, <2>2, <3>1, <3>2 DEF CellOk, Human, RowInv
  <2>8. Text(r, id[2]) \in Value
    BY <1>1, <2>2, <2>4, AskedType DEF Text
  <2>9. SURE \in Confidence
    BY DEF SURE, Confidence
  <2> QED
    BY <2>4, <2>5, <2>6, <2>7, <2>8, <2>9 DEF Row
<1>4. rows' \in [RowId -> Row \cup {NoRow}]
  BY <1>1, <1>2, <1>3
<1>5. resp' = [resp EXCEPT ![r] = resp'[r]] /\ resp'[r] \in {200, LOST_ANSWER}
  BY <1>1 DEF Answers, TypeOK
<1> QED
  BY <1>1, <1>2, <1>3, <1>4, <1>5, NamesAssumption

\* What it leaves alone: what is asked, and the other sessions.
LEMMA CommitSteady ==
  ASSUME EditInv, NEW r \in Request, Commit(r)
  PROVE  /\ \A s \in Request : \A f :
              /\ (Changed(s, f)' <=> Changed(s, f)) /\ (Sets(s, f)' <=> Sets(s, f))
              /\ Text(s, f)' = Text(s, f)
         /\ \A x \in Request \ {r} : Same(x) /\ (Applied(x)' <=> Applied(x))
         /\ Applied(r)' /\ ~Applied(r)
         /\ \A f : AllChanged(f)' => AllChanged(f) /\ (Sets(r, f) => Changed(r, f))
         /\ \A id \in RowId : /\ Human(id) => Human(id)'
                              /\ ~Sets(r, id[2]) => rows'[id] = rows[id]
                              /\ rows[id] # NoRow => rows'[id] # NoRow
<1> USE DEF EditInv
<1>1. /\ call' = call /\ origin' = origin /\ loaded' = loaded
      /\ resp' = [resp EXCEPT ![r] = resp'[r]] /\ resp'[r] \in {200, LOST_ANSWER}
  BY CommitFacts
<1>2. \A s \in Request : \A f :
        /\ Asked(s, f)' = Asked(s, f) /\ (Sets(s, f)' <=> Sets(s, f))
        /\ Raw(s, Asked(s, f))' = Raw(s, Asked(s, f))
  BY <1>1, AskedStays
<1>3. \A s \in Request : \A f :
        /\ (Changed(s, f)' <=> Changed(s, f)) /\ (Sets(s, f)' <=> Sets(s, f))
        /\ Text(s, f)' = Text(s, f)
  BY <1>1, <1>2 DEF Changed, Text
<1>4. \A x \in Request \ {r} : Same(x) /\ (Applied(x)' <=> Applied(x))
  BY CommitFacts DEF Same, Applied, TypeOK
<1>5. Applied(r)' /\ ~Applied(r)
  BY <1>1, CommitFacts, AtTheEnd DEF Applied, LOST_ANSWER
<1>6. \A f : AllChanged(f)' => AllChanged(f) /\ (Sets(r, f) => Changed(r, f))
  BY <1>3, <1>4, <1>5 DEF AllChanged
<1>7. \A id \in RowId : /\ Human(id) => Human(id)'
                        /\ ~Sets(r, id[2]) => rows'[id] = rows[id]
                        /\ rows[id] # NoRow => rows'[id] # NoRow
  BY CommitFacts DEF Human
<1> QED
  BY <1>3, <1>4, <1>5, <1>6, <1>7

LEMMA CommitType ==
  ASSUME EditInv, NEW r \in Request, Commit(r)
  PROVE  TypeOK' /\ LockInv'
<1> USE DEF EditInv
<1>1. IsColumns(product)'
  <2>1. product' = [c \in Column |-> IF c \in wrote[r] THEN Asked(r, c) ELSE product[c]]
    BY CommitFacts
  <2>2. product'[Overall] \in Confidence
    BY <2>1 DEF Column, TypeOK, IsColumns, Asked, SURE, Confidence
  <2>3. ASSUME NEW f \in Editable PROVE product'[f] \in Value
    <3>1. f \in wrote[r] => Asked(r, f) \in Value
      BY CommitFacts, AtTheEnd, AskedType
    <3> QED
      BY <2>1, <3>1 DEF Column, TypeOK, IsColumns
  <2> QED
    BY <2>1, <2>2, <2>3 DEF IsColumns
<1>2. \A x \in Request : IsColumns(loaded[x])'
  BY CommitFacts DEF TypeOK, IsColumns
<1>3. TypeOK'
  BY <1>1, <1>2, CommitFacts DEF TypeOK
<1>4. LockInv'
  BY CommitFacts DEF LockInv, TypeOK
<1> QED
  BY <1>3, <1>4

LEMMA CommitOwn ==
  ASSUME EditInv, NEW r \in Request, Commit(r)
  PROVE  SessionInv(r)'
<1> USE DEF EditInv
<1>1. /\ pc'[r] = "done" /\ wrote'[r] = {} /\ dirty'[r] = {}
      /\ stored'[r] = {} /\ call'[r].kind = "patch"
  BY CommitFacts DEF TypeOK
<1>2. Cells(r)' = {} /\ ~Active(r)'
  BY <1>1 DEF Cells, Active
<1> QED
  BY <1>1, <1>2 DEF SessionInv, StageInv, WroteInv, CellInv, CellOk, NewRowInv, MadeInv

\* A call that is past an update which changed the product holds the product row, so
\* that no other one commits a change of it.
LEMMA OneChanger ==
  ASSUME EditInv, NEW r \in Request, pc[r] = "end", NEW x \in Request, x # r, Active(x),
         NEW f \in Editable, Made(x, f), Changed(x, f)
  PROVE  ~Changed(r, f)
<1> USE DEF EditInv
<1>1. Flushed(x, f)
  BY DEF Made, Flushed
<1>2. f \in wrote[x]
  BY <1>1 DEF SessionInv, WroteInv
<1> QED
  BY <1>2, AtTheEnd DEF LockInv

\* A row that ingestion has not left is not made by a commit.
LEMMA NoIngestedRow ==
  ASSUME EditInv, NEW r \in Request, Commit(r), NEW f \in Editable,
         rows[<<Ingested, f>>] = NoRow
  PROVE  rows'[<<Ingested, f>>] = NoRow
<1>1. <<Ingested, f>> \in RowId
  BY DEF RowId
<1> QED
  BY <1>1, CommitFacts, NamesAssumption

LEMMA CommitOthers ==
  ASSUME EditInv, NEW r \in Request, Commit(r), NEW x \in Request, x # r
  PROVE  SessionInv(x)'
<1> USE DEF EditInv
<1>1. /\ Same(x) /\ call' = call /\ origin' = origin /\ SessionInv(x)
      /\ \A f : /\ (Changed(x, f)' <=> Changed(x, f)) /\ (Sets(x, f)' <=> Sets(x, f))
                /\ Text(x, f)' = Text(x, f)
  BY CommitSteady, CommitFacts
<1>2. Updates(x)' = Updates(x)
  BY <1>1, AskedStays
<1>3. /\ Cells(x)' = Cells(x) /\ (Active(x)' <=> Active(x))
      /\ (AtEnd(x)' <=> AtEnd(x)) /\ (AtOtherKey(x)' <=> AtOtherKey(x))
  BY <1>1, <1>2 DEF Cells, Active, AtEnd, AtOtherKey, Same
<1>4. \A f : (Made(x, f)' <=> Made(x, f)) /\ (Flushed(x, f)' <=> Flushed(x, f))
  BY <1>1, <1>2 DEF Made, Flushed, Same
<1>5. StageInv(x)' /\ WroteInv(x)'
  BY <1>1, <1>3, <1>4 DEF SessionInv, StageInv, WroteInv, Same, Applied, LOST_ANSWER
<1>6. ASSUME NEW id \in RowId PROVE CellOk(x, id)'
  <2>1. /\ Made(x, id[2])' <=> Made(x, id[2])
        /\ Text(x, id[2])' = Text(x, id[2])
        /\ Human(id) => Human(id)'
        /\ rows[id] # NoRow => rows'[id] # NoRow
        /\ Human(id)' \/ rows'[id] = rows[id]
    BY <1>1, <1>4, CommitSteady, CommitFacts DEF Human
  <2>2. CellOk(x, id) /\ dirty'[x] = dirty[x] /\ stored'[x] = stored[x]
    BY <1>1 DEF SessionInv, CellInv, Same
  <2> QED
    BY <1>3, <2>1, <2>2 DEF CellOk
<1>7. NewRowInv(x)'
  <2> SUFFICES ASSUME NEW f \in Editable, NEW k \in Cell, <<<<x, f>>, k>> \in Cells(x)
               PROVE  /\ rows'[<<Ingested, f>>] = NoRow
                      /\ Changed(x, f) => \A s \in Request : Changed(s, f) =>
                                             rows'[<<s, f>>] = NoRow
    BY <1>1, <1>3, CommitSteady DEF NewRowInv
  <2>1. rows'[<<Ingested, f>>] = NoRow
    BY <1>1, NoIngestedRow DEF SessionInv, NewRowInv
  <2>2. ASSUME Changed(x, f), NEW s \in Request, Changed(s, f) PROVE rows'[<<s, f>>] = NoRow
    <3>1. <<s, f>> \in RowId /\ <<x, f>> \in RowId
      BY DEF RowId
    <3>2. rows[<<s, f>>] = NoRow
      BY <1>1, <2>2 DEF SessionInv, NewRowInv
    <3>3. Made(x, f) /\ Active(x)
      BY <1>1, <3>1 DEF SessionInv, CellInv, CellOk, StageInv, Cells
    <3>4. s # r
      BY <2>2, <3>3, OneChanger, CommitFacts
    <3> QED
      BY <3>1, <3>2, <3>4, CommitFacts
  <2> QED
    BY <2>1, <2>2
<1>8. MadeInv(x)'
  <2> SUFFICES ASSUME Active(x), NEW f \in Editable, Made(x, f)
               PROVE  /\ \E id \in RowId : id[2] = f
                             /\ (<<id, "mark">> \in Cells(x) \/ Human(id)')
                      /\ Changed(x, f) /\ AllChanged(f)' =>
                           \A id \in RowsOf(f)' : \/ <<id, "value">> \in Cells(x)
                                                  \/ rows'[id].value = Text(x, f)
    BY <1>1, <1>3, <1>4 DEF MadeInv
  <2>1. \E id \in RowId : id[2] = f /\ (<<id, "mark">> \in Cells(x) \/ Human(id)')
    BY <1>1, CommitSteady DEF SessionInv, MadeInv
  <2>2. ASSUME Changed(x, f), AllChanged(f)', NEW id \in RowsOf(f)'
        PROVE  <<id, "value">> \in Cells(x) \/ rows'[id].value = Text(x, f)
    <3>1. ~Sets(r, f) /\ AllChanged(f)
      BY <2>2, CommitSteady, CommitFacts, OneChanger
    <3>2. id \in RowId /\ id[2] = f /\ rows'[id] # NoRow
      BY <2>2 DEF RowsOf
    <3>3. rows'[id] = rows[id] /\ id \in RowsOf(f)
      BY <3>1, <3>2, CommitSteady DEF RowsOf
    <3> QED
      BY <1>1, <2>2, <3>1, <3>3 DEF SessionInv, MadeInv
  <2> QED
    BY <2>1, <2>2
<1> QED
  BY <1>5, <1>6, <1>7, <1>8 DEF SessionInv, CellInv
LEMMA CommitRows ==
  ASSUME EditInv, NEW r \in Request, Commit(r), NEW id \in RowId
  PROVE  RowInv(id)'
<1> USE DEF EditInv
<1>1. RowInv(id) /\ id[2] \in Editable
  BY DEF RowId
<1>2. ASSUME rows'[id] # NoRow, id[1] \in Request
      PROVE  Applied(id[1])' /\ Sets(id[1], id[2])' /\ rows'[<<Ingested, id[2]>>] = NoRow
  <2>1. CASE rows[id] # NoRow
    <3>1. Applied(id[1]) /\ Sets(id[1], id[2]) /\ rows[<<Ingested, id[2]>>] = NoRow
      BY <1>1, <1>2, <2>1 DEF RowInv
    <3>2. Applied(id[1])' /\ Sets(id[1], id[2])'
      BY <1>2, <3>1, CommitSteady
    <3> QED
      BY <1>1, <3>1, <3>2, NoIngestedRow
  <2>2. CASE rows[id] = NoRow
    <3>1. id[1] = r /\ Sets(r, id[2]) /\ HoldsRow(r, id)
      BY <1>2, <2>2, CommitFacts
    <3>2. id = <<r, id[2]>>
      BY <3>1 DEF RowId
    <3>3. \E k \in Cell : <<<<r, id[2]>>, k>> \in Cells(r)
      BY <3>1, <3>2 DEF HoldsRow, Cells
    <3>4. rows[<<Ingested, id[2]>>] = NoRow
      BY <1>1, <3>3 DEF SessionInv, NewRowInv
    <3> QED
      BY <1>1, <3>1, <3>4, NoIngestedRow, CommitSteady
  <2> QED
    BY <2>1, <2>2
<1>3. rows'[id] # NoRow /\ rows'[id].source = "human" => rows'[id].confidence = SURE
  BY <1>1, CommitFacts DEF RowInv
<1> QED
  BY <1>2, <1>3 DEF RowInv

\* A row that a commit adds is its own.
LEMMA CommitAdds ==
  ASSUME EditInv, NEW r \in Request, Commit(r), NEW id \in RowId,
         rows[id] = NoRow, rows'[id] # NoRow
  PROVE  id[1] = r /\ HoldsRow(r, id)
BY CommitFacts

\* A row that a commit adds is alone with those that ingestion or a changing edit made.
LEMMA AddedRow ==
  ASSUME EditInv, NEW r \in Request, Commit(r), NEW f \in Editable,
         NEW i \in RowsOf(f)', NEW j \in RowsOf(f)', i # j, rows[i] = NoRow
  PROVE  /\ i[1] = r /\ j[1] # Ingested
         /\ ~Changed(r, f) \/ ~Changed(j[1], f)
<1> USE DEF EditInv
<1>1. /\ i \in RowId /\ i[2] = f /\ rows'[i] # NoRow
      /\ j \in RowId /\ j[2] = f /\ rows'[j] # NoRow
  BY DEF RowsOf
<1>2. i[1] = r /\ HoldsRow(r, i)
  BY <1>1, CommitAdds
<1>3. i = <<r, f>>
  BY <1>1, <1>2 DEF RowId
<1>4. \E k \in Cell : <<<<r, f>>, k>> \in Cells(r)
  BY <1>2, <1>3 DEF HoldsRow, Cells
<1>5. /\ rows[<<Ingested, f>>] = NoRow
      /\ Changed(r, f) => \A s \in Request : Changed(s, f) => rows[<<s, f>>] = NoRow
  BY <1>4 DEF SessionInv, NewRowInv
<1>6. j = <<j[1], f>> /\ j[1] \in Request \cup {Ingested}
  BY <1>1 DEF RowId
<1>7. j[1] # r
  BY <1>3, <1>6
<1>8. rows[j] # NoRow
  BY <1>1, <1>7, CommitAdds
<1>9. j[1] # Ingested
  BY <1>5, <1>6, <1>8
<1>10. ASSUME Changed(r, f), Changed(j[1], f) PROVE FALSE
  <2>1. j[1] \in Request
    BY <1>6, <1>9
  <2>2. rows[<<j[1], f>>] = NoRow
    BY <1>5, <1>10, <2>1
  <2> QED
    BY <1>6, <1>8, <2>2
<1> QED
  BY <1>2, <1>9, <1>10

LEMMA CommitDuplicates ==
  ASSUME EditInv, NEW r \in Request, Commit(r)
  PROVE  DuplicatesAreConfirmations'
<1> USE DEF EditInv
<1> SUFFICES ASSUME NEW f \in Editable, NEW i \in RowsOf(f)', NEW j \in RowsOf(f)', i # j
             PROVE  /\ Ingested \notin {i[1], j[1]}
                    /\ ~Changed(i[1], f)' \/ ~Changed(j[1], f)'
  BY DEF DuplicatesAreConfirmations
<1>1. /\ Ingested \notin {i[1], j[1]}
      /\ ~Changed(i[1], f) \/ ~Changed(j[1], f)
  <2>1. CASE rows[i] = NoRow
    BY <2>1, AddedRow, NamesAssumption
  <2>2. CASE rows[j] = NoRow
    BY <2>2, AddedRow, NamesAssumption
  <2>3. CASE rows[i] # NoRow /\ rows[j] # NoRow
    <3>1. i \in RowsOf(f) /\ j \in RowsOf(f)
      BY <2>3 DEF RowsOf
    <3> QED
      BY <3>1 DEF DuplicatesAreConfirmations
  <2> QED
    BY <2>1, <2>2, <2>3
<1>2. i[1] \in Request /\ j[1] \in Request
  BY <1>1 DEF RowsOf, RowId
<1> QED
  BY <1>1, <1>2, CommitSteady

LEMMA CommitHumanValues ==
  ASSUME EditInv, NEW r \in Request, Commit(r)
  PROVE  HumanValuesWereAsked'
<1> USE DEF EditInv
<1>1. \A s \in Request : \A f :
        /\ Sets(s, f)' <=> Sets(s, f)
        /\ Raw(s, Asked(s, f))' = Text(s, f)
        /\ Applied(s) => Applied(s)'
  BY CommitSteady DEF Text
<1>2. ASSUME NEW id \in RowId, rows'[id] # NoRow, rows'[id].source = "human"
      PROVE  \E s \in Request :
               Applied(s)' /\ Sets(s, id[2]) /\ rows'[id].value = Text(s, id[2])
  <2>1. CASE Human(id) /\ rows'[id].value = rows[id].value
    BY <1>1, <2>1 DEF HumanValuesWereAsked, Human, Text
  <2>2. CASE HoldsRow(r, id) /\ rows'[id].value = Text(r, id[2])
    BY <2>2, CommitFacts, CommitSteady
  <2>3. CASE HoldsRow(r, id) /\ rows'[id].value # Text(r, id[2])
    <3>1. <<id, "value">> \notin stored[r] /\ rows'[id].value = rows[id].value
      BY <2>3, CommitFacts
    <3>2. <<id, "mark">> \in stored[r]
      BY <2>3, <3>1 DEF HoldsRow, Cell
    <3>3. Human(id) \/ rows[id].value = Text(r, id[2])
      BY <3>1, <3>2, AtTheEnd, CommitFacts DEF SessionInv, CellInv, CellOk
    <3>4. Human(id)
      BY <2>3, <3>1, <3>3
    <3> QED
      BY <2>1, <3>1, <3>4
  <2>4. CASE ~HoldsRow(r, id)
    <3>1. rows'[id] = rows[id]
      BY <2>4, CommitFacts
    <3> QED
      BY <1>2, <2>1, <3>1 DEF Human
  <2> QED
    BY <2>2, <2>3, <2>4
<1> QED
  BY <1>1, <1>2 DEF HumanValuesWereAsked

\* Of a PATCH, the text of a value is the same for every call.
LEMMA CommitAgreement ==
  ASSUME EditInv, NEW r \in Request, Commit(r)
  PROVE  SerialisedEditsAgree'
<1> USE DEF EditInv
<1> SUFFICES ASSUME NEW f \in Editable, AllChanged(f)',
                    NEW q \in Request, Applied(q)', Sets(q, f)', NEW id \in RowsOf(f)'
             PROVE  rows'[id].value = Raw(q, product[f])'
  BY DEF SerialisedEditsAgree, AllChanged
<1>1. PICK v : v = product'[f]
  OBVIOUS
<1>2. Raw(q, product[f])' = Raw(q, v)
  BY <1>1, CommitFacts DEF Raw
<1>3. id \in RowId /\ id[2] = f /\ rows'[id] # NoRow
  BY DEF RowsOf
<1>4. AllChanged(f) /\ (Sets(r, f) => Changed(r, f)) /\ Sets(q, f)
  BY CommitSteady
<1>5. v = IF f \in wrote[r] THEN Asked(r, f) ELSE product[f]
  BY <1>1, CommitFacts DEF Column
<1>6. call[q].kind = "patch" /\ call[r].kind = "patch"
  BY CommitFacts, CommitSteady DEF SessionInv, StageInv, Applied
<1>7. CASE ~Sets(r, f)
  <2>1. Applied(q) /\ q # r /\ v = product[f]
    BY <1>4, <1>5, <1>7, CommitSteady, CommitFacts, AtTheEnd
  <2>2. rows'[id] = rows[id] /\ id \in RowsOf(f)
    BY <1>3, <1>7, CommitSteady DEF RowsOf
  <2> QED
    BY <1>2, <1>4, <2>1, <2>2 DEF SerialisedEditsAgree, AllChanged
<1>8. CASE Sets(r, f)
  <2>1. Changed(r, f) /\ Made(r, f) /\ Active(r) /\ v = Asked(r, f) /\ Cells(r) = stored[r]
    BY <1>4, <1>5, <1>8, CommitFacts, AtTheEnd
  <2>2. Raw(q, v) = Text(r, f)
    BY <1>6, <2>1 DEF Text, Raw
  <2>3. <<id, "value">> \in stored[r] \/ (rows[id] # NoRow /\ rows[id].value = Text(r, f))
    <3>1. CASE rows[id] = NoRow
      BY <1>3, <3>1, CommitFacts
    <3>2. CASE rows[id] # NoRow
      <4>1. id \in RowsOf(f)
        BY <1>3, <3>2 DEF RowsOf
      <4> QED
        BY <1>4, <2>1, <3>2, <4>1 DEF SessionInv, MadeInv
    <3> QED
      BY <3>1, <3>2
  <2>4. rows'[id].value = Text(r, f)
    <3>1. CASE <<id, "value">> \in stored[r]
      BY <1>3, <3>1, CommitFacts DEF HoldsRow, Cell
    <3>2. CASE <<id, "value">> \notin stored[r]
      BY <1>3, <2>3, <3>2, CommitFacts
    <3> QED
      BY <3>1, <3>2
  <2> QED
    BY <1>2, <2>2, <2>4
<1> QED
  BY <1>7, <1>8

LEMMA CommitStep ==
  ASSUME EditInv, NEW r \in Request, Commit(r)
  PROVE  EditInv'
<1>1. TypeOK' /\ LockInv'
  BY CommitType
<1>2. \A x \in Request : SessionInv(x)'
  BY CommitOwn, CommitOthers
<1>3. \A id \in RowId : RowInv(id)'
  BY CommitRows
<1>4. DuplicatesAreConfirmations' /\ HumanValuesWereAsked' /\ SerialisedEditsAgree'
  BY CommitDuplicates, CommitHumanValues, CommitAgreement
<1> QED
  BY <1>1, <1>2, <1>3, <1>4 DEF EditInv
-----------------------------------------------------------------------------
(* The invariant *)

LEMMA EditInit == Init => EditInv
<1> SUFFICES ASSUME Init PROVE EditInv
  OBVIOUS
<1>1. /\ call \in [Request -> Calls] /\ origin \in Products /\ IsProduct(origin)
      /\ pc = [r \in Request |-> "new"] /\ at = [r \in Request |-> 1]
      /\ loaded = [r \in Request |-> product] /\ wrote = [r \in Request |-> {}]
      /\ dirty = [r \in Request |-> {}] /\ stored = [r \in Request |-> {}]
      /\ resp = [r \in Request |-> 0]
  BY ProductsAssumption DEF Init
<1>2. IsColumns(product)
  <2>1. PICK confidence \in OverallConfidences :
          product = [c \in Column |-> IF c = Overall THEN confidence ELSE origin.columns[c]]
    BY DEF Init
  <2>2. origin.columns \in [Editable -> Value]
    BY <1>1 DEF IsProduct
  <2>3. /\ product[Overall] = confidence
        /\ \A f \in Editable : product[f] = origin.columns[f]
    BY <2>1, EditableAssumption DEF Column
  <2> QED
    BY <2>1, <2>2, <2>3, OverallAssumption DEF IsColumns
<1>3. rows = [id \in RowId |->
                IF id[1] = Ingested /\ id[2] \in DOMAIN origin.rows
                THEN [value |-> origin.rows[id[2]].value,
                      confidence |-> origin.rows[id[2]].confidence, source |-> "machine"]
                ELSE NoRow]
  BY DEF Init
<1>4. \A id \in RowId :
        /\ rows[id] \in Row \cup {NoRow}
        /\ rows[id] # NoRow => id[1] = Ingested /\ rows[id].source = "machine"
  <2>1. \A f \in DOMAIN origin.rows :
          origin.rows[f].value \in Value /\ origin.rows[f].confidence \in Confidence
    BY <1>1 DEF IsProduct
  <2> QED
    BY <1>3, <2>1 DEF Row
<1>5. items \in [origin.items -> ReviewStatus]
  BY DEF Init, ReviewStatus
<1>6. rows \in [RowId -> Row \cup {NoRow}]
  BY <1>3, <1>4
<1>7. TypeOK
  BY <1>1, <1>2, <1>5, <1>6 DEF TypeOK
<1>8. LockInv
  BY <1>1 DEF LockInv
<1>9. ASSUME NEW r \in Request PROVE SessionInv(r)
  <2>1. Cells(r) = {} /\ ~Active(r)
    BY <1>1 DEF Cells, Active
  <2>2. pc[r] = "new" /\ at[r] = 1 /\ wrote[r] = {} /\ dirty[r] = {} /\ stored[r] = {}
        /\ resp[r] = 0
    BY <1>1
  <2> QED
    BY <2>1, <2>2 DEF SessionInv, StageInv, WroteInv, CellInv, CellOk, NewRowInv, MadeInv, Applied, LOST_ANSWER
<1>10. \A id \in RowId : RowInv(id)
  BY <1>4, NamesAssumption DEF RowInv
<1>11. DuplicatesAreConfirmations
  <2> SUFFICES ASSUME NEW f \in Editable, NEW i \in RowsOf(f), NEW j \in RowsOf(f), i # j
               PROVE  FALSE
    BY DEF DuplicatesAreConfirmations
  <2>1. i \in RowId /\ j \in RowId /\ i[2] = f /\ j[2] = f
        /\ i[1] = Ingested /\ j[1] = Ingested
    BY <1>4 DEF RowsOf
  <2> QED
    BY <2>1 DEF RowId
<1>12. HumanValuesWereAsked
  BY <1>4 DEF HumanValuesWereAsked
<1>13. SerialisedEditsAgree
  BY <1>1 DEF SerialisedEditsAgree, Applied, LOST_ANSWER
<1> QED
  BY <1>7, <1>8, <1>9, <1>10, <1>11, <1>12, <1>13 DEF EditInv

\* Each way for a handler to end without an effect: an error, a deadlock or an abort.
\* A resolve has no other one.
LEMMA RefuseSteps ==
  ASSUME NEW r \in Request,
         \/ NotFound(r) \/ BadRequest(r) \/ ProductRefused(r) \/ FlushItem(r)
         \/ ItemRefused(r) \/ DeadlockVictim(r) \/ Abort(r)
  PROVE  pc[r] # "done" /\ \E code \in {0, 400, 404, 500} : Refuse(r, code)
<1>1. FlushItem(r) => pc[r] = "end" /\ Refuse(r, 500)
  BY DEF FlushItem, NewStatus, ck_review_status
<1>2. DeadlockVictim(r) => pc[r] \in {"product", "row"} /\ Refuse(r, 500)
  BY DEF DeadlockVictim, WaitCycle, WaitsFor
<1> QED
  BY <1>1, <1>2 DEF NotFound, BadRequest, ProductRefused, ItemRefused, Abort

LEMMA EditNext == EditInv /\ [Next]_vars => EditInv'
<1> SUFFICES ASSUME EditInv, [Next]_vars PROVE EditInv'
  OBVIOUS
<1>1. CASE UNCHANGED vars
  <2>1. \A x \in Request : Same(x)
    BY <1>1 DEF vars, Same
  <2>2. /\ UNCHANGED <<call, pc, at, loaded, wrote, dirty, stored, resp, product, rows,
                       items, origin>>
    BY <1>1 DEF vars
  <2>3. TypeOK' /\ LockInv'
    BY <2>2 DEF EditInv, TypeOK, IsColumns, LockInv
  <2>4. \A s \in Request : Applied(s)' <=> Applied(s)
    BY <2>2 DEF Applied
  <2>5. /\ \A id \in RowId : RowInv(id)'
        /\ DuplicatesAreConfirmations' /\ HumanValuesWereAsked' /\ SerialisedEditsAgree'
    BY <2>2, <2>4, TablesStay
  <2>6. ASSUME NEW x \in Request PROVE SessionInv(x)'
    BY <2>1, <2>2, <2>4, OtherSession
  <2> QED
    BY <2>3, <2>5, <2>6 DEF EditInv
<1>2. ASSUME NEW r \in Request, Handler(r) \/ Abort(r) PROVE EditInv'
  <2>1. CASE \/ NotFound(r) \/ BadRequest(r) \/ ProductRefused(r) \/ FlushItem(r)
             \/ ItemRefused(r) \/ DeadlockVictim(r) \/ Abort(r)
    BY <2>1, RefuseSteps, RefuseStep
  <2>2. CASE Load(r)
    BY <2>2, LoadStep
  <2>3. CASE SkipKey(r)
    BY <2>3, SkipKeyStep
  <2>4. CASE FlushProduct(r)
    BY <2>4, FlushProductStep
  <2>5. CASE FlushRow(r)
    BY <2>5, FlushRowStep
  <2>6. CASE SelectField(r)
    BY <2>6, SelectFieldStep
  <2>7. CASE Commit(r)
    BY <2>7, CommitStep
  <2> QED
    BY <1>2, <2>1, <2>2, <2>3, <2>4, <2>5, <2>6, <2>7 DEF Handler
<1> QED
  BY <1>1, <1>2 DEF Next

\* Every reachable state satisfies the inductive invariant.
THEOREM EditInvariant == Spec => []EditInv
BY EditInit, EditNext, PTL DEF Spec
-----------------------------------------------------------------------------
(* What follows from it *)

\* Every variable keeps its type.
THEOREM EditTypeCorrect == Spec => []TypeOK
BY EditInvariant, PTL DEF EditInv

\* A field that ingestion has filled keeps one row, and edits that change the product
\* never add two to another.
THEOREM DuplicatesConfirm == Spec => []DuplicatesAreConfirmations
BY EditInvariant, PTL DEF EditInv

\* What a row says in a human's name was asked by a call that went through.
THEOREM HumanValuesAsked == Spec => []HumanValuesWereAsked
BY EditInvariant, PTL DEF EditInv

\* Edits that change the product leave its column and the field's row in agreement.
THEOREM EditsAgree == Spec => []SerialisedEditsAgree
BY EditInvariant, PTL DEF EditInv

\* Only a commit changes a row, and it leaves in a human's name what was there in one.
THEOREM HumansAreKept == Spec => HumanEditsStay
<1> DEFINE Kept == \A id \in RowId :
                     rows[id] # NoRow /\ rows[id].source = "human" =>
                       rows'[id] # NoRow /\ rows'[id].source = "human" /\ rows'[id].confidence = SURE
<1>1. EditInv /\ EditInv' /\ [Next]_vars => [Kept]_vars
  <2> SUFFICES ASSUME EditInv, EditInv', Next, NEW id \in RowId, Human(id)
               PROVE  rows'[id] # NoRow /\ rows'[id].source = "human" /\ rows'[id].confidence = SURE
    BY DEF Human
  <2>1. PICK r \in Request : Handler(r) \/ Abort(r)
    BY DEF Next
  <2>2. CASE Commit(r)
    BY <2>2, CommitSteady DEF Human, EditInv, RowInv
  <2>3. CASE ~Commit(r)
    <3>1. rows' = rows
      BY <2>1, <2>3, RefuseSteps DEF Handler, Load, SkipKey, FlushProduct, FlushRow,
           SelectField, Refuse, dbVars
    <3> QED
      BY <3>1 DEF Human, EditInv, RowInv
  <2> QED
    BY <2>2, <2>3
<1> QED
  BY <1>1, EditInvariant, PTL DEF Spec, HumanEditsStay

\* A call that holds a row of the database, and whose first key changes the product,
\* holds the product row.
LEMMA FirstKeyFirst ==
  ASSUME EditInv, NEW r \in Request, FirstKeyChanges(r),
         HoldsProduct(r) \/ \E id \in RowId : HoldsRow(r, id)
  PROVE  wrote[r] # {}
<1> USE DEF EditInv
<1>1. CASE HoldsProduct(r)
  BY <1>1 DEF HoldsProduct
<1>2. CASE \E id \in RowId : HoldsRow(r, id)
  <2>1. PICK id \in RowId, k \in Cell : <<id, k>> \in stored[r]
    BY <1>2 DEF HoldsRow
  <2>2. Made(r, id[2]) /\ Active(r) /\ id[2] \in Editable
    BY <2>1 DEF SessionInv, CellInv, CellOk, StageInv, Cells, RowId
  <2>3. PICK j \in DOMAIN Updates(r) : j < at[r] /\ Updates(r)[j].field = id[2]
    BY <2>2 DEF Made
  <2>4. PICK i \in DOMAIN Updates(r) :
          /\ Updates(r)[i].field \in Editable /\ Changed(r, Updates(r)[i].field)
          /\ \A l \in 1 .. i - 1 : Updates(r)[l].field \notin Editable
    BY DEF FirstKeyChanges
  <2>5. i < at[r]
    <3>1. i \in 1 .. Len(Updates(r)) /\ j \in 1 .. Len(Updates(r)) /\ Len(Updates(r)) \in Nat
          /\ at[r] \in Nat
      BY UpdatesShape DEF TypeOK
    <3>2. ~(j < i)
      BY <2>2, <2>3, <2>4, <3>1
    <3> QED
      BY <2>3, <3>1, <3>2
  <2>6. Flushed(r, Updates(r)[i].field)
    BY <2>5 DEF Flushed
  <2> QED
    BY <2>2, <2>4, <2>6 DEF SessionInv, WroteInv
<1> QED
  BY <1>1, <1>2

\* Of calls that wait for each other in a circle, each holds what another one waits for.
LEMMA AllAreWaitedFor ==
  ASSUME TypeOK, NEW S \in SUBSET Request, WaitCycle(S), NEW q \in S, NEW p \in S, p # q
  PROVE  HoldsProduct(q) \/ \E id \in RowId : HoldsRow(q, id)
<1>1. \A x \in S : \E y \in S : WaitsFor(x, y)
  BY DEF WaitCycle
<1>2. PICK x \in S \ {q} : \A y \in S \ {q} : ~WaitsFor(x, y)
  <2>1. S \ {q} \in SUBSET S /\ S \ {q} # {} /\ S \ {q} # S
    OBVIOUS
  <2> QED
    BY <2>1 DEF WaitCycle
<1>3. WaitsFor(x, q)
  BY <1>1, <1>2
<1> QED
  BY <1>3 DEF WaitsFor, TypeOK

\* Calls whose first key changes the product are not in one deadlock.
THEOREM DeadlocksConfirm == Spec => []DeadlocksNeedConfirmations
<1>1. EditInv => DeadlocksNeedConfirmations
  <2> SUFFICES ASSUME EditInv, NEW S \in SUBSET Request, WaitCycle(S),
                      NEW r \in S, NEW s \in S, FirstKeyChanges(r), FirstKeyChanges(s),
                      r # s
               PROVE  FALSE
    BY DEF DeadlocksNeedConfirmations
  <2>1. /\ HoldsProduct(r) \/ \E id \in RowId : HoldsRow(r, id)
        /\ HoldsProduct(s) \/ \E id \in RowId : HoldsRow(s, id)
    BY AllAreWaitedFor DEF EditInv
  <2>2. wrote[r] # {} /\ wrote[s] # {}
    BY <2>1, FirstKeyFirst
  <2> QED
    BY <2>2 DEF EditInv, LockInv
<1> QED
  BY <1>1, EditInvariant, PTL
-----------------------------------------------------------------------------
(* The contract of an edit *)

\* What the contract sees of one call, and of the rows of one field.
Asking(r) ==
  {[field |-> f, value |-> Asked(r, f), text |-> Text(r, f)] : f \in {g \in Editable : Sets(r, g)}}

Shown(f) == {[value |-> rows[id].value, source |-> rows[id].source] : id \in RowsOf(f)}

contractView ==
  <<askedOf, outcomeOf, readOf, [f \in Editable |-> product[f]], product[Overall], shownOf>>

LEMMA ViewShape ==
  /\ \A r \in Request : askedOf[r] = Asking(r)
  /\ \A f \in Editable : shownOf[f] = Shown(f)
  /\ \A f \in Editable : shownOf'[f] = Shown(f)'
<1>1. \A r \in Request : askedOf[r] = Asking(r)
  BY DEF askedOf, Asking, Text
<1>2. \A f \in Editable : shownOf[f] = Shown(f)
  BY DEF shownOf, Shown
<1>3. \A f \in Editable : shownOf'[f] = Shown(f)'
  BY DEF shownOf, Shown
<1> QED
  BY <1>1, <1>2, <1>3

\* What is asked never changes.
LEMMA AskedOfStays ==
  ASSUME call' = call, origin' = origin
  PROVE  askedOf' = askedOf
<1>1. askedOf = [r \in Request |-> Asking(r)] /\ askedOf' = [r \in Request |-> Asking(r)']
  BY DEF askedOf, Asking, Text
<1>2. ASSUME NEW r \in Request PROVE Asking(r)' = Asking(r)
  <2>1. \A f : /\ Asked(r, f)' = Asked(r, f) /\ Text(r, f)' = Text(r, f)
               /\ Sets(r, f)' <=> Sets(r, f)
    BY AskedStays DEF Text
  <2> QED
    BY <2>1 DEF Asking
<1> QED
  BY <1>1, <1>2

LEMMA TablesShowTheSame ==
  ASSUME UNCHANGED <<product, rows>>
  PROVE  UNCHANGED <<[f \in Editable |-> product[f]], product[Overall], shownOf>>
<1>1. \A f \in Editable : Shown(f)' = Shown(f)
  BY DEF Shown, RowsOf
<1>2. shownOf' = shownOf
  BY <1>1 DEF shownOf, Shown
<1> QED
  BY <1>2

\* A commit is the step in which the edit is made.
LEMMA CommitApplies ==
  ASSUME EditInv, NEW r \in Request, Commit(r)
  PROVE  Contract!Apply(r)
<1>1. /\ outcomeOf[r] = "pending"
      /\ outcomeOf' = [outcomeOf EXCEPT ![r] = "applied"]
  <2>1. /\ pc[r] = "end" /\ pc'[r] = "done"
        /\ \A x \in Request \ {r} : pc'[x] = pc[x] /\ (Applied(x)' <=> Applied(x))
        /\ Applied(r)'
    BY CommitFacts, CommitSteady DEF EditInv, TypeOK
  <2> QED
    BY <2>1 DEF outcomeOf
<1>2. askedOf' = askedOf
  BY CommitFacts, AskedOfStays
<1>0. readOf' = readOf
  BY CommitFacts DEF readOf
<1>3. product'[Overall] \in {product[Overall], SURE}
  <2>1. product' = [c \in Column |-> IF c \in wrote[r] THEN Asked(r, c) ELSE product[c]]
    BY CommitFacts
  <2>2. Overall \in Column /\ Asked(r, Overall) = SURE
    BY DEF Column, Asked
  <2> QED
    BY <2>1, <2>2
<1>4. ASSUME NEW f \in Editable, ~Sets(r, f)
      PROVE  product'[f] = product[f] /\ shownOf'[f] = shownOf[f]
  <2>1. product'[f] = product[f]
    BY <1>4, CommitFacts, AtTheEnd DEF Column
  <2>2. \A id \in RowId : id[2] = f => rows'[id] = rows[id]
    BY <1>4, CommitSteady
  <2>3. Shown(f)' = Shown(f)
    BY <2>2 DEF Shown, RowsOf
  <2> QED
    BY <2>1, <2>3, ViewShape
<1>5. ASSUME NEW f \in Editable, Sets(r, f)
      PROVE  /\ product'[f] = IF Asked(r, f) # loaded[r][f] THEN Asked(r, f) ELSE product[f]
             /\ \E row \in shownOf'[f] : row.source = "human"
             /\ \A row \in shownOf'[f] \ shownOf[f] :
                  row.source = "human" /\ row.value \in Contract!Texts(f, Text(r, f))
  <2>1. product'[f] = IF Asked(r, f) # loaded[r][f] THEN Asked(r, f) ELSE product[f]
    BY <1>5, CommitFacts, AtTheEnd DEF Column, Changed
  <2>2. \E row \in Shown(f)' : row.source = "human"
    <3>1. Made(r, f) /\ Active(r) /\ Cells(r) = stored[r]
      BY <1>5, AtTheEnd, CommitFacts
    <3>2. PICK id \in RowId : id[2] = f /\ (<<id, "mark">> \in stored[r] \/ Human(id))
      BY <3>1 DEF EditInv, SessionInv, MadeInv
    <3>3. rows'[id] # NoRow /\ rows'[id].source = "human"
      BY <3>2, CommitFacts, CommitSteady DEF HoldsRow, Cell, Human
    <3>4. id \in RowsOf(f)'
      BY <3>2, <3>3 DEF RowsOf
    <3>5. [value |-> rows'[id].value, source |-> rows'[id].source] \in Shown(f)'
      BY <3>4 DEF Shown
    <3> QED
      BY <3>3, <3>5
  <2>3. ASSUME NEW row \in Shown(f)', row \notin Shown(f)
        PROVE  row.source = "human" /\ row.value \in {Text(r, f)} \cup {o.value : o \in Shown(f)}
    <3>1. PICK id \in RowsOf(f)' :
            row = [value |-> rows'[id].value, source |-> rows'[id].source]
      BY DEF Shown
    <3>2. id \in RowId /\ id[2] = f /\ rows'[id] # NoRow
      BY DEF RowsOf
    <3>3. HoldsRow(r, id)
      <4> SUFFICES ASSUME ~HoldsRow(r, id) PROVE FALSE
        OBVIOUS
      <4>1. rows'[id] = rows[id]
        BY <3>2, CommitFacts
      <4>2. id \in RowsOf(f)
        BY <3>2, <4>1 DEF RowsOf
      <4> QED
        BY <2>3, <3>1, <4>1, <4>2 DEF Shown
    <3>4. CASE <<id, "value">> \in stored[r]
      BY <3>1, <3>2, <3>3, <3>4, CommitFacts
    <3>5. CASE <<id, "value">> \notin stored[r]
      <4>1. /\ rows[id] # NoRow /\ rows'[id].value = rows[id].value
            /\ rows'[id].source = "human"
        BY <3>2, <3>3, <3>5, CommitFacts
      <4>2. [value |-> rows[id].value, source |-> rows[id].source] \in Shown(f)
        BY <3>2, <4>1 DEF Shown, RowsOf
      <4>3. rows[id].value \in {o.value : o \in Shown(f)}
        BY <4>2
      <4> QED
        BY <3>1, <4>1, <4>3
    <3> QED
      BY <3>4, <3>5
  <2>4. Contract!Texts(f, Text(r, f)) = {Text(r, f)} \cup {o.value : o \in Shown(f)}
    BY ViewShape DEF Contract!Texts
  <2>5. shownOf'[f] = Shown(f)' /\ shownOf[f] = Shown(f)
    BY ViewShape
  <2> QED
    BY <2>1, <2>2, <2>3, <2>4, <2>5
<1>6. ASSUME NEW f \in Editable
      PROVE  IF \E a \in askedOf[r] : a.field = f
             THEN \E a \in askedOf[r] :
                    /\ a.field = f
                    /\ product'[f] = IF a.value # loaded[r][f] THEN a.value ELSE product[f]
                    /\ \E row \in shownOf'[f] : row.source = "human"
                    /\ \A row \in shownOf'[f] \ shownOf[f] :
                         row.source = "human" /\ row.value \in Contract!Texts(f, a.text)
             ELSE product'[f] = product[f] /\ shownOf'[f] = shownOf[f]
  <2>0. askedOf[r] = Asking(r)
    BY ViewShape
  <2>1. (\E a \in askedOf[r] : a.field = f) <=> Sets(r, f)
    <3>1. ASSUME NEW a \in Asking(r) PROVE Sets(r, a.field)
      <4>1. PICK g \in Editable :
              Sets(r, g) /\ a = [field |-> g, value |-> Asked(r, g), text |-> Text(r, g)]
        BY DEF Asking
      <4> QED
        BY <4>1
    <3>2. ASSUME Sets(r, f) PROVE \E a \in Asking(r) : a.field = f
      <4>1. [field |-> f, value |-> Asked(r, f), text |-> Text(r, f)] \in Asking(r)
        BY <3>2 DEF Asking
      <4> QED
        BY <4>1
    <3> QED
      BY <2>0, <3>1, <3>2
  <2>2. CASE Sets(r, f)
    <3>1. PICK a : a = [field |-> f, value |-> Asked(r, f), text |-> Text(r, f)]
      OBVIOUS
    <3>2. a \in askedOf[r] /\ a.field = f /\ a.value = Asked(r, f) /\ a.text = Text(r, f)
      BY <2>0, <2>2, <3>1 DEF Asking
    <3> QED
      BY <1>5, <2>1, <2>2, <3>2
  <2> QED
    BY <1>4, <2>1, <2>2
<1>7. ASSUME NEW f \in Editable
      PROVE  IF \E a \in askedOf[r] : a.field = f
             THEN \E a \in askedOf[r] :
                    /\ a.field = f
                    /\ [g \in Editable |-> product[g]]'[f]
                         = IF a.value # readOf[r][f] THEN a.value
                           ELSE [g \in Editable |-> product[g]][f]
                    /\ \E row \in shownOf'[f] : row.source = "human"
                    /\ \A row \in shownOf'[f] \ shownOf[f] :
                         row.source = "human" /\ row.value \in Contract!Texts(f, a.text)
             ELSE /\ [g \in Editable |-> product[g]]'[f] = [g \in Editable |-> product[g]][f]
                  /\ shownOf'[f] = shownOf[f]
  <2>1. /\ [g \in Editable |-> product[g]][f] = product[f]
        /\ [g \in Editable |-> product[g]]'[f] = product'[f]
        /\ readOf[r][f] = loaded[r][f]
    BY DEF readOf
  <2> QED
    BY <1>6, <2>1
<1> QED
  BY <1>0, <1>1, <1>2, <1>3, <1>7 DEF Contract!Apply

\* Whatever ends a call without a commit refuses it.
LEMMA RefuseRefines ==
  ASSUME EditInv, NEW r \in Request, pc[r] # "done", NEW code \in {0, 400, 404, 500},
         Refuse(r, code)
  PROVE  Contract!Refuse(r)
<1>1. /\ UNCHANGED <<call, loaded, product, rows, origin>>
      /\ pc' = [pc EXCEPT ![r] = "done"] /\ resp' = [resp EXCEPT ![r] = code]
  BY DEF Refuse, Finish, GoTo, dbVars
<1>2. /\ pc'[r] = "done" /\ ~Applied(r)'
      /\ \A x \in Request \ {r} : pc'[x] = pc[x] /\ resp'[x] = resp[x]
  BY <1>1 DEF EditInv, TypeOK, Applied, LOST_ANSWER
<1>3. outcomeOf[r] \in {"new", "pending"} /\ outcomeOf' = [outcomeOf EXCEPT ![r] = "refused"]
  <2>1. outcomeOf[r] \in {"new", "pending"}
    BY DEF outcomeOf
  <2>2. \A x \in Request : outcomeOf'[x] = IF x = r THEN "refused" ELSE outcomeOf[x]
    BY <1>2 DEF outcomeOf, Applied
  <2>3. /\ outcomeOf = [x \in Request |-> outcomeOf[x]]
        /\ outcomeOf' = [x \in Request |-> outcomeOf'[x]]
    BY DEF outcomeOf
  <2> QED
    BY <2>1, <2>2, <2>3
<1> QED
  BY <1>1, <1>3, AskedOfStays, TablesShowTheSame DEF Contract!Refuse, readOf

\* The first query is the one the contract speaks of.
LEMMA LoadReads ==
  ASSUME EditInv, NEW r \in Request, Load(r)
  PROVE  Contract!Read(r)
<1>1. /\ UNCHANGED <<call, origin, resp, product, rows>>
      /\ pc[r] = "new" /\ pc'[r] \notin {"new", "done"}
      /\ \A x \in Request \ {r} : pc'[x] = pc[x]
      /\ loaded' = [loaded EXCEPT ![r] = product] /\ DOMAIN loaded = Request
  BY DEF Load, GoTo, dbVars, EditInv, TypeOK
<1>2. outcomeOf[r] = "new" /\ outcomeOf' = [outcomeOf EXCEPT ![r] = "pending"]
  <2>1. \A x \in Request : outcomeOf'[x] = IF x = r THEN "pending" ELSE outcomeOf[x]
    BY <1>1 DEF outcomeOf, Applied
  <2>2. /\ outcomeOf = [x \in Request |-> outcomeOf[x]]
        /\ outcomeOf' = [x \in Request |-> outcomeOf'[x]]
    BY DEF outcomeOf
  <2> QED
    BY <1>1, <2>1, <2>2 DEF outcomeOf
<1>3. readOf' = [readOf EXCEPT ![r] = [f \in Editable |-> product[f]]]
  <2>1. \A x \in Request :
          readOf'[x] = IF x = r THEN [f \in Editable |-> product[f]] ELSE readOf[x]
    BY <1>1 DEF readOf
  <2>2. /\ readOf = [x \in Request |-> readOf[x]]
        /\ readOf' = [x \in Request |-> readOf'[x]]
    BY DEF readOf
  <2> QED
    BY <2>1, <2>2
<1> QED
  BY <1>1, <1>2, <1>3, AskedOfStays, TablesShowTheSame DEF Contract!Read

\* Within a session there is nothing for the contract to see.
LEMMA SessionHidden ==
  ASSUME EditInv, NEW r \in Request,
         SkipKey(r) \/ FlushProduct(r) \/ FlushRow(r) \/ SelectField(r)
  PROVE  UNCHANGED contractView
<1>1. /\ UNCHANGED <<call, origin, loaded, resp, product, rows>>
      /\ pc[r] \notin {"new", "done"} /\ pc'[r] \notin {"new", "done"}
      /\ \A x \in Request \ {r} : pc'[x] = pc[x]
  BY DEF SkipKey, FlushProduct, FlushRow, SelectField, GoTo, AfterProduct, dbVars,
         EditInv, TypeOK
<1>2. outcomeOf' = outcomeOf
  BY <1>1 DEF outcomeOf, Applied
<1> QED
  BY <1>1, <1>2, AskedOfStays, TablesShowTheSame DEF contractView, readOf

LEMMA EditStepRefines ==
  ASSUME EditInv, [Next]_vars
  PROVE  [Contract!Next]_contractView
<1>1. CASE UNCHANGED vars
  <2>1. UNCHANGED <<call, pc, loaded, resp, product, rows, origin>>
    BY <1>1 DEF vars
  <2>2. outcomeOf' = outcomeOf
    BY <2>1 DEF outcomeOf, Applied
  <2> QED
    BY <2>1, <2>2, AskedOfStays, TablesShowTheSame DEF contractView, readOf
<1>2. ASSUME NEW r \in Request, Handler(r) \/ Abort(r)
      PROVE  Contract!Next \/ UNCHANGED contractView
  <2>1. CASE \/ NotFound(r) \/ BadRequest(r) \/ ProductRefused(r) \/ FlushItem(r)
             \/ ItemRefused(r) \/ DeadlockVictim(r) \/ Abort(r)
    <3>1. Contract!Refuse(r)
      BY <2>1, RefuseSteps, RefuseRefines
    <3> QED
      BY <3>1 DEF Contract!Next
  <2>2. CASE SkipKey(r) \/ FlushProduct(r) \/ FlushRow(r) \/ SelectField(r)
    BY <2>2, SessionHidden
  <2>3. CASE Commit(r)
    <3>1. Contract!Apply(r)
      BY <2>3, CommitApplies
    <3> QED
      BY <3>1 DEF Contract!Next
  <2>4. CASE Load(r)
    <3>1. Contract!Read(r)
      BY <2>4, LoadReads
    <3> QED
      BY <3>1 DEF Contract!Next
  <2> QED
    BY <1>2, <2>1, <2>2, <2>3, <2>4 DEF Handler
<1> QED
  BY <1>1, <1>2 DEF Next

LEMMA EditInitRefines ==
  ASSUME Init
  PROVE  Contract!Init
<1>1. outcomeOf = [r \in Request |-> "new"]
  BY DEF Init, outcomeOf
<1>2. ASSUME NEW f \in Editable, NEW row \in Shown(f) PROVE row.source = "machine"
  <2>1. PICK id \in RowsOf(f) : row = [value |-> rows[id].value, source |-> rows[id].source]
    BY DEF Shown
  <2>2. rows[id].source = "machine"
    BY <2>1 DEF Init, RowsOf
  <2> QED
    BY <2>1, <2>2
<1> QED
  BY <1>1, <1>2, ViewShape DEF Contract!Init

\* Edits implement their contract, for any number of calls under all their faults.
THEOREM EditContractImplemented == Spec => ImplementsEditContract
<1>1. Init => Contract!Init
  BY EditInitRefines
<1>2. EditInv /\ [Next]_vars => [Contract!Next]_contractView
  BY EditStepRefines
<1> QED
  BY <1>1, <1>2, EditInvariant, PTL
  DEF Spec, ImplementsEditContract, Contract!Spec, Contract!contractVars, contractView
=============================================================================
