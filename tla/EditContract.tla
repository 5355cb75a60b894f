---------------------------- MODULE EditContract ----------------------------
(***************************************************************************)
(* What an edit of a product promises, without sessions, flushes or locks: *)
(* it reads the product in one step, and in another one it is made as a    *)
(* whole, or refused, and then leaves nothing behind.  A value other than  *)
(* the one it has read is in the column afterwards; one that it merely     *)
(* confirms need not be, as another edit may have replaced it since.       *)
(***************************************************************************)
CONSTANTS Request, Field, Value, Sure

VARIABLES
  asked,     \* of each request, [field, value, text] of each field it sets, value being
             \* for the column and text for the row
  outcome,   \* what has become of it
  read,      \* of each request, the columns it has read
  columns,   \* the columns of the product
  overall,   \* its confidence_overall
  shown      \* of each field, the rows that may be shown for it

contractVars == <<asked, outcome, read, columns, overall, shown>>

Init ==
  /\ outcome = [r \in Request |-> "new"]
  /\ \A f \in Field : \A row \in shown[f] : row.source = "machine"

\* What the rows of a field may say once it was set: what was asked, or what they have
\* said before.
Texts(f, text) == {text} \cup {row.value : row \in shown[f]}

Read(r) ==
  /\ outcome[r] = "new"
  /\ outcome' = [outcome EXCEPT ![r] = "pending"]
  /\ read' = [read EXCEPT ![r] = columns]
  /\ UNCHANGED <<asked, columns, overall, shown>>

Apply(r) ==
  /\ outcome[r] = "pending"
  /\ outcome' = [outcome EXCEPT ![r] = "applied"]
  /\ overall' \in {overall, Sure}
  /\ \A f \in Field :
       IF \E a \in asked[r] : a.field = f
       THEN \E a \in asked[r] :
              /\ a.field = f
              /\ columns'[f] = IF a.value # read[r][f] THEN a.value ELSE columns[f]
              /\ \E row \in shown'[f] : row.source = "human"
              /\ \A row \in shown'[f] \ shown[f] :
                   row.source = "human" /\ row.value \in Texts(f, a.text)
       ELSE columns'[f] = columns[f] /\ shown'[f] = shown[f]
  /\ UNCHANGED <<asked, read>>

Refuse(r) ==
  /\ outcome[r] \in {"new", "pending"}
  /\ outcome' = [outcome EXCEPT ![r] = "refused"]
  /\ UNCHANGED <<asked, read, columns, overall, shown>>

Next == \E r \in Request : Read(r) \/ Apply(r) \/ Refuse(r)

Spec == Init /\ [][Next]_contractVars
=============================================================================
