---------------------------- MODULE MCProductEdit ----------------------------
(* Instances of ProductEdit for TLC. *)
EXTENDS ProductEdit

Patch(updates) == [kind |-> "patch", tenant |-> Owner, updates |-> updates]

Set(f, v) == [field |-> f, value |-> v]

Resolve(action, v) ==
  [kind |-> "resolve", tenant |-> Owner, field |-> "unit", action |-> action, value |-> v]

MCEditable == {"unit", "brand"}

\* The unit was extracted as g with a doubt, and is in both tables.  The brand was not
\* extracted at all, or it has a row and no column, as a subcategory has.
MCProduct(extracted) ==
  [columns |-> [f \in MCEditable |-> IF f = "unit" THEN "g" ELSE None],
   rows    |-> [f \in {"unit"} \cup extracted |->
                  [value |-> IF f = "unit" THEN "g" ELSE "Amul", confidence |-> 600]],
   items   |-> {"unit"}]

MCProducts == {MCProduct({}), MCProduct({"brand"})}

\* Edits that change two fields, confirm two, change two in the other order (one of them
\* to a falsy text), and fail after the first; the resolves; one of another tenant.
MCCalls ==
  {Patch(<<Set("unit", "kg"), Set("brand", "Amul")>>),
   Patch(<<Set("unit", "g"), Set("brand", None)>>),
   Patch(<<Set("brand", "Amul"), Set("unit", "")>>),
   Patch(<<Set("colour", "kg"), Set("unit", "kg"), Set("brand", "bad")>>),
   Resolve("accept", None), Resolve("dismiss", None), Resolve("override", None),
   [Resolve("accept", None) EXCEPT !.tenant = "other"]}

MCResolves ==
  {Resolve("accept", None), Resolve("override", "kg"), Resolve("dismiss", None)}

\* A text the column has no room for.
MCUnstorable == {<<"brand", "bad">>}
=============================================================================
