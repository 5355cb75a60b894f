--------------------------- MODULE MCCatalogueReads ---------------------------
(* Instances of CatalogueReads for TLC. *)
EXTENDS CatalogueReads

\* A product with a doubtful name that is sure on the whole, and one that is not.
Doubtful == [f \in REQUIRED_FIELDS |-> IF f = "name" THEN 600 ELSE 950]
Poor == [f \in REQUIRED_FIELDS |-> IF f = "name" THEN 600 ELSE 740]

MCExtraction == {Doubtful, Poor}

MCPlans == {<<>>, <<"all">>, <<"needs_review", "completed">>}

\* A client that only polls.
MCPollers == {<<>>}
=============================================================================
