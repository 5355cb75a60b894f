----------------------------- MODULE MCIngestion -----------------------------
(* Instances of Ingestion for TLC. *)
EXTENDS Ingestion, TLC

\* Nothing extracted (the agent could not run); a product with all five required
\* fields and no doubt; one whose name needs a look; one whose overall confidence is
\* low although no field is below the review threshold.
Certain == [f \in REQUIRED_FIELDS |-> 950]
Doubtful == [Certain EXCEPT !["name"] = 600]
Mediocre == [f \in REQUIRED_FIELDS |-> 720]

\* One whose required fields are mediocre, and whose HSN code is hardly more than a guess.
Guessed == [f \in REQUIRED_FIELDS \cup {"hsn_code"} |-> IF f = "hsn_code" THEN 300 ELSE 720]

MCExtraction == {NothingExtracted, Doubtful}

MCExtractionTriage == {NothingExtracted, Certain, Doubtful, Mediocre, Guessed}

\* The calls: one key from two tenants, and the same key on a text.
MCCalls ==
  {[kind |-> "image", tenant |-> "t1", key |-> "k"],
   [kind |-> "image", tenant |-> "t2", key |-> "k"],
   [kind |-> "text", tenant |-> "t1", key |-> "k"]}

MCCallsAndNoKey ==
  MCCalls \cup {[kind |-> "image", tenant |-> "t1", key |-> NoKey]}

MCImageCalls == {[kind |-> "image", tenant |-> "t1", key |-> "k"]}

MCSymmetry == Permutations(Request)
=============================================================================
