-------------------------- MODULE MCExtractionAgent --------------------------
(* Instances of ExtractionAgent for TLC. *)
EXTENDS ExtractionAgent, TLC

\* A clean and an unclean regex field.
MCRegexResults == {"mrp" :> 950 @@ "category" :> 700, "category" :> 700}

\* Nothing; a clear result; a doubtful one; one that overlaps the regex fields.
MCGeminiResults ==
  {NothingExtracted, "name" :> 900, "name" :> 500 @@ "category" :> 600, "mrp" :> 970}

\* No match; a clear one; two that are close.
Clear == <<[code |-> "1905", score |-> 900], [code |-> "1901", score |-> 700]>>
Close == <<[code |-> "1901", score |-> 760], [code |-> "1905", score |-> 750]>>

MCRankings == {<<>>, Clear, Close}

MCWritings == {<<[code |-> "9999", score |-> 0]>>}

MCPicks == {700}
=============================================================================
