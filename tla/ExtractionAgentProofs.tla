------------------------ MODULE ExtractionAgentProofs ------------------------
(***************************************************************************)
(* Theorems about ExtractionAgent, for all results, rankings, writings and *)
(* bounds.  The inductive invariant is AgentInv: what the tools have       *)
(* handed over is in the accumulation of the running pass or in the first  *)
(* pass's result, and the merge takes the best of both.                    *)
(***************************************************************************)
EXTENDS ExtractionAgent, ReviewRulesProofs
-----------------------------------------------------------------------------
(* The operators on confidences. *)

\* A confidence is a natural number, 0 where there is none.
LEMMA AtType == ASSUME NEW e, IsResult(e), NEW f PROVE At(e, f) \in Nat
  BY DEF At, IsResult

\* The empty extraction is one.
LEMMA NothingType == IsResult(NothingExtracted) /\ DOMAIN NothingExtracted = {}
  BY DEF IsResult, NothingExtracted

\* Best has the fields of both.
LEMMA BestDomain == \A e, d : DOMAIN Best(e, d) = DOMAIN e \cup DOMAIN d
  BY DEF Best

\* It is an extraction.
LEMMA BestType ==
  ASSUME NEW e, IsResult(e), NEW d, IsResult(d) PROVE IsResult(Best(e, d))
<1>1. DOMAIN Best(e, d) \subseteq Field \ {"hsn_code"}
  BY BestDomain DEF IsResult
<1>2. \A f \in DOMAIN e \cup DOMAIN d : Best(e, d)[f] \in Nat
  BY AtType DEF Best
<1>3. Best(e, d) \in [DOMAIN Best(e, d) -> Nat]
  BY BestDomain, <1>2 DEF Best
<1> QED BY <1>1, <1>3 DEF IsResult

\* It has each field at the higher confidence.
LEMMA BestAt ==
  ASSUME NEW e, IsResult(e), NEW d, IsResult(d), NEW f
  PROVE  At(Best(e, d), f) = IF At(d, f) > At(e, f) THEN At(d, f) ELSE At(e, f)
<1>1. CASE f \in DOMAIN e \cup DOMAIN d
  BY BestDomain, <1>1 DEF Best, At
<1>2. CASE f \notin DOMAIN e \cup DOMAIN d
  <2>1. At(e, f) = 0 /\ At(d, f) = 0 /\ At(Best(e, d), f) = 0
    BY BestDomain, <1>2 DEF At
  <2> QED BY <2>1
<1> QED BY <1>1, <1>2

\* Two extractions with the same fields and confidences are the same.
LEMMA ResultsEqual ==
  ASSUME NEW e, IsResult(e), NEW d, IsResult(d),
         DOMAIN e = DOMAIN d, \A f : At(e, f) = At(d, f)
  PROVE  e = d
<1>1. \A f \in DOMAIN e : e[f] = d[f]
  BY DEF At
<1> QED BY <1>1 DEF IsResult

\* It does not matter in which order results are handed over.
LEMMA BestAssociates ==
  ASSUME NEW e, IsResult(e), NEW d, IsResult(d), NEW c, IsResult(c)
  PROVE  Best(Best(e, d), c) = Best(e, Best(d, c))
<1>0. IsResult(Best(e, d)) /\ IsResult(Best(d, c))
  BY BestType
<1>1. IsResult(Best(Best(e, d), c)) /\ IsResult(Best(e, Best(d, c)))
  BY <1>0, BestType
<1>2. DOMAIN Best(Best(e, d), c) = DOMAIN Best(e, Best(d, c))
  <2>1. DOMAIN Best(Best(e, d), c) = (DOMAIN e \cup DOMAIN d) \cup DOMAIN c
    <3>1. DOMAIN Best(Best(e, d), c) = DOMAIN Best(e, d) \cup DOMAIN c
      BY BestDomain, Zenon
    <3>2. DOMAIN Best(e, d) = DOMAIN e \cup DOMAIN d
      BY BestDomain, Zenon
    <3> QED BY <3>1, <3>2, Zenon
  <2>2. DOMAIN Best(e, Best(d, c)) = DOMAIN e \cup (DOMAIN d \cup DOMAIN c)
    <3>1. DOMAIN Best(e, Best(d, c)) = DOMAIN e \cup DOMAIN Best(d, c)
      BY BestDomain, Zenon
    <3>2. DOMAIN Best(d, c) = DOMAIN d \cup DOMAIN c
      BY BestDomain, Zenon
    <3> QED BY <3>1, <3>2, Zenon
  <2> QED BY <2>1, <2>2
<1>3. ASSUME NEW f PROVE At(Best(Best(e, d), c), f) = At(Best(e, Best(d, c)), f)
  <2>2. At(Best(e, d), f) = IF At(d, f) > At(e, f) THEN At(d, f) ELSE At(e, f)
    BY BestAt
  <2>3. At(Best(d, c), f) = IF At(c, f) > At(d, f) THEN At(c, f) ELSE At(d, f)
    BY BestAt
  <2>4. At(Best(Best(e, d), c), f)
          = IF At(c, f) > At(Best(e, d), f) THEN At(c, f) ELSE At(Best(e, d), f)
    BY <1>0, BestAt
  <2>5. At(Best(e, Best(d, c)), f)
          = IF At(Best(d, c), f) > At(e, f) THEN At(Best(d, c), f) ELSE At(e, f)
    BY <1>0, BestAt
  <2>6. At(e, f) \in Nat /\ At(d, f) \in Nat /\ At(c, f) \in Nat
    BY AtType
  <2> QED BY <2>2, <2>3, <2>4, <2>5, <2>6
<1> QED BY <1>1, <1>2, <1>3, ResultsEqual

\* Nothing found adds nothing.
LEMMA BestOfNothing ==
  ASSUME NEW e, IsResult(e) PROVE Best(e, NothingExtracted) = e
<1>0. IsResult(NothingExtracted) /\ DOMAIN NothingExtracted = {}
  BY NothingType
<1>1. IsResult(Best(e, NothingExtracted)) /\ DOMAIN Best(e, NothingExtracted) = DOMAIN e
  <2>1. DOMAIN Best(e, NothingExtracted) = DOMAIN e \cup DOMAIN NothingExtracted
    BY BestDomain, Zenon
  <2>2. DOMAIN Best(e, NothingExtracted) = DOMAIN e
    BY <1>0, <2>1
  <2> QED BY <1>0, <2>2, BestType
<1>2. ASSUME NEW f PROVE At(Best(e, NothingExtracted), f) = At(e, f)
  <2>1. At(NothingExtracted, f) = 0
    BY <1>0 DEF At
  <2>2. At(e, f) \in Nat
    BY AtType
  <2> QED BY <2>1, <2>2, <1>0, BestAt
<1> QED BY <1>1, <1>2, ResultsEqual

\* merge_extractions returns an extraction.
LEMMA MergeExtractionsType ==
  ASSUME NEW e, IsResult(e), NEW d, IsResult(d) PROVE IsResult(MergeExtractions(e, d))
<1>1. DOMAIN MergeExtractions(e, d) = DOMAIN e \cup DOMAIN d
  BY DEF MergeExtractions
<1>2. ASSUME NEW f \in DOMAIN e \cup DOMAIN d PROVE MergeExtractions(e, d)[f] \in Nat
  <2>1. Best(e, d)[f] \in Nat
    <3>1. DOMAIN Best(e, d) = DOMAIN e \cup DOMAIN d
      BY BestDomain, Zenon
    <3> QED BY <3>1, BestType DEF IsResult
  <2>2. f \in DOMAIN d => d[f] \in Nat
    BY DEF IsResult
  <2>3. f \notin DOMAIN d => e[f] \in Nat
    BY DEF IsResult
  <2> QED BY <2>1, <2>2, <2>3 DEF MergeExtractions
<1>3. MergeExtractions(e, d) \in [DOMAIN e \cup DOMAIN d -> Nat]
  BY <1>2 DEF MergeExtractions
<1> QED BY <1>1, <1>3 DEF IsResult

\* verify_hsn returns one of the codes it was given.
LEMMA VerifyHsnType ==
  ASSUME NEW matches \in Seq(Match), matches # <<>>, NEW hsn \in VerifyHsn(matches)
  PROVE  hsn \in [code : Code, confidence : Nat] /\ hsn.code \in Codes(matches)
<1>1. \A i \in DOMAIN matches : matches[i].code \in Code /\ matches[i].score \in Nat
  <2>1. \A i \in DOMAIN matches : matches[i] \in Match
    OBVIOUS
  <2> QED BY <2>1 DEF Match
<1>6. \A i \in DOMAIN matches : matches[i].code \in Codes(matches)
  BY DEF Codes
<1>2. 1 \in DOMAIN matches
  OBVIOUS
<1>3. (matches[1].score * 85) \div 100 \in Nat
  BY <1>1, <1>2
<1>4. Picks \subseteq Nat
  BY PicksAssumption
<1>5. \/ hsn = [code |-> matches[1].code, confidence |-> matches[1].score]
      \/ hsn = [code |-> matches[1].code, confidence |-> (matches[1].score * 85) \div 100]
      \/ \E i \in DOMAIN matches, c \in Picks : hsn = [code |-> matches[i].code, confidence |-> c]
  BY DEF VerifyHsn
<1>7. CASE hsn = [code |-> matches[1].code, confidence |-> matches[1].score]
  BY <1>1, <1>2, <1>6, <1>7
<1>8. CASE hsn = [code |-> matches[1].code, confidence |-> (matches[1].score * 85) \div 100]
  BY <1>1, <1>2, <1>3, <1>6, <1>8
<1>9. CASE \E i \in DOMAIN matches, c \in Picks :
             hsn = [code |-> matches[i].code, confidence |-> c]
  BY <1>1, <1>4, <1>6, <1>9
<1> QED BY <1>5, <1>7, <1>8, <1>9
-----------------------------------------------------------------------------
(* The merge of the two passes. *)

LEMMA AccumulatedHsn ==
  ASSUME NEW a, IsAccumulated(a)
  PROVE  HsnConfidence(a.hsn) \in Nat /\ (a.hsn # NoHsn => a.hsn.confidence \in Nat)
  BY DEF IsAccumulated, Hsn, HsnConfidence

\* The merged result has every field of both passes at the higher confidence, except for
\* fields only the second one has, at confidence 0.
LEMMA MergePassesFields ==
  ASSUME NEW a, IsAccumulated(a), NEW b, IsAccumulated(b)
  PROVE  LET m == MergePasses(a, b) IN
         /\ IsAccumulated(m)
         /\ DOMAIN a.fields \subseteq DOMAIN m.fields
         /\ DOMAIN m.fields \subseteq DOMAIN Best(a.fields, b.fields)
         /\ \A f : At(m.fields, f) = At(Best(a.fields, b.fields), f)
<1> DEFINE d == [f \in {g \in DOMAIN b.fields : b.fields[g] > 0} |-> b.fields[f]]
           m == MergePasses(a, b)
<1>1. IsResult(a.fields) /\ IsResult(b.fields)
  BY DEF IsAccumulated
<1>2. IsResult(d)
  BY <1>1 DEF IsResult
<1>3. \A f : At(d, f) = At(b.fields, f)
  BY <1>1 DEF At, IsResult
<1>4. m.fields = Best(a.fields, d) /\ m.hsn \in Hsn /\ m = [fields |-> m.fields, hsn |-> m.hsn]
  BY DEF MergePasses, IsAccumulated
<1>5. DOMAIN d \subseteq DOMAIN b.fields
  OBVIOUS
<1> HIDE DEF d, m
<1>6. IsAccumulated(m)
  BY <1>1, <1>2, <1>4, BestType DEF IsAccumulated
<1>7. /\ DOMAIN a.fields \subseteq DOMAIN m.fields
      /\ DOMAIN m.fields \subseteq DOMAIN Best(a.fields, b.fields)
  <2>1. DOMAIN m.fields = DOMAIN a.fields \cup DOMAIN d
    BY <1>4, BestDomain
  <2>2. DOMAIN Best(a.fields, b.fields) = DOMAIN a.fields \cup DOMAIN b.fields
    BY BestDomain, Zenon
  <2> QED BY <1>5, <2>1, <2>2
<1>8. ASSUME NEW f PROVE At(m.fields, f) = At(Best(a.fields, b.fields), f)
  <2>1. At(m.fields, f) = IF At(d, f) > At(a.fields, f) THEN At(d, f) ELSE At(a.fields, f)
    BY <1>1, <1>2, <1>4, BestAt
  <2>2. At(Best(a.fields, b.fields), f)
          = IF At(b.fields, f) > At(a.fields, f) THEN At(b.fields, f) ELSE At(a.fields, f)
    BY <1>1, BestAt
  <2> QED BY <2>1, <2>2, <1>3
<1> QED BY <1>6, <1>7, <1>8 DEF m

\* The merged result keeps all the first pass has found.
LEMMA MergePassesKeepsFirst ==
  ASSUME NEW a, IsAccumulated(a), NEW b, IsAccumulated(b),
         NEW f \in DOMAIN Extracted(a)
  PROVE  /\ f \in DOMAIN Extracted(MergePasses(a, b))
         /\ Extracted(MergePasses(a, b))[f] >= Extracted(a)[f]
<1> DEFINE m == MergePasses(a, b)
<1>1. /\ IsAccumulated(m)
      /\ DOMAIN a.fields \subseteq DOMAIN m.fields
      /\ \A g : At(m.fields, g) = At(Best(a.fields, b.fields), g)
  BY MergePassesFields
<1>2. IsResult(a.fields) /\ IsResult(b.fields) /\ IsResult(m.fields)
  BY <1>1 DEF IsAccumulated
<1>3. m.hsn = IF HsnConfidence(b.hsn) > HsnConfidence(a.hsn) THEN b.hsn ELSE a.hsn
  BY DEF MergePasses
<1> HIDE DEF m
<1>4. CASE f = "hsn_code"
  <2>1. a.hsn # NoHsn
    BY <1>2, <1>4 DEF Extracted, IsResult
  <2>2. Extracted(a)[f] = a.hsn.confidence /\ a.hsn.confidence \in Nat
    BY <1>4, <2>1, AccumulatedHsn DEF Extracted
  <2>3. m.hsn # NoHsn /\ m.hsn.confidence >= a.hsn.confidence
    BY <1>3, <2>1, AccumulatedHsn DEF HsnConfidence
  <2> QED BY <1>4, <2>2, <2>3 DEF Extracted, m
<1>5. CASE f # "hsn_code"
  <2>1. f \in DOMAIN a.fields /\ f \in DOMAIN m.fields
    BY <1>1, <1>5 DEF Extracted
  <2>2. Extracted(a)[f] = At(a.fields, f) /\ Extracted(m)[f] = At(m.fields, f)
    BY <1>5, <2>1 DEF Extracted, At
  <2>3. At(m.fields, f) >= At(a.fields, f)
    <3>1. At(a.fields, f) \in Nat /\ At(b.fields, f) \in Nat
      BY <1>2, AtType
    <3>2. At(Best(a.fields, b.fields), f)
            = IF At(b.fields, f) > At(a.fields, f) THEN At(b.fields, f) ELSE At(a.fields, f)
      BY <1>2, BestAt
    <3> QED BY <1>1, <3>1, <3>2
  <2>4. f \in DOMAIN Extracted(m)
    BY <2>1 DEF Extracted
  <2> QED BY <2>2, <2>3, <2>4 DEF m
<1> QED BY <1>4, <1>5
-----------------------------------------------------------------------------
(* The inductive invariant, type by type and fact by fact. *)

\* Handing fields over keeps the types, and the accumulation in step with seen.
LEMMA HandOverStep ==
  ASSUME AgentInv, pass \in {"first", "second"}, NEW fields, IsResult(fields), HandOver(fields)
  PROVE  /\ IsAccumulated(accumulated') /\ IsResult(seen')
         /\ accumulated'.hsn = accumulated.hsn
         /\ SeenInv'
<1> USE DEF AgentInv, HandOver
<1>1. /\ IsResult(accumulated.fields) /\ IsResult(seen) /\ IsResult(first.fields)
      /\ accumulated = [fields |-> accumulated.fields, hsn |-> accumulated.hsn]
      /\ accumulated.hsn \in Hsn
  BY DEF TypeOK, IsAccumulated
<1>2. /\ accumulated'.fields = Best(accumulated.fields, fields)
      /\ accumulated'.hsn = accumulated.hsn
      /\ accumulated' = [fields |-> accumulated'.fields, hsn |-> accumulated'.hsn]
  BY <1>1 DEF Accumulate
<1>3. IsAccumulated(accumulated') /\ IsResult(seen')
  BY <1>1, <1>2, BestType DEF IsAccumulated
<1>4. pass = "second" => seen' = Best(first.fields, accumulated'.fields)
  BY <1>1, <1>2, BestAssociates DEF SeenInv
<1>5. SeenInv'
  BY <1>2, <1>4 DEF SeenInv
<1> QED BY <1>2, <1>3, <1>5

\* Verifying keeps the types and takes one of the candidates.
LEMMA VerifyStep ==
  ASSUME AgentInv, NEW matches \in Seq(Match), matches # <<>>, Verify(matches)
  PROVE  /\ IsAccumulated(accumulated')
         /\ accumulated'.fields = accumulated.fields
         /\ accumulated'.hsn.code \in Codes(matches)
<1>1. PICK hsn \in VerifyHsn(matches) : accumulated' = [accumulated EXCEPT !.hsn = hsn]
  BY DEF Verify
<1>2. hsn \in [code : Code, confidence : Nat] /\ hsn.code \in Codes(matches)
  BY VerifyHsnType
<1>3. /\ IsResult(accumulated.fields)
      /\ accumulated = [fields |-> accumulated.fields, hsn |-> accumulated.hsn]
  BY DEF AgentInv, TypeOK, IsAccumulated
<1>4. accumulated' = [fields |-> accumulated.fields, hsn |-> hsn]
  BY <1>1, <1>3
<1> QED BY <1>2, <1>3, <1>4 DEF IsAccumulated, Hsn

LEMMA NothingAccumulated == IsAccumulated(Nothing) /\ Nothing.fields = NothingExtracted
                            /\ Nothing.hsn = NoHsn
  BY NothingType DEF IsAccumulated, Nothing, Hsn

LEMMA CodesType == ASSUME NEW matches \in Seq(Match) PROVE Codes(matches) \subseteq Code
<1>1. \A i \in DOMAIN matches : matches[i] \in Match
  OBVIOUS
<1> QED BY <1>1 DEF Codes, Match

LEMMA NoCodes == Codes(<<>>) = {}
  BY DEF Codes

LEMMA ExtractedNothing == DOMAIN Extracted(Nothing) = {}
  BY NothingType, NothingAccumulated DEF Extracted

\* The agent starts with nothing found.
LEMMA InitInv == Init => AgentInv
<1> SUFFICES ASSUME Init PROVE AgentInv
  OBVIOUS
<1> USE DEF Init
<1>1. TypeOK
  BY NothingAccumulated, NothingType, BoundsAssumption DEF TypeOK
<1>2. SeenInv
  BY NothingAccumulated DEF SeenInv
<1>3. Codes(candidates) \subseteq offered
  BY NoCodes
<1>4. HsnWasOffered /\ NothingSeenIsLost /\ SecondPassKeepsFirst
  BY NothingAccumulated DEF HsnWasOffered, NothingSeenIsLost, SecondPassKeepsFirst
<1> QED BY <1>1, <1>2, <1>3, <1>4 DEF AgentInv

LEMMA StutterInv == AgentInv /\ UNCHANGED vars => AgentInv'
<1> SUFFICES ASSUME AgentInv, UNCHANGED vars PROVE AgentInv'
  OBVIOUS
<1> USE DEF vars, AgentInv
<1>1. TypeOK'
  BY DEF TypeOK
<1>2. SeenInv' /\ (Codes(candidates) \subseteq offered)'
  BY DEF SeenInv
<1>3. HsnWasOffered' /\ NothingSeenIsLost' /\ SecondPassKeepsFirst'
  BY DEF HsnWasOffered, NothingSeenIsLost, SecondPassKeepsFirst
<1> QED BY <1>1, <1>2, <1>3

\* A run without a key returns nothing, and nothing was seen.
LEMMA RunWithoutKeyInv == AgentInv /\ RunWithoutKey => AgentInv'
<1> SUFFICES ASSUME AgentInv, RunWithoutKey PROVE AgentInv'
  OBVIOUS
<1> USE DEF AgentInv, RunWithoutKey
<1>1. TypeOK'
  BY DEF TypeOK
<1>2. SeenInv' /\ (Codes(candidates) \subseteq offered)' /\ HsnWasOffered'
  BY DEF SeenInv, HsnWasOffered
<1>3. result' = Nothing /\ seen' = NothingExtracted /\ first' = Nothing
  BY DEF SeenInv
<1>4. NothingSeenIsLost'
  BY <1>3, NothingType, NothingAccumulated DEF NothingSeenIsLost
<1>5. SecondPassKeepsFirst'
  BY <1>3, ExtractedNothing DEF SecondPassKeepsFirst
<1> QED BY <1>1, <1>2, <1>4, <1>5

\* A run that raises returns nothing either.
LEMMA RunRaisesInv == AgentInv /\ RunRaises => AgentInv'
<1> SUFFICES ASSUME AgentInv, RunRaises PROVE AgentInv'
  OBVIOUS
<1> USE DEF AgentInv, RunRaises
<1>1. TypeOK'
  BY BoundsAssumption DEF TypeOK
<1>2. SeenInv' /\ (Codes(candidates) \subseteq offered)' /\ HsnWasOffered'
  BY DEF SeenInv, HsnWasOffered
<1>3. NothingSeenIsLost' /\ SecondPassKeepsFirst'
  BY DEF NothingSeenIsLost, SecondPassKeepsFirst
<1> QED BY <1>1, <1>2, <1>3

\* A first pass that is good enough returns what it accumulated, which is all it has seen.
LEMMA FinishFirstPassInv == AgentInv /\ FinishFirstPass => AgentInv'
<1> SUFFICES ASSUME AgentInv, FinishFirstPass PROVE AgentInv'
  OBVIOUS
<1> USE DEF AgentInv, FinishFirstPass
<1>1. TypeOK'
  BY DEF TypeOK
<1>2. SeenInv' /\ (Codes(candidates) \subseteq offered)' /\ HsnWasOffered'
  BY DEF SeenInv, HsnWasOffered
<1>3. result'.fields = seen' /\ first' = Nothing
  BY DEF SeenInv
<1>4. NothingSeenIsLost'
  BY <1>3 DEF NothingSeenIsLost, At
<1>5. SecondPassKeepsFirst'
  BY <1>3, ExtractedNothing DEF SecondPassKeepsFirst
<1> QED BY <1>1, <1>2, <1>4, <1>5 DEF Asking

\* The second pass starts with nothing, and all that was seen is in the first's result.
LEMMA StartSecondPassInv == AgentInv /\ StartSecondPass => AgentInv'
<1> SUFFICES ASSUME AgentInv, StartSecondPass PROVE AgentInv'
  OBVIOUS
<1> USE DEF AgentInv, StartSecondPass
<1>1. TypeOK'
  <2>1. IsAccumulated(accumulated') /\ IsAccumulated(first')
    BY NothingAccumulated DEF TypeOK
  <2>2. turn' \in 0 .. MaxTurns /\ candidates' \in Seq(Match) /\ offered' \subseteq Code
    BY BoundsAssumption
  <2> QED BY <2>1, <2>2 DEF TypeOK
<1>2. seen' = Best(first'.fields, accumulated'.fields)
  <2>1. seen = accumulated.fields /\ IsResult(seen)
    BY DEF SeenInv, TypeOK
  <2> QED BY <2>1, BestOfNothing, NothingAccumulated
<1>3. SeenInv'
  BY <1>2 DEF SeenInv
<1>4. (Codes(candidates) \subseteq offered)'
  BY NoCodes
<1>5. HsnWasOffered' /\ NothingSeenIsLost' /\ SecondPassKeepsFirst'
  BY NothingAccumulated DEF HsnWasOffered, NothingSeenIsLost, SecondPassKeepsFirst
<1> QED BY <1>1, <1>3, <1>4, <1>5

\* The merge of the passes returns the best of all that was seen.
LEMMA FinishSecondPassInv == AgentInv /\ FinishSecondPass => AgentInv'
<1> SUFFICES ASSUME AgentInv, FinishSecondPass PROVE AgentInv'
  OBVIOUS
<1> USE DEF AgentInv, FinishSecondPass
<1>1. IsAccumulated(first) /\ IsAccumulated(accumulated) /\ IsResult(seen)
  BY DEF TypeOK
<1>2. /\ IsAccumulated(result')
      /\ DOMAIN result'.fields \subseteq DOMAIN Best(first.fields, accumulated.fields)
      /\ \A f : At(result'.fields, f) = At(Best(first.fields, accumulated.fields), f)
  BY <1>1, MergePassesFields
<1>3. seen = Best(first.fields, accumulated.fields)
  BY DEF SeenInv
<1>4. TypeOK'
  BY <1>2 DEF TypeOK
<1>5. SeenInv' /\ (Codes(candidates) \subseteq offered)' /\ HsnWasOffered'
  BY DEF SeenInv, HsnWasOffered
<1>6. NothingSeenIsLost'
  BY <1>2, <1>3 DEF NothingSeenIsLost, At
<1>7. SecondPassKeepsFirst'
  BY <1>1, MergePassesKeepsFirst DEF SecondPassKeepsFirst
<1> QED BY <1>4, <1>5, <1>6, <1>7 DEF Asking

\* The model's answer only starts the dispatching.
LEMMA CallToolsInv == AgentInv /\ (StartFirstPass \/ CallTools) => AgentInv'
<1> SUFFICES ASSUME AgentInv, StartFirstPass \/ CallTools PROVE AgentInv'
  OBVIOUS
<1> USE DEF AgentInv, StartFirstPass, CallTools, Asking
<1>1. TypeOK'
  BY BoundsAssumption DEF TypeOK
<1>2. SeenInv' /\ (Codes(candidates) \subseteq offered)' /\ HsnWasOffered'
  BY DEF SeenInv, HsnWasOffered
<1>3. NothingSeenIsLost' /\ SecondPassKeepsFirst'
  BY DEF NothingSeenIsLost, SecondPassKeepsFirst
<1>4. (left > 0 => pass \in {"first", "second"})'
  BY DEF TypeOK
<1> QED BY <1>1, <1>2, <1>3, <1>4

\* A tool leaves the pass as it is, and the run is not over.
LEMMA Dispatched ==
  ASSUME AgentInv, Dispatching
  PROVE  /\ left' \in 0 .. MaxCalls /\ pass \in {"first", "second"}
         /\ pass' = pass => /\ (left > 0 => pass \in {"first", "second"})'
                            /\ NothingSeenIsLost' /\ SecondPassKeepsFirst'
  BY BoundsAssumption
     DEF Dispatching, AgentInv, TypeOK, NothingSeenIsLost, SecondPassKeepsFirst

\* The tools that touch neither the fields nor the HSN code.
LEMMA PlainToolInv ==
  AgentInv /\ (ToolWithoutEffect \/ RunOcr \/ RetrieveHsn \/ RetrieveHsnFails) => AgentInv'
<1> SUFFICES ASSUME AgentInv, ToolWithoutEffect \/ RunOcr \/ RetrieveHsn \/ RetrieveHsnFails
             PROVE  AgentInv'
  OBVIOUS
<1>1. Dispatching
  BY DEF ToolWithoutEffect, RunOcr, RetrieveHsn, RetrieveHsnFails
<1>2. /\ UNCHANGED <<input, pass, turn, accumulated, first, result, seen>>
      /\ ocr' \in {"unread", "blank", "text"} /\ session' \in {"usable", "aborted"}
      /\ candidates' \in Seq(Match)
      /\ \/ UNCHANGED <<candidates, offered>>
         \/ offered' = offered \cup Codes(candidates')
  BY RankingsAssumption
     DEF AgentInv, TypeOK, OcrOutcome, IsRanking, ToolWithoutEffect, RunOcr, RetrieveHsn, RetrieveHsnFails
<1>3. offered \subseteq offered' /\ offered' \subseteq Code /\ Codes(candidates') \subseteq offered'
  BY <1>2, CodesType DEF AgentInv, TypeOK
<1>4. TypeOK'
  BY <1>1, <1>2, <1>3, Dispatched DEF AgentInv, TypeOK
<1>5. SeenInv'
  BY <1>2 DEF AgentInv, SeenInv
<1>6. HsnWasOffered'
  BY <1>2, <1>3 DEF AgentInv, HsnWasOffered
<1> QED BY <1>1, <1>2, <1>3, <1>4, <1>5, <1>6, Dispatched DEF AgentInv

\* The tools that extract fields hand over an extraction.
LEMMA ExtractInv == AgentInv /\ (ExtractTextFields \/ ExtractImageFields) => AgentInv'
<1> SUFFICES ASSUME AgentInv, ExtractTextFields \/ ExtractImageFields PROVE AgentInv'
  OBVIOUS
<1>1. Dispatching
  BY DEF ExtractTextFields, ExtractImageFields
<1>2. \E fields : IsResult(fields) /\ HandOver(fields)
  <2>1. IsResult(input.regex) /\ \A gemini \in GeminiResults : IsResult(gemini)
    BY ResultsAssumption DEF AgentInv, TypeOK
  <2>2. \A gemini \in GeminiResults : IsResult(MergeExtractions(input.regex, gemini))
    BY <2>1, MergeExtractionsType
  <2> QED BY <2>1, <2>2 DEF ExtractTextFields, ExtractImageFields
<1>3. PICK fields : IsResult(fields) /\ HandOver(fields)
  BY <1>2
<1>4. UNCHANGED <<input, pass, turn, ocr, candidates, first, result, session, offered>>
  BY <1>3 DEF HandOver
<1>5. /\ IsAccumulated(accumulated') /\ IsResult(seen')
      /\ accumulated'.hsn = accumulated.hsn /\ SeenInv'
  BY <1>1, <1>3, Dispatched, HandOverStep
<1>6. TypeOK'
  BY <1>1, <1>4, <1>5, Dispatched DEF AgentInv, TypeOK
<1>7. HsnWasOffered' /\ (Codes(candidates) \subseteq offered)'
  BY <1>4, <1>5 DEF AgentInv, HsnWasOffered
<1> QED BY <1>1, <1>4, <1>5, <1>6, <1>7, Dispatched DEF AgentInv

\* Verifying takes a code that was offered in this pass.
LEMMA VerifyInv == AgentInv /\ (VerifyHsnCode \/ VerifyWrittenCode) => AgentInv'
<1> SUFFICES ASSUME AgentInv, VerifyHsnCode \/ VerifyWrittenCode PROVE AgentInv'
  OBVIOUS
<1>1. Dispatching /\ UNCHANGED <<input, pass, turn, ocr, candidates, first, result, session, seen>>
  BY DEF VerifyHsnCode, VerifyWrittenCode
<1>2. \E matches \in Seq(Match) :
        /\ matches # <<>> /\ Verify(matches)
        /\ offered \subseteq offered' /\ Codes(matches) \subseteq offered' /\ offered' \subseteq Code
  <2>1. CASE VerifyHsnCode
    BY <2>1 DEF VerifyHsnCode, AgentInv, TypeOK
  <2>2. CASE VerifyWrittenCode
    <3>1. PICK matches \in Writings : Verify(matches) /\ offered' = offered \cup Codes(matches)
      BY <2>2 DEF VerifyWrittenCode
    <3>2. matches \in Seq(Match) /\ matches # <<>>
      BY WritingsAssumption
    <3> QED BY <3>1, <3>2, CodesType DEF AgentInv, TypeOK
  <2> QED BY <2>1, <2>2
<1>3. PICK matches \in Seq(Match) :
        /\ matches # <<>> /\ Verify(matches)
        /\ offered \subseteq offered' /\ Codes(matches) \subseteq offered' /\ offered' \subseteq Code
  BY <1>2
<1>4. /\ IsAccumulated(accumulated') /\ accumulated'.fields = accumulated.fields
      /\ accumulated'.hsn.code \in Codes(matches)
  BY <1>3, VerifyStep
<1>5. TypeOK'
  BY <1>1, <1>3, <1>4, Dispatched DEF AgentInv, TypeOK
<1>6. SeenInv'
  BY <1>1, <1>4, Dispatched DEF AgentInv, SeenInv
<1>7. HsnWasOffered' /\ (Codes(candidates) \subseteq offered)'
  BY <1>1, <1>3, <1>4 DEF AgentInv, HsnWasOffered
<1> QED BY <1>1, <1>5, <1>6, <1>7, Dispatched DEF AgentInv
-----------------------------------------------------------------------------
(* The range of the confidences. *)

InRange(e) == \A f \in DOMAIN e : e[f] \in Confidence

HsnInRange(h) == h # NoHsn => h.confidence \in Confidence

\* What the tools have given lies in the range, wherever it is kept.
RangeInv ==
  /\ InRange(accumulated.fields) /\ HsnInRange(accumulated.hsn)
  /\ InRange(first.fields) /\ HsnInRange(first.hsn)
  /\ InRange(result.fields) /\ HsnInRange(result.hsn)
  /\ \A i \in DOMAIN candidates : candidates[i].score \in Confidence

\* The better of two results is in the range.
LEMMA BestInRange ==
  ASSUME NEW e, InRange(e), NEW d, InRange(d)
  PROVE  InRange(Best(e, d))
<1>1. \A f : At(e, f) \in Confidence /\ At(d, f) \in Confidence
  BY DEF At, InRange, Confidence
<1> QED BY <1>1 DEF Best, InRange

\* So is the merge of a regex and a Gemini result,
LEMMA MergeExtractionsInRange ==
  ASSUME NEW e, InRange(e), NEW d, InRange(d)
  PROVE  InRange(MergeExtractions(e, d))
<1>1. DOMAIN Best(e, d) = DOMAIN e \cup DOMAIN d
  BY BestDomain, Zenon
<1>2. \A f \in DOMAIN e \cup DOMAIN d : Best(e, d)[f] \in Confidence
  BY <1>1, BestInRange DEF InRange
<1> QED BY <1>2 DEF MergeExtractions, InRange

\* what verify_hsn makes of candidates,
LEMMA VerifyHsnInRange ==
  ASSUME NEW matches \in Seq(Match), matches # <<>>, Picks \subseteq Confidence,
         \A i \in DOMAIN matches : matches[i].score \in Confidence,
         NEW hsn \in VerifyHsn(matches)
  PROVE  hsn.confidence \in Confidence
<1>1. matches[1].score \in Confidence
  OBVIOUS
<1>2. \A s \in Confidence : (s * 85) \div 100 \in Confidence
  BY DEF Confidence
<1>3. \/ hsn.confidence = matches[1].score
      \/ hsn.confidence = (matches[1].score * 85) \div 100
      \/ hsn.confidence \in Picks
  BY DEF VerifyHsn
<1> QED BY <1>1, <1>2, <1>3

\* and the merge of the two passes.
LEMMA MergePassesInRange ==
  ASSUME NEW a, InRange(a.fields), HsnInRange(a.hsn),
         NEW b, InRange(b.fields), HsnInRange(b.hsn)
  PROVE  InRange(MergePasses(a, b).fields) /\ HsnInRange(MergePasses(a, b).hsn)
<1> DEFINE d == [f \in {g \in DOMAIN b.fields : b.fields[g] > 0} |-> b.fields[f]]
<1>1. InRange(d)
  BY DEF InRange
<1>2. MergePasses(a, b).fields = Best(a.fields, d)
  BY DEF MergePasses
<1>3. MergePasses(a, b).hsn \in {a.hsn, b.hsn}
  BY DEF MergePasses
<1> HIDE DEF d
<1> QED BY <1>1, <1>2, <1>3, BestInRange

LEMMA NothingInRange == InRange(Nothing.fields) /\ HsnInRange(Nothing.hsn)
  BY NothingType, NothingAccumulated DEF InRange, HsnInRange

\* No tool, pass or merge leaves the range.
LEMMA RangeStep ==
  ASSUME ToolsInRange, AgentInv, RangeInv, [Next]_vars
  PROVE  RangeInv'
<1>1. CASE \/ RunWithoutKey \/ StartFirstPass \/ CallTools \/ RunRaises \/ ToolWithoutEffect
           \/ RunOcr \/ RetrieveHsnFails \/ UNCHANGED vars
  BY <1>1 DEF RangeInv, RunWithoutKey, StartFirstPass, CallTools, RunRaises, ToolWithoutEffect,
              RunOcr, RetrieveHsnFails, vars
<1>2. CASE FinishFirstPass
  BY <1>2 DEF RangeInv, FinishFirstPass
<1>3. CASE StartSecondPass
  BY <1>3, NothingInRange DEF RangeInv, StartSecondPass
<1>4. CASE FinishSecondPass
  BY <1>4, MergePassesInRange DEF RangeInv, FinishSecondPass
<1>5. CASE ExtractTextFields \/ ExtractImageFields
  <2>1. InRange(input.regex) /\ \A gemini \in GeminiResults : InRange(gemini)
    BY DEF AgentInv, TypeOK, ToolsInRange, InRange
  <2>2. \A gemini \in GeminiResults : InRange(MergeExtractions(input.regex, gemini))
    BY <2>1, MergeExtractionsInRange
  <2>3. PICK fields : InRange(fields) /\ HandOver(fields)
    BY <1>5, <2>1, <2>2 DEF ExtractTextFields, ExtractImageFields
  <2>4. accumulated = [fields |-> accumulated.fields, hsn |-> accumulated.hsn]
    BY DEF AgentInv, TypeOK, IsAccumulated
  <2>5. /\ accumulated'.fields = Best(accumulated.fields, fields)
        /\ accumulated'.hsn = accumulated.hsn
        /\ UNCHANGED <<candidates, first, result>>
    BY <2>3, <2>4 DEF HandOver, Accumulate
  <2> QED BY <2>3, <2>5, BestInRange DEF RangeInv
<1>6. CASE RetrieveHsn
  <2>1. \A i \in DOMAIN candidates' : candidates'[i].score \in Confidence
    BY <1>6 DEF RetrieveHsn, ToolsInRange
  <2> QED BY <1>6, <2>1 DEF RangeInv, RetrieveHsn
<1>7. CASE VerifyHsnCode \/ VerifyWrittenCode
  <2>1. \E matches \in Seq(Match) :
          /\ matches # <<>> /\ Verify(matches)
          /\ \A i \in DOMAIN matches : matches[i].score \in Confidence
    BY <1>7, WritingsAssumption
    DEF VerifyHsnCode, VerifyWrittenCode, AgentInv, TypeOK, RangeInv, ToolsInRange
  <2>2. PICK matches \in Seq(Match) :
          /\ matches # <<>> /\ Verify(matches)
          /\ \A i \in DOMAIN matches : matches[i].score \in Confidence
    BY <2>1
  <2>3. PICK hsn \in VerifyHsn(matches) : accumulated' = [accumulated EXCEPT !.hsn = hsn]
    BY <2>2 DEF Verify
  <2>4. hsn.confidence \in Confidence
    BY <2>2, VerifyHsnInRange DEF ToolsInRange
  <2>5. accumulated = [fields |-> accumulated.fields, hsn |-> accumulated.hsn]
    BY DEF AgentInv, TypeOK, IsAccumulated
  <2>6. accumulated'.fields = accumulated.fields /\ accumulated'.hsn = hsn
    BY <2>3, <2>5
  <2>7. UNCHANGED <<candidates, first, result>>
    BY <1>7 DEF VerifyHsnCode, VerifyWrittenCode
  <2> QED BY <2>4, <2>6, <2>7 DEF RangeInv, HsnInRange
<1> QED BY <1>1, <1>2, <1>3, <1>4, <1>5, <1>6, <1>7 DEF Next, Tool

\* An accumulation is a scoring of fields; within the range it is an extraction.
LEMMA ExtractedType ==
  ASSUME NEW a, IsAccumulated(a)
  PROVE  /\ IsScoring(Extracted(a))
         /\ InRange(a.fields) /\ HsnInRange(a.hsn) => IsExtraction(Extracted(a))
<1> DEFINE e == Extracted(a)
<1>1. IsResult(a.fields) /\ (a.hsn # NoHsn => a.hsn.confidence \in Nat)
  BY AccumulatedHsn DEF IsAccumulated
<1>2. DOMAIN e \subseteq Field
  <2>1. "hsn_code" \in Field
    BY DEF Field, WEIGHTS
  <2> QED BY <1>1, <2>1 DEF Extracted, IsResult
<1>3. \A f \in DOMAIN e : /\ f # "hsn_code" => f \in DOMAIN a.fields /\ e[f] = a.fields[f]
                          /\ f = "hsn_code" => a.hsn # NoHsn /\ e[f] = a.hsn.confidence
  BY <1>1 DEF Extracted, IsResult
<1>4. e = [f \in DOMAIN e |-> e[f]]
  BY DEF Extracted
<1> HIDE DEF e
<1>5. ASSUME NEW f \in DOMAIN e PROVE e[f] \in Nat
  <2>1. CASE f = "hsn_code"
    BY <1>1, <1>3, <2>1
  <2>2. CASE f # "hsn_code"
    <3>1. \A g \in DOMAIN a.fields : a.fields[g] \in Nat
      BY <1>1 DEF IsResult
    <3> QED BY <1>3, <2>2, <3>1
  <2> QED BY <2>1, <2>2
<1>6. ASSUME InRange(a.fields), HsnInRange(a.hsn) PROVE IsExtraction(e)
  <2>1. ASSUME NEW f \in DOMAIN e PROVE e[f] \in Confidence
    <3>1. CASE f = "hsn_code"
      BY <1>3, <1>6, <3>1 DEF HsnInRange
    <3>2. CASE f # "hsn_code"
      BY <1>3, <1>6, <3>2 DEF InRange
    <3> QED BY <3>1, <3>2
  <2> QED BY <1>2, <1>4, <2>1 DEF IsExtraction
<1> QED BY <1>2, <1>4, <1>5, <1>6 DEF e, IsScoring
-----------------------------------------------------------------------------
(* The theorems. *)

\* Whatever Gemini answers and the tools find, the accumulation, the first pass's result
\* and the candidates stay in step with what was handed over and offered.
THEOREM AgentInvariant == Spec => []AgentInv
<1>1. AgentInv /\ [Next]_vars => AgentInv'
  BY StutterInv, RunWithoutKeyInv, CallToolsInv, RunRaisesInv, FinishFirstPassInv, StartSecondPassInv,
     FinishSecondPassInv, PlainToolInv, ExtractInv, VerifyInv DEF Next, Tool
<1> QED BY InitInv, <1>1, PTL DEF Spec

\* Types, turns and calls stay within their bounds.
THEOREM AgentTypeCorrect == Spec => []TypeOK
<1>1. AgentInv => TypeOK
  BY DEF AgentInv
<1> QED BY <1>1, AgentInvariant, PTL

\* The result has each field at the best confidence any tool handed over.
THEOREM AgentLosesNothing == Spec => []NothingSeenIsLost
<1>1. AgentInv => NothingSeenIsLost
  BY DEF AgentInv
<1> QED BY <1>1, AgentInvariant, PTL

\* An HSN code was offered in the pass that chose it.
THEOREM AgentHsnOffered == Spec => []HsnWasOffered
<1>1. AgentInv => HsnWasOffered
  BY DEF AgentInv
<1> QED BY <1>1, AgentInvariant, PTL

\* The second pass never worsens what the first one found.
THEOREM AgentKeepsFirstPass == Spec => []SecondPassKeepsFirst
<1>1. AgentInv => SecondPassKeepsFirst
  BY DEF AgentInv
<1> QED BY <1>1, AgentInvariant, PTL

\* If the tools' confidences lie in 0..1, whatever was accumulated, verified and merged is
\* an extraction such as Ingestion assumes one (ExtractionAssumption).
THEOREM AgentReturnsExtractions == Spec => []ResultsAreExtractions
<1>1. CASE ToolsInRange
  <2>1. Init => RangeInv
    <3> SUFFICES ASSUME Init PROVE RangeInv
      OBVIOUS
    <3> QED BY NothingInRange DEF Init, RangeInv
  <2>2. AgentInv /\ RangeInv /\ [Next]_vars => RangeInv'
    BY <1>1, RangeStep
  <2>3. AgentInv /\ RangeInv => ResultsAreExtractions
    BY ExtractedType DEF AgentInv, TypeOK, RangeInv, ResultsAreExtractions
  <2> QED BY <2>1, <2>2, <2>3, AgentInvariant, PTL DEF Spec
<1>2. CASE ~ToolsInRange
  <2>1. ResultsAreExtractions
    BY <1>2 DEF ResultsAreExtractions
  <2> QED BY <2>1, PTL
<1> QED BY <1>1, <1>2

\* A second pass has a doubtful field to improve on, or everything, for any confidences.
THEOREM AgentDoubts == Spec => []SecondPassHasDoubt
<1> DEFINE DoubtInv == pass = "second" => AggregateConfidence(Extracted(first)) < LOW_OVERALL
<1>1. Init => DoubtInv
  BY DEF Init
<1>2. DoubtInv /\ [Next]_vars => DoubtInv'
  <2> SUFFICES ASSUME DoubtInv, [Next]_vars PROVE DoubtInv'
    OBVIOUS
  <2>1. CASE StartSecondPass
    BY <2>1 DEF StartSecondPass
  <2>2. CASE UNCHANGED first /\ (pass' = "second" => pass = "second")
    BY <2>2
  <2>3. ~StartSecondPass => UNCHANGED first /\ (pass' = "second" => pass = "second")
    BY DEF Next, vars, Tool, RunWithoutKey, StartFirstPass, CallTools, RunRaises,
           FinishFirstPass, FinishSecondPass, ToolWithoutEffect, RunOcr, ExtractTextFields,
           ExtractImageFields, HandOver, RetrieveHsn, RetrieveHsnFails, VerifyHsnCode,
           VerifyWrittenCode
  <2> QED BY <2>1, <2>2, <2>3
<1>3. AgentInv /\ DoubtInv => SecondPassHasDoubt
  <2> DEFINE e == Extracted(first)
  <2> SUFFICES ASSUME AgentInv, AggregateConfidence(e) < LOW_OVERALL,
                      ~(\A f \in DOMAIN e : e[f] = 0),
                      \A f \in DOMAIN e : e[f] \notin 1 .. LOW_OVERALL - 1
               PROVE  FALSE
    BY DEF SecondPassHasDoubt
  <2>1. IsScoring(e)
    BY ExtractedType DEF AgentInv, TypeOK
  <2> HIDE DEF e
  <2>2. Scored(e) # {} /\ \A f \in Scored(e) : LOW_OVERALL <= e[f]
    BY <2>1 DEF Scored, IsScoring, LOW_OVERALL
  <2>3. LOW_OVERALL \in Confidence
    BY DEF LOW_OVERALL, Confidence
  <2>4. AggregateConfidence(e) \in Confidence /\ LOW_OVERALL <= AggregateConfidence(e)
    BY <2>1, <2>2, <2>3, AggregateIsAMean
  <2> QED BY <2>3, <2>4 DEF Confidence
<1> QED BY <1>1, <1>2, <1>3, AgentInvariant, PTL DEF Spec

\* The merge may lower the confidence of the product, but only by fields the first pass had
\* no confidence in.
THEOREM AgentLowersByNewFields == Spec => []SecondPassLowersByNewFields
<1> DEFINE before == Extracted(first)
           after == Extracted(result)
<1>1. AgentInv => SecondPassLowersByNewFields
  <2> SUFFICES ASSUME AgentInv, pass = "done",
                      \A f \in Scored(after) \ Scored(before) :
                        ~(after[f] < AggregateConfidence(before))
               PROVE  ~(AggregateConfidence(after) < AggregateConfidence(before))
    BY DEF SecondPassLowersByNewFields
  <2>1. IsScoring(before) /\ IsScoring(after)
    BY ExtractedType DEF AgentInv, TypeOK
  <2>2. \A f \in DOMAIN before : f \in DOMAIN after /\ after[f] >= before[f]
    BY DEF AgentInv, SecondPassKeepsFirst
  <2> HIDE DEF before, after
  <2>3. AggregateConfidence(before) \in Nat /\ AggregateConfidence(after) \in Nat
    <3>1. /\ AggregateConfidence(before) \in Confidence
          /\ AggregateConfidence(after) \in Confidence
      BY <2>1, AggregateIsAMean
    <3> QED
      BY <3>1 DEF Confidence
  <2>4. /\ \A f \in DOMAIN before : before[f] \in Nat
        /\ \A f \in DOMAIN after : after[f] \in Nat
    BY <2>1 DEF IsScoring
  <2>5. Scored(before) \subseteq Scored(after) /\ \A f \in Scored(before) : before[f] <= after[f]
    BY <2>2, <2>4 DEF Scored
  <2>6. \A f \in Scored(after) \ Scored(before) : AggregateConfidence(before) <= after[f]
    BY <2>3, <2>4 DEF Scored
  <2>7. AggregateConfidence(before) <= AggregateConfidence(after)
    BY <2>1, <2>5, <2>6, AggregateGrows
  <2> QED
    BY <2>3, <2>7
<1> QED BY <1>1, AgentInvariant, PTL
=============================================================================
