--------------------------- MODULE ExtractionAgent ---------------------------
(***************************************************************************)
(* One run of the ExtractionAgent (app/ml/agent/orchestrator.py): Gemini   *)
(* chooses tools, turn by turn; a first pass that ends below the threshold *)
(* is followed by a second one, and the two results are merged.            *)
(*                                                                         *)
(* The model's choices, and what the tools find, are nondeterministic.  Of *)
(* a field only its confidence is kept, of the HSN code the code as well.  *)
(* Confidences are in thousandths; Gemini's are not checked, so they may   *)
(* exceed 1000 (the database then refuses the product, see Ingestion).     *)
(***************************************************************************)
EXTENDS Integers, Sequences, FiniteSets, ReviewRules

CONSTANTS
  RegexResults,   \* what extract_all may find in a text
  GeminiResults,  \* what extract_with_gemini(_multimodal) may return, {} on failure
  Rankings,       \* what the HSN table may answer: [code, score], best first
  Writings,       \* what Gemini may write into candidates_json itself
  Picks,          \* the confidences Gemini may give the code it picks
  NoHsn,          \* no HSN code yet
  MaxTurns,       \* _MAX_TURNS
  MaxCalls        \* bound: tool calls in one model response

\* The fields an extraction tool may find: never the HSN code.
IsResult(e) ==
  /\ DOMAIN e \subseteq Field \ {"hsn_code"}
  /\ e \in [DOMAIN e -> Nat]

Code == {m.code : m \in UNION {{s[i] : i \in DOMAIN s} : s \in Rankings \cup Writings}}

Match == [code : Code, score : Nat]

SIMILARITY == 650
TOP_K == 5

\* What retrieve_hsn returns: the nearest codes above the threshold, best first.
IsRanking(s) ==
  /\ s \in Seq(Match) /\ Len(s) <= TOP_K
  /\ \A i \in DOMAIN s : s[i].score >= SIMILARITY
  /\ \A i, j \in DOMAIN s : i < j => s[i].score >= s[j].score

\* What OCR ends with: no text (nothing legible, a failure, the timeout) or one.
OcrOutcome == {"blank", "text"}

Hsn == [code : Code, confidence : Nat] \cup {NoHsn}

ASSUME ResultsAssumption == \A e \in RegexResults \cup GeminiResults : IsResult(e)
ASSUME NothingAssumption == NothingExtracted \in GeminiResults
ASSUME RankingsAssumption == \A s \in Rankings : IsRanking(s)
ASSUME WritingsAssumption == Writings \subseteq Seq(Match) \ {<<>>}
ASSUME PicksAssumption == Picks \subseteq Nat
ASSUME NoHsnAssumption == NoHsn \notin [code : Code, confidence : Nat]
ASSUME BoundsAssumption == MaxTurns \in Nat /\ MaxCalls \in Nat \ {0}

VARIABLES
  input,        \* text or image, and what extract_all finds in its text
  pass,         \* where run() stands
  turn,         \* model responses with tool calls in this pass
  left,         \* tool calls of the current response still to dispatch
  ocr,          \* _ocr_text and _ocr_confidence: not read yet, nothing found, or text
  candidates,   \* _hsn_candidates
  accumulated,  \* _accumulated: the fields, and hsn_code
  first,        \* pass1_result, once the second pass has begun
  result,       \* what run() returns
  session,      \* whether the database transaction can still be used
  seen,         \* history: per field, the best confidence the tools handed over
  offered       \* history: the codes retrieved, or written by Gemini, in this pass

vars == <<input, pass, turn, left, ocr, candidates, accumulated, first, result,
          session, seen, offered>>

Nothing == [fields |-> NothingExtracted, hsn |-> NoHsn]

\* The extraction a pass has accumulated, as the rest of the program sees it.
Extracted(a) ==
  [f \in DOMAIN a.fields \cup {g \in {"hsn_code"} : a.hsn # NoHsn} |->
     IF f = "hsn_code" THEN a.hsn.confidence ELSE a.fields[f]]

Init ==
  /\ input \in [kind : {"text", "image"}, regex : RegexResults]
  /\ pass = "new"
  /\ turn = 0 /\ left = 0
  /\ ocr = "unread"
  /\ candidates = <<>>
  /\ accumulated = Nothing /\ first = Nothing /\ result = Nothing
  /\ session = "usable"
  /\ seen = NothingExtracted /\ offered = {}
-----------------------------------------------------------------------------
(* The operators on confidences. *)

At(e, f) == IF f \in DOMAIN e THEN e[f] ELSE 0

\* Of the two results, the one that is more confident of the field.
Best(e, d) ==
  [f \in DOMAIN e \cup DOMAIN d |-> IF At(d, f) > At(e, f) THEN At(d, f) ELSE At(e, f)]

\* Mutated form: what came last wins.
Latest(e, d) ==
  [f \in DOMAIN e \cup DOMAIN d |-> IF f \in DOMAIN d THEN d[f] ELSE e[f]]

\* Mutated form: a second source that has the field adds a bonus, past the cap.
AccumulateWithBonus(e, new) ==
  [f \in DOMAIN e \cup DOMAIN new |->
     Best(e, new)[f] + IF f \in DOMAIN e \cap DOMAIN new THEN 50 ELSE 0]

\* _accumulate keeps the higher confidence.
Accumulate(e, new) == Best(e, new)

CLEAN == 950

\* merge_extractions of app/ml/vlm.py: a clean regex field yields only to a more
\* confident Gemini one, any other regex field to whatever Gemini has.
MergeExtractions(regex, gemini) ==
  [f \in DOMAIN regex \cup DOMAIN gemini |->
     IF At(regex, f) >= CLEAN THEN Best(regex, gemini)[f]
     ELSE IF f \in DOMAIN gemini THEN gemini[f] ELSE regex[f]]

HsnConfidence(h) == IF h = NoHsn THEN 0 ELSE h.confidence

\* Mutated form: the second pass wins.
MergePassesLatest(a, b) ==
  [fields |-> Latest(a.fields, b.fields), hsn |-> IF b.hsn = NoHsn THEN a.hsn ELSE b.hsn]

\* The merge of the two passes: the second needs a confidence above the first's, and
\* above 0 for a field the first has not.
MergePasses(a, b) ==
  [fields |-> Best(a.fields, [f \in {g \in DOMAIN b.fields : b.fields[g] > 0} |-> b.fields[f]]),
   hsn    |-> IF HsnConfidence(b.hsn) > HsnConfidence(a.hsn) THEN b.hsn ELSE a.hsn]

CLEAR_MATCH == 800
GAP == 50

\* verify_hsn of app/ml/hsn/verifier.py takes the first of two well separated
\* candidates; otherwise Gemini picks a candidate and a confidence for it, and when it
\* fails, or knows none of them, the first candidate is taken at 85 % of its score.
VerifyHsn(matches) ==
  LET top == matches[1]
      clear == /\ Len(matches) >= 2
               /\ top.score > CLEAR_MATCH
               /\ top.score - matches[2].score > GAP
  IN IF clear THEN {[code |-> top.code, confidence |-> top.score]}
     ELSE {[code |-> top.code, confidence |-> (top.score * 85) \div 100]}
          \cup {[code |-> matches[i].code, confidence |-> c] : i \in DOMAIN matches, c \in Picks}

Codes(matches) == {matches[i].code : i \in DOMAIN matches}
-----------------------------------------------------------------------------
(* run() and _agent_loop(). *)

\* Without GEMINI_API_KEY the agent returns nothing.
RunWithoutKey ==
  /\ pass = "new"
  /\ pass' = "done"
  /\ UNCHANGED <<input, turn, left, ocr, candidates, accumulated, first, result, session,
                 seen, offered>>

StartFirstPass ==
  /\ pass = "new"
  /\ pass' = "first"
  /\ UNCHANGED <<input, turn, left, ocr, candidates, accumulated, first, result, session,
                 seen, offered>>

Asking == pass \in {"first", "second"} /\ left = 0

\* Mutated form: the loop runs until the model stops.
CallToolsForever ==
  /\ Asking
  /\ left' \in 1 .. MaxCalls
  /\ UNCHANGED <<input, pass, turn, ocr, candidates, accumulated, first, result, session,
                 seen, offered>>

\* Mutated form: the loop is left one turn late.
CallToolsOnceMore ==
  /\ Asking /\ turn <= MaxTurns
  /\ turn' = turn + 1
  /\ left' \in 1 .. MaxCalls
  /\ UNCHANGED <<input, pass, ocr, candidates, accumulated, first, result, session, seen,
                 offered>>

\* The model answers with tool calls.
CallTools ==
  /\ Asking /\ turn < MaxTurns
  /\ turn' = turn + 1
  /\ left' \in 1 .. MaxCalls
  /\ UNCHANGED <<input, pass, ocr, candidates, accumulated, first, result, session, seen,
                 offered>>

\* A response whose content has no parts, or a tool call without arguments, raises outside
\* every try: run() ends with the exception, whatever has been accumulated.
RunRaises ==
  /\ pass \in {"first", "second"}
  /\ turn < MaxTurns \/ left > 0
  /\ pass' = "raised" /\ left' = 0
  /\ UNCHANGED <<input, turn, ocr, candidates, accumulated, first, result, session, seen,
                 offered>>

\* A pass ends when the call fails, the response is empty or has no tool call, or the
\* turns are used up.  The first one is good enough,
FinishFirstPass ==
  /\ Asking /\ pass = "first"
  /\ AggregateConfidence(Extracted(accumulated)) >= LOW_OVERALL
  /\ pass' = "done"
  /\ result' = accumulated
  /\ UNCHANGED <<input, turn, left, ocr, candidates, accumulated, first, session, seen,
                 offered>>

\* Mutated form: the candidates of the first pass stay.
StartSecondPassWithCandidates ==
  /\ Asking /\ pass = "first"
  /\ AggregateConfidence(Extracted(accumulated)) < LOW_OVERALL
  /\ pass' = "second"
  /\ first' = accumulated
  /\ accumulated' = Nothing
  /\ turn' = 0 /\ offered' = {}
  /\ UNCHANGED <<input, left, ocr, candidates, result, session, seen>>

\* or the second one starts afresh, but for the OCR text.
StartSecondPass ==
  /\ Asking /\ pass = "first"
  /\ AggregateConfidence(Extracted(accumulated)) < LOW_OVERALL
  /\ pass' = "second"
  /\ first' = accumulated
  /\ accumulated' = Nothing /\ candidates' = <<>>
  /\ turn' = 0 /\ offered' = {}
  /\ UNCHANGED <<input, left, ocr, result, session, seen>>

FinishSecondPass ==
  /\ Asking /\ pass = "second"
  /\ pass' = "done"
  /\ result' = MergePasses(first, accumulated)
  /\ UNCHANGED <<input, turn, left, ocr, candidates, accumulated, first, session, seen,
                 offered>>
-----------------------------------------------------------------------------
(* The tools.  _dispatch_tool turns an exception into an answer to the model. *)

Dispatching == left > 0 /\ left' = left - 1

\* An unknown tool, a tool without its input (no image, no text, no product name, no
\* candidates or undecodable ones), OCR that has a cached result, an embedder that
\* raises, a query in an aborted transaction.
ToolWithoutEffect ==
  /\ Dispatching
  /\ UNCHANGED <<input, pass, turn, ocr, candidates, accumulated, first, result, session,
                 seen, offered>>

\* The first call runs OCR, whatever comes of it.
RunOcr ==
  /\ Dispatching
  /\ input.kind = "image" /\ ocr = "unread"
  /\ ocr' \in OcrOutcome
  /\ UNCHANGED <<input, pass, turn, candidates, accumulated, first, result, session, seen,
                 offered>>

HandOver(fields) ==
  /\ accumulated' = [accumulated EXCEPT !.fields = Accumulate(@, fields)]
  /\ seen' = Best(seen, fields)
  /\ UNCHANGED <<input, pass, turn, ocr, candidates, first, result, session, offered>>

HasText == input.kind = "text" \/ ocr = "text"

\* extract_text_fields, strategy "full" or any other.
ExtractTextFields ==
  /\ Dispatching /\ HasText
  /\ \/ \E gemini \in GeminiResults : HandOver(MergeExtractions(input.regex, gemini))
     \/ HandOver(input.regex)

ExtractImageFields ==
  /\ Dispatching /\ input.kind = "image"
  /\ \E gemini \in GeminiResults : HandOver(gemini)

RetrieveHsn ==
  /\ Dispatching /\ session = "usable"
  /\ candidates' \in Rankings
  /\ offered' = offered \cup Codes(candidates')
  /\ UNCHANGED <<input, pass, turn, ocr, accumulated, first, result, session, seen>>

\* The SELECT raises: the transaction of the whole job is lost, and only the model
\* hears of it.
RetrieveHsnFails ==
  /\ Dispatching
  /\ session' = "aborted"
  /\ UNCHANGED <<input, pass, turn, ocr, candidates, accumulated, first, result, seen, offered>>

Verify(matches) ==
  \E hsn \in VerifyHsn(matches) : accumulated' = [accumulated EXCEPT !.hsn = hsn]

\* verify_hsn_code prefers the candidates of the last retrieval in this pass
VerifyHsnCode ==
  /\ Dispatching /\ candidates # <<>>
  /\ Verify(candidates)
  /\ UNCHANGED <<input, pass, turn, ocr, candidates, first, result, session, seen, offered>>

\* to those Gemini writes into its argument.
VerifyWrittenCode ==
  /\ Dispatching /\ candidates = <<>>
  /\ \E matches \in Writings :
       /\ Verify(matches)
       /\ offered' = offered \cup Codes(matches)
  /\ UNCHANGED <<input, pass, turn, ocr, candidates, first, result, session, seen>>

Tool ==
  \/ ToolWithoutEffect \/ RunOcr \/ ExtractTextFields \/ ExtractImageFields
  \/ RetrieveHsn \/ RetrieveHsnFails \/ VerifyHsnCode \/ VerifyWrittenCode

Next ==
  \/ RunWithoutKey \/ StartFirstPass
  \/ CallTools \/ RunRaises
  \/ FinishFirstPass \/ StartSecondPass \/ FinishSecondPass
  \/ Tool

Spec == Init /\ [][Next]_vars

\* run() is awaited to its end by its one caller.
FairSpec == Spec /\ WF_vars(Next)
-----------------------------------------------------------------------------
(* Safety *)

IsAccumulated(a) ==
  a = [fields |-> a.fields, hsn |-> a.hsn] /\ IsResult(a.fields) /\ a.hsn \in Hsn

\* Every variable keeps its type, the turns stay within _MAX_TURNS and the dispatched
\* calls within those of one response.
TypeOK ==
  /\ input \in [kind : {"text", "image"}, regex : RegexResults]
  /\ pass \in {"new", "first", "second", "done", "raised"}
  /\ turn \in 0 .. MaxTurns /\ left \in 0 .. MaxCalls
  /\ ocr \in {"unread", "blank", "text"}
  /\ candidates \in Seq(Match)
  /\ IsAccumulated(accumulated) /\ IsAccumulated(first) /\ IsAccumulated(result)
  /\ session \in {"usable", "aborted"}
  /\ IsResult(seen)
  /\ offered \subseteq Code

\* Whatever the model calls in whatever order, over both passes and the merge, no field
\* comes out less confident than an extraction tool handed it over at any time, and none
\* more confident.
NothingSeenIsLost ==
  pass = "done" =>
    /\ DOMAIN result.fields \subseteq DOMAIN seen
    /\ \A f \in DOMAIN seen : At(result.fields, f) = seen[f]

\* An HSN code comes from candidates of the pass that chose it: those of the first pass
\* are not verified again in the second one.
HsnWasOffered == accumulated.hsn # NoHsn => accumulated.hsn.code \in offered

\* Self-correction does not worsen the first pass: nothing it found is missing from the
\* result, or less confident in it, the HSN code included.
SecondPassKeepsFirst ==
  pass = "done" =>
    LET before == Extracted(first)
        after == Extracted(result)
    IN \A f \in DOMAIN before : f \in DOMAIN after /\ after[f] >= before[f]

\* The confidences of the tools' answers, unchecked as they are, happen to lie in 0..1.
ToolsInRange ==
  /\ \A e \in RegexResults \cup GeminiResults : \A f \in DOMAIN e : e[f] \in Confidence
  /\ \A s \in Rankings \cup Writings : \A i \in DOMAIN s : s[i].score \in Confidence
  /\ Picks \subseteq Confidence

\* Then the run returns an extraction as ingestion expects it: accumulating, verifying and
\* merging never leave the range, and put the HSN code among the fields.
ResultsAreExtractions ==
  ToolsInRange /\ pass = "done" => IsExtraction(Extracted(result))

\* A second pass is only run for a reason it can improve on: the first one found nothing it
\* was at all sure of, or some field that is doubtful itself.  Neither a field that is
\* missing, nor one without any confidence, nor the weights, nor the rounding start one.
SecondPassHasDoubt ==
  pass = "second" =>
    LET e == Extracted(first) IN
    (\A f \in DOMAIN e : e[f] = 0) \/ \E f \in DOMAIN e : e[f] \in 1 .. LOW_OVERALL - 1

\* It may all the same lower the confidence of the product, which nobody compares with the
\* first pass's; but then a field the first pass had no confidence in is to blame, and one
\* below what the first pass was on the whole.
SecondPassLowersByNewFields ==
  pass = "done" =>
    LET before == Extracted(first)
        after == Extracted(result)
    IN AggregateConfidence(after) < AggregateConfidence(before)
         => \E f \in Scored(after) \ Scored(before) : after[f] < AggregateConfidence(before)

\* What the confidences handed over have become, wherever the run stands.
SeenInv ==
  /\ pass = "new" => seen = NothingExtracted
  /\ pass \in {"new", "first"} => first = Nothing /\ accumulated.fields = seen
  /\ pass = "second" => seen = Best(first.fields, accumulated.fields)
  /\ pass # "done" => result = Nothing

\* The inductive invariant: the accumulation, the first pass's result and the candidates
\* stay in step with what the tools have handed over and offered, through both passes.
AgentInv ==
  /\ TypeOK /\ SeenInv
  /\ left > 0 => pass \in {"first", "second"}
  /\ Codes(candidates) \subseteq offered
  /\ HsnWasOffered /\ NothingSeenIsLost /\ SecondPassKeepsFirst

\* However long Gemini goes on calling tools, the run ends, with a result or an exception.
RunEnds == <>(pass \in {"done", "raised"})
=============================================================================
