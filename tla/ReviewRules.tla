----------------------------- MODULE ReviewRules -----------------------------
(***************************************************************************)
(* The arithmetic that decides whether an extracted product needs a human: *)
(* app/ml/confidence.py, app/services/review_service.py and the two row    *)
(* builders of app/services/ingestion_service.py.                          *)
(*                                                                         *)
(* An extraction, {field: (value, confidence)} in the code, is a function  *)
(* from the extracted fields to their confidences in thousandths.  The     *)
(* agent never stores a None value (orchestrator.py:141, 454 and 474), so  *)
(* a field of the domain always has one; a confidence of 0 may occur.      *)
(* Weights are in tenths.                                                  *)
(***************************************************************************)
EXTENDS Integers, FiniteSets, FiniteSetsExt

WEIGHTS ==
  [name         |-> 20, brand           |-> 10, category      |-> 10,
   subcategory  |-> 8,  mrp             |-> 20, selling_price |-> 15,
   unit         |-> 15, weight_grams    |-> 20, volume_ml     |-> 20,
   barcode      |-> 12, hsn_code        |-> 20, ondc_category |-> 12,
   description  |-> 8,  ondc_subcategory |-> 10]

Field == DOMAIN WEIGHTS

REQUIRED_FIELDS == {"name", "mrp", "unit", "weight_grams", "volume_ml"}

Confidence == 0 .. 1000

IsExtraction(e) ==
  DOMAIN e \subseteq Field /\ e \in [DOMAIN e -> Confidence]

NothingExtracted == [f \in {} |-> 0]

REVIEW_THRESHOLD == 700       \* ingestion_service.py: a field below is queued
LOW_OVERALL == 750            \* review_service.py: low_overall_conf
HSN_AMBIGUOUS == 650 .. 800   \* review_service.py: hsn_ambiguous
HSN_VERIFIED == 650           \* ingestion_service.py: hsn_verified
-----------------------------------------------------------------------------
(* confidence.py *)

\* Mutated form: a field without any confidence counts as well.
ScoredWithZeros(e) == DOMAIN e

\* The fields that count: a confidence of 0 is skipped.
Scored(e) == {f \in DOMAIN e : e[f] # 0}

TotalWeight(e) == SumFunctionOnSet(WEIGHTS, Scored(e))

WeightedSum(e) == SumFunction([f \in Scored(e) |-> WEIGHTS[f] * e[f]])

\* The weighted mean of the scored fields, round(..., 3) being to the nearest
\* thousandth.  Both callers pass (value, confidence) tuples, for which
\* _calculate_source_agreement_bonus records no source: the bonus is 0.
AggregateConfidence(e) ==
  IF Scored(e) = {} THEN 0
  ELSE Min({1000, (2 * WeightedSum(e) + TotalWeight(e)) \div (2 * TotalWeight(e))})

MissingRequired(e) == REQUIRED_FIELDS \ Scored(e)
-----------------------------------------------------------------------------
(* review_service.py: the triggers, each with its severity *)

LowOverall == [reason |-> "low_overall_conf", severity |-> "high"]
MissingField == [reason |-> "missing_required", severity |-> "high"]
AmbiguousHsn == [reason |-> "hsn_ambiguous", severity |-> "medium"]
UnverifiedHsn == [reason |-> "hsn_unknown", severity |-> "medium"]

\* hsn_conf and hsn_verified are computed by both callers from the extraction.
EvaluateReviewTriggers(e) ==
  {t \in {LowOverall, MissingField, AmbiguousHsn, UnverifiedHsn} :
     \/ t = LowOverall /\ AggregateConfidence(e) < LOW_OVERALL
     \/ t = MissingField /\ MissingRequired(e) # {}
     \/ t = AmbiguousHsn /\ "hsn_code" \in DOMAIN e /\ e["hsn_code"] \in HSN_AMBIGUOUS
     \/ t = UnverifiedHsn /\ "hsn_code" \in DOMAIN e /\ e["hsn_code"] < HSN_VERIFIED}

ShouldRequireReview(e) ==
  \E t \in EvaluateReviewTriggers(e) : t.severity = "high"
-----------------------------------------------------------------------------
(* ingestion_service.py: the rows a product is saved with *)

\* _build_field_rows skips a field only when its value is None as well as its
\* confidence 0, so every extracted field gets a row.
FieldRows(e) == e

\* Mutated form: only required fields get a review item.
LowFieldsRequired(e) == {f \in DOMAIN e \cap REQUIRED_FIELDS : e[f] < REVIEW_THRESHOLD}

\* _build_review_items: the fields that get a review item.
LowFields(e) == {f \in DOMAIN e : e[f] < REVIEW_THRESHOLD}
=============================================================================
