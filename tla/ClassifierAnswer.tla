--------------------------- MODULE ClassifierAnswer ----------------------------
(***************************************************************************)
(* What the inbox takes from the model's answer                            *)
(* (worker/fw/inbox/classify.py, coerce, _confident, fallback; the         *)
(* thresholds of models.py).                                               *)
(*                                                                         *)
(* A score is in tenths, None if it is missing or no number, and NaN if it *)
(* is the float that reads "not a number": that one compares false with    *)
(* every other, so it is neither below a floor nor at it.  How an amount   *)
(* is read from its text, the language, the currency and the date are left *)
(* out.                                                                    *)
(***************************************************************************)
EXTENDS Integers

CONSTANTS
    None, NaN,
    OutOfScope    \* OUT_OF_SCOPE

FieldFloor == 6           \* FIELD_CONFIDENCE_FLOOR
CategoryFloor == 6        \* CATEGORY_CONFIDENCE_FLOOR
MultiIntentThreshold == 4 \* MULTI_INTENT_THRESHOLD

Below(n, floor) == n # NaN /\ n < floor
AtLeast(n, floor) == n # NaN /\ n >= floor

Score(raw) == IF raw = None THEN 0 ELSE raw
\* min(max(n, 0), 1), which leaves NaN as it is.
Clamped(n) == IF Below(n, 0) THEN 0 ELSE IF AtLeast(n, 10) THEN 10 ELSE n

\* A field's value, unless the model was not confident enough of it; a missing
\* score is not permission to trust it, but NaN is not below the floor.
Confident(field) ==
    IF field.value # None /\ field.score # None /\ ~Below(field.score, FieldFloor)
    THEN field.value ELSE None

Coerce(raw, allowed) ==
    LET category == IF raw.category \in allowed THEN raw.category ELSE OutOfScope
        second == IF raw.secondary \in allowed \ {category} THEN raw.secondary
                  ELSE None
    IN [category |-> category,
        confidence |-> Clamped(Score(raw.confidence)),
        secondary |-> second,
        multi |-> second # None
                  /\ AtLeast(Score(raw.secondaryConfidence), MultiIntentThreshold),
        number |-> Confident(raw.number),
        amount |-> Confident(raw.amount),
        name |-> Confident(raw.name),
        source |-> "ai"]

\* When the model could not be asked.
Fallback ==
    [category |-> OutOfScope, confidence |-> 0, secondary |-> None,
     multi |-> FALSE, number |-> None, amount |-> None, name |-> None,
     source |-> "fallback"]

LowConfidence(classification) == Below(classification.confidence, CategoryFloor)
================================================================================
