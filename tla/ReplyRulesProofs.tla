---------------------------- MODULE ReplyRulesProofs ----------------------------
(***************************************************************************)
(* Proofs about ReplyRules, for any answers, ledgers and templates.        *)
(***************************************************************************)
EXTENDS ReplyRules, TLAPS

(***************************************************************************)
(* The inductive invariant.                                                *)
(***************************************************************************)

\* What the classification on record says is what the model was confident of; a
\* person changes its category only.
SaidInv ==
    /\ answer \in Answers \cup {None}
    /\ {"category", "confidence", "source"} \subseteq DOMAIN classification
    /\ classification.multi = (answer # None /\ Coerce(answer, Allowed).multi)
    /\ classification.number = IF answer = None THEN None ELSE Confident(answer.number)
    /\ classification.amount = IF answer = None THEN None ELSE Confident(answer.amount)
    /\ classification.source \in {"ai", "fallback", "human"}
    /\ classification.source = "fallback" => answer = None
    /\ classification.source = "ai" =>
          /\ answer # None
          /\ classification.category = Coerce(answer, Allowed).category
          /\ classification.confidence = Coerce(answer, Allowed).confidence

\* The lookup's invoice is the one that alone had the number, in the ledger as
\* it was asked, and was compared with what the sender claims.
FoundInv ==
    found.invoice # None =>
        \E n \in DOMAIN seen :
            /\ classification.number # None
            /\ Finder!ByNumber(seen, classification.number) = {n}
            /\ found.invoice = seen[n]
            /\ found.mismatch <=> Finder!AmountDiffers(seen[n], classification.amount)

\* The draft on record is its category's, filled from the lookup on record.
DraftInv ==
    /\ draft.category = classification.category
    /\ draft = Rendered(classification.category)

IInv ==
    /\ TypeOK
    /\ stage # "received" => SaidInv
    /\ stage \in {"verified", "drafted"} => FoundInv
    /\ stage = "drafted" => DraftInv

(***************************************************************************)
(* What the operators give.                                                *)
(***************************************************************************)

USE CategoriesAssumption, NaNAssumption, AnswersAssumption, XeroAssumption

LEMMA CoerceIs ==
    ASSUME NEW raw \in Answers
    PROVE  LET said == Coerce(raw, Allowed) IN
           /\ said.category = IF raw.category \in Allowed THEN raw.category
                              ELSE OutOfScope
           /\ said.category \in Allowed
           /\ said.confidence \in 0..10 \cup {NaN}
           /\ ~Below(said.confidence, CategoryFloor) =>
                raw.confidence = NaN \/ raw.confidence >= CategoryFloor
           /\ said.multi => said.secondary \in Allowed
           /\ said.multi \in BOOLEAN
           /\ ~said.multi /\ raw.secondary \in Allowed \ {said.category}
                /\ raw.secondaryConfidence \notin {None, NaN}
                => raw.secondaryConfidence < MultiIntentThreshold
           /\ said.number = Confident(raw.number)
           /\ said.amount = Confident(raw.amount)
           /\ said.source = "ai"
           /\ {"category", "confidence", "source"} \subseteq DOMAIN said
<1> DEFINE said == Coerce(raw, Allowed)
<1>1. said.category = IF raw.category \in Allowed THEN raw.category ELSE OutOfScope
    BY DEF Coerce
<1>2. said.confidence = Clamped(Score(raw.confidence))
    BY DEF Coerce
<1>3. Score(raw.confidence) \in Int \cup {NaN}
    BY DEF Score
<1>4. said.confidence \in 0..10 \cup {NaN}
    BY <1>2, <1>3 DEF Clamped, Below, AtLeast
<1>5. ~Below(said.confidence, CategoryFloor) =>
        raw.confidence = NaN \/ raw.confidence >= CategoryFloor
    BY <1>2, <1>3 DEF Clamped, Below, AtLeast, Score, CategoryFloor
<1>6. (said.multi => said.secondary \in Allowed) /\ said.multi \in BOOLEAN
    BY DEF Coerce
<1>7. said.number = Confident(raw.number) /\ said.amount = Confident(raw.amount)
      /\ said.source = "ai"
    BY DEF Coerce
<1>8. {"category", "confidence", "source"} \subseteq DOMAIN said
    BY DEF Coerce
<1>9. ASSUME ~said.multi, raw.secondary \in Allowed \ {said.category},
             raw.secondaryConfidence \notin {None, NaN}
      PROVE  raw.secondaryConfidence < MultiIntentThreshold
  <2>1. said.multi = (raw.secondary # None
                      /\ AtLeast(Score(raw.secondaryConfidence), MultiIntentThreshold))
      BY <1>1, <1>9 DEF Coerce
  <2>2. ~AtLeast(raw.secondaryConfidence, MultiIntentThreshold)
      BY <1>9, <2>1 DEF Score
  <2>3. raw.secondaryConfidence \in Int
      BY <1>9
  <2> QED
      BY <1>9, <2>2, <2>3 DEF AtLeast, MultiIntentThreshold
<1> QED
    BY <1>1, <1>4, <1>5, <1>6, <1>7, <1>8, <1>9

LEMMA FallbackIs ==
    /\ Fallback.category = OutOfScope /\ Fallback.confidence = 0
    /\ Fallback.multi = FALSE /\ Fallback.number = None /\ Fallback.amount = None
    /\ Fallback.source = "fallback"
    /\ {"category", "confidence", "source"} \subseteq DOMAIN Fallback
BY DEF Fallback

\* Whatever fails, an invoice is found only if it alone answers to the number.
LEMMA LookupIs ==
    ASSUME NEW books, NEW said, NEW failed, NEW slow \in BOOLEAN
    PROVE  LET row == Finder!Lookup(books, said, failed, slow)
           IN /\ row.outcome # "found" => row.invoice = None
              /\ row.outcome = "found" =>
                   \E n \in DOMAIN books :
                      /\ said.number # None
                      /\ Finder!ByNumber(books, said.number) = {n}
                      /\ row.invoice = books[n]
                      /\ row.mismatch <=> Finder!AmountDiffers(books[n], said.amount)
<1> DEFINE places == IF said.number = None THEN {}
                     ELSE Finder!ByNumber(books, said.number)
           base == [outcome |-> "skipped", invoice |-> None, mismatch |-> FALSE]
           row == Finder!Lookup(books, said, failed, slow)
           only == books[CHOOSE n \in places : TRUE]
           raised == [base EXCEPT !.outcome = IF slow THEN "timed_out" ELSE "error"]
           one == [base EXCEPT !.outcome = "found", !.invoice = only,
                               !.mismatch = Finder!AmountDiffers(only, said.amount)]
           other == [base EXCEPT !.outcome = IF places # {} THEN "ambiguous"
                                             ELSE IF said.number = None THEN "skipped"
                                             ELSE "not_found"]
<1>0. /\ raised.outcome # "found" /\ raised.invoice = None
      /\ other.outcome # "found" /\ other.invoice = None
      /\ one.outcome = "found" /\ one.invoice = only
      /\ one.mismatch = Finder!AmountDiffers(only, said.amount)
    OBVIOUS
<1>1. \/ row \in {raised, other}
      \/ row = one /\ \E n \in places : places = {n}
  <2>1. row = IF said.number # None /\ failed = "number" THEN raised
              ELSE IF \E n \in places : places = {n} THEN one
              ELSE IF failed = "sender" THEN raised
              ELSE other
    BY DEF Finder!Lookup
  <2> HIDE DEF row, raised, one, other, places
  <2> QED
    BY <2>1
<1> HIDE DEF row, raised, one, other, only
<1>2. ASSUME NEW n \in places, places = {n}
      PROVE  said.number # None /\ n \in DOMAIN books /\ only = books[n]
    BY <1>2 DEF Finder!ByNumber, only
<1> QED
    BY <1>0, <1>1, <1>2 DEF row

\* A draft without a blocker has an address, and nothing stands in it; if it
\* mentions an invoice, the figures are those of the lookup's.
LEMMA RenderedIs ==
    ASSUME NEW category, Rendered(category).blockers = {}
    PROVE  LET text == Rendered(category) IN
           /\ addressed /\ text.standing = {} /\ text.missing = {}
           /\ Template[category] \cap Render!InvoiceSlots # {} =>
                /\ found.invoice # None
                /\ text.values["invoice_number"].words = found.invoice.number
                /\ text.values["outstanding_balance"].words = found.invoice.due
<1> DEFINE values == Render!FieldMap(found.invoice, classification.name)
           standing == Render!Standing(Template[category], values)
           missing == Render!Missing(Template[category], values)
<1>1. /\ Rendered(category).values = values /\ Rendered(category).standing = standing
      /\ Rendered(category).missing = missing
      /\ Rendered(category).blockers = Render!Blockers(standing, addressed)
    BY DEF Rendered
<1>2. /\ values["invoice_number"] =
            IF found.invoice = None THEN None ELSE Render!Text(found.invoice.number, {})
      /\ values["outstanding_balance"] =
            IF found.invoice = None THEN None ELSE Render!Text(found.invoice.due, {})
    BY DEF Render!FieldMap, Render!Slots, Render!InvoiceSlots
<1> HIDE DEF values
<1>3. missing \subseteq standing
    BY DEF Render!Standing
<1>4. addressed /\ standing = {} /\ missing = {}
    BY <1>1, <1>3 DEF Render!Blockers
<1>5. ASSUME Template[category] \cap Render!InvoiceSlots # {}
      PROVE  found.invoice # None
    BY <1>2, <1>4, <1>5 DEF Render!InvoiceSlots, Render!Missing
<1> QED
    BY <1>1, <1>2, <1>4, <1>5 DEF Render!Text

(***************************************************************************)
(* The invariant holds.                                                    *)
(***************************************************************************)

LEMMA InitHolds == Init => IInv
BY DEF Init, IInv, TypeOK

LEMMA ClassifyKeeps ==
    ASSUME IInv, NEW raw \in Answers \cup {None}, Classify(raw)
    PROVE  IInv'
<1>1. stage' = "classified" /\ answer' = raw /\ ledger' = ledger /\ seen' = seen
    BY DEF Classify
<1>2. CASE raw = None
  <2>1. classification' = Fallback
      BY <1>2 DEF Classify
  <2>2. TypeOK'
      BY <1>1, <2>1, FallbackIs DEF IInv, TypeOK
  <2>3. classification'.multi = (answer' # None /\ Coerce(answer', Allowed).multi)
      BY <1>1, <1>2, <2>1, FallbackIs, Zenon
  <2>4. SaidInv'
      BY <1>1, <1>2, <2>1, <2>3, FallbackIs DEF SaidInv
  <2> QED
      BY <1>1, <2>2, <2>4 DEF IInv
<1>3. CASE raw # None
  <2>1. raw \in Answers /\ classification' = Coerce(raw, Allowed)
      BY <1>3 DEF Classify
  <2>2. TypeOK'
      BY <1>1, <2>1, CoerceIs DEF IInv, TypeOK
  <2>3. SaidInv'
      BY <1>1, <1>3, <2>1, CoerceIs DEF SaidInv
  <2> QED
      BY <1>1, <2>2, <2>3 DEF IInv
<1> QED
    BY <1>2, <1>3

LEMMA VerifyKeeps ==
    ASSUME IInv, NEW failed, NEW slow \in BOOLEAN, Verify(failed, slow)
    PROVE  IInv'
<1>1. /\ stage = "classified" /\ stage' = "verified" /\ seen' = ledger
      /\ UNCHANGED <<ledger, addressed, classification, draft, answer>>
      /\ found' = Finder!Lookup(ledger, classification, failed, slow)
    BY DEF Verify
<1>2. ledger \in Seq(Invoices) /\ seen' \in Seq(Invoices)
    BY <1>1 DEF IInv, TypeOK
<1>3. \A n \in DOMAIN ledger : ledger[n] # None
    BY <1>2
<1>4. /\ found'.outcome # "found" => found'.invoice = None
      /\ found'.outcome = "found" =>
           \E n \in DOMAIN ledger :
              /\ classification.number # None
              /\ Finder!ByNumber(ledger, classification.number) = {n}
              /\ found'.invoice = ledger[n]
              /\ found'.mismatch <=> Finder!AmountDiffers(ledger[n],
                                                         classification.amount)
    BY <1>1, LookupIs
<1>5. TypeOK'
    BY <1>1, <1>2, <1>3, <1>4 DEF IInv, TypeOK
<1>6. SaidInv'
    BY <1>1 DEF IInv, SaidInv
<1>7. FoundInv'
    BY <1>1, <1>4 DEF FoundInv
<1> QED
    BY <1>1, <1>5, <1>6, <1>7 DEF IInv

LEMMA DraftKeeps ==
    ASSUME IInv, Draft
    PROVE  IInv'
<1>1. /\ stage = "verified" /\ stage' = "drafted"
      /\ draft' = Rendered(classification.category)
      /\ UNCHANGED <<ledger, addressed, classification, found, answer, seen>>
    BY DEF Draft
<1>2. TypeOK' /\ SaidInv'
    BY <1>1 DEF IInv, TypeOK, SaidInv
<1>3. FoundInv'
    BY <1>1 DEF IInv, FoundInv
<1>4. DraftInv'
    BY <1>1 DEF DraftInv, Rendered
<1> QED
    BY <1>1, <1>2, <1>3, <1>4 DEF IInv

LEMMA OverrideKeeps ==
    ASSUME IInv, NEW category \in Allowed, Override(category)
    PROVE  IInv'
<1>1. /\ stage = "drafted" /\ stage' = "drafted"
      /\ draft' = Rendered(category)
      /\ UNCHANGED <<ledger, addressed, found, answer, seen>>
    BY DEF Override
<1>2. SaidInv
    BY <1>1 DEF IInv
<1>3. /\ classification'.category = category /\ classification'.confidence = 10
      /\ classification'.source = "human"
      /\ DOMAIN classification' = DOMAIN classification
      /\ classification'.number = classification.number
      /\ classification'.amount = classification.amount
      /\ classification'.name = classification.name
      /\ classification'.multi = classification.multi
      /\ classification'.secondary = classification.secondary
    BY <1>2 DEF Override, SaidInv
<1>4. TypeOK'
    BY <1>1, <1>3 DEF IInv, TypeOK
<1>5. SaidInv'
    BY <1>1, <1>2, <1>3 DEF SaidInv
<1>6. FoundInv'
    BY <1>1, <1>3 DEF IInv, FoundInv
<1>7. DraftInv'
    BY <1>1, <1>3 DEF DraftInv, Rendered
<1> QED
    BY <1>1, <1>4, <1>5, <1>6, <1>7 DEF IInv

LEMMA NextKeeps == IInv /\ [Next]_vars => IInv'
<1> SUFFICES ASSUME IInv, [Next]_vars PROVE IInv'
    OBVIOUS
<1>1. ASSUME NEW inv \in Invoices, AddInvoice(inv) PROVE IInv'
  <2>1. ledger' = Append(ledger, inv)
        /\ UNCHANGED <<stage, addressed, classification, found, draft, answer, seen>>
      BY <1>1 DEF AddInvoice
  <2>2. ledger' \in Seq(Invoices)
      BY <2>1 DEF IInv, TypeOK
  <2>3. TypeOK' /\ (SaidInv => SaidInv') /\ (FoundInv => FoundInv')
      BY <2>1, <2>2 DEF IInv, TypeOK, SaidInv, FoundInv
  <2>4. DraftInv => DraftInv'
      BY <2>1 DEF DraftInv, Rendered
  <2> QED
      BY <2>1, <2>3, <2>4 DEF IInv
<1>2. ASSUME UNCHANGED vars PROVE IInv'
    BY <1>2 DEF vars, IInv, TypeOK, SaidInv, FoundInv, DraftInv, Rendered
<1> QED
    BY <1>1, <1>2, ClassifyKeeps, VerifyKeeps, DraftKeeps, OverrideKeeps DEF Next


LEMMA Invariant == Spec => []IInv
<1>1. Init => IInv
    BY InitHolds
<1>2. IInv /\ [Next]_vars => IInv'
    BY NextKeeps
<1> QED
    BY <1>1, <1>2, PTL DEF Spec

(***************************************************************************)
(* What it says of a draft.                                                *)
(***************************************************************************)

\* A ready draft is the rendering of the category on record.
LEMMA ReadyIs ==
    ASSUME IInv, Ready
    PROVE  /\ addressed /\ draft.standing = {} /\ draft.missing = {}
           /\ draft.category = classification.category
           /\ Mentions =>
                /\ found.invoice # None
                /\ draft.values["invoice_number"].words = found.invoice.number
                /\ draft.values["outstanding_balance"].words = found.invoice.due
<1>1. /\ draft.category = classification.category
      /\ draft = Rendered(classification.category)
      /\ Rendered(classification.category).blockers = {}
    BY DEF IInv, DraftInv, Ready
<1> QED
    BY <1>1, RenderedIs DEF Mentions

LEMMA NoSlotHolds == IInv => NoSlotGoesOut
BY ReadyIs DEF NoSlotGoesOut

LEMMA FactsHold == IInv => FactsComeFromXero
<1> DEFINE same == {n \in DOMAIN seen :
                      Lower[seen[n].number] = Lower[answer.number.value]}
<1> SUFFICES ASSUME IInv, Ready, Mentions
             PROVE  /\ answer # None
                    /\ answer.number.score # None
                    /\ ~Below(answer.number.score, FieldFloor)
                    /\ \E n \in same :
                         /\ same = {n}
                         /\ draft.values["invoice_number"].words = seen[n].number
                         /\ draft.values["outstanding_balance"].words = seen[n].due
    BY DEF FactsComeFromXero
<1>1. stage = "drafted" /\ SaidInv /\ FoundInv /\ seen \in Seq(Invoices)
    BY DEF IInv, TypeOK, Ready
<1>2. PICK n \in DOMAIN seen :
         /\ classification.number # None
         /\ Finder!ByNumber(seen, classification.number) = {n}
         /\ found.invoice = seen[n]
    BY <1>1, ReadyIs DEF FoundInv
<1>3. /\ answer \in Answers /\ classification.number = Confident(answer.number)
      /\ Confident(answer.number) # None
    BY <1>1, <1>2 DEF SaidInv
<1>4. /\ answer.number.value # None /\ answer.number.score # None
      /\ ~Below(answer.number.score, FieldFloor)
      /\ classification.number = answer.number.value
      /\ classification.number \in DOMAIN Like
    BY <1>3 DEF Confident
<1>5. same = {n}
  <2>1. \A m \in DOMAIN seen : seen[m] \in Invoices
      BY <1>1
  <2>2. Finder!ByNumber(seen, classification.number) \subseteq same
      BY <1>4 DEF Finder!ByNumber, Finder!AnswersTo
  <2>3. same \subseteq Finder!ByNumber(seen, classification.number)
      BY <1>4, <2>1 DEF Finder!ByNumber, Finder!AnswersTo
  <2> QED
      BY <1>2, <2>2, <2>3
<1>6. /\ draft.values["invoice_number"].words = seen[n].number
      /\ draft.values["outstanding_balance"].words = seen[n].due
    BY <1>2, ReadyIs
<1> HIDE DEF same
<1> QED
    BY <1>3, <1>4, <1>5, <1>6

LEMMA NoDoubtHolds == IInv => NoWarningNoDoubt
<1> DEFINE warnings == Render!Warnings(classification,
                                       LowConfidence(classification), found)
<1> SUFFICES ASSUME IInv, Ready, Mentions, warnings = {}
             PROVE  /\ answer # None
                    /\ Confident(answer.amount) # None =>
                          \E owed \in {found.invoice.due, found.invoice.total} :
                             Confident(answer.amount) - owed \in -1..1
                    /\ answer.secondary \in Allowed
                       /\ answer.secondaryConfidence \notin {None, NaN}
                          => \/ answer.secondaryConfidence < MultiIntentThreshold
                             \/ answer.secondary = answer.category
                             \/ answer.secondary = OutOfScope
                                /\ answer.category \notin Allowed
                    /\ classification.source = "ai" =>
                          /\ answer.confidence = NaN
                             \/ answer.confidence >= CategoryFloor
                          /\ draft.category = IF answer.category \in Allowed
                                              THEN answer.category ELSE OutOfScope
    BY DEF NoWarningNoDoubt
<1>1. stage = "drafted" /\ SaidInv /\ FoundInv
    BY DEF IInv, TypeOK, Ready
<1>2. /\ ~found.mismatch
      /\ classification.source # "fallback" =>
            ~LowConfidence(classification) /\ ~classification.multi
    BY DEF Render!Warnings
<1>3. PICK n \in DOMAIN seen :
         /\ classification.number # None
         /\ found.invoice = seen[n]
         /\ found.mismatch <=> Finder!AmountDiffers(seen[n], classification.amount)
    BY <1>1, ReadyIs DEF FoundInv
<1>4. answer # None /\ answer \in Answers
      /\ classification.amount = Confident(answer.amount)
    BY <1>1, <1>3 DEF SaidInv
<1>5. ASSUME Confident(answer.amount) # None
      PROVE  \E owed \in {found.invoice.due, found.invoice.total} :
                Confident(answer.amount) - owed \in -1..1
    BY <1>2, <1>3, <1>4, <1>5 DEF Finder!AmountDiffers, Finder!AmountTolerance
<1>6. ASSUME classification.source = "ai"
      PROVE  /\ answer.confidence = NaN \/ answer.confidence >= CategoryFloor
             /\ draft.category = IF answer.category \in Allowed
                                 THEN answer.category ELSE OutOfScope
  <2>1. ~Below(classification.confidence, CategoryFloor)
      BY <1>2, <1>6 DEF LowConfidence
  <2>2. /\ classification.category = Coerce(answer, Allowed).category
        /\ classification.confidence = Coerce(answer, Allowed).confidence
      BY <1>1, <1>6 DEF SaidInv
  <2> QED
      BY <1>4, <2>1, <2>2, CoerceIs, ReadyIs
<1>7. ASSUME answer.secondary \in Allowed, answer.secondaryConfidence \notin {None, NaN}
      PROVE  \/ answer.secondaryConfidence < MultiIntentThreshold
             \/ answer.secondary = answer.category
             \/ answer.secondary = OutOfScope /\ answer.category \notin Allowed
  <2>1. ~Coerce(answer, Allowed).multi
      BY <1>1, <1>2, <1>4 DEF SaidInv
  <2> QED
      BY <1>4, <1>7, <2>1, CoerceIs
<1> QED
    BY <1>4, <1>5, <1>6, <1>7

(***************************************************************************)
(* The theorems.                                                           *)
(***************************************************************************)

\* At every stage the rows on record are what their columns allow, and the
\* lookup has an invoice exactly when it says that it found one (models.py,
\* Classification; verify.py, lookup).
THEOREM TypeCorrect == Spec => []TypeOK
<1>1. IInv => TypeOK
    BY DEF IInv
<1> QED
    BY <1>1, Invariant, PTL

\* No placeholder and no unaddressed reply can go out, whatever the template,
\* the ledger and the answer, and however often the category was overridden
\* (render.py, fill; review.py, blockers).
THEOREM NoSlot == Spec => []NoSlotGoesOut
BY NoSlotHolds, Invariant, PTL

\* The figures of a draft that may go out are those of the one invoice that the
\* ledger held under a number the model read and was sure of (verify.py,
\* lookup; render.py, field_map; classify.py, _confident).
THEOREM Facts == Spec => []FactsComeFromXero
BY FactsHold, Invariant, PTL

\* Without a warning, the claim agrees with the ledger and the model was sure
\* of the category, or the category is the catch-all or a person's (review.py,
\* flags; pipeline.py, classify and override).
THEOREM NoDoubt == Spec => []NoWarningNoDoubt
BY NoDoubtHolds, Invariant, PTL

================================================================================
