--------------------------- MODULE InboxTriageProofs ---------------------------
(***************************************************************************)
(* Proofs about InboxTriage, for any emails, mailboxes, categories,        *)
(* threads and limits.                                                     *)
(***************************************************************************)
EXTENDS InboxTriage, WellFoundedInduction, TLAPS

(***************************************************************************)
(* The inductive invariant.                                                *)
(***************************************************************************)

Writing == {"lookup", "draft", "review"}

\* What somebody writes about has a row, or its mailbox is gone for good.
HeldInv(e) ==
    BeingWritten(e) => Present(e) \/ MailboxOf[e] \notin connected

\* A message without a row has nothing written about it.
AbsentInv(e) == ~Present(e) => label[e] = NoLabel /\ draft[e] = None

\* What a sync has written so far about the email in hand is there.
ReviewInv(s, e) ==
    SyncWrites(s, e) /\ Present(e) /\ e \notin torn =>
        /\ label[e] # NoLabel
        /\ spc[s] \in {"draft", "review"} => lookup[e]
        /\ spc[s] = "review" => draft[e] # None

Clean(e) == Present(e) /\ e \notin torn \cup mixed

Agrees(e) == label[e] # NoLabel => draft[e] = label[e].category

\* Of an email that no two wrote about, a sync that writes is alone, and its
\* verdict is the label.
SyncInv(s, e) ==
    SyncWrites(s, e) /\ Clean(e) =>
        /\ \A r \in Syncs : SyncWrites(r, e) => r = s
        /\ \A p \in People : ~PersonWrites(p, e)
        /\ spc[s] \in {"lookup", "draft"} => verdict[s] = label[e].category
        /\ spc[s] = "review" => draft[e] = label[e].category

\* Likewise a person, whose choice is the label once it is corrected.
PersonInv(p, e) ==
    PersonWrites(p, e) /\ Clean(e) =>
        /\ \A s \in Syncs : ~SyncWrites(s, e)
        /\ \A q \in People : PersonWrites(q, e) => q = p
        /\ ppc[p] = "label" => Agrees(e)
        /\ ppc[p] = "redraft" =>
              IF relabel[p] THEN label[e].category = choice[p]
              ELSE label[e] = NoLabel

\* An override is of one email, and corrects a label only if it found one.
OverrideInv(p) ==
    /\ ppc[p] \in Overriding => \A e, f \in picked[p] : e = f
    /\ ppc[p] = "label" => relabel[p]

\* What a reclassify has read of the emails it holds is still so.
ResetInv(p) ==
    \A e \in picked[p] \ moved[p] :
        /\ ppc[p] \in {"replies", "reset"} => label[e].source = "fallback"
        /\ ppc[p] = "reset" => reply[e] # "created"

\* ReviewIsComplete and DraftFollowsLabel, of one email.
Written(e) == label[e] # NoLabel /\ lookup[e] /\ draft[e] # None
Reviewed(e) == state[e] = "needs_review" /\ e \notin torn => Written(e)
Follows(e) == e \notin torn \cup mixed /\ ~BeingWritten(e) => Agrees(e)

EmailInv(e) ==
    /\ HeldInv(e) /\ AbsentInv(e) /\ Reviewed(e) /\ Follows(e)
    /\ \A s \in Syncs : ReviewInv(s, e) /\ SyncInv(s, e)
    /\ \A p \in People : PersonInv(p, e)

Decided ==
    /\ \A e \in Emails : EmailInv(e)
    /\ \A p \in People : OverrideInv(p) /\ ResetInv(p)

IInv == TypeOK /\ Decided

(***************************************************************************)
(* Type correctness.                                                       *)
(***************************************************************************)

USE EmailsAssumption, CategoriesAssumption

\* The oldest of some emails is one of them.
LEMMA MinIn ==
    ASSUME NEW S, S \subseteq Nat, S # {}
    PROVE  Min(S) \in S
<1> DEFINE Less == {ss \in Nat \X Nat : ss[1] < ss[2]}
<1>1. IsWellFoundedOn(Less, Nat)
    BY NatLessThanWellFounded DEF OpToRel
<1>2. \E x \in S : \A y \in S : <<y, x>> \notin Less
  <2> HIDE DEF Less
  <2> QED
    BY <1>1, WFMin
<1>3. \A x, y \in Nat : <<y, x>> \notin Less => x =< y
  <2> SUFFICES ASSUME NEW x \in Nat, NEW y \in Nat, y < x
               PROVE  <<y, x>> \in Less
    OBVIOUS
  <2>1. <<y, x>> \in Nat \X Nat
    OBVIOUS
  <2>2. <<y, x>>[1] < <<y, x>>[2]
    OBVIOUS
  <2> QED
    BY <2>1, <2>2
<1>4. QED
    BY <1>2, <1>3 DEF Min

\* TypeOK, by the variables' groups.
QueueOK ==
    /\ connected \subseteq Mailboxes /\ arrived \subseteq Emails
    /\ state \in [Emails -> States]
    /\ label \in [Emails -> Label \cup {NoLabel}]
    /\ lookup \in [Emails -> BOOLEAN]
    /\ draft \in [Emails -> Categories \cup {None}]
    /\ reply \in [Emails -> {None, "pending", "created", "failed"}]
    /\ mark \in [Emails -> SUBSET {"drafted", "draft_failed"}]
SyncsOK ==
    /\ spc \in [Syncs -> {"idle"} \cup Ingesting \cup Triaging]
    /\ todo \in [Syncs -> SUBSET Mailboxes]
    /\ fresh \in [Syncs -> SUBSET Emails]
    /\ batch \in [Syncs -> SUBSET Emails]
    /\ verdict \in [Syncs -> Categories]
    /\ limited \in [Syncs -> BOOLEAN]
    /\ \A s \in Syncs : spc[s] \in Triaging => batch[s] # {}
PeopleOK ==
    /\ ppc \in [People -> {"idle"} \cup Reclassifying \cup Overriding]
    /\ picked \in [People -> SUBSET Emails]
    /\ choice \in [People -> Categories]
    /\ relabel \in [People -> BOOLEAN]
HistoryOK ==
    /\ moved \in [People -> SUBSET Emails]
    /\ torn \subseteq Emails /\ mixed \subseteq Emails

LEMMA TypeParts == TypeOK <=> QueueOK /\ SyncsOK /\ PeopleOK /\ HistoryOK
BY DEF TypeOK, QueueOK, SyncsOK, PeopleOK, HistoryOK

LEMMA TypeWhole == QueueOK' /\ SyncsOK' /\ PeopleOK' /\ HistoryOK' => TypeOK'
BY DEF TypeOK, QueueOK, SyncsOK, PeopleOK, HistoryOK

LEMMA QueueKept == QueueOK /\ UNCHANGED queue => QueueOK'
BY DEF QueueOK, queue
LEMMA SyncsKept == SyncsOK /\ UNCHANGED syncVars => SyncsOK'
BY DEF SyncsOK, syncVars
LEMMA PeopleKept == PeopleOK /\ UNCHANGED peopleVars => PeopleOK'
BY DEF PeopleOK, peopleVars
LEMMA HistoryKept == HistoryOK /\ UNCHANGED history => HistoryOK'
BY DEF HistoryOK, history

LEMMA TrackTypes ==
    ASSUME TypeOK, NEW ended, Track(ended)
    PROVE  moved' \in [People -> SUBSET Emails]
BY DEF TypeOK, Track, Changed

LEMMA MixesTypes ==
    ASSUME TypeOK, NEW E \in SUBSET Emails, Mixes(E)
    PROVE  mixed' \subseteq Emails
BY DEF TypeOK, Mixes

LEMMA EndedTypes ==
    ASSUME TypeOK, NEW s \in Syncs, Ended(s)
    PROVE  SyncsOK'
BY DEF TypeOK, SyncsOK, Ended, Ingesting, Triaging

LEMMA NextTypes ==
    ASSUME TypeOK, NEW s \in Syncs, spc[s] \in Triaging, NEW slow \in BOOLEAN,
           NextInBatch(s, slow)
    PROVE  SyncsOK'
<1>1. CASE batch[s] = {InHand(s)}
    BY <1>1, EndedTypes DEF NextInBatch
<1>2. CASE batch[s] # {InHand(s)}
  <2>1. batch[s] \ {InHand(s)} # {} /\ batch[s] \ {InHand(s)} \subseteq Emails
    BY <1>2 DEF TypeOK
  <2>2. batch' = [batch EXCEPT ![s] = batch[s] \ {InHand(s)}]
    BY <1>2 DEF NextInBatch
  <2>3. /\ spc' = [spc EXCEPT ![s] = "classify"]
        /\ verdict' = [verdict EXCEPT ![s] = OutOfScope]
        /\ limited' = [limited EXCEPT ![s] = slow]
        /\ UNCHANGED <<todo, fresh>>
    BY <1>2 DEF NextInBatch
  <2> QED
    BY <2>1, <2>2, <2>3 DEF TypeOK, SyncsOK, Triaging, Ingesting
<1> QED
    BY <1>1, <1>2

LEMMA DoneTypes ==
    ASSUME TypeOK, NEW p \in People, Done(p)
    PROVE  PeopleOK'
BY DEF TypeOK, PeopleOK, Done

LEMMA HandType ==
    ASSUME TypeOK, NEW s \in Syncs, spc[s] \in Triaging
    PROVE  InHand(s) \in batch[s] /\ InHand(s) \in Emails
BY MinIn DEF TypeOK, InHand

LEMMA TypeInit == Init => TypeOK
BY DEF Init, TypeOK, States, Label, Ingesting, Triaging, Reclassifying, Overriding

LEMMA SyncTypes ==
    ASSUME TypeOK, NEW s \in Syncs, SyncBegin(s) \/ Continue(s) \/ SyncDies(s)
    PROVE  TypeOK'
<1> USE DEF Ingesting, Triaging
<1>q. QueueOK /\ SyncsOK /\ PeopleOK /\ HistoryOK
    BY TypeParts
<1>1. CASE SyncBegin(s)
  <2>1. SyncsOK'
    BY <1>1, <1>q DEF SyncBegin, SyncsOK, QueueOK
  <2> QED
    BY <1>1, <1>q, <2>1, QueueKept, PeopleKept, HistoryKept, TypeWhole
       DEF SyncBegin
<1>2. ASSUME NEW m \in Mailboxes, ListMailbox(s, m) PROVE TypeOK'
  <2>1. Listed(m) \subseteq Emails
    BY <1>q DEF Listed, Newest, QueueOK
  <2>2. SyncsOK'
    BY <1>2, <1>q, <2>1 DEF ListMailbox, SyncsOK
  <2> QED
    BY <1>2, <1>q, <2>2, QueueKept, PeopleKept, HistoryKept, TypeWhole
       DEF ListMailbox
<1>3. CASE Fetch(s)
  <2>1. SyncsOK'
    BY <1>3, <1>q DEF Fetch, SyncsOK
  <2>2. state' \in [Emails -> States]
    BY <1>3, <1>q DEF Fetch, QueueOK, States
  <2>3. QueueOK'
    BY <1>3, <1>q, <2>2 DEF Fetch, QueueOK
  <2>4. HistoryOK'
    BY <1>3, <1>q, TrackTypes DEF Fetch, HistoryOK
  <2> QED
    BY <1>3, <1>q, <2>1, <2>3, <2>4, PeopleKept, TypeWhole DEF Fetch
<1>4. CASE ListPending(s)
  <2> DEFINE waiting == Oldest(BatchLimit, {e \in Emails : state[e] = "received"})
  <2>1. waiting \subseteq Emails
    BY DEF Oldest
  <2>2. waiting = {} => Ended(s)
    BY <1>4 DEF ListPending
  <2>3. ASSUME waiting # {} PROVE SyncsOK'
    <3>1. /\ batch' = [batch EXCEPT ![s] = waiting]
          /\ spc' = [spc EXCEPT ![s] = "classify"]
          /\ UNCHANGED <<todo, fresh, verdict, limited>>
      BY <1>4, <2>3 DEF ListPending
    <3> HIDE DEF waiting
    <3>2. batch' \in [Syncs -> SUBSET Emails] /\ batch'[s] # {}
      BY <1>q, <2>1, <2>3, <3>1 DEF SyncsOK
    <3>3. \A r \in Syncs : r # s => batch'[r] = batch[r] /\ spc'[r] = spc[r]
      BY <1>q, <3>1 DEF SyncsOK
    <3> QED
      BY <1>q, <3>1, <3>2, <3>3 DEF SyncsOK
  <2>4. SyncsOK'
    BY <2>2, <2>3, EndedTypes
  <2>5. UNCHANGED <<queue, peopleVars, history>>
    BY <1>4 DEF ListPending
  <2> QED
    BY <1>q, <2>4, <2>5, QueueKept, PeopleKept, HistoryKept, TypeWhole
<1>5. CASE Classify(s)
  <2>0. spc[s] = "classify" /\ InHand(s) \in Emails
    BY <1>5, HandType DEF Classify
  <2>1. PICK l \in Label :
            /\ label' = [label EXCEPT ![InHand(s)] = l]
            /\ verdict' = [verdict EXCEPT ![s] = l.category]
            /\ \E slow \in {FALSE, l.source = "fallback" /\ batch[s] # {InHand(s)}} :
                  limited' = [limited EXCEPT ![s] = slow]
    BY <1>5 DEF Classify
  <2>2. QueueOK'
    BY <1>5, <1>q, <2>1 DEF Classify, QueueOK
  <2>3. l.category \in Categories
    BY DEF Label
  <2>4. limited' \in [Syncs -> BOOLEAN]
    BY <1>q, <2>1 DEF SyncsOK
  <2>5. SyncsOK'
    BY <1>5, <1>q, <2>0, <2>1, <2>3, <2>4 DEF Classify, SyncsOK
  <2>6. HistoryOK'
    BY <1>5, <1>q, <2>0, TrackTypes, MixesTypes DEF Classify, Starts, HistoryOK
  <2> QED
    BY <1>5, <1>q, <2>2, <2>5, <2>6, PeopleKept, TypeWhole DEF Classify
<1>6. CASE StopLimited(s)
  <2>1. SyncsOK' /\ UNCHANGED <<queue, peopleVars, history>>
    BY <1>6, EndedTypes DEF StopLimited
  <2> QED
    BY <1>q, <2>1, QueueKept, PeopleKept, HistoryKept, TypeWhole
<1>7. CASE AddLookup(s)
  <2>1. QueueOK'
    BY <1>7, <1>q DEF AddLookup, QueueOK
  <2>2. SyncsOK'
    BY <1>7, <1>q DEF AddLookup, SyncsOK
  <2> QED
    BY <1>7, <1>q, <2>1, <2>2, PeopleKept, HistoryKept, TypeWhole DEF AddLookup
<1>8. CASE AddDraft(s)
  <2>1. QueueOK'
    BY <1>8, <1>q DEF AddDraft, QueueOK, SyncsOK
  <2>2. SyncsOK'
    BY <1>8, <1>q DEF AddDraft, SyncsOK
  <2> QED
    BY <1>8, <1>q, <2>1, <2>2, PeopleKept, HistoryKept, TypeWhole DEF AddDraft
<1>9. CASE SetReview(s)
  <2>1. QueueOK'
    BY <1>9, <1>q DEF SetReview, SetState, QueueOK, States
  <2>2. spc[s] \in Triaging /\ limited[s] \in BOOLEAN /\ NextInBatch(s, limited[s])
    BY <1>9, <1>q DEF SetReview, SyncsOK
  <2>3. SyncsOK'
    BY <2>2, NextTypes
  <2>4. HistoryOK'
    BY <1>9, <1>q, TrackTypes DEF SetReview, HistoryOK
  <2> QED
    BY <1>9, <1>q, <2>1, <2>3, <2>4, PeopleKept, TypeWhole DEF SetReview
<1>10. CASE TriageRaises(s)
  <2>1. spc[s] \in Triaging /\ InHand(s) \in Emails
    BY <1>10, HandType DEF TriageRaises
  <2>2. PICK slow \in {limited[s], limited[s] \/ spc[s] = "classify"} :
            NextInBatch(s, slow)
    BY <1>10 DEF TriageRaises
  <2>3. slow \in BOOLEAN
    BY <1>q DEF SyncsOK
  <2>4. SyncsOK'
    BY <2>1, <2>2, <2>3, NextTypes
  <2>5. Mixes({f \in {InHand(s)} : SyncWrites(s, f)})
        /\ UNCHANGED <<queue, peopleVars, torn, moved>>
    BY <1>10 DEF TriageRaises
  <2>6. HistoryOK'
    BY <1>q, <2>1, <2>5, MixesTypes DEF HistoryOK
  <2> QED
    BY <1>q, <2>4, <2>5, <2>6, QueueKept, PeopleKept, TypeWhole
<1>11. CASE TriageAborts(s)
  <2>1. SyncsOK' /\ UNCHANGED <<queue, peopleVars, history>>
    BY <1>11, EndedTypes DEF TriageAborts
  <2> QED
    BY <1>q, <2>1, QueueKept, PeopleKept, HistoryKept, TypeWhole
<1>12. CASE SyncDies(s)
  <2>1. SyncsOK' /\ UNCHANGED <<queue, peopleVars, torn, moved>>
        /\ Mixes({e \in Emails : SyncWrites(s, e)})
    BY <1>12, EndedTypes DEF SyncDies
  <2>2. HistoryOK'
    BY <1>q, <2>1, MixesTypes DEF HistoryOK
  <2> QED
    BY <1>q, <2>1, <2>2, QueueKept, PeopleKept, TypeWhole
<1> QED
    BY <1>1, <1>2, <1>3, <1>4, <1>5, <1>6, <1>7, <1>8, <1>9, <1>10, <1>11, <1>12
       DEF Continue


LEMMA NarrowTypes ==
    ASSUME TypeOK, NEW p \in People, NEW E \in SUBSET Emails,
           NEW next \in Reclassifying, Narrow(p, E, next)
    PROVE  TypeOK'
<1>q. QueueOK /\ SyncsOK /\ PeopleOK /\ HistoryOK
    BY TypeParts
<1>1. UNCHANGED <<queue, syncVars, torn, mixed>>
    BY DEF Narrow
<1>2. CASE E = {}
  <2>1. Done(p) /\ Track({p})
    BY <1>2 DEF Narrow
  <2>2. PeopleOK'
    BY <2>1, DoneTypes
  <2>3. HistoryOK'
    BY <1>q, <1>1, <2>1, TrackTypes DEF HistoryOK
  <2> QED
    BY <1>q, <1>1, <2>2, <2>3, QueueKept, SyncsKept, TypeWhole
<1>3. CASE E # {}
  <2>1. /\ picked' = [picked EXCEPT ![p] = E]
        /\ ppc' = [ppc EXCEPT ![p] = next]
        /\ UNCHANGED <<choice, relabel, moved>>
    BY <1>3 DEF Narrow
  <2>2. PeopleOK' /\ HistoryOK'
    BY <1>q, <1>1, <2>1 DEF PeopleOK, HistoryOK
  <2> QED
    BY <1>q, <1>1, <2>2, QueueKept, SyncsKept, TypeWhole
<1> QED
    BY <1>2, <1>3

LEMMA PersonTypes ==
    ASSUME TypeOK, NEW p \in People, PersonActs(p)
    PROVE  TypeOK'
<1>q. QueueOK /\ SyncsOK /\ PeopleOK /\ HistoryOK
    BY TypeParts
<1>1. ASSUME NEW e \in Emails, NEW c \in Categories, OverrideBegin(p, e, c)
      PROVE  TypeOK'
  <2>1. PeopleOK'
    BY <1>1, <1>q DEF OverrideBegin, PeopleOK, Overriding, Reclassifying
  <2>2. HistoryOK'
    BY <1>1, <1>q, MixesTypes DEF OverrideBegin, Starts, HistoryOK
  <2> QED
    BY <1>1, <1>q, <2>1, <2>2, QueueKept, SyncsKept, TypeWhole DEF OverrideBegin
<1>2. CASE OverrideLabel(p)
  <2>0. PICK e \in picked[p] :
            /\ \/ /\ label' = [label EXCEPT ![e] = [source |-> "human",
                                                    category |-> choice[p]]]
                  /\ ppc' = [ppc EXCEPT ![p] = "redraft"]
                  /\ UNCHANGED <<picked, choice, relabel>>
               \/ Done(p) /\ UNCHANGED label
            /\ UNCHANGED <<connected, arrived, state, lookup, draft, reply, mark,
                           syncVars, torn, mixed>>
            /\ Track({})
    BY <1>2 DEF OverrideLabel
  <2>1. [source |-> "human", category |-> choice[p]] \in Label
    BY <1>q DEF PeopleOK, Label
  <2>2. label' \in [Emails -> Label \cup {NoLabel}]
    BY <1>q, <2>0, <2>1 DEF QueueOK
  <2>3. QueueOK'
    BY <1>q, <2>0, <2>2 DEF QueueOK
  <2>4. PeopleOK'
    BY <1>q, <2>0, DoneTypes DEF PeopleOK, Overriding
  <2>5. HistoryOK'
    BY <1>q, <2>0, TrackTypes DEF HistoryOK
  <2> QED
    BY <1>q, <2>0, <2>3, <2>4, <2>5, SyncsKept, TypeWhole
<1>3. CASE OverrideDraft(p)
  <2>1. QueueOK'
    BY <1>3, <1>q DEF OverrideDraft, QueueOK, PeopleOK
  <2>2. PeopleOK' /\ UNCHANGED <<syncVars, history>>
    BY <1>3, DoneTypes DEF OverrideDraft
  <2> QED
    BY <1>q, <2>1, <2>2, SyncsKept, HistoryKept, TypeWhole
<1>4. CASE ListStates(p)
  <2>1. {e \in Emails : state[e] \in {"needs_review", "draft_failed"}} \subseteq Emails
    OBVIOUS
  <2> QED
    BY <1>4, <2>1, NarrowTypes DEF ListStates, Reclassifying
<1>5. CASE ReadLabels(p)
  <2>1. {e \in picked[p] : label[e].source = "fallback"} \subseteq Emails
    BY <1>q DEF PeopleOK
  <2> QED
    BY <1>5, <2>1, NarrowTypes DEF ReadLabels, Reclassifying
<1>6. CASE ReadReplies(p)
  <2>1. {e \in picked[p] : reply[e] # "created"} \subseteq Emails
    BY <1>q DEF PeopleOK
  <2> QED
    BY <1>6, <2>1, NarrowTypes DEF ReadReplies, Reclassifying
<1>7. CASE Reset(p)
  <2> DEFINE E == {e \in picked[p] : Present(e)}
  <2>0. /\ label' = [e \in Emails |-> IF e \in E THEN NoLabel ELSE label[e]]
        /\ lookup' = [e \in Emails |-> lookup[e] /\ e \notin E]
        /\ draft' = [e \in Emails |-> IF e \in E THEN None ELSE draft[e]]
        /\ state' = [e \in Emails |-> IF e \in E THEN "received" ELSE state[e]]
        /\ torn' = (torn \ E) \cup {e \in E : BeingWritten(e)}
        /\ mixed' = mixed \ E
        /\ Done(p)
        /\ UNCHANGED <<connected, arrived, reply, mark, syncVars>>
        /\ Track({p})
    BY <1>7 DEF Reset
  <2>1. E \subseteq Emails
    BY <1>q DEF PeopleOK
  <2> HIDE DEF E
  <2>2. QueueOK'
    BY <1>q, <2>0 DEF QueueOK, States
  <2>3. PeopleOK'
    BY <2>0, DoneTypes
  <2>4. HistoryOK'
    BY <1>q, <2>0, <2>1, TrackTypes DEF HistoryOK
  <2> QED
    BY <1>q, <2>0, <2>2, <2>3, <2>4, SyncsKept, TypeWhole
<1>8. CASE PersonDies(p)
  <2>1. PeopleOK' /\ UNCHANGED <<queue, syncVars, torn>> /\ Track({p})
    BY <1>8, DoneTypes DEF PersonDies
  <2>2. mixed' \subseteq Emails
    BY <1>8, <1>q DEF PersonDies, Mixes, PeopleOK, HistoryOK
  <2>3. HistoryOK'
    BY <1>q, <2>1, <2>2, TrackTypes DEF HistoryOK
  <2> QED
    BY <1>q, <2>1, <2>3, QueueKept, SyncsKept, TypeWhole
<1> QED
    BY <1>1, <1>2, <1>3, <1>4, <1>5, <1>6, <1>7, <1>8 DEF PersonActs

LEMMA RequestTypes ==
    ASSUME TypeOK, PeopleAct
    PROVE  TypeOK'
<1>q. QueueOK /\ SyncsOK /\ PeopleOK /\ HistoryOK
    BY TypeParts
<1>1. ASSUME NEW e \in Emails,
             Dismiss(e) \/ TakeReply(e) \/ SettleReply(e) \/ MarkReply(e)
      PROVE  TypeOK'
  <2>1. UNCHANGED <<syncVars, peopleVars, torn, mixed>> /\ Track({})
    BY <1>1 DEF Dismiss, TakeReply, SettleReply, MarkReply
  <2>2. QueueOK'
    <3>1. CASE Dismiss(e)
      BY <1>q, <3>1 DEF Dismiss, SetState, QueueOK, States
    <3>2. CASE TakeReply(e)
      BY <1>q, <3>2 DEF TakeReply, QueueOK
    <3>3. CASE SettleReply(e)
      BY <1>q, <3>3 DEF SettleReply, QueueOK
    <3>4. CASE MarkReply(e)
      BY <1>q, <3>4 DEF MarkReply, SetState, QueueOK, States
    <3> QED
      BY <1>1, <3>1, <3>2, <3>3, <3>4
  <2>3. HistoryOK'
    BY <1>q, <2>1, TrackTypes DEF HistoryOK
  <2> QED
    BY <1>q, <2>1, <2>2, <2>3, SyncsKept, PeopleKept, TypeWhole
<1>2. ASSUME NEW m \in Mailboxes, RemoveMailbox(m) PROVE TypeOK'
  <2>1. UNCHANGED <<syncVars, peopleVars>> /\ Track({})
    BY <1>2 DEF RemoveMailbox
  <2>2. QueueOK'
    BY <1>q, <1>2 DEF RemoveMailbox, QueueOK, States
  <2>3. HistoryOK'
    BY <1>q, <1>2, TrackTypes DEF RemoveMailbox, HistoryOK
  <2> QED
    BY <1>q, <2>1, <2>2, <2>3, SyncsKept, PeopleKept, TypeWhole
<1> QED
    BY <1>1, <1>2 DEF PeopleAct

LEMMA TypeStep == TypeOK /\ [Next]_vars => TypeOK'
<1> SUFFICES ASSUME TypeOK, [Next]_vars PROVE TypeOK'
    OBVIOUS
<1>q. QueueOK /\ SyncsOK /\ PeopleOK /\ HistoryOK
    BY TypeParts
<1>1. ASSUME NEW e \in Emails, Arrive(e) PROVE TypeOK'
    BY <1>1, <1>q, SyncsKept, PeopleKept, HistoryKept, TypeWhole
       DEF Arrive, QueueOK
<1>2. CASE UNCHANGED vars
    BY <1>2, <1>q, QueueKept, SyncsKept, PeopleKept, HistoryKept, TypeWhole DEF vars
<1> QED
    BY <1>1, <1>2, SyncTypes, PersonTypes, RequestTypes DEF Next


(***************************************************************************)
(* What a step does to one email.                                          *)
(***************************************************************************)

\* A step that writes nothing about e: writers of e may stop, none begins.
Leaves(e) ==
    /\ label'[e] = label[e] /\ draft'[e] = draft[e] /\ lookup'[e] = lookup[e]
    /\ Present(e)' = Present(e) /\ connected' \subseteq connected
    /\ state'[e] = "needs_review" =>
          state[e] = "needs_review" \/ e \in torn \/ Written(e)
    /\ e \in torn => e \in torn'
    /\ e \in mixed => e \in mixed'
    /\ \A s \in Syncs : SyncWrites(s, e)' =>
          SyncWrites(s, e) /\ spc'[s] = spc[s] /\ verdict'[s] = verdict[s]
    /\ \A p \in People : PersonWrites(p, e)' =>
          /\ PersonWrites(p, e) /\ ppc'[p] = ppc[p]
          /\ choice'[p] = choice[p] /\ relabel'[p] = relabel[p]
    /\ BeingWritten(e) /\ ~BeingWritten(e)' =>
          e \in torn' \cup mixed' \/ Agrees(e)

LEMMA Frame ==
    ASSUME NEW e \in Emails, EmailInv(e), Leaves(e)
    PROVE  EmailInv(e)'
<1>1. (BeingWritten(e))' => BeingWritten(e)
    BY DEF Leaves, BeingWritten
<1>2. HeldInv(e)'
    BY <1>1 DEF Leaves, EmailInv, HeldInv
<1>3. AbsentInv(e)' /\ Reviewed(e)'
    BY DEF Leaves, EmailInv, AbsentInv, Reviewed, Written
<1>4. Agrees(e)' = Agrees(e)
    BY DEF Leaves, Agrees
<1>5. Follows(e)'
    BY <1>4 DEF Leaves, EmailInv, Follows
<1>6. ASSUME NEW s \in Syncs PROVE ReviewInv(s, e)'
    BY DEF Leaves, EmailInv, ReviewInv
<1>7. Clean(e)' => Clean(e)
    BY DEF Leaves, Clean
<1>8. ASSUME NEW s \in Syncs PROVE SyncInv(s, e)'
    BY <1>7 DEF Leaves, EmailInv, SyncInv
<1>9. ASSUME NEW p \in People PROVE PersonInv(p, e)'
    BY <1>4, <1>7 DEF Leaves, EmailInv, PersonInv
<1> QED
    BY <1>2, <1>3, <1>5, <1>6, <1>8, <1>9 DEF EmailInv

\* Nobody's writing changes.
LEMMA SameWriters ==
    ASSUME NEW e, UNCHANGED <<syncVars, peopleVars>>
    PROVE  /\ \A s \in Syncs : SyncWrites(s, e)' = SyncWrites(s, e)
           /\ \A p \in People : PersonWrites(p, e)' = PersonWrites(p, e)
           /\ BeingWritten(e)' = BeingWritten(e)
BY DEF syncVars, peopleVars, SyncWrites, PersonWrites, BeingWritten, InHand

\* Only sync s moves, and it does not write afterwards.
LEMMA SyncStops ==
    ASSUME NEW s \in Syncs, NEW e, UNCHANGED peopleVars,
           spc'[s] \notin Writing,
           \A r \in Syncs : r # s =>
              spc'[r] = spc[r] /\ batch'[r] = batch[r] /\ verdict'[r] = verdict[r]
    PROVE  /\ \A r \in Syncs : SyncWrites(r, e)' =>
                 SyncWrites(r, e) /\ spc'[r] = spc[r] /\ verdict'[r] = verdict[r]
           /\ \A r \in Syncs : r # s => SyncWrites(r, e)' = SyncWrites(r, e)
           /\ ~SyncWrites(s, e)'
           /\ \A p \in People : PersonWrites(p, e)' = PersonWrites(p, e)
           /\ BeingWritten(e) /\ ~BeingWritten(e)' => SyncWrites(s, e)
<1>1. ~SyncWrites(s, e)'
    BY DEF SyncWrites, Writing
<1>2. \A r \in Syncs : r # s => SyncWrites(r, e)' = SyncWrites(r, e)
    BY DEF SyncWrites, InHand
<1>3. \A p \in People : PersonWrites(p, e)' = PersonWrites(p, e)
    BY DEF PersonWrites, peopleVars
<1> QED
    BY <1>1, <1>2, <1>3 DEF BeingWritten

LEMMA EndedMoves ==
    ASSUME TypeOK, NEW s \in Syncs, Ended(s)
    PROVE  /\ spc'[s] = "idle"
           /\ \A r \in Syncs : r # s =>
                 spc'[r] = spc[r] /\ batch'[r] = batch[r] /\ verdict'[r] = verdict[r]
BY DEF TypeOK, Ended

LEMMA NextMoves ==
    ASSUME TypeOK, NEW s \in Syncs, NEW slow, NextInBatch(s, slow)
    PROVE  /\ spc'[s] \in {"idle", "classify"}
           /\ \A r \in Syncs : r # s =>
                 spc'[r] = spc[r] /\ batch'[r] = batch[r] /\ verdict'[r] = verdict[r]
<1>1. CASE Ended(s)
    BY <1>1, EndedMoves
<1>2. CASE ~Ended(s)
    BY <1>2 DEF TypeOK, NextInBatch
<1> QED
    BY <1>1, <1>2

\* Only sync s moves, within the email in hand.
LEMMA SyncWritesOn ==
    ASSUME NEW s \in Syncs, NEW e, UNCHANGED <<batch, peopleVars>>,
           \A r \in Syncs : r # s => spc'[r] = spc[r] /\ verdict'[r] = verdict[r]
    PROVE  /\ \A r \in Syncs : r # s => SyncWrites(r, e)' = SyncWrites(r, e)
           /\ SyncWrites(s, e)' <=> spc'[s] \in Writing /\ InHand(s) = e
           /\ \A p \in People : PersonWrites(p, e)' = PersonWrites(p, e)
BY DEF SyncWrites, PersonWrites, InHand, Writing, peopleVars

LEMMA ClassifyStep ==
    ASSUME TypeOK, NEW s \in Syncs, NEW e \in Emails, EmailInv(e), Classify(s)
    PROVE  EmailInv(e)'
<1>1. /\ spc[s] = "classify" /\ Present(InHand(s)) /\ spc'[s] = "lookup"
      /\ \A r \in Syncs : r # s => spc'[r] = spc[r] /\ verdict'[r] = verdict[r]
      /\ UNCHANGED <<connected, state, lookup, draft, batch, peopleVars, torn>>
    BY DEF Classify, TypeOK
<1>2. PICK l \in Label : /\ label' = [label EXCEPT ![InHand(s)] = l]
                         /\ verdict' = [verdict EXCEPT ![s] = l.category]
    BY DEF Classify
<1>3. mixed' = mixed \cup ({f \in {InHand(s)} : BeingWritten(f)} \ torn)
    BY DEF Classify, Starts, Mixes
<1>4. ~SyncWrites(s, e)
    BY <1>1 DEF SyncWrites
<1>5. /\ \A r \in Syncs : r # s => SyncWrites(r, e)' = SyncWrites(r, e)
      /\ SyncWrites(s, e)' <=> InHand(s) = e
      /\ \A p \in People : PersonWrites(p, e)' = PersonWrites(p, e)
    BY <1>1, SyncWritesOn DEF Writing
<1>6. CASE InHand(s) # e
  <2>1. BeingWritten(e)' = BeingWritten(e)
    BY <1>4, <1>5, <1>6 DEF BeingWritten
  <2>2. label'[e] = label[e]
    BY <1>2, <1>6 DEF TypeOK
  <2>3. Leaves(e)
    BY <1>1, <1>3, <1>4, <1>5, <1>6, <2>1, <2>2 DEF Leaves, Present, peopleVars
  <2> QED
    BY <2>3, Frame
<1>7. CASE InHand(s) = e
  <2>1. label'[e] = l /\ l # NoLabel /\ verdict'[s] = l.category
    BY <1>2, <1>7 DEF TypeOK, Label, NoLabel, None
  <2>2. Present(e)'
    BY <1>1, <1>7 DEF Present
  <2>3. BeingWritten(e)'
    BY <1>5, <1>7 DEF BeingWritten
  <2>4. Clean(e)' => ~BeingWritten(e)
    BY <1>1, <1>3, <1>7 DEF Clean
  <2>5. HeldInv(e)' /\ AbsentInv(e)' /\ Follows(e)'
    BY <2>2, <2>3 DEF HeldInv, AbsentInv, Follows
  <2>6. Reviewed(e)'
    BY <1>1, <2>1 DEF Reviewed, Written, EmailInv
  <2>7. ASSUME NEW r \in Syncs PROVE ReviewInv(r, e)' /\ SyncInv(r, e)'
    <3>1. CASE r = s
      BY <1>1, <1>5, <1>7, <2>1, <2>4, <3>1 DEF ReviewInv, SyncInv, BeingWritten
    <3>2. CASE r # s
      <4>1. ReviewInv(r, e)'
        BY <1>1, <1>5, <2>1, <3>2 DEF ReviewInv, EmailInv, Present
      <4>2. SyncInv(r, e)'
        BY <1>5, <2>4, <3>2 DEF SyncInv, BeingWritten
      <4> QED
        BY <4>1, <4>2
    <3> QED
      BY <3>1, <3>2
  <2>8. ASSUME NEW p \in People PROVE PersonInv(p, e)'
    BY <1>5, <2>4 DEF PersonInv, BeingWritten
  <2> QED
    BY <2>5, <2>6, <2>7, <2>8 DEF EmailInv
<1> QED
    BY <1>6, <1>7

LEMMA LookupStep ==
    ASSUME TypeOK, NEW s \in Syncs, NEW e \in Emails, EmailInv(e), AddLookup(s)
    PROVE  EmailInv(e)'
<1>1. /\ spc[s] = "lookup" /\ spc'[s] = "draft"
      /\ \A r \in Syncs : r # s => spc'[r] = spc[r]
      /\ UNCHANGED <<connected, state, label, draft, batch, verdict, peopleVars,
                     torn, mixed>>
      /\ InHand(s) = e => lookup'[e]
      /\ lookup[e] => lookup'[e]
      /\ InHand(s) # e => lookup'[e] = lookup[e]
    BY DEF AddLookup, TypeOK, history
<1>2. /\ \A r \in Syncs : SyncWrites(r, e)' = SyncWrites(r, e)
      /\ \A p \in People : PersonWrites(p, e)' = PersonWrites(p, e)
    BY <1>1, SyncWritesOn DEF SyncWrites, Writing
<1>3. BeingWritten(e)' = BeingWritten(e)
    BY <1>2 DEF BeingWritten
<1>4. HeldInv(e)' /\ AbsentInv(e)' /\ Reviewed(e)' /\ Follows(e)'
    BY <1>1, <1>3
       DEF EmailInv, HeldInv, AbsentInv, Reviewed, Written, Follows, Agrees,
           Present
<1>5. ASSUME NEW r \in Syncs PROVE ReviewInv(r, e)'
  <2>1. CASE r = s
    BY <1>1, <1>2, <2>1 DEF EmailInv, ReviewInv, Present, SyncWrites
  <2>2. CASE r # s
    BY <1>1, <1>2, <2>2 DEF EmailInv, ReviewInv, Present
  <2> QED
    BY <2>1, <2>2
<1>6. ASSUME NEW r \in Syncs PROVE SyncInv(r, e)'
  <2>1. Clean(e)' = Clean(e)
    BY <1>1 DEF Clean, Present
  <2>2. CASE r = s
    BY <1>1, <1>2, <2>1, <2>2 DEF EmailInv, SyncInv
  <2>3. CASE r # s
    BY <1>1, <1>2, <2>1, <2>3 DEF EmailInv, SyncInv
  <2> QED
    BY <2>2, <2>3
<1>7. ASSUME NEW p \in People PROVE PersonInv(p, e)'
    BY <1>1, <1>2 DEF EmailInv, PersonInv, Clean, Present, Agrees, peopleVars
<1> QED
    BY <1>4, <1>5, <1>6, <1>7 DEF EmailInv

LEMMA DraftStep ==
    ASSUME TypeOK, NEW s \in Syncs, NEW e \in Emails, EmailInv(e), AddDraft(s)
    PROVE  EmailInv(e)'
<1>1. /\ spc[s] = "draft" /\ spc'[s] = "review" /\ Present(InHand(s))
      /\ \A r \in Syncs : r # s => spc'[r] = spc[r] /\ verdict'[r] = verdict[r]
      /\ UNCHANGED <<connected, state, label, lookup, batch, peopleVars,
                     torn, mixed>>
      /\ InHand(s) = e => draft'[e] = verdict[s]
      /\ InHand(s) # e => draft'[e] = draft[e]
    BY DEF AddDraft, TypeOK, history
<1>2. /\ \A r \in Syncs : SyncWrites(r, e)' = SyncWrites(r, e)
      /\ \A p \in People : PersonWrites(p, e)' = PersonWrites(p, e)
    BY <1>1, SyncWritesOn DEF SyncWrites, Writing
<1>3. BeingWritten(e)' = BeingWritten(e)
    BY <1>2 DEF BeingWritten
<1>4. verdict[s] # None
    BY DEF TypeOK
<1>5. SyncWrites(s, e) <=> InHand(s) = e
    BY <1>1 DEF SyncWrites
<1>6. draft[e] # None => draft'[e] # None
    BY <1>1, <1>4
<1>7. HeldInv(e)' /\ AbsentInv(e)' /\ Reviewed(e)'
    BY <1>1, <1>3, <1>6 DEF EmailInv, HeldInv, AbsentInv, Reviewed, Written, Present
<1>8. Follows(e)'
  <2>1. CASE InHand(s) = e
    BY <1>3, <1>5, <2>1 DEF Follows, BeingWritten
  <2>2. CASE InHand(s) # e
    BY <1>1, <1>3, <2>2 DEF EmailInv, Follows, Agrees
  <2> QED
    BY <2>1, <2>2
<1>9. Clean(e)' = Clean(e)
    BY <1>1 DEF Clean, Present
<1>10. ASSUME NEW r \in Syncs PROVE ReviewInv(r, e)' /\ SyncInv(r, e)'
  <2>1. CASE r = s
    <3>1. ReviewInv(s, e)'
      BY <1>1, <1>2, <1>4, <1>5 DEF EmailInv, ReviewInv, Present
    <3>2. SyncInv(s, e)'
      BY <1>1, <1>2, <1>5, <1>9 DEF EmailInv, SyncInv
    <3> QED
      BY <2>1, <3>1, <3>2
  <2>2. CASE r # s
    <3>1. ReviewInv(r, e)'
      BY <1>1, <1>2, <1>6, <2>2 DEF EmailInv, ReviewInv, Present
    <3>2. SyncInv(r, e)'
      <4>1. CASE InHand(s) = e
        BY <1>2, <1>5, <1>9, <2>2, <4>1 DEF EmailInv, SyncInv
      <4>2. CASE InHand(s) # e
        BY <1>1, <1>2, <1>9, <2>2, <4>2 DEF EmailInv, SyncInv
      <4> QED
        BY <4>1, <4>2
    <3> QED
      BY <3>1, <3>2
  <2> QED
    BY <2>1, <2>2
<1>11. ASSUME NEW p \in People PROVE PersonInv(p, e)'
  <2>1. CASE InHand(s) = e
    BY <1>2, <1>5, <1>9, <2>1 DEF EmailInv, PersonInv
  <2>2. CASE InHand(s) # e
    BY <1>1, <1>2, <1>9, <2>2 DEF EmailInv, PersonInv, Agrees, peopleVars
  <2> QED
    BY <2>1, <2>2
<1> QED
    BY <1>7, <1>8, <1>10, <1>11 DEF EmailInv

\* The state is set last: what it says is there.
LEMMA SetReviewStep ==
    ASSUME TypeOK, NEW s \in Syncs, NEW e \in Emails, EmailInv(e), SetReview(s)
    PROVE  EmailInv(e)'
<1>1. /\ spc[s] = "review" /\ SetState(InHand(s), "needs_review")
      /\ NextInBatch(s, limited[s])
      /\ UNCHANGED <<connected, label, lookup, draft, peopleVars, torn, mixed>>
    BY DEF SetReview
<1>2. Present(e)' = Present(e)
    BY <1>1 DEF SetState, Present, TypeOK
<1>3. SyncWrites(s, e) <=> InHand(s) = e
    BY <1>1 DEF SyncWrites
<1>4. spc'[s] \notin Writing
    BY <1>1, NextMoves DEF Writing
<1>5. SyncWrites(s, e) => e \in torn \cup mixed \/ Agrees(e)
    BY <1>1 DEF EmailInv, SyncInv, AbsentInv, Clean, Agrees
<1>6. SyncWrites(s, e) /\ Present(e) /\ e \notin torn => Written(e)
    BY <1>1 DEF EmailInv, ReviewInv, Written
<1>7. state'[e] = "needs_review" =>
          state[e] = "needs_review" \/ e \in torn \/ Written(e)
    BY <1>1, <1>3, <1>6 DEF SetState, TypeOK
<1>8. Leaves(e)
    BY <1>1, <1>2, <1>4, <1>5, <1>7, NextMoves, SyncStops DEF Leaves, peopleVars
<1> QED
    BY <1>8, Frame

\* What a sync writes about somebody else's email is nothing.
LEMMA SyncStep ==
    ASSUME TypeOK, NEW s \in Syncs, NEW e \in Emails, EmailInv(e),
           SyncBegin(s) \/ Continue(s) \/ SyncDies(s)
    PROVE  EmailInv(e)'
<1>1. CASE SyncBegin(s)
  <2>1. /\ spc'[s] = "list"
        /\ \A r \in Syncs : r # s =>
              spc'[r] = spc[r] /\ batch'[r] = batch[r] /\ verdict'[r] = verdict[r]
    BY <1>1 DEF SyncBegin, TypeOK
  <2>2. UNCHANGED <<queue, peopleVars, history>> /\ spc[s] = "idle"
    BY <1>1 DEF SyncBegin
  <2>3. ~SyncWrites(s, e)
    BY <2>2 DEF SyncWrites
  <2>4. Leaves(e)
    BY <2>1, <2>2, <2>3, SyncStops
       DEF Leaves, queue, peopleVars, history, Present, Writing
  <2> QED
    BY <2>4, Frame
<1>2. ASSUME NEW m \in Mailboxes, ListMailbox(s, m) PROVE EmailInv(e)'
  <2>1. /\ spc'[s] \in {"list", "fetch"}
        /\ \A r \in Syncs : r # s =>
              spc'[r] = spc[r] /\ batch'[r] = batch[r] /\ verdict'[r] = verdict[r]
    BY <1>2 DEF ListMailbox, TypeOK
  <2>2. UNCHANGED <<queue, peopleVars, history>> /\ spc[s] = "list"
    BY <1>2 DEF ListMailbox
  <2>3. ~SyncWrites(s, e)
    BY <2>2 DEF SyncWrites
  <2>4. Leaves(e)
    BY <2>1, <2>2, <2>3, SyncStops
       DEF Leaves, queue, peopleVars, history, Present, Writing
  <2> QED
    BY <2>4, Frame


<1>3. CASE Fetch(s)
  <2>1. /\ spc'[s] \in {"list", "fetch"}
        /\ \A r \in Syncs : r # s =>
              spc'[r] = spc[r] /\ batch'[r] = batch[r] /\ verdict'[r] = verdict[r]
    BY <1>3 DEF Fetch, TypeOK
  <2>2. UNCHANGED <<connected, label, lookup, draft, peopleVars, torn, mixed>>
        /\ spc[s] = "fetch"
    BY <1>3 DEF Fetch
  <2>3. ~SyncWrites(s, e)
    BY <2>2 DEF SyncWrites
  <2>4. CASE state'[e] = state[e]
    <3>1. Leaves(e)
      BY <2>1, <2>2, <2>3, <2>4, SyncStops DEF Leaves, peopleVars, Present, Writing
    <3> QED
      BY <3>1, Frame
  <2>5. CASE state'[e] # state[e]
    <3>1. ~Present(e) /\ MailboxOf[e] \in connected
          /\ state'[e] \in {"suppressed", "received"}
      BY <1>3, <2>5 DEF Fetch, TypeOK
    <3>2. ~BeingWritten(e)
      BY <3>1 DEF EmailInv, HeldInv
    <3>3. /\ ~BeingWritten(e)'
          /\ \A r \in Syncs : ~SyncWrites(r, e)'
          /\ \A p \in People : ~PersonWrites(p, e)'
      BY <2>1, <2>2, <3>2, SyncStops DEF BeingWritten, Writing
    <3>4. label'[e] = NoLabel
      BY <2>2, <3>1 DEF EmailInv, AbsentInv
    <3>5. HeldInv(e)' /\ AbsentInv(e)' /\ Reviewed(e)' /\ Follows(e)'
      BY <3>1, <3>3, <3>4 DEF HeldInv, AbsentInv, Reviewed, Written, Follows, Agrees,
           Present
    <3>6. \A r \in Syncs : ReviewInv(r, e)' /\ SyncInv(r, e)'
      BY <3>3 DEF ReviewInv, SyncInv
    <3>7. \A p \in People : PersonInv(p, e)'
      BY <3>3 DEF PersonInv
    <3> QED
      BY <3>5, <3>6, <3>7 DEF EmailInv
  <2> QED
    BY <2>4, <2>5
<1>4. CASE ListPending(s)
  <2>1. /\ spc'[s] \in {"idle", "classify"}
        /\ \A r \in Syncs : r # s =>
              spc'[r] = spc[r] /\ batch'[r] = batch[r] /\ verdict'[r] = verdict[r]
    <3>1. CASE Ended(s)
      BY <3>1, EndedMoves
    <3>2. CASE ~Ended(s)
      BY <1>4, <3>2 DEF ListPending, TypeOK
    <3> QED
      BY <3>1, <3>2
  <2>2. UNCHANGED <<queue, peopleVars, history>> /\ spc[s] = "list"
    BY <1>4 DEF ListPending
  <2>3. ~SyncWrites(s, e)
    BY <2>2 DEF SyncWrites
  <2>4. Leaves(e)
    BY <2>1, <2>2, <2>3, SyncStops
       DEF Leaves, queue, peopleVars, history, Present, Writing
  <2> QED
    BY <2>4, Frame
<1>5. CASE Classify(s)
    BY <1>5, ClassifyStep
<1>6. CASE StopLimited(s)
  <2>1. spc[s] = "classify" /\ Ended(s) /\ UNCHANGED <<queue, peopleVars, history>>
    BY <1>6 DEF StopLimited, Stopped
  <2>2. ~SyncWrites(s, e)
    BY <2>1 DEF SyncWrites
  <2>3. Leaves(e)
    BY <2>1, <2>2, EndedMoves, SyncStops
       DEF Leaves, queue, peopleVars, history, Present, Writing
  <2> QED
    BY <2>3, Frame
<1>7. CASE AddLookup(s)
    BY <1>7, LookupStep
<1>8. CASE AddDraft(s)
    BY <1>8, DraftStep
<1>9. CASE SetReview(s)
    BY <1>9, SetReviewStep
<1>10. CASE TriageRaises(s)
  <2>1. UNCHANGED <<queue, peopleVars, torn>> /\ \E slow : NextInBatch(s, slow)
    BY <1>10 DEF TriageRaises
  <2>2. mixed \subseteq mixed' /\ (SyncWrites(s, e) => e \in mixed' \cup torn')
    BY <1>10, <2>1 DEF TriageRaises, Mixes, SyncWrites
  <2>3. Leaves(e)
    BY <2>1, <2>2, NextMoves, SyncStops
       DEF Leaves, queue, peopleVars, Present, Writing
  <2> QED
    BY <2>3, Frame
<1>11. CASE TriageAborts(s)
  <2>1. Ended(s) /\ ~Present(InHand(s)) /\ UNCHANGED <<queue, peopleVars, history>>
    BY <1>11 DEF TriageAborts
  <2>2. SyncWrites(s, e) => Agrees(e)
    BY <2>1 DEF SyncWrites, EmailInv, AbsentInv, Agrees
  <2>3. Leaves(e)
    BY <2>1, <2>2, EndedMoves, SyncStops
       DEF Leaves, queue, peopleVars, history, Present, Writing
  <2> QED
    BY <2>3, Frame
<1>12. CASE SyncDies(s)
  <2>1. Ended(s) /\ UNCHANGED <<queue, peopleVars, torn>>
    BY <1>12 DEF SyncDies
  <2>2. mixed \subseteq mixed' /\ (SyncWrites(s, e) => e \in mixed' \cup torn')
    BY <1>12, <2>1 DEF SyncDies, Mixes
  <2>3. Leaves(e)
    BY <2>1, <2>2, EndedMoves, SyncStops
       DEF Leaves, queue, peopleVars, Present, Writing
  <2> QED
    BY <2>3, Frame
<1> QED
    BY <1>1, <1>2, <1>3, <1>4, <1>5, <1>6, <1>7, <1>8, <1>9, <1>10, <1>11, <1>12
       DEF Continue


\* Only person p moves.
LEMMA PersonMoves ==
    ASSUME NEW p \in People, NEW e, UNCHANGED syncVars,
           \A q \in People : q # p =>
              /\ ppc'[q] = ppc[q] /\ picked'[q] = picked[q]
              /\ choice'[q] = choice[q] /\ relabel'[q] = relabel[q]
    PROVE  /\ \A s \in Syncs : SyncWrites(s, e)' = SyncWrites(s, e)
           /\ \A q \in People : q # p => PersonWrites(q, e)' = PersonWrites(q, e)
           /\ BeingWritten(e)' /\ ~BeingWritten(e) => PersonWrites(p, e)'
           /\ BeingWritten(e) /\ ~BeingWritten(e)' => PersonWrites(p, e)
<1>1. \A s \in Syncs : SyncWrites(s, e)' = SyncWrites(s, e)
    BY DEF syncVars, SyncWrites, InHand
<1>2. \A q \in People : q # p => PersonWrites(q, e)' = PersonWrites(q, e)
    BY DEF PersonWrites
<1> QED
    BY <1>1, <1>2 DEF BeingWritten

LEMMA DoneMoves ==
    ASSUME TypeOK, NEW p \in People, Done(p)
    PROVE  /\ ppc'[p] = "idle" /\ picked'[p] = {}
           /\ \A q \in People : q # p =>
                 /\ ppc'[q] = ppc[q] /\ picked'[q] = picked[q]
                 /\ choice'[q] = choice[q] /\ relabel'[q] = relabel[q]
BY DEF TypeOK, Done

LEMMA OverrideBeginStep ==
    ASSUME TypeOK, NEW p \in People, NEW e \in Emails, EmailInv(e),
           NEW f \in Emails, NEW c \in Categories, OverrideBegin(p, f, c)
    PROVE  EmailInv(e)'
<1>1. /\ ppc[p] = "idle" /\ Present(f)
      /\ picked'[p] = {f} /\ choice'[p] = c
      /\ relabel'[p] = (label[f] # NoLabel)
      /\ ppc'[p] = IF label[f] # NoLabel THEN "label" ELSE "redraft"
      /\ \A q \in People : q # p =>
            /\ ppc'[q] = ppc[q] /\ picked'[q] = picked[q]
            /\ choice'[q] = choice[q] /\ relabel'[q] = relabel[q]
      /\ mixed' = mixed \cup ({g \in {f} : BeingWritten(g)} \ torn)
      /\ UNCHANGED <<queue, syncVars, torn>>
    BY DEF OverrideBegin, Starts, Mixes, TypeOK
<1>2. ~PersonWrites(p, e)
    BY <1>1 DEF PersonWrites, Overriding
<1>3. PersonWrites(p, e)' <=> e = f
    BY <1>1 DEF PersonWrites, Overriding
<1>4. /\ \A s \in Syncs : SyncWrites(s, e)' = SyncWrites(s, e)
      /\ \A q \in People : q # p => PersonWrites(q, e)' = PersonWrites(q, e)
      /\ BeingWritten(e)' /\ ~BeingWritten(e) => PersonWrites(p, e)'
      /\ BeingWritten(e) => BeingWritten(e)'
    BY <1>1, <1>2, PersonMoves
<1>5. /\ UNCHANGED <<connected, state, label, lookup, draft>>
      /\ UNCHANGED <<spc, verdict>>
    BY <1>1 DEF queue, syncVars
<1>6. CASE e # f
  <2>1. Leaves(e)
    BY <1>1, <1>2, <1>3, <1>4, <1>5, <1>6 DEF Leaves, Present
  <2> QED
    BY <2>1, Frame
<1>7. CASE e = f
  <2>1. Clean(e)' => ~BeingWritten(e) /\ e \notin mixed \cup torn
    BY <1>1, <1>7 DEF Clean
  <2>2. BeingWritten(e)' /\ Present(e)' /\ Present(e)
    BY <1>1, <1>3, <1>5, <1>7 DEF BeingWritten, Present
  <2>3. HeldInv(e)' /\ AbsentInv(e)' /\ Follows(e)'
    BY <2>2 DEF HeldInv, AbsentInv, Follows
  <2>4. Reviewed(e)'
    BY <1>1, <1>5 DEF EmailInv, Reviewed, Written
  <2>5. ASSUME NEW s \in Syncs PROVE ReviewInv(s, e)' /\ SyncInv(s, e)'
    <3>1. ReviewInv(s, e)'
      BY <1>1, <1>4, <1>5 DEF EmailInv, ReviewInv, Present
    <3>2. SyncInv(s, e)'
      BY <1>4, <2>1 DEF SyncInv, BeingWritten
    <3> QED
      BY <3>1, <3>2
  <2>6. ASSUME NEW q \in People PROVE PersonInv(q, e)'
    <3>1. CASE q = p
      <4>1. Clean(e)' => Agrees(e)
        BY <2>1 DEF EmailInv, Follows
      <4>2. Agrees(e)' = Agrees(e)
        BY <1>5 DEF Agrees
      <4>3. ppc'[p] = "redraft" => label'[e] = NoLabel /\ ~relabel'[p]
        BY <1>1, <1>5, <1>7
      <4> QED
        BY <1>4, <2>1, <3>1, <4>1, <4>2, <4>3 DEF PersonInv, BeingWritten
    <3>2. CASE q # p
      BY <1>4, <2>1, <3>2 DEF PersonInv, BeingWritten
    <3> QED
      BY <3>1, <3>2
  <2> QED
    BY <2>3, <2>4, <2>5, <2>6 DEF EmailInv
<1> QED
    BY <1>6, <1>7

LEMMA OverrideLabelStep ==
    ASSUME TypeOK, NEW p \in People, NEW e \in Emails, EmailInv(e),
           OverrideInv(p), OverrideLabel(p)
    PROVE  EmailInv(e)'
<1>1. PICK f \in picked[p] :
         /\ \/ /\ Present(f)
               /\ label' = [label EXCEPT ![f] = [source |-> "human",
                                                category |-> choice[p]]]
               /\ ppc' = [ppc EXCEPT ![p] = "redraft"]
               /\ UNCHANGED <<picked, choice, relabel>>
            \/ ~Present(f) /\ Done(p) /\ UNCHANGED label
         /\ UNCHANGED <<connected, state, lookup, draft, syncVars, torn, mixed>>
    BY DEF OverrideLabel
<1>2. ppc[p] = "label" /\ relabel[p] /\ \A g \in picked[p] : g = f
    BY <1>1 DEF OverrideLabel, OverrideInv, Overriding
<1>3. \A q \in People : q # p =>
         /\ ppc'[q] = ppc[q] /\ picked'[q] = picked[q]
         /\ choice'[q] = choice[q] /\ relabel'[q] = relabel[q]
    BY <1>1, DoneMoves DEF TypeOK
<1>4. PersonWrites(p, e) <=> e = f
    BY <1>1, <1>2 DEF PersonWrites, Overriding
<1>5. /\ \A s \in Syncs : SyncWrites(s, e)' = SyncWrites(s, e)
      /\ \A q \in People : q # p => PersonWrites(q, e)' = PersonWrites(q, e)
      /\ BeingWritten(e)' /\ ~BeingWritten(e) => PersonWrites(p, e)'
      /\ BeingWritten(e) /\ ~BeingWritten(e)' => PersonWrites(p, e)
    BY <1>1, <1>3, PersonMoves
<1>6. UNCHANGED <<spc, verdict>>
    BY <1>1 DEF syncVars
<1>7. Clean(e)' = Clean(e)
    BY <1>1 DEF Clean, Present
<1>8. ASSUME ~Present(f), Done(p), UNCHANGED label PROVE EmailInv(e)'
  <2>1. ~PersonWrites(p, e)'
    BY <1>8, DoneMoves DEF PersonWrites
  <2>2. e = f => Agrees(e)
    BY <1>8 DEF EmailInv, AbsentInv, Agrees
  <2>3. Leaves(e)
    BY <1>1, <1>3, <1>4, <1>5, <1>6, <1>8, <2>1, <2>2 DEF Leaves, Present
  <2> QED
    BY <2>3, Frame
<1>9. ASSUME Present(f),
             label' = [label EXCEPT ![f] = [source |-> "human",
                                           category |-> choice[p]]],
             ppc' = [ppc EXCEPT ![p] = "redraft"],
             UNCHANGED <<picked, choice, relabel>>
      PROVE  EmailInv(e)'
  <2>1. ppc'[p] = "redraft" /\ (PersonWrites(p, e)' <=> e = f)
    BY <1>2, <1>9, <1>1 DEF PersonWrites, Overriding, TypeOK
  <2>2. CASE e # f
    <3>1. label'[e] = label[e]
      BY <1>9, <2>2 DEF TypeOK
    <3>2. Leaves(e)
      BY <1>1, <1>3, <1>4, <1>5, <1>6, <2>1, <2>2, <3>1 DEF Leaves, Present
    <3> QED
      BY <3>2, Frame
  <2>3. CASE e = f
    <3>1. label'[e].category = choice'[p] /\ label'[e] # NoLabel
      BY <1>9, <2>3 DEF TypeOK, NoLabel, None
    <3>2. BeingWritten(e)' /\ Present(e)' /\ Present(e)
      BY <1>1, <1>9, <2>1, <2>3 DEF BeingWritten, Present
    <3>3. HeldInv(e)' /\ AbsentInv(e)' /\ Follows(e)'
      BY <3>2 DEF HeldInv, AbsentInv, Follows
    <3>4. Reviewed(e)'
      BY <1>1, <3>1 DEF EmailInv, Reviewed, Written
    <3>5. ASSUME NEW s \in Syncs PROVE ReviewInv(s, e)' /\ SyncInv(s, e)'
      <4>1. ReviewInv(s, e)'
        BY <1>1, <1>5, <1>6, <3>1 DEF EmailInv, ReviewInv, Present
      <4>2. SyncInv(s, e)'
        BY <1>4, <1>5, <1>7, <2>3 DEF EmailInv, SyncInv, PersonInv
      <4> QED
        BY <4>1, <4>2
    <3>6. ASSUME NEW q \in People PROVE PersonInv(q, e)'
      <4>1. CASE q = p
        BY <1>2, <1>4, <1>5, <1>7, <1>9, <2>1, <2>3, <3>1, <4>1
           DEF EmailInv, PersonInv
      <4>2. CASE q # p
        BY <1>4, <1>5, <1>7, <2>3, <4>2 DEF EmailInv, PersonInv
      <4> QED
        BY <4>1, <4>2
    <3> QED
      BY <3>3, <3>4, <3>5, <3>6 DEF EmailInv
  <2> QED
    BY <2>2, <2>3
<1> QED
    BY <1>1, <1>8, <1>9

LEMMA OverrideDraftStep ==
    ASSUME TypeOK, NEW p \in People, NEW e \in Emails, EmailInv(e),
           OverrideInv(p), OverrideDraft(p)
    PROVE  EmailInv(e)'
<1>1. PICK f \in picked[p] :
         /\ draft' = IF Present(f) THEN [draft EXCEPT ![f] = choice[p]] ELSE draft
         /\ Done(p)
         /\ UNCHANGED <<connected, state, label, lookup, syncVars, torn, mixed>>
    BY DEF OverrideDraft, history
<1>2. ppc[p] = "redraft" /\ \A g \in picked[p] : g = f
    BY <1>1 DEF OverrideDraft, OverrideInv, Overriding
<1>3. PersonWrites(p, e) <=> e = f
    BY <1>1, <1>2 DEF PersonWrites, Overriding
<1>4. ~PersonWrites(p, e)' /\ \A q \in People : q # p =>
         /\ ppc'[q] = ppc[q] /\ picked'[q] = picked[q]
         /\ choice'[q] = choice[q] /\ relabel'[q] = relabel[q]
    BY <1>1, DoneMoves DEF PersonWrites
<1>5. /\ \A s \in Syncs : SyncWrites(s, e)' = SyncWrites(s, e)
      /\ \A q \in People : q # p => PersonWrites(q, e)' = PersonWrites(q, e)
      /\ BeingWritten(e)' => BeingWritten(e)
      /\ BeingWritten(e) /\ ~BeingWritten(e)' => PersonWrites(p, e)
    BY <1>1, <1>4, PersonMoves
<1>6. UNCHANGED <<spc, verdict>>
    BY <1>1 DEF syncVars
<1>7. CASE e # f \/ ~Present(f)
  <2>1. draft'[e] = draft[e]
    BY <1>1, <1>7 DEF TypeOK
  <2>2. e = f => Agrees(e)
    BY <1>7 DEF EmailInv, AbsentInv, Agrees
  <2>3. Leaves(e)
    BY <1>1, <1>3, <1>4, <1>5, <1>6, <2>1, <2>2 DEF Leaves, Present
  <2> QED
    BY <2>3, Frame
<1>8. CASE e = f /\ Present(e)
  <2>1. draft'[e] = choice[p] /\ draft'[e] # None
    BY <1>1, <1>8 DEF TypeOK
  <2>2. Clean(e)' = Clean(e) /\ Present(e)'
    BY <1>1, <1>8 DEF Clean, Present
  <2>3. Clean(e) => Agrees(e)'
    BY <1>1, <1>2, <1>3, <1>8, <2>1 DEF EmailInv, PersonInv, Agrees
  <2>4. HeldInv(e)' /\ AbsentInv(e)'
    BY <2>2 DEF HeldInv, AbsentInv
  <2>5. Follows(e)'
    BY <1>1, <1>8, <2>3 DEF Follows, Clean
  <2>6. Reviewed(e)'
    BY <1>1, <2>1 DEF EmailInv, Reviewed, Written
  <2>7. ASSUME NEW s \in Syncs PROVE ReviewInv(s, e)' /\ SyncInv(s, e)'
    <3>1. ReviewInv(s, e)'
      BY <1>1, <1>5, <1>6, <2>1 DEF EmailInv, ReviewInv, Present
    <3>2. SyncInv(s, e)'
      BY <1>3, <1>5, <1>8, <2>2 DEF EmailInv, SyncInv
    <3> QED
      BY <3>1, <3>2
  <2>8. ASSUME NEW q \in People PROVE PersonInv(q, e)'
    BY <1>3, <1>4, <1>5, <1>8, <2>2 DEF EmailInv, PersonInv
  <2> QED
    BY <2>4, <2>5, <2>6, <2>7, <2>8 DEF EmailInv
<1> QED
    BY <1>7, <1>8

\* A reset under a writer tears the email; under no writer it starts afresh.
LEMMA ResetStep ==
    ASSUME TypeOK, NEW p \in People, NEW e \in Emails, EmailInv(e), Reset(p)
    PROVE  EmailInv(e)'
<1> DEFINE E == {g \in picked[p] : Present(g)}
<1>1. /\ ppc[p] = "reset" /\ Done(p)
      /\ label' = [g \in Emails |-> IF g \in E THEN NoLabel ELSE label[g]]
      /\ lookup' = [g \in Emails |-> lookup[g] /\ g \notin E]
      /\ draft' = [g \in Emails |-> IF g \in E THEN None ELSE draft[g]]
      /\ state' = [g \in Emails |-> IF g \in E THEN "received" ELSE state[g]]
      /\ torn' = (torn \ E) \cup {g \in E : BeingWritten(g)}
      /\ mixed' = mixed \ E
      /\ UNCHANGED <<connected, syncVars>>
    BY DEF Reset
<1>2. ~PersonWrites(p, e)
    BY <1>1 DEF PersonWrites, Overriding
<1>3. ~PersonWrites(p, e)' /\ \A q \in People : q # p =>
         /\ ppc'[q] = ppc[q] /\ picked'[q] = picked[q]
         /\ choice'[q] = choice[q] /\ relabel'[q] = relabel[q]
    BY <1>1, DoneMoves DEF PersonWrites
<1>4. /\ \A s \in Syncs : SyncWrites(s, e)' = SyncWrites(s, e)
      /\ \A q \in People : q # p => PersonWrites(q, e)' = PersonWrites(q, e)
      /\ BeingWritten(e)' <=> BeingWritten(e)
    BY <1>1, <1>2, <1>3, PersonMoves
<1>5. UNCHANGED <<spc, verdict>>
    BY <1>1 DEF syncVars
<1>6. e \in E => Present(e)
    OBVIOUS
<1> HIDE DEF E
<1>7. CASE e \notin E
  <2>1. /\ label'[e] = label[e] /\ draft'[e] = draft[e] /\ state'[e] = state[e]
        /\ e \in torn => e \in torn'
        /\ e \in mixed => e \in mixed'
    BY <1>1, <1>7
  <2>2. lookup'[e] = lookup[e]
    BY <1>1, <1>7 DEF TypeOK
  <2>3. Leaves(e)
    BY <1>1, <1>2, <1>3, <1>4, <1>5, <2>1, <2>2 DEF Leaves, Present
  <2> QED
    BY <2>3, Frame
<1>8. CASE e \in E
  <2>1. /\ label'[e] = NoLabel /\ state'[e] = "received"
        /\ e \in torn' <=> BeingWritten(e)
    BY <1>1, <1>8
  <2>2. Present(e)' /\ (Clean(e)' => ~BeingWritten(e)')
    BY <1>4, <2>1 DEF Clean, Present
  <2>3. HeldInv(e)' /\ AbsentInv(e)' /\ Reviewed(e)' /\ Follows(e)'
    BY <2>1, <2>2 DEF HeldInv, AbsentInv, Reviewed, Follows, Agrees
  <2>4. ASSUME NEW s \in Syncs PROVE ReviewInv(s, e)' /\ SyncInv(s, e)'
    BY <1>4, <2>1, <2>2 DEF ReviewInv, SyncInv, BeingWritten
  <2>5. ASSUME NEW q \in People PROVE PersonInv(q, e)'
    BY <2>2 DEF PersonInv, BeingWritten
  <2> QED
    BY <2>3, <2>4, <2>5 DEF EmailInv
<1> QED
    BY <1>7, <1>8


LEMMA NarrowStep ==
    ASSUME TypeOK, NEW p \in People, NEW e \in Emails, EmailInv(e), NEW E, NEW next,
           ppc[p] \in {"idle"} \cup Reclassifying, next \in Reclassifying,
           Narrow(p, E, next)
    PROVE  EmailInv(e)'
<1>1. UNCHANGED <<queue, syncVars, torn, mixed>>
    BY DEF Narrow
<1>2. ppc'[p] \notin Overriding /\ \A q \in People : q # p =>
         /\ ppc'[q] = ppc[q] /\ picked'[q] = picked[q]
         /\ choice'[q] = choice[q] /\ relabel'[q] = relabel[q]
  <2>1. CASE Done(p)
    BY <2>1, DoneMoves DEF Overriding
  <2>2. CASE ~Done(p)
    BY <2>2 DEF Narrow, TypeOK, Overriding, Reclassifying
  <2> QED
    BY <2>1, <2>2
<1>3. ~PersonWrites(p, e) /\ ~PersonWrites(p, e)'
    BY <1>2 DEF PersonWrites, Overriding, Reclassifying
<1>4. /\ \A s \in Syncs : SyncWrites(s, e)' = SyncWrites(s, e)
      /\ \A q \in People : q # p => PersonWrites(q, e)' = PersonWrites(q, e)
      /\ BeingWritten(e) => BeingWritten(e)'
    BY <1>1, <1>2, <1>3, PersonMoves
<1>5. Leaves(e)
    BY <1>1, <1>2, <1>3, <1>4 DEF Leaves, Present, queue, syncVars
<1> QED
    BY <1>5, Frame

LEMMA PersonStep ==
    ASSUME TypeOK, NEW p \in People, NEW e \in Emails, EmailInv(e), OverrideInv(p),
           PersonActs(p)
    PROVE  EmailInv(e)'
<1>1. ASSUME NEW f \in Emails, NEW c \in Categories, OverrideBegin(p, f, c)
      PROVE  EmailInv(e)'
    BY <1>1, OverrideBeginStep
<1>2. CASE OverrideLabel(p)
    BY <1>2, OverrideLabelStep
<1>3. CASE OverrideDraft(p)
    BY <1>3, OverrideDraftStep
<1>4. CASE ListStates(p)
    BY <1>4, NarrowStep DEF ListStates, Reclassifying
<1>5. CASE ReadLabels(p)
    BY <1>5, NarrowStep DEF ReadLabels, Reclassifying
<1>6. CASE ReadReplies(p)
    BY <1>6, NarrowStep DEF ReadReplies, Reclassifying
<1>7. CASE Reset(p)
    BY <1>7, ResetStep
<1>8. CASE PersonDies(p)
  <2>1. /\ Done(p) /\ UNCHANGED <<queue, syncVars, torn>>
        /\ Mixes(IF ppc[p] = "redraft" /\ relabel[p] THEN picked[p] ELSE {})
    BY <1>8 DEF PersonDies
  <2>2. ~PersonWrites(p, e)' /\ \A q \in People : q # p =>
           /\ ppc'[q] = ppc[q] /\ picked'[q] = picked[q]
           /\ choice'[q] = choice[q] /\ relabel'[q] = relabel[q]
    BY <2>1, DoneMoves DEF PersonWrites
  <2>3. /\ \A s \in Syncs : SyncWrites(s, e)' = SyncWrites(s, e)
        /\ \A q \in People : q # p => PersonWrites(q, e)' = PersonWrites(q, e)
        /\ BeingWritten(e) /\ ~BeingWritten(e)' => PersonWrites(p, e)
    BY <2>1, <2>2, PersonMoves
  <2>4. /\ e \in mixed => e \in mixed'
        /\ ppc[p] = "redraft" /\ relabel[p] /\ e \in picked[p]
              => e \in mixed' \cup torn'
    BY <2>1 DEF Mixes
  <2>5. PersonWrites(p, e) => e \in torn' \cup mixed' \/ Agrees(e)
    BY <2>1, <2>4
       DEF EmailInv, PersonInv, AbsentInv, Clean, Agrees, PersonWrites, Overriding
  <2>6. Leaves(e)
    BY <2>1, <2>2, <2>3, <2>4, <2>5 DEF Leaves, Present, queue, syncVars
  <2> QED
    BY <2>6, Frame
<1> QED
    BY <1>1, <1>2, <1>3, <1>4, <1>5, <1>6, <1>7, <1>8 DEF PersonActs

LEMMA RequestStep ==
    ASSUME TypeOK, NEW e \in Emails, EmailInv(e), PeopleAct
    PROVE  EmailInv(e)'
<1>1. ASSUME NEW f \in Emails,
             Dismiss(f) \/ TakeReply(f) \/ SettleReply(f) \/ MarkReply(f)
      PROVE  EmailInv(e)'
  <2>1. UNCHANGED <<connected, label, lookup, draft, syncVars, peopleVars, torn,
                    mixed>>
    BY <1>1 DEF Dismiss, TakeReply, SettleReply, MarkReply
  <2>2. state'[e] # state[e] => Present(e) /\ state'[e] \notin {"absent", "needs_review"}
    BY <1>1 DEF Dismiss, TakeReply, SettleReply, MarkReply, SetState, TypeOK, Present
  <2>3. Leaves(e)
    BY <2>1, <2>2, SameWriters DEF Leaves, Present, syncVars, peopleVars
  <2> QED
    BY <2>3, Frame
<1>2. ASSUME NEW m \in Mailboxes, RemoveMailbox(m) PROVE EmailInv(e)'
  <2>1. /\ connected' = connected \ {m}
        /\ UNCHANGED <<syncVars, peopleVars>>
        /\ MailboxOf[e] # m =>
              /\ state'[e] = state[e] /\ label'[e] = label[e]
              /\ lookup'[e] = lookup[e] /\ draft'[e] = draft[e]
              /\ e \in torn => e \in torn'
              /\ e \in mixed => e \in mixed'
        /\ MailboxOf[e] = m =>
              /\ state'[e] = "absent" /\ label'[e] = NoLabel /\ draft'[e] = None
    BY <1>2 DEF RemoveMailbox, TypeOK
  <2>2. CASE MailboxOf[e] # m
    <3>1. Leaves(e)
      BY <2>1, <2>2, SameWriters DEF Leaves, Present, syncVars, peopleVars
    <3> QED
      BY <3>1, Frame
  <2>3. CASE MailboxOf[e] = m
    <3>1. ~Present(e)' /\ ~Clean(e)'
      BY <2>1, <2>3 DEF Present, Clean
    <3>2. HeldInv(e)' /\ AbsentInv(e)' /\ Reviewed(e)' /\ Follows(e)'
      BY <2>1, <2>3 DEF HeldInv, AbsentInv, Reviewed, Follows, Agrees
    <3>3. \A s \in Syncs : ReviewInv(s, e)' /\ SyncInv(s, e)'
      BY <3>1 DEF ReviewInv, SyncInv
    <3>4. \A p \in People : PersonInv(p, e)'
      BY <3>1 DEF PersonInv
    <3> QED
      BY <3>2, <3>3, <3>4 DEF EmailInv
  <2> QED
    BY <2>2, <2>3
<1> QED
    BY <1>1, <1>2 DEF PeopleAct

LEMMA EmailStep ==
    ASSUME IInv, [Next]_vars, NEW e \in Emails
    PROVE  EmailInv(e)'
<1>1. TypeOK /\ EmailInv(e) /\ \A p \in People : OverrideInv(p)
    BY DEF IInv, Decided
<1>2. ASSUME NEW f \in Emails, Arrive(f) PROVE EmailInv(e)'
  <2>1. UNCHANGED <<connected, state, label, lookup, draft, syncVars, peopleVars,
                    torn, mixed>>
    BY <1>2 DEF Arrive, history
  <2>2. Leaves(e)
    BY <2>1, SameWriters DEF Leaves, Present, syncVars, peopleVars
  <2> QED
    BY <1>1, <2>2, Frame
<1>3. CASE UNCHANGED vars
  <2>1. Leaves(e)
    BY <1>3, SameWriters
       DEF Leaves, Present, vars, queue, history, syncVars, peopleVars
  <2> QED
    BY <1>1, <2>1, Frame
<1> QED
    BY <1>1, <1>2, <1>3, SyncStep, PersonStep, RequestStep DEF Next

(***************************************************************************)
(* What a step does to one person's request.                               *)
(***************************************************************************)

\* A request that does not move keeps what it read, but for what is seen to move.
LEMMA Rereads ==
    ASSUME TypeOK, NEW p \in People, ResetInv(p),
           ppc'[p] = ppc[p], picked'[p] = picked[p],
           \/ UNCHANGED <<label, reply, moved>>
           \/ \E ended : Track(ended) /\ p \notin ended
    PROVE  ResetInv(p)'
<1>1. CASE UNCHANGED <<label, reply, moved>>
    BY <1>1 DEF ResetInv
<1>2. ASSUME NEW ended, Track(ended), p \notin ended PROVE ResetInv(p)'
  <2>1. CASE ppc[p] \in Reclassifying
    <3>1. moved'[p] = moved[p] \cup Changed
      BY <1>2, <2>1 DEF Track
    <3>2. \A e \in picked[p] \ moved'[p] :
              label'[e] = label[e] /\ reply'[e] = reply[e]
      BY <3>1 DEF Changed, TypeOK
    <3> QED
      BY <3>1, <3>2 DEF ResetInv
  <2>2. CASE ppc[p] \notin Reclassifying
    BY <2>2 DEF ResetInv, Reclassifying
  <2> QED
    BY <2>1, <2>2
<1> QED
    BY <1>1, <1>2

LEMMA OverrideKept ==
    ASSUME NEW p \in People, OverrideInv(p), ppc'[p] = ppc[p],
           picked'[p] = picked[p], relabel'[p] = relabel[p]
    PROVE  OverrideInv(p)'
BY DEF OverrideInv

\* A request that is over holds nothing.
LEMMA DoneInv ==
    ASSUME TypeOK, NEW p \in People, Done(p)
    PROVE  OverrideInv(p)' /\ ResetInv(p)'
BY DoneMoves DEF OverrideInv, ResetInv, Overriding

\* How a request that moves may move: of the others nothing changes.
LEMMA OwnRequest ==
    ASSUME IInv, NEW p \in People, PersonActs(p)
    PROVE  OverrideInv(p)' /\ ResetInv(p)'
<1>1. TypeOK /\ OverrideInv(p) /\ ResetInv(p)
    BY DEF IInv, Decided
<1>2. CASE Done(p)
    BY <1>1, <1>2, DoneInv
<1>3. ASSUME NEW e \in Emails, NEW c \in Categories, OverrideBegin(p, e, c)
      PROVE  OverrideInv(p)' /\ ResetInv(p)'
  <2>1. /\ picked'[p] = {e} /\ relabel'[p] = (label[e] # NoLabel)
        /\ ppc'[p] = IF label[e] # NoLabel THEN "label" ELSE "redraft"
    BY <1>1, <1>3 DEF OverrideBegin, TypeOK
  <2> QED
    BY <2>1 DEF OverrideInv, ResetInv
<1>4. ASSUME OverrideLabel(p), ~Done(p) PROVE OverrideInv(p)' /\ ResetInv(p)'
  <2>1. ppc[p] = "label" /\ ppc'[p] = "redraft" /\ picked'[p] = picked[p]
    BY <1>1, <1>4 DEF OverrideLabel, TypeOK
  <2> QED
    BY <1>1, <2>1 DEF OverrideInv, ResetInv, Overriding
<1>5. ASSUME ListStates(p), ~Done(p) PROVE OverrideInv(p)' /\ ResetInv(p)'
  <2>1. ppc'[p] = "labels"
    BY <1>1, <1>5 DEF ListStates, Narrow, TypeOK
  <2> QED
    BY <2>1 DEF OverrideInv, ResetInv, Overriding
<1>6. ASSUME ReadLabels(p), ~Done(p) PROVE OverrideInv(p)' /\ ResetInv(p)'
  <2>1. /\ ppc'[p] = "replies"
        /\ picked'[p] = {e \in picked[p] : label[e].source = "fallback"}
        /\ UNCHANGED label
    BY <1>1, <1>6 DEF ReadLabels, Narrow, TypeOK, queue
  <2> QED
    BY <2>1 DEF OverrideInv, ResetInv, Overriding
<1>7. ASSUME ReadReplies(p), ~Done(p) PROVE OverrideInv(p)' /\ ResetInv(p)'
  <2>1. /\ ppc[p] = "replies" /\ ppc'[p] = "reset"
        /\ picked'[p] = {e \in picked[p] : reply[e] # "created"}
        /\ UNCHANGED <<label, reply, moved>>
    BY <1>1, <1>7 DEF ReadReplies, Narrow, TypeOK, queue
  <2> QED
    BY <1>1, <2>1 DEF OverrideInv, ResetInv, Overriding
<1> QED
    BY <1>2, <1>3, <1>4, <1>5, <1>6, <1>7
       DEF PersonActs, OverrideDraft, Reset, PersonDies


\* What somebody else does is seen by a reclassify, if it matters to it.
Seen(p) ==
    /\ ppc'[p] = ppc[p] /\ picked'[p] = picked[p] /\ relabel'[p] = relabel[p]
    /\ \/ UNCHANGED <<label, reply, moved>>
       \/ \E ended : Track(ended) /\ p \notin ended

LEMMA SyncSeen ==
    ASSUME NEW p \in People, NEW s \in Syncs,
           SyncBegin(s) \/ Continue(s) \/ SyncDies(s)
    PROVE  Seen(p)
<1>1. UNCHANGED peopleVars
    BY DEF Continue, SyncBegin, SyncDies, ListMailbox, Fetch, ListPending, Classify,
           StopLimited, AddLookup, AddDraft, SetReview, TriageRaises, TriageAborts
<1>2. UNCHANGED <<label, reply, moved>> \/ Track({})
  <2>1. CASE SyncBegin(s)
    BY <2>1 DEF SyncBegin, queue, history
  <2>2. CASE SyncDies(s)
    BY <2>2 DEF SyncDies, queue
  <2>3. CASE Continue(s)
    BY <2>3 DEF Continue, ListMailbox, Fetch, ListPending, Classify, StopLimited,
                AddLookup, AddDraft, SetReview, TriageRaises, TriageAborts, queue,
                history
  <2> QED
    BY <2>1, <2>2, <2>3
<1> QED
    BY <1>1, <1>2 DEF Seen, peopleVars

LEMMA PersonSeen ==
    ASSUME TypeOK, NEW p \in People, NEW q \in People, p # q, PersonActs(q)
    PROVE  Seen(p)
<1>1. Done(q) => ppc'[p] = ppc[p] /\ picked'[p] = picked[p]
                 /\ relabel'[p] = relabel[p]
    BY DoneMoves
<1>2. ASSUME NEW E, NEW next, Narrow(q, E, next) PROVE Seen(p)
  <2>1. CASE E = {}
    BY <1>1, <1>2, <2>1 DEF Narrow, Seen
  <2>2. CASE E # {}
    BY <1>2, <2>2 DEF Narrow, Seen, TypeOK, queue
  <2> QED
    BY <2>1, <2>2
<1>3. ASSUME NEW e \in Emails, NEW c \in Categories, OverrideBegin(q, e, c)
      PROVE  Seen(p)
    BY <1>3 DEF OverrideBegin, Seen, TypeOK, queue
<1>4. CASE OverrideLabel(q)
    BY <1>1, <1>4 DEF OverrideLabel, Seen, TypeOK
<1>5. CASE OverrideDraft(q)
    BY <1>1, <1>5 DEF OverrideDraft, Seen, history
<1>6. CASE Reset(q) \/ PersonDies(q)
    BY <1>1, <1>6 DEF Reset, PersonDies, Seen
<1> QED
    BY <1>2, <1>3, <1>4, <1>5, <1>6 DEF PersonActs, ListStates, ReadLabels, ReadReplies

LEMMA PeopleStep ==
    ASSUME IInv, [Next]_vars, NEW p \in People
    PROVE  OverrideInv(p)' /\ ResetInv(p)'
<1>1. TypeOK /\ OverrideInv(p) /\ ResetInv(p)
    BY DEF IInv, Decided
<1>2. CASE PersonActs(p)
    BY <1>2, OwnRequest
<1>3. ASSUME NEW q \in People, q # p, PersonActs(q) PROVE Seen(p)
    BY <1>1, <1>3, PersonSeen
<1>4. Seen(p) => OverrideInv(p)' /\ ResetInv(p)'
    BY <1>1, OverrideKept, Rereads DEF Seen
<1>5. CASE PeopleAct
  <2>1. UNCHANGED peopleVars /\ Track({})
    BY <1>5 DEF PeopleAct, Dismiss, TakeReply, SettleReply, MarkReply, RemoveMailbox
  <2>2. Seen(p)
    BY <2>1 DEF Seen, peopleVars
  <2> QED
    BY <1>4, <2>2
<1>6. ASSUME NEW e \in Emails, Arrive(e) PROVE Seen(p)
    BY <1>6 DEF Arrive, Seen, peopleVars, history
<1>7. CASE UNCHANGED vars
  <2>1. Seen(p)
    BY <1>7 DEF vars, Seen, peopleVars, queue, history
  <2> QED
    BY <1>4, <2>1
<1> QED
    BY <1>2, <1>3, <1>4, <1>5, <1>6, <1>7, SyncSeen DEF Next

(***************************************************************************)
(* The theorems.                                                           *)
(***************************************************************************)

LEMMA InitInv == Init => IInv
<1> SUFFICES ASSUME Init PROVE IInv
    OBVIOUS
<1>1. TypeOK
    BY TypeInit
<1>2. ASSUME NEW e \in Emails PROVE EmailInv(e)
  <2>1. /\ state[e] = "absent" /\ label[e] = NoLabel /\ draft[e] = None
        /\ \A s \in Syncs : ~SyncWrites(s, e)
        /\ \A p \in People : ~PersonWrites(p, e)
    BY DEF Init, SyncWrites, PersonWrites, Overriding
  <2> QED
    BY <2>1 DEF EmailInv, HeldInv, AbsentInv, Reviewed, Follows, Agrees, ReviewInv,
                SyncInv, PersonInv, BeingWritten
<1>3. ASSUME NEW p \in People PROVE OverrideInv(p) /\ ResetInv(p)
    BY DEF Init, OverrideInv, ResetInv, Overriding
<1> QED
    BY <1>1, <1>2, <1>3 DEF IInv, Decided

LEMMA Invariance == Spec => []IInv
<1>1. IInv /\ [Next]_vars => IInv'
  <2> SUFFICES ASSUME IInv, [Next]_vars PROVE IInv'
    OBVIOUS
  <2>1. TypeOK'
    BY TypeStep DEF IInv
  <2>2. Decided'
    BY EmailStep, PeopleStep DEF Decided
  <2> QED
    BY <2>1, <2>2 DEF IInv
<1> QED
    BY InitInv, <1>1, PTL DEF Spec

\* Every variable keeps its type, and a sync that triages has an email in hand.
THEOREM TypeCorrect == Spec => []TypeOK
<1>1. IInv => TypeOK
    BY DEF IInv
<1> QED
    BY <1>1, Invariance, PTL

\* An email before a person is labelled, looked up and drafted, unless it was
\* reset under a writer (Pipeline.triage, EmailStore.reset_for_retriage).
THEOREM Complete == Spec => []ReviewIsComplete
<1>1. IInv => ReviewIsComplete
    BY DEF IInv, Decided, EmailInv, Reviewed, Written, ReviewIsComplete
<1> QED
    BY <1>1, Invariance, PTL

\* The draft shown is for the category shown, when nobody is writing and no two
\* wrote at once (Pipeline.triage, override_category).
THEOREM DraftFits == Spec => []DraftFollowsLabel
<1>1. IInv => DraftFollowsLabel
    BY DEF IInv, Decided, EmailInv, Follows, Agrees, DraftFollowsLabel
<1> QED
    BY <1>1, Invariance, PTL

\* A reclassify about to reset holds no email a person or the model decided, nor
\* one with a reply, unless it changed meanwhile (EmailStore.unclassified_ids).
THEOREM Spares == Spec => []ResetSparesDecided
<1>1. IInv => ResetSparesDecided
    BY DEF IInv, Decided, ResetInv, ResetSparesDecided
<1> QED
    BY <1>1, Invariance, PTL


================================================================================
