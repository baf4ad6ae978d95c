------------------------ MODULE TemplateVersionsProofs -------------------------
(***************************************************************************)
(* Proofs about TemplateVersions, for any categories, threads and number   *)
(* of saves.                                                               *)
(***************************************************************************)
EXTENDS TemplateVersions, TLAPS

(***************************************************************************)
(* The inductive invariant.                                                *)
(***************************************************************************)

\* The wording that the latest version of a category stands for.
Current(k) == IF versions[k] = <<>> THEN Shipped ELSE Last(versions[k])

\* A category whose last save had nothing in its way is being saved by nobody.
StraightInv(k) ==
    k \in straight => Saving(k) = {} /\ override[k] = Current(k)

\* What a call has in hand: a save that nothing overtook is its category's only
\* one, a template that nothing overtook is still the category's, and what has
\* its version names its wording.
CallInv(c) ==
    /\ call[c].pc \in {"saved", "numbering"} /\ call[c].alone =>
          LET k == call[c].category IN
          /\ Saving(k) = {c} /\ override[k] = call[c].words
          /\ call[c].pc = "numbering" => call[c].number = Len(versions[k]) + 1
    /\ call[c].pc = "templated" /\ call[c].said.sound =>
          /\ call[c].said.category \in straight
          /\ override[call[c].said.category] = call[c].said.words
    /\ call[c].pc \in {"drafting", "replying", "sending"} /\ call[c].said.sound =>
          NamesIn(versions, call[c].said)

HandInv ==
    /\ \A k \in Categories : StraightInv(k)
    /\ \A c \in Calls : CallInv(c)

IInv == TypeOK /\ HandInv /\ NamesItsWording

(***************************************************************************)
(* Type correctness.                                                       *)
(***************************************************************************)

USE MaxSavesAssumption

Saved == Wordings \ {Shipped}
CallType == {Idle} \cup SaveCall \cup SaidCall
Saves == {"saved", "numbering"}
Says == {"templated", "drafting", "replying", "sending"}

\* A call of each kind is known by where it is.
LEMMA Kinds ==
    ASSUME NEW l \in CallType
    PROVE  /\ l.pc \in {"idle"} \cup Saves \cup Says
           /\ l.pc = "idle" => l = Idle
           /\ l.pc \in Saves => l \in SaveCall
           /\ l.pc \in Says => l \in SaidCall
BY DEF CallType, Idle, SaveCall, SaidCall, Saves, Says

LEMMA CallTypes == TypeOK => \A c \in Calls : call[c] \in CallType
BY DEF TypeOK, CallType

LEMMA NothingSaid == Nothing \notin Said
BY DEF Nothing, Said

\* Whose wording and version a save and a draft have in hand.
LEMMA SaveFields ==
    ASSUME TypeOK, NEW c \in Calls, call[c].pc \in Saves
    PROVE  /\ call[c] \in SaveCall /\ call[c].category \in Categories
           /\ call[c].words \in Saved /\ call[c].alone \in BOOLEAN
           /\ call[c].number \in Nat
<1>1. call[c] \in SaveCall
    BY CallTypes, Kinds
<1>2. QED
    BY <1>1 DEF SaveCall, Saved

LEMMA SaidFields ==
    ASSUME TypeOK, NEW c \in Calls, call[c].pc \in Says
    PROVE  /\ call[c] \in SaidCall /\ call[c].said \in Said
           /\ call[c].said.category \in Categories
           /\ call[c].said.sound \in BOOLEAN
<1>1. call[c] \in SaidCall
    BY CallTypes, Kinds
<1>2. call[c].said \in Said
    BY <1>1 DEF SaidCall
<1>3. QED
    BY <1>1, <1>2 DEF Said

LEMMA TypeInit == Init => TypeOK
<1> SUFFICES ASSUME Init PROVE TypeOK
    OBVIOUS
<1>1. versions \in [Categories -> Seq(Wordings \ {Shipped})]
    <2>1. <<>> \in Seq(Wordings \ {Shipped})
        OBVIOUS
    <2>2. QED
        BY <2>1 DEF Init
<1>2. override \in [Categories -> Wordings] /\ saved \in 0..MaxSaves
    BY DEF Init, Wordings, Shipped
<1>3. draft \in Said \cup {Nothing}
    BY DEF Init
<1>4. /\ reply \in [status : {"none", "pending", "failed", "created"},
                    said : Said \cup {Nothing}, claimed : BOOLEAN]
      /\ reply.status = "none" <=> reply.said = Nothing
    BY DEF Init
<1>5. call \in [Calls -> {Idle} \cup SaveCall \cup SaidCall]
    BY DEF Init
<1>6. \A c \in Calls : call[c].pc = "idle"
    BY DEF Init, Idle
<1>7. QED
    BY <1>1, <1>2, <1>3, <1>4, <1>5, <1>6 DEF Init, TypeOK

\* The calls' part of TypeOK', in a step in which none goes on to send.
CallsOK ==
    /\ call' \in [Calls -> CallType]
    /\ \A d \in Calls : call'[d].pc = "sending" => call[d].pc = "sending"

LEMMA GotoTypes ==
    ASSUME TypeOK, NEW c \in Calls, NEW next \in CallType, Goto(c, next)
    PROVE  /\ call' \in [Calls -> CallType]
           /\ call'[c] = next
           /\ \A d \in Calls \ {c} : call'[d] = call[d]
           /\ next.pc # "sending" => CallsOK
BY DEF TypeOK, CallType, Goto, CallsOK

Overtaken(d, k) ==
    \/ call[d].pc = "templated" /\ call[d].said.category = k
    \/ call[d].pc \in Saves /\ call[d].category = k

\* What a save or a reset does to the other calls.
LEMMA OvertakeFacts ==
    ASSUME TypeOK, NEW c \in Calls, NEW k \in Categories,
           NEW next \in CallType, Overtake(c, k, next)
    PROVE  /\ call' \in [Calls -> CallType]
           /\ call'[c] = next
           /\ \A d \in Calls \ {c} :
                 /\ ~Overtaken(d, k) => call'[d] = call[d]
                 /\ Overtaken(d, k) =>
                       /\ call'[d].pc = call[d].pc
                       /\ call[d].pc \in Saves =>
                             call'[d].category = k /\ ~call'[d].alone
                       /\ call[d].pc = "templated" => ~call'[d].said.sound
<1>1. call'[c] = next
    BY DEF Overtake
<1>2. ASSUME NEW d \in Calls \ {c}, ~Overtaken(d, k)
      PROVE  call'[d] = call[d] /\ call'[d] \in CallType
    <2>1. call'[d] = call[d]
        BY <1>2 DEF Overtake, Overtaken, Saves
    <2>2. QED
        BY <2>1, CallTypes
<1>3. ASSUME NEW d \in Calls \ {c}, call[d].pc = "templated",
             call[d].said.category = k
      PROVE  /\ call'[d] \in CallType /\ call'[d].pc = call[d].pc
             /\ ~call'[d].said.sound
    <2> DEFINE said == [call[d].said EXCEPT !.sound = FALSE]
    <2>1. call[d] \in SaidCall /\ call[d].said \in Said
        BY <1>3, SaidFields DEF Says
    <2>2. call'[d] = [call[d] EXCEPT !.said = said]
        BY <1>3 DEF Overtake
    <2>3. said \in Said /\ ~said.sound
        BY <2>1 DEF Said
    <2> HIDE DEF said
    <2>4. call'[d] \in SaidCall /\ call'[d].pc = call[d].pc /\ call'[d].said = said
        BY <2>1, <2>2, <2>3 DEF SaidCall
    <2>5. QED
        BY <2>3, <2>4 DEF CallType
<1>4. ASSUME NEW d \in Calls \ {c}, call[d].pc \in Saves, call[d].category = k
      PROVE  /\ call'[d] \in CallType /\ call'[d].pc = call[d].pc
             /\ call'[d].category = k /\ ~call'[d].alone
    <2>1. call[d] \in SaveCall
        BY <1>4, SaveFields
    <2>2. call'[d] = [call[d] EXCEPT !.alone = FALSE]
        BY <1>4 DEF Overtake, Saves
    <2>3. QED
        BY <1>4, <2>1, <2>2 DEF SaveCall, CallType
<1>5. call' \in [Calls -> CallType]
    <2>1. \A d \in Calls : call'[d] \in CallType
        BY <1>1, <1>2, <1>3, <1>4 DEF Overtaken
    <2>2. QED
        BY <2>1 DEF Overtake
<1>6. QED
    BY <1>1, <1>2, <1>3, <1>4, <1>5 DEF Overtaken, Saves

\* The history of a category, with a wording or without.
LEMMA AddedTypes ==
    ASSUME NEW history \in Seq(Saved), NEW n \in Nat, NEW w \in Saved
    PROVE  /\ Added(history, n, w) \in Seq(Saved)
           /\ Added(history, n, w) = history \/ Added(history, n, w) = Append(history, w)
           /\ n = Len(history) + 1 => Added(history, n, w) = Append(history, w)
BY DEF Added

\* The calls that go on by themselves: what each has in hand next.
LEMMA GotoCalls ==
    ASSUME TypeOK, NEW c \in Calls
    PROVE  /\ Idle \in CallType /\ Idle.pc # "sending"
           /\ ReadLatest(c) => CallsOK
           /\ \A k \in Categories : ReadTemplate(c, k) => CallsOK
           /\ ReadVersion(c) => CallsOK
           /\ ReadDraft(c) \/ StartReply(c) => CallsOK
           /\ Reserve(c) \/ ClaimFailed(c) => call' \in [Calls -> CallType]
<1>1. Idle \in CallType /\ Idle.pc # "sending"
    BY DEF CallType, Idle
<1>2. ASSUME ReadLatest(c) PROVE CallsOK
    <2> DEFINE n == Len(versions[call[c].category]) + 1
               next == [call[c] EXCEPT !.pc = "numbering", !.number = n]
    <2>1. call[c] \in SaveCall /\ call[c].category \in Categories
        BY <1>2, SaveFields DEF ReadLatest, Saves
    <2>2. versions[call[c].category] \in Seq(Saved)
        BY <2>1 DEF TypeOK, Saved
    <2>3. n \in Nat
        BY <2>2
    <2> HIDE DEF n
    <2>4. next \in CallType /\ next.pc # "sending"
        BY <2>1, <2>3 DEF SaveCall, CallType
    <2>5. QED
        BY <1>2, <2>4, GotoTypes DEF ReadLatest, n
<1>3. ASSUME NEW k \in Categories, ReadTemplate(c, k)
      PROVE  CallsOK
    <2> DEFINE next == [pc |-> "templated",
                        said |-> [category |-> k, version |-> 0,
                                  words |-> override[k], sound |-> k \in straight]]
    <2>1. override[k] \in Wordings /\ (k \in straight) \in BOOLEAN
        BY DEF TypeOK
    <2>2. next \in CallType
        BY <2>1 DEF Said, SaidCall, CallType
    <2>3. QED
        BY <1>3, <2>2, GotoTypes DEF ReadTemplate
<1>4. ASSUME ReadVersion(c) PROVE CallsOK
    <2> DEFINE n == CurrentVersion(call[c].said.category)
               said == [call[c].said EXCEPT !.version = n]
    <2>1. call[c].said \in Said /\ call[c].said.category \in Categories
        BY <1>4, SaidFields DEF ReadVersion, Says
    <2>2. versions[call[c].said.category] \in Seq(Saved)
        BY <2>1 DEF TypeOK, Saved
    <2>3. n \in Nat
        BY <2>2 DEF CurrentVersion
    <2> HIDE DEF n
    <2>4. said \in Said
        BY <2>1, <2>3 DEF Said
    <2> HIDE DEF said
    <2>5. [pc |-> "drafting", said |-> said] \in CallType
        BY <2>4 DEF SaidCall, CallType
    <2>6. QED
        BY <1>4, <2>5, GotoTypes DEF ReadVersion, said, n
<1>5. ASSUME ReadDraft(c) \/ StartReply(c) PROVE CallsOK
    <2>1. draft \in Said
        BY <1>5 DEF ReadDraft, StartReply, TypeOK
    <2>2. /\ [pc |-> "drafting", said |-> draft] \in CallType
          /\ [pc |-> "replying", said |-> draft] \in CallType
        BY <2>1 DEF SaidCall, CallType
    <2>3. QED
        BY <1>5, <2>2, GotoTypes DEF ReadDraft, StartReply
<1>6. ASSUME Reserve(c) \/ ClaimFailed(c)
      PROVE  call' \in [Calls -> CallType]
    <2>1. call[c] \in SaidCall
        BY <1>6, SaidFields DEF Reserve, ClaimFailed, Says
    <2>2. [call[c] EXCEPT !.pc = "sending"] \in CallType
        BY <2>1 DEF SaidCall, CallType
    <2>3. QED
        BY <1>6, <2>2, GotoTypes DEF Reserve, ClaimFailed
<1>7. QED
    BY <1>1, <1>2, <1>3, <1>4, <1>5, <1>6

LEMMA TypeStep == TypeOK /\ [Next]_vars => TypeOK'
<1> SUFFICES ASSUME TypeOK, [Next]_vars PROVE TypeOK'
    OBVIOUS
<1>1. ASSUME NEW c \in Calls, NEW k \in Categories,
             SaveTemplate(c, k) \/ ResetTemplate(c, k)
      PROVE  TypeOK'
    <2>1. CASE SaveTemplate(c, k)
        <3> DEFINE next == [pc |-> "saved", category |-> k, words |-> saved + 1,
                            alone |-> Saving(k) = {}, number |-> 0]
        <3>1. saved \in 0..MaxSaves /\ saved < MaxSaves
            BY <2>1 DEF TypeOK, SaveTemplate
        <3>2. saved + 1 \in Saved /\ saved + 1 \in 0..MaxSaves
            BY <3>1 DEF Saved, Wordings, Shipped
        <3>3. (Saving(k) = {}) \in BOOLEAN
            OBVIOUS
        <3>4. next \in CallType
            BY <3>2, <3>3 DEF CallType, SaveCall, Saved
        <3>5. CallsOK
            BY <2>1, <3>4, OvertakeFacts DEF SaveTemplate, CallsOK
        <3>6. override' \in [Categories -> Wordings]
            BY <2>1, <3>2 DEF SaveTemplate, TypeOK, Saved
        <3>7. QED
            BY <2>1, <3>2, <3>5, <3>6 DEF SaveTemplate, TypeOK, CallType, CallsOK
    <2>2. CASE ResetTemplate(c, k)
        <3>1. CallsOK
            BY <2>2, GotoCalls, OvertakeFacts DEF ResetTemplate, CallsOK
        <3>2. override' \in [Categories -> Wordings]
            BY <2>2 DEF ResetTemplate, TypeOK, Wordings, Shipped
        <3>3. QED
            BY <2>2, <3>1, <3>2 DEF ResetTemplate, TypeOK, CallType, CallsOK
    <2>3. QED
        BY <1>1, <2>1, <2>2
<1>2. ASSUME NEW c \in Calls, AddVersion(c) PROVE TypeOK'
    <2> DEFINE k == call[c].category
               history == Added(versions[k], call[c].number, call[c].words)
    <2>1. k \in Categories /\ call[c].words \in Saved /\ call[c].number \in Nat
        BY <1>2, SaveFields DEF AddVersion, Saves
    <2>2. versions[k] \in Seq(Saved)
        BY <2>1 DEF TypeOK, Saved
    <2>3. history \in Seq(Saved)
        BY <2>1, <2>2, AddedTypes
    <2> HIDE DEF history
    <2>4. versions' \in [Categories -> Seq(Saved)]
        BY <1>2, <2>1, <2>3 DEF AddVersion, TypeOK, Saved, history
    <2>5. straight' \subseteq Categories
        BY <1>2, <2>1 DEF AddVersion, TypeOK
    <2>6. CallsOK
        BY <1>2, GotoCalls, GotoTypes DEF AddVersion
    <2>7. QED
        BY <1>2, <2>4, <2>5, <2>6 DEF AddVersion, TypeOK, CallType, CallsOK, Saved
<1>3. ASSUME NEW c \in Calls,
             ReadLatest(c) \/ (\E k \in Categories : ReadTemplate(c, k))
             \/ ReadVersion(c) \/ ReadDraft(c) \/ StartReply(c)
      PROVE  TypeOK'
    <2>1. CallsOK
        BY <1>3, GotoCalls
    <2>2. UNCHANGED <<override, versions, draft, reply, saved, straight>>
        BY <1>3 DEF ReadLatest, ReadTemplate, ReadVersion, ReadDraft, StartReply
    <2>3. QED
        BY <2>1, <2>2 DEF TypeOK, CallType, CallsOK
<1>4. ASSUME NEW c \in Calls, AddDraft(c) PROVE TypeOK'
    <2>1. CallsOK
        BY <1>4, GotoCalls, GotoTypes DEF AddDraft
    <2>2. draft' \in Said
        BY <1>4, SaidFields DEF AddDraft, Says
    <2>3. QED
        BY <1>4, <2>1, <2>2 DEF AddDraft, TypeOK, CallType, CallsOK
<1>5. ASSUME NEW c \in Calls, Reserve(c) PROVE TypeOK'
    <2>1. call' \in [Calls -> CallType]
        BY <1>5, GotoCalls
    <2>2. call[c].said \in Said
        BY <1>5, SaidFields DEF Reserve, Says
    <2>3. /\ reply' \in [status : {"none", "pending", "failed", "created"},
                         said : Said \cup {Nothing}, claimed : BOOLEAN]
          /\ reply'.status = "none" <=> reply'.said = Nothing
          /\ reply'.status = "pending"
        BY <1>5, <2>2, NothingSaid DEF Reserve, TypeOK
    <2>4. QED
        BY <1>5, <2>1, <2>3 DEF Reserve, TypeOK, CallType
<1>6. ASSUME NEW c \in Calls, ClaimFailed(c) PROVE TypeOK'
    <2>1. call' \in [Calls -> CallType]
        BY <1>6, GotoCalls
    <2>2. call[c].said \in Said
        BY <1>6, SaidFields DEF ClaimFailed, Says
    <2>3. reply.said \in Said
        BY <1>6 DEF ClaimFailed, TypeOK
    <2>4. Claimed(reply.said, call[c].said) \in Said
        BY <2>2, <2>3 DEF Claimed, Said
    <2>5. /\ reply' \in [status : {"none", "pending", "failed", "created"},
                         said : Said \cup {Nothing}, claimed : BOOLEAN]
          /\ reply'.status = "none" <=> reply'.said = Nothing
          /\ reply'.status = "pending"
        BY <1>6, <2>4, NothingSaid DEF ClaimFailed
    <2>6. QED
        BY <1>6, <2>1, <2>5 DEF ClaimFailed, TypeOK, CallType
<1>7. ASSUME NEW c \in Calls, NEW status \in {"created", "failed"},
             Settle(c, status)
      PROVE  TypeOK'
    <2>1. CallsOK
        BY <1>7, GotoCalls, GotoTypes DEF Settle
    <2>2. reply \in [status : {"none", "pending", "failed", "created"},
                     said : Said \cup {Nothing}, claimed : BOOLEAN]
        BY DEF TypeOK
    <2>3. reply' \in [status : {"none", "pending", "failed", "created"},
                      said : Said \cup {Nothing}, claimed : BOOLEAN]
        BY <1>7, <2>2 DEF Settle
    <2>4. reply'.status = "none" <=> reply'.said = Nothing
        BY <1>7, <2>2 DEF Settle, TypeOK
    <2>5. QED
        BY <1>7, <2>1, <2>3, <2>4 DEF Settle, TypeOK, CallType, CallsOK
<1>8. ASSUME NEW c \in Calls, Refuse(c) \/ Die(c) PROVE TypeOK'
    <2>1. CallsOK
        BY <1>8, GotoCalls, GotoTypes DEF Refuse, Die
    <2>2. QED
        BY <1>8, <2>1 DEF Refuse, Die, TypeOK, CallType, CallsOK
<1>9. CASE UNCHANGED vars
    BY <1>9 DEF vars, TypeOK
<1>10. QED
    BY <1>1, <1>2, <1>3, <1>4, <1>5, <1>6, <1>7, <1>8, <1>9 DEF Next

(***************************************************************************)
(* Steps that neither save nor reset a wording.                            *)
(***************************************************************************)

\* One call goes on, and the wordings stay: what the others have in hand is
\* what it was.
LEMMA GotoFrame ==
    ASSUME TypeOK, HandInv, NEW c \in Calls, NEW next \in CallType, Goto(c, next),
           UNCHANGED <<override, versions, straight>>,
           next.pc \in Saves =>
              call[c].pc \in Saves /\ next.category = call[c].category,
           CallInv(c)'
    PROVE  HandInv'
<1>1. call'[c] = next /\ \A d \in Calls \ {c} : call'[d] = call[d]
    BY GotoTypes
<1>2. ASSUME NEW k \in Categories PROVE StraightInv(k)'
    <2>1. Saving(k)' \subseteq Saving(k)
        BY <1>1 DEF Saving, Saves
    <2>2. QED
        BY <2>1 DEF HandInv, StraightInv, Current
<1>3. ASSUME NEW d \in Calls \ {c} PROVE CallInv(d)'
    <2>1. CASE call[d].pc \in Saves
        <3> DEFINE k == call[d].category
        <3>1. Saving(k)' \subseteq Saving(k)
            BY <1>1, <2>1 DEF Saving, Saves
        <3>2. d \in Saving(k)'
            BY <1>1, <2>1 DEF Saving, Saves
        <3>3. QED
            BY <1>1, <2>1, <3>1, <3>2 DEF HandInv, CallInv, Saves
    <2>2. CASE call[d].pc \notin Saves
        BY <1>1, <2>2 DEF HandInv, CallInv, Saves
    <2>3. QED
        BY <2>1, <2>2
<1>4. QED
    BY <1>2, <1>3 DEF HandInv

LEMMA IdleFrame ==
    ASSUME TypeOK, HandInv, NEW c \in Calls, Goto(c, Idle),
           UNCHANGED <<override, versions, straight>>
    PROVE  HandInv'
<1>1. Idle \in CallType /\ Idle.pc = "idle"
    BY DEF CallType, Idle
<1>2. call'[c] = Idle
    BY <1>1, GotoTypes
<1>3. CallInv(c)'
    BY <1>1, <1>2 DEF CallInv
<1>4. QED
    BY <1>1, <1>3, GotoFrame DEF Saves

LEMMA ReadLatestStep ==
    ASSUME TypeOK, HandInv, NEW c \in Calls, ReadLatest(c)
    PROVE  HandInv'
<1> DEFINE n == Len(versions[call[c].category]) + 1
           next == [call[c] EXCEPT !.pc = "numbering", !.number = n]
<1>1. call[c] \in SaveCall /\ call[c].category \in Categories
    BY SaveFields DEF ReadLatest, Saves
<1>2. versions[call[c].category] \in Seq(Saved)
    BY <1>1 DEF TypeOK, Saved
<1>3. n \in Nat
    BY <1>2
<1>4. UNCHANGED <<override, versions, straight>> /\ Goto(c, next)
    BY DEF ReadLatest
<1> HIDE DEF n
<1>5. /\ next \in CallType /\ next.pc = "numbering" /\ next.number = n
      /\ next.category = call[c].category /\ next.words = call[c].words
      /\ next.alone = call[c].alone
    BY <1>1, <1>3 DEF SaveCall, CallType
<1> HIDE DEF next
<1>6. call'[c] = next /\ \A d \in Calls \ {c} : call'[d] = call[d]
    BY <1>4, <1>5, GotoTypes
<1>7. CallInv(c)'
    <2>1. SUFFICES ASSUME call[c].alone PROVE CallInv(c)'
        BY <1>5, <1>6 DEF CallInv
    <2>2. Saving(call[c].category) = {c} /\ override[call[c].category] = call[c].words
        BY <2>1 DEF ReadLatest, HandInv, CallInv
    <2>3. \A d \in Calls : d \in Saving(call[c].category)' <=>
                          d \in Saving(call[c].category)
        BY <1>5, <1>6 DEF Saving, ReadLatest
    <2>4. Saving(call[c].category)' = {c}
        BY <2>2, <2>3 DEF Saving
    <2>5. QED
        BY <1>4, <1>5, <1>6, <2>2, <2>4 DEF CallInv, n
<1>8. QED
    BY <1>4, <1>5, <1>7, GotoFrame DEF ReadLatest, Saves

LEMMA ReadTemplateStep ==
    ASSUME TypeOK, HandInv, NEW c \in Calls, NEW k \in Categories,
           ReadTemplate(c, k)
    PROVE  HandInv'
<1> DEFINE said == [category |-> k, version |-> 0, words |-> override[k],
                    sound |-> k \in straight]
           next == [pc |-> "templated", said |-> said]
<1>1. said \in Said
    BY DEF Said, TypeOK
<1>2. UNCHANGED <<override, versions, straight>> /\ Goto(c, next)
    BY DEF ReadTemplate
<1>3. next \in CallType /\ next.pc = "templated"
    BY <1>1 DEF SaidCall, CallType
<1>4. call'[c] = next
    BY <1>2, <1>3, GotoTypes
<1>5. CallInv(c)'
    <2>1. call'[c].pc = "templated" /\ call'[c].said = said
        BY <1>4
    <2>2. said.sound => said.category \in straight /\ override[said.category] = said.words
        OBVIOUS
    <2> HIDE DEF said
    <2>3. QED
        BY <1>2, <2>1, <2>2 DEF CallInv
<1>6. QED
    BY <1>2, <1>3, <1>5, GotoFrame DEF Saves

\* The current version names the wording of a category that is straight.
LEMMA CurrentNamed ==
    ASSUME TypeOK, NEW said \in Said, said.version = CurrentVersion(said.category),
           said.words = Current(said.category)
    PROVE  NamesIn(versions, said)
<1> DEFINE history == versions[said.category]
<1>1. said.category \in Categories
    BY DEF Said
<1>2. history \in Seq(Saved)
    BY <1>1 DEF TypeOK, Saved
<1> HIDE DEF history
<1>3. CASE history = <<>>
    <2>1. Len(history) = 0
        BY <1>3
    <2>2. QED
        BY <1>3, <2>1 DEF NamesIn, CurrentVersion, Current, history
<1>4. CASE history # <<>>
    <2>1. Len(history) # 0 /\ Len(history) \in DOMAIN history
        BY <1>2, <1>4
    <2>2. QED
        BY <1>4, <2>1 DEF NamesIn, CurrentVersion, Current, Last, history
<1>5. QED
    BY <1>3, <1>4

LEMMA ReadVersionStep ==
    ASSUME TypeOK, HandInv, NEW c \in Calls, ReadVersion(c)
    PROVE  HandInv'
<1> DEFINE n == CurrentVersion(call[c].said.category)
           said == [call[c].said EXCEPT !.version = n]
           next == [pc |-> "drafting", said |-> said]
<1>1. call[c].said \in Said /\ call[c].said.category \in Categories
    BY SaidFields DEF ReadVersion, Says
<1>2. n \in Nat
    <2>1. versions[call[c].said.category] \in Seq(Saved)
        BY <1>1 DEF TypeOK, Saved
    <2>2. QED
        BY <2>1 DEF CurrentVersion
<1>3. UNCHANGED <<override, versions, straight>> /\ Goto(c, next)
    BY DEF ReadVersion
<1>4. /\ said \in Said /\ said.version = n
      /\ said.category = call[c].said.category /\ said.words = call[c].said.words
      /\ said.sound = call[c].said.sound
    <2> HIDE DEF n
    <2>1. QED
        BY <1>1, <1>2 DEF Said
<1>5. said.sound => NamesIn(versions, said)
    <2>1. SUFFICES ASSUME said.sound PROVE NamesIn(versions, said)
        OBVIOUS
    <2>2. said.words = Current(said.category)
        BY <1>1, <1>4, <2>1 DEF ReadVersion, HandInv, CallInv, StraightInv
    <2> HIDE DEF said
    <2>3. said.version = CurrentVersion(said.category)
        BY <1>4
    <2>4. QED
        BY <1>4, <2>2, <2>3, CurrentNamed
<1> HIDE DEF said
<1>6. next \in CallType /\ next.pc = "drafting"
    BY <1>4 DEF SaidCall, CallType
<1>7. call'[c] = next
    BY <1>3, <1>6, GotoTypes
<1>8. CallInv(c)'
    BY <1>3, <1>5, <1>7 DEF CallInv
<1>9. QED
    BY <1>3, <1>6, <1>8, GotoFrame DEF Saves

LEMMA ReadDraftStep ==
    ASSUME TypeOK, HandInv, NamesItsWording, NEW c \in Calls,
           ReadDraft(c) \/ StartReply(c)
    PROVE  HandInv'
<1>1. /\ UNCHANGED <<override, versions, straight>> /\ draft \in Said
      /\ draft.sound => NamesIn(versions, draft)
    BY DEF ReadDraft, StartReply, TypeOK, NamesItsWording, Names
<1>2. PICK pc \in {"drafting", "replying"} : Goto(c, [pc |-> pc, said |-> draft])
    BY DEF ReadDraft, StartReply
<1> DEFINE next == [pc |-> pc, said |-> draft]
<1>3. next \in CallType /\ next.pc = pc
    BY <1>1 DEF SaidCall, CallType
<1>4. call'[c] = next
    BY <1>2, <1>3, GotoTypes
<1>5. CallInv(c)'
    BY <1>1, <1>4 DEF CallInv
<1>6. QED
    BY <1>1, <1>2, <1>3, <1>5, GotoFrame DEF Saves

LEMMA ReplyingStep ==
    ASSUME TypeOK, HandInv, NEW c \in Calls, Reserve(c) \/ ClaimFailed(c)
    PROVE  HandInv'
<1> DEFINE next == [call[c] EXCEPT !.pc = "sending"]
<1>1. /\ UNCHANGED <<override, versions, straight>> /\ Goto(c, next)
      /\ call[c].pc = "replying"
    BY DEF Reserve, ClaimFailed
<1>2. call[c] \in SaidCall
    BY <1>1, SaidFields DEF Says
<1>3. next \in CallType /\ next.pc = "sending" /\ next.said = call[c].said
    BY <1>2 DEF SaidCall, CallType
<1> HIDE DEF next
<1>4. call'[c] = next
    BY <1>1, <1>3, GotoTypes
<1>5. CallInv(c)'
    BY <1>1, <1>3, <1>4 DEF CallInv, HandInv
<1>6. QED
    BY <1>1, <1>3, <1>5, GotoFrame DEF Saves

(***************************************************************************)
(* Saves and resets.                                                       *)
(***************************************************************************)

\* What a save or a reset of k leaves of the other calls, and of the other
\* categories.
LEMMA OvertakeFrame ==
    ASSUME TypeOK, HandInv, NEW c \in Calls, NEW k \in Categories,
           NEW next \in CallType, NEW words, Overtake(c, k, next),
           call[c].pc = "idle", next.pc \in Saves => next.category = k,
           versions' = versions, straight' = straight \ {k},
           override' = [override EXCEPT ![k] = words],
           CallInv(c)'
    PROVE  HandInv'
<1>1. /\ call'[c] = next
      /\ \A d \in Calls \ {c} :
            /\ ~Overtaken(d, k) => call'[d] = call[d]
            /\ Overtaken(d, k) =>
                  /\ call'[d].pc = call[d].pc
                  /\ call[d].pc \in Saves =>
                        call'[d].category = k /\ ~call'[d].alone
                  /\ call[d].pc = "templated" => ~call'[d].said.sound
    BY OvertakeFacts
<1>2. \A q \in Categories \ {k} : override'[q] = override[q]
    BY DEF TypeOK
<1>3. ASSUME NEW q \in Categories \ {k}, NEW d \in Calls
      PROVE  d \in Saving(q)' <=> d \in Saving(q)
    <2>1. CASE d = c
        BY <1>1, <2>1 DEF Saving, Saves
    <2>2. CASE d # c
        BY <1>1, <2>2 DEF Saving, Saves, Overtaken
    <2>3. QED
        BY <2>1, <2>2
<1>4. ASSUME NEW q \in Categories PROVE StraightInv(q)'
    <2>1. CASE q = k
        BY <2>1 DEF StraightInv
    <2>2. CASE q # k
        <3>1. Saving(q)' = Saving(q)
            BY <1>3, <2>2 DEF Saving
        <3>2. QED
            BY <1>2, <2>2, <3>1 DEF HandInv, StraightInv, Current
    <2>3. QED
        BY <2>1, <2>2
<1>5. ASSUME NEW d \in Calls \ {c} PROVE CallInv(d)'
    <2>1. CASE Overtaken(d, k)
        BY <1>1, <2>1 DEF Overtaken, CallInv, Saves
    <2>2. CASE ~Overtaken(d, k) /\ call[d].pc \in Saves
        <3> DEFINE q == call[d].category
        <3>1. q \in Categories \ {k} /\ call'[d] = call[d]
            BY <1>1, <2>2, SaveFields DEF Overtaken
        <3>2. Saving(q)' = Saving(q)
            BY <1>3, <3>1 DEF Saving
        <3>3. QED
            BY <1>2, <2>2, <3>1, <3>2 DEF HandInv, CallInv, Saves
    <2>3. CASE ~Overtaken(d, k) /\ call[d].pc = "templated"
        <3>1. /\ call[d].said.category \in Categories \ {k}
              /\ call'[d] = call[d]
            BY <1>1, <2>3, SaidFields DEF Overtaken, Says
        <3>2. QED
            BY <1>2, <2>3, <3>1 DEF HandInv, CallInv
    <2>4. CASE ~Overtaken(d, k) /\ call[d].pc \notin Saves \cup {"templated"}
        BY <1>1, <2>4 DEF HandInv, CallInv, Saves
    <2>5. QED
        BY <2>1, <2>2, <2>3, <2>4
<1>6. QED
    BY <1>4, <1>5 DEF HandInv

LEMMA SaveStep ==
    ASSUME TypeOK, HandInv, NEW c \in Calls, NEW k \in Categories,
           SaveTemplate(c, k), TypeOK'
    PROVE  HandInv'
<1> DEFINE next == [pc |-> "saved", category |-> k, words |-> saved + 1,
                    alone |-> Saving(k) = {}, number |-> 0]
<1>1. call'[c] = next
    BY DEF SaveTemplate, Overtake
<1>2. next \in CallType /\ next.pc = "saved" /\ next.category = k
    <2>1. call'[c] \in CallType
        BY DEF TypeOK, CallType
    <2>2. QED
        BY <1>1, <2>1
<1>3. Overtake(c, k, next) /\ call[c].pc = "idle"
    BY DEF SaveTemplate
<1>4. CallInv(c)'
    <2>1. /\ call'[c].pc = "saved" /\ call'[c].category = k
          /\ call'[c].words = saved + 1 /\ (call'[c].alone => Saving(k) = {})
        <3>1. call'[c].pc = "saved" /\ call'[c].category = k
              /\ call'[c].words = saved + 1
            BY <1>1
        <3>2. CASE Saving(k) # {}
            <4>1. (Saving(k) = {}) = FALSE
                BY <3>2
            <4>2. next = [pc |-> "saved", category |-> k, words |-> saved + 1,
                          alone |-> FALSE, number |-> 0]
                BY <4>1
            <4> HIDE DEF next
            <4>3. ~call'[c].alone
                BY <1>1, <4>2
            <4>4. QED
                BY <3>1, <4>3
        <3>3. QED
            BY <3>1, <3>2
    <2> SUFFICES ASSUME Saving(k) = {} PROVE CallInv(c)'
        BY <2>1 DEF CallInv
    <2>2. \A d \in Calls : d \in Saving(k)' <=> d = c
        <3>1. ASSUME NEW d \in Calls \ {c} PROVE d \notin Saving(k)'
            <4>1. ~(call[d].pc \in Saves /\ call[d].category = k)
                BY DEF Saving, Saves
            <4>2. CASE Overtaken(d, k)
                BY <1>2, <1>3, <4>1, <4>2, OvertakeFacts DEF Overtaken, Saving, Saves
            <4>3. CASE ~Overtaken(d, k)
                BY <1>2, <1>3, <4>1, <4>3, OvertakeFacts DEF Saving, Saves
            <4>4. QED
                BY <4>2, <4>3
        <3>2. c \in Saving(k)'
            BY <1>1 DEF Saving
        <3>3. QED
            BY <3>1, <3>2
    <2>3. Saving(k)' = {c}
        BY <2>2 DEF Saving
    <2>4. override'[k] = saved + 1
        BY DEF SaveTemplate, TypeOK
    <2>5. QED
        BY <2>1, <2>3, <2>4 DEF CallInv
<1>5. QED
    BY <1>2, <1>3, <1>4, OvertakeFrame DEF SaveTemplate

LEMMA ResetStep ==
    ASSUME TypeOK, HandInv, NEW c \in Calls, NEW k \in Categories,
           ResetTemplate(c, k)
    PROVE  HandInv'
<1>1. Idle \in CallType /\ Idle.pc = "idle"
    BY DEF CallType, Idle
<1>2. call'[c] = Idle
    BY DEF ResetTemplate, Overtake
<1>3. CallInv(c)'
    BY <1>1, <1>2 DEF CallInv
<1>4. QED
    BY <1>1, <1>3, OvertakeFrame DEF ResetTemplate, Saves

(***************************************************************************)
(* The history.                                                            *)
(***************************************************************************)

\* What a draft names, it names in every longer history.
LEMMA NamesGrow ==
    ASSUME NEW h \in [Categories -> Seq(Saved)], NEW k \in Categories, NEW w \in Saved,
           NEW said \in Said, NamesIn(h, said)
    PROVE  NamesIn([h EXCEPT ![k] = Append(h[k], w)], said)
<1> DEFINE long == [h EXCEPT ![k] = Append(h[k], w)]
           q == said.category
           v == said.version
<1>1. q \in Categories /\ v \in Nat /\ said.words \in Wordings
    BY DEF Said
<1>2. h[q] \in Seq(Saved) /\ (long[q] = h[q] \/ long[q] = Append(h[q], w))
    BY <1>1
<1>3. said.words # -1
    BY <1>1 DEF Wordings, Shipped
<1>4. CASE v = 0
    BY <1>4 DEF NamesIn
<1>5. CASE v # 0
    <2>1. v \in DOMAIN h[q] /\ said.words = h[q][v]
        BY <1>3, <1>5 DEF NamesIn
    <2> HIDE DEF long, q, v
    <2>2. v \in DOMAIN long[q] /\ long[q][v] = h[q][v]
        BY <1>2, <2>1
    <2>3. QED
        BY <1>5, <2>1, <2>2 DEF NamesIn, long, q, v
<1>6. QED
    BY <1>4, <1>5

\* Adding a version takes no name away.
LEMMA AddNames ==
    ASSUME TypeOK, NEW c \in Calls, AddVersion(c), NEW said \in Said,
           NamesIn(versions, said)
    PROVE  NamesIn(versions', said)
<1> DEFINE k == call[c].category
           w == call[c].words
           n == call[c].number
<1>1. k \in Categories /\ w \in Saved /\ n \in Nat
    BY SaveFields DEF AddVersion, Saves
<1>2. versions \in [Categories -> Seq(Saved)]
    BY DEF TypeOK, Saved
<1>3. versions' = [versions EXCEPT ![k] = Added(versions[k], n, w)]
    BY DEF AddVersion
<1>4. Added(versions[k], n, w) \in {versions[k], Append(versions[k], w)}
    BY <1>1, <1>2, AddedTypes
<1> HIDE DEF k, w, n
<1>5. CASE Added(versions[k], n, w) = versions[k]
    <2>1. versions' = versions
        BY <1>1, <1>2, <1>3, <1>5
    <2>2. QED
        BY <2>1
<1>6. CASE Added(versions[k], n, w) = Append(versions[k], w)
    <2>1. versions' = [versions EXCEPT ![k] = Append(versions[k], w)]
        BY <1>3, <1>6
    <2>2. QED
        BY <1>1, <1>2, <2>1, NamesGrow
<1>7. QED
    BY <1>4, <1>5, <1>6

LEMMA AddStep ==
    ASSUME TypeOK, HandInv, NEW c \in Calls, AddVersion(c), NEW k, k = call[c].category
    PROVE  HandInv'
<1>1. /\ k \in Categories /\ call[c].words \in Saved /\ call[c].number \in Nat
      /\ call[c].pc = "numbering" /\ override' = override /\ c \in Saving(k)
    BY SaveFields DEF AddVersion, Saves, Saving
<1>2. Idle \in CallType /\ Idle.pc = "idle"
    BY DEF CallType, Idle
<1>3. call'[c] = Idle /\ \A d \in Calls \ {c} : call'[d] = call[d]
    BY <1>2, GotoTypes DEF AddVersion
<1>4. k \notin straight
    BY <1>1 DEF HandInv, StraightInv
<1>5. versions \in [Categories -> Seq(Saved)]
    BY DEF TypeOK, Saved
<1>6. /\ \A q \in Categories \ {k} : versions'[q] = versions[q]
      /\ versions'[k] = Added(versions[k], call[c].number, call[c].words)
    BY <1>1, <1>5 DEF AddVersion
<1>7. \A q \in Categories : Saving(q)' \subseteq Saving(q) \ {c}
    BY <1>2, <1>3 DEF Saving
<1>8. ASSUME NEW q \in Categories \ {k} PROVE StraightInv(q)'
    <2>1. q \in straight' => q \in straight
        BY DEF AddVersion
    <2>2. QED
        BY <1>1, <1>6, <1>7, <2>1 DEF HandInv, StraightInv, Current
<1>9. StraightInv(k)'
    <2> SUFFICES ASSUME k \in straight' PROVE StraightInv(k)'
        BY DEF StraightInv
    <2>1. call[c].alone
        BY <1>4 DEF AddVersion
    <2>2. /\ Saving(k) = {c} /\ override[k] = call[c].words
          /\ call[c].number = Len(versions[k]) + 1
        BY <1>1, <2>1 DEF HandInv, CallInv
    <2>3. versions'[k] = Append(versions[k], call[c].words)
        BY <1>1, <1>5, <1>6, <2>2, AddedTypes
    <2>4. versions[k] \in Seq(Saved)
        BY <1>1, <1>5
    <2>5. versions'[k] # <<>> /\ Last(versions'[k]) = call[c].words
        BY <1>1, <2>3, <2>4 DEF Last
    <2>6. Saving(k)' = {}
        BY <1>1, <1>7, <2>2
    <2>7. QED
        BY <1>1, <2>2, <2>5, <2>6 DEF StraightInv, Current
<1>10. ASSUME NEW d \in Calls \ {c} PROVE CallInv(d)'
    <2>1. CASE call[d].pc \in Saves
        <3> DEFINE q == call[d].category
        <3>1. q \in Categories /\ call'[d] = call[d] /\ d \in Saving(q)
            BY <1>3, <2>1, SaveFields DEF Saving, Saves
        <3>2. SUFFICES ASSUME call[d].alone PROVE CallInv(d)'
            BY <2>1, <3>1 DEF CallInv, Saves
        <3>3. /\ Saving(q) = {d} /\ override[q] = call[d].words
              /\ call[d].pc = "numbering" => call[d].number = Len(versions[q]) + 1
            BY <2>1, <3>2 DEF HandInv, CallInv, Saves
        <3>4. q # k
            BY <1>1, <3>3
        <3>5. d \in Saving(q)'
            BY <3>1 DEF Saving
        <3>6. Saving(q)' = {d}
            BY <1>7, <3>1, <3>3, <3>5
        <3>7. QED
            BY <1>1, <1>6, <2>1, <3>1, <3>3, <3>4, <3>6 DEF CallInv, Saves
    <2>2. CASE call[d].pc = "templated"
        BY <1>1, <1>3, <2>2 DEF HandInv, CallInv, AddVersion
    <2>3. CASE call[d].pc \in {"drafting", "replying", "sending"}
        <3>1. call[d].said \in Said
            BY <2>3, SaidFields DEF Says
        <3>2. call[d].said.sound => NamesIn(versions', call[d].said)
            BY <2>3, <3>1, AddNames DEF HandInv, CallInv
        <3>3. QED
            BY <1>3, <2>3, <3>2 DEF CallInv
    <2>4. CASE call[d].pc = "idle"
        BY <1>3, <2>4 DEF CallInv
    <2>5. QED
        BY <2>1, <2>2, <2>3, <2>4, CallTypes, Kinds DEF Saves, Says
<1>11. CallInv(c)'
    BY <1>2, <1>3 DEF CallInv
<1>12. QED
    BY <1>8, <1>9, <1>10, <1>11 DEF HandInv

LEMMA HandStep == TypeOK /\ TypeOK' /\ HandInv /\ NamesItsWording /\ [Next]_vars => HandInv'
<1> SUFFICES ASSUME TypeOK, TypeOK', HandInv, NamesItsWording, [Next]_vars
             PROVE  HandInv'
    OBVIOUS
<1>1. ASSUME NEW c \in Calls, NEW k \in Categories,
             SaveTemplate(c, k) \/ ResetTemplate(c, k) \/ ReadTemplate(c, k)
      PROVE  HandInv'
    BY <1>1, SaveStep, ResetStep, ReadTemplateStep
<1>2. ASSUME NEW c \in Calls,
             ReadLatest(c) \/ AddVersion(c) \/ ReadVersion(c) \/ ReadDraft(c)
             \/ StartReply(c) \/ Reserve(c) \/ ClaimFailed(c)
      PROVE  HandInv'
    BY <1>2, ReadLatestStep, AddStep, ReadVersionStep, ReadDraftStep, ReplyingStep
<1>3. ASSUME NEW c \in Calls,
             AddDraft(c) \/ Refuse(c) \/ Die(c)
             \/ \E status \in {"created", "failed"} : Settle(c, status)
      PROVE  HandInv'
    BY <1>3, IdleFrame DEF AddDraft, Refuse, Die, Settle
<1>4. CASE UNCHANGED vars
    BY <1>4 DEF vars, HandInv, StraightInv, CallInv, Saving, Current
<1>5. QED
    BY <1>1, <1>2, <1>3, <1>4 DEF Next

(***************************************************************************)
(* The latest draft and the reply.                                         *)
(***************************************************************************)

LEMMA NamesStep == TypeOK /\ HandInv /\ NamesItsWording /\ [Next]_vars => NamesItsWording'
<1> SUFFICES ASSUME TypeOK, HandInv, NamesItsWording, [Next]_vars
             PROVE  NamesItsWording'
    OBVIOUS
<1> USE DEF NamesItsWording, Names
<1>1. CASE UNCHANGED <<versions, draft, reply>>
    BY <1>1
<1>2. ASSUME NEW c \in Calls, AddVersion(c) PROVE NamesItsWording'
    <2>1. \A said \in Said : NamesIn(versions, said) => NamesIn(versions', said)
        BY <1>2, AddNames
    <2>2. draft # Nothing => draft \in Said
        BY DEF TypeOK
    <2>3. reply.status # "none" => reply.said \in Said
        BY DEF TypeOK
    <2>4. QED
        BY <1>2, <2>1, <2>2, <2>3 DEF AddVersion
<1>3. ASSUME NEW c \in Calls, AddDraft(c) PROVE NamesItsWording'
    BY <1>3 DEF AddDraft, HandInv, CallInv
<1>4. ASSUME NEW c \in Calls, Reserve(c) PROVE NamesItsWording'
    <2>1. reply'.said = call[c].said
        BY <1>4 DEF Reserve, TypeOK
    <2>2. call[c].said.sound => NamesIn(versions, call[c].said)
        BY <1>4 DEF Reserve, HandInv, CallInv
    <2>3. QED
        BY <1>4, <2>1, <2>2 DEF Reserve
<1>5. ASSUME NEW c \in Calls, ClaimFailed(c) PROVE NamesItsWording'
    <2>1. reply'.claimed
        BY <1>5 DEF ClaimFailed
    <2>2. QED
        BY <1>5, <2>1 DEF ClaimFailed
<1>6. ASSUME NEW c \in Calls, NEW status \in {"created", "failed"},
             Settle(c, status)
      PROVE  NamesItsWording'
    <2>1. reply.status # "none"
        BY <1>6 DEF Settle, TypeOK
    <2>2. reply'.said = reply.said /\ reply'.claimed = reply.claimed
        BY <1>6 DEF Settle, TypeOK
    <2>3. QED
        BY <1>6, <2>1, <2>2 DEF Settle
<1>7. QED
    BY <1>1, <1>2, <1>3, <1>4, <1>5, <1>6
    DEF Next, vars, SaveTemplate, ResetTemplate, ReadTemplate, ReadLatest,
        ReadVersion, ReadDraft, StartReply, Refuse, Die

(***************************************************************************)
(* Theorems.                                                               *)
(***************************************************************************)

LEMMA InitInv == Init => IInv
<1> SUFFICES ASSUME Init PROVE HandInv /\ NamesItsWording
    BY TypeInit DEF IInv
<1>1. \A c \in Calls : call[c].pc = "idle"
    BY DEF Init, Idle
<1>2. \A k \in Categories : StraightInv(k)
    BY <1>1 DEF Init, StraightInv, Saving, Current
<1>3. \A c \in Calls : CallInv(c)
    BY <1>1 DEF CallInv
<1>4. QED
    BY <1>2, <1>3 DEF HandInv, NamesItsWording, Init

LEMMA Invariance == Spec => []IInv
<1>1. IInv /\ [Next]_vars => IInv'
    BY TypeStep, HandStep, NamesStep DEF IInv
<1>2. QED
    BY <1>1, InitInv, PTL DEF Spec

\* The wordings, their history, the draft, the reply and what each request has
\* read are of their kind; a request that has asked Gmail has a reply to settle
\* (inbox/stores.py).
THEOREM TypeCorrect == Spec => []TypeOK
<1>1. IInv => TypeOK
    BY DEF IInv
<1>2. QED
    BY <1>1, Invariance, PTL

\* For any categories, threads and number of saves, the version shown is that of
\* the wording shown, for a category whose last save had nothing in its way
\* (inbox/api.py, merged_templates).
THEOREM LatestIsCurrent == Spec => []CurrentIsLatest
<1>1. IInv => CurrentIsLatest
    BY DEF IInv, HandInv, StraightInv, Current, CurrentIsLatest, TypeOK
<1>2. QED
    BY <1>1, Invariance, PTL

\* For any categories, threads and number of saves, a draft and the row of a
\* first attempt name the version of the wording they say, unless the wording
\* changed between the two reads of their draft (inbox/pipeline.py, draft;
\* inbox/stores.py, reserve).
THEOREM WordingIsNamed == Spec => []NamesItsWording
<1>1. IInv => NamesItsWording
    BY DEF IInv
<1>2. QED
    BY <1>1, Invariance, PTL
================================================================================
