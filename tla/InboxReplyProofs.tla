---------------------------- MODULE InboxReplyProofs ---------------------------
(***************************************************************************)
(* Proofs about InboxReply, for any emails, mailboxes, wordings, number of *)
(* concurrent calls and bound on Gmail.                                    *)
(***************************************************************************)
EXTENDS InboxReply, TLAPS

(***************************************************************************)
(* The inductive invariant.  RowInv holds of every email; LockInv of those *)
(* whose row no two callers took over at once.                             *)
(***************************************************************************)

\* Where a call is once it has a row to settle.
Past == {"claimWrite", "mailbox", "post", "complete", "markDrafted", "fail",
         "markFailed"}

\* A deleted email has no row; while it exists, a call past the reservation has
\* one to settle, and Gmail holds nothing without one.
RowInv(e) ==
    /\ ~Present(e) => ~HasReply(e)
    /\ Present(e) /\ gmail[e] # <<>> => HasReply(e)
    /\ \A r \in Requests :
          target[r] = e /\ pc[r] \in Past => HasReply(e) \/ ~Present(e)

\* Every draft id anyone holds is of a draft in Gmail.
IdInv(e) ==
    /\ orphan[e] \subseteq 1..Len(gmail[e])
    /\ \A r \in Requests :
          target[r] = e /\ pc[r] = "complete" => draftId[r] \in 1..Len(gmail[e])

\* The row as a lock: one holder, and a pending row under it.
LockHeld(e) ==
    /\ \A r, s \in Requests : Holds(r, e) /\ Holds(s, e) => r = s
    /\ \A r \in Requests : Holds(r, e) /\ Present(e) =>
          reply[e].status = "pending" /\ reply[e].words = carry[r]

\* What Gmail has acknowledged, against who knows of it.
Accounted(e) ==
    /\ \A i, j \in Acknowledged(e) : i = j
    /\ \A r \in Requests : Holds(r, e) /\ pc[r] # "complete"
          => Acknowledged(e) = {}
    /\ \A r \in Requests : Holds(r, e) /\ pc[r] = "complete" =>
          /\ draftId[r] \in Acknowledged(e)
          /\ gmail[e][draftId[r]] = carry[r]
    /\ Present(e) /\ reply[e].status \in {"none", "failed"}
          => Acknowledged(e) = {}

\* A created row is the record of the acknowledged draft.
Recorded(e) ==
    /\ reply[e].status = "created" =>
          /\ reply[e].draftId \in Acknowledged(e)
          /\ gmail[e][reply[e].draftId] = reply[e].words
    /\ email[e] = "drafted" => reply[e].status = "created"
    /\ \A r \in Requests :
          target[r] = e /\ pc[r] = "markDrafted" /\ Present(e)
          => reply[e].status = "created"

LockInv(e) == LockHeld(e) /\ Accounted(e) /\ Recorded(e)

IInv ==
    /\ TypeOK
    /\ \A e \in Emails : RowInv(e) /\ IdInv(e)
    /\ \A e \in Emails : e \in stale \/ LockInv(e)

(***************************************************************************)
(* Type correctness.                                                       *)
(***************************************************************************)

USE MailboxOfAssumption, WordsAssumption, NobodyAssumption, BoundAssumption

LEMMA TypeInit == Init => TypeOK
BY DEF Init, TypeOK, NoReply, Reply, ReplyStatus, EmailStates, DraftAttempts

\* The locals of the calls.
CallTypeOK ==
    /\ pc \in [Requests -> {"idle"} \cup Steps]
    /\ target \in [Requests -> Emails]
    /\ carry \in [Requests -> Words \cup {NoWords}]
    /\ attempt \in [Requests -> 0..DraftAttempts]
    /\ draftId \in [Requests -> Nat]
    /\ \A r \in Requests : pc[r] # "idle" => carry[r] \in Words

LEMMA CallTypes ==
    ASSUME CallTypeOK, NEW r \in Requests, NEW l \in Steps, pc[r] # "idle",
           \/ Return(r)
           \/ Step(r, l)
           \/ NextAttempt(r) /\ UNCHANGED <<target, carry, draftId>>
    PROVE  CallTypeOK'
BY DEF CallTypeOK, Return, Step, Goto, NextAttempt, Steps, DraftAttempts

LEMMA RowTypes ==
    ASSUME reply \in [Emails -> Reply], NEW e \in Emails,
           NEW w \in Words \cup {NoWords}, NEW i \in Nat,
           \/ ReserveRow(e, w) \/ ClaimRow(e, w) \/ CompleteRow(e, i)
           \/ FailRow(e)
    PROVE  reply' \in [Emails -> Reply]
<1>1. CASE ReserveRow(e, w)
    BY <1>1 DEF ReserveRow, Reply, ReplyStatus
<1>2. CASE ClaimRow(e, w)
    BY <1>2 DEF ClaimRow, Reply, ReplyStatus
<1>3. CASE CompleteRow(e, i)
    BY <1>3 DEF CompleteRow, Reply, ReplyStatus
<1>4. CASE FailRow(e)
    BY <1>4 DEF FailRow, Reply, ReplyStatus
<1>5. QED
    BY <1>1, <1>2, <1>3, <1>4

LEMMA TypeStep == TypeOK /\ [Next]_vars => TypeOK'
<1> SUFFICES ASSUME TypeOK, [Next]_vars PROVE TypeOK'
    OBVIOUS
<1>0. CallTypeOK /\ reply \in [Emails -> Reply]
    BY DEF TypeOK, CallTypeOK
<1> USE DEF TypeOK, CallTypeOK, dbVars, callVars
<1>1. ASSUME NEW r \in Requests, NEW e \in Emails, Begin(r, e) PROVE TypeOK'
    BY <1>1 DEF Begin, Goto, Steps
<1>2. ASSUME NEW r \in Requests, Reserve(r) PROVE TypeOK'
    <2>1. target[r] \in Emails /\ carry[r] \in Words \cup {NoWords}
        OBVIOUS
    <2>2. reply' \in [Emails -> Reply]
        BY <1>2, <2>1, <1>0, RowTypes, 0 \in Nat DEF Reserve
    <2>3. CallTypeOK'
        BY <1>2, <1>0, CallTypes DEF Reserve, Steps
    <2>4. QED
        BY <1>2, <2>2, <2>3 DEF Reserve
<1>3. ASSUME NEW r \in Requests, ReadTaken(r) PROVE TypeOK'
    <2>1. CallTypeOK'
        BY <1>3, <1>0, CallTypes, "claim" \in Steps, "claimWrite" \in Steps
           DEF ReadTaken, Steps
    <2>2. QED
        BY <1>3, <2>1 DEF ReadTaken
<1>4. ASSUME NEW r \in Requests, ClaimRead(r) PROVE TypeOK'
    <2>1. CallTypeOK'
        BY <1>4, <1>0, CallTypes, "claim" \in Steps, "claimWrite" \in Steps
           DEF ClaimRead, Steps
    <2>2. QED
        BY <1>4, <2>1 DEF ClaimRead
<1>5. ASSUME NEW r \in Requests, AnswerBeingCreated(r) PROVE TypeOK'
    <2>1. CallTypeOK'
        BY <1>5, <1>0, CallTypes, "claim" \in Steps, "claimWrite" \in Steps
           DEF AnswerBeingCreated, Steps
    <2>2. QED
        BY <1>5, <2>1 DEF AnswerBeingCreated
<1>6. ASSUME NEW r \in Requests, ClaimWrite(r) PROVE TypeOK'
    <2>1. /\ target[r] \in Emails /\ carry[r] \in Words \cup {NoWords}
          /\ draftId[r] \in Nat
        OBVIOUS
    <2>2. reply' \in [Emails -> Reply]
        BY <1>6, <2>1, <1>0, RowTypes DEF ClaimWrite
    <2>3. CallTypeOK'
        BY <1>6, <1>0, CallTypes DEF ClaimWrite, Steps
    <2>4. QED
        BY <1>6, <2>1, <2>2, <2>3 DEF ClaimWrite
<1>7. ASSUME NEW r \in Requests, FindMailbox(r) PROVE TypeOK'
    <2>1. target[r] \in Emails /\ draftId[r] \in Nat
        OBVIOUS
    <2>2. reply' \in [Emails -> Reply]
        BY <1>7, <2>1, <1>0, RowTypes DEF FindMailbox
    <2>3. CallTypeOK'
        <3>1. CASE Present(target[r])
            <4>1. /\ pc[r] = "mailbox" /\ pc' = [pc EXCEPT ![r] = "post"]
                  /\ attempt' = [attempt EXCEPT ![r] = 1]
                  /\ UNCHANGED <<target, carry, draftId>>
                BY <1>7, <3>1 DEF FindMailbox, Goto
            <4>2. QED
                BY <4>1 DEF Steps, DraftAttempts
        <3>2. CASE ~Present(target[r])
            BY <1>7, <3>2, <1>0, CallTypes, "fail" \in Steps DEF FindMailbox, Steps
        <3>3. QED
            BY <3>1, <3>2
    <2>4. QED
        BY <1>7, <2>2, <2>3 DEF FindMailbox
<1>8. ASSUME NEW r \in Requests, PostAccepted(r) PROVE TypeOK'
    <2>1. target[r] \in Emails /\ carry[r] \in Words
        <3>1. pc[r] # "idle"
            BY <1>8 DEF PostAccepted
        <3>2. QED
            BY <3>1
    <2>2. Len(gmail[target[r]]) + 1 \in Nat
        BY <2>1
    <2>3. CallTypeOK'
        BY <1>8, <2>1, <2>2 DEF PostAccepted, Goto, Steps
    <2>4. gmail' \in [Emails -> Seq(Words)]
        BY <1>8, <2>1 DEF PostAccepted, GmailAdds
    <2>5. QED
        BY <1>8, <2>3, <2>4 DEF PostAccepted
<1>9. ASSUME NEW r \in Requests, PostRefused(r) PROVE TypeOK'
    BY <1>9, <1>0, CallTypes, "fail" \in Steps DEF PostRefused, Steps
<1>10. ASSUME NEW r \in Requests, PostAnswerLost(r) PROVE TypeOK'
    <2>1. CallTypeOK'
        BY <1>10, <1>0, CallTypes, "fail" \in Steps DEF PostAnswerLost, Steps
    <2>2. QED
        BY <1>10, <2>1 DEF PostAnswerLost, GmailAdds
<1>11. ASSUME NEW r \in Requests, Complete(r) PROVE TypeOK'
    <2>1. /\ target[r] \in Emails /\ carry[r] \in Words \cup {NoWords}
          /\ draftId[r] \in Nat
        OBVIOUS
    <2>2. reply' \in [Emails -> Reply]
        BY <1>11, <2>1, <1>0, RowTypes DEF Complete
    <2>3. CallTypeOK'
        BY <1>11, <1>0, CallTypes DEF Complete, Steps
    <2>4. QED
        BY <1>11, <2>1, <2>2, <2>3 DEF Complete
<1>12. ASSUME NEW r \in Requests, MarkDrafted(r) PROVE TypeOK'
    <2>1. CallTypeOK'
        BY <1>12, <1>0, CallTypes, "fail" \in Steps DEF MarkDrafted, Steps
    <2>2. QED
        BY <1>12, <2>1 DEF MarkDrafted, SetState, EmailStates
<1>13. ASSUME NEW r \in Requests, Fail(r) PROVE TypeOK'
    <2>1. /\ target[r] \in Emails /\ carry[r] \in Words \cup {NoWords}
          /\ draftId[r] \in Nat
        OBVIOUS
    <2>2. reply' \in [Emails -> Reply]
        BY <1>13, <2>1, <1>0, RowTypes DEF Fail
    <2>3. CallTypeOK'
        BY <1>13, <1>0, CallTypes DEF Fail, Steps
    <2>4. QED
        BY <1>13, <2>1, <2>2, <2>3 DEF Fail
<1>14. ASSUME NEW r \in Requests, MarkFailed(r) PROVE TypeOK'
    <2>1. CallTypeOK'
        BY <1>14, <1>0, CallTypes, "alert" \in Steps DEF MarkFailed, Steps
    <2>2. QED
        BY <1>14, <2>1 DEF MarkFailed, SetState, EmailStates
<1>22. ASSUME NEW r \in Requests, AddAlert(r) PROVE TypeOK'
    <2>1. CallTypeOK'
        BY <1>22, <1>0, CallTypes, "fail" \in Steps DEF AddAlert, Steps
    <2>2. QED
        BY <1>22, <2>1 DEF AddAlert
<1>15. ASSUME NEW r \in Requests, Die(r) PROVE TypeOK'
    <2>1. CallTypeOK'
        BY <1>15, <1>0, CallTypes, "fail" \in Steps DEF Die, Steps
    <2>2. QED
        BY <1>15, <2>1 DEF Die
<1>16. ASSUME NEW e \in Emails, NEW w \in Words, EditDraft(e, w) PROVE TypeOK'
    BY <1>16 DEF EditDraft
<1>17. ASSUME NEW e \in Emails, Dismiss(e) PROVE TypeOK'
    BY <1>17 DEF Dismiss, SetState, EmailStates
<1>18. CASE DismissErrors
    BY <1>18 DEF DismissErrors
<1>19. ASSUME NEW m \in Mailboxes, RemoveMailbox(m) PROVE TypeOK'
    BY <1>19 DEF RemoveMailbox, NoReply, Reply, ReplyStatus, EmailStates
<1>20. CASE UNCHANGED vars
    BY <1>20 DEF vars
<1>21. QED
    BY <1>1, <1>2, <1>3, <1>4, <1>5, <1>6, <1>7, <1>8, <1>9, <1>10, <1>11,
       <1>12, <1>13, <1>14, <1>15, <1>16, <1>17, <1>18, <1>19, <1>20, <1>22
       DEF Next, Continue, Post

\* Every state the worker, the database and Gmail can reach is well formed.
THEOREM TypeCorrect == Spec => []TypeOK
BY TypeInit, TypeStep, PTL DEF Spec

(***************************************************************************)
(* A call changes its own locals and its own email's rows, nothing else.   *)
(***************************************************************************)

OnlyMoves(r) ==
    /\ \A s \in Requests \ {r} :
          /\ pc'[s] = pc[s] /\ target'[s] = target[s]
          /\ carry'[s] = carry[s] /\ draftId'[s] = draftId[s]
    /\ target'[r] = target[r]
    /\ \A e \in Emails \ {target[r]} :
          /\ email'[e] = email[e] /\ reply'[e] = reply[e]
          /\ gmail'[e] = gmail[e] /\ orphan'[e] = orphan[e]

LEMMA Locality ==
    ASSUME TypeOK, NEW r \in Requests, Continue(r) \/ Die(r)
    PROVE  OnlyMoves(r)
<1> USE DEF TypeOK, OnlyMoves, Goto, Return, Step, dbVars
<1>1. CASE Reserve(r)
    BY <1>1 DEF Reserve, ReserveRow
<1>2. CASE ReadTaken(r)
    BY <1>2 DEF ReadTaken
<1>3. CASE ClaimRead(r) \/ AnswerBeingCreated(r)
    BY <1>3 DEF ClaimRead, AnswerBeingCreated
<1>4. CASE ClaimWrite(r)
    BY <1>4 DEF ClaimWrite, ClaimRow
<1>5. CASE FindMailbox(r)
    BY <1>5 DEF FindMailbox, FailRow
<1>6. CASE PostAccepted(r)
    BY <1>6 DEF PostAccepted, GmailAdds
<1>7. CASE PostRefused(r)
    BY <1>7 DEF PostRefused, NextAttempt
<1>8. CASE PostAnswerLost(r)
    BY <1>8 DEF PostAnswerLost, NextAttempt, GmailAdds
<1>9. CASE Complete(r)
    BY <1>9 DEF Complete, CompleteRow
<1>10. CASE MarkDrafted(r)
    BY <1>10 DEF MarkDrafted, SetState
<1>11. CASE Fail(r)
    BY <1>11 DEF Fail, FailRow
<1>12. CASE MarkFailed(r) \/ AddAlert(r)
    BY <1>12 DEF MarkFailed, AddAlert, SetState
<1>13. CASE Die(r)
    BY <1>13 DEF Die
<1>14. QED
    BY <1>1, <1>2, <1>3, <1>4, <1>5, <1>6, <1>7, <1>8, <1>9, <1>10, <1>11,
       <1>12, <1>13 DEF Continue, Post

(***************************************************************************)
(* Steps that do not disturb the invariant at e.                           *)
(***************************************************************************)

LEMMA RowFrame ==
    ASSUME NEW e \in Emails, RowInv(e),
           Present(e)' <=> Present(e), HasReply(e)' <=> HasReply(e),
           gmail'[e] = gmail[e] \/ HasReply(e) \/ ~Present(e),
           \A s \in Requests :
              target'[s] = e /\ pc'[s] \in Past =>
                 (target[s] = e /\ pc[s] \in Past) \/ HasReply(e) \/ ~Present(e)
    PROVE  RowInv(e)'
BY DEF RowInv

\* Where a call does not hold a row, nor owes a created one its state.
Unheld == {"idle", "reserve", "taken", "claim", "claimWrite", "markFailed",
           "alert"}

\* What s holds at e, if anything, it held before, at the same stage.
KeepsHold(s, e) ==
    \/ target'[s] # e
    \/ pc'[s] \in Unheld
    \/ /\ target'[s] = target[s] /\ carry'[s] = carry[s]
       /\ draftId'[s] = draftId[s]
       /\ \/ pc'[s] = pc[s]
          \/ pc[s] \in {"mailbox", "post", "fail"} /\ pc'[s] \in {"post", "fail"}

LEMMA LockFrame ==
    ASSUME NEW e \in Emails, LockInv(e),
           Present(e)' <=> Present(e),
           email'[e] = "drafted" => email[e] = "drafted",
           reply'[e] = reply[e], gmail'[e] = gmail[e], orphan'[e] = orphan[e],
           \A s \in Requests : KeepsHold(s, e)
    PROVE  LockInv(e)'
<1>1. Acknowledged(e)' = Acknowledged(e)
    BY DEF Acknowledged
<1>2. \A s \in Requests : Holds(s, e)' =>
          /\ Holds(s, e) /\ carry'[s] = carry[s] /\ draftId'[s] = draftId[s]
          /\ pc'[s] = "complete" <=> pc[s] = "complete"
    BY DEF KeepsHold, Holds, Unheld
<1>3. LockHeld(e)'
    BY <1>2 DEF LockInv, LockHeld
<1>4. Accounted(e)'
    BY <1>1, <1>2 DEF LockInv, Accounted
<1>5. Recorded(e)'
    BY <1>1 DEF LockInv, Recorded, KeepsHold, Unheld
<1>6. QED
    BY <1>3, <1>4, <1>5 DEF LockInv

(***************************************************************************)
(* RowInv is inductive.                                                    *)
(***************************************************************************)

LEMMA RowOfCall ==
    ASSUME TypeOK, NEW r \in Requests, NEW e \in Emails, RowInv(e),
           Continue(r) \/ Die(r)
    PROVE  RowInv(e)'
<1> USE DEF TypeOK, Goto, Return, Step, dbVars, Present, HasReply
<1>0. OnlyMoves(r)
    BY Locality
<1>1. CASE e # target[r]
    BY <1>0, <1>1, RowFrame DEF OnlyMoves
<1>2. CASE e = target[r]
    <2>1. CASE Reserve(r)
        BY <2>1, <1>2 DEF Reserve, ReserveRow, RowInv, Past
    <2>2. CASE ReadTaken(r)
        BY <2>2, <1>2 DEF ReadTaken, RowInv, Past
    <2>3. CASE ClaimRead(r) \/ AnswerBeingCreated(r)
        BY <2>3, <1>2 DEF ClaimRead, AnswerBeingCreated, RowInv, Past
    <2>4. CASE ClaimWrite(r)
        BY <2>4, <1>2 DEF ClaimWrite, ClaimRow, RowInv, Past
    <2>5. CASE FindMailbox(r)
        BY <2>5, <1>2 DEF FindMailbox, FailRow, RowInv, Past
    <2>6. CASE PostAccepted(r)
        BY <2>6, <1>2 DEF PostAccepted, GmailAdds, RowInv, Past
    <2>7. CASE PostRefused(r)
        BY <2>7, <1>2 DEF PostRefused, NextAttempt, RowInv, Past
    <2>8. CASE PostAnswerLost(r)
        BY <2>8, <1>2 DEF PostAnswerLost, NextAttempt, GmailAdds, RowInv, Past
    <2>9. CASE Complete(r)
        BY <2>9, <1>2 DEF Complete, CompleteRow, RowInv, Past
    <2>10. CASE MarkDrafted(r)
        BY <2>10, <1>2 DEF MarkDrafted, SetState, RowInv, Past
    <2>11. CASE Fail(r)
        BY <2>11, <1>2 DEF Fail, FailRow, RowInv, Past
    <2>12. CASE MarkFailed(r) \/ AddAlert(r)
        BY <2>12, <1>2 DEF MarkFailed, AddAlert, SetState, RowInv, Past
    <2>13. CASE Die(r)
        BY <2>13, <1>2 DEF Die, RowInv, Past
    <2>14. QED
        BY <2>1, <2>2, <2>3, <2>4, <2>5, <2>6, <2>7, <2>8, <2>9, <2>10, <2>11,
           <2>12, <2>13 DEF Continue, Post
<1>3. QED
    BY <1>1, <1>2

LEMMA RowStep ==
    ASSUME TypeOK, NEW e \in Emails, RowInv(e), [Next]_vars
    PROVE  RowInv(e)'
<1> USE DEF TypeOK, dbVars, callVars, Present, HasReply
<1>1. ASSUME NEW r \in Requests, NEW d \in Emails, Begin(r, d)
      PROVE  RowInv(e)'
    BY <1>1 DEF Begin, Goto, RowInv, Past
<1>2. ASSUME NEW r \in Requests, Continue(r) \/ Die(r) PROVE RowInv(e)'
    BY <1>2, RowOfCall
<1>3. ASSUME NEW d \in Emails, NEW w \in Words, EditDraft(d, w)
      PROVE  RowInv(e)'
    BY <1>3 DEF EditDraft, RowInv
<1>4. ASSUME NEW d \in Emails, Dismiss(d) PROVE RowInv(e)'
    BY <1>4 DEF Dismiss, SetState, RowInv
<1>5. CASE DismissErrors
    BY <1>5 DEF DismissErrors, RowInv
<1>6. ASSUME NEW m \in Mailboxes, RemoveMailbox(m) PROVE RowInv(e)'
    BY <1>6 DEF RemoveMailbox, NoReply, RowInv
<1>7. CASE UNCHANGED vars
    BY <1>7 DEF vars, RowInv
<1>8. QED
    BY <1>1, <1>2, <1>3, <1>4, <1>5, <1>6, <1>7 DEF Next

(***************************************************************************)
(* IdInv is inductive.                                                     *)
(***************************************************************************)

\* The numbering of an email's drafts grows by one, by Gmail's hand.
LEMMA Numbering ==
    ASSUME TypeOK, NEW e \in Emails, NEW w \in Words, GmailAdds(e, w)
    PROVE  /\ Len(gmail[e]) \in Nat
           /\ 1..Len(gmail[e])' = (1..Len(gmail[e])) \cup {Len(gmail[e]) + 1}
           /\ gmail'[e][Len(gmail[e]) + 1] = w
           /\ \A i \in 1..Len(gmail[e]) : gmail'[e][i] = gmail[e][i]
<1>1. gmail[e] \in Seq(Words) /\ gmail'[e] = Append(gmail[e], w)
    BY DEF TypeOK, GmailAdds
<1>2. Len(gmail[e]) \in Nat /\ Len(gmail'[e]) = Len(gmail[e]) + 1
    BY <1>1
<1>3. QED
    BY <1>1, <1>2

LEMMA IdStep ==
    ASSUME TypeOK, NEW e \in Emails, IdInv(e), [Next]_vars
    PROVE  IdInv(e)'
<1> USE DEF TypeOK, dbVars, callVars, Goto, Return, Step
<1>1. ASSUME NEW r \in Requests, NEW d \in Emails, Begin(r, d)
      PROVE  IdInv(e)'
    BY <1>1 DEF Begin, IdInv
<1>2. ASSUME NEW r \in Requests, Continue(r) \/ Die(r) PROVE IdInv(e)'
    <2>0. OnlyMoves(r)
        BY <1>2, Locality
    <2>1. CASE e # target[r]
        BY <2>0, <2>1 DEF OnlyMoves, IdInv
    <2>2. CASE e = target[r]
        <3>1. CASE PostAccepted(r)
            <4>1. GmailAdds(e, carry[r]) /\ carry[r] \in Words
                BY <3>1, <2>2 DEF PostAccepted
            <4>2. \A s \in Requests \ {r} : target'[s] = target[s]
                     /\ pc'[s] = pc[s] /\ draftId'[s] = draftId[s]
                BY <2>0 DEF OnlyMoves
            <4>3. orphan'[e] = orphan[e] /\ draftId'[r] = Len(gmail[e]) + 1
                BY <3>1, <2>2 DEF PostAccepted
            <4>4. Len(gmail[e]) + 1 \in 1..Len(gmail'[e])
                BY <4>1, Numbering
            <4>5. 1..Len(gmail[e]) \subseteq 1..Len(gmail'[e])
                BY <4>1, Numbering
            <4>6. ASSUME NEW s \in Requests, target'[s] = e, pc'[s] = "complete"
                  PROVE  draftId'[s] \in 1..Len(gmail'[e])
                <5>1. CASE s = r
                    BY <5>1, <4>3, <4>4
                <5>2. CASE s # r
                    BY <5>2, <4>6, <4>2, <4>5 DEF IdInv
                <5>3. QED
                    BY <5>1, <5>2
            <4>7. QED
                BY <4>3, <4>5, <4>6 DEF IdInv
        <3>2. CASE PostAnswerLost(r)
            <4>1. GmailAdds(e, carry[r]) /\ carry[r] \in Words
                BY <3>2, <2>2 DEF PostAnswerLost
            <4>2. orphan'[e] = orphan[e] \cup {Len(gmail[e]) + 1}
                BY <3>2, <2>2 DEF PostAnswerLost
            <4>3. \A s \in Requests : target'[s] = e /\ pc'[s] = "complete" =>
                     target[s] = e /\ pc[s] = "complete" /\ draftId'[s] = draftId[s]
                BY <3>2 DEF PostAnswerLost, NextAttempt
            <4>4. QED
                BY <4>1, <4>2, <4>3, Numbering DEF IdInv
        <3>3. CASE Die(r)
            BY <3>3, <2>2 DEF Die, IdInv
        <3>4. CASE \/ Reserve(r) \/ ReadTaken(r) \/ ClaimRead(r)
                   \/ AnswerBeingCreated(r) \/ ClaimWrite(r) \/ FindMailbox(r)
                   \/ PostRefused(r)
            BY <3>4 DEF Reserve, ReadTaken, ClaimRead, AnswerBeingCreated,
                        ClaimWrite, FindMailbox, PostRefused, NextAttempt, IdInv
        <3>5. CASE \/ Complete(r) \/ MarkDrafted(r) \/ Fail(r) \/ MarkFailed(r)
                   \/ AddAlert(r)
            BY <3>5 DEF Complete, MarkDrafted, Fail, MarkFailed, AddAlert, IdInv
        <3>6. QED
            BY <1>2, <3>1, <3>2, <3>3, <3>4, <3>5 DEF Continue, Post
    <2>3. QED
        BY <2>1, <2>2
<1>3. ASSUME NEW d \in Emails, NEW w \in Words, EditDraft(d, w)
      PROVE  IdInv(e)'
    BY <1>3 DEF EditDraft, IdInv
<1>4. ASSUME NEW d \in Emails, Dismiss(d) PROVE IdInv(e)'
    BY <1>4 DEF Dismiss, IdInv
<1>5. CASE DismissErrors
    BY <1>5 DEF DismissErrors, IdInv
<1>6. ASSUME NEW m \in Mailboxes, RemoveMailbox(m) PROVE IdInv(e)'
    BY <1>6 DEF RemoveMailbox, IdInv
<1>7. CASE UNCHANGED vars
    BY <1>7 DEF vars, IdInv
<1>8. QED
    BY <1>1, <1>2, <1>3, <1>4, <1>5, <1>6, <1>7 DEF Next

(***************************************************************************)
(* LockInv is inductive for an email until two callers take its row over.  *)
(* First the steps that disturb it, at the email of the call that takes    *)
(* them.                                                                   *)
(***************************************************************************)

LEMMA ReserveLock ==
    ASSUME TypeOK, NEW r \in Requests, NEW e \in Emails, e = target[r],
           RowInv(e), LockInv(e), Reserve(r)
    PROVE  LockInv(e)'
<1> USE DEF TypeOK, Goto, Step, dbVars, Present, HasReply
<1>0. OnlyMoves(r)
    BY Locality DEF Continue
<1>1. CASE ReserveRow(e, carry[r])
    <2>1. /\ email[e] # "absent" /\ reply[e].status = "none"
          /\ reply'[e] = [status |-> "pending", words |-> carry[r],
                         draftId |-> 0]
        BY <1>1 DEF ReserveRow
    <2>2. /\ pc'[r] = "mailbox" /\ carry'[r] = carry[r]
          /\ email' = email /\ gmail' = gmail /\ orphan' = orphan
        BY <1>1 DEF Reserve, ReserveRow
    <2>3. \A s \in Requests : ~Holds(s, e)
        BY <2>1 DEF LockInv, LockHeld
    <2>4. Acknowledged(e) = {} /\ Acknowledged(e)' = {}
        BY <2>1, <2>2 DEF LockInv, Accounted, Acknowledged
    <2>5. \A s \in Requests : Holds(s, e)' => s = r
        BY <2>3, <1>0 DEF Holds, OnlyMoves
    <2>6. LockHeld(e)'
        BY <2>1, <2>2, <2>5 DEF LockHeld
    <2>7. Accounted(e)'
        BY <2>2, <2>4, <2>5 DEF Accounted
    <2>8. Recorded(e)'
        BY <2>1, <2>2, <1>0 DEF Recorded, LockInv, OnlyMoves
    <2>9. QED
        BY <2>6, <2>7, <2>8 DEF LockInv
<1>2. CASE reply' = reply /\ pc' = [pc EXCEPT ![r] = "taken"]
    BY <1>2, <1>0, LockFrame DEF Reserve, OnlyMoves, KeepsHold, Unheld
<1>3. QED
    BY <1>1, <1>2 DEF Reserve

LEMMA ClaimLock ==
    ASSUME TypeOK, NEW r \in Requests, NEW e \in Emails, e = target[r],
           RowInv(e), LockInv(e), ClaimWrite(r), e \notin stale'
    PROVE  LockInv(e)'
<1> USE DEF TypeOK, Goto, Step, dbVars, Present, HasReply
<1>0. OnlyMoves(r)
    BY Locality DEF Continue
<1>1. reply[e].status = "failed"
    BY DEF ClaimWrite
<1>2. email[e] # "absent"
    BY <1>1 DEF RowInv
<1>3. /\ reply'[e].status = "pending" /\ reply'[e].words = carry[r]
      /\ pc'[r] = "mailbox" /\ carry'[r] = carry[r]
      /\ email' = email /\ gmail' = gmail /\ orphan' = orphan
    BY <1>1 DEF ClaimWrite, ClaimRow, Reply
<1>4. \A s \in Requests : ~Holds(s, e)
    BY <1>1, <1>2 DEF LockInv, LockHeld
<1>5. Acknowledged(e) = {} /\ Acknowledged(e)' = {}
    BY <1>1, <1>2, <1>3 DEF LockInv, Accounted, Acknowledged
<1>6. \A s \in Requests : Holds(s, e)' => s = r
    BY <1>4, <1>0 DEF Holds, OnlyMoves
<1>7. LockHeld(e)'
    BY <1>3, <1>6 DEF LockHeld
<1>8. Accounted(e)'
    BY <1>3, <1>5, <1>6 DEF Accounted
<1>9. Recorded(e)'
    <2>1. /\ email[e] # "drafted"
          /\ \A s \in Requests : ~(target[s] = e /\ pc[s] = "markDrafted")
        BY <1>1, <1>2 DEF Recorded, LockInv
    <2>2. \A s \in Requests : ~(target'[s] = e /\ pc'[s] = "markDrafted")
        <3>1. ASSUME NEW s \in Requests, s # r, target'[s] = e
              PROVE  pc'[s] # "markDrafted"
            BY <2>1, <3>1, <1>0 DEF OnlyMoves
        <3>2. pc'[r] # "markDrafted"
            BY <1>3
        <3>3. QED
            BY <3>1, <3>2
    <2>3. QED
        BY <2>1, <2>2, <1>3 DEF Recorded
<1>10. QED
    BY <1>7, <1>8, <1>9 DEF LockInv

LEMMA AcceptedLock ==
    ASSUME TypeOK, NEW r \in Requests, NEW e \in Emails, e = target[r],
           RowInv(e), IdInv(e), LockInv(e), PostAccepted(r)
    PROVE  LockInv(e)'
<1> USE DEF TypeOK, Goto, dbVars, Present, HasReply
<1> DEFINE n == Len(gmail[e]) + 1
<1>0. OnlyMoves(r)
    BY Locality DEF Continue, Post
<1>1. /\ pc[r] = "post" /\ pc'[r] = "complete" /\ carry'[r] = carry[r]
      /\ draftId'[r] = n /\ carry[r] \in Words
      /\ email' = email /\ reply' = reply /\ orphan' = orphan
      /\ GmailAdds(e, carry[r])
    BY DEF PostAccepted
<1>2. \A s \in Requests : Holds(s, e) <=> s = r
    BY <1>1 DEF LockInv, LockHeld, Holds
<1>3. \A s \in Requests : Holds(s, e)' => s = r
    BY <1>2, <1>0 DEF Holds, OnlyMoves
<1>4. Acknowledged(e) = {}
    BY <1>1, <1>2 DEF LockInv, Accounted
<1>5. n \notin orphan[e]
    BY <1>1, Numbering DEF IdInv
<1>6. Acknowledged(e)' = {n}
    BY <1>1, <1>4, <1>5, Numbering DEF Acknowledged
<1>7. LockHeld(e)'
    BY <1>0, <1>1, <1>2, <1>3 DEF LockHeld, LockInv
<1>8. Accounted(e)'
    BY <1>1, <1>2, <1>3, <1>6, Numbering DEF Accounted, LockInv, LockHeld
<1>9. Recorded(e)'
    <2>1. reply[e].status # "created"
        BY <1>1, <1>2 DEF LockInv, LockHeld, RowInv
    <2>2. /\ email[e] # "drafted"
          /\ \A s \in Requests :
                ~(target[s] = e /\ pc[s] = "markDrafted" /\ Present(e))
        BY <2>1 DEF Recorded, LockInv
    <2>3. \A s \in Requests :
             ~(target'[s] = e /\ pc'[s] = "markDrafted" /\ Present(e)')
        <3>1. ASSUME NEW s \in Requests, s # r, target'[s] = e, Present(e)'
              PROVE  pc'[s] # "markDrafted"
            BY <2>2, <3>1, <1>1, <1>0 DEF OnlyMoves
        <3>2. pc'[r] # "markDrafted"
            BY <1>1
        <3>3. QED
            BY <3>1, <3>2
    <2>4. QED
        BY <2>1, <2>2, <2>3, <1>1 DEF Recorded
<1>10. QED
    BY <1>7, <1>8, <1>9 DEF LockInv

LEMMA LostLock ==
    ASSUME TypeOK, NEW r \in Requests, NEW e \in Emails, e = target[r],
           IdInv(e), LockInv(e), PostAnswerLost(r)
    PROVE  LockInv(e)'
<1> USE DEF TypeOK, Goto, dbVars, Present, HasReply
<1> DEFINE n == Len(gmail[e]) + 1
<1>0. OnlyMoves(r)
    BY Locality DEF Continue, Post
<1>1. /\ pc[r] = "post" /\ pc'[r] \in {"post", "fail"}
      /\ target' = target /\ carry' = carry /\ draftId' = draftId
      /\ email' = email /\ reply' = reply
      /\ orphan'[e] = orphan[e] \cup {n}
      /\ GmailAdds(e, carry[r]) /\ carry[r] \in Words
    BY DEF PostAnswerLost, NextAttempt
<1>2. \A s \in Requests : Holds(s, e) <=> s = r
    BY <1>1 DEF LockInv, LockHeld, Holds
<1>3. \A s \in Requests : Holds(s, e)' => s = r
    BY <1>0, <1>1, <1>2 DEF Holds, OnlyMoves
<1>4. Acknowledged(e) = {}
    BY <1>1, <1>2 DEF LockInv, Accounted
<1>5. Acknowledged(e)' = {}
    BY <1>1, <1>4, Numbering DEF Acknowledged
<1>6. LockHeld(e)'
    BY <1>1, <1>2, <1>3 DEF LockHeld, LockInv
<1>7. Accounted(e)'
    BY <1>1, <1>3, <1>5 DEF Accounted
<1>8. Recorded(e)'
    <2>1. \A s \in Requests :
             target'[s] = e /\ pc'[s] = "markDrafted" => pc[s] = "markDrafted"
        BY <1>0, <1>1 DEF OnlyMoves
    <2>2. reply[e].status # "created"
        BY <1>4 DEF LockInv, Recorded
    <2>3. QED
        BY <1>1, <2>1, <2>2 DEF Recorded, LockInv
<1>9. QED
    BY <1>6, <1>7, <1>8 DEF LockInv

LEMMA CompleteLock ==
    ASSUME TypeOK, NEW r \in Requests, NEW e \in Emails, e = target[r],
           RowInv(e), LockInv(e), Complete(r)
    PROVE  LockInv(e)'
<1> USE DEF TypeOK, Goto, Step, dbVars, Present, HasReply
<1>0. OnlyMoves(r)
    BY Locality DEF Continue
<1>1. /\ pc[r] = "complete" /\ pc'[r] = "markDrafted"
      /\ target' = target /\ carry' = carry /\ draftId' = draftId
      /\ email' = email /\ gmail' = gmail /\ orphan' = orphan
    BY DEF Complete
<1>2. \A s \in Requests : Holds(s, e) <=> s = r
    BY <1>1 DEF LockInv, LockHeld, Holds
<1>3. \A s \in Requests : ~Holds(s, e)'
    <2>1. \A s \in Requests : s # r => (Holds(s, e)' <=> Holds(s, e))
        BY <1>0, <1>1 DEF Holds, OnlyMoves
    <2>2. ~Holds(r, e)'
        BY <1>1 DEF Holds
    <2>3. QED
        BY <1>2, <2>1, <2>2
<1>4. Acknowledged(e)' = Acknowledged(e)
    BY <1>1 DEF Acknowledged
<1>5. /\ draftId[r] \in Acknowledged(e) /\ gmail[e][draftId[r]] = carry[r]
      /\ \A i, j \in Acknowledged(e) : i = j
    BY <1>1, <1>2 DEF LockInv, Accounted
<1>6. CASE Present(e)
    <2>1. /\ reply[e].status = "pending" /\ reply[e].words = carry[r]
        BY <1>2, <1>6 DEF LockInv, LockHeld
    <2>2. /\ reply'[e].status = "created" /\ reply'[e].draftId = draftId[r]
          /\ reply'[e].words = carry[r]
        BY <2>1 DEF Complete, CompleteRow, Reply
    <2>3. LockHeld(e)'
        BY <1>3 DEF LockHeld
    <2>4. Accounted(e)'
        BY <1>3, <1>4, <1>5, <2>2 DEF Accounted
    <2>5. Recorded(e)'
        BY <1>1, <1>4, <1>5, <2>2 DEF Recorded
    <2>6. QED
        BY <2>3, <2>4, <2>5 DEF LockInv
<1>7. CASE ~Present(e)
    <2>1. reply'[e] = reply[e] /\ reply[e].status = "none"
        BY <1>7 DEF Complete, CompleteRow, RowInv
    <2>2. LockHeld(e)'
        BY <1>3 DEF LockHeld
    <2>3. Accounted(e)'
        BY <1>1, <1>3, <1>4, <1>5, <1>7 DEF Accounted
    <2>4. Recorded(e)'
        BY <1>1, <1>7, <2>1 DEF Recorded
    <2>5. QED
        BY <2>2, <2>3, <2>4 DEF LockInv
<1>8. QED
    BY <1>6, <1>7

LEMMA FailLock ==
    ASSUME TypeOK, NEW r \in Requests, NEW e \in Emails, e = target[r],
           RowInv(e), LockInv(e), Fail(r)
    PROVE  LockInv(e)'
<1> USE DEF TypeOK, Goto, Step, dbVars, Present, HasReply
<1>0. OnlyMoves(r)
    BY Locality DEF Continue
<1>1. /\ pc[r] = "fail" /\ pc'[r] = "markFailed"
      /\ target' = target /\ carry' = carry /\ draftId' = draftId
      /\ email' = email /\ gmail' = gmail /\ orphan' = orphan
    BY DEF Fail
<1>2. \A s \in Requests : Holds(s, e) <=> s = r
    BY <1>1 DEF LockInv, LockHeld, Holds
<1>3. \A s \in Requests : ~Holds(s, e)'
    <2>1. \A s \in Requests : s # r => (Holds(s, e)' <=> Holds(s, e))
        BY <1>0, <1>1 DEF Holds, OnlyMoves
    <2>2. ~Holds(r, e)'
        BY <1>1 DEF Holds
    <2>3. QED
        BY <1>2, <2>1, <2>2
<1>4. Acknowledged(e) = {} /\ Acknowledged(e)' = {}
    BY <1>1, <1>2 DEF LockInv, Accounted, Acknowledged
<1>5. reply[e].status # "created"
    BY <1>4 DEF LockInv, Recorded
<1>6. reply'[e].status # "created"
    BY <1>5 DEF Fail, FailRow, Reply
<1>7. LockHeld(e)'
    BY <1>3 DEF LockHeld
<1>8. Accounted(e)'
    BY <1>3, <1>4 DEF Accounted
<1>9. Recorded(e)'
    <2>1. \A s \in Requests :
             target'[s] = e /\ pc'[s] = "markDrafted" => pc[s] = "markDrafted"
        BY <1>0, <1>1 DEF OnlyMoves
    <2>2. QED
        BY <1>1, <1>5, <1>6, <2>1 DEF Recorded, LockInv
<1>10. QED
    BY <1>7, <1>8, <1>9 DEF LockInv

LEMMA DraftedLock ==
    ASSUME TypeOK, NEW r \in Requests, NEW e \in Emails, e = target[r],
           LockInv(e), MarkDrafted(r)
    PROVE  LockInv(e)'
<1> USE DEF TypeOK, Goto, Return, Present
<1>0. OnlyMoves(r)
    BY Locality DEF Continue
<1>1. /\ pc[r] = "markDrafted" /\ pc'[r] = "idle"
      /\ reply' = reply /\ gmail' = gmail /\ orphan' = orphan
      /\ email'[e] = IF Present(e) THEN "drafted" ELSE email[e]
    BY DEF MarkDrafted, SetState
<1>2. Acknowledged(e)' = Acknowledged(e)
    BY <1>1 DEF Acknowledged
<1>3. Present(e) => reply[e].status = "created"
    BY <1>1 DEF LockInv, Recorded
<1>4. Present(e)' <=> Present(e)
    BY <1>1
<1>5. \A s \in Requests : Holds(s, e)' =>
          /\ Holds(s, e) /\ carry'[s] = carry[s] /\ draftId'[s] = draftId[s]
          /\ pc'[s] = pc[s]
    BY <1>0, <1>1 DEF OnlyMoves, Holds
<1>6. LockHeld(e)'
    BY <1>1, <1>4, <1>5 DEF LockHeld, LockInv
<1>7. Accounted(e)'
    BY <1>1, <1>2, <1>4, <1>5 DEF Accounted, LockInv
<1>8. Recorded(e)'
    <2>1. \A s \in Requests :
             target'[s] = e /\ pc'[s] = "markDrafted"
             => target[s] = e /\ pc[s] = "markDrafted"
        BY <1>0, <1>1 DEF OnlyMoves
    <2>2. QED
        BY <1>1, <1>2, <1>3, <1>4, <2>1 DEF Recorded, LockInv
<1>9. QED
    BY <1>6, <1>7, <1>8 DEF LockInv

LEMMA DieLock ==
    ASSUME TypeOK, NEW r \in Requests, NEW e \in Emails, e = target[r],
           RowInv(e), LockInv(e), Die(r)
    PROVE  LockInv(e)'
<1> USE DEF TypeOK, Goto, Return, dbVars, Present
<1>0. OnlyMoves(r)
    BY Locality
<1>1. /\ pc'[r] = "idle" /\ email' = email /\ reply' = reply /\ gmail' = gmail
    BY DEF Die
<1>2. CASE pc[r] # "complete"
    <2>1. orphan' = orphan
        BY <1>2 DEF Die
    <2>2. \A s \in Requests : KeepsHold(s, e)
        BY <1>0, <1>1 DEF OnlyMoves, KeepsHold, Unheld
    <2>3. QED
        BY <1>1, <2>1, <2>2, LockFrame
<1>3. CASE pc[r] = "complete"
    <2>1. orphan'[e] = orphan[e] \cup {draftId[r]}
        BY <1>3 DEF Die
    <2>2. \A s \in Requests : Holds(s, e) <=> s = r
        BY <1>3 DEF LockInv, LockHeld, Holds
    <2>3. \A s \in Requests : ~Holds(s, e)'
        <3>1. \A s \in Requests : s # r => (Holds(s, e)' <=> Holds(s, e))
            BY <1>0 DEF Holds, OnlyMoves
        <3>2. ~Holds(r, e)'
            BY <1>1 DEF Holds
        <3>3. QED
            BY <2>2, <3>1, <3>2
    <2>4. Acknowledged(e)' = {}
        <3>1. draftId[r] \in Acknowledged(e) /\ \A i, j \in Acknowledged(e) : i = j
            BY <1>3, <2>2 DEF LockInv, Accounted
        <3>2. Acknowledged(e)' = Acknowledged(e) \ {draftId[r]}
            BY <1>1, <2>1 DEF Acknowledged
        <3>3. QED
            BY <3>1, <3>2
    <2>5. reply[e].status # "created"
        <3>1. CASE Present(e)
            BY <2>2, <3>1 DEF LockInv, LockHeld
        <3>2. CASE ~Present(e)
            BY <3>2 DEF RowInv, HasReply
        <3>3. QED
            BY <3>1, <3>2
    <2>6. LockHeld(e)'
        BY <2>3 DEF LockHeld
    <2>7. Accounted(e)'
        BY <2>3, <2>4 DEF Accounted
    <2>8. Recorded(e)'
        <3>1. \A s \in Requests :
                 target'[s] = e /\ pc'[s] = "markDrafted"
                 => target[s] = e /\ pc[s] = "markDrafted"
            BY <1>0, <1>1 DEF OnlyMoves
        <3>2. QED
            BY <1>1, <2>5, <3>1 DEF Recorded, LockInv
    <2>9. QED
        BY <2>6, <2>7, <2>8 DEF LockInv
<1>4. QED
    BY <1>2, <1>3

\* What a call does to an email's lock.
LEMMA LockOfCall ==
    ASSUME TypeOK, NEW r \in Requests, NEW e \in Emails, RowInv(e), IdInv(e),
           LockInv(e), e \notin stale', Continue(r) \/ Die(r)
    PROVE  LockInv(e)'
<1> USE DEF TypeOK, Goto, Return, Step, dbVars, Present
<1>0. OnlyMoves(r)
    BY Locality
<1>1. CASE e # target[r]
    <2>1. \A s \in Requests : KeepsHold(s, e)
        BY <1>0, <1>1 DEF OnlyMoves, KeepsHold
    <2>2. QED
        BY <1>0, <1>1, <2>1, LockFrame DEF OnlyMoves
<1>2. CASE e = target[r]
    <2>1. CASE Reserve(r)
        BY <2>1, <1>2, ReserveLock
    <2>2. CASE ReadTaken(r) \/ ClaimRead(r) \/ AnswerBeingCreated(r)
        <3>1. pc'[r] \in Unheld
            BY <2>2 DEF ReadTaken, ClaimRead, AnswerBeingCreated, Unheld
        <3>2. \A s \in Requests : KeepsHold(s, e)
            BY <1>0, <3>1 DEF OnlyMoves, KeepsHold
        <3>3. email' = email /\ reply' = reply /\ gmail' = gmail /\ orphan' = orphan
            BY <2>2 DEF ReadTaken, ClaimRead, AnswerBeingCreated
        <3>4. QED
            BY <3>2, <3>3, LockFrame
    <2>3. CASE ClaimWrite(r)
        BY <2>3, <1>2, ClaimLock
    <2>4. CASE FindMailbox(r)
        <3>1. reply'[e] = reply[e]
            BY <2>4, <1>2 DEF FindMailbox, FailRow, RowInv
        <3>2. /\ pc[r] = "mailbox"
              /\ \/ pc'[r] = "post" /\ UNCHANGED <<target, carry, draftId>>
                 \/ pc'[r] = "idle"
            BY <2>4 DEF FindMailbox
        <3>3. \A s \in Requests : KeepsHold(s, e)
            BY <1>0, <3>2 DEF OnlyMoves, KeepsHold, Unheld
        <3>4. email' = email /\ gmail' = gmail /\ orphan' = orphan
            BY <2>4 DEF FindMailbox
        <3>5. QED
            BY <3>1, <3>3, <3>4, LockFrame
    <2>5. CASE PostAccepted(r)
        BY <2>5, <1>2, AcceptedLock
    <2>6. CASE PostRefused(r)
        <3>1. /\ pc[r] = "post" /\ pc'[r] \in {"post", "fail"}
              /\ UNCHANGED <<target, carry, draftId>>
            BY <2>6 DEF PostRefused, NextAttempt
        <3>2. \A s \in Requests : KeepsHold(s, e)
            BY <1>0, <3>1 DEF OnlyMoves, KeepsHold
        <3>3. email' = email /\ reply' = reply /\ gmail' = gmail /\ orphan' = orphan
            BY <2>6 DEF PostRefused
        <3>4. QED
            BY <3>2, <3>3, LockFrame
    <2>7. CASE PostAnswerLost(r)
        BY <2>7, <1>2, LostLock
    <2>8. CASE Complete(r)
        BY <2>8, <1>2, CompleteLock
    <2>9. CASE MarkDrafted(r)
        BY <2>9, <1>2, DraftedLock
    <2>10. CASE Fail(r)
        BY <2>10, <1>2, FailLock
    <2>11. CASE MarkFailed(r) \/ AddAlert(r)
        <3>1. pc'[r] \in Unheld
            BY <2>11 DEF MarkFailed, AddAlert, Unheld
        <3>2. \A s \in Requests : KeepsHold(s, e)
            BY <1>0, <3>1 DEF OnlyMoves, KeepsHold, Unheld
        <3>3. /\ reply' = reply /\ gmail' = gmail /\ orphan' = orphan
              /\ Present(e)' <=> Present(e)
              /\ email'[e] # "drafted" \/ email'[e] = email[e]
            BY <2>11, <1>2 DEF MarkFailed, AddAlert, SetState
        <3>4. QED
            BY <3>2, <3>3, LockFrame
    <2>12. CASE Die(r)
        BY <2>12, <1>2, DieLock
    <2>13. QED
        BY <2>1, <2>2, <2>3, <2>4, <2>5, <2>6, <2>7, <2>8, <2>9, <2>10, <2>11,
           <2>12 DEF Continue, Post
<1>3. QED
    BY <1>1, <1>2

\* A deleted email's row is gone with whatever it recorded.
LEMMA DeletedLock ==
    ASSUME TypeOK, NEW e \in Emails, LockInv(e), NEW m \in Mailboxes,
           RemoveMailbox(m)
    PROVE  LockInv(e)'
<1> USE DEF TypeOK, callVars
<1>1. /\ UNCHANGED <<pc, target, carry, draftId, gmail, orphan>>
      /\ Acknowledged(e)' = Acknowledged(e)
    BY DEF RemoveMailbox, Acknowledged
<1>2. \A s \in Requests : Holds(s, e)' <=> Holds(s, e)
    BY <1>1 DEF Holds
<1>3. CASE MailboxOf[e] = m
    <2>1. email'[e] = "absent" /\ reply'[e].status = "none"
        BY <1>3 DEF RemoveMailbox, NoReply
    <2>2. LockHeld(e)'
        BY <1>1, <1>2, <2>1 DEF LockHeld, LockInv, Present
    <2>3. Accounted(e)'
        BY <1>1, <1>2, <2>1 DEF Accounted, LockInv, Present
    <2>4. Recorded(e)'
        BY <2>1 DEF Recorded, Present
    <2>5. QED
        BY <2>2, <2>3, <2>4 DEF LockInv
<1>4. CASE MailboxOf[e] # m
    <2>1. email'[e] = email[e] /\ reply'[e] = reply[e]
        BY <1>4 DEF RemoveMailbox
    <2>2. \A s \in Requests : KeepsHold(s, e)
        BY <1>1 DEF KeepsHold
    <2>3. QED
        BY <1>1, <2>1, <2>2, LockFrame DEF Present
<1>5. QED
    BY <1>3, <1>4

LEMMA LockStep ==
    ASSUME TypeOK, NEW e \in Emails, RowInv(e), IdInv(e), LockInv(e),
           e \notin stale', [Next]_vars
    PROVE  LockInv(e)'
<1> USE DEF TypeOK, dbVars, callVars, Present
<1>1. ASSUME NEW r \in Requests, NEW d \in Emails, Begin(r, d)
      PROVE  LockInv(e)'
    <2>1. /\ email' = email /\ reply' = reply /\ gmail' = gmail /\ orphan' = orphan
          /\ pc'[r] = "reserve"
          /\ \A s \in Requests \ {r} : pc'[s] = pc[s] /\ target'[s] = target[s]
                /\ carry'[s] = carry[s] /\ draftId'[s] = draftId[s]
        BY <1>1 DEF Begin, Goto
    <2>2. \A s \in Requests : KeepsHold(s, e)
        BY <2>1 DEF KeepsHold, Unheld
    <2>3. QED
        BY <2>1, <2>2, LockFrame
<1>2. ASSUME NEW r \in Requests, Continue(r) \/ Die(r) PROVE LockInv(e)'
    BY <1>2, LockOfCall
<1>3. CASE \/ \E d \in Emails : (\E w \in Words : EditDraft(d, w)) \/ Dismiss(d)
           \/ DismissErrors \/ UNCHANGED vars
    <2>1. /\ reply' = reply /\ gmail' = gmail /\ orphan' = orphan
          /\ UNCHANGED <<pc, target, carry, draftId>>
        BY <1>3 DEF EditDraft, Dismiss, DismissErrors, vars
    <2>2. /\ Present(e)' <=> Present(e)
          /\ email'[e] # "drafted" \/ email'[e] = email[e]
        BY <1>3 DEF EditDraft, Dismiss, SetState, DismissErrors, vars
    <2>3. \A s \in Requests : KeepsHold(s, e)
        BY <2>1 DEF KeepsHold
    <2>4. QED
        BY <2>1, <2>2, <2>3, LockFrame
<1>4. ASSUME NEW m \in Mailboxes, RemoveMailbox(m) PROVE LockInv(e)'
    BY <1>4, DeletedLock
<1>5. QED
    BY <1>1, <1>2, <1>3, <1>4 DEF Next

LEMMA StaleStays == TypeOK /\ [Next]_vars => stale \subseteq stale'
<1> SUFFICES ASSUME TypeOK, [Next]_vars PROVE stale \subseteq stale'
    OBVIOUS
<1>1. CASE stale' = stale
    BY <1>1
<1>2. ASSUME NEW r \in Requests, ClaimWrite(r) PROVE stale \subseteq stale'
    BY <1>2 DEF ClaimWrite
<1>3. QED
    BY <1>1, <1>2 DEF Next, Continue, Post, Begin, Reserve, ReadTaken, ClaimRead,
       AnswerBeingCreated, FindMailbox, PostAccepted, PostRefused,
       PostAnswerLost, Complete, MarkDrafted, Fail, MarkFailed, AddAlert, Die, EditDraft,
       Dismiss, DismissErrors, RemoveMailbox, vars

LEMMA IInvInit == Init => IInv
<1> SUFFICES ASSUME Init PROVE IInv
    OBVIOUS
<1>1. TypeOK
    BY TypeInit
<1>2. ASSUME NEW e \in Emails
      PROVE  /\ reply[e].status = "none" /\ email[e] = "needs_review"
             /\ gmail[e] = <<>> /\ Len(gmail[e]) = 0 /\ orphan[e] = {}
             /\ \A r \in Requests : pc[r] = "idle"
    BY DEF Init, NoReply
<1>3. ASSUME NEW e \in Emails PROVE RowInv(e) /\ IdInv(e)
    BY <1>2 DEF RowInv, IdInv, Present, HasReply, Past
<1>4. ASSUME NEW e \in Emails PROVE LockInv(e)
    BY <1>2 DEF LockInv, LockHeld, Accounted, Recorded, Holds, Acknowledged
<1>5. QED
    BY <1>1, <1>3, <1>4 DEF IInv

LEMMA IInvStep == IInv /\ [Next]_vars => IInv'
<1> SUFFICES ASSUME IInv, [Next]_vars PROVE IInv'
    OBVIOUS
<1>1. TypeOK /\ TypeOK'
    BY TypeStep DEF IInv
<1>2. ASSUME NEW e \in Emails PROVE RowInv(e)' /\ IdInv(e)'
    BY <1>1, RowStep, IdStep DEF IInv
<1>3. ASSUME NEW e \in Emails, e \notin stale' PROVE LockInv(e)'
    BY <1>1, <1>3, LockStep, StaleStays DEF IInv
<1>4. QED
    BY <1>1, <1>2, <1>3 DEF IInv

THEOREM Invariance == Spec => []IInv
BY IInvInit, IInvStep, PTL DEF Spec

(***************************************************************************)
(* The safety properties.                                                  *)
(***************************************************************************)

\* Of the drafts Gmail is known to have made, one per email at most: "exactly
\* one reply per email", for any number of concurrent calls, retries and deaths,
\* up to lost answers and overlapping claims.
THEOREM OneAcknowledged == Spec => []OneAcknowledgedDraft
<1>1. IInv => OneAcknowledgedDraft
    BY DEF IInv, OneAcknowledgedDraft, LockInv, Accounted
<1>2. QED
    BY <1>1, Invariance, PTL

\* The row is a lock: one create_reply call at a time owns it.
THEOREM MutualExclusion == Spec => []OneHolder
<1>1. IInv => OneHolder
    BY DEF IInv, OneHolder, LockInv, LockHeld
<1>2. QED
    BY <1>1, Invariance, PTL

\* A created row stores the words of the Gmail draft it names.
THEOREM LedgerIsGmail == Spec => []LedgerMatchesGmail
<1>1. IInv => LedgerMatchesGmail
    BY DEF IInv, LedgerMatchesGmail, LockInv, Recorded
<1>2. QED
    BY <1>1, Invariance, PTL

\* An email shown as drafted has a created reply.
THEOREM DraftedIsTrue == Spec => []DraftedMeansCreated
<1>1. IInv => DraftedMeansCreated
    BY DEF IInv, DraftedMeansCreated, LockInv, Recorded
<1>2. QED
    BY <1>1, Invariance, PTL

\* Whatever is in Gmail was reserved first, with no exception.
THEOREM ReservationFirst == Spec => []ReservedBeforeGmail
<1>1. IInv => ReservedBeforeGmail
    BY DEF IInv, ReservedBeforeGmail, RowInv
<1>2. QED
    BY <1>1, Invariance, PTL

(***************************************************************************)
(* The action properties.                                                  *)
(***************************************************************************)

LEMMA CreatedKept ==
    ASSUME IInv, [Next]_vars, NEW e \in Emails, reply[e].status = "created",
           email'[e] # "absent", e \notin stale'
    PROVE  reply'[e] = reply[e]
<1> USE DEF IInv, TypeOK, HasReply, dbVars, callVars
<1>1. RowInv(e) /\ LockInv(e)
    BY StaleStays
<1>2. Present(e) /\ \A r \in Requests : ~Holds(r, e)
    BY <1>1 DEF RowInv, LockInv, LockHeld
<1>3. ASSUME NEW r \in Requests, Reserve(r) PROVE reply'[e] = reply[e]
    BY <1>3 DEF Reserve, ReserveRow
<1>4. ASSUME NEW r \in Requests, ClaimWrite(r) PROVE reply'[e] = reply[e]
    BY <1>4 DEF ClaimWrite, ClaimRow
<1>5. ASSUME NEW r \in Requests, FindMailbox(r) \/ Complete(r) \/ Fail(r)
      PROVE  reply'[e] = reply[e]
    <2>1. target[r] # e
        BY <1>2, <1>5 DEF Holds, FindMailbox, Complete, Fail
    <2>2. QED
        BY <1>5, <2>1 DEF FindMailbox, Complete, Fail, FailRow, CompleteRow
<1>6. ASSUME NEW m \in Mailboxes, RemoveMailbox(m) PROVE reply'[e] = reply[e]
    BY <1>6 DEF RemoveMailbox
<1>7. CASE reply' = reply
    BY <1>7
<1>8. QED
    BY <1>3, <1>4, <1>5, <1>6, <1>7 DEF Next, Continue, Post, Begin, ReadTaken,
       ClaimRead, AnswerBeingCreated, PostAccepted, PostRefused, PostAnswerLost,
       MarkDrafted, MarkFailed, AddAlert, Die, EditDraft, Dismiss,
       DismissErrors, vars

\* A row in created is final, until the email is deleted or two claims overlap.
THEOREM CreatedIsKept == Spec => CreatedStaysCreated
<1>1. IInv /\ [Next]_vars =>
         [\A e \in Emails :
             reply[e].status = "created" /\ email'[e] # "absent" /\ e \notin stale'
             => reply'[e] = reply[e]]_vars
    BY CreatedKept
<1>2. QED
    BY <1>1, Invariance, PTL DEF Spec, CreatedStaysCreated

LEMMA GmailUnderPending ==
    ASSUME IInv, [Next]_vars, NEW e \in Emails, gmail'[e] # gmail[e],
           Present(e), e \notin stale
    PROVE  reply[e].status = "pending"
<1> USE DEF IInv, TypeOK, dbVars, callVars
<1>1. ASSUME NEW r \in Requests, PostAccepted(r) \/ PostAnswerLost(r)
      PROVE  reply[e].status = "pending"
    <2>1. target[r] = e /\ pc[r] = "post"
        BY <1>1 DEF PostAccepted, PostAnswerLost, GmailAdds
    <2>2. Holds(r, e)
        BY <2>1 DEF Holds
    <2>3. QED
        BY <2>2 DEF LockInv, LockHeld
<1>2. CASE gmail' = gmail
    BY <1>2
<1>3. QED
    BY <1>1, <1>2 DEF Next, Continue, Post, Begin, Reserve, ReadTaken, ClaimRead,
       ClaimWrite, AnswerBeingCreated, FindMailbox, PostRefused, Complete,
       MarkDrafted, Fail, MarkFailed, AddAlert, Die, EditDraft, Dismiss,
       DismissErrors, RemoveMailbox, vars

\* Gmail takes a draft only while the row says that one is being created.
THEOREM GmailUnderReservation == Spec => GmailOnlyWhilePending
<1>1. IInv /\ [Next]_vars =>
         [\A e \in Emails :
             gmail'[e] # gmail[e] /\ Present(e) /\ e \notin stale
             => reply[e].status = "pending"]_vars
    BY GmailUnderPending
<1>2. QED
    BY <1>1, Invariance, PTL DEF Spec, GmailOnlyWhilePending

(***************************************************************************)
(* The refinement: create_reply and its stores implement ReplyLedger.      *)
(***************************************************************************)

\* The ledger's view of e, and what it may do in a step.
Moves(e) ==
    \/ /\ LedgerStatus(e) \in {"none", "failed"} /\ Holder(e) = Nobody
       /\ LedgerStatus(e)' = "pending" /\ Holder(e)' \in Requests
    \/ /\ Holder(e) # Nobody /\ Holder(e)' = Nobody
       /\ \/ /\ LedgerStatus(e) = "pending"
             /\ LedgerStatus(e)' \in {"created", "failed"}
          \/ LedgerStatus(e)' = LedgerStatus(e)
    \/ /\ LedgerStatus(e) # "deleted" /\ LedgerStatus(e)' = "deleted"
       /\ Holder(e)' = Holder(e)
    \/ LedgerStatus(e)' = LedgerStatus(e) /\ Holder(e)' = Holder(e)

LEMMA HolderNow ==
    ASSUME NEW e \in Emails, LockHeld(e)
    PROVE  /\ \A r \in Requests : Holds(r, e) => Holder(e) = r
           /\ (\A r \in Requests : ~Holds(r, e)) => Holder(e) = Nobody
<1>1. ASSUME NEW r \in Requests, Holds(r, e) PROVE Holder(e) = r
    <2>1. \A s \in Requests : Holds(s, e) <=> s = r
        BY <1>1 DEF LockHeld
    <2>2. Holder(e) = CHOOSE s \in Requests : Holds(s, e)
        BY <1>1 DEF Holder
    <2>3. Holds(Holder(e), e) /\ Holder(e) \in Requests
        BY <1>1, <2>2
    <2>4. QED
        BY <2>1, <2>3
<1>2. QED
    BY <1>1 DEF Holder

LEMMA HolderNext ==
    ASSUME NEW e \in Emails, LockHeld(e)'
    PROVE  /\ \A r \in Requests : Holds(r, e)' => Holder(e)' = r
           /\ (\A r \in Requests : ~Holds(r, e)') => Holder(e)' = Nobody
<1>1. ASSUME NEW r \in Requests, Holds(r, e)' PROVE Holder(e)' = r
    <2>1. \A s \in Requests : Holds(s, e)' <=> s = r
        BY <1>1 DEF LockHeld
    <2>2. Holder(e)' = CHOOSE s \in Requests : Holds(s, e)'
        BY <1>1 DEF Holder
    <2>3. \E s \in Requests : Holds(s, e)' /\ s = Holder(e)'
        BY <1>1, <2>2
    <2>4. QED
        BY <2>1, <2>3
<1>2. QED
    BY <1>1 DEF Holder

LEMMA HolderRests ==
    ASSUME NEW e \in Emails, LockHeld(e), LockHeld(e)',
           \A s \in Requests : Holds(s, e)' <=> Holds(s, e)
    PROVE  Holder(e)' = Holder(e)
BY HolderNow, HolderNext

\* A call that is or becomes the holder.
LEMMA MovesOfTarget ==
    ASSUME TypeOK, NEW r \in Requests, NEW e \in Emails, e = target[r],
           RowInv(e), LockHeld(e), LockHeld(e)', e \notin stale',
           Continue(r) \/ Die(r)
    PROVE  Moves(e)
<1> USE DEF TypeOK, Goto, Step, Return, dbVars, Present, HasReply
<1>0. OnlyMoves(r)
    BY Locality
<1>1. \A s \in Requests \ {r} : Holds(s, e)' <=> Holds(s, e)
    BY <1>0 DEF OnlyMoves, Holds
<1>2. ASSUME Holds(r, e)' <=> Holds(r, e),
             LedgerStatus(e)' = LedgerStatus(e)
      PROVE  Moves(e)
    BY <1>1, <1>2, HolderRests DEF Moves
<1>3. ASSUME ~Holds(r, e), Holds(r, e)', Present(e),
             reply[e].status \in {"none", "failed"},
             LedgerStatus(e)' = "pending"
      PROVE  Moves(e)
    <2>1. \A s \in Requests : ~Holds(s, e)
        BY <1>3 DEF LockHeld
    <2>2. Holder(e) = Nobody /\ Holder(e)' = r
        BY <1>3, <2>1, HolderNow, HolderNext
    <2>3. LedgerStatus(e) \in {"none", "failed"}
        BY <1>3 DEF LedgerStatus
    <2>4. QED
        BY <1>3, <2>2, <2>3 DEF Moves
<1>4. ASSUME Holds(r, e), ~Holds(r, e)',
             \/ LedgerStatus(e)' = LedgerStatus(e)
             \/ LedgerStatus(e) = "pending" /\ LedgerStatus(e)' \in {"created", "failed"}
      PROVE  Moves(e)
    <2>1. \A s \in Requests : ~Holds(s, e)'
        BY <1>1, <1>4 DEF LockHeld
    <2>2. Holder(e) = r /\ Holder(e)' = Nobody
        BY <1>4, <2>1, HolderNow, HolderNext
    <2>3. QED
        BY <1>4, <2>2 DEF Moves
<1>5. CASE Reserve(r)
    BY <1>5, <1>2, <1>3 DEF Reserve, ReserveRow, Holds, LedgerStatus
<1>6. CASE \/ ReadTaken(r) \/ ClaimRead(r) \/ AnswerBeingCreated(r)
           \/ PostAccepted(r) \/ PostRefused(r) \/ PostAnswerLost(r)
    BY <1>6, <1>2 DEF ReadTaken, ClaimRead, AnswerBeingCreated, PostAccepted,
       PostRefused, PostAnswerLost, NextAttempt, Holds, LedgerStatus
<1>7. CASE ClaimWrite(r)
    <2>1. reply[e].status = "failed" /\ Present(e)
        BY <1>7 DEF ClaimWrite, RowInv
    <2>2. ~Holds(r, e) /\ Holds(r, e)'
        BY <1>7 DEF ClaimWrite, Holds
    <2>3. email' = email /\ reply'[e].status = "pending"
        BY <1>7, <2>1 DEF ClaimWrite, ClaimRow, Reply
    <2>4. QED
        BY <1>3, <2>1, <2>2, <2>3 DEF LedgerStatus
<1>8. CASE FindMailbox(r)
    <2>1. LedgerStatus(e)' = LedgerStatus(e)
        BY <1>8 DEF FindMailbox, FailRow, LedgerStatus
    <2>2. Holds(r, e)
        BY <1>8 DEF FindMailbox, Holds
    <2>3. QED
        BY <1>2, <1>4, <2>1, <2>2
<1>9. CASE Complete(r) \/ Fail(r)
    <2>1. Holds(r, e) /\ ~Holds(r, e)' /\ email' = email
        BY <1>9 DEF Complete, Fail, Holds
    <2>2. CASE Present(e)
        <3>1. reply[e].status = "pending"
            BY <2>1, <2>2 DEF LockHeld
        <3>2. reply'[e].status \in {"created", "failed"}
            <4>1. CASE Complete(r)
                BY <3>1, <4>1 DEF Complete, CompleteRow, Reply
            <4>2. CASE Fail(r)
                BY <3>1, <4>2 DEF Fail, FailRow, Reply
            <4>3. QED
                BY <1>9, <4>1, <4>2
        <3>3. QED
            BY <1>4, <2>1, <2>2, <3>1, <3>2 DEF LedgerStatus
    <2>3. CASE ~Present(e)
        BY <1>4, <2>1, <2>3 DEF LedgerStatus
    <2>4. QED
        BY <2>2, <2>3
<1>10. CASE MarkDrafted(r) \/ MarkFailed(r) \/ AddAlert(r)
    <2>1. LedgerStatus(e)' = LedgerStatus(e)
        BY <1>10 DEF MarkDrafted, MarkFailed, AddAlert, SetState, LedgerStatus
    <2>2. ~Holds(r, e) /\ ~Holds(r, e)'
        BY <1>10 DEF MarkDrafted, MarkFailed, AddAlert, Holds
    <2>3. QED
        BY <1>2, <2>1, <2>2
<1>11. CASE Die(r)
    <2>1. ~Holds(r, e)' /\ LedgerStatus(e)' = LedgerStatus(e)
        BY <1>11 DEF Die, Holds, LedgerStatus
    <2>2. QED
        BY <1>2, <1>4, <2>1
<1>12. QED
    BY <1>5, <1>6, <1>7, <1>8, <1>9, <1>10, <1>11 DEF Continue, Post

LEMMA MovesAlways ==
    ASSUME IInv, IInv', [Next]_vars, NEW e \in Emails, e \notin stale'
    PROVE  Moves(e)
<1> USE DEF Present, dbVars, callVars
<1>1. TypeOK /\ RowInv(e) /\ LockHeld(e) /\ LockHeld(e)'
    BY StaleStays DEF IInv, LockInv
<1>2. ASSUME email'[e] = email[e] \/ (Present(e)' <=> Present(e)),
             reply'[e] = reply[e],
             \A s \in Requests : Holds(s, e)' <=> Holds(s, e)
      PROVE  Moves(e)
    <2>1. Holder(e)' = Holder(e)
        BY <1>1, <1>2, HolderRests
    <2>2. LedgerStatus(e)' = LedgerStatus(e)
        BY <1>2 DEF LedgerStatus
    <2>3. QED
        BY <2>1, <2>2 DEF Moves
<1>3. ASSUME NEW r \in Requests, Continue(r) \/ Die(r) PROVE Moves(e)
    <2>1. CASE e = target[r]
        BY <1>1, <1>3, <2>1, MovesOfTarget
    <2>2. CASE e # target[r]
        <3>1. OnlyMoves(r)
            BY <1>1, <1>3, Locality
        <3>2. \A s \in Requests : Holds(s, e)' <=> Holds(s, e)
            BY <2>2, <3>1 DEF OnlyMoves, Holds
        <3>3. email'[e] = email[e] /\ reply'[e] = reply[e]
            BY <2>2, <3>1 DEF OnlyMoves
        <3>4. QED
            BY <1>2, <3>2, <3>3
    <2>3. QED
        BY <2>1, <2>2
<1>4. ASSUME NEW r \in Requests, NEW d \in Emails, Begin(r, d) PROVE Moves(e)
    BY <1>1, <1>2, <1>4 DEF Begin, Goto, Holds, TypeOK
<1>5. CASE \/ \E d \in Emails : (\E w \in Words : EditDraft(d, w)) \/ Dismiss(d)
           \/ DismissErrors \/ UNCHANGED vars
    BY <1>1, <1>2, <1>5 DEF EditDraft, Dismiss, SetState, DismissErrors, Holds,
       TypeOK, vars
<1>6. ASSUME NEW m \in Mailboxes, RemoveMailbox(m) PROVE Moves(e)
    <2>1. \A s \in Requests : Holds(s, e)' <=> Holds(s, e)
        BY <1>6 DEF RemoveMailbox, Holds
    <2>2. CASE MailboxOf[e] = m /\ Present(e)
        <3>1. Holder(e)' = Holder(e)
            BY <1>1, <2>1, HolderRests
        <3>2. LedgerStatus(e)' = "deleted"
            BY <1>6, <2>2 DEF RemoveMailbox, LedgerStatus
        <3>3. LedgerStatus(e) # "deleted"
            BY <1>1, <2>2 DEF LedgerStatus, TypeOK, Reply, ReplyStatus
        <3>4. QED
            BY <3>1, <3>2, <3>3 DEF Moves
    <2>3. CASE MailboxOf[e] = m /\ ~Present(e)
        <3>1. Holder(e)' = Holder(e)
            BY <1>1, <2>1, HolderRests
        <3>2. LedgerStatus(e)' = LedgerStatus(e)
            BY <1>6, <2>3 DEF RemoveMailbox, LedgerStatus
        <3>3. QED
            BY <3>1, <3>2 DEF Moves
    <2>4. CASE MailboxOf[e] # m
        <3>1. email'[e] = email[e] /\ reply'[e] = reply[e]
            BY <1>1, <1>6, <2>4 DEF RemoveMailbox, TypeOK
        <3>2. QED
            BY <1>2, <2>1, <3>1
    <2>5. QED
        BY <2>2, <2>3, <2>4
<1>7. QED
    BY <1>3, <1>4, <1>5, <1>6 DEF Next

LEMMA LedgerInit == Init => Ledger!Init
<1> SUFFICES ASSUME Init PROVE Ledger!Init
    OBVIOUS
<1>1. \A e \in Emails : LedgerStatus(e) = "none"
    BY DEF Init, LedgerStatus, Present, NoReply
<1>2. \A e \in Emails : Holder(e) = Nobody
    BY DEF Init, Holder, Holds
<1>3. QED
    BY <1>1, <1>2 DEF Init, Ledger!Init

LEMMA LedgerStep == IInv /\ IInv' /\ [Next]_vars => Ledger!Next
<1> SUFFICES ASSUME IInv, IInv', [Next]_vars PROVE Ledger!Next
    OBVIOUS
<1>1. stale \subseteq stale'
    BY StaleStays DEF IInv
<1>2. ASSUME NEW e \in Emails, e \notin stale'
      PROVE  \/ Ledger!Take(e) \/ Ledger!Settle(e) \/ Ledger!Abandon(e)
             \/ Ledger!Delete(e) \/ Ledger!Rest(e)
    <2>1. Moves(e)
        BY <1>2, MovesAlways
    <2>2. QED
        BY <2>1 DEF Moves, Ledger!Take, Ledger!Settle, Ledger!Abandon,
           Ledger!Delete, Ledger!Rest
<1>3. QED
    BY <1>1, <1>2 DEF Ledger!Next

\* create_reply with its stores implements the ledger: one caller at a time
\* takes a row, it alone settles it, and a created row is never taken again.
THEOREM Refinement == Spec => LedgerSpec
<1>1. IInv /\ IInv' /\ [Next]_vars => [Ledger!Next]_Ledger!vars
    BY LedgerStep
<1>2. QED
    BY <1>1, LedgerInit, Invariance, PTL DEF Spec, LedgerSpec, Ledger!Spec
===============================================================================
