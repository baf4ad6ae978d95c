------------------------------ MODULE InboxReply ------------------------------
(***************************************************************************)
(* Putting a reply into Gmail: POST /api/inbox/emails/{id}/draft-reply     *)
(* (worker/fw/inbox/api.py, create_reply) with the tables it touches       *)
(* (worker/fw/inbox/stores.py, ReplyStore, DraftStore, EmailStore) and     *)
(* the handlers that touch the same rows: edit_draft, dismiss and          *)
(* remove_mailbox.                                                         *)
(*                                                                         *)
(* FastAPI runs each synchronous handler on a thread of its own, so any    *)
(* number of create_reply calls interleave.  Each store method is one      *)
(* database transaction and one action here, with one exception:           *)
(* claim_failed reads the row and then updates it by id, which under       *)
(* PostgreSQL's READ COMMITTED (db.create_db_engine asks for nothing       *)
(* stronger) is two steps another transaction can come between.            *)
(*                                                                         *)
(* A reply row is identified with its email: unique(email_id) allows one,  *)
(* and a row is deleted only by the cascade that deletes the email.  An    *)
(* element of Emails is a row's id, so an email that a later sync ingests  *)
(* again is a new element.  A draft's subject, body and fields are one     *)
(* member of Words.                                                        *)
(*                                                                         *)
(* Gmail is external.  A POST may be refused, may be honoured and          *)
(* answered, or may be honoured while the caller sees an error: _call      *)
(* turns a time-out into the GoogleError that create_reply retries.        *)
(***************************************************************************)
EXTENDS Naturals, Sequences

CONSTANTS
    Emails,      \* ids of rows of inbox_emails
    Mailboxes,   \* ids of rows of inbox_mailboxes
    MailboxOf,   \* inbox_emails.mailbox_id, never updated
    Words,       \* subject and body of a rendered or edited draft
    Blocked,     \* the Words review.blockers refuses: a slot is left unfilled
    NoWords,     \* no row of inbox_drafts, or no words in the row
    Requests,    \* threads serving create_reply
    Nobody,      \* no thread
    Faults,      \* whether a call may end early: an exception, a restart
    MaxDrafts    \* bound: how many drafts the model's Gmail takes for one email

ASSUME MailboxOfAssumption == MailboxOf \in [Emails -> Mailboxes]
ASSUME WordsAssumption == Blocked \subseteq Words /\ NoWords \notin Words
ASSUME NobodyAssumption == Nobody \notin Requests
ASSUME BoundAssumption == MaxDrafts \in Nat /\ Faults \in BOOLEAN

DraftAttempts == 3

VARIABLES
    email,     \* inbox_emails.state, "absent" once the row is deleted
    draft,     \* words of the newest row of inbox_drafts
    reply,     \* the row of inbox_replies
    alerts,    \* emails with an unresolved DRF-001 row in inbox_errors
    gmail,     \* the drafts in each email's Gmail thread, in creation order
    pc,        \* where each create_reply call is
    target,    \* the email it was called for
    carry,     \* the draft it read on entry, and still uses
    attempt,   \* its loop counter
    draftId,   \* the id Gmail returned to it
    orphan,    \* history: the drafts in Gmail whose id no caller will record
    stale      \* history: the emails whose row was claimed when not failed

dbVars == <<email, draft, reply, alerts>>
callVars == <<pc, target, carry, attempt, draftId>>
vars == <<dbVars, gmail, callVars, orphan, stale>>

EmailStates == {"received", "suppressed", "needs_review", "drafted",
                "draft_failed", "dismissed", "absent"}
ReplyStatus == {"none", "pending", "created", "failed"}
Reply == [status: ReplyStatus, words: Words \cup {NoWords}, draftId: Nat]
NoReply == [status |-> "none", words |-> NoWords, draftId |-> 0]

Steps == {"reserve", "taken", "claim", "claimWrite", "mailbox", "post",
          "complete", "markDrafted", "fail", "markFailed", "alert"}

TypeOK ==
    /\ email \in [Emails -> EmailStates]
    /\ draft \in [Emails -> Words \cup {NoWords}]
    /\ reply \in [Emails -> Reply]
    /\ alerts \in SUBSET Emails
    /\ gmail \in [Emails -> Seq(Words)]
    /\ pc \in [Requests -> {"idle"} \cup Steps]
    /\ target \in [Requests -> Emails]
    /\ carry \in [Requests -> Words \cup {NoWords}]
    /\ attempt \in [Requests -> 0..DraftAttempts]
    /\ draftId \in [Requests -> Nat]
    /\ \A r \in Requests : pc[r] # "idle" => carry[r] \in Words
    /\ orphan \in [Emails -> SUBSET Nat]
    /\ stale \in SUBSET Emails

\* Every email has been ingested and triaged: it has a rendered draft and is
\* waiting for a person.  No reply has been asked for yet.
Init ==
    /\ email = [e \in Emails |-> "needs_review"]
    /\ draft \in [Emails -> Words]
    /\ reply = [e \in Emails |-> NoReply]
    /\ alerts = {}
    /\ gmail = [e \in Emails |-> <<>>]
    /\ pc = [r \in Requests |-> "idle"]
    /\ target \in [Requests -> Emails]
    /\ carry = [r \in Requests |-> NoWords]
    /\ attempt = [r \in Requests |-> 0]
    /\ draftId = [r \in Requests |-> 0]
    /\ orphan = [e \in Emails |-> {}]
    /\ stale = {}

Present(e) == email[e] # "absent"
HasReply(e) == reply[e].status # "none"

(***************************************************************************)
(* The stores' transactions.                                               *)
(***************************************************************************)

\* EmailStore.set_state: whatever the state was; a deleted row is not matched.
SetState(e, s) ==
    email' = [email EXCEPT ![e] = IF Present(e) THEN s ELSE @]

\* Mutant: no unique(email_id).
ReserveRowAnyway(e, w) ==
    /\ Present(e)
    /\ reply' = [reply EXCEPT ![e] = [status |-> "pending", words |-> w,
                                      draftId |-> 0]]

\* ReplyStore.reserve: the insert that unique(email_id) and the foreign key
\* to inbox_emails allow.
ReserveRow(e, w) ==
    /\ Present(e) /\ ~HasReply(e)
    /\ reply' = [reply EXCEPT ![e] = [status |-> "pending", words |-> w,
                                      draftId |-> 0]]

\* Mutant: the row taken over keeps the words of the attempt that failed.
ClaimRowKeepsWords(e, w) ==
    reply' = [reply EXCEPT ![e] =
                  IF HasReply(e) THEN [@ EXCEPT !.status = "pending"] ELSE @]

\* ReplyStore.claim_failed, the update: by id alone, the status is not looked
\* at again.
ClaimRow(e, w) ==
    reply' = [reply EXCEPT ![e] =
                  IF HasReply(e)
                  THEN [@ EXCEPT !.status = "pending", !.words = w]
                  ELSE @]

\* ReplyStore.complete: by id alone.
CompleteRow(e, i) ==
    reply' = [reply EXCEPT ![e] =
                  IF HasReply(e)
                  THEN [@ EXCEPT !.status = "created", !.draftId = i]
                  ELSE @]

\* ReplyStore.fail: by id alone.
FailRow(e) ==
    reply' = [reply EXCEPT ![e] =
                  IF HasReply(e) THEN [@ EXCEPT !.status = "failed"] ELSE @]

(***************************************************************************)
(* create_reply, one action per transaction or call to Gmail.              *)
(***************************************************************************)

Goto(r, l) == pc' = [pc EXCEPT ![r] = l]

\* The call answers, and its locals are gone.
Return(r) ==
    /\ pc' = [pc EXCEPT ![r] = "idle"]
    /\ carry' = [carry EXCEPT ![r] = NoWords]
    /\ attempt' = [attempt EXCEPT ![r] = 0]
    /\ draftId' = [draftId EXCEPT ![r] = 0]
    /\ UNCHANGED target

\* The call goes on to l with the locals it has.
Step(r, l) == Goto(r, l) /\ UNCHANGED <<target, carry, attempt, draftId>>

\* Mutant: Gmail is called before anything is reserved.
BeginUnreserved(r, e) ==
    /\ pc[r] = "idle"
    /\ Present(e) /\ draft[e] \in Words \ Blocked
    /\ Goto(r, "mailbox")
    /\ target' = [target EXCEPT ![r] = e]
    /\ carry' = [carry EXCEPT ![r] = draft[e]]
    /\ UNCHANGED <<dbVars, gmail, attempt, draftId, orphan, stale>>

\* The email and its newest draft are read; a blocked draft is refused (422)
\* and leaves no trace, as do a missing email (404) and a missing draft (409).
Begin(r, e) ==
    /\ pc[r] = "idle"
    /\ Present(e) /\ draft[e] \in Words \ Blocked
    /\ Goto(r, "reserve")
    /\ target' = [target EXCEPT ![r] = e]
    /\ carry' = [carry EXCEPT ![r] = draft[e]]
    /\ UNCHANGED <<dbVars, gmail, attempt, draftId, orphan, stale>>

Reserve(r) ==
    /\ pc[r] = "reserve"
    /\ \/ ReserveRow(target[r], carry[r]) /\ Step(r, "mailbox")
       \/ /\ HasReply(target[r]) \/ ~Present(target[r])
          /\ Step(r, "taken")
          /\ UNCHANGED reply
    /\ UNCHANGED <<email, draft, alerts, gmail, orphan, stale>>

\* The loser looks at the row that beat it, and answers "already drafted" if
\* that is what it finds.
ReadTaken(r) ==
    /\ pc[r] = "taken"
    /\ IF reply[target[r]].status = "created"
       THEN Return(r) ELSE Step(r, "claim")
    /\ UNCHANGED <<dbVars, gmail, orphan, stale>>

\* claim_failed, the read.
ClaimRead(r) ==
    /\ pc[r] = "claim"
    /\ reply[target[r]].status = "failed"
    /\ Step(r, "claimWrite")
    /\ UNCHANGED <<dbVars, gmail, orphan, stale>>

\* Mutant: the loser is not turned away.
AnswerMissing(r) ==
    /\ pc[r] = "claim"
    /\ reply[target[r]].status # "failed"
    /\ Step(r, "mailbox")
    /\ UNCHANGED <<dbVars, gmail, orphan, stale>>

\* The error 409, "A reply is already being created."
AnswerBeingCreated(r) ==
    /\ pc[r] = "claim"
    /\ reply[target[r]].status # "failed"
    /\ Return(r)
    /\ UNCHANGED <<dbVars, gmail, orphan, stale>>

ClaimWrite(r) ==
    LET e == target[r] IN
    /\ pc[r] = "claimWrite"
    /\ ClaimRow(e, carry[r])
    /\ stale' = IF reply[e].status # "failed" THEN stale \cup {e} ELSE stale
    /\ Step(r, "mailbox")
    /\ UNCHANGED <<email, draft, alerts, gmail, orphan>>

\* The mailbox row is looked up; its deletion takes the email's with it.
FindMailbox(r) ==
    LET e == target[r] IN
    /\ pc[r] = "mailbox"
    /\ \/ /\ Present(e)
          /\ Goto(r, "post")
          /\ attempt' = [attempt EXCEPT ![r] = 1]
          /\ UNCHANGED <<reply, target, carry, draftId>>
       \/ /\ ~Present(e)
          /\ FailRow(e)
          /\ Return(r)
    /\ UNCHANGED <<email, draft, alerts, gmail, orphan, stale>>

\* Gmail adds a draft to the thread; it keeps every one it ever accepts.
GmailAdds(e, w) ==
    /\ Len(gmail[e]) < MaxDrafts
    /\ gmail' = [gmail EXCEPT ![e] = Append(@, w)]

\* Mutant: one attempt too many.
NextAttemptOneMore(r) ==
    IF attempt[r] <= DraftAttempts
    THEN attempt' = [attempt EXCEPT ![r] = @ + 1] /\ UNCHANGED pc
    ELSE Goto(r, "fail") /\ UNCHANGED attempt

\* The loop's except branch: try again, or give up after the last attempt.
NextAttempt(r) ==
    IF attempt[r] < DraftAttempts
    THEN attempt' = [attempt EXCEPT ![r] = @ + 1] /\ UNCHANGED pc
    ELSE Goto(r, "fail") /\ UNCHANGED attempt

\* Mutant: success does not break out of the loop.
PostAcceptedNoBreak(r) ==
    LET e == target[r] IN
    /\ pc[r] = "post"
    /\ GmailAdds(e, carry[r])
    /\ draftId' = [draftId EXCEPT ![r] = Len(gmail[e]) + 1]
    /\ IF attempt[r] < DraftAttempts THEN NextAttempt(r)
       ELSE Goto(r, "complete") /\ UNCHANGED attempt
    /\ UNCHANGED <<dbVars, target, carry, orphan, stale>>

PostAccepted(r) ==
    LET e == target[r] IN
    /\ pc[r] = "post"
    /\ GmailAdds(e, carry[r])
    /\ draftId' = [draftId EXCEPT ![r] = Len(gmail[e]) + 1]
    /\ Goto(r, "complete")
    /\ UNCHANGED <<dbVars, target, carry, attempt, orphan, stale>>

\* Mutant: every failed attempt settles the row, not the last alone.
PostRefusedSettles(r) ==
    /\ pc[r] = "post"
    /\ FailRow(target[r])
    /\ NextAttempt(r)
    /\ UNCHANGED <<email, draft, alerts, gmail, target, carry, draftId, orphan,
                   stale>>

\* No draft, and the caller knows: an HTTP error, no connection, no token.
PostRefused(r) ==
    /\ pc[r] = "post"
    /\ NextAttempt(r)
    /\ UNCHANGED <<dbVars, gmail, target, carry, draftId, orphan, stale>>

\* A draft, and the caller does not know: the answer is late or is lost.
PostAnswerLost(r) ==
    LET e == target[r] IN
    /\ pc[r] = "post"
    /\ GmailAdds(e, carry[r])
    /\ orphan' = [orphan EXCEPT ![e] = @ \cup {Len(gmail[e]) + 1}]
    /\ NextAttempt(r)
    /\ UNCHANGED <<dbVars, target, carry, draftId, stale>>

Complete(r) ==
    /\ pc[r] = "complete"
    /\ CompleteRow(target[r], draftId[r])
    /\ Step(r, "markDrafted")
    /\ UNCHANGED <<email, draft, alerts, gmail, orphan, stale>>

MarkDrafted(r) ==
    /\ pc[r] = "markDrafted"
    /\ SetState(target[r], "drafted")
    /\ Return(r)
    /\ UNCHANGED <<draft, reply, alerts, gmail, orphan, stale>>

\* Mutant: a failed call falls through to the success path.
FailFallsThrough(r) ==
    /\ pc[r] = "fail"
    /\ FailRow(target[r])
    /\ Step(r, "markDrafted")
    /\ UNCHANGED <<email, draft, alerts, gmail, orphan, stale>>

\* Mutant: only the email is marked, not the row.
FailLeavesRow(r) ==
    /\ pc[r] = "fail"
    /\ Step(r, "markFailed")
    /\ UNCHANGED <<dbVars, gmail, orphan, stale>>

Fail(r) ==
    /\ pc[r] = "fail"
    /\ FailRow(target[r])
    /\ Step(r, "markFailed")
    /\ UNCHANGED <<email, draft, alerts, gmail, orphan, stale>>

\* Mutant: the row is settled again, after it has been given up.
MarkFailedSettles(r) ==
    /\ pc[r] = "markFailed"
    /\ SetState(target[r], "draft_failed")
    /\ FailRow(target[r])
    /\ Step(r, "alert")
    /\ UNCHANGED <<draft, alerts, gmail, orphan, stale>>

MarkFailed(r) ==
    /\ pc[r] = "markFailed"
    /\ SetState(target[r], "draft_failed")
    /\ Step(r, "alert")
    /\ UNCHANGED <<draft, reply, alerts, gmail, orphan, stale>>

\* ErrorStore.add, whose foreign key refuses a deleted email's DRF-001.
AddAlert(r) ==
    LET e == target[r] IN
    /\ pc[r] = "alert"
    /\ alerts' = IF Present(e) THEN alerts \cup {e} ELSE alerts
    /\ Return(r)
    /\ UNCHANGED <<email, draft, reply, gmail, orphan, stale>>

\* An exception nothing here catches (the database is unreachable, a token
\* cannot be decrypted, Gmail's answer is not JSON), or the host is put to
\* sleep.  A draft id that only this call held is lost with it.
Die(r) ==
    LET e == target[r] IN
    /\ Faults
    /\ pc[r] \in Steps
    /\ Return(r)
    /\ orphan' = IF pc[r] = "complete"
                 THEN [orphan EXCEPT ![e] = @ \cup {draftId[r]}]
                 ELSE orphan
    /\ UNCHANGED <<dbVars, gmail, stale>>

(***************************************************************************)
(* The other handlers.                                                     *)
(***************************************************************************)

\* edit_draft: any text may be saved over a draft, whatever the reply's status.
EditDraft(e, w) ==
    /\ Present(e) /\ draft[e] # NoWords
    /\ draft' = [draft EXCEPT ![e] = w]
    /\ UNCHANGED <<email, reply, alerts, gmail, callVars, orphan, stale>>

Dismiss(e) ==
    /\ Present(e)
    /\ SetState(e, "dismissed")
    /\ UNCHANGED <<draft, reply, alerts, gmail, callVars, orphan, stale>>

DismissErrors ==
    /\ alerts' = {}
    /\ UNCHANGED <<email, draft, reply, gmail, callVars, orphan, stale>>

\* MailboxStore.remove: the row goes, and by cascade every email in it with its
\* drafts, its reply and its errors.
RemoveMailbox(m) ==
    LET lost == {e \in Emails : MailboxOf[e] = m} IN
    /\ \E e \in lost : Present(e)
    /\ email' = [e \in Emails |-> IF e \in lost THEN "absent" ELSE email[e]]
    /\ draft' = [e \in Emails |-> IF e \in lost THEN NoWords ELSE draft[e]]
    /\ reply' = [e \in Emails |-> IF e \in lost THEN NoReply ELSE reply[e]]
    /\ alerts' = alerts \ lost
    /\ UNCHANGED <<gmail, callVars, orphan, stale>>

-------------------------------------------------------------------------------

Post(r) == PostAccepted(r) \/ PostRefused(r) \/ PostAnswerLost(r)

\* What a started call does next, short of dying.
Continue(r) ==
    \/ Reserve(r) \/ ReadTaken(r) \/ ClaimRead(r) \/ ClaimWrite(r)
    \/ AnswerBeingCreated(r) \/ FindMailbox(r) \/ Post(r)
    \/ Complete(r) \/ MarkDrafted(r) \/ Fail(r) \/ MarkFailed(r) \/ AddAlert(r)

Next ==
    \/ \E r \in Requests :
          (\E e \in Emails : Begin(r, e)) \/ Continue(r) \/ Die(r)
    \/ \E e \in Emails : (\E w \in Words : EditDraft(e, w)) \/ Dismiss(e)
    \/ DismissErrors
    \/ \E m \in Mailboxes : RemoveMailbox(m)

Spec == Init /\ [][Next]_vars

\* The operating system schedules every thread of the pool: a started call goes
\* on, unless it dies.  Nobody is obliged to press a button.
Fairness == \A r \in Requests : WF_vars(Continue(r))
FairSpec == Spec /\ Fairness

-------------------------------------------------------------------------------
(***************************************************************************)
(* Properties.                                                             *)
(***************************************************************************)

\* The drafts in Gmail whose id a call still holds or has recorded.
Acknowledged(e) == (1..Len(gmail[e])) \ orphan[e]

\* The calls that own the row they reserved or took over.
Holds(r, e) ==
    target[r] = e /\ pc[r] \in {"mailbox", "post", "complete", "fail"}

\* "Exactly one reply per email" (README), as far as the code keeps it: of the
\* drafts whose creation the worker learned of there is at most one per email,
\* however many calls, retries, edits and deaths there were, unless two
\* claim_failed transactions overlapped.
OneAcknowledgedDraft ==
    \A e \in Emails : e \in stale \/ \A i, j \in Acknowledged(e) : i = j

\* The unique constraint and the claim make the row a lock: no two calls are
\* between taking the row and settling it, unless two claims overlapped.
OneHolder ==
    \A e \in Emails : e \in stale \/
        \A r, s \in Requests : Holds(r, e) /\ Holds(s, e) => r = s

\* The stored reply is what Gmail holds: the words of a created row are those of
\* the very draft its gmail_draft_id names, though the draft may be edited, and
\* the row taken over with other words, while a call is in flight.
LedgerMatchesGmail ==
    \A e \in Emails : e \notin stale /\ reply[e].status = "created" =>
        /\ reply[e].draftId \in Acknowledged(e)
        /\ gmail[e][reply[e].draftId] = reply[e].words

\* "Never show 'drafted'" (create_reply): an email marked drafted has a created
\* reply, whichever other calls failed, before or since.
DraftedMeansCreated ==
    \A e \in Emails : e \notin stale /\ email[e] = "drafted"
        => reply[e].status = "created"

\* The row is reserved before Gmail is called (README): while the email exists,
\* nothing is in its thread that has no row to account for it.
ReservedBeforeGmail ==
    \A e \in Emails : Present(e) /\ gmail[e] # <<>> => HasReply(e)

\* "A row in created is final" (claim_failed), short of the email's deletion and
\* of overlapping claims.
CreatedStaysCreated ==
    [][\A e \in Emails :
          reply[e].status = "created" /\ email'[e] # "absent" /\ e \notin stale'
          => reply'[e] = reply[e]]_vars

\* A draft enters Gmail only under a row that says a reply is being created.
GmailOnlyWhilePending ==
    [][\A e \in Emails :
          gmail'[e] # gmail[e] /\ Present(e) /\ e \notin stale
          => reply[e].status = "pending"]_vars

\* The rows keep the promise of ReplyLedger.
Holder(e) ==
    IF \E r \in Requests : Holds(r, e) THEN CHOOSE r \in Requests : Holds(r, e)
    ELSE Nobody
LedgerStatus(e) == IF Present(e) THEN reply[e].status ELSE "deleted"

Ledger == INSTANCE ReplyLedger WITH
    status <- [e \in Emails |-> LedgerStatus(e)],
    holder <- [e \in Emails |-> Holder(e)],
    broken <- stale

\* create_reply with its stores implements the ledger: a row is taken by one
\* caller, settled by that caller alone, and final once created.
LedgerSpec == Ledger!Spec

\* A reply that is being created becomes created or failed, so that the next
\* press of the button is answered or retries (or the email is deleted).
PendingIsSettled ==
    \A e \in Emails : reply[e].status = "pending" ~> reply[e].status # "pending"

(***************************************************************************)
(* What the documents say without the qualifications above.                *)
(***************************************************************************)

\* README: "Exactly one reply per email ... Two tabs, a double click and a
\* replayed request all resolve to one draft".
OneDraftPerEmail == \A e \in Emails : Len(gmail[e]) <= 1

\* ReplyStore.claim_failed: "A row in `created` is final".
CreatedIsFinal ==
    [][\A e \in Emails :
          reply[e].status = "created" /\ email'[e] # "absent"
          => reply'[e].status = "created"]_vars
===============================================================================
