------------------------------ MODULE InboxTriage -----------------------------
(***************************************************************************)
(* The inbox's queue: POST /sync (worker/fw/inbox/api.py, sync, and        *)
(* worker/fw/inbox/pipeline.py), PUT /emails/{id}/category, POST           *)
(* /reclassify, dismiss and remove_mailbox, for one organisation.          *)
(*                                                                         *)
(* An email is a number, its place in the order of receipt; it stands for  *)
(* the message in Gmail and, once ingested, for its row of inbox_emails,   *)
(* which unique(mailbox_id, gmail_message_id) makes one.                   *)
(*                                                                         *)
(* Every store method is a transaction and an action; reads that follow    *)
(* one another with nothing between them are one action when what they     *)
(* read is used together.  Syncs and people's requests run on threads and  *)
(* interleave.  create_reply is reduced to what ReplyLedger promises of    *)
(* it: a reply that is taken, settled, and then marked on the email.       *)
(*                                                                         *)
(* External: what Gmail lists and delivers, and what the classifier        *)
(* answers (a category, an error, or "slow down").                         *)
(***************************************************************************)
EXTENDS Integers, FiniteSets, FiniteSetsExt

CONSTANTS
    Emails,       \* messages, numbered from the oldest to the newest
    Mailboxes,    \* rows of inbox_mailboxes
    MailboxOf,    \* the mailbox a message is in
    Noise,        \* messages suppression_reason keeps out
    Bad,          \* messages whose triage always raises
    Unfetchable,  \* messages Gmail lists and never delivers
    Categories,   \* enabled categories
    OutOfScope,   \* the category of a fallback
    Syncs,        \* threads serving POST /sync
    People,       \* threads serving a person's override or reclassify; {}: no person acts
    ListLimit,    \* MAX_MESSAGES_PER_SYNC
    ScanLimit,    \* MAX_SCANNED_PER_SYNC
    BatchLimit,   \* MAX_TRIAGE_PER_SYNC
    Faults        \* whether calls fail or die at any point

ASSUME EmailsAssumption ==
    /\ Emails \subseteq Nat
    /\ MailboxOf \in [Emails -> Mailboxes]
    /\ Noise \subseteq Emails /\ Bad \subseteq Emails
    /\ Unfetchable \subseteq Emails
None == "none"

ASSUME CategoriesAssumption == OutOfScope \in Categories /\ None \notin Categories
ASSUME LimitsAssumption ==
    /\ ListLimit \in Nat \ {0} /\ ScanLimit \in Nat \ {0}
    /\ BatchLimit \in Nat \ {0}
    /\ Faults \in BOOLEAN

VARIABLES
    connected,  \* the mailboxes that have a row
    arrived,    \* the messages Gmail has
    state,      \* inbox_emails.state, "absent" without a row
    label,      \* the newest row of inbox_classifications
    lookup,     \* whether inbox_lookups has a row
    draft,      \* category of the newest row of inbox_drafts
    reply,      \* status of the row of inbox_replies
    mark,       \* the states settled create_replies are about to set
    spc,        \* where each sync is
    todo,       \* its mailboxes still to read
    fresh,      \* the listed messages it has still to fetch
    batch,      \* the emails it has still to triage, the oldest in hand
    verdict,    \* the category of the email in hand, until it is drafted
    limited,    \* whether the classifier told it to slow down
    ppc,        \* where each person's request is
    picked,     \* the email an override is for, the emails a reclassify listed
    choice,     \* the category chosen
    relabel,    \* whether the override found a label to correct
    moved,      \* history: what changed under a reclassify since its first read
    torn,       \* history: emails last reset while something was written about them
    mixed       \* history: emails that, since a reset, two wrote about at once or one
                \* left half done

queue == <<connected, arrived, state, label, lookup, draft, reply, mark>>
syncVars == <<spc, todo, fresh, batch, verdict, limited>>
peopleVars == <<ppc, picked, choice, relabel>>
history == <<moved, torn, mixed>>
vars == <<queue, syncVars, peopleVars, history>>

States == {"received", "suppressed", "needs_review", "drafted",
           "draft_failed", "dismissed", "absent"}
Label == [source : {"ai", "fallback", "human"}, category : Categories]
NoLabel == [source |-> None, category |-> OutOfScope]

Ingesting == {"list", "fetch"}
Triaging == {"classify", "lookup", "draft", "review"}
Reclassifying == {"labels", "replies", "reset"}
Overriding == {"label", "redraft"}

TypeOK ==
    /\ connected \subseteq Mailboxes /\ arrived \subseteq Emails
    /\ state \in [Emails -> States]
    /\ label \in [Emails -> Label \cup {NoLabel}]
    /\ lookup \in [Emails -> BOOLEAN]
    /\ draft \in [Emails -> Categories \cup {None}]
    /\ reply \in [Emails -> {None, "pending", "created", "failed"}]
    /\ mark \in [Emails -> SUBSET {"drafted", "draft_failed"}]
    /\ spc \in [Syncs -> {"idle"} \cup Ingesting \cup Triaging]
    /\ todo \in [Syncs -> SUBSET Mailboxes]
    /\ fresh \in [Syncs -> SUBSET Emails]
    /\ batch \in [Syncs -> SUBSET Emails]
    /\ verdict \in [Syncs -> Categories]
    /\ limited \in [Syncs -> BOOLEAN]
    /\ \A s \in Syncs : spc[s] \in Triaging => batch[s] # {}
    /\ ppc \in [People -> {"idle"} \cup Reclassifying \cup Overriding]
    /\ picked \in [People -> SUBSET Emails]
    /\ choice \in [People -> Categories]
    /\ relabel \in [People -> BOOLEAN]
    /\ moved \in [People -> SUBSET Emails]
    /\ torn \subseteq Emails /\ mixed \subseteq Emails

Init ==
    /\ connected = Mailboxes /\ arrived = {}
    /\ state = [e \in Emails |-> "absent"]
    /\ label = [e \in Emails |-> NoLabel]
    /\ lookup = [e \in Emails |-> FALSE]
    /\ draft = [e \in Emails |-> None]
    /\ reply = [e \in Emails |-> None]
    /\ mark = [e \in Emails |-> {}]
    /\ spc = [s \in Syncs |-> "idle"]
    /\ todo = [s \in Syncs |-> {}]
    /\ fresh = [s \in Syncs |-> {}]
    /\ batch = [s \in Syncs |-> {}]
    /\ verdict = [s \in Syncs |-> OutOfScope]
    /\ limited = [s \in Syncs |-> FALSE]
    /\ ppc = [p \in People |-> "idle"]
    /\ picked = [p \in People |-> {}]
    /\ choice = [p \in People |-> OutOfScope]
    /\ relabel = [p \in People |-> FALSE]
    /\ moved = [p \in People |-> {}]
    /\ torn = {} /\ mixed = {}

Present(e) == state[e] # "absent"
InHand(s) == Min(batch[s])
Newest(n, S) == {e \in S : Cardinality({f \in S : f > e}) < n}
Oldest(n, S) == {e \in S : Cardinality({f \in S : f < e}) < n}

\* Who has written part of what it will write about e.
SyncWrites(s, e) == spc[s] \in {"lookup", "draft", "review"} /\ InHand(s) = e
PersonWrites(p, e) == ppc[p] \in Overriding /\ e \in picked[p]
BeingWritten(e) == \/ \E s \in Syncs : SyncWrites(s, e)
                   \/ \E p \in People : PersonWrites(p, e)

\* What is written about these emails may no longer fit together.
Mixes(E) == mixed' = mixed \cup (E \ torn)

\* Somebody starts to write about e.
Starts(e) == Mixes({f \in {e} : BeingWritten(f)})

\* History, in a step that writes: what changes while a reclassify is between its
\* reads and its write; those of "ended" are over.
Changed == {e \in Emails : \/ state'[e] # state[e] \/ label'[e] # label[e]
                           \/ reply'[e] # reply[e]}
Track(ended) ==
    moved' = [p \in People |-> IF p \in ended THEN {}
                               ELSE IF ppc[p] \in Reclassifying
                                    THEN moved[p] \cup Changed ELSE moved[p]]

\* A sync answers, or fails: what it holds is gone.
Ended(s) ==
    /\ spc' = [spc EXCEPT ![s] = "idle"]
    /\ todo' = [todo EXCEPT ![s] = {}]
    /\ fresh' = [fresh EXCEPT ![s] = {}]
    /\ batch' = [batch EXCEPT ![s] = {}]
    /\ verdict' = [verdict EXCEPT ![s] = OutOfScope]
    /\ limited' = [limited EXCEPT ![s] = FALSE]

\* Likewise a person's request.
Done(p) ==
    /\ ppc' = [ppc EXCEPT ![p] = "idle"]
    /\ picked' = [picked EXCEPT ![p] = {}]
    /\ choice' = [choice EXCEPT ![p] = OutOfScope]
    /\ relabel' = [relabel EXCEPT ![p] = FALSE]

\* EmailStore.set_state: no guard on the state there is; no row, no effect.
SetState(e, s) == state' = [state EXCEPT ![e] = IF Present(e) THEN s ELSE @]

(***************************************************************************)
(* Ingestion.                                                              *)
(***************************************************************************)

\* External: a message is delivered.
Arrive(e) ==
    /\ e \notin arrived /\ \A f \in Emails \ arrived : e <= f
    /\ arrived' = arrived \cup {e}
    /\ UNCHANGED <<connected, state, label, lookup, draft, reply, mark, syncVars,
                   peopleVars, history>>

\* The button; with no mailbox it is refused (409).
SyncBegin(s) ==
    /\ spc[s] = "idle" /\ connected # {}
    /\ spc' = [spc EXCEPT ![s] = "list"]
    /\ todo' = [todo EXCEPT ![s] = connected]
    /\ UNCHANGED <<queue, fresh, batch, verdict, limited, peopleVars, history>>

\* Mutant: the newest page, filtered afterwards.
ListedThenFiltered(m) ==
    {e \in Newest(ListLimit, {f \in arrived : MailboxOf[f] = m}) : ~Present(e)}

\* known_ids and list_recent: the newest messages not yet stored, among those
\* the scan reaches.
Listed(m) ==
    Newest(ListLimit, {e \in Newest(ScanLimit, {f \in arrived : MailboxOf[f] = m}) :
                          ~Present(e)})

ListMailbox(s, m) ==
    /\ spc[s] = "list" /\ m \in todo[s]
    /\ todo' = [todo EXCEPT ![s] = @ \ {m}]
    /\ \/ /\ fresh' = [fresh EXCEPT ![s] = Listed(m)]
          /\ spc' = [spc EXCEPT ![s] = IF Listed(m) = {} THEN "list" ELSE "fetch"]
       \/ /\ Faults \/ m \notin connected       \* GoogleError: the next mailbox
          /\ UNCHANGED <<fresh, spc>>
    /\ UNCHANGED <<queue, batch, verdict, limited, peopleVars, history>>

\* A message is fetched and inserted, unless the row is there already or the
\* mailbox is gone; or it cannot be fetched, and the loop goes on.
Fetch(s) ==
    LET e == Max(fresh[s])
        gone == MailboxOf[e] \notin connected
    IN
    /\ spc[s] = "fetch"
    /\ fresh' = [fresh EXCEPT ![s] = @ \ {e}]
    /\ spc' = [spc EXCEPT ![s] = IF fresh[s] = {e} THEN "list" ELSE "fetch"]
    /\ \/ /\ e \notin Unfetchable
          /\ state' = IF Present(e) \/ gone THEN state
                      ELSE [state EXCEPT ![e] = IF e \in Noise THEN "suppressed"
                                                ELSE "received"]
       \/ /\ Faults \/ e \in Unfetchable \/ gone
          /\ UNCHANGED state
    /\ UNCHANGED <<connected, arrived, label, lookup, draft, reply, mark, todo,
                   batch, verdict, limited, peopleVars, torn, mixed>>
    /\ Track({})

(***************************************************************************)
(* Triage.                                                                 *)
(***************************************************************************)

\* EmailStore.pending, cut to MAX_TRIAGE_PER_SYNC.
ListPending(s) ==
    LET waiting == Oldest(BatchLimit, {e \in Emails : state[e] = "received"}) IN
    /\ spc[s] = "list" /\ todo[s] = {}
    /\ IF waiting = {} THEN Ended(s)
       ELSE /\ batch' = [batch EXCEPT ![s] = waiting]
            /\ spc' = [spc EXCEPT ![s] = "classify"]
            /\ UNCHANGED <<todo, fresh, verdict, limited>>
    /\ UNCHANGED <<queue, peopleVars, history>>

\* Mutant: one turn of the loop too many.
NextInBatchPastTheEnd(s, slow) ==
    /\ batch' = [batch EXCEPT ![s] = @ \ {InHand(s)}]
    /\ spc' = [spc EXCEPT ![s] = "classify"]
    /\ verdict' = [verdict EXCEPT ![s] = OutOfScope]
    /\ limited' = [limited EXCEPT ![s] = slow]
    /\ UNCHANGED <<todo, fresh>>

\* The loop turns, knowing whether the classifier was slow.
NextInBatch(s, slow) ==
    IF batch[s] = {InHand(s)} THEN Ended(s)
    ELSE /\ batch' = [batch EXCEPT ![s] = @ \ {InHand(s)}]
         /\ spc' = [spc EXCEPT ![s] = "classify"]
         /\ verdict' = [verdict EXCEPT ![s] = OutOfScope]
         /\ limited' = [limited EXCEPT ![s] = slow]
         /\ UNCHANGED <<todo, fresh>>

\* The classifier has asked for a rest: no other email is touched.
Stopped(s) == spc[s] = "classify" /\ limited[s]

\* The classifier answers, or fails and the fallback stands in; a rate limit is
\* remembered for the emails after this one, if there are any.
Classify(s) ==
    LET e == InHand(s) IN
    /\ spc[s] = "classify" /\ ~Stopped(s) /\ Present(e)
    /\ \E l \in Label :
          /\ l.source # "human"
          /\ l.source = "fallback" => l.category = OutOfScope
          /\ label' = [label EXCEPT ![e] = l]
          /\ verdict' = [verdict EXCEPT ![s] = l.category]
          /\ \E slow \in {FALSE, l.source = "fallback" /\ batch[s] # {e}} :
                limited' = [limited EXCEPT ![s] = slow]
    /\ spc' = [spc EXCEPT ![s] = "lookup"]
    /\ Starts(e)
    /\ UNCHANGED <<connected, arrived, state, lookup, draft, reply, mark, todo,
                   fresh, batch, peopleVars, torn>>
    /\ Track({})

StopLimited(s) ==
    /\ Stopped(s)
    /\ Ended(s)
    /\ UNCHANGED <<queue, peopleVars, history>>

\* Mutant: a lookup Xero could not answer is not recorded.
AddLookupIfAnswered(s) ==
    /\ spc[s] = "lookup" /\ Present(InHand(s))
    /\ \E answered \in BOOLEAN :
          lookup' = [lookup EXCEPT ![InHand(s)] = @ \/ answered]
    /\ spc' = [spc EXCEPT ![s] = "draft"]
    /\ UNCHANGED <<connected, arrived, state, label, draft, reply, mark, todo,
                   fresh, batch, verdict, limited, peopleVars, history>>

AddLookup(s) ==
    /\ spc[s] = "lookup" /\ Present(InHand(s))
    /\ lookup' = [lookup EXCEPT ![InHand(s)] = TRUE]
    /\ spc' = [spc EXCEPT ![s] = "draft"]
    /\ UNCHANGED <<connected, arrived, state, label, draft, reply, mark, todo,
                   fresh, batch, verdict, limited, peopleVars, history>>

AddDraft(s) ==
    /\ spc[s] = "draft" /\ Present(InHand(s)) /\ InHand(s) \notin Bad
    /\ draft' = [draft EXCEPT ![InHand(s)] = verdict[s]]
    /\ verdict' = [verdict EXCEPT ![s] = OutOfScope]
    /\ spc' = [spc EXCEPT ![s] = "review"]
    /\ UNCHANGED <<connected, arrived, state, label, lookup, reply, mark, todo,
                   fresh, batch, limited, peopleVars, history>>

SetReview(s) ==
    /\ spc[s] = "review"
    /\ SetState(InHand(s), "needs_review")
    /\ NextInBatch(s, limited[s])
    /\ UNCHANGED <<connected, arrived, label, lookup, draft, reply, mark,
                   peopleVars, torn, mixed>>
    /\ Track({})

\* The loop's except branch: the email stays as it is and the next is taken.  A
\* rate limit met before the exception is remembered.
TriageRaises(s) ==
    LET e == InHand(s) IN
    /\ spc[s] \in Triaging /\ ~Stopped(s)
    /\ Present(e) /\ (Faults \/ e \in Bad)
    /\ \E slow \in {limited[s], limited[s] \/ spc[s] = "classify"} :
          NextInBatch(s, slow)
    /\ Mixes({f \in {e} : SyncWrites(s, f)})
    /\ UNCHANGED <<queue, peopleVars, torn, moved>>

\* The email is gone: the insert raises, and so does the insert of the error
\* about it, whose foreign key is the same; nothing catches the second.
TriageAborts(s) ==
    /\ spc[s] \in Triaging \ {"review"} /\ ~Stopped(s)
    /\ ~Present(InHand(s))
    /\ Ended(s)
    /\ UNCHANGED <<queue, peopleVars, history>>

\* The host restarts under a sync.
SyncDies(s) ==
    /\ Faults /\ spc[s] # "idle"
    /\ Ended(s)
    /\ Mixes({e \in Emails : SyncWrites(s, e)})
    /\ UNCHANGED <<queue, peopleVars, torn, moved>>

(***************************************************************************)
(* People.                                                                 *)
(***************************************************************************)

\* override_category: refused once a reply is created; a label is corrected only
\* if there is one.
OverrideBegin(p, e, c) ==
    /\ ppc[p] = "idle" /\ Present(e) /\ reply[e] # "created"
    /\ picked' = [picked EXCEPT ![p] = {e}]
    /\ choice' = [choice EXCEPT ![p] = c]
    /\ relabel' = [relabel EXCEPT ![p] = label[e] # NoLabel]
    /\ ppc' = [ppc EXCEPT ![p] = IF label[e] # NoLabel THEN "label" ELSE "redraft"]
    /\ Starts(e)
    /\ UNCHANGED <<queue, syncVars, torn, moved>>

\* Mutant: the label is corrected and the draft left as it was.
OverrideLabelOnly(p) ==
    \E e \in picked[p] :
        /\ ppc[p] = "label"
        /\ label' = IF Present(e)
                    THEN [label EXCEPT ![e] = [source |-> "human",
                                               category |-> choice[p]]]
                    ELSE label
        /\ Done(p)
        /\ UNCHANGED <<connected, arrived, state, lookup, draft, reply, mark,
                       syncVars, torn, mixed>>
        /\ Track({})

\* Both inserts raise if the email is gone.
OverrideLabel(p) ==
    \E e \in picked[p] :
        /\ ppc[p] = "label"
        /\ \/ /\ Present(e)
              /\ label' = [label EXCEPT ![e] = [source |-> "human",
                                               category |-> choice[p]]]
              /\ ppc' = [ppc EXCEPT ![p] = "redraft"]
              /\ UNCHANGED <<picked, choice, relabel>>
           \/ ~Present(e) /\ Done(p) /\ UNCHANGED label
        /\ UNCHANGED <<connected, arrived, state, lookup, draft, reply, mark,
                       syncVars, torn, mixed>>
        /\ Track({})

OverrideDraft(p) ==
    \E e \in picked[p] :
        /\ ppc[p] = "redraft"
        /\ draft' = IF Present(e) THEN [draft EXCEPT ![e] = choice[p]] ELSE draft
        /\ Done(p)
        /\ UNCHANGED <<connected, arrived, state, label, lookup, reply, mark,
                       syncVars, history>>

\* A reclassify goes on with E; with no email left, it has nothing to do.
Narrow(p, E, next) ==
    /\ UNCHANGED <<queue, syncVars, torn, mixed>>
    /\ IF E = {} THEN Done(p) /\ Track({p})
       ELSE /\ picked' = [picked EXCEPT ![p] = E]
            /\ ppc' = [ppc EXCEPT ![p] = next]
            /\ UNCHANGED <<choice, relabel, moved>>

\* reclassify, unclassified_ids: three reads, each a transaction.
ListStates(p) ==
    /\ ppc[p] = "idle"
    /\ Narrow(p, {e \in Emails : state[e] \in {"needs_review", "draft_failed"}},
              "labels")

ReadLabels(p) ==
    /\ ppc[p] = "labels"
    /\ Narrow(p, {e \in picked[p] : label[e].source = "fallback"}, "replies")

\* Mutant: replies are not looked at.
ReadRepliesNot(p) ==
    /\ ppc[p] = "replies"
    /\ Narrow(p, picked[p], "reset")

ReadReplies(p) ==
    /\ ppc[p] = "replies"
    /\ Narrow(p, {e \in picked[p] : reply[e] # "created"}, "reset")

\* EmailStore.reset_for_retriage: one transaction, by the ids listed.
Reset(p) ==
    LET E == {e \in picked[p] : Present(e)} IN
    /\ ppc[p] = "reset"
    /\ label' = [e \in Emails |-> IF e \in E THEN NoLabel ELSE label[e]]
    /\ lookup' = [e \in Emails |-> lookup[e] /\ e \notin E]
    /\ draft' = [e \in Emails |-> IF e \in E THEN None ELSE draft[e]]
    /\ state' = [e \in Emails |-> IF e \in E THEN "received" ELSE state[e]]
    /\ torn' = (torn \ E) \cup {e \in E : BeingWritten(e)}
    /\ mixed' = mixed \ E
    /\ Done(p)
    /\ UNCHANGED <<connected, arrived, reply, mark, syncVars>>
    /\ Track({p})

PersonDies(p) ==
    /\ Faults /\ ppc[p] # "idle"
    /\ Mixes(IF ppc[p] = "redraft" /\ relabel[p] THEN picked[p] ELSE {})
    /\ Done(p)
    /\ UNCHANGED <<queue, syncVars, torn>>
    /\ Track({p})

Dismiss(e) ==
    /\ Present(e)
    /\ SetState(e, "dismissed")
    /\ UNCHANGED <<connected, arrived, label, lookup, draft, reply, mark, syncVars,
                   peopleVars, torn, mixed>>
    /\ Track({})

\* MailboxStore.remove and its cascade; what was to be marked has no row.
RemoveMailbox(m) ==
    LET lost == {e \in Emails : MailboxOf[e] = m} IN
    /\ m \in connected
    /\ connected' = connected \ {m}
    /\ state' = [e \in Emails |-> IF e \in lost THEN "absent" ELSE state[e]]
    /\ label' = [e \in Emails |-> IF e \in lost THEN NoLabel ELSE label[e]]
    /\ lookup' = [e \in Emails |-> lookup[e] /\ e \notin lost]
    /\ draft' = [e \in Emails |-> IF e \in lost THEN None ELSE draft[e]]
    /\ reply' = [e \in Emails |-> IF e \in lost THEN None ELSE reply[e]]
    /\ mark' = [e \in Emails |-> IF e \in lost THEN {} ELSE mark[e]]
    /\ torn' = torn \ lost /\ mixed' = mixed \ lost
    /\ UNCHANGED <<arrived, syncVars, peopleVars>>
    /\ Track({})

(***************************************************************************)
(* create_reply, as InboxReply and ReplyLedger have it.                    *)
(***************************************************************************)

TakeReply(e) ==
    /\ Present(e) /\ draft[e] # None
    /\ reply[e] \in {None, "failed"}
    /\ reply' = [reply EXCEPT ![e] = "pending"]
    /\ UNCHANGED <<connected, arrived, state, label, lookup, draft, mark, syncVars,
                   peopleVars, torn, mixed>>
    /\ Track({})

SettleReply(e) ==
    /\ reply[e] = "pending"
    /\ \/ /\ reply' = [reply EXCEPT ![e] = "created"]
          /\ mark' = [mark EXCEPT ![e] = @ \cup {"drafted"}]
       \/ /\ reply' = [reply EXCEPT ![e] = "failed"]
          /\ mark' = [mark EXCEPT ![e] = @ \cup {"draft_failed"}]
    /\ UNCHANGED <<connected, arrived, state, label, lookup, draft, syncVars,
                   peopleVars, torn, mixed>>
    /\ Track({})

MarkReply(e) ==
    /\ \E m \in mark[e] : SetState(e, m) /\ mark' = [mark EXCEPT ![e] = @ \ {m}]
    /\ UNCHANGED <<connected, arrived, label, lookup, draft, reply, syncVars,
                   peopleVars, torn, mixed>>
    /\ Track({})

-------------------------------------------------------------------------------

Continue(s) ==
    \/ \E m \in Mailboxes : ListMailbox(s, m)
    \/ Fetch(s) \/ ListPending(s)
    \/ Classify(s) \/ StopLimited(s) \/ AddLookup(s) \/ AddDraft(s) \/ SetReview(s)
    \/ TriageRaises(s) \/ TriageAborts(s)

PersonActs(p) ==
    \/ \E e \in Emails, c \in Categories : OverrideBegin(p, e, c)
    \/ OverrideLabel(p) \/ OverrideDraft(p)
    \/ ListStates(p) \/ ReadLabels(p) \/ ReadReplies(p) \/ Reset(p)
    \/ PersonDies(p)

\* Requests of one transaction, and replies, on any thread.
PeopleAct ==
    \/ \E e \in Emails : Dismiss(e) \/ TakeReply(e) \/ SettleReply(e) \/ MarkReply(e)
    \/ \E m \in Mailboxes : RemoveMailbox(m)

Next ==
    \/ \E s \in Syncs : SyncBegin(s) \/ Continue(s) \/ SyncDies(s)
    \/ \E p \in People : PersonActs(p) \/ PeopleAct
    \/ \E e \in Emails : Arrive(e)

Spec == Init /\ [][Next]_vars

\* A started sync goes on.
FairSpec == Spec /\ \A s \in Syncs : WF_vars(Continue(s))

-------------------------------------------------------------------------------
(***************************************************************************)
(* Properties.                                                             *)
(***************************************************************************)

\* An email put before a person has been labelled, looked up in Xero ("never
\* skipped", Pipeline.verify) and given a draft, however syncs, overrides,
\* failures and reclassifies interleave, unless it was reset under a writer.
ReviewIsComplete ==
    \A e \in Emails : state[e] = "needs_review" /\ e \notin torn =>
        label[e] # NoLabel /\ lookup[e] /\ draft[e] # None

\* The draft shown is the one for the category shown, whoever wrote last, when
\* nobody is writing and no two wrote at once.
DraftFollowsLabel ==
    \A e \in Emails \ (torn \cup mixed) :
        ~BeingWritten(e) /\ label[e] # NoLabel => draft[e] = label[e].category

\* "A real classification, a human override, and anything already drafted into
\* Gmail are all left alone" (unclassified_ids): a reclassify about to reset
\* holds no such email, unless the email changed while it read.
ResetSparesDecided ==
    \A p \in People : ppc[p] = "reset" => \A e \in picked[p] \ moved[p] :
        label[e].source = "fallback" /\ reply[e] # "created"

\* "An email left in received is retried by the next sync" and "one bad email
\* must not abandon the rest" (pipeline.py): as long as somebody keeps pressing
\* Sync, every message that Gmail delivers and triage does not choke on leaves
\* the queue, past those that cannot be fetched and those that always raise,
\* unless one always raises while the classifier tells every sync to slow down,
\* or a reclassify puts the oldest back for ever.
EveryMessageIsTriaged ==
    /\ []<>(\E s \in Syncs : spc[s] = "list")
    /\ Bad = {} \/ <>[](\A s \in Syncs : ~limited[s])
    /\ <>[](\A p \in People : ppc[p] # "reset")
    =>
        \A e \in Emails \ (Bad \cup Unfetchable) :
            e \in arrived ~> \/ state[e] \notin {"absent", "received"}
                            \/ MailboxOf[e] \notin connected

(***************************************************************************)
(* What the documents say without the qualifications above.                *)
(***************************************************************************)

\* unclassified_ids, without "unless it changed while it read".
OnlyUnclassifiedIsReset ==
    \A p \in People : ppc[p] = "reset" => \A e \in picked[p] :
        Present(e) => label[e].source = "fallback" /\ reply[e] # "created"

\* Mailbox.list_recent: "each sync walks further back through the window, so the
\* button makes progress until the whole lookback period has been read".
WholeWindowIsRead ==
    []<>(\E s \in Syncs : spc[s] = "list") =>
        \A e \in Emails \ Unfetchable :
            e \in arrived ~> Present(e) \/ MailboxOf[e] \notin connected

\* Pipeline.triage_pending: "One bad email must not abandon the rest of the
\* sync."
RestIsNotAbandoned ==
    [][\A s \in Syncs :
          spc[s] \in Triaging /\ spc'[s] = "idle" /\ ~Stopped(s)
          => batch[s] = {InHand(s)}]_vars
===============================================================================
