# Verification of finance-workflows

TLA+ modules, TLC configurations and TLAPS proofs for the worker of
`finance-workflows` (`worker/fw`). The models are translated from the Python
source; each definition's lines are listed in `PROJECT.json` under `map`.
Paths below are relative to the repository.

## 1. Inventory

The program is one FastAPI process over PostgreSQL (SQLite for development).
Handlers are synchronous, so FastAPI runs each on a thread of its own: any
number of requests interleave, and every store method is a transaction of its
own at PostgreSQL's default level, READ COMMITTED (`db.create_db_engine` asks
for nothing stronger). The host is allowed to sleep and restarts at will. There
is no background job: whatever is not finished by its request stays as it is.

| Component | State | Operations | What makes it correct |
|---|---|---|---|
| Inbox replies (`inbox/api.py` create_reply, `ReplyStore`) | one `inbox_replies` row per email, the email's state, its drafts | reserve, claim_failed, complete, fail; edit, dismiss, remove mailbox | one Gmail draft per email; the stored reply is what Gmail holds; "drafted" is never shown falsely; the row is always settled |
| Sync and triage (`inbox/pipeline.py`, `EmailStore`) | emails, classifications, lookups, drafts, mailboxes | ingest, triage, override, reclassify | no message is lost or doubled; a person's decision is not undone by a machine; every email reaches a person |
| Circuit breaker (`inbox/gemini.py`) | failures, opened-at, resting models, all process-wide | is_open, record_success, record_failure | opens at the threshold, lets calls through again after the cooldown, closes when the service is well |
| Xero lookup (`inbox/verify.py`) | none | by number, open for sender, compare | ambiguous is treated as not found |
| Rendering and review (`inbox/render.py`, `review.py`) | none | fill, unfilled, blockers | no draft with an unfilled slot reaches Gmail |
| Wording (`TemplateStore`, `TemplateVersionStore`) | overrides, version rows | save, reset, read for a draft | a reply names the version of the wording it used |
| Runs (`server.py`, `RunStore`, `workflows/`) | `runs` row, artifact | start, approve | a run is finalised once, by an approver, from what was approved |
| Weekly pay run, chase-up (`workflows/`) | none beyond the run | run, finalise | one payment per vendor; no draft lost or doubled |
| Connections (`server.py`, `oauth.py`, `google.py`, `xero.py`, stores) | encrypted tokens, OAuth states, provider apps | start, callback, refresh, disconnect, replace the app | a state is used once; a disconnected token stays gone; a token is refreshed with the app that issued it |
| Workflow requests (`requests_pr.py`, `github.py`) | request row, GitHub branch and PR | submit, open the PR | a request ends opened or failed |
| Access (`auth.py`, `WorkflowAccessStore`) | members, grants | resolve, require, grant | no org reads another's rows |

The components meet in the database and at Gmail: sync writes the emails and
drafts that create_reply reads; disconnection takes the tokens both use;
remove_mailbox deletes, by cascade, the rows that a call in flight still holds
ids of; reset (reclassify) deletes drafts and labels under the sync that is
writing them. What is hard is listed with its line in `PROJECT.json`
(`hazards`), with the properties that watch it.

## 2. Plan

| # | Module | Models | Abstract specification | State of it |
|---|---|---|---|---|
| 1 | InboxReply | create_reply and everything that writes its rows | ReplyLedger (a lock per email) | checked, proved (section 5) |
| 2 | InboxTriage | sync, ingest, triage, override, reclassify, with replies as ReplyLedger gives them | - | checked; safety proved |
| 3 | WorkflowRuns | grants, start_run, approve, both workflows' finalise | - | checked, proved |
| 4 | Connections | consent, callbacks, refresh, disconnection, provider apps, mailbox rows | - | checked, proved |
| 5 | TemplateVersions | wording, versions, the drafts and replies that name them | - | checked, proved |
| 6 | GeminiCircuit | the breaker and the resting of models under concurrent calls | - | checked; safety proved |
| 7 | WorkflowRequests | a request, its thread and its GitHub calls | - | checked; safety proved |
| 8 | XeroPull, ChaseUp, PayRun (over Places), composed by WorkflowRules | paging and retries; the rows of the chase-up; the payments and bank file | the ledger itself: what is owed; XeroPull, of the run | checked, proved |
| 9 | ClassifierAnswer, InvoiceLookup, Rendering, composed by ReplyRules | the rules of triage on one email | - | checked, proved |

Each module takes its parameters as CONSTANTS with named assumptions and has one
action per transaction or external call. None of them declares a RECURSIVE
operator: the algorithms use the folds of the community modules, or, where they
are proved about, the recursive function and the listings of Places.

## 3. What is modelled

### InboxReply

One action per database transaction or Gmail call of
`POST /api/inbox/emails/{id}/draft-reply`. A call is an element of `Requests`
with a program counter and the Python locals that outlive a step: `target` (the
email), `carry` (the draft read on entry), `attempt`, `draftId`. The actions in
the order of the handler: `Begin` (guards and reads), `Reserve`, `ReadTaken`,
`ClaimRead` and `ClaimWrite` (claim_failed, which is a read and an unguarded
update in one READ COMMITTED transaction, hence two steps),
`AnswerBeingCreated`, `FindMailbox`, `PostAccepted` / `PostRefused` /
`PostAnswerLost`, `Complete`, `MarkDrafted`, `Fail`, `MarkFailed`, `AddAlert`.
`Die` ends a call at any step: an exception the handler does not catch, or the
host going to sleep. Around it, `EditDraft`, `Dismiss`, `DismissErrors` and
`RemoveMailbox` write the same rows.

The tables are `email` (state), `draft` (newest words), `reply` (status, words,
draft id), `alerts` (open DRF-001 errors). A row's id is identified with its
email, because the unique constraint allows one and only the cascade deletes
it. Gmail is external: `gmail[e]` is the sequence of drafts it holds in e's
thread, and a draft's id is its place there. Two history variables say what the
program cannot know: `orphan`, the drafts whose id was lost, and `stale`, the
emails whose row was claimed when it was no longer failed.

Wording is a model value; `Blocked` holds the wordings that `review.blockers`
refuses. Ingestion, triage and reclassify are outside this module: its initial
state is an email that is triaged and has a draft. SQLite (foreign keys off,
writers serialised) is not modelled; the hosted database is.

### ReplyLedger

What `inbox_replies` promises, per email: taken by one caller, settled by that
caller, abandoned if it dies, final once created, deleted with the email. An
email whose row two callers took over at once is in `broken`, and the ledger
promises nothing more about it: claim_failed does let that happen (below), and
`InboxReply!LedgerSpec` says that nothing else does.

### InboxTriage

The queue that create_reply takes its emails from: `POST /sync` with
`Pipeline`, `PUT /emails/{id}/category`, `POST /reclassify`, dismiss,
remove_mailbox. A message is a number, its place in the order of receipt, and
stands for its row once it is stored (the unique constraint makes one). The
tables are `state`, `label` (newest classification), `lookup`, `draft`
(category of the newest draft), `reply`, and `connected` (mailbox rows).

A sync (`Syncs`) goes through `SyncBegin`, `ListMailbox` and `Fetch` for each
mailbox, `ListPending`, and then `Classify`, `AddLookup`, `AddDraft`,
`SetReview` for each email in its `batch`; `TriageRaises` is the loop's except
branch, `TriageAborts` the exception that branch itself meets when the email is
gone, `StopLimited` the stop after a rate limit. A person's request (`People`)
is an override (`OverrideBegin`, `OverrideLabel`, `OverrideDraft`) or a
reclassify (`ListStates`, `ReadLabels`, `ReadReplies`, `Reset`). With `Faults`,
any call may raise and `SyncDies` and `PersonDies` end a request anywhere.
create_reply appears as its effect on these tables (`TakeReply`, `SettleReply`,
`MarkReply`; a failed call's late mark is kept in the set `mark`, where two
equal marks are one); InboxReply has the detail, and edits of a draft's words,
which this module does not see. Two calls that take over one failed row at once
(`stale` in InboxReply) are not in this module.

Three history variables excuse what the code cannot promise: `moved` (emails
that changed while a reclassify read), `torn` (emails whose last
reset came under a writer), `mixed` (emails that, since a reset, two wrote about
at once or one left half done). What no step can use any more is forgotten, so
that states are not told apart by it: an empty list of a reclassify ends it, and
the marks of a deleted email go with it.

Abstractions: the classifier's answer is any category, an error or "slow down";
a message that is noise, always raises or cannot be fetched is so by constants;
a mailbox once removed is not connected again; `unclassified_ids`' limit of
1000 rows is left out; the record of errors is left out except where writing it
raises.

### WorkflowRuns

`POST /workflows/{key}/runs` is `Create` (the row, needs_approval from the
start), `ReadContext` (the merged wording, the bank details) and `FinishPull` or
`FailPull`; `POST /runs/{id}/approve` is `ReadRun` with its refusals
(`MayApprove`), `PrepareFinalise` (layout, mailer), `DraftRow` for each of the
chase-up's rows, and `Complete`, an update without a guard. `Die` ends a request
anywhere. `SetAccess`, `EditBasis`, `SetLayout` and `SetGmail` are the settings
that change under a run. `run` is the table, `basis` the version of the wording
or of the bank details, `drafts` what Gmail holds: for each row of a run, the
versions of the wording its drafts were made in. `crossed` (runs that two
approvals worked on at once, or one left half done) and `orphaned` (whose
start_run died) are history.

### Connections

`provider_apps`, `connections`, `oauth_states`, `inbox_mailboxes`, and whether
the categories are seeded, for one organisation and one provider. A consent is
`StartXero` or `StartGoogle`, may `Expire`, and is redeemed by `TakeRead`,
`TakeDelete`, `Exchange` and then, for Xero, `ReadNames` and for each tenant
`NameTenant` and `SaveTenant`; for Google `SaveMailboxToken`, `UpsertMailbox`,
`ReadCategories`, `SeedCategories`. `Refresh` and `SaveRefreshed` are a token's
refresh; `Disconnect`, `RemoveMailbox` and `Unplug` take tokens away; `SaveApp`,
`CheckClear`, `Clear`, `ListIssued` and `DropOne` change the organisation's apps.
A token is reduced to the tenant it reads and the client it was issued to. Each
row and each call carries, as history, `late`: what another request changed
between its reading and its writing; a row saved over another keeps the other's
mark of an overtaken name, since its name is still the one that call gave.

### TemplateVersions

`override` is `workflow_templates`, `versions` is `inbox_template_versions`,
`draft` and `reply` the newest draft and the reply of one email. Saving is
`SaveTemplate`, `ReadLatest`, `AddVersion`; drafting is `ReadTemplate`,
`ReadVersion`, `AddDraft`; editing is `ReadDraft`, `AddDraft`; replying is
`StartReply`, then `Reserve`, `ClaimFailed` or `Refuse`, and `Settle`. A wording
is a number. `sound` and `straight` are history: whether a save or a reset came
between two reads that belong together.

### GeminiCircuit

The attributes of `_Circuit` and the cooling map, read and written one at a time
by threads without a lock: `is_open` is `Call`, which looks at the count, and
`CheckCooldown`, which looks at the time; `Fail` reads the count, `CountFailure`
writes it, `ReachThreshold` looks at it again and `OpenCircuit` sets the time; a
success is `Succeed` and `ForgetOpening`. `RateLimited` rests a model and tries the next of the chain.
`Cool` and `Wake` are the passing of time, `Restart` that of the process, and
`up` that the service answers from now on.

### WorkflowRequests

Each of `open_request_pr`'s calls is an action, in the order of the code; `Raise`
is any failure, `LoseAnswer` a pull request opened whose answer is lost,
`Forgive` the one exception that is caught on the way, `Resolve` the update of
the row. (stores.py:307 would mark it as opened after an exception without a
text, which is not modelled: the module's failures all have one.) GitHub keeps
`base`, `branch` and `pr`; `Merge` lets a later request start from files that an
earlier one added.

### XeroPull, Places, ChaseUp, PayRun, WorkflowRules

XeroPull is `get_bills` and `get_receivables`, which are the same loop, with
`_get`'s retries, over a ledger that changes meanwhile. ChaseUp and PayRun are
the bodies of the two workflows' `run` and the pay run's `finalise`, as
operators (`finalise` as PayRun's `BankFile`). Both handle a list by its places, as Places defines it: the loops
narrow a list to some places, keep the first place of each key and sum over the
others (`Firsts`, `Sum`), and list the result in an order of its places
(`Arranged`): the stable sort of the chase-up, the order of appearance of the pay
run. WorkflowRules composes them: any ledger, one pull, the rows, and the bank file
of those that an approver chooses (`Finalise`), while bank details are imported
at any time. `finalise` takes the rows as they were stored, so `shown` keeps the
import they were made of. Each of its steps is one of XeroPull's or leaves the pull as
it is (proved as `RunIsAPull`). The reference definitions are in the properties:
what a customer owes is summed over the ledger itself, never over what was read.

Amounts are whole numbers: rounding to pence is left out. `OwnNames` keeps the
properties of the pay run to imports that have no column named like one of the
row's own fields, since `**details` would replace that field (the hazard at
weekly_payrun.py:288); the model itself does replace it. Of the bank's layout,
`ColumnsAssumption` asks for the three columns that the properties read.

### ClassifierAnswer, InvoiceLookup, Rendering, ReplyRules

`coerce`, `lookup`, `field_map`, `fill`, `blockers` and the warnings of `flags`,
as operators on records, composed by ReplyRules in the order of
`Pipeline.triage`: `Classify`, `Verify`, `Draft`, then `Override`, while the
ledger changes. A score may be missing, or NaN, which Python compares false with
everything: it passes the floor of a field and raises no low_confidence. A template is the set of slots it mentions and a text knows
which slots stand in it. `ByNumber` gives the places in the ledger of what answers
to a number. Two assumptions are about the outside: an answer's fields can be
looked at and looked up (`AnswersAssumption`), and what Xero answers to a number
includes every invoice that has it, in whatever case (`XeroAssumption`).

A category that is not in the list is coerced to the catch-all (`OutOfScope`)
with no warning beside the draft: pipeline.py:165 records CLS_BAD_CATEGORY for
the error log alone. `NoWarningNoDoubt` therefore says of an answer whose
category is unknown that the draft is the catch-all's. The catch-all's template
of the instance mentions an invoice, as a team may make it, so that this happens.

Left out, all of it on the side where a draft is blocked or warned of anyway: the
candidates offered when no invoice was found; that Xero may leave a value of an
invoice out, or hold a slot in another than the name; the warnings
unsupported_language and open_dispute. Amounts are in pennies and compared
exactly; with floats, a difference of exactly a penny may be flagged after all.
`NoSlotGoesOut` is about drafts as they were rendered; create_reply looks at the
text of an edited one again, which is InboxReply's `Blocked` wording.

## 4. What is checked

| Run | Module | Bounds | Shows |
|---|---|---|---|
| reply_safety | MCInboxReply | 1 email, 3 calls, 1 wording, 3 Gmail drafts, faults | one acknowledged draft per email, one holder, drafted implies created, reservation before Gmail, Gmail only under a pending row, created rows do not change, the refinement of ReplyLedger |
| reply_liveness | MCInboxReply | 1 email, 2 calls, 3 wordings (1 blocked), 2 Gmail drafts, no faults | every pending reply is settled; the stored reply is the Gmail draft |
| reply_duplicate (violation) | MCInboxReply | 1 call | a late answer makes a second draft |
| triage_safety | MCInboxTriage | 1 message, 2 syncs, 1 person, 2 categories, faults | complete when shown, draft follows label, a reset spares what is decided |
| triage_drains | MCInboxTriage | 4 messages (one noise, one always raising, one unfetchable), 2 syncs, listing and batch limit 2 | every other message leaves the queue |
| connections | MCConnections | each provider; 2 apps, 2 tenants of one slug, 2 calls, 2 consents, 2 clients, deaths | a token stays with the app that can refresh it, a name with its organisation, an organisation has one row, a mailbox its token |
| runs | MCWorkflowRuns | 1 run of either kind, 2 rows (1 without an address), 3 calls, 1 change of wording or details, deaths | finalised as shown, one draft per row, no approval of a pull under way, finished runs stay |
| wording | MCTemplateVersions | 2 categories, 2 calls, 2 saves, deaths | versions name the wording they were saved of, for the settings screen, drafts and replies |
| circuit | MCGeminiCircuit | 2 calls with a model each, one that may be gone; threshold 2 | the count is honest, the circuit closes |
| requests | WorkflowRequests | 2 requests, 2 titles, with and without generation | the pull request is what it says, the row tells the truth, every request is resolved |
| workflow_rules | MCWorkflowRules | up to 3 invoices of 5 kinds, pages of 2, 2 attempts, 1 change meanwhile, 2 imports at any time, any choice of rows | none read twice or missed, every debt chased once, oldest first, paid what is owed, to accounts of the import that was shown |
| reply_rules | MCReplyRules | 2 invoices of 4, all combinations of the answers' values, scores at the floors, missing and NaN, claims up to two pennies off | no slot goes out, facts are the ledger's, no unflagged doubt |

For create_reply, one email is enough: a call touches only its target's rows (`Locality`, proved
in `InboxReplyProofs`), and mailbox removal treats emails alike. Three calls
allow a holder, a loser and a third that takes over; three Gmail drafts allow
one per attempt of a call. Gmail's capacity `MaxDrafts` is the only artificial
bound of the module; at the bound a post can still be refused, so a call never
blocks there. Calls are symmetric, and symmetry is used in safety runs only.
CHECK_DEADLOCK is off where the system may stop: with the mailbox removed and no
call under way, or every bound used up, there is nothing left to do. The wording
and the breaker always have a next step, and their runs check it.

`TypeOK` of TemplateVersions, GeminiCircuit, WorkflowRequests and ReplyRules is
in no run's list, since it says nothing of the code that the runs' properties do
not need anyway; it is proved (section 5), as is WorkflowRules' `RulesTypeOK`.

The qualifications in the properties say where the code falls short.
`OneAcknowledgedDraft` counts the drafts whose creation the worker learned of;
the unqualified `OneDraftPerEmail`, which README.md claims, fails when an answer
is lost. `e \in stale` excuses the emails whose claims overlapped; the
unqualified `CreatedIsFinal`, which claim_failed's docstring claims, fails there.

For the queue, the three properties of triage_safety concern one email, and
each write of a sync or a person is to one email; what depends on there being
several (order, batch, limits) is in triage_drains. Two syncs, or a sync and a person, are the writers that can meet.
In triage_drains each limit is above the number of messages that stick (one
always raises, one is never delivered): with as many as the limit, the queue
does stop, and the property then fails. Nobody but the syncs acts there
(`People = {}`), to keep the run small. `EveryMessageIsTriaged` supposes that
somebody presses Sync again and again, that no reclassify puts the oldest back
for ever, and, if a message always raises, that the classifier does not tell
every sync to slow down: each would leave the later messages waiting.

`ResetSparesDecided` excuses `moved`: emails that were replied to or relabelled
while a reclassify was reading.

For connections, two tenants of one slug are the case in which names collide;
two apps, that one's change must spare the other's tokens; two calls, that a
callback, a refresh, a removal and an app change overlap in pairs. Two consents
are the bound of the run, not of the result: with a third, `OneRowPerTenant` was
refuted (a row saved again lost its mark) while its proof was attempted; the
mark is kept now, and the theorem holds for any number.
For runs, three calls are a start_run and two approvals, or three approvals.
For the breaker, the threshold 2 and a count that stops at 3 keep apart "below",
"at" and "above", and two calls can lose each other's update. For the workflows'
rules, pages of 2 and up to 3 invoices give a part page, a full page and a full
last page; the five kinds of invoice include a credit, one without a date, one
vendor in two spellings, and the wrong type.

### Fairness

Fairness of InboxTriage: a started sync goes on (`WF` of `Continue(s)`); that it
is started again is a premise of the property, not of the specification.

Fairness of InboxReply: `FairSpec` assumes only that a started call is scheduled
(`WF_vars(Continue(r))`): a thread runs until it returns. It assumes nothing of
users or of Gmail's answers; the retry loop ends by its own counter.

Fairness of GeminiCircuit: threads run and their requests time out
(`WF` of `Step`), time passes (`WF` of `Cool` and `Wake`), and organisations whose
own model is not gone keep syncing, whatever the circuit tells them (`WF` of
their `Call`). Nothing is assumed of who comes while the circuit is half-open.
That the service is well from some time on, and that nobody then goes on asking
for a model that is gone, are `CircuitCloses`' premises. The second is needed:
such an organisation may come first after every cooldown, and its failure opens
the circuit for another 300 seconds with the count as it was, so that nothing in
the code promises the others a call.
Fairness of WorkflowRequests: the thread's calls have time-outs, so it goes on
(`WF` of `Step`), but it may die. The other modules state safety only and have
no fairness.

### Promises that the code does not keep

The modules also state, under "What the documentation promises", what a doc or a
comment says and TLC refutes when it is added to the configuration named. The
first is the run reply_duplicate.

| Property | Configuration | The source says | What happens |
|---|---|---|---|
| InboxReply!OneDraftPerEmail | ReplyDuplicate | README.md:84-87, one reply per email | a time-out of a post that Gmail accepted is followed by a second post |
| InboxReply!CreatedIsFinal | ReplySafety | inbox/stores.py:679-681, "A row in `created` is final" | two overlapping claims of a failed row: the second sets the created row back to pending |
| InboxReply!PendingIsSettled, with `Faults` | ReplyLiveness | README.md:85-86, a replayed request resolves to one draft | a call that dies after reserving leaves the row pending, and every replay is refused |
| InboxTriage!OnlyUnclassifiedIsReset | TriageSafety | inbox/api.py:222-223, decided emails "are all left alone" | an email decided after the reclassify read it is reset |
| InboxTriage!RestIsNotAbandoned | TriageDrains, with a person | inbox/pipeline.py:255, "must not abandon the rest" | recording the error of a deleted email raises too, and ends the sync |
| InboxTriage!WholeWindowIsRead | TriageDrains, with `ScanLimit` 2 | inbox/gmail.py:154-156, "until the whole lookback period has been read" | the scan stops among stored messages and never reaches the older ones |
| Connections!NoTokenOutlivesItsClient | Connections | server.py, clear_provider_app, "A refresh token cannot outlive the client that issued it" | a platform token, or a Gmail token, outlives the first app's registration or a renamed app |
| WorkflowRuns!DegradesWithoutGmail | WorkflowRuns | server.py, _mailer, "must degrade to producing a file rather than failing" | the chase-up's run fails, with its rows marked approved, and cannot be approved again |
| GeminiCircuit!OneCallTests | GeminiCircuit | inbox/gemini.py:60, "let one call through to test" | every call after the cooldown is let through |
| WorkflowRules!NoRemovedAccountIsPaid | WorkflowRules | stores.py:618-620, a removed vendor "must disappear here too, or a stale account number outlives the change" | a run pulled before the import keeps the account in its rows, and its approval pays it |
| ReplyRules!TrustNeedsAScore | ReplyRules | inbox/classify.py:148, "A missing score is not permission to trust the value" | a score that reads NaN is not below the floor, and the number is trusted |
| TemplateVersions!AuditRowReadsBack | TemplateVersions | inbox/stores.py, "so an audit row can be read back" | a claimed row keeps the failed attempt's version with the new words |

### Mutants

Every property of a passing run has a mutant: a named, plausibly wrong version
of one action (`... \* Mutant:` in the module) under which TLC must find the
property violated.

## 5. What is proved

Every theorem is of the specification the runs check, for every value of the
constants that satisfies the module's named assumptions: any number of calls,
emails, tenants, rows, consents, pages, with or without faults, so the bounds of
section 4 do not limit it. (A bound that is a constant, such as `MaxConsents`, is
any natural number.) Each module's `IInv` is the inductive invariant: the
property with what each call must know, at each step, for the next to keep it.
The history variables carry the excuses, so an invariant about a call has the
form "if nobody overtook it, what it read is still so".

| Module | Theorems | Assumptions beyond types |
|---|---|---|
| InboxReplyProofs | the eight properties of reply_safety, the refinement of ReplyLedger among them, and `LedgerMatchesGmail` | none |
| InboxTriageProofs | `TypeOK`, `ReviewIsComplete`, `DraftFollowsLabel`, `ResetSparesDecided` | emails are numbered in the order of receipt |
| ConnectionsProofs | `TypeOK`, `IssuerIsKept`, `OneRowPerTenant`, `MailboxHasToken`, `NameKeepsTenant` | none |
| WorkflowRunsProofs | `TypeOK`, `FinalisedAsShown`, `OneDraftPerRow`, `PullIsAlone`, `FinishedStays` | none |
| TemplateVersionsProofs | `TypeOK`, `CurrentIsLatest`, `NamesItsWording` | none |
| ServiceProofs | GeminiCircuit's `TypeOK`, `CountIsHonest`; XeroPull's `PullTypeOK`, `EachIsReadOnce`; WorkflowRules' refinement of XeroPull, and with it `EachIsReadOnce`, `RulesTypeOK`, `EveryDebtIsChased`, `PaidWhatIsOwed`, `NoStaleAccount` | a page and the threshold are at least 1; amounts are whole numbers; `NoDate` is no number; the layout has the columns that are read |
| WorkflowRequestsProofs | `TypeOK`, `KindIsHonest`, `RowIsTrue` | none |
| ReplyRulesProofs | `TypeOK`, `NoSlotGoesOut`, `FactsComeFromXero`, `NoWarningNoDoubt` | `XeroAssumption` (for the second) |

### InboxReply

`InboxReplyProofs`, for any sets of emails, mailboxes, wordings and calls, any
bound on Gmail, with or without faults. The assumptions on the constants are
those named in InboxReply (a mailbox for each email, `NoWords` not a wording,
`Nobody` not a call).

- `TypeCorrect`: the type invariant.
- `Invariance`: `IInv`. None of the properties is inductive alone. `LockInv`
  couples what is needed: at most one call holds the row, and the row is then
  pending with that call's words (`LockHeld`); nothing is acknowledged while the
  row is free or its holder has not heard from Gmail, and the holder that has
  heard knows the one acknowledged id (`Accounted`); a created row names it
  (`Recorded`). It is claimed for emails outside `stale`. `RowInv` and `IdInv`
  hold of every email: a deleted email has no row, and every id anyone holds is
  of a draft in Gmail.
- From `IInv`: `OneAcknowledged`, `MutualExclusion`, `LedgerIsGmail`,
  `DraftedIsTrue`, `ReservationFirst`, and the action properties `CreatedIsKept`
  and `GmailUnderReservation`.
- `Refinement`: `Spec => LedgerSpec`. Each step moves each email's lock as the
  ledger allows (`MovesAlways`): the call that is or becomes the holder by
  `MovesOfTarget`, all others by `Locality`.

The proofs go by what a step can disturb: `Locality` (a call changes its own
locals and its target's rows), a frame lemma per invariant, and one lemma per
action that is not covered by the frame.

### InboxTriage

`IInv` is `TypeOK` with one conjunct for each email and each writer. A sync that
has written part of its three rows finds them there unless the email was reset
under it (`ReviewInv`, with `HeldInv` and `AbsentInv` for emails that go); a
writer of an email that is not in `mixed` is its only one, and what it has still
to write is of the label on record (`SyncInv`, `PersonInv`); what a reclassify
has read of the emails it holds is still so unless they moved (`ResetInv`). An
action writes about one email, so each is shown once for that email, and by the
frame lemmas for all others.

### Connections

Three parts that need each other only for types. `AppInv`: a token, on a row or
in a call's hands, was issued to today's client of its app, or is marked "app",
or is on the list of a change of app that is about to drop it (`Doomed`).
`NameInv`: a callback that nobody overtook knows every name there is and, when
it saves, the row of its tenant if it has one (`NamedInv`); a name made unique
by its tenant's suffix is never another tenant's (`Owns`); hence any two rows of
one tenant, one of them marked (`PairInv`). `MailInv`: a mailbox about to be
connected has its token unless it was taken away (`TokenInv`).

### WorkflowRuns

`PullInv`: a pull has its run to itself, and the run has no rows to approve,
which is why no approval can pass `MayApprove` meanwhile. `ApproveInv`: what an
approval has read is what the run still shows, for no step changes a run's rows
or basis once it is pulled. `AloneInv`: a run that is not in `crossed` has one
call at most, awaits approval while it has one, and has a draft only for rows
that call has done. `FinishedStays` follows step by step from
`AloneInv`: a finished run that is not in `crossed` has no call that could write
it.

### TemplateVersions

`StraightInv` and `CallInv`: a save that nothing overtook is its category's only
one, with the next number in hand; a template that was read and not overtaken is
still the category's, so that the latest version is its own. Versions are only
appended, so what named its wording goes on naming it.

### GeminiCircuit and XeroPull

The circuit: while one thread records an answer and no two have, the count is
that of the history, or one behind it at the step in between (`Pending`), and
once no thread records, they agree (`Settled`).

The pull (`PullSpec`): as long as nothing is entered, the ledger and what was
read are in the order of the ids, and all that was read comes before all that is
past the page's start (`OnceInv`); as long as nobody leaves, what there was at
the start is read or past the page's start (`AllInv`). `Inserted` and `Removed`
say where the others go when the ledger changes, `PageRead` what a page adds.

### WorkflowRules

`RunIsAPull`: with `PossibleAssumption`, each step of a run is one of the pull's or
leaves the pull alone, so `PullInv` and `EachIsReadOnce` hold of it.

`RulesInv` adds to `PullInv` what the run needs to remember. As long as nobody
touches the ledger, what was read is as much of it as the pages before this one,
and all of it when the pull is done (`Faithful`); whatever is in the ledger or was
read is of the run's kind (`OfItsKind`); the bank details are those of the last
import that was accepted (`LastImported`); the rows, once there are any, are what
`ChaseRows` or `PayRows` makes of what was read and of the details that `shown`
remembers, and no later import changes them (`Made`); and the bank file is of
some of those rows (`Approved`). TLC finds each of these true on the instance of section 4.

The rest is about the operators, whatever they are given. That `Sum` is defined at
all, takes any of its values out (`SumTakes`) and does not depend on where the
values stand (`SumMoves`) are proved by induction over the subsets of a finite set,
stated for a set of subsets (`SubsetInduction`), from the well-foundedness of the
natural numbers: the library's induction theorems take an operator as parameter,
which cannot be instantiated here. `Listing` is that a set is listed, each
element once and in order, by the number of elements before each. `ChaseIs` and
`PayIs` say what the two workflows' rows are. A chase's row adds up its customer's
debts (`RowAdds`) and has the place of the first of them (`FirstPlace`);
consolidation keeps what each vendor is paid, and its account
(`ConsolidatedPays`), as does the order of the lines (`ArrangedPays`). For
`NoStaleAccount`, every row the pay run makes has an account that those details
hold for the vendor it names (`IsPayment`), through each of these, and so has
each line of the file, which is a row's.

### WorkflowRequests

`BranchInv` follows a thread's branch commit by commit: without generated code
until the module, with the module and its tests by the registry, and so when the
pull request is asked for; a merge only adds to `base`. `RowInv`: no pull request
before it is asked for, and none of another kind than the thread then says.

### ReplyRules

`SaidInv`: the classification on record is what the answer's confident fields
say, with the category a person's if overridden. `FoundInv`: the lookup's invoice
is the one in `seen` that alone answers to its number. `DraftInv`: the draft is
the rendering of both. `CoerceIs`, `LookupIs` and `RenderedIs` say what the three
operators give, whatever they are given.

### Left to TLC

`PendingIsSettled`, `EveryMessageIsTriaged`, `CircuitCloses` and
`RequestIsResolved`: liveness under fairness is out of the prover's reach.
Every other property of the passing runs is proved.

## 6. What is not modelled

- The web front end, the encryption envelope, environment variables and hosting
  files have no state of their own.
- `auth.py` resolves a verified token to one member and keeps nothing; that every
  store filters by organisation is a matter of each query, not of an order of
  steps. Row-level security concerns browser sessions.
- Text: the parsing of dates, amounts and HTML, prompts, the rendering of wording
  in the chase-up, receiver types, log lines and summaries.
- Reading spreadsheets (`banking.ExcelBankDetails`, `seed.py`), and what their
  columns may be called.
- Discovery of Gemini's models, and the inbox's settings and category editing.
- `_fetch_tenant`, for connections older than the callback that stores a tenant,
  and SQLite's locking.
