--------------------------- MODULE TemplateVersions ---------------------------
(***************************************************************************)
(* The inbox's wording and its history: the template of each category, the *)
(* versions saved of it, and the version that a draft and a reply name     *)
(* (worker/fw/inbox/api.py, pipeline.py, stores.py; TemplateStore in       *)
(* stores.py), for one organisation and one email.                         *)
(*                                                                         *)
(* A wording is a number, one for each save, and 0 is the category's       *)
(* shipped one.  What a draft says is reduced to the wording it was        *)
(* rendered from, so a person's edit copies it.  A transaction is an       *)
(* action; requests interleave, and one may die anywhere.                  *)
(*                                                                         *)
(* Reserving the reply and claiming a failed one are one action here, and  *)
(* Gmail's part is that it succeeds or fails: InboxReply has them in full. *)
(***************************************************************************)
EXTENDS Integers, Sequences, SequencesExt

CONSTANTS
    Categories,
    Calls,      \* threads serving requests
    MaxSaves    \* bound: wordings saved

ASSUME MaxSavesAssumption == MaxSaves \in Nat

VARIABLES
    override,   \* workflow_templates: each category's own wording, if any
    versions,   \* inbox_template_versions: the wordings saved, by number
    draft,      \* the email's latest inbox_drafts row
    reply,      \* its inbox_replies row
    saved,      \* wordings saved so far
    call,       \* where each request is, and what it has read
    straight    \* history: categories whose last save had nothing in its way

vars == <<override, versions, draft, reply, saved, call, straight>>

Shipped == 0
Wordings == Shipped..MaxSaves
\* What a draft and a reply keep: the category, the version they name (0 for
\* none) and the wording they say; as history, whether nothing changed the
\* wording between the reading of the one and of the other.
Said == [category : Categories, version : Nat, words : Wordings,
         sound : BOOLEAN]
Nothing == [version |-> 0]
Idle == [pc |-> "idle"]
\* A call that saves a wording, and one that makes or uses a draft.
SaveCall == [pc : {"saved", "numbering"}, category : Categories,
             words : Wordings \ {Shipped}, alone : BOOLEAN, number : Nat]
SaidCall == [pc : {"templated", "drafting", "replying", "sending"}, said : Said]

TypeOK ==
    /\ override \in [Categories -> Wordings]
    /\ versions \in [Categories -> Seq(Wordings \ {Shipped})]
    /\ draft \in Said \cup {Nothing}
    /\ reply \in [status : {"none", "pending", "failed", "created"},
                  said : Said \cup {Nothing}, claimed : BOOLEAN]
    /\ reply.status = "none" <=> reply.said = Nothing
    /\ saved \in 0..MaxSaves
    /\ straight \subseteq Categories
    /\ call \in [Calls -> {Idle} \cup SaveCall \cup SaidCall]
    /\ \A c \in Calls : call[c].pc = "sending" => reply.status # "none"

Init ==
    /\ override = [k \in Categories |-> Shipped]
    /\ versions = [k \in Categories |-> <<>>]
    /\ draft = Nothing /\ saved = 0 /\ straight = Categories
    /\ reply = [status |-> "none", said |-> Nothing, claimed |-> FALSE]
    /\ call = [c \in Calls |-> Idle]

Goto(c, next) == call' = [call EXCEPT ![c] = next]

\* Request c goes on as `next`, and category k's wording changed under those
\* that have read it and under those that are saving it.
Overtake(c, k, next) ==
    call' = [d \in Calls |->
        IF d = c THEN next
        ELSE CASE call[d].pc = "templated" /\ call[d].said.category = k ->
                    [call[d] EXCEPT !.said = [@ EXCEPT !.sound = FALSE]]
               [] call[d].pc \in {"saved", "numbering"} /\ call[d].category = k ->
                    [call[d] EXCEPT !.alone = FALSE]
               [] OTHER -> call[d]]

Saving(k) == {d \in Calls : /\ call[d].pc \in {"saved", "numbering"}
                            /\ call[d].category = k}

(***************************************************************************)
(* The wording                                                             *)
(***************************************************************************)

\* save_template: the wording; then the latest number, and a row for the next,
\* which unique(org_id, variant, version) refuses if it has been taken.
SaveTemplate(c, k) ==
    /\ call[c].pc = "idle" /\ saved < MaxSaves
    /\ saved' = saved + 1
    /\ override' = [override EXCEPT ![k] = saved + 1]
    /\ Overtake(c, k, [pc |-> "saved", category |-> k, words |-> saved + 1,
                       alone |-> Saving(k) = {}, number |-> 0])
    /\ straight' = straight \ {k}
    /\ UNCHANGED <<versions, draft, reply>>

ReadLatest(c) ==
    /\ call[c].pc = "saved"
    /\ Goto(c, [call[c] EXCEPT !.pc = "numbering",
                               !.number = Len(versions[call[c].category]) + 1])
    /\ UNCHANGED <<override, versions, draft, reply, saved, straight>>

\* Mutant: the newest wording goes to the front.
AddedFirst(history, n, w) == IF n = Len(history) + 1 THEN <<w>> \o history
                             ELSE history
\* The history with wording w added as number n.
Added(history, n, w) == IF n = Len(history) + 1 THEN Append(history, w)
                        ELSE history

AddVersion(c) ==
    LET k == call[c].category IN
    /\ call[c].pc = "numbering"
    /\ versions' = [versions EXCEPT ![k] = Added(@, call[c].number, call[c].words)]
    /\ straight' = IF call[c].alone THEN straight \cup {k} ELSE straight
    /\ Goto(c, Idle)
    /\ UNCHANGED <<override, draft, reply, saved>>

\* reset_template: the shipped wording again, which adds no version.
ResetTemplate(c, k) ==
    /\ call[c].pc = "idle" /\ override[k] # Shipped
    /\ override' = [override EXCEPT ![k] = Shipped]
    /\ Overtake(c, k, Idle)
    /\ straight' = straight \ {k}
    /\ UNCHANGED <<versions, draft, reply, saved>>

(***************************************************************************)
(* Drafts                                                                  *)
(***************************************************************************)

\* Pipeline.draft, from triage or override_category: the template, then the
\* current version, then the row.
ReadTemplate(c, k) ==
    /\ call[c].pc = "idle" /\ reply.status # "created"
    /\ Goto(c, [pc |-> "templated",
                said |-> [category |-> k, version |-> 0, words |-> override[k],
                          sound |-> k \in straight]])
    /\ UNCHANGED <<override, versions, draft, reply, saved, straight>>

\* Mutant: the number the next version will have.
CurrentVersionNext(k) == Len(versions[k]) + 1
\* TemplateVersionStore.current_version.
CurrentVersion(k) == Len(versions[k])

ReadVersion(c) ==
    /\ call[c].pc = "templated"
    /\ Goto(c, [pc |-> "drafting",
                said |-> [call[c].said EXCEPT
                            !.version = CurrentVersion(call[c].said.category)]])
    /\ UNCHANGED <<override, versions, draft, reply, saved, straight>>

\* edit_draft: the latest draft is read, and its category and version copied.
ReadDraft(c) ==
    /\ call[c].pc = "idle" /\ draft # Nothing
    /\ Goto(c, [pc |-> "drafting", said |-> draft])
    /\ UNCHANGED <<override, versions, draft, reply, saved, straight>>

AddDraft(c) ==
    /\ call[c].pc = "drafting"
    /\ draft' = call[c].said
    /\ Goto(c, Idle)
    /\ UNCHANGED <<override, versions, reply, saved, straight>>

(***************************************************************************)
(* The reply                                                               *)
(***************************************************************************)

\* create_reply: the latest draft, then the row, or a failed row taken over.
StartReply(c) ==
    /\ call[c].pc = "idle" /\ draft # Nothing
    /\ Goto(c, [pc |-> "replying", said |-> draft])
    /\ UNCHANGED <<override, versions, draft, reply, saved, straight>>

Reserve(c) ==
    /\ call[c].pc = "replying" /\ reply.status = "none"
    /\ reply' = [reply EXCEPT !.status = "pending", !.said = call[c].said]
    /\ Goto(c, [call[c] EXCEPT !.pc = "sending"])
    /\ UNCHANGED <<override, versions, draft, saved, straight>>

\* claim_failed: the new draft's words and category, and the old version.
Claimed(old, new) == [new EXCEPT !.version = old.version]

ClaimFailed(c) ==
    /\ call[c].pc = "replying" /\ reply.status = "failed"
    /\ reply' = [status |-> "pending", said |-> Claimed(reply.said, call[c].said),
                 claimed |-> TRUE]
    /\ Goto(c, [call[c] EXCEPT !.pc = "sending"])
    /\ UNCHANGED <<override, versions, draft, saved, straight>>

\* There is one already, being created or created.
Refuse(c) ==
    /\ call[c].pc = "replying" /\ reply.status \in {"pending", "created"}
    /\ Goto(c, Idle)
    /\ UNCHANGED <<override, versions, draft, reply, saved, straight>>

\* Gmail's answer; what it was asked to draft is the words of the draft read.
Settle(c, status) ==
    /\ call[c].pc = "sending"
    /\ reply' = [reply EXCEPT !.status = status]
    /\ Goto(c, Idle)
    /\ UNCHANGED <<override, versions, draft, saved, straight>>

Die(c) ==
    /\ call[c].pc # "idle"
    /\ Goto(c, Idle)
    /\ UNCHANGED <<override, versions, draft, reply, saved, straight>>

Next ==
    \E c \in Calls :
        \/ \E k \in Categories :
            SaveTemplate(c, k) \/ ResetTemplate(c, k) \/ ReadTemplate(c, k)
        \/ ReadLatest(c) \/ AddVersion(c)
        \/ ReadVersion(c) \/ ReadDraft(c) \/ AddDraft(c)
        \/ StartReply(c) \/ Reserve(c) \/ ClaimFailed(c) \/ Refuse(c)
        \/ \E status \in {"created", "failed"} : Settle(c, status)
        \/ Die(c)

Spec == Init /\ [][Next]_vars

(***************************************************************************)
(* Properties                                                              *)
(***************************************************************************)

\* Whether a draft says the wording that its version has in a history.
NamesIn(history, said) ==
    said.words = IF said.version = 0 THEN Shipped
                 ELSE IF said.version \in DOMAIN history[said.category]
                      THEN history[said.category][said.version] ELSE -1
Names(said) == NamesIn(versions, said)

\* Once a save of a category has had nothing in its way - no second save, no
\* reset, no death - and until the next, the version the settings screen shows
\* is that of the wording it shows (inbox/api.py, merged_templates).
CurrentIsLatest ==
    \A k \in straight :
        override[k] = (IF versions[k] = <<>> THEN Shipped ELSE Last(versions[k]))

\* A draft names the version of the wording it was rendered from, unless a save
\* or a reset came between its reading of the two, or had already left them
\* apart; and so does a reply, as long as it is the first attempt's row
\* (inbox/pipeline.py, draft; inbox/stores.py, reserve).
NamesItsWording ==
    /\ draft # Nothing /\ draft.sound => Names(draft)
    /\ reply.status # "none" /\ reply.said.sound /\ ~reply.claimed =>
           Names(reply.said)

(***************************************************************************)
(* What the documentation promises                                         *)
(***************************************************************************)

\* inbox/stores.py, TemplateVersionStore: "Append-only wording history, so an
\* audit row can be read back."
AuditRowReadsBack ==
    reply.status = "created" /\ reply.said.sound => Names(reply.said)
================================================================================
