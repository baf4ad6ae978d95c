---------------------------- MODULE MCInboxTriage -----------------------------
(***************************************************************************)
(* Small instances of InboxTriage for TLC.                                 *)
(***************************************************************************)
EXTENDS InboxTriage, TLC

\* Every email of the instance is in the one mailbox.
OneMailbox == [e \in Emails |-> CHOOSE m \in Mailboxes : TRUE]

\* Syncs are interchangeable.
SyncSymmetry == Permutations(Syncs)
===============================================================================
