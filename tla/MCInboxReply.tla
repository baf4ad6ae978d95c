----------------------------- MODULE MCInboxReply -----------------------------
(***************************************************************************)
(* Small instances of InboxReply for TLC.                                  *)
(***************************************************************************)
EXTENDS InboxReply, TLC

\* Every email of the instance arrived in the one mailbox.
OneMailbox == [e \in Emails |-> CHOOSE m \in Mailboxes : TRUE]

\* Calls are interchangeable.
CallSymmetry == Permutations(Requests)
===============================================================================
