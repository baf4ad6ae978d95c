------------------------------ MODULE ReplyLedger -----------------------------
(***************************************************************************)
(* What inbox_replies promises (worker/fw/inbox/stores.py, ReplyStore):    *)
(* each email's row is a lock.  One caller at a time takes it, only that   *)
(* caller settles it, a created row is final and a failed one may be taken *)
(* again.  A caller that dies leaves the row pending, for good.            *)
(*                                                                         *)
(* The promise is made for an email until two callers take its row over at *)
(* once (it is then in broken, and this module says no more about it).     *)
(***************************************************************************)
CONSTANTS Emails, Requests, Nobody

VARIABLES
    status,   \* the row's status, "none" before it, "deleted" after the email
    holder,   \* who took the row and has not settled it
    broken    \* the emails two callers took at once

vars == <<status, holder, broken>>

TypeOK ==
    /\ status \in [Emails -> {"none", "pending", "created", "failed",
                             "deleted"}]
    /\ holder \in [Emails -> Requests \cup {Nobody}]
    /\ broken \in SUBSET Emails

Init ==
    /\ status = [e \in Emails |-> "none"]
    /\ holder = [e \in Emails |-> Nobody]
    /\ broken = {}

\* A caller reserves the row, or takes over a failed one.
Take(e) ==
    /\ status[e] \in {"none", "failed"} /\ holder[e] = Nobody
    /\ status'[e] = "pending" /\ holder'[e] \in Requests

\* The holder records its outcome; there is no row to record it in once the
\* email is deleted.
Settle(e) ==
    /\ holder[e] # Nobody /\ holder'[e] = Nobody
    /\ \/ status[e] = "pending" /\ status'[e] \in {"created", "failed"}
       \/ status[e] = "deleted" /\ status'[e] = "deleted"

\* The holder stops without a word.
Abandon(e) ==
    /\ holder[e] # Nobody /\ holder'[e] = Nobody
    /\ status'[e] = status[e]

Delete(e) ==
    /\ status[e] # "deleted" /\ status'[e] = "deleted"
    /\ holder'[e] = holder[e]

Rest(e) == status'[e] = status[e] /\ holder'[e] = holder[e]

Next ==
    /\ broken \subseteq broken'
    /\ \A e \in Emails :
          \/ e \in broken'
          \/ Take(e) \/ Settle(e) \/ Abandon(e) \/ Delete(e) \/ Rest(e)

Spec == Init /\ [][Next]_vars
===============================================================================
