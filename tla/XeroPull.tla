------------------------------- MODULE XeroPull --------------------------------
(***************************************************************************)
(* How a workflow reads its invoices: page by page, each page retried,     *)
(* while the ledger may change (worker/fw/xero.py, get_bills,              *)
(* get_receivables, _get).                                                 *)
(*                                                                         *)
(* External: Xero keeps the invoices in some order, answers the page asked *)
(* for of the ledger of now, or is busy, or fails; people add, settle and  *)
(* void invoices.                                                          *)
(***************************************************************************)
EXTENDS Integers, Sequences, SequencesExt

CONSTANTS
    Invoices,     \* what an invoice can be, its id aside
    PageSize,     \* 100
    MaxRetries,   \* _MAX_RETRIES
    MaxLedger,    \* bound: invoices entered before the pull
    MaxEdits      \* bound: invoices entered or removed while it runs

ASSUME PageAssumption == PageSize \in Nat \ {0} /\ MaxRetries \in Nat \ {0}
ASSUME LedgerAssumption == MaxLedger \in Nat /\ MaxEdits \in Nat

VARIABLES
    ledger,    \* Xero: the invoices, each with its id, in its order
    pull,      \* "waiting", "reading", "done" or "failed"
    got,       \* the invoices read so far
    page,      \* the page to ask for
    attempt,   \* the attempt at it
    before,    \* history: invoices there were when the pull began
    late,      \* history: invoices entered since
    left       \* history: invoices that went since

pullVars == <<ledger, pull, got, page, attempt, before, late, left>>

Entry == [id : 1..(MaxLedger + MaxEdits), of : Invoices]

PullTypeOK ==
    /\ ledger \in Seq(Entry) /\ got \in Seq(Entry)
    /\ pull \in {"waiting", "reading", "done", "failed"}
    /\ page \in Nat \ {0} /\ attempt \in 1..MaxRetries
    /\ before \in 0..MaxLedger
    /\ late \in Nat /\ left \in Nat /\ late + left <= MaxEdits

PullInit ==
    /\ ledger = <<>> /\ pull = "waiting" /\ got = <<>>
    /\ page = 1 /\ attempt = 1 /\ before = 0 /\ late = 0 /\ left = 0

\* The ledger as the pull will find it.
EnterEarly(inv) ==
    /\ pull = "waiting" /\ before < MaxLedger
    /\ ledger' = Append(ledger, [id |-> before + 1, of |-> inv])
    /\ before' = before + 1
    /\ UNCHANGED <<pull, got, page, attempt, late, left>>

Start ==
    /\ pull = "waiting" /\ pull' = "reading"
    /\ UNCHANGED <<ledger, got, page, attempt, before, late, left>>

\* An invoice is entered, wherever Xero's order puts it.
EnterLate(inv, i) ==
    /\ pull = "reading" /\ late + left < MaxEdits
    /\ ledger' = InsertAt(ledger, i, [id |-> before + late + 1, of |-> inv])
    /\ late' = late + 1
    /\ UNCHANGED <<pull, got, page, attempt, before, left>>

\* One is settled or voided.
Leave(i) ==
    /\ pull = "reading" /\ late + left < MaxEdits
    /\ ledger' = RemoveAt(ledger, i)
    /\ left' = left + 1
    /\ UNCHANGED <<pull, got, page, attempt, before, late>>

\* Mutant: a page that is just full is taken for the last.
FullAndMore(batch) == Len(batch) > PageSize
Full(batch) == Len(batch) = PageSize

ReadPage ==
    LET end == page * PageSize
        batch == SubSeq(ledger, end - PageSize + 1,
                        IF end < Len(ledger) THEN end ELSE Len(ledger))
    IN /\ pull = "reading"
       /\ got' = got \o batch
       /\ attempt' = 1
       /\ IF Full(batch) THEN page' = page + 1 /\ UNCHANGED pull
          ELSE pull' = "done" /\ UNCHANGED page
       /\ UNCHANGED <<ledger, before, late, left>>

\* 429 or a 5xx: the page is asked for again, a few times.
Retry ==
    /\ pull = "reading"
    /\ IF attempt < MaxRetries THEN attempt' = attempt + 1 /\ UNCHANGED pull
       ELSE pull' = "failed" /\ UNCHANGED attempt
    /\ UNCHANGED <<ledger, got, page, before, late, left>>

\* Anything else ends the pull.
FailPull ==
    /\ pull = "reading" /\ pull' = "failed"
    /\ UNCHANGED <<ledger, got, page, attempt, before, late, left>>

\* The pull of a workflow whose ledger holds these invoices.
PullNext(possible) ==
    \/ \E inv \in possible : EnterEarly(inv)
    \/ Start
    \/ \E inv \in possible, i \in 1..Len(ledger) + 1 : EnterLate(inv, i)
    \/ \E i \in DOMAIN ledger : Leave(i)
    \/ ReadPage
    \/ Retry
    \/ FailPull

PullSpec == PullInit /\ [][PullNext(Invoices)]_pullVars

(***************************************************************************)
(* Properties                                                              *)
(***************************************************************************)

\* An invoice is read twice - and a bill paid twice - only if another was
\* entered before it during the pull, which no id is looked at to notice; and
\* one that there was when the pull began, and still is, is missed only if
\* another went during the pull, wherever the pages break (xero.py, get_bills).
EachIsReadOnce ==
    /\ late = 0 => \A m, n \in DOMAIN got : got[m].id = got[n].id => m = n
    /\ pull = "done" /\ left = 0 =>
           \A id \in 1..before : \E n \in DOMAIN got : got[n].id = id
================================================================================
