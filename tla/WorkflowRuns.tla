----------------------------- MODULE WorkflowRuns ------------------------------
(***************************************************************************)
(* A workflow's run: start_run pulls rows for a person to see, approve     *)
(* finalises the ones chosen (worker/fw/server.py, RunStore in stores.py), *)
(* for one organisation.  The chase-up's finalise makes a Gmail draft per  *)
(* row (workflows/overdue_chaseup.py); the pay run's makes a bank file     *)
(* (workflows/weekly_payrun.py).                                           *)
(*                                                                         *)
(* A row is the customer or vendor it is for.  What a pull bakes into its  *)
(* rows - the chase-up's wording, the pay run's bank details - is reduced  *)
(* to a version number, `basis`.  Which rows Xero gives is left to the     *)
(* environment: the modules ChaseUp and PayRun say how they are made.      *)
(*                                                                         *)
(* Requests run on threads and interleave; one action is one transaction   *)
(* or one call to Gmail.  A request may die anywhere.  The parameters'     *)
(* validation and the organisation's other grants are left out.            *)
(***************************************************************************)
EXTENDS Integers, Sequences, FiniteSets

CONSTANTS
    Runs,         \* ids of runs
    Rows,         \* customers or vendors
    NoEmail,      \* those without an address
    Kinds,        \* which of "chase" and "pay"
    Calls,        \* threads serving requests
    MaxBasis,     \* bound: edits of the wording, imports of bank details
    MaxDrafts     \* bound: drafts of one row, at which approvals stop

ASSUME RunsAssumption == "none" \notin Runs
ASSUME RowsAssumption == NoEmail \subseteq Rows
ASSUME KindsAssumption == Kinds \subseteq {"chase", "pay"}
ASSUME BoundsAssumption == MaxBasis \in Nat /\ MaxDrafts \in Nat \ {0}

VARIABLES
    granted,    \* org_workflows: the kinds the organisation has
    basis,      \* the wording, or the bank details, of now
    gmail,      \* whether the chase-up's Gmail is connected
    layout,     \* whether the region has a bank file layout
    run,        \* the runs' rows
    drafts,     \* Gmail: the versions of the words drafted for a run's row, in order
    call,       \* where each request is, and its locals
    crossed,    \* history: runs two approvals worked on, or one left half done
    orphaned    \* history: runs whose start_run died

vars == <<granted, basis, gmail, layout, run, drafts, call, crossed, orphaned>>
settings == <<granted, basis, gmail, layout>>

Versions == 0..MaxBasis
NoRun == [status |-> "absent", kind |-> "chase", rows |-> {}, basis |-> 0,
          approved |-> {}, file |-> {}, fileBasis |-> 0]
RunRow == [status : {"absent", "needs_approval", "empty", "complete", "failed"},
           kind : {"chase", "pay"}, rows : SUBSET Rows, basis : Versions,
           approved : SUBSET Rows, file : SUBSET Rows, fileBasis : Versions]

\* A call's locals: the run it read, the rows chosen and still to draft, the
\* context's basis and mailer.
Idle == [pc |-> "idle", id |-> "none", read |-> NoRun, chosen |-> {},
         todo |-> {}, basis |-> 0, mailer |-> FALSE]
Approving == {"approving", "finalising"}
Local == [pc : {"idle", "created", "pulling"} \cup Approving,
          id : Runs \cup {"none"}, read : RunRow, chosen : SUBSET Rows,
          todo : SUBSET Rows, basis : Versions, mailer : BOOLEAN]
On(r) == {c \in Calls : call[c].id = r}

TypeOK ==
    /\ granted \subseteq Kinds /\ basis \in Versions
    /\ gmail \in BOOLEAN /\ layout \in BOOLEAN
    /\ run \in [Runs -> RunRow]
    /\ drafts \in [Runs -> [Rows -> Seq(Versions)]]
    /\ call \in [Calls -> Local]
    /\ \A c \in Calls :
        /\ call[c].pc = "idle" <=> call[c] = Idle
        /\ call[c].pc = "idle" <=> call[c].id = "none"
        /\ call[c].todo \subseteq call[c].chosen
    /\ crossed \subseteq Runs /\ orphaned \subseteq Runs

Init ==
    /\ granted = {} /\ basis = 0 /\ gmail = FALSE /\ layout = FALSE
    /\ run = [r \in Runs |-> NoRun]
    /\ drafts = [r \in Runs |-> [x \in Rows |-> <<>>]]
    /\ call = [c \in Calls |-> Idle]
    /\ crossed = {} /\ orphaned = {}

Drafted(r, x) == Len(drafts[r][x])
Goto(c, next) == call' = [call EXCEPT ![c] = next]

(***************************************************************************)
(* The organisation's settings                                             *)
(***************************************************************************)

\* grant_workflow and revoke_workflow.
SetAccess(kinds) ==
    /\ kinds # granted /\ granted' = kinds
    /\ UNCHANGED <<basis, gmail, layout, run, drafts, call, crossed, orphaned>>

\* save_template and reset_template, or import_vendors, which replaces the
\* bank details in one transaction and the layout in the next.
EditBasis ==
    /\ basis < MaxBasis /\ basis' = basis + 1
    /\ UNCHANGED <<granted, gmail, layout, run, drafts, call, crossed, orphaned>>

SetLayout ==
    /\ ~layout /\ layout' = TRUE
    /\ UNCHANGED <<granted, basis, gmail, run, drafts, call, crossed, orphaned>>

\* Connecting and disconnecting Gmail, as the module Connections has it.
SetGmail ==
    /\ gmail' = ~gmail
    /\ UNCHANGED <<granted, basis, layout, run, drafts, call, crossed, orphaned>>

(***************************************************************************)
(* start_run                                                               *)
(***************************************************************************)

\* A granted workflow gets a row that awaits approval from the start, without
\* rows to approve.
Create(c, r, kind) ==
    /\ call[c].pc = "idle" /\ run[r].status = "absent" /\ kind \in granted
    /\ run' = [run EXCEPT ![r] = [NoRun EXCEPT !.status = "needs_approval",
                                               !.kind = kind]]
    /\ Goto(c, [Idle EXCEPT !.pc = "created", !.id = r])
    /\ UNCHANGED <<settings, drafts, crossed, orphaned>>

\* The context: the wording merged now, the bank details as first looked up.
ReadContext(c) ==
    /\ call[c].pc = "created"
    /\ Goto(c, [call[c] EXCEPT !.pc = "pulling", !.basis = basis])
    /\ UNCHANGED <<settings, run, drafts, crossed, orphaned>>

\* finish_pull with what the module returns, EMPTY when it has no rows.
FinishPull(c, rows) ==
    LET r == call[c].id IN
    /\ call[c].pc = "pulling"
    /\ run' = [run EXCEPT ![r] = [@ EXCEPT
                  !.status = IF rows = {} THEN "empty" ELSE "needs_approval",
                  !.rows = rows, !.basis = call[c].basis]]
    /\ Goto(c, Idle)
    /\ UNCHANGED <<settings, drafts, crossed, orphaned>>

\* module.run raises.
FailPull(c) ==
    /\ call[c].pc = "pulling"
    /\ run' = [run EXCEPT ![call[c].id].status = "failed"]
    /\ Goto(c, Idle)
    /\ UNCHANGED <<settings, drafts, crossed, orphaned>>

(***************************************************************************)
(* approve                                                                 *)
(***************************************************************************)

\* Mutant: approve does not look at the status.
MayApproveAnything(row, chosen) == chosen # {} /\ chosen \subseteq row.rows
\* Mutant: approve does not ask that something is chosen.
MayApproveNothing(row, chosen) ==
    row.status = "needs_approval" /\ chosen \subseteq row.rows
\* What approve asks of the run it has read: 409 unless it awaits approval,
\* 422 unless a row of it is chosen.
MayApprove(row, chosen) ==
    row.status = "needs_approval" /\ chosen # {} /\ chosen \subseteq row.rows

ReadRun(c, r, chosen) ==
    /\ call[c].pc = "idle" /\ MayApprove(run[r], chosen)
    /\ \A x \in Rows : Drafted(r, x) < MaxDrafts
    /\ Goto(c, [Idle EXCEPT !.pc = "approving", !.id = r, !.read = run[r],
                            !.chosen = chosen])
    /\ crossed' = crossed \cup {s \in {r} : On(s) # {}}
    /\ UNCHANGED <<settings, run, drafts, orphaned>>

\* Mutant: every row of the run is drafted, approved or not.
ToDraftAll(local) == local.read.rows
\* The rows that finalise is given.
ToDraft(local) == local.chosen

\* The layout for a region's workflow, the mailer, and into finalise.
PrepareFinalise(c) ==
    LET chase == call[c].read.kind = "chase" IN
    /\ call[c].pc = "approving"
    /\ IF chase \/ layout
       THEN Goto(c, [call[c] EXCEPT !.pc = "finalising", !.mailer = gmail,
                       !.basis = basis,
                       !.todo = IF chase /\ gmail THEN ToDraft(call[c]) ELSE {}])
       ELSE Goto(c, Idle)
    /\ UNCHANGED <<settings, run, drafts, crossed, orphaned>>

\* Mutant: they are rendered again with the wording of now.
WordsOfNow(local) == local.basis
\* The words finalise drafts: those of the row that was read.
WordsOf(local) == local.read.basis

\* The chase-up's finalise, one row: no address, a draft, or an error that it
\* collects.  create_draft reads the connection again.
DraftRow(c, x) ==
    LET r == call[c].id
        v == WordsOf(call[c])
    IN /\ call[c].pc = "finalising" /\ x \in call[c].todo
       /\ \/ UNCHANGED drafts
          \/ /\ x \notin NoEmail /\ gmail
             /\ drafts' = [drafts EXCEPT ![r][x] = Append(@, v)]
       /\ Goto(c, [call[c] EXCEPT !.todo = @ \ {x}])
       /\ UNCHANGED <<settings, run, crossed, orphaned>>

\* The run's row as finalise's result leaves it.
Finished(row, local) ==
    LET pay == local.read.kind = "pay"
    IN [row EXCEPT
          !.status = IF pay \/ local.mailer THEN "complete" ELSE "failed",
          !.approved = local.chosen,
          !.file = IF pay THEN local.chosen ELSE {},
          !.fileBasis = IF pay THEN WordsOf(local) ELSE 0]

\* complete writes whatever the status is by now.
Complete(c) ==
    LET r == call[c].id IN
    /\ call[c].pc = "finalising" /\ call[c].todo = {}
    /\ run' = [run EXCEPT ![r] = Finished(@, call[c])]
    /\ Goto(c, Idle)
    /\ UNCHANGED <<settings, drafts, crossed, orphaned>>

\* A request ends where it is; start_run's run is left as it stands.
Die(c) ==
    /\ call[c].pc # "idle"
    /\ Goto(c, Idle)
    /\ crossed' = crossed \cup (IF call[c].pc \in Approving THEN {call[c].id}
                                ELSE {})
    /\ orphaned' = orphaned \cup (IF call[c].pc \in Approving THEN {}
                                  ELSE {call[c].id})
    /\ UNCHANGED <<settings, run, drafts>>

Next ==
    \/ \E kinds \in SUBSET Kinds : SetAccess(kinds)
    \/ EditBasis \/ SetLayout \/ SetGmail
    \/ \E c \in Calls :
        \/ \E r \in Runs, kind \in Kinds : Create(c, r, kind)
        \/ ReadContext(c)
        \/ \E rows \in SUBSET Rows : FinishPull(c, rows)
        \/ FailPull(c)
        \/ \E r \in Runs, chosen \in SUBSET Rows : ReadRun(c, r, chosen)
        \/ PrepareFinalise(c)
        \/ \E x \in Rows : DraftRow(c, x)
        \/ Complete(c) \/ Die(c)

Spec == Init /\ [][Next]_vars

(***************************************************************************)
(* Properties                                                              *)
(***************************************************************************)

\* What leaves the building is what was on the approver's screen: a draft is
\* for a row of the run, in the words the run shows, and a bank file holds the
\* approved rows with the bank details shown, whatever was edited or imported
\* meanwhile (server.py, approve).
FinalisedAsShown ==
    \A r \in Runs :
        /\ \A x \in Rows : \A i \in DOMAIN drafts[r][x] :
            x \in run[r].rows /\ drafts[r][x][i] = run[r].basis
        /\ run[r].file # {} =>
            run[r].file = run[r].approved /\ run[r].fileBasis = run[r].basis

\* A customer gets a second draft from one run only if two approvals of it
\* overlapped or one was cut short (server.py, approve: the status is read
\* before finalise and written after).
OneDraftPerRow ==
    \A r \in Runs \ crossed : \A x \in Rows : Drafted(r, x) <= 1

\* While start_run is pulling, no approval of its run gets past its checks,
\* though the row says needs_approval from the start; one that was orphaned is
\* never approved (server.py, start_run; stores.py, RunStore.create).
PullIsAlone ==
    \A r \in Runs :
        /\ (\E c \in On(r) : call[c].pc \in {"created", "pulling"}) =>
              Cardinality(On(r)) = 1
        /\ r \in orphaned => run[r].approved = {} /\ On(r) = {}

\* A run that is empty, failed or complete stays what it is, unless approvals
\* of it crossed (stores.py, RunStore.complete, whose update has no guard).
FinishedStays ==
    [][\A r \in Runs :
        run[r].status \in {"empty", "complete", "failed"} =>
            run'[r] = run[r] \/ r \in crossed]_run

(***************************************************************************)
(* What the documentation promises                                         *)
(***************************************************************************)

\* server.py, _mailer: "a workflow must degrade to producing a file rather
\* than failing because email is not set up".
DegradesWithoutGmail ==
    \A r \in Runs : run[r].status = "failed" => run[r].approved = {}
================================================================================
