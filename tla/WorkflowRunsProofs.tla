--------------------------- MODULE WorkflowRunsProofs --------------------------
(***************************************************************************)
(* Proofs about WorkflowRuns, for any runs, rows, kinds, threads and       *)
(* bounds.                                                                 *)
(***************************************************************************)
EXTENDS WorkflowRuns, FiniteSetTheorems, TLAPS

(***************************************************************************)
(* The inductive invariant.                                                *)
(***************************************************************************)

Pulling == {"created", "pulling"}
NoDraft(r) == \A x \in Rows : drafts[r][x] = <<>>

\* A run that nothing has been pulled for, nor approved or drafted.
Untouched(r) ==
    /\ run[r].rows = {} /\ run[r].approved = {} /\ run[r].file = {}
    /\ NoDraft(r)

\* A run that is not there has no calls; an orphaned one never has any again.
RunInv(r) ==
    /\ run[r].status = "absent" =>
          r \notin orphaned /\ Untouched(r) /\ \A c \in Calls : call[c].id # r
    /\ r \in orphaned =>
          /\ run[r].status = "needs_approval" /\ Untouched(r)
          /\ \A c \in Calls : call[c].id # r

\* A pull has its run to itself, and the run has nothing to approve.
PullInv(c) ==
    call[c].pc \in Pulling =>
        /\ run[call[c].id].status = "needs_approval" /\ Untouched(call[c].id)
        /\ \A d \in Calls : call[d].id = call[c].id => d = c

\* What an approval has read stays what the run shows.
ApproveInv(c) ==
    call[c].pc \in Approving =>
        LET r == call[c].id IN
        /\ run[r].rows = call[c].read.rows /\ run[r].basis = call[c].read.basis
        /\ call[c].chosen # {} /\ call[c].chosen \subseteq call[c].read.rows
        /\ run[r].status # "absent"

\* FinalisedAsShown, of one run.
Shown(r) ==
    /\ \A x \in Rows : \A i \in DOMAIN drafts[r][x] :
          x \in run[r].rows /\ drafts[r][x][i] = run[r].basis
    /\ run[r].file # {} =>
          run[r].file = run[r].approved /\ run[r].fileBasis = run[r].basis

\* A run that no two approvals worked on has one call at most, and no draft
\* until an approval drafts; while one does, its row still awaits approval.
AloneInv(r) ==
    r \notin crossed =>
        /\ \A c, d \in Calls : call[c].id = r /\ call[d].id = r => c = d
        /\ \A c \in Calls : call[c].id = r => run[r].status = "needs_approval"
        /\ run[r].status = "needs_approval"
           /\ (\A c \in Calls : call[c].id = r => call[c].pc # "finalising")
              => NoDraft(r)
        /\ \A c \in Calls :
              call[c].id = r /\ call[c].pc = "finalising" =>
                  \A x \in call[c].todo : drafts[r][x] = <<>>
        /\ \A x \in Rows : Len(drafts[r][x]) <= 1

IInv ==
    /\ TypeOK
    /\ \A r \in Runs : RunInv(r) /\ Shown(r) /\ AloneInv(r)
    /\ \A c \in Calls : PullInv(c) /\ ApproveInv(c)

(***************************************************************************)
(* Type correctness.                                                       *)
(***************************************************************************)

USE RunsAssumption, RowsAssumption, KindsAssumption, BoundsAssumption

LEMMA NoRunType == NoRun \in RunRow
BY DEF NoRun, RunRow, Versions

LEMMA IdleType == Idle \in Local /\ Idle.todo \subseteq Idle.chosen
<1>1. 0 \in Versions
    BY DEF Versions
<1>2. QED
    BY <1>1, NoRunType DEF Idle, Local

\* A call is where it may be.
CallOK(l) ==
    /\ l \in Local
    /\ l.pc = "idle" <=> l = Idle
    /\ l.pc = "idle" <=> l.id = "none"
    /\ l.todo \subseteq l.chosen

LEMMA IdleOK == CallOK(Idle)
BY IdleType DEF CallOK, Idle

LEMMA TypeCalls ==
    TypeOK => \A c \in Calls : CallOK(call[c])
BY DEF TypeOK, CallOK

LEMMA BusyOK ==
    ASSUME NEW l \in Local, l.pc # "idle", l.id # "none", l.todo \subseteq l.chosen
    PROVE  CallOK(l)
BY DEF CallOK, Idle

\* Where a busy call's run is.
LEMMA BusyCall ==
    ASSUME TypeOK, NEW c \in Calls, call[c].pc # "idle"
    PROVE  call[c].id \in Runs
BY DEF TypeOK, Local

LEMMA TypeInit == Init => TypeOK
<1> SUFFICES ASSUME Init PROVE TypeOK
    OBVIOUS
<1>1. \A c \in Calls : CallOK(call[c])
    BY IdleOK DEF Init
<1>2. call \in [Calls -> Local]
    BY IdleOK DEF Init, CallOK
<1>3. run \in [Runs -> RunRow]
    BY NoRunType DEF Init
<1>4. <<>> \in Seq(Versions)
    OBVIOUS
<1>5. drafts \in [Runs -> [Rows -> Seq(Versions)]]
    BY <1>4 DEF Init
<1>6. basis \in Versions
    BY DEF Init, Versions
<1>7. QED
    BY <1>1, <1>2, <1>3, <1>5, <1>6 DEF Init, TypeOK, CallOK

\* The calls' part of TypeOK', of a call that goes on.
LEMMA GotoTypes ==
    ASSUME TypeOK, NEW c \in Calls, NEW next, CallOK(next), Goto(c, next)
    PROVE  /\ call' \in [Calls -> Local]
           /\ \A d \in Calls :
                 /\ call'[d].pc = "idle" <=> call'[d] = Idle
                 /\ call'[d].pc = "idle" <=> call'[d].id = "none"
                 /\ call'[d].todo \subseteq call'[d].chosen
BY DEF TypeOK, CallOK, Goto

LEMMA TypeStep == TypeOK /\ [Next]_vars => TypeOK'
<1> SUFFICES ASSUME TypeOK, [Next]_vars PROVE TypeOK'
    OBVIOUS
<1>a. \A c \in Calls : CallOK(call[c])
    BY TypeCalls
<1>1. CASE (\E kinds \in SUBSET Kinds : SetAccess(kinds)) \/ EditBasis
           \/ SetLayout \/ SetGmail \/ UNCHANGED vars
    <2>1. basis' \in Versions /\ granted' \subseteq Kinds
        <3>1. basis \in Versions /\ granted \subseteq Kinds
            BY DEF TypeOK
        <3>2. CASE EditBasis
            BY <3>1, <3>2 DEF EditBasis, Versions
        <3>3. granted' = granted \/ granted' \in SUBSET Kinds
            BY <1>1 DEF SetAccess, EditBasis, SetLayout, SetGmail, vars
        <3>4. ~EditBasis => basis' = basis
            BY <1>1 DEF SetAccess, SetLayout, SetGmail, vars
        <3>5. QED
            BY <3>1, <3>2, <3>3, <3>4
    <2>2. gmail' \in BOOLEAN /\ layout' \in BOOLEAN
        BY <1>1 DEF SetAccess, EditBasis, SetLayout, SetGmail, vars, TypeOK
    <2>3. UNCHANGED <<run, drafts, call, crossed, orphaned>>
        BY <1>1 DEF SetAccess, EditBasis, SetLayout, SetGmail, vars
    <2>4. QED
        BY <2>1, <2>2, <2>3 DEF TypeOK
<1>2. ASSUME NEW c \in Calls, NEW r \in Runs, NEW kind \in Kinds,
             Create(c, r, kind)
      PROVE  TypeOK'
    <2> DEFINE next == [Idle EXCEPT !.pc = "created", !.id = r]
    <2>1. CallOK(next)
        BY IdleType DEF CallOK, Idle, Local
    <2>2. run' \in [Runs -> RunRow]
        BY <1>2, NoRunType DEF Create, TypeOK, RunRow
    <2>3. QED
        BY <1>2, <2>1, <2>2, GotoTypes DEF Create, TypeOK, settings
<1>3. ASSUME NEW c \in Calls, ReadContext(c) PROVE TypeOK'
    <2> DEFINE next == [call[c] EXCEPT !.pc = "pulling", !.basis = basis]
    <2>1. CallOK(next)
        <3>1. call[c] \in Local /\ call[c].id # "none"
              /\ call[c].todo \subseteq call[c].chosen
            BY <1>3, <1>a DEF ReadContext, CallOK
        <3>2. next \in Local
            BY <3>1 DEF Local, TypeOK
        <3>3. next.pc = "pulling" /\ next.id = call[c].id
              /\ next.todo = call[c].todo /\ next.chosen = call[c].chosen
            BY <3>1 DEF Local
        <3>4. QED
            BY <3>1, <3>2, <3>3, BusyOK
    <2>2. QED
        BY <1>3, <2>1, GotoTypes DEF ReadContext, TypeOK, settings
<1>4. ASSUME NEW c \in Calls, NEW rows \in SUBSET Rows, FinishPull(c, rows)
      PROVE  TypeOK'
    <2>1. call[c].basis \in Versions
        BY <1>a DEF CallOK, Local
    <2>2. run' \in [Runs -> RunRow]
        <3> DEFINE row == [run[call[c].id] EXCEPT
                  !.status = IF rows = {} THEN "empty" ELSE "needs_approval",
                  !.rows = rows, !.basis = call[c].basis]
        <3>1. call[c].id \in Runs
            BY <1>4, BusyCall DEF FinishPull
        <3>2. run[call[c].id] \in RunRow
            BY <3>1 DEF TypeOK
        <3>3. row \in RunRow
            BY <2>1, <3>2 DEF RunRow
        <3>4. run' = [run EXCEPT ![call[c].id] = row]
            BY <1>4 DEF FinishPull
        <3>5. QED
            BY <3>1, <3>3, <3>4 DEF TypeOK
    <2>3. QED
        BY <1>4, <2>2, IdleOK, GotoTypes DEF FinishPull, TypeOK, settings
<1>5. ASSUME NEW c \in Calls, FailPull(c) PROVE TypeOK'
    <2>1. run' \in [Runs -> RunRow]
        <3>1. call[c].id \in Runs
            BY <1>5, BusyCall DEF FailPull
        <3>2. run[call[c].id] \in RunRow
            BY <3>1 DEF TypeOK
        <3>3. [run[call[c].id] EXCEPT !.status = "failed"] \in RunRow
            BY <3>2 DEF RunRow
        <3>4. QED
            BY <1>5, <3>1, <3>3 DEF FailPull, TypeOK
    <2>2. QED
        BY <1>5, <2>1, IdleOK, GotoTypes DEF FailPull, TypeOK, settings
<1>6. ASSUME NEW c \in Calls, NEW r \in Runs, NEW chosen \in SUBSET Rows,
             ReadRun(c, r, chosen)
      PROVE  TypeOK'
    <2> DEFINE next == [Idle EXCEPT !.pc = "approving", !.id = r,
                                    !.read = run[r], !.chosen = chosen]
    <2>1. run[r] \in RunRow
        BY DEF TypeOK
    <2>2. CallOK(next)
        BY <2>1, IdleType DEF CallOK, Idle, Local, Approving
    <2>3. QED
        BY <1>6, <2>2, GotoTypes DEF ReadRun, TypeOK, settings
<1>7. ASSUME NEW c \in Calls, PrepareFinalise(c) PROVE TypeOK'
    <2> DEFINE todo == IF call[c].read.kind = "chase" /\ gmail
                       THEN ToDraft(call[c]) ELSE {}
               next == [call[c] EXCEPT !.pc = "finalising", !.mailer = gmail,
                                       !.basis = basis, !.todo = todo]
    <2>1. todo \subseteq call[c].chosen /\ todo \in SUBSET Rows
        BY <1>a DEF ToDraft, CallOK, Local
    <2>2. CallOK(next)
        <3>1. call[c] \in Local /\ call[c].id # "none"
            BY <1>7, <1>a DEF PrepareFinalise, CallOK
        <3>2. next \in Local
            BY <2>1, <3>1 DEF Local, TypeOK, Approving
        <3>3. next.pc = "finalising" /\ next.id = call[c].id
              /\ next.todo = todo /\ next.chosen = call[c].chosen
            BY <3>1 DEF Local
        <3> HIDE DEF next, todo
        <3>4. QED
            BY <2>1, <3>1, <3>2, <3>3, BusyOK
    <2>3. QED
        BY <1>7, <2>2, IdleOK, GotoTypes DEF PrepareFinalise, TypeOK, settings
<1>8. ASSUME NEW c \in Calls, NEW x \in Rows, DraftRow(c, x) PROVE TypeOK'
    <2> DEFINE next == [call[c] EXCEPT !.todo = @ \ {x}]
    <2>1. CallOK(next)
        BY <1>8, <1>a DEF DraftRow, CallOK, Idle, Local
    <2>2. WordsOf(call[c]) \in Versions
        BY <1>a DEF CallOK, Local, RunRow, WordsOf
    <2>3. drafts' \in [Runs -> [Rows -> Seq(Versions)]]
        <3>1. call[c].id \in Runs
            BY <1>8, BusyCall DEF DraftRow
        <3>2. drafts[call[c].id][x] \in Seq(Versions)
            BY <3>1 DEF TypeOK
        <3>3. Append(drafts[call[c].id][x], WordsOf(call[c])) \in Seq(Versions)
            BY <2>2, <3>2
        <3>4. \/ UNCHANGED drafts
              \/ drafts' = [drafts EXCEPT ![call[c].id][x] =
                               Append(drafts[call[c].id][x], WordsOf(call[c]))]
            BY <1>8 DEF DraftRow
        <3>5. drafts \in [Runs -> [Rows -> Seq(Versions)]]
            BY DEF TypeOK
        <3> DEFINE r == call[c].id
                   words == Append(drafts[r][x], WordsOf(call[c]))
                   those == [drafts[r] EXCEPT ![x] = words]
        <3>6. drafts[r] \in [Rows -> Seq(Versions)]
            BY <3>1, <3>5
        <3>7. those \in [Rows -> Seq(Versions)]
            <4> HIDE DEF words
            <4>1. words \in Seq(Versions)
                BY <3>3 DEF words
            <4>2. QED
                BY <3>6, <4>1
        <3>8. UNCHANGED drafts \/ drafts' = [drafts EXCEPT ![r] = those]
            BY <3>4
        <3> HIDE DEF those
        <3>9. QED
            BY <3>1, <3>5, <3>7, <3>8
    <2>4. QED
        BY <1>8, <2>1, <2>3, GotoTypes DEF DraftRow, TypeOK, settings
<1>9. ASSUME NEW c \in Calls, Complete(c) PROVE TypeOK'
    <2>1. call[c] \in Local /\ call[c].id \in Runs
        BY <1>9, <1>a, BusyCall DEF Complete, CallOK
    <2>2. Finished(run[call[c].id], call[c]) \in RunRow
        <3>1. run[call[c].id] \in RunRow /\ 0 \in Versions
            BY <2>1 DEF TypeOK, Versions
        <3>2. call[c].chosen \in SUBSET Rows /\ WordsOf(call[c]) \in Versions
            BY <2>1 DEF Local, RunRow, WordsOf
        <3>3. QED
            BY <3>1, <3>2 DEF Finished, RunRow
    <2>3. run' \in [Runs -> RunRow]
        BY <1>9, <2>2 DEF Complete, TypeOK
    <2>4. QED
        BY <1>9, <2>3, IdleOK, GotoTypes DEF Complete, TypeOK, settings
<1>10. ASSUME NEW c \in Calls, Die(c) PROVE TypeOK'
    <2>1. call[c].id \in Runs
        BY <1>10, BusyCall DEF Die
    <2>2. QED
        BY <1>10, <2>1, IdleOK, GotoTypes DEF Die, TypeOK, settings
<1>11. QED
    BY <1>1, <1>2, <1>3, <1>4, <1>5, <1>6, <1>7, <1>8, <1>9, <1>10 DEF Next

(***************************************************************************)
(* A step of one call on one run leaves the other runs and their calls.    *)
(***************************************************************************)

StepOf(c, r, next) ==
    /\ Goto(c, next)
    /\ call[c].id \in {r, "none"} /\ next.id \in {r, "none"}
    /\ \A q \in Runs \ {r} :
          /\ run'[q] = run[q] /\ drafts'[q] = drafts[q]
          /\ q \in crossed' <=> q \in crossed
          /\ q \in orphaned' <=> q \in orphaned

\* Who works on a run.
LEMMA Workers ==
    ASSUME TypeOK, NEW c \in Calls, NEW r \in Runs, NEW next, StepOf(c, r, next)
    PROVE  /\ call'[c] = next
           /\ \A d \in Calls \ {c} : call'[d] = call[d]
           /\ \A q \in Runs \ {r}, d \in Calls :
                 /\ call'[d].id = q <=> call[d].id = q
                 /\ call[d].id = q => call'[d] = call[d]
BY DEF StepOf, Goto, TypeOK

LEMMA FrameRun ==
    ASSUME TypeOK, NEW c \in Calls, NEW r \in Runs, NEW next, StepOf(c, r, next),
           NEW q \in Runs \ {r}, RunInv(q), Shown(q), AloneInv(q)
    PROVE  RunInv(q)' /\ Shown(q)' /\ AloneInv(q)'
<1>1. /\ run'[q] = run[q] /\ drafts'[q] = drafts[q]
      /\ q \in crossed' <=> q \in crossed
      /\ q \in orphaned' <=> q \in orphaned
    BY DEF StepOf
<1>2. \A d \in Calls :
          /\ call'[d].id = q <=> call[d].id = q
          /\ call[d].id = q => call'[d] = call[d]
    BY Workers
<1>3. RunInv(q)'
    BY <1>1, <1>2 DEF RunInv, Untouched, NoDraft
<1>4. Shown(q)'
    BY <1>1 DEF Shown
<1>5. AloneInv(q)'
    BY <1>1, <1>2 DEF AloneInv, NoDraft
<1>6. QED
    BY <1>3, <1>4, <1>5

LEMMA FrameCall ==
    ASSUME TypeOK, NEW c \in Calls, NEW r \in Runs, NEW next, StepOf(c, r, next),
           NEW d \in Calls, call'[d].id # r, PullInv(d), ApproveInv(d), TypeOK'
    PROVE  PullInv(d)' /\ ApproveInv(d)'
<1>1. CASE call'[d].id = "none"
    BY <1>1 DEF TypeOK, PullInv, ApproveInv, Pulling, Approving
<1>2. CASE call'[d].id # "none"
    <2>1. call'[d].id \in Runs \ {r}
        BY <1>2 DEF TypeOK, Local
    <2>2. call'[d] = call[d]
        BY <2>1, Workers
    <2>3. \A e \in Calls : call'[e].id = call[d].id => call[e].id = call[d].id
        BY <2>1, <2>2, Workers
    <2>4. run'[call[d].id] = run[call[d].id] /\ drafts'[call[d].id] = drafts[call[d].id]
        BY <2>1, <2>2 DEF StepOf
    <2>5. QED
        BY <2>2, <2>3, <2>4 DEF PullInv, ApproveInv, Untouched, NoDraft
<1>3. QED
    BY <1>1, <1>2

\* What is left to show of a step: its own run.
LEMMA OwnRun ==
    ASSUME IInv, TypeOK', NEW c \in Calls, NEW r \in Runs, NEW next,
           StepOf(c, r, next),
           RunInv(r)', Shown(r)', AloneInv(r)',
           \A d \in Calls : call'[d].id = r => PullInv(d)' /\ ApproveInv(d)'
    PROVE  IInv'
<1>1. ASSUME NEW q \in Runs PROVE RunInv(q)' /\ Shown(q)' /\ AloneInv(q)'
    BY FrameRun DEF IInv
<1>2. ASSUME NEW d \in Calls PROVE PullInv(d)' /\ ApproveInv(d)'
    BY FrameCall DEF IInv
<1>3. QED
    BY <1>1, <1>2 DEF IInv

(***************************************************************************)
(* The steps of start_run.                                                 *)
(***************************************************************************)

LEMMA CreateStep ==
    ASSUME IInv, TypeOK', NEW c \in Calls, NEW r \in Runs, NEW kind \in Kinds,
           Create(c, r, kind)
    PROVE  IInv'
<1> DEFINE next == [Idle EXCEPT !.pc = "created", !.id = r]
<1>1. StepOf(c, r, next)
    BY DEF Create, StepOf, IInv, TypeOK, Idle
<1>2. /\ call'[c].id = r /\ call'[c].pc = "created"
      /\ \A d \in Calls \ {c} : call'[d] = call[d]
    <2>1. next.id = r /\ next.pc = "created"
        BY DEF Idle
    <2> HIDE DEF next
    <2>2. QED
        BY <1>1, <2>1, Workers DEF IInv
<1>3. /\ r \notin orphaned /\ Untouched(r) /\ \A d \in Calls : call[d].id # r
    BY DEF Create, IInv, RunInv
<1>4. /\ run'[r].status = "needs_approval" /\ run'[r].rows = {}
      /\ run'[r].approved = {} /\ run'[r].file = {}
      /\ drafts' = drafts /\ orphaned' = orphaned
    BY DEF Create, IInv, TypeOK, NoRun
<1>5. Untouched(r)'
    BY <1>3, <1>4 DEF Untouched, NoDraft
<1>6. \A d \in Calls : call'[d].id = r => d = c
    BY <1>2, <1>3
<1>7. RunInv(r)'
    BY <1>3, <1>4 DEF RunInv
<1>8. Shown(r)'
    BY <1>4, <1>5 DEF Shown, Untouched, NoDraft
<1>9. AloneInv(r)'
    BY <1>2, <1>4, <1>5, <1>6 DEF AloneInv, Untouched, NoDraft
<1>10. PullInv(c)' /\ ApproveInv(c)'
    BY <1>2, <1>4, <1>5, <1>6 DEF PullInv, ApproveInv, Pulling, Approving
<1>11. QED
    BY <1>1, <1>6, <1>7, <1>8, <1>9, <1>10, OwnRun

\* A pull has its run to itself.
LEMMA PullAlone ==
    ASSUME IInv, NEW c \in Calls, call[c].pc \in Pulling
    PROVE  LET r == call[c].id IN
           /\ r \in Runs /\ r \notin orphaned
           /\ run[r].status = "needs_approval" /\ Untouched(r)
           /\ \A d \in Calls : call[d].id = r => d = c
<1>1. call[c].id \in Runs
    BY BusyCall DEF IInv, Pulling
<1>2. QED
    BY <1>1 DEF IInv, PullInv, RunInv

LEMMA ReadContextStep ==
    ASSUME IInv, TypeOK', NEW c \in Calls, ReadContext(c),
           NEW r, r = call[c].id
    PROVE  IInv'
<1> DEFINE next == [call[c] EXCEPT !.pc = "pulling", !.basis = basis]
<1>1. /\ r \in Runs /\ r \notin orphaned
      /\ run[r].status = "needs_approval" /\ Untouched(r)
      /\ \A d \in Calls : call[d].id = r => d = c
    BY PullAlone DEF ReadContext, Pulling
<1>2. next.id = r /\ next.pc = "pulling"
    BY DEF IInv, TypeOK, Local
<1>3. StepOf(c, r, next)
    BY <1>2 DEF ReadContext, StepOf
<1> HIDE DEF next
<1>4. /\ call'[c].id = r /\ call'[c].pc = "pulling"
      /\ \A d \in Calls : call'[d].id = r => d = c
    BY <1>1, <1>2, <1>3, Workers DEF IInv
<1>5. run' = run /\ drafts' = drafts /\ orphaned' = orphaned /\ Untouched(r)'
    BY <1>1 DEF ReadContext, Untouched, NoDraft
<1>6. RunInv(r)'
    BY <1>1, <1>5 DEF RunInv
<1>7. Shown(r)'
    BY <1>5 DEF Shown, Untouched, NoDraft
<1>8. AloneInv(r)'
    BY <1>1, <1>4, <1>5 DEF AloneInv, Untouched, NoDraft
<1>9. PullInv(c)' /\ ApproveInv(c)'
    BY <1>1, <1>4, <1>5 DEF PullInv, ApproveInv, Pulling, Approving
<1>10. QED
    BY <1>1, <1>3, <1>4, <1>6, <1>7, <1>8, <1>9, OwnRun

\* The end of a pull, whatever it makes of the run.
LEMMA PullEnd ==
    ASSUME IInv, TypeOK', NEW c \in Calls, call[c].pc \in Pulling,
           Goto(c, Idle),
           NEW r, r = call[c].id,
           \A q \in Runs \ {r} :
              /\ run'[q] = run[q]
              /\ q \in orphaned' <=> q \in orphaned,
           drafts' = drafts, crossed' = crossed,
           run'[r].file = {}, run'[r].approved = {}, run'[r].status # "absent",
           r \in orphaned' => run'[r] = run[r]
    PROVE  IInv'
<1>1. /\ r \in Runs /\ r \notin orphaned
      /\ run[r].status = "needs_approval" /\ Untouched(r)
      /\ \A d \in Calls : call[d].id = r => d = c
    BY PullAlone
<1>2. StepOf(c, r, Idle)
    BY DEF StepOf, Idle
<1>3. \A d \in Calls : call'[d].id # r
    <2>1. Idle.id # r
        BY <1>1 DEF Idle
    <2>2. QED
        BY <1>1, <1>2, <2>1, Workers DEF IInv
<1>4. NoDraft(r)'
    BY <1>1 DEF Untouched, NoDraft
<1>5. RunInv(r)'
    BY <1>1, <1>3, <1>4 DEF RunInv, Untouched
<1>6. Shown(r)'
    BY <1>4 DEF Shown, NoDraft
<1>7. AloneInv(r)'
    BY <1>3, <1>4 DEF AloneInv, NoDraft
<1>8. QED
    BY <1>1, <1>2, <1>3, <1>5, <1>6, <1>7, OwnRun

LEMMA FinishPullStep ==
    ASSUME IInv, TypeOK', NEW c \in Calls, NEW rows \in SUBSET Rows,
           FinishPull(c, rows), NEW r, r = call[c].id
    PROVE  IInv'
<1>1. call[c].pc \in Pulling
    BY DEF FinishPull, Pulling
<1>2. r \in Runs /\ r \notin orphaned /\ Untouched(r)
    BY <1>1, PullAlone
<1>3. /\ run'[r].file = run[r].file /\ run'[r].approved = run[r].approved
      /\ run'[r].status # "absent"
    <2>1. run[r] \in RunRow
        BY <1>2 DEF IInv, TypeOK
    <2>2. run'[r] = [run[r] EXCEPT
                  !.status = IF rows = {} THEN "empty" ELSE "needs_approval",
                  !.rows = rows, !.basis = call[c].basis]
        BY <1>2 DEF FinishPull, IInv, TypeOK
    <2>3. QED
        BY <2>1, <2>2 DEF RunRow
<1>4. \A q \in Runs \ {r} : run'[q] = run[q]
    BY DEF FinishPull, IInv, TypeOK
<1>5. UNCHANGED <<drafts, crossed, orphaned>> /\ Goto(c, Idle)
    BY DEF FinishPull
<1>6. QED
    BY <1>1, <1>2, <1>3, <1>4, <1>5, PullEnd DEF Untouched

LEMMA FailPullStep ==
    ASSUME IInv, TypeOK', NEW c \in Calls, FailPull(c),
           NEW r, r = call[c].id
    PROVE  IInv'
<1>1. call[c].pc \in Pulling
    BY DEF FailPull, Pulling
<1>2. r \in Runs /\ r \notin orphaned /\ Untouched(r)
    BY <1>1, PullAlone
<1>3. /\ run'[r].file = run[r].file /\ run'[r].approved = run[r].approved
      /\ run'[r].status # "absent"
    BY <1>2 DEF FailPull, IInv, TypeOK, RunRow
<1>4. \A q \in Runs \ {r} : run'[q] = run[q]
    BY DEF FailPull, IInv, TypeOK
<1>5. QED
    BY <1>1, <1>2, <1>3, <1>4, PullEnd DEF FailPull, Untouched

(***************************************************************************)
(* The steps of approve.                                                   *)
(***************************************************************************)

LEMMA ReadRunStep ==
    ASSUME IInv, TypeOK', NEW c \in Calls, NEW r \in Runs,
           NEW chosen \in SUBSET Rows, ReadRun(c, r, chosen)
    PROVE  IInv'
<1> DEFINE next == [Idle EXCEPT !.pc = "approving", !.id = r, !.read = run[r],
                                !.chosen = chosen]
<1>1. /\ run[r].status = "needs_approval" /\ chosen # {}
      /\ chosen \subseteq run[r].rows
    BY DEF ReadRun, MayApprove
<1>2. r \notin orphaned /\ \A d \in Calls : call[d].id = r => call[d].pc \notin Pulling
    BY <1>1 DEF IInv, RunInv, PullInv, Untouched
<1>3. /\ next.id = r /\ next.pc = "approving" /\ next.read = run[r]
      /\ next.chosen = chosen
    BY DEF Idle
<1>4. StepOf(c, r, next)
    <2>1. call[c].id = "none"
        BY DEF ReadRun, IInv, TypeOK
    <2>2. \A q \in Runs \ {r} : q \in crossed' <=> q \in crossed
        BY DEF ReadRun
    <2>3. QED
        BY <1>3, <2>1, <2>2 DEF ReadRun, StepOf
<1> HIDE DEF next
<1>5. call'[c] = next /\ \A d \in Calls \ {c} : call'[d] = call[d]
    BY <1>4, Workers DEF IInv
<1>6. run' = run /\ drafts' = drafts /\ orphaned' = orphaned
    BY DEF ReadRun
<1>7. RunInv(r)'
    BY <1>1, <1>2, <1>6 DEF RunInv
<1>8. Shown(r)'
    BY <1>6 DEF Shown, IInv
<1>9. AloneInv(r)'
    <2> SUFFICES ASSUME r \notin crossed' PROVE AloneInv(r)'
        BY DEF AloneInv
    <2>1. r \notin crossed /\ \A d \in Calls : call[d].id # r
        BY DEF ReadRun, On
    <2>2. NoDraft(r)
        BY <1>1, <2>1 DEF IInv, AloneInv
    <2>3. \A d \in Calls : call'[d].id = r => d = c
        BY <1>5, <2>1
    <2>4. call'[c].pc = "approving"
        BY <1>3, <1>5
    <2>5. QED
        BY <1>1, <1>6, <2>2, <2>3, <2>4 DEF AloneInv, NoDraft
<1>10. ASSUME NEW d \in Calls, call'[d].id = r PROVE PullInv(d)' /\ ApproveInv(d)'
    <2>1. CASE d = c
        BY <1>1, <1>3, <1>5, <1>6, <2>1 DEF PullInv, ApproveInv, Pulling, Approving
    <2>2. CASE d # c
        BY <1>2, <1>5, <1>6, <1>10, <2>2 DEF PullInv, ApproveInv, IInv
    <2>3. QED
        BY <2>1, <2>2
<1>11. QED
    BY <1>4, <1>7, <1>8, <1>9, <1>10, OwnRun

\* An approval's run is there, was not orphaned, and nobody pulls it.
LEMMA ApproveFacts ==
    ASSUME IInv, NEW c \in Calls, call[c].pc \in Approving, NEW r, r = call[c].id
    PROVE  /\ r \in Runs /\ r \notin orphaned /\ run[r].status # "absent"
           /\ \A d \in Calls : call[d].id = r => call[d].pc \notin Pulling
           /\ run[r].rows = call[c].read.rows /\ run[r].basis = call[c].read.basis
           /\ call[c].chosen # {} /\ call[c].chosen \subseteq call[c].read.rows
           /\ call[c].todo \subseteq call[c].chosen
<1>1. r \in Runs
    BY BusyCall DEF IInv, Approving
<1>2. r \notin orphaned
    BY <1>1 DEF IInv, RunInv
<1>3. ASSUME NEW d \in Calls, call[d].id = r PROVE call[d].pc \notin Pulling
    BY <1>3 DEF IInv, PullInv, Pulling, Approving
<1>4. call[c].todo \subseteq call[c].chosen
    BY DEF IInv, TypeOK
<1>5. QED
    BY <1>1, <1>2, <1>3, <1>4 DEF IInv, ApproveInv

\* The other calls on an approval's run, when it takes a step that leaves what
\* they have read.
LEMMA OtherCalls ==
    ASSUME IInv, NEW c \in Calls, call[c].pc \in Approving,
           NEW r, r = call[c].id, NEW next, StepOf(c, r, next),
           run'[r].rows = run[r].rows, run'[r].basis = run[r].basis,
           run'[r].status # "absent",
           NEW d \in Calls \ {c}, call'[d].id = r
    PROVE  PullInv(d)' /\ ApproveInv(d)'
<1>1. r \in Runs /\ \A e \in Calls : call[e].id = r => call[e].pc \notin Pulling
    BY ApproveFacts
<1>2. call'[d] = call[d]
    BY <1>1, Workers DEF IInv
<1>3. QED
    BY <1>1, <1>2 DEF PullInv, ApproveInv, IInv

\* The end of an approval, wherever it is.
LEMMA ApproveEnd ==
    ASSUME IInv, TypeOK', NEW c \in Calls, call[c].pc \in Approving,
           NEW r, r = call[c].id, Goto(c, Idle),
           \A q \in Runs \ {r} :
              run'[q] = run[q] /\ (q \in crossed' <=> q \in crossed),
           drafts' = drafts, orphaned' = orphaned, r \in crossed => r \in crossed',
           run'[r].rows = run[r].rows, run'[r].basis = run[r].basis,
           run'[r].status # "absent", Shown(r)',
           r \notin crossed' => run'[r].status # "needs_approval" \/ NoDraft(r)
    PROVE  IInv'
<1>1. r \in Runs /\ r \notin orphaned
    BY ApproveFacts
<1>2. StepOf(c, r, Idle)
    BY DEF StepOf, Idle
<1>3. call'[c].id # r /\ \A d \in Calls \ {c} : call'[d] = call[d]
    <2>1. Idle.id # r
        BY <1>1 DEF Idle
    <2>2. QED
        BY <1>1, <1>2, <2>1, Workers DEF IInv
<1>4. RunInv(r)'
    BY <1>1 DEF RunInv
<1>5. AloneInv(r)'
    <2> SUFFICES ASSUME r \notin crossed' PROVE AloneInv(r)'
        BY DEF AloneInv
    <2>1. /\ \A d \in Calls : call[d].id = r => d = c
          /\ \A x \in Rows : Len(drafts[r][x]) <= 1
        BY <1>1 DEF IInv, AloneInv
    <2>2. \A d \in Calls : call'[d].id # r
        BY <1>3, <2>1
    <2>3. QED
        BY <2>1, <2>2 DEF AloneInv, NoDraft
<1>6. ASSUME NEW d \in Calls, call'[d].id = r PROVE PullInv(d)' /\ ApproveInv(d)'
    BY <1>2, <1>3, <1>6, OtherCalls
<1>7. QED
    BY <1>1, <1>2, <1>4, <1>5, <1>6, OwnRun

LEMMA PrepareStep ==
    ASSUME IInv, TypeOK', NEW c \in Calls, PrepareFinalise(c),
           NEW r, r = call[c].id
    PROVE  IInv'
<1> DEFINE todo == IF call[c].read.kind = "chase" /\ gmail
                   THEN ToDraft(call[c]) ELSE {}
           next == [call[c] EXCEPT !.pc = "finalising", !.mailer = gmail,
                                   !.basis = basis, !.todo = todo]
<1>1. call[c].pc = "approving" /\ call[c].pc \in Approving
    BY DEF PrepareFinalise, Approving
<1>2. /\ r \in Runs /\ r \notin orphaned /\ run[r].status # "absent"
      /\ run[r].rows = call[c].read.rows /\ run[r].basis = call[c].read.basis
      /\ call[c].chosen # {} /\ call[c].chosen \subseteq call[c].read.rows
    BY <1>1, ApproveFacts
<1>3. UNCHANGED <<run, drafts, crossed, orphaned>>
    BY DEF PrepareFinalise
<1>4. r \notin crossed =>
          /\ \A d \in Calls : call[d].id = r => d = c
          /\ run[r].status = "needs_approval" /\ NoDraft(r)
    BY <1>1, <1>2 DEF IInv, AloneInv
<1>5. Shown(r)'
    BY <1>2, <1>3 DEF Shown, IInv
<1>6. CASE Goto(c, Idle)
    BY <1>1, <1>2, <1>3, <1>4, <1>5, <1>6, ApproveEnd
<1>7. CASE Goto(c, next)
    <2>1. /\ next.id = r /\ next.pc = "finalising" /\ next.read = call[c].read
          /\ next.chosen = call[c].chosen
        BY DEF IInv, TypeOK, Local
    <2> HIDE DEF next
    <2>2. StepOf(c, r, next)
        BY <1>3, <1>7, <2>1 DEF StepOf
    <2>3. call'[c] = next /\ \A d \in Calls \ {c} : call'[d] = call[d]
        BY <1>2, <2>2, Workers DEF IInv
    <2>4. RunInv(r)'
        BY <1>2, <1>3 DEF RunInv
    <2>5. AloneInv(r)'
        <3>1. r \notin crossed => \A d \in Calls : call'[d].id = r => d = c
            BY <1>4, <2>3
        <3>2. \A x \in Rows : drafts[r][x] = <<>> => Len(drafts[r][x]) <= 1
            OBVIOUS
        <3>3. call'[c].todo \subseteq Rows
            BY DEF TypeOK, Local
        <3>4. QED
            BY <1>2, <1>3, <1>4, <3>1, <3>2, <3>3 DEF AloneInv, NoDraft
    <2>6. PullInv(c)' /\ ApproveInv(c)'
        BY <1>2, <1>3, <2>1, <2>3 DEF PullInv, ApproveInv, Pulling
    <2>7. ASSUME NEW d \in Calls, call'[d].id = r
          PROVE  PullInv(d)' /\ ApproveInv(d)'
        BY <1>1, <1>2, <1>3, <2>2, <2>6, <2>7, OtherCalls
    <2>8. QED
        BY <1>2, <1>5, <2>2, <2>4, <2>5, <2>7, OwnRun
<1>8. QED
    BY <1>6, <1>7 DEF PrepareFinalise

LEMMA CompleteStep ==
    ASSUME IInv, TypeOK', NEW c \in Calls, Complete(c), NEW r, r = call[c].id
    PROVE  IInv'
<1>1. call[c].pc \in Approving
    BY DEF Complete, Approving
<1>2. /\ r \in Runs
      /\ run[r].rows = call[c].read.rows /\ run[r].basis = call[c].read.basis
    BY <1>1, ApproveFacts
<1>3. run'[r] = Finished(run[r], call[c]) /\ run[r] \in RunRow
    BY <1>2 DEF Complete, IInv, TypeOK
<1>4. /\ run'[r].rows = run[r].rows /\ run'[r].basis = run[r].basis
      /\ run'[r].status \in {"complete", "failed"}
      /\ run'[r].approved = call[c].chosen
      /\ run'[r].file # {} =>
            run'[r].file = call[c].chosen /\ run'[r].fileBasis = call[c].read.basis
    BY <1>3 DEF Finished, RunRow, WordsOf
<1>5. /\ \A q \in Runs \ {r} : run'[q] = run[q]
      /\ UNCHANGED <<drafts, crossed, orphaned>> /\ Goto(c, Idle)
    BY DEF Complete, IInv, TypeOK
<1>6. Shown(r)'
    BY <1>2, <1>4, <1>5 DEF Shown, IInv
<1>7. QED
    BY <1>1, <1>4, <1>5, <1>6, ApproveEnd

LEMMA DieStep ==
    ASSUME IInv, TypeOK', NEW c \in Calls, Die(c), NEW r, r = call[c].id
    PROVE  IInv'
<1>1. UNCHANGED <<run, drafts>> /\ Goto(c, Idle)
    BY DEF Die
<1>2. CASE call[c].pc \in Approving
    <2>1. r \in Runs /\ run[r].status # "absent"
        BY <1>2, ApproveFacts
    <2>2. crossed' = crossed \cup {r} /\ orphaned' = orphaned
        BY <1>2 DEF Die
    <2>3. Shown(r)'
        BY <1>1, <2>1 DEF Shown, IInv
    <2>4. QED
        BY <1>1, <1>2, <2>1, <2>2, <2>3, ApproveEnd
<1>3. CASE call[c].pc \notin Approving
    <2>1. call[c].pc \in Pulling
        BY <1>3 DEF Die, IInv, TypeOK, Local, Approving, Pulling
    <2>2. r \in Runs /\ run[r].status = "needs_approval" /\ Untouched(r)
        BY <2>1, PullAlone
    <2>3. crossed' = crossed /\ orphaned' = orphaned \cup {r}
        BY <1>3 DEF Die
    <2>4. QED
        BY <1>1, <2>1, <2>2, <2>3, PullEnd DEF Untouched
<1>4. QED
    BY <1>2, <1>3

\* What one more draft makes of a row's drafts.
LEMMA AppendFacts ==
    ASSUME NEW s \in Seq(Versions), NEW v \in Versions
    PROVE  /\ Len(Append(s, v)) = Len(s) + 1
           /\ \A i \in DOMAIN Append(s, v) :
                 (i \in DOMAIN s /\ Append(s, v)[i] = s[i]) \/ Append(s, v)[i] = v
OBVIOUS

LEMMA DraftStep ==
    ASSUME IInv, TypeOK', NEW c \in Calls, NEW x \in Rows, DraftRow(c, x),
           NEW r, r = call[c].id
    PROVE  IInv'
<1> DEFINE next == [call[c] EXCEPT !.todo = @ \ {x}]
           v == WordsOf(call[c])
<1>1. call[c].pc = "finalising" /\ call[c].pc \in Approving /\ x \in call[c].todo
    BY DEF DraftRow, Approving
<1>2. /\ r \in Runs /\ r \notin orphaned /\ run[r].status # "absent"
      /\ run[r].rows = call[c].read.rows /\ run[r].basis = call[c].read.basis
      /\ call[c].chosen # {} /\ call[c].chosen \subseteq call[c].read.rows
      /\ call[c].todo \subseteq call[c].chosen
    BY <1>1, ApproveFacts
<1>3. UNCHANGED <<run, crossed, orphaned>> /\ Goto(c, next)
    BY DEF DraftRow
<1>4. /\ next.id = r /\ next.pc = "finalising" /\ next.read = call[c].read
      /\ next.chosen = call[c].chosen /\ next.todo = call[c].todo \ {x}
    BY <1>1 DEF IInv, TypeOK, Local
<1>5. drafts \in [Runs -> [Rows -> Seq(Versions)]] /\ v \in Versions
    BY DEF IInv, TypeOK, Local, RunRow, WordsOf
<1>6. /\ \A q \in Runs \ {r} : drafts'[q] = drafts[q]
      /\ \A y \in Rows \ {x} : drafts'[r][y] = drafts[r][y]
      /\ drafts'[r][x] = drafts[r][x] \/ drafts'[r][x] = Append(drafts[r][x], v)
    <2>1. \/ UNCHANGED drafts
          \/ drafts' = [drafts EXCEPT ![r][x] = Append(drafts[r][x], v)]
        BY DEF DraftRow
    <2> HIDE DEF v
    <2>2. QED
        BY <1>2, <1>5, <2>1
<1>7. v = run[r].basis /\ x \in run[r].rows
    BY <1>1, <1>2 DEF WordsOf
<1> HIDE DEF next, v
<1>8. StepOf(c, r, next)
    BY <1>3, <1>4, <1>6 DEF StepOf
<1>9. call'[c] = next /\ \A d \in Calls \ {c} : call'[d] = call[d]
    BY <1>2, <1>8, Workers DEF IInv
<1>10. RunInv(r)'
    BY <1>2, <1>3 DEF RunInv
<1>11. drafts[r][x] \in Seq(Versions)
    BY <1>2, <1>5
<1>12. Shown(r)'
    <2>1. ASSUME NEW y \in Rows, NEW i \in DOMAIN drafts'[r][y]
          PROVE  y \in run[r].rows /\ drafts'[r][y][i] = run[r].basis
        <3>1. CASE drafts'[r][y] = drafts[r][y]
            BY <1>2, <2>1, <3>1 DEF IInv, Shown
        <3>2. CASE y = x /\ drafts'[r][x] = Append(drafts[r][x], v)
            BY <1>2, <1>5, <1>7, <1>11, <2>1, <3>2, AppendFacts DEF IInv, Shown
        <3>3. QED
            BY <1>6, <3>1, <3>2
    <2>2. QED
        BY <1>2, <1>3, <2>1 DEF Shown, IInv
<1>13. AloneInv(r)'
    <2> SUFFICES ASSUME r \notin crossed' PROVE AloneInv(r)'
        BY DEF AloneInv
    <2>1. /\ \A d \in Calls : call[d].id = r => d = c
          /\ run[r].status = "needs_approval"
          /\ \A y \in call[c].todo : drafts[r][y] = <<>>
          /\ \A y \in Rows : Len(drafts[r][y]) <= 1
        BY <1>1, <1>2, <1>3 DEF IInv, AloneInv
    <2>2. \A d \in Calls : call'[d].id = r => d = c
        BY <1>9, <2>1
    <2>3. call'[c].todo \subseteq Rows /\ x \notin call'[c].todo
        BY <1>4, <1>9 DEF TypeOK, Local
    <2>4. \A y \in call'[c].todo : drafts'[r][y] = <<>>
        BY <1>4, <1>6, <1>9, <2>1, <2>3
    <2>5. Len(drafts'[r][x]) <= 1
        <3>1. drafts[r][x] = <<>>
            BY <1>1, <2>1
        <3>2. Len(drafts[r][x]) = 0
            BY <3>1
        <3>3. QED
            BY <1>5, <1>6, <1>11, <3>2, AppendFacts
    <2>6. \A y \in Rows : Len(drafts'[r][y]) <= 1
        BY <1>6, <2>1, <2>5
    <2>7. QED
        BY <1>3, <1>4, <1>9, <2>1, <2>2, <2>4, <2>6 DEF AloneInv
<1>14. PullInv(c)' /\ ApproveInv(c)'
    BY <1>2, <1>3, <1>4, <1>9 DEF PullInv, ApproveInv, Pulling
<1>15. ASSUME NEW d \in Calls, call'[d].id = r PROVE PullInv(d)' /\ ApproveInv(d)'
    BY <1>1, <1>2, <1>3, <1>8, <1>14, <1>15, OtherCalls
<1>16. QED
    BY <1>2, <1>8, <1>10, <1>12, <1>13, <1>15, OwnRun

(***************************************************************************)
(* Invariance.                                                             *)
(***************************************************************************)

\* The organisation's settings are no part of the invariant.
LEMMA SettingsStep ==
    ASSUME IInv, TypeOK', UNCHANGED <<run, drafts, call, crossed, orphaned>>
    PROVE  IInv'
<1>1. ASSUME NEW r \in Runs PROVE RunInv(r)' /\ Shown(r)' /\ AloneInv(r)'
    BY DEF IInv, RunInv, Shown, AloneInv, Untouched, NoDraft
<1>2. ASSUME NEW c \in Calls PROVE PullInv(c)' /\ ApproveInv(c)'
    BY DEF IInv, PullInv, ApproveInv, Untouched, NoDraft
<1>3. QED
    BY <1>1, <1>2 DEF IInv

LEMMA InitInv == Init => IInv
<1> SUFFICES ASSUME Init PROVE IInv
    OBVIOUS
<1>1. /\ \A c \in Calls : call[c].pc = "idle" /\ call[c].id = "none"
      /\ \A r \in Runs : run[r] = NoRun /\ NoDraft(r) /\ r \notin orphaned
    BY DEF Init, Idle, NoDraft
<1>2. ASSUME NEW r \in Runs PROVE RunInv(r) /\ Shown(r) /\ AloneInv(r)
    <2>1. Untouched(r)
        BY <1>1 DEF Untouched, NoRun
    <2>2. Len(<<>>) <= 1 /\ DOMAIN <<>> = {}
        OBVIOUS
    <2>3. RunInv(r)
        BY <1>1, <2>1 DEF RunInv
    <2>4. Shown(r)
        BY <1>1 DEF Shown, NoRun, NoDraft
    <2>5. AloneInv(r)
        BY <1>1, <2>2 DEF AloneInv, NoDraft
    <2>6. QED
        BY <2>3, <2>4, <2>5
<1>3. ASSUME NEW c \in Calls PROVE PullInv(c) /\ ApproveInv(c)
    BY <1>1 DEF PullInv, ApproveInv, Pulling, Approving
<1>4. QED
    BY <1>2, <1>3, TypeInit DEF IInv

LEMMA Inductive == IInv /\ [Next]_vars => IInv'
<1> SUFFICES ASSUME IInv, [Next]_vars PROVE IInv'
    OBVIOUS
<1>1. TypeOK'
    BY TypeStep DEF IInv
<1>2. CASE (\E kinds \in SUBSET Kinds : SetAccess(kinds)) \/ EditBasis
           \/ SetLayout \/ SetGmail \/ UNCHANGED vars
    <2>1. UNCHANGED <<run, drafts, call, crossed, orphaned>>
        BY <1>2 DEF SetAccess, EditBasis, SetLayout, SetGmail, vars
    <2>2. QED
        BY <1>1, <2>1, SettingsStep
<1>3. ASSUME NEW c \in Calls, NEW r \in Runs, NEW kind \in Kinds,
             Create(c, r, kind)
      PROVE  IInv'
    BY <1>1, <1>3, CreateStep
<1>4. ASSUME NEW c \in Calls, ReadContext(c) PROVE IInv'
    BY <1>1, <1>4, ReadContextStep
<1>5. ASSUME NEW c \in Calls, NEW rows \in SUBSET Rows, FinishPull(c, rows)
      PROVE  IInv'
    BY <1>1, <1>5, FinishPullStep
<1>6. ASSUME NEW c \in Calls, FailPull(c) PROVE IInv'
    BY <1>1, <1>6, FailPullStep
<1>7. ASSUME NEW c \in Calls, NEW r \in Runs, NEW chosen \in SUBSET Rows,
             ReadRun(c, r, chosen)
      PROVE  IInv'
    BY <1>1, <1>7, ReadRunStep
<1>8. ASSUME NEW c \in Calls, PrepareFinalise(c) PROVE IInv'
    BY <1>1, <1>8, PrepareStep
<1>9. ASSUME NEW c \in Calls, NEW x \in Rows, DraftRow(c, x) PROVE IInv'
    BY <1>1, <1>9, DraftStep
<1>10. ASSUME NEW c \in Calls, Complete(c) PROVE IInv'
    BY <1>1, <1>10, CompleteStep
<1>11. ASSUME NEW c \in Calls, Die(c) PROVE IInv'
    BY <1>1, <1>11, DieStep
<1>12. QED
    BY <1>2, <1>3, <1>4, <1>5, <1>6, <1>7, <1>8, <1>9, <1>10, <1>11 DEF Next

LEMMA Invariance == Spec => []IInv
BY InitInv, Inductive, PTL DEF Spec

(***************************************************************************)
(* Theorems.                                                               *)
(***************************************************************************)

\* Runs, drafts and calls are of their kind, a call has a run exactly while it
\* is busy, and never drafts a row that was not chosen (server.py, start_run,
\* approve).
THEOREM TypeCorrect == Spec => []TypeOK
BY TypeInit, TypeStep, PTL DEF Spec

\* For any number of runs, rows and threads: a draft is for a row of its run in
\* the words the run shows, and a bank file holds what was approved with the
\* bank details shown (server.py, approve).
THEOREM AsShown == Spec => []FinalisedAsShown
<1>1. IInv => FinalisedAsShown
    BY DEF IInv, Shown, FinalisedAsShown
<1>2. QED
    BY <1>1, Invariance, PTL

\* For any number of runs, rows and threads: no row is drafted twice from a run
\* whose approvals neither overlapped nor were cut short (server.py, approve).
THEOREM OneDraft == Spec => []OneDraftPerRow
<1>1. IInv => OneDraftPerRow
    BY DEF IInv, AloneInv, OneDraftPerRow, Drafted
<1>2. QED
    BY <1>1, Invariance, PTL

\* For any number of runs, rows and threads: start_run has its run to itself
\* while it pulls, and what it leaves behind when it dies is never approved
\* (server.py, start_run; stores.py, RunStore.create).
THEOREM AlonePull == Spec => []PullIsAlone
<1>1. ASSUME IInv, NEW r \in Runs, NEW c \in On(r), call[c].pc \in Pulling
      PROVE  Cardinality(On(r)) = 1
    <2>1. c \in Calls /\ call[c].id = r
        BY DEF On
    <2>2. On(r) = {c}
        BY <1>1, <2>1 DEF IInv, PullInv, On
    <2>3. QED
        BY <2>2, FS_Singleton
<1>2. ASSUME IInv, NEW r \in orphaned, r \in Runs
      PROVE  run[r].approved = {} /\ On(r) = {}
    BY <1>2 DEF IInv, RunInv, Untouched, On
<1>3. IInv => PullIsAlone
    BY <1>1, <1>2 DEF PullIsAlone, Pulling
<1>4. QED
    BY <1>3, Invariance, PTL

\* For any number of runs, rows and threads: a run that is over stays as it is,
\* unless approvals of it crossed (stores.py, RunStore.complete).
THEOREM Stays == Spec => FinishedStays
<1>1. ASSUME IInv, [Next]_vars, NEW r \in Runs,
             run[r].status \in {"empty", "complete", "failed"},
             r \notin crossed
      PROVE  run'[r] = run[r]
    <2>1. ASSUME NEW c \in Calls, call[c].pc # "idle" PROVE call[c].id # r
        BY <1>1, <2>1 DEF IInv, AloneInv
    <2>2. ASSUME NEW c \in Calls, NEW q \in Runs, NEW kind \in Kinds,
                 Create(c, q, kind)
          PROVE  run'[r] = run[r]
        BY <1>1, <2>2 DEF Create, IInv, TypeOK
    <2>3. ASSUME NEW c \in Calls,
                 (\E rows \in SUBSET Rows : FinishPull(c, rows))
                 \/ FailPull(c) \/ Complete(c)
          PROVE  run'[r] = run[r]
        <3>1. call[c].id # r
            BY <2>1, <2>3 DEF FinishPull, FailPull, Complete
        <3>2. QED
            BY <1>1, <2>3, <3>1 DEF FinishPull, FailPull, Complete, IInv, TypeOK
    <2>4. QED
        BY <1>1, <2>2, <2>3 DEF Next, vars, SetAccess, EditBasis, SetLayout,
           SetGmail, ReadContext, ReadRun, PrepareFinalise, DraftRow, Die
<1>2. IInv /\ [Next]_vars =>
        [\A r \in Runs :
            run[r].status \in {"empty", "complete", "failed"} =>
                run'[r] = run[r] \/ r \in crossed]_run
    BY <1>1
<1>3. QED
    BY <1>2, Invariance, PTL DEF Spec, FinishedStays
================================================================================
