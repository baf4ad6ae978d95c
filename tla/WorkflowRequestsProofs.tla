------------------------ MODULE WorkflowRequestsProofs ------------------------
(***************************************************************************)
(* Proofs about WorkflowRequests, for any requests and titles, with and    *)
(* without generation.                                                     *)
(***************************************************************************)
EXTENDS WorkflowRequests, TLAPS

(***************************************************************************)
(* The inductive invariant: what the branch and the pull request of a      *)
(* request are by the time its thread is where it is.                      *)
(***************************************************************************)

\* Where a thread is until it asks for the pull request.
Working == {"branch", "spec", "generate", "module", "tests", "registry", "pr"}

\* What generation adds to a branch.
Generated(t) == Drafted(t) \cup {File("registry", t)}

\* A branch that adds nothing generated, and one that adds all of it.
AddsNone(r) == branch[r] \cap Generated(row[r].title) \subseteq base
AddsAll(r, noted) ==
    /\ Drafted(row[r].title) \subseteq branch[r]
    /\ File("registry", row[r].title) \in branch[r] \/ noted

\* What a branch holds, step by step, and what its pull request says of it.
BranchInv(r) ==
    /\ call[r].pc \in {"spec", "generate", "module"} => AddsNone(r)
    /\ call[r].pc = "tests" => File("module", row[r].title) \in branch[r]
    /\ call[r].pc = "registry" => Drafted(row[r].title) \subseteq branch[r]
    /\ call[r].pc \in {"none"} \cup (Working \ {"pr"}) => call[r].kind = "spec"
    /\ call[r].pc = "pr" => IF call[r].kind = "spec" THEN AddsNone(r)
                            ELSE AddsAll(r, call[r].noted)
    /\ pr[r].kind = "spec" => AddsNone(r)
    /\ pr[r].kind = "generated" => AddsAll(r, pr[r].noted)

\* What the request's row says, against the pull request there is.
RowInv(r) ==
    /\ call[r].pc \in Working \cup {"none"} => pr[r].kind = "none"
    /\ call[r].pc = "opened" => pr[r].kind = call[r].kind
    /\ call[r].pc = "raised" => pr[r].kind = "none" \/ r \in cut
    /\ call[r].pc = "done" /\ r \notin cut =>
          /\ pr[r].kind = row[r].kind
          /\ row[r].status = "pr_opened" <=> row[r].kind # "none"

IInv ==
    /\ TypeOK
    /\ \A r \in Requests : BranchInv(r)
    /\ \A r \in Requests : RowInv(r)

(***************************************************************************)
(* Type correctness.                                                       *)
(***************************************************************************)

USE GenerationAssumption

LEMMA TypeInit == Init => TypeOK
BY DEF Init, TypeOK, Steps, NoPR, NoRow

\* A put adds a file of the request's title.
LEMMA PutTypes ==
    ASSUME TypeOK, NEW r \in Requests, NEW what \in {"spec", "module", "tests"},
           NEW next \in Steps \ {"none"}, PutNew(r, what, next)
    PROVE  TypeOK'
<1>1. call[r].pc # "none"
    BY DEF PutNew
<1>2. row[r] \in Row
    BY <1>1 DEF TypeOK
<1>3. File(what, row[r].title) \in Files
    BY <1>2 DEF Row, File, Files
<1>4. branch' \in [Requests -> SUBSET Files]
    BY <1>3 DEF PutNew, TypeOK
<1>5. call' \in [Requests -> [pc : Steps, kind : {"spec", "generated"},
                              noted : BOOLEAN]]
    BY DEF PutNew, Goto, TypeOK
<1>6. \A q \in Requests : call'[q].pc = "none" <=> row'[q] = NoRow
    BY <1>1 DEF PutNew, Goto, TypeOK
<1>7. QED
    BY <1>4, <1>5, <1>6 DEF PutNew, TypeOK

\* What resolving a row makes of it.
LEMMA ResolvedRow ==
    ASSUME NEW old \in Row, NEW local, local.kind \in {"spec", "generated"}
    PROVE  /\ Resolved(old, local) \in Row
           /\ Resolved(old, local).title = old.title
           /\ local.pc = "opened" =>
                 /\ Resolved(old, local).status = "pr_opened"
                 /\ Resolved(old, local).kind = local.kind
           /\ local.pc # "opened" =>
                 /\ Resolved(old, local).status = "failed"
                 /\ Resolved(old, local).kind = "none"
<1>1. CASE local.pc = "opened"
    BY <1>1 DEF Resolved, Row
<1>2. CASE local.pc # "opened"
    BY <1>2 DEF Resolved, Row
<1>3. QED
    BY <1>1, <1>2

LEMMA TypeStep == TypeOK /\ [Next]_vars => TypeOK'
<1> SUFFICES ASSUME TypeOK, [Next]_vars PROVE TypeOK'
    OBVIOUS
<1>1. ASSUME NEW r \in Requests, NEW t \in Titles, Submit(r, t) PROVE TypeOK'
    BY <1>1 DEF Submit, Goto, TypeOK, Steps, Row, NoRow
<1>2. ASSUME NEW r \in Requests, CreateBranch(r) PROVE TypeOK'
    BY <1>2 DEF CreateBranch, Goto, TypeOK, Steps
<1>3. ASSUME NEW r \in Requests, PutSpec(r) PROVE TypeOK'
    BY <1>3, PutTypes DEF PutSpec, Steps
<1>4. ASSUME NEW r \in Requests, Generate(r) PROVE TypeOK'
    BY <1>4 DEF Generate, Goto, TypeOK, Steps
<1>5. ASSUME NEW r \in Requests, Forgive(r) PROVE TypeOK'
    BY <1>5 DEF Forgive, Forgives, TypeOK, Steps
<1>6. ASSUME NEW r \in Requests, PutModule(r) PROVE TypeOK'
    BY <1>6, PutTypes DEF PutModule, Steps
<1>7. ASSUME NEW r \in Requests, PutTests(r) PROVE TypeOK'
    BY <1>7, PutTypes DEF PutTests, Steps
<1>8. ASSUME NEW r \in Requests, NEW fits \in BOOLEAN, PatchRegistry(r, fits)
      PROVE  TypeOK'
    <2>1. row[r] \in Row
        BY <1>8 DEF PatchRegistry, TypeOK
    <2>2. File("registry", row[r].title) \in Files
        BY <2>1 DEF Row, File, Files
    <2>3. branch' \in [Requests -> SUBSET Files]
        BY <1>8, <2>2 DEF PatchRegistry, TypeOK
    <2>4. call' \in [Requests -> [pc : Steps, kind : {"spec", "generated"},
                                  noted : BOOLEAN]]
        BY <1>8 DEF PatchRegistry, TypeOK, Steps
    <2>5. \A q \in Requests : call'[q].pc = "none" <=> row'[q] = NoRow
        BY <1>8 DEF PatchRegistry, TypeOK
    <2>6. QED
        BY <1>8, <2>3, <2>4, <2>5 DEF PatchRegistry, TypeOK
<1>9. ASSUME NEW r \in Requests, OpenPR(r) PROVE TypeOK'
    BY <1>9 DEF OpenPR, Goto, TypeOK, Steps
<1>10. ASSUME NEW r \in Requests, Raise(r) PROVE TypeOK'
    BY <1>10 DEF Raise, Goto, TypeOK, Steps
<1>11. ASSUME NEW r \in Requests, LoseAnswer(r) PROVE TypeOK'
    BY <1>11 DEF LoseAnswer, Goto, TypeOK, Steps
<1>12. ASSUME NEW r \in Requests, Resolve(r) PROVE TypeOK'
    <2>1. row[r] \in Row /\ call[r].kind \in {"spec", "generated"}
        BY <1>12 DEF Resolve, TypeOK
    <2>2. Resolved(row[r], call[r]) \in Row
        BY <2>1, ResolvedRow
    <2>3. Resolved(row[r], call[r]) # NoRow
        BY <2>2 DEF Row, NoRow
    <2>4. QED
        BY <1>12, <2>1, <2>2, <2>3 DEF Resolve, Goto, TypeOK, Steps
<1>13. ASSUME NEW r \in Requests, Die(r) PROVE TypeOK'
    BY <1>13 DEF Die, Goto, TypeOK, Steps
<1>14. ASSUME NEW r \in Requests, Merge(r) PROVE TypeOK'
    BY <1>14 DEF Merge, TypeOK
<1>15. CASE UNCHANGED vars
    BY <1>15 DEF TypeOK, vars
<1>16. QED
    BY <1>1, <1>2, <1>3, <1>4, <1>5, <1>6, <1>7, <1>8, <1>9, <1>10, <1>11,
       <1>12, <1>13, <1>14, <1>15 DEF Next

(***************************************************************************)
(* Steps of one request, seen from another.                                *)
(***************************************************************************)

\* Nothing of request q changes.
Same(q) ==
    /\ row'[q] = row[q] /\ call'[q] = call[q]
    /\ branch'[q] = branch[q] /\ pr'[q] = pr[q]
    /\ q \in cut <=> q \in cut'

\* What a request can do.
Acts(r) ==
    \/ \E t \in Titles : Submit(r, t)
    \/ CreateBranch(r) \/ PutSpec(r) \/ Generate(r) \/ Forgive(r)
    \/ PutModule(r) \/ PutTests(r)
    \/ \E fits \in BOOLEAN : PatchRegistry(r, fits)
    \/ OpenPR(r) \/ Raise(r) \/ LoseAnswer(r) \/ Resolve(r)
    \/ Die(r) \/ Merge(r)

LEMMA Locality ==
    ASSUME TypeOK, NEW r \in Requests, NEW q \in Requests \ {r}, Acts(r)
    PROVE  Same(q) /\ base \subseteq base'
BY DEF Acts, Same, TypeOK, Submit, CreateBranch, PutSpec, PutModule, PutTests,
       PutNew, Generate, Forgive, PatchRegistry, OpenPR, Raise, LoseAnswer,
       Resolve, Die, Merge, Goto

\* What holds of a request that stays as it is goes on holding while the default
\* branch grows.
LEMMA Frame ==
    ASSUME NEW q \in Requests, BranchInv(q), RowInv(q), Same(q),
           base \subseteq base'
    PROVE  BranchInv(q)' /\ RowInv(q)'
BY DEF BranchInv, RowInv, Same, AddsNone, AddsAll, Generated, Working

(***************************************************************************)
(* Steps of the request itself.                                            *)
(***************************************************************************)

LEMMA BranchStep ==
    ASSUME TypeOK, NEW r \in Requests, BranchInv(r), RowInv(r), Acts(r)
    PROVE  BranchInv(r)'
<1> USE DEF TypeOK, BranchInv, AddsNone, AddsAll, Working
<1>1. ASSUME NEW t \in Titles, Submit(r, t) PROVE BranchInv(r)'
    BY <1>1 DEF RowInv, Submit, Goto
<1>2. CASE CreateBranch(r)
    BY <1>2 DEF RowInv, CreateBranch, Goto
<1>3. CASE PutSpec(r)
    BY <1>3 DEF RowInv, PutSpec, PutNew, Goto, Generated, Drafted, File
<1>4. CASE Generate(r)
    BY <1>4 DEF RowInv, Generate, Goto
<1>5. CASE Forgive(r)
    BY <1>5 DEF RowInv, Forgive, Forgives
<1>6. CASE PutModule(r)
    BY <1>6 DEF RowInv, PutModule, PutNew, Goto
<1>7. CASE PutTests(r)
    BY <1>7 DEF RowInv, PutTests, PutNew, Goto, Drafted
<1>8. ASSUME NEW fits \in BOOLEAN, PatchRegistry(r, fits) PROVE BranchInv(r)'
    BY <1>8 DEF RowInv, PatchRegistry
<1>9. CASE OpenPR(r)
    BY <1>9 DEF OpenPR, Goto
<1>10. CASE Raise(r)
    BY <1>10 DEF Raise, Goto
<1>11. CASE LoseAnswer(r)
    BY <1>11 DEF LoseAnswer, Goto
<1>12. CASE Resolve(r)
    <2>1. row[r] \in Row /\ call[r].kind \in {"spec", "generated"}
        BY <1>12 DEF Resolve
    <2>2. row'[r].title = row[r].title
        BY <1>12, <2>1, ResolvedRow DEF Resolve
    <2>3. call'[r].pc = "done"
        BY <1>12 DEF Resolve, Goto
    <2>4. QED
        BY <1>12, <2>2, <2>3 DEF Resolve, Generated, Drafted
<1>13. CASE Die(r)
    BY <1>13 DEF Die, Goto
<1>14. CASE Merge(r)
    BY <1>14 DEF Merge
<1>15. QED
    BY <1>1, <1>2, <1>3, <1>4, <1>5, <1>6, <1>7, <1>8, <1>9, <1>10, <1>11,
       <1>12, <1>13, <1>14 DEF Acts

LEMMA RowStep ==
    ASSUME TypeOK, NEW r \in Requests, RowInv(r), Acts(r)
    PROVE  RowInv(r)'
<1> USE DEF TypeOK, RowInv, Working
<1>1. ASSUME NEW t \in Titles, Submit(r, t) PROVE RowInv(r)'
    BY <1>1 DEF Submit, Goto
<1>2. CASE CreateBranch(r)
    BY <1>2 DEF CreateBranch, Goto
<1>3. CASE PutSpec(r) \/ PutModule(r) \/ PutTests(r)
    BY <1>3 DEF PutSpec, PutModule, PutTests, PutNew, Goto
<1>4. CASE Generate(r)
    BY <1>4 DEF Generate, Goto
<1>5. CASE Forgive(r)
    BY <1>5 DEF Forgive, Forgives
<1>6. ASSUME NEW fits \in BOOLEAN, PatchRegistry(r, fits) PROVE RowInv(r)'
    BY <1>6 DEF PatchRegistry
<1>7. CASE OpenPR(r)
    BY <1>7 DEF OpenPR, Goto
<1>8. CASE Raise(r)
    BY <1>8 DEF Raise, Goto
<1>9. CASE LoseAnswer(r)
    BY <1>9 DEF LoseAnswer, Goto
<1>10. CASE Resolve(r)
    <2>1. row[r] \in Row /\ call[r].kind \in {"spec", "generated"}
        BY <1>10 DEF Resolve
    <2>2. /\ call[r].pc = "opened" => /\ row'[r].status = "pr_opened"
                                      /\ row'[r].kind = call[r].kind
          /\ call[r].pc # "opened" => /\ row'[r].status = "failed"
                                      /\ row'[r].kind = "none"
        BY <1>10, <2>1, ResolvedRow DEF Resolve
    <2>3. call'[r].pc = "done" /\ pr' = pr /\ cut' = cut
        BY <1>10 DEF Resolve, Goto
    <2>4. QED
        BY <1>10, <2>1, <2>2, <2>3 DEF Resolve
<1>11. CASE Die(r)
    BY <1>11 DEF Die, Goto
<1>12. CASE Merge(r)
    BY <1>12 DEF Merge
<1>13. QED
    BY <1>1, <1>2, <1>3, <1>4, <1>5, <1>6, <1>7, <1>8, <1>9, <1>10, <1>11,
       <1>12 DEF Acts

LEMMA Inductive == IInv /\ [Next]_vars => IInv'
<1> SUFFICES ASSUME IInv, [Next]_vars PROVE IInv'
    OBVIOUS
<1>1. TypeOK'
    BY TypeStep DEF IInv
<1>2. CASE Next
    <2>1. PICK r \in Requests : Acts(r)
        BY <1>2 DEF Next, Acts
    <2>2. BranchInv(r)' /\ RowInv(r)'
        BY <2>1, BranchStep, RowStep DEF IInv
    <2>3. ASSUME NEW q \in Requests \ {r} PROVE BranchInv(q)' /\ RowInv(q)'
        BY <2>1, Locality, Frame DEF IInv
    <2>4. QED
        BY <1>1, <2>2, <2>3 DEF IInv
<1>3. CASE UNCHANGED vars
    <2>1. ASSUME NEW q \in Requests PROVE BranchInv(q)' /\ RowInv(q)'
        BY <1>3, Frame DEF vars, Same, IInv
    <2>2. QED
        BY <1>1, <2>1 DEF IInv
<1>4. QED
    BY <1>2, <1>3

(***************************************************************************)
(* Theorems.                                                               *)
(***************************************************************************)

\* Every row, branch and pull request is of its kind, and a thread is under way
\* or over exactly where there is a row (stores.py, WorkflowRequestStore).
THEOREM TypeCorrect == Spec => []TypeOK
<1>1. Init => TypeOK
    BY TypeInit
<1>2. TypeOK /\ [Next]_vars => TypeOK'
    BY TypeStep
<1>3. QED
    BY <1>1, <1>2, PTL DEF Spec

LEMMA InitInv == Init => IInv
<1> SUFFICES ASSUME Init PROVE IInv
    OBVIOUS
<1>1. TypeOK
    BY TypeInit
<1>2. ASSUME NEW r \in Requests PROVE BranchInv(r) /\ RowInv(r)
    BY DEF Init, BranchInv, RowInv, Working, NoPR
<1>3. QED
    BY <1>1, <1>2 DEF IInv

LEMMA Invariance == Spec => []IInv
BY InitInv, Inductive, PTL DEF Spec

\* For any requests under any titles, however their threads, GitHub's failures
\* and the merges interleave, a pull request that says it carries the request
\* alone adds nothing generated, and one that says it is generated is whole
\* (requests_pr.py, open_request_pr).
THEOREM Honesty == Spec => []KindIsHonest
<1>1. IInv => KindIsHonest
    BY DEF IInv, BranchInv, AddsNone, AddsAll, Generated, KindIsHonest
<1>2. QED
    BY <1>1, Invariance, PTL

\* For any requests, a row resolved by a thread that lived and heard the answer
\* says what pull request there is (server.py, create_workflow_request).
THEOREM RowTruth == Spec => []RowIsTrue
<1>1. IInv => RowIsTrue
    BY DEF IInv, RowInv, RowIsTrue
<1>2. QED
    BY <1>1, Invariance, PTL
================================================================================
