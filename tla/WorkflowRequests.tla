--------------------------- MODULE WorkflowRequests ---------------------------
(***************************************************************************)
(* A request for a workflow and the pull request made of it                *)
(* (worker/fw/server.py, create_workflow_request; requests_pr.py;          *)
(* github.py; WorkflowRequestStore in stores.py).                          *)
(*                                                                         *)
(* A title is the module name it slugs to, so two requests may share one.  *)
(* A branch is the set of files on it.  Each call to GitHub is an action;  *)
(* requests interleave, and the worker may die in any of them.             *)
(*                                                                         *)
(* External: GitHub, which may refuse any call, may do it and fail to say  *)
(* so, and refuses a file that exists when the call gives no sha; Claude,  *)
(* which answers a module and its tests or does not; the people who merge. *)
(***************************************************************************)
EXTENDS FiniteSets

CONSTANTS
    Requests,     \* ids of requests
    Titles,
    Generation    \* whether an Anthropic key may be configured

ASSUME GenerationAssumption == Generation \subseteq BOOLEAN

VARIABLES
    generates,  \* whether it is
    row,        \* workflow_requests
    call,       \* where the thread of each request is
    base,       \* the files on the default branch
    branch,     \* the files on the branch of each request that has one
    pr,         \* the pull request of each request: its kind and its notes
    cut         \* history: requests whose thread died, or was not told

vars == <<generates, row, call, base, branch, pr, cut>>

File(what, title) == <<what, title>>
Drafted(title) == {File("module", title), File("tests", title)}
Files == {"spec", "module", "tests", "registry"} \X Titles
NoRow == [status |-> "none"]
NoPR == [kind |-> "none", noted |-> FALSE]
Steps == {"none", "branch", "spec", "generate", "module", "tests", "registry",
          "pr", "opened", "raised", "done"}

Row == [status : {"submitted", "pr_opened", "failed"}, title : Titles,
        kind : {"none", "spec", "generated"}]

TypeOK ==
    /\ generates \in BOOLEAN
    /\ row \in [Requests -> Row \cup {NoRow}]
    /\ \A r \in Requests : call[r].pc = "none" <=> row[r] = NoRow
    /\ call \in [Requests -> [pc : Steps, kind : {"spec", "generated"},
                              noted : BOOLEAN]]
    /\ base \subseteq Files
    /\ branch \in [Requests -> SUBSET Files]
    /\ pr \in [Requests -> [kind : {"none", "spec", "generated"}, noted : BOOLEAN]]
    /\ cut \subseteq Requests

Init ==
    /\ generates \in Generation
    /\ row = [r \in Requests |-> NoRow]
    /\ call = [r \in Requests |-> [pc |-> "none", kind |-> "spec", noted |-> FALSE]]
    /\ base = {} /\ branch = [r \in Requests |-> {}]
    /\ pr = [r \in Requests |-> NoPR]
    /\ cut = {}

Goto(r, pc) == call' = [call EXCEPT ![r].pc = pc]

\* The row, once the title and the description have passed.
Submit(r, t) ==
    /\ row[r] = NoRow
    /\ row' = [row EXCEPT ![r] = [status |-> "submitted", title |-> t,
                                  kind |-> "none"]]
    /\ Goto(r, "branch")
    /\ UNCHANGED <<generates, base, branch, pr, cut>>

\* open_request_pr: a branch from the default one, named for this request.
CreateBranch(r) ==
    /\ call[r].pc = "branch"
    /\ branch' = [branch EXCEPT ![r] = base]
    /\ Goto(r, "spec")
    /\ UNCHANGED <<generates, row, base, pr, cut>>

\* put_file without a sha, and where the thread goes on.
PutNew(r, what, next) ==
    LET file == File(what, row[r].title) IN
    /\ call[r].pc = what /\ file \notin branch[r]
    /\ branch' = [branch EXCEPT ![r] = @ \cup {file}]
    /\ Goto(r, next)
    /\ UNCHANGED <<generates, row, base, pr, cut>>

PutSpec(r) == PutNew(r, "spec", IF generates THEN "generate" ELSE "pr")
PutModule(r) == PutNew(r, "module", "tests")
PutTests(r) == PutNew(r, "tests", "registry")

\* generate: two blocks that parse.
Generate(r) ==
    /\ call[r].pc = "generate"
    /\ Goto(r, "module")
    /\ UNCHANGED <<generates, row, base, branch, pr, cut>>

\* Mutant: every error of the generated half is caught.
ForgivesAny(pc) == pc \in {"generate", "module", "tests", "registry"}
\* What open_request_pr catches as RequestError: generate's own refusals, and
\* neither GitHub's nor the network's.
Forgives(pc) == pc = "generate"

Forgive(r) ==
    /\ Forgives(call[r].pc)
    /\ call' = [call EXCEPT ![r] = [@ EXCEPT !.pc = "pr", !.noted = TRUE]]
    /\ UNCHANGED <<generates, row, base, branch, pr, cut>>

\* The registry is read and patched with its sha; or its shape has drifted,
\* and a note asks for the line by hand.
PatchRegistry(r, fits) ==
    LET file == File("registry", row[r].title) IN
    /\ call[r].pc = "registry"
    /\ branch' = [branch EXCEPT ![r] = IF fits THEN @ \cup {file} ELSE @]
    /\ call' = [call EXCEPT ![r] = [pc |-> "pr", kind |-> "generated",
                                     noted |-> ~fits]]
    /\ UNCHANGED <<generates, row, base, pr, cut>>

OpenPR(r) ==
    /\ call[r].pc = "pr"
    /\ pr' = [pr EXCEPT ![r] = [kind |-> call[r].kind, noted |-> call[r].noted]]
    /\ Goto(r, "opened")
    /\ UNCHANGED <<generates, row, base, branch, cut>>

\* Mutant: nobody catches the error.
RaiseUncaught(r) ==
    /\ call[r].pc \in {"branch", "spec", "generate", "module", "tests",
                       "registry", "pr", "opened"}
    /\ Goto(r, "done")
    /\ cut' = IF call[r].pc = "opened" THEN cut \cup {r} ELSE cut
    /\ UNCHANGED <<generates, row, base, branch, pr>>
\* A call raises: GitHub refused, a file exists, the network failed, or the
\* thread's own database write did.
Raise(r) ==
    /\ call[r].pc \in {"branch", "spec", "generate", "module", "tests",
                       "registry", "pr", "opened"}
    /\ Goto(r, "raised")
    /\ cut' = IF call[r].pc = "opened" THEN cut \cup {r} ELSE cut
    /\ UNCHANGED <<generates, row, base, branch, pr>>

\* GitHub opens the pull request, but the answer is lost.
LoseAnswer(r) ==
    /\ call[r].pc = "pr"
    /\ pr' = [pr EXCEPT ![r] = [kind |-> call[r].kind, noted |-> call[r].noted]]
    /\ Goto(r, "raised")
    /\ cut' = cut \cup {r}
    /\ UNCHANGED <<generates, row, base, branch>>

\* Mutant: an error is recorded as an opened request.
ResolvedAlways(old, local) ==
    [old EXCEPT !.status = "pr_opened", !.kind = local.kind]
\* resolve, with the outcome or with the error.
Resolved(old, local) ==
    IF local.pc = "opened" THEN [old EXCEPT !.status = "pr_opened", !.kind = local.kind]
    ELSE [old EXCEPT !.status = "failed", !.kind = "none"]

Resolve(r) ==
    /\ call[r].pc \in {"opened", "raised"}
    /\ row' = [row EXCEPT ![r] = Resolved(@, call[r])]
    /\ Goto(r, "done")
    /\ UNCHANGED <<generates, base, branch, pr, cut>>

Die(r) ==
    /\ call[r].pc \notin {"none", "done"}
    /\ Goto(r, "done")
    /\ cut' = cut \cup {r}
    /\ UNCHANGED <<generates, row, base, branch, pr>>

\* A person reads the pull request and merges it.
Merge(r) ==
    /\ pr[r].kind # "none" /\ ~(branch[r] \subseteq base)
    /\ base' = base \cup branch[r]
    /\ UNCHANGED <<generates, row, call, branch, pr, cut>>

Next ==
    \E r \in Requests :
        \/ \E t \in Titles : Submit(r, t)
        \/ CreateBranch(r) \/ PutSpec(r) \/ Generate(r) \/ Forgive(r)
        \/ PutModule(r) \/ PutTests(r)
        \/ \E fits \in BOOLEAN : PatchRegistry(r, fits)
        \/ OpenPR(r) \/ Raise(r) \/ LoseAnswer(r) \/ Resolve(r)
        \/ Die(r) \/ Merge(r)

\* A step of the thread of r, which every call's timeout brings to its end.
Step(r) ==
    \/ CreateBranch(r) \/ PutSpec(r) \/ Generate(r) \/ Forgive(r)
    \/ PutModule(r) \/ PutTests(r) \/ PatchRegistry(r, TRUE)
    \/ OpenPR(r) \/ Raise(r) \/ Resolve(r)

Fairness == \A r \in Requests : WF_vars(Step(r))

Spec == Init /\ [][Next]_vars /\ Fairness

(***************************************************************************)
(* Properties                                                              *)
(***************************************************************************)

\* A pull request that says it carries the request alone adds no line of
\* generated code to the default branch it was cut from, whatever failed on
\* the way; one that says it is generated has the module and its tests, and
\* registers it or says that it does not (requests_pr.py, open_request_pr).
KindIsHonest ==
    \A r \in Requests :
        LET t == row[r].title IN
        /\ pr[r].kind = "spec" =>
              branch[r] \cap (Drafted(t) \cup {File("registry", t)}) \subseteq base
        /\ pr[r].kind = "generated" =>
              /\ Drafted(t) \subseteq branch[r]
              /\ File("registry", t) \in branch[r] \/ pr[r].noted

\* The person asking is told what there is: a row that says opened has its pull
\* request, of that kind, and one that does not has none, unless the thread
\* died or an answer was lost (server.py, create_workflow_request).
RowIsTrue ==
    \A r \in Requests :
        call[r].pc = "done" /\ r \notin cut =>
            /\ pr[r].kind = row[r].kind
            /\ row[r].status = "pr_opened" <=> row[r].kind # "none"

\* A request is resolved in the end, unless its thread died
\* (server.py, create_workflow_request).
RequestIsResolved ==
    \A r \in Requests :
        row[r].status = "submitted" ~> row[r].status # "submitted" \/ r \in cut
================================================================================
