----------------------------- MODULE GeminiCircuit -----------------------------
(***************************************************************************)
(* The circuit breaker in front of Gemini and the resting of models, in    *)
(* one worker process (worker/fw/inbox/gemini.py; reset_classifier and     *)
(* reclassify in inbox/api.py).  Every organisation's calls share them.    *)
(*                                                                         *)
(* The attributes are plain Python ones without a lock: a call reads and   *)
(* writes them one at a time, and threads interleave between any two.      *)
(* `failures` is exact up to a bound above the threshold, `opened_at` is   *)
(* whether it was set, and whether the cooldown has passed since.          *)
(*                                                                         *)
(* External: the service, which answers, fails, limits a model's rate,     *)
(* answers something that is no object, or is up for good; and restarts.   *)
(***************************************************************************)
EXTENDS Integers, Sequences

CONSTANTS
    Calls,        \* threads that classify
    Models,
    Chain,        \* a call's candidates, its organisation's model first
    Retired,      \* models the key may turn out not to reach
    Threshold,    \* FAILURE_THRESHOLD
    MaxFailures   \* bound: where `failures` stops counting

ASSUME ChainAssumption == \A c \in Calls : Chain[c] \in Seq(Models) \ {<<>>}
ASSUME RetiredAssumption == Retired \subseteq Models
ASSUME ThresholdAssumption ==
    /\ Threshold \in Nat \ {0}
    /\ MaxFailures \in Nat /\ MaxFailures > Threshold

VARIABLES
    failures,   \* CIRCUIT.failures
    opened,     \* CIRCUIT.opened_at: "never" (0.0), "recent", or "old"
    resting,    \* _cooling: the models whose time has not come
    bad,        \* the models that answer 404
    up,         \* whether the service, and this process, stay up from now on
    call,       \* where each call is, what is left of its chain, and the count it
                \* read: where it may matter, else 0
    streak,     \* history: answers counted since the last success, in order
    overlapped  \* history: whether two records of an answer have overlapped

vars == <<failures, opened, resting, bad, up, call, streak, overlapped>>

Counts == 0..MaxFailures
More(n) == IF n < MaxFailures THEN n + 1 ELSE n
Idle == [pc |-> "idle", left |-> <<>>, read |-> 0]
Recording == {"counting", "opening", "setting", "clearing"}

TypeOK ==
    /\ failures \in Counts /\ streak \in Counts
    /\ opened \in {"never", "recent", "old"}
    /\ resting \subseteq Models /\ bad \subseteq Retired
    /\ up \in BOOLEAN /\ overlapped \in BOOLEAN
    /\ call \in [Calls -> [pc : {"idle", "checking", "trying", "asking"} \cup Recording,
                           left : Seq(Models), read : Counts]]
    /\ \A c \in Calls : call[c].pc = "asking" => call[c].left # <<>>

Init ==
    /\ failures = 0 /\ opened = "never" /\ resting = {} /\ up = FALSE
    /\ bad \in SUBSET Retired
    /\ call = [c \in Calls |-> Idle]
    /\ streak = 0 /\ overlapped = FALSE

Goto(c, next) == call' = [call EXCEPT ![c] = next]

\* Call c starts to record an answer.
Record(c, next) ==
    /\ Goto(c, next)
    /\ overlapped' = (overlapped \/ \E d \in Calls : call[d].pc \in Recording)

\* classify looks whether the circuit is open: is_open, up to its first return.
Call(c) ==
    /\ call[c].pc = "idle"
    /\ Goto(c, IF failures < Threshold
               THEN [pc |-> "trying", left |-> Chain[c], read |-> 0]
               ELSE [pc |-> "checking", left |-> Chain[c], read |-> failures])
    /\ UNCHANGED <<failures, opened, resting, bad, up, streak, overlapped>>

\* Mutant: an open circuit never half-opens.
HotForGood == TRUE
\* The cooldown has not passed.
Hot == opened = "recent"

\* The rest of is_open: a half-open circuit is open to every call; the others are
\* refused.
CheckCooldown(c) ==
    /\ call[c].pc = "checking"
    /\ Goto(c, IF Hot THEN Idle ELSE [call[c] EXCEPT !.pc = "trying"])
    /\ UNCHANGED <<failures, opened, resting, bad, up, streak, overlapped>>

\* The next candidate, unless it rests; with none left, CLS_RATE_LIMITED,
\* which the circuit does not hear of.
TryNext(c) ==
    /\ call[c].pc = "trying"
    /\ Goto(c, IF call[c].left = <<>> THEN Idle
               ELSE IF Head(call[c].left) \in resting
                    THEN [call[c] EXCEPT !.left = Tail(@)]
                    ELSE [call[c] EXCEPT !.pc = "asking"])
    /\ UNCHANGED <<failures, opened, resting, bad, up, streak, overlapped>>

\* 429: this model rests, and the next is tried for the same email.
RateLimited(c) ==
    /\ call[c].pc = "asking" /\ ~up
    /\ resting' = resting \cup {Head(call[c].left)}
    /\ Goto(c, [call[c] EXCEPT !.pc = "trying", !.left = Tail(@)])
    /\ UNCHANGED <<failures, opened, bad, up, streak, overlapped>>

\* An answer that is JSON but no object: refused, and neither counted nor taken
\* as a success.
NotAnObject(c) ==
    /\ call[c].pc = "asking" /\ ~up
    /\ Goto(c, Idle)
    /\ UNCHANGED <<failures, opened, resting, bad, up, streak, overlapped>>

\* A timeout, no connection, a status other than 200, an answer that does not
\* parse: record_failure reads the count, which it goes on to write.
Fail(c) ==
    /\ call[c].pc = "asking" /\ (~up \/ Head(call[c].left) \in bad)
    /\ Record(c, [pc |-> "counting", left |-> <<>>, read |-> failures])
    /\ streak' = More(streak)
    /\ UNCHANGED <<failures, opened, resting, bad, up>>

\* Mutant: a failure is not counted.
CountedNot(n) == n
\* What record_failure makes of the count it read.
Counted(n) == More(n)

CountFailure(c) ==
    /\ call[c].pc = "counting"
    /\ failures' = Counted(call[c].read)
    /\ Goto(c, [Idle EXCEPT !.pc = "opening"])
    /\ UNCHANGED <<opened, resting, bad, up, streak, overlapped>>

\* The count is looked at again, and then the time is set.
ReachThreshold(c) ==
    /\ call[c].pc = "opening"
    /\ Goto(c, IF failures >= Threshold THEN [Idle EXCEPT !.pc = "setting"] ELSE Idle)
    /\ UNCHANGED <<failures, opened, resting, bad, up, streak, overlapped>>

OpenCircuit(c) ==
    /\ call[c].pc = "setting"
    /\ opened' = "recent"
    /\ Goto(c, Idle)
    /\ UNCHANGED <<failures, resting, bad, up, streak, overlapped>>

\* record_success, of an answer or of a person's reset, after which the call
\* forgets when the circuit opened.
Clear(c) ==
    /\ Record(c, [Idle EXCEPT !.pc = "clearing"])
    /\ failures' = 0 /\ streak' = 0
    /\ UNCHANGED <<opened, resting, bad, up>>

Succeed(c) ==
    call[c].pc = "asking" /\ Head(call[c].left) \notin bad /\ Clear(c)

Reset(c) == call[c].pc = "idle" /\ Clear(c)

ForgetOpening(c) ==
    /\ call[c].pc = "clearing"
    /\ opened' = "never"
    /\ Goto(c, Idle)
    /\ UNCHANGED <<failures, resting, bad, up, streak, overlapped>>

\* COOLDOWN_SECONDS pass; a model's own rest ends; the service recovers.
Cool ==
    /\ opened = "recent" /\ opened' = "old"
    /\ UNCHANGED <<failures, resting, bad, up, call, streak, overlapped>>

Wake(m) ==
    /\ m \in resting /\ resting' = resting \ {m}
    /\ UNCHANGED <<failures, opened, bad, up, call, streak, overlapped>>

Recover ==
    /\ ~up /\ up' = TRUE
    /\ UNCHANGED <<failures, opened, resting, bad, call, streak, overlapped>>

\* The process stops and starts: nothing of this is persisted.
Restart ==
    /\ ~up
    /\ failures' = 0 /\ opened' = "never" /\ resting' = {}
    /\ call' = [c \in Calls |-> Idle]
    /\ streak' = 0 /\ overlapped' = FALSE
    /\ UNCHANGED <<bad, up>>

\* A step of call c that the code takes once it can.
Step(c) ==
    \/ CheckCooldown(c)
    \/ TryNext(c) \/ RateLimited(c) \/ NotAnObject(c) \/ Fail(c) \/ Succeed(c)
    \/ CountFailure(c) \/ ReachThreshold(c) \/ OpenCircuit(c) \/ ForgetOpening(c)

Next ==
    \/ \E c \in Calls :
        \/ Call(c) \/ Reset(c) \/ CheckCooldown(c)
        \/ TryNext(c) \/ RateLimited(c) \/ NotAnObject(c) \/ Fail(c)
        \/ Succeed(c) \/ CountFailure(c) \/ ReachThreshold(c) \/ OpenCircuit(c)
        \/ ForgetOpening(c)
    \/ Cool \/ (\E m \in Models : Wake(m)) \/ Recover \/ Restart

LeadsWithGone(c) == Head(Chain[c]) \in bad

\* Threads run, requests time out, and time passes.  Organisations whose own model
\* is not gone keep syncing, whatever the circuit tells them; nothing is assumed of
\* the others, nor of who comes when the circuit is half-open.
Fairness ==
    /\ \A c \in Calls : WF_vars(Step(c)) /\ WF_vars(Call(c) /\ ~LeadsWithGone(c))
    /\ WF_vars(Cool)
    /\ \A m \in Models : WF_vars(Wake(m))

Spec == Init /\ [][Next]_vars /\ Fairness

(***************************************************************************)
(* Properties                                                              *)
(***************************************************************************)

\* While no two answers have been recorded at once, the count is the number of
\* failures since the last success, and reaching the threshold has opened the
\* circuit: no path records twice, or not at all (gemini.py, _ask, classify).
CountIsHonest ==
    ~overlapped /\ (\A c \in Calls : call[c].pc \notin Recording) =>
        failures = streak /\ (failures >= Threshold <=> opened # "never")

\* Once the service is well, and no call asks for a model that is gone, the
\* failures are forgotten without a person's help, whatever the threads that
\* recorded them left behind; an organisation whose own model is gone holds the
\* others up only as long as it goes on asking (gemini.py, _Circuit, classify).
CircuitCloses ==
    LET GoneIsAsked == \E c \in Calls : call[c].pc = "asking"
                                        /\ Head(call[c].left) \in bad
    IN <>[](up /\ ~GoneIsAsked /\ \E c \in Calls : ~LeadsWithGone(c))
          => <>[](failures < Threshold)

(***************************************************************************)
(* What the documentation promises                                         *)
(***************************************************************************)

\* "half-open: let one call through to test" (gemini.py, is_open): two calls are
\* never under way that were both let through past the threshold.  Nothing counts
\* them.
OneCallTests ==
    LET Tests(c) == call[c].pc \in {"trying", "asking"} /\ call[c].read >= Threshold
    IN \A c, d \in Calls : Tests(c) /\ Tests(d) => c = d
================================================================================
