----------------------------- MODULE WorkService -----------------------------
(***************************************************************************)
(* What WorkGrinder promises the callers of enqueue, submit and            *)
(* submit_from_thread (guides/work-grinder.rst), without batches, leases   *)
(* or the loop: what may become of one item, whatever the others do.  Any  *)
(* number of items may move in one step, each by a move of its own.        *)
(***************************************************************************)
CONSTANTS Items     \* work items

VARIABLES
    outcome,    \* what the caller's future says
    work        \* what became of the item's function

vars == <<outcome, work>>

Init ==
    /\ outcome = [i \in Items |-> "none"]
    /\ work = [i \in Items |-> "no"]

\* The grinder takes the item and answers with a future, or refuses it.
Accept(i) == outcome[i] = "none" /\ outcome'[i] \in {"open", "error"} /\ work'[i] = work[i]

\* The function goes to an executor: of an accepted item, once, and never after the
\* caller was told that the item failed.
Hand(i) ==
    /\ outcome[i] \in {"open", "cancelled"} /\ work[i] = "no"
    /\ work'[i] = "handed" /\ outcome'[i] = outcome[i]

\* The function ends, or the executor drops it unrun.
End(i) == work[i] = "handed" /\ work'[i] \in {"returned", "raised", "lost"}

\* The caller learns the result of the item's own function, or its failure, or that
\* the item failed before it went to an executor.
Resolve(i) ==
    /\ outcome[i] = "open" /\ work'[i] = work[i]
    /\ \/ work[i] = "returned" /\ outcome'[i] = "result"
       \/ work[i] \in {"no", "raised", "lost"} /\ outcome'[i] = "error"

\* The caller or the grinder gives the item up; a function that runs goes on.
Cancel(i) ==
    /\ outcome[i] = "open" /\ outcome'[i] = "cancelled"
    /\ work'[i] = work[i] \/ (work[i] = "handed" /\ work'[i] = "lost")

Move(i) ==
    \/ Accept(i) \/ Hand(i) \/ Resolve(i) \/ Cancel(i)
    \/ End(i) /\ outcome'[i] = outcome[i]
    \/ outcome'[i] = outcome[i] /\ work'[i] = work[i]

Next == \A i \in Items : Move(i)

Spec == Init /\ [][Next]_vars

-----------------------------------------------------------------------------
\* What follows for a caller.

\* Answers are true: who gets a result has that of the own function, and who is told that
\* the item failed need not fear that its function succeeded, or runs.
AnswersAreTrue ==
    \A i \in Items :
        /\ outcome[i] = "none" => work[i] = "no"
        /\ outcome[i] = "result" => work[i] = "returned"
        /\ outcome[i] = "error" => work[i] \in {"no", "raised", "lost"}

\* Answers are final: no later one replaces them, nothing begins to run behind an error,
\* and no function runs twice, whatever crashes, stops and cancellations follow.
KeepsAnswer(i) ==
    /\ outcome[i] \in {"result", "error", "cancelled"} => outcome'[i] = outcome[i]
    /\ outcome[i] = "error" => work'[i] = work[i]
    /\ work[i] = "handed" => work'[i] # "no"
    /\ work[i] \in {"returned", "raised", "lost"} => work'[i] = work[i]
KeepsAnswers == \A i \in Items : KeepsAnswer(i)
AnswersAreFinal == [][KeepsAnswers]_vars
=============================================================================
