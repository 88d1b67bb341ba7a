----------------------------- MODULE PoolPromise -----------------------------
(***************************************************************************)
(* What the callers of pooled rely on, without workers and without a       *)
(* counter: every task is called at most once and in the order of the      *)
(* list, at most Limit of them are under way, no capacity is left idle     *)
(* while tasks resolve, and the promise resolves with every result or      *)
(* rejects because a task did.                                             *)
(***************************************************************************)
EXTENDS Naturals

CONSTANTS NumTasks, Limit

Tasks == 1 .. NumTasks

VARIABLES
  status,    \* status[t] \in {"waiting", "running", "resolved", "rejected"}
  outcome    \* the promise the caller holds

With(s) == {t \in Tasks : status[t] = s}

Init ==
  /\ status = [t \in Tasks |-> IF t <= Limit THEN "running" ELSE "waiting"]
  /\ outcome = "pending"

\* The task that has waited longest, if one is waiting.
Longest == {t \in With("waiting") : \A u \in With("waiting") : t <= u}

\* A resolved task hands its place to the longest waiting one.
Resolve(t) ==
  /\ status[t] = "running"
  /\ status' = [u \in Tasks |-> IF u = t THEN "resolved"
                                ELSE IF u \in Longest THEN "running"
                                ELSE status[u]]
  /\ UNCHANGED outcome

\* A rejected task takes its place with it.
Reject(t) ==
  /\ status[t] = "running"
  /\ status' = [status EXCEPT ![t] = "rejected"]
  /\ UNCHANGED outcome

Return ==
  /\ outcome = "pending"
  /\ outcome' = "resolved"
  /\ With("resolved") = Tasks
  /\ UNCHANGED status

Throw ==
  /\ outcome = "pending"
  /\ outcome' = "rejected"
  /\ With("rejected") # {}
  /\ UNCHANGED status

Next == \/ \E t \in Tasks : Resolve(t) \/ Reject(t)
        \/ Return
        \/ Throw

Spec == Init /\ [][Next]_<<status, outcome>>
=============================================================================
