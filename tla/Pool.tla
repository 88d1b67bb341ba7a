-------------------------------- MODULE Pool --------------------------------
(***************************************************************************)
(* pooled(tasks, limit) of server/enumerate.js: min(limit, tasks.length)   *)
(* asynchronous workers share one counter and one array of results.        *)
(*                                                                         *)
(* JavaScript runs each worker without interruption between two awaits, so *)
(* one action is one resumption of one worker: it stores the result it was *)
(* waiting for, looks at the counter, claims the next task and calls it.   *)
(* The first claims happen while the workers are created, before pooled    *)
(* returns, which is why they are the initial state.                       *)
(***************************************************************************)
EXTENDS Naturals, FiniteSets

CONSTANTS
  NumTasks,   \* tasks.length
  Limit       \* how many tasks may run at once

ASSUME PoolAssumption == NumTasks \in Nat /\ Limit \in Nat \ {0}

Tasks == 1 .. NumTasks
NumWorkers == IF Limit < NumTasks THEN Limit ELSE NumTasks
Workers == 1 .. NumWorkers

\* No task, and no result yet. The result of task t is represented by t.
None == 0

VARIABLES
  next,      \* the shared counter
  task,      \* task[w]: the task worker w is awaiting, None once it has left its loop
  results,   \* the shared array
  failed,    \* the tasks whose promise rejected: each took its worker with it
  outcome    \* the promise pooled returns

vars == <<next, task, results, failed, outcome>>

Init ==
  /\ next = NumWorkers + 1
  /\ task = [w \in Workers |-> w]
  /\ results = [t \in Tasks |-> None]
  /\ failed = {}
  /\ outcome = "pending"

\* Mutant: a bound that is one too large.
ClaimPastEnd(w) ==
  \/ /\ next <= NumTasks + 1
     /\ task' = [task EXCEPT ![w] = next]
     /\ next' = next + 1
  \/ /\ next > NumTasks + 1
     /\ task' = [task EXCEPT ![w] = None]
     /\ UNCHANGED next

(***************************************************************************)
(* The head of the loop: while (next < tasks.length) index = next++.       *)
(***************************************************************************)
ClaimNext(w) ==
  \/ /\ next <= NumTasks
     /\ task' = [task EXCEPT ![w] = next]
     /\ next' = next + 1
  \/ /\ next > NumTasks
     /\ task' = [task EXCEPT ![w] = None]
     /\ UNCHANGED next

\* Mutants: a counter that wraps; a result pushed instead of placed.
TaskResolvesWrapping(w) ==
  /\ task[w] # None
  /\ results' = [results EXCEPT ![task[w]] = task[w]]
  /\ task' = [task EXCEPT ![w] = IF next > NumTasks THEN 1 ELSE next]
  /\ next' = IF next > NumTasks THEN 2 ELSE next + 1
  /\ UNCHANGED <<failed, outcome>>
TaskResolvesPushing(w) ==
  /\ task[w] # None
  /\ \E slot \in Tasks :
       /\ results[slot] = None
       /\ \A t \in 1 .. slot - 1 : results[t] # None
       /\ results' = [results EXCEPT ![slot] = task[w]]
  /\ ClaimNext(w)
  /\ UNCHANGED <<failed, outcome>>

TaskResolves(w) ==
  /\ task[w] # None
  /\ results' = [results EXCEPT ![task[w]] = task[w]]
  /\ ClaimNext(w)
  /\ UNCHANGED <<failed, outcome>>

\* The exception leaves the loop; the other workers are not told.
TaskRejects(w) ==
  /\ task[w] # None
  /\ failed' = failed \cup {task[w]}
  /\ task' = [task EXCEPT ![w] = None]
  /\ UNCHANGED <<next, results, outcome>>

(***************************************************************************)
(* await Promise.all(workers): resolves when the last worker has left its  *)
(* loop, rejects as soon as one of them has thrown.                        *)
(***************************************************************************)
AllReturned ==
  /\ outcome = "pending"
  /\ failed = {}
  /\ \A w \in Workers : task[w] = None
  /\ outcome' = "resolved"
  /\ UNCHANGED <<next, task, results, failed>>

OneThrew ==
  /\ outcome = "pending"
  /\ failed # {}
  /\ outcome' = "rejected"
  /\ UNCHANGED <<next, task, results, failed>>

Next ==
  \/ \E w \in Workers : TaskResolves(w) \/ TaskRejects(w)
  \/ AllReturned
  \/ OneThrew

Spec == Init /\ [][Next]_vars

(***************************************************************************)
(* Every task is a probe and every probe settles within its own timeout,   *)
(* and a promise whose condition holds is settled by the event loop.       *)
(***************************************************************************)
Fairness ==
  /\ \A w \in Workers : WF_vars(TaskResolves(w) \/ TaskRejects(w))
  /\ WF_vars(AllReturned \/ OneThrew)

FairSpec == Spec /\ Fairness

-----------------------------------------------------------------------------
Running(t) == \E w \in Workers : task[w] = t

TypeOK ==
  /\ next \in 1 .. NumTasks + 1
  /\ task \in [Workers -> Tasks \cup {None}]
  /\ results \in [Tasks -> Tasks \cup {None}]
  /\ failed \subseteq Tasks
  /\ outcome \in {"pending", "resolved", "rejected"}

(***************************************************************************)
(* Every task below the counter is accounted for exactly once: running at  *)
(* one worker, or answered, or failed; and no other task was touched. Two  *)
(* workers never hold the same task, because the read of the counter and   *)
(* its increment belong to one uninterrupted step.                         *)
(***************************************************************************)
EachTaskOnce ==
  /\ \A v, w \in Workers : task[v] = task[w] /\ task[v] # None => v = w
  /\ \A t \in Tasks :
       /\ t < next <=> Running(t) \/ results[t] # None \/ t \in failed
       /\ Running(t) => results[t] = None /\ t \notin failed
       /\ results[t] # None => t \notin failed

(***************************************************************************)
(* What the callers index by: when pooled resolves, slot t holds the       *)
(* result of task t, for every t, whatever order the tasks finished in.    *)
(***************************************************************************)
ResolvedInOrder ==
  outcome = "resolved" => \A t \in Tasks : results[t] = t

\* The ceiling the function exists for: a task under way is an open connection.
AtMostLimit == Cardinality({t \in Tasks : Running(t)}) <= Limit

\* pooled always settles, and the tasks it left running settle too.
Settles == <>(outcome # "pending" /\ \A w \in Workers : task[w] = None)

(***************************************************************************)
(* The workers and their counter implement the promise: a task's status is *)
(* read off the worker that holds it and the slot it filled. In particular *)
(* a place given up by a task that resolved is taken at once by the        *)
(* longest waiting one.                                                    *)
(***************************************************************************)
StatusOf(t) ==
  IF Running(t) THEN "running"
  ELSE IF results[t] # None THEN "resolved"
  ELSE IF t \in failed THEN "rejected" ELSE "waiting"

Promise == INSTANCE PoolPromise WITH status <- [t \in Tasks |-> StatusOf(t)]

Implements == Promise!Spec
=============================================================================
