----------------------------- MODULE Pool_proofs -----------------------------
(***************************************************************************)
(* Theorems about pooled, for every number of tasks and every limit.       *)
(***************************************************************************)
EXTENDS Pool, FiniteSetTheorems, FunctionTheorems, TLAPS

(***************************************************************************)
(* The invariant that is inductive. Beside the two parts TLC checks it     *)
(* says where a result may be (its own slot), that no worker stops while   *)
(* the counter has tasks left and none failed, and what the settled        *)
(* promise has seen.                                                       *)
(***************************************************************************)
SlotsMatch == \A t \in Tasks : results[t] \in {t, None}

BusyWhileTasksWait ==
  next <= NumTasks /\ failed = {} => \A w \in Workers : task[w] # None

OutcomeSeen ==
  outcome = "resolved" =>
    /\ failed = {}
    /\ next = NumTasks + 1
    /\ \A w \in Workers : task[w] = None

IInv ==
  /\ TypeOK
  /\ next > NumWorkers
  /\ EachTaskOnce
  /\ SlotsMatch
  /\ BusyWhileTasksWait
  /\ OutcomeSeen

\* There is a worker whenever there is a task: the limit is at least one.
LEMMA WorkerCount ==
  /\ NumWorkers \in Nat
  /\ NumWorkers <= NumTasks
  /\ NumWorkers <= Limit
  /\ NumTasks > 0 => NumWorkers > 0
  /\ NumTasks \in Nat
  BY PoolAssumption DEF NumWorkers

\* Before anything runs the invariant holds.
LEMMA InitEstablishes == Init => IInv
  <1> SUFFICES ASSUME Init PROVE IInv
    OBVIOUS
  <1> USE WorkerCount DEF Init, Tasks, Workers, None
  <1>1. TypeOK
    BY DEF TypeOK
  <1>2. EachTaskOnce
    <2>1. \A t \in Tasks : Running(t) <=> t <= NumWorkers
      BY DEF Running
    <2> QED
      BY <2>1 DEF EachTaskOnce
  <1> QED
    BY <1>1, <1>2 DEF IInv, SlotsMatch, BusyWhileTasksWait, OutcomeSeen

(***************************************************************************)
(* What a worker that resumes changes: the task c it held is answered, and *)
(* the task the counter pointed at, if there is one, is now running.       *)
(***************************************************************************)
LEMMA ResolveEffect ==
  ASSUME IInv, NEW w \in Workers, TaskResolves(w)
  PROVE  \E c \in Tasks :
           /\ c = task[w] /\ Running(c) /\ results[c] = None /\ c \notin failed
           /\ results' = [results EXCEPT ![c] = c]
           /\ failed' = failed /\ outcome' = outcome
           /\ \A t \in Tasks : Running(t)' <=> t = next \/ (Running(t) /\ t # c)
  <1> USE WorkerCount DEF IInv, Tasks, Workers, None
  <1>1. PICK c \in Tasks : c = task[w]
    BY DEF TaskResolves, TypeOK
  <1>2. Running(c) /\ results[c] = None /\ c \notin failed
    BY <1>1 DEF Running, EachTaskOnce
  <1>3. \A t \in Tasks : Running(t)' <=> t = next \/ (Running(t) /\ t # c)
    <2>1. CASE next <= NumTasks
      <3>1. task' = [task EXCEPT ![w] = next]
        BY <2>1 DEF TaskResolves, ClaimNext, TypeOK
      <3> QED
        BY <1>1, <2>1, <3>1 DEF Running, EachTaskOnce, TypeOK
    <2>2. CASE next > NumTasks
      <3>1. task' = [task EXCEPT ![w] = None]
        BY <2>2 DEF TaskResolves, ClaimNext, TypeOK
      <3> QED
        BY <1>1, <2>2, <3>1 DEF Running, EachTaskOnce, TypeOK
    <2> QED
      BY <2>1, <2>2 DEF TypeOK
  <1> QED
    BY <1>1, <1>2, <1>3 DEF TaskResolves

\* What a rejecting task changes, and what it leaves alone.
LEMMA RejectEffect ==
  ASSUME IInv, NEW w \in Workers, TaskRejects(w)
  PROVE  \E c \in Tasks :
           /\ c = task[w] /\ Running(c) /\ results[c] = None /\ c \notin failed
           /\ failed' = failed \cup {c}
           /\ results' = results /\ next' = next /\ outcome' = outcome
           /\ \A t \in Tasks : Running(t)' <=> Running(t) /\ t # c
  <1> USE WorkerCount DEF IInv, Tasks, Workers, None
  <1>1. PICK c \in Tasks : c = task[w]
    BY DEF TaskRejects, TypeOK
  <1>2. Running(c) /\ results[c] = None /\ c \notin failed
    BY <1>1 DEF Running, EachTaskOnce
  <1>3. \A t \in Tasks : Running(t)' <=> Running(t) /\ t # c
    BY <1>1 DEF TaskRejects, Running, EachTaskOnce, TypeOK
  <1> QED
    BY <1>1, <1>2, <1>3 DEF TaskRejects

(***************************************************************************)
(* A worker that resumes and claims the next task, if there is one.        *)
(***************************************************************************)
LEMMA ResolveKeeps ==
  ASSUME IInv, NEW w \in Workers, TaskResolves(w)
  PROVE  IInv'
  <1> USE WorkerCount DEF IInv, Tasks, Workers, None
  <1>1. PICK c \in Tasks : c = task[w]
    BY DEF TaskResolves, TypeOK
  <1>2. /\ results' = [results EXCEPT ![c] = c]
        /\ failed' = failed /\ outcome' = outcome
    BY <1>1 DEF TaskResolves
  <1>3. CASE next <= NumTasks
    <2>1. task' = [task EXCEPT ![w] = next] /\ next' = next + 1
      BY <1>3 DEF TaskResolves, ClaimNext, TypeOK
    <2>2. TypeOK'
      BY <1>1, <1>2, <1>3, <2>1 DEF TypeOK
    <2>3. \A t \in Tasks : Running(t)' <=> t = next \/ (Running(t) /\ t # c)
      BY <1>1, ResolveEffect
    <2>4. EachTaskOnce'
      BY <1>1, <1>2, <1>3, <2>1, <2>3 DEF EachTaskOnce, TypeOK, Running
    <2> QED
      BY <1>1, <1>2, <1>3, <2>1, <2>2, <2>4
         DEF SlotsMatch, BusyWhileTasksWait, OutcomeSeen, TypeOK
  <1>4. CASE next > NumTasks
    <2>1. task' = [task EXCEPT ![w] = None] /\ next' = next
      BY <1>4 DEF TaskResolves, ClaimNext, TypeOK
    <2>2. TypeOK'
      BY <1>1, <1>2, <2>1 DEF TypeOK
    <2>3. \A t \in Tasks : Running(t)' <=> Running(t) /\ t # c
      BY <1>1, <1>4, ResolveEffect DEF TypeOK
    <2>4. EachTaskOnce'
      BY <1>1, <1>2, <2>1, <2>3 DEF EachTaskOnce, TypeOK, Running
    <2> QED
      BY <1>1, <1>2, <1>4, <2>1, <2>2, <2>4
         DEF SlotsMatch, BusyWhileTasksWait, OutcomeSeen, TypeOK
  <1> QED
    BY <1>3, <1>4 DEF TypeOK

\* A rejecting task keeps the invariant.
LEMMA RejectKeeps ==
  ASSUME IInv, NEW w \in Workers, TaskRejects(w)
  PROVE  IInv'
  <1> USE WorkerCount DEF IInv, Tasks, Workers, None
  <1>1. PICK c \in Tasks : c = task[w]
    BY DEF TaskRejects, TypeOK
  <1>2. /\ failed' = failed \cup {c}
        /\ task' = [task EXCEPT ![w] = None]
        /\ next' = next /\ results' = results /\ outcome' = outcome
    BY <1>1 DEF TaskRejects
  <1>3. TypeOK'
    BY <1>1, <1>2 DEF TypeOK
  <1>4. \A t \in Tasks : Running(t)' <=> Running(t) /\ t # c
    BY <1>1, RejectEffect
  <1>5. EachTaskOnce'
    BY <1>1, <1>2, <1>4 DEF EachTaskOnce, TypeOK, Running
  <1> QED
    BY <1>1, <1>2, <1>3, <1>5
       DEF SlotsMatch, BusyWhileTasksWait, OutcomeSeen, TypeOK

\* Settling the call keeps the invariant.
LEMMA SettleKeeps ==
  ASSUME IInv, AllReturned \/ OneThrew
  PROVE  IInv'
  <1> USE WorkerCount DEF IInv, Tasks, Workers, None
  <1>1. UNCHANGED <<next, task, results, failed>>
    BY DEF AllReturned, OneThrew
  <1>2. TypeOK' /\ EachTaskOnce' /\ SlotsMatch' /\ BusyWhileTasksWait'
    BY <1>1 DEF AllReturned, OneThrew, TypeOK, EachTaskOnce, Running,
                SlotsMatch, BusyWhileTasksWait
  <1>3. OutcomeSeen'
    <2>1. CASE AllReturned
      <3>1. next > NumTasks
        BY <2>1 DEF AllReturned, BusyWhileTasksWait, TypeOK
      <3> QED
        BY <2>1, <3>1 DEF AllReturned, OutcomeSeen, TypeOK
    <2>2. CASE OneThrew
      BY <2>2 DEF OneThrew, OutcomeSeen
    <2> QED
      BY <2>1, <2>2
  <1> QED
    BY <1>1, <1>2, <1>3

\* The invariant is inductive.
LEMMA StepKeeps == IInv /\ [Next]_vars => IInv'
  <1> SUFFICES ASSUME IInv, [Next]_vars PROVE IInv'
    OBVIOUS
  <1>1. ASSUME NEW w \in Workers, TaskResolves(w) PROVE IInv'
    BY <1>1, ResolveKeeps
  <1>2. ASSUME NEW w \in Workers, TaskRejects(w) PROVE IInv'
    BY <1>2, RejectKeeps
  <1>3. CASE AllReturned \/ OneThrew
    BY <1>3, SettleKeeps
  <1>4. CASE UNCHANGED vars
    BY <1>4 DEF vars, IInv, TypeOK, EachTaskOnce, Running, SlotsMatch,
                BusyWhileTasksWait, OutcomeSeen
  <1> QED
    BY <1>1, <1>2, <1>3, <1>4 DEF Next

(***************************************************************************)
(* The inductive invariant holds in every reachable state.                 *)
(***************************************************************************)
THEOREM Invariance == Spec => []IInv
  BY InitEstablishes, StepKeeps, PTL DEF Spec

(***************************************************************************)
(* Every variable keeps its type: in particular no worker ever reads past  *)
(* the end of the task list.                                               *)
(***************************************************************************)
THEOREM TypeCorrect == Spec => []TypeOK
  <1>1. IInv => TypeOK
    BY DEF IInv
  <1> QED
    BY <1>1, Invariance, PTL

(***************************************************************************)
(* Every task below the counter is run by exactly one worker and settles   *)
(* at most once, whatever the interleaving of the workers.                 *)
(***************************************************************************)
THEOREM TasksRunOnce == Spec => []EachTaskOnce
  <1>1. IInv => EachTaskOnce
    BY DEF IInv
  <1> QED
    BY <1>1, Invariance, PTL

\* The invariant makes a resolved call hold one result per task.
LEMMA InOrder == IInv => ResolvedInOrder
  <1> SUFFICES ASSUME IInv, outcome = "resolved", NEW t \in Tasks
               PROVE  results[t] = t
    BY DEF ResolvedInOrder
  <1> USE WorkerCount DEF IInv, Tasks, None
  <1>1. t < next /\ ~Running(t) /\ t \notin failed
    BY DEF OutcomeSeen, Running
  <1> QED
    BY <1>1 DEF EachTaskOnce, SlotsMatch

(***************************************************************************)
(* When pooled resolves, every slot holds the result of its own task.      *)
(***************************************************************************)
THEOREM ResultsInOrder == Spec => []ResolvedInOrder
  BY InOrder, Invariance, PTL

(***************************************************************************)
(* pooled never has more than Limit tasks under way: the tasks that run    *)
(* map one to one to the workers that hold them.                           *)
(***************************************************************************)
THEOREM CeilingHolds == Spec => []AtMostLimit
  <1>1. IInv => AtMostLimit
    <2> SUFFICES ASSUME IInv PROVE AtMostLimit
      OBVIOUS
    <2> DEFINE R == {t \in Tasks : Running(t)}
               holder == [t \in R |-> CHOOSE w \in Workers : task[w] = t]
    <2>2. \A t \in R : holder[t] \in Workers /\ task[holder[t]] = t
      BY DEF Running
    <2>3. holder \in Injection(R, Workers)
      BY <2>2 DEF Injection, IsInjective
    <2>4. IsFiniteSet(Workers) /\ Cardinality(Workers) <= Limit
      BY WorkerCount, FS_Interval, PoolAssumption DEF Workers
    <2>5. IsFiniteSet(R) /\ Cardinality(R) <= Cardinality(Workers)
      BY <2>3, <2>4, FS_Injection
    <2>6. Cardinality(R) \in Nat /\ Cardinality(Workers) \in Nat /\ Limit \in Nat
      BY <2>4, <2>5, FS_CardinalityType, PoolAssumption
    <2>7. Cardinality(R) <= Limit
      BY <2>4, <2>5, <2>6
    <2> QED
      BY <2>7 DEF AtMostLimit
  <1> QED
    BY <1>1, Invariance, PTL

(***************************************************************************)
(* What the refinement mapping reads in a state that satisfies the         *)
(* invariant: one of four mutually exclusive statuses.                     *)
(***************************************************************************)
LEMMA Statuses ==
  ASSUME IInv, NEW t \in Tasks
  PROVE  /\ StatusOf(t) = "running"  <=> Running(t)
         /\ StatusOf(t) = "resolved" <=> results[t] # None
         /\ StatusOf(t) = "rejected" <=> t \in failed
         /\ StatusOf(t) = "waiting"  <=> t >= next
         /\ StatusOf(t) \in {"running", "resolved", "rejected", "waiting"}
  <1>1. /\ t < next <=> Running(t) \/ results[t] # None \/ t \in failed
        /\ Running(t) => results[t] = None /\ t \notin failed
        /\ results[t] # None => t \notin failed
    BY DEF IInv, EachTaskOnce
  <1>2. t \in Nat /\ next \in Nat
    BY WorkerCount DEF IInv, TypeOK, Tasks
  <1>3. CASE Running(t)
    BY <1>1, <1>2, <1>3 DEF StatusOf
  <1>4. CASE ~Running(t) /\ results[t] # None
    BY <1>1, <1>2, <1>4 DEF StatusOf
  <1>5. CASE ~Running(t) /\ results[t] = None /\ t \in failed
    BY <1>1, <1>2, <1>5 DEF StatusOf
  <1>6. CASE ~Running(t) /\ results[t] = None /\ t \notin failed
    BY <1>1, <1>2, <1>6 DEF StatusOf
  <1> QED
    BY <1>3, <1>4, <1>5, <1>6

(***************************************************************************)
(* The workers and their counter implement PoolPromise: at most once, in   *)
(* list order, no idle capacity, all results or a rejection.               *)
(***************************************************************************)
THEOREM Refinement == Spec => Implements
  <1> DEFINE st == [t \in Tasks |-> StatusOf(t)]
  <1>1. Init => Promise!Init
    <2> SUFFICES ASSUME Init PROVE Promise!Init
      OBVIOUS
    <2>1. IInv /\ next = NumWorkers + 1 /\ failed = {} /\ outcome = "pending"
      BY InitEstablishes DEF Init
    <2>2. \A t \in Tasks : results[t] = None
      BY DEF Init
    <2>3. \A t \in Tasks : StatusOf(t) = IF t <= Limit THEN "running" ELSE "waiting"
      BY <2>1, <2>2, Statuses, WorkerCount, PoolAssumption DEF Tasks, NumWorkers, EachTaskOnce, IInv
    <2> QED
      BY <2>1, <2>3 DEF Promise!Init, Promise!Tasks, Tasks
  <1>2. IInv /\ IInv' /\ [Next]_vars => [Promise!Next]_<<st, outcome>>
    <2> SUFFICES ASSUME IInv, IInv', [Next]_vars
                 PROVE  Promise!Next \/ UNCHANGED <<st, outcome>>
      OBVIOUS
    <2> USE DEF Promise!Tasks, Promise!With, Tasks
    <2>1. ASSUME NEW w \in Workers, TaskResolves(w)
          PROVE  Promise!Next
      <3>1. PICK c \in Tasks :
              /\ Running(c)
              /\ results' = [results EXCEPT ![c] = c]
              /\ failed' = failed /\ outcome' = outcome
              /\ \A t \in Tasks : Running(t)' <=> t = next \/ (Running(t) /\ t # c)
        BY <2>1, ResolveEffect
      <3>2. next \in Nat /\ NumTasks \in Nat /\ results \in [Tasks -> Tasks \cup {None}]
        BY WorkerCount DEF IInv, TypeOK
      <3>3. \A t \in Tasks : t \in Promise!Longest <=> t = next
        <4>1. \A t : t \in Promise!With("waiting") <=> t \in Tasks /\ t >= next
          BY Statuses
        <4>2. next > 0
          BY <3>2 DEF IInv, TypeOK
        <4> HIDE DEF Promise!With
        <4> QED
          BY <3>2, <4>1, <4>2 DEF Promise!Longest
      <3>4. \A t \in Tasks : StatusOf(t)' = IF t = c THEN "resolved"
                                          ELSE IF t = next THEN "running"
                                          ELSE StatusOf(t)
        <4> SUFFICES ASSUME NEW t \in Tasks
                     PROVE  StatusOf(t)' = IF t = c THEN "resolved"
                                           ELSE IF t = next THEN "running"
                                           ELSE StatusOf(t)
          OBVIOUS
        <4>1. c # next
          BY <3>1, <3>2 DEF IInv, EachTaskOnce
        <4> QED
          BY <3>1, <3>2, <4>1 DEF StatusOf, None
      <3>5. Promise!Resolve(c)
        BY <3>1, <3>3, <3>4, Statuses DEF Promise!Resolve
      <3> QED
        BY <3>5 DEF Promise!Next
    <2>2. ASSUME NEW w \in Workers, TaskRejects(w)
          PROVE  Promise!Next
      <3>1. PICK c \in Tasks :
              /\ Running(c) /\ results[c] = None
              /\ failed' = failed \cup {c}
              /\ results' = results /\ outcome' = outcome
              /\ \A t \in Tasks : Running(t)' <=> Running(t) /\ t # c
        BY <2>2, RejectEffect
      <3>2. \A t \in Tasks : StatusOf(t)' = IF t = c THEN "rejected" ELSE StatusOf(t)
        BY <3>1 DEF StatusOf
      <3>3. Promise!Reject(c)
        BY <3>1, <3>2, Statuses DEF Promise!Reject
      <3> QED
        BY <3>3 DEF Promise!Next
    <2>3. CASE AllReturned
      <3>1. \A t \in Tasks : StatusOf(t) = "resolved"
        <4>1. next > NumTasks
          BY <2>3, WorkerCount DEF AllReturned, IInv, BusyWhileTasksWait, TypeOK, Workers
        <4>2. \A t \in Tasks : ~Running(t)
          BY <2>3 DEF AllReturned, Running, None
        <4>3. \A t \in Tasks : results[t] # None
          BY <2>3, <4>1, <4>2, WorkerCount DEF AllReturned, IInv, EachTaskOnce, TypeOK
        <4> QED
          BY <4>3, Statuses
      <3>2. Promise!Return
        BY <2>3, <3>1 DEF AllReturned, Promise!Return, StatusOf, Running
      <3> QED
        BY <3>2 DEF Promise!Next
    <2>4. CASE OneThrew
      <3>1. PICK t \in Tasks : t \in failed
        BY <2>4 DEF OneThrew, IInv, TypeOK
      <3>2. Promise!Throw
        BY <2>4, <3>1, Statuses DEF OneThrew, Promise!Throw, StatusOf, Running
      <3> QED
        BY <3>2 DEF Promise!Next
    <2>5. CASE UNCHANGED vars
      BY <2>5 DEF vars, StatusOf, Running
    <2> QED
      BY <2>1, <2>2, <2>3, <2>4, <2>5 DEF Next
  <1> QED
    BY <1>1, <1>2, Invariance, PTL DEF Spec, Implements, Promise!Spec
=============================================================================
