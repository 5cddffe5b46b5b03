------------------------------- MODULE Sched -------------------------------
(***************************************************************************)
(* The MiniOS scheduler (os/kernel/task.c): which task owns the single     *)
(* CPU, and how a trap hands the CPU to another task.  The module declares *)
(* the scheduling fields of the task table and the operators the kernel    *)
(* operations of the modules that extend it are built from; it has no      *)
(* actions of its own.                                                     *)
(*                                                                         *)
(* ready_order in the code is a 64-bit stamp taken from ++order_counter    *)
(* whenever a task becomes READY, and only the order of the stamps of the  *)
(* READY tasks is ever looked at.  Here ready_order[s] is the rank of that *)
(* stamp among the READY tasks (1 for the oldest), and 0 for a task that   *)
(* is not READY.                                                           *)
(***************************************************************************)
EXTENDS Integers, FiniteSets

CONSTANTS MaxTasks,  \* MAX_TASKS, the size of the task table
          Policy,    \* scheduler_policy: set before task_init, then fixed
          Quantum    \* scheduler_quantum, the ticks of a time slice

ASSUME SchedAssumption ==
  /\ MaxTasks \in Nat
  /\ MaxTasks > 1
  /\ Policy \in {"FCFS", "RR"}
  /\ Quantum \in Nat \ {0}

VARIABLES state,        \* tasks[s].state
          ready_order,  \* rank of tasks[s].ready_order among the READY tasks
          ticks_left,   \* tasks[s].ticks_left
          current,      \* the slot current points to
          task_count    \* tasks that are not UNUSED, as the kernel counts them

schedVars == <<state, ready_order, ticks_left, current, task_count>>

Slots == 0 .. MaxTasks - 1
Idle == 0                       \* tasks[0], the boot thread, has pid 0
States == {"UNUSED", "READY", "RUNNING", "BLOCKED", "ZOMBIE"}

Lowest(S) == CHOOSE s \in S : \A t \in S : s <= t

Ready(st) == {s \in Slots : st[s] = "READY"}

(* s becomes READY: ready_order = ++order_counter *)
EnterReady(ord, st, s) ==
  [ord EXCEPT ![s] = 1 + Cardinality(Ready(st) \ {s})]

(* s stops being READY, if it was *)
LeaveReady(ord, s) ==
  [t \in Slots |-> IF t = s THEN 0
                   ELSE IF ord[s] > 0 /\ ord[t] > ord[s] THEN ord[t] - 1
                   ELSE ord[t]]

select_rr_FromZero(st) == Lowest(Ready(st))  \* mutant: the scan restarts at slot 0

select_rr_IdleLast(st) ==               \* mutant: idle only when nothing else is READY
  CHOOSE s \in Ready(st) : \A t \in Ready(st) : t = s \/ t = Idle \/ (s # Idle /\ s < t)

(* The scan of select_rr visits slot current + 1 first and current last.   *)
Distance(s) == IF s > current THEN s - current ELSE s + MaxTasks - current

select_rr(st) ==
  CHOOSE s \in Ready(st) : \A t \in Ready(st) : Distance(s) <= Distance(t)

select_fcfs(st, ord) ==
  CHOOSE s \in Ready(st) : \A t \in Ready(st) : ord[s] <= ord[t]

select_next(st, ord) ==
  IF Policy = "FCFS" THEN select_fcfs(st, ord) ELSE select_rr(st)

(* A timer tick that leaves the CPU where it is. *)
has_ready_non_idle(st) == Ready(st) \ {Idle} # {}

SliceRuns(st) ==
  Policy = "RR" /\ current # Idle /\ st[current] = "RUNNING" /\ ticks_left[current] > 1

KeepsCpu(st) ==
  \/ Policy = "FCFS" /\ current # Idle /\ st[current] = "RUNNING"
  \/ SliceRuns(st)
  \/ current = Idle /\ ~has_ready_non_idle(st)

(* The second half of switch_from_trap: a RUNNING task goes back to READY, *)
(* the policy picks the next one.  With nothing READY the CPU stays where  *)
(* it is.                                                                  *)
Dispatch(st, ord) ==
  LET was  == st[current] = "RUNNING"
      st2  == IF was THEN [st EXCEPT ![current] = "READY"] ELSE st
      ord2 == IF was THEN EnterReady(ord, st, current) ELSE ord
      next == select_next(st2, ord2)
  IN  IF Ready(st2) = {}
      THEN /\ state' = st /\ ready_order' = ord
           /\ UNCHANGED <<ticks_left, current>>
      ELSE /\ state' = [st2 EXCEPT ![next] = "RUNNING"]
           /\ ready_order' = LeaveReady(ord2, next)
           /\ ticks_left' = [ticks_left EXCEPT ![next] = Quantum]
           /\ current' = next

(* switch_from_trap(tf, 0), called by sched_tick. st and ord are the task  *)
(* states and ranks when the call is made.                                 *)
sched_tick(st, ord) ==
  IF task_count <= 1 \/ KeepsCpu(st)
  THEN /\ state' = st /\ ready_order' = ord /\ UNCHANGED current
       /\ ticks_left' = IF task_count > 1 /\ SliceRuns(st)
                        THEN [ticks_left EXCEPT ![current] = @ - 1]
                        ELSE ticks_left
  ELSE Dispatch(st, ord)

(* switch_from_trap(tf, 1), called at the end of a trap that left current  *)
(* BLOCKED or ZOMBIE.                                                      *)
task_reschedule(st, ord) ==
  IF task_count <= 1
  THEN state' = st /\ ready_order' = ord /\ UNCHANGED <<ticks_left, current>>
  ELSE Dispatch(st, ord)

(* Whether task_reschedule switches tasks (its result). *)
Switches(st) == task_count > 1 /\ Ready(st) # {}
=============================================================================
