-------------------------------- MODULE Sync --------------------------------
(***************************************************************************)
(* Semaphores and mutexes of the MiniOS kernel (os/kernel/sync.c) with the *)
(* blocking primitives under them (task_block and task_wake_one in         *)
(* os/kernel/task.c, SYS_YIELD in trap.c), used by kernel threads that the *)
(* timer preempts.                                                         *)
(*                                                                         *)
(* A region between local_irq_save and local_irq_restore is one step.      *)
(* Between two regions interrupts are on, and pc[t] names the place where  *)
(* thread t is:                                                            *)
(*   "run"    outside every call          "cs"    inside the mutex         *)
(*   "check"  at the loop head of sem_wait                                 *)
(*   "block"  about to call task_block    "ecall" at its SYS_YIELD         *)
(*   "own"    mutex_lock, about to set owner                               *)
(*   "clear"  mutex_unlock, about to reset owner                           *)
(*   "post"   at the head of sem_post     "wake"  at its task_wake_one     *)
(***************************************************************************)
EXTENDS Sched

CONSTANTS SemMax,    \* bound: posts stop when a semaphore has this value
          ParentOf   \* the thread (or the boot thread) that created a thread

Threads == Slots \ {Idle}
Sems == {"mutex", "sem"}                \* mutex->sem, and a plain semaphore
Places == {"run", "cs", "check", "block", "ecall", "own", "clear", "post", "wake"}
NoOne == -1                             \* owner of a free mutex

ASSUME SyncAssumption ==
  /\ SemMax \in Nat \ {0}
  /\ ParentOf \in [Threads -> Slots]

VARIABLES pc, on,        \* where each thread is, and the semaphore its call is about
          value, owner,  \* sem->value, mutex->owner
          wait_channel   \* {x}: tasks[t].wait_channel is semaphore x; {}: NULL

syncVars == <<pc, on, value, owner, wait_channel>>
vars == <<schedVars, syncVars>>

Init ==                                 \* the threads are created, mutex_init, sem_init(0)
  /\ state = [s \in Slots |-> IF s = Idle THEN "RUNNING" ELSE "READY"]
  /\ ready_order = [s \in Slots |-> s]
  /\ ticks_left = [s \in Slots |-> Quantum]
  /\ current = Idle
  /\ task_count = MaxTasks
  /\ pc = [t \in Threads |-> "run"]
  /\ on = [t \in Threads |-> "sem"]
  /\ value = [x \in Sems |-> IF x = "mutex" THEN 1 ELSE 0]
  /\ owner = NoOne
  /\ wait_channel = [t \in Threads |-> {}]

-----------------------------------------------------------------------------
(* t executes the code at place p. *)
At(t, p) == current = t /\ state[t] = "RUNNING" /\ pc[t] = p

Goto(t, p) == pc' = [pc EXCEPT ![t] = p]

Call(t, x, p) == At(t, "run") /\ on' = [on EXCEPT ![t] = x] /\ Goto(t, p)

(* sem_wait, and mutex_lock, which begins with it *)
StartWait(t, x) ==
  /\ Call(t, x, "check")
  /\ UNCHANGED <<schedVars, value, owner, wait_channel>>

Available(x) == value[x] > 0

(* sem_wait: take the semaphore or go and block. *)
CheckValue(t) ==
  LET x == on[t] IN
  /\ At(t, "check")
  /\ IF Available(x)
     THEN /\ value' = [value EXCEPT ![x] = @ - 1]
          /\ Goto(t, IF x = "mutex" THEN "own" ELSE "run")
     ELSE Goto(t, "block") /\ UNCHANGED value
  /\ UNCHANGED <<schedVars, on, owner, wait_channel>>

(* task_block: the region with interrupts off. *)
SetBlocked(t) ==
  /\ At(t, "block")
  /\ state' = [state EXCEPT ![t] = "BLOCKED"]
  /\ wait_channel' = [wait_channel EXCEPT ![t] = {on[t]}]
  /\ Goto(t, "ecall")
  /\ UNCHANGED <<ready_order, ticks_left, current, task_count, on, value, owner>>

(* SYS_YIELD: trap_handler moves epc past the ecall and reschedules if the *)
(* task is BLOCKED.  If it is RUNNING syscall_dispatch returns 2 and       *)
(* nothing changes, epc included: the ecall is executed again.             *)
Yield(t) ==
  /\ current = t /\ state[t] = "BLOCKED" /\ pc[t] = "ecall"
  /\ Goto(t, "check")
  /\ task_reschedule(state, ready_order)
  /\ UNCHANGED <<task_count, on, value, owner, wait_channel>>

SetOwner(t) ==                          \* the end of mutex_lock
  /\ At(t, "own")
  /\ owner' = t
  /\ Goto(t, "cs")
  /\ UNCHANGED <<schedVars, on, value, wait_channel>>

TryTaken_Unchecked == FALSE             \* mutant: mutex_trylock does not look at value
TryTaken == value["mutex"] = 0

(* mutex_trylock; a failed attempt changes nothing. *)
TryLock(t) ==
  /\ ~TryTaken
  /\ Call(t, "mutex", "cs")
  /\ value' = [value EXCEPT !["mutex"] = 0]
  /\ owner' = t
  /\ UNCHANGED <<schedVars, wait_channel>>

(* mutex_unlock by any thread, and its comparison of owner. *)
Unlock(t) ==
  /\ \E p \in {"cs", "run"} : At(t, p)
  /\ owner = t
  /\ Goto(t, "clear")
  /\ on' = [on EXCEPT ![t] = "mutex"]
  /\ UNCHANGED <<schedVars, value, owner, wait_channel>>

ClearOwner(t) ==
  /\ At(t, "clear")
  /\ owner' = NoOne
  /\ Goto(t, "post")
  /\ UNCHANGED <<schedVars, on, value, wait_channel>>

(* sem_post on the plain semaphore *)
StartPost(t) ==
  /\ Call(t, "sem", "post")
  /\ value["sem"] < SemMax
  /\ UNCHANGED <<schedVars, value, owner, wait_channel>>

Increment(t) ==
  /\ At(t, "post")
  /\ value' = [value EXCEPT ![on[t]] = @ + 1]
  /\ Goto(t, "wake")
  /\ UNCHANGED <<schedVars, on, owner, wait_channel>>

Waiters(x) == {s \in Threads : state[s] = "BLOCKED" /\ wait_channel[s] = {x}}

MakeReady_StaleChannel(s) ==            \* mutant: wait_channel is not reset
  /\ state' = [state EXCEPT ![s] = "READY"]
  /\ ready_order' = EnterReady(ready_order, state, s)
  /\ UNCHANGED wait_channel

(* The state changes by which s is woken *)
MakeReady(s) ==
  /\ state' = [state EXCEPT ![s] = "READY"]
  /\ ready_order' = EnterReady(ready_order, state, s)
  /\ wait_channel' = [wait_channel EXCEPT ![s] = {}]

task_wake_one(t) ==
  /\ At(t, "wake")
  /\ IF Waiters(on[t]) = {} THEN UNCHANGED <<state, ready_order, wait_channel>>
     ELSE MakeReady(Lowest(Waiters(on[t])))
  /\ Goto(t, "run")
  /\ UNCHANGED <<ticks_left, current, task_count, on, value, owner>>

(* SYS_EXIT of a thread outside every call.  task_exit wakes its parent    *)
(* whatever the parent is blocked on (its wait_target is -1).              *)
Exit(t) ==
  LET p    == ParentOf[t]
      wake == p # Idle /\ state[p] = "BLOCKED"
      dead == [state EXCEPT ![t] = "ZOMBIE"]
  IN
  /\ At(t, "run") /\ owner # t
  /\ task_reschedule(IF wake THEN [dead EXCEPT ![p] = "READY"] ELSE dead,
                     IF wake THEN EnterReady(ready_order, dead, p) ELSE ready_order)
  /\ wait_channel' = IF wake THEN [wait_channel EXCEPT ![p] = {}] ELSE wait_channel
  /\ UNCHANGED <<task_count, pc, on, value, owner>>

TimerTick ==
  /\ sched_tick(state, ready_order)
  /\ UNCHANGED <<task_count, syncVars>>

(* What t does once it is inside a call *)
Continue(t) ==
  \/ CheckValue(t) \/ SetBlocked(t) \/ Yield(t) \/ SetOwner(t)
  \/ ClearOwner(t) \/ Increment(t) \/ task_wake_one(t)

Next ==
  \/ TimerTick
  \/ \E t \in Threads :
       \/ \E x \in Sems : StartWait(t, x)
       \/ TryLock(t)
       \/ Unlock(t)
       \/ StartPost(t)
       \/ Exit(t)
       \/ Continue(t)

Spec == Init /\ [][Next]_vars

(* The timer interrupt stays pending until it is taken; a thread that gets *)
(* time slices goes on with the call it is in, and a thread inside the     *)
(* mutex unlocks it.                                                       *)
Fairness ==
  /\ SF_vars(TimerTick)
  /\ \A t \in Threads : SF_vars(Continue(t)) /\ SF_vars(At(t, "cs") /\ Unlock(t))

FairSpec == Spec /\ Fairness

-----------------------------------------------------------------------------
TypeOK ==
  /\ state \in [Slots -> States]
  /\ ready_order \in [Slots -> Nat]
  /\ ticks_left \in [Slots -> 1 .. Quantum]
  /\ current \in Slots
  /\ task_count = MaxTasks
  /\ pc \in [Threads -> Places]
  /\ on \in [Threads -> Sems]
  /\ value \in [Sems -> Nat]
  /\ owner \in Threads \cup {NoOne}
  /\ wait_channel \in [Threads -> SUBSET Sems]

Holds(t) == pc[t] \in {"own", "cs", "clear"} \/ (pc[t] = "post" /\ on[t] = "mutex")

(* The mutex excludes: wherever threads are preempted in mutex_lock,       *)
(* mutex_trylock and mutex_unlock, one of them at most has it, and its     *)
(* semaphore is 1 exactly when none has.                                   *)
MutualExclusion ==
  /\ \A t, u \in Threads : Holds(t) /\ Holds(u) => t = u
  /\ value["mutex"] = IF \E t \in Threads : Holds(t) THEN 0 ELSE 1

(* The recorded owner is the thread inside the mutex: its mutex_unlock is  *)
(* not ignored, and nobody else's is obeyed.                               *)
HolderIsOwner == \A t \in Threads : pc[t] \in {"cs", "clear"} <=> owner = t

(* A thread off the CPU is never left in a state the scheduler cannot      *)
(* handle: BLOCKED exactly when it is on a channel, even if its parent was *)
(* woken by a child's exit while it waited for a semaphore.                *)
BlockedOnChannel ==
  \A t \in Threads : /\ state[t] = "BLOCKED" <=> wait_channel[t] # {}
                     /\ state[t] = "BLOCKED" => /\ wait_channel[t] = {on[t]}
                                                /\ pc[t] \in {"ecall", "check"}

(* What the acceptance list of the process module asks for, "no blocking   *)
(* or wake-up is lost": a thread blocked on a semaphore that is available  *)
(* does not stay blocked.                                                  *)
WakeupsNotLost ==
  \A t \in Threads : (state[t] = "BLOCKED" /\ value[on[t]] > 0) ~>
                      (state[t] # "BLOCKED" \/ value[on[t]] = 0)

(* The same, for a thread that was woken: it leaves task_block. *)
WokenProceeds ==
  \A t \in Threads : (state[t] = "READY" /\ pc[t] = "ecall") ~> pc[t] # "ecall"
=============================================================================
