----------------------------- MODULE SchedProofs -----------------------------
(***************************************************************************)
(* What the scheduler guarantees to the operations built on it, for every  *)
(* table size, policy and quantum.                                         *)
(***************************************************************************)
EXTENDS Sched, TLAPS, FiniteSetTheorems, WellFoundedInduction

-----------------------------------------------------------------------------
(* Choosing a least element *)

(* A non-empty set of naturals has a least element. *)
LEMMA LeastNat ==
  ASSUME NEW S \in SUBSET Nat, S # {}
  PROVE  \E m \in S : \A n \in S : m <= n
<1>1. PICK m \in S : \A n \in S : ~(<<n, m>> \in OpToRel(<, Nat))
  BY NatLessThanWellFounded, WFMin, Zenon
<1>2. ASSUME NEW n \in S
      PROVE  m <= n
  <2>1. ~(n < m)
    <3>1. SUFFICES ASSUME n < m PROVE <<n, m>> \in OpToRel(<, Nat)
      BY <1>1, Zenon
    <3>2. <<n, m>> \in Nat \X Nat /\ <<n, m>>[1] = n /\ <<n, m>>[2] = m
      OBVIOUS
    <3>3. <<n, m>>[1] < <<n, m>>[2]
      BY <3>1, <3>2
    <3> QED BY <3>2, <3>3, Zenon DEF OpToRel
  <2>2. n \in Nat /\ m \in Nat
    OBVIOUS
  <2> QED BY <2>1, <2>2
<1> QED BY <1>2

(* Lowest, the slot a scan from slot 0 meets first, is in the set. *)
LEMMA LowestIn ==
  ASSUME NEW S \in SUBSET Nat, S # {}
  PROVE  Lowest(S) \in S
BY LeastNat, Zenon DEF Lowest

(* select_next returns a READY task whenever there is one. *)
LEMMA SelectNext ==
  ASSUME NEW st \in [Slots -> States], NEW ord \in [Slots -> Nat],
         current \in Slots, Ready(st) # {}
  PROVE  select_next(st, ord) \in Ready(st)
<1> USE SchedAssumption
<1>1. Ready(st) \subseteq Slots /\ Slots \subseteq Nat
  BY DEF Ready, Slots
<1>2. select_fcfs(st, ord) \in Ready(st)
  <2> DEFINE stamps == {ord[s] : s \in Ready(st)}
  <2>1. stamps \in SUBSET Nat /\ stamps # {}
    BY <1>1, Zenon
  <2>2. PICK m \in stamps : \A n \in stamps : m <= n
    BY <2>1, LeastNat, Zenon
  <2>3. PICK s \in Ready(st) : m = ord[s]
    BY <2>2
  <2>4. \A t \in Ready(st) : ord[s] <= ord[t]
    BY <2>2, <2>3
  <2> QED BY <2>4 DEF select_fcfs
<1>3. select_rr(st) \in Ready(st)
  <2> DEFINE distances == {Distance(s) : s \in Ready(st)}
  <2>0. \A s \in Slots : Distance(s) \in Nat
    BY DEF Distance, Slots
  <2>1. distances \in SUBSET Nat /\ distances # {}
    BY <1>1, <2>0, Zenon
  <2>2. PICK m \in distances : \A n \in distances : m <= n
    BY <2>1, LeastNat, Zenon
  <2>3. PICK s \in Ready(st) : m = Distance(s)
    BY <2>2
  <2>4. \A t \in Ready(st) : Distance(s) <= Distance(t)
    BY <2>2, <2>3
  <2> QED BY <2>4 DEF select_rr
<1> QED BY <1>2, <1>3 DEF select_next

-----------------------------------------------------------------------------
(* The scheduler *)

SchedTypeOK ==
  /\ state \in [Slots -> States]
  /\ ready_order \in [Slots -> Nat]
  /\ ticks_left \in [Slots -> 1 .. Quantum]
  /\ current \in Slots

OnlyRunning(st, c) == \A s \in Slots : st[s] = "RUNNING" => s = c

Runnable == {"READY", "RUNNING"}

(* st2 differs from st only in which runnable task has the CPU. *)
SameLife(st, st2) ==
  \A s \in Slots : st2[s] # st[s] => st[s] \in Runnable /\ st2[s] \in Runnable

(* Every set of slots is finite. *)
LEMMA SlotsFinite ==
  ASSUME NEW S \in SUBSET Slots
  PROVE  IsFiniteSet(S) /\ Cardinality(S) \in Nat
<1>1. IsFiniteSet(Slots)
  BY SchedAssumption, FS_Interval DEF Slots
<1>2. IsFiniteSet(S)
  BY <1>1, FS_Subset
<1> QED BY <1>2, FS_CardinalityType

(* The ready_order ranks stay natural numbers. *)
LEMMA RankTypes ==
  ASSUME NEW st \in [Slots -> States], NEW ord \in [Slots -> Nat], NEW s \in Slots
  PROVE  /\ EnterReady(ord, st, s) \in [Slots -> Nat]
         /\ LeaveReady(ord, s) \in [Slots -> Nat]
<1>1. Ready(st) \ {s} \in SUBSET Slots
  BY DEF Ready
<1>2. Cardinality(Ready(st) \ {s}) \in Nat
  BY <1>1, SlotsFinite
<1>3. EnterReady(ord, st, s) \in [Slots -> Nat]
  BY <1>2 DEF EnterReady
<1>4. LeaveReady(ord, s) \in [Slots -> Nat]
  <2>1. SUFFICES ASSUME NEW t \in Slots PROVE LeaveReady(ord, s)[t] \in Nat
    BY DEF LeaveReady
  <2>2. ord[t] \in Nat /\ ord[s] \in Nat
    OBVIOUS
  <2> QED BY <2>2 DEF LeaveReady
<1> QED BY <1>3, <1>4

(* What the second half of switch_from_trap guarantees: the CPU goes to a  *)
(* runnable task if there is one, and no task is created, blocked or ended.*)
LEMMA DispatchEffect ==
  ASSUME NEW st \in [Slots -> States], NEW ord \in [Slots -> Nat],
         SchedTypeOK, OnlyRunning(st, current), Dispatch(st, ord)
  PROVE  /\ SchedTypeOK'
         /\ SameLife(st, state')
         /\ OnlyRunning(state', current')
         /\ Ready(st) # {} \/ st[current] = "RUNNING" => state'[current'] = "RUNNING"
         /\ Ready(st) = {} /\ st[current] # "RUNNING" => state' = st /\ current' = current
<1> USE SchedAssumption
<1> DEFINE st2  == IF st[current] = "RUNNING" THEN [st EXCEPT ![current] = "READY"] ELSE st
           ord2 == IF st[current] = "RUNNING" THEN EnterReady(ord, st, current) ELSE ord
           next == select_next(st2, ord2)
<1>1. st2 \in [Slots -> States] /\ ord2 \in [Slots -> Nat] /\ current \in Slots
  BY RankTypes DEF SchedTypeOK, States
<1>2. \A s \in Slots : st2[s] # "RUNNING"
  BY <1>1 DEF OnlyRunning
<1>3. CASE Ready(st2) = {}
  <2>1. state' = st /\ ready_order' = ord /\ ticks_left' = ticks_left /\ current' = current
    BY <1>3 DEF Dispatch
  <2>2. st[current] # "RUNNING"
    BY <1>1, <1>3 DEF Ready
  <2>3. st2 = st
    BY <2>2
  <2> QED BY <1>3, <2>1, <2>2, <2>3 DEF SchedTypeOK, SameLife, OnlyRunning
<1>4. CASE Ready(st2) # {}
  <2> HIDE DEF st2, ord2
  <2>1. next \in Ready(st2)
    BY <1>1, <1>4, SelectNext
  <2>2. next \in Slots /\ st2[next] = "READY"
    BY <2>1 DEF Ready
  <2>3. /\ state' = [st2 EXCEPT ![next] = "RUNNING"]
        /\ ready_order' = LeaveReady(ord2, next)
        /\ ticks_left' = [ticks_left EXCEPT ![next] = Quantum]
        /\ current' = next
    BY <1>4, Zenon DEF Dispatch, st2, ord2
  <2> HIDE DEF next
  <2>4. SchedTypeOK'
    <3>1. ready_order' \in [Slots -> Nat]
      BY <1>1, <2>2, <2>3, RankTypes
    <3>2. ticks_left' \in [Slots -> 1 .. Quantum]
      BY <2>2, <2>3 DEF SchedTypeOK
    <3>3. state' \in [Slots -> States] /\ current' \in Slots
      BY <1>1, <2>2, <2>3 DEF States
    <3> QED BY <3>1, <3>2, <3>3 DEF SchedTypeOK
  <2>5. OnlyRunning(state', current') /\ state'[current'] = "RUNNING"
    BY <1>1, <1>2, <2>2, <2>3 DEF OnlyRunning
  <2>6. SameLife(st, state')
    BY <1>1, <2>2, <2>3 DEF SameLife, Runnable, st2
  <2>7. ~(Ready(st) = {} /\ st[current] # "RUNNING")
    BY <1>4 DEF st2
  <2> QED BY <2>4, <2>5, <2>6, <2>7
<1> QED BY <1>3, <1>4, Zenon

(* What a timer tick guarantees: the CPU stays where it is, or Dispatch    *)
(* moves it.                                                               *)
LEMMA SchedTickEffect ==
  ASSUME SchedTypeOK, OnlyRunning(state, current), sched_tick(state, ready_order)
  PROVE  /\ SchedTypeOK'
         /\ SameLife(state, state')
         /\ OnlyRunning(state', current')
         /\ \/ state' = state /\ current' = current
            \/ Ready(state) # {} \/ state[current] = "RUNNING" => state'[current'] = "RUNNING"
<1>1. CASE task_count <= 1 \/ KeepsCpu(state)
  <2>1. /\ state' = state /\ ready_order' = ready_order /\ current' = current
        /\ ticks_left' = IF task_count > 1 /\ SliceRuns(state)
                         THEN [ticks_left EXCEPT ![current] = @ - 1] ELSE ticks_left
    BY <1>1 DEF sched_tick
  <2>2. ticks_left' \in [Slots -> 1 .. Quantum]
    <3>1. CASE SliceRuns(state) /\ task_count > 1
      <4>1. ticks_left[current] \in 1 .. Quantum /\ ticks_left[current] > 1
        BY <3>1 DEF SliceRuns, SchedTypeOK
      <4>2. ticks_left[current] - 1 \in 1 .. Quantum
        BY <4>1, SchedAssumption
      <4> QED BY <2>1, <3>1, <4>2 DEF SchedTypeOK
    <3>2. CASE ~(SliceRuns(state) /\ task_count > 1)
      BY <2>1, <3>2 DEF SchedTypeOK
    <3> QED BY <3>1, <3>2
  <2> QED BY <2>1, <2>2 DEF SchedTypeOK, SameLife, OnlyRunning
<1>2. CASE ~(task_count <= 1 \/ KeepsCpu(state))
  <2>1. Dispatch(state, ready_order)
    BY <1>2 DEF sched_tick
  <2>2. state \in [Slots -> States] /\ ready_order \in [Slots -> Nat]
    BY DEF SchedTypeOK
  <2> QED BY <2>1, <2>2, DispatchEffect
<1> QED BY <1>1, <1>2

(* Dispatch gives the CPU away only to a task that is READY. *)
LEMMA DispatchPicks ==
  ASSUME NEW st \in [Slots -> States], NEW ord \in [Slots -> Nat],
         current \in Slots, Dispatch(st, ord), current' # current
  PROVE  current' \in Slots /\ st[current'] = "READY"
<1> USE SchedAssumption
<1> DEFINE st2  == IF st[current] = "RUNNING" THEN [st EXCEPT ![current] = "READY"] ELSE st
           ord2 == IF st[current] = "RUNNING" THEN EnterReady(ord, st, current) ELSE ord
<1>1. st2 \in [Slots -> States] /\ ord2 \in [Slots -> Nat]
  BY RankTypes DEF States
<1>2. Ready(st2) # {} /\ current' = select_next(st2, ord2)
  BY Zenon DEF Dispatch
<1>3. \A s \in Slots : s # current => st2[s] = st[s]
  OBVIOUS
<1> HIDE DEF st2, ord2
<1>4. current' \in Ready(st2)
  BY <1>1, <1>2, SelectNext
<1> QED BY <1>3, <1>4 DEF Ready

(* A timer tick that moves the CPU moves it to a READY task. *)
LEMMA TickPicks ==
  ASSUME SchedTypeOK, task_count \in Int, sched_tick(state, ready_order), current' # current
  PROVE  current' \in Slots /\ state[current'] = "READY" /\ task_count > 1
<1>1. ~(task_count <= 1) /\ Dispatch(state, ready_order)
  BY DEF sched_tick
<1> QED BY <1>1, DispatchPicks DEF SchedTypeOK
==============================================================================
