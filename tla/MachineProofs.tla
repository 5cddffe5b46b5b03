---------------------------- MODULE MachineProofs ----------------------------
(***************************************************************************)
(* Proofs about the emulated machine.                                      *)
(*                                                                         *)
(* Hart: nesting, return and confinement of traps, for every delegation of *)
(* interrupts and exceptions, every set of lines and every interval of the *)
(* timer.                                                                  *)
(*                                                                         *)
(* Uart: the console delivers every input, whatever is typed: the          *)
(* listener, the register and the polling driver implement the stream.     *)
(***************************************************************************)
EXTENDS Hart, Uart, TLAPS, SequenceTheorems

-----------------------------------------------------------------------------
(* Hart: the inductive invariant *)

(* Handlers run at two levels at most, a supervisor's below a machine's.   *)
(* Each finds in the registers of its level what it interrupted.           *)
SupervisorFrame(c) ==
  /\ c.level = Supervisor /\ c.mode \in {User, Supervisor}
  /\ epc[Supervisor] = c.pc /\ status.SPP = c.mode /\ status.SPIE = c.SIE
  /\ ~status.SIE

MachineFrame(c) ==
  /\ c.level = Machine /\ c.mode \in Modes
  /\ epc[Machine] = c.pc /\ status.MPP = c.mode /\ status.MPIE = c.MIE
  /\ ~status.MIE
  /\ c.SIE = status.SIE

Frames ==
  \/ saved = <<>>
  \/ \E c : /\ saved = <<c>> /\ mode = Supervisor
            /\ SupervisorFrame(c) /\ c.MIE = status.MIE
  \/ \E d : /\ saved = <<d>> /\ mode = Machine
            /\ MachineFrame(d)
  \/ \E c, d : /\ saved = <<c, d>> /\ mode = Machine
               /\ SupervisorFrame(c) /\ MachineFrame(d)
               /\ d.mode = Supervisor /\ c.MIE = d.MIE

Status == [SIE : BOOLEAN, SPIE : BOOLEAN, SPP : {User, Supervisor},
           MIE : BOOLEAN, MPIE : BOOLEAN, MPP : Modes, MPRV : BOOLEAN]

HInv ==
  /\ mode \in Modes /\ status \in Status
  /\ epc = [l \in Levels |-> epc[l]]
  /\ cause \in [Levels -> BOOLEAN \X Nat]
  /\ Frames
  /\ CauseOfItsLevel

USE DEF User, Supervisor, Machine, Modes, Levels

-----------------------------------------------------------------------------
LEMMA SavedSequences ==
  ASSUME NEW c, NEW d
  PROVE  /\ Append(<<>>, c) = <<c>> /\ Append(<<c>>, d) = <<c, d>>
         /\ Len(<<>>) = 0 /\ Len(<<c>>) = 1 /\ Len(<<c, d>>) = 2
         /\ <<c>>[1] = c /\ <<c, d>>[2] = d
         /\ SubSeq(<<c>>, 1, 0) = <<>> /\ SubSeq(<<c, d>>, 1, 1) = <<c>>
         /\ <<c>> # <<>> /\ <<c, d>> # <<>>
<1>1. SubSeq(<<c>>, 1, 0) = <<>>
  OBVIOUS
<1>2. SubSeq(<<c, d>>, 1, 1) = <<c>>
  <2>1. SubSeq(<<c, d>>, 1, 1) = [i \in 1 .. 1 |-> <<c, d>>[i]]
    OBVIOUS
  <2>2. [i \in 1 .. 1 |-> <<c, d>>[i]] = <<c>>
    OBVIOUS
  <2> QED BY <2>1, <2>2, Zenon
<1>3. <<c>>[1] = c /\ <<c, d>>[2] = d
  OBVIOUS
<1>4. Append(<<>>, c) = <<c>>
  OBVIOUS
<1>5. Append(<<c>>, d) = <<c, d>>
  <2>1. <<c>> \in Seq({c, d}) /\ <<c, d>> \in Seq({c, d}) /\ d \in {c, d}
    OBVIOUS
  <2>2. /\ Append(<<c>>, d) \in Seq({c, d}) /\ Len(Append(<<c>>, d)) = 2
        /\ Append(<<c>>, d)[1] = c /\ Append(<<c>>, d)[2] = d
    BY <2>1, AppendProperties
  <2> DEFINE s == Append(<<c>>, d)
             t == <<c, d>>
  <2>3. Len(s) = Len(t) /\ \A i \in 1 .. Len(s) : s[i] = t[i]
    BY <2>2
  <2>4. s \in Seq({c, d}) /\ t \in Seq({c, d})
    BY <2>1, <2>2
  <2> HIDE DEF s, t
  <2>5. s = t
    BY <2>3, <2>4, SeqEqual
  <2> QED BY <2>5 DEF s, t
<1>6. Len(<<>>) = 0 /\ Len(<<c>>) = 1 /\ Len(<<c, d>>) = 2 /\ <<c>> # <<>> /\ <<c, d>> # <<>>
  OBVIOUS
<1> QED BY <1>1, <1>2, <1>3, <1>4, <1>5, <1>6

LEMMA OneFrame ==
  ASSUME NEW c, saved = <<c>>
  PROVE  Len(saved) = 1 /\ Innermost = c /\ Outer = <<>>
<1>1. Len(saved) = 1 /\ 1 - 1 = 0
  OBVIOUS
<1>2. Innermost = saved[1] /\ Outer = SubSeq(saved, 1, 0)
  BY <1>1 DEF Innermost, Outer
<1> QED BY <1>1, <1>2, SavedSequences

LEMMA TwoFrames ==
  ASSUME NEW c, NEW d, saved = <<c, d>>
  PROVE  Len(saved) = 2 /\ Innermost = d /\ Outer = <<c>>
<1>1. Len(saved) = 2 /\ 2 - 1 = 1
  OBVIOUS
<1>2. Innermost = saved[2] /\ Outer = SubSeq(saved, 1, 1)
  BY <1>1 DEF Innermost, Outer
<1> QED BY <1>1, <1>2, SavedSequences

(* A machine interrupt goes to M-mode and a supervisor's to S-mode.        *)
LEMMA PendingInterrupt ==
  ASSUME HInv, NEW m, NEW i \in check_pending_interrupts(m)
  PROVE  \/ /\ i \in {MSI, MTI, MEI} /\ status.MIE /\ Level(mideleg, i) = Machine
         \/ /\ i \in {SSI, STI, SEI} /\ status.SIE /\ mode # Machine
            /\ Level(mideleg, i) = Supervisor
<1>1. ASSUME NEW S, NEW j \in Highest(MachineOrder, S) PROVE j \in S \cap {MSI, MTI, MEI}
  BY <1>1 DEF Highest, MachineOrder
<1>2. ASSUME NEW S, NEW j \in Highest(SupervisorOrder, S) PROVE j \in S \cap {SSI, STI, SEI}
  BY <1>2 DEF Highest, SupervisorOrder
<1>3. mode \in Modes
  BY DEF HInv
<1>4. CASE status.MIE /\ i \in Highest(MachineOrder, IF mode = Machine THEN m \cap mie
                                                      ELSE (m \cap mie) \ mideleg)
  BY <1>1, <1>3, <1>4 DEF Level
<1>5. CASE mode # Machine /\ status.SIE /\ i \in Highest(SupervisorOrder, sip(m) \cap sie)
  BY <1>2, <1>3, <1>5 DEF Level, sie
<1> QED BY <1>4, <1>5 DEF check_pending_interrupts

-----------------------------------------------------------------------------
(* Entering and leaving *)

(* No trap goes to a level that is being handled.                          *)
LEMMA EnterStep ==
  ASSUME HInv, NEW l \in Levels, NEW b \in BOOLEAN, NEW n \in Nat, EnterTrap(l, <<b, n>>),
         mode <= l, ~Handling(l),
         b /\ l = Supervisor => n \in {SSI, STI, SEI},
         b /\ l = Machine => n \in {MSI, MTI, MEI}
  PROVE  HInv' /\ ~(Len(saved') < Len(saved))
<1>0. PICK new : new = Context(l)
  OBVIOUS
<1>1. /\ mode' = l /\ mode \in Modes /\ status \in Status
      /\ epc'[l] = pc /\ \A k \in Levels \ {l} : epc'[k] = epc[k]
      /\ epc' = [k \in Levels |-> epc'[k]]
      /\ saved' = Append(saved, new)
  BY <1>0, Zenon DEF EnterTrap, HInv
<1>2. cause' \in [Levels -> BOOLEAN \X Nat] /\ CauseOfItsLevel'
  <2>1. cause' = [cause EXCEPT ![l] = <<b, n>>] /\ cause \in [Levels -> BOOLEAN \X Nat]
    BY DEF EnterTrap, HInv
  <2>2. cause'[l] = <<b, n>> /\ \A k \in Levels \ {l} : cause'[k] = cause[k]
    BY <2>1
  <2> QED BY <2>1, <2>2 DEF HInv, CauseOfItsLevel
<1>3. /\ new.mode = mode /\ new.pc = pc /\ new.SIE = status.SIE /\ new.MIE = status.MIE
      /\ new.level = l
  BY <1>0 DEF Context
<1>4. CASE l = Supervisor
  <2>1. /\ status'.SPIE = status.SIE /\ ~status'.SIE /\ status'.SPP = mode
        /\ status'.MIE = status.MIE /\ status' \in Status
    <3>1. status' = [status EXCEPT !.SPIE = status.SIE, !.SIE = FALSE, !.SPP = mode]
      BY <1>4 DEF EnterTrap
    <3>2. mode \in {User, Supervisor}
      BY <1>1, <1>4
    <3> QED BY <1>1, <3>1, <3>2, Zenon DEF Status
  <2>2. saved = <<>>
    <3>1. ASSUME NEW c, saved = <<c>>, c.level = Supervisor PROVE FALSE
      BY <1>4, <3>1 DEF Handling
    <3>2. mode # Machine
      BY <1>4
    <3> QED BY <3>1, <3>2 DEF HInv, Frames, SupervisorFrame
  <2>3. saved' = <<new>> /\ Len(saved') = 1 /\ Len(saved) = 0
    BY <1>1, <2>2, SavedSequences
  <2>4. SupervisorFrame(new)' /\ new.MIE = status'.MIE
    BY <1>1, <1>3, <1>4, <2>1 DEF SupervisorFrame
  <2>5. Frames'
    BY <1>1, <1>4, <2>3, <2>4 DEF Frames
  <2> QED BY <1>1, <1>2, <2>1, <2>3, <2>5 DEF HInv
<1>5. CASE l = Machine
  <2>1. /\ status'.MPIE = status.MIE /\ ~status'.MIE /\ status'.MPP = mode
        /\ status'.SIE = status.SIE /\ status'.SPIE = status.SPIE /\ status'.SPP = status.SPP
        /\ status' \in Status
    <3>1. status' = [status EXCEPT !.MPIE = status.MIE, !.MIE = FALSE, !.MPP = mode]
      BY <1>5 DEF EnterTrap
    <3> QED BY <1>1, <3>1, Zenon DEF Status
  <2>2. MachineFrame(new)'
    BY <1>1, <1>3, <1>5, <2>1 DEF MachineFrame
  <2>3. CASE saved = <<>>
    <3>1. saved' = <<new>> /\ Len(saved') = 1 /\ Len(saved) = 0
      BY <1>1, <2>3, SavedSequences
    <3>2. Frames'
      BY <1>1, <1>5, <2>2, <3>1 DEF Frames
    <3> QED BY <1>1, <1>2, <2>1, <3>1, <3>2 DEF HInv
  <2>4. ASSUME NEW c, saved = <<c>>, mode = Supervisor, SupervisorFrame(c), c.MIE = status.MIE
        PROVE  HInv' /\ ~(Len(saved') < Len(saved))
    <3>1. saved' = <<c, new>> /\ Len(saved') = 2 /\ Len(saved) = 1
      BY <1>1, <2>4, SavedSequences
    <3>2. SupervisorFrame(c)'
      BY <1>1, <1>5, <2>1, <2>4 DEF SupervisorFrame
    <3>3. mode' = Machine /\ new.mode = Supervisor /\ c.MIE = new.MIE
      BY <1>1, <1>3, <1>5, <2>4
    <3>4. Frames'
      BY <2>2, <3>1, <3>2, <3>3 DEF Frames
    <3> QED BY <1>1, <1>2, <2>1, <3>1, <3>4 DEF HInv
  <2>5. ASSUME NEW d, saved = <<d>>, MachineFrame(d) PROVE FALSE
    BY <1>5, <2>5 DEF Handling, MachineFrame
  <2>6. ASSUME NEW c, NEW d, saved = <<c, d>>, MachineFrame(d) PROVE FALSE
    <3>1. 2 \in DOMAIN saved /\ saved[2] = d
      BY <2>6
    <3> QED BY <1>5, <2>6, <3>1 DEF Handling, MachineFrame
  <2> QED BY <2>3, <2>4, <2>5, <2>6 DEF HInv, Frames
<1> QED BY <1>4, <1>5

(* Exactly what the handler interrupted *)
Returned ==
  LET c == Innermost
  IN  /\ mode' = c.mode /\ pc' = c.pc
      /\ status'.SIE = c.SIE /\ status'.MIE = c.MIE

LEMMA SretStep ==
  ASSUME HInv, NEW m, NEW t, executeSRET(m, t)
  PROVE  HInv' /\ Returned /\ Len(saved') < Len(saved)
<1>1. PICK c : saved = <<c>> /\ SupervisorFrame(c) /\ c.MIE = status.MIE
  <2>1. mode = Supervisor /\ saved # <<>>
    BY DEF executeSRET, Leave, InHandler
  <2> QED BY <2>1 DEF HInv, Frames
<1>2. Innermost = c /\ Outer = <<>> /\ Len(saved) = 1 /\ Len(<<>>) = 0
  BY <1>1, OneFrame
<1>3. /\ saved' = <<>> /\ pc' = epc[Supervisor] /\ mode' = status.SPP
      /\ epc' = epc /\ cause' = cause
      /\ status' = [status EXCEPT !.SIE = status.SPIE, !.SPIE = TRUE, !.SPP = User]
  BY <1>2 DEF executeSRET, Leave
<1>4. status \in Status
  BY DEF HInv
<1>5. /\ status' \in Status /\ status'.SIE = status.SPIE /\ status'.MIE = status.MIE
  BY <1>3, <1>4, Zenon DEF Status
<1>6. Returned
  BY <1>1, <1>2, <1>3, <1>5 DEF Returned, SupervisorFrame
<1>7. mode' \in Modes
  BY <1>3, <1>4 DEF Status
<1>8. HInv'
  BY <1>3, <1>5, <1>7 DEF HInv, Frames, CauseOfItsLevel
<1> QED BY <1>2, <1>3, <1>6, <1>8

LEMMA MretStep ==
  ASSUME HInv, NEW m, NEW t, executeMRET(m, t)
  PROVE  HInv' /\ Returned /\ Len(saved') < Len(saved)
<1>1. mode = Machine /\ saved # <<>>
  BY DEF executeMRET, Leave, InHandler
<1>2. /\ saved' = Outer /\ pc' = epc[Machine] /\ mode' = status.MPP
      /\ epc' = epc /\ cause' = cause
      /\ status' = [status EXCEPT !.MIE = status.MPIE, !.MPIE = TRUE, !.MPP = User, !.MPRV = FALSE]
  BY DEF executeMRET, Leave
<1>3. status \in Status
  BY DEF HInv
<1>4. /\ status' \in Status /\ status'.SIE = status.SIE /\ status'.MIE = status.MPIE
      /\ status'.SPP = status.SPP /\ status'.SPIE = status.SPIE
  BY <1>2, <1>3, Zenon DEF Status
<1>5. mode' \in Modes /\ epc' = [l \in Levels |-> epc'[l]]
      /\ cause' \in [Levels -> BOOLEAN \X Nat] /\ CauseOfItsLevel'
  BY <1>2, <1>3 DEF Status, HInv, CauseOfItsLevel
<1>6. ASSUME NEW d, saved = <<d>>, MachineFrame(d)
      PROVE  HInv' /\ Returned /\ Len(saved') < Len(saved)
  <2>1. Innermost = d /\ saved' = <<>> /\ Len(saved) = 1 /\ Len(saved') = 0
    BY <1>2, <1>6, OneFrame
  <2>2. Returned
    BY <1>2, <1>4, <1>6, <2>1 DEF Returned, MachineFrame
  <2> QED BY <1>4, <1>5, <2>1, <2>2 DEF HInv, Frames
<1>7. ASSUME NEW c, NEW d, saved = <<c, d>>, SupervisorFrame(c), MachineFrame(d),
             d.mode = Supervisor, c.MIE = d.MIE
      PROVE  HInv' /\ Returned /\ Len(saved') < Len(saved)
  <2>1. Innermost = d /\ saved' = <<c>> /\ Len(saved) = 2 /\ Len(saved') = 1
    BY <1>2, <1>7, TwoFrames
  <2>2. Returned
    BY <1>2, <1>4, <1>7, <2>1 DEF Returned, MachineFrame
  <2>3. SupervisorFrame(c)' /\ c.MIE = status'.MIE /\ mode' = Supervisor
    BY <1>2, <1>4, <1>7 DEF SupervisorFrame, MachineFrame
  <2>4. Frames'
    BY <2>1, <2>3 DEF Frames
  <2> QED BY <1>4, <1>5, <2>1, <2>2, <2>4 DEF HInv
<1> QED BY <1>1, <1>6, <1>7 DEF HInv, Frames

(* An instruction that neither traps nor returns leaves the frames alone.  *)
LEMMA RetireStep ==
  ASSUME HInv, Retires,
         \/ status' = status
         \/ \E m, t : WriteStatus(m, t)
  PROVE  HInv' /\ Len(saved') = Len(saved)
<1>1. mode' = mode /\ epc' = epc /\ cause' = cause /\ saved' = saved
  BY DEF Retires
<1>2. CASE status' = status
  BY <1>1, <1>2 DEF HInv, Frames, SupervisorFrame, MachineFrame, CauseOfItsLevel
<1>3. ASSUME NEW m, NEW t, WriteStatus(m, t) PROVE HInv'
  <2>1. status \in Status
    BY DEF HInv
  <2>2. CASE /\ mode = Supervisor /\ ~Handling(Supervisor)
             /\ \E b \in BOOLEAN : status' = [status EXCEPT !.SIE = b]
    <3>1. saved = <<>>
      <4>1. ASSUME NEW c, saved = <<c>>, SupervisorFrame(c) PROVE FALSE
        BY <2>2, <4>1 DEF Handling, SupervisorFrame
      <4> QED BY <2>2, <4>1 DEF HInv, Frames
    <3>2. status' \in Status
      BY <2>1, <2>2 DEF Status
    <3> QED BY <1>1, <3>1, <3>2 DEF HInv, Frames, CauseOfItsLevel
  <2>3. CASE /\ mode = Machine /\ ~Handling(Machine)
             /\ \E b \in BOOLEAN : status' = [status EXCEPT !.MIE = b]
    <3>1. saved = <<>>
      <4>1. ASSUME NEW d, saved = <<d>>, MachineFrame(d) PROVE FALSE
        BY <2>3, <4>1 DEF Handling, MachineFrame
      <4>2. ASSUME NEW c, NEW d, saved = <<c, d>>, MachineFrame(d) PROVE FALSE
        <5>1. 2 \in DOMAIN saved /\ saved[2] = d
          BY <4>2
        <5> QED BY <2>3, <4>2, <5>1 DEF Handling, MachineFrame
      <4> QED BY <2>3, <4>1, <4>2 DEF HInv, Frames
    <3>2. status' \in Status
      BY <2>1, <2>3 DEF Status
    <3> QED BY <1>1, <3>1, <3>2 DEF HInv, Frames, CauseOfItsLevel
  <2>4. CASE status' = [status EXCEPT !.MPRV = TRUE]
    <3>1. /\ status' \in Status /\ status'.SIE = status.SIE /\ status'.MIE = status.MIE
          /\ status'.SPP = status.SPP /\ status'.SPIE = status.SPIE
          /\ status'.MPP = status.MPP /\ status'.MPIE = status.MPIE
      BY <2>1, <2>4, Zenon DEF Status
    <3>2. Frames'
      BY <1>1, <3>1 DEF HInv, Frames, SupervisorFrame, MachineFrame
    <3> QED BY <1>1, <3>1, <3>2 DEF HInv, CauseOfItsLevel
  <2> QED BY <1>3, <2>2, <2>3, <2>4 DEF WriteStatus
<1> QED BY <1>1, <1>2, <1>3

-----------------------------------------------------------------------------
(* The loop *)

(* What the properties say of a step *)
Exact == Len(saved') < Len(saved) => Returned

Confined ==
  mode # Machine /\ mode' # Machine =>
    /\ status'.MIE = status.MIE /\ status'.MPIE = status.MPIE
    /\ status'.MPP = status.MPP /\ status'.MPRV = status.MPRV
    /\ mie' \ mideleg = mie \ mideleg
    /\ mip' \ (mideleg \cup {MTI}) = mip \ (mideleg \cup {MTI})

LEMMA LengthOrdered ==
  ASSUME HInv
  PROVE  Len(saved) \in Nat
<1>1. ASSUME NEW c, NEW d
      PROVE  Len(<<>>) = 0 /\ Len(<<c>>) = 1 /\ Len(<<c, d>>) = 2
  BY SavedSequences
<1> QED BY <1>1 DEF HInv, Frames

LEMMA EnterConfined ==
  ASSUME HInv, NEW l \in Levels, NEW c, EnterTrap(l, c), l = Supervisor, mode # Machine
  PROVE  /\ status'.MIE = status.MIE /\ status'.MPIE = status.MPIE
         /\ status'.MPP = status.MPP /\ status'.MPRV = status.MPRV
         /\ mie' = mie
<1>1. status \in Status /\ mie' = mie
      /\ status' = [status EXCEPT !.SPIE = status.SIE, !.SIE = FALSE, !.SPP = mode]
  BY DEF EnterTrap, HInv
<1> QED BY <1>1 DEF Status

LEMMA TurnStep ==
  ASSUME HInv, Turn
  PROVE  HInv' /\ Exact /\ Confined
<1> DEFINE t       == IF left = 0 THEN 0 ELSE left - 1
           m       == IF t = 0 THEN mip \cup {MTI} ELSE mip \ {MTI}
           pending == check_pending_interrupts(m)
<1>1. m \ (mideleg \cup {MTI}) = mip \ (mideleg \cup {MTI})
  OBVIOUS
<1>2. mode \in Modes /\ status \in Status /\ Len(saved) \in Nat
  BY LengthOrdered DEF HInv
<1>3. \/ \E i \in pending : handle_interrupt(i) /\ mip' = m
      \/ Plain(m, t)
      \/ \E c \in Causes : Raise(c, m, t)
      \/ executeSRET(m, t)
      \/ executeMRET(m, t)
      \/ WriteStatus(m, t)
      \/ \E v \in SUBSET Lines : WriteEnable(v, m, t) \/ WritePending(v, m, t)
      \/ \E d \in 0 .. Interval : StoreMtimecmp(d, m)
  BY Zenon DEF Turn
<1> HIDE DEF t, m
<1>4. ASSUME NEW i \in pending, handle_interrupt(i), mip' = m
      PROVE  HInv' /\ Exact /\ Confined
  <2>1. EnterTrap(Level(mideleg, i), <<TRUE, i>>)
    BY <1>4 DEF handle_interrupt
  <2>2. CASE i \in {MSI, MTI, MEI} /\ status.MIE /\ Level(mideleg, i) = Machine
    <3>1. ~Handling(Machine)
      <4>1. \A d : ~MachineFrame(d)
        BY <2>2 DEF MachineFrame
      <4>2. saved = <<>> \/ \E c : saved = <<c>> /\ SupervisorFrame(c)
        BY <4>1 DEF HInv, Frames
      <4> QED BY <4>2 DEF Handling, SupervisorFrame
    <3>2. i \in Nat /\ mode <= Machine /\ EnterTrap(Machine, <<TRUE, i>>)
      BY <1>2, <2>1, <2>2 DEF MSI, MTI, MEI
    <3>3. HInv' /\ ~(Len(saved') < Len(saved))
      <4>1. PICK l \in Levels, b \in BOOLEAN : l = Machine /\ b = TRUE
        BY Zenon
      <4>2. /\ EnterTrap(l, <<b, i>>) /\ mode <= l /\ ~Handling(l) /\ i \in Nat
            /\ b /\ l = Supervisor => i \in {SSI, STI, SEI}
            /\ b /\ l = Machine => i \in {MSI, MTI, MEI}
        BY <2>2, <3>1, <3>2, <4>1
      <4> QED BY <4>2, EnterStep
    <3>4. mode' = Machine
      BY <3>2 DEF EnterTrap
    <3> QED BY <3>3, <3>4 DEF Exact, Confined
  <2>3. CASE /\ i \in {SSI, STI, SEI} /\ status.SIE /\ mode # Machine
             /\ Level(mideleg, i) = Supervisor
    <3>1. ~Handling(Supervisor)
      <4>1. \A c : ~SupervisorFrame(c)
        BY <2>3 DEF SupervisorFrame
      <4>2. saved = <<>>
        BY <2>3, <4>1 DEF HInv, Frames
      <4> QED BY <4>2 DEF Handling
    <3>2. i \in Nat /\ mode <= Supervisor /\ EnterTrap(Supervisor, <<TRUE, i>>)
      BY <1>2, <2>1, <2>3 DEF SSI, STI, SEI
    <3>3. HInv' /\ ~(Len(saved') < Len(saved))
      <4>1. PICK l \in Levels, b \in BOOLEAN : l = Supervisor /\ b = TRUE
        BY Zenon
      <4>2. /\ EnterTrap(l, <<b, i>>) /\ mode <= l /\ ~Handling(l) /\ i \in Nat
            /\ b /\ l = Supervisor => i \in {SSI, STI, SEI}
            /\ b /\ l = Machine => i \in {MSI, MTI, MEI}
        BY <2>3, <3>1, <3>2, <4>1
      <4> QED BY <4>2, EnterStep
    <3>4. Exact
      BY <3>3 DEF Exact
    <3>5. Confined
      BY <1>1, <1>4, <2>3, <3>2, EnterConfined DEF Confined
    <3> QED BY <3>3, <3>4, <3>5
  <2> QED BY <1>4, <2>2, <2>3, PendingInterrupt
<1>5. ASSUME NEW c \in Causes, Raise(c, m, t)
      PROVE  HInv' /\ Exact /\ Confined
  <2> DEFINE l == Level(medeleg, c)
  <2>1. /\ ~Handling(l) /\ EnterTrap(l, <<FALSE, c>>) /\ mip' = m
        /\ c \in Nat /\ l \in Levels /\ mode <= l
    <3>1. c \in Nat
      BY DEF Causes, IllegalInstruction, Breakpoint, Ecall
    <3>2. l \in Levels /\ mode <= l
      BY <1>2 DEF Level
    <3> QED BY <1>5, <3>1, <3>2 DEF Raise
  <2> HIDE DEF l
  <2>2. HInv' /\ ~(Len(saved') < Len(saved))
    BY <2>1, EnterStep, Zenon
  <2>3. Exact
    BY <2>2 DEF Exact
  <2>4. mode' = l
    BY <2>1 DEF EnterTrap
  <2>5. Confined
    BY <1>1, <2>1, <2>4, EnterConfined DEF Confined
  <2> QED BY <2>2, <2>3, <2>5
<1>6. CASE executeSRET(m, t)
  <2>1. /\ status' = [status EXCEPT !.SIE = status.SPIE, !.SPIE = TRUE, !.SPP = User]
        /\ mie' = mie /\ mip' = m
    BY <1>6 DEF executeSRET, Leave
  <2>2. Confined
    BY <1>1, <1>2, <2>1 DEF Confined, Status
  <2> QED BY <1>6, <2>2, SretStep DEF Exact
<1>7. CASE executeMRET(m, t)
  <2>1. Confined
    BY <1>7 DEF executeMRET, Leave, InHandler, Confined
  <2> QED BY <1>7, <2>1, MretStep DEF Exact
<1>8. CASE WriteStatus(m, t)
  <2>1. Retires /\ mie' = mie /\ mip' = m /\ mode' = mode
    BY <1>8 DEF WriteStatus, Retires
  <2>2. HInv' /\ Len(saved') = Len(saved)
    BY <1>8, <2>1, RetireStep
  <2>3. ASSUME mode # Machine PROVE \E b \in BOOLEAN : status' = [status EXCEPT !.SIE = b]
    BY <1>8, <2>3 DEF WriteStatus
  <2>4. Confined
    BY <1>1, <1>2, <2>1, <2>3 DEF Confined, Status
  <2> QED BY <1>2, <2>2, <2>4 DEF Exact
<1>9. ASSUME Retires, status' = status,
             mode # Machine => mie' \ mideleg = mie \ mideleg,
             mode # Machine => mip' \ (mideleg \cup {MTI}) = m \ (mideleg \cup {MTI})
      PROVE  HInv' /\ Exact /\ Confined
  <2>1. HInv' /\ Len(saved') = Len(saved)
    BY <1>9, RetireStep
  <2> QED BY <1>1, <1>2, <1>9, <2>1 DEF Exact, Confined
<1>10. CASE Plain(m, t)
  BY <1>9, <1>10 DEF Plain
<1>11. ASSUME NEW v, WriteEnable(v, m, t) PROVE HInv' /\ Exact /\ Confined
  <2>1. Retires /\ status' = status /\ mip' = m
        /\ (mode # Machine => mie' = (mie \ mideleg) \cup (v \cap mideleg))
    BY <1>11 DEF WriteEnable, Masked
  <2> QED BY <1>9, <2>1
<1>12. ASSUME NEW v, WritePending(v, m, t) PROVE HInv' /\ Exact /\ Confined
  <2>1. Retires /\ status' = status /\ mie' = mie
        /\ (mode # Machine => mip' = (m \ mideleg) \cup (v \cap mideleg))
    BY <1>12 DEF WritePending, Masked
  <2> QED BY <1>9, <2>1
<1>13. ASSUME NEW d, StoreMtimecmp(d, m) PROVE HInv' /\ Exact /\ Confined
  BY <1>9, <1>13 DEF StoreMtimecmp
<1> QED BY <1>3, <1>4, <1>5, <1>6, <1>7, <1>8, <1>10, <1>11, <1>12, <1>13

LEMMA InitHolds == Init => HInv
<1> SUFFICES ASSUME Init PROVE HInv
  OBVIOUS
<1>1. PICK first \in Modes, enable \in BOOLEAN :
        /\ status = [SIE |-> FALSE, SPIE |-> FALSE, SPP |-> User,
                     MIE |-> FALSE, MPIE |-> enable, MPP |-> first, MPRV |-> FALSE]
        /\ saved = <<[mode |-> first, pc |-> 0, SIE |-> FALSE, MIE |-> enable,
                      level |-> Machine]>>
  BY Zenon DEF Init
<1>2. status \in Status
  BY <1>1 DEF Status
<1>3. PICK d : d = [mode |-> first, pc |-> 0, SIE |-> FALSE, MIE |-> enable, level |-> Machine]
  BY Zenon
<1>4. epc[Machine] = 0 /\ mode = Machine
  BY DEF Init
<1>5. MachineFrame(d)
  BY <1>1, <1>3, <1>4 DEF MachineFrame
<1>6. Frames
  BY <1>1, <1>3, <1>4, <1>5 DEF Frames
<1> QED BY <1>2, <1>6, Zenon DEF Init, HInv, CauseOfItsLevel

LEMMA NextStep == HInv /\ [Next]_vars => HInv' /\ ((Exact /\ Confined) \/ UNCHANGED vars)
<1>1. HInv /\ UNCHANGED vars => HInv'
  BY DEF vars, HInv, Frames, SupervisorFrame, MachineFrame, CauseOfItsLevel
<1> QED BY <1>1, TurnStep DEF Next

(* At every moment of every execution the registers of each level hold     *)
(* what the running handlers interrupted.                                  *)
THEOREM HandlersFindTheirContexts == Spec => []HInv
<1>1. HInv /\ [Next]_vars => HInv'
  BY NextStep
<1> QED BY InitHolds, <1>1, PTL DEF Spec

(* Handlers nest by level under every delegation: an interrupt or an       *)
(* exception never enters a level whose handler is running, so EnterTrap   *)
(* overwrites no register that a handler still needs.                      *)
THEOREM HandlersAlwaysNest == Spec => []HandlersNest
<1>1. HInv => HandlersNest
  <2> SUFFICES ASSUME HInv PROVE HandlersNest
    OBVIOUS
  <2>1. CASE saved = <<>>
    BY <2>1 DEF HandlersNest
  <2>2. ASSUME NEW c, saved = <<c>>, SupervisorFrame(c) PROVE HandlersNest
    <3>1. c.mode <= c.level
      BY <2>2 DEF SupervisorFrame
    <3> QED BY <2>2, <3>1 DEF HandlersNest
  <2>3. ASSUME NEW d, saved = <<d>>, MachineFrame(d) PROVE HandlersNest
    <3>1. d.mode <= d.level
      BY <2>3 DEF MachineFrame
    <3> QED BY <2>3, <3>1 DEF HandlersNest
  <2>4. ASSUME NEW c, NEW d, saved = <<c, d>>, SupervisorFrame(c), MachineFrame(d),
               d.mode = Supervisor
        PROVE  HandlersNest
    <3>1. c.mode <= c.level /\ d.mode <= d.level /\ d.mode = c.level /\ d.mode < d.level
      BY <2>4 DEF SupervisorFrame, MachineFrame
    <3>2. /\ DOMAIN saved = {1, 2} /\ 2 .. Len(saved) = {2} /\ 2 - 1 = 1
          /\ saved[1] = c /\ saved[2] = d
      BY <2>4
    <3> QED BY <3>1, <3>2 DEF HandlersNest
  <2> QED BY <2>1, <2>2, <2>3, <2>4 DEF HInv, Frames
<1> QED BY <1>1, HandlersFindTheirContexts, PTL

(* sret and mret restore the mode, the address and both enables of what    *)
(* was interrupted, under every delegation and any nesting.                *)
THEOREM ReturnsAreExact == Spec => ReturnsExactly
<1>1. HInv /\ [Next]_vars =>
        [Len(saved') < Len(saved) =>
           LET c == Innermost
           IN  /\ mode' = c.mode /\ pc' = c.pc
               /\ status'.SIE = c.SIE /\ status'.MIE = c.MIE]_vars
  BY NextStep DEF Exact, Returned
<1> QED BY <1>1, HandlersFindTheirContexts, PTL DEF Spec, ReturnsExactly

(* scause only ever holds a supervisor's interrupt and mcause a machine's, *)
(* whatever is delegated.                                                  *)
THEOREM CausesKeepTheirLevel == Spec => []CauseOfItsLevel
<1>1. HInv => CauseOfItsLevel
  BY DEF HInv
<1> QED BY <1>1, HandlersFindTheirContexts, PTL

(* Below M-mode no instruction and no delegated trap changes the machine's *)
(* fields of the status, or an enable or pending bit that is not           *)
(* delegated.                                                              *)
THEOREM SupervisorIsConfined == Spec => SupervisorConfined
<1>1. HInv /\ [Next]_vars =>
        [mode # Machine /\ mode' # Machine =>
           /\ status'.MIE = status.MIE /\ status'.MPIE = status.MPIE
           /\ status'.MPP = status.MPP /\ status'.MPRV = status.MPRV
           /\ mie' \ mideleg = mie \ mideleg
           /\ mip' \ (mideleg \cup {MTI}) = mip \ (mideleg \cup {MTI})]_vars
  BY NextStep DEF Confined
<1> QED BY <1>1, HandlersFindTheirContexts, PTL DEF Spec, SupervisorConfined

-----------------------------------------------------------------------------
(* Uart: the inductive invariant *)

Values == Bytes \cup {Nothing}

(* While the main thread polls, nobody has cleared stdin_running; it reads *)
(* the register only when it is full; the listener fills it only when it   *)
(* is empty, and reads stdin only after poll has found a byte.             *)
UInv ==
  /\ stdin \in Seq(Values) /\ byte \in Values /\ rhr \in Values /\ rx \in BOOLEAN
  /\ hpc \in Polling => running
  /\ hpc = "rhr" => rx
  /\ lpc = "store" /\ running => ~rx
  /\ lpc \in {"retest", "read"} => stdin # <<>>

-----------------------------------------------------------------------------
LEMMA InitUInv == InitUart => UInv
<1>1. Input \in Seq(Values)
  <2>1. Bytes \subseteq Values
    BY DEF Values
  <2> QED BY <2>1, InputAssumption
<1> QED BY <1>1, Zenon DEF InitUart, UInv, Values, Polling

(* The listener's steps *)
LEMMA ListenerKeeps == UInv /\ (Listener \/ EndOfFile \/ PollInterrupted \/ SpuriousWakeup) => UInv'
<1> SUFFICES ASSUME UInv, Listener \/ EndOfFile \/ PollInterrupted \/ SpuriousWakeup
             PROVE  UInv'
  OBVIOUS
<1> USE DEF ListenerAt, mainVars
<1>1. CASE ReadByte
  <2>1. stdin # <<>> /\ stdin \in Seq(Values)
    BY <1>1 DEF ReadByte, UInv
  <2>2. Head(stdin) \in Values /\ Tail(stdin) \in Seq(Values)
    BY <2>1, HeadTailProperties
  <2> QED BY <1>1, <2>2 DEF ReadByte, UInv
<1>2. CASE CheckRegister
  BY <1>2 DEF CheckRegister, MustWait, UInv
<1>3. CASE StoreByte
  BY <1>3, Zenon DEF StoreByte, UInv
<1>4. CASE TestRunning
  BY <1>4 DEF TestRunning, UInv
<1>5. CASE PollReady
  BY <1>5 DEF PollReady, UInv
<1>6. CASE PollTimeout \/ Lock \/ Wait \/ EndOfFile \/ PollInterrupted \/ SpuriousWakeup
  BY <1>6 DEF PollTimeout, Lock, Wait, EndOfFile, PollInterrupted, SpuriousWakeup, UInv
<1> QED BY <1>1, <1>2, <1>3, <1>4, <1>5, <1>6 DEF Listener

LEMMA MainKeeps == UInv /\ (Main \/ Signal \/ LeaveLoop) => UInv'
<1> SUFFICES ASSUME UInv, Main \/ Signal \/ LeaveLoop
             PROVE  UInv'
  OBVIOUS
<1> USE DEF listenerVars, mainVars, UInv, Polling
<1>1. CASE LoadLSR
  BY <1>1 DEF LoadLSR
<1>2. CASE LoadRHR
  BY <1>2, Zenon DEF LoadRHR, Notify
<1>3. CASE ClearRunning
  BY <1>3 DEF ClearRunning
<1>4. CASE NotifyAll
  BY <1>4 DEF NotifyAll, Notify
<1>5. CASE Join \/ Signal \/ LeaveLoop
  BY <1>5 DEF Join, Signal, LeaveLoop
<1> QED BY <1>1, <1>2, <1>3, <1>4, <1>5 DEF Main

THEOREM UartInvariant == UartSpec => []UInv
<1>1. UInv /\ [NextUart]_uartVars => UInv'
  <2>1. UInv /\ UNCHANGED uartVars => UInv'
    BY DEF uartVars, listenerVars, mainVars, UInv
  <2> QED BY <2>1, ListenerKeeps, MainKeeps DEF NextUart
<1> QED BY InitUInv, <1>1, PTL DEF UartSpec

-----------------------------------------------------------------------------
(* The bytes on their way: in the register, with the listener, in stdin    *)
InRegister == IF rx THEN <<rhr>> ELSE <<>>
WithListener == IF Taken THEN <<byte>> ELSE <<>>

LEMMA Concatenations ==
  ASSUME NEW S, NEW s \in Seq(S), NEW t \in Seq(S), NEW x \in S
  PROVE  /\ <<>> \o s = s /\ s \o <<>> = s
         /\ s \o t \in Seq(S)
         /\ <<x>> \o s \in Seq(S) /\ <<x>> \o s # <<>>
         /\ Head(<<x>> \o s) = x /\ Tail(<<x>> \o s) = s
         /\ (<<x>> \o s) \o t = <<x>> \o (s \o t)
<1>1. <<x>> \in Seq(S)
  OBVIOUS
<1>2. <<>> \o s = s /\ s \o <<>> = s
  BY ConcatEmptySeq
<1>3. s \o t \in Seq(S) /\ <<x>> \o s \in Seq(S) /\ Len(<<x>> \o s) = 1 + Len(s)
  BY <1>1, ConcatProperties
<1>4. <<x>> \o s # <<>>
  BY <1>3
<1>5. (<<x>> \o s) \o t = <<x>> \o (s \o t)
  BY <1>1, ConcatAssociative
<1>6. Head(<<x>> \o s) = x
  BY <1>1, <1>3, <1>4, ConcatProperties, HeadTailProperties
<1>7. Tail(<<x>> \o s) = s
  <2>1. /\ Tail(<<x>> \o s) \in Seq(S) /\ Len(Tail(<<x>> \o s)) = Len(s)
        /\ \A i \in 1 .. Len(s) : Tail(<<x>> \o s)[i] = (<<x>> \o s)[i + 1]
    BY <1>3, <1>4, HeadTailProperties
  <2>2. \A i \in 1 .. Len(s) : (<<x>> \o s)[i + 1] = s[i]
    BY <1>1, <1>3, ConcatProperties
  <2> DEFINE r == Tail(<<x>> \o s)
  <2>3. r \in Seq(S) /\ Len(r) = Len(s) /\ \A i \in 1 .. Len(r) : r[i] = s[i]
    BY <2>1, <2>2
  <2> HIDE DEF r
  <2>4. r = s
    BY <2>3, SeqEqual
  <2> QED BY <2>4 DEF r
<1> QED BY <1>2, <1>3, <1>4, <1>5, <1>6, <1>7

LEMMA HeadBackOn ==
  ASSUME NEW S, NEW s \in Seq(S), s # <<>>
  PROVE  Head(s) \in S /\ Tail(s) \in Seq(S) /\ <<Head(s)>> \o Tail(s) = s
<1>1. Head(s) \in S /\ Tail(s) \in Seq(S)
  BY HeadTailProperties
<1>2. <<Head(s)>> \o Tail(s) = s
  <2> DEFINE h == <<Head(s)>>
             r == h \o Tail(s)
  <2>1. h \in Seq(S) /\ Len(h) = 1 /\ h[1] = Head(s)
    BY <1>1
  <2>2. /\ Len(Tail(s)) = Len(s) - 1 /\ s[1] = Head(s)
        /\ \A i \in 1 .. Len(Tail(s)) : Tail(s)[i] = s[i + 1]
    BY HeadTailProperties
  <2> HIDE DEF h
  <2>3. /\ r \in Seq(S) /\ Len(r) = Len(s)
        /\ \A i \in 1 .. Len(r) : r[i] = IF i <= 1 THEN h[i] ELSE Tail(s)[i - 1]
    <3> DEFINE u == Tail(s)
    <3>1. u \in Seq(S) /\ Len(s) \in Nat /\ Len(u) = Len(s) - 1
      BY <1>1, <2>2
    <3>2. r = h \o u
      OBVIOUS
    <3> HIDE DEF u, r
    <3>3. /\ r \in Seq(S) /\ Len(r) = Len(h) + Len(u)
          /\ \A i \in 1 .. Len(h) + Len(u) : r[i] = IF i <= Len(h) THEN h[i] ELSE u[i - Len(h)]
      BY <2>1, <3>1, <3>2, ConcatProperties, Zenon
    <3>4. Len(h) + Len(u) = Len(s)
      BY <2>1, <3>1
    <3> QED BY <2>1, <3>3, <3>4 DEF u
  <2> HIDE DEF r
  <2>4. \A i \in 1 .. Len(r) : r[i] = s[i]
    BY <2>1, <2>2, <2>3
  <2>5. r = s
    BY <2>3, <2>4, SeqEqual
  <2> QED BY <2>5 DEF h, r
<1> QED BY <1>1, <1>2

-----------------------------------------------------------------------------
(* The refinement *)

LEMMA InFlightTyped ==
  ASSUME UInv
  PROVE  /\ InRegister \in Seq(Values) /\ WithListener \in Seq(Values)
         /\ InRegister \o WithListener \in Seq(Values)
         /\ InFlight = (InRegister \o WithListener) \o stdin
<1>1. InRegister \in Seq(Values) /\ WithListener \in Seq(Values)
  BY DEF InRegister, WithListener, UInv
<1>2. InFlight = (InRegister \o WithListener) \o stdin
  BY DEF InFlight, InRegister, WithListener
<1> QED BY <1>1, <1>2, Concatenations, ConcatProperties

(* What the listener takes from stdin or puts into the register stays on   *)
(* its way, in the same order.                                             *)
LEMMA ListenerKeepsOrder ==
  ASSUME UInv, UInv', hpc \in Polling,
         Listener \/ EndOfFile \/ PollInterrupted \/ SpuriousWakeup
  PROVE  InFlight' = InFlight
<1> USE DEF ListenerAt
<1>1. CASE ReadByte
  <2>1. /\ stdin # <<>> /\ stdin \in Seq(Values) /\ byte' = Head(stdin) /\ stdin' = Tail(stdin)
        /\ InRegister' = InRegister /\ InRegister \in Seq(Values)
    BY <1>1, InFlightTyped DEF ReadByte, UInv, InRegister
  <2>2. WithListener = <<>> /\ WithListener' = <<byte'>>
    BY <1>1 DEF ReadByte, WithListener, Taken, LockHeld
  <2>3. InFlight = InRegister \o stdin
    <3>1. InRegister \o <<>> = InRegister
      BY <2>1, ConcatEmptySeq
    <3> QED BY <2>2, <3>1, InFlightTyped
  <2>4. byte' \in Values /\ stdin' \in Seq(Values) /\ <<byte'>> \o stdin' = stdin
    BY <2>1, HeadBackOn
  <2>5. InFlight' = (InRegister \o <<byte'>>) \o stdin'
    BY <2>1, <2>2, Zenon DEF InFlight, InRegister, WithListener
  <2>6. (InRegister \o <<byte'>>) \o stdin' = InRegister \o (<<byte'>> \o stdin')
    <3>1. <<byte'>> \in Seq(Values)
      BY <2>4
    <3> QED BY <2>1, <2>4, <3>1, ConcatAssociative
  <2> QED BY <2>3, <2>4, <2>5, <2>6, Zenon
<1>2. CASE StoreByte
  <2>1. /\ running /\ ~rx /\ rx' = TRUE /\ rhr' = byte /\ stdin' = stdin /\ lpc = "store"
        /\ lpc' = "test"
    BY <1>2 DEF StoreByte, UInv
  <2>2. /\ InRegister = <<>> /\ WithListener = <<byte>>
        /\ InRegister' = <<byte>> /\ WithListener' = <<>>
    BY <2>1 DEF InRegister, WithListener, Taken, LockHeld
  <2>3. <<>> \o <<byte>> = <<byte>> /\ <<byte>> \o <<>> = <<byte>>
    <3>1. <<byte>> \in Seq(Values)
      BY DEF UInv
    <3> QED BY <3>1, ConcatEmptySeq
  <2> QED BY <2>1, <2>2, <2>3 DEF InFlight, InRegister, WithListener
<1>3. ASSUME UNCHANGED <<stdin, byte, rhr, rx>>, Taken' = Taken PROVE InFlight' = InFlight
  BY <1>3 DEF InFlight
<1>4. CASE TestRunning \/ PollReady \/ PollTimeout \/ Lock \/ CheckRegister \/ Wait
           \/ EndOfFile \/ PollInterrupted \/ SpuriousWakeup
  <2>1. UNCHANGED <<stdin, byte, rhr, rx>>
    BY <1>4 DEF TestRunning, PollReady, PollTimeout, Lock, CheckRegister, Wait,
         EndOfFile, PollInterrupted, SpuriousWakeup
  <2>2. Taken' = Taken
    BY <1>4 DEF TestRunning, PollReady, PollTimeout, Lock, CheckRegister, Wait,
         EndOfFile, PollInterrupted, SpuriousWakeup, Taken, LockHeld
  <2> QED BY <1>3, <2>1, <2>2
<1> QED BY <1>1, <1>2, <1>4 DEF Listener

(* A load of the register delivers the first of the bytes on their way.    *)
LEMMA LoadDelivers ==
  ASSUME UInv, LoadRHR
  PROVE  /\ InFlight # <<>> /\ InFlight' = Tail(InFlight)
         /\ got' = Append(got, Head(InFlight))
<1> DEFINE rest == WithListener \o stdin
<1>1. /\ rx /\ ~rx' /\ rhr \in Values /\ stdin \in Seq(Values) /\ WithListener \in Seq(Values)
      /\ stdin' = stdin /\ byte' = byte
  BY InFlightTyped DEF LoadRHR, UInv
<1>2. Taken' = Taken
  BY DEF LoadRHR, Notify, Taken, LockHeld
<1>3. rest \in Seq(Values)
  BY <1>1, ConcatProperties
<1>4. InFlight = <<rhr>> \o rest
  <2>1. InFlight = (<<rhr>> \o WithListener) \o stdin
    BY <1>1, InFlightTyped DEF InRegister
  <2> QED BY <1>1, <2>1, Concatenations
<1>5. InFlight' = rest
  <2>1. InFlight' = (<<>> \o WithListener) \o stdin
    BY <1>1, <1>2 DEF InFlight, WithListener
  <2>2. <<>> \o WithListener = WithListener
    BY <1>1, ConcatEmptySeq
  <2> QED BY <2>1, <2>2
<1> HIDE DEF rest
<1>6. <<rhr>> \o rest # <<>> /\ Head(<<rhr>> \o rest) = rhr /\ Tail(<<rhr>> \o rest) = rest
  BY <1>1, <1>3, Concatenations
<1> QED BY <1>4, <1>5, <1>6 DEF LoadRHR

LEMMA StepRefines ==
  ASSUME UInv, UInv', [NextUart]_uartVars
  PROVE  [Console!Next]_<<IF hpc \in Polling THEN InFlight ELSE <<>>, got, hpc \in Polling>>
<1>1. CASE Listener \/ EndOfFile \/ PollInterrupted \/ SpuriousWakeup
  <2>1. hpc' = hpc /\ got' = got
    BY <1>1 DEF Listener, EndOfFile, PollInterrupted, SpuriousWakeup, TestRunning, PollReady,
         PollTimeout, ReadByte, Lock, CheckRegister, Wait, StoreByte, mainVars
  <2>2. hpc \in Polling => InFlight' = InFlight
    BY <1>1, ListenerKeepsOrder
  <2> QED BY <2>1, <2>2
<1>2. CASE LoadRHR
  <2>1. hpc \in Polling /\ hpc' \in Polling
    BY <1>2 DEF LoadRHR, Polling
  <2>2. Console!Deliver
    BY <1>2, <2>1, LoadDelivers DEF Console!Deliver
  <2> QED BY <2>2 DEF Console!Next
<1>3. CASE LeaveLoop
  <2>1. hpc \in Polling /\ hpc' \notin Polling /\ got' = got
    BY <1>3 DEF LeaveLoop, Polling
  <2>2. Console!SwitchOff
    BY <2>1 DEF Console!SwitchOff
  <2> QED BY <2>2 DEF Console!Next
<1>4. CASE LoadLSR \/ Signal \/ UNCHANGED uartVars
  <2>1. UNCHANGED <<stdin, lpc, byte, rhr, rx, got>> /\ (hpc' \in Polling) = (hpc \in Polling)
    BY <1>4 DEF LoadLSR, Signal, uartVars, listenerVars, mainVars, Polling
  <2>2. InFlight' = InFlight
    BY <2>1 DEF InFlight, Taken
  <2> QED BY <2>1, <2>2
<1>5. CASE ClearRunning \/ NotifyAll \/ Join
  BY <1>5 DEF ClearRunning, NotifyAll, Join, Polling
<1> QED BY <1>1, <1>2, <1>3, <1>4, <1>5 DEF NextUart, Main

(* For every input, the listener thread, the one-byte register and the     *)
(* polling driver implement the stream: each byte typed arrives once and   *)
(* in order, however the two threads interleave and whenever the machine   *)
(* is switched off.                                                        *)
THEOREM ConsoleIsAStream == UartSpec => ImplementsStream
<1>1. InitUart => Console!Init
  <2> SUFFICES ASSUME InitUart PROVE Console!Init
    OBVIOUS
  <2>1. hpc \in Polling /\ got = <<>> /\ stdin = Input
    BY DEF InitUart, Polling
  <2>2. InFlight = (<<>> \o <<>>) \o Input
    BY DEF InitUart, InFlight, Taken, LockHeld
  <2>3. InFlight = Input
    BY <2>2, InputAssumption, ConcatEmptySeq
  <2> QED BY <2>1, <2>3 DEF Console!Init
<1>2. UInv /\ UInv' /\ [NextUart]_uartVars
        => [Console!Next]_<<IF hpc \in Polling THEN InFlight ELSE <<>>, got, hpc \in Polling>>
  BY StepRefines
<1> QED BY <1>1, <1>2, UartInvariant, PTL DEF UartSpec, ImplementsStream, Console!Spec
=============================================================================
