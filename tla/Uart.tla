-------------------------------- MODULE Uart --------------------------------
(***************************************************************************)
(* Console input: the UART of the emulator (cemu/src/uart.cpp), whose      *)
(* listener thread moves bytes from stdin into the one-byte receive        *)
(* register; the emulator's main thread (cemu/src/main.cpp), which runs    *)
(* the guest, here inside the polling loop of uart_getc (os/kernel/uart.c, *)
(* platform_uart.c), and at the end destroys the device.                   *)
(*                                                                         *)
(* Only the listener keeps mtx over several steps; a load of the hart is   *)
(* one step that needs mtx to be free.  The interrupt flag of the device   *)
(* is left out: no code reads it.                                          *)
(***************************************************************************)
EXTENDS Integers, Sequences

CONSTANT Input       \* the bytes typed, a finite sequence

VARIABLES stdin,     \* bytes the listener has not read yet
          lpc,       \* where the listener is
          byte,      \* its local variable
          rhr, rx,   \* uart[UART_RHR] and the RX bit of uart[UART_LSR]
          running,   \* stdin_running
          hpc,       \* where the main thread is
          got,       \* bytes uart_getc has returned
          stop_requested

listenerVars == <<stdin, lpc, byte>>
mainVars == <<hpc, got>>
uartVars == <<listenerVars, rhr, rx, running, mainVars, stop_requested>>

Bytes == {Input[i] : i \in 1 .. Len(Input)}
ASSUME InputAssumption == Input \in Seq(Bytes)

Nothing == "none"                       \* a register nothing was read into
LockHeld == {"check", "sleep", "store"}
ListenerPlaces == {"test", "poll", "retest", "read", "lock", "wait", "done"} \cup LockHeld
Polling == {"lsr", "rhr"}
MainPlaces == Polling \cup {"stop", "notify", "join", "joined"}

MtxFree == lpc \notin LockHeld

InitUart ==                                 \* after start_stdin_listener
  /\ stdin = Input /\ lpc = "test" /\ byte = Nothing
  /\ rhr = Nothing /\ rx = FALSE
  /\ running = TRUE
  /\ hpc = "lsr" /\ got = <<>>
  /\ stop_requested = FALSE

-----------------------------------------------------------------------------
(* Uart::stdin_listener *)

ListenerAt(p, q) == lpc = p /\ lpc' = q

TestRunning ==                          \* both tests before the read
  /\ \/ ListenerAt("test", IF running THEN "poll" ELSE "done")
     \/ ListenerAt("retest", IF running THEN "read" ELSE "done")
  /\ UNCHANGED <<stdin, byte, rhr, rx, running, mainVars, stop_requested>>

PollReady ==
  /\ stdin # <<>>
  /\ ListenerAt("poll", "retest")
  /\ UNCHANGED <<stdin, byte, rhr, rx, running, mainVars, stop_requested>>

(* poll finds end of file, which read then reports *)
EndOfFile ==
  /\ stdin = <<>>
  /\ ListenerAt("poll", "done")
  /\ UNCHANGED <<stdin, byte, rhr, rx, running, mainVars, stop_requested>>

PollTimeout ==
  /\ stdin = <<>>
  /\ ListenerAt("poll", "test")
  /\ UNCHANGED <<stdin, byte, rhr, rx, running, mainVars, stop_requested>>

PollInterrupted ==                      \* EINTR: the signal went to this thread
  /\ stop_requested
  /\ ListenerAt("poll", "done")
  /\ UNCHANGED <<stdin, byte, rhr, rx, running, mainVars, stop_requested>>

ReadByte ==
  /\ ListenerAt("read", "lock")
  /\ byte' = Head(stdin) /\ stdin' = Tail(stdin)
  /\ UNCHANGED <<rhr, rx, running, mainVars, stop_requested>>

Lock ==                                 \* no other thread keeps mtx
  /\ ListenerAt("lock", "check")
  /\ UNCHANGED <<stdin, byte, rhr, rx, running, mainVars, stop_requested>>

MustWait_RxOnly == rx                   \* mutant: the loop ignores stdin_running
MustWait_Never == FALSE                 \* mutant: a full register is overwritten
MustWait == running /\ rx

CheckRegister ==
  /\ ListenerAt("check", IF MustWait THEN "sleep" ELSE "store")
  /\ UNCHANGED <<stdin, byte, rhr, rx, running, mainVars, stop_requested>>

Wait ==                                 \* cv.wait gives mtx back and sleeps
  /\ ListenerAt("sleep", "wait")
  /\ UNCHANGED <<stdin, byte, rhr, rx, running, mainVars, stop_requested>>

SpuriousWakeup ==
  /\ ListenerAt("wait", "lock")
  /\ UNCHANGED <<stdin, byte, rhr, rx, running, mainVars, stop_requested>>

StoreByte ==
  /\ ListenerAt("store", IF running THEN "test" ELSE "done")
  /\ IF running THEN rhr' = byte /\ rx' = TRUE ELSE UNCHANGED <<rhr, rx>>
  /\ UNCHANGED <<stdin, byte, running, mainVars, stop_requested>>

Listener ==
  \/ TestRunning \/ PollReady \/ PollTimeout \/ ReadByte
  \/ Lock \/ CheckRegister \/ Wait \/ StoreByte

-----------------------------------------------------------------------------
(* The main thread: uart_getc on the hart, then Uart::~Uart *)

Notify_None == lpc                      \* mutant: nobody is notified
Notify == IF lpc = "wait" THEN "lock" ELSE lpc

LoadLSR ==                              \* polls again while RX is clear
  /\ hpc = "lsr" /\ MtxFree
  /\ rx /\ hpc' = "rhr"
  /\ UNCHANGED <<listenerVars, rhr, rx, running, got, stop_requested>>

LoadRHR ==
  /\ hpc = "rhr" /\ MtxFree
  /\ hpc' = "lsr"
  /\ lpc' = Notify
  /\ rx' = FALSE
  /\ got' = Append(got, rhr)
  /\ UNCHANGED <<stdin, byte, rhr, running, stop_requested>>

Signal ==                               \* request_stop
  /\ ~stop_requested /\ stop_requested' = TRUE
  /\ UNCHANGED <<listenerVars, rhr, rx, running, mainVars>>

(* The loop of main ends: stop_requested was seen, or a store to           *)
(* TEST_FINISH has halted the bus.                                         *)
LeaveLoop ==
  /\ hpc \in Polling /\ hpc' = "stop"
  /\ UNCHANGED <<listenerVars, rhr, rx, running, got, stop_requested>>

ClearRunning ==
  /\ hpc = "stop" /\ hpc' = "notify"
  /\ running' = FALSE
  /\ UNCHANGED <<listenerVars, rhr, rx, got, stop_requested>>

NotifyAll ==                            \* without mtx
  /\ hpc = "notify" /\ hpc' = "join"
  /\ lpc' = Notify
  /\ UNCHANGED <<stdin, byte, rhr, rx, running, got, stop_requested>>

Join ==
  /\ hpc = "join" /\ lpc = "done"
  /\ hpc' = "joined"
  /\ UNCHANGED <<listenerVars, rhr, rx, running, got, stop_requested>>

Main == LoadLSR \/ LoadRHR \/ ClearRunning \/ NotifyAll \/ Join

NextUart ==
  \/ Listener \/ EndOfFile \/ PollInterrupted \/ SpuriousWakeup
  \/ Main \/ Signal \/ LeaveLoop

(* Both threads are scheduled by the host.  Nothing says that the machine  *)
(* is ever switched off, that a wakeup is ever spurious, that stdin ends   *)
(* or that a signal comes; once one has come the loop of main ends.  The   *)
(* main thread gets mtx if it is free again and again.                     *)
UartSpec ==
  /\ InitUart /\ [][NextUart]_uartVars
  /\ WF_uartVars(Listener) /\ SF_uartVars(Main) /\ WF_uartVars(stop_requested /\ LeaveLoop)

-----------------------------------------------------------------------------
UartTypeOK ==
  /\ lpc \in ListenerPlaces /\ hpc \in MainPlaces
  /\ byte \in Bytes \cup {Nothing} /\ rhr \in Bytes \cup {Nothing}
  /\ {rx, running, stop_requested} \subseteq BOOLEAN
  /\ {stdin, got} \subseteq Seq(Bytes) /\ Len(stdin) + Len(got) <= Len(Input)

(* The device and its driver implement a stream: with a register of one    *)
(* byte, a flag tested and cleared by one thread and set by the other, no  *)
(* byte is lost, repeated or reordered (load, stdin_listener, uart_getc).  *)
Taken == lpc \in LockHeld \cup {"lock", "wait"}
InFlight == (IF rx THEN <<rhr>> ELSE <<>>) \o (IF Taken THEN <<byte>> ELSE <<>>) \o stdin

Console == INSTANCE Stream WITH
  open <- hpc \in Polling,
  left <- IF hpc \in Polling THEN InFlight ELSE <<>>

ImplementsStream == Console!Spec

(* A byte typed reaches a program that keeps reading, unless the machine   *)
(* is switched off: no notification of load is lost to the listener that   *)
(* waits for the register.                                                 *)
EveryByteArrives == <>(got = Input \/ hpc \notin Polling)

(* Switching off ends: the listener sees stdin_running and the destructor  *)
(* joins it, if it was not between its test and cv.wait, or asleep again,  *)
(* when the destructor notified.                                           *)
JoinsAwakeListener ==
  hpc = "join" /\ lpc \notin {"sleep", "wait"} ~> hpc = "joined"

(* What the development log promises without that condition: the listener  *)
(* ends soon after stdin_running is cleared.                               *)
ListenerStops == ~running ~> lpc = "done"
=============================================================================
