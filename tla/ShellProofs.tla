---------------------------- MODULE ShellProofs -----------------------------
(***************************************************************************)
(* Every step of the shell and of its programs is a call of Fds or leaves  *)
(* the open files alone: what holds of Fds holds of the shell.             *)
(***************************************************************************)
EXTENDS Shell, FdsProofs

(* What a process redirects are names.                                     *)
Line == {c \in Commands \cup {NoCommand} : {c.input, c.output} \subseteq Names \cup {NoName}}
NamesGiven == command \in [Pids -> Line]

(* What each call of the shell is to Fds. *)
LEMMA MainStep ==
  Main => [Next]_vars
<1> SUFFICES ASSUME Main PROVE [Next]_vars
  OBVIOUS
<1>1. /\ ShellPid \in Pids /\ SavedInput \in Fd /\ SavedOutput \in Fd /\ 0 \in Fd /\ 1 \in Fd
  BY ShellAssumption, FdsAssumption DEF Fd
<1>2. Start => Next
  BY <1>1 DEF Start, Next
<1>3. Reap \/ EndOfInput \/ ForkFails \/ (\E c \in Commands : ReadCommand(c)) => UNCHANGED vars
  BY DEF Reap, EndOfInput, ForkFails, ReadCommand, NoCall
<1>4. SaveInput \/ SaveOutput \/ RestoreInput \/ RestoreOutput => Next
  <2>1. ASSUME NEW f \in Fd, NEW new \in Fd, minifs_dup2(ShellPid, f, new) PROVE Next
    BY <1>1, <2>1 DEF Next
  <2> QED BY <1>1, <2>1 DEF SaveInput, SaveOutput, RestoreInput, RestoreOutput
<1>5. MarkInput \/ MarkOutput => Next
  BY <1>1, Zenon DEF MarkInput, MarkOutput, Next
<1>6. CloseInput \/ CloseOutput => Next
  BY <1>1 DEF CloseInput, CloseOutput, Next
<1>7. ASSUME NEW c \in Pids PROVE (Fork(c) => Next) /\ (WaitFor(c) => UNCHANGED vars)
  <2>1. minifs_process_fork(ShellPid, c) => Next
    BY <1>1 DEF Next
  <2> QED BY <2>1 DEF Fork, WaitFor, NoCall
<1> QED BY <1>2, <1>3, <1>4, <1>5, <1>6, <1>7 DEF Main

LEMMA RedirectStep ==
  ASSUME NamesGiven, NEW p \in Pids, Redirect(p)
  PROVE  [Next]_vars
<1>1. 0 \in Fd /\ 1 \in Fd /\ Opened(p) \subseteq Fd
  BY FdsAssumption DEF Fd, Opened, OpenFds
<1>2. ASSUME NEW f \in Fd, NEW new \in Fd, minifs_dup2(p, f, new) PROVE Next
  BY <1>2 DEF Next
<1>3. ASSUME NEW f \in Fd, minifs_close(p, f) PROVE Next
  BY <1>3 DEF Next
<1>4. ASSUME NEW n \in Names, NEW create \in BOOLEAN, NEW then, Open(p, n, create, then)
      PROVE  [Next]_vars
  <2>1. minifs_open(p, n, create) => Next
    BY DEF Next
  <2> QED BY <1>4, <2>1 DEF Open, NoCall
<1>5. (command[p].input # NoName => command[p].input \in Names)
      /\ (command[p].output # NoName => command[p].output \in Names)
  BY DEF NamesGiven, Line
<1>6. OpenInput(p) \/ OpenOutput(p) => [Next]_vars
  BY <1>4, <1>5, Zenon DEF OpenInput, OpenOutput, NoCall
<1>7. DupInput(p) \/ DupOutput(p) => Next
  BY <1>1, <1>2 DEF DupInput, DupOutput
<1>8. CloseOpenedInput(p) \/ CloseOpenedOutput(p) => Next
  BY <1>1, <1>3 DEF CloseOpenedInput, CloseOpenedOutput
<1>9. Execve(p) \/ ExecveFails(p) => [Next]_vars
  BY DEF Execve, ExecveFails, Next, NoCall
<1> QED BY <1>6, <1>7, <1>8, <1>9 DEF Redirect

LEMMA ProgramStep ==
  ASSUME NEW p \in Pids, Program(p) \/ Exit(p)
  PROVE  Next
<1>1. ProgramFds \subseteq Fd /\ DupFds \subseteq Fd
  BY ShellAssumption DEF Fd
<1>2. ASSUME NEW f \in Fd, NEW new \in Fd, minifs_dup2(p, f, new) PROVE Next
  BY <1>2 DEF Next
<1>3. ASSUME NEW f \in Fd, minifs_close(p, f) PROVE Next
  BY <1>3 DEF Next
<1>4. ASSUME NEW f \in Fd, NEW on \in BOOLEAN, minifs_set_cloexec(p, f, on) PROVE Next
  BY <1>4 DEF Next
<1>5. ASSUME NEW n \in Names, NEW create \in BOOLEAN, minifs_open(p, n, create) PROVE Next
  BY <1>5 DEF Next
<1>6. ASSUME NEW n \in Names, minifs_unlink(p, n) PROVE Next
  BY <1>6 DEF Next
<1>7. minifs_close_exec_fds(p) \/ minifs_close_all(p) => Next
  BY DEF Next
<1>8. CASE Program(p)
  BY <1>1, <1>2, <1>3, <1>4, <1>5, <1>6, <1>7, <1>8 DEF Program
<1>9. CASE Exit(p)
  BY <1>7, <1>9 DEF Exit
<1> QED BY <1>8, <1>9

LEMMA NamesGivenKept ==
  ASSUME NamesGiven, [ShellNext]_shellVars
  PROVE  NamesGiven'
<1>1. NoCommand \in Line /\ Commands \subseteq Line
  BY ShellAssumption DEF NoCommand, Line
<1>2. CASE command' = command
  BY <1>2 DEF NamesGiven
<1>3. ASSUME NEW p \in Pids, NEW c \in Line, command' = [command EXCEPT ![p] = c] PROVE NamesGiven'
  BY <1>3 DEF NamesGiven
<1>4. ASSUME NEW p \in Pids, NEW place, Goto(p, place) PROVE NamesGiven'
  BY <1>1, <1>2, <1>3, <1>4 DEF Goto
<1>5. ASSUME Main PROVE NamesGiven'
  <2>1. ShellPid \in Pids
    BY ShellAssumption
  <2>2. Start \/ EndOfInput \/ SaveInput \/ SaveOutput \/ MarkInput \/ MarkOutput \/ RestoreInput
          \/ CloseInput \/ RestoreOutput \/ CloseOutput \/ ForkFails => NamesGiven'
    BY <1>4, <2>1, Zenon DEF Start, EndOfInput, SaveInput, SaveOutput, MarkInput, MarkOutput,
       RestoreInput, CloseInput, RestoreOutput, CloseOutput, ForkFails
  <2>3. Reap => NamesGiven'
    BY <1>4, <2>1 DEF Reap, Zombies
  <2>4. ASSUME NEW c \in Commands, ReadCommand(c) PROVE NamesGiven'
    BY <1>1, <1>3, <2>1, <2>4, Zenon DEF ReadCommand
  <2>5. ASSUME NEW c \in Pids, Fork(c) PROVE NamesGiven'
    <3>1. CASE process_fds' = process_fds
      BY <1>4, <2>1, <2>5, <3>1 DEF Fork
    <3>2. CASE process_fds' # process_fds
      <4>1. command' = [command EXCEPT ![c] = command[ShellPid], ![ShellPid] = NoCommand]
        BY <2>5, <3>2 DEF Fork
      <4> QED BY <1>1, <2>1, <4>1 DEF NamesGiven
    <3> QED BY <3>1, <3>2
  <2>6. ASSUME NEW c \in Pids, WaitFor(c) PROVE NamesGiven'
    BY <1>2, <2>6 DEF WaitFor
  <2> QED BY <1>5, <2>2, <2>3, <2>4, <2>5, <2>6 DEF Main
<1>6. ASSUME NEW p \in Pids, Redirect(p) PROVE NamesGiven'
  <2>1. ASSUME NEW n, NEW create, NEW then, Open(p, n, create, then) PROVE NamesGiven'
    BY <1>4, <2>1 DEF Open
  <2>2. OpenInput(p) \/ OpenOutput(p) => NamesGiven'
    BY <1>4, <2>1, Zenon DEF OpenInput, OpenOutput
  <2>3. DupInput(p) \/ CloseOpenedInput(p) \/ DupOutput(p) \/ CloseOpenedOutput(p)
          \/ Execve(p) \/ ExecveFails(p) => NamesGiven'
    BY <1>4 DEF DupInput, CloseOpenedInput, DupOutput, CloseOpenedOutput, Execve, ExecveFails
  <2> QED BY <1>6, <2>2, <2>3 DEF Redirect
<1>7. ASSUME NEW p \in Pids, Program(p) \/ Exit(p) PROVE NamesGiven'
  BY <1>2, <1>4, <1>7 DEF Program, Exit
<1>8. CASE UNCHANGED shellVars
  BY <1>2, <1>8 DEF shellVars
<1> QED BY <1>5, <1>6, <1>7, <1>8 DEF ShellNext, Halted

(* The shell and its programs use the open files only through the calls of *)
(* os/kernel/minifs.c: each step of os/user/shell.c is one of them, or     *)
(* none.                                                                   *)
THEOREM ShellUsesFds ==
  ShellSpec => Spec
<1>1. ShellInit => Init /\ NamesGiven
  <2>1. NoCommand \in Line
    BY DEF NoCommand, Line
  <2> QED BY <2>1 DEF ShellInit, NamesGiven
<1>2. NamesGiven /\ [ShellNext]_shellVars => [Next]_vars
  <2> SUFFICES ASSUME NamesGiven, [ShellNext]_shellVars PROVE [Next]_vars
    OBVIOUS
  <2>1. CASE UNCHANGED shellVars
    BY <2>1 DEF shellVars
  <2>2. CASE ShellNext
    BY <2>2, <2>1, MainStep, RedirectStep, ProgramStep DEF ShellNext, Halted
  <2> QED BY <2>1, <2>2
<1>3. NamesGiven /\ [ShellNext]_shellVars => NamesGiven'
  BY NamesGivenKept
<1> QED BY <1>1, <1>2, <1>3, PTL DEF ShellSpec, Spec

(* So the shell's redirections, its saved descriptors 14 and 15, a failed  *)
(* exec, background programs and kills leave every count exact.            *)
THEOREM ShellExactReferences ==
  ShellSpec => []RefsExact
BY ShellUsesFds, ExactReferences, PTL

(* And no program writes to a file whose name or number is gone.           *)
THEOREM ShellOpenFilesKeepNames ==
  ShellSpec => []OpenFilesLinked
BY ShellUsesFds, OpenFilesKeepNames, PTL
=============================================================================
