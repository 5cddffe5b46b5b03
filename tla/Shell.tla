------------------------------- MODULE Shell --------------------------------
(* The shell (os/user/shell.c) and the programs it starts, over the open   *)
(* files of Fds: redirections, the exec builtin, foreground and background *)
(* commands.  A step is one system call, since any other process may run   *)
(* between two of them, and any process may be killed there.               *)
(*                                                                         *)
(* The line is taken as parsed: a command is a record of its kind and the  *)
(* names it redirects.  Help, cd, errors and the prompt, which call        *)
(* nothing that changes this state, are left out.                          *)
EXTENDS Fds

CONSTANTS ShellPid,
          Commands,         \* [kind, input, output], input and output in Names or NoName
          NoName,
          SavedInput, SavedOutput,    \* 14 and 15
          ProgramFds,       \* bound: descriptors programs open, close and duplicate
          CloexecFds,       \* bound: descriptors they mark close-on-exec
          DupFds            \* bound: descriptors they give dup2 as newfd

ASSUME ShellAssumption ==
  /\ ShellPid \in Pids /\ NoName \notin Names
  /\ \A c \in Commands : /\ c.kind \in {"exec", "run", "background"}
                         /\ {c.input, c.output} \subseteq Names \cup {NoName}
  /\ {SavedInput, SavedOutput} \subseteq 3 .. MaxFd - 1 /\ SavedInput # SavedOutput
  /\ ProgramFds \cup CloexecFds \cup DupFds \subseteq 0 .. MaxFd - 1

VARIABLES at,       \* what each process does next
          command   \* the command it works on

shellVars == <<vars, at, command>>

NoCommand == [kind |-> "run", input |-> NoName, output |-> NoName]

(* A command that is done with is forgotten.                               *)
Goto(p, place) ==
  /\ at' = [at EXCEPT ![p] = place]
  /\ command' = IF place \in {"reap", "exiting", "program", "zombie", "halted"}
                THEN [command EXCEPT ![p] = NoCommand] ELSE command
FdOf(p, f) == process_fds[find_process(p)].fd[f]
NoCall == UNCHANGED vars

ShellInit ==
  /\ Init
  /\ at = [p \in Pids |-> IF p = ShellPid THEN "start" ELSE "none"]
  /\ command = [p \in Pids |-> NoCommand]

Start == at[ShellPid] = "start" /\ minifs_process_init(ShellPid) /\ Goto(ShellPid, "reap")

-----------------------------------------------------------------------------
(* main.  Only the shell is at these places.                               *)

Zombies == {c \in Pids : at[c] = "zombie"}

Reap ==                                 \* while (waitpid(-1, 0, WNOHANG) > 0)
  /\ at[ShellPid] = "reap"
  /\ IF Zombies = {} THEN Goto(ShellPid, "read")
     ELSE \E c \in Zombies : Goto(c, "none")
  /\ NoCall

ReadCommand(c) ==
  /\ at[ShellPid] = "read"
  /\ command' = [command EXCEPT ![ShellPid] = c]
  /\ at' = [at EXCEPT ![ShellPid] = IF c.kind = "exec" THEN "save_input" ELSE "fork"]
  /\ NoCall

EndOfInput == at[ShellPid] = "read" /\ Goto(ShellPid, "exiting") /\ NoCall

(* Descriptors 0 and 1 are open at the prompt: saving them succeeds.       *)
SaveInput ==
  /\ at[ShellPid] = "save_input"
  /\ minifs_dup2(ShellPid, 0, SavedInput) /\ Goto(ShellPid, "save_output")
SaveOutput ==
  /\ at[ShellPid] = "save_output"
  /\ minifs_dup2(ShellPid, 1, SavedOutput) /\ Goto(ShellPid, "mark_input")
MarkInput ==
  /\ at[ShellPid] = "mark_input"
  /\ minifs_set_cloexec(ShellPid, SavedInput, TRUE) /\ Goto(ShellPid, "mark_output")
MarkOutput_Skips ==                     \* mutant: the saved output is not marked
  at[ShellPid] = "mark_output" /\ Goto(ShellPid, "open_input") /\ NoCall
MarkOutput ==
  /\ at[ShellPid] = "mark_output"
  /\ minifs_set_cloexec(ShellPid, SavedOutput, TRUE) /\ Goto(ShellPid, "open_input")

RestoreInput ==
  /\ at[ShellPid] = "restore_input"
  /\ minifs_dup2(ShellPid, SavedInput, 0) /\ Goto(ShellPid, "close_input")
CloseInput ==
  /\ at[ShellPid] = "close_input"
  /\ minifs_close(ShellPid, SavedInput) /\ Goto(ShellPid, "restore_output")
RestoreOutput ==
  /\ at[ShellPid] = "restore_output"
  /\ minifs_dup2(ShellPid, SavedOutput, 1) /\ Goto(ShellPid, "close_output")
CloseOutput_Skips ==                    \* mutant: the saved output stays open
  at[ShellPid] = "close_output" /\ Goto(ShellPid, "reap") /\ NoCall
CloseOutput ==
  /\ at[ShellPid] = "close_output"
  /\ minifs_close(ShellPid, SavedOutput) /\ Goto(ShellPid, "reap")

(* fork fails without a slot for the task (no child), a table or a file.   *)
Fork(child) ==
  /\ at[ShellPid] = "fork" /\ at[child] = "none"
  /\ minifs_process_fork(ShellPid, child)
  /\ IF process_fds' = process_fds THEN Goto(ShellPid, "reap")
     ELSE /\ at' = [at EXCEPT ![child] = "open_input",
                ![ShellPid] = IF command[ShellPid].kind = "background" THEN "reap" ELSE child]
          /\ command' = [command EXCEPT ![child] = command[ShellPid], ![ShellPid] = NoCommand]
ForkFails ==
  /\ at[ShellPid] = "fork"
  /\ UsedTables = Tables \/ \A c \in Pids : at[c] # "none"
  /\ Goto(ShellPid, "reap") /\ NoCall

(* wait_for: the shell stands at the pid it waits for.                     *)
WaitFor(child) ==
  /\ at[ShellPid] = child /\ at[child] = "zombie"
  /\ at' = [at EXCEPT ![child] = "none", ![ShellPid] = "reap"]
  /\ UNCHANGED command /\ NoCall

-----------------------------------------------------------------------------
(* apply_redirections and try_exec, in the child or, for the exec builtin, *)
(* in the shell.  The descriptor of open is the one open chose: nobody     *)
(* else changes the table of p.                                            *)

Failed(p) == IF p = ShellPid THEN "restore_input" ELSE "exiting"
OpenFds(p) == {f \in Fd \ {SavedInput, SavedOutput} : FdOf(p, f) # None}
Opened(p) == {f \in OpenFds(p) : \A g \in OpenFds(p) : g <= f}

(* A failing open may still have created the file.                         *)
Open(p, name, create, then) ==
  IF CanOpen(name, create) THEN
    /\ minifs_open(p, name, create)
    /\ Goto(p, IF process_fds' = process_fds THEN Failed(p) ELSE then)
  ELSE Goto(p, Failed(p)) /\ NoCall

OpenInput(p) ==
  /\ at[p] = "open_input"
  /\ IF command[p].input = NoName THEN Goto(p, "open_output") /\ NoCall
     ELSE Open(p, command[p].input, FALSE, "dup_input")
DupInput(p) ==
  /\ at[p] = "dup_input"
  /\ (\E f \in Opened(p) : minifs_dup2(p, f, 0)) /\ Goto(p, "close_opened_input")
CloseOpenedInput(p) ==
  /\ at[p] = "close_opened_input"
  /\ (\E f \in Opened(p) : minifs_close(p, f)) /\ Goto(p, "open_output")
OpenOutput(p) ==
  /\ at[p] = "open_output"
  /\ IF command[p].output = NoName THEN Goto(p, "execve") /\ NoCall
     ELSE Open(p, command[p].output, TRUE, "dup_output")
DupOutput(p) ==
  /\ at[p] = "dup_output"
  /\ (\E f \in Opened(p) : minifs_dup2(p, f, 1)) /\ Goto(p, "close_opened_output")
CloseOpenedOutput(p) ==
  /\ at[p] = "close_opened_output"
  /\ (\E f \in Opened(p) : minifs_close(p, f)) /\ Goto(p, "execve")

Execve(p) == at[p] = "execve" /\ minifs_close_exec_fds(p) /\ Goto(p, "program")
ExecveFails(p) == at[p] = "execve" /\ Goto(p, Failed(p)) /\ NoCall

-----------------------------------------------------------------------------
(* Programs make any call; any process may exit or be killed.              *)

Program(p) ==
  /\ at[p] = "program"
  /\ \/ minifs_close_exec_fds(p)
     \/ \E n \in Names : minifs_unlink(p, n)
     \/ \E n \in Names, create \in BOOLEAN :
          Min(FreeFds(process_fds[find_process(p)])) \in ProgramFds /\ minifs_open(p, n, create)
     \/ \E f \in ProgramFds :
          \/ minifs_close(p, f)
          \/ \E on \in BOOLEAN : f \in CloexecFds /\ minifs_set_cloexec(p, f, on)
          \/ \E new \in DupFds : minifs_dup2(p, f, new)
  /\ UNCHANGED <<at, command>>

(* The shell, or the program it has become, is the last to exit.           *)
Exit(p) ==
  /\ at[p] \notin {"start", "none", "zombie", "halted"}
  /\ minifs_close_all(p)
  /\ Goto(p, IF p = ShellPid THEN "halted" ELSE "zombie")

Halted == at[ShellPid] = "halted" /\ UNCHANGED shellVars

Redirect(p) ==
  \/ OpenInput(p) \/ DupInput(p) \/ CloseOpenedInput(p)
  \/ OpenOutput(p) \/ DupOutput(p) \/ CloseOpenedOutput(p)
  \/ Execve(p) \/ ExecveFails(p)

Main ==
  \/ Start \/ Reap \/ EndOfInput
  \/ \E c \in Commands : ReadCommand(c)
  \/ SaveInput \/ SaveOutput \/ MarkInput \/ MarkOutput
  \/ RestoreInput \/ CloseInput \/ RestoreOutput \/ CloseOutput
  \/ ForkFails \/ \E c \in Pids \ {ShellPid} : Fork(c) \/ WaitFor(c)

ShellNext ==
  \/ at[ShellPid] # "halted"
     /\ (Main \/ \E p \in Pids : Redirect(p) \/ Program(p) \/ Exit(p))
  \/ Halted

ShellSpec == ShellInit /\ [][ShellNext]_shellVars

-----------------------------------------------------------------------------
ConsoleAt(p, f) == FdOf(p, f) # None /\ open_files[FdOf(p, f)].type = "CONSOLE"

(* At the prompt the shell has the console on 0, 1 and 2 and nothing else  *)
(* open, whatever the commands before did: a failed exec, at whichever     *)
(* call it failed and with files opened and redirected by then, is undone  *)
(* (14 and 15 in main of os/user/shell.c).                                 *)
CleanPrompt ==
  at[ShellPid] \in {"reap", "read", "fork"} =>
    /\ \A f \in 0 .. 2 : ConsoleAt(ShellPid, f)
    /\ \A f \in Fd \ 0 .. 2 : FdOf(ShellPid, f) = None
    /\ process_fds[find_process(ShellPid)].cloexec = {}

(* A program starts with exactly what the command line says: 0 and 1 are   *)
(* the files named there, or the console, and no other descriptor of the   *)
(* shell is left to it; the names still lead to these files, although      *)
(* other processes may have deleted and created names since the redirect.  *)
Stream(p, f, n) ==
  IF n = NoName THEN ConsoleAt(p, f)
  ELSE /\ FdOf(p, f) # None
       /\ open_files[FdOf(p, f)].type = "FILE" /\ open_files[FdOf(p, f)].inode = inode_of[n]

StreamsAsAsked ==
  [][\A p \in Pids, c \in Commands :
       at[p] = "execve" /\ command[p] = c /\ at'[p] = "program" =>
       /\ Stream(p, 0, c.input)'
       /\ Stream(p, 1, c.output)'
       /\ ConsoleAt(p, 2)' /\ \A f \in Fd \ 0 .. 2 : FdOf(p, f)' = None]_shellVars
=============================================================================
