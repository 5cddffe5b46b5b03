-------------------------------- MODULE Fds --------------------------------
(***************************************************************************)
(* Open files of MiniOS (os/kernel/minifs.c): the 64 shared open-file      *)
(* descriptions with their reference counts, the 16 per-process descriptor *)
(* tables, and what fork, exec, exit, dup2, open, close and unlink do to   *)
(* them.  System calls run with interrupts off, so each is one step.       *)
(*                                                                         *)
(* Here the directory is flat, a file is its inode number, and what is in  *)
(* it, the access flags and the offsets are left out: the calls that only  *)
(* move data (read, write, lseek) are stuttering steps, and paths, blocks  *)
(* and the disk are the matter of MiniFS.  Fields of unused entries, which *)
(* no code reads, are kept at fixed values.                                *)
(***************************************************************************)
EXTENDS Integers, FiniteSets, FiniteSetsExt

CONSTANTS MaxFd, MaxOpenFiles, MaxProcesses, MaxInodes,
          Pids,       \* pids of tasks
          Names       \* names of files

ASSUME FdsAssumption ==
  /\ MaxFd \in Nat /\ MaxFd >= 3
  /\ {MaxOpenFiles, MaxProcesses, MaxInodes} \subseteq Nat \ {0}

VARIABLES open_files, process_fds,
          inode_of    \* the directory: inode number of each name, or None

vars == <<open_files, process_fds, inode_of>>

None == -1
Fd == 0 .. MaxFd - 1
Ofds == 0 .. MaxOpenFiles - 1
Tables == 1 .. MaxProcesses
Inodes == 1 .. MaxInodes

NoFile == [used |-> FALSE, refs |-> 0, type |-> "FILE", inode |-> 0]
NoTable == [used |-> FALSE, pid |-> None, fd |-> [f \in Fd |-> None], cloexec |-> {}]

Init ==                                 \* minifs_init
  /\ open_files = [i \in Ofds |-> NoFile]
  /\ process_fds = [t \in Tables |-> NoTable]
  /\ inode_of = [n \in Names |-> None]

-----------------------------------------------------------------------------
(* Helpers, as functions of the table of open files *)

UsedTables == {t \in Tables : process_fds[t].used}
HasTable(p) == \E t \in UsedTables : process_fds[t].pid = p
find_process(p) == CHOOSE t \in UsedTables : process_fds[t].pid = p
FreeOfds(files) == {i \in Ofds : ~files[i].used}

(* The index and the new table *)
alloc_ofd(files, type, inode) ==
  IF FreeOfds(files) = {} THEN [ix |-> None, files |-> files]
  ELSE LET i == Min(FreeOfds(files)) IN
       [ix |-> i,
        files |-> [files EXCEPT ![i] = [used |-> TRUE, refs |-> 1,
                                               type |-> type, inode |-> inode]]]

put_ofd(files, i) ==
  IF i \notin Ofds \/ ~files[i].used THEN files
  ELSE IF files[i].refs = 1 THEN [files EXCEPT ![i] = NoFile]
  ELSE [files EXCEPT ![i].refs = @ - 1]

(* put_ofd for each descriptor of S *)
put_all(files, fd, S) ==
  [i \in Ofds |->
     LET n == Cardinality({f \in S : fd[f] = i})
     IN  IF n = 0 \/ ~files[i].used THEN files[i]
         ELSE IF files[i].refs = n THEN NoFile
         ELSE [files[i] EXCEPT !.refs = @ - n]]

(* The descriptor install_fd takes, and its table afterwards *)
FreeFds(table) == {f \in Fd : table.fd[f] = None}
install_fd(table, ofd) ==
  LET f == Min(FreeFds(table)) IN
  [table EXCEPT !.fd[f] = ofd, !.cloexec = @ \ {f}]

inode_is_open(i) ==
  \E o \in Ofds : open_files[o].used /\ open_files[o].type = "FILE" /\ open_files[o].inode = i

FreeInodes == Inodes \ {inode_of[n] : n \in Names}

-----------------------------------------------------------------------------
(* Life of a process *)

(* minifs_process_init: consoles on 0, 1 and 2.  The three allocations are *)
(* made before any is tested; a failure gives back those that succeeded.   *)
ConsoleFiles(files) ==
  LET in  == alloc_ofd(files, "CONSOLE", 0)
      out == alloc_ofd(in.files, "CONSOLE", 0)
      err == alloc_ofd(out.files, "CONSOLE", 0)
      ok  == None \notin {in.ix, out.ix, err.ix}
  IN [ok |-> ok,
      fd |-> [f \in Fd |-> CASE f = 0 -> in.ix [] f = 1 -> out.ix [] f = 2 -> err.ix
                             [] OTHER -> None],
      files |-> IF ok THEN err.files
                ELSE put_ofd(put_ofd(put_ofd(err.files, in.ix), out.ix), err.ix)]

minifs_process_init(p) ==
  LET console == ConsoleFiles(open_files)
      t == Min(Tables \ UsedTables)
  IN
  /\ ~HasTable(p) /\ UsedTables # Tables
  /\ open_files' = console.files
  /\ process_fds' = IF console.ok
                    THEN [process_fds EXCEPT ![t] = [used |-> TRUE, pid |-> p,
                            fd |-> console.fd, cloexec |-> {}]]
                    ELSE process_fds
  /\ UNCHANGED inode_of

Share_NoCount(files, fd) == files       \* mutant: inherited files are not counted

(* Every descriptor the child inherits is one more reference. *)
Share(files, fd) ==
  [i \in Ofds |-> [files[i] EXCEPT !.refs = @ + Cardinality({f \in Fd : fd[f] = i})]]

(* minifs_process_fork: the child first gets consoles of its own, which    *)
(* make way for what the parent has open.                                  *)
minifs_process_fork(p, child) ==
  LET console == ConsoleFiles(open_files)
      parent == process_fds[find_process(p)]
      t == Min(Tables \ UsedTables)
  IN
  /\ HasTable(p) /\ ~HasTable(child) /\ UsedTables # Tables
  /\ IF console.ok
     THEN /\ open_files' = Share(put_all(console.files, console.fd, Fd), parent.fd)
          /\ process_fds' = [process_fds EXCEPT ![t] = [parent EXCEPT !.pid = child]]
     ELSE open_files' = console.files /\ UNCHANGED process_fds
  /\ UNCHANGED inode_of

(* minifs_close_all, by exit, kill and reaping *)
minifs_close_all(p) ==
  LET t == find_process(p) IN
  /\ HasTable(p)
  /\ open_files' = put_all(open_files, process_fds[t].fd, Fd)
  /\ process_fds' = [process_fds EXCEPT ![t] = NoTable]
  /\ UNCHANGED inode_of

(* execve *)
minifs_close_exec_fds(p) ==
  LET t == find_process(p)
      closed == process_fds[t].cloexec
  IN
  /\ HasTable(p)
  /\ open_files' = put_all(open_files, process_fds[t].fd, closed)
  /\ process_fds' = [process_fds EXCEPT
       ![t].fd = [f \in Fd |-> IF f \in closed THEN None ELSE @[f]], ![t].cloexec = {}]
  /\ UNCHANGED inode_of

-----------------------------------------------------------------------------
(* System calls on files.  Calls that only return -1 are stuttering steps. *)

minifs_set_cloexec(p, f, on) ==
  LET t == find_process(p) IN
  /\ HasTable(p) /\ process_fds[t].fd[f] # None
  /\ process_fds' = [process_fds EXCEPT ![t].cloexec = IF on THEN @ \cup {f} ELSE @ \ {f}]
  /\ UNCHANGED <<open_files, inode_of>>

CanOpen(n, create) == inode_of[n] # None \/ (create /\ FreeInodes # {})
minifs_open(p, n, create) ==
  LET t == find_process(p)
      number == IF inode_of[n] # None THEN inode_of[n] ELSE Min(FreeInodes)
      new == alloc_ofd(open_files, "FILE", number)
  IN
  /\ HasTable(p) /\ CanOpen(n, create)
  /\ inode_of' = [inode_of EXCEPT ![n] = number]  \* even if what follows fails
  /\ IF new.ix = None THEN UNCHANGED <<open_files, process_fds>>
     ELSE IF FreeFds(process_fds[t]) = {}
     THEN open_files' = put_ofd(new.files, new.ix) /\ UNCHANGED process_fds
     ELSE /\ open_files' = new.files
          /\ process_fds' = [process_fds EXCEPT ![t] = install_fd(@, new.ix)]

minifs_close(p, f) ==
  LET t == find_process(p) IN
  /\ HasTable(p) /\ process_fds[t].fd[f] # None
  /\ open_files' = put_ofd(open_files, process_fds[t].fd[f])
  /\ process_fds' = [process_fds EXCEPT ![t].fd[f] = None, ![t].cloexec = @ \ {f}]
  /\ UNCHANGED inode_of

minifs_dup2(p, old, new) ==
  LET t == find_process(p)
      fd == process_fds[t].fd
  IN
  /\ HasTable(p) /\ fd[old] # None /\ old # new
  /\ open_files' = [put_ofd(open_files, fd[new]) EXCEPT ![fd[old]].refs = @ + 1]
  /\ process_fds' = [process_fds EXCEPT ![t].fd[new] = fd[old], ![t].cloexec = @ \ {new}]
  /\ UNCHANGED inode_of

minifs_unlink_Open(p, n) ==             \* mutant: open files may be deleted
  /\ HasTable(p) /\ inode_of[n] # None
  /\ inode_of' = [inode_of EXCEPT ![n] = None]
  /\ UNCHANGED <<open_files, process_fds>>

minifs_unlink(p, n) ==
  /\ HasTable(p) /\ inode_of[n] # None /\ ~inode_is_open(inode_of[n])
  /\ inode_of' = [inode_of EXCEPT ![n] = None]
  /\ UNCHANGED <<open_files, process_fds>>

Next ==
  \E p \in Pids :
    \/ minifs_process_init(p)
    \/ \E c \in Pids : minifs_process_fork(p, c)
    \/ minifs_close_all(p)
    \/ minifs_close_exec_fds(p)
    \/ \E n \in Names : minifs_unlink(p, n) \/ \E create \in BOOLEAN : minifs_open(p, n, create)
    \/ \E f \in Fd :
         \/ minifs_close(p, f)
         \/ \E on \in BOOLEAN : minifs_set_cloexec(p, f, on)
         \/ \E new \in Fd : minifs_dup2(p, f, new)

Spec == Init /\ [][Next]_vars

-----------------------------------------------------------------------------
TypeOK ==
  /\ open_files \in [Ofds -> [used : BOOLEAN, refs : 0 .. MaxProcesses * MaxFd,
       type : {"CONSOLE", "FILE"}, inode : 0 .. MaxInodes]]
  /\ process_fds \in [Tables -> [used : BOOLEAN, pid : Pids \cup {None},
       fd : [Fd -> Ofds \cup {None}], cloexec : SUBSET Fd]]
  /\ inode_of \in [Names -> Inodes \cup {None}]

(* Reference counts are exact: an entry of open_files is in use exactly    *)
(* while descriptors name it, and refs is their number over all processes. *)
(* So no descriptor dangles and no entry leaks, whatever forks fail        *)
(* half-way (process_init gives back what it got), whatever dup2, exec or  *)
(* exit close.                                                             *)
References(i) == {r \in Tables \X Fd : process_fds[r[1]].fd[r[2]] = i}

RefsExact ==
  \A i \in Ofds :
    /\ open_files[i].refs = Cardinality(References(i))
    /\ open_files[i].used <=> open_files[i].refs > 0

(* The inode behind an open file stays the one its name leads to: an open  *)
(* file is never deleted (inode_is_open in unlink), so its number cannot   *)
(* be given to another file while descriptors, duplicated or inherited,    *)
(* still write to it; no two names share a number.                         *)
OpenFilesLinked ==
  /\ \A i \in Ofds : open_files[i].used /\ open_files[i].type = "FILE"
                       => \E n \in Names : inode_of[n] = open_files[i].inode
  /\ \A n, m \in Names : inode_of[n] # None /\ inode_of[n] = inode_of[m] => n = m
=============================================================================
