------------------------------ MODULE MCShell -------------------------------
(* Shell for TLC.  A command redirects nothing, or its input and output to *)
(* the same file; one kind also its output only.                           *)
EXTENDS Shell, TLC

MCCommands ==
  {c \in [kind : {"exec", "run", "background"}, input : Names \cup {NoName},
          output : Names \cup {NoName}] :
     c.input = c.output \/ (c.kind = "run" /\ c.input = NoName)}
Symmetry == Permutations(Pids \ {ShellPid}) \cup Permutations(Names)
=============================================================================
