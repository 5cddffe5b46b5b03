------------------------------- MODULE MCHart -------------------------------
(* Delegations: the one of start.S (STI), none, with the external line,    *)
(* and those of the machine's own timer bit.                               *)
EXTENDS Hart

MCDelegations == {{}, {STI}, {STI, SEI}, {STI, MTI}}
MCAllDelegations == SUBSET {STI, MTI}
MCExceptions == {{}, {Ecall(User), Ecall(Supervisor), Breakpoint}}
=============================================================================
