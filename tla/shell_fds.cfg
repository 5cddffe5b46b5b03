CONSTANTS
  MaxFd = 6
  MaxOpenFiles = 6
  MaxProcesses = 3
  MaxInodes = 1
  Pids = {sh, c1, c2}
  ShellPid = sh
  Names = {a, b}
  NoName = NoName
  Commands <- MCCommands
  CloexecFds = {3}
  DupFds = {0}
  ProgramFds = {3}
  SavedInput = 4
  SavedOutput = 5
SPECIFICATION ShellSpec
INVARIANTS RefsExact OpenFilesLinked CleanPrompt
PROPERTIES StreamsAsAsked
SYMMETRY Symmetry
