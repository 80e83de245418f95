SPECIFICATION Spec
CONSTANTS
  Program = {p1, p2}
  Main = p1
  Count = 2
  Alter = {2}
  ToolName = {"todo", "x", "y"}
  BuiltIn = {"todo"}
  Worlds <- MCHung
INVARIANTS
  ServersAreIsolated
