\* Two connections, of the browser or of others.
CONSTANTS
  Clients = {a, b}
  Requests <- MCRequests
  Buttons <- MCButtons
  Targets <- MCTargets
  Behaviours = {"count", "eager", "quiet", "all"}
  OutLen = 2
  PipeSize = 1
  BufUnits = 4
  MaxFaults = 1
  MaxCloses = 1
SPECIFICATION BrowserSpec
INVARIANTS TypeOK DescriptorsAccounted OneAnswer ScriptGetsBody PageIsAnswer
PROPERTIES RequestEnds
CHECK_DEADLOCK FALSE
