CONSTANTS
  Things = {lathe}
  Jobs = {home}
  ThingOf <- OneThing
  Synchronous = {home}
  Coroutine = {}
  InvTimed = {}
  ExecTimed = {}
  Noblock = {}
  Callers = {}
  MainThread = main
  Outcomes = {"OK", "UNDECODABLE"}
  None = None
SPECIFICATION HangingSpec
PROPERTY EveryJobAnswered
CHECK_DEADLOCK FALSE
