CONSTANTS
  Things = {lathe}
  Jobs = {home, jog}
  ThingOf <- OneThing
  Synchronous = {home, jog}
  Coroutine = {}
  InvTimed = {home}
  ExecTimed = {home}
  Noblock = {}
  Callers = {client}
  MainThread = main
  Outcomes = {"OK"}
  None = None
SPECIFICATION HangingSpec
PROPERTIES EveryJobAnswered TimedJobAnswered StopEndsEverything
CHECK_DEADLOCK FALSE
