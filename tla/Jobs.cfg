CONSTANTS
  Things = {lathe}
  Jobs = {home, jog, probe, watch}
  ThingOf <- OneThing
  Synchronous = {home, jog}
  Coroutine = {watch}
  InvTimed = {home, probe}
  ExecTimed = {home}
  Noblock = {jog}
  Callers = {client}
  MainThread = main
  Outcomes = {"OK", "EXIT", "STOP", "UNDECODABLE"}
  None = None
SPECIFICATION Spec
CONSTRAINT OneKindOfJob
INVARIANTS ReplyIsForItsJob TimedOutNeverExecuted ExecutedInOrder
PROPERTIES KeepsPromise
CHECK_DEADLOCK FALSE
