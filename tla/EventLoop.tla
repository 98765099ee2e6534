------------------------------ MODULE EventLoop ------------------------------
(***************************************************************************)
(* The event loop that runs operations on Things                           *)
(* (hololinked/core/eventloop/): submit() on any thread, a scheduler per   *)
(* Thing or per job, a coroutine that drains the scheduler on the event    *)
(* loop's own asyncio loop, a runner that executes on the Thing's thread,  *)
(* the two timeouts of a job, and stop() from any thread.                  *)
(*                                                                         *)
(* One step is a stretch of code in which a thread touches shared state    *)
(* once; coroutines of the asyncio loop hand over only where they await.   *)
(***************************************************************************)
EXTENDS Naturals, Sequences

CONSTANTS
  Things,       \* the served Things; each has a QueuedScheduler of its own
  Jobs,         \* the operations submitted, one Job each
  ThingOf,      \* [Jobs -> Things] operation.thing_id
  Synchronous,  \* jobs of affordances that go through the Thing's queue
  Coroutine,    \* jobs of coroutine actions
  InvTimed,     \* jobs with an invokation_timeout
  ExecTimed,    \* jobs with an execution_timeout
  Noblock,      \* jobs whose future waits in pending_operations
  Callers,      \* threads that may call EventLoop.stop()
  MainThread,   \* the thread inside EventLoop.run()
  Outcomes,     \* what an execution may do, a subset of AllOutcomes
  None          \* `Undefined`: no request, no reply, no answer

ReplyKinds == {"OK", "ERROR", "EXIT"}
AnswerKinds == ReplyKinds \cup {"INVOKATION_TIMEOUT", "EXECUTION_TIMEOUT", "NO_REPLY", "CANCELLED"}
AllOutcomes == ReplyKinds \cup {"STOP", "UNDECODABLE"}

ASSUME ConstantsAssumption ==
  /\ ThingOf \in [Jobs -> Things]
  /\ Synchronous \subseteq Jobs /\ Coroutine \subseteq Jobs
  /\ InvTimed \subseteq Jobs /\ ExecTimed \subseteq Jobs /\ Noblock \subseteq Jobs
  /\ Outcomes \subseteq AllOutcomes
  /\ Things \cap Jobs = {} /\ Callers \cap (Things \cup Jobs) = {}
  /\ MainThread \notin Things \cup Jobs \cup Callers
  /\ None \notin Things \cup Jobs
  /\ None \notin [job : Jobs, kind : AnswerKinds]

(* Which scheduler a job goes through: per_job_scheduler_types, else the   *)
(* Thing's own. A one-shot scheduler is named by its job.                  *)
Mode(j) == IF j \in Synchronous THEN "queued"
           ELSE IF j \in Coroutine THEN "async" ELSE "threaded"
OneShot == Jobs \ Synchronous
Scheds == Things \cup OneShot
SchedOf(j) == IF j \in Synchronous THEN ThingOf[j] ELSE j
Stoppers == Callers \cup Scheds \cup {MainThread}

VARIABLES
  run,        \* EventLoop._run
  loop,       \* EventLoop._loop: "none", "open", "closed"
  caller,     \* where submit(j) stands
  queue,      \* QueuedScheduler.queue
  live,       \* Scheduler.run
  request,    \* Scheduler._last_operation_request
  reply,      \* Scheduler._last_operation_reply
  jobEv, readyEv, doneEv,  \* the three CrossLoopEvents of a scheduler
  drain,      \* where tunnel_message_to_things(s) stands
  cur,        \* its local `job`
  runner,     \* where run_thing_instance(.., s) stands
  taken,      \* its local `request`
  logsBound,  \* its local fetch_execution_logs has been assigned
  started, completed,      \* the two CrossLoopEvents of a job
  invTask, execTask,       \* "none", "pending", "expired", "beaten"
  answer,     \* what the job's future resolved with
  pending,    \* futures in pending_operations
  stopper, toClean,        \* where a call of stop() stands
  ran,        \* history: how often the operation was executed
  sent, done  \* history: jobs of a Thing's queue, as dispatched and as executed

schedVars == <<queue, live, request, reply, jobEv, readyEv, doneEv>>
drainVars == <<drain, cur>>
runnerVars == <<runner, taken, logsBound>>
jobVars == <<started, completed, invTask, execTask, answer>>
stopVars == <<pending, stopper, toClean>>
history == <<ran, sent, done>>
vars == <<run, loop, caller, schedVars, drainVars, runnerVars, jobVars,
          stopVars, history>>

Replies == [job : Jobs, kind : ReplyKinds]
Answers == [job : Jobs, kind : AnswerKinds]

TypeOK ==
  /\ run \in BOOLEAN
  /\ loop \in {"none", "open", "closed"}
  /\ caller \in [Jobs -> {"new", "make", "dispatch", "notify", "store", "waiting", "refused"}]
  /\ queue \in [Things -> Seq(Jobs)]
  /\ live \in [Scheds -> BOOLEAN]
  /\ request \in [Scheds -> Jobs \cup {None}]
  /\ reply \in [Scheds -> Replies \cup {None}]
  /\ jobEv \in [Scheds -> BOOLEAN]
  /\ readyEv \in [Scheds -> BOOLEAN]
  /\ doneEv \in [Scheds -> BOOLEAN]
  /\ drain \in [Scheds -> {"off", "top", "check", "waitJob", "clearJob", "pop", "settleInv",
                           "hand", "waitReply", "clearReply", "settleExec", "take",
                           "cleanup", "ended", "crashed"}]
  /\ cur \in [Scheds -> Jobs \cup {None}]
  /\ runner \in [Scheds -> {"off", "top", "wait", "clear", "read", "decode", "exec",
                            "stopping", "unset", "ended", "dead"}]
  /\ taken \in [Scheds -> Jobs \cup {None}]
  /\ logsBound \in [Scheds -> BOOLEAN]
  /\ started \in [Jobs -> BOOLEAN]
  /\ completed \in [Jobs -> BOOLEAN]
  /\ invTask \in [Jobs -> {"none", "pending", "expired", "beaten"}]
  /\ execTask \in [Jobs -> {"none", "pending", "expired", "beaten"}]
  /\ answer \in [Jobs -> Answers \cup {None}]
  /\ pending \subseteq Jobs
  /\ stopper \in [Stoppers -> {"idle", "off", "clean", "done"}]
  /\ toClean \in [Stoppers -> SUBSET Things]
  /\ ran \in [Jobs -> Nat]
  /\ sent \in [Things -> Seq(Jobs)]
  /\ done \in [Things -> Seq(Jobs)]

Init ==
  /\ run = FALSE /\ loop = "none"
  /\ caller = [j \in Jobs |-> "new"]
  /\ queue = [t \in Things |-> <<>>]
  /\ live = [s \in Scheds |-> TRUE]
  /\ request = [s \in Scheds |-> None]
  /\ reply = [s \in Scheds |-> None]
  /\ jobEv = [s \in Scheds |-> FALSE]
  /\ readyEv = [s \in Scheds |-> FALSE]
  /\ doneEv = [s \in Scheds |-> FALSE]
  /\ drain = [s \in Scheds |-> "off"]
  /\ cur = [s \in Scheds |-> None]
  /\ runner = [s \in Scheds |-> "off"]
  /\ taken = [s \in Scheds |-> None]
  /\ logsBound = [s \in Scheds |-> FALSE]
  /\ started = [j \in Jobs |-> FALSE]
  /\ completed = [j \in Jobs |-> FALSE]
  /\ invTask = [j \in Jobs |-> "none"]
  /\ execTask = [j \in Jobs |-> "none"]
  /\ answer = [j \in Jobs |-> None]
  /\ pending = {}
  /\ stopper = [x \in Stoppers |-> "idle"]
  /\ toClean = [x \in Stoppers |-> {}]
  /\ ran = [j \in Jobs |-> 0]
  /\ sent = [t \in Things |-> <<>>]
  /\ done = [t \in Things |-> <<>>]

-----------------------------------------------------------------------------
(* EventLoop.run(): a scheduler, a drain coroutine and a thread per Thing. *)
Run ==
  /\ loop = "none"
  /\ loop' = "open" /\ run' = TRUE
  /\ drain' = [s \in Scheds |-> IF s \in Things THEN "top" ELSE drain[s]]
  /\ runner' = [s \in Scheds |-> IF s \in Things THEN "top" ELSE runner[s]]
  /\ UNCHANGED <<caller, schedVars, cur, taken, logsBound, jobVars, stopVars, history>>

(* run_until_complete() returns once every drain coroutine of the Things   *)
(* and idle() have, or raises what one of them raised. Either way nothing  *)
(* runs on the asyncio loop any more, and stop() follows.                  *)
LoopEnds ==
  /\ loop = "open"
  /\ \/ ~run /\ \A t \in Things : drain[t] = "ended"
     \/ \E t \in Things : drain[t] = "crashed"
  /\ loop' = "closed"
  /\ stopper' = [stopper EXCEPT ![MainThread] = "off"]
  /\ UNCHANGED <<run, caller, schedVars, drainVars, runnerVars, jobVars, pending, toClean, history>>

-----------------------------------------------------------------------------
(* EventLoop.submit(), on the caller's thread.                             *)
SubmitCheck(j) ==
  /\ caller[j] = "new"
  /\ caller' = [caller EXCEPT ![j] = IF run THEN "make" ELSE "refused"]
  /\ UNCHANGED <<run, loop, schedVars, drainVars, runnerVars, jobVars, stopVars, history>>

(* The invokation timeout starts before the job is dispatched;             *)
(* run_coro_threadsafe() raises when the loop is gone.                     *)
SubmitMake(j) ==
  /\ caller[j] = "make"
  /\ IF j \in InvTimed /\ loop # "open"
       THEN /\ caller' = [caller EXCEPT ![j] = "refused"]
            /\ UNCHANGED invTask
       ELSE /\ caller' = [caller EXCEPT ![j] = "dispatch"]
            /\ invTask' = [invTask EXCEPT ![j] = IF j \in InvTimed THEN "pending" ELSE "none"]
  /\ UNCHANGED <<run, loop, schedVars, drainVars, runnerVars, started, completed, execTask,
                 answer, stopVars, history>>

Dispatched(j) == IF j \in Noblock THEN "store" ELSE "waiting"

(* QueuedScheduler.dispatch_job: append, then set.                         *)
DispatchQueued(j) ==
  /\ caller[j] = "dispatch" /\ j \in Synchronous
  /\ queue' = [queue EXCEPT ![ThingOf[j]] = Append(@, j)]
  /\ sent' = [sent EXCEPT ![ThingOf[j]] = Append(@, j)]
  /\ caller' = [caller EXCEPT ![j] = "notify"]
  /\ UNCHANGED <<run, loop, live, request, reply, jobEv, readyEv, doneEv, drainVars,
                 runnerVars, jobVars, stopVars, ran, done>>

NotifyQueued(j) ==
  /\ caller[j] = "notify"
  /\ jobEv' = [jobEv EXCEPT ![ThingOf[j]] = TRUE]
  /\ caller' = [caller EXCEPT ![j] = Dispatched(j)]
  /\ UNCHANGED <<run, loop, queue, live, request, reply, readyEv, doneEv, drainVars,
                 runnerVars, jobVars, stopVars, history>>

(* AsyncScheduler and ThreadedScheduler.dispatch_job: both halves start.   *)
DispatchOneShot(j) ==
  /\ caller[j] = "dispatch" /\ j \in OneShot
  /\ IF loop # "open"
       THEN /\ caller' = [caller EXCEPT ![j] = "refused"]
            /\ UNCHANGED <<drain, runner, jobEv>>
       ELSE /\ caller' = [caller EXCEPT ![j] = Dispatched(j)]
            /\ drain' = [drain EXCEPT ![j] = "top"]
            /\ runner' = [runner EXCEPT ![j] = "top"]
            /\ jobEv' = [jobEv EXCEPT ![j] = TRUE]
  /\ UNCHANGED <<run, loop, queue, live, request, reply, readyEv, doneEv, cur, taken,
                 logsBound, jobVars, stopVars, history>>

(* A noblock request keeps the future for later: PendingOperations.add.    *)
StorePending(j) ==
  /\ caller[j] = "store"
  /\ pending' = pending \cup {j}
  /\ caller' = [caller EXCEPT ![j] = "waiting"]
  /\ UNCHANGED <<run, loop, schedVars, drainVars, runnerVars, jobVars, stopper, toClean, history>>

-----------------------------------------------------------------------------
(* Job.answer(): the first answer wins, InvalidStateError drops the rest.  *)
Of(j, kind) == [job |-> j, kind |-> kind]
(* Mutant: an answer overwrites the earlier one.                           *)
AnsweredAgain(a, j, with) == [a EXCEPT ![j] = with]

Answered(a, j, with) == [a EXCEPT ![j] = IF @ = None THEN with ELSE @]

(* A timeout task waits for its event and for its deadline; once both have *)
(* happened either may win, until the task is done.                        *)
InvExpires(j) ==
  /\ loop = "open" /\ invTask[j] = "pending"
  /\ invTask' = [invTask EXCEPT ![j] = "expired"]
  /\ answer' = Answered(answer, j, Of(j, "INVOKATION_TIMEOUT"))
  /\ UNCHANGED <<run, loop, caller, schedVars, drainVars, runnerVars, started, completed,
                 execTask, stopVars, history>>

InvBeaten(j) ==
  /\ loop = "open" /\ invTask[j] = "pending" /\ started[j]
  /\ invTask' = [invTask EXCEPT ![j] = "beaten"]
  /\ UNCHANGED <<run, loop, caller, schedVars, drainVars, runnerVars, started, completed,
                 execTask, answer, stopVars, history>>

ExecExpires(j) ==
  /\ loop = "open" /\ execTask[j] = "pending"
  /\ execTask' = [execTask EXCEPT ![j] = "expired"]
  /\ answer' = Answered(answer, j, Of(j, "EXECUTION_TIMEOUT"))
  /\ UNCHANGED <<run, loop, caller, schedVars, drainVars, runnerVars, started, completed,
                 invTask, stopVars, history>>

ExecBeaten(j) ==
  /\ loop = "open" /\ execTask[j] = "pending" /\ completed[j]
  /\ execTask' = [execTask EXCEPT ![j] = "beaten"]
  /\ UNCHANGED <<run, loop, caller, schedVars, drainVars, runnerVars, started, completed,
                 invTask, answer, stopVars, history>>

-----------------------------------------------------------------------------
(* EventLoop.tunnel_message_to_things(s), a coroutine of the asyncio loop. *)
DrainAt(s, from, to) ==
  /\ loop = "open" /\ drain[s] = from
  /\ drain' = [drain EXCEPT ![s] = to]
  /\ UNCHANGED <<run, loop, caller>>

DrainTop(s) ==
  /\ DrainAt(s, "top", IF run /\ live[s] THEN "check" ELSE "cleanup")
  /\ UNCHANGED <<schedVars, cur, runnerVars, jobVars, stopVars, history>>

HasJob(s) == IF s \in Things THEN queue[s] # <<>> ELSE TRUE

DrainCheck(s) ==
  /\ DrainAt(s, "check", IF HasJob(s) THEN "pop" ELSE "waitJob")
  /\ UNCHANGED <<schedVars, cur, runnerVars, jobVars, stopVars, history>>

DrainWaitJob(s) ==
  /\ jobEv[s]
  /\ DrainAt(s, "waitJob", "clearJob")
  /\ UNCHANGED <<schedVars, cur, runnerVars, jobVars, stopVars, history>>

DrainClearJob(s) ==
  /\ DrainAt(s, "clearJob", "top")
  /\ jobEv' = [jobEv EXCEPT ![s] = FALSE]
  /\ UNCHANGED <<queue, live, request, reply, readyEv, doneEv, cur, runnerVars, jobVars,
                 stopVars, history>>

(* Mutant: the race of the invokation timeout is not awaited.              *)
StartUnsettled(s, j) ==
  /\ DrainAt(s, "pop", "hand")
  /\ cur' = [cur EXCEPT ![s] = j]
  /\ started' = [started EXCEPT ![j] = TRUE]
  /\ UNCHANGED <<live, request, reply, jobEv, readyEv, doneEv, runnerVars, completed, invTask,
                 execTask, answer, stopVars, history>>

(* next_job, then job.started.set().                                       *)
Start(s, j) ==
  /\ DrainAt(s, "pop", IF invTask[j] = "none" THEN "hand" ELSE "settleInv")
  /\ cur' = [cur EXCEPT ![s] = j]
  /\ started' = [started EXCEPT ![j] = TRUE]
  /\ UNCHANGED <<live, request, reply, jobEv, readyEv, doneEv, runnerVars, completed, invTask,
                 execTask, answer, stopVars, history>>

(* Mutant: the newest job first, deque.pop().                              *)
DrainPopNewest(s) ==
  /\ s \in Things /\ queue[s] # <<>>
  /\ Start(s, queue[s][Len(queue[s])])
  /\ queue' = [queue EXCEPT ![s] = SubSeq(@, 1, Len(@) - 1)]

DrainPopQueued(s) ==
  /\ s \in Things /\ queue[s] # <<>>
  /\ Start(s, Head(queue[s]))
  /\ queue' = [queue EXCEPT ![s] = Tail(@)]

(* a one-shot scheduler never forgets its job                              *)
DrainPopOneShot(s) ==
  /\ s \in OneShot
  /\ Start(s, s)
  /\ UNCHANGED queue

(* popleft() of a queue that stop() emptied after has_job was read         *)
DrainPopEmpty(s) ==
  /\ s \in Things /\ queue[s] = <<>>
  /\ DrainAt(s, "pop", "crashed")
  /\ UNCHANGED <<schedVars, cur, runnerVars, jobVars, stopVars, history>>

(* The race of the invokation timeout is settled before anything else.     *)
DrainSettleInv(s) ==
  /\ DrainAt(s, "settleInv", IF invTask[cur[s]] = "expired" THEN "top" ELSE "hand")
  /\ invTask[cur[s]] \in {"expired", "beaten"}
  /\ UNCHANGED <<schedVars, cur, runnerVars, jobVars, stopVars, history>>

(* Mutants: the request is assigned past its setter; the execution timeout *)
(* is not started with the hand-over.                                      *)
DrainHandSilently(s) ==
  /\ DrainAt(s, "hand", "waitReply")
  /\ request' = [request EXCEPT ![s] = cur[s]]
  /\ execTask' = [execTask EXCEPT ![cur[s]] = IF cur[s] \in ExecTimed THEN "pending" ELSE "none"]
  /\ UNCHANGED <<queue, live, reply, jobEv, readyEv, doneEv, cur, runnerVars, started, completed,
                 invTask, answer, stopVars, history>>

DrainHandUntimed(s) ==
  /\ DrainAt(s, "hand", "waitReply")
  /\ request' = [request EXCEPT ![s] = cur[s]]
  /\ readyEv' = [readyEv EXCEPT ![s] = TRUE]
  /\ UNCHANGED <<queue, live, reply, jobEv, doneEv, cur, runnerVars, jobVars, stopVars, history>>

DrainHand(s) ==
  /\ DrainAt(s, "hand", "waitReply")
  /\ request' = [request EXCEPT ![s] = cur[s]]
  /\ readyEv' = [readyEv EXCEPT ![s] = TRUE]
  /\ execTask' = [execTask EXCEPT ![cur[s]] = IF cur[s] \in ExecTimed THEN "pending" ELSE "none"]
  /\ UNCHANGED <<queue, live, reply, jobEv, doneEv, cur, runnerVars, started, completed,
                 invTask, answer, stopVars, history>>

(* Mutant: the drain gives up on the reply once the timeout has answered.  *)
DrainAbandonReply(s) ==
  /\ \/ doneEv[s] /\ DrainAt(s, "waitReply", "clearReply")
     \/ DrainAt(s, "waitReply", "top") /\ execTask[cur[s]] = "expired"
  /\ UNCHANGED <<schedVars, cur, runnerVars, jobVars, stopVars, history>>

DrainWaitReply(s) ==
  /\ doneEv[s]
  /\ DrainAt(s, "waitReply", "clearReply")
  /\ UNCHANGED <<schedVars, cur, runnerVars, jobVars, stopVars, history>>

DrainClearReply(s) ==
  /\ DrainAt(s, "clearReply", IF execTask[cur[s]] = "none" THEN "take" ELSE "settleExec")
  /\ doneEv' = [doneEv EXCEPT ![s] = FALSE]
  /\ completed' = [completed EXCEPT ![cur[s]] = TRUE]
  /\ UNCHANGED <<queue, live, request, reply, jobEv, readyEv, cur, runnerVars, started,
                 invTask, execTask, answer, stopVars, history>>

DrainSettleExec(s) ==
  /\ DrainAt(s, "settleExec", "take")
  /\ execTask[cur[s]] \in {"expired", "beaten"}
  /\ UNCHANGED <<schedVars, cur, runnerVars, jobVars, stopVars, history>>

(* The Thing's reply answers the job, or is dropped when the execution     *)
(* timeout was first; without one the job is answered with a logic error.  *)
DrainTake(s) ==
  /\ DrainAt(s, "take", "top")
  /\ reply' = [reply EXCEPT ![s] = None]
  /\ answer' = IF reply[s] = None THEN Answered(answer, cur[s], Of(cur[s], "NO_REPLY"))
               ELSE IF execTask[cur[s]] = "expired" THEN answer
               ELSE Answered(answer, cur[s], reply[s])
  /\ UNCHANGED <<queue, live, request, jobEv, readyEv, doneEv, cur, runnerVars, started,
                 completed, invTask, execTask, stopVars, history>>

(* Mutant: the runner is not woken.                                        *)
CleanupDrainOnly(s) ==
  /\ queue' = [t \in Things |-> IF t = s THEN <<>> ELSE queue[t]]
  /\ live' = [live EXCEPT ![s] = FALSE]
  /\ jobEv' = [jobEv EXCEPT ![s] = TRUE]
  /\ doneEv' = [doneEv EXCEPT ![s] = TRUE]
  /\ UNCHANGED <<request, reply, readyEv>>

(* Scheduler.cleanup(), QueuedScheduler's clearing its queue first         *)
Cleanup(s) ==
  /\ queue' = [t \in Things |-> IF t = s THEN <<>> ELSE queue[t]]
  /\ live' = [live EXCEPT ![s] = FALSE]
  /\ jobEv' = [jobEv EXCEPT ![s] = TRUE]
  /\ readyEv' = [readyEv EXCEPT ![s] = TRUE]
  /\ doneEv' = [doneEv EXCEPT ![s] = TRUE]
  /\ UNCHANGED <<request, reply>>

DrainCleanup(s) ==
  /\ DrainAt(s, "cleanup", "ended")
  /\ Cleanup(s)
  /\ UNCHANGED <<cur, runnerVars, jobVars, stopVars, history>>

Drain(s) ==
  \/ DrainTop(s) \/ DrainCheck(s) \/ DrainWaitJob(s) \/ DrainClearJob(s)
  \/ DrainPopQueued(s) \/ DrainPopOneShot(s) \/ DrainPopEmpty(s) \/ DrainSettleInv(s)
  \/ DrainHand(s) \/ DrainWaitReply(s) \/ DrainClearReply(s) \/ DrainSettleExec(s)
  \/ DrainTake(s) \/ DrainCleanup(s)

-----------------------------------------------------------------------------
(* EventLoop.run_thing_instance(.., s): on the Thing's thread, on a thread *)
(* of the job's own, or for a coroutine action on the asyncio loop.        *)
CanRun(s) == s \in OneShot /\ Mode(s) = "async" => loop = "open"

RunnerAt(s, from, to) ==
  /\ CanRun(s) /\ runner[s] = from
  /\ runner' = [runner EXCEPT ![s] = to]
  /\ UNCHANGED <<run, loop, caller>>

RunnerTop(s) ==
  /\ RunnerAt(s, "top", IF run /\ live[s] THEN "wait" ELSE "ended")
  /\ UNCHANGED <<schedVars, drainVars, taken, logsBound, jobVars, stopVars, history>>

RunnerWait(s) ==
  /\ readyEv[s]
  /\ RunnerAt(s, "wait", "clear")
  /\ UNCHANGED <<schedVars, drainVars, taken, logsBound, jobVars, stopVars, history>>

RunnerClear(s) ==
  /\ RunnerAt(s, "clear", "read")
  /\ readyEv' = [readyEv EXCEPT ![s] = FALSE]
  /\ UNCHANGED <<queue, live, request, reply, jobEv, doneEv, drainVars, taken, logsBound,
                 jobVars, stopVars, history>>

RunnerRead(s) ==
  /\ RunnerAt(s, "read", IF request[s] = None THEN "top" ELSE "decode")
  /\ taken' = [taken EXCEPT ![s] = request[s]]
  /\ UNCHANGED <<schedVars, drainVars, logsBound, jobVars, stopVars, history>>

(* The payload decodes, and execute_operation() begins.                    *)
RunnerExecute(s) ==
  /\ RunnerAt(s, "decode", "exec")
  /\ logsBound' = [logsBound EXCEPT ![s] = TRUE]
  /\ ran' = [ran EXCEPT ![taken[s]] = @ + 1]
  /\ done' = [t \in Things |-> IF t = s THEN Append(done[t], taken[s]) ELSE done[t]]
  /\ UNCHANGED <<schedVars, drainVars, taken, jobVars, stopVars, sent>>

(* The last_operation_reply setter. It switches a one-shot scheduler off   *)
(* after it has set the event, which only another thread can notice.       *)
Respond(s, from, kind) ==
  /\ RunnerAt(s, from, IF s \in OneShot /\ Mode(s) = "threaded" THEN "unset"
                       ELSE IF kind = "EXIT" THEN "ended" ELSE "top")
  /\ reply' = [reply EXCEPT ![s] = Of(taken[s], kind)]
  /\ request' = [request EXCEPT ![s] = None]
  /\ doneEv' = [doneEv EXCEPT ![s] = TRUE]
  /\ live' = [live EXCEPT ![s] = IF s \in OneShot /\ Mode(s) = "async" THEN FALSE ELSE @]
  /\ UNCHANGED <<queue, jobEv, readyEv, drainVars, taken, logsBound, jobVars, stopVars, history>>

RunnerReturn(s) ==
  \E kind \in Outcomes \cap ReplyKinds : Respond(s, "exec", kind)

RunnerUnset(s) ==
  /\ RunnerAt(s, "unset", "top")
  /\ live' = [live EXCEPT ![s] = FALSE]
  /\ UNCHANGED <<queue, request, reply, jobEv, readyEv, doneEv, drainVars, taken, logsBound,
                 jobVars, stopVars, history>>

(* deserialize() raises. The handler reads fetch_execution_logs, which is  *)
(* assigned only after the payload of some earlier request has decoded.    *)
RunnerUndecodable(s) ==
  /\ "UNDECODABLE" \in Outcomes
  /\ \/ logsBound[s] /\ Respond(s, "decode", "ERROR")
     \/ /\ ~logsBound[s]
        /\ RunnerAt(s, "decode", "dead")
        /\ UNCHANGED <<schedVars, drainVars, taken, logsBound, jobVars, stopVars, history>>

(* The operation is Thing.exit(), which stops the event loop from within.  *)
RunnerCallsStop(s) ==
  /\ "STOP" \in Outcomes /\ stopper[s] = "idle"
  /\ RunnerAt(s, "exec", "stopping")
  /\ stopper' = [stopper EXCEPT ![s] = "off"]
  /\ UNCHANGED <<schedVars, drainVars, taken, logsBound, jobVars, pending, toClean, history>>

RunnerStopped(s) ==
  /\ stopper[s] = "done"
  /\ Respond(s, "stopping", "OK")

RunnerControl(s) ==
  \/ RunnerTop(s) \/ RunnerWait(s) \/ RunnerClear(s) \/ RunnerRead(s) \/ RunnerUnset(s)
  \/ RunnerStopped(s)
RunnerWork(s) == RunnerExecute(s) \/ RunnerReturn(s) \/ RunnerUndecodable(s) \/ RunnerCallsStop(s)

-----------------------------------------------------------------------------
(* EventLoop.stop(), on any thread, by several at once                     *)
StopCall(x) ==
  /\ x \in Callers /\ loop # "none" /\ stopper[x] = "idle"
  /\ stopper' = [stopper EXCEPT ![x] = "off"]
  /\ UNCHANGED <<run, loop, caller, schedVars, drainVars, runnerVars, jobVars, pending,
                 toClean, history>>

StopFlag(x) ==
  /\ stopper[x] = "off"
  /\ run' = FALSE
  /\ stopper' = [stopper EXCEPT ![x] = "clean"]
  /\ toClean' = [toClean EXCEPT ![x] = Things]
  /\ UNCHANGED <<loop, caller, schedVars, drainVars, runnerVars, jobVars, pending, history>>

StopClean(x) ==
  /\ stopper[x] = "clean"
  /\ \E t \in toClean[x] :
       /\ Cleanup(t)
       /\ toClean' = [toClean EXCEPT ![x] = @ \ {t}]
  /\ UNCHANGED <<run, loop, caller, drainVars, runnerVars, jobVars, pending, stopper, history>>

(* pending_operations.clear(): cancel() does nothing to a resolved future  *)
StopClear(x) ==
  /\ stopper[x] = "clean" /\ toClean[x] = {}
  /\ answer' = [j \in Jobs |-> IF j \in pending /\ answer[j] = None THEN Of(j, "CANCELLED")
                               ELSE answer[j]]
  /\ pending' = {}
  /\ stopper' = [stopper EXCEPT ![x] = "done"]
  /\ UNCHANGED <<run, loop, caller, schedVars, drainVars, runnerVars, started, completed,
                 invTask, execTask, toClean, history>>

Stop(x) == StopFlag(x) \/ StopClean(x) \/ StopClear(x)

-----------------------------------------------------------------------------
Submit(j) ==
  \/ SubmitCheck(j) \/ SubmitMake(j) \/ DispatchQueued(j) \/ NotifyQueued(j)
  \/ DispatchOneShot(j) \/ StorePending(j)
Timer(j) == InvExpires(j) \/ InvBeaten(j) \/ ExecExpires(j) \/ ExecBeaten(j)

Next ==
  \/ Run \/ LoopEnds
  \/ \E j \in Jobs : Submit(j) \/ Timer(j)
  \/ \E s \in Scheds : Drain(s) \/ RunnerControl(s) \/ RunnerWork(s)
  \/ \E x \in Stoppers : StopCall(x) \/ Stop(x)

Spec == Init /\ [][Next]_vars

(* The threads keep running: a call of submit() that was accepted goes on, *)
(* the asyncio loop gets to every ready coroutine, a deadline passes, a    *)
(* call of stop() finishes. Nobody has to submit or to stop.               *)
Goes ==
  /\ WF_vars(Run) /\ WF_vars(LoopEnds)
  /\ \A j \in Jobs : /\ WF_vars(caller[j] # "new" /\ Submit(j))
                      /\ WF_vars(InvExpires(j) \/ InvBeaten(j))
                      /\ WF_vars(ExecExpires(j) \/ ExecBeaten(j))
  /\ \A s \in Scheds : WF_vars(Drain(s)) /\ WF_vars(RunnerControl(s))
  /\ \A x \in Stoppers : WF_vars(Stop(x))

(* a Thing may hang in an operation for ever                               *)
HangingSpec == Spec /\ Goes
(* every operation returns                                                 *)
OperationsReturn == \A s \in Scheds : WF_vars(RunnerWork(s))

-----------------------------------------------------------------------------
(* A caller is answered with the outcome of its own operation, never with  *)
(* the reply another job left in the scheduler (eventloop.py:291-293).     *)
ReplyIsForItsJob == \A j \in Jobs : answer[j] # None => answer[j].job = j

(* A caller told that its operation never started can rely on it: the      *)
(* operation is dropped, whoever wins the race (eventloop.py:270-279).     *)
TimedOutNeverExecuted == \A j \in Jobs : invTask[j] = "expired" => ran[j] = 0

(* d holds the elements of q at the positions P, in their order            *)
Selects(d, q, P) ==
  \E at \in [1 .. Len(d) -> P] :
    /\ \A i, k \in 1 .. Len(d) : i < k => at[i] < at[k]
    /\ \A i \in 1 .. Len(d) : d[i] = q[at[i]]
    /\ \A p \in P : \E i \in 1 .. Len(d) : at[i] = p

(* A Thing executes its queued operations in the order of their dispatch   *)
(* and skips only the ones it never executes.                              *)
ExecutedInOrder ==
  \A t \in Things :
    Selects(done[t], sent[t], {p \in 1 .. Len(sent[t]) : ran[sent[t][p]] > 0})

(* What a caller may rely on: JobPromise, for the futures of submit(). No  *)
(* operation reaches its Thing twice, even when a one-shot scheduler hands *)
(* it over again, and the first answer stands.                             *)
Outcome == [j \in Jobs |-> IF answer[j] = None THEN "open" ELSE answer[j].kind]
Promise == INSTANCE JobPromise WITH executed <- ran, outcome <- Outcome
KeepsPromise == Promise!Spec

-----------------------------------------------------------------------------
Accepted(j) == caller[j] \notin {"new", "make", "refused"}
Settled(j) == answer[j] # None \/ caller[j] = "refused" \/ ~run

(* As long as the event loop is not stopped, every accepted operation is   *)
(* answered, however it is scheduled, if operations return (submit():      *)
(* "resolved with a `Reply`").                                             *)
EveryJobAnswered == OperationsReturn => \A j \in Jobs : Accepted(j) ~> Settled(j)

(* With both timeouts a caller is answered even if the Thing hangs in an   *)
(* earlier operation or in this one.                                       *)
TimedJobAnswered == \A j \in InvTimed \cap ExecTimed : Accepted(j) ~> Settled(j)

(* Once stop() was called, run() returns and no thread of a Thing is left  *)
(* waiting, however the stop meets the hand-overs, if operations return.   *)
StopEndsEverything ==
  OperationsReturn =>
    (~run /\ loop = "open" ~> loop = "closed" /\ \A t \in Things : runner[t] = "ended")

-----------------------------------------------------------------------------
(* What comments and docstrings of the code say and the code does not do:  *)
(* the runs named after these properties find them violated.               *)

(* "the reply should never be undefined" when the drain reads it           *)
(* (eventloop.py:299-302).                                                 *)
AlwaysAReply == \A j \in Jobs : answer[j] # None => answer[j].kind # "NO_REPLY"

(* "the drain loop is the only consumer" of a Thing's queue                *)
(* (scheduler.py:145): what has_job saw is there for next_job.             *)
OnlyConsumer == \A t \in Things : drain[t] # "crashed"

(* The "one-shot mode" of a scheduler (scheduler.py:38) hands a job over   *)
(* once, never again after its operation has completed.                    *)
OneShotHandsOnce == \A s \in OneShot : drain[s] = "hand" => ~completed[s]
=============================================================================
