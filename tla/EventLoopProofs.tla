--------------------------- MODULE EventLoopProofs ---------------------------
(* Proofs about EventLoop, for every set of Things, jobs and threads.      *)
EXTENDS EventLoop, SequenceFacts

(* While it works on a request, the runner has one.                        *)
WorkHasJob == \A s \in Scheds : runner[s] \in {"decode", "exec", "stopping"} => taken[s] \in Jobs

TypeInv == TypeOK /\ WorkHasJob

USE DEF Scheds, OneShot, Stoppers

LEMMA TypeInit == Init => TypeInv
<1> SUFFICES ASSUME Init PROVE TypeInv
  OBVIOUS
<1>1. \A t \in Things : <<>> \in Seq(Jobs)
  OBVIOUS
<1>2. TypeOK
  BY <1>1 DEF Init, TypeOK
<1>3. WorkHasJob
  BY DEF Init, WorkHasJob
<1> QED
  BY <1>2, <1>3 DEF TypeInv

LEMMA TypeSubmit ==
  ASSUME TypeInv, NEW j \in Jobs, Submit(j)
  PROVE  TypeInv'
<1> USE ConstantsAssumption DEF TypeInv, TypeOK, WorkHasJob, schedVars, drainVars, runnerVars,
        jobVars, stopVars, history
<1>1. CASE SubmitCheck(j)
  BY <1>1 DEF SubmitCheck
<1>2. CASE SubmitMake(j)
  <2>1. CASE j \in InvTimed /\ loop # "open"
    <3>1. caller' = [caller EXCEPT ![j] = "refused"] /\ invTask' = invTask
      BY <1>2, <2>1 DEF SubmitMake
    <3>2. UNCHANGED <<run, loop, schedVars, drainVars, runnerVars, started, completed, execTask,
                      answer, stopVars, history>>
      BY <1>2 DEF SubmitMake
    <3> QED
      BY <3>1, <3>2
  <2>2. CASE ~(j \in InvTimed /\ loop # "open")
    <3>1. /\ caller' = [caller EXCEPT ![j] = "dispatch"]
          /\ invTask' = [invTask EXCEPT ![j] = IF j \in InvTimed THEN "pending" ELSE "none"]
      BY <1>2, <2>2 DEF SubmitMake
    <3>2. UNCHANGED <<run, loop, schedVars, drainVars, runnerVars, started, completed, execTask,
                      answer, stopVars, history>>
      BY <1>2 DEF SubmitMake
    <3> QED
      BY <3>1, <3>2
  <2> QED
    BY <2>1, <2>2
<1>3. CASE DispatchQueued(j)
  BY <1>3 DEF DispatchQueued
<1>4. CASE NotifyQueued(j)
  BY <1>4 DEF NotifyQueued, Dispatched
<1>5. CASE DispatchOneShot(j)
  <2>1. UNCHANGED <<run, loop, queue, live, request, reply, readyEv, doneEv, cur, taken,
                    logsBound, jobVars, stopVars, history>>
    BY <1>5 DEF DispatchOneShot
  <2>2. CASE loop # "open"
    <3>1. caller' = [caller EXCEPT ![j] = "refused"] /\ UNCHANGED <<drain, runner, jobEv>>
      BY <1>5, <2>2 DEF DispatchOneShot
    <3> QED
      BY <2>1, <3>1
  <2>3. CASE loop = "open"
    <3>1. /\ caller' = [caller EXCEPT ![j] = Dispatched(j)]
          /\ drain' = [drain EXCEPT ![j] = "top"]
          /\ runner' = [runner EXCEPT ![j] = "top"]
          /\ jobEv' = [jobEv EXCEPT ![j] = TRUE]
      BY <1>5, <2>3 DEF DispatchOneShot
    <3> QED
      BY <2>1, <3>1 DEF Dispatched
  <2> QED
    BY <2>2, <2>3
<1>6. CASE StorePending(j)
  <2>1. /\ caller' = [caller EXCEPT ![j] = "waiting"]
        /\ pending' = pending \cup {j}
    BY <1>6 DEF StorePending
  <2>2. UNCHANGED <<run, loop, queue, live, request, reply, jobEv, readyEv, doneEv, drain, cur,
                    runner, taken, logsBound, started, completed, invTask, execTask, answer,
                    stopper, toClean, ran, sent, done>>
    BY <1>6 DEF StorePending
  <2> QED
    BY SMTT(30), <2>1, <2>2
<1> QED
  BY <1>1, <1>2, <1>3, <1>4, <1>5, <1>6 DEF Submit

LEMMA TypeTimer ==
  ASSUME TypeInv, NEW j \in Jobs, Timer(j)
  PROVE  TypeInv'
<1> USE ConstantsAssumption DEF TypeInv, TypeOK, WorkHasJob, schedVars, drainVars, runnerVars,
        jobVars, stopVars, history
<1>1. CASE InvExpires(j)
  BY SMTT(20), <1>1 DEF InvExpires, Answered, Of, Answers, AnswerKinds
<1>2. CASE InvBeaten(j)
  BY <1>2 DEF InvBeaten
<1>3. CASE ExecExpires(j)
  BY <1>3 DEF ExecExpires, Answered, Of, Answers, AnswerKinds
<1>4. CASE ExecBeaten(j)
  BY <1>4 DEF ExecBeaten
<1> QED
  BY <1>1, <1>2, <1>3, <1>4 DEF Timer

LEMMA TypeDrain ==
  ASSUME TypeInv, NEW s \in Scheds, Drain(s)
  PROVE  TypeInv'
<1> USE ConstantsAssumption DEF TypeInv, TypeOK, WorkHasJob, schedVars, drainVars, runnerVars,
        jobVars, stopVars, history
<1>1. CASE DrainTop(s)
  BY <1>1 DEF DrainTop, DrainAt
<1>2. CASE DrainCheck(s)
  BY <1>2 DEF DrainCheck, DrainAt
<1>3. CASE DrainWaitJob(s)
  BY <1>3 DEF DrainWaitJob, DrainAt
<1>4. CASE DrainClearJob(s)
  BY <1>4 DEF DrainClearJob, DrainAt
<1>5. CASE DrainPopQueued(s)
  <2>1. queue[s] \in Seq(Jobs) /\ queue[s] # <<>>
    BY <1>5 DEF DrainPopQueued
  <2>2. Head(queue[s]) \in Jobs /\ Tail(queue[s]) \in Seq(Jobs)
    BY <2>1
  <2>3. queue' \in [Things -> Seq(Jobs)]
    BY <1>5, <2>2 DEF DrainPopQueued
  <2> QED
    BY <1>5, <2>2, <2>3 DEF DrainPopQueued, DrainAt, Start
<1>6. CASE DrainPopOneShot(s)
  BY <1>6 DEF DrainPopOneShot, DrainAt, Start
<1>7. CASE DrainPopEmpty(s)
  BY <1>7 DEF DrainPopEmpty, DrainAt
<1>8. CASE DrainSettleInv(s)
  BY <1>8 DEF DrainSettleInv, DrainAt
<1>9. CASE DrainHand(s)
  BY <1>9 DEF DrainHand, DrainAt
<1>10. CASE DrainWaitReply(s)
  BY <1>10 DEF DrainWaitReply, DrainAt
<1>11. CASE DrainClearReply(s)
  BY <1>11 DEF DrainClearReply, DrainAt
<1>12. CASE DrainSettleExec(s)
  BY <1>12 DEF DrainSettleExec, DrainAt
<1>13. CASE DrainTake(s)
  <2>1. reply[s] # None => reply[s] \in Answers
    BY DEF Answers, AnswerKinds, Replies
  <2>2. cur[s] \in Jobs => Of(cur[s], "NO_REPLY") \in Answers
    BY DEF Of, Answers, AnswerKinds
  <2>3. answer' \in [Jobs -> Answers \cup {None}]
    <3>1. \/ answer' = Answered(answer, cur[s], Of(cur[s], "NO_REPLY"))
          \/ answer' = answer
          \/ reply[s] # None /\ answer' = Answered(answer, cur[s], reply[s])
      BY <1>13 DEF DrainTake
    <3>2. ASSUME NEW j \in Jobs, NEW with \in Answers
          PROVE  Answered(answer, j, with) \in [Jobs -> Answers \cup {None}]
      BY DEF Answered
    <3>3. ASSUME NEW with PROVE Answered(answer, None, with) = answer
      BY DEF Answered
    <3>4. CASE cur[s] \in Jobs
      BY <3>1, <3>2, <3>4, <2>1, <2>2
    <3>5. CASE cur[s] = None
      BY <3>1, <3>3, <3>5
    <3> QED
      BY <3>4, <3>5
  <2> QED
    BY <1>13, <2>3 DEF DrainTake, DrainAt
<1>14. CASE DrainCleanup(s)
  BY SMTT(30), <1>14 DEF DrainCleanup, DrainAt, Cleanup
<1> QED
  BY <1>1, <1>2, <1>3, <1>4, <1>5, <1>6, <1>7, <1>8, <1>9, <1>10, <1>11, <1>12, <1>13, <1>14 DEF Drain

LEMMA TypeRespond ==
  ASSUME TypeInv, NEW s \in Scheds, NEW from \in {"decode", "exec", "stopping"},
         NEW kind \in ReplyKinds, Respond(s, from, kind)
  PROVE  TypeInv'
<1> USE ConstantsAssumption DEF TypeInv, TypeOK, WorkHasJob, schedVars, drainVars, runnerVars,
        jobVars, stopVars, history
<1>1. Of(taken[s], kind) \in Replies
  BY DEF Respond, RunnerAt, Of, Replies
<1> QED
  BY <1>1 DEF Respond, RunnerAt

LEMMA TypeRunnerControl ==
  ASSUME TypeInv, NEW s \in Scheds, RunnerControl(s)
  PROVE  TypeInv'
<1> USE ConstantsAssumption DEF TypeInv, TypeOK, WorkHasJob, schedVars, drainVars, runnerVars,
        jobVars, stopVars, history
<1>1. CASE RunnerTop(s)
  BY <1>1 DEF RunnerTop, RunnerAt
<1>2. CASE RunnerWait(s)
  BY <1>2 DEF RunnerWait, RunnerAt
<1>3. CASE RunnerClear(s)
  BY <1>3 DEF RunnerClear, RunnerAt
<1>4. CASE RunnerRead(s)
  BY <1>4 DEF RunnerRead, RunnerAt
<1>5. CASE RunnerUnset(s)
  BY <1>5 DEF RunnerUnset, RunnerAt
<1>6. CASE RunnerStopped(s)
  BY <1>6, TypeRespond DEF RunnerStopped, ReplyKinds
<1> QED
  BY <1>1, <1>2, <1>3, <1>4, <1>5, <1>6 DEF RunnerControl

LEMMA TypeRunnerWork ==
  ASSUME TypeInv, NEW s \in Scheds, RunnerWork(s)
  PROVE  TypeInv'
<1> USE ConstantsAssumption DEF TypeInv, TypeOK, WorkHasJob, schedVars, drainVars, runnerVars,
        jobVars, stopVars, history
<1>1. CASE RunnerExecute(s)
  <2>1. taken[s] \in Jobs
    BY <1>1 DEF RunnerExecute, RunnerAt
  <2>2. \A t \in Things : Append(done[t], taken[s]) \in Seq(Jobs)
    BY <2>1
  <2>3. done' \in [Things -> Seq(Jobs)]
    BY <1>1, <2>2 DEF RunnerExecute
  <2>4. ran' \in [Jobs -> Nat]
    <3>1. ran[taken[s]] + 1 \in Nat
      BY <2>1
    <3>2. ran' = [ran EXCEPT ![taken[s]] = ran[taken[s]] + 1]
      BY <1>1 DEF RunnerExecute
    <3> QED
      BY <3>1, <3>2
  <2> QED
    BY <1>1, <2>3, <2>4 DEF RunnerExecute, RunnerAt
<1>2. CASE RunnerReturn(s)
  <2> PICK kind \in Outcomes \cap ReplyKinds : Respond(s, "exec", kind)
    BY <1>2 DEF RunnerReturn
  <2> QED
    BY TypeRespond
<1>3. CASE RunnerUndecodable(s)
  <2>1. CASE Respond(s, "decode", "ERROR")
    BY <2>1, TypeRespond DEF ReplyKinds
  <2>2. CASE RunnerAt(s, "decode", "dead") /\ UNCHANGED <<schedVars, drainVars, taken, logsBound,
                                                         jobVars, stopVars, history>>
    BY <2>2 DEF RunnerAt
  <2> QED
    BY <1>3, <2>1, <2>2 DEF RunnerUndecodable
<1>4. CASE RunnerCallsStop(s)
  BY <1>4 DEF RunnerCallsStop, RunnerAt
<1> QED
  BY <1>1, <1>2, <1>3, <1>4 DEF RunnerWork

LEMMA TypeStop ==
  ASSUME TypeInv, NEW x \in Stoppers, Stop(x)
  PROVE  TypeInv'
<1> USE ConstantsAssumption DEF TypeInv, TypeOK, WorkHasJob, schedVars, drainVars, runnerVars,
        jobVars, stopVars, history
<1>1. CASE StopFlag(x)
  BY <1>1 DEF StopFlag
<1>2. CASE StopClean(x)
  <2> PICK t \in toClean[x] : Cleanup(t) /\ toClean' = [toClean EXCEPT ![x] = toClean[x] \ {t}]
    BY <1>2 DEF StopClean
  <2>1. UNCHANGED <<run, loop, caller, drainVars, runnerVars, jobVars, pending, stopper, history>>
    BY <1>2 DEF StopClean
  <2>2. toClean' \in [Stoppers -> SUBSET Things]
    OBVIOUS
  <2>3. queue' \in [Things -> Seq(Jobs)] /\ live' \in [Scheds -> BOOLEAN]
    BY DEF Cleanup
  <2>4. jobEv' \in [Scheds -> BOOLEAN] /\ readyEv' \in [Scheds -> BOOLEAN] /\ doneEv' \in [Scheds -> BOOLEAN]
    BY DEF Cleanup
  <2>5. UNCHANGED <<request, reply>>
    BY DEF Cleanup
  <2> QED
    BY <2>1, <2>2, <2>3, <2>4, <2>5
<1>3. CASE StopClear(x)
  BY <1>3 DEF StopClear, Of, Answers, AnswerKinds
<1> QED
  BY <1>1, <1>2, <1>3 DEF Stop

LEMMA TypeNext == TypeInv /\ [Next]_vars => TypeInv'
<1> SUFFICES ASSUME TypeInv, [Next]_vars PROVE TypeInv'
  OBVIOUS
<1> USE ConstantsAssumption DEF TypeInv, TypeOK, WorkHasJob, schedVars, drainVars, runnerVars,
        jobVars, stopVars, history
<1>1. CASE Run
  BY <1>1 DEF Run
<1>2. CASE LoopEnds
  BY <1>2 DEF LoopEnds
<1>3. ASSUME NEW x \in Stoppers, StopCall(x) PROVE TypeInv'
  BY <1>3 DEF StopCall
<1>4. CASE UNCHANGED vars
  BY <1>4 DEF vars
<1> QED
  BY <1>1, <1>2, <1>3, <1>4, TypeSubmit, TypeTimer, TypeDrain, TypeRunnerControl, TypeRunnerWork,
     TypeStop DEF Next

(* Every variable has its type, and a runner at work has a request to work *)
(* on although stop() interrupts its wait without handing one over.        *)
THEOREM TypeCorrect == Spec => []TypeOK
<1>1. TypeInv => TypeOK
  BY DEF TypeInv
<1> QED
  BY <1>1, TypeInit, TypeNext, PTL DEF Spec
-----------------------------------------------------------------------------
(* The invokation timeout. A job that some scheduler holds was dispatched, *)
(* so its timeout started long ago; one that went past the settling of the *)
(* race is not timed by it any more, whatever becomes of the job.          *)
Past == {"notify", "store", "waiting"}
Working(s) == runner[s] \in {"decode", "exec", "stopping"}
Untimed(j) == caller[j] \in Past /\ invTask[j] \in {"none", "beaten"}

QueuedPast == \A t \in Things : \A i \in 1 .. Len(queue[t]) : caller[queue[t][i]] \in Past
OneShotPast == \A s \in OneShot : drain[s] # "off" => caller[s] \in Past
CurPast ==
  \A s \in Scheds : drain[s] \in {"settleInv", "hand"} => cur[s] \in Jobs /\ caller[cur[s]] \in Past
HandedUntimed ==
  \A s \in Scheds : /\ drain[s] = "hand" => Untimed(cur[s])
                    /\ request[s] # None => Untimed(request[s])
                    /\ Working(s) => Untimed(taken[s])
ExecutedUntimed == \A j \in Jobs : ran[j] > 0 => Untimed(j)

TimeoutConj == QueuedPast /\ OneShotPast /\ CurPast /\ HandedUntimed /\ ExecutedUntimed

LEMMA SubmitKeepsPast ==
  ASSUME TypeInv, NEW j \in Jobs, Submit(j)
  PROVE  /\ \A i \in Jobs : caller[i] \in Past => caller'[i] \in Past /\ invTask'[i] = invTask[i]
         /\ UNCHANGED <<cur, request, taken, ran>>
<1> USE ConstantsAssumption DEF TypeInv, TypeOK, WorkHasJob, schedVars, drainVars, runnerVars,
        jobVars, stopVars, history, Past
<1>1. CASE SubmitCheck(j)
  BY <1>1 DEF SubmitCheck
<1>2. CASE SubmitMake(j)
  <2>1. /\ caller[j] = "make" /\ UNCHANGED <<cur, request, taken, ran>>
        /\ \A i \in Jobs \ {j} : caller'[i] = caller[i] /\ invTask'[i] = invTask[i]
    BY <1>2 DEF SubmitMake
  <2> QED
    BY <2>1
<1>3. CASE DispatchQueued(j)
  BY <1>3 DEF DispatchQueued
<1>4. CASE NotifyQueued(j)
  BY <1>4 DEF NotifyQueued, Dispatched
<1>5. CASE DispatchOneShot(j)
  <2>1. /\ caller[j] = "dispatch" /\ UNCHANGED <<cur, request, taken, ran, invTask>>
        /\ \A i \in Jobs \ {j} : caller'[i] = caller[i]
    BY <1>5 DEF DispatchOneShot
  <2> QED
    BY <2>1
<1>6. CASE StorePending(j)
  BY <1>6 DEF StorePending
<1> QED
  BY <1>1, <1>2, <1>3, <1>4, <1>5, <1>6 DEF Submit

LEMMA SubmitStarts ==
  ASSUME TypeInv, NEW j \in Jobs, Submit(j)
  PROVE  \A s \in Scheds : \/ drain'[s] = drain[s] /\ runner'[s] = runner[s]
                           \/ s = j /\ drain'[s] = "top" /\ runner'[s] = "top" /\ caller'[s] \in Past
<1> USE ConstantsAssumption DEF TypeInv, TypeOK, WorkHasJob, schedVars, drainVars, runnerVars,
        jobVars, stopVars, history, Past
<1>1. CASE SubmitCheck(j)
  BY <1>1 DEF SubmitCheck
<1>2. CASE SubmitMake(j)
  BY <1>2 DEF SubmitMake
<1>3. CASE DispatchQueued(j)
  BY <1>3 DEF DispatchQueued
<1>4. CASE NotifyQueued(j)
  BY <1>4 DEF NotifyQueued
<1>5. CASE DispatchOneShot(j)
  <2>1. CASE loop # "open"
    <3>1. UNCHANGED <<drain, runner>>
      BY <1>5, <2>1 DEF DispatchOneShot
    <3> QED
      BY <3>1
  <2>2. CASE loop = "open"
    <3>1. /\ caller' = [caller EXCEPT ![j] = Dispatched(j)]
          /\ drain' = [drain EXCEPT ![j] = "top"]
          /\ runner' = [runner EXCEPT ![j] = "top"]
      BY <1>5, <2>2 DEF DispatchOneShot
    <3> QED
      BY <3>1 DEF Dispatched
  <2> QED
    BY <2>1, <2>2
<1>6. CASE StorePending(j)
  BY <1>6 DEF StorePending
<1> QED
  BY <1>1, <1>2, <1>3, <1>4, <1>5, <1>6 DEF Submit

LEMMA SubmitQueues ==
  ASSUME TypeInv, NEW j \in Jobs, Submit(j)
  PROVE  \/ queue' = queue
         \/ /\ caller'[j] \in Past
            /\ queue' = [queue EXCEPT ![ThingOf[j]] = Append(queue[ThingOf[j]], j)]
<1>1. DispatchQueued(j) \/ queue' = queue
  BY DEF Submit, SubmitCheck, SubmitMake, NotifyQueued, DispatchOneShot, StorePending, schedVars
<1>2. CASE DispatchQueued(j)
  <2>1. caller'[j] \in Past
    BY <1>2 DEF DispatchQueued, TypeInv, TypeOK, Past
  <2>2. queue' = [queue EXCEPT ![ThingOf[j]] = Append(queue[ThingOf[j]], j)]
    BY <1>2 DEF DispatchQueued
  <2> QED
    BY <2>1, <2>2
<1> QED
  BY <1>1, <1>2

LEMMA TimeoutSubmit ==
  ASSUME TypeInv, TimeoutConj, NEW j \in Jobs, Submit(j)
  PROVE  TimeoutConj'
<1>1. /\ \A i \in Jobs : caller[i] \in Past => caller'[i] \in Past /\ invTask'[i] = invTask[i]
      /\ UNCHANGED <<cur, request, taken, ran>>
  BY SubmitKeepsPast
<1>2. \A s \in Scheds : \/ drain'[s] = drain[s] /\ runner'[s] = runner[s]
                        \/ s = j /\ drain'[s] = "top" /\ runner'[s] = "top" /\ caller'[s] \in Past
  BY SubmitStarts
<1>3. QueuedPast'
  <2>1. CASE queue' = queue
    <3> SUFFICES ASSUME NEW t \in Things, NEW i \in 1 .. Len(queue[t])
                 PROVE  caller'[queue[t][i]] \in Past
      BY <2>1 DEF QueuedPast
    <3>1. queue[t] \in Seq(Jobs)
      BY DEF TypeInv, TypeOK
    <3>2. queue[t][i] \in Jobs
      BY <3>1
    <3> QED
      BY <1>1, <3>2 DEF TimeoutConj, QueuedPast
  <2>2. CASE caller'[j] \in Past
             /\ queue' = [queue EXCEPT ![ThingOf[j]] = Append(queue[ThingOf[j]], j)]
    <3> SUFFICES ASSUME NEW t \in Things, NEW i \in 1 .. Len(queue'[t])
                 PROVE  caller'[queue'[t][i]] \in Past
      BY DEF QueuedPast
    <3>1. queue[t] \in Seq(Jobs)
      BY DEF TypeInv, TypeOK
    <3>2. queue'[t] = queue[t] \/ queue'[t] = Append(queue[t], j)
      BY <2>2 DEF TypeInv, TypeOK
    <3>3. CASE i \in 1 .. Len(queue[t])
      <4>1. queue[t][i] \in Jobs
        BY <3>1, <3>3
      <4>2. queue'[t][i] = queue[t][i]
        BY <3>1, <3>2, <3>3
      <4> QED
        BY <1>1, <3>3, <4>1, <4>2 DEF TimeoutConj, QueuedPast
    <3>4. CASE i \notin 1 .. Len(queue[t])
      <4>1. queue'[t] = Append(queue[t], j)
        BY <3>2, <3>4
      <4>2. queue'[t][i] = j
        BY <3>1, <3>4, <4>1
      <4> QED
        BY <2>2, <4>2
    <3> QED
      BY <3>3, <3>4
  <2> QED
    BY <2>1, <2>2, SubmitQueues
<1>4. OneShotPast'
  BY <1>1, <1>2 DEF TimeoutConj, OneShotPast
<1>5. CurPast'
  BY <1>1, <1>2 DEF TimeoutConj, CurPast
<1>6. HandedUntimed'
  <2> SUFFICES ASSUME NEW s \in Scheds
               PROVE  /\ drain'[s] = "hand" => Untimed(cur[s])'
                      /\ request'[s] # None => Untimed(request[s])'
                      /\ Working(s)' => Untimed(taken[s])'
    BY DEF HandedUntimed
  <2>1. \A i \in Jobs : Untimed(i) => Untimed(i)'
    BY <1>1 DEF Untimed
  <2>2. drain'[s] = "hand" => cur[s] \in Jobs /\ Untimed(cur[s])
    BY <1>2 DEF TimeoutConj, HandedUntimed, CurPast
  <2>3. request'[s] # None => request[s] \in Jobs /\ Untimed(request[s])
    BY <1>1 DEF TimeoutConj, HandedUntimed, TypeInv, TypeOK
  <2>4. Working(s)' => taken[s] \in Jobs /\ Untimed(taken[s])
    BY <1>2 DEF TimeoutConj, HandedUntimed, TypeInv, WorkHasJob, Working
  <2> QED
    BY <1>1, <2>1, <2>2, <2>3, <2>4
<1>7. ExecutedUntimed'
  BY <1>1 DEF TimeoutConj, ExecutedUntimed, Untimed
<1> QED
  BY <1>3, <1>4, <1>5, <1>6, <1>7 DEF TimeoutConj

LEMMA TimeoutTimer ==
  ASSUME TypeInv, TimeoutConj, NEW j \in Jobs, Timer(j)
  PROVE  TimeoutConj'
<1> USE ConstantsAssumption DEF TypeInv, TypeOK, WorkHasJob, schedVars, drainVars, runnerVars,
        jobVars, stopVars, history, Past, Working, Untimed, QueuedPast, OneShotPast, CurPast,
        HandedUntimed, ExecutedUntimed, TimeoutConj
<1>1. CASE InvExpires(j)
  BY <1>1 DEF InvExpires
<1>2. CASE InvBeaten(j)
  BY <1>2 DEF InvBeaten
<1>3. CASE ExecExpires(j)
  BY <1>3 DEF ExecExpires
<1>4. CASE ExecBeaten(j)
  BY <1>4 DEF ExecBeaten
<1> QED
  BY <1>1, <1>2, <1>3, <1>4 DEF Timer

LEMMA EmptiedPast ==
  ASSUME TypeInv, TimeoutConj, NEW s, Cleanup(s), UNCHANGED caller
  PROVE  QueuedPast'
<1> SUFFICES ASSUME NEW t \in Things, NEW i \in 1 .. Len(queue'[t])
             PROVE  caller'[queue'[t][i]] \in Past
  BY DEF QueuedPast
<1>1. CASE t = s
  BY <1>1 DEF Cleanup
<1>2. CASE t # s
  BY <1>2 DEF Cleanup, TimeoutConj, QueuedPast
<1> QED
  BY <1>1, <1>2

LEMMA TimeoutDrain ==
  ASSUME TypeInv, TimeoutConj, NEW s \in Scheds, Drain(s)
  PROVE  TimeoutConj'
<1> USE ConstantsAssumption DEF TypeInv, TypeOK, WorkHasJob, schedVars, drainVars, runnerVars,
        jobVars, stopVars, history, Past, Working, Untimed, QueuedPast, OneShotPast, CurPast,
        HandedUntimed, ExecutedUntimed, TimeoutConj
<1>1. CASE DrainTop(s)
  BY <1>1 DEF DrainTop, DrainAt
<1>2. CASE DrainCheck(s)
  BY <1>2 DEF DrainCheck, DrainAt
<1>3. CASE DrainWaitJob(s)
  BY <1>3 DEF DrainWaitJob, DrainAt
<1>4. CASE DrainClearJob(s)
  BY <1>4 DEF DrainClearJob, DrainAt
<1>5. CASE DrainPopQueued(s)
  <2> DEFINE j == Head(queue[s])
  <2>1. queue[s] \in Seq(Jobs) /\ queue[s] # <<>>
    BY <1>5 DEF DrainPopQueued
  <2>2. j \in Jobs /\ j = queue[s][1] /\ Tail(queue[s]) \in Seq(Jobs)
    BY <2>1
  <2>3. caller[j] \in Past
    BY <1>5, <2>1, <2>2 DEF DrainPopQueued
  <2>4. QueuedPast'
    <3> SUFFICES ASSUME NEW t \in Things, NEW i \in 1 .. Len(queue'[t])
                 PROVE  caller[queue'[t][i]] \in Past
      BY <1>5 DEF DrainPopQueued, Start, DrainAt
    <3>1. CASE t # s
      BY <1>5, <3>1 DEF DrainPopQueued
    <3>2. CASE t = s
      <4>1. queue'[t] = Tail(queue[s])
        BY <1>5, <3>2 DEF DrainPopQueued
      <4>2. i + 1 \in 1 .. Len(queue[s]) /\ queue'[t][i] = queue[s][i + 1]
        <5>1. /\ Len(queue[s]) \in Nat
              /\ Len(Tail(queue[s])) = Len(queue[s]) - 1
              /\ \A k \in 1 .. Len(Tail(queue[s])) : Tail(queue[s])[k] = queue[s][k + 1]
          BY SMTT(20), <2>1, HeadTailProperties, LenProperties
        <5>2. i \in 1 .. Len(Tail(queue[s]))
          BY <3>2, <4>1
        <5> QED
          BY <3>2, <4>1, <5>1, <5>2
      <4> QED
        BY <3>2, <4>2
    <3> QED
      BY <3>1, <3>2
  <2>5. UNCHANGED <<caller, request, runner, taken, ran, invTask>>
    BY <1>5 DEF DrainPopQueued, Start, DrainAt
  <2>6. /\ drain' = [drain EXCEPT ![s] = IF invTask[j] = "none" THEN "hand" ELSE "settleInv"]
        /\ cur' = [cur EXCEPT ![s] = j]
        /\ s \in Things
    BY <1>5 DEF DrainPopQueued, Start, DrainAt
  <2> HIDE DEF j
  <2> QED
    BY SMTT(20), <2>2, <2>3, <2>4, <2>5, <2>6
<1>6. CASE DrainPopOneShot(s)
  BY <1>6 DEF DrainPopOneShot, DrainAt, Start
<1>7. CASE DrainPopEmpty(s)
  BY <1>7 DEF DrainPopEmpty, DrainAt
<1>8. CASE DrainSettleInv(s)
  BY <1>8 DEF DrainSettleInv, DrainAt
<1>9. CASE DrainHand(s)
  BY <1>9 DEF DrainHand, DrainAt
<1>10. CASE DrainWaitReply(s)
  BY <1>10 DEF DrainWaitReply, DrainAt
<1>11. CASE DrainClearReply(s)
  BY <1>11 DEF DrainClearReply, DrainAt
<1>12. CASE DrainSettleExec(s)
  BY <1>12 DEF DrainSettleExec, DrainAt
<1>13. CASE DrainTake(s)
  BY <1>13 DEF DrainTake, DrainAt
<1>14. CASE DrainCleanup(s)
  <2>1. QueuedPast'
    BY <1>14, EmptiedPast DEF DrainCleanup, DrainAt
  <2> QED
    BY <1>14, <2>1 DEF DrainCleanup, DrainAt, Cleanup
<1> QED
  BY <1>1, <1>2, <1>3, <1>4, <1>5, <1>6, <1>7, <1>8, <1>9, <1>10, <1>11, <1>12, <1>13, <1>14 DEF Drain

LEMMA TimeoutRespond ==
  ASSUME TypeInv, TimeoutConj, NEW s \in Scheds, NEW from, NEW kind, Respond(s, from, kind)
  PROVE  TimeoutConj'
<1> USE ConstantsAssumption DEF TypeInv, TypeOK, WorkHasJob, schedVars, drainVars, runnerVars,
        jobVars, stopVars, history, Past, Working, Untimed, QueuedPast, OneShotPast, CurPast,
        HandedUntimed, ExecutedUntimed, TimeoutConj
<1> QED
  BY DEF Respond, RunnerAt

LEMMA TimeoutRunnerControl ==
  ASSUME TypeInv, TimeoutConj, NEW s \in Scheds, RunnerControl(s)
  PROVE  TimeoutConj'
<1> USE ConstantsAssumption DEF TypeInv, TypeOK, WorkHasJob, schedVars, drainVars, runnerVars,
        jobVars, stopVars, history, Past, Working, Untimed, QueuedPast, OneShotPast, CurPast,
        HandedUntimed, ExecutedUntimed, TimeoutConj
<1>1. CASE RunnerTop(s)
  BY <1>1 DEF RunnerTop, RunnerAt
<1>2. CASE RunnerWait(s)
  BY <1>2 DEF RunnerWait, RunnerAt
<1>3. CASE RunnerClear(s)
  BY <1>3 DEF RunnerClear, RunnerAt
<1>4. CASE RunnerRead(s)
  BY <1>4 DEF RunnerRead, RunnerAt
<1>5. CASE RunnerUnset(s)
  BY <1>5 DEF RunnerUnset, RunnerAt
<1>6. CASE RunnerStopped(s)
  BY SMTT(30), <1>6 DEF RunnerStopped, RunnerAt, Respond
<1> QED
  BY <1>1, <1>2, <1>3, <1>4, <1>5, <1>6 DEF RunnerControl

LEMMA TimeoutRunnerWork ==
  ASSUME TypeInv, TimeoutConj, NEW s \in Scheds, RunnerWork(s)
  PROVE  TimeoutConj'
<1> USE ConstantsAssumption DEF TypeInv, TypeOK, WorkHasJob, schedVars, drainVars, runnerVars,
        jobVars, stopVars, history, Past, Working, Untimed, QueuedPast, OneShotPast, CurPast,
        HandedUntimed, ExecutedUntimed, TimeoutConj
<1>1. CASE RunnerExecute(s)
  BY <1>1 DEF RunnerExecute, RunnerAt
<1>2. CASE RunnerReturn(s)
  BY <1>2, TimeoutRespond DEF RunnerReturn
<1>3. CASE RunnerUndecodable(s)
  <2>1. CASE Respond(s, "decode", "ERROR")
    BY <2>1, TimeoutRespond
  <2>2. CASE RunnerAt(s, "decode", "dead") /\ UNCHANGED <<schedVars, drainVars, taken, logsBound,
                                                         jobVars, stopVars, history>>
    BY <2>2 DEF RunnerAt
  <2> QED
    BY <1>3, <2>1, <2>2 DEF RunnerUndecodable
<1>4. CASE RunnerCallsStop(s)
  BY <1>4 DEF RunnerCallsStop, RunnerAt
<1> QED
  BY <1>1, <1>2, <1>3, <1>4 DEF RunnerWork

LEMMA TimeoutStop ==
  ASSUME TypeInv, TimeoutConj, NEW x \in Stoppers, Stop(x)
  PROVE  TimeoutConj'
<1> USE ConstantsAssumption DEF TypeInv, TypeOK, WorkHasJob, schedVars, drainVars, runnerVars,
        jobVars, stopVars, history, Past, Working, Untimed, QueuedPast, OneShotPast, CurPast,
        HandedUntimed, ExecutedUntimed, TimeoutConj
<1>1. CASE StopFlag(x)
  BY <1>1 DEF StopFlag
<1>2. CASE StopClean(x)
  <2> PICK t \in Things : Cleanup(t) /\ UNCHANGED <<caller, drainVars, runnerVars, jobVars, history>>
    BY <1>2 DEF StopClean
  <2>1. QueuedPast'
    BY EmptiedPast
  <2> QED
    BY <2>1 DEF Cleanup
<1>3. CASE StopClear(x)
  BY <1>3 DEF StopClear
<1> QED
  BY <1>1, <1>2, <1>3 DEF Stop

LEMMA TimeoutNext == TypeInv /\ TimeoutConj /\ [Next]_vars => TimeoutConj'
<1> SUFFICES ASSUME TypeInv, TimeoutConj, [Next]_vars PROVE TimeoutConj'
  OBVIOUS
<1> USE ConstantsAssumption DEF TypeInv, TypeOK, WorkHasJob, schedVars, drainVars, runnerVars,
        jobVars, stopVars, history, Past, Working, Untimed, QueuedPast, OneShotPast, CurPast,
        HandedUntimed, ExecutedUntimed, TimeoutConj
<1>1. CASE Run
  BY <1>1 DEF Run
<1>2. CASE LoopEnds
  BY <1>2 DEF LoopEnds
<1>3. ASSUME NEW x \in Stoppers, StopCall(x) PROVE TimeoutConj'
  BY <1>3 DEF StopCall
<1>4. CASE UNCHANGED vars
  BY <1>4 DEF vars
<1> QED
  BY <1>1, <1>2, <1>3, <1>4, TimeoutSubmit, TimeoutTimer, TimeoutDrain, TimeoutRunnerControl,
     TimeoutRunnerWork, TimeoutStop DEF Next

LEMMA TimeoutInit == Init => TimeoutConj
<1> SUFFICES ASSUME Init PROVE TimeoutConj
  OBVIOUS
<1>1. QueuedPast
  BY DEF Init, QueuedPast
<1>2. OneShotPast /\ CurPast /\ HandedUntimed /\ ExecutedUntimed
  BY DEF Init, OneShotPast, CurPast, HandedUntimed, ExecutedUntimed, Working
<1> QED
  BY <1>1, <1>2 DEF TimeoutConj

(* An operation whose caller was told that it never started is never       *)
(* executed: the drain drops it whoever wins the race.                     *)
THEOREM TimedOutDropped == Spec => []TimedOutNeverExecuted
<1>1. TypeInv /\ TimeoutConj => TimedOutNeverExecuted
  <2> SUFFICES ASSUME TypeInv, TimeoutConj, NEW j \in Jobs, invTask[j] = "expired"
               PROVE  ran[j] = 0
    BY DEF TimedOutNeverExecuted
  <2>1. ran[j] \in Nat
    BY DEF TypeInv, TypeOK
  <2>2. ~(ran[j] > 0)
    BY DEF TimeoutConj, ExecutedUntimed, Untimed
  <2> QED
    BY <2>1, <2>2
<1> QED
  BY <1>1, TypeInit, TypeNext, TimeoutInit, TimeoutNext, PTL DEF Spec

-----------------------------------------------------------------------------
(* The rendezvous of a drain with its runner. Before the hand-over the     *)
(* scheduler is idle; after it the request, the runner's work and the      *)
(* reply are all of the drain's job. Only a stop makes the drain move on   *)
(* without a reply, and then it takes no other job.                        *)
Idle(s) == request[s] = None /\ reply[s] = None /\ ~Working(s)
Asked(s) == request[s] = cur[s] /\ reply[s] = None /\ (Working(s) => taken[s] = cur[s])
Replied(s) == request[s] = None /\ reply[s] # None /\ ~Working(s) /\ reply[s].job = cur[s]

BeforeHandOver == {"off", "check", "waitJob", "clearJob", "pop", "settleInv", "hand"}
AfterWait == {"clearReply", "settleExec", "take"}

Rendezvous(s) ==
  /\ drain[s] \in BeforeHandOver => Idle(s)
  /\ run /\ drain[s] = "top" => Idle(s)
  /\ run /\ drain[s] \in BeforeHandOver \cup {"top"} => ~doneEv[s]
  /\ drain[s] \in AfterWait \cup {"settleInv", "hand", "waitReply"} => cur[s] \in Jobs
  /\ drain[s] \in AfterWait \cup {"waitReply"} => Asked(s) \/ Replied(s)
  /\ run /\ drain[s] \in AfterWait => Replied(s)
  /\ run /\ drain[s] \in {"waitReply"} /\ doneEv[s] => Replied(s)
  /\ run /\ drain[s] \in {"settleExec", "take"} => ~doneEv[s]

BeforeRun ==
  loop = "none" => /\ ~run
                   /\ \A s \in Scheds : drain[s] = "off" /\ runner[s] = "off" /\ ~doneEv[s]
                   /\ \A x \in Stoppers : stopper[x] = "idle"
StopsFirst == \A x \in Stoppers : stopper[x] = "clean" => ~run

ReplyConj ==
  /\ BeforeRun /\ StopsFirst /\ ReplyIsForItsJob
  /\ \A s \in Scheds : Rendezvous(s)

LEMMA ReplySubmit ==
  ASSUME TypeInv, TimeoutConj, ReplyConj, NEW j \in Jobs, Submit(j)
  PROVE  ReplyConj'
<1> USE ConstantsAssumption DEF TypeInv, TypeOK, WorkHasJob, schedVars, drainVars, runnerVars,
        jobVars, stopVars, history, Working, Idle, Asked, Replied, BeforeHandOver, AfterWait,
        Rendezvous, BeforeRun, StopsFirst, ReplyIsForItsJob, ReplyConj
<1>1. CASE SubmitCheck(j)
  BY <1>1 DEF SubmitCheck
<1>2. CASE SubmitMake(j)
  BY <1>2 DEF SubmitMake
<1>3. CASE DispatchQueued(j)
  BY <1>3 DEF DispatchQueued
<1>4. CASE NotifyQueued(j)
  BY <1>4 DEF NotifyQueued, Dispatched
<1>5. CASE DispatchOneShot(j)
  <2>1. UNCHANGED <<run, loop, queue, live, request, reply, readyEv, doneEv, cur, taken,
                    logsBound, jobVars, stopVars, history>>
    BY <1>5 DEF DispatchOneShot
  <2>2. CASE loop # "open"
    <3>1. UNCHANGED <<drain, runner>>
      BY <1>5, <2>2 DEF DispatchOneShot
    <3> QED
      BY <2>1, <3>1
  <2>3. CASE loop = "open"
    <3>1. drain' = [drain EXCEPT ![j] = "top"] /\ runner' = [runner EXCEPT ![j] = "top"]
      BY <1>5, <2>3 DEF DispatchOneShot
    <3>2. drain[j] = "off"
      BY <1>5 DEF DispatchOneShot, TimeoutConj, OneShotPast, Past
    <3> QED
      BY <2>1, <2>3, <3>1, <3>2
  <2> QED
    BY <2>2, <2>3
<1>6. CASE StorePending(j)
  BY <1>6 DEF StorePending
<1> QED
  BY <1>1, <1>2, <1>3, <1>4, <1>5, <1>6 DEF Submit

LEMMA ReplyTimer ==
  ASSUME TypeInv, ReplyConj, NEW j \in Jobs, Timer(j)
  PROVE  ReplyConj'
<1> USE ConstantsAssumption DEF TypeInv, TypeOK, WorkHasJob, schedVars, drainVars, runnerVars,
        jobVars, stopVars, history, Working, Idle, Asked, Replied, BeforeHandOver, AfterWait,
        Rendezvous, BeforeRun, StopsFirst, ReplyIsForItsJob, ReplyConj
<1>1. CASE InvExpires(j)
  BY <1>1 DEF InvExpires, Answered, Of
<1>2. CASE InvBeaten(j)
  BY <1>2 DEF InvBeaten
<1>3. CASE ExecExpires(j)
  BY <1>3 DEF ExecExpires, Answered, Of
<1>4. CASE ExecBeaten(j)
  BY <1>4 DEF ExecBeaten
<1> QED
  BY <1>1, <1>2, <1>3, <1>4 DEF Timer

LEMMA ReplyDrain ==
  ASSUME TypeInv, ReplyConj, NEW s \in Scheds, Drain(s)
  PROVE  ReplyConj'
<1> USE ConstantsAssumption DEF TypeInv, TypeOK, WorkHasJob, schedVars, drainVars, runnerVars,
        jobVars, stopVars, history, Working, Idle, Asked, Replied, BeforeHandOver, AfterWait,
        Rendezvous, BeforeRun, StopsFirst, ReplyIsForItsJob, ReplyConj
<1>1. CASE DrainTop(s)
  BY <1>1 DEF DrainTop, DrainAt
<1>2. CASE DrainCheck(s)
  BY <1>2 DEF DrainCheck, DrainAt
<1>3. CASE DrainWaitJob(s)
  BY <1>3 DEF DrainWaitJob, DrainAt
<1>4. CASE DrainClearJob(s)
  BY <1>4 DEF DrainClearJob, DrainAt
<1>5. CASE DrainPopQueued(s)
  BY <1>5 DEF DrainPopQueued, DrainAt, Start
<1>6. CASE DrainPopOneShot(s)
  BY SMTT(30), <1>6 DEF DrainPopOneShot, DrainAt, Start
<1>7. CASE DrainPopEmpty(s)
  BY <1>7 DEF DrainPopEmpty, DrainAt
<1>8. CASE DrainSettleInv(s)
  BY <1>8 DEF DrainSettleInv, DrainAt
<1>9. CASE DrainHand(s)
  BY <1>9 DEF DrainHand, DrainAt
<1>10. CASE DrainWaitReply(s)
  BY <1>10 DEF DrainWaitReply, DrainAt
<1>11. CASE DrainClearReply(s)
  <2>1. /\ drain[s] = "clearReply" /\ loop = "open"
        /\ \/ drain' = [drain EXCEPT ![s] = "take"]
           \/ drain' = [drain EXCEPT ![s] = "settleExec"]
        /\ doneEv' = [doneEv EXCEPT ![s] = FALSE]
    BY <1>11 DEF DrainClearReply, DrainAt
  <2>2. UNCHANGED <<run, loop, request, reply, cur, runner, taken, stopper, answer>>
    BY <1>11 DEF DrainClearReply, DrainAt
  <2> QED
    BY SMTT(20), <2>1, <2>2
<1>12. CASE DrainSettleExec(s)
  BY <1>12 DEF DrainSettleExec, DrainAt
<1>13. CASE DrainTake(s)
  <2>1. drain[s] = "take" /\ cur[s] \in Jobs /\ (Asked(s) \/ Replied(s))
    BY <1>13 DEF DrainTake, DrainAt
  <2>2. ReplyIsForItsJob'
    <3>1. \/ answer' = Answered(answer, cur[s], Of(cur[s], "NO_REPLY"))
          \/ answer' = answer
          \/ reply[s] # None /\ answer' = Answered(answer, cur[s], reply[s])
      BY <1>13 DEF DrainTake
    <3>2. reply[s] # None => reply[s].job = cur[s]
      BY <2>1
    <3>3. ASSUME NEW with, with.job = cur[s], answer' = Answered(answer, cur[s], with)
          PROVE  ReplyIsForItsJob'
      BY <2>1, <3>3 DEF Answered
    <3>4. Of(cur[s], "NO_REPLY").job = cur[s]
      BY DEF Of
    <3> QED
      BY <3>1, <3>2, <3>3, <3>4
  <2>3. drain' = [drain EXCEPT ![s] = "top"] /\ reply' = [reply EXCEPT ![s] = None]
    BY <1>13 DEF DrainTake, DrainAt
  <2>4. UNCHANGED <<run, loop, request, doneEv, cur, runner, taken, stopper>>
    BY <1>13 DEF DrainTake, DrainAt
  <2> QED
    BY <2>1, <2>2, <2>3, <2>4
<1>14. CASE DrainCleanup(s)
  BY <1>14 DEF DrainCleanup, DrainAt, Cleanup
<1> QED
  BY <1>1, <1>2, <1>3, <1>4, <1>5, <1>6, <1>7, <1>8, <1>9, <1>10, <1>11, <1>12, <1>13, <1>14 DEF Drain

LEMMA ReplyRespond ==
  ASSUME TypeInv, ReplyConj, NEW s \in Scheds, NEW from \in {"decode", "exec", "stopping"},
         NEW kind \in ReplyKinds, Respond(s, from, kind)
  PROVE  ReplyConj'
<1> USE ConstantsAssumption DEF TypeInv, TypeOK, WorkHasJob, schedVars, drainVars, runnerVars,
        jobVars, stopVars, history, Working, Idle, Asked, Replied, BeforeHandOver, AfterWait,
        Rendezvous, BeforeRun, StopsFirst, ReplyIsForItsJob, ReplyConj
<1>1. Working(s) /\ taken[s] \in Jobs
  BY DEF Respond, RunnerAt
<1>2. /\ request' = [request EXCEPT ![s] = None]
      /\ reply' = [reply EXCEPT ![s] = Of(taken[s], kind)]
      /\ doneEv' = [doneEv EXCEPT ![s] = TRUE]
      /\ UNCHANGED <<run, loop, drain, cur, taken, answer, stopper>>
  BY DEF Respond, RunnerAt
<1>3. Of(taken[s], kind) # None /\ Of(taken[s], kind).job = taken[s]
  BY <1>1 DEF Of, AnswerKinds
<1>4. \E to \in {"unset", "ended", "top"} : runner' = [runner EXCEPT ![s] = to]
  BY DEF Respond, RunnerAt
<1> QED
  BY <1>1, <1>2, <1>3, <1>4

LEMMA ReplyRunnerControl ==
  ASSUME TypeInv, ReplyConj, NEW s \in Scheds, RunnerControl(s)
  PROVE  ReplyConj'
<1> USE ConstantsAssumption DEF TypeInv, TypeOK, WorkHasJob, schedVars, drainVars, runnerVars,
        jobVars, stopVars, history, Working, Idle, Asked, Replied, BeforeHandOver, AfterWait,
        Rendezvous, BeforeRun, StopsFirst, ReplyIsForItsJob, ReplyConj
<1>1. CASE RunnerTop(s)
  BY <1>1 DEF RunnerTop, RunnerAt
<1>2. CASE RunnerWait(s)
  BY <1>2 DEF RunnerWait, RunnerAt
<1>3. CASE RunnerClear(s)
  BY <1>3 DEF RunnerClear, RunnerAt
<1>4. CASE RunnerRead(s)
  BY <1>4 DEF RunnerRead, RunnerAt
<1>5. CASE RunnerUnset(s)
  BY <1>5 DEF RunnerUnset, RunnerAt
<1>6. CASE RunnerStopped(s)
  BY <1>6, ReplyRespond DEF RunnerStopped, ReplyKinds
<1> QED
  BY <1>1, <1>2, <1>3, <1>4, <1>5, <1>6 DEF RunnerControl

LEMMA ReplyRunnerWork ==
  ASSUME TypeInv, ReplyConj, NEW s \in Scheds, RunnerWork(s)
  PROVE  ReplyConj'
<1> USE ConstantsAssumption DEF TypeInv, TypeOK, WorkHasJob, schedVars, drainVars, runnerVars,
        jobVars, stopVars, history, Working, Idle, Asked, Replied, BeforeHandOver, AfterWait,
        Rendezvous, BeforeRun, StopsFirst, ReplyIsForItsJob, ReplyConj
<1>1. CASE RunnerExecute(s)
  BY <1>1 DEF RunnerExecute, RunnerAt
<1>2. CASE RunnerReturn(s)
  <2> PICK kind \in Outcomes \cap ReplyKinds : Respond(s, "exec", kind)
    BY <1>2 DEF RunnerReturn
  <2> QED
    BY ReplyRespond
<1>3. CASE RunnerUndecodable(s)
  <2>1. CASE Respond(s, "decode", "ERROR")
    BY <2>1, ReplyRespond DEF ReplyKinds
  <2>2. CASE RunnerAt(s, "decode", "dead") /\ UNCHANGED <<schedVars, drainVars, taken, logsBound,
                                                         jobVars, stopVars, history>>
    BY <2>2 DEF RunnerAt
  <2> QED
    BY <1>3, <2>1, <2>2 DEF RunnerUndecodable
<1>4. CASE RunnerCallsStop(s)
  BY <1>4 DEF RunnerCallsStop, RunnerAt
<1> QED
  BY <1>1, <1>2, <1>3, <1>4 DEF RunnerWork

LEMMA ReplyStop ==
  ASSUME TypeInv, ReplyConj, NEW x \in Stoppers, Stop(x)
  PROVE  ReplyConj'
<1> USE ConstantsAssumption DEF TypeInv, TypeOK, WorkHasJob, schedVars, drainVars, runnerVars,
        jobVars, stopVars, history, Working, Idle, Asked, Replied, BeforeHandOver, AfterWait,
        Rendezvous, BeforeRun, StopsFirst, ReplyIsForItsJob, ReplyConj
<1>1. CASE StopFlag(x)
  BY <1>1 DEF StopFlag
<1>2. CASE StopClean(x)
  BY <1>2 DEF StopClean, Cleanup
<1>3. CASE StopClear(x)
  BY <1>3 DEF StopClear, Of
<1> QED
  BY <1>1, <1>2, <1>3 DEF Stop

LEMMA ReplyNext == TypeInv /\ TimeoutConj /\ ReplyConj /\ [Next]_vars => ReplyConj'
<1> SUFFICES ASSUME TypeInv, TimeoutConj, ReplyConj, [Next]_vars PROVE ReplyConj'
  OBVIOUS
<1> USE ConstantsAssumption DEF TypeInv, TypeOK, WorkHasJob, schedVars, drainVars, runnerVars,
        jobVars, stopVars, history, Working, Idle, Asked, Replied, BeforeHandOver, AfterWait,
        Rendezvous, BeforeRun, StopsFirst, ReplyIsForItsJob, ReplyConj
<1>1. CASE Run
  BY <1>1 DEF Run
<1>2. CASE LoopEnds
  BY <1>2 DEF LoopEnds
<1>3. ASSUME NEW x \in Stoppers, StopCall(x) PROVE ReplyConj'
  BY <1>3 DEF StopCall
<1>4. CASE UNCHANGED vars
  BY <1>4 DEF vars
<1> QED
  BY <1>1, <1>2, <1>3, <1>4, ReplySubmit, ReplyTimer, ReplyDrain, ReplyRunnerControl,
     ReplyRunnerWork, ReplyStop DEF Next

LEMMA ReplyInit == Init => ReplyConj
  BY ConstantsAssumption DEF Init, ReplyConj, BeforeRun, StopsFirst, ReplyIsForItsJob, Rendezvous, Idle, Asked,
     Replied, Working, BeforeHandOver, AfterWait

(* No caller is ever answered with the outcome of another operation, in    *)
(* whatever order timeouts, replies, interruptions and stops come.         *)
THEOREM AnswersMatch == Spec => []ReplyIsForItsJob
<1>1. ReplyConj => ReplyIsForItsJob
  BY DEF ReplyConj
<1> QED
  BY <1>1, TypeInit, TypeNext, TimeoutInit, TimeoutNext, ReplyInit, ReplyNext, PTL DEF Spec

-----------------------------------------------------------------------------
(* Sequences that are worked off from the front: q is what is left of s,   *)
(* and what was done is a selection of s (Selects).                        *)
Distinct(s) == \A p, q \in 1 .. Len(s) : s[p] = s[q] => p = q

LEMMA DistinctAppend ==
  ASSUME NEW S, NEW s \in Seq(S), NEW x \in S, Distinct(s), \A p \in 1 .. Len(s) : s[p] # x
  PROVE  Distinct(Append(s, x))
<1> DEFINE sx == Append(s, x)
<1>1. PICK n \in Nat : n = Len(s)
  OBVIOUS
<1>2. Len(sx) = n + 1 /\ sx[n + 1] = x /\ \A p \in 1 .. n : sx[p] = s[p]
  BY <1>1
<1> HIDE DEF sx
<1> SUFFICES ASSUME NEW p \in 1 .. n + 1, NEW q \in 1 .. n + 1, sx[p] = sx[q] PROVE p = q
  BY <1>2 DEF Distinct, sx
<1>3. CASE p \in 1 .. n /\ q \in 1 .. n
  BY <1>1, <1>2, <1>3 DEF Distinct
<1>4. CASE p \in 1 .. n /\ q = n + 1
  BY <1>1, <1>2, <1>4
<1>5. CASE q \in 1 .. n /\ p = n + 1
  BY <1>1, <1>2, <1>5
<1>6. CASE p = n + 1 /\ q = n + 1
  BY <1>6
<1> QED
  BY <1>3, <1>4, <1>5, <1>6

LEMMA SelectsMore ==
  ASSUME NEW S, NEW d \in Seq(S), NEW s \in Seq(S), NEW p \in 1 .. Len(s),
         NEW P \in SUBSET (1 .. Len(s)), \A x \in P : x < p, Selects(d, s, P)
  PROVE  Selects(Append(d, s[p]), s, P \cup {p})
<1> DEFINE dp == Append(d, s[p])
<1>1. PICK m \in Nat, n \in Nat : m = Len(d) /\ n = Len(s)
  OBVIOUS
<1>2. PICK at \in [1 .. m -> P] :
        /\ \A i, k \in 1 .. m : i < k => at[i] < at[k]
        /\ \A i \in 1 .. m : d[i] = s[at[i]]
        /\ \A x \in P : \E i \in 1 .. m : at[i] = x
  BY <1>1 DEF Selects
<1>3. s[p] \in S
  OBVIOUS
<1>4. Len(dp) = m + 1 /\ dp[m + 1] = s[p] /\ \A i \in 1 .. m : dp[i] = d[i]
  BY <1>1, <1>3
<1> DEFINE bt == [i \in 1 .. m + 1 |-> IF i = m + 1 THEN p ELSE at[i]]
<1>5. bt \in [1 .. m + 1 -> P \cup {p}]
  <2> SUFFICES ASSUME NEW i \in 1 .. m + 1 PROVE bt[i] \in P \cup {p}
    OBVIOUS
  <2>1. i = m + 1 \/ i \in 1 .. m
    OBVIOUS
  <2> QED
    BY <2>1
<1>6. bt[m + 1] = p /\ \A i \in 1 .. m : bt[i] = at[i] /\ at[i] \in P
  OBVIOUS
<1>7. \A i \in 1 .. m + 1 : i = m + 1 \/ i \in 1 .. m
  OBVIOUS
<1> HIDE DEF bt, dp
<1>8. \A i, k \in 1 .. m + 1 : i < k => bt[i] < bt[k]
  <2> SUFFICES ASSUME NEW i \in 1 .. m + 1, NEW k \in 1 .. m + 1, i < k PROVE bt[i] < bt[k]
    OBVIOUS
  <2>1. i \in 1 .. m
    OBVIOUS
  <2>2. CASE k = m + 1
    BY <1>6, <2>1, <2>2
  <2>3. CASE k \in 1 .. m
    BY <1>2, <1>6, <2>1, <2>3
  <2> QED
    BY <1>7, <2>2, <2>3
<1>9. \A i \in 1 .. m + 1 : dp[i] = s[bt[i]]
  BY <1>2, <1>4, <1>6, <1>7
<1>10. \A x \in P \cup {p} : \E i \in 1 .. m + 1 : bt[i] = x
  <2>1. \A i \in 1 .. m : i \in 1 .. m + 1
    OBVIOUS
  <2>2. m + 1 \in 1 .. m + 1
    OBVIOUS
  <2> QED
    BY <1>2, <1>6, <2>1, <2>2
<1>11. Selects(dp, s, P \cup {p})
  <2>1. 1 .. Len(dp) = 1 .. m + 1
    BY <1>4
  <2>2. /\ bt \in [1 .. Len(dp) -> P \cup {p}]
        /\ \A i, k \in 1 .. Len(dp) : i < k => bt[i] < bt[k]
        /\ \A i \in 1 .. Len(dp) : dp[i] = s[bt[i]]
        /\ \A x \in P \cup {p} : \E i \in 1 .. Len(dp) : bt[i] = x
    BY <1>5, <1>8, <1>9, <1>10, <2>1, Zenon
  <2> QED
    BY <2>2, Zenon DEF Selects
<1> QED
  BY <1>11 DEF dp

LEMMA SelectsSame ==
  ASSUME NEW d, NEW q, NEW r, NEW P, Selects(d, q, P), \A p \in P : r[p] = q[p]
  PROVE  Selects(d, r, P)
<1>1. PICK at \in [1 .. Len(d) -> P] :
        /\ \A i, k \in 1 .. Len(d) : i < k => at[i] < at[k]
        /\ \A i \in 1 .. Len(d) : d[i] = q[at[i]]
        /\ \A p \in P : \E i \in 1 .. Len(d) : at[i] = p
  BY DEF Selects
<1>2. \A i \in 1 .. Len(d) : d[i] = r[at[i]]
  BY <1>1
<1> QED
  BY <1>1, <1>2 DEF Selects

(* Of one Thing: q is waiting, s was dispatched, d executed, c is the job  *)
(* of the drain (None before the first) and R are the jobs of all Things   *)
(* that were executed. What is left is a rest of what was dispatched, which *)
(* has no job twice; nothing after the drain's job was executed.           *)
At(s, R) == {p \in 1 .. Len(s) : s[p] \in R}
Latest(q, s, c, R) == \E p \in 1 .. Len(s) - Len(q) : s[p] = c /\ \A x \in At(s, R) : x <= p
Ordered(q, s, d, c, R) ==
  /\ IsRest(q, s) /\ Distinct(s) /\ Selects(d, s, At(s, R))
  /\ IF c = None THEN At(s, R) = {} ELSE Latest(q, s, c, R)

LEMMA OrderedDispatch ==
  ASSUME NEW S, NEW q \in Seq(S), NEW s \in Seq(S), NEW d \in Seq(S), NEW c, NEW R, NEW j \in S,
         Ordered(q, s, d, c, R), j \notin R, \A p \in 1 .. Len(s) : s[p] # j
  PROVE  Ordered(Append(q, j), Append(s, j), d, c, R)
<1> DEFINE qx == Append(q, j)  sx == Append(s, j)
<1>1. PICK m \in Nat, n \in Nat : m = Len(q) /\ n = Len(s)
  OBVIOUS
<1>2. Len(qx) = m + 1 /\ Len(sx) = n + 1 /\ sx[n + 1] = j /\ \A i \in 1 .. n : sx[i] = s[i]
  BY <1>1
<1>3. IsRest(qx, sx) /\ Distinct(sx)
  BY RestAppend, DistinctAppend DEF Ordered
<1> HIDE DEF qx, sx
<1>4. At(sx, R) = At(s, R)
  <2>1. \A i \in 1 .. n + 1 : i \in 1 .. n \/ i = n + 1
    OBVIOUS
  <2>2. \A i \in 1 .. n : i \in 1 .. n + 1
    OBVIOUS
  <2> QED
    BY <1>1, <1>2, <2>1, <2>2 DEF At
<1>5. Selects(d, sx, At(s, R))
  <2>1. \A p \in At(s, R) : sx[p] = s[p]
    BY <1>1, <1>2 DEF At
  <2> QED
    BY <2>1, SelectsSame DEF Ordered
<1>6. ASSUME Latest(q, s, c, R) PROVE Latest(qx, sx, c, R)
  <2>1. PICK p \in 1 .. n - m : s[p] = c /\ \A x \in At(s, R) : x <= p
    BY <1>1, <1>6 DEF Latest
  <2>2. p \in 1 .. n /\ p \in 1 .. (n + 1) - (m + 1)
    BY <2>1
  <2>3. sx[p] = c
    BY <1>2, <2>1, <2>2
  <2> QED
    BY <1>2, <1>4, <2>1, <2>2, <2>3 DEF Latest
<1>7. Ordered(qx, sx, d, c, R)
  BY <1>3, <1>4, <1>5, <1>6 DEF Ordered
<1> QED
  BY <1>7 DEF qx, sx

LEMMA OrderedPop ==
  ASSUME NEW S, NEW q \in Seq(S), NEW s \in Seq(S), NEW d \in Seq(S), NEW c, NEW R,
         Ordered(q, s, d, c, R), q # <<>>, None \notin S
  PROVE  Ordered(Tail(q), s, d, Head(q), R) /\ Head(q) \notin R
<1>1. PICK m \in Nat, n \in Nat : m = Len(q) /\ n = Len(s)
  OBVIOUS
<1>2. m # 0 /\ m <= n /\ Len(Tail(q)) = m - 1 /\ Head(q) = q[1] /\ Head(q) \in S
  BY <1>1 DEF Ordered, IsRest
<1>3. PICK p \in 1 .. n : p = n - m + 1
  BY <1>2
<1>4. s[p] = Head(q)
  BY <1>1, <1>2, <1>3 DEF Ordered, IsRest
<1>5. \A x \in At(s, R) : x < p
  <2>1. CASE c = None
    BY <2>1 DEF Ordered
  <2>2. CASE c # None
    <3>1. PICK k \in 1 .. n - m : \A x \in At(s, R) : x <= k
      BY <1>1, <2>2 DEF Ordered, Latest
    <3>2. At(s, R) \subseteq 1 .. n
      BY <1>1 DEF At
    <3> QED
      BY <1>3, <3>1, <3>2
  <2> QED
    BY <2>1, <2>2
<1>6. Head(q) \notin R
  <2>1. p \notin At(s, R)
    BY <1>5
  <2> QED
    BY <1>1, <1>4, <2>1 DEF At
<1>7. Latest(Tail(q), s, Head(q), R)
  <2>1. p \in 1 .. n - (m - 1)
    BY <1>3
  <2>2. \A x \in At(s, R) : x <= p
    <3>1. At(s, R) \subseteq 1 .. n
      BY <1>1 DEF At
    <3> QED
      BY <1>5, <3>1
  <2> QED
    BY <1>1, <1>2, <1>4, <2>1, <2>2 DEF Latest
<1>8. IsRest(Tail(q), s)
  BY RestTail DEF Ordered
<1> QED
  BY <1>2, <1>6, <1>7, <1>8 DEF Ordered

LEMMA OrderedClear ==
  ASSUME NEW S, NEW q \in Seq(S), NEW s \in Seq(S), NEW d \in Seq(S), NEW c, NEW R,
         Ordered(q, s, d, c, R)
  PROVE  Ordered(<<>>, s, d, c, R)
<1>1. PICK m \in Nat, n \in Nat : m = Len(q) /\ n = Len(s)
  OBVIOUS
<1>2. Len(<<>>) = 0 /\ m <= n
  BY <1>1 DEF Ordered, IsRest
<1>3. IsRest(<<>>, s)
  BY <1>1, <1>2 DEF IsRest
<1>4. ASSUME Latest(q, s, c, R) PROVE Latest(<<>>, s, c, R)
  <2>1. PICK p \in 1 .. n - m : s[p] = c /\ \A x \in At(s, R) : x <= p
    BY <1>1, <1>4 DEF Latest
  <2>2. p \in 1 .. n - 0
    BY <2>1
  <2> QED
    BY <1>1, <1>2, <2>1, <2>2 DEF Latest
<1> QED
  BY <1>3, <1>4 DEF Ordered

LEMMA OrderedExecute ==
  ASSUME NEW S, NEW q \in Seq(S), NEW s \in Seq(S), NEW d \in Seq(S), NEW c, NEW R,
         Ordered(q, s, d, c, R), c # None, c \notin R
  PROVE  Ordered(q, s, Append(d, c), c, R \cup {c})
<1>1. PICK m \in Nat, n \in Nat : m = Len(q) /\ n = Len(s)
  OBVIOUS
<1>2. PICK p \in 1 .. n - m : s[p] = c /\ \A x \in At(s, R) : x <= p
  BY <1>1 DEF Ordered, Latest
<1>3. p \in 1 .. n
  OBVIOUS
<1>4. At(s, R \cup {c}) = At(s, R) \cup {p}
  BY <1>1, <1>2, <1>3 DEF Ordered, Distinct, At
<1>5. \A x \in At(s, R) : x < p
  <2>1. p \notin At(s, R) /\ At(s, R) \subseteq 1 .. n
    BY <1>1, <1>2 DEF At
  <2> QED
    BY <1>2, <2>1
<1>6. Selects(Append(d, c), s, At(s, R \cup {c}))
  <2>1. At(s, R) \in SUBSET (1 .. Len(s))
    BY DEF At
  <2>2. p \in 1 .. Len(s)
    BY <1>1, <1>3
  <2>3. Selects(d, s, At(s, R))
    BY DEF Ordered
  <2>4. Selects(Append(d, s[p]), s, At(s, R) \cup {p})
    BY <1>5, <2>1, <2>2, <2>3, SelectsMore
  <2> QED
    BY <1>2, <1>4, <2>4
<1>7. Latest(q, s, c, R \cup {c})
  <2>1. \A x \in At(s, R) \cup {p} : x <= p
    BY <1>2
  <2> QED
    BY <1>1, <1>2, <1>4, <2>1 DEF Latest
<1> QED
  BY <1>6, <1>7 DEF Ordered

LEMMA OrderedElsewhere ==
  ASSUME NEW S, NEW q \in Seq(S), NEW s \in Seq(S), NEW d \in Seq(S), NEW c, NEW R, NEW j,
         Ordered(q, s, d, c, R), \A p \in 1 .. Len(s) : s[p] # j
  PROVE  Ordered(q, s, d, c, R \cup {j})
<1>1. At(s, R \cup {j}) = At(s, R)
  BY DEF At
<1> QED
  BY <1>1 DEF Ordered, Latest

-----------------------------------------------------------------------------
(* The inductive invariant of the order: each Thing's queue is Ordered, and *)
(* what was sent to it was sent to it by callers who have dispatched.      *)
Ran == {j \in Jobs : ran[j] > 0}

SentTo ==
  \A t \in Things : \A p \in 1 .. Len(sent[t]) :
    sent[t][p] \in Synchronous /\ ThingOf[sent[t][p]] = t /\ caller[sent[t][p]] \in Past

OrderConj ==
  /\ \A t \in Things : Ordered(queue[t], sent[t], done[t], cur[t], Ran)
  /\ SentTo

(* The inductive invariant of the single execution: what a drain hands over *)
(* is its own job, and it was not executed before the runner executes it.  *)
Held(s) ==
  /\ request[s] # None => request[s] = cur[s]
  /\ Working(s) => taken[s] = cur[s]
  /\ runner[s] = "decode" => ran[taken[s]] = 0
  /\ runner[s] \in {"exec", "stopping"} => ran[taken[s]] = 1

HeldByThing(t) ==
  /\ drain[t] \in {"settleInv", "hand"} => ran[cur[t]] = 0
  /\ request[t] # None /\ runner[t] \notin {"exec", "stopping"} => ran[request[t]] = 0

(* A one-shot thread's only job is its own.                                *)
HeldOnce(s) ==
  /\ cur[s] \in {s, None}
  /\ ran[s] > 0 => \/ runner[s] \in {"exec", "stopping", "unset", "ended", "dead"}
                   \/ runner[s] = "top" /\ ~live[s]

Told ==
  /\ \A s \in Scheds : reply[s] # None /\ reply[s].kind \in {"OK", "EXIT"} => ran[reply[s].job] = 1
  /\ \A j \in Jobs : answer[j] # None /\ answer[j].kind = "INVOKATION_TIMEOUT" => invTask[j] = "expired"
  /\ \A j \in Jobs : caller[j] \in {"new", "make"} => invTask[j] = "none"

WorkConj ==
  /\ \A s \in Scheds : Held(s)
  /\ \A t \in Things : HeldByThing(t)
  /\ \A s \in OneShot : HeldOnce(s)
  /\ \A j \in Jobs : ran[j] <= 1
  /\ Told

OnceInv == TypeInv /\ TimeoutConj /\ ReplyConj /\ OrderConj /\ WorkConj

LEMMA SeqTypes ==
  ASSUME TypeInv
  PROVE  /\ \A t \in Things : queue[t] \in Seq(Jobs) /\ sent[t] \in Seq(Jobs) /\ done[t] \in Seq(Jobs)
         /\ None \notin Jobs /\ \A j \in Jobs : ThingOf[j] \in Things
  BY ConstantsAssumption DEF TypeInv, TypeOK

(* No two drains hold the same job.                                        *)
LEMMA OwnJob ==
  ASSUME TypeInv, OrderConj, WorkConj, NEW s \in Scheds, NEW r \in Scheds, cur[s] # None, cur[s] = cur[r]
  PROVE  s = r
<1>1. ASSUME NEW t \in Things, cur[t] # None PROVE cur[t] \in Synchronous /\ ThingOf[cur[t]] = t
  <2>1. Latest(queue[t], sent[t], cur[t], Ran) /\ IsRest(queue[t], sent[t])
    BY <1>1 DEF OrderConj, Ordered
  <2>2. PICK m \in Nat, n \in Nat : m = Len(queue[t]) /\ n = Len(sent[t])
    BY SeqTypes
  <2>3. PICK p \in 1 .. n - m : sent[t][p] = cur[t]
    BY <2>1, <2>2 DEF Latest
  <2>4. p \in 1 .. n
    OBVIOUS
  <2> QED
    BY <2>2, <2>3, <2>4 DEF OrderConj, SentTo
<1>2. ASSUME NEW o \in OneShot, cur[o] # None PROVE cur[o] = o /\ o \notin Synchronous
  BY <1>2 DEF WorkConj, HeldOnce
<1> QED
  BY <1>1, <1>2

LEMMA OrderSame ==
  ASSUME TypeInv, OrderConj, UNCHANGED <<queue, sent, done, ran>>, \A t \in Things : cur'[t] = cur[t],
         \A j \in Jobs : caller[j] \in Past => caller'[j] \in Past
  PROVE  OrderConj'
<1>1. SentTo'
  BY SeqTypes DEF OrderConj, SentTo
<1>2. Ran' = Ran
  BY DEF Ran
<1> QED
  BY <1>1, <1>2 DEF OrderConj

LEMMA OrderSubmit ==
  ASSUME TypeInv, TimeoutConj, OrderConj, NEW j \in Jobs, Submit(j)
  PROVE  OrderConj'
<1>1. \A i \in Jobs : caller[i] \in Past => caller'[i] \in Past
  BY SubmitKeepsPast
<1>2. CASE DispatchQueued(j)
  <2>1. PICK u \in Things : u = ThingOf[j]
    BY SeqTypes
  <2>2. /\ queue' = [queue EXCEPT ![u] = Append(queue[u], j)]
        /\ sent' = [sent EXCEPT ![u] = Append(sent[u], j)]
        /\ UNCHANGED <<cur, ran, done>>
        /\ caller[j] = "dispatch" /\ j \in Synchronous /\ caller' = [caller EXCEPT ![j] = "notify"]
    BY <1>2, <2>1 DEF DispatchQueued, drainVars
  <2>3. /\ queue'[u] = Append(queue[u], j) /\ sent'[u] = Append(sent[u], j)
        /\ \A t \in Things \ {u} : queue'[t] = queue[t] /\ sent'[t] = sent[t]
        /\ caller'[j] \in Past
    BY <2>2 DEF TypeInv, TypeOK, Past
  <2>4. Ran' = Ran /\ j \notin Ran
    BY <2>2 DEF Ran, TimeoutConj, ExecutedUntimed, Untimed, Past
  <2>5. \A t \in Things : \A p \in 1 .. Len(sent[t]) : sent[t][p] # j
    BY <2>2 DEF OrderConj, SentTo, Past
  <2>6. Ordered(queue'[u], sent'[u], done'[u], cur'[u], Ran')
    BY <2>2, <2>3, <2>4, <2>5, SeqTypes, OrderedDispatch DEF OrderConj
  <2>7. SentTo'
    <3>1. \A t \in Things : \A p \in 1 .. Len(sent[t]) :
            sent[t][p] \in Synchronous /\ ThingOf[sent[t][p]] = t /\ caller'[sent[t][p]] \in Past
      BY <1>1, SeqTypes DEF OrderConj, SentTo
    <3>2. \A p \in 1 .. Len(sent'[u]) : \/ p \in 1 .. Len(sent[u]) /\ sent'[u][p] = sent[u][p]
                                        \/ sent'[u][p] = j
      <4>1. PICK n \in Nat : n = Len(sent[u])
        BY SeqTypes
      <4>2. /\ Len(sent'[u]) = n + 1 /\ sent'[u][n + 1] = j
            /\ \A p \in 1 .. n : sent'[u][p] = sent[u][p]
        BY <2>3, <4>1, SeqTypes
      <4> QED
        BY <4>1, <4>2
    <3> QED
      BY <2>1, <2>2, <2>3, <3>1, <3>2 DEF SentTo
  <2> QED
    BY <2>2, <2>3, <2>4, <2>6, <2>7 DEF OrderConj
<1>3. CASE ~DispatchQueued(j)
  <2>1. UNCHANGED <<queue, sent, done, ran, cur>>
    BY <1>3 DEF Submit, SubmitCheck, SubmitMake, NotifyQueued, DispatchOneShot, StorePending,
       schedVars, drainVars, history
  <2> QED
    BY <1>1, <2>1, OrderSame
<1> QED
  BY <1>2, <1>3

LEMMA OrderCleanup ==
  ASSUME TypeInv, OrderConj, NEW s \in Scheds, Cleanup(s), UNCHANGED <<caller, sent, done, ran, cur>>
  PROVE  OrderConj'
<1>1. \A t \in Things : queue'[t] = <<>> \/ queue'[t] = queue[t]
  BY DEF Cleanup
<1>2. Ran' = Ran
  BY DEF Ran
<1>3. ASSUME NEW t \in Things PROVE Ordered(queue'[t], sent[t], done[t], cur[t], Ran)
  BY <1>1, SeqTypes, OrderedClear DEF OrderConj
<1> QED
  BY <1>2, <1>3 DEF OrderConj, SentTo

LEMMA OrderPop ==
  ASSUME TypeInv, OrderConj, NEW s \in Scheds, DrainPopQueued(s)
  PROVE  OrderConj' /\ ran[Head(queue[s])] = 0
<1>1. s \in Things /\ queue[s] # <<>> /\ queue[s] \in Seq(Jobs) /\ Head(queue[s]) \in Jobs
  BY SeqTypes DEF DrainPopQueued
<1>2. /\ queue' = [queue EXCEPT ![s] = Tail(queue[s])] /\ cur' = [cur EXCEPT ![s] = Head(queue[s])]
      /\ UNCHANGED <<caller, sent, done, ran>>
  BY DEF DrainPopQueued, Start, DrainAt, history
<1>3. /\ queue'[s] = Tail(queue[s]) /\ cur'[s] = Head(queue[s])
      /\ \A t \in Things \ {s} : queue'[t] = queue[t] /\ cur'[t] = cur[t]
  BY <1>1, <1>2 DEF TypeInv, TypeOK
<1>4. Ordered(Tail(queue[s]), sent[s], done[s], Head(queue[s]), Ran) /\ Head(queue[s]) \notin Ran
  BY <1>1, SeqTypes, OrderedPop DEF OrderConj
<1>5. Ran' = Ran
  BY <1>2 DEF Ran
<1>6. OrderConj'
  BY <1>2, <1>3, <1>4, <1>5 DEF OrderConj, SentTo
<1>7. ran[Head(queue[s])] = 0
  BY <1>1, <1>4 DEF Ran, TypeInv, TypeOK
<1> QED
  BY <1>6, <1>7

LEMMA OrderExecute ==
  ASSUME TypeInv, OrderConj, WorkConj, NEW s \in Scheds, RunnerExecute(s)
  PROVE  OrderConj'
<1>1. PICK j \in Jobs : j = taken[s] /\ j = cur[s] /\ ran[j] = 0
  BY DEF RunnerExecute, RunnerAt, TypeInv, WorkHasJob, WorkConj, Held, Working
<1>2. /\ ran' = [ran EXCEPT ![j] = ran[j] + 1]
      /\ done' = [t \in Things |-> IF t = s THEN Append(done[t], j) ELSE done[t]]
      /\ UNCHANGED <<caller, queue, sent, cur>>
  BY <1>1 DEF RunnerExecute, RunnerAt, schedVars, drainVars
<1>3. Ran' = Ran \cup {j} /\ j \notin Ran
  BY <1>1, <1>2 DEF Ran, TypeInv, TypeOK
<1>4. ASSUME NEW t \in Things PROVE Ordered(queue[t], sent[t], done'[t], cur[t], Ran')
  <2>1. CASE t = s
    <3>1. done'[t] = Append(done[t], cur[t]) /\ cur[t] = j /\ j # None
      BY <1>1, <1>2, <2>1, SeqTypes
    <3> QED
      BY <1>3, <3>1, SeqTypes, OrderedExecute DEF OrderConj
  <2>2. CASE t # s
    <3>1. done'[t] = done[t]
      BY <1>2, <2>2
    <3>2. \A p \in 1 .. Len(sent[t]) : sent[t][p] # j
      <4> SUFFICES ASSUME NEW p \in 1 .. Len(sent[t]), sent[t][p] = j PROVE FALSE
        OBVIOUS
      <4>1. j \in Synchronous /\ ThingOf[j] = t
        BY DEF OrderConj, SentTo
      <4>2. s \in Things
        BY <1>1, <4>1, SeqTypes DEF WorkConj, HeldOnce
      <4>3. ThingOf[j] = s
        <5>1. Latest(queue[s], sent[s], cur[s], Ran)
          BY <1>1, <4>2, SeqTypes DEF OrderConj, Ordered
        <5>2. PICK m \in Nat, n \in Nat : m = Len(queue[s]) /\ n = Len(sent[s])
          BY <4>2, SeqTypes
        <5>3. PICK q \in 1 .. n - m : sent[s][q] = j
          BY <1>1, <5>1, <5>2 DEF Latest
        <5>4. q \in 1 .. n
          OBVIOUS
        <5> QED
          BY <4>2, <5>2, <5>3, <5>4 DEF OrderConj, SentTo
      <4> QED
        BY <2>2, <4>1, <4>3
    <3> QED
      BY <1>3, <3>1, <3>2, SeqTypes, OrderedElsewhere DEF OrderConj
  <2> QED
    BY <2>1, <2>2
<1> QED
  BY <1>2, <1>4 DEF OrderConj, SentTo

LEMMA WorkSubmit ==
  ASSUME TypeInv, TimeoutConj, WorkConj, NEW j \in Jobs, Submit(j)
  PROVE  WorkConj'
<1> USE ConstantsAssumption DEF TypeInv, TypeOK, WorkHasJob, schedVars, drainVars, runnerVars,
        jobVars, stopVars, history, Working, Held, HeldByThing, HeldOnce, Told, WorkConj
<1>1. CASE SubmitCheck(j)
  BY <1>1 DEF SubmitCheck
<1>2. CASE SubmitMake(j)
  <2>1. /\ \A i \in Jobs : i # j => caller'[i] = caller[i] /\ invTask'[i] = invTask[i]
        /\ caller[j] = "make" /\ invTask[j] = "none" /\ caller'[j] \in {"refused", "dispatch"}
    BY <1>2 DEF SubmitMake
  <2>2. UNCHANGED <<request, cur, runner, taken, ran, drain, live, reply, answer>>
    BY <1>2 DEF SubmitMake
  <2>3. Told'
    <3>1. \A i \in Jobs : answer[i] # None /\ answer[i].kind = "INVOKATION_TIMEOUT" => invTask[i] = "expired"
      OBVIOUS
    <3>2. \A i \in Jobs : answer'[i] # None /\ answer'[i].kind = "INVOKATION_TIMEOUT" => invTask'[i] = "expired"
      BY <2>1, <2>2, <3>1
    <3>3. ASSUME NEW i \in Jobs, caller'[i] \in {"new", "make"} PROVE invTask'[i] = "none"
      <4>1. i # j
        BY <2>1, <3>3
      <4> QED
        BY <2>1, <3>3, <4>1
    <3> QED
      BY <2>2, <3>2, <3>3
  <2>4. /\ \A s \in Scheds : Held(s)'
        /\ \A t \in Things : HeldByThing(t)'
        /\ \A s \in OneShot : HeldOnce(s)'
        /\ \A i \in Jobs : ran'[i] <= 1
    BY <2>2
  <2> QED
    BY <2>3, <2>4
<1>3. CASE DispatchQueued(j)
  BY <1>3 DEF DispatchQueued
<1>4. CASE NotifyQueued(j)
  BY <1>4 DEF NotifyQueued, Dispatched
<1>5. CASE DispatchOneShot(j)
  <2>1. /\ \A s \in Scheds : \/ drain'[s] = drain[s] /\ runner'[s] = runner[s]
                             \/ s = j /\ drain'[s] = "top" /\ runner'[s] = "top"
        /\ \A i \in Jobs : caller'[i] \in {"new", "make"} => caller[i] \in {"new", "make"}
    <3>1. CASE loop # "open"
      BY <1>5, <3>1 DEF DispatchOneShot
    <3>2. CASE loop = "open"
      <4>1. /\ caller' = [caller EXCEPT ![j] = Dispatched(j)]
            /\ drain' = [drain EXCEPT ![j] = "top"]
            /\ runner' = [runner EXCEPT ![j] = "top"]
        BY <1>5, <3>2 DEF DispatchOneShot
      <4> QED
        BY <4>1 DEF Dispatched
    <3> QED
      BY <3>1, <3>2
  <2>2. UNCHANGED <<request, cur, taken, ran, live, reply, answer, invTask>>
    BY <1>5 DEF DispatchOneShot
  <2>3. ~(ran[j] > 0) /\ j \in OneShot
    BY <1>5 DEF DispatchOneShot, TimeoutConj, ExecutedUntimed, Untimed, Past
  <2>4. \A s \in OneShot : HeldOnce(s)'
    <3>1. \A s \in OneShot : ran[s] > 0 => runner'[s] = runner[s]
      BY <2>1, <2>3
    <3> QED
      BY <2>2, <3>1
  <2>5. \A t \in Things : HeldByThing(t)'
    <3>1. j \notin Things
      OBVIOUS
    <3>2. ASSUME NEW t \in Things PROVE drain'[t] = drain[t] /\ runner'[t] = runner[t]
      <4>1. t \in Scheds /\ t # j
        BY <3>1
      <4> QED
        BY <2>1, <4>1
    <3> QED
      BY <2>2, <3>2
  <2>6. ASSUME NEW s \in Scheds PROVE Held(s)'
    <3>1. Held(s)
      OBVIOUS
    <3>2. CASE runner'[s] = runner[s]
      BY <2>2, <3>1, <3>2
    <3>3. CASE runner'[s] = "top"
      BY <2>2, <3>1, <3>3
    <3> QED
      BY <2>1, <3>2, <3>3
  <2>7. Told'
    BY <2>1, <2>2
  <2> QED
    BY <2>2, <2>4, <2>5, <2>6, <2>7
<1>6. CASE StorePending(j)
  BY <1>6 DEF StorePending
<1> QED
  BY <1>1, <1>2, <1>3, <1>4, <1>5, <1>6 DEF Submit

LEMMA WorkTimer ==
  ASSUME TypeInv, WorkConj, NEW j \in Jobs, Timer(j)
  PROVE  WorkConj'
<1> USE ConstantsAssumption DEF TypeInv, TypeOK, WorkHasJob, schedVars, drainVars, runnerVars,
        jobVars, stopVars, history, Working, Held, HeldByThing, HeldOnce, Told, WorkConj
<1>1. CASE InvExpires(j)
  BY <1>1 DEF InvExpires, Answered, Of
<1>2. CASE InvBeaten(j)
  BY <1>2 DEF InvBeaten
<1>3. CASE ExecExpires(j)
  BY <1>3 DEF ExecExpires, Answered, Of
<1>4. CASE ExecBeaten(j)
  BY <1>4 DEF ExecBeaten
<1> QED
  BY <1>1, <1>2, <1>3, <1>4 DEF Timer

LEMMA WorkDrain ==
  ASSUME TypeInv, ReplyConj, OrderConj, WorkConj, NEW s \in Scheds, Drain(s)
  PROVE  WorkConj'
<1> USE ConstantsAssumption DEF TypeInv, TypeOK, WorkHasJob, schedVars, drainVars, runnerVars,
        jobVars, stopVars, history, Working, Held, HeldByThing, HeldOnce, Told, WorkConj
<1>1. CASE DrainTop(s)
  BY <1>1 DEF DrainTop, DrainAt
<1>2. CASE DrainCheck(s)
  BY <1>2 DEF DrainCheck, DrainAt
<1>3. CASE DrainWaitJob(s)
  BY <1>3 DEF DrainWaitJob, DrainAt
<1>4. CASE DrainClearJob(s)
  BY <1>4 DEF DrainClearJob, DrainAt
<1>5. CASE DrainPopQueued(s)
  <2>1. ran[Head(queue[s])] = 0 /\ s \in Things
    BY <1>5, OrderPop DEF DrainPopQueued
  <2>2. request[s] = None /\ runner[s] \notin {"decode", "exec", "stopping"}
    BY <1>5 DEF DrainPopQueued, Start, DrainAt, ReplyConj, Rendezvous, BeforeHandOver, Idle
  <2>3. /\ cur' = [cur EXCEPT ![s] = Head(queue[s])]
        /\ UNCHANGED <<caller, live, request, reply, runner, taken, invTask, answer, ran>>
        /\ \E to \in {"hand", "settleInv"} : drain' = [drain EXCEPT ![s] = to]
    BY <1>5 DEF DrainPopQueued, Start, DrainAt
  <2> QED
    BY <2>1, <2>2, <2>3
<1>6. CASE DrainPopOneShot(s)
  <2>1. s \in OneShot
    BY <1>6 DEF DrainPopOneShot
  <2>2. request[s] = None /\ runner[s] \notin {"decode", "exec", "stopping"}
    BY <1>6 DEF DrainPopOneShot, Start, DrainAt, ReplyConj, Rendezvous, BeforeHandOver, Idle
  <2>3. /\ cur' = [cur EXCEPT ![s] = s]
        /\ UNCHANGED <<caller, live, request, reply, runner, taken, invTask, answer, ran>>
        /\ \E to \in {"hand", "settleInv"} : drain' = [drain EXCEPT ![s] = to]
    BY <1>6 DEF DrainPopOneShot, Start, DrainAt
  <2> QED
    BY <2>1, <2>2, <2>3
<1>7. CASE DrainPopEmpty(s)
  BY <1>7 DEF DrainPopEmpty, DrainAt
<1>8. CASE DrainSettleInv(s)
  BY <1>8 DEF DrainSettleInv, DrainAt
<1>9. CASE DrainHand(s)
  <2>1. runner[s] \notin {"decode", "exec", "stopping"}
    BY <1>9 DEF DrainHand, DrainAt, ReplyConj, Rendezvous, BeforeHandOver, Idle
  <2>2. /\ drain[s] = "hand" /\ drain' = [drain EXCEPT ![s] = "waitReply"]
        /\ request' = [request EXCEPT ![s] = cur[s]]
        /\ UNCHANGED <<caller, live, reply, cur, runner, taken, invTask, answer, ran>>
    BY <1>9 DEF DrainHand, DrainAt
  <2> QED
    BY <2>1, <2>2
<1>10. CASE DrainWaitReply(s)
  BY <1>10 DEF DrainWaitReply, DrainAt
<1>11. CASE DrainClearReply(s)
  <2>1. /\ UNCHANGED <<caller, live, request, reply, cur, runner, taken, invTask, answer, ran>>
        /\ \E to \in {"take", "settleExec"} : drain' = [drain EXCEPT ![s] = to]
    BY <1>11 DEF DrainClearReply, DrainAt
  <2> QED
    BY <2>1
<1>12. CASE DrainSettleExec(s)
  BY <1>12 DEF DrainSettleExec, DrainAt
<1>13. CASE DrainTake(s)
  <2>1. /\ UNCHANGED <<caller, live, request, cur, runner, taken, invTask, ran>>
        /\ drain' = [drain EXCEPT ![s] = "top"] /\ reply' = [reply EXCEPT ![s] = None]
    BY <1>13 DEF DrainTake, DrainAt
  <2>2. \/ answer' = Answered(answer, cur[s], Of(cur[s], "NO_REPLY"))
        \/ answer' = answer
        \/ reply[s] \in Replies /\ answer' = Answered(answer, cur[s], reply[s])
    BY <1>13 DEF DrainTake
  <2>3. reply[s] \in Replies => reply[s].kind # "INVOKATION_TIMEOUT"
    BY DEF Replies, ReplyKinds
  <2>4. Of(cur[s], "NO_REPLY").kind = "NO_REPLY"
    BY DEF Of
  <2>5. ASSUME NEW with, with.kind # "INVOKATION_TIMEOUT"
        PROVE  \A j \in Jobs : \/ Answered(answer, cur[s], with)[j] = answer[j]
                               \/ Answered(answer, cur[s], with)[j].kind # "INVOKATION_TIMEOUT"
    BY <2>5 DEF Answered
  <2>6. \A j \in Jobs : answer'[j] = answer[j] \/ answer'[j].kind # "INVOKATION_TIMEOUT"
    <3>1. CASE answer' = Answered(answer, cur[s], Of(cur[s], "NO_REPLY"))
      <4>1. Of(cur[s], "NO_REPLY").kind # "INVOKATION_TIMEOUT"
        BY <2>4
      <4> QED
        BY <2>5, <3>1, <4>1
    <3>2. CASE reply[s] \in Replies /\ answer' = Answered(answer, cur[s], reply[s])
      BY <2>3, <2>5, <3>2
    <3> QED
      BY <2>2, <3>1, <3>2
  <2>7. Told'
    BY <2>1, <2>6
  <2> QED
    BY <2>1, <2>7
<1>14. CASE DrainCleanup(s)
  BY <1>14 DEF DrainCleanup, DrainAt, Cleanup
<1> QED
  BY <1>1, <1>2, <1>3, <1>4, <1>5, <1>6, <1>7, <1>8, <1>9, <1>10, <1>11, <1>12, <1>13, <1>14 DEF Drain

LEMMA WorkRespond ==
  ASSUME TypeInv, WorkConj, NEW s \in Scheds, NEW from \in {"decode", "exec", "stopping"},
         NEW kind \in ReplyKinds, from = "decode" => kind = "ERROR", Respond(s, from, kind)
  PROVE  WorkConj'
<1> USE ConstantsAssumption DEF TypeInv, TypeOK, WorkHasJob, schedVars, drainVars, runnerVars,
        jobVars, stopVars, history, Working, Held, HeldByThing, HeldOnce, Told, WorkConj
<1>1. /\ request' = [request EXCEPT ![s] = None]
      /\ reply' = [reply EXCEPT ![s] = Of(taken[s], kind)]
      /\ UNCHANGED <<caller, drain, cur, taken, invTask, answer, ran>>
      /\ runner[s] = from
  BY DEF Respond, RunnerAt
<1>2. Of(taken[s], kind).kind = kind /\ Of(taken[s], kind).job = taken[s]
  BY DEF Of
<1>3. \E to \in {"unset", "ended", "top"} :
        /\ runner' = [runner EXCEPT ![s] = to]
        /\ s \in OneShot /\ to = "top" => live'[s] = FALSE
  BY DEF Respond, RunnerAt, Mode
<1>4. \A r \in Scheds : r # s => live'[r] = live[r]
  BY DEF Respond
<1>5. \A r \in OneShot : HeldOnce(r)'
  BY <1>1, <1>3, <1>4
<1>6. (\A r \in Scheds : Held(r)') /\ (\A t \in Things : HeldByThing(t)')
  BY <1>1, <1>3
<1>7. Told'
  BY <1>1, <1>2
<1> QED
  BY <1>1, <1>5, <1>6, <1>7

LEMMA WorkRunnerControl ==
  ASSUME TypeInv, WorkConj, NEW s \in Scheds, RunnerControl(s)
  PROVE  WorkConj'
<1> USE ConstantsAssumption DEF TypeInv, TypeOK, WorkHasJob, schedVars, drainVars, runnerVars,
        jobVars, stopVars, history, Working, Held, HeldByThing, HeldOnce, Told, WorkConj
<1>1. CASE RunnerTop(s)
  BY <1>1 DEF RunnerTop, RunnerAt
<1>2. CASE RunnerWait(s)
  BY <1>2 DEF RunnerWait, RunnerAt
<1>3. CASE RunnerClear(s)
  BY <1>3 DEF RunnerClear, RunnerAt
<1>4. CASE RunnerRead(s)
  <2>1. /\ taken' = [taken EXCEPT ![s] = request[s]]
        /\ runner' = [runner EXCEPT ![s] = IF request[s] = None THEN "top" ELSE "decode"]
        /\ runner[s] = "read"
        /\ UNCHANGED <<caller, drain, cur, request, reply, live, invTask, answer, ran>>
    BY <1>4 DEF RunnerRead, RunnerAt
  <2>2. request[s] # None => request[s] = cur[s] /\ ran[request[s]] = 0
    <3>1. CASE s \in Things
      BY <2>1, <3>1
    <3>2. CASE s \in OneShot
      <4>1. ran[s] = 0
        <5>1. HeldOnce(s) /\ ran[s] \in Nat
          BY <3>2
        <5>2. ~(ran[s] > 0)
          BY <2>1, <5>1
        <5> QED
          BY <5>1, <5>2
      <4>2. request[s] # None => request[s] = s
        BY <3>2
      <4> QED
        BY <4>1, <4>2
    <3> QED
      BY <3>1, <3>2
  <2>3. \A r \in Scheds : Held(r)'
    BY <2>1, <2>2
  <2>4. /\ \A t \in Things : HeldByThing(t)'
        /\ \A r \in OneShot : HeldOnce(r)'
    BY <2>1, <2>2
  <2> QED
    BY <2>1, <2>3, <2>4
<1>5. CASE RunnerUnset(s)
  BY <1>5 DEF RunnerUnset, RunnerAt
<1>6. CASE RunnerStopped(s)
  BY <1>6, WorkRespond DEF RunnerStopped, ReplyKinds
<1> QED
  BY <1>1, <1>2, <1>3, <1>4, <1>5, <1>6 DEF RunnerControl

LEMMA WorkExecute ==
  ASSUME TypeInv, ReplyConj, OrderConj, WorkConj, NEW s \in Scheds, RunnerExecute(s)
  PROVE  WorkConj'
<1>1. PICK j \in Jobs : j = taken[s] /\ j = cur[s] /\ ran[j] = 0
  BY DEF RunnerExecute, RunnerAt, TypeInv, WorkHasJob, WorkConj, Held, Working
<1>2. /\ ran' = [ran EXCEPT ![j] = 1] /\ runner' = [runner EXCEPT ![s] = "exec"]
      /\ UNCHANGED <<caller, drain, cur, taken, request, reply, live, invTask, answer>>
      /\ runner[s] = "decode"
  BY <1>1 DEF RunnerExecute, RunnerAt, schedVars, drainVars, jobVars
<1>3. \A r \in Scheds : r # s => cur[r] # j
  BY <1>1, OwnJob, SeqTypes
<1>4. ran'[j] = 1 /\ \A i \in Jobs : i # j => ran'[i] = ran[i]
  BY <1>2 DEF TypeInv, TypeOK
<1>5. runner'[s] = "exec" /\ \A r \in Scheds : r # s => runner'[r] = runner[r]
  BY <1>2 DEF TypeInv, TypeOK
<1>6. ASSUME NEW r \in Scheds PROVE Held(r)'
  <2>1. CASE r = s
    BY <1>1, <1>2, <1>4, <1>5, <2>1 DEF WorkConj, Held, Working
  <2>2. CASE r # s
    <3>1. Working(r) => taken[r] \in Jobs /\ taken[r] # j
      BY <1>3, <2>2 DEF TypeInv, WorkHasJob, Working, WorkConj, Held
    <3> QED
      BY <1>2, <1>4, <1>5, <2>2, <3>1 DEF WorkConj, Held, Working
  <2> QED
    BY <2>1, <2>2
<1>7. ASSUME NEW t \in Things PROVE HeldByThing(t)'
  <2>1. drain[t] \in {"settleInv", "hand"} => cur[t] \in Jobs /\ ~Working(t)
    BY DEF ReplyConj, Rendezvous, BeforeHandOver, Idle
  <2>2. CASE t = s
    BY <1>2, <1>5, <2>1, <2>2 DEF HeldByThing, Working
  <2>3. CASE t # s
    <3>1. cur[t] # j /\ runner'[t] = runner[t]
      BY <1>3, <1>5, <2>3
    <3>2. request[t] # None => request[t] = cur[t] /\ request[t] \in Jobs
      BY DEF WorkConj, Held, TypeInv, TypeOK
    <3>3. HeldByThing(t)
      BY DEF WorkConj
    <3> QED
      BY <1>2, <1>4, <2>1, <3>1, <3>2, <3>3 DEF HeldByThing
  <2> QED
    BY <2>2, <2>3
<1>8. ASSUME NEW r \in OneShot PROVE HeldOnce(r)'
  <2>1. CASE r = j
    <3>1. s = r
      <4>1. CASE s \in OneShot
        BY <1>1, <2>1, <4>1, SeqTypes DEF WorkConj, HeldOnce
      <4>2. CASE s \in Things
        <5>1. Latest(queue[s], sent[s], cur[s], Ran)
          BY <1>1, <4>2, SeqTypes DEF OrderConj, Ordered
        <5>2. PICK m \in Nat, n \in Nat : m = Len(queue[s]) /\ n = Len(sent[s])
          BY <4>2, SeqTypes
        <5>3. PICK q \in 1 .. n - m : sent[s][q] = j
          BY <1>1, <5>1, <5>2 DEF Latest
        <5>4. q \in 1 .. n
          OBVIOUS
        <5>5. j \in Synchronous
          BY <4>2, <5>2, <5>3, <5>4 DEF OrderConj, SentTo
        <5> QED
          BY <2>1, <5>5
      <4> QED
        BY <4>1, <4>2
    <3> QED
      BY <1>2, <1>5, <3>1 DEF WorkConj, HeldOnce
  <2>2. CASE r # j
    <3>1. ran'[r] = ran[r]
      BY <1>4, <2>2
    <3>2. HeldOnce(r)
      BY DEF WorkConj
    <3> QED
      BY <1>2, <1>5, <3>1, <3>2 DEF HeldOnce
  <2> QED
    BY <2>1, <2>2
<1>9. Told'
  <2>1. \A r \in Scheds : reply[r] # None => reply[r].job \in Jobs
    BY DEF TypeInv, TypeOK, Replies
  <2> QED
    BY <1>2, <1>4, <2>1 DEF WorkConj, Told
<1>10. \A i \in Jobs : ran'[i] <= 1
  BY <1>4 DEF WorkConj
<1> QED
  BY <1>6, <1>7, <1>8, <1>9, <1>10 DEF WorkConj

LEMMA WorkRunnerWork ==
  ASSUME TypeInv, ReplyConj, OrderConj, WorkConj, NEW s \in Scheds, RunnerWork(s)
  PROVE  WorkConj'
<1>1. CASE RunnerExecute(s)
  BY <1>1, WorkExecute
<1>2. CASE RunnerReturn(s)
  <2> PICK kind \in Outcomes \cap ReplyKinds : Respond(s, "exec", kind)
    BY <1>2 DEF RunnerReturn
  <2> QED
    BY WorkRespond
<1>3. CASE RunnerUndecodable(s)
  <2>1. CASE Respond(s, "decode", "ERROR")
    BY <2>1, WorkRespond DEF ReplyKinds
  <2>2. CASE RunnerAt(s, "decode", "dead") /\ UNCHANGED <<schedVars, drainVars, taken, logsBound,
                                                         jobVars, stopVars, history>>
    BY <2>2 DEF RunnerAt, TypeInv, TypeOK, WorkHasJob, schedVars, drainVars,
       jobVars, stopVars, history, Working, Held, HeldByThing, HeldOnce, Told, WorkConj
  <2> QED
    BY <1>3, <2>1, <2>2 DEF RunnerUndecodable
<1>4. CASE RunnerCallsStop(s)
  BY <1>4 DEF RunnerCallsStop, RunnerAt, TypeInv, TypeOK, WorkHasJob, schedVars, drainVars,
     jobVars, stopVars, history, Working, Held, HeldByThing, HeldOnce, Told, WorkConj
<1> QED
  BY <1>1, <1>2, <1>3, <1>4 DEF RunnerWork

LEMMA WorkStop ==
  ASSUME TypeInv, WorkConj, NEW x \in Stoppers, Stop(x)
  PROVE  WorkConj'
<1> USE ConstantsAssumption DEF TypeInv, TypeOK, WorkHasJob, schedVars, drainVars, runnerVars,
        jobVars, stopVars, history, Working, Held, HeldByThing, HeldOnce, Told, WorkConj
<1>1. CASE StopFlag(x)
  BY <1>1 DEF StopFlag
<1>2. CASE StopClean(x)
  BY <1>2 DEF StopClean, Cleanup
<1>3. CASE StopClear(x)
  BY <1>3 DEF StopClear, Of
<1> QED
  BY <1>1, <1>2, <1>3 DEF Stop

-----------------------------------------------------------------------------
LEMMA OrderDrain ==
  ASSUME TypeInv, OrderConj, NEW s \in Scheds, Drain(s)
  PROVE  OrderConj'
<1>1. CASE DrainPopQueued(s)
  BY <1>1, OrderPop
<1>2. CASE DrainPopOneShot(s)
  <2>1. /\ cur' = [cur EXCEPT ![s] = s] /\ s \in OneShot
        /\ UNCHANGED <<caller, queue, sent, done, ran>>
    BY <1>2 DEF DrainPopOneShot, Start, DrainAt, history
  <2>2. \A t \in Things : cur'[t] = cur[t]
    BY <2>1, ConstantsAssumption DEF TypeInv, TypeOK
  <2> QED
    BY <2>1, <2>2, OrderSame
<1>3. CASE DrainCleanup(s)
  BY <1>3, OrderCleanup DEF DrainCleanup, DrainAt, history
<1>4. CASE ~DrainPopQueued(s) /\ ~DrainPopOneShot(s) /\ ~DrainCleanup(s)
  <2>1. UNCHANGED <<caller, queue, sent, done, ran, cur>>
    BY <1>4 DEF Drain, DrainTop, DrainCheck, DrainWaitJob, DrainClearJob, DrainPopEmpty,
       DrainSettleInv, DrainHand, DrainWaitReply, DrainClearReply, DrainSettleExec, DrainTake,
       DrainAt, schedVars, history
  <2> QED
    BY <2>1, OrderSame
<1> QED
  BY <1>1, <1>2, <1>3, <1>4

LEMMA OrderRunner ==
  ASSUME TypeInv, OrderConj, WorkConj, NEW s \in Scheds, RunnerControl(s) \/ RunnerWork(s)
  PROVE  OrderConj'
<1>1. CASE RunnerExecute(s)
  BY <1>1, OrderExecute
<1>2. CASE ~RunnerExecute(s)
  <2>1. UNCHANGED <<caller, queue, sent, done, ran, cur>>
    BY <1>2 DEF RunnerControl, RunnerWork, RunnerTop, RunnerWait, RunnerClear, RunnerRead,
       RunnerUnset, RunnerStopped, RunnerReturn, RunnerUndecodable, RunnerCallsStop, Respond,
       RunnerAt, schedVars, drainVars, history
  <2> QED
    BY <2>1, OrderSame
<1> QED
  BY <1>1, <1>2

LEMMA OrderStop ==
  ASSUME TypeInv, OrderConj, NEW x \in Stoppers, Stop(x)
  PROVE  OrderConj'
<1>1. CASE StopClean(x)
  <2> PICK t \in toClean[x] : Cleanup(t) /\ UNCHANGED <<caller, sent, done, ran, cur>>
    BY <1>1 DEF StopClean, drainVars, history
  <2> t \in Things
    BY DEF TypeInv, TypeOK
  <2> QED
    BY OrderCleanup
<1>2. CASE StopFlag(x) \/ StopClear(x)
  <2>1. UNCHANGED <<caller, queue, sent, done, ran, cur>>
    BY <1>2 DEF StopFlag, StopClear, schedVars, drainVars, history
  <2> QED
    BY <2>1, OrderSame
<1> QED
  BY <1>1, <1>2 DEF Stop

LEMMA OnceNext == OnceInv /\ [Next]_vars => OrderConj' /\ WorkConj'
<1> SUFFICES ASSUME OnceInv, [Next]_vars PROVE OrderConj' /\ WorkConj'
  OBVIOUS
<1> USE DEF OnceInv
<1>1. CASE Run
  <2>1. OrderConj'
    BY <1>1, OrderSame DEF Run, schedVars, history
  <2>2. \A s \in Scheds : drain[s] = "off" /\ runner[s] = "off"
    BY <1>1 DEF Run, ReplyConj, BeforeRun
  <2>3. WorkConj'
    BY <1>1, <2>2 DEF Run, TypeInv, TypeOK, schedVars, jobVars, history, Working, Held, HeldByThing,
       HeldOnce, Told, WorkConj
  <2> QED
    BY <2>1, <2>3
<1>2. CASE LoopEnds \/ (\E x \in Stoppers : StopCall(x)) \/ UNCHANGED vars
  <2>1. UNCHANGED <<caller, queue, sent, done, live, request, reply, drain, cur, runner, taken,
                    invTask, answer, ran>>
    BY <1>2 DEF LoopEnds, StopCall, vars, schedVars, drainVars, runnerVars, jobVars, history
  <2>2. OrderConj'
    BY <2>1, OrderSame
  <2>3. WorkConj'
    BY <2>1 DEF Working, Held, HeldByThing, HeldOnce, Told, WorkConj
  <2> QED
    BY <2>2, <2>3
<1>3. ASSUME NEW j \in Jobs, Submit(j) PROVE OrderConj' /\ WorkConj'
  BY <1>3, OrderSubmit, WorkSubmit
<1>4. ASSUME NEW j \in Jobs, Timer(j) PROVE OrderConj' /\ WorkConj'
  <2>1. UNCHANGED <<caller, queue, sent, done, ran, cur>>
    BY <1>4 DEF Timer, InvExpires, InvBeaten, ExecExpires, ExecBeaten, schedVars, drainVars, history
  <2> QED
    BY <1>4, <2>1, OrderSame, WorkTimer
<1>5. ASSUME NEW s \in Scheds, Drain(s) PROVE OrderConj' /\ WorkConj'
  BY <1>5, OrderDrain, WorkDrain
<1>6. ASSUME NEW s \in Scheds, RunnerControl(s) \/ RunnerWork(s) PROVE OrderConj' /\ WorkConj'
  BY <1>6, OrderRunner, WorkRunnerControl, WorkRunnerWork
<1>7. ASSUME NEW x \in Stoppers, Stop(x) PROVE OrderConj' /\ WorkConj'
  BY <1>7, OrderStop, WorkStop
<1> QED
  BY <1>1, <1>2, <1>3, <1>4, <1>5, <1>6, <1>7 DEF Next

LEMMA OnceInit == Init => OrderConj /\ WorkConj
<1> SUFFICES ASSUME Init PROVE OrderConj /\ WorkConj
  OBVIOUS
<1>1. ASSUME NEW t \in Things PROVE Ordered(<<>>, <<>>, <<>>, None, Ran)
  <2>1. At(<<>>, Ran) = {}
    BY DEF At
  <2>2. IsRest(<<>>, <<>>) /\ Distinct(<<>>)
    BY DEF IsRest, Distinct
  <2>3. Selects(<<>>, <<>>, {})
    <3>1. [i \in {} |-> i] \in [{} -> {}]
      OBVIOUS
    <3>2. 1 .. Len(<<>>) = {}
      OBVIOUS
    <3> QED
      BY <3>1, <3>2 DEF Selects
  <2> QED
    BY <2>1, <2>2, <2>3 DEF Ordered
<1>2. OrderConj
  BY <1>1 DEF Init, OrderConj, SentTo
<1>3. WorkConj
  BY DEF Init, WorkConj, Held, HeldByThing, HeldOnce, Told, Working
<1> QED
  BY <1>2, <1>3

(* No operation is executed twice, whatever expires, stops or fails.       *)
THEOREM OnceCorrect == Spec => []OnceInv
<1>1. Init => OnceInv
  BY TypeInit, TimeoutInit, ReplyInit, OnceInit DEF OnceInv
<1>2. OnceInv /\ [Next]_vars => OnceInv'
  BY TypeNext, TimeoutNext, ReplyNext, OnceNext DEF OnceInv
<1> QED
  BY <1>1, <1>2, PTL DEF Spec

(* A Thing's operations are executed in the order in which they were       *)
(* dispatched to it, those that were cleared or expired left out.          *)
THEOREM DoneInOrder == Spec => []ExecutedInOrder
<1>1. OnceInv => ExecutedInOrder
  <2> SUFFICES ASSUME OnceInv, NEW t \in Things
               PROVE  Selects(done[t], sent[t], {p \in 1 .. Len(sent[t]) : ran[sent[t][p]] > 0})
    BY DEF ExecutedInOrder
  <2>1. At(sent[t], Ran) = {p \in 1 .. Len(sent[t]) : ran[sent[t][p]] > 0}
    BY SeqTypes DEF OnceInv, At, Ran
  <2> QED
    BY <2>1 DEF OnceInv, OrderConj, Ordered
<1> QED
  BY <1>1, OnceCorrect, PTL

LEMMA PromiseResolves ==
  ASSUME TypeInv, NEW j \in Jobs, NEW with \in Answers, answer' = Answered(answer, j, with),
         UNCHANGED ran, with.kind # "CANCELLED",
         with.kind \in {"OK", "EXIT"} => ran[j] = 1,
         with.kind = "INVOKATION_TIMEOUT" => ran[j] = 0
  PROVE  [Promise!Next]_(Promise!vars)
<1>1. with.kind \in AnswerKinds /\ with # None
  BY ConstantsAssumption DEF Answers
<1>2. CASE answer[j] = None
  <2>1. Outcome' = [Outcome EXCEPT ![j] = with.kind] /\ Outcome[j] = "open"
    BY <1>1, <1>2 DEF Outcome, Answered, TypeInv, TypeOK
  <2>2. with.kind \in Promise!Kinds \ {"CANCELLED"}
    BY <1>1 DEF AnswerKinds, ReplyKinds, Promise!Kinds, Promise!Returned
  <2>3. Promise!Resolve(j, with.kind)
    BY <2>1 DEF Promise!Resolve, Promise!Returned
  <2> QED
    BY <2>2, <2>3 DEF Promise!Next
<1>3. CASE answer[j] # None
  <2>1. answer' = answer
    BY <1>3 DEF Answered, TypeInv, TypeOK
  <2> QED
    BY <2>1 DEF Promise!vars, Outcome
<1> QED
  BY <1>2, <1>3

LEMMA PromiseNext == OnceInv /\ [Next]_vars => [Promise!Next]_(Promise!vars)
<1> SUFFICES ASSUME OnceInv, [Next]_vars PROVE [Promise!Next]_(Promise!vars)
  OBVIOUS
<1> USE DEF OnceInv
<1>1. CASE UNCHANGED <<ran, answer>>
  BY <1>1 DEF Promise!vars, Outcome
<1>2. ASSUME NEW s \in Scheds, RunnerExecute(s) PROVE [Promise!Next]_(Promise!vars)
  <2>1. PICK j \in Jobs : j = taken[s] /\ ran[j] = 0
    BY <1>2 DEF RunnerExecute, RunnerAt, TypeInv, WorkHasJob, WorkConj, Held
  <2>2. ran' = [ran EXCEPT ![j] = 1] /\ Outcome' = Outcome
    BY <1>2, <2>1 DEF RunnerExecute, jobVars, Outcome
  <2>3. Outcome[j] # "INVOKATION_TIMEOUT"
    <3>1. invTask[j] # "expired"
      BY <1>2, <2>1 DEF RunnerExecute, RunnerAt, TimeoutConj, HandedUntimed, Untimed, Working
    <3> QED
      BY <3>1 DEF Outcome, WorkConj, Told
  <2> QED
    BY <2>1, <2>2, <2>3 DEF Promise!Next, Promise!Execute
<1>3. ASSUME NEW j \in Jobs, InvExpires(j) PROVE [Promise!Next]_(Promise!vars)
  <2>1. ran[j] = 0
    <3>1. ~(ran[j] > 0)
      BY <1>3 DEF InvExpires, TimeoutConj, ExecutedUntimed, Untimed
    <3>2. ran[j] \in Nat
      BY DEF TypeInv, TypeOK
    <3> QED
      BY <3>1, <3>2
  <2>2. Of(j, "INVOKATION_TIMEOUT") \in Answers /\ Of(j, "INVOKATION_TIMEOUT").kind = "INVOKATION_TIMEOUT"
    BY DEF Of, Answers, AnswerKinds
  <2> QED
    BY <1>3, <2>1, <2>2, PromiseResolves DEF InvExpires, history
<1>4. ASSUME NEW j \in Jobs, ExecExpires(j) PROVE [Promise!Next]_(Promise!vars)
  <2>1. Of(j, "EXECUTION_TIMEOUT") \in Answers /\ Of(j, "EXECUTION_TIMEOUT").kind = "EXECUTION_TIMEOUT"
    BY DEF Of, Answers, AnswerKinds
  <2> QED
    BY <1>4, <2>1, PromiseResolves DEF ExecExpires, history
<1>5. ASSUME NEW s \in Scheds, DrainTake(s) PROVE [Promise!Next]_(Promise!vars)
  <2>1. cur[s] \in Jobs /\ (reply[s] # None => reply[s].job = cur[s])
    BY <1>5 DEF DrainTake, DrainAt, ReplyConj, Rendezvous, AfterWait, Asked, Replied
  <2>2. UNCHANGED ran
    BY <1>5 DEF DrainTake, history
  <2>3. CASE answer' = Answered(answer, cur[s], Of(cur[s], "NO_REPLY"))
    <3>1. Of(cur[s], "NO_REPLY") \in Answers /\ Of(cur[s], "NO_REPLY").kind = "NO_REPLY"
      BY <2>1 DEF Of, Answers, AnswerKinds
    <3> QED
      BY <2>1, <2>2, <2>3, <3>1, PromiseResolves
  <2>4. CASE reply[s] # None /\ answer' = Answered(answer, cur[s], reply[s])
    <3>1. reply[s] \in Replies
      BY <2>4 DEF TypeInv, TypeOK
    <3>2. reply[s] \in Answers /\ reply[s].kind \in {"OK", "ERROR", "EXIT"}
      BY <3>1 DEF Replies, Answers, AnswerKinds, ReplyKinds
    <3>3. reply[s].kind \in {"OK", "EXIT"} => ran[cur[s]] = 1
      BY <2>1, <2>4 DEF WorkConj, Told
    <3> QED
      BY <2>1, <2>2, <2>4, <3>2, <3>3, PromiseResolves
  <2>5. CASE answer' = answer
    BY <1>1, <2>2, <2>5
  <2> QED
    BY <1>5, <2>3, <2>4, <2>5 DEF DrainTake
<1>6. ASSUME NEW x \in Stoppers, StopClear(x) PROVE [Promise!Next]_(Promise!vars)
  <2> DEFINE js == {j \in Jobs : j \in pending /\ answer[j] = None}
  <2>1. \A j \in js : Outcome[j] = "open"
    BY DEF Outcome
  <2>2. Outcome' = [j \in Jobs |-> IF j \in js THEN "CANCELLED" ELSE Outcome[j]]
    <3>1. \A j \in Jobs : Of(j, "CANCELLED") # None /\ Of(j, "CANCELLED").kind = "CANCELLED"
      BY ConstantsAssumption DEF Of, AnswerKinds
    <3>2. answer' = [j \in Jobs |-> IF j \in js THEN Of(j, "CANCELLED") ELSE answer[j]]
      BY <1>6 DEF StopClear
    <3> QED
      BY <3>1, <3>2 DEF Outcome
  <2>3. UNCHANGED ran
    BY <1>6 DEF StopClear, history
  <2>4. Promise!Cancel(js)
    BY <2>1, <2>2, <2>3 DEF Promise!Cancel
  <2> QED
    BY <2>4 DEF Promise!Next
<1>7. \/ UNCHANGED <<ran, answer>>
      \/ \E s \in Scheds : RunnerExecute(s) \/ DrainTake(s)
      \/ \E j \in Jobs : InvExpires(j) \/ ExecExpires(j)
      \/ \E x \in Stoppers : StopClear(x)
  <2>1. ASSUME NEW j \in Jobs, Submit(j) PROVE UNCHANGED <<ran, answer>>
    BY <2>1 DEF Submit, SubmitCheck, SubmitMake, DispatchQueued, NotifyQueued, DispatchOneShot,
       StorePending, jobVars, history
  <2>2. ASSUME NEW j \in Jobs, Timer(j)
        PROVE  InvExpires(j) \/ ExecExpires(j) \/ UNCHANGED <<ran, answer>>
    BY <2>2 DEF Timer, InvBeaten, ExecBeaten, history
  <2>3. ASSUME NEW s \in Scheds, Drain(s) PROVE DrainTake(s) \/ UNCHANGED <<ran, answer>>
    BY <2>3 DEF Drain, DrainTop, DrainCheck, DrainWaitJob, DrainClearJob, DrainPopQueued,
       DrainPopOneShot, DrainPopEmpty, DrainSettleInv, DrainHand, DrainWaitReply, DrainClearReply,
       DrainSettleExec, DrainCleanup, Start, jobVars, history
  <2>4. ASSUME NEW s \in Scheds, RunnerControl(s) \/ RunnerWork(s)
        PROVE  RunnerExecute(s) \/ UNCHANGED <<ran, answer>>
    BY <2>4 DEF RunnerControl, RunnerWork, RunnerTop, RunnerWait, RunnerClear, RunnerRead,
       RunnerUnset, RunnerStopped, RunnerReturn, RunnerUndecodable, RunnerCallsStop, Respond,
       jobVars, history
  <2>5. ASSUME NEW x \in Stoppers, StopCall(x) \/ Stop(x)
        PROVE  StopClear(x) \/ UNCHANGED <<ran, answer>>
    BY <2>5 DEF StopCall, Stop, StopFlag, StopClean, jobVars, history
  <2>6. CASE Run \/ LoopEnds \/ UNCHANGED vars
    BY <2>6 DEF Run, LoopEnds, vars, jobVars, history
  <2> QED
    BY <2>1, <2>2, <2>3, <2>4, <2>5, <2>6 DEF Next
<1> QED
  BY <1>1, <1>2, <1>3, <1>4, <1>5, <1>6, <1>7

(* The event loop implements JobPromise, step by step: an operation is     *)
(* executed at most once, its caller is told one outcome, and what a       *)
(* caller was told has not begun in time never begins.                     *)
THEOREM PromiseKept == Spec => KeepsPromise
<1>1. Init => Promise!Init
  BY DEF Init, Outcome, Promise!Init
<1> QED
  BY <1>1, OnceCorrect, PromiseNext, PTL DEF Spec, KeepsPromise, Promise!Spec
=============================================================================
