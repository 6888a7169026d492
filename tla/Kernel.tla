------------------------------- MODULE Kernel --------------------------------
(***************************************************************************)
(* The uniprocessor non-MCS kernel as a state machine.  User threads make  *)
(* system calls, fault, and are interrupted; each kernel entry runs its    *)
(* handler, then schedule() and activateThread(), with interrupts off.     *)
(*                                                                         *)
(* A kernel entry takes one step for the handler and one for scheduling;   *)
(* the handlers that loop over a wait queue take one step per iteration.   *)
(* phase makes sure that nothing runs in between, so the extra steps only  *)
(* expose states the C code passes through.                                *)
(***************************************************************************)
EXTENDS IPC

CONSTANTS
  Syscalls,    \* the kernel entries the user-level programs make
  DomainPrio   \* the lowest priority of a thread that holds the domain cap

ASSUME DomainCapAssumption == DomainPrio \in Prios

VARIABLES
  ks,      \* the kernel state
  phase,   \* "user", a queue loop, or "schedule"
  loop     \* the local variables of a queue loop: object, badge, todo, queue

vars == <<ks, phase, loop>>

LoopPhases == {"cancelAllIPC", "cancelBadgedSends", "cancelAllSignals"}

NoLoop == [obj |-> Null, badge |-> Null, todo |-> <<>>, queue |-> <<>>]

(***************************************************************************)
(* Boot: the initial thread t0 runs at the highest priority, and is the    *)
(* only object there is.                                                   *)
(***************************************************************************)
InitKS(t0) ==
  [live                 |-> {t0},
   tsType               |-> [t \in Threads |-> IF t = t0 THEN "Running" ELSE "Inactive"],
   blocking             |-> [t \in Threads |-> NotBlocking],
   tcbQueued            |-> [t \in Threads |-> FALSE],
   tcbPriority          |-> [t \in Threads |-> IF t = t0 THEN MaxPrio ELSE 0],
   tcbDomain            |-> [t \in Threads |-> DomSchedule[1].domain],
   tcbTimeSlice         |-> [t \in Threads |-> TimeSlice],
   tcbFault             |-> [t \in Threads |-> FALSE],
   tcbBoundNotification |-> [t \in Threads |-> Null],
   replyMaster          |-> [t \in Threads |-> t = t0],
   replyCap             |-> [s \in ReplySlots |-> Null],
   epState              |-> [e \in Endpoints |-> "Idle"],
   epQueue              |-> [e \in Endpoints |-> <<>>],
   ntfnState            |-> [n \in Notifications |-> "Idle"],
   ntfnQueue            |-> [n \in Notifications |-> <<>>],
   ntfnMsgIdentifier    |-> [n \in Notifications |-> {}],
   ntfnBoundTCB         |-> [n \in Notifications |-> Null],
   ksReadyQueues        |-> [i \in ReadyQueueIdx |-> <<>>],
   ksSchedulerAction    |-> t0,
   ksCurThread          |-> IdleThread,
   ksDomScheduleIdx     |-> 1,
   ksCurDomain          |-> DomSchedule[1].domain,
   ksDomainTime         |-> DomSchedule[1].length,
   transfer             |-> NoTransfer,
   asserts              |-> TRUE]

Init ==
  /\ \E t0 \in Threads : ks = InitKS(t0)
  /\ phase = "schedule"
  /\ loop = NoLoop

-----------------------------------------------------------------------------

cur == ks.ksCurThread

\* The objects that user caps can name.
TCBs == Threads \cap ks.live

EPs == Endpoints \cap ks.live

Ntfns == Notifications \cap ks.live

RecvObjects == EPs \cup Ntfns \cup {Null}

\* A fault handler is an endpoint cap [ep, badge] with the rights a fault IPC
\* needs, or Null when there is none: then the thread double-faults.
FaultHandlers == [ep : EPs, badge : Badges] \cup {Null}

Syscall(name) ==
  /\ phase = "user"
  /\ cur # IdleThread
  /\ name \in Syscalls

\* The handler is done: schedule() comes next.
EndHandler(k) ==
  /\ ks' = k
  /\ phase' = "schedule"
  /\ UNCHANGED loop

\* decode* sets the invoking thread to Restart before the invocation proper.
beginInvocation(k) == setThreadState(k, k.ksCurThread, "Restart")

\* The end of handleInvocation: a thread still in Restart has its answer.
finishInvocation(k) ==
  IF k.tsType[k.ksCurThread] = "Restart"
  THEN setThreadState(k, k.ksCurThread, "Running") ELSE k

-----------------------------------------------------------------------------
(* IPC system calls *)

Send(ep, badge, canReply, blocking) ==
  /\ Syscall("Send")
  /\ EndHandler(finishInvocation(
       sendIPC(beginInvocation(ks), blocking, FALSE, badge, canReply, cur, ep)))

Call(ep, badge, canReply) ==
  /\ Syscall("Call")
  /\ EndHandler(finishInvocation(
       sendIPC(beginInvocation(ks), TRUE, TRUE, badge, canReply, cur, ep)))

Recv(obj, blocking, handler) ==
  /\ Syscall("Recv")
  /\ EndHandler(handleRecv(ks, obj, blocking, handler))

Reply(restartThread) ==
  /\ Syscall("Reply")
  /\ EndHandler(handleReply(ks, restartThread))

ReplyRecv(restartThread, obj, handler) ==
  /\ Syscall("ReplyRecv")
  /\ EndHandler(handleRecv(handleReply(ks, restartThread), obj, TRUE, handler))

\* Invoking a reply cap that was saved to a CNode slot.
InvokeReply(slot, restartThread) ==
  /\ Syscall("InvokeReply")
  /\ ks.replyCap[slot] # Null
  /\ EndHandler(finishInvocation(
       doReplyTransfer(beginInvocation(ks), cur, ks.replyCap[slot], slot, restartThread)))

Signal(ntfn, badge) ==
  /\ Syscall("Signal")
  /\ EndHandler(finishInvocation(sendSignal(beginInvocation(ks), ntfn, badge)))

\* A VM fault, user exception, unknown system call or a cap lookup that fails.
Fault(handler) ==
  /\ Syscall("Fault")
  /\ EndHandler(handleFault(ks, cur, handler))

Yield ==
  /\ Syscall("Yield")
  /\ EndHandler(handleYield(ks))

-----------------------------------------------------------------------------
(* CNode invocations on reply caps *)

SaveCaller(slot) ==
  /\ Syscall("SaveCaller")
  /\ ks.replyCap[slot] = Null
  /\ LET k == beginInvocation(ks)
     IN  EndHandler(finishInvocation(
           [k EXCEPT !.replyCap[slot] = k.replyCap[cur], !.replyCap[cur] = Null]))

DeleteReplyCap(slot) ==
  /\ Syscall("DeleteReplyCap")
  /\ ks.replyCap[slot] # Null
  /\ EndHandler(finishInvocation(cteDeleteOne(beginInvocation(ks), slot)))

-----------------------------------------------------------------------------
(* TCB and domain invocations *)

\* Retype creates an object in cleared memory, a TCB in the domain of the thread
\* that asks.  The two sides of a binding are not cleared again: NoDanglingReferences
\* says that they are Null in every object that is not live.
createTCB(k, t) ==
  [k EXCEPT !.live            = @ \cup {t},
            !.tsType[t]       = "Inactive",
            !.blocking[t]     = NotBlocking,
            !.tcbQueued[t]    = FALSE,
            !.tcbPriority[t]  = 0,
            !.tcbDomain[t]    = k.ksCurDomain,
            !.tcbTimeSlice[t] = TimeSlice,
            !.tcbFault[t]     = FALSE,
            !.replyMaster[t]  = FALSE,
            !.replyCap[t]     = Null]

RetypeThread(t) ==
  /\ Syscall("Retype")
  /\ t \notin ks.live
  /\ EndHandler(finishInvocation(createTCB(beginInvocation(ks), t)))

RetypeEndpoint(ep) ==
  /\ Syscall("Retype")
  /\ ep \notin ks.live
  /\ LET k == beginInvocation(ks)
     IN  EndHandler(finishInvocation(
           [k EXCEPT !.live = @ \cup {ep}, !.epQueue[ep] = <<>>, !.epState[ep] = "Idle"]))

RetypeNotification(ntfn) ==
  /\ Syscall("Retype")
  /\ ntfn \notin ks.live
  /\ LET k == beginInvocation(ks)
     IN  EndHandler(finishInvocation(
           [k EXCEPT !.live = @ \cup {ntfn}, !.ntfnQueue[ntfn] = <<>>,
                     !.ntfnState[ntfn] = "Idle", !.ntfnMsgIdentifier[ntfn] = {}]))

TCBSuspend(t) ==
  /\ Syscall("Suspend")
  /\ EndHandler(finishInvocation(suspend(beginInvocation(ks), t)))

TCBResume(t) ==
  /\ Syscall("Resume")
  /\ EndHandler(finishInvocation(restart(beginInvocation(ks), t)))

TCBSetPriority(t, prio) ==
  /\ Syscall("SetPriority")
  /\ EndHandler(finishInvocation(setPriority(beginInvocation(ks), t, prio)))

\* SetIPCBuffer and SetTLSBase reschedule when they change the running thread.
TCBSetContext(t) ==
  LET k == beginInvocation(ks)
  IN  /\ Syscall("SetContext")
      /\ EndHandler(finishInvocation(IF t = cur THEN rescheduleRequired(k) ELSE k))

TCBCopyRegisters(dest, src, suspendSource, resumeTarget) ==
  LET k  == beginInvocation(ks)
      k1 == IF suspendSource THEN suspend(k, src) ELSE k
      k2 == IF resumeTarget THEN restart(k1, dest) ELSE k1
  IN  /\ Syscall("CopyRegisters")
      /\ EndHandler(finishInvocation(IF dest = cur THEN rescheduleRequired(k2) ELSE k2))

TCBReadRegisters(t, suspendSource) ==
  LET k == beginInvocation(ks)
  IN  /\ Syscall("ReadRegisters")
      /\ t # cur
      /\ EndHandler(finishInvocation(
           setThreadState(IF suspendSource THEN suspend(k, t) ELSE k, cur, "Running")))

TCBWriteRegisters(t, resumeTarget) ==
  LET k == beginInvocation(ks)
  IN  /\ Syscall("WriteRegisters")
      /\ t # cur
      /\ EndHandler(finishInvocation(IF resumeTarget THEN restart(k, t) ELSE k))

\* Mutant of TCBBindNotification: no check for waiters or a bound TCB.
TCBBindNotification_Unchecked(t, ntfn) ==
  /\ Syscall("BindNotification")
  /\ ks.tcbBoundNotification[t] = Null
  /\ EndHandler(finishInvocation(bindNotification(beginInvocation(ks), t, ntfn)))

TCBBindNotification(t, ntfn) ==
  /\ Syscall("BindNotification")
  /\ ks.tcbBoundNotification[t] = Null
  /\ ks.ntfnQueue[ntfn] = <<>>
  /\ ks.ntfnBoundTCB[ntfn] = Null
  /\ EndHandler(finishInvocation(bindNotification(beginInvocation(ks), t, ntfn)))

TCBUnbindNotification(t) ==
  /\ Syscall("UnbindNotification")
  /\ ks.tcbBoundNotification[t] # Null
  /\ EndHandler(finishInvocation(unbindNotification(beginInvocation(ks), t)))

\* decodeDomainInvocation, by a thread that has a domain cap.
DomainSet(t, dom) ==
  /\ Syscall("DomainSet") /\ ks.tcbPriority[cur] >= DomainPrio
  /\ EndHandler(finishInvocation(setDomain(beginInvocation(ks), t, dom)))

\* Mutant of DeleteThread: the thread is not suspended.
DeleteThread_NotSuspended(t) ==
  /\ Syscall("DeleteThread")
  /\ EndHandler(finishInvocation(
       [cteDeleteOne(unbindNotification(beginInvocation(ks), t), t)
          EXCEPT !.replyMaster[t] = FALSE, !.live = @ \ {t}]))

\* Deleting the last cap to a TCB: finaliseCap, then the slots of the TCB.
DeleteThread(t) ==
  LET k == suspend(unbindNotification(beginInvocation(ks), t), t)
  IN  /\ Syscall("DeleteThread")
      /\ EndHandler(finishInvocation(
           [cteDeleteOne(k, t) EXCEPT !.replyMaster[t] = FALSE, !.live = @ \ {t}]))

-----------------------------------------------------------------------------
(* Invocations that loop over a wait queue *)

\* Start a loop over queue, whose object has been made idle in k.
BeginLoop(k, name, obj, badge, queue) ==
  /\ ks' = k
  /\ phase' = name
  /\ loop' = [obj |-> obj, badge |-> badge, todo |-> queue, queue |-> queue]

EndLoop(k) ==
  /\ ks' = finishInvocation(rescheduleRequired(k))
  /\ phase' = "schedule"
  /\ loop' = NoLoop

epMakeIdle(k, ep) == [k EXCEPT !.epState[ep] = "Idle", !.epQueue[ep] = <<>>]

wakeToRestart(k, t) == tcbSchedEnqueue(setThreadState(k, t, "Restart"), t)

\* Deleting the last cap to an endpoint: finaliseCap calls cancelAllIPC.
DeleteEndpoint(ep) ==
  LET k == beginInvocation(ks)
  IN  /\ Syscall("DeleteEndpoint")
      /\ \/ /\ k.epState[ep] = "Idle"
            /\ EndHandler(finishInvocation([k EXCEPT !.live = @ \ {ep}]))
         \/ /\ k.epState[ep] # "Idle"
            /\ BeginLoop(epMakeIdle(k, ep), "cancelAllIPC", ep, Null, k.epQueue[ep])

CancelBadgedSends(ep, badge) ==
  LET k == beginInvocation(ks)
  IN  /\ Syscall("CancelBadgedSends")
      /\ \/ /\ k.epState[ep] # "Send" \/ badge = 0
            /\ EndHandler(finishInvocation(k))
         \/ /\ k.epState[ep] = "Send" /\ badge # 0
            /\ BeginLoop(epMakeIdle(k, ep), "cancelBadgedSends", ep, badge, k.epQueue[ep])

\* Deleting the last cap to a notification: unbind, then cancelAllSignals.
DeleteNotification(ntfn) ==
  LET k == unbindMaybeNotification(beginInvocation(ks), ntfn)
  IN  /\ Syscall("DeleteNotification")
      /\ \/ /\ k.ntfnState[ntfn] # "Waiting"
            /\ EndHandler(finishInvocation([k EXCEPT !.live = @ \ {ntfn}]))
         \/ /\ k.ntfnState[ntfn] = "Waiting"
            /\ BeginLoop([k EXCEPT !.ntfnState[ntfn] = "Idle", !.ntfnQueue[ntfn] = <<>>],
                         "cancelAllSignals", ntfn, Null, k.ntfnQueue[ntfn])

\* One iteration of cancelAllIPC or cancelAllSignals.
CancelAllStep ==
  /\ phase \in {"cancelAllIPC", "cancelAllSignals"}
  /\ loop.todo # <<>>
  /\ ks' = wakeToRestart(ks, Head(loop.todo))
  /\ loop' = [loop EXCEPT !.todo = Tail(@), !.queue = Tail(loop.todo)]
  /\ UNCHANGED phase

CancelAllDone ==
  /\ phase \in {"cancelAllIPC", "cancelAllSignals"}
  /\ loop.todo = <<>>
  /\ EndLoop([ks EXCEPT !.live = @ \ {loop.obj}])

\* One iteration of cancelBadgedSends.
CancelBadgedStep ==
  /\ phase = "cancelBadgedSends"
  /\ loop.todo # <<>>
  /\ LET thread == Head(loop.todo)
         match  == ks.blocking[thread].badge = loop.badge
     IN  /\ ks' = IF match THEN wakeToRestart(ks, thread) ELSE ks
         /\ loop' = [loop EXCEPT !.todo = Tail(@),
                                 !.queue = IF match THEN tcbEPDequeue(thread, @) ELSE @]
  /\ UNCHANGED phase

CancelBadgedDone ==
  /\ phase = "cancelBadgedSends"
  /\ loop.todo = <<>>
  /\ EndLoop([ks EXCEPT !.epQueue[loop.obj] = loop.queue,
                        !.epState[loop.obj] = IF loop.queue # <<>> THEN "Send" ELSE @])

-----------------------------------------------------------------------------
(* Interrupts and the end of a kernel entry *)

TimerInterrupt ==
  /\ phase = "user"
  /\ EndHandler(timerTick(ks))

\* An IRQ whose handler slot holds a cap to ntfn.
SignalInterrupt(ntfn, badge) ==
  /\ phase = "user"
  /\ "IRQ" \in Syscalls
  /\ EndHandler(sendSignal(ks, ntfn, badge))

ScheduleAndActivate ==
  /\ phase = "schedule"
  /\ ks' = [activateThread(schedule(ks)) EXCEPT !.transfer = NoTransfer]
  /\ phase' = "user"
  /\ UNCHANGED loop

-----------------------------------------------------------------------------

IPCSyscall ==
  \/ \E ep \in EPs, badge \in Badges, canReply, blocking \in BOOLEAN :
        Send(ep, badge, canReply, blocking)
  \/ \E ep \in EPs, badge \in Badges, canReply \in BOOLEAN : Call(ep, badge, canReply)
  \/ \E obj \in RecvObjects, blocking \in BOOLEAN, handler \in FaultHandlers :
        Recv(obj, blocking, handler)
  \/ \E restartThread \in BOOLEAN : Reply(restartThread)
  \/ \E restartThread \in BOOLEAN, obj \in RecvObjects, handler \in FaultHandlers :
        ReplyRecv(restartThread, obj, handler)
  \/ \E slot \in SaveSlots, restartThread \in BOOLEAN : InvokeReply(slot, restartThread)
  \/ \E ntfn \in Ntfns, badge \in SUBSET SignalBits : Signal(ntfn, badge)
  \/ \E handler \in FaultHandlers : Fault(handler)
  \/ Yield

ObjectInvocation ==
  \/ \E t \in Threads : RetypeThread(t)
  \/ \E ep \in Endpoints : RetypeEndpoint(ep)
  \/ \E ntfn \in Notifications : RetypeNotification(ntfn)
  \/ \E slot \in SaveSlots : SaveCaller(slot) \/ DeleteReplyCap(slot)
  \/ \E t \in TCBs : TCBSuspend(t) \/ TCBResume(t) \/ TCBSetContext(t) \/ DeleteThread(t)
  \/ \E t \in TCBs, prio \in Prios : TCBSetPriority(t, prio)
  \/ \E dest, src \in TCBs, suspendSource, resumeTarget \in BOOLEAN :
        TCBCopyRegisters(dest, src, suspendSource, resumeTarget)
  \/ \E t \in TCBs, flag \in BOOLEAN : TCBReadRegisters(t, flag) \/ TCBWriteRegisters(t, flag)
  \/ \E t \in TCBs, ntfn \in Ntfns : TCBBindNotification(t, ntfn)
  \/ \E t \in TCBs : TCBUnbindNotification(t)
  \/ \E t \in TCBs, dom \in Domains : DomainSet(t, dom)
  \/ \E ep \in EPs : DeleteEndpoint(ep)
  \/ \E ep \in EPs, badge \in Badges : CancelBadgedSends(ep, badge)
  \/ \E ntfn \in Ntfns : DeleteNotification(ntfn)

Interrupt ==
  \/ TimerInterrupt
  \/ \E ntfn \in Ntfns, badge \in SUBSET SignalBits : SignalInterrupt(ntfn, badge)

\* The steps by which the kernel finishes an entry.
KernelStep ==
  \/ CancelAllStep \/ CancelAllDone
  \/ CancelBadgedStep \/ CancelBadgedDone
  \/ ScheduleAndActivate

Next == IPCSyscall \/ ObjectInvocation \/ Interrupt \/ KernelStep

Spec == Init /\ [][Next]_vars

=============================================================================
