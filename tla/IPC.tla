--------------------------------- MODULE IPC ---------------------------------
(***************************************************************************)
(* Synchronous IPC, reply caps, notifications and faults (object/          *)
(* endpoint.c, notification.c, kernel/thread.c, kernel/faulthandler.c,     *)
(* api/syscall.c; non-MCS).                                                *)
(***************************************************************************)
EXTENDS Scheduler

-----------------------------------------------------------------------------
(* Reply caps *)

\* cteDeleteOne on a slot that holds a reply cap or nothing.
cteDeleteOne(k, slot) == [k EXCEPT !.replyCap[slot] = Null]

\* The caller cap derived from t's master reply cap: mdbNext of t's tcbReply slot.
callerSlots(k, t) == {s \in ReplySlots : k.replyCap[s] = t}

\* "Haskell asserts that no reply caps exist for this thread here."
setupReplyMaster(k, t) ==
  IF k.replyMaster[t] THEN k
  ELSE [Assert_(k, callerSlots(k, t) = {}) EXCEPT !.replyMaster[t] = TRUE]

setupCallerCap(k, sender, receiver) ==
  LET k1 == setThreadState(k, sender, "BlockedOnReply")
      k2 == Assert_(k1, k1.replyMaster[sender] /\ k1.replyCap[receiver] = Null)
  IN  [k2 EXCEPT !.replyCap[receiver] = sender]

\* Mutant of deleteCallerCap: the old reply cap stays in the caller slot.
deleteCallerCap_Keeps(k, receiver) == k

deleteCallerCap(k, receiver) == cteDeleteOne(k, receiver)

\* A sender with a recorded fault transfers the fault, not its message.
doIPCTransfer(k, sender, isCall) ==
  [k EXCEPT !.transfer = [label  |-> IF k.tcbFault[sender] THEN "Fault" ELSE "Normal",
                          isCall |-> isCall]]

-----------------------------------------------------------------------------
(* Endpoints *)

\* Mutant of epDequeue: an endpoint with an empty queue keeps its state.
epDequeue_StaysBusy(k, ep, t) == [k EXCEPT !.epQueue[ep] = tcbEPDequeue(t, @)]

\* Take t off the queue of ep, which turns idle when its queue empties.
epDequeue(k, ep, t) ==
  LET queue == tcbEPDequeue(t, k.epQueue[ep])
  IN  [k EXCEPT !.epQueue[ep] = queue,
                !.epState[ep] = IF queue = <<>> THEN "Idle" ELSE @]

\* Block t on ep, in state ts, at the end of its queue.
epBlock(k, ep, t, ts, epst, info) ==
  LET k1 == scheduleTCB([k EXCEPT !.tsType[t] = ts, !.blocking[t] = info], t)
  IN  [k1 EXCEPT !.epQueue[ep] = tcbEPAppend(t, @), !.epState[ep] = epst]

sendIPC(k, blocking, do_call, badge, canReply, thread, ep) ==
  LET dest == Head(k.epQueue[ep])
      k1   == epDequeue(Assert_(k, k.epQueue[ep] # <<>>), ep, dest)
      k2   == doIPCTransfer(k1, thread, do_call)
      k3   == possibleSwitchTo(setThreadState(k2, dest, "Running"), dest)
  IN  IF k.epState[ep] = "Recv"
      THEN IF ~do_call THEN k3
           ELSE IF canReply THEN setupCallerCap(k3, thread, dest)
                ELSE setThreadState(k3, thread, "Inactive")
      ELSE IF blocking
           THEN epBlock(k, ep, thread, "BlockedOnSend", "Send",
                        [obj |-> ep, badge |-> badge, canReply |-> canReply, isCall |-> do_call])
           ELSE k

completeSignal(k, ntfn) ==
  [Assert_(k, k.ntfnState[ntfn] = "Active") EXCEPT !.ntfnState[ntfn] = "Idle"]

receiveIPC(k, thread, ep, isBlocking) ==
  LET ntfn   == k.tcbBoundNotification[thread]
      sender == Head(k.epQueue[ep])
      info   == k.blocking[sender]
      k1     == epDequeue(Assert_(k, k.epQueue[ep] # <<>>), ep, sender)
      k2     == doIPCTransfer(k1, sender, info.isCall)
  IN  IF ntfn # Null /\ k.ntfnState[ntfn] = "Active" THEN completeSignal(k, ntfn)
      ELSE IF k.epState[ep] = "Send"
      THEN IF ~info.isCall
           THEN possibleSwitchTo(setThreadState(k2, sender, "Running"), sender)
           ELSE IF info.canReply THEN setupCallerCap(k2, sender, thread)
                ELSE setThreadState(k2, sender, "Inactive")
      ELSE IF isBlocking
           THEN epBlock(k, ep, thread, "BlockedOnReceive", "Recv", [NotBlocking EXCEPT !.obj = ep])
           ELSE k

-----------------------------------------------------------------------------
(* Cancelling *)

\* Mutant of cancelSignal: the notification keeps waiting for nobody.
cancelSignal_StaysWaiting(k, t, ntfn) ==
  setThreadState([k EXCEPT !.ntfnQueue[ntfn] = tcbEPDequeue(t, @)], t, "Inactive")

cancelSignal(k, t, ntfn) ==
  LET k1    == Assert_(k, k.ntfnState[ntfn] = "Waiting")
      queue == tcbEPDequeue(t, k1.ntfnQueue[ntfn])
      k2    == [k1 EXCEPT !.ntfnQueue[ntfn] = queue,
                          !.ntfnState[ntfn] = IF queue = <<>> THEN "Idle" ELSE @]
  IN  setThreadState(k2, t, "Inactive")

blockedIPCCancel(k, t, ep) ==
  setThreadState(epDequeue(Assert_(k, k.epState[ep] # "Idle"), ep, t), t, "Inactive")

\* Mutant of replyIPCCancel: the reply cap outlives the wait for the reply.
replyIPCCancel_KeepsCap(k, t) == [k EXCEPT !.tcbFault[t] = FALSE]

replyIPCCancel(k, t) ==
  LET k1 == [k EXCEPT !.tcbFault[t] = FALSE]
  IN  IF callerSlots(k1, t) = {} THEN k1
      ELSE cteDeleteOne(k1, CHOOSE s \in callerSlots(k1, t) : TRUE)

cancelIPC(k, t) ==
  CASE k.tsType[t] \in {"BlockedOnSend", "BlockedOnReceive"} -> blockedIPCCancel(k, t, k.blocking[t].obj)
    [] k.tsType[t] = "BlockedOnNotification" -> cancelSignal(k, t, k.blocking[t].obj)
    [] k.tsType[t] = "BlockedOnReply" -> replyIPCCancel(k, t)
    [] OTHER -> k

suspend(k, t) == tcbSchedDequeue(setThreadState(cancelIPC(k, t), t, "Inactive"), t)

restart(k, t) ==
  LET k1 == setThreadState(setupReplyMaster(cancelIPC(k, t), t), t, "Restart")
  IN  IF isStopped(k, t) THEN possibleSwitchTo(tcbSchedEnqueue(k1, t), t) ELSE k

-----------------------------------------------------------------------------
(* Notifications *)

ntfn_set_active(k, ntfn, badge) ==
  [k EXCEPT !.ntfnState[ntfn] = "Active", !.ntfnMsgIdentifier[ntfn] = badge]

sendSignal(k, ntfn, badge) ==
  LET bound == k.ntfnBoundTCB[ntfn]
      dest  == Head(k.ntfnQueue[ntfn])
      k1    == Assert_(k, k.ntfnQueue[ntfn] # <<>>)
      queue == tcbEPDequeue(dest, k1.ntfnQueue[ntfn])
      k2    == [k1 EXCEPT !.ntfnQueue[ntfn] = queue,
                          !.ntfnState[ntfn] = IF queue = <<>> THEN "Idle" ELSE @]
  IN  CASE k.ntfnState[ntfn] = "Idle" ->
             IF bound # Null /\ k.tsType[bound] = "BlockedOnReceive"
             THEN possibleSwitchTo(setThreadState(cancelIPC(k, bound), bound, "Running"), bound)
             ELSE ntfn_set_active(k, ntfn, badge)
        [] k.ntfnState[ntfn] = "Waiting" ->
             possibleSwitchTo(setThreadState(k2, dest, "Running"), dest)
        [] k.ntfnState[ntfn] = "Active" ->
             [k EXCEPT !.ntfnMsgIdentifier[ntfn] = @ \cup badge]

receiveSignal(k, thread, ntfn, isBlocking) ==
  LET info == [NotBlocking EXCEPT !.obj = ntfn]
      k1   == scheduleTCB([k EXCEPT !.tsType[thread] = "BlockedOnNotification",
                                    !.blocking[thread] = info], thread)
  IN  IF k.ntfnState[ntfn] = "Active" THEN [k EXCEPT !.ntfnState[ntfn] = "Idle"]
      ELSE IF isBlocking
           THEN [k1 EXCEPT !.ntfnState[ntfn] = "Waiting",
                           !.ntfnQueue[ntfn] = tcbEPAppend(thread, @)]
           ELSE k

bindNotification(k, t, ntfn) ==
  [k EXCEPT !.ntfnBoundTCB[ntfn] = t, !.tcbBoundNotification[t] = ntfn]

doUnbindNotification(k, ntfn, t) ==
  [k EXCEPT !.ntfnBoundTCB[ntfn] = Null, !.tcbBoundNotification[t] = Null]

\* Mutant of unbindMaybeNotification: the TCB keeps its side of the binding.
unbindMaybeNotification_OneSided(k, ntfn) == [k EXCEPT !.ntfnBoundTCB[ntfn] = Null]

unbindMaybeNotification(k, ntfn) ==
  IF k.ntfnBoundTCB[ntfn] = Null THEN k
  ELSE doUnbindNotification(k, ntfn, k.ntfnBoundTCB[ntfn])

unbindNotification(k, t) ==
  IF k.tcbBoundNotification[t] = Null THEN k
  ELSE doUnbindNotification(k, k.tcbBoundNotification[t], t)

-----------------------------------------------------------------------------
(* Replies and faults *)

\* restartThread is the result of handleFaultReply.
doReplyTransfer(k, sender, receiver, slot, restartThread) ==
  LET k1 == Assert_(k, k.tsType[receiver] = "BlockedOnReply")
      k2 == cteDeleteOne(doIPCTransfer(k1, sender, FALSE), slot)
      k3 == [cteDeleteOne(k1, slot) EXCEPT !.tcbFault[receiver] = FALSE]
  IN  IF ~k.tcbFault[receiver]
      THEN possibleSwitchTo(setThreadState(k2, receiver, "Running"), receiver)
      ELSE IF restartThread
           THEN possibleSwitchTo(setThreadState(k3, receiver, "Restart"), receiver)
           ELSE setThreadState(k3, receiver, "Inactive")

handleReply(k, restartThread) ==
  LET cur    == k.ksCurThread
      caller == k.replyCap[cur]
  IN  IF caller = Null THEN k
      ELSE doReplyTransfer(Assert_(k, caller # cur), cur, caller, cur, restartThread)

\* handler is the endpoint cap of t's fault handler, or Null for a double fault.
handleFault(k, t, handler) ==
  IF handler = Null THEN setThreadState(k, t, "Inactive")
  ELSE sendIPC([k EXCEPT !.tcbFault[t] = TRUE], TRUE, TRUE, handler.badge, TRUE, t, handler.ep)

\* obj is the endpoint or notification that the cap lets cur receive from, or
\* Null for a cap that raises a fault.
handleRecv(k, obj, isBlocking, handler) ==
  LET cur == k.ksCurThread
  IN  CASE obj \in Endpoints -> receiveIPC(deleteCallerCap(k, cur), cur, obj, isBlocking)
        [] obj \in Notifications /\ k.ntfnBoundTCB[obj] \in {Null, cur} ->
             receiveSignal(k, cur, obj, isBlocking)
        [] OTHER -> handleFault(k, cur, handler)

=============================================================================
