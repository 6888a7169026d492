------------------------------ MODULE Fastpath -------------------------------
(***************************************************************************)
(* The IPC fast paths (fastpath/fastpath.c; uniprocessor, non-MCS): a Call *)
(* to a waiting receiver and a ReplyRecv to a waiting caller, done without *)
(* the scheduler and without a queue operation.  A path is its conditions, *)
(* under which the code does not fall back to slowpath(), and its effect   *)
(* on a kernel state k.                                                    *)
(*                                                                         *)
(* The conditions on the message (no extra caps, length), on the cap       *)
(* lookup and on the address space of the thread switched to are left out: *)
(* the model has none of these, and any of them may only send more system  *)
(* calls to the slow path.                                                 *)
(***************************************************************************)
EXTENDS Kernel

\* dest and caller have to be in the active domain, unless there is only one.
sameDomain_fp(k, t) == NumDomains = 1 \/ k.tcbDomain[t] = k.ksCurDomain

-----------------------------------------------------------------------------
(* Call *)

\* Mutant of fastpath_call_ok: a receiver of lower priority always runs at once.
fastpath_call_ok_AnyPrio(k, ep, canReply) ==
  /\ ~k.tcbFault[k.ksCurThread]
  /\ k.epState[ep] = "Recv"
  /\ canReply
  /\ sameDomain_fp(k, Head(k.epQueue[ep]))

fastpath_call_ok(k, ep, canReply) ==
  /\ ~k.tcbFault[k.ksCurThread]
  /\ k.epState[ep] = "Recv"
  /\ LET dest == Head(k.epQueue[ep])
     IN  /\ \/ k.tcbPriority[dest] >= k.tcbPriority[k.ksCurThread]
            \/ isHighestPrio(k, k.ksCurDomain, k.tcbPriority[dest])
         /\ sameDomain_fp(k, dest)
  /\ canReply

\* The receiver at the head of the queue leaves it and runs, with the reply cap of
\* the caller in its caller slot.
fastpath_call(k, ep) ==
  LET dest  == Head(k.epQueue[ep])
      queue == Tail(k.epQueue[ep])
  IN  [k EXCEPT !.epQueue[ep]           = queue,
                !.epState[ep]           = IF queue = <<>> THEN "Idle" ELSE @,
                !.tsType[k.ksCurThread] = "BlockedOnReply",
                !.replyCap[dest]        = k.ksCurThread,
                !.tsType[dest]          = "Running",
                !.blocking[dest]        = NotBlocking,
                !.ksCurThread           = dest]

-----------------------------------------------------------------------------
(* ReplyRecv *)

fastpath_reply_recv_ok(k, ep) ==
  LET self   == k.ksCurThread
      ntfn   == k.tcbBoundNotification[self]
      caller == k.replyCap[self]
  IN  /\ ~k.tcbFault[self]
      /\ ntfn = Null \/ k.ntfnState[ntfn] # "Active"
      /\ k.epState[ep] # "Send"
      /\ caller # Null
      /\ ~k.tcbFault[caller]
      /\ isHighestPrio(k, k.ksCurDomain, k.tcbPriority[caller])
      /\ sameDomain_fp(k, caller)

\* The server waits at the end of the queue of ep, and the caller runs.
fastpath_reply_recv(k, ep) ==
  LET self   == k.ksCurThread
      caller == k.replyCap[self]
  IN  [k EXCEPT !.tsType[self]     = "BlockedOnReceive",
                !.blocking[self]   = [NotBlocking EXCEPT !.obj = ep],
                !.epQueue[ep]      = tcbEPAppend(self, @),
                !.epState[ep]      = "Recv",
                !.replyCap[self]   = Null,
                !.tsType[caller]   = "Running",
                !.ksCurThread      = caller]

=============================================================================
