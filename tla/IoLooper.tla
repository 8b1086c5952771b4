------------------------------ MODULE IoLooper ------------------------------
(***************************************************************************)
(* src/core/tools/hpc/io_looper.win.cpp: worker threads loop on one I/O   *)
(* completion port.  Each GetQueuedCompletionStatus call waits at most    *)
(* 1 ms; a dequeued packet is either a notification that local tasks are  *)
(* queued (key NON_IO_TASK_NOTIFICATION_KEY) or an I/O completion, whose  *)
(* key is the callback bind_io_handle registered.  stop() closes the port *)
(* and joins the workers; the destructor calls stop() again.              *)
(*                                                                        *)
(* Win32 behaviour the loop relies on: closing the port makes a call      *)
(* blocked in it return FALSE with ERROR_ABANDONED_WAIT_0; a call on a    *)
(* closed or null handle returns FALSE at once with a null OVERLAPPED;    *)
(* CreateIoCompletionPort(file, NULL, ...) creates a new port.            *)
(***************************************************************************)
EXTENDS Naturals

CONSTANTS
    Workers,      \* the worker threads start() creates
    MaxPosts      \* bound on notifications and I/O completions posted

VARIABLES
    owner,        \* "created", "started", "joining", "stopped", "destroyed"
    ioQueue,      \* _io_queue: "null" or "open"
    wpc,          \* worker -> "idle", "loop", "waiting", "busy", "exited"
    packets,      \* completion packets queued on the port
    posts,        \* notifications and completions posted so far
    binding,      \* a file handle's binding: "none", "port" (the looper's
                  \* port) or "orphan" (a port nobody waits on)
    asserted      \* notify_local_execution's dassert fired

vars == <<owner, ioQueue, wpc, packets, posts, binding, asserted>>

Running == ~asserted

Init ==
    /\ owner = "created" /\ ioQueue = "null"
    /\ wpc = [w \in Workers |-> "idle"]
    /\ packets = 0 /\ posts = 0 /\ binding = "none" /\ asserted = FALSE

(* start(): create_completion_queue, then one thread per worker entering  *)
(* loop_worker.                                                           *)
Start ==
    /\ Running /\ owner = "created"
    /\ owner' = "started" /\ ioQueue' = "open"
    /\ wpc' = [w \in Workers |-> "loop"]
    /\ UNCHANGED <<packets, posts, binding, asserted>>

\* close_completion_queue: CloseHandle and _io_queue = 0 when the port is
\* open; nothing when _io_queue is already null.
CloseCompletionQueue == ioQueue' = "null"

(* stop(), from start()'s state or again from the destructor: closes the  *)
(* port, then joins every worker; with no workers left it returns at once. *)
Stop ==
    /\ Running /\ owner \in {"created", "started", "stopped"}
    /\ CloseCompletionQueue
    /\ owner' = CASE owner = "started" -> "joining"
                  [] owner = "created" -> "stopped"
                  [] OTHER -> "destroyed"
    /\ UNCHANGED <<wpc, packets, posts, binding, asserted>>

\* thr->join() returns for every worker once it has left loop_worker.
AllJoined == \A w \in Workers : wpc[w] = "exited"

(* The joins of stop(), then _workers.clear(). *)
Join ==
    /\ Running /\ owner = "joining"
    /\ AllJoined
    /\ owner' = "stopped"
    /\ UNCHANGED <<ioQueue, wpc, packets, posts, binding, asserted>>

(* notify_local_execution: a task was queued for the workers; posting to *)
(* a null port fails and dassert kills the process.                      *)
Notify ==
    /\ Running /\ owner \in {"started", "joining"} /\ posts < MaxPosts
    /\ posts' = posts + 1
    /\ IF ioQueue = "open" THEN packets' = packets + 1 /\ UNCHANGED asserted
                           ELSE asserted' = TRUE /\ UNCHANGED packets
    /\ UNCHANGED <<owner, ioQueue, wpc, binding>>

(* bind_io_handle: CreateIoCompletionPort(handle, _io_queue, cb, 0).  On  *)
(* a null _io_queue the call creates a new port and still returns ERR_OK. *)
BindIoHandle ==
    /\ Running /\ owner /= "destroyed" /\ binding = "none"
    /\ binding' = IF ioQueue = "open" THEN "port" ELSE "orphan"
    /\ UNCHANGED <<owner, ioQueue, wpc, packets, posts, asserted>>

(* An asynchronous I/O on a bound handle completes: the packet goes to   *)
(* the port the handle was bound to.                                     *)
IoCompletes ==
    /\ Running /\ posts < MaxPosts
    /\ binding = "port" /\ ioQueue = "open"
    /\ posts' = posts + 1 /\ packets' = packets + 1
    /\ UNCHANGED <<owner, ioQueue, wpc, binding, asserted>>

SetPc(w, s) == wpc' = [wpc EXCEPT ![w] = s]

(* loop_worker calls GetQueuedCompletionStatus: on an open port it waits; *)
(* on a null or closed handle it fails at once with a null OVERLAPPED,   *)
(* which the loop takes for a timeout: handle_local_queues; continue.     *)
Enter(w) ==
    /\ Running /\ wpc[w] = "loop"
    /\ SetPc(w, IF ioQueue = "open" THEN "waiting" ELSE "busy")
    /\ UNCHANGED <<owner, ioQueue, packets, posts, binding, asserted>>

\* Mutant: the wait is taken to have dequeued a packet whatever it returned.
MutHasPacket == TRUE

\* GetQueuedCompletionStatus returned a packet (r is TRUE).
HasPacket == packets > 0

(* A packet is dequeued: the notification key runs handle_local_queues,  *)
(* any other key is called as the I/O callback.                          *)
Dequeue(w) ==
    /\ Running /\ wpc[w] = "waiting" /\ ioQueue = "open" /\ HasPacket
    /\ packets' = packets - 1
    /\ SetPc(w, "busy")
    /\ UNCHANGED <<owner, ioQueue, posts, binding, asserted>>

\* Mutant: every failed wait, a timeout included, leaves the loop.
MutTimeoutTarget == "exited"

\* The 1 ms timeout: lolp is null, handle_local_queues(); continue.
TimeoutTarget == "busy"

Timeout(w) ==
    /\ Running /\ wpc[w] = "waiting" /\ ioQueue = "open" /\ packets = 0
    /\ SetPc(w, TimeoutTarget)
    /\ UNCHANGED <<owner, ioQueue, packets, posts, binding, asserted>>

(* The port was closed under the waiting call: ERROR_ABANDONED_WAIT_0,   *)
(* "completion port loop exits".                                         *)
Abandoned(w) ==
    /\ Running /\ wpc[w] = "waiting" /\ ioQueue = "null"
    /\ SetPc(w, "exited")
    /\ UNCHANGED <<owner, ioQueue, packets, posts, binding, asserted>>

(* The callback or handle_local_queues returns; the loop goes round. *)
Handled(w) ==
    /\ Running /\ wpc[w] = "busy"
    /\ SetPc(w, "loop")
    /\ UNCHANGED <<owner, ioQueue, packets, posts, binding, asserted>>

WorkerStep(w) == Enter(w) \/ Dequeue(w) \/ Timeout(w) \/ Abandoned(w)
                 \/ Handled(w)

Next ==
    \/ Start \/ Stop \/ Join \/ Notify \/ BindIoHandle
    \/ IoCompletes
    \/ \E w \in Workers : WorkerStep(w)

(* Worker threads are scheduled and each wait ends within 1 ms; a thread *)
(* blocked in join wakes when the workers have exited.                   *)
Spec == Init /\ [][Next]_vars
        /\ \A w \in Workers : WF_vars(WorkerStep(w))
        /\ WF_vars(Join)

-----------------------------------------------------------------------------
TypeOK ==
    /\ owner \in {"created", "started", "joining", "stopped", "destroyed"}
    /\ ioQueue \in {"null", "open"}
    /\ wpc \in [Workers -> {"idle", "loop", "waiting", "busy", "exited"}]
    /\ packets \in 0..MaxPosts /\ posts \in 0..MaxPosts
    /\ binding \in {"none", "port", "orphan"} /\ asserted \in BOOLEAN

(* Every queued notification or I/O completion is dequeued while the port *)
(* stays open: a waiting worker's timeout returns it to the loop, which   *)
(* waits again.                                                           *)
PacketsHandled ==
    packets > 0 ~> (packets = 0 \/ ioQueue = "null" \/ asserted)

(* stop() returns: after the port is closed every worker leaves           *)
(* loop_worker, so the joins end.                                          *)
StopReturns == owner = "joining" ~> (owner = "stopped" \/ asserted)

(* bind_io_handle returns ERR_OK only for a handle it attached to the     *)
(* port the workers wait on; otherwise it reports ERR_BIND_IOCP_FAILED.   *)
BindAttaches == binding /= "orphan"
=============================================================================
