------------------------------ MODULE GrpcQueue ------------------------------
(* NgxEspGrpcQueue (src/nginx/grpc_queue.cc): a worker thread takes the      *)
(* completed tags from libgrpc and hands them, under mu_, to the nginx main  *)
(* thread, which it wakes with ngx_notify.  Everything between two lock      *)
(* operations is one action.                                                 *)
EXTENDS Naturals, Sequences, FiniteSets

CONSTANT MaxTags   \* bound: operations started during the run
ASSUME MaxTagsAssumption == MaxTags \in Nat

TagId == 1..MaxTags

VARIABLES
  queue,        \* the singleton: "none", "up", "shutdown" (destructor) or "gone"
  made,         \* tags made so far
  outstanding,  \* tags given to libgrpc and not completed
  cq,           \* completed tags in libgrpc's completion queue
  worker,       \* where WorkerThread is: "none", "next", "push", "notify", "exited"
  held,         \* the tag it holds (a sequence of at most one)
  pending,      \* pending_
  notified,     \* notified_
  posted,       \* ngx_notify was called and its handler has not run
  main,         \* nginx main thread: "idle", "drain" or "exit"
  batch,        \* DrainPending's local queue
  completed,    \* history: tags in the order libgrpc completed them
  ran           \* history: tags in the order their callbacks ran

queueVars == <<queue, made, outstanding, cq, worker, held, pending, notified, posted,
          main, batch, completed, ran>>

QueueInit ==
  /\ queue = "none"
  /\ made = 0 /\ outstanding = {} /\ cq = <<>>
  /\ worker = "none" /\ held = <<>>
  /\ pending = <<>> /\ notified = FALSE /\ posted = FALSE
  /\ main = "idle" /\ batch = <<>>
  /\ completed = <<>> /\ ran = <<>>

-----------------------------------------------------------------------------
(* The nginx main thread.                                                    *)

(* ngx_esp_init_process: the singleton is created, its thread started.       *)
Instance ==
  /\ queue = "none" /\ main = "idle"
  /\ queue' = "up"
  /\ worker' = "next"
  /\ UNCHANGED <<made, outstanding, cq, held, pending, notified, posted, main,
                 batch, completed, ran>>

(* MakeTag: a request, or a callback that is running, starts an operation.   *)
MakeTag ==
  /\ queue = "up" /\ made < MaxTags
  /\ made' = made + 1
  /\ outstanding' = outstanding \cup {made + 1}
  /\ UNCHANGED <<queue, cq, worker, held, pending, notified, posted, main, batch,
                 completed, ran>>

(* A faulty variant: the swap forgets to clear notified_.                    *)
NginxTagHandlerKeepsNotified ==
  /\ main = "idle" /\ posted /\ queue = "up"
  /\ posted' = FALSE
  /\ batch' = pending
  /\ pending' = <<>>
  /\ main' = "drain"
  /\ UNCHANGED <<queue, made, outstanding, cq, worker, held, notified, completed, ran>>

(* A faulty variant: pending_ is cleared, not swapped.                       *)
NginxTagHandlerClears ==
  /\ main = "idle" /\ posted /\ queue = "up"
  /\ posted' = FALSE
  /\ notified' = FALSE
  /\ pending' = <<>>
  /\ batch' = IF pending = <<>> THEN <<>> ELSE <<Head(pending)>>
  /\ main' = "drain"
  /\ UNCHANGED <<queue, made, outstanding, cq, worker, held, completed, ran>>

(* NginxTagHandler: the notification is consumed; DrainPending swaps         *)
(* pending_ and clears notified_ under the lock.                             *)
NginxTagHandler ==
  /\ main = "idle" /\ posted /\ queue = "up"
  /\ posted' = FALSE
  /\ batch' = pending
  /\ pending' = <<>>
  /\ notified' = FALSE
  /\ main' = "drain"
  /\ UNCHANGED <<queue, made, outstanding, cq, worker, held, completed, ran>>

(* DrainPending's loop, after the lock is released.                          *)
RunCallback ==
  /\ main = "drain"
  /\ IF batch = <<>>
     THEN main' = "idle" /\ UNCHANGED <<batch, ran>>
     ELSE /\ ran' = Append(ran, Head(batch))
          /\ batch' = Tail(batch)
          /\ UNCHANGED main
  /\ UNCHANGED <<queue, made, outstanding, cq, worker, held, pending, notified,
                 posted, completed>>

(* A faulty variant: the destructor does not shut the completion queue down. *)
DestructorWithoutShutdown ==
  /\ queue = "up" /\ main = "idle"
  /\ main' = "exit"
  /\ UNCHANGED <<queue, made, outstanding, cq, worker, held, pending, notified,
                 posted, batch, completed, ran>>

(* ~NgxEspGrpcQueue, when the last reference is dropped: Shutdown, then wait *)
(* in join.  The main thread runs no handler from here on.                   *)
Destructor ==
  /\ queue = "up" /\ main = "idle"
  /\ queue' = "shutdown"
  /\ main' = "exit"
  /\ UNCHANGED <<made, outstanding, cq, worker, held, pending, notified, posted,
                 batch, completed, ran>>

(* join returns; the callbacks still pending are destroyed without running.  *)
Join ==
  /\ queue = "shutdown" /\ worker = "exited"
  /\ queue' = "gone"
  /\ pending' = <<>>
  /\ UNCHANGED <<made, outstanding, cq, worker, held, notified, posted, main,
                 batch, completed, ran>>

-----------------------------------------------------------------------------
(* WorkerThread.                                                             *)

(* Next returns a tag, or false once the shut-down queue is drained.         *)
WorkerNext ==
  /\ worker = "next"
  /\ \/ /\ cq # <<>>
        /\ held' = <<Head(cq)>>
        /\ cq' = Tail(cq)
        /\ worker' = "push"
     \/ /\ queue = "shutdown" /\ cq = <<>> /\ outstanding = {}
        /\ worker' = "exited"
        /\ UNCHANGED <<held, cq>>
  /\ UNCHANGED <<queue, made, outstanding, pending, notified, posted, main, batch,
                 completed, ran>>

(* A faulty variant: tags are pushed at the front.                           *)
WorkerPushFront ==
  /\ worker = "push"
  /\ pending' = held \o pending
  /\ held' = <<>>
  /\ notified' = TRUE
  /\ worker' = IF notified THEN "next" ELSE "notify"
  /\ UNCHANGED <<queue, made, outstanding, cq, posted, main, batch, completed, ran>>

(* The section under mu_: push, and decide whether to notify.                *)
WorkerPush ==
  /\ worker = "push"
  /\ pending' = pending \o held
  /\ held' = <<>>
  /\ notified' = TRUE
  /\ worker' = IF notified THEN "next" ELSE "notify"
  /\ UNCHANGED <<queue, made, outstanding, cq, posted, main, batch, completed, ran>>

(* ngx_notify, after mu_ is released.                                        *)
WorkerNotify ==
  /\ worker = "notify"
  /\ posted' = TRUE
  /\ worker' = "next"
  /\ UNCHANGED <<queue, made, outstanding, cq, held, pending, notified, main, batch,
                 completed, ran>>

-----------------------------------------------------------------------------
(* libgrpc completes the operations in any order, in the destructor as well. *)
CompleteTag(t) ==
  /\ t \in outstanding
  /\ outstanding' = outstanding \ {t}
  /\ cq' = Append(cq, t)
  /\ completed' = Append(completed, t)
  /\ UNCHANGED <<queue, made, worker, held, pending, notified, posted, main, batch,
                 ran>>

CompleteAny == \E t \in TagId : CompleteTag(t)

-----------------------------------------------------------------------------
MainThread ==
  \/ Instance \/ MakeTag \/ NginxTagHandler \/ RunCallback \/ Destructor \/ Join
WorkerThread == WorkerNext \/ WorkerPush \/ WorkerNotify
QueueNext == MainThread \/ WorkerThread \/ CompleteAny

QueueSpec == QueueInit /\ [][QueueNext]_queueVars

(* The thread runs, nginx serves a posted notification and finishes its      *)
(* handler, and join returns.  Nothing makes the backend complete an         *)
(* operation, a request start one or the process exit.                       *)
QueueFairness ==
  /\ WF_queueVars(WorkerThread)
  /\ WF_queueVars(NginxTagHandler) /\ WF_queueVars(RunCallback) /\ WF_queueVars(Join)

FairQueueSpec == QueueSpec /\ QueueFairness

-----------------------------------------------------------------------------
QueueTypeOK ==
  /\ queue \in {"none", "up", "shutdown", "gone"}
  /\ made \in 0..MaxTags
  /\ outstanding \subseteq TagId
  /\ cq \in Seq(TagId) /\ held \in Seq(TagId)
  /\ pending \in Seq(TagId) /\ batch \in Seq(TagId)
  /\ worker \in {"none", "next", "push", "notify", "exited"}
  /\ notified \in BOOLEAN /\ posted \in BOOLEAN
  /\ main \in {"idle", "drain", "exit"}
  /\ completed \in Seq(TagId) /\ ran \in Seq(TagId)

(* A tag in pending_ always has a wake-up of the main thread on its way,     *)
(* although notified_ lets the worker skip ngx_notify and the main thread    *)
(* clears it concurrently; and never two, so that no handler runs in vain.   *)
NoLostWakeup ==
  /\ pending # <<>> => posted \/ worker = "notify"
  /\ ~(posted /\ worker = "notify")

(* The inductive form: notified_ says exactly that a wake-up is on its way.  *)
WakeupInvariant ==
  /\ notified <=> posted \/ worker = "notify"
  /\ pending # <<>> => notified
  /\ ~(posted /\ worker = "notify")

(* Where the threads are, where the tags are and whether the queue exists.   *)
LifecycleInvariant ==
  /\ worker # "push" => held = <<>>
  /\ main # "drain" => batch = <<>>
  /\ queue \in {"shutdown", "gone"} => main = "exit"
  /\ worker = "exited" => /\ queue \in {"shutdown", "gone"}
                          /\ cq = <<>> /\ outstanding = {}
  /\ queue = "gone" => worker = "exited"
  /\ queue = "none" => worker = "none"

(* No callback is lost, run twice or run before one that completed earlier,  *)
(* whichever of the four places it waits in.                                 *)
EveryTagAccountedFor ==
  queue # "gone" =>
    ran \o batch \o pending \o held \o cq = completed

QueueInvariant ==
  QueueTypeOK /\ WakeupInvariant /\ LifecycleInvariant /\ EveryTagAccountedFor

(* The worker keeps a raw pointer to the queue: once the queue is freed the  *)
(* thread has ended, and no operation is left that could complete into it.   *)
NothingUsesFreedQueue ==
  queue = "gone" => worker = "exited" /\ held = <<>> /\ cq = <<>> /\ outstanding = {}

(* The destructor returns once the operations in flight have completed.      *)
DestructorReturns == (main = "exit" /\ outstanding = {}) ~> queue = "gone"

(* The queue implements its interface: see CallbackQueue.                    *)
Interface == INSTANCE CallbackQueue
  WITH Tag <- TagId,
       queued <- IF queue = "gone" THEN SubSeq(completed, Len(ran) + 1, Len(completed))
                 ELSE batch \o pending \o held \o cq,
       closed <- main = "exit"
ImplementsInterface == Interface!QueueSpec
=============================================================================
