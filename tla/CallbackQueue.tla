---------------------------- MODULE CallbackQueue ----------------------------
(* What the gRPC queue promises its users (AsyncGrpcQueue, src/grpc/         *)
(* async_grpc_queue.h): the callback of a completed operation is run once,   *)
(* in the order of the completions, or never if the queue is destroyed       *)
(* first.                                                                    *)
EXTENDS Sequences

CONSTANT Tag

VARIABLES queued,   \* completed tags whose callback has not run
          closed    \* the queue is being destroyed: callbacks are ignored

queueVars == <<queued, closed>>

QueueInit == queued = <<>> /\ closed = FALSE

CompleteTag(t) == queued' = Append(queued, t) /\ UNCHANGED closed

RunFirst ==
  /\ ~closed /\ queued # <<>>
  /\ queued' = Tail(queued)
  /\ UNCHANGED closed

Close == closed' = TRUE /\ UNCHANGED queued

QueueNext == (\E t \in Tag : CompleteTag(t)) \/ RunFirst \/ Close

QueueSpec == QueueInit /\ [][QueueNext]_queueVars
=============================================================================
