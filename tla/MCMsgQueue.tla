----------------------------- MODULE MCMsgQueue -----------------------------
(***************************************************************************)
(* MsgQueue on small instances.  The code's queues hold 16 messages and    *)
(* their semaphores 5 tokens; the small sizes keep that order.             *)
(***************************************************************************)
EXTENDS MsgQueue
=============================================================================
