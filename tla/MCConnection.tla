---------------------------- MODULE MCConnection ----------------------------
(***************************************************************************)
(* Connection with two clients.  Each definition below is one way of using *)
(* the connection; a run picks one as Ops.                                 *)
(***************************************************************************)
EXTENDS Connection, TLC

\* Transactions and messages without an answer in one thread, beside
\* multipart transactions in another.
RpcOps == (1 :> {"transact", "send"}) @@ (2 :> {"multipart", "generator"})

\* A thread in transactions, which may repeat one, beside one that connects
\* and reads the queue.
QueueOps == (1 :> {"transact"}) @@ (2 :> {"recv_any", "recv_class"})

\* Two threads that send one message each and wait for the answer.
TwoTransacts == (1 :> {"transact"}) @@ (2 :> {"transact"})

\* One thread makes two calls, the other one.
ThreeCalls == (1 :> 2) @@ (2 :> 1)
TwoCalls == (1 :> 1) @@ (2 :> 1)
FourCalls == (1 :> 2) @@ (2 :> 2)
=============================================================================
