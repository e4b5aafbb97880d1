------------------------------- MODULE SqsQueue -------------------------------
(****************************************************************************)
(* The SQS backend, app/repositories/queue/sqs, with the queue it talks to.  *)
(* A received message is in flight: nobody else sees it until its visibility *)
(* timeout ends or it is deleted.                                            *)
(****************************************************************************)
EXTENDS Integers, FiniteSets

CONSTANTS
    Messages,
    MaxMessages   \* cfg.SQS.MaxMessages: how many one receive may return

VARIABLES status   \* where each message is in the queue

Statuses == {"absent", "visible", "inflight", "deleted"}

TypeOK == status \in [Messages -> Statuses]

Init == status = [m \in Messages |-> "absent"]

InStatus(st) == {m \in Messages : status[m] = st}

-----------------------------------------------------------------------------
Send(m) ==
    /\ status[m] = "absent"
    /\ status' = [status EXCEPT ![m] = "visible"]

(* What one ReceiveMessage may return.                                       *)
Batches == {S \in SUBSET InStatus("visible") : S # {} /\ Cardinality(S) <= MaxMessages}

(* Mutant: a receive that deletes what it returns.                           *)
ReceiveAndDelete(S) ==
    /\ S \in Batches
    /\ status' = [m \in Messages |-> IF m \in S THEN "deleted" ELSE status[m]]

(* The whole batch goes in flight, whatever the caller keeps of it.          *)
Receive(S) ==
    /\ S \in Batches
    /\ status' = [m \in Messages |-> IF m \in S THEN "inflight" ELSE status[m]]

(* The visibility timeout of a message ends.                                 *)
Expire(m) ==
    /\ status[m] = "inflight"
    /\ status' = [status EXCEPT ![m] = "visible"]

(* DeleteMessage with a receipt handle.  A handle from before the visibility *)
(* timeout may or may not delete the message, and the call succeeds anyway.  *)
Delete(m) ==
    \/ status' = [status EXCEPT ![m] = "deleted"]
    \/ status[m] # "deleted" /\ UNCHANGED status

=============================================================================
