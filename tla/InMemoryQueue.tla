----------------------------- MODULE InMemoryQueue -----------------------------
(****************************************************************************)
(* The in-memory backend, app/repositories/queue/inmemory: a bounded channel *)
(* and, beside it, an atomic counter that Enqueue raises after the send and  *)
(* Ack lowers.  The two are not updated together.                            *)
(****************************************************************************)
EXTENDS Integers, Sequences

CONSTANTS
    Messages,
    Capacity   \* cfg.Queue.Capacity: room of the channel

VARIABLES
    ch,    \* messages in the channel, oldest first
    size   \* the counter Size reports

vars == <<ch, size>>

TypeOK ==
    /\ ch \in Seq(Messages)
    /\ Len(ch) <= Capacity
    /\ size \in Int

Init ==
    /\ ch = <<>>
    /\ size = 0

-----------------------------------------------------------------------------
(* Enqueue, first half: the send blocks while the channel is full.           *)
Send(m) ==
    /\ Len(ch) < Capacity
    /\ ch' = Append(ch, m)
    /\ UNCHANGED size

(* Enqueue, second half.                                                     *)
Count ==
    /\ size' = size + 1
    /\ UNCHANGED ch

HasMessage == ch # <<>>

Receive ==
    /\ HasMessage
    /\ ch' = Tail(ch)
    /\ UNCHANGED size

(* Mutant: Ack leaves the counter alone.                                     *)
AckNothing == UNCHANGED vars

Ack ==
    /\ size' = size - 1
    /\ UNCHANGED ch

(* A new instance: an empty channel and a zero counter.                      *)
New ==
    /\ ch' = <<>>
    /\ size' = 0
=============================================================================
