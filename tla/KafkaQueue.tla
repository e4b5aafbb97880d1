------------------------------ MODULE KafkaQueue ------------------------------
(****************************************************************************)
(* The Kafka backend: app/repositories/queue/kafka and internal/kafka over   *)
(* one topic partition.  The broker's log and the group's committed offset   *)
(* survive a restart of the program; the partition consumer's position and   *)
(* the offset manager's mark do not.  Offsets count from 0, so the record at *)
(* offset o is log[o + 1].                                                   *)
(****************************************************************************)
EXTENDS Integers, Sequences

CONSTANTS Messages

VARIABLES
    log,       \* broker: the records of the partition
    committed, \* broker: the group's committed offset, NoOffset if none
    fetch,     \* partition consumer: offset of the next record it delivers
    marked     \* offset manager: the offset the next commit sends

durableVars == <<log, committed>>
clientVars  == <<fetch, marked>>
vars        == <<log, committed, fetch, marked>>

(* What NextOffset answers while the group has committed nothing: the        *)
(* configured initial offset, sarama.OffsetNewest.                           *)
NoOffset == -1

Larger(a, b) == IF a >= b THEN a ELSE b

(* Mutant: a group without an offset starts after the newest record.          *)
OpenAtNewest(next) == IF next = NoOffset THEN Len(log) ELSE next

(* openPartition: start at the group's offset, or at the oldest record when  *)
(* there is none.                                                            *)
StartOffset(next) == Larger(next, 0)

TypeOK ==
    /\ log \in Seq(Messages)
    /\ committed \in NoOffset..Len(log)
    /\ marked \in NoOffset..Len(log)
    /\ fetch \in 0..Len(log)

Init ==
    /\ log = <<>>
    /\ committed = NoOffset
    /\ fetch = 0
    /\ marked = NoOffset

-----------------------------------------------------------------------------
(* New: a fresh client reads the committed offset into its offset manager    *)
(* and opens the partition there.                                            *)
Open ==
    /\ marked' = committed
    /\ fetch' = StartOffset(committed)
    /\ UNCHANGED durableVars

Publish(m) ==
    /\ log' = Append(log, m)
    /\ UNCHANGED <<committed, fetch, marked>>

HasRecord == fetch < Len(log)

Record == log[fetch + 1]

Receive ==
    /\ HasRecord
    /\ fetch' = fetch + 1
    /\ UNCHANGED <<log, committed, marked>>

(* Mutant: the mark is one past the next offset.                              *)
MarkPastNext(o) ==
    /\ marked' = Larger(marked, o + 2)
    /\ committed' \in {committed, marked'}
    /\ UNCHANGED <<log, fetch>>

(* MarkOffset: the mark only moves forward; then one synchronous commit,     *)
(* whose error the client drops.                                             *)
MarkOffset(o) ==
    /\ marked' = Larger(marked, o + 1)
    /\ committed' \in {committed, marked'}
    /\ UNCHANGED <<log, fetch>>

(* Size: how far the group is behind, by what the offset manager would       *)
(* commit next; NoOffset, too, is subtracted as a number.                    *)
Size == Larger(Len(log) - marked, 0)

=============================================================================
