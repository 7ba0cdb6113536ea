-------------------------- MODULE RingBufferLogger --------------------------
(***************************************************************************)
(* The trade log ring of ring_buffer_logger.rs.  push, pop, drain_all and  *)
(* drop need exclusive access (&mut self), so each is one action; only the *)
(* level filter is shared.  Sequence numbers grow without bound and are    *)
(* mapped to slots modulo the size, a power of two.                        *)
(***************************************************************************)
EXTENDS Integers, Sequences

CONSTANTS
  Size,       \* RING_BUFFER_SIZE
  Levels,     \* log levels
  MaxPushes   \* bound: entries accepted

ASSUME RingAssumption ==
  /\ Size \in Nat \ {0}
  /\ Levels \subseteq Nat /\ 0 \in Levels
  /\ MaxPushes \in Nat

VARIABLES
  buffer,    \* slot -> event or None
  writeSeq,  \* write_seq
  readSeq,   \* read_seq
  minLevel,  \* min_level
  live,      \* not dropped yet
  result,    \* history: what the last pop returned
  file       \* external: the log file of the drop

ringVars == <<buffer, writeSeq, readSeq, minLevel, live, result, file>>

None == -1
Slots == 0..(Size - 1)

(* Events are named by the order in which they are accepted.               *)
Events == 0..(MaxPushes - 1)

RingInit ==
  /\ buffer = [s \in Slots |-> None]
  /\ writeSeq = 0 /\ readSeq = 0
  /\ minLevel = 0 /\ live = TRUE
  /\ result = None
  /\ file = <<>>

Slot(seq) == seq % Size

----------------------------------------------------------------------------
(* push: an entry that laps the reader moves the read pointer first.       *)
LapsLate == writeSeq > readSeq + Size
Laps == writeSeq >= readSeq + Size

Push(level) ==
  /\ level >= minLevel
  /\ writeSeq < MaxPushes
  /\ writeSeq' = writeSeq + 1
  /\ readSeq' = IF Laps THEN writeSeq - Size + 1 ELSE readSeq
  /\ buffer' = [buffer EXCEPT ![Slot(writeSeq)] = writeSeq]
  /\ UNCHANGED <<minLevel, live, result, file>>

SetLevel(level) ==
  /\ minLevel' = level
  /\ UNCHANGED <<buffer, writeSeq, readSeq, live, result, file>>

Pop ==
  /\ IF readSeq >= writeSeq
     THEN /\ result' = None
          /\ UNCHANGED <<buffer, readSeq>>
     ELSE /\ result' = buffer[Slot(readSeq)]
          /\ buffer' = [buffer EXCEPT ![Slot(readSeq)] = None]
          /\ readSeq' = readSeq + 1
  /\ UNCHANGED <<writeSeq, minLevel, live, file>>

(* drain_all pops until a pop returns None: at the first empty slot, or    *)
(* when everything is read.                                                *)
Holes == {s \in readSeq..(writeSeq - 1) : buffer[Slot(s)] = None}
DrainEnd == IF Holes = {} THEN writeSeq
            ELSE 1 + CHOOSE s \in Holes : \A t \in Holes : s <= t

Drained ==
  [i \in 1..(DrainEnd - readSeq) |-> buffer[Slot(readSeq + i - 1)]]

TakeAll ==
  /\ readSeq' = DrainEnd
  /\ buffer' = [s \in Slots |->
       IF \E seq \in readSeq..(DrainEnd - 1) : s = Slot(seq) THEN None
                                                             ELSE buffer[s]]

DrainAll ==
  /\ TakeAll
  /\ UNCHANGED <<writeSeq, minLevel, live, result, file>>

(* Drop with a log file path: what is left is appended to the file.        *)
Drop ==
  /\ TakeAll
  /\ file' = file \o Drained
  /\ live' = FALSE
  /\ UNCHANGED <<writeSeq, minLevel, result>>

RingNext ==
  /\ live
  /\ \/ \E level \in Levels : Push(level) \/ SetLevel(level)
     \/ Pop \/ DrainAll \/ Drop

RingSpec == RingInit /\ [][RingNext]_ringVars

----------------------------------------------------------------------------
(* Type invariant.                                                         *)
RingTypeOK ==
  /\ buffer \in [Slots -> Events \cup {None}]
  /\ writeSeq \in Nat /\ readSeq \in Nat
  /\ minLevel \in Levels /\ live \in BOOLEAN
  /\ result \in Events \cup {None}
  /\ file \in Seq(Events \cup {None})

Unread == readSeq..(writeSeq - 1)

(* The unread sequence numbers fit the ring and each still has its own     *)
(* event in its slot: nothing unread is overwritten, taken or left empty.  *)
UnreadIntact ==
  /\ readSeq <= writeSeq /\ writeSeq - readSeq <= Size
  /\ \A seq \in Unread : buffer[Slot(seq)] = seq

Contents == [i \in 1..(writeSeq - readSeq) |-> buffer[Slot(readSeq + i - 1)]]

Log == INSTANCE BoundedLog
  WITH Capacity <- Size, Events <- Events \cup {None}, Nothing <- None,
       queue <- Contents

(* The ring is a bounded queue that forgets its oldest events: push, pop,  *)
(* drain_all and drop do what that queue's operations do.                  *)
IsBoundedLog == Log!Spec
=============================================================================
