-------------------------- MODULE RingBufferProofs --------------------------
(***************************************************************************)
(* For every size of the ring and every number of entries, the unread      *)
(* entries are intact, and the ring implements the bounded log.            *)
(***************************************************************************)
EXTENDS RingBufferLogger, SequenceTheorems, TLAPS

(* Integer division, for any divisor.                                      *)
LEMMA DivMod ==
  ASSUME NEW n \in Int, n > 0, NEW a \in Int
  PROVE  a = n * (a \div n) + (a % n)
  BY Z3T(30)

(* No multiple of n lies strictly between 0 and n.                         *)
LEMMA NoMultipleBetween ==
  ASSUME NEW n \in Int, n > 0, NEW k \in Int, n * k > 0, n * k < n
  PROVE  FALSE
<1>1. CASE k >= 1
  BY <1>1
<1>2. CASE k <= 0
  BY <1>2
<1> QED BY <1>1, <1>2

(* Two sequence numbers less than one lap apart have different slots.      *)
LEMMA SlotsDiffer ==
  ASSUME NEW a \in Nat, NEW b \in Nat, a < b, b - a < Size
  PROVE  Slot(a) # Slot(b)
<1>0. Size \in Int /\ Size > 0
  BY RingAssumption
<1> SUFFICES ASSUME a % Size = b % Size PROVE FALSE
  BY DEF Slot
<1>1. PICK p \in Int, q \in Int, r \in Int : a = Size * p + r /\ b = Size * q + r
  <2>1. a \div Size \in Int /\ b \div Size \in Int /\ a % Size \in Int
    BY <1>0
  <2>2. a = Size * (a \div Size) + (a % Size)
    BY <1>0, DivMod
  <2>3. b = Size * (b \div Size) + (b % Size)
    BY <1>0, DivMod
  <2> QED BY <2>1, <2>2, <2>3
<1>2. b - a = Size * (q - p)
  BY <1>0, <1>1
<1> QED BY <1>0, <1>2, q - p \in Int, NoMultipleBetween

(* A sequence number has a slot of the ring.                               *)
LEMMA SlotType == ASSUME NEW a \in Nat PROVE Slot(a) \in Slots
  BY RingAssumption DEF Slot, Slots

RingInv == RingTypeOK /\ UnreadIntact

(* With the unread entries intact a drain stops only at the writer.        *)
LEMMA DrainsToWriter == RingInv => DrainEnd = writeSeq
<1> SUFFICES ASSUME RingInv PROVE Holes = {}
  BY DEF DrainEnd
<1> QED BY DEF RingInv, RingTypeOK, UnreadIntact, Unread, Holes, None

(* push keeps the unread entries intact: an entry that laps the reader     *)
(* moves it past the slot that is overwritten.                             *)
LEMMA PushKeeps ==
  ASSUME RingInv, NEW level \in Levels, Push(level)
  PROVE  RingInv'
<1> USE RingAssumption DEF RingInv
<1>1. /\ writeSeq \in Nat /\ readSeq \in Nat /\ readSeq <= writeSeq
      /\ writeSeq - readSeq <= Size /\ writeSeq \in Events
      /\ Slot(writeSeq) \in Slots
  BY SlotType DEF RingTypeOK, UnreadIntact, Push, Events
<1>2. /\ writeSeq' = writeSeq + 1
      /\ readSeq' = IF writeSeq - readSeq = Size THEN readSeq + 1 ELSE readSeq
      /\ buffer' = [buffer EXCEPT ![Slot(writeSeq)] = writeSeq]
  BY <1>1 DEF Push, Laps
<1>3. RingTypeOK'
  BY <1>1, <1>2 DEF RingTypeOK, Push
<1>4. ASSUME NEW seq \in Unread' PROVE buffer'[Slot(seq)] = seq
  <2>1. seq \in Nat /\ seq <= writeSeq /\ writeSeq - seq < Size /\ seq >= readSeq
    BY <1>1, <1>2 DEF Unread
  <2>2. CASE seq = writeSeq
    BY <1>1, <1>2, <2>2 DEF RingTypeOK
  <2>3. CASE seq < writeSeq
    <3>1. Slot(seq) # Slot(writeSeq) /\ Slot(seq) \in Slots
      BY <1>1, <2>1, <2>3, SlotsDiffer, SlotType
    <3>2. buffer[Slot(seq)] = seq
      BY <1>1, <2>1, <2>3 DEF UnreadIntact, Unread
    <3> QED BY <1>2, <3>1, <3>2 DEF RingTypeOK
  <2> QED BY <1>1, <2>1, <2>2, <2>3
<1>5. readSeq' <= writeSeq' /\ writeSeq' - readSeq' <= Size
  BY <1>1, <1>2
<1> QED BY <1>3, <1>4, <1>5 DEF UnreadIntact

(* pop takes the oldest unread entry and leaves the others alone.          *)
LEMMA PopKeeps == ASSUME RingInv, Pop PROVE RingInv'
<1> USE RingAssumption DEF RingInv
<1>1. CASE readSeq >= writeSeq
  BY <1>1 DEF Pop, RingTypeOK, UnreadIntact, Unread
<1>2. CASE readSeq < writeSeq
  <2>1. /\ writeSeq \in Nat /\ readSeq \in Nat /\ writeSeq - readSeq <= Size
        /\ Slot(readSeq) \in Slots
    BY SlotType DEF RingTypeOK, UnreadIntact
  <2>2. /\ readSeq' = readSeq + 1 /\ writeSeq' = writeSeq
        /\ buffer' = [buffer EXCEPT ![Slot(readSeq)] = None]
    BY <1>2, <2>1 DEF Pop
  <2>3. RingTypeOK'
    BY <1>2, <2>1, <2>2 DEF RingTypeOK, Pop
  <2>4. ASSUME NEW seq \in Unread' PROVE buffer'[Slot(seq)] = seq
    <3>1. seq \in Nat /\ readSeq < seq /\ seq - readSeq < Size /\ seq < writeSeq
      BY <2>1, <2>2 DEF Unread
    <3>2. Slot(seq) # Slot(readSeq) /\ Slot(seq) \in Slots
      BY <2>1, <3>1, SlotsDiffer, SlotType
    <3>3. buffer[Slot(seq)] = seq
      BY <2>1, <3>1 DEF UnreadIntact, Unread
    <3> QED BY <2>2, <3>2, <3>3 DEF RingTypeOK
  <2> QED BY <1>2, <2>1, <2>2, <2>3, <2>4 DEF UnreadIntact
<1> QED BY <1>1, <1>2 DEF RingTypeOK

(* A drain leaves nothing unread.                                          *)
LEMMA DrainKeeps == ASSUME RingInv, DrainAll \/ Drop PROVE RingInv'
<1>1. readSeq' = writeSeq /\ writeSeq' = writeSeq /\ writeSeq \in Nat
  BY DrainsToWriter DEF DrainAll, Drop, TakeAll, RingInv, RingTypeOK
<1>2. buffer' \in [Slots -> Events \cup {None}]
  BY DEF DrainAll, Drop, TakeAll, RingInv, RingTypeOK
<1>3. Drained \in Seq(Events \cup {None})
  <2>1. DrainEnd - readSeq \in Nat
    BY DrainsToWriter DEF RingInv, RingTypeOK, UnreadIntact
  <2>2. ASSUME NEW i \in 1..(DrainEnd - readSeq)
        PROVE  buffer[Slot(readSeq + i - 1)] \in Events \cup {None}
    BY <2>1, SlotType, readSeq + i - 1 \in Nat DEF RingInv, RingTypeOK
  <2> QED BY <2>1, <2>2 DEF Drained
<1>4. file \in Seq(Events \cup {None})
  BY DEF RingInv, RingTypeOK
<1>5. file' = file \/ file' = file \o Drained
  BY DEF DrainAll, Drop
<1>6. file' \in Seq(Events \cup {None})
  BY <1>3, <1>4, <1>5, ConcatProperties
<1>7. minLevel' \in Levels /\ live' \in BOOLEAN /\ result' \in Events \cup {None}
  BY DEF DrainAll, Drop, RingInv, RingTypeOK
<1>8. RingTypeOK'
  BY <1>1, <1>2, <1>6, <1>7 DEF RingTypeOK
<1>9. UnreadIntact'
  BY <1>1, RingAssumption DEF UnreadIntact, Unread
<1> QED BY <1>8, <1>9 DEF RingInv

(* Every operation of the ring keeps the invariant.                        *)
LEMMA RingStep == RingInv /\ [RingNext]_ringVars => RingInv'
<1> SUFFICES ASSUME RingInv, [RingNext]_ringVars PROVE RingInv'
  OBVIOUS
<1>1. ASSUME NEW level \in Levels, SetLevel(level) PROVE RingInv'
  BY <1>1 DEF SetLevel, RingInv, RingTypeOK, UnreadIntact, Unread
<1>2. CASE UNCHANGED ringVars
  BY <1>2 DEF ringVars, RingInv, RingTypeOK, UnreadIntact, Unread
<1> QED BY <1>1, <1>2, PushKeeps, PopKeeps, DrainKeeps DEF RingNext

(* Nothing unread is ever overwritten, taken twice or left empty, and at   *)
(* most RING_BUFFER_SIZE entries are unread.                               *)
THEOREM RingIntact == RingSpec => [](RingTypeOK /\ UnreadIntact)
<1>1. RingInit => RingInv
  BY RingAssumption DEF RingInit, RingInv, RingTypeOK, UnreadIntact, Unread
<1> QED BY <1>1, RingStep, PTL DEF RingSpec, RingInv

----------------------------------------------------------------------------
(* The unread entries, as a sequence, are consecutive events.              *)
Consecutive ==
  /\ Contents \in Seq(Events \cup {None})
  /\ Len(Contents) = writeSeq - readSeq
  /\ \A i \in 1..(writeSeq - readSeq) : Contents[i] = readSeq + i - 1

(* An intact ring read from readSeq on gives consecutive events.           *)
LEMMA ContentsConsecutive == RingInv => Consecutive
<1> SUFFICES ASSUME RingInv PROVE Consecutive
  OBVIOUS
<1>1. writeSeq \in Nat /\ readSeq \in Nat /\ writeSeq - readSeq \in Nat
  BY DEF RingTypeOK, UnreadIntact, RingInv
<1>2. ASSUME NEW i \in 1..(writeSeq - readSeq)
      PROVE  /\ buffer[Slot(readSeq + i - 1)] = readSeq + i - 1
             /\ buffer[Slot(readSeq + i - 1)] \in Events \cup {None}
  <2>1. readSeq + i - 1 \in Unread /\ readSeq + i - 1 \in Nat
    BY <1>1 DEF Unread
  <2> QED BY <2>1, SlotType DEF UnreadIntact, RingTypeOK, RingInv
<1> QED BY <1>1, <1>2 DEF Contents, Consecutive

(* The same of the state after a step.                                     *)
LEMMA ContentsNext == RingInv' => Consecutive'
BY ContentsConsecutive, PTL

(* push is the bounded log's push.                                         *)
LEMMA PushRefines ==
  ASSUME RingInv, RingInv', NEW level \in Levels, Push(level)
  PROVE  Log!Push(writeSeq) /\ writeSeq \in Events
<1> DEFINE S == Events \cup {None}
           kept == IF Len(Contents) = Size THEN Tail(Contents) ELSE Contents
<1>1. /\ writeSeq \in Nat /\ readSeq \in Nat /\ writeSeq - readSeq \in 0..Size
      /\ writeSeq \in Events /\ Size \in Nat \ {0}
  BY RingAssumption DEF RingInv, RingTypeOK, UnreadIntact, Push, Events
<1>2. /\ writeSeq' = writeSeq + 1
      /\ readSeq' = IF writeSeq - readSeq = Size THEN readSeq + 1 ELSE readSeq
  BY <1>1 DEF Push, Laps
<1>3. /\ kept \in Seq(S) /\ Len(kept) = writeSeq - readSeq'
      /\ \A i \in 1..Len(kept) : kept[i] = readSeq' + i - 1
  <2>1. CASE writeSeq - readSeq = Size
    <3>1. Contents # <<>>
      BY <1>1, <2>1, ContentsConsecutive DEF Consecutive
    <3>2. /\ Tail(Contents) \in Seq(S)
          /\ Len(Tail(Contents)) = Len(Contents) - 1
          /\ \A i \in 1..Len(Tail(Contents)) : Tail(Contents)[i] = Contents[i + 1]
      BY <3>1, ContentsConsecutive, HeadTailProperties DEF Consecutive
    <3>3. Len(Contents) = Size /\ kept = Tail(Contents)
      BY <2>1, ContentsConsecutive DEF Consecutive
    <3> HIDE DEF kept, S
    <3> QED BY <1>1, <1>2, <2>1, <3>2, <3>3, ContentsConsecutive DEF Consecutive
  <2>2. CASE writeSeq - readSeq # Size
    BY <1>1, <1>2, <2>2, ContentsConsecutive DEF Consecutive
  <2> QED BY <2>1, <2>2
<1> HIDE DEF kept
<1>4. /\ Append(kept, writeSeq) \in Seq(S)
      /\ Len(Append(kept, writeSeq)) = Len(kept) + 1
      /\ \A i \in 1..Len(kept) : Append(kept, writeSeq)[i] = kept[i]
      /\ Append(kept, writeSeq)[Len(kept) + 1] = writeSeq
  BY <1>1, <1>3, AppendProperties
<1>5. Contents' = Append(kept, writeSeq)
  <2>1. Len(Contents') = Len(Append(kept, writeSeq))
    BY <1>1, <1>2, <1>3, <1>4, ContentsNext DEF Consecutive
  <2>2. ASSUME NEW i \in 1..Len(Contents')
        PROVE  Contents'[i] = Append(kept, writeSeq)[i]
    <3>1. /\ i \in 1..(Len(kept) + 1) /\ Len(kept) \in Nat
          /\ Contents'[i] = readSeq' + i - 1
      BY <1>1, <1>2, <1>3, ContentsNext DEF Consecutive
    <3> HIDE DEF S
    <3>2. CASE i \in 1..Len(kept)
      BY <1>3, <1>4, <3>1, <3>2
    <3>3. CASE i = Len(kept) + 1
      BY <1>1, <1>2, <1>3, <1>4, <3>1, <3>3
    <3> QED BY <3>1, <3>2, <3>3
  <2> HIDE DEF S
  <2>3. Contents' \in Seq(S)
    BY ContentsNext DEF S, Consecutive
  <2> QED BY <1>4, <2>1, <2>2, <2>3, SeqEqual
<1> QED BY <1>1, <1>5 DEF Log!Push, Push, kept

(* pop is the bounded log's pop.                                           *)
LEMMA PopRefines == ASSUME RingInv, RingInv', Pop PROVE Log!Pop
<1>1. writeSeq \in Nat /\ readSeq \in Nat /\ writeSeq - readSeq \in Nat
  BY DEF RingInv, RingTypeOK, UnreadIntact
<1>2. CASE readSeq >= writeSeq
  <2>1. Contents = <<>>
    BY <1>1, <1>2, ContentsConsecutive DEF Consecutive
  <2>2. Contents' = Contents
    BY <1>1, <1>2 DEF Pop, Contents
  <2> QED BY <1>1, <1>2, <2>1, <2>2 DEF Pop, Log!Pop
<1>3. CASE readSeq < writeSeq
  <2>1. readSeq' = readSeq + 1 /\ writeSeq' = writeSeq
    BY <1>1, <1>3 DEF Pop
  <2>2. Contents # <<>>
    BY <1>1, <1>3, ContentsConsecutive DEF Consecutive
  <2>3. /\ Tail(Contents) \in Seq(Events \cup {None})
        /\ Len(Tail(Contents)) = writeSeq - readSeq - 1
        /\ \A i \in 1..(writeSeq - readSeq - 1) : Tail(Contents)[i] = readSeq + i
    BY <1>1, <2>2, ContentsConsecutive, HeadTailProperties DEF Consecutive
  <2>4. Contents' = Tail(Contents)
    <3>1. Len(Contents') = Len(Tail(Contents))
      BY <1>1, <2>1, <2>3, ContentsNext DEF Consecutive
    <3>2. \A i \in 1..Len(Contents') : Contents'[i] = Tail(Contents)[i]
      BY <1>1, <2>1, <2>3, ContentsNext DEF Consecutive
    <3> QED BY <2>3, <3>1, <3>2, ContentsNext, SeqEqual DEF Consecutive
  <2>5. result' = Head(Contents)
    <3>1. Head(Contents) = Contents[1] /\ Contents[1] = readSeq
      BY <1>1, <1>3, ContentsConsecutive DEF Consecutive
    <3>2. buffer[Slot(readSeq)] = readSeq
      BY <1>1, <1>3 DEF RingInv, UnreadIntact, Unread
    <3> QED BY <1>1, <1>3, <3>1, <3>2 DEF Pop
  <2> QED BY <2>2, <2>4, <2>5 DEF Pop, Log!Pop
<1> QED BY <1>1, <1>2, <1>3

(* drain_all empties the log, and a drop flushes it.                       *)
LEMMA DrainRefines ==
  ASSUME RingInv, RingInv', DrainAll \/ Drop
  PROVE  Log!Drain \/ Log!Flush
<1>1. writeSeq \in Nat /\ readSeq' = writeSeq /\ writeSeq' = writeSeq
  BY DrainsToWriter DEF DrainAll, Drop, TakeAll, RingInv, RingTypeOK
<1>2. Contents' = <<>>
  BY <1>1, ContentsNext DEF Consecutive
<1>3. Drained = Contents
  BY DrainsToWriter DEF Drained, Contents
<1> QED BY <1>2, <1>3 DEF DrainAll, Drop, Log!Drain, Log!Flush

(* The ring implements the bounded log, for every size and every level     *)
(* filter: entries come out in the order they went in, and only the oldest *)
(* are ever lost.                                                          *)
THEOREM RingImplementsLog == RingSpec => IsBoundedLog
<1>1. RingInit => Log!Init
  <2> SUFFICES ASSUME RingInit PROVE Contents = <<>>
    BY DEF RingInit, Log!Init
  <2> QED BY DEF RingInit, Contents
<1>2. RingInv /\ RingInv' /\ [RingNext]_ringVars => [Log!Next]_(Log!vars)
  <2> SUFFICES ASSUME RingInv, RingInv', [RingNext]_ringVars
               PROVE  Log!Next \/ UNCHANGED Log!vars
    OBVIOUS
  <2>1. ASSUME NEW level \in Levels, SetLevel(level)
        PROVE  UNCHANGED Log!vars
    BY <2>1 DEF SetLevel, Log!vars, Contents
  <2>2. CASE UNCHANGED ringVars
    BY <2>2 DEF ringVars, Log!vars, Contents
  <2>3. ASSUME NEW level \in Levels, Push(level) PROVE Log!Next
    BY <2>3, PushRefines DEF Log!Next
  <2> QED BY <2>1, <2>2, <2>3, PopRefines, DrainRefines DEF RingNext, Log!Next
<1>3. RingSpec => []RingInv
  BY RingIntact, PTL DEF RingInv
<1> QED BY <1>1, <1>2, <1>3, PTL DEF RingSpec, IsBoundedLog, Log!Spec
=============================================================================
