---------------------------- MODULE SharedMemory ----------------------------
(***************************************************************************)
(* A slot of the arena of shared_memory.rs: a market frame written by one  *)
(* feed task and read under a sequence lock.  Every access of write and of *)
(* read_consistent is an action.  The n-th write of the arena writes n     *)
(* into every field of the frame; a symbol that is zeroed and not yet      *)
(* copied is Blank.  The symbol bytes are plain memory: on the build's     *)
(* target they become visible in program order.                            *)
(***************************************************************************)
EXTENDS Integers

CONSTANTS
  FrameReaders,
  MaxSeq      \* bound: global_seq

ASSUME ArenaAssumption == MaxSeq \in Nat \ {0}

VARIABLES
  globalSeq,   \* global_seq, starts at 1
  sequenceId,  \* sequence_id of the slot
  symbol, bestBid, bestAsk, timestamp,
  frameWriter,      \* position in write, and its seq
  frameReader       \* per frameReader: position, seq1 and the values read

frameVars == <<sequenceId, symbol, bestBid, bestAsk, timestamp>>
arenaVars == <<globalSeq, frameVars, frameWriter, frameReader>>

Blank == -1
NoFrame ==
  [pc |-> "rest", seq |-> 0, bid |-> 0, ask |-> 0, ts |-> 0, sym |-> 0]

ArenaInit ==
  /\ globalSeq = 1
  /\ sequenceId = 0 /\ symbol = 0 /\ bestBid = 0 /\ bestAsk = 0 /\ timestamp = 0
  /\ frameWriter = [pc |-> "rest", seq |-> 0]
  /\ frameReader = [r \in FrameReaders |-> NoFrame]

----------------------------------------------------------------------------
Writing(from, to) ==
  /\ frameWriter.pc = from
  /\ frameWriter' = [frameWriter EXCEPT !.pc = to]
  /\ UNCHANGED <<globalSeq, frameReader>>

(* write_slot takes the next sequence number; so do the writers of the     *)
(* other slots.                                                            *)
WriteSlot ==
  /\ frameWriter.pc = "rest" /\ globalSeq < MaxSeq
  /\ frameWriter' = [pc |-> "begin", seq |-> globalSeq]
  /\ globalSeq' = globalSeq + 1
  /\ UNCHANGED <<frameVars, frameReader>>

OtherSlot ==
  /\ globalSeq < MaxSeq
  /\ globalSeq' = globalSeq + 1
  /\ UNCHANGED <<frameVars, frameWriter, frameReader>>

InProgress == 2 * frameWriter.seq + 1

MarkInProgress ==
  /\ Writing("begin", "zero")
  /\ sequenceId' = InProgress
  /\ UNCHANGED <<symbol, bestBid, bestAsk, timestamp>>

ZeroSymbol ==
  /\ Writing("zero", "copy")
  /\ symbol' = Blank
  /\ UNCHANGED <<sequenceId, bestBid, bestAsk, timestamp>>

CopySymbol ==
  /\ Writing("copy", "bid")
  /\ symbol' = frameWriter.seq
  /\ UNCHANGED <<sequenceId, bestBid, bestAsk, timestamp>>

StoreBid ==
  /\ Writing("bid", "ask")
  /\ bestBid' = frameWriter.seq
  /\ UNCHANGED <<sequenceId, symbol, bestAsk, timestamp>>

StoreAsk ==
  /\ Writing("ask", "timestamp")
  /\ bestAsk' = frameWriter.seq
  /\ UNCHANGED <<sequenceId, symbol, bestBid, timestamp>>

StoreTimestamp ==
  /\ Writing("timestamp", "publish")
  /\ timestamp' = frameWriter.seq
  /\ UNCHANGED <<sequenceId, symbol, bestBid, bestAsk>>

PublishFrame ==
  /\ Writing("publish", "rest")
  /\ sequenceId' = 2 * frameWriter.seq
  /\ UNCHANGED <<symbol, bestBid, bestAsk, timestamp>>

----------------------------------------------------------------------------
Reading(r, from, next) ==
  /\ frameReader[r].pc = from
  /\ frameReader' = [frameReader EXCEPT ![r] = next]
  /\ UNCHANGED <<globalSeq, frameVars, frameWriter>>

(* read_consistent gives up (None) when it finds an odd sequence.          *)
Odd == sequenceId % 2 = 1

LoadSequence(r) ==
  Reading(r, "rest",
    IF Odd THEN NoFrame
    ELSE [NoFrame EXCEPT !.pc = "bid", !.seq = sequenceId])

LoadBid(r) ==
  Reading(r, "bid", [frameReader[r] EXCEPT !.pc = "ask", !.bid = bestBid])

LoadAsk(r) ==
  Reading(r, "ask", [frameReader[r] EXCEPT !.pc = "ts", !.ask = bestAsk])

LoadTimestamp(r) ==
  Reading(r, "ts", [frameReader[r] EXCEPT !.pc = "sym", !.ts = timestamp])

(* symbol_str finds the end of the symbol and borrows its bytes.           *)
BorrowSymbol(r) ==
  Reading(r, "sym", [frameReader[r] EXCEPT !.pc = "verify", !.sym = symbol])

Unverified(r) == FALSE
Changed(r) == frameReader[r].seq # sequenceId \/ Odd

VerifyFrame(r) ==
  Reading(r, "verify",
    IF Changed(r) THEN NoFrame ELSE [frameReader[r] EXCEPT !.pc = "done"])

ReadAgain(r) == Reading(r, "done", NoFrame)

----------------------------------------------------------------------------
FrameWriterStep ==
  \/ WriteSlot \/ MarkInProgress \/ ZeroSymbol \/ CopySymbol
  \/ StoreBid \/ StoreAsk \/ StoreTimestamp \/ PublishFrame

FrameReaderStep(r) ==
  \/ LoadSequence(r) \/ LoadBid(r) \/ LoadAsk(r) \/ LoadTimestamp(r)
  \/ BorrowSymbol(r) \/ VerifyFrame(r) \/ ReadAgain(r)

ArenaNext ==
  FrameWriterStep \/ OtherSlot \/ \E r \in FrameReaders : FrameReaderStep(r)

ArenaSpec == ArenaInit /\ [][ArenaNext]_arenaVars

----------------------------------------------------------------------------
(* A frame that read_consistent returns is one write's: bid, ask and       *)
(* timestamp, and the symbol as it was when the sequence was verified,     *)
(* belong to the write with the returned sequence number.                  *)
FrameConsistent ==
  \A r \in FrameReaders :
    frameReader[r].pc = "done" =>
      \A field \in {"bid", "ask", "ts", "sym"} :
        2 * frameReader[r][field] = frameReader[r].seq
=============================================================================
