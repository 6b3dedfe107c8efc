---------------------------- MODULE PartitionRead ----------------------------
(***************************************************************************)
(* Reading a partition of a USB device: the position and the bounds kept   *)
(* by the partition manager (tegrabl_partition_manager.c), the cut of a    *)
(* read into a first part of a block, whole blocks and a last part         *)
(* (tegrabl_blockdev.c), and the driver of USBMSD below.  A byte is known  *)
(* by its address on the device.                                           *)
(***************************************************************************)
EXTENDS USBMSD

CONSTANTS
  BlockSize,    \* 512
  StartSector,  \* of the partition
  NumSectors,
  MaxReads,     \* bound: calls of tegrabl_partition_read
  MaxSeeks      \* bound: calls of tegrabl_partition_seek

ASSUME PartitionAssumption ==
  /\ {BlockSize, NumSectors} \subseteq Nat \ {0}
  /\ {StartSector, MaxReads, MaxSeeks} \subseteq Nat
  /\ StartSector + NumSectors <= Capacity

VARIABLE
  part  \* the partition's offset, and the read in progress

allvars == <<vars, part>>

total_size == NumSectors * BlockSize
Idle == ~part.reading /\ pc = "call" /\ call.at = "registered"

NotReading(offset, reads, seeks) ==
  [offset |-> offset, reading |-> FALSE, waiting |-> FALSE, block |-> 0, skip |-> 0, len |-> 0,
   want |-> <<>>, got |-> <<>>, split |-> FALSE, result |-> "none", reads |-> reads, seeks |-> seeks]

PartInit == Init /\ part = NotReading(0, 0, 0)

\* tegrabl_partition_seek, from any origin; a place outside is refused.
partition_seek ==
  /\ Idle /\ part.seeks < MaxSeeks
  /\ \E offset \in 0..total_size : part' = NotReading(offset, part.reads, part.seeks + 1)
  /\ UNCHANGED vars

\* tegrabl_partition_read: the bounds of the partition, then those of the device
\* (tegrabl_blockdev_read).
partition_read ==
  /\ Idle /\ part.reads < MaxReads
  /\ \E num_bytes \in 1..total_size :
       LET offset == part.offset + StartSector * BlockSize
       IN part' = IF total_size < num_bytes + part.offset \/ offset + num_bytes > block_count * BlockSize
                  THEN [NotReading(part.offset, part.reads + 1, part.seeks) EXCEPT !.result = "error"]
                  ELSE [part EXCEPT !.reading = TRUE, !.reads = @ + 1, !.result = "none",
                                    !.block = offset \div BlockSize, !.skip = offset % BlockSize,
                                    !.len = num_bytes, !.got = <<>>, !.split = FALSE,
                                    !.want = [i \in 1..num_bytes |-> offset + i - 1]]
  /\ UNCHANGED vars

\* The pieces of tegrabl_blockdev_default_read: the rest of a first block, whole
\* blocks, the start of a last block.
Piece ==
  IF part.skip # 0 THEN [count |-> 1, bytes |-> Min({BlockSize - part.skip, part.len})]
  ELSE IF part.len >= BlockSize
  THEN [count |-> part.len \div BlockSize, bytes |-> (part.len \div BlockSize) * BlockSize]
  ELSE [count |-> 1, bytes |-> part.len]

\* Parts of blocks, and whole blocks for a buffer that is not aligned, go
\* through buffers from the heap.
ReadPiece ==
  /\ part.reading /\ ~part.waiting
  /\ \E dma \in IF Piece.count = 1 THEN {0} ELSE 0..TxSectors - 1 :
       ReadBlock(part.block, Piece.count, dma)
  /\ part' = [part EXCEPT !.waiting = TRUE]

\* The bytes of a sequence of blocks.
Bytes(blocks) ==
  [i \in 1..Len(blocks) * BlockSize |->
     LET block == blocks[((i - 1) \div BlockSize) + 1]
     IN IF block = Old THEN Old ELSE block * BlockSize + ((i - 1) % BlockSize)]

\* The position moves by what was asked for, and only when all of it was read.
PieceDone ==
  /\ part.waiting /\ pc = "call" /\ call.at = "registered"
  /\ part' = IF call.result = "error"
             THEN [NotReading(part.offset, part.reads, part.seeks) EXCEPT !.result = "error"]
             ELSE [part EXCEPT
                     !.waiting = FALSE, !.reading = part.len > Piece.bytes,
                     !.result = IF part.len > Piece.bytes THEN "none" ELSE "ok",
                     !.got = @ \o SubSeq(Bytes(call.got), part.skip + 1, part.skip + Piece.bytes),
                     !.split = @ \/ call.split,
                     !.skip = 0, !.block = @ + Piece.count, !.len = @ - Piece.bytes,
                     !.offset = IF part.len > Piece.bytes THEN @ ELSE @ + Len(part.want)]
  /\ UNCHANGED vars

Next ==
  \/ partition_seek \/ partition_read \/ ReadPiece \/ PieceDone
  \/ DriverNext /\ UNCHANGED part

Spec == PartInit /\ [][Next]_allvars

\* The host runs on, and its waits end.
FairSpec == Spec /\ WF_allvars(Next)

-----------------------------------------------------------------------------
(* Properties. *)

\* Type.
TypeOK ==
  /\ DriverTypeOK
  /\ part.offset \in 0..total_size /\ part.len \in 0..total_size
  /\ part.skip \in 0..BlockSize - 1 /\ part.reads \in 0..MaxReads
  /\ part.result \in {"none", "ok", "error"} /\ {part.reading, part.waiting} \subseteq BOOLEAN

\* A read that is reported as done has put the bytes from the position on into
\* the buffer, in order (tegrabl_partition_read), although neither the error nor
\* the length of the data stage is looked at below, and any event ends a wait.
\* The exceptions are late (see AcceptsOwnStatus), and split: of a transfer whose
\* buffer crosses a 64 KiB boundary the second piece is put too far
\* (tegrabl_xhci_xfer_data).
ReadsBytes == part.result = "ok" /\ ~late /\ ~part.split => part.got = part.want

\* Opening the device and reading from it come to an end: the tries are bounded.
ReadsReturn == []<>Idle
=============================================================================
