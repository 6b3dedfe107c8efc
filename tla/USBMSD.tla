------------------------------- MODULE USBMSD -------------------------------
(***************************************************************************)
(* A USB mass storage device read by CBoot: the bulk-only driver           *)
(* (tegrabl_usbmsd_bdev.c) over the host controller driver (usbh.c,        *)
(* xhci.c).  A command is a command block (CBW) sent to the device, an     *)
(* optional data stage and a status block (CSW) read back.                 *)
(*                                                                         *)
(* The host posts one transfer at a time and waits up to a second for an   *)
(* event, any event: one of an earlier transfer, or of a port, ends the    *)
(* wait as well.  A transfer that fails is no error to the caller; its     *)
(* completion code is kept in comp_code, which nothing resets.  The device *)
(* and the controller are external: the device answers as late as it       *)
(* likes, may stall its IN endpoint, fail a command or report a phase      *)
(* error, and passes a command only after all of its data was taken.       *)
(* Control requests are answered in time.                                  *)
(***************************************************************************)
EXTENDS Integers, Sequences, FiniteSetsExt

CONSTANTS
  TagModulus,    \* 2^32: the width of context->tag
  MaxSectors,    \* USBMSD_MAX_READ_WRITE_SECTORS, 128
  TxSectors,     \* MAX_TX_LENGTH, 64 KiB, in sectors
  TurRetries,    \* 3 in tegrabl_usbmsd_test_unit_ready
  ReadyRetries,  \* 5 in tegrabl_usbmsd_bdev_open
  Capacity,      \* number of blocks of the device
  Numbers,       \* bound: commands told apart, more than are ever under way
  MaxFaults      \* bound: late answers, stalls, failed commands, other events

ASSUME USBAssumption ==
  /\ TagModulus \in Nat \ {0, 1} /\ {MaxSectors, TxSectors, Capacity, Numbers} \subseteq Nat \ {0}
  /\ {TurRetries, ReadyRetries, MaxFaults} \subseteq Nat

VARIABLES
  pc,         \* where the host is in tegrabl_usbmsd_io
  call,       \* the caller: its command, retries and the blocks it reads
  io,         \* the command in progress: its number, length and CBW
  tag,        \* context->tag
  block_count,
  err,        \* result of the last tegrabl_usbmsd_io
  buf,        \* what the data buffer of the command holds
  csw,        \* what the status buffer holds
  comp_code,  \* ctx->comp_code
  out, in,    \* transfers posted on the OUT and the IN endpoint
  rereads,    \* the controller reads an endpoint context again, or not
  halted,     \* the controller stopped the IN endpoint after an error
  events,     \* event ring
  dev,        \* the device: its stage, command and result
  stalled,    \* the device's IN endpoint is halted
  faults,
  late,       \* history: a transfer the host had given up is served later
  healthy     \* history: the command began in step, and without a fault since

host == <<call, io, tag, block_count, err>>
memory == <<buf, csw, comp_code>>
controller == <<rereads, out, in, halted, events>>
device == <<dev, stalled>>
vars == <<pc, host, memory, controller, device, faults, late, healthy>>

Zero == [form |-> "zero", n |-> 0, tag |-> 0, status |-> "none"]
Junk == [Zero EXCEPT !.form = "junk"]
Old == -1
Holding(blocks) == [n |-> 0, blocks |-> [i \in DOMAIN blocks |-> Old]]
CSW_SIZE == 13

\* Bytes of the data stage.
Length(cbw) ==
  CASE cbw.cmd = "INQUIRY" -> 36
    [] cbw.cmd = "REQUEST_SENSE" -> 18
    [] cbw.cmd = "READ_CAPACITY" -> 8
    [] cbw.cmd = "READ_10" -> 512 * Len(cbw.blocks)
    [] OTHER -> 0

NoCbw == [n |-> 0, tag |-> 0, cmd |-> "none", blocks |-> <<>>, given_up |-> FALSE]

Init ==
  /\ pc = "call"
  /\ call = [at |-> "INQUIRY", retry |-> 0, ready |-> ReadyRetries, block |-> 0,
             count |-> 0, dma |-> 0, split |-> FALSE, got |-> <<>>, result |-> "none"]
  /\ io = NoCbw
  /\ tag = 1 /\ block_count = 0 /\ err = "none"
  /\ buf = Holding(<<>>) /\ csw = Zero /\ comp_code = "none"
  /\ rereads \in BOOLEAN /\ out = <<>> /\ in = <<>> /\ halted = FALSE /\ events = <<>>
  /\ dev = [stage |-> "idle", cbw |-> NoCbw, result |-> "pass"] /\ stalled = FALSE
  /\ faults = 0 /\ late = FALSE /\ healthy = FALSE

-----------------------------------------------------------------------------
(***************************************************************************)
(* Host controller driver.                                                 *)
(***************************************************************************)

Failure == {"stall", "babble"}
FirstFailure(ring) ==
  LET failures == {k \in DOMAIN ring : ring[k] \in Failure}
  IN IF failures = {} THEN 0 ELSE Min(failures)

\* xusbh_wait_irq handles the events up to the first that reports a failure;
\* the failure is not returned, its code is stashed (handle_transfer_event).
Handled(irq) ==
  LET first == FirstFailure(irq.ring)
  IN IF first = 0 THEN [irq EXCEPT !.ring = <<>>]
     ELSE [ring |-> SubSeq(irq.ring, first + 1, Len(irq.ring)), code |-> irq.ring[first]]
Irq == [ring |-> events, code |-> comp_code]

\* tegrabl_usbh_snd_command: the wait may end with an older event, and then the
\* event of the request itself is still to come.
Commanded(irq) ==
  {Handled([irq EXCEPT !.ring = Append(@, "ok")])}
    \cup (IF irq.ring = <<>> THEN {} ELSE {[Handled(irq) EXCEPT !.ring = Append(@, "ok")]})

\* On a STALL, of the last transfer or of an earlier one, clear_endpoint_stall
\* sends the number of the endpoint without its direction: the halt of the IN
\* endpoint stays.
Cleared(irq) == IF irq.code = "stall" THEN Commanded(irq) ELSE {irq}

Interrupts(irqs) == \E irq \in irqs : events' = irq.ring /\ comp_code' = irq.code

\* The device has something to do on an endpoint.
Answers ==
  \/ dev.stage = "idle" /\ out # <<>>
  \/ in # <<>> /\ ~halted /\ (stalled \/ dev.stage # "idle")

\* A wait ends with an event, or with a timeout: the device does not answer, or
\* too late.
Expires ==
  /\ events = <<>>
  /\ IF Answers
     THEN faults < MaxFaults /\ faults' = faults + 1 /\ healthy' = FALSE
     ELSE UNCHANGED <<faults, healthy>>
Wakes == events # <<>> /\ Interrupts({Handled(Irq)})
TimesOut == Expires /\ UNCHANGED <<events, comp_code>>

\* tegrabl_xhci_xfer_data cuts a transfer at the 64 KiB boundaries of its buffer
\* (here in sectors).  The address is advanced twice for every piece.
FirstPiece(dma) == TxSectors - (dma % TxSectors)
Pieces(dma, length) ==
  IF FirstPiece(dma) < length
  THEN 1 + (length - FirstPiece(dma) + TxSectors - 1) \div TxSectors ELSE 1
Trbs(dma, length) ==
  LET trb[k \in 1..Pieces(dma, length)] ==
        IF k = 1 THEN [at |-> dma, from |-> 0, size |-> Min({FirstPiece(dma), length})]
        ELSE [at |-> trb[k - 1].at + 2 * trb[k - 1].size,
              from |-> trb[k - 1].from + trb[k - 1].size,
              size |-> Min({TxSectors, length - trb[k - 1].from - trb[k - 1].size})]
  IN trb

\* What lies in the buffer after blocks were received: a place no piece covers
\* keeps what it held (Old).
Placed(dma, length, blocks) ==
  LET trbs == Range(Trbs(dma, length))
      covers(t, i) == dma + i - t.at \in 1..t.size
  IN [i \in 1..length |->
        IF \E t \in trbs : covers(t, i) /\ t.from + dma + i - t.at <= Len(blocks)
        THEN LET t == CHOOSE u \in trbs : covers(u, i) IN blocks[t.from + dma + i - t.at]
        ELSE Old]

\* tegrabl_xhci_xfer_data posts a transfer and writes the endpoint context with
\* its address and the state running (prepare_ep_ctx).  A controller that reads
\* the context again forgets what was posted before and leaves a halt; one that
\* does not goes on with its ring, and stays halted.
Posted(ring, xfer) == IF rereads THEN <<xfer>> ELSE Append(ring, xfer)

PostIn(to, size) ==
  /\ in' = Posted(in, [to |-> to, n |-> io.n, size |-> size])
  /\ halted' = (halted /\ ~rereads)

-----------------------------------------------------------------------------
(***************************************************************************)
(* tegrabl_usbmsd_io.                                                      *)
(***************************************************************************)

\* usbmsd_send_cbw; the command is in step when nothing of an earlier one is
\* left.
SendCbw(cmd, blocks) ==
  /\ io' = [n |-> (io.n + 1) % Numbers, tag |-> tag, cmd |-> cmd, blocks |-> blocks,
            given_up |-> FALSE]
  /\ buf' = Holding(blocks)
  /\ out' = Posted(out, io')
  /\ healthy' = (out = <<>> /\ in = <<>> /\ events = <<>> /\ dev.stage = "idle"
                   /\ ~stalled /\ ~halted /\ comp_code # "stall")
  /\ late' = (late \/ (in # <<>> /\ ~rereads))
  /\ pc' = "cbw"
  /\ UNCHANGED <<rereads, tag, block_count, err, csw, comp_code, in, halted, events, device, faults>>

\* usbmsd_io returns to its caller.
Return(error) == pc' = "return" /\ err' = error

\* A CBW that is not taken in time stays posted, and its tag is used again.
CbwTimeout ==
  /\ pc = "cbw"
  /\ TimesOut
  /\ Return("timeout")
  /\ out' = [out EXCEPT ![Len(out)].given_up = TRUE]
  /\ UNCHANGED <<rereads, call, io, tag, block_count, buf, csw, in, halted, device, late>>

\* The status buffer is cleared and the CSW asked for.
AskCsw ==
  /\ pc' = "csw"
  /\ csw' = Zero
  /\ PostIn("csw", CSW_SIZE)

\* Mutant of CbwSent: the data stage of a READ_CAPACITY is left out.
CbwSentNoData ==
  /\ pc = "cbw"
  /\ Wakes
  /\ IF Length(io) > 8 THEN pc' = "data" /\ PostIn("data", Length(io)) /\ UNCHANGED csw ELSE AskCsw
  /\ UNCHANGED <<rereads, host, buf, out, device, faults, late, healthy>>

\* usbmsd_transfer_data posts the data stage.
CbwSent ==
  /\ pc = "cbw"
  /\ events # <<>>
  /\ IF Length(io) > 0
     THEN /\ pc' = "data"
          /\ Interrupts({Handled(Irq)})
          /\ PostIn("data", Length(io))
          /\ UNCHANGED csw
     ELSE /\ AskCsw
          /\ Interrupts(Cleared(Handled(Irq)))
  /\ UNCHANGED <<rereads, host, buf, out, device, faults, late, healthy>>

\* The data stage ends; its error, a timeout, is overwritten with the result of
\* the status stage.
DataDone ==
  /\ pc = "data"
  /\ \/ /\ Wakes /\ UNCHANGED <<faults, healthy>>
     \/ TimesOut
  /\ pc' = "data_done"
  /\ UNCHANGED <<rereads, host, buf, csw, out, in, halted, device, late>>

GetCsw ==
  /\ pc = "data_done"
  /\ AskCsw
  /\ Interrupts(Cleared(Irq))
  /\ UNCHANGED <<rereads, host, buf, out, device, faults, late, healthy>>

\* On a STALL the CSW is asked for once more, into the same buffer.
Answered(irq) ==
  /\ Interrupts(Cleared(irq))
  /\ IF irq.code = "stall"
     THEN pc' = "again" /\ PostIn("csw", CSW_SIZE)
     ELSE pc' = "judge" /\ UNCHANGED <<in, halted>>

CswDone ==
  /\ pc = "csw"
  /\ \/ /\ events # <<>> /\ err' = "ok"
        /\ Answered(Handled(Irq))
        /\ UNCHANGED <<faults, healthy>>
     \/ /\ Expires /\ err' = "timeout"
        /\ Answered(Irq)
  /\ UNCHANGED <<rereads, call, io, tag, block_count, buf, csw, out, device, late>>

CswAgain ==
  /\ pc = "again"
  /\ \/ Wakes /\ err' = "ok" /\ UNCHANGED <<faults, healthy>>
     \/ TimesOut /\ err' = "timeout"
  /\ pc' = "judge"
  /\ UNCHANGED <<rereads, call, io, tag, block_count, buf, csw, out, in, halted, device, late>>

\* do_bulk_reset: the device drops the command it is at; a halted endpoint stays
\* halted.
BulkReset(irqs) == dev' = [dev EXCEPT !.stage = "idle"] /\ Interrupts(irqs)

\* After a phase error the halts of both endpoints are cleared too.
Recovery ==
  LET Request(irqs) == UNION {Commanded(irq) : irq \in irqs}
  IN Request(Request(Commanded(Irq)))

\* Mutant of NextTag: the tag is used again.
SameTag(t) == t

NextTag(t) == (t + 1) % TagModulus

\* Mutant of StatusError: the status of the CSW is not looked at.
AnyStatus(status) == "ok"

\* tegrabl_usbmsd_io: a status that is not CSW_PASS_STAT is an error.
StatusError(status) == IF status = "pass" THEN "ok" ELSE "status"

\* The checks of usbmsd_get_csw.
Judge ==
  /\ pc = "judge"
  /\ IF csw.form # "csw"
     THEN BulkReset(Commanded(Irq)) /\ Return("sig")
     ELSE IF csw.tag # tag
     THEN BulkReset(Commanded(Irq)) /\ Return("tag")
     ELSE IF csw.status = "phase"
     THEN BulkReset(Recovery) /\ Return("phase")
     ELSE /\ Return(IF err = "ok" THEN StatusError(csw.status) ELSE err)
          /\ UNCHANGED <<dev, events, comp_code>>
  /\ tag' = NextTag(tag)
  /\ UNCHANGED <<rereads, call, io, block_count, buf, csw, out, in, halted, stalled, faults, late, healthy>>

-----------------------------------------------------------------------------
(***************************************************************************)
(* The callers: tegrabl_usbmsd_bdev_open and tegrabl_usbmsd_bdev_read_block.*)
(***************************************************************************)

Chunk == Min({call.count, MaxSectors})
Blocks(first, count) == [k \in 1..count |-> first + k - 1]

StartCommand ==
  /\ pc = "call" /\ call.at # "registered"
  /\ SendCbw(call.at, IF call.at = "READ_10" THEN Blocks(call.block, Chunk) ELSE <<>>)
  /\ UNCHANGED call

\* The caller goes on with another command, or is done.
Caller(next) ==
  /\ call' = next
  /\ pc' = "call"
  /\ UNCHANGED <<io, tag, err, memory, controller, device, faults, late, healthy>>
To(command) == [call EXCEPT !.at = command]

InquiryDone ==
  /\ pc = "return" /\ call.at = "INQUIRY"
  /\ Caller([To("TEST_UNIT_READY") EXCEPT !.retry = TurRetries])
  /\ UNCHANGED block_count

\* Mutant of TurAgain: the retries are not counted.
TurAgainUncounted == To("TEST_UNIT_READY")

\* The loop of tegrabl_usbmsd_test_unit_ready; when its tries are used up the
\* device is registered without its capacity.
TurAgain ==
  IF call.retry > 0 THEN [To("TEST_UNIT_READY") EXCEPT !.retry = @ - 1] ELSE To("registered")

TestUnitReadyDone ==
  /\ pc = "return" /\ call.at = "TEST_UNIT_READY"
  /\ Caller(CASE err = "ok" -> To("READ_CAPACITY")
              [] err = "status" -> To("REQUEST_SENSE")
              [] OTHER -> TurAgain)
  /\ UNCHANGED block_count

\* A device that is not ready is asked again a number of times, and then for
\* its capacity all the same.
RequestSenseDone ==
  /\ pc = "return" /\ call.at = "REQUEST_SENSE"
  /\ \/ Caller(TurAgain)
     \/ /\ err = "ok"
        /\ Caller(IF call.ready > 0
                  THEN [To("TEST_UNIT_READY") EXCEPT !.retry = TurRetries, !.ready = @ - 1]
                  ELSE To("READ_CAPACITY"))
  /\ UNCHANGED block_count

\* An answer that did not reach the buffer leaves what was on the stack there: a
\* number that is large enough for the reads, or too small.
ReadCapacityDone ==
  /\ pc = "return" /\ call.at = "READ_CAPACITY"
  /\ block_count' \in IF err # "ok" THEN {block_count}
                      ELSE IF buf.n = io.n THEN {Capacity} ELSE {0, Capacity}
  /\ Caller(To("registered"))

\* A call of tegrabl_usbmsd_bdev_read_block, with a buffer at dma.
ReadBlock(block, count, dma) ==
  /\ pc = "call" /\ call.at = "registered"
  /\ Caller(IF block + count > block_count
            THEN [call EXCEPT !.result = "error"]
            ELSE [call EXCEPT !.at = "READ_10", !.block = block, !.count = count,
                              !.dma = dma, !.split = FALSE,
                              !.got = <<>>, !.result = "none"])
  /\ UNCHANGED block_count

ChunkDone ==
  /\ pc = "return" /\ call.at = "READ_10"
  /\ Caller(IF err # "ok"
            THEN [To("registered") EXCEPT !.result = "error"]
            ELSE [call EXCEPT !.at = IF call.count = Chunk THEN "registered" ELSE "READ_10",
                              !.result = IF call.count = Chunk THEN "ok" ELSE "none",
                              !.block = @ + Chunk, !.count = @ - Chunk, !.dma = @ + Chunk,
                              !.split = @ \/ Pieces(call.dma, Chunk) > 1,
                              !.got = @ \o buf.blocks])
  /\ UNCHANGED block_count

-----------------------------------------------------------------------------
(***************************************************************************)
(* The device and the controller (external).                               *)
(***************************************************************************)

Fault == faults < MaxFaults /\ faults' = faults + 1 /\ healthy' = FALSE
NoFault == UNCHANGED <<faults, healthy>>
Event(code) == events' = Append(events, code)

TakeCbw ==
  /\ dev.stage = "idle" /\ out # <<>>
  /\ \E result \in {"pass", "fail", "phase"} :
       /\ dev' = [stage |-> IF Length(Head(out)) > 0 THEN "data" ELSE "status",
                  cbw |-> Head(out), result |-> result]
       /\ IF result = "pass" THEN NoFault ELSE Fault
  /\ late' = (late \/ Head(out).given_up)
  /\ out' = Tail(out)
  /\ Event("ok")
  /\ UNCHANGED <<rereads, pc, host, memory, in, halted, stalled>>

CanSend(stage) == dev.stage \in stage /\ in # <<>> /\ ~halted /\ ~stalled

\* A packet goes to the transfer posted first; one that is too long for it
\* stops the endpoint.
Deliver(bytes) ==
  /\ in' = Tail(in)
  /\ IF bytes <= Head(in).size THEN Event("ok") /\ UNCHANGED halted
     ELSE Event("babble") /\ halted' = TRUE

SendData ==
  /\ CanSend({"data"})
  /\ LET xfer == Head(in)
         fits == Length(dev.cbw) <= xfer.size
     IN /\ Deliver(Length(dev.cbw))
        /\ csw' = IF xfer.to = "csw" THEN Junk ELSE csw
        /\ buf' = IF fits /\ xfer.to = "data" /\ xfer.n = io.n /\ dev.result = "pass"
                  THEN [n |-> dev.cbw.n, blocks |-> Placed(call.dma, Len(io.blocks), dev.cbw.blocks)]
                  ELSE buf
        /\ dev' = IF fits THEN [dev EXCEPT !.stage = "status"] ELSE dev
  /\ NoFault
  /\ UNCHANGED <<rereads, pc, host, comp_code, out, stalled, late>>

SendStatus ==
  /\ CanSend({"status"})
  /\ LET fits == CSW_SIZE <= Head(in).size
     IN /\ Deliver(CSW_SIZE)
        /\ csw' = IF Head(in).to # "csw" THEN csw
                  ELSE [form |-> "csw", n |-> dev.cbw.n, tag |-> dev.cbw.tag, status |-> dev.result]
        /\ dev' = IF fits THEN [dev EXCEPT !.stage = "idle"] ELSE dev
  /\ NoFault
  /\ UNCHANGED <<rereads, pc, host, buf, comp_code, out, stalled, late>>

\* The IN endpoint stalls: instead of data, and the command fails, or instead of
\* the status.
Stall ==
  /\ CanSend({"data", "status"})
  /\ Fault
  /\ dev' = [dev EXCEPT !.stage = "status", !.result = IF dev.stage = "data" THEN "fail" ELSE @]
  /\ stalled' = TRUE /\ halted' = TRUE
  /\ in' = Tail(in)
  /\ Event("stall")
  /\ UNCHANGED <<rereads, pc, host, memory, out, late>>

StallAgain ==
  /\ stalled /\ in # <<>> /\ ~halted
  /\ halted' = TRUE
  /\ in' = Tail(in)
  /\ Event("stall")
  /\ NoFault
  /\ UNCHANGED <<rereads, pc, host, memory, out, device, late>>

\* An event of a port.
OtherEvent ==
  /\ pc \in {"cbw", "data", "csw", "again"}
  /\ Fault
  /\ Event("ok")
  /\ UNCHANGED <<rereads, pc, host, memory, out, in, halted, device, late>>

-----------------------------------------------------------------------------
\* All steps but the call of ReadBlock.
DriverNext ==
  \/ StartCommand \/ CbwTimeout \/ CbwSent \/ DataDone \/ GetCsw
  \/ CswDone \/ CswAgain \/ Judge
  \/ InquiryDone \/ TestUnitReadyDone \/ RequestSenseDone \/ ReadCapacityDone \/ ChunkDone
  \/ TakeCbw \/ SendData \/ SendStatus \/ Stall \/ StallAgain \/ OtherEvent

-----------------------------------------------------------------------------
(* Properties. *)

Commands == {"INQUIRY", "TEST_UNIT_READY", "REQUEST_SENSE", "READ_CAPACITY", "READ_10"}
Cbws == [n : 0..Numbers - 1, tag : 0..TagModulus - 1, cmd : Commands \cup {"none"},
         blocks : Seq(Nat), given_up : BOOLEAN]

DriverTypeOK ==
  /\ pc \in {"call", "cbw", "data", "data_done", "csw", "again", "judge", "return"}
  /\ call.at \in Commands \cup {"registered"} /\ call.result \in {"none", "ok", "error"}
  /\ call.retry \in 0..TurRetries /\ call.ready \in 0..ReadyRetries
  /\ io \in Cbws /\ tag \in 0..TagModulus - 1 /\ block_count \in {0, Capacity}
  /\ err \in {"none", "ok", "timeout", "sig", "tag", "phase", "status"}
  /\ comp_code \in Failure \cup {"none"}
  /\ out \in Seq(Cbws) /\ events \in Seq(Failure \cup {"ok"})
  /\ dev.cbw \in Cbws /\ dev.stage \in {"idle", "data", "status"}
  /\ {halted, stalled, late, healthy} \subseteq BOOLEAN /\ faults \in 0..MaxFaults

\* A status that is accepted is the one of this command, not of an earlier one
\* that was given up: the tag tells them apart ("Bump tag regardless" in
\* usbmsd_get_csw).  The exceptions are late: a CBW that was not taken in time
\* leaves its tag to the next command and may still be taken, and a transfer
\* that was given up is not taken off the ring.
AcceptsOwnStatus == pc = "return" /\ err = "ok" /\ ~late => csw.n = io.n

\* A command that begins in step with the device and meets no fault succeeds,
\* whatever the commands before it met, as long as none of them met a STALL
\* (comp_code is not reset, and the halt of the IN endpoint not cleared).
HealthySucceeds == pc = "return" /\ healthy => err = "ok"
=============================================================================
