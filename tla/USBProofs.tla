------------------------------ MODULE USBProofs ------------------------------
(***************************************************************************)
(* Proofs about USBMSD and PartitionRead, for every width of the tag,      *)
(* every limit of a transfer, number of tries, block size and place of the *)
(* partition, and any number of faults.  DInv is the inductive invariant   *)
(* of the driver with its device: what the device is at and which          *)
(* transfers are posted for it, told apart by whether the controller keeps *)
(* its ring (KeptInv) or reads its context again (RereadInv), and what a   *)
(* status that passes the checks stands for (CswInv, AcceptInv).  PInv     *)
(* adds the read of the partition: its pieces so far are the bytes from    *)
(* the position on (PartInv), and the blocks of the current piece are      *)
(* those asked for (CommandInv, LoopInv).  HealthInv follows a command     *)
(* without a fault stage by stage.                                         *)
(***************************************************************************)
EXTENDS PartitionRead, WellFoundedInduction, TLAPS

(***************************************************************************)
(* Types.                                                                  *)
(***************************************************************************)
Active == {"cbw", "data", "data_done", "csw", "again", "judge"}
Codes == Failure \cup {"ok"}
Statuses == {"pass", "fail", "phase"}
Cbw == [n : Nat, tag : Nat, cmd : Commands \cup {"none"}, blocks : Seq(Nat), given_up : BOOLEAN]
Csw == [form : {"zero", "junk", "csw"}, n : Nat, tag : Nat, status : Statuses \cup {"none"}]
Xfer == {x \in [to : {"data", "csw"}, n : Nat, size : Nat] : x.to = "csw" => x.size = CSW_SIZE}
Device == [stage : {"idle", "data", "status"}, cbw : Cbw, result : Statuses]

\* What a call has read so far is typed where it is known (LoopInv).
CallType ==
  /\ DOMAIN call = {"at", "retry", "ready", "block", "count", "dma", "split", "got", "result"}
  /\ call.at \in Commands \cup {"registered"}
  /\ call.retry \in Nat /\ call.ready \in Nat
  /\ call.block \in Nat /\ call.count \in Nat /\ call.dma \in Nat

HostType ==
  /\ pc \in Active \cup {"return", "call"}
  /\ io \in Cbw /\ ~io.given_up /\ tag \in 0..TagModulus - 1
  /\ CallType

RingType ==
  /\ rereads \in BOOLEAN /\ halted \in BOOLEAN /\ stalled \in BOOLEAN
  /\ out \in Seq(Cbw) /\ in \in Seq(Xfer) /\ events \in Seq(Codes)
  /\ comp_code \in Failure \cup {"none"}
  /\ csw \in Csw /\ dev \in Device

DType == HostType /\ RingType /\ late \in BOOLEAN /\ healthy \in BOOLEAN

\* A set of numbers that is not empty has a least element.
LEMMA Least ==
  ASSUME NEW S \in SUBSET Nat, S # {}
  PROVE  Min(S) \in S /\ \A n \in S : Min(S) <= n
<1> DEFINE R == OpToRel(<, Nat)
<1>1. IsWellFoundedOn(R, Nat)
  BY NatLessThanWellFounded
<1>2. \A a, b \in Nat : a < b => <<a, b>> \in R
  BY DEF OpToRel
<1> HIDE DEF R
<1>3. PICK x \in S : \A y \in S : ~(<<y, x>> \in R)
  BY <1>1, WFMin, Zenon
<1>4. \A y \in S : ~(y < x)
  BY <1>2, <1>3, Zenon
<1>5. \A y \in S : x <= y
  BY <1>4
<1> QED BY <1>5, Zenon DEF Min

LEMMA MinOfTwo ==
  ASSUME NEW a \in Nat, NEW b \in Nat
  PROVE  /\ Min({a, b}) \in Nat /\ Min({a, b}) <= a /\ Min({a, b}) <= b
         /\ Min({a, b}) = a \/ Min({a, b}) = b
<1>1. {a, b} \in SUBSET Nat /\ {a, b} # {}
  OBVIOUS
<1> QED BY <1>1, Least

\* The length of a data stage; only a READ_CAPACITY has one that fits the buffer
\* of a status.
LEMMA LengthFacts ==
  ASSUME NEW c \in Cbw
  PROVE  /\ Length(c) \in Nat
         /\ c.cmd = "READ_10" => Length(c) = 512 * Len(c.blocks)
         /\ c.cmd = "READ_10" /\ Length(c) > 0 => Length(c) > CSW_SIZE
<1>1. Len(c.blocks) \in Nat /\ c.cmd \in Commands \cup {"none"}
  BY DEF Cbw
<1>2. c.cmd = "READ_10" => Length(c) = 512 * Len(c.blocks)
  BY DEF Length
<1>3. Length(c) \in {36, 18, 8, 512 * Len(c.blocks), 0}
  BY <1>1 DEF Length
<1> QED BY <1>1, <1>2, <1>3 DEF CSW_SIZE

-----------------------------------------------------------------------------
(* Events. *)

IrqType == [ring : Seq(Codes), code : Failure \cup {"none"}]

LEMMA FailureFacts ==
  ASSUME NEW ring \in Seq(Codes)
  PROVE  /\ FirstFailure(ring) \in 0..Len(ring)
         /\ FirstFailure(ring) # 0 => ring[FirstFailure(ring)] \in Failure
         /\ (\A k \in DOMAIN ring : ring[k] = "ok") => FirstFailure(ring) = 0
<1> DEFINE failures == {k \in DOMAIN ring : ring[k] \in Failure}
<1>1. failures \in SUBSET Nat /\ failures \subseteq 1..Len(ring)
  OBVIOUS
<1>2. FirstFailure(ring) = IF failures = {} THEN 0 ELSE Min(failures)
  BY Zenon DEF FirstFailure
<1>3. failures # {} => Min(failures) \in failures
  BY <1>1, Least, Zenon
<1>4. (\A k \in DOMAIN ring : ring[k] = "ok") => failures = {}
  BY Zenon DEF Failure
<1>5. FirstFailure(ring) = 0 \/ FirstFailure(ring) \in failures
  BY <1>2, <1>3, Zenon
<1>6. \A k \in failures : k \in 0..Len(ring) /\ ring[k] \in Failure
  BY <1>1
<1>7. 0 \in 0..Len(ring)
  OBVIOUS
<1> QED BY <1>2, <1>4, <1>5, <1>6, <1>7, Zenon

LEMMA HandledType ==
  ASSUME NEW irq \in IrqType
  PROVE  Handled(irq) \in IrqType
<1> DEFINE first == FirstFailure(irq.ring)
<1>1. irq.ring \in Seq(Codes) /\ irq.code \in Failure \cup {"none"}
  BY Zenon DEF IrqType
<1>2. first \in 0..Len(irq.ring) /\ (first # 0 => irq.ring[first] \in Failure)
  BY <1>1, FailureFacts, Zenon
<1>3. SubSeq(irq.ring, first + 1, Len(irq.ring)) \in Seq(Codes)
  BY <1>1, <1>2
<1>4. <<>> \in Seq(Codes)
  OBVIOUS
<1> HIDE DEF first
<1>5. [irq EXCEPT !.ring = <<>>] \in IrqType
  BY <1>1, <1>4, Zenon DEF IrqType
<1>6. first # 0 => [ring |-> SubSeq(irq.ring, first + 1, Len(irq.ring)), code |-> irq.ring[first]] \in IrqType
  BY <1>2, <1>3, Zenon DEF IrqType
<1> QED BY <1>5, <1>6, Zenon DEF Handled, first

LEMMA CommandedType ==
  ASSUME NEW irq \in IrqType
  PROVE  Commanded(irq) \subseteq IrqType /\ Cleared(irq) \subseteq IrqType
<1>1. \A i \in IrqType : [i EXCEPT !.ring = Append(@, "ok")] \in IrqType
  <2> TAKE i \in IrqType
  <2>1. Append(i.ring, "ok") \in Seq(Codes)
    BY DEF IrqType, Codes
  <2> QED BY <2>1, Zenon DEF IrqType
<1>2. /\ Handled([irq EXCEPT !.ring = Append(@, "ok")]) \in IrqType
      /\ [Handled(irq) EXCEPT !.ring = Append(@, "ok")] \in IrqType
  BY <1>1, HandledType, Zenon
<1>3. Commanded(irq) \subseteq IrqType
  BY <1>2, Zenon DEF Commanded
<1> QED BY <1>3, Zenon DEF Cleared

LEMMA IrqFacts ==
  ASSUME RingType
  PROVE  Irq \in IrqType /\ Recovery \subseteq IrqType
<1>1. Irq \in IrqType
  BY Zenon DEF Irq, IrqType, RingType
<1>2. \A irqs \in SUBSET IrqType : UNION {Commanded(irq) : irq \in irqs} \subseteq IrqType
  BY CommandedType, Zenon
<1>3. Commanded(Irq) \in SUBSET IrqType
  BY <1>1, CommandedType, Zenon
<1>4. UNION {Commanded(irq) : irq \in Commanded(Irq)} \in SUBSET IrqType
  BY <1>2, <1>3, Zenon
<1>5. UNION {Commanded(irq) : irq \in UNION {Commanded(irq) : irq \in Commanded(Irq)}} \subseteq IrqType
  BY <1>2, <1>4, Zenon
<1> QED BY <1>1, <1>5, Zenon DEF Recovery

LEMMA InterruptsType ==
  ASSUME NEW irqs \in SUBSET IrqType, Interrupts(irqs)
  PROVE  events' \in Seq(Codes) /\ comp_code' \in Failure \cup {"none"}
BY Zenon DEF Interrupts, IrqType

-----------------------------------------------------------------------------
(* Steps keep the types. *)

\* A transfer is put at the end of a ring, or replaces it.
LEMMA PostedFacts ==
  ASSUME NEW S, NEW ring \in Seq(S), NEW x \in S
  PROVE  /\ Posted(ring, x) \in Seq(S) /\ Posted(ring, x) # <<>>
         /\ rereads => Posted(ring, x) = <<x>>
         /\ ~rereads => /\ Len(Posted(ring, x)) = Len(ring) + 1
                        /\ Posted(ring, x)[Len(ring) + 1] = x
                        /\ \A k \in 1..Len(ring) : Posted(ring, x)[k] = ring[k]
<1>1. /\ Append(ring, x) \in Seq(S) /\ Append(ring, x) # <<>>
      /\ Len(Append(ring, x)) = Len(ring) + 1 /\ Append(ring, x)[Len(ring) + 1] = x
      /\ \A k \in 1..Len(ring) : Append(ring, x)[k] = ring[k]
  OBVIOUS
<1>2. <<x>> \in Seq(S) /\ <<x>> # <<>>
  OBVIOUS
<1> QED BY <1>1, <1>2, Zenon DEF Posted

LEMMA PostInType ==
  ASSUME RingType, io \in Cbw, NEW to \in {"data", "csw"}, NEW size \in Nat,
         to = "csw" => size = CSW_SIZE, PostIn(to, size)
  PROVE  /\ in' \in Seq(Xfer) /\ halted' \in BOOLEAN
         /\ [to |-> to, n |-> io.n, size |-> size] \in Xfer
         /\ in' = Posted(in, [to |-> to, n |-> io.n, size |-> size])
         /\ halted' = (halted /\ ~rereads)
<1>1. [to |-> to, n |-> io.n, size |-> size] \in Xfer
  BY Zenon DEF Xfer, Cbw
<1>2. in' = Posted(in, [to |-> to, n |-> io.n, size |-> size]) /\ halted' = (halted /\ ~rereads)
  BY Zenon DEF PostIn
<1>3. in' \in Seq(Xfer)
  BY <1>1, <1>2, PostedFacts, Zenon DEF RingType
<1> QED BY <1>1, <1>2, <1>3, Zenon

LEMMA AskCswType ==
  ASSUME RingType, io \in Cbw, AskCsw
  PROVE  /\ in' \in Seq(Xfer) /\ halted' \in BOOLEAN /\ csw' \in Csw /\ pc' = "csw" /\ csw'.form = "zero"
         /\ PostIn("csw", CSW_SIZE)
<1>1. CSW_SIZE \in Nat
  BY DEF CSW_SIZE
<1>2. Zero \in Csw /\ Zero.form = "zero"
  BY DEF Zero, Csw, Statuses
<1> QED BY <1>1, <1>2, PostInType, Zenon DEF AskCsw

LEMMA EventType ==
  ASSUME RingType, NEW code \in Codes, Event(code)
  PROVE  events' \in Seq(Codes) /\ events' # <<>>
BY DEF RingType, Event

\* The first transfer is taken off a ring.
LEMMA TakenFacts ==
  ASSUME NEW S, NEW ring \in Seq(S), ring # <<>>
  PROVE  /\ Head(ring) \in S /\ Head(ring) = ring[1] /\ Tail(ring) \in Seq(S)
         /\ Len(ring) \in Nat /\ Len(ring) >= 1 /\ Len(Tail(ring)) = Len(ring) - 1
         /\ \A k \in 1..Len(ring) - 1 : Tail(ring)[k] = ring[k + 1]
OBVIOUS

LEMMA BlocksSeq ==
  ASSUME NEW first \in Nat, NEW count \in Nat
  PROVE  Blocks(first, count) \in Seq(Nat) /\ Len(Blocks(first, count)) = count
BY DEF Blocks

LEMMA ChunkFacts ==
  ASSUME CallType
  PROVE  Chunk \in Nat /\ Chunk <= call.count /\ (call.count > 0 => Chunk > 0)
<1>1. MaxSectors \in Nat /\ MaxSectors > 0 /\ call.count \in Nat
  BY USBAssumption DEF CallType
<1> QED BY <1>1, MinOfTwo DEF Chunk

\* The command that is sent.
LEMMA StartFacts ==
  ASSUME DType, StartCommand
  PROVE  /\ io' \in Cbw /\ ~io'.given_up /\ io'.tag = tag /\ io'.cmd = call.at
         /\ call.at = "READ_10" => io'.blocks = Blocks(call.block, Chunk)
         /\ out' = Posted(out, io') /\ out' \in Seq(Cbw)
<1> DEFINE blocks == IF call.at = "READ_10" THEN Blocks(call.block, Chunk) ELSE <<>>
<1>1. call.at \in Commands /\ SendCbw(call.at, blocks)
  BY Zenon DEF StartCommand, DType, HostType, CallType
<1>2. blocks \in Seq(Nat)
  <2>1. Blocks(call.block, Chunk) \in Seq(Nat)
    BY ChunkFacts, BlocksSeq, Zenon DEF DType, HostType, CallType
  <2>2. <<>> \in Seq(Nat)
    OBVIOUS
  <2> QED BY <2>1, <2>2, Zenon
<1>3. (io.n + 1) % Numbers \in Nat /\ tag \in Nat
  <2>1. io.n \in Nat /\ tag \in 0..TagModulus - 1
    BY Zenon DEF DType, HostType, Cbw
  <2>2. Numbers \in Nat \ {0} /\ TagModulus \in Nat
    BY USBAssumption
  <2> QED BY <2>1, <2>2
<1> HIDE DEF blocks
<1>4. /\ io' = [n |-> (io.n + 1) % Numbers, tag |-> tag, cmd |-> call.at, blocks |-> blocks, given_up |-> FALSE]
      /\ out' = Posted(out, io')
  BY <1>1, Zenon DEF SendCbw
<1>5. /\ io' \in Cbw /\ ~io'.given_up /\ io'.tag = tag /\ io'.cmd = call.at /\ io'.blocks = blocks
  BY <1>1, <1>2, <1>3, <1>4, Zenon DEF Cbw
<1>6. out' \in Seq(Cbw)
  BY <1>4, <1>5, PostedFacts, Zenon DEF DType, RingType
<1> QED BY <1>4, <1>5, <1>6, Zenon DEF blocks

\* The steps of tegrabl_usbmsd_io after the command block was posted.
HostStep == CbwTimeout \/ CbwSent \/ DataDone \/ GetCsw \/ CswDone \/ CswAgain \/ Judge
CallerStep == InquiryDone \/ TestUnitReadyDone \/ RequestSenseDone \/ ReadCapacityDone \/ ChunkDone
DeviceStep == TakeCbw \/ SendData \/ SendStatus \/ Stall \/ StallAgain \/ OtherEvent

LEMMA StartType ==
  ASSUME DType, StartCommand
  PROVE  DType'
<1>1. /\ io' \in Cbw /\ ~io'.given_up /\ out' \in Seq(Cbw)
  BY StartFacts, Zenon
<1>2. /\ pc' = "cbw" /\ late' \in BOOLEAN /\ healthy' \in BOOLEAN
      /\ UNCHANGED <<rereads, tag, call, csw, comp_code, in, halted, events, dev, stalled>>
  BY Zenon DEF StartCommand, SendCbw, device
<1>3. CallType'
  BY <1>2, Zenon DEF CallType, DType, HostType
<1> QED BY <1>1, <1>2, <1>3, Zenon DEF DType, HostType, RingType, Active

\* A wait that ends with a timeout or with an event.
LEMMA WaitType ==
  ASSUME RingType, healthy \in BOOLEAN
  PROVE  /\ Wakes => events' \in Seq(Codes) /\ comp_code' \in Failure \cup {"none"}
         /\ Expires => healthy' \in BOOLEAN
         /\ TimesOut => events' \in Seq(Codes) /\ comp_code' \in Failure \cup {"none"}
         /\ Handled(Irq) \in IrqType /\ Irq \in IrqType
         /\ \A irq \in IrqType : Interrupts(Cleared(irq)) =>
              events' \in Seq(Codes) /\ comp_code' \in Failure \cup {"none"}
<1>1. Irq \in IrqType /\ Handled(Irq) \in IrqType
  BY IrqFacts, HandledType, Zenon
<1>2. {Handled(Irq)} \in SUBSET IrqType
  BY <1>1, Zenon
<1>3. Wakes => events' \in Seq(Codes) /\ comp_code' \in Failure \cup {"none"}
  BY <1>2, InterruptsType, Zenon DEF Wakes
<1>4. \A irq \in IrqType : Cleared(irq) \in SUBSET IrqType
  BY CommandedType, Zenon
<1>5. \A irq \in IrqType : Interrupts(Cleared(irq)) =>
        events' \in Seq(Codes) /\ comp_code' \in Failure \cup {"none"}
  BY <1>4, InterruptsType, Zenon
<1>6. Expires => healthy' \in BOOLEAN
  BY Zenon DEF Expires
<1>7. TimesOut => events' \in Seq(Codes) /\ comp_code' \in Failure \cup {"none"}
  BY Zenon DEF TimesOut, RingType
<1> QED BY <1>1, <1>3, <1>5, <1>6, <1>7, Zenon

LEMMA HostStepType ==
  ASSUME DType, HostStep
  PROVE  DType'
<1>0. RingType /\ HostType /\ CallType /\ io \in Cbw /\ healthy \in BOOLEAN /\ Length(io) \in Nat
  BY LengthFacts, Zenon DEF DType, HostType
<1>1. UNCHANGED <<rereads, call, io, late, stalled>>
  BY Zenon DEF HostStep, CbwTimeout, CbwSent, DataDone, GetCsw, CswDone, CswAgain, Judge, host, device
<1>2. CallType'
  BY <1>0, <1>1, Zenon DEF CallType
<1>3. ASSUME pc' \in Active \cup {"return", "call"}, tag' \in 0..TagModulus - 1, healthy' \in BOOLEAN,
             halted' \in BOOLEAN, out' \in Seq(Cbw), in' \in Seq(Xfer), events' \in Seq(Codes),
             comp_code' \in Failure \cup {"none"}, csw' \in Csw, dev' \in Device
      PROVE  DType'
  BY <1>0, <1>1, <1>2, <1>3, Zenon DEF DType, HostType, RingType
<1>4. CASE CbwTimeout
  <2>1. /\ pc' = "return" /\ UNCHANGED <<tag, csw, in, halted, dev>> /\ Expires /\ TimesOut
        /\ out' = [out EXCEPT ![Len(out)].given_up = TRUE]
    BY <1>4, Zenon DEF CbwTimeout, TimesOut, Return, device
  <2>2. out' \in Seq(Cbw)
    <3>1. out \in Seq(Cbw)
      BY <1>0, Zenon DEF RingType
    <3>2. \A c \in Cbw : [c EXCEPT !.given_up = TRUE] \in Cbw
      BY Zenon DEF Cbw
    <3>3. out \in [1..Len(out) -> Cbw]
      BY <3>1
    <3>4. out' = [out EXCEPT ![Len(out)] = [out[Len(out)] EXCEPT !.given_up = TRUE]]
      BY <2>1, Zenon
    <3>5. out' \in [1..Len(out) -> Cbw]
      BY <3>2, <3>3, <3>4, Zenon
    <3> QED BY <3>1, <3>5
  <2> QED BY <1>0, <1>3, <2>1, <2>2, WaitType, Zenon DEF HostType, RingType
<1>5. CASE CbwSent
  <2>1. UNCHANGED <<tag, out, dev, healthy>>
    BY <1>5, Zenon DEF CbwSent, host, device
  <2>2. CASE /\ pc' = "data" /\ Interrupts({Handled(Irq)}) /\ PostIn("data", Length(io)) /\ UNCHANGED csw
    <3>1. events' \in Seq(Codes) /\ comp_code' \in Failure \cup {"none"}
      BY <1>0, <1>5, <2>2, WaitType, Zenon DEF Wakes, CbwSent
    <3>2. in' \in Seq(Xfer) /\ halted' \in BOOLEAN
      BY <1>0, <2>2, PostInType, Zenon
    <3> QED BY <1>0, <1>3, <2>1, <2>2, <3>1, <3>2, Zenon DEF HostType, RingType, Active
  <2>3. CASE AskCsw /\ Interrupts(Cleared(Handled(Irq)))
    BY <1>0, <1>3, <2>1, <2>3, WaitType, AskCswType, Zenon DEF HostType, RingType, Active
  <2> QED BY <1>5, <2>2, <2>3, Zenon DEF CbwSent
<1>6. CASE DataDone
  <2>1. /\ pc' = "data_done" /\ UNCHANGED <<tag, out, in, halted, csw, dev>>
        /\ (Wakes /\ UNCHANGED healthy) \/ (TimesOut /\ Expires)
    BY <1>6, Zenon DEF DataDone, TimesOut, host, device
  <2> QED BY <1>0, <1>3, <2>1, WaitType, Zenon DEF HostType, RingType, Active
<1>7. CASE GetCsw
  <2>1. AskCsw /\ Interrupts(Cleared(Irq)) /\ UNCHANGED <<tag, out, dev, healthy>>
    BY <1>7, Zenon DEF GetCsw, host, device
  <2> QED BY <1>0, <1>3, <2>1, WaitType, AskCswType, Zenon DEF HostType, RingType, Active
<1>8. CASE CswDone
  <2>1. /\ UNCHANGED <<tag, out, csw, dev>> /\ healthy' \in BOOLEAN
        /\ \E irq \in {Irq, Handled(Irq)} : Answered(irq)
    BY <1>0, <1>8, WaitType, Zenon DEF CswDone, device
  <2>2. PICK irq \in IrqType : Answered(irq)
    BY <1>0, <2>1, WaitType, Zenon
  <2>3. events' \in Seq(Codes) /\ comp_code' \in Failure \cup {"none"}
    BY <1>0, <2>2, WaitType, Zenon DEF Answered
  <2>4. CASE pc' = "again" /\ PostIn("csw", CSW_SIZE)
    <3>1. CSW_SIZE \in Nat
      BY DEF CSW_SIZE
    <3>2. in' \in Seq(Xfer) /\ halted' \in BOOLEAN
      BY <1>0, <2>4, <3>1, PostInType, Zenon
    <3> QED BY <1>0, <1>3, <2>1, <2>3, <2>4, <3>2, Zenon DEF HostType, RingType, Active
  <2>5. CASE pc' = "judge" /\ UNCHANGED <<in, halted>>
    BY <1>0, <1>3, <2>1, <2>3, <2>5, Zenon DEF HostType, RingType, Active
  <2> QED BY <2>2, <2>4, <2>5, Zenon DEF Answered
<1>9. CASE CswAgain
  <2>1. /\ pc' = "judge" /\ UNCHANGED <<tag, out, in, halted, csw, dev>>
        /\ (Wakes /\ UNCHANGED healthy) \/ (TimesOut /\ Expires)
    BY <1>9, Zenon DEF CswAgain, TimesOut, device
  <2> QED BY <1>0, <1>3, <2>1, WaitType, Zenon DEF HostType, RingType, Active
<1>10. CASE Judge
  <2>1. /\ pc' = "return" /\ UNCHANGED <<out, in, halted, csw, healthy>> /\ tag' = NextTag(tag)
        /\ \/ BulkReset(Commanded(Irq)) \/ BulkReset(Recovery)
           \/ UNCHANGED <<dev, events, comp_code>>
    BY <1>10, Zenon DEF Judge, Return
  <2>2. tag' \in 0..TagModulus - 1
    BY <1>0, <2>1, USBAssumption DEF NextTag, HostType
  <2>3. Commanded(Irq) \in SUBSET IrqType /\ Recovery \in SUBSET IrqType
    BY <1>0, IrqFacts, CommandedType, Zenon
  <2>4. events' \in Seq(Codes) /\ comp_code' \in Failure \cup {"none"}
    BY <1>0, <2>1, <2>3, InterruptsType, Zenon DEF BulkReset, RingType
  <2>5. dev' \in Device
    BY <1>0, <2>1, Zenon DEF BulkReset, RingType, Device
  <2> QED BY <1>0, <1>3, <2>1, <2>2, <2>4, <2>5, Zenon DEF HostType, RingType
<1> QED BY <1>4, <1>5, <1>6, <1>7, <1>8, <1>9, <1>10, Zenon DEF HostStep

LEMMA CallerFacts ==
  ASSUME HostType, CallerStep
  PROVE  /\ pc = "return" /\ pc' = "call" /\ CallType'
         /\ UNCHANGED <<io, tag, err, memory, controller, device, faults, late, healthy>>
<1>1. /\ pc = "return" /\ pc' = "call"
      /\ UNCHANGED <<io, tag, err, memory, controller, device, faults, late, healthy>>
  BY Zenon DEF CallerStep, InquiryDone, TestUnitReadyDone, RequestSenseDone, ReadCapacityDone,
               ChunkDone, Caller
<1>2. CallType /\ TurRetries \in Nat
  BY USBAssumption, Zenon DEF HostType
<1>3. ASSUME \/ \E command \in Commands \cup {"registered"} : call' = To(command)
             \/ \E m, n \in Nat : call' = [To("TEST_UNIT_READY") EXCEPT !.retry = m, !.ready = n]
             \/ \E m \in Nat : call' = [To("TEST_UNIT_READY") EXCEPT !.retry = m]
      PROVE  CallType'
  <2>1. "TEST_UNIT_READY" \in Commands \cup {"registered"}
    BY Zenon DEF Commands
  <2>2. ASSUME \E command \in Commands \cup {"registered"} : call' = To(command)
        PROVE  CallType'
    BY <1>2, <2>2, Zenon DEF CallType, To
  <2>3. ASSUME NEW m \in Nat, NEW n \in Nat,
               call' = [To("TEST_UNIT_READY") EXCEPT !.retry = m, !.ready = n]
        PROVE  CallType'
    BY <1>2, <2>1, <2>3, Zenon DEF CallType, To
  <2>4. ASSUME NEW m \in Nat, call' = [To("TEST_UNIT_READY") EXCEPT !.retry = m]
        PROVE  CallType'
    BY <1>2, <2>1, <2>4, Zenon DEF CallType, To
  <2> QED BY <1>3, <2>2, <2>3, <2>4, Zenon
<1>4. call.retry > 0 => call.retry - 1 \in Nat
  BY <1>2 DEF CallType
<1>5. call.ready > 0 => call.ready - 1 \in Nat
  BY <1>2 DEF CallType
<1>6. TurAgain = To("registered") \/ \E m \in Nat : TurAgain = [To("TEST_UNIT_READY") EXCEPT !.retry = m]
  BY <1>2, <1>4, Zenon DEF TurAgain, To, CallType
<1>7. InquiryDone \/ ReadCapacityDone => CallType'
  BY <1>2, <1>3, Zenon DEF InquiryDone, ReadCapacityDone, Caller, Commands
<1>8. TestUnitReadyDone => CallType'
  BY <1>2, <1>3, <1>6, Zenon DEF TestUnitReadyDone, Caller, Commands
<1>9. RequestSenseDone => CallType'
  <2>1. To("TEST_UNIT_READY").ready = call.ready
    BY <1>2, Zenon DEF To, CallType
  <2>2. [To("TEST_UNIT_READY") EXCEPT !.retry = TurRetries, !.ready = @ - 1]
          = [To("TEST_UNIT_READY") EXCEPT !.retry = TurRetries, !.ready = call.ready - 1]
    BY <2>1 DEF To
  <2>3. call.ready > 0 => \E m, n \in Nat :
          [To("TEST_UNIT_READY") EXCEPT !.retry = TurRetries, !.ready = @ - 1]
            = [To("TEST_UNIT_READY") EXCEPT !.retry = m, !.ready = n]
    BY <1>2, <1>5, <2>2, Zenon
  <2> QED BY <1>2, <1>3, <1>6, <2>3, Zenon DEF RequestSenseDone, Caller, Commands
<1>10. ChunkDone => CallType'
  <2>1. Chunk \in Nat /\ Chunk <= call.count
    BY <1>2, ChunkFacts, Zenon
  <2>2. call.block + Chunk \in Nat /\ call.count - Chunk \in Nat /\ call.dma + Chunk \in Nat
    BY <1>2, <2>1 DEF CallType
  <2>3. SUFFICES ASSUME ChunkDone PROVE CallType'
    OBVIOUS
  <2>4. CASE call' = [To("registered") EXCEPT !.result = "error"]
    BY <1>2, <2>4, Zenon DEF CallType, To
  <2>5. CASE call' = [call EXCEPT !.at = IF call.count = Chunk THEN "registered" ELSE "READ_10",
                              !.result = IF call.count = Chunk THEN "ok" ELSE "none",
                              !.block = @ + Chunk, !.count = @ - Chunk, !.dma = @ + Chunk,
                              !.split = @ \/ Pieces(call.dma, Chunk) > 1,
                              !.got = @ \o buf.blocks]
    <3>1. /\ DOMAIN call' = DOMAIN call /\ call'.at = (IF call.count = Chunk THEN "registered" ELSE "READ_10")
          /\ call'.retry = call.retry /\ call'.ready = call.ready
          /\ call'.block = call.block + Chunk /\ call'.count = call.count - Chunk /\ call'.dma = call.dma + Chunk
      BY <1>2, <2>5, Zenon DEF CallType
    <3> QED BY <1>2, <2>2, <3>1, Zenon DEF CallType, Commands
  <2> QED BY <2>3, <2>4, <2>5, Zenon DEF ChunkDone, Caller
<1> QED BY <1>1, <1>7, <1>8, <1>9, <1>10, Zenon DEF CallerStep

LEMMA SameRest ==
  ASSUME DType, pc' = "call", CallType', UNCHANGED <<io, tag, memory, controller, device, late, healthy>>
  PROVE  DType'
BY Zenon DEF DType, HostType, RingType, memory, controller, device

LEMMA ReadBlockFacts ==
  ASSUME HostType, NEW block \in Nat, NEW count \in Nat, NEW dma \in Nat, ReadBlock(block, count, dma)
  PROVE  /\ pc = "call" /\ pc' = "call" /\ CallType'
         /\ UNCHANGED <<io, tag, err, memory, controller, device, faults, late, healthy>>
<1>1. CallType /\ "READ_10" \in Commands
  BY Zenon DEF HostType, Commands
<1> QED BY <1>1, Zenon DEF ReadBlock, Caller, CallType

LEMMA DeviceStepType ==
  ASSUME DType, DeviceStep
  PROVE  DType'
<1>0. HostType /\ RingType /\ CallType /\ out \in Seq(Cbw) /\ in \in Seq(Xfer) /\ dev \in Device /\ csw \in Csw
  BY Zenon DEF DType, HostType, RingType
<1>1. UNCHANGED <<rereads, pc, call, io, tag, comp_code>>
  BY Zenon DEF DeviceStep, TakeCbw, SendData, SendStatus, Stall, StallAgain, OtherEvent, host, memory
<1>2. late' \in BOOLEAN /\ healthy' \in BOOLEAN
  BY Zenon DEF DeviceStep, TakeCbw, SendData, SendStatus, Stall, StallAgain, OtherEvent, Fault, NoFault, DType
<1>3. events' \in Seq(Codes)
  <2>1. \E code \in Codes : Event(code)
    BY Zenon DEF DeviceStep, TakeCbw, SendData, SendStatus, Stall, StallAgain, OtherEvent, Deliver, Codes, Failure
  <2> QED BY <1>0, <2>1, EventType, Zenon
<1>4. CallType'
  BY <1>0, <1>1, Zenon DEF CallType
<1>5. ASSUME halted' \in BOOLEAN, stalled' \in BOOLEAN, out' \in Seq(Cbw), in' \in Seq(Xfer),
             csw' \in Csw, dev' \in Device
      PROVE  DType'
  BY <1>0, <1>1, <1>2, <1>3, <1>4, <1>5, Zenon DEF DType, HostType, RingType
<1>6. in # <<>> => Tail(in) \in Seq(Xfer) /\ Head(in) \in Xfer
  BY <1>0, TakenFacts, Zenon
<1>7. CASE TakeCbw
  <2>1. Head(out) \in Cbw /\ Tail(out) \in Seq(Cbw)
    BY <1>0, <1>7, TakenFacts, Zenon DEF TakeCbw
  <2>2. PICK result \in Statuses :
          dev' = [stage |-> IF Length(Head(out)) > 0 THEN "data" ELSE "status",
                  cbw |-> Head(out), result |-> result]
    BY <1>7, Zenon DEF TakeCbw, Statuses
  <2>3. dev' \in Device
    BY <2>1, <2>2, Zenon DEF Device
  <2> QED BY <1>0, <1>5, <1>7, <2>1, <2>3, Zenon DEF TakeCbw, memory, RingType
<1>8. CASE SendData
  <2>1. /\ UNCHANGED <<out, stalled>> /\ in' = Tail(in) /\ in # <<>> /\ halted' \in BOOLEAN
        /\ csw' \in {Junk, csw} /\ dev' \in {dev, [dev EXCEPT !.stage = "status"]}
    BY <1>0, <1>8, Zenon DEF SendData, Deliver, CanSend, RingType
  <2>2. Junk \in Csw
    BY DEF Junk, Zero, Csw, Statuses
  <2>3. [dev EXCEPT !.stage = "status"] \in Device
    BY <1>0, Zenon DEF Device
  <2> QED BY <1>0, <1>5, <1>6, <2>1, <2>2, <2>3, Zenon DEF RingType
<1>9. CASE SendStatus
  <2>1. /\ UNCHANGED <<out, stalled>> /\ in' = Tail(in) /\ in # <<>> /\ halted' \in BOOLEAN
        /\ csw' \in {[form |-> "csw", n |-> dev.cbw.n, tag |-> dev.cbw.tag, status |-> dev.result], csw}
        /\ dev' \in {dev, [dev EXCEPT !.stage = "idle"]}
    BY <1>0, <1>9, Zenon DEF SendStatus, Deliver, CanSend, RingType
  <2>2. [form |-> "csw", n |-> dev.cbw.n, tag |-> dev.cbw.tag, status |-> dev.result] \in Csw
    BY <1>0, Zenon DEF Device, Cbw, Csw
  <2>3. [dev EXCEPT !.stage = "idle"] \in Device
    BY <1>0, Zenon DEF Device
  <2> QED BY <1>0, <1>5, <1>6, <2>1, <2>2, <2>3, Zenon DEF RingType
<1>10. CASE Stall
  <2>1. dev' \in Device
    BY <1>0, <1>10, Zenon DEF Stall, Device, Statuses
  <2> QED BY <1>0, <1>5, <1>6, <1>10, <2>1, Zenon DEF Stall, CanSend, memory, RingType
<1>11. CASE StallAgain
  BY <1>0, <1>5, <1>6, <1>11, Zenon DEF StallAgain, memory, device, RingType
<1>12. CASE OtherEvent
  BY <1>0, <1>5, <1>12, Zenon DEF OtherEvent, memory, device, RingType
<1> QED BY <1>7, <1>8, <1>9, <1>10, <1>11, <1>12, Zenon DEF DeviceStep

-----------------------------------------------------------------------------
(***************************************************************************)
(* The status that is accepted.                                            *)
(***************************************************************************)

\* A command block on the ring that the host still waits for.
Untaken == \E k \in DOMAIN out : ~out[k].given_up

\* The controller serves no IN transfer any more.
Mute == halted /\ ~rereads

\* Nothing of a command is under way.
Settled == Mute \/ (dev.stage = "idle" /\ ~Untaken)

\* A read has put its blocks where its transfer places them.
Filled == io.cmd = "READ_10" => buf.blocks = Placed(call.dma, Len(io.blocks), io.blocks)

\* IN transfers that the command under way still takes, and those that the host
\* still posts for it.
Need == IF Untaken THEN IF Length(io) > 0 THEN 2 ELSE 1
        ELSE IF dev.stage = "data" THEN 2 ELSE IF dev.stage = "status" THEN 1 ELSE 0
ToPost == IF pc = "cbw" THEN 2 ELSE IF pc \in {"data", "data_done"} THEN 1 ELSE 0

\* A controller that keeps its ring: the device is at the command of the host, or
\* at none, and enough transfers are posted for it.
Kept ==
  /\ \A k \in DOMAIN out : out[k].given_up \/ (k = Len(out) /\ out[k] = io)
  /\ Untaken => dev.stage = "idle"
  /\ dev.stage # "idle" => dev.cbw = io
  /\ \A k \in DOMAIN in : in[k].to = "data" => in[k].n = io.n
  /\ pc \in Active /\ dev.stage = "status" /\ dev.result = "pass" => Filled
  /\ Len(in) + ToPost >= Need
KeptInv == ~rereads /\ ~late /\ ~halted => Kept

\* A controller that starts again with every transfer posted: the device may be at
\* an earlier command, which then has another tag.
GivenUp(cbw) == [cbw EXCEPT !.given_up = TRUE]
Reread ==
  /\ out \in {<<>>, <<io>>, <<GivenUp(io)>>}
  /\ pc \notin Active /\ out = <<io>> => io.tag # tag
  /\ dev.stage # "idle" => dev.cbw.tag # tag \/ (pc \in Active /\ dev.cbw = io /\ out = <<>>)
  /\ pc \in Active /\ dev.stage = "status" /\ dev.result = "pass" /\ dev.cbw.tag = tag => Filled
  /\ IF pc \in {"data", "data_done"}
     THEN \A k \in DOMAIN in : in[k].to = "data" /\ in[k].n = io.n
     ELSE \A k \in DOMAIN in : in[k].to = "csw"
RereadInv == rereads /\ ~late => Reread

\* The status in the buffer that passes the checks of usbmsd_get_csw.
CswInv ==
  ~late /\ pc \in {"csw", "again", "judge"} /\ csw.form = "csw" /\ csw.tag = tag =>
    csw.n = io.n /\ Settled /\ (csw.status = "pass" => Filled)
AcceptInv == ~late /\ pc = "return" /\ err = "ok" => csw.n = io.n /\ Settled /\ Filled

BaseInv ==
  /\ pc \in Active => io.tag = tag
  /\ pc = "cbw" /\ ~Untaken => events # <<>>
  /\ dev.stage = "data" => Length(dev.cbw) > 0
  /\ io.cmd = "READ_10" => Len(io.blocks) > 0
  /\ call.at = "READ_10" => call.count > 0

DInv == DType /\ BaseInv /\ KeptInv /\ RereadInv /\ CswInv /\ AcceptInv

\* Posting a transfer, or the end of a wait, leaves the invariant.
LEMMA QuietStep ==
  ASSUME DInv, DType', UNCHANGED <<rereads, call, io, tag, buf, out, dev, late>>, pc \in Active,
         \/ /\ UNCHANGED <<in, halted, csw>>
            /\ (pc = "data" /\ pc' = "data_done") \/ (pc \in {"csw", "again"} /\ pc' = "judge")
         \/ \E x \in Xfer :
              /\ in' = Posted(in, x) /\ halted' = (halted /\ ~rereads) /\ x.n = io.n
              /\ \/ pc = "cbw" /\ pc' = "data" /\ x.to = "data" /\ csw' = csw
                 \/ pc \in {"cbw", "data_done"} /\ pc' = "csw" /\ x.to = "csw" /\ csw'.form = "zero"
                    /\ (pc = "cbw" => ~(Length(io) > 0))
                 \/ pc = "csw" /\ pc' = "again" /\ x.to = "csw" /\ csw' = csw
  PROVE  DInv'
<1> DEFINE Still == /\ UNCHANGED <<in, halted, csw>>
                    /\ (pc = "data" /\ pc' = "data_done") \/ (pc \in {"csw", "again"} /\ pc' = "judge")
<1> DEFINE Posts(x) ==
      /\ in' = Posted(in, x) /\ halted' = (halted /\ ~rereads) /\ x.n = io.n
      /\ \/ pc = "cbw" /\ pc' = "data" /\ x.to = "data" /\ csw' = csw
         \/ pc \in {"cbw", "data_done"} /\ pc' = "csw" /\ x.to = "csw" /\ csw'.form = "zero"
            /\ (pc = "cbw" => ~(Length(io) > 0))
         \/ pc = "csw" /\ pc' = "again" /\ x.to = "csw" /\ csw' = csw
<1>0. Still \/ \E x \in Xfer : Posts(x)
  OBVIOUS
<1> HIDE DEF Still, Posts
<1>1. /\ pc' \in Active /\ pc' # "cbw" /\ pc' # "return"
      /\ (halted' <=> halted) \/ (halted' <=> (halted /\ ~rereads))
      /\ pc' \in {"csw", "again", "judge"} => csw'.form = "zero" \/ (csw' = csw /\ pc \in {"csw", "again", "judge"})
  <2>1. ASSUME Still PROVE halted' <=> halted
    BY <2>1, Zenon DEF Still
  <2>2. ASSUME NEW x \in Xfer, Posts(x) PROVE halted' <=> (halted /\ ~rereads)
    BY <2>2, Zenon DEF Posts
  <2>3. (halted' <=> halted) \/ (halted' <=> (halted /\ ~rereads))
    BY <1>0, <2>1, <2>2, Zenon
  <2>4. /\ pc' \in Active /\ pc' # "cbw" /\ pc' # "return"
        /\ pc' \in {"csw", "again", "judge"} => csw'.form = "zero" \/ (csw' = csw /\ pc \in {"csw", "again", "judge"})
    BY <1>0, Zenon DEF Still, Posts, Active
  <2> QED BY <2>3, <2>4, Zenon
<1>2. (Untaken' <=> Untaken) /\ (Filled' <=> Filled) /\ (Settled' <=> Settled) /\ Need' = Need
  <2>1. (Untaken' <=> Untaken) /\ (Filled' <=> Filled)
    BY Zenon DEF Untaken, Filled
  <2>2. Mute' <=> Mute
    BY <1>1, Zenon DEF Mute
  <2>3. Settled' <=> Settled
    BY <2>1, <2>2, Zenon DEF Settled
  <2>4. Need' = Need
    BY <2>1, Zenon DEF Need
  <2> QED BY <2>1, <2>3, <2>4, Zenon
<1>3. BaseInv'
  BY <1>1, Zenon DEF DInv, BaseInv
<1>4. CswInv'
  BY <1>1, <1>2, Zenon DEF DInv, CswInv
<1>5. AcceptInv'
  BY <1>1, Zenon DEF AcceptInv
<1>6. RereadInv'
  <2>1. SUFFICES ASSUME rereads, ~late PROVE Reread'
    BY Zenon DEF RereadInv
  <2>2. Reread
    BY <2>1, Zenon DEF DInv, RereadInv
  <2>3. IF pc' \in {"data", "data_done"}
        THEN \A k \in DOMAIN in' : in'[k].to = "data" /\ in'[k].n = io'.n
        ELSE \A k \in DOMAIN in' : in'[k].to = "csw"
    <3>1. CASE Still
      BY <2>2, <3>1, Zenon DEF Still, Reread
    <3>2. ASSUME NEW x \in Xfer, Posts(x)
          PROVE  /\ \A k \in DOMAIN in' : in'[k] = x
                 /\ (x.to = "data" /\ pc' = "data") \/ (x.to = "csw" /\ pc' \in {"csw", "again"})
      <4>1. in' = <<x>>
        <5>1. in' = Posted(in, x)
          BY <3>2, Zenon DEF Posts
        <5> QED BY <2>1, <5>1, Zenon DEF Posted
      <4>2. \A k \in DOMAIN in' : in'[k] = x
        BY <4>1
      <4> QED BY <3>2, <4>2, Zenon DEF Posts
    <3> QED BY <1>0, <3>1, <3>2, Zenon DEF Posts
  <2> QED BY <1>1, <1>2, <2>2, <2>3, Zenon DEF Reread
<1>7. KeptInv'
  <2>1. SUFFICES ASSUME ~rereads, ~late, ~halted PROVE Kept'
    BY <1>1, Zenon DEF KeptInv
  <2>2. Kept /\ in \in Seq(Xfer)
    BY <2>1, Zenon DEF DInv, KeptInv, DType, RingType
  <2>3. \A k \in DOMAIN in' : in'[k].to = "data" => in'[k].n = io'.n
    <3>1. CASE Still
      BY <2>2, <3>1, Zenon DEF Still, Kept
    <3>2. ASSUME NEW x \in Xfer, Posts(x) PROVE \A k \in DOMAIN in' : in'[k] = x \/ (k \in DOMAIN in /\ in'[k] = in[k])
      <4>1. in' = Append(in, x)
        BY <2>1, <3>2, Zenon DEF Posts, Posted
      <4> QED BY <2>2, <4>1
    <3> QED BY <1>0, <2>2, <3>1, <3>2, Zenon DEF Kept, Posts
  <2>4. Len(in') + ToPost' >= Need
    <3>1. CASE Still
      <4>1. ToPost' = ToPost
        BY <3>1, Zenon DEF Still, ToPost
      <4> QED BY <2>2, <3>1, <4>1, Zenon DEF Still, Kept
    <3>2. ASSUME NEW x \in Xfer, Posts(x) PROVE Len(in') + ToPost' >= Need
      <4>1. in' = Append(in, x)
        BY <2>1, <3>2, Zenon DEF Posts, Posted
      <4>2. Len(in') = Len(in) + 1 /\ Len(in) \in Nat
        BY <2>2, <4>1
      <4>3. Len(in) + ToPost >= Need
        BY <2>2, Zenon DEF Kept
      <4>6. ToPost \in Int /\ Need \in Int
        BY DEF Need, ToPost
      <4>4. ToPost' = ToPost - 1 \/ (pc = "csw" /\ ToPost' = ToPost) \/ (pc = "cbw" /\ pc' = "csw" /\ ToPost' = 0)
        BY <3>2 DEF Posts, ToPost
      <4>5. pc = "cbw" /\ pc' = "csw" => Need <= 1
        <5>1. ASSUME pc = "cbw", pc' = "csw" PROVE ~(Length(io) > 0)
          BY <3>2, <5>1, Zenon DEF Posts
        <5>2. ASSUME pc = "cbw", pc' = "csw" PROVE dev.stage # "data"
          BY <2>2, <5>1, <5>2, Zenon DEF Kept, DInv, BaseInv
        <5>3. ASSUME pc = "cbw", pc' = "csw" PROVE Need \in {0, 1}
          BY <5>1, <5>2, <5>3, Zenon DEF Need
        <5> QED BY <5>3
      <4> QED BY <4>2, <4>3, <4>4, <4>5, <4>6
    <3> QED BY <1>0, <3>1, <3>2, Zenon
  <2> QED BY <1>1, <1>2, <2>2, <2>3, <2>4, Zenon DEF Kept
<1> QED BY <1>3, <1>4, <1>5, <1>6, <1>7, Zenon DEF DInv

LEMMA QuietInv ==
  ASSUME DInv, DType', CbwSent \/ DataDone \/ GetCsw \/ CswDone \/ CswAgain
  PROVE  DInv'
<1>0. /\ RingType /\ io \in Cbw /\ Length(io) \in Nat /\ CSW_SIZE \in Nat
  <2>1. CSW_SIZE \in Nat
    BY DEF CSW_SIZE
  <2> QED BY <2>1, LengthFacts, Zenon DEF DInv, DType, HostType
<1>1. /\ UNCHANGED <<rereads, call, io, tag, buf, out, dev, late>>
      /\ pc \in Active
  BY Zenon DEF CbwSent, DataDone, GetCsw, CswDone, CswAgain, host, device, Active
<1> DEFINE X(to, size) == [to |-> to, n |-> io.n, size |-> size]
<1>2. ASSUME NEW to \in {"data", "csw"}, NEW size \in Nat, to = "csw" => size = CSW_SIZE, PostIn(to, size)
      PROVE  \E x \in Xfer : /\ in' = Posted(in, x) /\ halted' = (halted /\ ~rereads) /\ x.n = io.n
                              /\ x.to = to
  <2>1. X(to, size) \in Xfer /\ in' = Posted(in, X(to, size)) /\ halted' = (halted /\ ~rereads)
    BY <1>0, <1>2, PostInType, Zenon
  <2>2. X(to, size).n = io.n /\ X(to, size).to = to
    BY Zenon
  <2> QED BY <2>1, <2>2, Zenon
<1>3. CASE CbwSent
  <2>1. CASE pc = "cbw" /\ pc' = "data" /\ PostIn("data", Length(io)) /\ UNCHANGED csw
    <3>1. PICK x \in Xfer : /\ in' = Posted(in, x) /\ halted' = (halted /\ ~rereads) /\ x.n = io.n
                             /\ x.to = "data"
      BY <1>0, <1>2, <2>1, Zenon
    <3> QED BY <1>1, <2>1, <3>1, QuietStep, Zenon
  <2>2. CASE pc = "cbw" /\ AskCsw /\ ~(Length(io) > 0)
    <3>1. PICK x \in Xfer : /\ in' = Posted(in, x) /\ halted' = (halted /\ ~rereads) /\ x.n = io.n
                             /\ x.to = "csw"
      BY <1>0, <1>2, <2>2, Zenon DEF AskCsw
    <3> QED BY <1>0, <1>1, <2>2, <3>1, AskCswType, QuietStep, Zenon
  <2> QED BY <1>3, <2>1, <2>2, Zenon DEF CbwSent
<1>4. CASE DataDone
  BY <1>1, <1>4, QuietStep, Zenon DEF DataDone
<1>5. CASE GetCsw
  <2>1. pc = "data_done" /\ AskCsw
    BY <1>5, Zenon DEF GetCsw
  <2>2. PICK x \in Xfer : /\ in' = Posted(in, x) /\ halted' = (halted /\ ~rereads) /\ x.n = io.n
                           /\ x.to = "csw"
    BY <1>0, <1>2, <2>1, Zenon DEF AskCsw
  <2> QED BY <1>0, <1>1, <2>1, <2>2, AskCswType, QuietStep, Zenon
<1>6. CASE CswDone
  <2>1. /\ pc = "csw" /\ csw' = csw
        /\ (pc' = "again" /\ PostIn("csw", CSW_SIZE)) \/ (pc' = "judge" /\ UNCHANGED <<in, halted>>)
    BY <1>6, Zenon DEF CswDone, Answered
  <2>2. CASE pc' = "again" /\ PostIn("csw", CSW_SIZE)
    <3>1. PICK x \in Xfer : /\ in' = Posted(in, x) /\ halted' = (halted /\ ~rereads) /\ x.n = io.n
                             /\ x.to = "csw"
      BY <1>0, <1>2, <2>2, Zenon
    <3> QED BY <1>1, <2>1, <2>2, <3>1, QuietStep, Zenon
  <2>3. CASE pc' = "judge" /\ UNCHANGED <<in, halted>>
    BY <1>1, <2>1, <2>3, QuietStep, Zenon
  <2> QED BY <2>1, <2>2, <2>3, Zenon
<1>7. CASE CswAgain
  BY <1>1, <1>7, QuietStep, Zenon DEF CswAgain
<1> QED BY <1>3, <1>4, <1>5, <1>6, <1>7, Zenon

\* The next command is sent; nothing of the one before it is under way on a ring
\* that is kept, or a transfer is left for it (late).
LEMMA StartInv ==
  ASSUME DInv, DType', StartCommand
  PROVE  DInv'
<1>0. DType /\ CallType /\ io \in Cbw /\ out \in Seq(Cbw) /\ in \in Seq(Xfer)
  BY Zenon DEF DInv, DType, HostType, RingType
<1>1. /\ pc = "call" /\ pc' = "cbw" /\ call' = call
      /\ UNCHANGED <<rereads, tag, csw, in, halted, events, dev>>
      /\ late' = (late \/ (in # <<>> /\ ~rereads))
  BY Zenon DEF StartCommand, SendCbw, device
<1>2. /\ io' \in Cbw /\ ~io'.given_up /\ io'.tag = tag /\ io'.cmd = call.at
      /\ call.at = "READ_10" => io'.blocks = Blocks(call.block, Chunk)
      /\ out' = Posted(out, io') /\ out' \in Seq(Cbw)
  BY <1>0, StartFacts, Zenon
<1>3. \E k \in DOMAIN out' : out'[k] = io'
  <2>1. CASE rereads
    <3>1. out' = <<io'>>
      BY <1>2, <2>1, Zenon DEF Posted
    <3> QED BY <3>1
  <2>2. CASE ~rereads
    <3>1. out' = Append(out, io')
      BY <1>2, <2>2, Zenon DEF Posted
    <3>2. Len(out) + 1 \in DOMAIN out' /\ out'[Len(out) + 1] = io'
      BY <1>0, <3>1
    <3> QED BY <3>2, Zenon
  <2> QED BY <2>1, <2>2, Zenon
<1>4. Untaken'
  BY <1>2, <1>3, Zenon DEF Untaken
<1>5. BaseInv'
  <2>1. call.at = "READ_10" => Chunk \in Nat /\ Chunk > 0 /\ call.block \in Nat
    BY <1>0, ChunkFacts, Zenon DEF DInv, BaseInv, CallType
  <2>2. io'.cmd = "READ_10" => Len(io'.blocks) > 0
    BY <1>2, <2>1, BlocksSeq, Zenon
  <2> QED BY <1>1, <1>2, <1>4, <2>2, Zenon DEF DInv, BaseInv
<1>6. CswInv' /\ AcceptInv'
  BY <1>1, Zenon DEF CswInv, AcceptInv
<1>7. RereadInv'
  <2>1. SUFFICES ASSUME rereads, ~late PROVE Reread'
    BY <1>1, Zenon DEF RereadInv
  <2>2. Reread
    BY <2>1, Zenon DEF DInv, RereadInv
  <2>3. out' = <<io'>>
    BY <1>2, <2>1, Zenon DEF Posted
  <2>4. pc \notin Active /\ pc \notin {"data", "data_done"} /\ pc' \notin {"data", "data_done"} /\ pc' \in Active
    BY <1>1, Zenon DEF Active
  <2>5. dev.stage # "idle" => dev.cbw.tag # tag
    BY <2>2, <2>4, Zenon DEF Reread
  <2> QED BY <1>1, <2>2, <2>3, <2>4, <2>5, Zenon DEF Reread
<1>8. KeptInv'
  <2>1. SUFFICES ASSUME ~rereads, ~late, in = <<>>, ~halted PROVE Kept'
    BY <1>1, Zenon DEF KeptInv
  <2>2. Kept
    BY <2>1, Zenon DEF DInv, KeptInv
  <2>3. ToPost = 0 /\ ToPost' = 2
    BY <1>1, Zenon DEF ToPost
  <2>4. Need <= 0
    BY <2>1, <2>2, <2>3 DEF Kept
  <2>5. ~Untaken /\ dev.stage # "data" /\ dev.stage # "status"
    BY <2>4 DEF Need
  <2>6. dev.stage = "idle"
    BY <1>0, <2>5, Zenon DEF DType, RingType, Device
  <2>7. \A k \in DOMAIN out' : out'[k].given_up \/ (k = Len(out') /\ out'[k] = io')
    <3>1. out' = Append(out, io')
      BY <1>2, <2>1, Zenon DEF Posted
    <3>2. \A k \in DOMAIN out' : (k \in DOMAIN out /\ out'[k] = out[k]) \/ (k = Len(out') /\ out'[k] = io')
      BY <1>0, <3>1
    <3> QED BY <2>5, <3>2, Zenon DEF Untaken
  <2>8. Need' \in {0, 1, 2}
    BY Zenon DEF Need
  <2>9. Len(in') + ToPost' >= Need'
    BY <1>1, <2>1, <2>3, <2>8
  <2>10. \A k \in DOMAIN in' : FALSE
    BY <1>1, <2>1
  <2> QED BY <1>1, <2>6, <2>7, <2>9, <2>10, Zenon DEF Kept
<1> QED BY <1>5, <1>6, <1>7, <1>8, Zenon DEF DInv

\* A command block that was not taken in time is given up.
LEMMA CbwTimeoutInv ==
  ASSUME DInv, DType', CbwTimeout
  PROVE  DInv'
<1>0. out \in Seq(Cbw) /\ in \in Seq(Xfer) /\ io \in Cbw
  BY Zenon DEF DInv, DType, HostType, RingType
<1>1. /\ pc = "cbw" /\ pc' = "return" /\ err' = "timeout" /\ events = <<>> /\ events' = events
      /\ UNCHANGED <<rereads, call, io, tag, in, halted, dev, late, csw>>
      /\ out' = [out EXCEPT ![Len(out)] = [out[Len(out)] EXCEPT !.given_up = TRUE]]
  BY Zenon DEF CbwTimeout, TimesOut, Expires, Return, device
<1>2. Untaken /\ pc \in Active /\ pc' \notin Active
  BY <1>1, Zenon DEF DInv, BaseInv, Active
<1>3. BaseInv'
  BY <1>1, <1>2, Zenon DEF DInv, BaseInv
<1>4. CswInv' /\ AcceptInv'
  BY <1>1, Zenon DEF CswInv, AcceptInv
<1>5. RereadInv'
  <2>1. SUFFICES ASSUME rereads, ~late PROVE Reread'
    BY <1>1, Zenon DEF RereadInv
  <2>2. Reread
    BY <2>1, Zenon DEF DInv, RereadInv
  <2>3. PICK k \in DOMAIN out : ~out[k].given_up
    BY <1>2, Zenon DEF Untaken
  <2>4. out # <<>>
    BY <1>0, <2>3
  <2>5. out # <<GivenUp(io)>>
    <3>1. SUFFICES ASSUME out = <<GivenUp(io)>> PROVE FALSE
      OBVIOUS
    <3>2. out[k] = GivenUp(io)
      BY <2>3, <3>1
    <3> QED BY <1>0, <2>3, <3>2, Zenon DEF GivenUp, Cbw
  <2>6. out = <<io>>
    BY <2>2, <2>4, <2>5, Zenon DEF Reread
  <2>7. out' = <<GivenUp(io)>>
    <3>1. Len(out) = 1 /\ out[1] = io
      BY <2>6
    <3>2. out' = [<<io>> EXCEPT ![1] = GivenUp(io)]
      BY <1>1, <2>6, <3>1, Zenon DEF GivenUp
    <3> HIDE DEF GivenUp
    <3> QED BY <3>2
  <2>8. GivenUp(io).given_up
    BY <1>0, Zenon DEF GivenUp, Cbw
  <2>9. <<GivenUp(io)>> # <<io>>
    BY <2>8, <1>0, Zenon DEF DInv, DType, HostType
  <2>10. dev.stage # "idle" => dev.cbw.tag # tag
    BY <2>2, <2>4, Zenon DEF Reread
  <2>11. pc \notin {"data", "data_done"} /\ pc' \notin {"data", "data_done"}
    BY <1>1, Zenon
  <2> QED BY <1>1, <1>2, <2>2, <2>7, <2>9, <2>10, <2>11, Zenon DEF Reread, GivenUp
<1>6. KeptInv'
  <2>1. SUFFICES ASSUME ~rereads, ~late, ~halted PROVE Kept'
    BY <1>1, Zenon DEF KeptInv
  <2>2. Kept
    BY <2>1, Zenon DEF DInv, KeptInv
  <2>3. dev.stage = "idle"
    BY <1>2, <2>2, Zenon DEF Kept
  <2>4. \A k \in DOMAIN out' : out'[k].given_up
    <3>1. DOMAIN out' = DOMAIN out /\ DOMAIN out = 1..Len(out) /\ \A k \in DOMAIN out : out[k] \in Cbw
      BY <1>0, <1>1
    <3> SUFFICES ASSUME NEW k \in DOMAIN out PROVE out'[k].given_up
      BY <3>1, Zenon
    <3>2. CASE k = Len(out)
      BY <1>1, <3>1, <3>2, Zenon DEF Cbw
    <3>3. CASE k # Len(out)
      <4>1. out'[k] = out[k]
        BY <1>1, <3>3, Zenon
      <4> QED BY <2>2, <3>3, <4>1, Zenon DEF Kept
    <3> QED BY <3>2, <3>3, Zenon
  <2>5. ~Untaken'
    BY <2>4, Zenon DEF Untaken
  <2>6. Need' = 0 /\ ToPost' = 0
    BY <1>1, <2>3, <2>5, Zenon DEF Need, ToPost
  <2>7. Len(in') + ToPost' >= Need'
    BY <1>0, <1>1, <2>6
  <2> QED BY <1>1, <1>2, <2>2, <2>3, <2>4, <2>5, <2>7, Zenon DEF Kept
<1> QED BY <1>3, <1>4, <1>5, <1>6, Zenon DEF DInv

\* The tag of the next command differs, whatever the width of the counter.
LEMMA TagMoves ==
  ASSUME NEW t \in 0..TagModulus - 1
  PROVE  (t + 1) % TagModulus # t
<1>1. TagModulus \in Nat /\ TagModulus > 1
  BY USBAssumption
<1>2. CASE t + 1 < TagModulus
  <2>1. (t + 1) % TagModulus = t + 1
    BY <1>1, <1>2
  <2> QED BY <2>1
<1>3. CASE t + 1 = TagModulus
  <2>1. (t + 1) % TagModulus = 0
    BY <1>1, <1>3
  <2> QED BY <1>1, <1>3, <2>1
<1> QED BY <1>1, <1>2, <1>3

\* The checks of usbmsd_get_csw; the tag moves on whatever they say.
LEMMA JudgeInv ==
  ASSUME DInv, DType', Judge
  PROVE  DInv'
<1>0. out \in Seq(Cbw) /\ in \in Seq(Xfer) /\ io \in Cbw /\ dev \in Device /\ tag \in 0..TagModulus - 1
  BY Zenon DEF DInv, DType, HostType, RingType
<1>1. /\ pc = "judge" /\ pc' = "return" /\ tag' = NextTag(tag)
      /\ UNCHANGED <<rereads, call, io, buf, csw, out, in, halted, late>>
      /\ dev' = dev \/ dev' = [dev EXCEPT !.stage = "idle"]
      /\ err' = "ok" => csw.form = "csw" /\ csw.tag = tag /\ csw.status = "pass" /\ dev' = dev
      /\ dev' = [dev EXCEPT !.stage = "idle"] \/ (csw.form = "csw" /\ csw.tag = tag)
  BY Zenon DEF Judge, Return, BulkReset, StatusError
<1>2. tag' # tag
  BY <1>0, <1>1, TagMoves, Zenon DEF NextTag
<1>3. pc \in Active /\ pc' \notin Active /\ pc \in {"csw", "again", "judge"} /\ pc' # "cbw"
  BY <1>1, Zenon DEF Active
<1>4. dev'.stage \in {dev.stage, "idle"} /\ dev'.cbw = dev.cbw /\ dev'.result = dev.result
  BY <1>0, <1>1, Zenon DEF Device
<1>5. (Untaken' <=> Untaken) /\ (Filled' <=> Filled) /\ (Mute' <=> Mute)
  BY <1>1, Zenon DEF Untaken, Filled, Mute
<1>6. BaseInv'
  BY <1>1, <1>3, <1>4, Zenon DEF DInv, BaseInv
<1>7. CswInv'
  BY <1>1, Zenon DEF CswInv
<1>8. AcceptInv'
  <2>1. SUFFICES ASSUME ~late, err' = "ok" PROVE csw.n = io.n /\ Settled' /\ Filled'
    BY <1>1, Zenon DEF AcceptInv
  <2>2. csw.n = io.n /\ Settled /\ Filled /\ dev' = dev
    BY <1>1, <1>3, <2>1, Zenon DEF DInv, CswInv
  <2>3. Settled' <=> Settled
    BY <1>5, <2>2, Zenon DEF Settled
  <2> QED BY <1>5, <2>2, <2>3, Zenon
<1>9. RereadInv'
  <2>1. SUFFICES ASSUME rereads, ~late PROVE Reread'
    BY <1>1, Zenon DEF RereadInv
  <2>2. Reread /\ ~Mute
    BY <2>1, Zenon DEF DInv, RereadInv, Mute
  <2>3. dev'.stage = "idle"
    <3>1. CASE dev' = [dev EXCEPT !.stage = "idle"]
      BY <1>0, <3>1, Zenon DEF Device
    <3>2. CASE csw.form = "csw" /\ csw.tag = tag
      <4>1. Settled
        BY <1>3, <2>1, <3>2, Zenon DEF DInv, CswInv
      <4> QED BY <1>4, <2>2, <4>1, Zenon DEF Settled
    <3> QED BY <1>1, <3>1, <3>2, Zenon
  <2>4. io.tag = tag
    BY <1>3, Zenon DEF DInv, BaseInv
  <2>5. pc \notin {"data", "data_done"} /\ pc' \notin {"data", "data_done"}
    BY <1>1, Zenon
  <2>6. io'.tag # tag' /\ out' \in {<<>>, <<io>>, <<GivenUp(io)>>}
    BY <1>1, <1>2, <2>2, <2>4, Zenon DEF Reread
  <2> QED BY <1>1, <1>3, <2>2, <2>3, <2>5, <2>6, Zenon DEF Reread, GivenUp
<1>10. KeptInv'
  <2>1. SUFFICES ASSUME ~rereads, ~late, ~halted PROVE Kept'
    BY <1>1, Zenon DEF KeptInv
  <2>2. Kept
    BY <2>1, Zenon DEF DInv, KeptInv
  <2>3. ToPost' = ToPost
    BY <1>1, Zenon DEF ToPost
  <2>4. Need' = Need \/ Need' = 0
    BY <1>1, <1>4, <1>5, Zenon DEF Need
  <2>5. ToPost = 0
    BY <1>1, Zenon DEF ToPost
  <2>6. Len(in) + ToPost >= Need
    BY <2>2, Zenon DEF Kept
  <2>7. Len(in') + ToPost' >= Need'
    BY <1>0, <1>1, <2>3, <2>4, <2>5, <2>6
  <2> QED BY <1>1, <1>3, <1>4, <1>5, <2>2, <2>7, Zenon DEF Kept
<1> QED BY <1>6, <1>7, <1>8, <1>9, <1>10, Zenon DEF DInv

\* A caller between two commands changes nothing of the device's.
LEMMA CallerInv ==
  ASSUME DInv, DType', pc \notin Active, pc' = "call",
         UNCHANGED <<io, tag, memory, controller, device, late>>,
         call'.at = "READ_10" => call'.count > 0
  PROVE  DInv'
<1>1. /\ UNCHANGED <<buf, csw, rereads, out, in, halted, events, dev>> /\ pc' \notin Active
      /\ pc # "cbw" /\ pc \notin {"data", "data_done"} /\ pc' \notin {"data", "data_done"}
  BY Zenon DEF memory, controller, device, Active
<1>2. BaseInv'
  BY <1>1, Zenon DEF DInv, BaseInv
<1>3. CswInv' /\ AcceptInv'
  BY Zenon DEF CswInv, AcceptInv
<1>4. RereadInv'
  BY <1>1, Zenon DEF DInv, RereadInv, Reread, GivenUp
<1>5. KeptInv'
  <2>1. SUFFICES ASSUME ~rereads, ~late, ~halted PROVE Kept'
    BY <1>1, Zenon DEF KeptInv
  <2>2. Kept
    BY <1>1, <2>1, Zenon DEF DInv, KeptInv
  <2>3. (Untaken' <=> Untaken) /\ ToPost' = ToPost
    BY <1>1, Zenon DEF Untaken, ToPost
  <2>4. Need' = Need
    BY <1>1, <2>3, Zenon DEF Need
  <2> QED BY <1>1, <2>2, <2>3, <2>4, Zenon DEF Kept
<1> QED BY <1>2, <1>3, <1>4, <1>5, Zenon DEF DInv

\* The loop of tegrabl_usbmsd_bdev_read_block goes on only while blocks are left.
LEMMA CallerCount ==
  ASSUME HostType, CallerStep
  PROVE  call'.at = "READ_10" => call'.count > 0 /\ ChunkDone
<1>0. CallType /\ Chunk \in Nat /\ Chunk <= call.count /\ call.count \in Nat
  <2>1. CallType
    BY Zenon DEF HostType
  <2> QED BY <2>1, ChunkFacts, Zenon DEF CallType
<1>1. /\ To("registered").at = "registered" /\ To("READ_CAPACITY").at = "READ_CAPACITY"
      /\ To("REQUEST_SENSE").at = "REQUEST_SENSE"
  BY <1>0, Zenon DEF To, CallType
<1>2. TurAgain.at # "READ_10"
  <2>1. CASE call.retry > 0
    BY <1>0, <2>1, Zenon DEF TurAgain, To, CallType
  <2>2. CASE ~(call.retry > 0)
    BY <1>1, <2>2, Zenon DEF TurAgain
  <2> QED BY <2>1, <2>2, Zenon
<1>3. InquiryDone => call'.at # "READ_10"
  BY <1>0, Zenon DEF InquiryDone, Caller, To, CallType
<1>4. TestUnitReadyDone => call'.at # "READ_10"
  BY <1>1, <1>2 DEF TestUnitReadyDone, Caller
<1>5. RequestSenseDone => call'.at # "READ_10"
  <2>1. [To("TEST_UNIT_READY") EXCEPT !.retry = TurRetries, !.ready = @ - 1].at = "TEST_UNIT_READY"
    BY <1>0, Zenon DEF To, CallType
  <2> QED BY <1>1, <1>2, <2>1, Zenon DEF RequestSenseDone, Caller
<1>6. ReadCapacityDone => call'.at # "READ_10"
  BY <1>1, Zenon DEF ReadCapacityDone, Caller
<1>7. ChunkDone => (call'.at = "READ_10" => call'.count > 0)
  <2>1. [To("registered") EXCEPT !.result = "error"].at = "registered"
    BY <1>0, Zenon DEF To, CallType
  <2> DEFINE more == [call EXCEPT !.at = IF call.count = Chunk THEN "registered" ELSE "READ_10",
                              !.result = IF call.count = Chunk THEN "ok" ELSE "none",
                              !.block = @ + Chunk, !.count = @ - Chunk, !.dma = @ + Chunk,
                              !.split = @ \/ Pieces(call.dma, Chunk) > 1,
                              !.got = @ \o buf.blocks]
  <2>2. more.at = (IF call.count = Chunk THEN "registered" ELSE "READ_10") /\ more.count = call.count - Chunk
    BY <1>0, Zenon DEF CallType
  <2>3. call.count # Chunk => call.count - Chunk > 0
    BY <1>0
  <2>4. ChunkDone => call' = [To("registered") EXCEPT !.result = "error"] \/ call' = more
    BY Zenon DEF ChunkDone, Caller
  <2> HIDE DEF more
  <2> QED BY <2>1, <2>2, <2>3, <2>4, Zenon
<1> QED BY <1>3, <1>4, <1>5, <1>6, <1>7, Zenon DEF CallerStep

\* The device takes a command block: the host's own, or one that it gave up
\* (late).
LEMMA TakeCbwInv ==
  ASSUME DInv, DType', TakeCbw
  PROVE  DInv'
<1>0. out \in Seq(Cbw) /\ in \in Seq(Xfer) /\ io \in Cbw /\ dev \in Device
  BY Zenon DEF DInv, DType, HostType, RingType
<1>1. /\ UNCHANGED <<rereads, pc, call, io, tag, err, buf, csw, in, halted>>
      /\ dev.stage = "idle" /\ out # <<>> /\ out' = Tail(out) /\ late' = (late \/ Head(out).given_up)
      /\ dev'.stage = (IF Length(Head(out)) > 0 THEN "data" ELSE "status") /\ dev'.cbw = Head(out)
      /\ events' = Append(events, "ok")
  <2>1. PICK result : dev' = [stage |-> IF Length(Head(out)) > 0 THEN "data" ELSE "status",
                              cbw |-> Head(out), result |-> result]
    BY Zenon DEF TakeCbw
  <2>2. dev'.stage = (IF Length(Head(out)) > 0 THEN "data" ELSE "status") /\ dev'.cbw = Head(out)
    BY <2>1, Zenon
  <2> QED BY <2>2, Zenon DEF TakeCbw, host, memory, Event
<1>2. events' # <<>>
  BY <1>1 DEF DInv, DType, RingType
<1>3. BaseInv'
  BY <1>1, <1>2, Zenon DEF DInv, BaseInv
<1>4. 1 \in DOMAIN out /\ Head(out) = out[1]
  BY <1>0, <1>1
<1>5. SUFFICES ASSUME ~late, ~Head(out).given_up PROVE KeptInv' /\ RereadInv' /\ CswInv' /\ AcceptInv'
  BY <1>1, <1>3, Zenon DEF DInv, KeptInv, RereadInv, CswInv, AcceptInv
<1>6. Untaken
  BY <1>4, <1>5, Zenon DEF Untaken
<1>7. Mute' <=> Mute
  BY <1>1, Zenon DEF Mute
<1>8. Filled' <=> Filled
  BY <1>1, Zenon DEF Filled
<1>9. CswInv' /\ AcceptInv'
  <2>1. Settled => Mute
    BY <1>6, Zenon DEF Settled
  <2>2. Settled => Settled'
    BY <1>7, <2>1, Zenon DEF Settled
  <2>3. CswInv'
    BY <1>1, <1>5, <1>8, <2>2, Zenon DEF DInv, CswInv
  <2>4. AcceptInv'
    BY <1>1, <1>5, <1>8, <2>2, Zenon DEF DInv, AcceptInv
  <2> QED BY <2>3, <2>4, Zenon
\* A command without a data stage is no read.
<1>10. Head(out) = io /\ dev'.stage = "status" => Filled
  <2>1. io.cmd = "READ_10" => Length(io) > 0
    <3>1. io.cmd = "READ_10" => Length(io) = 512 * Len(io.blocks) /\ Len(io.blocks) > 0
      <4>1. io \in Cbw /\ (io.cmd = "READ_10" => Len(io.blocks) > 0)
        BY <1>0, Zenon DEF DInv, BaseInv, DType, HostType
      <4>2. io.cmd = "READ_10" => Length(io) = 512 * Len(io.blocks)
        BY <4>1, LengthFacts, Zenon
      <4> QED BY <4>1, <4>2, Zenon
    <3>2. Len(io.blocks) \in Nat
      BY <1>0 DEF Cbw
    <3> QED BY <3>1, <3>2
  <2>2. dev'.stage = "status" => ~(Length(Head(out)) > 0)
    BY <1>1, Zenon
  <2> QED BY <2>1, <2>2, Zenon DEF Filled
<1>11. RereadInv'
  <2>1. SUFFICES ASSUME rereads PROVE Reread'
    BY <1>1, Zenon DEF RereadInv
  <2>2. Reread
    BY <1>5, <2>1, Zenon DEF DInv, RereadInv
  <2>3. out # <<GivenUp(io)>>
    <3>1. SUFFICES ASSUME out = <<GivenUp(io)>> PROVE FALSE
      OBVIOUS
    <3>2. Head(out) = GivenUp(io)
      BY <3>1
    <3> QED BY <1>0, <1>5, <3>2, Zenon DEF GivenUp, Cbw
  <2>4. out = <<io>>
    BY <1>1, <2>2, <2>3, Zenon DEF Reread
  <2>5. Head(out) = io /\ out' = <<>>
    BY <1>1, <2>4
  <2>6. out' # <<io'>>
    BY <2>5
  <2>7. pc \notin Active => io.tag # tag
    BY <2>2, <2>4, Zenon DEF Reread
  <2> QED BY <1>1, <1>8, <1>10, <2>2, <2>5, <2>6, <2>7, Zenon DEF Reread
<1>12. KeptInv'
  <2>1. SUFFICES ASSUME ~rereads, ~halted PROVE Kept'
    BY <1>1, Zenon DEF KeptInv
  <2>2. Kept
    BY <1>5, <2>1, Zenon DEF DInv, KeptInv
  <2>3. Len(out) = 1 /\ Head(out) = io
    BY <1>4, <1>5, <2>2, Zenon DEF Kept
  <2>4. out' = <<>>
    BY <1>0, <1>1, <2>3
  <2>5. \A k \in DOMAIN out' : FALSE
    BY <2>4
  <2>6. ~Untaken'
    BY <2>5, Zenon DEF Untaken
  <2>7. Need' = Need /\ ToPost' = ToPost
    BY <1>1, <1>6, <2>3, <2>6, Zenon DEF Need, ToPost
  <2> QED BY <1>1, <1>8, <1>10, <2>2, <2>3, <2>5, <2>6, <2>7, Zenon DEF Kept
<1> QED BY <1>9, <1>11, <1>12, Zenon

\* A transfer is served while the IN endpoint runs, so the command is not settled.
LEMMA NotSettled ==
  ASSUME NEW stage, "idle" \notin stage, CanSend(stage)
  PROVE  ~Settled /\ ~halted /\ ~stalled /\ dev.stage \in stage /\ in # <<>>
BY Zenon DEF CanSend, Settled, Mute

\* What a served transfer leaves of the ring.
LEMMA TailOfIn ==
  ASSUME in \in Seq(Xfer), in # <<>>, in' = Tail(in)
  PROVE  /\ Head(in) \in Xfer /\ 1 \in DOMAIN in /\ Head(in) = in[1]
         /\ Len(in') = Len(in) - 1 /\ Len(in) \in Nat
         /\ \A k \in DOMAIN in' : \E j \in DOMAIN in : in'[k] = in[j]
<1>1. /\ Head(in) \in Xfer /\ 1 \in DOMAIN in /\ Head(in) = in[1]
      /\ Len(in') = Len(in) - 1 /\ Len(in) \in Nat
  OBVIOUS
<1>2. \A k \in DOMAIN in' : k + 1 \in DOMAIN in /\ in'[k] = in[k + 1]
  OBVIOUS
<1> QED BY <1>1, <1>2, Zenon

LEMMA SendDataInv ==
  ASSUME DInv, DType', SendData
  PROVE  DInv'
<1>0. out \in Seq(Cbw) /\ in \in Seq(Xfer) /\ io \in Cbw /\ dev \in Device
  BY Zenon DEF DInv, DType, HostType, RingType
<1>1. ~Settled /\ ~halted /\ dev.stage = "data" /\ in # <<>> /\ in' = Tail(in)
  <2>1. "idle" \notin {"data"} /\ CanSend({"data"}) /\ in' = Tail(in)
    BY Zenon DEF SendData, Deliver
  <2> QED BY <2>1, NotSettled, Zenon
<1> DEFINE fits == Length(dev.cbw) <= Head(in).size
<1>2. /\ UNCHANGED <<rereads, pc, call, io, tag, err, out, late>>
      /\ csw' = (IF Head(in).to = "csw" THEN Junk ELSE csw)
      /\ dev' = IF fits THEN [dev EXCEPT !.stage = "status"] ELSE dev
      /\ fits => halted' = halted
      /\ ~fits => halted' = TRUE
      /\ events' = Append(events, "ok") \/ events' = Append(events, "babble")
      /\ buf' = IF fits /\ Head(in).to = "data" /\ Head(in).n = io.n /\ dev.result = "pass"
                THEN [n |-> dev.cbw.n, blocks |-> Placed(call.dma, Len(io.blocks), dev.cbw.blocks)]
                ELSE buf
  BY Zenon DEF SendData, Deliver, Event, host
<1>3. /\ Head(in) \in Xfer /\ 1 \in DOMAIN in /\ Head(in) = in[1]
      /\ Len(in') = Len(in) - 1 /\ Len(in) \in Nat
      /\ \A k \in DOMAIN in' : \E j \in DOMAIN in : in'[k] = in[j]
  BY <1>0, <1>1, TailOfIn, Zenon
<1>4. events' # <<>>
  BY <1>2 DEF DInv, DType, RingType
<1>5. /\ dev'.cbw = dev.cbw /\ dev'.result = dev.result /\ dev'.stage # "idle"
      /\ dev'.stage = IF fits THEN "status" ELSE "data"
  BY <1>0, <1>1, <1>2, Zenon DEF Device
<1>6. BaseInv'
  BY <1>1, <1>2, <1>4, <1>5, Zenon DEF DInv, BaseInv
<1>7. CswInv' /\ AcceptInv'
  <2>1. csw'.form = "csw" => csw' = csw
    BY <1>2, Zenon DEF Junk, Zero
  <2>2. CswInv'
    BY <1>1, <1>2, <2>1, Zenon DEF DInv, CswInv
  <2>3. AcceptInv'
    BY <1>1, <1>2, Zenon DEF DInv, AcceptInv
  <2> QED BY <2>2, <2>3, Zenon
\* The data of a read does not fit where a status is expected.
<1>8. ASSUME fits, dev.cbw = io, dev.result = "pass", Head(in).to = "data" => Head(in).n = io.n
      PROVE  Filled'
  <2>1. CASE Head(in).to = "data"
    <3>1. buf' = [n |-> dev.cbw.n, blocks |-> Placed(call.dma, Len(io.blocks), dev.cbw.blocks)]
      BY <1>2, <1>8, <2>1, Zenon
    <3>2. buf'.blocks = Placed(call.dma, Len(io.blocks), io.blocks)
      BY <1>8, <3>1, Zenon
    <3> QED BY <1>2, <3>2, Zenon DEF Filled
  <2>2. CASE Head(in).to = "csw"
    <3>1. Head(in).size = CSW_SIZE /\ Length(io) <= CSW_SIZE
      BY <1>3, <1>8, <2>2, Zenon DEF Xfer
    <3>2. Length(io) > 0 /\ Length(io) \in Nat
      BY <1>0, <1>1, <1>8, LengthFacts, Zenon DEF DInv, BaseInv
    <3>3. ~(Length(io) > CSW_SIZE)
      BY <3>1, <3>2 DEF CSW_SIZE
    <3>4. io.cmd # "READ_10"
      BY <1>0, <3>2, <3>3, LengthFacts, Zenon
    <3> QED BY <1>2, <3>4, Zenon DEF Filled
  <2> QED BY <1>3, <2>1, <2>2, Zenon DEF Xfer
<1>9. RereadInv'
  <2>1. SUFFICES ASSUME rereads, ~late PROVE Reread'
    BY <1>2, Zenon DEF RereadInv
  <2>2. Reread
    BY <2>1, Zenon DEF DInv, RereadInv
  <2>3. Head(in).to = "data" => Head(in).n = io.n
    BY <1>3, <2>2, Zenon DEF Reread
  <2>4. pc \in Active /\ dev'.stage = "status" /\ dev.result = "pass" /\ dev.cbw.tag = tag => Filled'
    BY <1>1, <1>5, <1>8, <2>2, <2>3, Zenon DEF Reread
  <2>5. IF pc' \in {"data", "data_done"}
        THEN \A k \in DOMAIN in' : in'[k].to = "data" /\ in'[k].n = io'.n
        ELSE \A k \in DOMAIN in' : in'[k].to = "csw"
    <3>1. pc' = pc /\ io' = io
      BY <1>2, Zenon
    <3>2. CASE pc \in {"data", "data_done"}
      <4>1. \A k \in DOMAIN in : in[k].to = "data" /\ in[k].n = io.n
        BY <2>2, <3>2, Zenon DEF Reread
      <4>2. \A k \in DOMAIN in' : in'[k].to = "data" /\ in'[k].n = io.n
        BY <1>3, <4>1
      <4> QED BY <3>1, <3>2, <4>2, Zenon
    <3>3. CASE pc \notin {"data", "data_done"}
      <4>1. \A k \in DOMAIN in : in[k].to = "csw"
        BY <2>2, <3>3, Zenon DEF Reread
      <4> QED BY <1>3, <3>1, <3>3, <4>1, Zenon
    <3> QED BY <3>2, <3>3, Zenon
  <2>6. dev.stage # "idle" => dev.cbw.tag # tag \/ (pc \in Active /\ dev.cbw = io /\ out = <<>>)
    BY <2>2, Zenon DEF Reread
  <2> QED BY <1>1, <1>2, <1>5, <2>2, <2>4, <2>5, <2>6, Zenon DEF Reread
<1>10. KeptInv'
  <2>1. SUFFICES ASSUME ~rereads, ~late, ~halted, fits PROVE Kept'
    BY <1>1, <1>2, Zenon DEF KeptInv
  <2>2. Kept
    BY <2>1, Zenon DEF DInv, KeptInv
  <2>3. dev.cbw = io /\ ~Untaken /\ ~Untaken'
    BY <1>1, <1>2, <2>2, Zenon DEF Kept, Untaken
  <2>4. Need = 2 /\ Need' = 1 /\ ToPost' = ToPost /\ ToPost \in {0, 1, 2}
    <3>1. dev'.stage = "status"
      BY <1>5, <2>1, Zenon
    <3>2. Need = 2 /\ Need' = 1
      BY <1>1, <2>3, <3>1, Zenon DEF Need
    <3>3. ToPost' = ToPost /\ ToPost \in {0, 1, 2}
      BY <1>2, Zenon DEF ToPost
    <3> QED BY <3>2, <3>3, Zenon
  <2>5. Len(in) + ToPost >= Need
    BY <2>2, Zenon DEF Kept
  <2>6. Len(in') + ToPost' >= Need'
    BY <1>3, <2>4, <2>5
  <2>7. \A k \in DOMAIN in' : in'[k].to = "data" => in'[k].n = io'.n
    BY <1>2, <1>3, <2>2, Zenon DEF Kept
  <2>8. dev.result = "pass" => Filled'
    BY <1>3, <1>8, <2>1, <2>2, <2>3, Zenon DEF Kept
  <2> QED BY <1>2, <1>5, <2>2, <2>3, <2>6, <2>7, <2>8, Zenon DEF Kept
<1> QED BY <1>6, <1>7, <1>9, <1>10, Zenon DEF DInv

LEMMA SendStatusInv ==
  ASSUME DInv, DType', SendStatus
  PROVE  DInv'
<1>0. out \in Seq(Cbw) /\ in \in Seq(Xfer) /\ io \in Cbw /\ dev \in Device
  BY Zenon DEF DInv, DType, HostType, RingType
<1>1. ~Settled /\ ~halted /\ dev.stage = "status" /\ in # <<>> /\ in' = Tail(in)
  <2>1. "idle" \notin {"status"} /\ CanSend({"status"}) /\ in' = Tail(in)
    BY Zenon DEF SendStatus, Deliver
  <2> QED BY <2>1, NotSettled, Zenon
<1> DEFINE fits == CSW_SIZE <= Head(in).size
<1>2. /\ UNCHANGED <<rereads, pc, call, io, tag, err, buf, out, late>>
      /\ csw' = IF Head(in).to # "csw" THEN csw
                ELSE [form |-> "csw", n |-> dev.cbw.n, tag |-> dev.cbw.tag, status |-> dev.result]
      /\ dev' = IF fits THEN [dev EXCEPT !.stage = "idle"] ELSE dev
      /\ fits => halted' = halted
      /\ ~fits => halted' = TRUE
      /\ events' = Append(events, "ok") \/ events' = Append(events, "babble")
  BY Zenon DEF SendStatus, Deliver, Event, host
<1>3. /\ Head(in) \in Xfer /\ 1 \in DOMAIN in /\ Head(in) = in[1]
      /\ Len(in') = Len(in) - 1 /\ Len(in) \in Nat
      /\ \A k \in DOMAIN in' : \E j \in DOMAIN in : in'[k] = in[j]
  BY <1>0, <1>1, TailOfIn, Zenon
<1>4. events' # <<>>
  BY <1>2 DEF DInv, DType, RingType
<1>5. /\ dev'.cbw = dev.cbw /\ dev'.result = dev.result
      /\ dev'.stage = IF fits THEN "idle" ELSE "status"
      /\ dev'.stage # "data"
  BY <1>0, <1>1, <1>2, Zenon DEF Device
<1>6. (Filled' <=> Filled) /\ (Untaken' <=> Untaken)
  BY <1>2, Zenon DEF Filled, Untaken
<1>7. BaseInv'
  BY <1>1, <1>2, <1>4, <1>5, Zenon DEF DInv, BaseInv
<1>8. AcceptInv'
  <2>1. ~(~late /\ pc = "return" /\ err = "ok")
    BY <1>1, Zenon DEF DInv, AcceptInv
  <2> QED BY <1>2, <2>1, Zenon DEF AcceptInv
\* The device is at the command with the host's tag, so it is the host's.
<1>9. CswInv'
  <2>1. SUFFICES ASSUME ~late, pc \in {"csw", "again", "judge"}, csw'.form = "csw", csw'.tag = tag
                 PROVE  csw'.n = io.n /\ Settled' /\ (csw'.status = "pass" => Filled')
    BY <1>2, Zenon DEF CswInv
  <2>2. CASE Head(in).to # "csw"
    BY <1>1, <1>2, <2>1, <2>2, Zenon DEF DInv, CswInv
  <2>3. CASE Head(in).to = "csw"
    <3>1. csw' = [form |-> "csw", n |-> dev.cbw.n, tag |-> dev.cbw.tag, status |-> dev.result]
      BY <1>2, <2>3, Zenon
    <3>2. csw'.n = dev.cbw.n /\ dev.cbw.tag = tag /\ csw'.status = dev.result
      BY <2>1, <3>1, Zenon
    <3>3. fits
      <4>1. Head(in).size = CSW_SIZE
        BY <1>3, <2>3, Zenon DEF Xfer
      <4> QED BY <4>1 DEF CSW_SIZE
    <3>4. pc \in Active
      BY <2>1, Zenon DEF Active
    <3>5. dev.cbw = io /\ ~Untaken /\ (dev.result = "pass" => Filled)
      <4>1. CASE rereads
        <5>1. Reread
          BY <2>1, <4>1, Zenon DEF DInv, RereadInv
        <5>2. dev.cbw = io /\ out = <<>> /\ (dev.result = "pass" => Filled)
          BY <1>1, <3>2, <3>4, <5>1, Zenon DEF Reread
        <5>3. \A k \in DOMAIN out : FALSE
          BY <5>2
        <5> QED BY <5>2, <5>3, Zenon DEF Untaken
      <4>2. CASE ~rereads
        <5>1. Kept
          BY <1>1, <2>1, <4>2, Zenon DEF DInv, KeptInv
        <5> QED BY <1>1, <3>4, <5>1, Zenon DEF Kept
      <4> QED BY <4>1, <4>2, Zenon
    <3>6. Settled'
      BY <1>5, <1>6, <3>3, <3>5, Zenon DEF Settled
    <3> QED BY <1>6, <3>2, <3>5, <3>6, Zenon
  <2> QED BY <2>2, <2>3, Zenon
<1>10. RereadInv'
  <2>1. SUFFICES ASSUME rereads, ~late PROVE Reread'
    BY <1>2, Zenon DEF RereadInv
  <2>2. Reread
    BY <2>1, Zenon DEF DInv, RereadInv
  <2>3. IF pc' \in {"data", "data_done"}
        THEN \A k \in DOMAIN in' : in'[k].to = "data" /\ in'[k].n = io'.n
        ELSE \A k \in DOMAIN in' : in'[k].to = "csw"
    <3>1. pc' = pc /\ io' = io
      BY <1>2, Zenon
    <3>2. CASE pc \in {"data", "data_done"}
      <4>1. \A k \in DOMAIN in : in[k].to = "data" /\ in[k].n = io.n
        BY <2>2, <3>2, Zenon DEF Reread
      <4>2. \A k \in DOMAIN in' : in'[k].to = "data" /\ in'[k].n = io.n
        BY <1>3, <4>1
      <4> QED BY <3>1, <3>2, <4>2, Zenon
    <3>3. CASE pc \notin {"data", "data_done"}
      <4>1. \A k \in DOMAIN in : in[k].to = "csw"
        BY <2>2, <3>3, Zenon DEF Reread
      <4> QED BY <1>3, <3>1, <3>3, <4>1, Zenon
    <3> QED BY <3>2, <3>3, Zenon
  <2>4. dev.cbw.tag # tag \/ (pc \in Active /\ dev.cbw = io /\ out = <<>>)
    BY <1>1, <2>2, Zenon DEF Reread
  <2>5. pc \in Active /\ dev.result = "pass" /\ dev.cbw.tag = tag => Filled
    BY <1>1, <2>2, Zenon DEF Reread
  <2> QED BY <1>2, <1>5, <1>6, <2>2, <2>3, <2>4, <2>5, Zenon DEF Reread
<1>11. KeptInv'
  <2>1. SUFFICES ASSUME ~rereads, ~late, ~halted, fits PROVE Kept'
    BY <1>1, <1>2, Zenon DEF KeptInv
  <2>2. Kept
    BY <2>1, Zenon DEF DInv, KeptInv
  <2>3. ~Untaken /\ dev'.stage = "idle"
    BY <1>1, <1>5, <2>1, <2>2, Zenon DEF Kept
  <2>4. Need = 1 /\ Need' = 0 /\ ToPost' = ToPost /\ ToPost \in {0, 1, 2}
    BY <1>1, <1>2, <1>6, <2>3, Zenon DEF Need, ToPost
  <2>5. Len(in) + ToPost >= Need
    BY <2>2, Zenon DEF Kept
  <2>6. Len(in') + ToPost' >= Need'
    BY <1>3, <2>4, <2>5
  <2>7. \A k \in DOMAIN in' : in'[k].to = "data" => in'[k].n = io'.n
    BY <1>2, <1>3, <2>2, Zenon DEF Kept
  <2> QED BY <1>2, <1>6, <2>2, <2>3, <2>6, <2>7, Zenon DEF Kept
<1> QED BY <1>7, <1>8, <1>9, <1>10, <1>11, Zenon DEF DInv

\* A STALL stops the IN endpoint; a controller that keeps its ring serves it no
\* more.
LEMMA StallInv ==
  ASSUME DInv, DType', Stall \/ StallAgain
  PROVE  DInv'
<1>0. in \in Seq(Xfer) /\ dev \in Device
  BY Zenon DEF DInv, DType, HostType, RingType
<1>1. /\ UNCHANGED <<rereads, pc, call, io, tag, err, buf, csw, out, late>>
      /\ ~halted /\ halted' = TRUE /\ in # <<>> /\ in' = Tail(in) /\ events' = Append(events, "stall")
      /\ \/ dev' = dev
         \/ /\ ~Settled /\ dev.stage # "idle"
            /\ dev' = [dev EXCEPT !.stage = "status", !.result = IF dev.stage = "data" THEN "fail" ELSE @]
  BY Zenon DEF Stall, StallAgain, CanSend, Settled, Mute, Event, host, memory, device
<1>2. /\ Head(in) \in Xfer /\ 1 \in DOMAIN in /\ Head(in) = in[1]
      /\ Len(in') = Len(in) - 1 /\ Len(in) \in Nat
      /\ \A k \in DOMAIN in' : \E j \in DOMAIN in : in'[k] = in[j]
  BY <1>0, <1>1, TailOfIn, Zenon
<1>3. events' # <<>>
  <2>1. events \in Seq(Codes) /\ events' = Append(events, "stall")
    BY <1>1, Zenon DEF DInv, DType, RingType
  <2> QED BY <2>1
<1>4. /\ dev'.cbw = dev.cbw /\ (dev'.stage = "data" => dev.stage = "data")
      /\ dev'.stage # "idle" => dev.stage # "idle"
      /\ dev'.stage = "status" /\ dev'.result = "pass" => dev.stage = "status" /\ dev.result = "pass"
  BY <1>0, <1>1, Zenon DEF Device
<1>5. (Filled' <=> Filled) /\ (Untaken' <=> Untaken)
  BY <1>1, Zenon DEF Filled, Untaken
<1>6. Settled => Settled'
  <2>1. CASE dev' = dev
    BY <1>1, <1>5, <2>1, Zenon DEF Settled, Mute
  <2>2. CASE dev' # dev
    BY <1>1, <2>2, Zenon
  <2> QED BY <2>1, <2>2, Zenon
<1>7. BaseInv'
  BY <1>1, <1>3, <1>4, Zenon DEF DInv, BaseInv
<1>8. CswInv'
  BY <1>1, <1>5, <1>6, Zenon DEF DInv, CswInv
<1>9. AcceptInv'
  BY <1>1, <1>5, <1>6, Zenon DEF DInv, AcceptInv
<1>10. KeptInv'
  BY <1>1, Zenon DEF KeptInv
<1>11. RereadInv'
  <2>1. SUFFICES ASSUME rereads, ~late PROVE Reread'
    BY <1>1, Zenon DEF RereadInv
  <2>2. Reread
    BY <2>1, Zenon DEF DInv, RereadInv
  <2>3. IF pc' \in {"data", "data_done"}
        THEN \A k \in DOMAIN in' : in'[k].to = "data" /\ in'[k].n = io'.n
        ELSE \A k \in DOMAIN in' : in'[k].to = "csw"
    <3>1. pc' = pc /\ io' = io
      BY <1>1, Zenon
    <3>2. CASE pc \in {"data", "data_done"}
      <4>1. \A k \in DOMAIN in : in[k].to = "data" /\ in[k].n = io.n
        BY <2>2, <3>2, Zenon DEF Reread
      <4>2. \A k \in DOMAIN in' : in'[k].to = "data" /\ in'[k].n = io.n
        BY <1>2, <4>1
      <4> QED BY <3>1, <3>2, <4>2, Zenon
    <3>3. CASE pc \notin {"data", "data_done"}
      <4>1. \A k \in DOMAIN in : in[k].to = "csw"
        BY <2>2, <3>3, Zenon DEF Reread
      <4> QED BY <1>2, <3>1, <3>3, <4>1, Zenon
    <3> QED BY <3>2, <3>3, Zenon
  <2> QED BY <1>1, <1>4, <1>5, <2>2, <2>3, Zenon DEF Reread
<1> QED BY <1>7, <1>8, <1>9, <1>10, <1>11, Zenon DEF DInv

LEMMA OtherEventInv ==
  ASSUME DInv, DType', OtherEvent
  PROVE  DInv'
<1>1. /\ UNCHANGED <<rereads, pc, call, io, tag, err, buf, csw, out, in, halted, dev, late>>
      /\ events' = Append(events, "ok")
  BY Zenon DEF OtherEvent, host, memory, device, Event
<1>2. events' # <<>>
  BY <1>1 DEF DInv, DType, RingType
<1>3. (Filled' <=> Filled) /\ (Untaken' <=> Untaken) /\ (Mute' <=> Mute)
  BY <1>1, Zenon DEF Filled, Untaken, Mute
<1>4. (Settled' <=> Settled) /\ Need' = Need /\ ToPost' = ToPost
  <2>1. Settled' <=> Settled
    BY <1>1, <1>3, Zenon DEF Settled
  <2>2. Need' = Need /\ ToPost' = ToPost
    BY <1>1, <1>3, Zenon DEF Need, ToPost
  <2> QED BY <2>1, <2>2, Zenon
<1>5. BaseInv'
  BY <1>1, <1>2, Zenon DEF DInv, BaseInv
<1>6. CswInv'
  BY <1>1, <1>3, <1>4, Zenon DEF DInv, CswInv
<1>7. AcceptInv'
  BY <1>1, <1>3, <1>4, Zenon DEF DInv, AcceptInv
<1>8. KeptInv'
  BY <1>1, <1>3, <1>4, Zenon DEF DInv, KeptInv, Kept
<1>9. RereadInv'
  BY <1>1, <1>3, Zenon DEF DInv, RereadInv, Reread, GivenUp
<1> QED BY <1>5, <1>6, <1>7, <1>8, <1>9, Zenon DEF DInv

LEMMA DriverInv ==
  ASSUME DInv, DriverNext
  PROVE  DInv'
<1>0. DType /\ HostType /\ pc \in Active \cup {"return", "call"}
  BY Zenon DEF DInv, DType, HostType
<1>1. CASE StartCommand
  BY <1>0, <1>1, StartType, StartInv, Zenon
<1>2. CASE HostStep
  <2>1. DType'
    BY <1>0, <1>2, HostStepType, Zenon
  <2> QED BY <1>2, <2>1, CbwTimeoutInv, QuietInv, JudgeInv, Zenon DEF HostStep
<1>3. CASE CallerStep
  <2>1. /\ pc = "return" /\ pc' = "call" /\ CallType'
        /\ UNCHANGED <<io, tag, err, memory, controller, device, faults, late, healthy>>
        /\ call'.at = "READ_10" => call'.count > 0
    BY <1>0, <1>3, CallerFacts, CallerCount, Zenon
  <2>2. UNCHANGED <<io, tag, memory, controller, device, late, healthy>>
    BY <2>1, Zenon
  <2>3. DType'
    BY <1>0, <2>1, <2>2, SameRest, Zenon
  <2>4. pc \notin Active /\ UNCHANGED <<io, tag, memory, controller, device, late>>
    BY <2>1, Zenon DEF Active
  <2> QED BY <2>1, <2>3, <2>4, CallerInv, Zenon
<1>4. CASE DeviceStep
  <2>1. DType'
    BY <1>0, <1>4, DeviceStepType, Zenon
  <2> QED BY <1>4, <2>1, TakeCbwInv, SendDataInv, SendStatusInv, StallInv, OtherEventInv, Zenon DEF DeviceStep
<1> QED BY <1>1, <1>2, <1>3, <1>4, Zenon DEF DriverNext, HostStep, CallerStep, DeviceStep

-----------------------------------------------------------------------------
(***************************************************************************)
(* The partition above the driver.                                         *)
(***************************************************************************)

\* Runs of addresses.
LEMMA BlocksFacts ==
  ASSUME NEW a \in Nat, NEW n \in Nat
  PROVE  /\ Blocks(a, n) \in Seq(Nat) /\ Len(Blocks(a, n)) = n
         /\ \A i \in 1..n : Blocks(a, n)[i] = a + i - 1
BY DEF Blocks

LEMMA BlocksJoin ==
  ASSUME NEW a \in Nat, NEW n \in Nat, NEW m \in Nat
  PROVE  Blocks(a, n) \o Blocks(a + n, m) = Blocks(a, n + m)
<1> DEFINE s == Blocks(a, n)  t == Blocks(a + n, m)  u == Blocks(a, n + m)
<1>1. /\ s \in Seq(Nat) /\ Len(s) = n /\ \A i \in 1..n : s[i] = a + i - 1
  BY BlocksFacts
<1>2. a + n \in Nat /\ n + m \in Nat
  OBVIOUS
<1>3. /\ t \in Seq(Nat) /\ Len(t) = m /\ \A i \in 1..m : t[i] = a + n + i - 1
  BY <1>2, BlocksFacts
<1>4. /\ u \in Seq(Nat) /\ Len(u) = n + m /\ \A i \in 1..(n + m) : u[i] = a + i - 1
  BY <1>2, BlocksFacts
<1> HIDE DEF s, t, u
<1>5. s \o t \in Seq(Nat) /\ Len(s \o t) = Len(s) + Len(t)
  <2>1. s \in Seq(Nat) /\ t \in Seq(Nat)
    BY <1>1, <1>3, Zenon
  <2> QED BY <2>1
<1>6. \A i \in 1..(n + m) : (s \o t)[i] = u[i]
  <2> SUFFICES ASSUME NEW i \in 1..(n + m) PROVE (s \o t)[i] = u[i]
    BY Zenon
  <2>0. i \in Nat /\ i >= 1
    OBVIOUS
  <2>1. CASE i <= n
    <3>1. (s \o t)[i] = s[i] /\ i \in 1..n
      BY <1>1, <1>3, <2>0, <2>1
    <3> QED BY <1>1, <1>4, <3>1
  <2>2. CASE i > n
    <3>1. (s \o t)[i] = t[i - n] /\ i - n \in 1..m
      BY <1>1, <1>3, <2>0, <2>2
    <3> QED BY <1>3, <1>4, <2>0, <2>2, <3>1
  <2>3. i <= n \/ i > n
    BY <2>0
  <2> QED BY <2>1, <2>2, <2>3, Zenon
<1>7. s \o t = u
  <2>1. Len(s \o t) = n + m
    BY <1>1, <1>3, <1>5
  <2> DEFINE c == s \o t
  <2>2. c = [i \in 1..(n + m) |-> c[i]]
    <3>1. c \in Seq(Nat) /\ Len(c) = n + m
      BY <1>5, <2>1, Zenon
    <3> HIDE DEF c
    <3> QED BY <3>1
  <2>3. u = [i \in 1..(n + m) |-> u[i]]
    BY <1>4
  <2> QED BY <1>6, <2>2, <2>3, Zenon
<1> QED BY <1>7 DEF s, t, u

LEMMA BlocksPart ==
  ASSUME NEW a \in Nat, NEW n \in Nat, NEW i \in Nat, NEW m \in Nat, i + m <= n
  PROVE  SubSeq(Blocks(a, n), i + 1, i + m) = Blocks(a + i, m)
<1> DEFINE s == Blocks(a, n)  t == SubSeq(s, i + 1, i + m)  u == Blocks(a + i, m)
<1>1. /\ s \in Seq(Nat) /\ Len(s) = n /\ \A j \in 1..n : s[j] = a + j - 1
  BY BlocksFacts
<1>2. a + i \in Nat
  OBVIOUS
<1>3. /\ u \in Seq(Nat) /\ Len(u) = m /\ \A j \in 1..m : u[j] = a + i + j - 1
  BY <1>2, BlocksFacts
<1> HIDE DEF s, u
<1>4. t \in Seq(Nat) /\ Len(t) = m /\ \A j \in 1..m : t[j] = s[i + j] /\ i + j \in 1..n
  BY <1>1
<1> HIDE DEF t
<1>5. \A j \in 1..m : t[j] = u[j]
  BY <1>1, <1>3, <1>4
<1>6. t = u
  BY <1>3, <1>4, <1>5
<1> QED BY <1>6 DEF s, t, u

\* A transfer in one piece puts the blocks in their places.
LEMMA PlacedWhole ==
  ASSUME NEW dma \in Nat, NEW blocks \in Seq(Nat), Pieces(dma, Len(blocks)) <= 1
  PROVE  Placed(dma, Len(blocks), blocks) = blocks
<1> DEFINE length == Len(blocks)
           whole == [at |-> dma, from |-> 0, size |-> Min({FirstPiece(dma), length})]
<1>0. length \in Nat /\ TxSectors \in Nat /\ TxSectors > 0
  BY USBAssumption
<1> HIDE DEF length
<1>1. FirstPiece(dma) \in Nat /\ FirstPiece(dma) > 0
  BY <1>0 DEF FirstPiece
<1>2. ~(FirstPiece(dma) < length) /\ Pieces(dma, length) = 1
  <2>1. ASSUME FirstPiece(dma) < length PROVE (length - FirstPiece(dma) + TxSectors - 1) \div TxSectors >= 1
    <3>1. length - FirstPiece(dma) + TxSectors - 1 >= TxSectors
      BY <1>0, <1>1, <2>1
    <3> DEFINE x == length - FirstPiece(dma) + TxSectors - 1
    <3>2. x \in Nat /\ x >= TxSectors
      BY <1>0, <1>1, <3>1
    <3> HIDE DEF x
    <3>3. x \div TxSectors >= 1
      BY <1>0, <3>2
    <3> QED BY <3>3 DEF x
  <2>2. ASSUME FirstPiece(dma) < length PROVE FALSE
    <3>1. Pieces(dma, length) = 1 + (length - FirstPiece(dma) + TxSectors - 1) \div TxSectors
      BY <2>2, Zenon DEF Pieces
    <3>2. Pieces(dma, length) <= 1
      BY DEF length
    <3>3. (length - FirstPiece(dma) + TxSectors - 1) \div TxSectors \in Int
      BY <1>0, <1>1
    <3> QED BY <2>1, <2>2, <3>1, <3>2, <3>3
  <2> QED BY <2>2, Zenon DEF Pieces
<1>3. whole.size = length /\ whole.at = dma /\ whole.from = 0
  BY <1>0, <1>1, <1>2, MinOfTwo
<1>4. Trbs(dma, length) = [k \in 1..1 |-> whole]
  <2> DEFINE Body(f) == [k \in 1..1 |->
        IF k = 1 THEN whole
        ELSE [at |-> f[k - 1].at + 2 * f[k - 1].size,
              from |-> f[k - 1].from + f[k - 1].size,
              size |-> Min({TxSectors, length - f[k - 1].from - f[k - 1].size})]]
  <2>1. Trbs(dma, length) = CHOOSE f : f = Body(f)
    BY <1>2, Zenon DEF Trbs
  <2>2. \A k \in 1..1 : k = 1
    OBVIOUS
  <2>3. \A f : Body(f) = [k \in 1..1 |-> whole]
    BY <2>2, Zenon
  <2> HIDE DEF Body
  <2> QED BY <2>1, <2>3, Zenon
<1> HIDE DEF whole
<1>5. Range(Trbs(dma, length)) = {whole}
  <2>1. 1 \in 1..1 /\ \A k \in 1..1 : k = 1
    OBVIOUS
  <2> QED BY <1>4, <2>1, Zenon DEF Range
<1>6. \A i \in 1..length : dma + i - whole.at \in 1..whole.size /\ whole.from + dma + i - whole.at = i
  BY <1>0, <1>3
<1> DEFINE Covers(t, i) == dma + i - t.at \in 1..t.size
           At(i, trbs) == IF \E t \in trbs : Covers(t, i) /\ t.from + dma + i - t.at <= Len(blocks)
                          THEN LET t == CHOOSE u \in trbs : Covers(u, i) IN blocks[t.from + dma + i - t.at]
                          ELSE Old
           All(trbs) == [i \in 1..length |-> At(i, trbs)]
<1>7. Placed(dma, length, blocks) = All({whole})
  <2>1. Placed(dma, length, blocks) = All(Range(Trbs(dma, length)))
    BY Zenon DEF Placed
  <2> HIDE DEF All
  <2> QED BY <1>5, <2>1, Zenon
<1>8. \A i \in 1..length : At(i, {whole}) = blocks[i]
  <2> TAKE i \in 1..length
  <2>1. Covers(whole, i) /\ whole.from + dma + i - whole.at = i
    BY <1>6, Zenon
  <2>2. whole.from + dma + i - whole.at <= Len(blocks)
    BY <2>1 DEF length
  <2>3. (CHOOSE u \in {whole} : Covers(u, i)) = whole
    BY <2>1, Zenon
  <2> HIDE DEF Covers
  <2> QED BY <2>1, <2>2, <2>3, Zenon
<1> HIDE DEF At
<1>9. Placed(dma, length, blocks) = [i \in 1..length |-> blocks[i]]
  BY <1>7, <1>8, Zenon
<1>10. blocks = [i \in 1..length |-> blocks[i]]
  BY DEF length
<1> QED BY <1>9, <1>10, Zenon DEF length

LEMMA PartConstants ==
  /\ BlockSize \in Nat /\ BlockSize > 0 /\ StartSector \in Nat /\ NumSectors \in Nat
  /\ StartSector * BlockSize \in Nat
BY PartitionAssumption

LEMMA DivMod ==
  ASSUME NEW a \in Nat, NEW b \in Nat, b > 0
  PROVE  a \div b \in Nat /\ a % b \in Nat /\ a = b * (a \div b) + (a % b) /\ a % b < b
OBVIOUS

\* The bytes of a run of blocks are a run of addresses.
LEMMA BytesOfBlocks ==
  ASSUME NEW b \in Nat, NEW c \in Nat
  PROVE  /\ b * BlockSize \in Nat /\ c * BlockSize \in Nat
         /\ Bytes(Blocks(b, c)) = Blocks(b * BlockSize, c * BlockSize)
<1> DEFINE s == Blocks(b, c)
<1>1. BlockSize \in Nat /\ BlockSize > 0
  BY PartConstants
<1>2. Len(s) = c /\ \A i \in 1..c : s[i] = b + i - 1
  BY BlocksFacts
<1>3. b * BlockSize \in Nat /\ c * BlockSize \in Nat
  BY <1>1
<1> HIDE DEF s
<1> DEFINE Byte(i) == LET block == s[((i - 1) \div BlockSize) + 1]
                      IN IF block = Old THEN Old ELSE block * BlockSize + ((i - 1) % BlockSize)
<1>4. \A i \in 1..c * BlockSize : Byte(i) = b * BlockSize + i - 1
  <2> SUFFICES ASSUME NEW i \in 1..c * BlockSize PROVE Byte(i) = b * BlockSize + i - 1
    BY Zenon
  <2> DEFINE q == (i - 1) \div BlockSize  r == (i - 1) % BlockSize
  <2>1. i \in Nat /\ i - 1 \in Nat /\ i - 1 < c * BlockSize
    BY <1>3
  <2>2. q \in Nat /\ r \in Nat /\ i - 1 = BlockSize * q + r /\ r < BlockSize
    BY <1>1, <2>1
  <2> HIDE DEF q, r
  <2>3. q < c
    <3>1. SUFFICES ASSUME q >= c PROVE FALSE
      BY <2>2
    <3>2. BlockSize * q >= BlockSize * c
      BY <1>1, <2>2, <3>1
    <3> QED BY <1>1, <1>3, <2>1, <2>2, <3>2
  <2>4. s[q + 1] = b + q
    <3>1. q + 1 \in 1..c
      BY <2>2, <2>3
    <3> QED BY <1>2, <2>2, <3>1
  <2>5. s[q + 1] # Old
    BY <2>2, <2>4 DEF Old
  <2>6. Byte(i) = s[q + 1] * BlockSize + r
    BY <2>5, Zenon DEF q, r
  <2>7. (b + q) * BlockSize + r = b * BlockSize + i - 1
    BY <1>1, <2>1, <2>2
  <2> QED BY <2>4, <2>6, <2>7
<1>5. Bytes(s) = [i \in 1..c * BlockSize |-> Byte(i)]
  BY <1>2, Zenon DEF Bytes
<1> HIDE DEF Byte
<1>6. Bytes(s) = [i \in 1..c * BlockSize |-> b * BlockSize + i - 1]
  BY <1>4, <1>5, Zenon
<1> QED BY <1>3, <1>6, Zenon DEF s, Blocks

\* What is known of a partition and its read in progress.
Start == StartSector * BlockSize + part.offset
Read == Len(part.want) - part.len

PartType ==
  /\ DOMAIN part = {"offset", "reading", "waiting", "block", "skip", "len", "want", "got", "split",
                    "result", "reads", "seeks"}
  /\ part.offset \in Nat /\ part.block \in Nat /\ part.skip \in Nat /\ part.skip < BlockSize
  /\ part.len \in Nat /\ part.want \in Seq(Nat)

PartInv ==
  /\ part.waiting => part.reading
  /\ part.reading =>
       /\ part.len > 0 /\ part.len <= Len(part.want)
       /\ part.want = Blocks(Start, Len(part.want))
       /\ part.block * BlockSize + part.skip = Start + Read
       /\ ~late /\ ~part.split => part.got = Blocks(Start, Read)

\* The command is the caller's.
CommandInv ==
  pc \in Active \cup {"return"} =>
    io.cmd = call.at /\ (call.at = "READ_10" => io.blocks = Blocks(call.block, Chunk))

\* The loop of tegrabl_usbmsd_bdev_read_block.
Got(n) == ~late /\ ~call.split => call.got = Blocks(part.block, n)
LoopInv ==
  /\ part.waiting => call.at \in {"READ_10", "registered"}
  /\ call.at = "READ_10" =>
       /\ part.waiting /\ call.block >= part.block
       /\ call.block + call.count = part.block + Piece.count
       /\ Got(call.block - part.block)
  /\ call.at = "registered" /\ part.waiting /\ call.result # "error" => Got(Piece.count)

PInv == DInv /\ PartType /\ PartInv /\ CommandInv /\ LoopInv /\ ReadsBytes

\* A piece of tegrabl_blockdev_default_read ends at the end of a block, or of the
\* read.
LEMMA PieceFacts ==
  ASSUME PartType, part.len > 0
  PROVE  /\ Piece.count \in Nat /\ Piece.count > 0 /\ Piece.bytes \in Nat /\ Piece.bytes > 0
         /\ Piece.bytes <= part.len /\ Piece.count * BlockSize \in Nat
         /\ part.skip + Piece.bytes <= Piece.count * BlockSize
         /\ part.len > Piece.bytes => part.skip + Piece.bytes = Piece.count * BlockSize
<1>0. BlockSize \in Nat /\ BlockSize > 0 /\ part.skip \in Nat /\ part.skip < BlockSize /\ part.len \in Nat
  BY PartConstants, Zenon DEF PartType
<1>1. CASE part.skip # 0
  <2>1. Piece = [count |-> 1, bytes |-> Min({BlockSize - part.skip, part.len})]
    BY <1>1, Zenon DEF Piece
  <2>2. BlockSize - part.skip \in Nat
    BY <1>0
  <2> DEFINE m == Min({BlockSize - part.skip, part.len})
  <2>3. /\ m \in Nat /\ m <= BlockSize - part.skip /\ m <= part.len
        /\ m = BlockSize - part.skip \/ m = part.len
    BY <1>0, <2>2, MinOfTwo
  <2>4. Piece.count = 1 /\ Piece.bytes = m
    BY <2>1, Zenon
  <2> HIDE DEF m
  <2> QED BY <1>0, <2>3, <2>4
<1>2. CASE part.skip = 0 /\ part.len >= BlockSize
  <2> DEFINE q == part.len \div BlockSize  r == part.len % BlockSize
  <2>1. Piece.count = q /\ Piece.bytes = q * BlockSize
    BY <1>2, Zenon DEF Piece
  <2>2. q \in Nat /\ r \in Nat /\ part.len = BlockSize * q + r /\ r < BlockSize
    BY <1>0, DivMod, Zenon
  <2> HIDE DEF q, r
  <2>3. q > 0
    <3>1. q = 0 => BlockSize * q = 0
      BY <1>0
    <3> QED BY <1>0, <1>2, <2>2, <3>1
  <2>4. q * BlockSize \in Nat /\ q * BlockSize = BlockSize * q /\ q * BlockSize > 0
    BY <1>0, <2>2, <2>3
  <2>5. q * BlockSize <= part.len
    BY <1>0, <2>2, <2>4
  <2> QED BY <1>0, <1>2, <2>1, <2>2, <2>3, <2>4, <2>5
<1>3. CASE part.skip = 0 /\ ~(part.len >= BlockSize)
  <2>1. Piece.count = 1 /\ Piece.bytes = part.len
    BY <1>3, Zenon DEF Piece
  <2> QED BY <1>0, <1>3, <2>1
<1> QED BY <1>1, <1>2, <1>3, Zenon

\* A step that leaves the caller and the partition alone: late is never taken back.
LEMMA AheadInv ==
  ASSUME PartType, PartInv, LoopInv, ReadsBytes, UNCHANGED <<call, part>>, late => late'
  PROVE  PartType' /\ PartInv' /\ LoopInv' /\ ReadsBytes'
<1>1. Start' = Start /\ Read' = Read /\ Piece' = Piece
  BY Zenon DEF Start, Read, Piece
<1>2. PartType' /\ ReadsBytes'
  BY Zenon DEF PartType, ReadsBytes
<1>3. PartInv'
  BY <1>1, Zenon DEF PartInv
<1>4. LoopInv'
  BY <1>1, Zenon DEF LoopInv, Got
<1> QED BY <1>2, <1>3, <1>4, Zenon

LEMMA LateStays ==
  ASSUME StartCommand \/ HostStep \/ DeviceStep
  PROVE  (late => late') /\ call' = call
<1>1. StartCommand => (late => late') /\ call' = call
  BY Zenon DEF StartCommand, SendCbw
<1>2. HostStep => UNCHANGED <<call, late>>
  BY Zenon DEF HostStep, CbwTimeout, CbwSent, DataDone, GetCsw, CswDone, CswAgain, Judge, host
<1>3. DeviceStep /\ ~TakeCbw => UNCHANGED <<call, late>>
  BY Zenon DEF DeviceStep, SendData, SendStatus, Stall, StallAgain, OtherEvent, host
<1>4. TakeCbw => (late => late') /\ call' = call
  BY Zenon DEF TakeCbw, host
<1>5. ASSUME UNCHANGED <<call, late>> PROVE (late => late') /\ call' = call
  BY <1>5
<1> QED BY <1>1, <1>2, <1>3, <1>4, <1>5, Zenon

LEMMA CommandStep ==
  ASSUME DType, CommandInv, StartCommand \/ HostStep \/ DeviceStep
  PROVE  CommandInv'
<1>1. CASE StartCommand
  <2>1. /\ io'.cmd = call.at /\ (call.at = "READ_10" => io'.blocks = Blocks(call.block, Chunk))
        /\ call' = call
    BY <1>1, StartFacts, Zenon DEF StartCommand
  <2>2. Chunk' = Chunk
    BY <2>1, Zenon DEF Chunk
  <2> QED BY <2>1, <2>2, Zenon DEF CommandInv
<1>2. CASE HostStep \/ DeviceStep
  <2>1. UNCHANGED <<call, io>> /\ (pc' \in Active \cup {"return"} => pc \in Active \cup {"return"})
    BY <1>2, Zenon DEF HostStep, CbwTimeout, CbwSent, DataDone, GetCsw, CswDone, CswAgain, Judge, Active,
             DeviceStep, TakeCbw, SendData, SendStatus, Stall, StallAgain, OtherEvent, host
  <2>2. Chunk' = Chunk
    BY <2>1, Zenon DEF Chunk
  <2> QED BY <2>1, <2>2, Zenon DEF CommandInv
<1> QED BY <1>1, <1>2, Zenon

\* A chunk was read: the blocks that its transfer placed follow the ones read so
\* far.
LEMMA ChunkInv ==
  ASSUME PInv, ChunkDone, UNCHANGED part
  PROVE  LoopInv'
<1>0. DInv /\ CallType /\ PartType /\ LoopInv /\ HostType /\ pc = "return" /\ call.at = "READ_10" /\ late' = late
  BY Zenon DEF PInv, DInv, DType, HostType, ChunkDone, Caller
<1>1. /\ part.waiting /\ call.block >= part.block /\ call.block + call.count = part.block + Piece.count
      /\ Got(call.block - part.block) /\ Piece' = Piece /\ part' = part
  BY <1>0, Zenon DEF LoopInv, Piece
<1>2. /\ Chunk \in Nat /\ Chunk <= call.count /\ call.block \in Nat /\ call.count \in Nat /\ call.dma \in Nat
      /\ part.block \in Nat /\ Piece.count \in Nat
  <2>1. part.len > 0
    BY <1>1, Zenon DEF PInv, PartInv
  <2> QED BY <1>0, <2>1, ChunkFacts, PieceFacts, Zenon DEF CallType, PartType
<1>3. CASE err # "ok"
  <2>1. call' = [call EXCEPT !.at = "registered", !.result = "error"]
    BY <1>3, Zenon DEF ChunkDone, Caller, To
  <2>2. call'.at = "registered" /\ call'.result = "error"
    BY <1>0, <2>1, Zenon DEF CallType
  <2> QED BY <2>2, Zenon DEF LoopInv
<1>4. CASE err = "ok"
  <2>1. call' = [call EXCEPT !.at = IF call.count = Chunk THEN "registered" ELSE "READ_10",
                             !.result = IF call.count = Chunk THEN "ok" ELSE "none",
                             !.block = @ + Chunk, !.count = @ - Chunk, !.dma = @ + Chunk,
                             !.split = @ \/ Pieces(call.dma, Chunk) > 1,
                             !.got = @ \o buf.blocks]
    BY <1>4, Zenon DEF ChunkDone, Caller
  <2>2. /\ call'.at = (IF call.count = Chunk THEN "registered" ELSE "READ_10")
        /\ call'.block = call.block + Chunk /\ call'.count = call.count - Chunk
        /\ call'.split = (call.split \/ Pieces(call.dma, Chunk) > 1)
        /\ call'.got = call.got \o buf.blocks
    BY <1>0, <2>1, Zenon DEF CallType
  <2>0. call.block - part.block \in Nat
    BY <1>1, <1>2
  <2> PICK n \in Nat : n = call.block - part.block
    BY <2>0, Zenon
  <2>3. n \in Nat /\ n + Chunk \in Nat /\ call.block = part.block + n
    BY <1>1, <1>2
  <2>4. Got(n)
    BY <1>1, Zenon
  <2>5. ASSUME ~late, ~call'.split PROVE call'.got = Blocks(part.block, n + Chunk)
    <3>1. ~call.split /\ ~(Pieces(call.dma, Chunk) > 1)
      BY <2>2, <2>5, Zenon
    <3>2. Filled /\ io.cmd = "READ_10" /\ io.blocks = Blocks(call.block, Chunk)
      BY <1>0, <1>4, <2>5, Zenon DEF PInv, DInv, AcceptInv, CommandInv
    <3>3. Blocks(call.block, Chunk) \in Seq(Nat) /\ Len(Blocks(call.block, Chunk)) = Chunk
      BY <1>2, BlocksFacts, Zenon
    <3>4. Pieces(call.dma, Chunk) <= 1
      <4>1. Pieces(call.dma, Chunk) \in Int
        <5>1. TxSectors \in Nat /\ TxSectors > 0
          BY USBAssumption
        <5>2. FirstPiece(call.dma) \in Int
          BY <1>2, <5>1 DEF FirstPiece
        <5>3. (Chunk - FirstPiece(call.dma) + TxSectors - 1) \div TxSectors \in Int
          BY <1>2, <5>1, <5>2
        <5> QED BY <5>3 DEF Pieces
      <4> QED BY <3>1, <4>1
    <3>5. buf.blocks = Blocks(call.block, Chunk)
      <4>1. buf.blocks = Placed(call.dma, Len(io.blocks), io.blocks)
        BY <3>2, Zenon DEF Filled
      <4> QED BY <1>2, <3>2, <3>3, <3>4, <4>1, PlacedWhole, Zenon
    <3>6. call.got = Blocks(part.block, n)
      BY <2>4, <2>5, <3>1, Zenon DEF Got
    <3>7. call'.got = Blocks(part.block, n) \o Blocks(part.block + n, Chunk)
      BY <2>2, <2>3, <3>5, <3>6, Zenon
    <3>8. Blocks(part.block, n) \o Blocks(part.block + n, Chunk) = Blocks(part.block, n + Chunk)
      <4>1. part.block \in Nat /\ n \in Nat /\ Chunk \in Nat
        BY <1>2, Zenon
      <4> QED BY <4>1, BlocksJoin, Zenon
    <3> QED BY <3>7, <3>8, Zenon
  <2>6. ~late' /\ ~call'.split => call'.got = Blocks(part'.block, n + Chunk)
    BY <1>0, <1>1, <2>5, Zenon
  <2>7. CASE call.count = Chunk
    <3>1. n + Chunk = Piece.count
      BY <1>1, <1>2, <2>3, <2>7
    <3>2. call'.at = "registered"
      BY <2>2, <2>7, Zenon
    <3>3. Got(Piece.count)'
      BY <1>1, <2>6, <3>1, Zenon DEF Got
    <3> QED BY <1>1, <3>2, <3>3, Zenon DEF LoopInv
  <2>8. CASE call.count # Chunk
    <3>1. call'.at = "READ_10"
      BY <2>2, <2>8, Zenon
    <3>2. /\ call'.block >= part.block /\ call'.block + call'.count = part.block + Piece.count
          /\ call'.block - part.block = n + Chunk
      <4>1. call'.block = call.block + Chunk /\ call'.count = call.count - Chunk
        BY <2>2, Zenon
      <4>2. call.block + call.count = part.block + Piece.count
        BY <1>1, Zenon
      <4> QED BY <1>2, <2>3, <4>1, <4>2
    <3>3. Got(call.block - part.block)'
      BY <1>1, <2>6, <3>2, Zenon DEF Got
    <3> QED BY <1>1, <3>1, <3>2, <3>3, Zenon DEF LoopInv
  <2> QED BY <2>7, <2>8, Zenon
<1> QED BY <1>3, <1>4, Zenon

LEMMA DriverPart ==
  ASSUME PInv, DriverNext, UNCHANGED part
  PROVE  PInv'
<1>0. DInv /\ DType /\ HostType /\ PartType /\ PartInv /\ CommandInv /\ LoopInv /\ ReadsBytes
  BY Zenon DEF PInv, DInv, DType
<1>1. DInv'
  BY <1>0, DriverInv, Zenon
<1>2. CASE StartCommand \/ HostStep \/ DeviceStep
  <2>1. (late => late') /\ UNCHANGED <<call, part>>
    BY <1>2, LateStays, Zenon
  <2> QED BY <1>0, <1>1, <1>2, <2>1, AheadInv, CommandStep, Zenon DEF PInv
<1>3. CASE CallerStep
  <2>1. /\ pc' = "call" /\ late' = late
        /\ call'.at = "READ_10" => ChunkDone
    BY <1>0, <1>3, CallerFacts, CallerCount, Zenon
  <2>2. CommandInv'
    BY <2>1, Zenon DEF CommandInv, Active
  <2>3. Start' = Start /\ Read' = Read
    BY Zenon DEF Start, Read
  <2>4. PartType' /\ PartInv' /\ ReadsBytes'
    BY <1>0, <2>1, <2>3, Zenon DEF PartType, PartInv, ReadsBytes
  <2>5. LoopInv'
    <3>1. CASE ChunkDone
      BY <3>1, ChunkInv, Zenon
    <3>2. CASE ~ChunkDone
      <4>1. call.at \notin {"READ_10", "registered"}
        BY <1>3, <3>2, Zenon DEF CallerStep, InquiryDone, TestUnitReadyDone, RequestSenseDone, ReadCapacityDone
      <4>2. ~part.waiting /\ call'.at # "READ_10"
        BY <1>0, <2>1, <3>2, <4>1, Zenon DEF LoopInv
      <4> QED BY <4>2, Zenon DEF LoopInv
    <3> QED BY <3>1, <3>2, Zenon
  <2> QED BY <1>1, <2>2, <2>4, <2>5, Zenon DEF PInv
<1> QED BY <1>2, <1>3, Zenon DEF DriverNext, HostStep, CallerStep, DeviceStep

\* A step of the partition manager between two commands.
LEMMA SameDriver ==
  ASSUME PInv, UNCHANGED vars
  PROVE  DInv' /\ CommandInv' /\ late' = late /\ call' = call
<1>1. UNCHANGED <<pc, call, io, tag, block_count, err, buf, csw, comp_code, rereads, out, in, halted, events,
                  dev, stalled, faults, late, healthy>>
  BY Zenon DEF vars, host, memory, controller, device
<1>2. /\ (Filled' <=> Filled) /\ (Untaken' <=> Untaken) /\ (Mute' <=> Mute) /\ Chunk' = Chunk
  BY <1>1, Zenon DEF Filled, Untaken, Mute, Chunk
<1>3. Settled' <=> Settled
  BY <1>1, <1>2, Zenon DEF Settled
<1>4. Need' = Need /\ ToPost' = ToPost
  BY <1>1, <1>2, Zenon DEF Need, ToPost
<1>5. DType'
  BY <1>1, Zenon DEF PInv, DInv, DType, HostType, CallType, RingType
<1>6. BaseInv'
  BY <1>1, <1>2, Zenon DEF PInv, DInv, BaseInv
<1>7. KeptInv'
  BY <1>1, <1>2, <1>4, Zenon DEF PInv, DInv, KeptInv, Kept
<1>8. RereadInv'
  BY <1>1, <1>2, Zenon DEF PInv, DInv, RereadInv, Reread, GivenUp
<1>9. CswInv'
  BY <1>1, <1>2, <1>3, Zenon DEF PInv, DInv, CswInv
<1>10. AcceptInv'
  BY <1>1, <1>2, <1>3, Zenon DEF PInv, DInv, AcceptInv
<1>11. CommandInv'
  BY <1>1, <1>2, Zenon DEF PInv, CommandInv
<1> QED BY <1>1, <1>5, <1>6, <1>7, <1>8, <1>9, <1>10, <1>11, Zenon DEF DInv

Ended(offset, result, reads, seeks) ==
  [offset |-> offset, reading |-> FALSE, waiting |-> FALSE, block |-> 0, skip |-> 0, len |-> 0,
   want |-> <<>>, got |-> <<>>, split |-> FALSE, result |-> result, reads |-> reads, seeks |-> seeks]

LEMMA NotReadingInv ==
  ASSUME PInv, UNCHANGED vars, call.at # "READ_10",
         NEW offset \in Nat, NEW reads, NEW seeks, NEW result \in {"none", "error"},
         \/ part' = Ended(offset, result, reads, seeks)
         \/ part' = [NotReading(offset, reads, seeks) EXCEPT !.result = result]
  PROVE  PInv'
<1>1. DInv' /\ CommandInv' /\ call' = call
  BY SameDriver, Zenon
<1>2. part' = Ended(offset, result, reads, seeks)
  BY Zenon DEF NotReading, Ended
<1>3. /\ part'.offset = offset /\ ~part'.reading /\ ~part'.waiting /\ part'.block = 0 /\ part'.skip = 0
      /\ part'.len = 0 /\ part'.want = <<>> /\ part'.result = result
      /\ DOMAIN part' = {"offset", "reading", "waiting", "block", "skip", "len", "want", "got", "split",
                    "result", "reads", "seeks"}
  <2>1. /\ part'.offset = offset /\ ~part'.reading /\ ~part'.waiting /\ part'.block = 0 /\ part'.skip = 0
        /\ part'.len = 0 /\ part'.want = <<>> /\ part'.result = result
    BY <1>2, Zenon DEF Ended
  <2>2. DOMAIN part' = {"offset", "reading", "waiting", "block", "skip", "len", "want", "got", "split",
                    "result", "reads", "seeks"}
    BY <1>2 DEF Ended
  <2> QED BY <2>1, <2>2, Zenon
<1>4. 0 \in Nat /\ 0 < BlockSize /\ <<>> \in Seq(Nat)
  BY PartConstants
<1>5. PartType'
  BY <1>3, <1>4, Zenon DEF PartType
<1>6. PartInv' /\ ReadsBytes'
  BY <1>3, Zenon DEF PartInv, ReadsBytes
<1>7. LoopInv'
  BY <1>1, <1>3, Zenon DEF LoopInv
<1> QED BY <1>1, <1>5, <1>6, <1>7, Zenon DEF PInv

LEMMA SeekInv ==
  ASSUME PInv, partition_seek
  PROVE  PInv'
<1>1. total_size \in Nat
  BY PartConstants DEF total_size
<1>2. PICK offset \in 0..total_size : part' = NotReading(offset, part.reads, part.seeks + 1)
  BY Zenon DEF partition_seek
<1>3. part' = Ended(offset, "none", part.reads, part.seeks + 1)
  BY <1>2, Zenon DEF NotReading, Ended
<1>4. UNCHANGED vars /\ call.at # "READ_10"
  BY Zenon DEF partition_seek, Idle
<1>5. offset \in Nat
  BY <1>1
<1> QED BY <1>3, <1>4, <1>5, NotReadingInv, Zenon

\* A read begins: its first block and the place of its first byte in it.
LEMMA ReadInv ==
  ASSUME PInv, partition_read
  PROVE  PInv'
<1>0. /\ UNCHANGED vars /\ call.at = "registered" /\ ~part.reading /\ ~part.waiting /\ PartType
  BY Zenon DEF partition_read, Idle, PInv, PartInv
<1>1. total_size \in Nat /\ BlockSize \in Nat /\ BlockSize > 0 /\ StartSector \in Nat
  BY PartConstants DEF total_size
<1>2. PICK num_bytes \in 1..total_size :
        LET offset == part.offset + StartSector * BlockSize
        IN part' = IF total_size < num_bytes + part.offset \/ offset + num_bytes > block_count * BlockSize
                   THEN [NotReading(part.offset, part.reads + 1, part.seeks) EXCEPT !.result = "error"]
                   ELSE [part EXCEPT !.reading = TRUE, !.reads = @ + 1, !.result = "none",
                                     !.block = offset \div BlockSize, !.skip = offset % BlockSize,
                                     !.len = num_bytes, !.got = <<>>, !.split = FALSE,
                                     !.want = [i \in 1..num_bytes |-> offset + i - 1]]
  BY Zenon DEF partition_read
<1> DEFINE first == part.offset + StartSector * BlockSize
<1>3. num_bytes \in Nat /\ num_bytes > 0 /\ part.offset \in Nat /\ first \in Nat
  BY <1>0, <1>1 DEF PartType
<1>4. CASE part' = [NotReading(part.offset, part.reads + 1, part.seeks) EXCEPT !.result = "error"]
  BY <1>0, <1>3, <1>4, NotReadingInv, Zenon
<1>5. CASE part' = [part EXCEPT !.reading = TRUE, !.reads = @ + 1, !.result = "none",
                                !.block = first \div BlockSize, !.skip = first % BlockSize,
                                !.len = num_bytes, !.got = <<>>, !.split = FALSE,
                                !.want = [i \in 1..num_bytes |-> first + i - 1]]
  <2>1. /\ DOMAIN part' = DOMAIN part /\ part'.offset = part.offset /\ part'.waiting = part.waiting
        /\ part'.block = first \div BlockSize /\ part'.skip = first % BlockSize /\ part'.len = num_bytes
        /\ part'.got = <<>> /\ part'.want = Blocks(first, num_bytes) /\ part'.result = "none"
    BY <1>0, <1>5, Zenon DEF PartType, Blocks
  <2>2. Start' = first
    <3>1. Start' = StartSector * BlockSize + part.offset
      BY <2>1, Zenon DEF Start
    <3> QED BY <1>1, <1>3, <3>1
  <2> HIDE DEF first
  <2>3. /\ Blocks(first, num_bytes) \in Seq(Nat) /\ Len(Blocks(first, num_bytes)) = num_bytes
    BY <1>3, BlocksFacts, Zenon
  <2>4. Read' = 0
    <3>1. Read' = num_bytes - num_bytes
      BY <2>1, <2>3, Zenon DEF Read
    <3> QED BY <1>3, <3>1
  <2>5. <<>> = Blocks(first, 0)
    BY <1>3, BlocksFacts
  <2>6. /\ first \div BlockSize \in Nat /\ first % BlockSize \in Nat /\ first % BlockSize < BlockSize
        /\ first = BlockSize * (first \div BlockSize) + (first % BlockSize)
    BY <1>1, <1>3, DivMod, Zenon
  <2>7. part'.block * BlockSize + part'.skip = Start' + Read'
    <3> DEFINE q == first \div BlockSize  r == first % BlockSize
    <3>1. q \in Nat /\ r \in Nat /\ first = BlockSize * q + r
      BY <2>6, Zenon
    <3>2. part'.block = q /\ part'.skip = r
      BY <2>1, Zenon
    <3> HIDE DEF q, r
    <3> QED BY <1>1, <1>3, <2>2, <2>4, <3>1, <3>2
  <2>8. PartType'
    BY <1>0, <1>3, <2>1, <2>3, <2>6, Zenon DEF PartType
  <2>9. num_bytes <= num_bytes
    BY <1>3
  <2>10. PartInv'
    BY <1>0, <1>3, <2>1, <2>2, <2>3, <2>4, <2>5, <2>7, <2>9, Zenon DEF PartInv
  <2>11. DInv' /\ CommandInv' /\ call' = call
    BY <1>0, SameDriver, Zenon
  <2>12. LoopInv'
    BY <1>0, <2>1, <2>11, Zenon DEF LoopInv
  <2>13. ReadsBytes'
    BY <2>1, Zenon DEF ReadsBytes
  <2> QED BY <2>8, <2>10, <2>11, <2>12, <2>13, Zenon DEF PInv
<1> QED BY <1>2, <1>4, <1>5, Zenon

\* A piece is asked of the driver.
LEMMA ReadPieceInv ==
  ASSUME PInv, ReadPiece
  PROVE  PInv'
<1>0. DInv /\ DType /\ HostType /\ CallType /\ PartType /\ PartInv /\ ReadsBytes /\ part.reading
  BY Zenon DEF PInv, DInv, DType, HostType, ReadPiece
<1>1. PICK dma \in IF Piece.count = 1 THEN {0} ELSE 0..TxSectors - 1 : ReadBlock(part.block, Piece.count, dma)
  BY Zenon DEF ReadPiece
<1>2. dma \in Nat
  <2>1. 0 \in Nat /\ \A d \in 0..TxSectors - 1 : d \in Nat
    BY USBAssumption
  <2> QED BY <2>1, Zenon
<1>3. Piece.count \in Nat /\ Piece.count > 0 /\ part.block \in Nat
  BY <1>0, PieceFacts, Zenon DEF PartInv, PartType
<1>4. /\ pc = "call" /\ pc' = "call" /\ CallType'
      /\ UNCHANGED <<io, tag, err, memory, controller, device, faults, late, healthy>>
  BY <1>0, <1>1, <1>2, <1>3, ReadBlockFacts, Zenon
<1>5. /\ part' = [part EXCEPT !.waiting = TRUE] /\ late' = late
      /\ \/ call' = [call EXCEPT !.result = "error"]
         \/ call' = [call EXCEPT !.at = "READ_10", !.block = part.block, !.count = Piece.count,
                              !.dma = dma, !.split = FALSE, !.got = <<>>, !.result = "none"]
  BY <1>1, <1>4, Zenon DEF ReadPiece, ReadBlock, Caller
<1>6. call.at = "registered"
  BY <1>1, Zenon DEF ReadBlock
<1>7. \/ call'.at = "registered" /\ call'.result = "error"
      \/ /\ call'.at = "READ_10" /\ call'.block = part.block /\ call'.count = Piece.count
         /\ call'.got = <<>>
  BY <1>0, <1>5, <1>6, Zenon DEF CallType
<1>8. DInv'
  <2>1. UNCHANGED <<io, tag, memory, controller, device, late, healthy>>
    BY <1>4, Zenon
  <2>2. DType'
    BY <1>0, <1>4, <2>1, SameRest, Zenon
  <2>3. pc \notin Active /\ UNCHANGED <<io, tag, memory, controller, device, late>>
    BY <1>4, Zenon DEF Active
  <2>4. call'.at = "READ_10" => call'.count > 0
    BY <1>3, <1>7, Zenon
  <2> QED BY <1>0, <1>4, <2>2, <2>3, <2>4, CallerInv, Zenon
<1>9. /\ DOMAIN part' = DOMAIN part /\ part'.waiting /\ part'.reading = part.reading
      /\ part'.offset = part.offset /\ part'.block = part.block /\ part'.skip = part.skip
      /\ part'.len = part.len /\ part'.want = part.want /\ part'.got = part.got
      /\ part'.split = part.split /\ part'.result = part.result
  BY <1>0, <1>5, Zenon DEF PartType
<1>10. Start' = Start /\ Read' = Read /\ Piece' = Piece
  BY <1>9, Zenon DEF Start, Read, Piece
<1>11. PartType'
  BY <1>0, <1>9, Zenon DEF PartType
<1>12. PartInv'
  BY <1>0, <1>5, <1>9, <1>10, Zenon DEF PartInv
<1>13. ReadsBytes'
  BY <1>0, <1>5, <1>9, Zenon DEF ReadsBytes
<1>14. CommandInv'
  BY <1>4, Zenon DEF CommandInv, Active
<1>15. LoopInv'
  <2>1. CASE call'.at = "registered" /\ call'.result = "error"
    BY <2>1, Zenon DEF LoopInv
  <2>2. CASE /\ call'.at = "READ_10" /\ call'.block = part.block /\ call'.count = Piece.count
             /\ call'.got = <<>>
    <3>1. call'.block >= part'.block /\ call'.block - part'.block = 0
      BY <1>3, <1>9, <2>2
    <3>2. <<>> = Blocks(part.block, 0)
      BY <1>3, BlocksFacts
    <3>3. Got(call.block - part.block)'
      BY <1>9, <2>2, <3>1, <3>2, Zenon DEF Got
    <3> QED BY <1>9, <1>10, <2>2, <3>1, <3>3, Zenon DEF LoopInv
  <2> QED BY <1>7, <2>1, <2>2, Zenon
<1> QED BY <1>8, <1>11, <1>12, <1>13, <1>14, <1>15, Zenon DEF PInv

\* A piece was read: its bytes follow the ones read so far, and the next one begins
\* with a block.
LEMMA PieceDoneInv ==
  ASSUME PInv, PieceDone
  PROVE  PInv'
<1>0. /\ PartType /\ PartInv /\ LoopInv /\ UNCHANGED vars /\ part.waiting /\ part.reading
      /\ call.at = "registered" /\ part.len > 0 /\ part.len <= Len(part.want)
  BY Zenon DEF PInv, PartInv, PieceDone
<1>1. /\ DInv' /\ CommandInv' /\ call' = call /\ late' = late
  BY <1>0, SameDriver, Zenon
<1>2. CASE call.result = "error"
  <2>1. part' = [NotReading(part.offset, part.reads, part.seeks) EXCEPT !.result = "error"]
    BY <1>2, Zenon DEF PieceDone
  <2>2. part.offset \in Nat /\ call.at # "READ_10"
    BY <1>0, Zenon DEF PartType
  <2> QED BY <1>0, <2>1, <2>2, NotReadingInv, Zenon
<1>3. CASE call.result # "error"
  <2> DEFINE more == part.len > Piece.bytes
             read == SubSeq(Bytes(call.got), part.skip + 1, part.skip + Piece.bytes)
  <2>1. /\ DOMAIN part' = DOMAIN part /\ ~part'.waiting /\ (part'.reading <=> more)
        /\ part'.result = (IF more THEN "none" ELSE "ok") /\ part'.got = part.got \o read
        /\ part'.split = (part.split \/ call.split) /\ part'.skip = 0
        /\ part'.block = part.block + Piece.count /\ part'.len = part.len - Piece.bytes
        /\ part'.want = part.want
        /\ part'.offset = IF more THEN part.offset ELSE part.offset + Len(part.want)
    <3>1. part' = [part EXCEPT
                     !.waiting = FALSE, !.reading = more,
                     !.result = IF more THEN "none" ELSE "ok",
                     !.got = @ \o read, !.split = @ \/ call.split,
                     !.skip = 0, !.block = @ + Piece.count, !.len = @ - Piece.bytes,
                     !.offset = IF more THEN @ ELSE @ + Len(part.want)]
      BY <1>3, Zenon DEF PieceDone
    <3> HIDE DEF more, read
    <3> QED BY <1>0, <3>1, Zenon DEF PartType
  <2>2. /\ Piece.count \in Nat /\ Piece.bytes \in Nat /\ Piece.bytes > 0 /\ Piece.bytes <= part.len
        /\ Piece.count * BlockSize \in Nat /\ part.skip + Piece.bytes <= Piece.count * BlockSize
    BY <1>0, PieceFacts, Zenon
  <2>3. /\ part.skip \in Nat /\ part.block \in Nat /\ part.len \in Nat /\ part.offset \in Nat
        /\ part.want \in Seq(Nat) /\ BlockSize \in Nat /\ BlockSize > 0 /\ StartSector \in Nat
        /\ part.len <= Len(part.want) /\ 0 \in Nat /\ 0 < BlockSize
    BY <1>0, PartConstants, Zenon DEF PartType
  <2>4. /\ Len(part.want) \in Nat /\ Read \in Nat /\ Start \in Nat
    <3>1. Len(part.want) \in Nat
      BY <2>3
    <3>2. Read \in Nat
      <4>1. part.len \in Nat /\ part.len <= Len(part.want)
        BY <2>3, Zenon
      <4> QED BY <3>1, <4>1 DEF Read
    <3>3. Start \in Nat
      <4>1. part.offset \in Nat /\ StartSector * BlockSize \in Nat
        BY <2>3, PartConstants, Zenon
      <4> QED BY <4>1 DEF Start
    <3> QED BY <3>1, <3>2, <3>3, Zenon
  <2>5. part.block * BlockSize + part.skip = Start + Read /\ part.want = Blocks(Start, Len(part.want))
    BY <1>0, Zenon DEF PartInv
  <2> HIDE DEF more, read
  <2>6. ASSUME ~late, ~part'.split PROVE part'.got = Blocks(Start, Read + Piece.bytes)
    <3>1. ~part.split /\ ~call.split
      BY <2>1, <2>6, Zenon
    <3>2. call.got = Blocks(part.block, Piece.count) /\ part.got = Blocks(Start, Read)
      BY <1>0, <1>3, <2>6, <3>1, Zenon DEF LoopInv, Got, PartInv
    <3>3. part.block * BlockSize \in Nat /\ Bytes(call.got) = Blocks(part.block * BlockSize, Piece.count * BlockSize)
      BY <2>2, <2>3, <3>2, BytesOfBlocks, Zenon
    <3>4. read = Blocks(part.block * BlockSize + part.skip, Piece.bytes)
      <4>1. read = SubSeq(Blocks(part.block * BlockSize, Piece.count * BlockSize),
                          part.skip + 1, part.skip + Piece.bytes)
        BY <3>3, Zenon DEF read
      <4>2. /\ part.block * BlockSize \in Nat /\ Piece.count * BlockSize \in Nat /\ part.skip \in Nat
            /\ Piece.bytes \in Nat /\ part.skip + Piece.bytes <= Piece.count * BlockSize
        BY <2>2, <2>3, <3>3, Zenon
      <4>3. SubSeq(Blocks(part.block * BlockSize, Piece.count * BlockSize),
                   part.skip + 1, part.skip + Piece.bytes)
              = Blocks(part.block * BlockSize + part.skip, Piece.bytes)
        <5> DEFINE a == part.block * BlockSize  n == Piece.count * BlockSize
        <5>1. a \in Nat /\ n \in Nat /\ part.skip \in Nat /\ Piece.bytes \in Nat /\ part.skip + Piece.bytes <= n
          BY <4>2, Zenon
        <5> HIDE DEF a, n
        <5>2. SubSeq(Blocks(a, n), part.skip + 1, part.skip + Piece.bytes) = Blocks(a + part.skip, Piece.bytes)
          <6>1. \A i \in Nat : \A m \in Nat :
                  i + m <= n => SubSeq(Blocks(a, n), i + 1, i + m) = Blocks(a + i, m)
            BY <5>1, BlocksPart, Zenon
          <6> QED BY <5>1, <6>1, Zenon
        <5> QED BY <5>2, Zenon DEF a, n
      <4> QED BY <4>1, <4>3, Zenon
    <3>5. part'.got = Blocks(Start, Read) \o Blocks(Start + Read, Piece.bytes)
      BY <2>1, <2>5, <3>2, <3>4, Zenon
    <3>6. Blocks(Start, Read) \o Blocks(Start + Read, Piece.bytes) = Blocks(Start, Read + Piece.bytes)
      <4>1. Start \in Nat /\ Read \in Nat /\ Piece.bytes \in Nat
        BY <2>2, <2>4, Zenon
      <4>2. \A n \in Nat : \A m \in Nat :
              Blocks(Start, n) \o Blocks(Start + n, m) = Blocks(Start, n + m)
        BY <4>1, BlocksJoin, Zenon
      <4> QED BY <4>1, <4>2, Zenon
    <3> QED BY <3>5, <3>6, Zenon
  <2>7. PartType'
    <3>1. part'.block \in Nat /\ part'.len \in Nat /\ part'.skip \in Nat /\ part'.skip < BlockSize
      <4>1. part.block + Piece.count \in Nat /\ part.len - Piece.bytes \in Nat
        <5>1. /\ part.block \in Nat /\ Piece.count \in Nat /\ part.len \in Nat /\ Piece.bytes \in Nat
              /\ Piece.bytes <= part.len
          BY <2>2, <2>3, Zenon
        <5> QED BY <5>1
      <4> QED BY <2>1, <2>3, <4>1, Zenon
    <3>2. part'.offset \in Nat
      <4>1. part.offset + Len(part.want) \in Nat
        BY <2>3, <2>4
      <4> QED BY <2>1, <2>3, <4>1, Zenon
    <3> QED BY <1>0, <2>1, <2>3, <3>1, <3>2, Zenon DEF PartType
  <2>8. LoopInv'
    BY <1>0, <1>1, <2>1, Zenon DEF LoopInv
  <2>9. CASE more
    <3>1. Start' = Start
      BY <2>1, <2>9, Zenon DEF Start
    <3>2. Read' = Read + Piece.bytes
      <4>1. Read' = Len(part.want) - (part.len - Piece.bytes)
        BY <2>1, Zenon DEF Read
      <4>2. /\ part.len \in Nat /\ Piece.bytes \in Nat /\ Piece.bytes <= part.len /\ Len(part.want) \in Nat
        BY <2>2, <2>3, <2>4, Zenon
      <4> QED BY <4>1, <4>2 DEF Read
    <3>3. part'.block * BlockSize + part'.skip = Start + (Read + Piece.bytes)
      <4>1. part'.block = part.block + Piece.count /\ part'.skip = 0
        BY <2>1, Zenon
      <4>2. (part.block + Piece.count) * BlockSize = part.block * BlockSize + Piece.count * BlockSize
        BY <2>2, <2>3
      <4>3. part.skip + Piece.bytes = Piece.count * BlockSize
        BY <1>0, <2>9, PieceFacts, Zenon DEF more
      <4>4. part.block * BlockSize \in Nat
        BY <2>3
      <4> DEFINE a == part.block * BlockSize  n == Piece.count * BlockSize
      <4>5. a \in Nat /\ part.skip \in Nat /\ Piece.bytes \in Nat /\ part.skip + Piece.bytes = n
        BY <2>2, <2>3, <4>3, <4>4, Zenon
      <4>6. part'.block * BlockSize + part'.skip = a + n + 0 /\ a + part.skip = Start + Read
        BY <2>5, <4>1, <4>2, Zenon
      <4> HIDE DEF a, n
      <4>7. a + n + 0 = Start + (Read + Piece.bytes)
        <5>1. a + part.skip = Start + Read /\ n = part.skip + Piece.bytes
          BY <4>5, <4>6, Zenon
        <5>2. a \in Nat /\ part.skip \in Nat /\ Piece.bytes \in Nat /\ Start \in Nat /\ Read \in Nat
          BY <2>4, <4>5, Zenon
        <5> QED BY <5>1, <5>2
      <4> QED BY <4>6, <4>7, Zenon
    <3>4. part'.len > 0 /\ part'.len <= Len(part'.want)
      <4>1. part'.len = part.len - Piece.bytes /\ part'.want = part.want
        BY <2>1, Zenon
      <4>2. part.len > Piece.bytes
        BY <2>9, Zenon DEF more
      <4>3. /\ part.len \in Nat /\ Piece.bytes \in Nat /\ Len(part.want) \in Nat /\ part.len <= Len(part.want)
        BY <2>2, <2>3, <2>4, Zenon
      <4> QED BY <4>1, <4>2, <4>3
    <3>5. PartInv'
      BY <1>1, <2>1, <2>5, <2>6, <3>1, <3>2, <3>3, <3>4, Zenon DEF PartInv
    <3>6. ReadsBytes'
      BY <2>1, <2>9, Zenon DEF ReadsBytes
    <3> QED BY <1>1, <2>7, <2>8, <3>5, <3>6, Zenon DEF PInv
  <2>10. CASE ~more
    <3>1. Read + Piece.bytes = Len(part.want)
      <4>1. ~(part.len > Piece.bytes)
        BY <2>10, Zenon DEF more
      <4>2. /\ part.len \in Nat /\ Piece.bytes \in Nat /\ Piece.bytes <= part.len /\ Len(part.want) \in Nat
        BY <2>2, <2>3, <2>4, Zenon
      <4> QED BY <4>1, <4>2 DEF Read
    <3>2. ReadsBytes'
      BY <1>1, <2>1, <2>5, <2>6, <3>1, Zenon DEF ReadsBytes
    <3>3. PartInv'
      BY <2>1, <2>10, Zenon DEF PartInv
    <3> QED BY <1>1, <2>7, <2>8, <3>2, <3>3, Zenon DEF PInv
  <2> QED BY <2>9, <2>10, Zenon
<1> QED BY <1>2, <1>3, Zenon

LEMMA InitType ==
  ASSUME PartInit
  PROVE  DType
<1>0. Init
  BY Zenon DEF PartInit
<1>1. <<>> \in Seq(Nat) /\ <<>> \in Seq(Cbw) /\ <<>> \in Seq(Xfer) /\ <<>> \in Seq(Codes) /\ 0 \in Nat
  OBVIOUS
<1>2. NoCbw \in Cbw /\ ~NoCbw.given_up
  BY <1>1, Zenon DEF NoCbw, Cbw
<1>3. Zero \in Csw
  BY DEF Zero, Csw, Statuses
<1>4. dev \in Device
  BY <1>0, <1>2, Zenon DEF Init, Device, Statuses
<1>5. tag \in 0..TagModulus - 1
  BY <1>0, USBAssumption DEF Init
<1>6. CallType
  <2>1. call = [at |-> "INQUIRY", retry |-> 0, ready |-> ReadyRetries, block |-> 0,
                count |-> 0, dma |-> 0, split |-> FALSE, got |-> <<>>, result |-> "none"]
    BY <1>0, Zenon DEF Init
  <2>2. DOMAIN call = {"at", "retry", "ready", "block", "count", "dma", "split", "got", "result"}
    BY <2>1
  <2>3. ReadyRetries \in Nat /\ 0 \in Nat
    BY USBAssumption
  <2>4. /\ call.at = "INQUIRY" /\ call.retry = 0 /\ call.ready = ReadyRetries
        /\ call.block = 0 /\ call.count = 0 /\ call.dma = 0
    BY <2>1, Zenon
  <2> QED BY <2>2, <2>3, <2>4, Zenon DEF CallType, Commands
<1>7. HostType
  BY <1>0, <1>2, <1>5, <1>6, Zenon DEF Init, HostType
<1>8. RingType
  BY <1>0, <1>1, <1>3, <1>4, Zenon DEF Init, RingType
<1> QED BY <1>0, <1>7, <1>8, Zenon DEF Init, DType

LEMMA InitInv ==
  ASSUME PartInit
  PROVE  PInv
<1>0. Init /\ part = NotReading(0, 0, 0) /\ DType
  BY InitType, Zenon DEF PartInit
<1>1. /\ pc = "call" /\ call.at = "INQUIRY" /\ io = NoCbw /\ out = <<>> /\ in = <<>> /\ dev.stage = "idle"
  BY <1>0, Zenon DEF Init
<1>2. \A k : k \notin DOMAIN out /\ k \notin DOMAIN in
  BY <1>1
<1>3. Len(in) = 0 /\ io.cmd = "none"
  BY <1>1 DEF NoCbw
<1>4. ~Untaken
  BY <1>2, Zenon DEF Untaken
<1>5. pc \notin Active /\ pc \notin {"data", "data_done"}
  BY <1>1, Zenon DEF Active
<1>6. BaseInv
  BY <1>1, <1>3, <1>5, Zenon DEF BaseInv
<1>7. CswInv /\ AcceptInv
  BY <1>1, Zenon DEF CswInv, AcceptInv
<1>8. Kept
  <2>1. Need = 0 /\ ToPost = 0
    BY <1>1, <1>4, Zenon DEF Need, ToPost
  <2>2. Len(in) + ToPost >= Need
    BY <1>3, <2>1
  <2> QED BY <1>1, <1>2, <1>4, <1>5, <2>2, Zenon DEF Kept
<1>9. Reread
  <2>1. <<>> # <<io>>
    OBVIOUS
  <2> QED BY <1>1, <1>2, <1>5, <2>1, Zenon DEF Reread
<1>10. /\ part.offset = 0 /\ ~part.reading /\ ~part.waiting /\ part.block = 0 /\ part.skip = 0
       /\ part.len = 0 /\ part.want = <<>> /\ part.result = "none"
  BY <1>0, Zenon DEF NotReading
<1>11. PartType
  <2>1. DOMAIN part = {"offset", "reading", "waiting", "block", "skip", "len", "want", "got", "split",
                    "result", "reads", "seeks"}
    BY <1>0, Zenon DEF NotReading
  <2>2. 0 \in Nat /\ 0 < BlockSize /\ <<>> \in Seq(Nat)
    BY PartConstants
  <2>3. /\ part.offset \in Nat /\ part.block \in Nat /\ part.skip \in Nat /\ part.skip < BlockSize
        /\ part.len \in Nat /\ part.want \in Seq(Nat)
    BY <1>10, <2>2, Zenon
  <2> QED BY <2>1, <2>3, Zenon DEF PartType
<1>12. PartInv /\ LoopInv /\ ReadsBytes /\ CommandInv
  BY <1>1, <1>5, <1>10, Zenon DEF PartInv, LoopInv, ReadsBytes, CommandInv
<1> QED BY <1>0, <1>6, <1>7, <1>8, <1>9, <1>11, <1>12, Zenon DEF PInv, DInv, KeptInv, RereadInv

LEMMA StepInv ==
  ASSUME PInv, [Next]_allvars
  PROVE  PInv'
<1>1. CASE partition_seek
  BY <1>1, SeekInv, Zenon
<1>2. CASE partition_read
  BY <1>2, ReadInv, Zenon
<1>3. CASE ReadPiece
  BY <1>3, ReadPieceInv, Zenon
<1>4. CASE PieceDone
  BY <1>4, PieceDoneInv, Zenon
<1>5. CASE DriverNext /\ UNCHANGED part
  BY <1>5, DriverPart, Zenon
<1>6. CASE UNCHANGED allvars
  <2>1. UNCHANGED vars /\ part' = part
    BY <1>6, Zenon DEF allvars
  <2>2. DInv' /\ CommandInv' /\ late' = late /\ call' = call
    BY <2>1, SameDriver, Zenon
  <2>3. PartType /\ PartInv /\ LoopInv /\ ReadsBytes /\ UNCHANGED <<call, part>> /\ (late => late')
    BY <2>1, <2>2, Zenon DEF PInv
  <2> QED BY <2>2, <2>3, AheadInv, Zenon DEF PInv
<1> QED BY <1>1, <1>2, <1>3, <1>4, <1>5, <1>6, Zenon DEF Next

LEMMA Invariance == Spec => []PInv
<1>1. PartInit => PInv
  BY InitInv, Zenon
<1>2. PInv /\ [Next]_allvars => PInv'
  BY StepInv, Zenon
<1> QED BY <1>1, <1>2, PTL DEF Spec

\* usbmsd_get_csw accepts no status but that of its own command, unless a transfer
\* that was given up is served later.
THEOREM OwnStatus == Spec => []AcceptsOwnStatus
<1>1. PInv => AcceptsOwnStatus
  BY Zenon DEF PInv, DInv, AcceptInv, AcceptsOwnStatus
<1> QED BY <1>1, Invariance, PTL

\* tegrabl_partition_read that returns without an error has read the bytes from the
\* partition's position on, in order.
THEOREM BytesAreRead == Spec => []ReadsBytes
<1>1. PInv => ReadsBytes
  BY Zenon DEF PInv
<1> QED BY <1>1, Invariance, PTL

-----------------------------------------------------------------------------
(***************************************************************************)
(* A command without a fault.                                              *)
(***************************************************************************)

\* The device is at the host's command, and will pass it.
Own == dev.cbw = io /\ dev.result = "pass" /\ out = <<>>
Passed == csw.form = "csw" /\ csw.tag = tag /\ csw.status = "pass"

\* The transfer of a stage is done, or posted.
Done == events = <<"ok">> /\ in = <<>>
Waits(to, size) == events = <<>> /\ in = <<[to |-> to, n |-> io.n, size |-> size]>>

InStep ==
  /\ pc # "again"
  /\ pc = "cbw" => \/ out = <<io>> /\ dev.stage = "idle" /\ in = <<>> /\ events = <<>>
                   \/ Own /\ dev.stage = (IF Length(io) > 0 THEN "data" ELSE "status") /\ Done
  /\ pc = "data" => \/ Own /\ dev.stage = "data" /\ Waits("data", Length(io))
                    \/ Own /\ dev.stage = "status" /\ Done
  /\ pc = "data_done" => Own /\ dev.stage = "status" /\ in = <<>> /\ events = <<>>
  /\ pc = "csw" => \/ Own /\ dev.stage = "status" /\ Waits("csw", CSW_SIZE)
                   \/ Own /\ dev.stage = "idle" /\ Passed /\ Done
  /\ pc = "judge" => Own /\ dev.stage = "idle" /\ Passed /\ err = "ok"

HealthInv ==
  healthy => /\ pc \in Active => InStep /\ ~stalled /\ ~halted /\ comp_code # "stall"
             /\ pc = "return" => err = "ok"

\* The event of a transfer that went well is taken off the ring.
LEMMA HandledOk ==
  ASSUME events = <<"ok">>
  PROVE  Handled(Irq).ring = <<>> /\ Handled(Irq).code = comp_code
<1>1. <<"ok">> \in Seq(Codes) /\ \A k \in DOMAIN <<"ok">> : <<"ok">>[k] = "ok"
  BY DEF Codes
<1>2. FirstFailure(<<"ok">>) = 0
  BY <1>1, FailureFacts, Zenon
<1>3. Irq.ring = <<"ok">> /\ Irq.code = comp_code
  BY Zenon DEF Irq
<1>4. Handled(Irq) = [Irq EXCEPT !.ring = <<>>]
  BY <1>2, <1>3, Zenon DEF Handled
<1> QED BY <1>4, Zenon DEF Irq

LEMMA WakesOk ==
  ASSUME events = <<"ok">>, comp_code # "stall", \/ Interrupts({Handled(Irq)}) \/ Interrupts(Cleared(Handled(Irq)))
  PROVE  events' = <<>> /\ comp_code' = comp_code
<1>1. Handled(Irq).ring = <<>> /\ Handled(Irq).code = comp_code
  BY HandledOk, Zenon
<1>2. Cleared(Handled(Irq)) = {Handled(Irq)}
  BY <1>1, Zenon DEF Cleared
<1>3. Interrupts({Handled(Irq)})
  BY <1>2, Zenon
<1> QED BY <1>1, <1>3, Zenon DEF Interrupts

LEMMA PostOnEmpty ==
  ASSUME NEW x, NEW ring, ring = <<>>
  PROVE  Posted(ring, x) = <<x>>
<1>1. Append(<<>>, x) = <<x>>
  OBVIOUS
<1> QED BY <1>1, Zenon DEF Posted

LEMMA StartHealth ==
  ASSUME DInv, StartCommand
  PROVE  HealthInv'
<1>1. DType
  BY Zenon DEF DInv
<1>2. /\ pc' = "cbw" /\ UNCHANGED <<in, events, dev, stalled, halted, comp_code>> /\ out' = Posted(out, io')
      /\ healthy' = (out = <<>> /\ in = <<>> /\ events = <<>> /\ dev.stage = "idle"
                       /\ ~stalled /\ ~halted /\ comp_code # "stall")
  BY Zenon DEF StartCommand, SendCbw, device
<1>3. SUFFICES ASSUME healthy' PROVE InStep' /\ ~stalled' /\ ~halted' /\ comp_code' # "stall"
  BY <1>2, Zenon DEF HealthInv
<1>4. /\ out = <<>> /\ in = <<>> /\ events = <<>> /\ dev.stage = "idle"
      /\ ~stalled /\ ~halted /\ comp_code # "stall"
  BY <1>2, <1>3, Zenon
<1>5. out' = <<io'>>
  BY <1>2, <1>4, PostOnEmpty, Zenon
<1>6. InStep'
  BY <1>2, <1>4, <1>5, Zenon DEF InStep
<1>7. ~stalled' /\ ~halted'
  BY <1>2, <1>4
<1> QED BY <1>2, <1>4, <1>6, <1>7, Zenon

LEMMA HostHealth ==
  ASSUME DInv, HealthInv, HostStep
  PROVE  HealthInv'
<1>0. /\ pc \in Active /\ UNCHANGED <<io, stalled>> /\ RingType
  BY Zenon DEF HostStep, CbwTimeout, CbwSent, DataDone, GetCsw, CswDone, CswAgain, Judge, host, device, Active,
               DInv, DType
<1>1. SUFFICES ASSUME healthy' PROVE HealthInv'
  BY Zenon DEF HealthInv
\* A wait for a device that has something to do ends with a fault.
<1>2. Expires => healthy /\ ~Answers
  BY <1>1, Zenon DEF Expires
<1>3. healthy
  <2>1. healthy' = healthy \/ Expires
    BY Zenon DEF HostStep, CbwTimeout, CbwSent, DataDone, GetCsw, CswDone, CswAgain, Judge, TimesOut
  <2>2. healthy' = healthy => healthy
    BY <1>1
  <2> QED BY <1>2, <2>1, <2>2, Zenon
<1>4. InStep /\ ~stalled /\ ~halted /\ comp_code # "stall"
  BY <1>0, <1>3, Zenon DEF HealthInv
<1>5. ~stalled'
  BY <1>0, <1>4
<1>6. ASSUME NEW to, NEW size, PostIn(to, size), in = <<>>
      PROVE  in' = <<[to |-> to, n |-> io'.n, size |-> size]>> /\ ~halted'
  <2>1. in' = <<[to |-> to, n |-> io.n, size |-> size]>> /\ halted' = (halted /\ ~rereads)
    BY <1>6, PostOnEmpty, Zenon DEF PostIn
  <2> QED BY <1>0, <1>4, <2>1, Zenon
<1>7. ASSUME pc' \in Active, InStep', ~halted', comp_code' # "stall" PROVE HealthInv'
  BY <1>5, <1>7, Zenon DEF HealthInv, Active
<1>8. events = <<"ok">> => events # <<>>
  OBVIOUS
<1>9. CASE CbwTimeout
  <2>1. pc = "cbw" /\ events = <<>> /\ ~Answers
    BY <1>2, <1>9, Zenon DEF CbwTimeout, TimesOut, Expires
  <2>2. out = <<io>> /\ dev.stage = "idle"
    BY <1>4, <1>8, <2>1, Zenon DEF InStep, Done
  <2>3. out # <<>>
    BY <2>2
  <2> QED BY <2>1, <2>2, <2>3, Zenon DEF Answers
<1>10. CASE CbwSent
  <2>1. pc = "cbw" /\ events # <<>> /\ UNCHANGED <<tag, out, dev>>
    BY <1>10, Zenon DEF CbwSent, host, device
  <2>2. Own /\ dev.stage = (IF Length(io) > 0 THEN "data" ELSE "status") /\ Done
    BY <1>4, <2>1, Zenon DEF InStep
  <2>3. Own'
    BY <1>0, <2>1, <2>2, Zenon DEF Own
  <2>4. Interrupts({Handled(Irq)}) \/ Interrupts(Cleared(Handled(Irq)))
    BY <1>10, Zenon DEF CbwSent
  <2>5. events' = <<>> /\ comp_code' = comp_code
    BY <1>4, <2>2, <2>4, WakesOk, Zenon DEF Done
  <2>6. CASE Length(io) > 0
    <3>1. pc' = "data" /\ PostIn("data", Length(io))
      BY <1>10, <2>6, Zenon DEF CbwSent
    <3>2. in' = <<[to |-> "data", n |-> io'.n, size |-> Length(io)]>> /\ ~halted'
      BY <1>6, <2>2, <3>1, Zenon DEF Done
    <3>3. Waits("data", Length(io))' /\ dev'.stage = "data"
      BY <1>0, <2>1, <2>2, <2>5, <2>6, <3>2, Zenon DEF Waits
    <3>4. InStep'
      BY <2>3, <3>1, <3>3, Zenon DEF InStep
    <3> QED BY <1>4, <1>7, <2>5, <3>1, <3>2, <3>4, Zenon DEF Active
  <2>7. CASE ~(Length(io) > 0)
    <3>1. pc' = "csw" /\ PostIn("csw", CSW_SIZE)
      BY <1>10, <2>7, Zenon DEF CbwSent, AskCsw
    <3>2. in' = <<[to |-> "csw", n |-> io'.n, size |-> CSW_SIZE]>> /\ ~halted'
      BY <1>6, <2>2, <3>1, Zenon DEF Done
    <3>3. Waits("csw", CSW_SIZE)' /\ dev'.stage = "status"
      BY <2>1, <2>2, <2>5, <2>7, <3>2, Zenon DEF Waits
    <3>4. InStep'
      BY <2>3, <3>1, <3>3, Zenon DEF InStep
    <3> QED BY <1>4, <1>7, <2>5, <3>1, <3>2, <3>4, Zenon DEF Active
  <2> QED BY <2>6, <2>7, Zenon
<1>11. CASE DataDone
  <2>1. /\ pc = "data" /\ pc' = "data_done" /\ UNCHANGED <<tag, out, in, halted, dev>>
        /\ Wakes \/ (Expires /\ events = <<>>)
    BY <1>11, Zenon DEF DataDone, TimesOut, Expires, host, device
  <2>2. Own'
    BY <1>0, <1>4, <2>1, Zenon DEF Own, InStep
  <2>3. CASE Wakes
    <3>1. dev.stage = "status" /\ Done
      BY <1>4, <2>1, <2>3, Zenon DEF InStep, Wakes, Waits
    <3>2. events' = <<>> /\ comp_code' = comp_code
      BY <1>4, <2>3, <3>1, WakesOk, Zenon DEF Wakes, Done
    <3>3. InStep'
      BY <2>1, <2>2, <3>1, <3>2, Zenon DEF InStep, Done
    <3>4. ~halted'
      BY <1>4, <2>1
    <3> QED BY <1>4, <1>7, <2>1, <3>2, <3>3, <3>4, Zenon DEF Active
  <2>4. CASE Expires /\ events = <<>>
    <3>1. dev.stage = "data" /\ in = <<[to |-> "data", n |-> io.n, size |-> Length(io)]>>
      BY <1>4, <1>8, <2>1, <2>4, Zenon DEF InStep, Done, Waits
    <3>2. in # <<>>
      BY <3>1
    <3> QED BY <1>2, <1>4, <2>4, <3>1, <3>2, Zenon DEF Answers
  <2> QED BY <2>1, <2>3, <2>4, Zenon
<1>12. CASE GetCsw
  <2>1. /\ pc = "data_done" /\ pc' = "csw" /\ PostIn("csw", CSW_SIZE) /\ UNCHANGED <<tag, out, dev>>
        /\ Interrupts(Cleared(Irq))
    BY <1>12, Zenon DEF GetCsw, AskCsw, host, device
  <2>2. Own /\ dev.stage = "status" /\ in = <<>> /\ events = <<>>
    BY <1>4, <2>1, Zenon DEF InStep
  <2>3. events' = <<>> /\ comp_code' = comp_code
    <3>1. Irq.ring = events /\ Irq.code = comp_code
      BY Zenon DEF Irq
    <3>2. Cleared(Irq) = {Irq}
      BY <1>4, <3>1, Zenon DEF Cleared
    <3>3. Interrupts({Irq})
      BY <2>1, <3>2, Zenon
    <3> QED BY <2>2, <3>1, <3>3, Zenon DEF Interrupts
  <2>4. in' = <<[to |-> "csw", n |-> io'.n, size |-> CSW_SIZE]>> /\ ~halted'
    BY <1>6, <2>1, <2>2, Zenon
  <2>5. Own' /\ dev'.stage = "status" /\ Waits("csw", CSW_SIZE)'
    BY <1>0, <2>1, <2>2, <2>3, <2>4, Zenon DEF Own, Waits
  <2>6. InStep'
    BY <2>1, <2>5, Zenon DEF InStep
  <2> QED BY <1>4, <1>7, <2>1, <2>3, <2>4, <2>6, Zenon DEF Active
<1>13. CASE CswDone
  <2>1. /\ pc = "csw" /\ UNCHANGED <<tag, csw, out, dev>>
        /\ \/ events # <<>> /\ err' = "ok" /\ Answered(Handled(Irq))
           \/ Expires /\ events = <<>>
    BY <1>13, Zenon DEF CswDone, Expires, device
  <2>2. CASE events # <<>> /\ err' = "ok" /\ Answered(Handled(Irq))
    <3>1. Own /\ dev.stage = "idle" /\ Passed /\ Done
      BY <1>4, <2>1, <2>2, Zenon DEF InStep, Waits
    <3>2. Handled(Irq).code # "stall"
      BY <1>4, <3>1, HandledOk, Zenon DEF Done
    <3>3. pc' = "judge" /\ UNCHANGED <<in, halted>> /\ Interrupts(Cleared(Handled(Irq)))
      BY <2>2, <3>2, Zenon DEF Answered
    <3>4. comp_code' = comp_code
      BY <1>4, <3>1, <3>3, WakesOk, Zenon DEF Done
    <3>5. Own' /\ Passed' /\ dev'.stage = "idle"
      BY <1>0, <2>1, <3>1, Zenon DEF Own, Passed
    <3>6. InStep'
      BY <2>2, <3>3, <3>5, Zenon DEF InStep
    <3>7. ~halted'
      BY <1>4, <3>3
    <3> QED BY <1>4, <1>7, <3>3, <3>4, <3>6, <3>7, Zenon DEF Active
  <2>3. CASE Expires /\ events = <<>>
    <3>1. dev.stage = "status" /\ in = <<[to |-> "csw", n |-> io.n, size |-> CSW_SIZE]>>
      BY <1>4, <1>8, <2>1, <2>3, Zenon DEF InStep, Done, Waits
    <3>2. in # <<>>
      BY <3>1
    <3> QED BY <1>2, <1>4, <2>3, <3>1, <3>2, Zenon DEF Answers
  <2> QED BY <2>1, <2>2, <2>3, Zenon
<1>14. CASE CswAgain
  BY <1>4, <1>14, Zenon DEF CswAgain, InStep
<1>15. CASE Judge
  <2>1. pc = "judge" /\ pc' = "return"
    BY <1>15, Zenon DEF Judge, Return
  <2>2. Passed /\ err = "ok"
    BY <1>4, <2>1, Zenon DEF InStep
  <2>3. err' = "ok"
    BY <1>15, <2>2, Zenon DEF Judge, Return, Passed, StatusError
  <2> QED BY <2>1, <2>3, Zenon DEF HealthInv, Active
<1> QED BY <1>9, <1>10, <1>11, <1>12, <1>13, <1>14, <1>15, Zenon DEF HostStep

LEMMA XferFields ==
  ASSUME NEW x, NEW to, NEW n, NEW size, x = [to |-> to, n |-> n, size |-> size]
  PROVE  x.to = to /\ x.size = size
  BY Zenon

LEMMA DeviceHealth ==
  ASSUME DInv, HealthInv, DeviceStep
  PROVE  HealthInv'
<1>0. /\ UNCHANGED <<pc, io, tag, err, comp_code>>
  BY Zenon DEF DeviceStep, TakeCbw, SendData, SendStatus, Stall, StallAgain, OtherEvent, host, memory
<1>1. SUFFICES ASSUME healthy' PROVE HealthInv'
  BY Zenon DEF HealthInv
<1>2. ~Fault
  BY <1>1, Zenon DEF Fault
<1>3. healthy
  <2>1. NoFault
    BY <1>2, Zenon DEF DeviceStep, TakeCbw, SendData, SendStatus, Stall, StallAgain, OtherEvent
  <2> QED BY <1>1, <2>1 DEF NoFault
<1>4. CASE pc \notin Active
  BY <1>0, <1>3, <1>4, Zenon DEF HealthInv
<1>5. CASE pc \in Active
  <2>1. InStep /\ ~stalled /\ ~halted /\ comp_code # "stall"
    BY <1>3, <1>5, Zenon DEF HealthInv
  <2>2. ASSUME InStep', ~stalled', ~halted' PROVE HealthInv'
    BY <1>0, <1>5, <2>1, <2>2, Zenon DEF HealthInv, Active
  <2>3. io.tag = tag /\ Length(io) \in Nat
    BY <1>5, LengthFacts, Zenon DEF DInv, BaseInv, DType, HostType
  <2>4. Append(<<>>, "ok") = <<"ok">>
    OBVIOUS
  <2>5. ASSUME NEW x PROVE <<x>> # <<>> /\ Head(<<x>>) = x /\ Tail(<<x>>) = <<>>
    OBVIOUS
  <2>6. pc \in {"cbw", "data", "data_done", "csw", "again", "judge"}
    BY <1>5, Zenon DEF Active
  <2>7. CASE TakeCbw
    <3>1. dev.stage = "idle" /\ out # <<>> /\ UNCHANGED <<in, halted, stalled>>
      BY <2>7, Zenon DEF TakeCbw
    <3>2. pc = "cbw" /\ out = <<io>> /\ in = <<>> /\ events = <<>>
      BY <2>1, <2>6, <3>1, Zenon DEF InStep, Own
    <3>3. PICK result \in {"pass", "fail", "phase"} :
            /\ dev' = [stage |-> IF Length(Head(out)) > 0 THEN "data" ELSE "status",
                       cbw |-> Head(out), result |-> result]
            /\ IF result = "pass" THEN NoFault ELSE Fault
      BY <2>7, Zenon DEF TakeCbw
    <3>4. Head(out) = io /\ Tail(out) = <<>>
      BY <2>5, <3>2, Zenon
    <3>5. /\ dev'.stage = (IF Length(io) > 0 THEN "data" ELSE "status")
          /\ dev'.cbw = io /\ dev'.result = "pass"
      BY <1>2, <3>3, <3>4, Zenon
    <3>6. out' = <<>> /\ events' = <<"ok">>
      BY <2>4, <2>7, <3>2, <3>4, Zenon DEF TakeCbw, Event
    <3>7. Own' /\ Done' /\ dev'.stage = (IF Length(io') > 0 THEN "data" ELSE "status")
      BY <1>0, <3>1, <3>2, <3>5, <3>6, Zenon DEF Own, Done
    <3>8. InStep'
      BY <1>0, <3>2, <3>7, Zenon DEF InStep
    <3>9. ~stalled' /\ ~halted'
      BY <2>1, <3>1
    <3> QED BY <2>2, <3>8, <3>9, Zenon
  <2>8. CASE SendData
    <3>1. dev.stage = "data" /\ in # <<>> /\ UNCHANGED <<out, stalled>>
      BY <2>8, Zenon DEF SendData, CanSend
    <3>2. pc = "data" /\ Own /\ Waits("data", Length(io))
      BY <2>1, <2>6, <3>1, Zenon DEF InStep, Done, Waits
    <3>3. Head(in) = [to |-> "data", n |-> io.n, size |-> Length(io)] /\ Tail(in) = <<>>
      BY <2>5, <3>2, Zenon DEF Waits
    <3>4. Length(dev.cbw) <= Head(in).size
      <4>1. Length(io) <= Length(io)
        BY <2>3
      <4>2. Head(in) = [to |-> "data", n |-> io.n, size |-> Length(io)]
        BY <3>3, Zenon
      <4>3. Head(in).size = Length(io)
        BY <4>2, XferFields, Zenon
      <4>4. Length(dev.cbw) = Length(io)
        BY <3>2, Zenon DEF Own
      <4> QED BY <4>1, <4>3, <4>4, Zenon
    <3>5. Deliver(Length(dev.cbw)) /\ dev' = [dev EXCEPT !.stage = "status"]
      BY <2>8, <3>4, Zenon DEF SendData
    <3>6. in' = <<>> /\ events' = <<"ok">> /\ UNCHANGED halted
      BY <2>4, <3>2, <3>3, <3>4, <3>5, Zenon DEF Deliver, Event, Waits
    <3>7. dev'.stage = "status" /\ dev'.cbw = dev.cbw /\ dev'.result = dev.result
      BY <3>5, Zenon DEF DInv, DType, RingType, Device
    <3>8. Own' /\ Done'
      BY <1>0, <3>1, <3>2, <3>6, <3>7, Zenon DEF Own, Done
    <3>9. InStep'
      BY <1>0, <3>2, <3>7, <3>8, Zenon DEF InStep
    <3>10. ~stalled' /\ ~halted'
      BY <2>1, <3>1, <3>6
    <3> QED BY <2>2, <3>9, <3>10, Zenon
  <2>9. CASE SendStatus
    <3>1. dev.stage = "status" /\ in # <<>> /\ UNCHANGED <<out, stalled>>
      BY <2>9, Zenon DEF SendStatus, CanSend
    <3>2. pc = "csw" /\ Own /\ Waits("csw", CSW_SIZE)
      BY <2>1, <2>6, <3>1, Zenon DEF InStep, Done, Waits
    <3>3. Head(in) = [to |-> "csw", n |-> io.n, size |-> CSW_SIZE] /\ Tail(in) = <<>>
      BY <2>5, <3>2, Zenon DEF Waits
    <3>4. CSW_SIZE <= Head(in).size /\ Head(in).to = "csw"
      <4>1. CSW_SIZE <= CSW_SIZE
        BY DEF CSW_SIZE
      <4>2. Head(in).size = CSW_SIZE /\ Head(in).to = "csw"
        <5>1. Head(in) = [to |-> "csw", n |-> io.n, size |-> CSW_SIZE]
          BY <3>3, Zenon
        <5> QED BY <5>1, XferFields, Zenon
      <4> QED BY <4>1, <4>2, Zenon
    <3>5. /\ Deliver(CSW_SIZE) /\ dev' = [dev EXCEPT !.stage = "idle"]
          /\ csw' = [form |-> "csw", n |-> dev.cbw.n, tag |-> dev.cbw.tag, status |-> dev.result]
      BY <2>9, <3>4, Zenon DEF SendStatus
    <3>6. in' = <<>> /\ events' = <<"ok">> /\ UNCHANGED halted
      BY <2>4, <3>2, <3>3, <3>4, <3>5, Zenon DEF Deliver, Event, Waits
    <3>7. dev'.stage = "idle" /\ dev'.cbw = dev.cbw /\ dev'.result = dev.result
      BY <3>5, Zenon DEF DInv, DType, RingType, Device
    <3>8. Own' /\ Done'
      BY <1>0, <3>1, <3>2, <3>6, <3>7, Zenon DEF Own, Done
    <3>9. Passed'
      BY <1>0, <2>3, <3>2, <3>5, Zenon DEF Passed, Own
    <3>10. InStep'
      BY <1>0, <3>2, <3>7, <3>8, <3>9, Zenon DEF InStep
    <3>11. ~stalled' /\ ~halted'
      BY <2>1, <3>1, <3>6
    <3> QED BY <2>2, <3>10, <3>11, Zenon
  <2>10. ~Stall /\ ~StallAgain /\ ~OtherEvent
    BY <1>2, <2>1, Zenon DEF Stall, StallAgain, OtherEvent
  <2> QED BY <2>7, <2>8, <2>9, <2>10, Zenon DEF DeviceStep
<1> QED BY <1>4, <1>5, Zenon

LEMMA HealthStep ==
  ASSUME PInv, HealthInv, [Next]_allvars
  PROVE  HealthInv'
<1>0. DInv
  BY Zenon DEF PInv
<1>1. CASE StartCommand \/ HostStep \/ DeviceStep
  BY <1>0, <1>1, StartHealth, HostHealth, DeviceHealth, Zenon
<1>2. CASE CallerStep \/ ReadPiece
  <2>1. pc' = "call"
    BY <1>2, Zenon DEF CallerStep, InquiryDone, TestUnitReadyDone, RequestSenseDone, ReadCapacityDone, ChunkDone,
                       ReadPiece, ReadBlock, Caller
  <2> QED BY <2>1, Zenon DEF HealthInv, Active
<1>3. CASE UNCHANGED vars
  <2>1. UNCHANGED <<pc, io, tag, err, csw, comp_code, out, in, halted, events, dev, stalled, healthy>>
    BY <1>3, Zenon DEF vars, host, memory, controller, device
  <2>2. InStep' <=> InStep
    BY <2>1, Zenon DEF InStep, Own, Passed, Done, Waits
  <2> QED BY <2>1, <2>2, Zenon DEF HealthInv
<1> QED BY <1>1, <1>2, <1>3, Zenon DEF Next, DriverNext, HostStep, CallerStep, DeviceStep, allvars,
                                       partition_seek, partition_read, PieceDone

\* A command that begins in step with the device and meets no fault returns without
\* an error from tegrabl_usbmsd_io, whatever happened to the commands before it.
THEOREM HealthyCommands == Spec => []HealthySucceeds
<1>1. PartInit => HealthInv
  BY Zenon DEF PartInit, Init, HealthInv
<1>2. PInv /\ HealthInv /\ [Next]_allvars => HealthInv'
  BY HealthStep, Zenon
<1>3. HealthInv => HealthySucceeds
  BY Zenon DEF HealthInv, HealthySucceeds
<1> QED BY <1>1, <1>2, <1>3, Invariance, PTL DEF Spec
=============================================================================
