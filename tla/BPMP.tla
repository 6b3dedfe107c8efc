-------------------------------- MODULE BPMP --------------------------------
(***************************************************************************)
(* Requests of CBoot to the power management firmware                      *)
(* (common/lib/ipc/tegrabl_bpmp_fw_interface.c): tegrabl_ccplex_bpmp_xfer  *)
(* sends a request over an IVC channel of one frame per direction and      *)
(* polls for the answer until it comes or the time is up.  Module IVC      *)
(* shows that such a channel is a pair of queues, which is what is used    *)
(* here.  A frame is the number of the request it carries, or answers.     *)
(***************************************************************************)
EXTENDS Naturals, Sequences

CONSTANT MaxRequests   \* bound on the requests sent

ASSUME RequestsAssumption == MaxRequests \in Nat \ {0}

Requests == 1..MaxRequests
None == 0
Ends == {"ccplex", "bpmp"}
Peer(e) == IF e = "ccplex" THEN "bpmp" ELSE "ccplex"

VARIABLES
  up, q, got,   \* the channel
  step,         \* where tegrabl_ccplex_bpmp_xfer is
  sent,         \* the request sent last
  p_in,         \* the answer copied for the caller
  result,       \* what the last transfer returned
  serving,      \* the request the firmware works on
  late          \* history: some transfer has timed out

vars == <<up, q, got, step, sent, p_in, result, serving, late>>

Channel == INSTANCE IVCFifo WITH Frames <- Requests, NFrames <- 1, NoFrame <- None

Init ==
  /\ Channel!Init
  /\ step = "idle"
  /\ sent = 0
  /\ p_in = None
  /\ result = "none"
  /\ serving = None
  /\ late = FALSE

\* get_next_out_frame finds no room: the request before has not been taken.
NoOutFrame ==
  /\ step = "idle"
  /\ q["ccplex"] # <<>>
  /\ result' = "error"
  /\ UNCHANGED <<up, q, got, step, sent, p_in, serving, late>>

\* Mutant: a request is written although there is no room for it.
SignalUnchecked ==
  /\ step = "idle"
  /\ sent < MaxRequests
  /\ sent' = sent + 1
  /\ q' = [q EXCEPT !["ccplex"] = Append(@, sent')]
  /\ step' = "wait"
  /\ p_in' = None
  /\ result' = "none"
  /\ UNCHANGED <<up, got, serving, late>>

\* The request is written and signalled.
SignalSlave ==
  /\ step = "idle"
  /\ sent < MaxRequests
  /\ sent' = sent + 1
  /\ Channel!Send("ccplex", sent')
  /\ step' = "wait"
  /\ p_in' = None
  /\ result' = "none"
  /\ UNCHANGED <<serving, late>>

\* Mutant: a frame that answers another request is left where it is.
SlaveAckedMatching ==
  /\ step = "wait"
  /\ q["bpmp"] = <<sent>>
  /\ p_in' = sent
  /\ step' = "free"
  /\ UNCHANGED <<up, q, got, sent, result, serving, late>>

\* wait_for_slave_ack sees a frame, whose contents are copied.
SlaveAcked ==
  /\ step = "wait"
  /\ q["bpmp"] # <<>>
  /\ p_in' = Head(q["bpmp"])
  /\ step' = "free"
  /\ UNCHANGED <<up, q, got, sent, result, serving, late>>

\* wait_for_slave_ack gives up; nothing else is undone.
WaitTimesOut ==
  /\ step = "wait"
  /\ q["bpmp"] = <<>>
  /\ step' = "idle"
  /\ result' = "error"
  /\ late' = TRUE
  /\ UNCHANGED <<up, q, got, sent, p_in, serving>>

\* Mutant: the frame of the answer is not given back.
FreeMasterSkipped ==
  /\ step = "free"
  /\ step' = "idle"
  /\ result' = "ok"
  /\ UNCHANGED <<up, q, got, sent, p_in, serving, late>>

FreeMaster ==
  /\ step = "free"
  /\ Channel!Receive("ccplex")
  /\ step' = "idle"
  /\ result' = "ok"
  /\ UNCHANGED <<sent, p_in, serving, late>>

\* The firmware (external) takes the requests one after the other and answers
\* each one.
Take ==
  /\ serving = None
  /\ Channel!Receive("bpmp")
  /\ serving' = Head(q["ccplex"])
  /\ UNCHANGED <<step, sent, p_in, result, late>>

Answer ==
  /\ serving # None
  /\ Channel!Send("bpmp", serving)
  /\ serving' = None
  /\ UNCHANGED <<step, sent, p_in, result, late>>

Xfer == NoOutFrame \/ SignalSlave \/ SlaveAcked \/ WaitTimesOut \/ FreeMaster
Firmware == Take \/ Answer
Next == Xfer \/ Firmware
Spec == Init /\ [][Next]_vars

\* CBoot polls on and counts down; nothing is assumed of the firmware, which may
\* never answer.
FairSpec == Spec /\ WF_vars(SlaveAcked \/ WaitTimesOut) /\ WF_vars(FreeMaster)

-----------------------------------------------------------------------------
(***************************************************************************)
(* Properties.                                                             *)
(***************************************************************************)

\* Every variable has its type.
TypeOK ==
  /\ step \in {"idle", "wait", "free"}
  /\ sent \in 0..MaxRequests
  /\ p_in \in 0..MaxRequests /\ serving \in 0..MaxRequests
  /\ result \in {"none", "ok", "error"} /\ late \in BOOLEAN
  /\ up = [e \in Ends |-> TRUE]
  /\ q \in [Ends -> {<<>>} \cup {<<r>> : r \in Requests}]
  /\ got \in [Ends -> 0..MaxRequests]

\* "response by bpmp (mrq) in case of successful IPC transaction"
\* (tegrabl_bpmp_fw_interface.h): a transfer that succeeds has the answer to
\* its own request, as long as none before it timed out.
AnswerMatches == result = "ok" /\ ~late => p_in = sent

\* When transfers time out, a later one may get an older answer; it is at most
\* two requests old, because a transfer cannot start while a request is queued.
LagBounded == result = "ok" => p_in <= sent /\ sent - p_in <= 2

\* A transfer returns, whether or not the firmware is alive and whatever frame
\* it finds (tegrabl_ccplex_bpmp_wait_for_slave_ack polls a bounded time).
XferEnds == step = "wait" ~> step = "idle"
=============================================================================
