----------------------------- MODULE BPMPProofs -----------------------------
(***************************************************************************)
(* Proofs about BPMP for any number of requests.  The argument: requests   *)
(* are numbered as they are sent, and those on the way (in the queue of    *)
(* CBoot, with the firmware, in the queue of answers) are always the       *)
(* youngest ones, without a gap.  There is room for one at each place.     *)
(***************************************************************************)
EXTENDS BPMP, TLAPS

\* How many requests are at a place.
Queued == IF q["ccplex"] = <<>> THEN 0 ELSE 1
Served == IF serving = None THEN 0 ELSE 1

\* The requests on the way are the last ones sent, the oldest one in front.
InOrder ==
  /\ q["ccplex"] # <<>> => q["ccplex"] = <<sent>>
  /\ serving # None => serving = sent - Queued
  /\ q["bpmp"] # <<>> => q["bpmp"] = <<sent - Queued - Served>>

\* What the transfer has seen: an answer stays in its queue until it is freed,
\* and a transfer under way has no result yet.
Progress ==
  /\ step # "idle" => result = "none"
  /\ step = "free" => q["bpmp"] = <<p_in>>

\* Nothing is on the way that the transfer does not wait for.
OwnOnly ==
  /\ step = "idle" => q["ccplex"] = <<>> /\ serving = None /\ q["bpmp"] = <<>>
  /\ step = "wait" => \/ q["ccplex"] # <<>> /\ serving = None /\ q["bpmp"] = <<>>
                      \/ q["ccplex"] = <<>> /\ serving # None /\ q["bpmp"] = <<>>
                      \/ q["ccplex"] = <<>> /\ serving = None /\ q["bpmp"] # <<>>
  /\ step = "free" => q["ccplex"] = <<>> /\ serving = None

IInv ==
  /\ TypeOK
  /\ InOrder
  /\ Progress
  /\ ~late => OwnOnly
  /\ AnswerMatches
  /\ LagBounded

-----------------------------------------------------------------------------
\* A queue of at most one request is empty or holds one, and is taken apart
\* and put together as expected.
LEMMA QueueFacts ==
  ASSUME TypeOK, NEW e \in Ends
  PROVE  /\ q[e] # <<>> => /\ q[e] = <<Head(q[e])>>
                           /\ Head(q[e]) \in Requests
                           /\ Tail(q[e]) = <<>>
                           /\ Len(q[e]) = 1
         /\ q[e] = <<>> => Len(q[e]) = 0
<1>1. q[e] \in {<<>>} \cup {<<r>> : r \in Requests}
  BY DEF TypeOK
<1>2. ASSUME q[e] # <<>> 
      PROVE  /\ q[e] = <<Head(q[e])>> /\ Head(q[e]) \in Requests
             /\ Tail(q[e]) = <<>> /\ Len(q[e]) = 1
  <2>1. PICK r \in Requests : q[e] = <<r>>
    BY <1>1, <1>2
  <2> QED BY <2>1
<1> QED BY <1>2

\* The queues after a frame is sent and after one is received.
LEMMA SendFacts ==
  ASSUME TypeOK, NEW e \in Ends, NEW f, Channel!Send(e, f)
  PROVE  /\ q[e] = <<>>
         /\ q' = [q EXCEPT ![e] = <<f>>]
         /\ up' = up /\ got' = got
<1>1. Len(q[e]) < 1
  BY DEF Channel!Send
<1>2. q[e] = <<>>
  BY <1>1, QueueFacts
<1>3. Append(q[e], f) = <<f>>
  BY <1>2
<1> QED BY <1>2, <1>3 DEF Channel!Send

LEMMA ReceiveFacts ==
  ASSUME TypeOK, NEW e \in Ends, Channel!Receive(e)
  PROVE  /\ q[Peer(e)] # <<>>
         /\ q' = [q EXCEPT ![Peer(e)] = <<>>]
         /\ up' = up
         /\ got' = [got EXCEPT ![e] = Head(q[Peer(e)])]
         /\ Head(q[Peer(e)]) \in Requests
<1>1. Peer(e) \in Ends
  BY DEF Peer, Ends
<1>2. q[Peer(e)] # <<>>
  BY DEF Channel!Receive
<1>3. Tail(q[Peer(e)]) = <<>> /\ Head(q[Peer(e)]) \in Requests
  BY <1>1, <1>2, QueueFacts
<1> QED BY <1>2, <1>3 DEF Channel!Receive

LEMMA InitIInv == Init => IInv
<1> SUFFICES ASSUME Init PROVE IInv
  OBVIOUS
<1> USE RequestsAssumption
<1>1. q["ccplex"] = <<>> /\ q["bpmp"] = <<>>
  BY DEF Init, Channel!Init, Ends
<1>2. /\ up = [e \in Ends |-> TRUE]
      /\ q \in [Ends -> {<<>>} \cup {<<r>> : r \in Requests}]
      /\ got \in [Ends -> 0..MaxRequests]
  BY DEF Init, Channel!Init, None, RequestsAssumption
<1>late. late \in BOOLEAN
  BY Zenon DEF Init
<1>nums. /\ sent \in 0..MaxRequests
         /\ p_in \in 0..MaxRequests /\ serving \in 0..MaxRequests
  BY DEF Init, None, RequestsAssumption
<1>3. TypeOK
  BY <1>2, <1>late, <1>nums, Zenon DEF Init, TypeOK
<1> QED BY <1>1, <1>3 DEF Init, IInv, InOrder, Progress, OwnOnly, AnswerMatches, LagBounded, None

-----------------------------------------------------------------------------
LEMMA NextIInv == IInv /\ [Next]_vars => IInv'
<1> SUFFICES ASSUME IInv, [Next]_vars PROVE IInv'
  OBVIOUS
<1>t. TypeOK
  BY DEF IInv
<1>e. "ccplex" \in Ends /\ "bpmp" \in Ends /\ Peer("ccplex") = "bpmp" /\ Peer("bpmp") = "ccplex"
  BY DEF Ends, Peer
<1>g. got \in [Ends -> 0..MaxRequests]
  BY <1>t DEF TypeOK
<1>1. CASE NoOutFrame
  <2>1. TypeOK'
    BY <1>1, <1>t DEF NoOutFrame, TypeOK
  <2>2. InOrder' /\ Progress' /\ AnswerMatches' /\ LagBounded'
    BY <1>1 DEF NoOutFrame, IInv, InOrder, Progress, AnswerMatches, LagBounded, Queued, Served
  <2>3. (~late => OwnOnly)'
    BY <1>1 DEF NoOutFrame, IInv, OwnOnly
  <2> QED BY <2>1, <2>2, <2>3 DEF IInv
<1>2. CASE SignalSlave
  <2>1. /\ q["ccplex"] = <<>> /\ q' = [q EXCEPT !["ccplex"] = <<sent'>>]
        /\ up' = up /\ got' = got
    BY <1>2, <1>t, <1>e, SendFacts DEF SignalSlave
  <2>2. q'["ccplex"] = <<sent'>> /\ q'["bpmp"] = q["bpmp"]
    BY <2>1, <1>t, <1>e DEF TypeOK
  <2>3. sent' \in Requests /\ sent' = sent + 1
    BY <1>2, <1>t, RequestsAssumption DEF SignalSlave, TypeOK, Requests
  <2>4. q' \in [Ends -> {<<>>} \cup {<<r>> : r \in Requests}]
    BY <2>1, <2>3, <1>t DEF TypeOK
  <2>n. sent' \in 0..MaxRequests /\ p_in' \in 0..MaxRequests
    BY <1>2, <2>3, RequestsAssumption DEF SignalSlave, None, Requests
  <2>5. TypeOK'
    BY <1>2, <1>t, <2>1, <2>4, <2>n, Zenon DEF SignalSlave, TypeOK
  <2>6. InOrder'
    <3>1. Queued = 0 /\ Queued' = 1 /\ Served' = Served /\ Served \in {0, 1}
      BY <1>2, <2>1, <2>2 DEF SignalSlave, Queued, Served
    <3>2. /\ sent' - Queued' = sent - Queued
          /\ sent' - Queued' - Served' = sent - Queued - Served
      BY <2>3, <3>1, <1>t DEF TypeOK
    <3> QED BY <1>2, <2>2, <3>2 DEF SignalSlave, IInv, InOrder
  <2>7. Progress' /\ AnswerMatches' /\ LagBounded'
    BY <1>2 DEF SignalSlave, Progress, AnswerMatches, LagBounded
  <2>8. (~late => OwnOnly)'
    BY <1>2, <2>2 DEF SignalSlave, IInv, OwnOnly
  <2> QED BY <2>5, <2>6, <2>7, <2>8 DEF IInv
<1>3. CASE SlaveAcked
  <2>1. q["bpmp"] # <<>> /\ q["bpmp"] = <<p_in'>> /\ p_in' \in Requests
    BY <1>3, <1>t, <1>e, QueueFacts DEF SlaveAcked
  <2>2. p_in' \in 0..MaxRequests
    BY <2>1, RequestsAssumption DEF Requests
  <2>3. TypeOK'
    BY <1>3, <1>t, <2>2, Zenon DEF SlaveAcked, TypeOK
  <2>4. InOrder'
    BY <1>3 DEF SlaveAcked, IInv, InOrder, Queued, Served
  <2>5. Progress' /\ AnswerMatches' /\ LagBounded'
    BY <1>3, <2>1 DEF SlaveAcked, IInv, Progress, AnswerMatches, LagBounded
  <2>6. (~late => OwnOnly)'
    BY <1>3, <2>1 DEF SlaveAcked, IInv, OwnOnly
  <2> QED BY <2>3, <2>4, <2>5, <2>6 DEF IInv
<1>4. CASE WaitTimesOut
  <2>1. TypeOK'
    BY <1>4, <1>t, Zenon DEF WaitTimesOut, TypeOK
  <2>2. InOrder'
    BY <1>4 DEF WaitTimesOut, IInv, InOrder, Queued, Served
  <2>3. Progress' /\ AnswerMatches' /\ LagBounded' /\ (~late => OwnOnly)'
    BY <1>4 DEF WaitTimesOut, Progress, AnswerMatches, LagBounded
  <2> QED BY <2>1, <2>2, <2>3 DEF IInv
<1>5. CASE FreeMaster
  <2>1. /\ q["bpmp"] # <<>> /\ q' = [q EXCEPT !["bpmp"] = <<>>]
        /\ up' = up /\ got' = [got EXCEPT !["ccplex"] = Head(q["bpmp"])]
        /\ Head(q["bpmp"]) \in Requests
    BY <1>5, <1>t, <1>e, ReceiveFacts DEF FreeMaster
  <2>2. q'["bpmp"] = <<>> /\ q'["ccplex"] = q["ccplex"]
    BY <2>1, <1>t, <1>e DEF TypeOK
  <2>g. got' \in [Ends -> 0..MaxRequests]
    <3>1. Head(q["bpmp"]) \in 0..MaxRequests
      BY <2>1, RequestsAssumption DEF Requests
    <3> QED BY <2>1, <3>1, <1>g
  <2>3. q' \in [Ends -> {<<>>} \cup {<<r>> : r \in Requests}]
    BY <2>1, <1>t DEF TypeOK
  <2>4. TypeOK'
    BY <1>5, <1>t, <2>1, <2>3, <2>g, Zenon DEF FreeMaster, TypeOK
  <2>5. InOrder'
    BY <1>5, <2>2 DEF FreeMaster, IInv, InOrder, Queued, Served
  <2>6. p_in = sent - Queued - Served
    BY <1>5, <2>1 DEF FreeMaster, IInv, InOrder, Progress
  <2>7. Progress' /\ LagBounded'
    BY <1>5, <1>t, <2>6 DEF FreeMaster, Progress, LagBounded, Queued, Served, TypeOK
  <2>8. (~late => OwnOnly)'
    BY <1>5, <2>2 DEF FreeMaster, IInv, OwnOnly
  <2>9. AnswerMatches'
    BY <1>5, <1>t, <2>6 DEF FreeMaster, IInv, OwnOnly, AnswerMatches, Queued, Served, TypeOK
  <2> QED BY <2>4, <2>5, <2>7, <2>8, <2>9 DEF IInv
<1>6. CASE Take
  <2>1. /\ q["ccplex"] # <<>> /\ q' = [q EXCEPT !["ccplex"] = <<>>]
        /\ up' = up /\ got' = [got EXCEPT !["bpmp"] = Head(q["ccplex"])]
        /\ serving' = Head(q["ccplex"]) /\ Head(q["ccplex"]) \in Requests
    BY <1>6, <1>t, <1>e, ReceiveFacts DEF Take
  <2>2. q'["ccplex"] = <<>> /\ q'["bpmp"] = q["bpmp"]
    BY <2>1, <1>t, <1>e DEF TypeOK
  <2>g. /\ got' \in [Ends -> 0..MaxRequests]
        /\ serving' \in 0..MaxRequests /\ serving' # None
    <3>1. Head(q["ccplex"]) \in 0..MaxRequests /\ Head(q["ccplex"]) # None
      BY <2>1, RequestsAssumption DEF Requests, None
    <3> QED BY <2>1, <3>1, <1>g
  <2>3. q' \in [Ends -> {<<>>} \cup {<<r>> : r \in Requests}]
    BY <2>1, <1>t DEF TypeOK
  <2>4. TypeOK'
    BY <1>6, <1>t, <2>1, <2>3, <2>g, Zenon DEF Take, TypeOK
  <2>5. serving' = sent
    BY <2>1 DEF IInv, InOrder
  <2>6. InOrder'
    <3>1. Queued = 1 /\ Queued' = 0 /\ Served = 0 /\ Served' = 1
      BY <1>6, <2>1, <2>2, <2>g DEF Take, Queued, Served
    <3>2. sent' - Queued' = sent /\ sent' - Queued' - Served' = sent - Queued - Served
      BY <1>6, <3>1, <1>t DEF Take, TypeOK
    <3> QED BY <2>2, <2>5, <3>2 DEF IInv, InOrder
  <2>7. Progress' /\ AnswerMatches' /\ LagBounded'
    BY <1>6, <2>2 DEF Take, IInv, Progress, AnswerMatches, LagBounded
  <2>8. (~late => OwnOnly)'
    BY <1>6, <2>1, <2>2, <2>g DEF Take, IInv, OwnOnly
  <2> QED BY <2>4, <2>6, <2>7, <2>8 DEF IInv
<1>7. CASE Answer
  <2>1. /\ q["bpmp"] = <<>> /\ q' = [q EXCEPT !["bpmp"] = <<serving>>]
        /\ up' = up /\ got' = got
    BY <1>7, <1>t, <1>e, SendFacts DEF Answer
  <2>2. q'["bpmp"] = <<serving>> /\ q'["ccplex"] = q["ccplex"]
    BY <2>1, <1>t, <1>e DEF TypeOK
  <2>g. serving \in Requests /\ serving' \in 0..MaxRequests
    BY <1>7, <1>t, RequestsAssumption DEF Answer, TypeOK, Requests, None
  <2>3. q' \in [Ends -> {<<>>} \cup {<<r>> : r \in Requests}]
    BY <2>1, <2>g, <1>t DEF TypeOK
  <2>4. TypeOK'
    BY <1>7, <1>t, <2>1, <2>3, <2>g, Zenon DEF Answer, TypeOK
  <2>5. InOrder'
    <3>1. Queued' = Queued /\ Served' = 0 /\ Queued \in {0, 1}
      BY <1>7, <2>2 DEF Answer, Queued, Served
    <3>2. sent' - Queued' - Served' = sent - Queued
      BY <1>7, <3>1, <1>t DEF Answer, TypeOK
    <3> QED BY <1>7, <2>2, <3>1, <3>2 DEF Answer, IInv, InOrder
  <2>6. Progress' /\ AnswerMatches' /\ LagBounded'
    BY <1>7, <2>1 DEF Answer, IInv, Progress, AnswerMatches, LagBounded
  <2>7. (~late => OwnOnly)'
    BY <1>7, <2>1, <2>2 DEF Answer, IInv, OwnOnly
  <2> QED BY <2>4, <2>5, <2>6, <2>7 DEF IInv
<1>8. CASE UNCHANGED vars
  BY <1>8 DEF vars, IInv, TypeOK, InOrder, Progress, OwnOnly, AnswerMatches, LagBounded,
              Queued, Served
<1> QED BY <1>1, <1>2, <1>3, <1>4, <1>5, <1>6, <1>7, <1>8 DEF Next, Xfer, Firmware

LEMMA IInvHolds == Spec => []IInv
BY InitIInv, NextIInv, PTL DEF Spec

\* Until a transfer times out, every transfer that succeeds returns the answer
\* to its own request, however many there are and however slow the firmware is
\* (tegrabl_ccplex_bpmp_xfer over a channel of one frame per direction).
THEOREM OwnAnswer == Spec => []AnswerMatches
<1>1. IInv => AnswerMatches
  BY DEF IInv
<1> QED BY <1>1, IInvHolds, PTL

\* After any number of timeouts, an answer is at most two requests old: the
\* transfer never drops a frame that came too late, and never overtakes one.
THEOREM BoundedLag == Spec => []LagBounded
<1>1. IInv => LagBounded
  BY DEF IInv
<1> QED BY <1>1, IInvHolds, PTL

\* The transfers and the firmware use the channel only as a pair of queues: no
\* step of theirs is one that IVCFifo does not allow.
THEOREM UsesFifo == Spec => Channel!Spec
<1>1. Init => Channel!Init
  BY DEF Init
<1>2. IInv /\ [Next]_vars => [Channel!Next]_(Channel!fifoVars)
  <2> SUFFICES ASSUME IInv, [Next]_vars PROVE [Channel!Next]_(Channel!fifoVars)
    OBVIOUS
  <2> USE DEF Channel!Next, Channel!fifoVars
  <2>t. TypeOK /\ "ccplex" \in Ends /\ "bpmp" \in Ends
    BY DEF IInv, Ends
  <2>1. CASE SignalSlave
    <3>1. sent' \in Requests
      BY <2>1, <2>t, RequestsAssumption DEF SignalSlave, TypeOK, Requests
    <3> QED BY <2>1, <2>t, <3>1 DEF SignalSlave
  <2>2. CASE FreeMaster \/ Take
    BY <2>2, <2>t DEF FreeMaster, Take
  <2>3. CASE Answer
    <3>1. serving \in Requests
      BY <2>3, <2>t, RequestsAssumption DEF Answer, TypeOK, Requests, None
    <3> QED BY <2>3, <2>t, <3>1 DEF Answer
  <2>4. CASE NoOutFrame \/ SlaveAcked \/ WaitTimesOut \/ UNCHANGED vars
    BY <2>4 DEF NoOutFrame, SlaveAcked, WaitTimesOut, vars
  <2> QED BY <2>1, <2>2, <2>3, <2>4 DEF Next, Xfer, Firmware
<1> QED BY <1>1, <1>2, IInvHolds, PTL DEF Spec, Channel!Spec
=============================================================================
