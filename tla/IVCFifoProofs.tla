---------------------------- MODULE IVCFifoProofs ----------------------------
(***************************************************************************)
(* An IVC channel implements a pair of bounded queues (IVCFifo), for every *)
(* ring size, width of the counts and number of restarts: the frames of a  *)
(* ring as a sequence, the steps of the queues in terms of the rings, the  *)
(* steps of the channel, each of which is a step of the queues or changes  *)
(* nothing of them, and the theorem.  At the end: no doorbell is missing.  *)
(***************************************************************************)
EXTENDS IVCRingProofs

(***************************************************************************)
(* Frames of a ring as a sequence.                                         *)
(***************************************************************************)

\* The n frames of a ring f from position r on.
Window(f, r, n) == [i \in 1..n |-> f[(r + i - 1) % NFrames]]

LEMMA WindowSeq ==
  ASSUME NEW f \in [Positions -> Contents], NEW r \in Positions, NEW n \in Nat
  PROVE  /\ Window(f, r, n) \in Seq(Contents)
         /\ Len(Window(f, r, n)) = n
         /\ \A i \in 1..n : Window(f, r, n)[i] = f[(r + i - 1) % NFrames]
<1>1. \A i \in 1..n : (r + i - 1) % NFrames \in Positions
  BY FramesAssumption DEF Positions
<1>2. Window(f, r, n) \in [1..n -> Contents]
  BY <1>1, Zenon DEF Window
<1>3. Window(f, r, n) \in Seq(Contents)
  BY <1>2
<1> QED BY <1>2, <1>3 DEF Window

\* A frame added at the end.
LEMMA WindowAppend ==
  ASSUME NEW f \in [Positions -> Contents], NEW r \in Positions, NEW n \in 0..NFrames
  PROVE  Window(f, r, n + 1) = Append(Window(f, r, n), f[(r + n) % NFrames])
<1> DEFINE s == Window(f, r, n)
           t == Window(f, r, n + 1)
           x == f[(r + n) % NFrames]
<1>0. n \in Nat /\ n + 1 \in Nat /\ (r + n) % NFrames \in Positions
  BY FramesAssumption DEF Positions
<1>1. /\ s \in Seq(Contents) /\ Len(s) = n /\ \A i \in 1..n : s[i] = f[(r + i - 1) % NFrames]
      /\ t \in Seq(Contents) /\ Len(t) = n + 1
      /\ \A i \in 1..(n + 1) : t[i] = f[(r + i - 1) % NFrames]
  BY <1>0, WindowSeq, Zenon
<1>2. x \in Contents /\ t[n + 1] = x
  <2>1. n + 1 \in 1..(n + 1) /\ r + (n + 1) - 1 = r + n
    BY <1>0, FramesAssumption DEF Positions
  <2> QED BY <1>0, <1>1, <2>1, Zenon
<1> HIDE DEF s, t, x
<1>3. /\ Append(s, x) \in Seq(Contents) /\ Len(Append(s, x)) = n + 1
      /\ \A i \in 1..n : Append(s, x)[i] = s[i]
      /\ Append(s, x)[n + 1] = x
  BY <1>0, <1>1, <1>2
<1>4. \A i \in 1..(n + 1) : t[i] = Append(s, x)[i]
  <2> SUFFICES ASSUME NEW i \in 1..(n + 1) PROVE t[i] = Append(s, x)[i]
    BY Zenon
  <2>1. CASE i = n + 1
    BY <1>2, <1>3, <2>1, Zenon
  <2>2. CASE i # n + 1
    <3>1. i \in 1..n
      BY <1>0, <2>2
    <3> QED BY <1>1, <1>3, <3>1, Zenon
  <2> QED BY <2>1, <2>2, Zenon
<1>5. t = Append(s, x)
  BY <1>1, <1>3, <1>4
<1> QED BY <1>5, Zenon DEF s, t, x

\* The first frame taken away.
LEMMA WindowTail ==
  ASSUME NEW f \in [Positions -> Contents], NEW r \in Positions, NEW n \in 1..NFrames
  PROVE  /\ Window(f, r, n) # <<>>
         /\ Head(Window(f, r, n)) = f[r]
         /\ Window(f, NextPos(r), n - 1) = Tail(Window(f, r, n))
<1> DEFINE s == Window(f, r, n)
           t == Window(f, NextPos(r), n - 1)
<1>0. n \in Nat /\ n - 1 \in Nat /\ NextPos(r) \in Positions /\ 1 \in 1..n
  BY PositionArithmetic, FramesAssumption DEF Positions, NextPos
<1>1. /\ s \in Seq(Contents) /\ Len(s) = n /\ \A i \in 1..n : s[i] = f[(r + i - 1) % NFrames]
      /\ t \in Seq(Contents) /\ Len(t) = n - 1
      /\ \A i \in 1..(n - 1) : t[i] = f[(NextPos(r) + i - 1) % NFrames]
  BY <1>0, WindowSeq, Zenon
<1>2. \A i \in 1..(n - 1) : (NextPos(r) + i - 1) % NFrames = (r + (i + 1) - 1) % NFrames
  BY FramesAssumption DEF Positions, NextPos
<1>3. (r + 1 - 1) % NFrames = r
  BY FramesAssumption DEF Positions
<1> HIDE DEF s, t
<1>4. s # <<>>
  BY <1>0, <1>1
<1>5. Tail(s) \in Seq(Contents) /\ Len(Tail(s)) = n - 1 /\ \A i \in 1..(n - 1) : Tail(s)[i] = s[i + 1]
  BY <1>1, <1>4
<1>6. \A i \in 1..(n - 1) : t[i] = Tail(s)[i]
  <2> SUFFICES ASSUME NEW i \in 1..(n - 1) PROVE t[i] = Tail(s)[i]
    BY Zenon
  <2>1. i + 1 \in 1..n
    BY <1>0
  <2> QED BY <1>1, <1>2, <1>5, <2>1, SMTT(20)
<1>7. t = Tail(s)
  BY <1>1, <1>5, <1>6
<1>8. Head(s) = s[1]
  BY <1>1, <1>4
<1>9. s[1] = f[r]
  BY <1>0, <1>1, <1>3, Zenon
<1> QED BY <1>4, <1>7, <1>8, <1>9, Zenon DEF s, t

\* A frame beyond the end does not matter.
LEMMA WindowSame ==
  ASSUME NEW f, NEW g, NEW r \in Positions, NEW n \in Nat, n < NFrames,
         \A k \in Positions : k # (r + n) % NFrames => g[k] = f[k]
  PROVE  Window(g, r, n) = Window(f, r, n)
<1>0. \A i \in 1..n : (r + i - 1) % NFrames \in Positions
  BY FramesAssumption DEF Positions
<1>1. \A i \in 1..n : (r + i - 1) % NFrames # (r + n) % NFrames
  <2> SUFFICES ASSUME NEW i \in 1..n PROVE (r + i - 1) % NFrames # (r + n) % NFrames
    OBVIOUS
  <2>1. i - 1 \in Nat /\ i - 1 < n /\ r + i - 1 = r + (i - 1)
    BY DEF Positions
  <2> QED BY <2>1, Apart, Zenon
<1> QED BY <1>0, <1>1, Zenon DEF Window

-----------------------------------------------------------------------------
(***************************************************************************)
(* The queues.                                                             *)
(***************************************************************************)

IsUp(e) == state[e] = "established" /\ pc[e] # "reset"

\* InFlight, with the peer p of e.
Flight(e, p) ==
  IF Dropped(e, p) THEN <<>> ELSE Window(frame[e], r_pos[p], AvailCount(e))

LEMMA FlightIsInFlight ==
  ASSUME NEW e \in Ends, NEW p \in Ends, p = Peer(e)
  PROVE  InFlight(e) = Flight(e, p) /\ InFlight(e)' = Flight(e, p)'
BY Zenon DEF InFlight, Flight, Dropped, Window

\* Endpoint e is at work and p is its peer; FInv gives what is known of them.
Working(e, p) ==
  /\ e \in Ends /\ p \in Ends /\ p # e /\ p = Peer(e) /\ e = Peer(p) /\ Ends = {e, p}
  /\ Facts(e, p) /\ KeepsAll(p)
  /\ frame[e] \in [Positions -> Contents] /\ frame[p] \in [Positions -> Contents]
  /\ r_pos[e] \in Positions /\ r_pos[p] \in Positions
  /\ w_count[e] \in Counts /\ r_count[p] \in Counts
  /\ w_count[p] \in Counts /\ r_count[e] \in Counts
  /\ got \in [Ends -> Contents]

LEMMA WorkingHolds ==
  ASSUME FInv, NEW e \in Ends, Step(e)
  PROVE  Working(e, Peer(e))
<1>1. Peer(e) \in Ends /\ Peer(e) # e /\ Peer(Peer(e)) = e /\ Ends = {e, Peer(e)}
  BY PeerFacts, Zenon DEF Ends, Peer
<1>2. Facts(e, Peer(e)) /\ KeepsAll(Peer(e))
  BY FactsHold, OnlyOwn, Zenon
<1> QED BY <1>1, <1>2, Zenon DEF Working, FInv, DataType, HInv, HandshakeType

\* The steps of the queues in these terms.
LEMMA Stutters ==
  ASSUME NEW e, NEW p, Working(e, p), IsUp(e)' <=> IsUp(e),
         Flight(e, p)' = Flight(e, p), Flight(p, e)' = Flight(p, e), got' = got
  PROVE  UNCHANGED Fifo!fifoVars
<1>1. IsUp(p)' <=> IsUp(p)
  BY Zenon DEF Working, KeepsAll, Keeps, IsUp
<1>2. InFlight(e)' = InFlight(e) /\ InFlight(p)' = InFlight(p)
  BY FlightIsInFlight, Zenon DEF Working
<1>3. \A d \in Ends : (IsUp(d)' <=> IsUp(d)) /\ InFlight(d)' = InFlight(d)
  BY <1>1, <1>2, Zenon DEF Working
<1> QED BY <1>3, Zenon DEF Fifo!fifoVars, IsUp

LEMMA Sends ==
  ASSUME NEW e, NEW p, Working(e, p), IsUp(e), IsUp(e)',
         NEW f \in Frames, Flight(e, p)' = Append(Flight(e, p), f),
         Len(Flight(e, p)) < NFrames, Flight(p, e)' = Flight(p, e), got' = got
  PROVE  Fifo!Next
<1>1. IsUp(p)' <=> IsUp(p)
  BY Zenon DEF Working, KeepsAll, Keeps, IsUp
<1>2. /\ InFlight(e)' = Append(InFlight(e), f) /\ Len(InFlight(e)) < NFrames
      /\ InFlight(p)' = InFlight(p)
  BY FlightIsInFlight, Zenon DEF Working
<1>3. Fifo!Send(e, f)
  BY <1>1, <1>2, Zenon DEF Working, Fifo!Send, IsUp
<1> QED BY <1>3, Zenon DEF Working, Fifo!Next

LEMMA Receives ==
  ASSUME NEW e, NEW p, Working(e, p), IsUp(e), IsUp(e)',
         Flight(p, e) # <<>>, Flight(p, e)' = Tail(Flight(p, e)),
         got' = [got EXCEPT ![e] = Head(Flight(p, e))],
         Flight(e, p)' = Flight(e, p)
  PROVE  Fifo!Next
<1>1. IsUp(p)' <=> IsUp(p)
  BY Zenon DEF Working, KeepsAll, Keeps, IsUp
<1>2. /\ InFlight(p)' = Tail(InFlight(p)) /\ InFlight(p) # <<>>
      /\ got' = [got EXCEPT ![e] = Head(InFlight(p))]
      /\ InFlight(e)' = InFlight(e)
  BY FlightIsInFlight, Zenon DEF Working
<1> DEFINE up == [d \in Ends |-> state[d] = "established" /\ pc[d] # "reset"]
           q == [d \in Ends |-> InFlight(d)]
<1>3. up[e] /\ up' = up
  BY <1>1, Zenon DEF Working, IsUp
<1>4. q[Peer(e)] = InFlight(p) /\ q' = [q EXCEPT ![Peer(e)] = Tail(q[Peer(e)])]
  BY <1>2, Zenon DEF Working
<1> HIDE DEF up, q
<1>5. Fifo!Receive(e)
  BY <1>2, <1>3, <1>4, Zenon DEF Fifo!Receive, up, q
<1> QED BY <1>5, Zenon DEF Working, Fifo!Next

\* The queues may lose their frames where d, one of the two, is down.
LEMMA GoesDown ==
  ASSUME NEW e, NEW p, Working(e, p), NEW d \in {e, p}, ~IsUp(d)',
         d = p => (IsUp(e)' <=> IsUp(e)),
         Flight(e, p)' \in {Flight(e, p), <<>>}, Flight(p, e)' \in {Flight(p, e), <<>>},
         got' = got
  PROVE  Fifo!Next
<1>1. IsUp(p)' <=> IsUp(p)
  BY Zenon DEF Working, KeepsAll, Keeps, IsUp
<1>2. InFlight(e)' \in {InFlight(e), <<>>} /\ InFlight(p)' \in {InFlight(p), <<>>}
  BY FlightIsInFlight, Zenon DEF Working
<1>3. Fifo!Down(d)
  BY <1>1, <1>2, Zenon DEF Working, Fifo!Down, IsUp
<1> QED BY <1>3, Zenon DEF Working, Fifo!Next

LEMMA ComesUp ==
  ASSUME NEW e, NEW p, Working(e, p), ~IsUp(e), IsUp(e)', Flight(e, p) = <<>>,
         Flight(e, p)' = Flight(e, p), Flight(p, e)' = Flight(p, e), got' = got
  PROVE  Fifo!Next
<1>1. IsUp(p)' <=> IsUp(p)
  BY Zenon DEF Working, KeepsAll, Keeps, IsUp
<1>2. InFlight(e) = <<>> /\ InFlight(e)' = InFlight(e) /\ InFlight(p)' = InFlight(p)
  BY FlightIsInFlight, Zenon DEF Working
<1>3. Fifo!Up(e)
  BY <1>1, <1>2, Zenon DEF Working, Fifo!Up, IsUp
<1> QED BY <1>3, Zenon DEF Working, Fifo!Next

-----------------------------------------------------------------------------
(***************************************************************************)
(* What each step does to the queues.                                      *)
(***************************************************************************)

Simulated == Fifo!Next \/ UNCHANGED Fifo!fifoVars

LEMMA SameFlight ==
  ASSUME NEW e, NEW p, Dropped(e, p)' <=> Dropped(e, p),
         ~Dropped(e, p) => /\ AvailCount(e)' = AvailCount(e)
                           /\ r_pos'[p] = r_pos[p] /\ frame'[e] = frame[e]
  PROVE  Flight(e, p)' = Flight(e, p)
BY Zenon DEF Flight, Window

LEMMA SameAvail ==
  ASSUME NEW e, NEW p, p = Peer(e), w_count'[e] = w_count[e], r_count'[p] = r_count[p]
  PROVE  AvailCount(e)' = AvailCount(e)
BY Zenon DEF AvailCount

LEMMA EmptyAvail ==
  ASSUME NEW e, NEW p, p = Peer(e), w_count[e] = 0, r_count[p] = 0
  PROVE  AvailCount(e) = 0
<1>1. (0 - 0) % CountModulus = 0
  BY CountAssumption, FramesAssumption
<1> QED BY <1>1, Zenon DEF AvailCount

\* Checks, the copy out of a frame and doorbells are not seen.
LEMMA QuietSimulated ==
  ASSUME NEW e, NEW p, Working(e, p),
         UNCHANGED <<w_count, r_count, state, frame, r_pos, peer, got>>,
         pc[e] \notin {"reset", "set_state"}, pc'[e] \notin {"reset", "set_state"}
  PROVE  Simulated
<1>0. KeepsAll(p) /\ p = Peer(e) /\ e = Peer(p)
  BY Zenon DEF Working
<1>1. /\ IsUp(e)' <=> IsUp(e)
      /\ Dropped(e, p)' <=> Dropped(e, p)
      /\ Dropped(p, e)' <=> Dropped(p, e)
  BY <1>0, Zenon DEF IsUp, Dropped, Restarted, Acknowledged, KeepsAll, Keeps
<1>2. AvailCount(e)' = AvailCount(e) /\ AvailCount(p)' = AvailCount(p)
  BY Zenon DEF AvailCount
<1>3. Flight(e, p)' = Flight(e, p) /\ Flight(p, e)' = Flight(p, e)
  BY <1>1, <1>2, SameFlight, Zenon
<1> QED BY <1>1, <1>3, Stutters, Zenon DEF Simulated

LEMMA NotifiedSimulated ==
  ASSUME FInv, NEW e, NEW p, Working(e, p), ChannelNotified(e)
  PROVE  Simulated
<1>0. KeepsAll(p) /\ p = Peer(e) /\ e = Peer(p) /\ e \in Ends
  BY Zenon DEF Working
<1>1. /\ pc[e] \in {"idle", "full"} /\ pc'[e] = Handshake(e, state[p])
      /\ pc'[e] = "set_state" => peer'[e] = state[p]
      /\ UNCHANGED <<w_count, r_count, state, frame, r_pos, got>>
  BY <1>0, Zenon DEF ChannelNotified, Goto, shared, FInv, HInv, HandshakeType
<1>2. IsUp(e)' <=> IsUp(e)
  BY <1>1, Zenon DEF IsUp, Handshake
<1>3. Dropped(e, p)' <=> Dropped(e, p)
  BY <1>0, <1>1, Zenon DEF Dropped, Restarted, Acknowledged, KeepsAll, Keeps
<1>4. Dropped(p, e)' <=> Dropped(p, e)
  <2>1. Restarted(e)' <=> Restarted(e)
    BY <1>1, Zenon DEF Restarted, Handshake
  <2>2. state[p] = "sync" => (Acknowledged(e)' <=> Acknowledged(e))
    BY <1>1, Zenon DEF Acknowledged, Handshake
  <2> QED BY <1>1, <2>1, <2>2, Zenon DEF Dropped
<1>5. AvailCount(e)' = AvailCount(e) /\ AvailCount(p)' = AvailCount(p)
  BY <1>1, Zenon DEF AvailCount
<1>6. Flight(e, p)' = Flight(e, p) /\ Flight(p, e)' = Flight(p, e)
  BY <1>1, <1>3, <1>4, <1>5, SameFlight, Zenon
<1> QED BY <1>1, <1>2, <1>6, Stutters, Zenon DEF Simulated

\* A frame that is filled in is not yet on the way.
LEMMA WriteFrameSimulated ==
  ASSUME FInv, NEW e, NEW p, Working(e, p), WriteFrame(e)
  PROVE  Simulated
<1>0. /\ KeepsAll(p) /\ p = Peer(e) /\ e = Peer(p) /\ e \in Ends /\ p # e /\ Facts(e, p)
      /\ frame[e] \in [Positions -> Contents] /\ r_pos[p] \in Positions
  BY Zenon DEF Working
<1>1. /\ pc[e] = "write" /\ pc'[e] = "w_advance"
      /\ frame'[e] = [frame[e] EXCEPT ![w_pos[e]] = buf[e]]
      /\ frame'[p] = frame[p]
      /\ UNCHANGED <<w_count, r_count, state, r_pos, peer, got>>
  BY <1>0, Zenon DEF WriteFrame, Goto, FInv, HInv, HandshakeType, DataType, KeepsAll
<1>2. /\ IsUp(e)' <=> IsUp(e)
      /\ Dropped(e, p)' <=> Dropped(e, p)
      /\ Dropped(p, e)' <=> Dropped(p, e)
  BY <1>0, <1>1, Zenon DEF IsUp, Dropped, Restarted, Acknowledged, KeepsAll, Keeps
<1>3. AvailCount(e)' = AvailCount(e) /\ AvailCount(p)' = AvailCount(p)
  BY <1>1, Zenon DEF AvailCount
<1>4. Flight(p, e)' = Flight(p, e)
  BY <1>1, <1>2, <1>3, SameFlight, Zenon
<1>5. Flight(e, p)' = Flight(e, p)
  <2>1. CASE Dropped(e, p)
    BY <1>2, <2>1, Zenon DEF Flight
  <2>2. CASE ~Dropped(e, p)
    <3>1. ~Restarted(e) /\ ~Restarted(p)
      BY <1>0, <1>1, <2>2, Zenon DEF Facts, Zeroed, Restarted, Dropped
    <3>2. /\ AvailCount(e) \in Nat /\ AvailCount(e) < NFrames
          /\ w_pos[e] = (r_pos[p] + AvailCount(e)) % NFrames
      BY <1>0, <1>1, <3>1, Zenon DEF Facts, Flow, Placed
    <3>3. Window(frame'[e], r_pos[p], AvailCount(e)) = Window(frame[e], r_pos[p], AvailCount(e))
      <4>1. \A k \in Positions : k # (r_pos[p] + AvailCount(e)) % NFrames => frame'[e][k] = frame[e][k]
        BY <1>0, <1>1, <3>2, Zenon
      <4> QED BY <1>0, <3>2, <4>1, WindowSame, Zenon
    <3>4. Flight(e, p)' = Window(frame'[e], r_pos[p], AvailCount(e))
      BY <1>1, <1>2, <1>3, <2>2, Zenon DEF Flight, Window
    <3> QED BY <2>2, <3>3, <3>4, Zenon DEF Flight
  <2> QED BY <2>1, <2>2, Zenon
<1> QED BY <1>1, <1>2, <1>4, <1>5, Stutters, Zenon DEF Simulated

\* The write count announces the frame: it is sent, unless the peer is being
\* reset and will not see it.
LEMMA AdvanceTxSimulated ==
  ASSUME FInv, NEW e, NEW p, Working(e, p), AdvanceTx(e)
  PROVE  Simulated
<1>0. /\ KeepsAll(p) /\ p = Peer(e) /\ e = Peer(p) /\ e \in Ends /\ p # e /\ Facts(e, p)
      /\ frame[e] \in [Positions -> Contents] /\ r_pos[p] \in Positions
      /\ w_count[e] \in Counts /\ r_count[p] \in Counts /\ p \in Ends
  BY Zenon DEF Working
<1>1. /\ pc[e] = "w_advance" /\ pc'[e] = "w_notify"
      /\ w_count'[e] = (w_count[e] + 1) % CountModulus
      /\ UNCHANGED <<r_count, state, frame, r_pos, peer, got>>
  BY <1>0, Zenon DEF AdvanceTx, Goto, FInv, HInv, HandshakeType
<1>2. /\ IsUp(e)' /\ IsUp(e) /\ ~Restarted(e) /\ state[e] = "established"
      /\ Dropped(e, p)' <=> Dropped(e, p)
      /\ Dropped(p, e)' <=> Dropped(p, e)
  BY <1>0, <1>1, Zenon DEF IsUp, Dropped, Restarted, Acknowledged, KeepsAll, Keeps, Facts, Zeroed
<1>3. AvailCount(p)' = AvailCount(p)
  BY <1>0, <1>1, SameAvail, Zenon DEF KeepsAll, Keeps
<1>4. Flight(p, e)' = Flight(p, e)
  BY <1>1, <1>2, <1>3, SameFlight
<1>5. CASE Restarted(p)
  <2>1. Flight(e, p)' = <<>> /\ Flight(e, p) = <<>>
    BY <1>2, <1>5 DEF Flight, Dropped
  <2> QED BY <1>1, <1>2, <1>4, <2>1, Stutters, Zenon DEF Simulated
<1>6. CASE ~Restarted(p)
  <2> DEFINE a == AvailCount(e)
  <2>1. ~Dropped(e, p) /\ ~Dropped(e, p)'
    BY <1>2, <1>6, Zenon DEF Dropped
  <2>2. /\ a \in Nat /\ a < NFrames /\ w_pos[e] = (r_pos[p] + a) % NFrames
        /\ frame[e][w_pos[e]] \in Frames
    BY <1>0, <1>1, <1>2, <1>6, Zenon DEF Facts, Flow, Own, Placed
  <2>3. AvailCount(e)' = a + 1
    <3>1. /\ e \in Ends /\ p \in Ends /\ Peer(e) = p /\ w_count[e] \in Counts /\ r_count[p] \in Counts
          /\ w_count'[e] = (w_count[e] + 1) % CountModulus /\ r_count' = r_count
      BY <1>0, <1>1, Zenon
    <3> QED BY <2>2, <3>1, AddsOne, Zenon
  <2>4. Flight(e, p) = Window(frame[e], r_pos[p], a)
    BY <2>1, Zenon DEF Flight
  <2>5. Flight(e, p)' = Window(frame[e], r_pos[p], a + 1)
    BY <1>1, <2>1, <2>3, Zenon DEF Flight, Window
  <2> HIDE DEF a
  <2>6. Flight(e, p)' = Append(Flight(e, p), frame[e][w_pos[e]])
    <3>1. a \in 0..NFrames
      BY <2>2, FramesAssumption
    <3>2. Window(frame[e], r_pos[p], a + 1)
            = Append(Window(frame[e], r_pos[p], a), frame[e][(r_pos[p] + a) % NFrames])
      BY <1>0, <3>1, WindowAppend, Zenon
    <3> QED BY <2>2, <2>4, <2>5, <3>2, Zenon
  <2>7. Len(Flight(e, p)) < NFrames
    BY <1>0, <2>2, <2>4, WindowSeq
  <2> QED BY <1>1, <1>2, <1>4, <2>2, <2>6, <2>7, Sends, Zenon DEF Simulated
<1> QED BY <1>5, <1>6, Zenon

\* The read count frees the frame: it is received.
LEMMA AdvanceRxSimulated ==
  ASSUME FInv, NEW e, NEW p, Working(e, p), AdvanceRx(e)
  PROVE  Simulated
<1>0. /\ KeepsAll(p) /\ p = Peer(e) /\ e = Peer(p) /\ e \in Ends /\ p \in Ends /\ p # e
      /\ Facts(e, p)
      /\ frame[p] \in [Positions -> Contents] /\ r_pos[e] \in Positions
      /\ w_count[p] \in Counts /\ r_count[e] \in Counts
  BY Zenon DEF Working
<1>1. /\ pc[e] = "r_advance" /\ pc'[e] = "r_notify"
      /\ r_count'[e] = (r_count[e] + 1) % CountModulus
      /\ r_pos'[e] = NextPos(r_pos[e]) /\ r_pos'[p] = r_pos[p]
      /\ got' = [got EXCEPT ![e] = buf[e]]
      /\ UNCHANGED <<w_count, state, frame, peer>>
  BY <1>0, Zenon DEF AdvanceRx, Goto, FInv, HInv, HandshakeType, DataType, KeepsAll
<1>2. /\ IsUp(e)' /\ IsUp(e) /\ ~Dropped(p, e) /\ ~Dropped(p, e)'
      /\ Dropped(e, p)' <=> Dropped(e, p)
  <2>1. /\ pc[e] = "r_advance" /\ pc'[e] = "r_notify" /\ pc'[p] = pc[p]
        /\ state[e] = "established" /\ state' = state /\ peer' = peer
    BY <1>0, <1>1, Zenon DEF KeepsAll, Keeps, Facts, Zeroed
  <2> QED BY <2>1, Zenon DEF IsUp, Dropped, Restarted, Acknowledged
<1>3. AvailCount(e)' = AvailCount(e)
  BY <1>0, <1>1, SameAvail, Zenon DEF KeepsAll, Keeps
<1>4. Flight(e, p)' = Flight(e, p)
  BY <1>1, <1>2, <1>3, SameFlight, Zenon
<1> DEFINE a == AvailCount(p)
<1>5. a \in 1..NFrames /\ a >= 1 /\ buf[e] = frame[p][r_pos[e]]
  <2>1. Flow(p, e) /\ a \in Nat
    BY <1>0, Zenon DEF Facts
  <2>2. pc[e] = "r_advance" /\ ~Dropped(p, e)
    BY <1>1, <1>2, Zenon
  <2>3. a <= NFrames /\ a >= 1 /\ buf[e] = frame[p][r_pos[e]]
    BY <2>1, <2>2, Zenon DEF Flow
  <2> QED BY <2>1, <2>3, FramesAssumption
<1>6. AvailCount(p)' = a - 1
  BY <1>0, <1>1, <1>5, FreesOne, Zenon
<1>7. Flight(p, e) = Window(frame[p], r_pos[e], a)
  BY <1>2, Zenon DEF Flight
<1>8. Flight(p, e)' = Window(frame[p], NextPos(r_pos[e]), a - 1)
  <2>1. Flight(p, e)' = Window(frame'[p], r_pos'[e], AvailCount(p)')
    BY <1>2, Zenon DEF Flight, Window
  <2> QED BY <1>1, <1>6, <2>1, Zenon
<1> HIDE DEF a
<1>9. Flight(p, e) # <<>> /\ Head(Flight(p, e)) = buf[e] /\ Flight(p, e)' = Tail(Flight(p, e))
  <2>1. frame[p] \in [Positions -> Contents] /\ r_pos[e] \in Positions /\ a \in 1..NFrames
    BY <1>0, <1>5, Zenon
  <2>2. /\ Window(frame[p], r_pos[e], a) # <<>>
        /\ Head(Window(frame[p], r_pos[e], a)) = frame[p][r_pos[e]]
        /\ Window(frame[p], NextPos(r_pos[e]), a - 1) = Tail(Window(frame[p], r_pos[e], a))
    BY <2>1, WindowTail, Zenon
  <2> QED BY <1>5, <1>7, <1>8, <2>2, Zenon
<1> QED BY <1>1, <1>2, <1>4, <1>9, Receives, Zenon DEF Simulated

(***************************************************************************)
(* The steps of a reset, as steps of the queues.                           *)
(***************************************************************************)

\* Counts are cleared where nothing is on the way from e, and what was on the
\* way to e is dropped.
LEMMA ClearWSimulated ==
  ASSUME FInv, NEW e, NEW p, Working(e, p), ClearW(e)
  PROVE  Simulated
<1>0. KeepsAll(p) /\ p = Peer(e) /\ e = Peer(p) /\ e \in Ends /\ p \in Ends /\ Facts(e, p)
  BY Zenon DEF Working
<1>1. /\ pc[e] = "clear_w" /\ pc'[e] = "clear_r" /\ w_count'[e] = 0
      /\ UNCHANGED <<r_count, state, frame, r_pos, peer, got>>
  BY <1>0, Zenon DEF ClearW, Goto, FInv, HInv, HandshakeType
<1>2. /\ IsUp(e)' <=> IsUp(e)
      /\ Dropped(e, p)' <=> Dropped(e, p)
      /\ Dropped(p, e)' <=> Dropped(p, e)
  BY <1>0, <1>1, Zenon DEF IsUp, Dropped, Restarted, Acknowledged, KeepsAll, Keeps
<1>3. AvailCount(p)' = AvailCount(p)
  BY <1>0, <1>1, SameAvail, Zenon DEF KeepsAll, Keeps
<1>4. ~Dropped(e, p) => AvailCount(e)' = AvailCount(e)
  <2>1. ~Dropped(e, p) => state[e] = "ack"
    BY <1>0, <1>1, HandlerFacts, Zenon DEF InHandler, Facts, States, Dropped
  <2>2. state[e] = "ack" => w_count[e] = 0
    BY <1>0, Zenon DEF Facts, Zeroed
  <2> QED BY <1>0, <1>1, <2>1, <2>2, SameAvail, Zenon
<1>5. Flight(e, p)' = Flight(e, p) /\ Flight(p, e)' = Flight(p, e)
  BY <1>1, <1>2, <1>3, <1>4, SameFlight, Zenon
<1> QED BY <1>1, <1>2, <1>5, Stutters, Zenon DEF Simulated

LEMMA ClearRSimulated ==
  ASSUME FInv, NEW e, NEW p, Working(e, p), ClearR(e)
  PROVE  Simulated
<1>0. /\ KeepsAll(p) /\ p = Peer(e) /\ e = Peer(p) /\ e \in Ends /\ p \in Ends /\ p # e
      /\ Facts(e, p)
  BY Zenon DEF Working
<1>1. /\ pc[e] = "clear_r" /\ pc'[e] = "set_state" /\ r_count'[e] = 0 /\ r_pos'[e] = 0
      /\ r_pos'[p] = r_pos[p]
      /\ UNCHANGED <<w_count, state, frame, peer, got>>
  BY <1>0, Zenon DEF ClearR, Goto, FInv, HInv, HandshakeType, DataType, KeepsAll
<1>2. /\ IsUp(e)' <=> IsUp(e)
      /\ Dropped(e, p)' <=> Dropped(e, p)
  BY <1>0, <1>1, Zenon DEF IsUp, Dropped, Restarted, Acknowledged, KeepsAll, Keeps
<1>3. AvailCount(e)' = AvailCount(e)
  BY <1>0, <1>1, SameAvail, Zenon DEF KeepsAll, Keeps
<1>4. Flight(e, p)' = Flight(e, p)
  BY <1>1, <1>2, <1>3, SameFlight, Zenon
<1>5. CASE state[e] = "established"
  <2>1. ~IsUp(p)' /\ Dropped(p, e)'
    BY <1>0, <1>1, <1>5, Zenon DEF Facts, Sampled, InHandler, IsUp, Dropped, Acknowledged, KeepsAll, Keeps
  <2>2. Flight(p, e)' = <<>>
    BY <2>1, Zenon DEF Flight
  <2> QED BY <1>1, <1>2, <1>4, <2>1, <2>2, GoesDown, Zenon DEF Simulated
<1>6. CASE state[e] # "established"
  <2>1. Dropped(p, e)' <=> Dropped(p, e)
    BY <1>0, <1>1, <1>6, Zenon
    DEF Facts, Sampled, InHandler, States, Dropped, Restarted, Acknowledged, KeepsAll, Keeps
  <2>2. ~Dropped(p, e) => state[e] = "ack"
    BY <1>0, <1>6, Zenon DEF Facts, States, Dropped, Restarted
  <2>3. state[e] = "ack" => r_count[e] = 0 /\ r_pos[e] = 0
    BY <1>0, Zenon DEF Facts, Zeroed, Own
  <2>4. ~Dropped(p, e) => AvailCount(p)' = AvailCount(p)
    BY <1>0, <1>1, <2>2, <2>3, SameAvail, Zenon
  <2>5. Flight(p, e)' = Flight(p, e)
    BY <1>1, <2>1, <2>2, <2>3, <2>4, SameFlight, Zenon
  <2> QED BY <1>1, <1>2, <1>4, <2>5, Stutters, Zenon DEF Simulated
<1> QED BY <1>5, <1>6, Zenon

\* Setting the state drops nothing: in state sync nothing was on the way, and
\* both rings are empty when they count again.
LEMMA SetStateSimulated ==
  ASSUME FInv, NEW e, NEW p, Working(e, p), SetState(e)
  PROVE  Simulated
<1>0. /\ KeepsAll(p) /\ p = Peer(e) /\ e = Peer(p) /\ e \in Ends /\ p \in Ends /\ p # e
      /\ Facts(e, p)
  BY Zenon DEF Working
<1>1. /\ pc[e] = "set_state" /\ pc'[e] = "notify"
      /\ state'[e] = IF peer[e] = "sync" THEN "ack" ELSE "established"
      /\ UNCHANGED <<w_count, r_count, frame, r_pos, got>>
  BY <1>0, Zenon DEF SetState, Goto, FInv, HInv, HandshakeType
<1>a. AvailCount(e)' = AvailCount(e) /\ AvailCount(p)' = AvailCount(p)
  BY <1>1, Zenon DEF AvailCount
<1>2. /\ state'[e] = "ack" <=> peer[e] = "sync"
      /\ state'[e] # "sync"
      /\ Acknowledged(e)' <=> Acknowledged(e)
  BY <1>1, Zenon DEF Acknowledged
<1>3. /\ Restarted(p)' <=> Restarted(p)
      /\ Dropped(e, p)' <=> Restarted(p)
      /\ Dropped(p, e)' <=> state[p] = "sync" /\ peer[e] = "sync"
  BY <1>0, <1>1, <1>2, Zenon DEF Dropped, Restarted, Acknowledged, KeepsAll, Keeps
<1>4. Flight(e, p)' = Flight(e, p) /\ Flight(p, e)' = Flight(p, e)
  <2>1. CASE state[e] = "sync"
    <3>1. Flight(e, p) = <<>> /\ Flight(p, e) = <<>>
      BY <1>0, <1>1, <2>1, HandlerFacts, Zenon DEF Flight, InHandler
    <3>2. \/ state[p] = "ack" /\ AvailCount(e) = 0 /\ AvailCount(p) = 0
          \/ state[p] = "sync" /\ peer[e] = "sync"
      <4>1. /\ w_count[e] = 0 /\ r_count[e] = 0
            /\ state[p] = "ack" => w_count[p] = 0 /\ r_count[p] = 0
        BY <1>0, <1>1, Zenon DEF Facts, Zeroed
      <4>2. Sampled(e, p)
        BY <1>0, Zenon DEF Facts
      <4>3. state[p] = "ack" \/ (state[p] = "sync" /\ peer[e] = "sync")
        BY <1>1, <2>1, <4>2, Zenon DEF Sampled, InHandler
      <4> QED BY <1>0, <4>1, <4>3, EmptyAvail, Zenon
    <3>3. Flight(e, p)' = <<>> /\ Flight(p, e)' = <<>>
      <4>1. CASE state[p] = "ack" /\ AvailCount(e) = 0 /\ AvailCount(p) = 0
        <5>1. \A f, r : Window(f, r, 0) = <<>>
          BY DEF Window
        <5> QED BY <1>a, <4>1, <5>1 DEF Flight, Window
      <4>2. CASE state[p] = "sync" /\ peer[e] = "sync"
        BY <1>3, <4>2, Zenon DEF Flight, Restarted
      <4> QED BY <3>2, <4>1, <4>2, Zenon
    <3> QED BY <3>1, <3>3, Zenon
  <2>2. CASE state[e] # "sync"
    <3>1. /\ Dropped(e, p) <=> Restarted(p)
          /\ Dropped(p, e) <=> state[p] = "sync" /\ peer[e] = "sync"
      BY <1>1, <2>2, Zenon DEF Dropped, Restarted, Acknowledged
    <3> QED BY <1>1, <1>3, <1>a, <3>1, SameFlight, Zenon
  <2> QED BY <2>1, <2>2, Zenon
<1>5. CASE peer[e] = "sync"
  <2>1. ~IsUp(e)'
    BY <1>2, <1>5, Zenon DEF IsUp
  <2> QED BY <1>0, <1>1, <1>4, <2>1, GoesDown, Zenon DEF Simulated
<1>6. CASE peer[e] # "sync"
  <2>1. state[e] # "established" /\ ~IsUp(e) /\ IsUp(e)'
    BY <1>0, <1>1, <1>6, Zenon DEF IsUp, Facts, Sampled, InHandler
  <2>2. Flight(e, p) = <<>>
    <3>1. CASE Dropped(e, p)
      BY <3>1, Zenon DEF Flight
    <3>2. CASE ~Dropped(e, p)
      <4>1. state[e] = "ack" /\ ~Restarted(p)
        BY <1>0, <1>1, <2>1, <3>2, HandlerFacts, Zenon DEF Facts, States, InHandler, Dropped
      <4>2. AvailCount(e) = 0
        BY <1>0, <4>1, Zenon DEF Facts, Flow
      <4> QED BY <3>2, <4>2 DEF Flight, Window
    <3> QED BY <3>1, <3>2, Zenon
  <2> QED BY <1>1, <1>4, <2>1, <2>2, ComesUp, Zenon DEF Simulated
<1> QED BY <1>5, <1>6, Zenon

\* A restart takes the endpoint down, and what was on the way to it.
LEMMA ResetSimulated ==
  ASSUME FInv, NEW e, NEW p, Working(e, p), Restart(e) \/ ChannelReset(e)
  PROVE  Simulated
<1>0. /\ KeepsAll(p) /\ p = Peer(e) /\ e = Peer(p) /\ e \in Ends /\ p \in Ends /\ p # e
  BY Zenon DEF Working
<1>1. /\ \/ pc'[e] = "reset" /\ state' = state
         \/ pc'[e] = "reset_notify" /\ pc[e] = "reset" /\ state'[e] = "sync"
      /\ r_pos'[p] = r_pos[p]
      /\ UNCHANGED <<w_count, r_count, frame, got>>
  BY <1>0, Zenon DEF Restart, ChannelReset, Goto, shared, private, FInv, HInv, HandshakeType, KeepsAll
<1>2. ~IsUp(e)' /\ Dropped(p, e)'
  BY <1>1, Zenon DEF IsUp, Dropped, Restarted
<1>3. Flight(p, e)' = <<>>
  BY <1>2, Zenon DEF Flight
<1>4. Dropped(e, p) => Dropped(e, p)'
  BY <1>0, <1>1, Zenon DEF Dropped, Restarted, Acknowledged, KeepsAll, Keeps
<1>5. AvailCount(e)' = AvailCount(e)
  BY <1>1, Zenon DEF AvailCount
<1>6. Flight(e, p)' \in {Flight(e, p), <<>>}
  <2>1. CASE Dropped(e, p)'
    BY <2>1, Zenon DEF Flight
  <2>2. CASE ~Dropped(e, p)'
    BY <1>1, <1>4, <1>5, <2>2, SameFlight
  <2> QED BY <2>1, <2>2, Zenon
<1> QED BY <1>0, <1>1, <1>2, <1>3, <1>6, GoesDown, Zenon DEF Simulated

LEMMA StepSimulated ==
  ASSUME FInv, NEW e \in Ends, Step(e)
  PROVE  Simulated
<1> DEFINE p == Peer(e)
<1>w. Working(e, p)
  BY WorkingHolds, Zenon
<1> HIDE DEF p
<1>1. CASE CheckWrite(e) \/ CheckRead(e) \/ ReadFrame(e)
  <2>1. /\ UNCHANGED <<w_count, r_count, state, frame, r_pos, peer, got>>
        /\ pc[e] \notin {"reset", "set_state"} /\ pc'[e] \notin {"reset", "set_state"}
    BY <1>1 DEF CheckWrite, CheckRead, ReadFrame, Goto, shared, private, FInv, HInv, HandshakeType
  <2> QED BY <1>w, <2>1, QuietSimulated, Zenon
<1>2. CASE WriteNotify(e) \/ ReadNotify(e) \/ Notify(e) \/ ResetNotify(e)
  <2>1. /\ UNCHANGED <<w_count, r_count, state, frame, r_pos, peer, got>>
        /\ pc[e] \notin {"reset", "set_state"} /\ pc'[e] \notin {"reset", "set_state"}
    BY <1>2, Zenon
    DEF WriteNotify, ReadNotify, Notify, ResetNotify, Goto, shared, private, FInv, HInv, HandshakeType
  <2> QED BY <1>w, <2>1, QuietSimulated, Zenon
<1>3. CASE WriteFrame(e) \/ AdvanceTx(e) \/ AdvanceRx(e)
  BY <1>w, <1>3, WriteFrameSimulated, AdvanceTxSimulated, AdvanceRxSimulated
<1>4. CASE ChannelNotified(e) \/ ClearW(e) \/ ClearR(e) \/ SetState(e)
  BY <1>w, <1>4, NotifiedSimulated, ClearWSimulated, ClearRSimulated, SetStateSimulated, Zenon
<1>5. CASE Restart(e) \/ ChannelReset(e)
  BY <1>w, <1>5, ResetSimulated, Zenon
<1> QED BY <1>1, <1>2, <1>3, <1>4, <1>5, Zenon DEF Step, Library

\* The library of tegra-ivc.c gives its callers a pair of bounded queues: frames
\* arrive in order, once and intact while both endpoints are up, the ring never
\* holds more than it can, and after a restart no frame of an earlier session is
\* delivered.  This holds for any number of frames, width of the counts, number of
\* restarts and set of senders, if a handler that runs while the other processor
\* is restarted ends before that one resets the channel.
THEOREM ImplementsFifo ==
  ASSUME Prompt
  PROVE  Spec => FifoSpec
<1>1. Init => Fifo!Init
  <2> SUFFICES ASSUME Init PROVE Fifo!Init
    OBVIOUS
  <2>1. ASSUME NEW e \in Ends PROVE InFlight(e) = <<>>
    <3>1. Peer(e) \in Ends
      BY PeerFacts, Zenon
    <3>2. AvailCount(e) = 0
      BY <3>1, CountArithmetic, CountFacts, Zenon DEF Init, AvailCount
    <3>3. ~Dropped(e, Peer(e))
      BY <3>1, Zenon DEF Init, Dropped, Restarted, Acknowledged
    <3>4. InFlight(e) = Window(frame[e], r_pos[Peer(e)], 0)
      BY <3>1, <3>2, <3>3, FlightIsInFlight, Zenon DEF Flight
    <3> QED BY <3>4 DEF Window
  <2>2. \A e \in Ends : state[e] = "established" /\ pc[e] # "reset"
    BY Zenon DEF Init
  <2> QED BY <2>1, <2>2, Zenon DEF Init, Fifo!Init
<1>2. FInv /\ [Next]_vars => [Fifo!Next]_(Fifo!fifoVars)
  <2> SUFFICES ASSUME FInv, [Next]_vars PROVE [Fifo!Next]_(Fifo!fifoVars)
    OBVIOUS
  <2>1. ASSUME NEW e \in Ends, Step(e) PROVE Simulated
    BY <2>1, StepSimulated, Zenon
  <2>2. CASE UNCHANGED vars
    <3>1. UNCHANGED <<w_count, r_count, state, frame, r_pos, pc, peer, got>>
      BY <2>2, Zenon DEF vars, shared, private
    <3>2. \A e \in Ends : InFlight(e)' = InFlight(e)
      BY <3>1, Zenon DEF InFlight, AvailCount, Restarted, Acknowledged
    <3> QED BY <3>1, <3>2, Zenon DEF Fifo!fifoVars
  <2> QED BY <2>1, <2>2, Zenon DEF Next, Step, Simulated
<1> QED BY <1>1, <1>2, FInvHolds, PTL DEF Spec, FifoSpec, Fifo!Spec

-----------------------------------------------------------------------------
(***************************************************************************)
(* The doorbells, from the same invariant of the rings.                    *)
(***************************************************************************)

\* An endpoint that does not look at the ring it receives on.
Away(e) == pc[e] \in {"idle", "full", "write", "w_advance", "w_notify"}

\* If e does not look, knows of no doorbell and the ring from p holds a frame,
\* then p has just announced the first one and goes on to its doorbell, or is
\* at a step of the reset that rings it.
FrameSeen(e, p) ==
  state[e] = "established" /\ state[p] = "established" /\ Away(e) /\ ~bell[e] =>
    \/ AvailCount(p) = 0
    \/ pc[p] = "w_notify" /\ AvailCount(p) = 1
    \/ pc[p] \in {"reset", "notify"}

\* The same for the room that e waits for.
RoomSeen(e, p) ==
  state[e] = "established" /\ state[p] = "established" /\ pc[e] = "full" /\ ~bell[e] =>
    \/ AvailCount(e) >= NFrames
    \/ pc[p] = "r_notify" /\ AvailCount(e) = NFrames - 1
    \/ pc[p] \in {"reset", "notify"}

InReset(e) == pc[e] = "reset_notify" => state[e] = "sync"

WInv ==
  /\ bell \in [Ends -> BOOLEAN]
  /\ \A e \in Ends : FrameSeen(e, Peer(e)) /\ RoomSeen(e, Peer(e)) /\ InReset(e)

\* What is known of the endpoints before a step of e, and of p after it.
Rings(e, p) ==
  /\ e # p /\ e \in Ends /\ p \in Ends /\ p = Peer(e) /\ e = Peer(p)
  /\ KeepsAll(p) /\ Facts(e, p)
  /\ FrameSeen(e, p) /\ RoomSeen(e, p) /\ FrameSeen(p, e) /\ RoomSeen(p, e)
  /\ InReset(e) /\ InReset(p)

LEMMA RingsHolds ==
  ASSUME FInv, WInv, NEW e \in Ends, Step(e)
  PROVE  Rings(e, Peer(e))
BY PeerFacts, OnlyOwn, FactsHold, Zenon DEF Rings, WInv

\* The doorbells stand for e and p after a step of e.
Answered(e, p) ==
  FrameSeen(e, p)' /\ RoomSeen(e, p)' /\ FrameSeen(p, e)' /\ RoomSeen(p, e)' /\ InReset(e)'

LEMMA AnsweredWInv ==
  ASSUME FInv, WInv, NEW e \in Ends, Step(e), Answered(e, Peer(e)), bell' \in [Ends -> BOOLEAN]
  PROVE  WInv'
<1>1. Ends = {e, Peer(e)}
  BY Zenon DEF Ends, Peer
<1>2. Rings(e, Peer(e))
  BY RingsHolds, Zenon
<1>3. InReset(Peer(e))'
  BY <1>2, Zenon DEF Rings, InReset, KeepsAll, Keeps
<1> QED BY <1>1, <1>3, PeerFacts, Zenon DEF WInv, Answered

\* Counts that stay the same leave the rings as full as they were.
LEMMA AvailSame ==
  ASSUME NEW e, NEW p, p = Peer(e), e = Peer(p), UNCHANGED <<w_count, r_count>>
  PROVE  AvailCount(e)' = AvailCount(e) /\ AvailCount(p)' = AvailCount(p)
BY Zenon DEF AvailCount

\* A step of the data path that moves no count and rings no doorbell.
LEMMA CallAnswered ==
  ASSUME FInv, WInv, NEW e \in Ends,
         CheckWrite(e) \/ CheckRead(e) \/ WriteFrame(e) \/ ReadFrame(e)
  PROVE  Answered(e, Peer(e)) /\ bell' \in [Ends -> BOOLEAN]
<1> DEFINE p == Peer(e)
<1>s. Step(e)
  BY Zenon DEF Step, Library
<1>r. Rings(e, p)
  BY <1>s, RingsHolds, Zenon
<1> HIDE DEF p
<1>1. UNCHANGED <<w_count, r_count, state, bell>>
  BY Zenon DEF CheckWrite, CheckRead, WriteFrame, ReadFrame, shared, private
<1>2. AvailCount(e)' = AvailCount(e) /\ AvailCount(p)' = AvailCount(p)
  BY <1>1, <1>r, AvailSame, Zenon DEF Rings
<1>3. pc'[p] = pc[p]
  BY <1>r, Zenon DEF Rings, KeepsAll, Keeps
<1>4. pc \in [Ends -> Pcs]
  BY Zenon DEF FInv, HInv, HandshakeType
<1>5. /\ pc[e] \in {"idle", "write", "r_check", "read"}
      /\ pc'[e] \in {"idle", "full", "write", "w_advance", "read", "r_advance"}
  BY <1>4, Zenon DEF CheckWrite, CheckRead, WriteFrame, ReadFrame, Goto
<1>6. pc'[e] = "full" => AvailCount(e) >= NFrames
  BY <1>4, Zenon DEF CheckWrite, CheckRead, WriteFrame, ReadFrame, Goto, ChannelFull
<1>7. state[e] = "established" /\ state[p] = "established" /\ pc[e] = "r_check" /\ pc'[e] = "idle"
      => AvailCount(p) = 0
  <2>1. SUFFICES ASSUME state[e] = "established", state[p] = "established", pc[e] = "r_check", pc'[e] = "idle"
        PROVE AvailCount(p) = 0
    OBVIOUS
  <2>2. AvailCount(p) > NFrames \/ AvailCount(p) = 0
    BY <2>1, <1>r, <1>4, Zenon DEF CheckWrite, CheckRead, WriteFrame, ReadFrame, Goto, ChannelEmpty, Rings
  <2>3. pc[e] # "reset" /\ ~Dropped(p, e)
    BY <2>1, Zenon DEF Dropped, Restarted
  <2>4. AvailCount(p) <= NFrames /\ AvailCount(p) \in Nat
    BY <2>3, <1>r, Zenon DEF Rings, Facts, Flow
  <2> QED BY <2>2, <2>4, FramesAssumption
<1>8. FrameSeen(e, p)'
  <2>1. Away(e)' => Away(e) \/ (pc[e] = "r_check" /\ pc'[e] = "idle")
    BY <1>5, Zenon DEF Away, CheckWrite, CheckRead, WriteFrame, ReadFrame, Goto, FInv, HInv, HandshakeType
  <2> QED BY <2>1, <1>r, <1>1, <1>2, <1>3, <1>7, Zenon DEF Rings, FrameSeen
<1>9. RoomSeen(e, p)'
  BY <1>6, <1>2, Zenon DEF RoomSeen
<1>10. FrameSeen(p, e)' /\ RoomSeen(p, e)'
  BY <1>r, <1>1, <1>2, <1>3, <1>5, Zenon DEF Rings, FrameSeen, RoomSeen, Away
<1>11. InReset(e)'
  BY <1>5, Zenon DEF InReset
<1> QED BY <1>1, <1>8, <1>9, <1>10, <1>11, Zenon DEF Answered, WInv, p

\* The write count goes ahead: the frame is announced before the doorbell.
LEMMA AdvanceTxAnswered ==
  ASSUME FInv, WInv, NEW e \in Ends, AdvanceTx(e)
  PROVE  Answered(e, Peer(e)) /\ bell' \in [Ends -> BOOLEAN]
<1> DEFINE p == Peer(e)
<1>s. Step(e)
  BY Zenon DEF Step, Library
<1>r. Rings(e, p)
  BY <1>s, RingsHolds, Zenon
<1> HIDE DEF p
<1>0. HandshakeType
  BY Zenon DEF FInv, HInv
<1>1. UNCHANGED <<r_count, state, bell>> /\ pc[e] = "w_advance" /\ pc'[e] = "w_notify"
  BY <1>0, Zenon DEF AdvanceTx, HandshakeType, Goto
<1>2. AvailCount(p)' = AvailCount(p)
  BY <1>1, <1>r, Zenon DEF AvailCount, Rings, KeepsAll, Keeps
<1>3. pc'[p] = pc[p]
  BY <1>r, Zenon DEF Rings, KeepsAll, Keeps
<1>4. FrameSeen(e, p)' /\ RoomSeen(e, p)' /\ InReset(e)'
  BY <1>r, <1>1, <1>2, <1>3, Zenon DEF Rings, FrameSeen, RoomSeen, Away, InReset
<1>5. AvailCount(e) = 0 => AvailCount(e)' = 1
  <2>1. w_count'[e] = (w_count[e] + 1) % CountModulus
    BY <1>0, Zenon DEF AdvanceTx, HandshakeType
  <2>2. w_count[e] \in Counts /\ r_count[p] \in Counts
    BY <1>0, <1>r, Zenon DEF HandshakeType, Rings
  <2>3. AvailCount(e) = (w_count[e] - r_count[p]) % CountModulus
    BY <1>r, Zenon DEF AvailCount, Rings
  <2>4. AvailCount(e)' = (((w_count[e] + 1) % CountModulus) - r_count[p]) % CountModulus
    BY <1>r, <1>1, <2>1, Zenon DEF AvailCount, Rings
  <2> HIDE DEF AvailCount
  <2>5. SUFFICES ASSUME AvailCount(e) = 0 PROVE AvailCount(e)' = 1
    OBVIOUS
  <2>6. 0 < CountModulus - 1 /\ 0 + 1 = 1
    BY CountAssumption, FramesAssumption
  <2>7. (w_count[e] - r_count[p]) % CountModulus < CountModulus - 1 =>
          (((w_count[e] + 1) % CountModulus) - r_count[p]) % CountModulus
            = ((w_count[e] - r_count[p]) % CountModulus) + 1
    BY <2>2, CountArithmetic, Zenon
  <2> QED BY <2>3, <2>4, <2>5, <2>6, <2>7, Zenon
<1>6. FrameSeen(p, e)'
  BY <1>r, <1>1, <1>3, <1>5, Zenon DEF Rings, FrameSeen, Away
<1>7. RoomSeen(p, e)'
  BY <1>r, <1>1, <1>2, <1>3, Zenon DEF Rings, RoomSeen
<1> QED BY <1>1, <1>4, <1>6, <1>7, Zenon DEF Answered, WInv, p

\* The read count goes ahead: the room is made before the doorbell.
LEMMA AdvanceRxAnswered ==
  ASSUME FInv, WInv, NEW e \in Ends, AdvanceRx(e)
  PROVE  Answered(e, Peer(e)) /\ bell' \in [Ends -> BOOLEAN]
<1> DEFINE p == Peer(e)
<1>s. Step(e)
  BY Zenon DEF Step, Library
<1>r. Rings(e, p)
  BY <1>s, RingsHolds, Zenon
<1> HIDE DEF p
<1>0. HandshakeType
  BY Zenon DEF FInv, HInv
<1>1. UNCHANGED <<w_count, state, bell>> /\ pc[e] = "r_advance" /\ pc'[e] = "r_notify"
  BY <1>0, Zenon DEF AdvanceRx, HandshakeType, Goto
<1>2. AvailCount(e)' = AvailCount(e)
  BY <1>1, <1>r, Zenon DEF AvailCount, Rings, KeepsAll, Keeps
<1>3. pc'[p] = pc[p]
  BY <1>r, Zenon DEF Rings, KeepsAll, Keeps
<1>4. FrameSeen(e, p)' /\ RoomSeen(e, p)' /\ InReset(e)'
  BY <1>1, Zenon DEF FrameSeen, RoomSeen, Away, InReset
<1>5. AvailCount(p)' = AvailCount(p) - 1 /\ AvailCount(p) \in Nat
  <2>1. r_count'[e] = (r_count[e] + 1) % CountModulus
    BY <1>0, Zenon DEF AdvanceRx, HandshakeType
  <2>2. r_count[e] \in Counts /\ w_count[p] \in Counts
    BY <1>0, <1>r, Zenon DEF HandshakeType, Rings
  <2>3. AvailCount(p) = (w_count[p] - r_count[e]) % CountModulus
    BY <1>r, Zenon DEF AvailCount, Rings
  <2>4. AvailCount(p)' = (w_count[p] - ((r_count[e] + 1) % CountModulus)) % CountModulus
    BY <1>r, <1>1, <2>1, Zenon DEF AvailCount, Rings
  <2>5. AvailCount(p) >= 1 /\ AvailCount(p) \in Nat
    BY <1>r, <1>1, Zenon DEF Rings, Facts, Flow
  <2>6. (w_count[p] - r_count[e]) % CountModulus >= 1 =>
          (w_count[p] - ((r_count[e] + 1) % CountModulus)) % CountModulus
            = ((w_count[p] - r_count[e]) % CountModulus) - 1
    BY <2>2, CountArithmetic, Zenon
  <2> QED BY <2>3, <2>4, <2>5, <2>6, Zenon
<1>6. FrameSeen(p, e)'
  <2>1. Away(p)' <=> Away(p)
    BY <1>3, Zenon DEF Away
  <2> QED BY <1>r, <1>1, <1>2, <1>3, <2>1, Zenon DEF Rings, FrameSeen
<1>7. RoomSeen(p, e)'
  <2>1. \/ AvailCount(p) < NFrames \/ AvailCount(p)' >= NFrames \/ AvailCount(p)' = NFrames - 1
    BY <1>5, FramesAssumption
  <2>2. AvailCount(p) < NFrames => ~(AvailCount(p) >= NFrames)
    BY <1>5, FramesAssumption
  <2> QED BY <1>r, <1>1, <1>3, <2>1, <2>2, Zenon DEF Rings, RoomSeen
<1> QED BY <1>1, <1>4, <1>6, <1>7, Zenon DEF Answered, WInv, p

\* A doorbell that is not rung was not needed.
LEMMA NotifyAnswered ==
  ASSUME FInv, WInv, NEW e \in Ends,
         WriteNotify(e) \/ ReadNotify(e) \/ Notify(e) \/ ResetNotify(e)
  PROVE  Answered(e, Peer(e)) /\ bell' \in [Ends -> BOOLEAN]
<1> DEFINE p == Peer(e)
<1>s. Step(e)
  BY Zenon DEF Step, Library
<1>r. Rings(e, p)
  BY <1>s, RingsHolds, Zenon
<1>p. Peer(e) = p
  OBVIOUS
<1> HIDE DEF p
<1>0. pc \in [Ends -> Pcs] /\ bell \in [Ends -> BOOLEAN]
  BY Zenon DEF FInv, HInv, HandshakeType, WInv
<1>1. UNCHANGED <<w_count, r_count, state>>
  BY Zenon DEF WriteNotify, ReadNotify, Notify, ResetNotify, shared
<1>2. AvailCount(e)' = AvailCount(e) /\ AvailCount(p)' = AvailCount(p)
  BY <1>1, <1>r, AvailSame, Zenon DEF Rings
<1>3. pc'[p] = pc[p] /\ p # e /\ p \in Ends
  BY <1>r, Zenon DEF Rings, KeepsAll, Keeps
<1>4. \/ pc[e] = "w_notify" /\ pc'[e] = "idle" /\ (AvailCount(e) = 1 => bell'[p])
      \/ pc[e] = "r_notify" /\ pc'[e] = "r_check" /\ (AvailCount(p) = NFrames - 1 => bell'[p])
      \/ pc[e] = "notify" /\ pc'[e] = "r_check" /\ bell'[p]
      \/ pc[e] = "reset_notify" /\ pc'[e] = "idle"
  <2>1. CASE WriteNotify(e)
    BY <2>1, <1>0, <1>3, <1>p, Zenon DEF WriteNotify, BecameNonEmpty, Ring, Goto
  <2>2. CASE ReadNotify(e)
    BY <2>2, <1>0, <1>3, <1>p, Zenon DEF ReadNotify, BecameNonFull, Ring, Goto
  <2>3. CASE Notify(e)
    BY <2>3, <1>0, <1>3, <1>p, Zenon DEF Notify, Ring, Goto
  <2>4. CASE ResetNotify(e)
    BY <2>4, <1>0, <1>3, <1>p, Zenon DEF ResetNotify, Goto
  <2> QED BY <2>1, <2>2, <2>3, <2>4, Zenon
<1>5. bell' \in [Ends -> BOOLEAN] /\ bell'[e] = bell[e] /\ (bell[p] => bell'[p])
  <2>1. bell' = bell \/ bell' = [bell EXCEPT ![p] = TRUE]
    BY <1>p, Zenon DEF WriteNotify, ReadNotify, Notify, ResetNotify, Ring
  <2> QED BY <2>1, <1>0, <1>3, Zenon
<1>6. pc[e] = "reset_notify" => state[e] # "established"
  BY <1>r, Zenon DEF Rings, InReset
<1>7. FrameSeen(e, p)' /\ RoomSeen(e, p)' /\ InReset(e)'
  BY <1>r, <1>1, <1>2, <1>3, <1>4, <1>5, <1>6, Zenon DEF Rings, FrameSeen, RoomSeen, Away, InReset
<1>8. FrameSeen(p, e)'
  <2>1. Away(p)' <=> Away(p)
    BY <1>3, Zenon DEF Away
  <2> QED BY <1>r, <1>1, <1>2, <1>3, <1>4, <1>5, <1>6, <2>1, Zenon DEF Rings, FrameSeen
<1>9. RoomSeen(p, e)'
  BY <1>r, <1>1, <1>2, <1>3, <1>4, <1>5, <1>6, Zenon DEF Rings, RoomSeen
<1> QED BY <1>p, <1>5, <1>7, <1>8, <1>9, Zenon DEF Answered

\* An endpoint that takes its doorbell looks at the ring, or is being reset.
LEMMA NotifiedAnswered ==
  ASSUME FInv, WInv, NEW e \in Ends, ChannelNotified(e)
  PROVE  Answered(e, Peer(e)) /\ bell' \in [Ends -> BOOLEAN]
<1> DEFINE p == Peer(e)
<1>s. Step(e)
  BY Zenon DEF Step, Library
<1>r. Rings(e, p)
  BY <1>s, RingsHolds, Zenon
<1>p. Peer(e) = p
  OBVIOUS
<1> HIDE DEF p
<1>0. pc \in [Ends -> Pcs] /\ bell \in [Ends -> BOOLEAN]
  BY Zenon DEF FInv, HInv, HandshakeType, WInv
<1>1. UNCHANGED <<w_count, r_count, state>>
  BY Zenon DEF ChannelNotified, shared
<1>2. AvailCount(e)' = AvailCount(e) /\ AvailCount(p)' = AvailCount(p)
  BY <1>1, <1>r, AvailSame, Zenon DEF Rings
<1>3. pc'[p] = pc[p] /\ p # e /\ p \in Ends
  BY <1>r, Zenon DEF Rings, KeepsAll, Keeps
<1>4. pc[e] \in {"idle", "full"} /\ pc'[e] \in {"clear_w", "set_state", "r_check"}
  BY <1>0, Zenon DEF ChannelNotified, Handshake, Goto
<1>5. bell' \in [Ends -> BOOLEAN] /\ bell'[p] = bell[p]
  BY <1>0, <1>3, Zenon DEF ChannelNotified
<1>6. FrameSeen(e, p)' /\ RoomSeen(e, p)' /\ InReset(e)'
  BY <1>4, Zenon DEF FrameSeen, RoomSeen, Away, InReset
<1>7. FrameSeen(p, e)'
  <2>1. Away(p)' <=> Away(p)
    BY <1>3, Zenon DEF Away
  <2> QED BY <1>r, <1>1, <1>2, <1>3, <1>4, <1>5, <2>1, Zenon DEF Rings, FrameSeen
<1>8. RoomSeen(p, e)'
  BY <1>r, <1>1, <1>2, <1>3, <1>4, <1>5, Zenon DEF Rings, RoomSeen
<1> QED BY <1>p, <1>5, <1>6, <1>7, <1>8, Zenon DEF Answered

\* During a reset nobody waits for a frame or for room, or a doorbell is coming.
LEMMA ResetAnswered ==
  ASSUME FInv, WInv, NEW e \in Ends,
         ClearW(e) \/ ClearR(e) \/ SetState(e) \/ Restart(e) \/ ChannelReset(e)
  PROVE  Answered(e, Peer(e)) /\ bell' \in [Ends -> BOOLEAN]
<1> DEFINE p == Peer(e)
<1>s. Step(e)
  BY Zenon DEF Step, Library
<1>r. Rings(e, p)
  BY <1>s, RingsHolds, Zenon
<1>p. Peer(e) = p
  OBVIOUS
<1> HIDE DEF p
<1>0. pc \in [Ends -> Pcs] /\ bell \in [Ends -> BOOLEAN] /\ state \in [Ends -> States]
  BY Zenon DEF FInv, HInv, HandshakeType, WInv
<1>1. bell' \in [Ends -> BOOLEAN]
  BY <1>0, Zenon DEF ClearW, ClearR, SetState, Restart, ChannelReset
<1>2. CASE ClearW(e) \/ ClearR(e)
  <2>1. InHandler(e) /\ state' = state /\ pc'[e] \in {"clear_r", "set_state"}
    BY <1>0, <1>2, Zenon DEF ClearW, ClearR, InHandler, Goto
  <2>2. state[e] = "established" => state[p] # "established"
    BY <1>r, <2>1, Zenon DEF Rings, Facts, Sampled
  <2> QED BY <1>1, <1>p, <2>1, <2>2, Zenon DEF Answered, FrameSeen, RoomSeen, InReset
<1>3. CASE SetState(e) \/ Restart(e)
  <2>1. pc'[e] \in {"notify", "reset"}
    BY <1>0, <1>3, Zenon DEF SetState, Restart, Goto
  <2> QED BY <1>1, <1>p, <2>1, Zenon DEF Answered, FrameSeen, RoomSeen, InReset, Away
<1>4. CASE ChannelReset(e)
  <2>1. state'[e] = "sync"
    BY <1>0, <1>4, Zenon DEF ChannelReset
  <2> QED BY <1>1, <1>p, <2>1, Zenon DEF Answered, FrameSeen, RoomSeen, InReset
<1> QED BY <1>2, <1>3, <1>4, Zenon

\* Doorbells are rung only when a ring becomes non-empty or non-full, by a test
\* made after the count was moved and while the other endpoint may move the other
\* count; no frame and no room is overlooked for it, for any ring size and width
\* of the counts and across restarts.
THEOREM NoWakeupIsLost ==
  ASSUME Prompt
  PROVE  Spec => []NoLostWakeup
<1>1. Init => WInv
  <2> SUFFICES ASSUME Init PROVE WInv
    OBVIOUS
  <2>1. ASSUME NEW e \in Ends PROVE FrameSeen(e, Peer(e)) /\ RoomSeen(e, Peer(e)) /\ InReset(e)
    <3>1. Peer(e) \in Ends /\ Peer(Peer(e)) = e
      BY PeerFacts, Zenon
    <3>2. AvailCount(Peer(e)) = 0
      BY <3>1, CountArithmetic, CountFacts, Zenon DEF Init, AvailCount
    <3>3. pc[e] = "idle"
      BY Zenon DEF Init
    <3> QED BY <3>2, <3>3, Zenon DEF FrameSeen, RoomSeen, InReset
  <2> QED BY <2>1, Zenon DEF Init, WInv
<1>2. FInv /\ WInv /\ [Next]_vars => WInv'
  <2> SUFFICES ASSUME FInv, WInv, [Next]_vars PROVE WInv'
    OBVIOUS
  <2>1. ASSUME NEW e \in Ends, Step(e) PROVE WInv'
    <3>1. Answered(e, Peer(e)) /\ bell' \in [Ends -> BOOLEAN]
      BY <2>1, CallAnswered, AdvanceTxAnswered, AdvanceRxAnswered, NotifyAnswered,
         NotifiedAnswered, ResetAnswered, Zenon DEF Step, Library
    <3> QED BY <2>1, <3>1, AnsweredWInv, Zenon
  <2>2. CASE UNCHANGED vars
    <3>1. UNCHANGED <<w_count, r_count, state, pc, bell>>
      BY <2>2, Zenon DEF vars, shared, private
    <3> QED BY <3>1, Zenon DEF WInv, FrameSeen, RoomSeen, InReset, Away, AvailCount
  <2> QED BY <2>1, <2>2, Zenon DEF Next, Step
<1>3. FInv /\ WInv => NoLostWakeup
  <2> SUFFICES ASSUME FInv, WInv, NEW e \in Ends
               PROVE  /\ BothUp /\ pc[e] \in {"idle", "full"} /\ ~bell[e] /\ ~ChannelEmpty(Peer(e))
                           => pc[Peer(e)] \in {"w_notify", "reset", "notify"}
                      /\ BothUp /\ pc[e] = "full" /\ ~bell[e] /\ ~ChannelFull(e)
                           => pc[Peer(e)] \in {"r_notify", "reset", "notify"}
    BY Zenon DEF NoLostWakeup
  <2>1. FrameSeen(e, Peer(e)) /\ RoomSeen(e, Peer(e)) /\ Peer(e) \in Ends
    BY PeerFacts, Zenon DEF WInv
  <2> QED BY <2>1, Zenon DEF FrameSeen, RoomSeen, Away, BothUp, ChannelEmpty, ChannelFull
<1> QED BY <1>1, <1>2, <1>3, FInvHolds, PTL DEF Spec
==============================================================================
