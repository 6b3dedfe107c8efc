---------------------------- MODULE IVCRingProofs ----------------------------
(***************************************************************************)
(* Proofs about IVC, for every ring size, width of the counts and number   *)
(* of restarts: the reset handshake, and then the rings.                   *)
(***************************************************************************)
EXTENDS IVC, TLAPS

(***************************************************************************)
(* The reset handshake.  The argument: an endpoint that clears its counts  *)
(* has sampled a peer that is not established, and the peer cannot become  *)
(* so before the clearing is over; the one exception is an endpoint in     *)
(* state ack that clears a second time, and its counts are zero already.   *)
(***************************************************************************)

\* The variables of the handshake have their types.
HandshakeType ==
  /\ w_count \in [Ends -> Counts] /\ r_count \in [Ends -> Counts]
  /\ state \in [Ends -> States] /\ peer \in [Ends -> States]
  /\ pc \in [Ends -> Pcs]

\* What the sample of e still says about its peer p while e acts on it.
Sampled(e, p) ==
  InHandler(e) =>
    /\ state[e] = "established" =>
         peer[e] = "sync" /\ state[p] = "sync" /\ ~InHandler(p)
    /\ state[e] = "sync" =>
         /\ peer[e] \in {"sync", "ack"}
         /\ state[p] \in {"ack", peer[e]}
         /\ InHandler(p) => peer[p] = "sync"
    /\ state[e] = "ack" /\ peer[e] # "sync" =>
         /\ pc[e] = "set_state"
         /\ state[p] \in {"established", peer[e]}

\* An endpoint that has acknowledged a reset keeps its counts at zero, and only
\* an established one advances them.
Zeroed(e) ==
  /\ state[e] = "ack" => w_count[e] = 0 /\ r_count[e] = 0
  /\ pc[e] \in {"clear_r", "set_state"} => w_count[e] = 0
  /\ pc[e] = "set_state" => r_count[e] = 0
  /\ pc[e] \in {"write", "w_advance", "read", "r_advance"} => state[e] = "established"

HInv ==
  /\ HandshakeType
  /\ \A e \in Ends : Sampled(e, Peer(e)) /\ Zeroed(e)

-----------------------------------------------------------------------------
LEMMA PeerFacts ==
  ASSUME NEW e \in Ends
  PROVE  Peer(e) \in Ends /\ Peer(e) # e /\ Peer(Peer(e)) = e
BY Zenon DEF Ends, Peer

LEMMA CountFacts ==
  /\ 0 \in Counts
  /\ \A c \in Counts : (c + 1) % CountModulus \in Counts
BY CountAssumption, FramesAssumption DEF Counts

LEMMA InitHInv == Init => HInv
<1> SUFFICES ASSUME Init PROVE HInv
  OBVIOUS
<1>1. HandshakeType
  BY CountFacts, Zenon DEF Init, HandshakeType, States, Pcs
<1>2. ASSUME NEW e \in Ends PROVE Sampled(e, Peer(e)) /\ Zeroed(e)
  BY Zenon DEF Init, Sampled, Zeroed, InHandler
<1> QED BY <1>1, <1>2, Zenon DEF HInv

\* What a step of e does to the variables of the handshake, by its kind.
\* Moves: e goes on without touching them.
Moves(e) ==
  /\ \E label \in Pcs \ {"clear_w", "clear_r", "set_state"} :
       /\ Goto(e, label)
       /\ label \in {"write", "w_advance", "read", "r_advance"} => state[e] = "established"
  /\ ~InHandler(e)
  /\ UNCHANGED <<w_count, r_count, state, peer>>

LEMMA StepKinds ==
  ASSUME HInv, NEW e \in Ends, Library(e) \/ CheckWrite(e)
  PROVE  \/ Moves(e) \/ AdvanceTx(e) \/ AdvanceRx(e) \/ ChannelNotified(e)
         \/ ClearW(e) \/ ClearR(e) \/ SetState(e) \/ ChannelReset(e)
<1> USE DEF Moves, Goto, shared, private, InHandler, Pcs
<1>1. CASE CheckWrite(e)
  BY <1>1, Zenon DEF CheckWrite
<1>2. CASE WriteFrame(e)
  BY <1>2, Zenon DEF WriteFrame, HInv, Zeroed
<1>3. CASE WriteNotify(e)
  <2>1. /\ pc[e] = "w_notify" /\ pc' = [pc EXCEPT ![e] = "idle"]
        /\ UNCHANGED <<w_count, r_count, state, peer>>
    BY <1>3, Zenon DEF WriteNotify
  <2>2. /\ "idle" \in Pcs \ {"clear_w", "clear_r", "set_state"}
        /\ "idle" \notin {"write", "w_advance", "read", "r_advance"}
    OBVIOUS
  <2>3. ~InHandler(e)
    BY <2>1, Zenon
  <2> HIDE DEF Pcs, InHandler
  <2> QED BY <2>1, <2>2, <2>3, Zenon
<1>4. CASE CheckRead(e)
  BY <1>4, Zenon DEF CheckRead
<1>5. CASE ReadFrame(e)
  BY <1>5, Zenon DEF ReadFrame, HInv, Zeroed
<1>6. CASE ReadNotify(e)
  <2>1. /\ pc[e] = "r_notify" /\ pc' = [pc EXCEPT ![e] = "r_check"]
        /\ UNCHANGED <<w_count, r_count, state, peer>>
    BY <1>6, Zenon DEF ReadNotify
  <2>2. /\ "r_check" \in Pcs \ {"clear_w", "clear_r", "set_state"}
        /\ "r_check" \notin {"write", "w_advance", "read", "r_advance"}
    OBVIOUS
  <2>3. ~InHandler(e)
    BY <2>1, Zenon
  <2> HIDE DEF Pcs, InHandler
  <2> QED BY <2>1, <2>2, <2>3, Zenon
<1>7. CASE Notify(e) \/ ResetNotify(e)
  BY <1>7, Zenon DEF Notify, ResetNotify
<1> QED BY <1>1, <1>2, <1>3, <1>4, <1>5, <1>6, <1>7, Zenon DEF Library

\* Endpoint d keeps everything of its own.
Keeps(d) ==
  /\ w_count'[d] = w_count[d] /\ r_count'[d] = r_count[d]
  /\ state'[d] = state[d] /\ peer'[d] = peer[d] /\ pc'[d] = pc[d]

\* A step of e preserves the invariant if it does so for e, and for what the
\* peer has sampled of e.
LEMMA ByEnds ==
  ASSUME HInv, NEW e \in Ends, HandshakeType', Keeps(Peer(e)),
         Sampled(e, Peer(e))', Sampled(Peer(e), e)', Zeroed(e)'
  PROVE  HInv'
<1>1. Zeroed(Peer(e))'
  BY PeerFacts, Zenon DEF HInv, Zeroed, Keeps
<1>2. Ends = {e, Peer(e)}
  BY Zenon DEF Ends, Peer
<1>3. \A d \in Ends : Sampled(d, Peer(d))' /\ Zeroed(d)'
  BY <1>1, <1>2, PeerFacts, Zenon
<1> QED BY <1>3, Zenon DEF HInv

LEMMA MovesHInv ==
  ASSUME HInv, NEW e \in Ends, Moves(e)
  PROVE  HInv'
<1> DEFINE p == Peer(e)
<1>p. p \in Ends /\ p # e /\ Peer(p) = e
  BY PeerFacts, Zenon
<1> HIDE DEF p
<1>0. PICK label \in Pcs \ {"clear_w", "clear_r", "set_state"} :
        /\ pc' = [pc EXCEPT ![e] = label]
        /\ label \in {"write", "w_advance", "read", "r_advance"} => state[e] = "established"
  BY Zenon DEF Moves, Goto
<1>1. HandshakeType'
  BY <1>0, Zenon DEF Moves, HInv, HandshakeType
<1>2. Keeps(p) /\ pc'[e] = label /\ state'[e] = state[e]
  BY <1>0, <1>p, Zenon DEF Moves, Keeps, HInv, HandshakeType
<1>3. ~InHandler(e)' /\ ~InHandler(e)
  BY <1>2, <1>0, Zenon DEF InHandler, Moves
<1>4. Sampled(e, p)'
  BY <1>3, Zenon DEF Sampled
<1>5. Sampled(p, e)'
  <2>1. Sampled(p, e)
    BY <1>p, Zenon DEF HInv
  <2>2. InHandler(p)' = InHandler(p)
    BY <1>2, Zenon DEF InHandler, Keeps
  <2> QED BY <2>1, <2>2, <1>2, <1>3, Zenon DEF Sampled, Keeps
<1>6. Zeroed(e)'
  BY <1>2, <1>0, Zenon DEF Zeroed, HInv, Moves
<1> QED BY <1>1, <1>2, <1>4, <1>5, <1>6, ByEnds, Zenon DEF p

\* The counts advance, in an established endpoint only.
LEMMA AdvanceHInv ==
  ASSUME HInv, NEW e \in Ends, AdvanceTx(e) \/ AdvanceRx(e)
  PROVE  HInv'
<1> DEFINE p == Peer(e)
<1>p. p \in Ends /\ p # e /\ Peer(p) = e
  BY PeerFacts, Zenon
<1> HIDE DEF p
<1>0. PICK label \in {"w_notify", "r_notify"} : pc' = [pc EXCEPT ![e] = label]
  BY Zenon DEF AdvanceTx, AdvanceRx, Goto
<1>1. HandshakeType'
  <2>1. /\ w_count' \in [Ends -> Counts] /\ r_count' \in [Ends -> Counts]
    BY CountFacts DEF AdvanceTx, AdvanceRx, HInv, HandshakeType
  <2> QED BY <1>0, <2>1, Zenon DEF AdvanceTx, AdvanceRx, HInv, HandshakeType, Pcs
<1>2. /\ Keeps(p) /\ pc'[e] = label /\ state' = state /\ state[e] = "established"
      /\ ~InHandler(e)
  BY <1>0, <1>p, Zenon DEF AdvanceTx, AdvanceRx, Keeps, HInv, HandshakeType, Zeroed, InHandler
<1>3. ~InHandler(e)'
  BY <1>2, <1>0, Zenon DEF InHandler
<1>4. Sampled(e, p)'
  BY <1>3, Zenon DEF Sampled
<1>5. Sampled(p, e)'
  <2>1. Sampled(p, e)
    BY <1>p, Zenon DEF HInv
  <2>2. InHandler(p)' = InHandler(p)
    BY <1>2, Zenon DEF InHandler, Keeps
  <2> QED BY <2>1, <2>2, <1>2, <1>3, Zenon DEF Sampled, Keeps
<1>6. Zeroed(e)'
  BY <1>2, <1>0, Zenon DEF Zeroed
<1> QED BY <1>1, <1>2, <1>4, <1>5, <1>6, ByEnds, Zenon DEF p

\* The peer's state is sampled; what follows from it holds at that moment.
LEMMA NotifiedHInv ==
  ASSUME HInv, NEW e \in Ends, ChannelNotified(e)
  PROVE  HInv'
<1> DEFINE p == Peer(e)
<1>p. p \in Ends /\ p # e /\ Peer(p) = e
  BY PeerFacts, Zenon
<1>0. /\ pc' = [pc EXCEPT ![e] = Handshake(e, state[p])]
      /\ peer' = [peer EXCEPT ![e] = IF pc'[e] = "r_check" THEN "established" ELSE state[p]]
      /\ pc[e] \in {"idle", "full"}
      /\ UNCHANGED <<w_count, r_count, state>>
  BY Zenon DEF ChannelNotified, Goto, shared
<1> HIDE DEF p
<1>1. HandshakeType'
  BY <1>0, <1>p, Zenon DEF HInv, HandshakeType, Handshake, Pcs, States
<1>2. /\ Keeps(p)
      /\ pc'[e] = Handshake(e, state[p])
      /\ peer'[e] = IF pc'[e] = "r_check" THEN "established" ELSE state[p]
  BY <1>0, <1>p, Zenon DEF Keeps, HInv, HandshakeType
<1>3. InHandler(p)' = InHandler(p) /\ Sampled(p, e) /\ ~InHandler(e)
  BY <1>0, <1>2, <1>p, Zenon DEF InHandler, Keeps, HInv
<1>t. state[e] \in States /\ state[p] \in States
  BY <1>p, Zenon DEF HInv, HandshakeType
<1>4. Sampled(e, p)'
  BY <1>0, <1>2, <1>3, <1>t, Zenon DEF Sampled, InHandler, Handshake, Keeps, States
<1>5. Sampled(p, e)'
  BY <1>0, <1>2, <1>3, <1>t, Zenon DEF Sampled, InHandler, Handshake, Keeps, States
<1>6. Zeroed(e)'
  BY <1>0, <1>2 DEF Zeroed, HInv, Handshake
<1> QED BY <1>1, <1>2, <1>4, <1>5, <1>6, ByEnds, Zenon DEF p

LEMMA ClearHInv ==
  ASSUME HInv, NEW e \in Ends, ClearW(e) \/ ClearR(e)
  PROVE  HInv'
<1> DEFINE p == Peer(e)
<1>p. p \in Ends /\ p # e /\ Peer(p) = e
  BY PeerFacts, Zenon
<1> HIDE DEF p
<1>0. /\ pc[e] \in {"clear_w", "clear_r"}
      /\ pc' = [pc EXCEPT ![e] = IF pc[e] = "clear_w" THEN "clear_r" ELSE "set_state"]
      /\ w_count' = IF pc[e] = "clear_w" THEN [w_count EXCEPT ![e] = 0] ELSE w_count
      /\ r_count' = IF pc[e] = "clear_w" THEN r_count ELSE [r_count EXCEPT ![e] = 0]
      /\ UNCHANGED <<state, peer>>
  BY Zenon DEF ClearW, ClearR, Goto
<1>1. HandshakeType'
  <2>1. /\ w_count' \in [Ends -> Counts] /\ r_count' \in [Ends -> Counts]
    BY <1>0, CountFacts, Zenon DEF HInv, HandshakeType
  <2> QED BY <1>0, <2>1, Zenon DEF HInv, HandshakeType, Pcs
<1>2. /\ Keeps(p)
      /\ pc'[e] = IF pc[e] = "clear_w" THEN "clear_r" ELSE "set_state"
      /\ w_count'[e] = IF pc[e] = "clear_w" THEN 0 ELSE w_count[e]
      /\ r_count'[e] = IF pc[e] = "clear_w" THEN r_count[e] ELSE 0
  BY <1>0, <1>p, Zenon DEF Keeps, HInv, HandshakeType
<1>3. /\ InHandler(p)' = InHandler(p) /\ InHandler(e)' /\ InHandler(e)
      /\ Sampled(p, e) /\ Sampled(e, p)
  BY <1>0, <1>2, <1>p, Zenon DEF InHandler, Keeps, HInv, p
<1>4. Sampled(e, p)' /\ Sampled(p, e)'
  BY <1>0, <1>2, <1>3, Zenon DEF Sampled, Keeps
<1>6. Zeroed(e)'
  BY <1>0, <1>2 DEF Zeroed, HInv
<1> QED BY <1>1, <1>2, <1>4, <1>6, ByEnds, Zenon DEF p

LEMMA SetStateHInv ==
  ASSUME HInv, NEW e \in Ends, SetState(e)
  PROVE  HInv'
<1> DEFINE p == Peer(e)
<1>p. p \in Ends /\ p # e /\ Peer(p) = e
  BY PeerFacts, Zenon
<1> HIDE DEF p
<1>0. /\ pc[e] = "set_state" /\ pc' = [pc EXCEPT ![e] = "notify"]
      /\ state' = [state EXCEPT ![e] = IF peer[e] = "sync" THEN "ack" ELSE "established"]
      /\ peer' = [peer EXCEPT ![e] = "established"]
      /\ UNCHANGED <<w_count, r_count>>
  BY Zenon DEF SetState, Goto
<1>1. HandshakeType'
  BY <1>0, Zenon DEF HInv, HandshakeType, Pcs, States
<1>2. /\ Keeps(p) /\ pc'[e] = "notify"
      /\ state'[e] = IF peer[e] = "sync" THEN "ack" ELSE "established"
  BY <1>0, <1>p, Zenon DEF Keeps, HInv, HandshakeType
<1>3. /\ InHandler(p)' = InHandler(p) /\ InHandler(e) /\ ~InHandler(e)'
      /\ Sampled(p, e) /\ Sampled(e, p)
  BY <1>0, <1>2, <1>p, Zenon DEF InHandler, Keeps, HInv, p
<1>t. state[e] \in States /\ state[p] \in States /\ peer[e] \in States /\ peer[p] \in States
  BY <1>p, Zenon DEF HInv, HandshakeType
<1>4. Sampled(e, p)'
  BY <1>3, Zenon DEF Sampled
<1>5. Sampled(p, e)'
  BY <1>0, <1>2, <1>3, <1>t, Zenon DEF Sampled, Keeps, States
<1>6. Zeroed(e)'
  BY <1>0, <1>2, Zenon DEF Zeroed, HInv
<1> QED BY <1>1, <1>2, <1>4, <1>5, <1>6, ByEnds, Zenon DEF p

\* A restarted endpoint forgets its sample, and asks for a reset only when its
\* peer is not acting on one.
LEMMA ResetHInv ==
  ASSUME HInv, Prompt, NEW e \in Ends, Restart(e) \/ ChannelReset(e)
  PROVE  HInv'
<1> DEFINE p == Peer(e)
<1>p. p \in Ends /\ p # e /\ Peer(p) = e
  BY PeerFacts, Zenon
<1>0. /\ \/ /\ pc' = [pc EXCEPT ![e] = "reset"] /\ state' = state
            /\ peer' = [peer EXCEPT ![e] = "established"]
         \/ /\ pc' = [pc EXCEPT ![e] = "reset_notify"] /\ pc[e] = "reset"
            /\ state' = [state EXCEPT ![e] = "sync"] /\ peer' = peer
            /\ ~InHandler(p)
      /\ UNCHANGED <<w_count, r_count>>
  BY Zenon DEF Restart, ChannelReset, Goto, shared, private
<1> HIDE DEF p
<1>1. HandshakeType'
  BY <1>0, Zenon DEF HInv, HandshakeType, Pcs, States
<1>2. /\ Keeps(p) /\ pc'[e] \in {"reset", "reset_notify"}
      /\ \/ state'[e] = state[e]
         \/ state'[e] = "sync" /\ ~InHandler(p)
  BY <1>0, <1>p, Zenon DEF Keeps, HInv, HandshakeType
<1>3. InHandler(p)' = InHandler(p) /\ ~InHandler(e)' /\ Sampled(p, e)
  BY <1>2, <1>p, Zenon DEF InHandler, Keeps, HInv
<1>4. Sampled(e, p)'
  BY <1>3, Zenon DEF Sampled
<1>5. Sampled(p, e)'
  BY <1>2, <1>3, Zenon DEF Sampled, Keeps
<1>6. Zeroed(e)'
  BY <1>0, <1>2, Zenon DEF Zeroed, HInv
<1> QED BY <1>1, <1>2, <1>4, <1>5, <1>6, ByEnds, Zenon DEF p

LEMMA NextHInv ==
  ASSUME Prompt
  PROVE  HInv /\ [Next]_vars => HInv'
<1> SUFFICES ASSUME HInv, [Next]_vars PROVE HInv'
  OBVIOUS
<1>1. ASSUME NEW e \in Ends, Library(e) \/ CheckWrite(e) PROVE HInv'
  BY <1>1, StepKinds, MovesHInv, AdvanceHInv, NotifiedHInv, ClearHInv, SetStateHInv, ResetHInv, Zenon
<1>2. ASSUME NEW e \in Ends, Restart(e) PROVE HInv'
  BY <1>2, ResetHInv, Zenon
<1>3. CASE UNCHANGED vars
  BY <1>3, Zenon DEF vars, shared, private, HInv, HandshakeType, Sampled, Zeroed, InHandler
<1> QED BY <1>1, <1>2, <1>3, Zenon DEF Next

LEMMA HInvHolds ==
  ASSUME Prompt
  PROVE  Spec => []HInv
BY InitHInv, NextHInv, PTL DEF Spec

\* An endpoint that clears its counts changes nothing its established peer could
\* see: the peer is not established, or the counts were zero.
LEMMA ClearUnseen ==
  ASSUME HInv, NEW e \in Ends, pc[e] \in {"clear_w", "clear_r"},
         state[Peer(e)] = "established"
  PROVE  w_count[e] = 0 /\ r_count[e] = 0
<1>1. Sampled(e, Peer(e)) /\ Zeroed(e) /\ InHandler(e) /\ state[e] \in States
  BY Zenon DEF HInv, InHandler, HandshakeType
<1> QED BY <1>1, Zenon DEF Sampled, Zeroed, States

\* "The remote peer cannot reset its transmit counters until we've acknowledged
\* its synchronization request" (ivc_check_read): seen by an established endpoint
\* the peer's counts advance one by one and are never cleared, for any number of
\* restarts of either, if a restarted processor waits for a handler that runs.
THEOREM CountsAdvance ==
  ASSUME Prompt
  PROVE  Spec => PeerCountsAdvance
<1> DEFINE Advance(d) ==
      /\ w_count'[d] \in {w_count[d], (w_count[d] + 1) % CountModulus}
      /\ r_count'[d] \in {r_count[d], (r_count[d] + 1) % CountModulus}
<1>1. ASSUME HInv, [Next]_vars, NEW c \in Ends,
             state[c] = "established", pc[c] # "reset"
      PROVE  Advance(Peer(c))
  <2> DEFINE d == Peer(c)
  <2>d. d \in Ends /\ Peer(d) = c /\ d # c
    BY PeerFacts, Zenon
  <2> HIDE DEF d
  <2>0. w_count \in [Ends -> Counts] /\ r_count \in [Ends -> Counts]
    BY <1>1, Zenon DEF HInv, HandshakeType
  <2>1. ASSUME NEW e \in Ends, Moves(e) \/ ChannelNotified(e) \/ SetState(e)
                                \/ ChannelReset(e) \/ Restart(e)
        PROVE  Advance(d)
    BY <2>1, Zenon DEF Moves, ChannelNotified, SetState, ChannelReset, Restart, shared
  <2>2. ASSUME NEW e \in Ends, AdvanceTx(e) \/ AdvanceRx(e)
        PROVE  Advance(d)
    BY <2>0, <2>2, <2>d, Zenon DEF AdvanceTx, AdvanceRx
  <2>3. ASSUME NEW e \in Ends, ClearW(e) \/ ClearR(e)
        PROVE  Advance(d)
    <3>1. CASE e = d
      <4>1. w_count[d] = 0 /\ r_count[d] = 0
        BY <1>1, <2>3, <2>d, <3>1, ClearUnseen, Zenon DEF ClearW, ClearR
      <4> QED BY <2>0, <2>3, <2>d, <3>1, <4>1, Zenon DEF ClearW, ClearR
    <3>2. CASE e # d
      BY <2>0, <2>3, <2>d, <3>2, Zenon DEF ClearW, ClearR
    <3> QED BY <3>1, <3>2, Zenon
  <2>4. CASE UNCHANGED vars
    BY <2>4, Zenon DEF vars, shared
  <2> QED BY <1>1, <2>1, <2>2, <2>3, <2>4, StepKinds, Zenon DEF Next, d
<1>2. HInv /\ [Next]_vars =>
        [\A e \in Ends : state[e] = "established" /\ pc[e] # "reset" => Advance(Peer(e))]_vars
  BY <1>1, Zenon
<1> QED BY <1>2, HInvHolds, PTL DEF Spec, PeerCountsAdvance

-----------------------------------------------------------------------------
(***************************************************************************)
(* The rings.  To the invariant of the handshake this adds how the counts, *)
(* the private positions and the frames belong together, FInv, and shows   *)
(* that the data path and a reset keep it.                                 *)
(***************************************************************************)

Contents == Frames \cup {NoFrame}

DataType ==
  /\ frame \in [Ends -> [Positions -> Contents]]
  /\ w_pos \in [Ends -> Positions] /\ r_pos \in [Ends -> Positions]
  /\ buf \in [Ends -> Contents] /\ got \in [Ends -> Contents]

\* What is of e alone: the positions are cleared with the counts, and a frame
\* that is announced has been written.
Own(e) ==
  /\ state[e] = "ack" => w_pos[e] = 0 /\ r_pos[e] = 0
  /\ pc[e] \in {"clear_r", "set_state"} => w_pos[e] = 0
  /\ pc[e] = "set_state" => r_pos[e] = 0
  /\ pc[e] = "write" => buf[e] \in Frames
  /\ pc[e] = "w_advance" => frame[e][w_pos[e]] \in Frames

\* The frames of the ring from e to p are not on the way any more.
Dropped(e, p) == Restarted(p) \/ (state[e] = "sync" /\ Acknowledged(p))

Placed(e, p) == w_pos[e] = (r_pos[p] + AvailCount(e)) % NFrames

\* The ring from e to p holds no more than it can, the positions are as far
\* apart as the counts, a writer has room and a reader a frame.
Flow(e, p) ==
  /\ ~Dropped(e, p) => AvailCount(e) <= NFrames
  /\ ~Restarted(e) /\ ~Restarted(p) => Placed(e, p)
  /\ state[e] = "ack" /\ ~Restarted(p) => AvailCount(e) = 0
  /\ pc[e] \in {"write", "w_advance"} /\ ~Restarted(p) => AvailCount(e) < NFrames
  /\ pc[p] \in {"read", "r_advance"} => AvailCount(e) >= 1
  /\ pc[p] = "r_advance" => buf[p] = frame[e][r_pos[p]]

FInv ==
  /\ HInv
  /\ DataType
  /\ \A e \in Ends : Own(e) /\ Flow(e, Peer(e))

Step(e) == Library(e) \/ CheckWrite(e) \/ Restart(e)

-----------------------------------------------------------------------------
(***************************************************************************)
(* Counts and positions.                                                   *)
(***************************************************************************)

\* One more or one less frame in the ring, with counts that wrap.
LEMMA CountArithmetic ==
  ASSUME NEW w \in Counts, NEW r \in Counts
  PROVE  /\ (w - r) % CountModulus \in Counts
         /\ (w - r) % CountModulus < CountModulus - 1 =>
              (((w + 1) % CountModulus) - r) % CountModulus = ((w - r) % CountModulus) + 1
         /\ (w - r) % CountModulus >= 1 =>
              (w - ((r + 1) % CountModulus)) % CountModulus = ((w - r) % CountModulus) - 1
         /\ (0 - 0) % CountModulus = 0
BY CountAssumption, FramesAssumption DEF Counts

\* The position a frames after r, with positions that start over.
LEMMA PositionArithmetic ==
  ASSUME NEW r \in Positions, NEW a \in 0..NFrames
  PROVE  /\ (r + a) % NFrames \in Positions
         /\ NextPos((r + a) % NFrames) = (r + (a + 1)) % NFrames
         /\ a >= 1 => (NextPos(r) + (a - 1)) % NFrames = (r + a) % NFrames
         /\ (r + 0) % NFrames = r
         /\ NextPos(r) \in Positions
BY FramesAssumption DEF Positions, NextPos

\* Frames less than a ring apart are at different positions.
LEMMA Apart ==
  ASSUME NEW r \in Positions, NEW a \in Nat, NEW i \in Nat, i < a, a < NFrames
  PROVE  (r + i) % NFrames # (r + a) % NFrames
BY FramesAssumption DEF Positions

LEMMA AvailType ==
  ASSUME HandshakeType, NEW e \in Ends
  PROVE  AvailCount(e) \in Counts /\ AvailCount(e) \in Nat
BY PeerFacts, CountArithmetic, CountAssumption, FramesAssumption DEF AvailCount, HandshakeType, Counts

LEMMA PlacedSame ==
  ASSUME NEW e, NEW p, AvailCount(e)' = AvailCount(e), w_pos'[e] = w_pos[e], r_pos'[p] = r_pos[p]
  PROVE  Placed(e, p)' <=> Placed(e, p)
BY Zenon DEF Placed

-----------------------------------------------------------------------------
(***************************************************************************)
(* The invariant holds: one lemma per group of steps.                      *)
(***************************************************************************)

\* The invariant for e and its peer p.
Facts(e, p) ==
  /\ Own(e) /\ Own(p) /\ Flow(e, p) /\ Flow(p, e)
  /\ Zeroed(e) /\ Zeroed(p) /\ Sampled(e, p) /\ Sampled(p, e)
  /\ AvailCount(e) \in Nat /\ AvailCount(p) \in Nat
  /\ AvailCount(e) < CountModulus /\ AvailCount(p) < CountModulus
  /\ state[e] \in States /\ state[p] \in States /\ peer[e] \in States

LEMMA FactsHold ==
  ASSUME FInv, NEW e \in Ends
  PROVE  Facts(e, Peer(e))
<1>1. Peer(e) \in Ends /\ Peer(Peer(e)) = e
  BY PeerFacts, Zenon
<1>2. HandshakeType
  BY Zenon DEF FInv, HInv
<1>3. /\ AvailCount(e) \in Nat /\ AvailCount(Peer(e)) \in Nat
      /\ AvailCount(e) < CountModulus /\ AvailCount(Peer(e)) < CountModulus
  BY <1>1, <1>2, AvailType, CountAssumption DEF Counts
<1>4. state[e] \in States /\ state[Peer(e)] \in States /\ peer[e] \in States
  BY <1>1, <1>2, Zenon DEF HandshakeType
<1> QED BY <1>1, <1>3, <1>4, Zenon DEF FInv, HInv, Facts

\* A step of one endpoint leaves alone what belongs to the other.
KeepsAll(d) ==
  /\ Keeps(d)
  /\ w_pos'[d] = w_pos[d] /\ r_pos'[d] = r_pos[d]
  /\ buf'[d] = buf[d] /\ frame'[d] = frame[d] /\ got'[d] = got[d]

LEMMA OnlyOwn ==
  ASSUME FInv, NEW e \in Ends, Step(e)
  PROVE  KeepsAll(Peer(e))
<1> DEFINE p == Peer(e)
<1>p. p \in Ends /\ p # e
  BY PeerFacts, Zenon
<1> SUFFICES KeepsAll(p)
  OBVIOUS
<1> HIDE DEF p
<1>1. /\ p \in DOMAIN w_count /\ p \in DOMAIN r_count /\ p \in DOMAIN state
      /\ p \in DOMAIN peer /\ p \in DOMAIN pc
  BY <1>p, Zenon DEF FInv, HInv, HandshakeType
<1>2. /\ p \in DOMAIN w_pos /\ p \in DOMAIN r_pos /\ p \in DOMAIN buf
      /\ p \in DOMAIN frame /\ p \in DOMAIN got
  BY <1>p, Zenon DEF FInv, DataType
<1> USE <1>p, <1>1, <1>2 DEF KeepsAll, Keeps, Goto, shared, private
<1>3. CASE CheckWrite(e)
  BY <1>3, Zenon DEF CheckWrite
<1>4. CASE Restart(e)
  BY <1>4, Zenon DEF Restart
<1>5. CASE WriteFrame(e) \/ ReadFrame(e)
  BY <1>5, Zenon DEF WriteFrame, ReadFrame
<1>6. CASE AdvanceTx(e) \/ AdvanceRx(e)
  BY <1>6, Zenon DEF AdvanceTx, AdvanceRx
<1>7. CASE WriteNotify(e) \/ ReadNotify(e) \/ Notify(e) \/ ResetNotify(e)
  BY <1>7, Zenon DEF WriteNotify, ReadNotify, Notify, ResetNotify
<1>8. CASE CheckRead(e) \/ ChannelNotified(e)
  BY <1>8, Zenon DEF CheckRead, ChannelNotified
<1>9. CASE ClearW(e) \/ ClearR(e) \/ SetState(e) \/ ChannelReset(e)
  BY <1>9, Zenon DEF ClearW, ClearR, SetState, ChannelReset
<1> QED BY <1>3, <1>4, <1>5, <1>6, <1>7, <1>8, <1>9, Zenon DEF Step, Library

LEMMA DataTypeKept ==
  ASSUME FInv, NEW e \in Ends, Step(e)
  PROVE  DataType'
<1>t. DataType
  BY Zenon DEF FInv
<1>z. 0 \in Positions /\ \A n \in Positions : NextPos(n) \in Positions
  BY PositionArithmetic, FramesAssumption DEF Positions, NextPos
<1>p. Peer(e) \in Ends
  BY PeerFacts, Zenon
<1> USE <1>t DEF DataType, Contents, shared, private
<1>1. CASE CheckWrite(e)
  BY <1>1, Zenon DEF CheckWrite
<1>2. CASE Restart(e) \/ ClearW(e) \/ ClearR(e)
  BY <1>2, <1>z, Zenon DEF Restart, ClearW, ClearR
<1>3. CASE WriteFrame(e)
  BY <1>3, Zenon DEF WriteFrame
<1>4. CASE ReadFrame(e)
  BY <1>4, <1>p DEF ReadFrame
<1>5. CASE AdvanceTx(e)
  BY <1>5, <1>z, Zenon DEF AdvanceTx
<1>8. CASE AdvanceRx(e)
  BY <1>8, <1>z, Zenon DEF AdvanceRx
<1>6. CASE WriteNotify(e) \/ ReadNotify(e) \/ Notify(e) \/ ResetNotify(e)
  BY <1>6, Zenon DEF WriteNotify, ReadNotify, Notify, ResetNotify
<1>7. CASE CheckRead(e) \/ ChannelNotified(e) \/ SetState(e) \/ ChannelReset(e)
  BY <1>7, Zenon DEF CheckRead, ChannelNotified, SetState, ChannelReset
<1> QED BY <1>1, <1>2, <1>3, <1>4, <1>5, <1>6, <1>7, <1>8, Zenon DEF Step, Library

LEMMA ByPair ==
  ASSUME FInv, HInv', NEW e \in Ends, Step(e),
         Own(e)', Flow(e, Peer(e))', Flow(Peer(e), e)'
  PROVE  FInv'
<1>1. Own(Peer(e))'
  BY OnlyOwn, FactsHold DEF Facts, Own, KeepsAll, Keeps
<1>2. Ends = {e, Peer(e)}
  BY Zenon DEF Ends, Peer
<1>3. \A d \in Ends : Own(d)' /\ Flow(d, Peer(d))'
  BY <1>1, <1>2, PeerFacts, Zenon
<1> QED BY <1>3, DataTypeKept, Zenon DEF FInv

\* The endpoint goes on to label; of its variables at most buf changes.
Passes(e, label) ==
  /\ pc'[e] = label /\ pc[e] \notin {"reset", "clear_w", "clear_r", "set_state"}
  /\ label \in {"idle", "full", "r_check", "write", "read"}
  /\ label = "write" => buf'[e] \in Frames /\ AvailCount(e) < NFrames
  /\ label = "read" => AvailCount(Peer(e)) >= 1
  /\ UNCHANGED <<w_count, r_count, state, frame, w_pos, r_pos, peer, got>>

LEMMA PassesFInv ==
  ASSUME FInv, HInv', NEW e \in Ends, Step(e), NEW label, Passes(e, label)
  PROVE  FInv'
<1> DEFINE p == Peer(e)
<1>p. p \in Ends /\ p # e /\ Peer(p) = e
  BY PeerFacts, Zenon
<1>f. Facts(e, p) /\ KeepsAll(p)
  BY FactsHold, OnlyOwn, Zenon
<1>a. AvailCount(e)' = AvailCount(e) /\ AvailCount(p)' = AvailCount(p)
  BY Zenon DEF Passes, AvailCount
<1>0. /\ pc'[e] = label /\ pc[e] \notin {"reset", "clear_w", "clear_r", "set_state"}
      /\ label \in {"idle", "full", "r_check", "write", "read"}
      /\ label = "write" => buf'[e] \in Frames /\ AvailCount(e) < NFrames
      /\ label = "read" => AvailCount(p) >= 1
      /\ UNCHANGED <<w_count, r_count, state, frame, w_pos, r_pos, peer>>
  BY Zenon DEF Passes
<1> HIDE DEF p
<1>1. Own(e)'
  BY <1>0, <1>f, Zenon DEF Own, Facts
<1>2. /\ Restarted(e)' = Restarted(e) /\ Restarted(p)' = Restarted(p)
      /\ Acknowledged(e)' = Acknowledged(e) /\ Acknowledged(p)' = Acknowledged(p)
  BY <1>0, <1>f, Zenon DEF Restarted, Acknowledged, KeepsAll, Keeps
<1>3. Dropped(e, p)' = Dropped(e, p) /\ Dropped(p, e)' = Dropped(p, e)
  BY <1>0, <1>2, Zenon DEF Dropped
<1>l. (Placed(e, p)' <=> Placed(e, p)) /\ (Placed(p, e)' <=> Placed(p, e))
  BY <1>0, <1>a, PlacedSame, Zenon
<1>4. Flow(e, p)'
  BY <1>0, <1>f, <1>a, <1>l, <1>2, <1>3, Zenon DEF Flow, Facts, KeepsAll, Keeps
<1>5. Flow(p, e)'
  BY <1>0, <1>f, <1>a, <1>l, <1>2, <1>3, Zenon DEF Flow, Facts, KeepsAll, Keeps
<1> QED BY <1>1, <1>4, <1>5, ByPair, Zenon DEF p

LEMMA CallsFInv ==
  ASSUME FInv, HInv', NEW e \in Ends,
         CheckWrite(e) \/ WriteNotify(e) \/ CheckRead(e) \/ ReadNotify(e)
           \/ Notify(e) \/ ResetNotify(e)
  PROVE  FInv'
<1>t. /\ pc \in [Ends -> Pcs] /\ buf \in [Ends -> Contents]
  BY Zenon DEF FInv, HInv, HandshakeType, DataType
<1>s. Step(e)
  BY Zenon DEF Step, Library
<1>p. Peer(e) \in Ends /\ Peer(Peer(e)) = e /\ AvailCount(Peer(e)) \in Nat
  BY PeerFacts, AvailType, Zenon DEF FInv, HInv
<1> USE DEF Goto, shared, private
<1>1. CASE CheckWrite(e)
  <2>1. PICK label \in {"write", "full"} :
          /\ pc' = [pc EXCEPT ![e] = label]
          /\ label = "write" => ~ChannelFull(e) /\ \E f \in Frames : buf' = [buf EXCEPT ![e] = f]
    BY <1>1, Zenon DEF CheckWrite
  <2>2. label = "write" => buf'[e] \in Frames /\ AvailCount(e) < NFrames
    BY <2>1, <1>t, AvailType, FramesAssumption DEF ChannelFull, FInv, HInv
  <2>3. Passes(e, label)
    BY <1>1, <1>t, <2>1, <2>2, Zenon DEF CheckWrite, Passes
  <2> QED BY <1>s, <2>3, PassesFInv, Zenon
<1>2. CASE WriteNotify(e)
  <2>1. /\ pc[e] = "w_notify" /\ pc' = [pc EXCEPT ![e] = "idle"]
        /\ UNCHANGED <<shared, private>>
    BY <1>2, Zenon DEF WriteNotify
  <2>2. Passes(e, "idle")
    BY <2>1, <1>t, Zenon DEF Passes
  <2> QED BY <1>s, <2>2, PassesFInv, Zenon
<1>3. CASE CheckRead(e)
  <2>1. PICK label \in {"read", "idle"} :
          /\ pc' = [pc EXCEPT ![e] = label]
          /\ label = "read" => ~ChannelEmpty(Peer(e))
    BY <1>3, Zenon DEF CheckRead
  <2>2. label = "read" => AvailCount(Peer(e)) >= 1
    BY <2>1, <1>p DEF ChannelEmpty
  <2>3. Passes(e, label)
    BY <1>3, <1>t, <2>1, <2>2, Zenon DEF CheckRead, Passes
  <2> QED BY <1>s, <2>3, PassesFInv, Zenon
<1>4. CASE ReadNotify(e)
  <2>1. /\ pc[e] = "r_notify" /\ pc' = [pc EXCEPT ![e] = "r_check"]
        /\ UNCHANGED <<shared, private>>
    BY <1>4, Zenon DEF ReadNotify
  <2>2. Passes(e, "r_check")
    BY <2>1, <1>t, Zenon DEF Passes
  <2> QED BY <1>s, <2>2, PassesFInv, Zenon
<1>5. CASE Notify(e)
  <2>1. Passes(e, "r_check")
    BY <1>5, <1>t, Zenon DEF Notify, Passes
  <2> QED BY <1>s, <2>1, PassesFInv, Zenon
<1>6. CASE ResetNotify(e)
  <2>1. Passes(e, "idle")
    BY <1>6, <1>t, Zenon DEF ResetNotify, Passes
  <2> QED BY <1>s, <2>1, PassesFInv, Zenon
<1> QED BY <1>1, <1>2, <1>3, <1>4, <1>5, <1>6, Zenon

\* A frame is written where no frame is on the way.
LEMMA WriteFrameFInv ==
  ASSUME FInv, HInv', NEW e \in Ends, WriteFrame(e)
  PROVE  FInv'
<1> DEFINE p == Peer(e)
<1>p. p \in Ends /\ p # e /\ Peer(p) = e
  BY PeerFacts, Zenon
<1>s. Step(e)
  BY Zenon DEF Step, Library
<1>f. Facts(e, p) /\ KeepsAll(p)
  BY <1>s, FactsHold, OnlyOwn, Zenon
<1>a. AvailCount(e)' = AvailCount(e) /\ AvailCount(p)' = AvailCount(p)
  BY Zenon DEF WriteFrame, AvailCount
<1> SUFFICES Own(e)' /\ Flow(e, p)' /\ Flow(p, e)'
  BY <1>s, ByPair, Zenon
<1> HIDE DEF p
<1>0. /\ pc[e] = "write" /\ pc'[e] = "w_advance"
      /\ frame'[e] = [frame[e] EXCEPT ![w_pos[e]] = buf[e]]
      /\ UNCHANGED <<w_count, r_count, state, w_pos, r_pos, peer>>
  BY Zenon DEF WriteFrame, Goto, FInv, HInv, HandshakeType, DataType
<1>t. /\ frame[e] \in [Positions -> Contents] /\ w_pos[e] \in Positions /\ r_pos[p] \in Positions
  BY <1>p, Zenon DEF FInv, DataType
<1>1. Own(e)'
  BY <1>0, <1>f, <1>t, Zenon DEF Own, Facts
<1>2. /\ Restarted(e)' = Restarted(e) /\ Restarted(p)' = Restarted(p)
      /\ Acknowledged(e)' = Acknowledged(e) /\ Acknowledged(p)' = Acknowledged(p)
      /\ ~Restarted(e)
  BY <1>0, <1>f, Zenon DEF Restarted, Acknowledged, KeepsAll, Keeps, Facts, Zeroed
<1>3. Dropped(e, p)' = Dropped(e, p) /\ Dropped(p, e)' = Dropped(p, e)
  BY <1>0, <1>2, Zenon DEF Dropped
<1>4. pc[p] = "r_advance" => frame'[e][r_pos[p]] = frame[e][r_pos[p]]
  <2> SUFFICES ASSUME pc[p] = "r_advance" PROVE r_pos[p] # w_pos[e]
    BY <1>0, <1>t, Zenon
  <2>1. ~Restarted(p)
    BY <1>f, Zenon DEF Restarted, Facts, Zeroed
  <2>2. /\ w_pos[e] = (r_pos[p] + AvailCount(e)) % NFrames
        /\ AvailCount(e) < NFrames /\ AvailCount(e) >= 1 /\ AvailCount(e) \in Nat
    BY <1>0, <1>2, <1>f, <2>1, Zenon DEF Facts, Flow, Placed
  <2>3. (r_pos[p] + 0) % NFrames # (r_pos[p] + AvailCount(e)) % NFrames
    BY <1>t, <2>2, Apart
  <2>4. (r_pos[p] + 0) % NFrames = r_pos[p]
    BY <1>t, FramesAssumption DEF Positions
  <2> QED BY <2>2, <2>3, <2>4, Zenon
<1>l. (Placed(e, p)' <=> Placed(e, p)) /\ (Placed(p, e)' <=> Placed(p, e))
  BY <1>0, <1>a, PlacedSame, Zenon
<1>5. Flow(e, p)'
  <2>1. /\ Flow(e, p) /\ pc[e] = "write" /\ pc'[e] = "w_advance" /\ pc'[p] = pc[p]
        /\ state'[e] = state[e] /\ buf'[p] = buf[p] /\ r_pos' = r_pos
    BY <1>0, <1>f, Zenon DEF Facts, KeepsAll, Keeps
  <2> QED BY <1>a, <1>l, <1>2, <1>3, <1>4, <2>1, Zenon DEF Flow
<1>6. Flow(p, e)'
  <2>1. Flow(p, e) /\ pc'[e] = "w_advance" /\ pc'[p] = pc[p] /\ state'[p] = state[p]
    BY <1>0, <1>f, Zenon DEF Facts, KeepsAll, Keeps
  <2> QED BY <1>a, <1>l, <1>2, <1>3, <2>1, Zenon DEF Flow
<1> QED BY <1>1, <1>5, <1>6, Zenon

LEMMA AddsOne ==
  ASSUME NEW e \in Ends, NEW p \in Ends, Peer(e) = p,
         w_count[e] \in Counts, r_count[p] \in Counts,
         AvailCount(e) \in Nat, AvailCount(e) < NFrames,
         w_count'[e] = (w_count[e] + 1) % CountModulus, r_count' = r_count
  PROVE  AvailCount(e)' = AvailCount(e) + 1
<1>1. AvailCount(e) = (w_count[e] - r_count[p]) % CountModulus
  BY Zenon DEF AvailCount
<1>2. AvailCount(e)' = (w_count'[e] - r_count[p]) % CountModulus
  BY Zenon DEF AvailCount
<1>3. AvailCount(e) < CountModulus - 1
  BY CountAssumption, FramesAssumption
<1>4. (((w_count[e] + 1) % CountModulus) - r_count[p]) % CountModulus
        = ((w_count[e] - r_count[p]) % CountModulus) + 1
  BY <1>1, <1>3, CountArithmetic, Zenon
<1> QED BY <1>1, <1>2, <1>4, Zenon

\* The frame that was written is announced.
LEMMA AdvanceTxFInv ==
  ASSUME FInv, HInv', NEW e \in Ends, AdvanceTx(e)
  PROVE  FInv'
<1> DEFINE p == Peer(e)
<1>p. p \in Ends /\ p # e /\ Peer(p) = e
  BY PeerFacts, Zenon
<1>s. Step(e)
  BY Zenon DEF Step, Library
<1>f. Facts(e, p) /\ KeepsAll(p)
  BY <1>s, FactsHold, OnlyOwn, Zenon
<1> SUFFICES Own(e)' /\ Flow(e, p)' /\ Flow(p, e)'
  BY <1>s, ByPair, Zenon
<1>t. /\ w_pos[e] \in Positions /\ r_pos[p] \in Positions
      /\ w_count[e] \in Counts /\ r_count[p] \in Counts
  BY <1>p, Zenon DEF FInv, DataType, HInv, HandshakeType
<1>0. /\ pc[e] = "w_advance" /\ pc'[e] = "w_notify"
      /\ w_count'[e] = (w_count[e] + 1) % CountModulus
      /\ w_pos'[e] = NextPos(w_pos[e])
      /\ UNCHANGED <<r_count, state, frame, r_pos, peer, buf>>
  BY Zenon DEF AdvanceTx, Goto, FInv, HInv, HandshakeType, DataType
<1>1. Own(e)'
  BY <1>0, <1>f, Zenon DEF Own, Facts, Zeroed
<1>2. /\ Restarted(e)' = Restarted(e) /\ Restarted(p)' = Restarted(p)
      /\ Acknowledged(e)' = Acknowledged(e) /\ Acknowledged(p)' = Acknowledged(p)
      /\ ~Restarted(e) /\ state[e] = "established"
  BY <1>0, <1>f, Zenon DEF Restarted, Acknowledged, KeepsAll, Keeps, Facts, Zeroed
<1>3. Dropped(e, p)' = Dropped(e, p) /\ Dropped(p, e)' = Dropped(p, e)
  BY <1>0, <1>2, Zenon DEF Dropped
<1>4. AvailCount(p)' = AvailCount(p)
  BY <1>0, <1>p, <1>f, Zenon DEF AvailCount, KeepsAll, Keeps
<1>5. ~Restarted(p) => /\ AvailCount(e) < NFrames
                       /\ AvailCount(e)' = AvailCount(e) + 1
                       /\ Placed(e, p)'
  <2> SUFFICES ASSUME ~Restarted(p)
               PROVE  /\ AvailCount(e) < NFrames
                      /\ AvailCount(e)' = AvailCount(e) + 1
                      /\ Placed(e, p)'
    OBVIOUS
  <2>1. /\ AvailCount(e) < NFrames /\ AvailCount(e) \in Nat
        /\ w_pos[e] = (r_pos[p] + AvailCount(e)) % NFrames
    BY <1>0, <1>2, <1>f, Zenon DEF Facts, Flow, Placed
  <2>2. AvailCount(e)' = AvailCount(e) + 1
    BY <1>0, <1>t, <1>p, <2>1, AddsOne, Zenon
  <2>3. AvailCount(e) \in 0..NFrames
    BY <2>1, FramesAssumption
  <2>4. NextPos((r_pos[p] + AvailCount(e)) % NFrames) = (r_pos[p] + (AvailCount(e) + 1)) % NFrames
    BY <1>t, <2>3, PositionArithmetic, Zenon
  <2>5. Placed(e, p)'
    BY <1>0, <2>1, <2>2, <2>4, Zenon DEF Placed
  <2> QED BY <2>1, <2>2, <2>5, Zenon
<1>r. pc[p] \in {"read", "r_advance"} => ~Restarted(p)
  BY <1>f, Zenon DEF Restarted, Facts, Zeroed
<1> HIDE DEF p
<1>6. Flow(e, p)'
  <2>1. AvailCount(e) \in Nat /\ (~Restarted(p) => AvailCount(e)' <= NFrames)
    BY <1>f, <1>5, FramesAssumption DEF Facts
  <2>2. pc[p] \in {"read", "r_advance"} => AvailCount(e) >= 1 /\ AvailCount(e)' >= 1
    BY <1>f, <1>r, <1>5, <2>1 DEF Facts, Flow
  <2>3. ~Dropped(e, p) => ~Restarted(p)
    BY Zenon DEF Dropped
  <2>4. /\ Flow(e, p) /\ pc'[e] = "w_notify" /\ pc'[p] = pc[p] /\ state'[e] = "established"
        /\ buf'[p] = buf[p] /\ frame' = frame /\ r_pos' = r_pos
    BY <1>0, <1>f, <1>2, Zenon DEF Facts, KeepsAll, Keeps
  <2> QED BY <1>2, <1>3, <1>5, <2>1, <2>2, <2>3, <2>4, Zenon DEF Flow
<1>l. Placed(p, e)' <=> Placed(p, e)
  BY <1>0, <1>f, <1>4, PlacedSame, Zenon DEF KeepsAll
<1>7. Flow(p, e)'
  <2>1. Flow(p, e) /\ pc'[e] = "w_notify" /\ pc'[p] = pc[p] /\ state'[p] = state[p]
    BY <1>0, <1>f, Zenon DEF Facts, KeepsAll, Keeps
  <2> QED BY <1>l, <1>4, <1>2, <1>3, <2>1, Zenon DEF Flow
<1> QED BY <1>1, <1>6, <1>7, Zenon

\* A frame is copied out: nobody writes to it before it is freed.
LEMMA ReadFrameFInv ==
  ASSUME FInv, HInv', NEW e \in Ends, ReadFrame(e)
  PROVE  FInv'
<1> DEFINE p == Peer(e)
<1>p. p \in Ends /\ p # e /\ Peer(p) = e
  BY PeerFacts, Zenon
<1>s. Step(e)
  BY Zenon DEF Step, Library
<1>f. Facts(e, p) /\ KeepsAll(p)
  BY <1>s, FactsHold, OnlyOwn, Zenon
<1> SUFFICES Own(e)' /\ Flow(e, p)' /\ Flow(p, e)'
  BY <1>s, ByPair, Zenon
<1>a. AvailCount(e)' = AvailCount(e) /\ AvailCount(p)' = AvailCount(p)
  BY Zenon DEF ReadFrame, AvailCount, shared
<1>0. /\ pc[e] = "read" /\ pc'[e] = "r_advance"
      /\ buf'[e] = frame[p][r_pos[e]]
      /\ UNCHANGED <<w_count, r_count, state, frame, w_pos, r_pos, peer>>
  BY Zenon DEF ReadFrame, Goto, shared, FInv, HInv, HandshakeType, DataType
<1> HIDE DEF p
<1>1. Own(e)'
  BY <1>0, <1>f, Zenon DEF Own, Facts
<1>2. /\ Restarted(e)' = Restarted(e) /\ Restarted(p)' = Restarted(p)
      /\ Acknowledged(e)' = Acknowledged(e) /\ Acknowledged(p)' = Acknowledged(p)
  BY <1>0, <1>f, Zenon DEF Restarted, Acknowledged, KeepsAll, Keeps
<1>3. Dropped(e, p)' = Dropped(e, p) /\ Dropped(p, e)' = Dropped(p, e)
  BY <1>0, <1>2, Zenon DEF Dropped
<1>l. (Placed(e, p)' <=> Placed(e, p)) /\ (Placed(p, e)' <=> Placed(p, e))
  BY <1>0, <1>a, PlacedSame, Zenon
<1>4. Flow(e, p)' /\ Flow(p, e)'
  BY <1>0, <1>f, <1>a, <1>l, <1>2, <1>3 DEF Flow, Facts, KeepsAll, Keeps
<1> QED BY <1>1, <1>4, Zenon

LEMMA FreesOne ==
  ASSUME NEW e \in Ends, NEW p \in Ends, Peer(p) = e,
         w_count[p] \in Counts, r_count[e] \in Counts, AvailCount(p) >= 1,
         w_count' = w_count, r_count'[e] = (r_count[e] + 1) % CountModulus
  PROVE  AvailCount(p)' = AvailCount(p) - 1
<1>1. AvailCount(p) = (w_count[p] - r_count[e]) % CountModulus
  BY Zenon DEF AvailCount
<1>2. AvailCount(p)' = (w_count[p] - r_count'[e]) % CountModulus
  BY Zenon DEF AvailCount
<1>3. ASSUME NEW a, NEW w \in Counts, NEW r \in Counts, NEW r2,
             a = (w - r) % CountModulus, a >= 1, r2 = (r + 1) % CountModulus
      PROVE  (w - r2) % CountModulus = a - 1
  <2>1. r2 \in Int /\ a \in Int
    BY <1>3, CountAssumption, FramesAssumption DEF Counts
  <2>2. \/ r + 1 < CountModulus /\ r2 = r + 1
        \/ r + 1 = CountModulus /\ r2 = 0
    BY <1>3, CountAssumption, FramesAssumption DEF Counts
  <2> QED BY <1>3, <2>1, <2>2, CountAssumption, FramesAssumption DEF Counts
<1>4. (w_count[p] - r_count'[e]) % CountModulus = AvailCount(p) - 1
  BY <1>1, <1>3
<1> QED BY <1>2, <1>4, Zenon

\* The frame that was copied out is freed.
LEMMA AdvanceRxFInv ==
  ASSUME FInv, HInv', NEW e \in Ends, AdvanceRx(e)
  PROVE  FInv'
<1> DEFINE p == Peer(e)
<1>p. p \in Ends /\ p # e /\ Peer(p) = e
  BY PeerFacts, Zenon
<1>s. Step(e)
  BY Zenon DEF Step, Library
<1>f. Facts(e, p) /\ KeepsAll(p)
  BY <1>s, FactsHold, OnlyOwn, Zenon
<1> SUFFICES Own(e)' /\ Flow(e, p)' /\ Flow(p, e)'
  BY <1>s, ByPair, Zenon
<1>t. /\ w_pos[p] \in Positions /\ r_pos[e] \in Positions
      /\ w_count[p] \in Counts /\ r_count[e] \in Counts
  BY <1>p, Zenon DEF FInv, DataType, HInv, HandshakeType
<1>0. /\ pc[e] = "r_advance" /\ pc'[e] = "r_notify"
      /\ r_count'[e] = (r_count[e] + 1) % CountModulus
      /\ r_pos'[e] = NextPos(r_pos[e])
      /\ UNCHANGED <<w_count, state, frame, w_pos, peer>>
  BY Zenon DEF AdvanceRx, Goto, FInv, HInv, HandshakeType, DataType
<1> HIDE DEF p
<1>1. Own(e)'
  BY <1>0, <1>f, Zenon DEF Own, Facts, Zeroed
<1>2. /\ Restarted(e)' = Restarted(e) /\ Restarted(p)' = Restarted(p)
      /\ Acknowledged(e)' = Acknowledged(e) /\ Acknowledged(p)' = Acknowledged(p)
      /\ ~Restarted(e) /\ state[e] = "established" /\ ~Acknowledged(e)
  BY <1>0, <1>f, Zenon DEF Restarted, Acknowledged, KeepsAll, Keeps, Facts, Zeroed
<1>3. Dropped(e, p)' = Dropped(e, p) /\ Dropped(p, e)' = Dropped(p, e) /\ ~Dropped(p, e)
  <2>1. state' = state
    BY <1>0, Zenon
  <2> QED BY <1>2, <2>1, Zenon DEF Dropped
<1>4. AvailCount(e)' = AvailCount(e)
  BY <1>0, <1>f, Zenon DEF AvailCount, KeepsAll, Keeps, p
<1>5. AvailCount(p) \in 1..NFrames
  BY <1>0, <1>3, <1>f, FramesAssumption DEF Facts, Flow
<1>6. AvailCount(p)' = AvailCount(p) - 1
  <2>1. AvailCount(p) >= 1
    BY <1>5, FramesAssumption
  <2> QED BY <1>0, <1>p, <1>t, <2>1, FreesOne, Zenon
<1>7. (NextPos(r_pos[e]) + (AvailCount(p) - 1)) % NFrames = (r_pos[e] + AvailCount(p)) % NFrames
  BY <1>t, <1>5, PositionArithmetic
<1>l. Placed(e, p)' <=> Placed(e, p)
  BY <1>0, <1>f, <1>4, PlacedSame, Zenon DEF KeepsAll
<1>k. /\ Flow(e, p) /\ Flow(p, e) /\ pc'[e] = "r_notify" /\ pc'[p] = pc[p]
      /\ state' = state /\ buf'[p] = buf[p] /\ frame' = frame /\ r_pos'[p] = r_pos[p]
  BY <1>0, <1>f, Zenon DEF Facts, KeepsAll, Keeps
<1>8. Flow(e, p)'
  BY <1>k, <1>l, <1>4, <1>2, <1>3, Zenon DEF Flow
<1>9. Flow(p, e)'
  <2>1. AvailCount(p)' \in 0..NFrames /\ AvailCount(p)' < NFrames /\ AvailCount(p) # 0
    BY <1>5, <1>6, FramesAssumption
  <2>2. ~Restarted(p) => Placed(p, e)'
    <3>1. ~Restarted(p) => w_pos[p] = (r_pos[e] + AvailCount(p)) % NFrames
      BY <1>k, <1>2, Zenon DEF Flow, Placed
    <3> QED BY <1>0, <1>6, <1>7, <3>1, Zenon DEF Placed
  <2>3. AvailCount(p)' <= NFrames
    BY <2>1, FramesAssumption
  <2>4. state[p] # "ack" \/ Restarted(e)
    BY <1>k, <2>1, Zenon DEF Flow
  <2> QED BY <1>k, <1>2, <1>3, <2>1, <2>2, <2>3, <2>4, Zenon DEF Flow
<1> QED BY <1>1, <1>8, <1>9, Zenon

-----------------------------------------------------------------------------
(***************************************************************************)
(* The reset: tegra_ivc_channel_notified, channel_reset and restarts.      *)
(***************************************************************************)

\* The sample that starts the handler changes neither ring.
LEMMA NotifiedFInv ==
  ASSUME FInv, HInv', NEW e \in Ends, ChannelNotified(e)
  PROVE  FInv'
<1> DEFINE p == Peer(e)
<1>p. p \in Ends /\ p # e /\ Peer(p) = e
  BY PeerFacts, Zenon
<1>s. Step(e)
  BY Zenon DEF Step, Library
<1>f. Facts(e, p) /\ KeepsAll(p)
  BY <1>s, FactsHold, OnlyOwn, Zenon
<1> SUFFICES Own(e)' /\ Flow(e, p)' /\ Flow(p, e)'
  BY <1>s, ByPair, Zenon
<1>a. AvailCount(e)' = AvailCount(e) /\ AvailCount(p)' = AvailCount(p)
  BY Zenon DEF ChannelNotified, AvailCount, shared
<1>0. /\ pc[e] \in {"idle", "full"} /\ pc'[e] = Handshake(e, state[p])
      /\ pc'[e] # "r_check" => peer'[e] = state[p]
      /\ UNCHANGED <<w_count, r_count, state, frame, w_pos, r_pos, buf>>
  BY Zenon DEF ChannelNotified, Goto, shared, FInv, HInv, HandshakeType
<1> HIDE DEF p
<1>1. Own(e)'
  BY <1>0, <1>f, Zenon DEF Own, Facts, Handshake
<1>2. /\ Restarted(e)' = Restarted(e) /\ Restarted(p)' = Restarted(p)
      /\ Acknowledged(p)' = Acknowledged(p)
      /\ state[p] = "sync" => Acknowledged(e)' = Acknowledged(e)
  BY <1>0, <1>f, Zenon DEF Restarted, Acknowledged, KeepsAll, Keeps, Handshake
<1>3. Dropped(e, p)' = Dropped(e, p) /\ Dropped(p, e)' = Dropped(p, e)
  BY <1>0, <1>2, Zenon DEF Dropped
<1>4. pc'[e] \notin {"write", "w_advance", "read", "r_advance"}
  BY <1>0, Zenon DEF Handshake
<1>l. (Placed(e, p)' <=> Placed(e, p)) /\ (Placed(p, e)' <=> Placed(p, e))
  BY <1>0, <1>a, PlacedSame, Zenon
<1>5. Flow(e, p)' /\ Flow(p, e)'
  BY <1>0, <1>f, <1>a, <1>l, <1>2, <1>3, <1>4 DEF Flow, Facts, KeepsAll, Keeps
<1> QED BY <1>1, <1>5, Zenon

\* While e acts on a reset, nothing of its rings is on the way, or its counts
\* are zero already.
LEMMA HandlerFacts ==
  ASSUME NEW e \in Ends, NEW p \in Ends, Facts(e, p), InHandler(e)
  PROVE  /\ state[e] # "ack" /\ peer[e] = "sync" => Dropped(e, p)
         /\ state[e] = "sync" => Dropped(e, p) /\ Dropped(p, e)
         /\ state[e] = "established" => Restarted(p)
BY Zenon DEF Facts, Sampled, Dropped, Restarted, Acknowledged, InHandler, States

\* The write count is cleared.
LEMMA ClearWFInv ==
  ASSUME FInv, HInv', NEW e \in Ends, ClearW(e)
  PROVE  FInv'
<1> DEFINE p == Peer(e)
<1>p. p \in Ends /\ p # e /\ Peer(p) = e
  BY PeerFacts, Zenon
<1>s. Step(e)
  BY DEF Step, Library
<1>f. Facts(e, p) /\ KeepsAll(p)
  BY <1>s, FactsHold, OnlyOwn, Zenon
<1> SUFFICES Own(e)' /\ Flow(e, p)' /\ Flow(p, e)'
  BY <1>s, ByPair, Zenon
<1>0. /\ pc[e] = "clear_w" /\ pc'[e] = "clear_r"
      /\ w_count'[e] = 0 /\ w_pos'[e] = 0
      /\ UNCHANGED <<r_count, state, frame, r_pos, peer, buf>>
  BY Zenon DEF ClearW, Goto, FInv, HInv, HandshakeType, DataType
<1>a. AvailCount(p)' = AvailCount(p) /\ (w_count[e] = 0 => AvailCount(e)' = AvailCount(e))
  BY <1>0, <1>p, <1>f DEF AvailCount, KeepsAll, Keeps
<1> HIDE DEF p
<1>1. Own(e)'
  BY <1>0, <1>f, Zenon DEF Own, Facts
<1>2. /\ Restarted(e)' = Restarted(e) /\ Restarted(p)' = Restarted(p)
      /\ Acknowledged(e)' = Acknowledged(e) /\ Acknowledged(p)' = Acknowledged(p)
  BY <1>0, <1>f, Zenon DEF Restarted, Acknowledged, KeepsAll, Keeps
<1>3. Dropped(e, p)' = Dropped(e, p) /\ Dropped(p, e)' = Dropped(p, e)
  BY <1>0, <1>2, Zenon DEF Dropped
<1>4. Flow(e, p)'
  <2>1. CASE state[e] = "ack"
    <3>1. w_count[e] = 0 /\ w_pos[e] = 0
      BY <2>1, <1>f, Zenon DEF Facts, Zeroed, Own
    <3>2. Placed(e, p)' <=> Placed(e, p)
      BY <1>0, <1>a, <3>1, PlacedSame, Zenon
    <3> QED BY <1>0, <1>a, <1>f, <1>2, <1>3, <3>1, <3>2, Zenon DEF Flow, Facts, KeepsAll, Keeps
  <2>2. CASE state[e] # "ack"
    <3>1. Dropped(e, p) /\ (Restarted(e) \/ Restarted(p))
      BY <1>0, <1>p, <1>f, <2>2, HandlerFacts, Zenon DEF InHandler, Facts, States, Restarted, Dropped
    <3>2. pc[p] \notin {"read", "r_advance"}
      BY <1>0, <1>f, <2>2, Zenon DEF Facts, Zeroed, Sampled, InHandler, States
    <3> QED BY <1>0, <1>f, <1>2, <1>3, <2>2, <3>1, <3>2, Zenon DEF Flow, KeepsAll, Keeps
  <2> QED BY <2>1, <2>2
<1>l. Placed(p, e)' <=> Placed(p, e)
  BY <1>0, <1>a, <1>f, PlacedSame, Zenon DEF KeepsAll
<1>5. Flow(p, e)'
  BY <1>0, <1>f, <1>a, <1>l, <1>2, <1>3 DEF Flow, Facts, KeepsAll, Keeps
<1> QED BY <1>1, <1>4, <1>5, Zenon

\* The read count is cleared.
LEMMA ClearRFInv ==
  ASSUME FInv, HInv', NEW e \in Ends, ClearR(e)
  PROVE  FInv'
<1> DEFINE p == Peer(e)
<1>p. p \in Ends /\ p # e /\ Peer(p) = e
  BY PeerFacts, Zenon
<1>s. Step(e)
  BY Zenon DEF Step, Library
<1>f. Facts(e, p) /\ KeepsAll(p)
  BY <1>s, FactsHold, OnlyOwn, Zenon
<1> SUFFICES Own(e)' /\ Flow(e, p)' /\ Flow(p, e)'
  BY <1>s, ByPair, Zenon
<1>0. /\ pc[e] = "clear_r" /\ pc'[e] = "set_state"
      /\ r_count'[e] = 0 /\ r_pos'[e] = 0
      /\ UNCHANGED <<w_count, state, frame, w_pos, peer, buf>>
  BY Zenon DEF ClearR, Goto, FInv, HInv, HandshakeType, DataType
<1>a. AvailCount(e)' = AvailCount(e) /\ (r_count[e] = 0 => AvailCount(p)' = AvailCount(p))
  BY <1>0, <1>p, <1>f, Zenon DEF AvailCount, KeepsAll, Keeps
<1> HIDE DEF p
<1>1. Own(e)'
  BY <1>0, <1>f, Zenon DEF Own, Facts
<1>2. /\ Restarted(e)' = Restarted(e) /\ Restarted(p)' = Restarted(p)
      /\ Acknowledged(p)' = Acknowledged(p)
      /\ Acknowledged(e)' = (peer[e] = "sync")
      /\ Acknowledged(e) = (state[e] = "ack")
      /\ state[e] # "sync" => peer[e] = "sync"
  BY <1>0, <1>f, Zenon DEF Restarted, Acknowledged, KeepsAll, Keeps, Facts, Sampled, InHandler, States
<1>3. Dropped(e, p)' = Dropped(e, p) /\ (Dropped(p, e) => Dropped(p, e)')
  BY <1>0, <1>2, Zenon DEF Dropped, Restarted
<1>l. Placed(e, p)' <=> Placed(e, p)
  BY <1>0, <1>a, <1>f, PlacedSame, Zenon DEF KeepsAll
<1>4. Flow(e, p)'
  BY <1>0, <1>f, <1>a, <1>l, <1>2, <1>3, Zenon DEF Flow, Facts, KeepsAll, Keeps
<1>5. Flow(p, e)'
  <2>1. CASE state[e] = "ack"
    <3>1. r_count[e] = 0 /\ r_pos[e] = 0
      BY <2>1, <1>f, Zenon DEF Facts, Zeroed, Own
    <3>2. Placed(p, e)' <=> Placed(p, e)
      BY <1>0, <1>a, <3>1, PlacedSame, Zenon
    <3> QED BY <1>0, <1>a, <1>f, <1>2, <1>3, <2>1, <3>1, <3>2, Zenon DEF Flow, Facts, KeepsAll, Keeps, Dropped
  <2>2. CASE state[e] = "established"
    <3>1. state[p] = "sync" /\ Dropped(p, e)' /\ Restarted(p) /\ ~InHandler(p)
      BY <1>0, <1>2, <1>f, <2>2, Zenon DEF Facts, Sampled, InHandler, Dropped, Restarted, KeepsAll, Keeps
    <3>2. pc[p] \notin {"write", "w_advance"}
      BY <1>f, <3>1, Zenon DEF Facts, Zeroed
    <3> QED BY <1>0, <1>f, <1>2, <3>1, <3>2, Zenon DEF Flow, KeepsAll, Keeps
  <2>3. CASE state[e] = "sync"
    <3>1. Restarted(e)
      BY <2>3, Zenon DEF Restarted
    <3> QED BY <1>0, <1>f, <1>2, <1>3, <3>1, Zenon DEF Flow, KeepsAll, Keeps, Dropped
  <2> QED BY <2>1, <2>2, <2>3, <1>f, Zenon DEF Facts, States
<1> QED BY <1>1, <1>4, <1>5, Zenon

\* The state is set: where both rings are taken up again they are empty.
LEMMA SetStateFInv ==
  ASSUME FInv, HInv', NEW e \in Ends, SetState(e)
  PROVE  FInv'
<1> DEFINE p == Peer(e)
<1>p. p \in Ends /\ p # e /\ Peer(p) = e
  BY PeerFacts, Zenon
<1>s. Step(e)
  BY Zenon DEF Step, Library
<1>f. Facts(e, p) /\ KeepsAll(p)
  BY <1>s, FactsHold, OnlyOwn, Zenon
<1> SUFFICES Own(e)' /\ Flow(e, p)' /\ Flow(p, e)'
  BY <1>s, ByPair, Zenon
<1>a. AvailCount(e)' = AvailCount(e) /\ AvailCount(p)' = AvailCount(p)
  BY Zenon DEF SetState, AvailCount
<1>0. /\ pc[e] = "set_state" /\ pc'[e] = "notify"
      /\ state'[e] = IF peer[e] = "sync" THEN "ack" ELSE "established"
      /\ UNCHANGED <<w_count, r_count, frame, w_pos, r_pos, buf>>
  BY Zenon DEF SetState, Goto, FInv, HInv, HandshakeType
<1>z. state[p] = "ack" => AvailCount(e) = 0 /\ AvailCount(p) = 0
  BY <1>0, <1>p, <1>f, CountArithmetic, CountFacts DEF Facts, Zeroed, AvailCount
<1> HIDE DEF p
<1>1. Own(e)' /\ w_pos[e] = 0 /\ r_pos[e] = 0
  BY <1>0, <1>f, Zenon DEF Own, Facts
<1>2. /\ Restarted(e) = (state[e] = "sync") /\ ~Restarted(e)'
      /\ Restarted(p)' = Restarted(p) /\ Acknowledged(p)' = Acknowledged(p)
      /\ Acknowledged(e)' = Acknowledged(e)
  <2>1. /\ state'[e] = "ack" <=> peer[e] = "sync"
        /\ state'[e] # "sync" /\ pc[e] # "reset" /\ pc'[e] # "reset" /\ pc'[e] # "set_state"
    BY <1>0, Zenon
  <2>2. Restarted(p)' = Restarted(p) /\ Acknowledged(p)' = Acknowledged(p)
    BY <1>f, Zenon DEF Restarted, Acknowledged, KeepsAll, Keeps
  <2>3. Restarted(e) = (state[e] = "sync") /\ ~Restarted(e)'
    BY <2>1, Zenon DEF Restarted
  <2>4. Acknowledged(e)' = Acknowledged(e)
    BY <1>0, <2>1, Zenon DEF Acknowledged
  <2> QED BY <2>2, <2>3, <2>4, Zenon
<1>3. Dropped(e, p)' <=> Restarted(p)
  BY <1>0, <1>2, Zenon DEF Dropped
<1>4. CASE state[e] = "sync"
  <2>1. state[p] = "ack" \/ (state[p] = "sync" /\ Dropped(p, e)' /\ Restarted(p))
    BY <1>0, <1>2, <1>4, <1>f, Zenon
    DEF Facts, Sampled, InHandler, Dropped, Restarted, Acknowledged, KeepsAll, Keeps
  <2>2. pc[p] \notin {"write", "w_advance", "read", "r_advance"}
    BY <1>f, <2>1, Zenon DEF Facts, Zeroed
  <2>3. CASE state[p] = "ack"
    <3>0. (0 + 0) % NFrames = 0
      BY FramesAssumption
    <3>1. w_pos[p] = 0 /\ r_pos[p] = 0
      BY <1>f, <2>3, Zenon DEF Facts, Own
    <3>a. /\ w_pos'[e] = 0 /\ r_pos'[e] = 0 /\ w_pos'[p] = 0 /\ r_pos'[p] = 0
          /\ AvailCount(e)' = 0 /\ AvailCount(p)' = 0
      BY <1>0, <1>1, <1>a, <1>z, <2>3, <3>1, Zenon
    <3>2. Placed(e, p)' /\ Placed(p, e)'
      BY <3>0, <3>a, Zenon DEF Placed
    <3>3. 0 <= NFrames /\ 0 < NFrames
      BY FramesAssumption
    <3> QED BY <1>0, <1>1, <1>2, <1>3, <1>a, <1>z, <1>f, <2>2, <2>3, <3>2, <3>3
            DEF Flow, KeepsAll, Keeps
  <2>4. CASE state[p] = "sync" /\ Dropped(p, e)' /\ Restarted(p)
    <3>1. pc'[p] = pc[p] /\ pc'[e] = "notify" /\ state'[p] = state[p]
      BY <1>0, <1>f, Zenon DEF KeepsAll, Keeps
    <3> QED BY <1>1, <1>2, <1>3, <2>2, <2>4, <3>1, Zenon DEF Flow
  <2> QED BY <1>1, <2>1, <2>3, <2>4, Zenon
<1>5. CASE state[e] # "sync"
  <2>1. (Dropped(e, p) <=> Restarted(p)) /\ (Dropped(p, e)' <=> Dropped(p, e)) /\ ~Restarted(e)
    BY <1>0, <1>2, <1>5, <1>f, Zenon DEF Dropped, KeepsAll, Keeps
  <2>2. state[e] = "ack" \/ Restarted(p)
    BY <1>0, <1>p, <1>5, <1>f, HandlerFacts, Zenon DEF Facts, States, InHandler
  <2>p. (Placed(e, p)' <=> Placed(e, p)) /\ (Placed(p, e)' <=> Placed(p, e))
    BY <1>0, <1>a, PlacedSame, Zenon
  <2>3. Flow(e, p)'
    BY <1>0, <1>2, <1>3, <1>a, <1>f, <2>1, <2>2, <2>p DEF Flow, Facts, KeepsAll, Keeps
  <2>4. Flow(p, e)'
    BY <1>0, <1>2, <1>a, <1>f, <2>1, <2>p DEF Flow, Facts, KeepsAll, Keeps
  <2> QED BY <1>1, <2>3, <2>4, Zenon
<1> QED BY <1>4, <1>5, Zenon

\* A restarted endpoint has lost its positions, and what was on the way to it.
LEMMA RestartFInv ==
  ASSUME FInv, HInv', NEW e \in Ends, Restart(e)
  PROVE  FInv'
<1> DEFINE p == Peer(e)
<1>p. p \in Ends /\ p # e /\ Peer(p) = e
  BY PeerFacts, Zenon
<1>s. Step(e)
  BY Zenon DEF Step
<1>f. Facts(e, p) /\ KeepsAll(p)
  BY <1>s, FactsHold, OnlyOwn, Zenon
<1> SUFFICES Own(e)' /\ Flow(e, p)' /\ Flow(p, e)'
  BY <1>s, ByPair, Zenon
<1>a. AvailCount(e)' = AvailCount(e) /\ AvailCount(p)' = AvailCount(p)
  BY Zenon DEF Restart, AvailCount, shared
<1>0. /\ pc'[e] = "reset" /\ w_pos'[e] = 0 /\ r_pos'[e] = 0
      /\ UNCHANGED <<w_count, r_count, state, frame>>
  BY Zenon DEF Restart, Goto, shared, FInv, HInv, HandshakeType, DataType
<1> HIDE DEF p
<1>1. Own(e)'
  BY <1>0, <1>f, Zenon DEF Own, Facts
<1>2. /\ Restarted(e)' /\ Restarted(p)' = Restarted(p) /\ Acknowledged(p)' = Acknowledged(p)
  BY <1>0, <1>f, Zenon DEF Restarted, Acknowledged, KeepsAll, Keeps
<1>3. Dropped(e, p)' = Dropped(e, p) /\ Dropped(p, e)'
  BY <1>0, <1>2, Zenon DEF Dropped
<1>4. Flow(e, p)'
  BY <1>0, <1>2, <1>3, <1>a, <1>f DEF Flow, Facts, KeepsAll, Keeps
<1>5. Flow(p, e)'
  BY <1>0, <1>2, <1>3, <1>a, <1>f DEF Flow, Facts, KeepsAll, Keeps
<1> QED BY <1>1, <1>4, <1>5, Zenon

LEMMA ChannelResetFInv ==
  ASSUME FInv, HInv', NEW e \in Ends, ChannelReset(e)
  PROVE  FInv'
<1> DEFINE p == Peer(e)
<1>p. p \in Ends /\ p # e /\ Peer(p) = e
  BY PeerFacts, Zenon
<1>s. Step(e)
  BY Zenon DEF Step, Library
<1>f. Facts(e, p) /\ KeepsAll(p)
  BY <1>s, FactsHold, OnlyOwn, Zenon
<1> SUFFICES Own(e)' /\ Flow(e, p)' /\ Flow(p, e)'
  BY <1>s, ByPair, Zenon
<1>a. AvailCount(e)' = AvailCount(e) /\ AvailCount(p)' = AvailCount(p)
  BY Zenon DEF ChannelReset, AvailCount
<1>0. /\ pc[e] = "reset" /\ pc'[e] = "reset_notify" /\ state'[e] = "sync"
      /\ UNCHANGED <<w_count, r_count, frame, w_pos, r_pos, buf>>
  BY Zenon DEF ChannelReset, Goto, private, FInv, HInv, HandshakeType
<1> HIDE DEF p
<1>1. Own(e)'
  BY <1>0, <1>f, Zenon DEF Own, Facts
<1>2. /\ Restarted(e)' /\ Restarted(p)' = Restarted(p) /\ Acknowledged(p)' = Acknowledged(p)
  BY <1>0, <1>f, Zenon DEF Restarted, Acknowledged, KeepsAll, Keeps
<1>3. (Dropped(e, p) => Dropped(e, p)') /\ Dropped(p, e)'
  <2>1. Dropped(e, p) => Restarted(p) \/ Acknowledged(p)
    BY DEF Dropped
  <2> QED BY <1>0, <1>2, <2>1, Zenon DEF Dropped
<1>4. Flow(e, p)'
  BY <1>0, <1>2, <1>3, <1>a, <1>f, Zenon DEF Flow, Facts, KeepsAll, Keeps
<1>5. Flow(p, e)'
  BY <1>0, <1>2, <1>3, <1>a, <1>f DEF Flow, Facts, KeepsAll, Keeps
<1> QED BY <1>1, <1>4, <1>5, Zenon

LEMMA InitFInv == Init => FInv
<1> SUFFICES ASSUME Init PROVE FInv
  OBVIOUS
<1>1. HInv
  BY InitHInv, Zenon
<1>2. 0 \in Positions /\ (0 + 0) % NFrames = 0 /\ 0 < NFrames
  BY FramesAssumption DEF Positions
<1>3. DataType
  BY <1>2, Zenon DEF Init, DataType, Contents
<1>4. ASSUME NEW e \in Ends PROVE Own(e) /\ Flow(e, Peer(e))
  <2> DEFINE p == Peer(e)
  <2>p. p \in Ends
    BY PeerFacts, Zenon
  <2>1. AvailCount(e) = 0
    BY <2>p, CountArithmetic, CountFacts, Zenon DEF Init, AvailCount
  <2>2. Own(e)
    BY Zenon DEF Init, Own
  <2>3. Flow(e, p)
    <3> HIDE DEF p
    <3>1. Placed(e, p)
      BY <1>2, <2>1, <2>p, Zenon DEF Init, Placed
    <3> QED BY <1>2, <2>1, <2>p, <3>1, FramesAssumption DEF Init, Flow
  <2> QED BY <2>2, <2>3, Zenon
<1> QED BY <1>1, <1>3, <1>4, Zenon DEF FInv

LEMMA NextFInv ==
  ASSUME Prompt
  PROVE  FInv /\ [Next]_vars => FInv'
<1> SUFFICES ASSUME FInv, [Next]_vars PROVE FInv'
  OBVIOUS
<1>h. HInv'
  BY NextHInv DEF FInv
<1>1. ASSUME NEW e \in Ends, Step(e) PROVE FInv'
  BY <1>1, <1>h, CallsFInv, WriteFrameFInv, AdvanceTxFInv, ReadFrameFInv, AdvanceRxFInv,
     NotifiedFInv, ClearWFInv, ClearRFInv, SetStateFInv, RestartFInv, ChannelResetFInv
     DEF Step, Library
<1>2. CASE UNCHANGED vars
  <2>1. UNCHANGED <<w_count, r_count, state, frame, w_pos, r_pos, peer, buf, got, pc>>
    BY <1>2, Zenon DEF vars, shared, private
  <2>2. DataType'
    BY <2>1, Zenon DEF FInv, DataType
  <2>3. ASSUME NEW e \in Ends PROVE Own(e)' /\ Flow(e, Peer(e))'
    <3>1. /\ AvailCount(e)' = AvailCount(e)
          /\ Placed(e, Peer(e))' <=> Placed(e, Peer(e))
          /\ Dropped(e, Peer(e))' <=> Dropped(e, Peer(e))
          /\ Restarted(e)' <=> Restarted(e)
          /\ Restarted(Peer(e))' <=> Restarted(Peer(e))
      BY <2>1, Zenon DEF AvailCount, Placed, Dropped, Restarted, Acknowledged
    <3>2. Own(e) /\ Flow(e, Peer(e))
      BY Zenon DEF FInv
    <3> QED BY <2>1, <3>1, <3>2 DEF Own, Flow
  <2> QED BY <1>h, <2>2, <2>3, Zenon DEF FInv
<1> QED BY <1>1, <1>2, Zenon DEF Next, Step

LEMMA FInvHolds ==
  ASSUME Prompt
  PROVE  Spec => []FInv
BY InitFInv, NextFInv, PTL DEF Spec
==============================================================================
