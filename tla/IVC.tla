-------------------------------- MODULE IVC --------------------------------
(***************************************************************************)
(* An IVC channel (common/lib/ipc/tegra-ivc.c): two processors exchange    *)
(* frames through two rings in shared memory, without a lock.  Each        *)
(* endpoint owns the write count and the synchronisation state of the ring *)
(* it sends on and the read count of the ring it receives on, and tells    *)
(* the other by a doorbell.  Either processor may be restarted at any      *)
(* moment, with the shared memory kept, and then resets the channel by the *)
(* three-state handshake of tegra_ivc_channel_notified.                    *)
(*                                                                         *)
(* A step here is one access to shared memory.  The barriers and the cache *)
(* maintenance of the source keep the accesses in program order.  Both     *)
(* endpoints run the same library: CBoot here, the firmware there.         *)
(***************************************************************************)
EXTENDS Integers, Sequences

CONSTANTS
  Frames,       \* frame contents
  NoFrame,      \* contents of a frame never written
  NFrames,      \* ivc->nframes
  CountModulus, \* 2^32: the counts are unsigned and wrap
  Senders,      \* the endpoints that send frames
  Pollers,      \* the endpoints that call channel_notified without a doorbell
  MaxRestarts,  \* bound on restarts of endpoints
  Prompt        \* TRUE: a handler that is running when the other processor is
                \* restarted has ended before that one resets the channel

ASSUME FramesAssumption == NFrames \in Nat \ {0} /\ NoFrame \notin Frames

\* The over-full test tells a garbled count only if the counts can exceed the
\* number of frames.
ASSUME CountAssumption == CountModulus \in Nat /\ CountModulus > NFrames + 1

Ends == {"ccplex", "bpmp"}
Peer(e) == IF e = "ccplex" THEN "bpmp" ELSE "ccplex"

ASSUME EndsAssumption ==
  /\ Senders \subseteq Ends /\ Pollers \subseteq Ends
  /\ MaxRestarts \in Nat /\ Prompt \in BOOLEAN

VARIABLES
  w_count,  \* of the ring e sends on; written by e
  r_count,  \* of the ring e receives on; written by e
  state,    \* tx_channel->state of e
  frame,    \* frames of the ring e sends on
  w_pos,    \* private positions of e
  r_pos,
  bell,     \* the doorbell of e is ringing
  pc,       \* where e is in the library
  peer,     \* peer_state, sampled by e in channel_notified; this local and
  buf,      \* the frame e is sending or has copied out are forgotten after use
  got,      \* the frame that tegra_ivc_read returned last
  restarts

shared == <<w_count, r_count, state, frame>>
private == <<w_pos, r_pos, peer, buf, got>>
vars == <<shared, private, bell, pc, restarts>>

Counts == 0..(CountModulus - 1)
Positions == 0..(NFrames - 1)
States == {"established", "sync", "ack"}
Pcs == {"idle", "full", "write", "w_advance", "w_notify",
        "read", "r_advance", "r_check", "r_notify",
        "reset", "reset_notify", "clear_w", "clear_r", "set_state", "notify"}

\* Zeroed memory is a valid, established channel.
Init ==
  /\ w_count = [e \in Ends |-> 0]
  /\ r_count = [e \in Ends |-> 0]
  /\ state = [e \in Ends |-> "established"]
  /\ frame = [e \in Ends |-> [i \in Positions |-> NoFrame]]
  /\ w_pos = [e \in Ends |-> 0]
  /\ r_pos = [e \in Ends |-> 0]
  /\ bell = [e \in Ends |-> FALSE]
  /\ pc = [e \in Ends |-> "idle"]
  /\ peer = [e \in Ends |-> "established"]
  /\ buf = [e \in Ends |-> NoFrame]
  /\ got = [e \in Ends |-> NoFrame]
  /\ restarts = 0

-----------------------------------------------------------------------------
\* ivc_channel_avail_count of the ring that e sends on.
AvailCount(e) == (w_count[e] - r_count[Peer(e)]) % CountModulus

\* ivc_channel_empty: an over-full ring counts as empty.
ChannelEmpty(e) == AvailCount(e) > NFrames \/ AvailCount(e) = 0

\* Mutant: the writer stops one frame late.
ChannelOverFull(e) == AvailCount(e) > NFrames

ChannelFull(e) == AvailCount(e) >= NFrames

NextPos(i) == IF i = NFrames - 1 THEN 0 ELSE i + 1

Goto(e, label) == pc' = [pc EXCEPT ![e] = label]
Ring(e) == bell' = [bell EXCEPT ![Peer(e)] = TRUE]

\* ivc_check_write in tegra_ivc_write (or write_get_next_frame): refused when
\* the channel is not established; a writer that finds the ring full waits
\* for the doorbell.
CheckWrite(e) ==
  /\ e \in Senders
  /\ pc[e] = "idle"
  /\ state[e] = "established"
  /\ \/ /\ ~ChannelFull(e)
        /\ \E f \in Frames : buf' = [buf EXCEPT ![e] = f]
        /\ Goto(e, "write")
     \/ /\ ChannelFull(e)
        /\ Goto(e, "full")
        /\ UNCHANGED buf
  /\ UNCHANGED <<shared, w_pos, r_pos, peer, got, bell, restarts>>

\* The frame is filled in.
WriteFrame(e) ==
  /\ pc[e] = "write"
  /\ frame' = [frame EXCEPT ![e][w_pos[e]] = buf[e]]
  /\ buf' = [buf EXCEPT ![e] = NoFrame]
  /\ Goto(e, "w_advance")
  /\ UNCHANGED <<w_count, r_count, state, w_pos, r_pos, peer, got, bell, restarts>>

\* ivc_advance_tx.
AdvanceTx(e) ==
  /\ pc[e] = "w_advance"
  /\ w_count' = [w_count EXCEPT ![e] = (@ + 1) % CountModulus]
  /\ w_pos' = [w_pos EXCEPT ![e] = NextPos(@)]
  /\ Goto(e, "w_notify")
  /\ UNCHANGED <<r_count, state, frame, r_pos, peer, buf, got, bell, restarts>>

\* Mutant: no doorbell after a write, or after a read.
NotifyNever(e) == FALSE

\* "Notify only upon transition from empty to non-empty", "... full to
\* non-full": the conditions at the end of a write and of a read.
BecameNonEmpty(e) == AvailCount(e) = 1
BecameNonFull(e) == AvailCount(Peer(e)) = NFrames - 1

WriteNotify(e) ==
  /\ pc[e] = "w_notify"
  /\ IF BecameNonEmpty(e) THEN Ring(e) ELSE UNCHANGED bell
  /\ Goto(e, "idle")
  /\ UNCHANGED <<shared, private, restarts>>

-----------------------------------------------------------------------------
\* ivc_check_read in tegra_ivc_read.  The reader takes what there is and then
\* waits for the doorbell.
CheckRead(e) ==
  /\ pc[e] = "r_check"
  /\ IF state[e] = "established" /\ ~ChannelEmpty(Peer(e))
     THEN Goto(e, "read") ELSE Goto(e, "idle")
  /\ UNCHANGED <<shared, private, bell, restarts>>

\* The frame is copied out.
ReadFrame(e) ==
  /\ pc[e] = "read"
  /\ buf' = [buf EXCEPT ![e] = frame[Peer(e)][r_pos[e]]]
  /\ Goto(e, "r_advance")
  /\ UNCHANGED <<shared, w_pos, r_pos, peer, got, bell, restarts>>

\* ivc_advance_rx.
AdvanceRx(e) ==
  /\ pc[e] = "r_advance"
  /\ r_count' = [r_count EXCEPT ![e] = (@ + 1) % CountModulus]
  /\ r_pos' = [r_pos EXCEPT ![e] = NextPos(@)]
  /\ got' = [got EXCEPT ![e] = buf[e]]
  /\ buf' = [buf EXCEPT ![e] = NoFrame]
  /\ Goto(e, "r_notify")
  /\ UNCHANGED <<w_count, state, frame, w_pos, peer, bell, restarts>>

ReadNotify(e) ==
  /\ pc[e] = "r_notify"
  /\ IF BecameNonFull(e) THEN Ring(e) ELSE UNCHANGED bell
  /\ Goto(e, "r_check")
  /\ UNCHANGED <<shared, private, restarts>>

-----------------------------------------------------------------------------
\* Mutant: an endpoint that wants a reset does not wait for the peer's ack.
HandshakeEager(e, peer_state) ==
  IF state[e] = "sync" \/ peer_state = "sync" THEN "clear_w"
  ELSE IF state[e] = "ack" THEN "set_state" ELSE "r_check"

\* The IVC state transition table: what an endpoint does on seeing its peer's
\* state.  Both branches that clear the counts are told apart by set_state.
Handshake(e, peer_state) ==
  IF peer_state = "sync" \/ (state[e] = "sync" /\ peer_state = "ack") THEN "clear_w"
  ELSE IF state[e] = "ack" THEN "set_state" ELSE "r_check"

\* tegra_ivc_channel_notified, called on a doorbell or by polling; it samples
\* the peer's state once.
ChannelNotified(e) ==
  /\ pc[e] \in {"idle", "full"}
  /\ bell[e] \/ e \in Pollers
  /\ bell' = [bell EXCEPT ![e] = FALSE]
  /\ Goto(e, Handshake(e, state[Peer(e)]))
  /\ peer' = [peer EXCEPT ![e] = IF pc'[e] = "r_check" THEN "established"
                                 ELSE state[Peer(e)]]
  /\ UNCHANGED <<shared, w_pos, r_pos, buf, got, restarts>>

ClearW(e) ==
  /\ pc[e] = "clear_w"
  /\ w_count' = [w_count EXCEPT ![e] = 0]
  /\ w_pos' = [w_pos EXCEPT ![e] = 0]
  /\ Goto(e, "clear_r")
  /\ UNCHANGED <<r_count, state, frame, r_pos, peer, buf, got, bell, restarts>>

\* Mutant: the read count is left alone.
ClearRSkipped(e) ==
  /\ pc[e] = "clear_r"
  /\ r_pos' = [r_pos EXCEPT ![e] = 0]
  /\ Goto(e, "set_state")
  /\ UNCHANGED <<shared, w_pos, peer, buf, got, bell, restarts>>

ClearR(e) ==
  /\ pc[e] = "clear_r"
  /\ r_count' = [r_count EXCEPT ![e] = 0]
  /\ r_pos' = [r_pos EXCEPT ![e] = 0]
  /\ Goto(e, "set_state")
  /\ UNCHANGED <<w_count, state, frame, w_pos, peer, buf, got, bell, restarts>>

SetState(e) ==
  /\ pc[e] = "set_state"
  /\ state' = [state EXCEPT ![e] = IF peer[e] = "sync" THEN "ack" ELSE "established"]
  /\ peer' = [peer EXCEPT ![e] = "established"]
  /\ Goto(e, "notify")
  /\ UNCHANGED <<w_count, r_count, frame, w_pos, r_pos, buf, got, bell, restarts>>

\* Mutant: no doorbell after a state transition.
NotifySilent(e) ==
  /\ pc[e] = "notify"
  /\ Goto(e, "r_check")
  /\ UNCHANGED <<shared, private, bell, restarts>>

\* The doorbell after a state transition; the caller goes on to the frames.
Notify(e) ==
  /\ pc[e] = "notify"
  /\ Ring(e)
  /\ Goto(e, "r_check")
  /\ UNCHANGED <<shared, private, restarts>>

-----------------------------------------------------------------------------
\* The processor of e is restarted; a doorbell may be lost with it.  It runs
\* tegra_ivc_init and tegra_ivc_channel_reset, as tegrabl_connect_bpmp does.
Restart(e) ==
  /\ restarts < MaxRestarts
  /\ restarts' = restarts + 1
  /\ w_pos' = [w_pos EXCEPT ![e] = 0]
  /\ r_pos' = [r_pos EXCEPT ![e] = 0]
  /\ peer' = [peer EXCEPT ![e] = "established"]
  /\ buf' = [buf EXCEPT ![e] = NoFrame]
  /\ bell' = [bell EXCEPT ![e] = FALSE]
  /\ Goto(e, "reset")
  /\ UNCHANGED <<shared, got>>

InHandler(e) == pc[e] \in {"clear_w", "clear_r", "set_state"}

ChannelReset(e) ==
  /\ pc[e] = "reset"
  /\ Prompt => ~InHandler(Peer(e))
  /\ state' = [state EXCEPT ![e] = "sync"]
  /\ Goto(e, "reset_notify")
  /\ UNCHANGED <<w_count, r_count, frame, private, bell, restarts>>

ResetNotify(e) ==
  /\ pc[e] = "reset_notify"
  /\ Ring(e)
  /\ Goto(e, "idle")
  /\ UNCHANGED <<shared, private, restarts>>

-----------------------------------------------------------------------------
\* The steps of the library; it is not up to e whether they happen.
Library(e) ==
  \/ WriteFrame(e) \/ AdvanceTx(e) \/ WriteNotify(e)
  \/ CheckRead(e) \/ ReadFrame(e) \/ AdvanceRx(e) \/ ReadNotify(e)
  \/ ChannelNotified(e) \/ ClearW(e) \/ ClearR(e) \/ SetState(e) \/ Notify(e)
  \/ ChannelReset(e) \/ ResetNotify(e)

Next == \E e \in Ends : Library(e) \/ CheckWrite(e) \/ Restart(e)

Spec == Init /\ [][Next]_vars

\* Each processor goes on running; nobody has to send or to restart.  A reset
\* waits for nothing in the code: where Prompt makes it wait for the peer to be
\* out of its handler, a peer that polls must not starve it.
FairSpec == Spec /\ \A e \in Ends : WF_vars(Library(e)) /\ SF_vars(ChannelReset(e))

-----------------------------------------------------------------------------
(***************************************************************************)
(* Properties.                                                             *)
(***************************************************************************)

\* Every variable has its type.
TypeOK ==
  /\ w_count \in [Ends -> Counts] /\ r_count \in [Ends -> Counts]
  /\ state \in [Ends -> States] /\ peer \in [Ends -> States]
  /\ frame \in [Ends -> [Positions -> Frames \cup {NoFrame}]]
  /\ w_pos \in [Ends -> Positions] /\ r_pos \in [Ends -> Positions]
  /\ bell \in [Ends -> BOOLEAN]
  /\ pc \in [Ends -> Pcs]
  /\ buf \in [Ends -> Frames \cup {NoFrame}] /\ got \in [Ends -> Frames \cup {NoFrame}]
  /\ restarts \in 0..MaxRestarts

\* The frames on the way from e: what its ring holds, unless the receiver is
\* being reset, or has acknowledged a reset that e has not yet carried out.
Restarted(e) == state[e] = "sync" \/ pc[e] = "reset"
Acknowledged(e) == IF pc[e] = "set_state" THEN peer[e] = "sync" ELSE state[e] = "ack"
InFlight(e) ==
  IF Restarted(Peer(e)) \/ (state[e] = "sync" /\ Acknowledged(Peer(e)))
  THEN <<>>
  ELSE [i \in 1..AvailCount(e) |-> frame[e][(r_pos[Peer(e)] + i - 1) % NFrames]]

\* The channel is a pair of bounded queues that lose, duplicate, reorder and
\* garble nothing while both endpoints are up, and deliver no frame of an
\* earlier session after a restart.
Fifo == INSTANCE IVCFifo
          WITH up <- [e \in Ends |-> state[e] = "established" /\ pc[e] # "reset"],
               q <- [e \in Ends |-> InFlight(e)]
FifoSpec == Fifo!Spec

\* Comment in ivc_check_read: "The remote peer cannot reset its transmit
\* counters until we've acknowledged its synchronization request".  As seen by
\* an established endpoint the peer's counts only ever advance, by one.
PeerCountsAdvance ==
  [][\A e \in Ends : state[e] = "established" /\ pc[e] # "reset" =>
       /\ w_count'[Peer(e)] \in {w_count[Peer(e)], (w_count[Peer(e)] + 1) % CountModulus}
       /\ r_count'[Peer(e)] \in {r_count[Peer(e)], (r_count[Peer(e)] + 1) % CountModulus}]_vars

\* Doorbells are rung only at transitions, and none is missed: an endpoint that
\* waits while there is a frame for it, or while the ring it found full has
\* room, has a doorbell pending or coming.
BothUp == \A e \in Ends : state[e] = "established"
NoLostWakeup ==
  \A e \in Ends :
    /\ BothUp /\ pc[e] \in {"idle", "full"} /\ ~bell[e] /\ ~ChannelEmpty(Peer(e))
         => pc[Peer(e)] \in {"w_notify", "reset", "notify"}
    /\ BothUp /\ pc[e] = "full" /\ ~bell[e] /\ ~ChannelFull(e)
         => pc[Peer(e)] \in {"r_notify", "reset", "notify"}

\* The handshake comes to an end: after the last restart both endpoints are
\* established, and stay so.
Reestablished == <>[]BothUp

\* A writer that waits for room gets it.
FullEnds == \A e \in Ends : pc[e] = "full" ~> pc[e] # "full"
=============================================================================
