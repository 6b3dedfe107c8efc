------------------------------ MODULE IVCFifo ------------------------------
(***************************************************************************)
(* What an IVC channel promises its two endpoints: one bounded queue of    *)
(* frames per direction.  Frames arrive in order, each at most once, and   *)
(* none is lost or dropped as long as both endpoints stay up; a restart    *)
(* may drop what is queued, and an endpoint that comes up again starts     *)
(* with nothing of its old frames on the way.                              *)
(***************************************************************************)
EXTENDS Naturals, Sequences

CONSTANTS Ends, Peer(_), Frames, NFrames, NoFrame

VARIABLES
  up,   \* the endpoint may send and receive
  q,    \* q[e]: frames sent by e and not received yet
  got   \* got[e]: the frame e received last

fifoVars == <<up, q, got>>

Init ==
  /\ up = [e \in Ends |-> TRUE]
  /\ q = [e \in Ends |-> <<>>]
  /\ got = [e \in Ends |-> NoFrame]

Send(e, f) ==
  /\ up[e]
  /\ Len(q[e]) < NFrames
  /\ q' = [q EXCEPT ![e] = Append(@, f)]
  /\ UNCHANGED <<up, got>>

Receive(e) ==
  /\ up[e]
  /\ q[Peer(e)] # <<>>
  /\ got' = [got EXCEPT ![e] = Head(q[Peer(e)])]
  /\ q' = [q EXCEPT ![Peer(e)] = Tail(@)]
  /\ UNCHANGED up

\* Endpoint e goes down, or is down; queued frames may be dropped.
Down(e) ==
  /\ up' = [up EXCEPT ![e] = FALSE]
  /\ \A d \in Ends : q'[d] \in {q[d], <<>>}
  /\ DOMAIN q' = Ends
  /\ UNCHANGED got

Up(e) ==
  /\ ~up[e]
  /\ q[e] = <<>>
  /\ up' = [up EXCEPT ![e] = TRUE]
  /\ UNCHANGED <<q, got>>

Next == \E e \in Ends : \/ \E f \in Frames : Send(e, f)
                        \/ Receive(e) \/ Down(e) \/ Up(e)

Spec == Init /\ [][Next]_fifoVars
=============================================================================
