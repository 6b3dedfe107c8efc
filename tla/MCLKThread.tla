---------------------------- MODULE MCLKThread -----------------------------
(* Instances of LKThread. *)
EXTENDS LKThread

CONSTANTS w1, w2, w3

\* Every thread of CBoot is created with DEFAULT_PRIORITY.
EqualPriority == [t \in Threads |-> IF t = Idle THEN 0 ELSE 1]

\* Three threads share the mutex and the event, two the semaphore; the first
\* manages the others.
SharedCalls ==
    (w1 :> {"mutex", "event", "thread"})
    @@ (w2 :> {"mutex", "event", "sem", "exit"})
    @@ (w3 :> {"mutex", "event", "sem", "sleep", "join", "yield"})

=============================================================================
