------------------------------ MODULE LKSched ------------------------------
(***************************************************************************)
(* The scheduler and the wait queues of the little kernel (LK) CBoot runs  *)
(* on: t18x/cboot/kernel/thread.c.  Every operator is one C function that  *)
(* runs inside a critical section; it maps a kernel state to the kernel    *)
(* state after it.  A kernel state k has                                   *)
(*   cur      current_thread                                               *)
(*   state    the state of every thread ("none": not created, or freed)    *)
(*   runq     run_queue, one list per priority                             *)
(*   wait     the list of every wait queue                                 *)
(*   quantum  remaining_quantum (all values <= 0 are one: 0)               *)
(*   ret      wait_queue_block_ret                                         *)
(*   timer    the threads whose timer, an object on the stack of the       *)
(*            waiting function, is in timer_queue                          *)
(* A thread that thread_resched switches away from stays inside its        *)
(* critical section; what it does when it is switched to again is the      *)
(* business of LKThread.                                                   *)
(***************************************************************************)
EXTENDS Integers, Sequences, SequencesExt, FiniteSets

CONSTANTS Workers,   \* the threads besides the idle thread
          Idle,      \* the idle thread, which never blocks
          Priority,  \* the priority of every thread
          Quantum    \* ticks a thread runs before it goes to the tail (5 in the code)

Threads == Workers \cup {Idle}

ASSUME SchedAssumption ==
    /\ Idle \notin Workers
    /\ Priority \in [Threads -> Nat]
    /\ \A t \in Workers : Priority[t] > Priority[Idle]
    /\ Quantum \in Nat \ {0}

\* The retcode_wait_queue of every thread, and the queues of three objects.
Queues == Threads \cup {"mutex", "sem", "event"}

States == {"none", "suspended", "ready", "running", "blocked", "sleeping", "death"}
Codes == {"ok", "timed_out", "thread_detached"}
Priorities == {Priority[t] : t \in Threads}

InsertInRunQueueHead(k, t) == [k EXCEPT !.runq[Priority[t]] = <<t>> \o @]
InsertInRunQueueTail(k, t) == [k EXCEPT !.runq[Priority[t]] = Append(@, t)]

\* Pick the first thread of the highest priority and switch to it.
ThreadResched(k) ==
    LET next == CHOOSE p \in Priorities :
                    /\ k.runq[p] # <<>>
                    /\ \A r \in Priorities : k.runq[r] # <<>> => r <= p
        new == Head(k.runq[next])
        refill == new # k.cur /\ k.quantum[new] = 0
    IN [k EXCEPT !.runq[next] = Tail(@),
                 !.state[new] = "running",
                 !.quantum[new] = IF refill THEN Quantum ELSE @,
                 !.cur = new]

ThreadYield(k) ==
    ThreadResched(InsertInRunQueueTail([k EXCEPT !.state[k.cur] = "ready", !.quantum[k.cur] = 0], k.cur))

ThreadPreempt(k) ==
    LET ready == [k EXCEPT !.state[k.cur] = "ready"]
    IN ThreadResched(IF k.quantum[k.cur] > 0 THEN InsertInRunQueueHead(ready, k.cur)
                                             ELSE InsertInRunQueueTail(ready, k.cur))

\* Block the current thread on queue q until it is woken or the timer fires.
WaitQueueBlock(k, q, finite) ==
    ThreadResched([k EXCEPT !.wait[q] = Append(@, k.cur),
                            !.state[k.cur] = "blocked",
                            !.ret[k.cur] = "ok",
                            !.timer = IF finite THEN @ \cup {k.cur} ELSE @])

\* What every waking function does to a thread it took off its wait queue.
Awaken(k, t, err) ==
    InsertInRunQueueHead([k EXCEPT !.state[t] = "ready", !.ret[t] = err], t)

\* The current thread steps back so that the woken thread runs first.
StepBack(k) == InsertInRunQueueHead([k EXCEPT !.state[k.cur] = "ready"], k.cur)

WaitQueueWakeOne(k, q, reschedule, err) ==
    LET t == Head(k.wait[q])
        off == [k EXCEPT !.wait[q] = Tail(@)]
    IN IF k.wait[q] = <<>> THEN k
       ELSE IF reschedule THEN ThreadResched(Awaken(StepBack(off), t, err))
       ELSE Awaken(off, t, err)

WaitQueueWakeAll(k, q, reschedule, err) ==
    LET wake(kk, t) == Awaken(kk, t, err)
        off == [k EXCEPT !.wait[q] = <<>>]
    IN IF k.wait[q] = <<>> THEN k
       ELSE IF reschedule THEN ThreadResched(FoldLeft(wake, StepBack(off), k.wait[q]))
       ELSE FoldLeft(wake, off, k.wait[q])

\* Mutant of ThreadUnblockFromWaitQueue: the thread stays in the wait queue.
UnblockLeavesQueue(k, t, err) == Awaken(k, t, err)

\* Take a blocked thread out of whatever queue it waits on.
ThreadUnblockFromWaitQueue(k, t, err) ==
    Awaken([k EXCEPT !.wait = [q \in Queues |-> Remove(@[q], t)]], t, err)

\* One expired timer: thread_sleep_handler for a sleeping thread,
\* wait_queue_timeout_handler for one in a wait queue; a thread that was woken
\* before its deadline and has not run since is left alone.
TimerFires(k, t) ==
    LET fired == [k EXCEPT !.timer = @ \ {t}]
    IN CASE k.state[t] = "sleeping" ->
              InsertInRunQueueHead([fired EXCEPT !.state[t] = "ready"], t)
         [] k.state[t] = "blocked" -> ThreadUnblockFromWaitQueue(fired, t, "timed_out")
         [] OTHER -> fired

\* timer_tick: the timers in expired fire in that order, the quantum of the
\* interrupted thread shrinks, and the interrupt glue preempts the thread when
\* a callback or the scheduler asks for it.
TimerTick(k, expired) ==
    LET fired == FoldLeft(TimerFires, k, expired)
        woke == \E i \in 1..Len(expired) : k.state[expired[i]] \in {"sleeping", "blocked"}
        ticked == IF k.cur = Idle \/ k.quantum[k.cur] = 0 THEN fired
                  ELSE [fired EXCEPT !.quantum[k.cur] = @ - 1]
        used == k.cur # Idle /\ ticked.quantum[k.cur] = 0
    IN IF woke \/ used THEN ThreadPreempt(ticked) ELSE ticked
=============================================================================
