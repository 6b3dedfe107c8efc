------------------------------ MODULE LKThread -----------------------------
(***************************************************************************)
(* Threads of the little kernel that use a mutex, a semaphore, an event,   *)
(* sleep, join and exit: t18x/cboot/kernel/{thread,mutex,semaphore,event,  *)
(* timer}.c on one processor.  A function of the kernel runs in a critical *)
(* section, so it is one step up to the point where thread_resched         *)
(* switches to another thread; what the function still has to do then is   *)
(* the step Return, taken when its thread is the current one again and     *)
(* still inside the critical section.  A timer interrupt (Tick) comes      *)
(* only between the calls.                                                 *)
(*                                                                         *)
(* The threads call the kernel in any order, with these obligations of a   *)
(* caller: it releases only the mutex it holds (the kernel panics else)    *)
(* and neither sleeps nor waits while it holds it, it names only threads   *)
(* that exist, and one thread at a time reaps a dead thread.               *)
(***************************************************************************)
EXTENDS LKSched

CONSTANTS Boot,      \* bootstrap2, the first thread besides the idle thread
          Calls,     \* the objects and functions each thread uses
          Timed,     \* the objects waited for with a finite timeout
          MaxCount   \* bound: the semaphore is posted only below it

ASSUME CallsAssumption ==
    /\ Boot \in Workers
    /\ Calls \in [Workers -> SUBSET {"mutex", "sem", "event", "sleep", "thread", "join", "exit", "yield"}]
    /\ Timed \subseteq {"mutex", "sem", "event", "join"}
    /\ MaxCount \in Nat

VARIABLES k,         \* the kernel state of LKSched
          call,      \* what a thread is inside: "user", "sleep" or the queue it waits on
          count,     \* the mutex: count
          holder,    \*            and holder
          owners,    \* the threads mutex_acquire returned to and that have not released
          sem,       \* the count of the semaphore
          signalled, \* the event: signalled
          autounsignal, \*            and EVENT_FLAG_AUTOUNSIGNAL
          detached   \* the threads with THREAD_FLAG_DETACHED

sync == <<count, holder, owners, sem, signalled, autounsignal>>
vars == <<k, call, sync, detached>>

TypeOK ==
    /\ k.cur \in Threads
    /\ k.state \in [Threads -> States]
    /\ \A p \in Priorities : k.runq[p] \in BoundedSeq(Threads, Cardinality(Threads))
    /\ \A q \in Queues : k.wait[q] \in BoundedSeq(Workers, Cardinality(Workers))
    /\ k.quantum \in [Threads -> 0..Quantum]
    /\ k.ret \in [Threads -> Codes]
    /\ k.timer \subseteq Workers
    /\ call \in [Threads -> {"user", "sleep"} \cup Queues]
    /\ count \in 0..Cardinality(Workers)
    /\ holder \in Workers \cup {"none"}
    /\ owners \subseteq Workers
    /\ sem \in -Cardinality(Workers)..MaxCount
    /\ signalled \in BOOLEAN /\ autounsignal \in BOOLEAN
    /\ detached \subseteq Workers

\* kmain has created and resumed bootstrap2 and become the idle thread.
Init ==
    /\ k = [cur |-> Boot,
            state |-> [t \in Threads |-> CASE t = Boot -> "running"
                                           [] t = Idle -> "ready"
                                           [] OTHER -> "none"],
            runq |-> [p \in Priorities |-> IF p = Priority[Idle] THEN <<Idle>> ELSE <<>>],
            wait |-> [q \in Queues |-> <<>>],
            quantum |-> [t \in Threads |-> IF t = Boot THEN Quantum ELSE 0],
            ret |-> [t \in Threads |-> "ok"],
            timer |-> {}]
    /\ call = [t \in Threads |-> "user"]
    /\ count = 0 /\ holder = "none" /\ owners = {}
    /\ sem = 0
    /\ signalled = FALSE /\ autounsignal \in BOOLEAN
    /\ detached = {Boot}

c == k.cur

\* The current thread is outside the kernel: it may call, interrupts are on.
User == call[c] = "user"
Caller == User /\ c \in Workers

\* Whether a wait for an object may have a finite timeout.  (With timeout zero
\* a call that would wait changes nothing.)
Finite(object) == {FALSE} \cup {TRUE : o \in {object} \cap Timed}

\* wait_queue_block with a nonzero timeout.
Wait(q, finite) ==
    /\ k' = WaitQueueBlock(k, q, finite)
    /\ call' = [call EXCEPT ![c] = q]

---------------------------------------------------------------------------
(* The mutex. *)

\* A waiter counts itself before it waits.
MutexAcquire(finite) ==
    /\ Caller /\ "mutex" \in Calls[c] /\ c \notin owners
    /\ \/ /\ count = 0
          /\ count' = 1 /\ holder' = c /\ owners' = owners \cup {c}
          /\ UNCHANGED <<k, call>>
       \/ /\ count > 0
          /\ count' = count + 1
          /\ Wait("mutex", finite)
          /\ UNCHANGED <<holder, owners>>
    /\ UNCHANGED <<sem, signalled, autounsignal, detached>>

\* Mutant of MutexRelease: the last waiter is forgotten.
ReleaseForgetsLast(t) ==
    /\ Caller /\ c = t /\ t \in owners
    /\ owners' = owners \ {t}
    /\ holder' = "none"
    /\ count' = count - 1
    /\ k' = IF count' > 1 THEN WaitQueueWakeOne(k, "mutex", TRUE, "ok") ELSE k
    /\ UNCHANGED <<call, sem, signalled, autounsignal, detached>>

MutexRelease(t) ==
    /\ Caller /\ c = t /\ t \in owners
    /\ owners' = owners \ {t}
    /\ holder' = "none"
    /\ count' = count - 1
    /\ k' = IF count' >= 1 THEN WaitQueueWakeOne(k, "mutex", TRUE, "ok") ELSE k
    /\ UNCHANGED <<call, sem, signalled, autounsignal, detached>>

\* The rest of mutex_acquire_timeout.
MutexReturn ==
    \/ /\ k.ret[c] = "timed_out"
       /\ count' = count - 1
       /\ UNCHANGED <<holder, owners>>
    \/ /\ k.ret[c] = "ok"
       /\ holder' = c /\ owners' = owners \cup {c}
       /\ UNCHANGED count

---------------------------------------------------------------------------
(* The semaphore. *)

\* sem_wait and sem_timedwait.
SemWait(finite) ==
    /\ Caller /\ "sem" \in Calls[c] /\ c \notin owners
    /\ \/ /\ sem > 0
          /\ sem' = sem - 1
          /\ UNCHANGED <<k, call>>
       \/ /\ sem <= 0
          /\ sem' = sem - 1
          /\ Wait("sem", finite)
    /\ UNCHANGED <<count, holder, owners, signalled, autounsignal, detached>>

\* Mutant of SemPost: the last waiter is forgotten.
PostForgetsLast ==
    /\ Caller /\ "sem" \in Calls[c] /\ sem < MaxCount
    /\ sem' = sem + 1
    /\ k' = IF sem' < 0 THEN WaitQueueWakeOne(k, "sem", TRUE, "ok") ELSE k
    /\ UNCHANGED <<call, count, holder, owners, signalled, autounsignal, detached>>

SemPost ==
    /\ Caller /\ "sem" \in Calls[c] /\ sem < MaxCount
    /\ sem' = sem + 1
    /\ k' = IF sem' <= 0 THEN WaitQueueWakeOne(k, "sem", TRUE, "ok") ELSE k
    /\ UNCHANGED <<call, count, holder, owners, signalled, autounsignal, detached>>

SemReturn == sem' = IF k.ret[c] = "timed_out" THEN sem + 1 ELSE sem

---------------------------------------------------------------------------
(* The event. *)

EventWait(finite) ==
    /\ Caller /\ "event" \in Calls[c] /\ c \notin owners
    /\ \/ /\ signalled
          /\ signalled' = ~autounsignal
          /\ UNCHANGED <<k, call>>
       \/ /\ ~signalled
          /\ Wait("event", finite)
          /\ UNCHANGED signalled
    /\ UNCHANGED <<count, holder, owners, sem, autounsignal, detached>>

\* Mutant of EventSignal: the signal that woke a thread is left standing.
SignalStays(reschedule) ==
    /\ Caller /\ "event" \in Calls[c] /\ ~signalled
    /\ k' = WaitQueueWakeOne(k, "event", reschedule, "ok")
    /\ signalled' = TRUE
    /\ UNCHANGED <<call, count, holder, owners, sem, autounsignal, detached>>

EventSignal(reschedule) ==
    /\ Caller /\ "event" \in Calls[c] /\ ~signalled
    /\ IF autounsignal
       THEN /\ k' = WaitQueueWakeOne(k, "event", reschedule, "ok")
            /\ signalled' = (k.wait["event"] = <<>>)
       ELSE /\ k' = WaitQueueWakeAll(k, "event", reschedule, "ok")
            /\ signalled' = TRUE
    /\ UNCHANGED <<call, count, holder, owners, sem, autounsignal, detached>>

EventUnsignal ==
    /\ Caller /\ "event" \in Calls[c] /\ signalled
    /\ signalled' = FALSE
    /\ UNCHANGED <<k, call, count, holder, owners, sem, autounsignal, detached>>

---------------------------------------------------------------------------
(* Threads. *)

Exists(t) == k.state[t] # "none"
BeingJoined(t) == \E u \in Threads : call[u] = t

ThreadCreate(t) ==
    /\ Caller /\ "thread" \in Calls[c] /\ ~Exists(t)
    /\ k' = [k EXCEPT !.state[t] = "suspended", !.quantum[t] = 0, !.ret[t] = "ok"]
    /\ UNCHANGED <<call, sync, detached>>

ThreadResume(t) ==
    /\ Caller /\ k.state[t] = "suspended"
    /\ k' = ThreadYield(InsertInRunQueueHead([k EXCEPT !.state[t] = "ready"], t))
    /\ UNCHANGED <<call, sync, detached>>

\* Free what is left of a dead thread.
Reaped(kk, t) == [kk EXCEPT !.state[t] = "none"]

\* Mutant of ThreadDetach: the joiners are told of success.
DetachReportsSuccess(t) ==
    /\ Caller /\ "thread" \in Calls[c] /\ Exists(t) /\ t \notin detached
    /\ k.state[t] # "death"
    /\ k' = WaitQueueWakeAll(k, t, FALSE, "ok")
    /\ detached' = detached \cup {t}
    /\ UNCHANGED <<call, sync>>

\* The joiners of a thread that gets detached are sent away; a dead thread is
\* reaped as thread_join would have done.
ThreadDetach(t) ==
    /\ Caller /\ "thread" \in Calls[c] /\ Exists(t) /\ t \notin detached
    /\ k.state[t] = "death" => ~BeingJoined(t)
    /\ LET woken == WaitQueueWakeAll(k, t, FALSE, "thread_detached")
       IN IF k.state[t] = "death"
          THEN k' = Reaped(woken, t) /\ UNCHANGED detached
          ELSE k' = woken /\ detached' = detached \cup {t}
    /\ UNCHANGED <<call, sync>>

ThreadJoin(t, finite) ==
    /\ Caller /\ "join" \in Calls[c] /\ c \notin owners /\ t # c
    /\ Exists(t) /\ t \notin detached /\ ~BeingJoined(t)
    /\ \/ k.state[t] = "death" /\ k' = Reaped(k, t) /\ UNCHANGED call
       \/ k.state[t] # "death" /\ Wait(t, finite)
    /\ UNCHANGED <<sync, detached>>

\* A detached thread frees itself, any other wakes its joiners and stays
\* around for them.
ThreadExit ==
    /\ Caller /\ "exit" \in Calls[c] /\ c \notin owners
    /\ LET dead == [k EXCEPT !.state[c] = "death"]
       IN k' = ThreadResched(IF c \in detached THEN Reaped(dead, c)
                             ELSE WaitQueueWakeAll(dead, c, FALSE, "ok"))
    /\ detached' = detached \ {c}
    /\ UNCHANGED <<call, sync>>

ThreadSleep ==
    /\ Caller /\ "sleep" \in Calls[c] /\ c \notin owners
    /\ k' = ThreadResched([k EXCEPT !.state[c] = "sleeping", !.timer = @ \cup {c}])
    /\ call' = [call EXCEPT ![c] = "sleep"]
    /\ UNCHANGED <<sync, detached>>

Yield ==
    /\ Caller /\ "yield" \in Calls[c]
    /\ k' = ThreadYield(k)
    /\ UNCHANGED <<call, sync, detached>>

---------------------------------------------------------------------------
(* Being switched to, and interrupts. *)

\* Mutant of Cancelled: the timer stays in the queue.
NotCancelled(kk) == [kk EXCEPT !.ret[kk.cur] = "ok"]

\* timer_cancel at the end of wait_queue_block (thread_sleep has none); the
\* return code, read for the last time here, is forgotten.
Cancelled(kk) == [kk EXCEPT !.timer = @ \ {kk.cur}, !.ret[kk.cur] = "ok"]

\* The current thread finishes the call it was switched away in.
Return ==
    /\ ~User
    /\ CASE call[c] = "mutex" -> MutexReturn /\ k' = Cancelled(k) /\ UNCHANGED <<sem, signalled, autounsignal>>
         [] call[c] = "sem" -> SemReturn /\ k' = Cancelled(k) /\ UNCHANGED <<count, holder, owners, signalled, autounsignal>>
         [] call[c] = "event" -> k' = Cancelled(k) /\ UNCHANGED sync
         [] call[c] = "sleep" -> UNCHANGED <<k, sync>>
         [] OTHER -> /\ k' = IF k.ret[c] = "ok" THEN Reaped(Cancelled(k), call[c]) ELSE Cancelled(k)
                     /\ UNCHANGED sync
    /\ call' = [call EXCEPT ![c] = "user"]
    /\ UNCHANGED detached

\* The timer interrupt; which deadlines have passed, and in which order, is
\* left open.
Tick(expired) ==
    /\ User
    /\ k' = TimerTick(k, expired)
    /\ UNCHANGED <<call, sync, detached>>

Deadlines == UNION {SetToSeqs(S) : S \in SUBSET k.timer}

Next ==
    \/ \E finite \in Finite("mutex") : MutexAcquire(finite)
    \/ \E t \in Workers : MutexRelease(t)
    \/ \E finite \in Finite("sem") : SemWait(finite)
    \/ SemPost
    \/ \E finite \in Finite("event") : EventWait(finite)
    \/ \E reschedule \in BOOLEAN : EventSignal(reschedule)
    \/ EventUnsignal
    \/ \E t \in Workers : ThreadCreate(t) \/ ThreadResume(t) \/ ThreadDetach(t)
    \/ \E t \in Workers, finite \in Finite("join") : ThreadJoin(t, finite)
    \/ ThreadExit
    \/ ThreadSleep
    \/ Yield
    \/ Return
    \/ \E expired \in Deadlines : Tick(expired)

Spec == Init /\ [][Next]_vars

---------------------------------------------------------------------------
(* Properties. *)

Listed(t) == Cardinality({<<p, i>> \in Priorities \X (1..Cardinality(Threads)) :
                             i <= Len(k.runq[p]) /\ k.runq[p][i] = t})
Waiting(t) == {q \in Queues : Contains(k.wait[q], t)}

\* thread.c asserts piecemeal that a thread is in the list its state says: a
\* ready thread is once in a run queue, a blocked one in the queue of the call
\* it is inside and nowhere else, all others in none; one thread is running.
QueuesAgree ==
    \A t \in Threads :
        /\ Listed(t) = IF k.state[t] = "ready" THEN 1 ELSE 0
        /\ Waiting(t) = IF k.state[t] = "blocked" THEN {call[t]} ELSE {}
        /\ (k.state[t] = "running") = (t = c)

\* The timer of a wait is an object on the stack of the waiting function: it is
\* out of timer_queue before the function returns.
TimersOnStack == \A t \in k.timer : call[t] # "user"

Granted(t) == call[t] = "mutex" /\ k.state[t] # "blocked" /\ k.ret[t] = "ok"

\* mutex_acquire returns to one thread at a time, the one holder names; and it
\* waits "for the mutex to become available": whoever waits for the mutex waits
\* for a thread that holds it or was just given it.
MutexHandedOn ==
    /\ \A t \in owners : holder = t
    /\ k.wait["mutex"] # <<>> => owners # {} \/ \E t \in Workers : Granted(t)

\* sem_wait sits in the queue only while there are no resources: the negative
\* count is the number of waiting threads.
SemWaitsForPost == Len(k.wait["sem"]) = IF sem < 0 THEN -sem ELSE 0

\* No thread waits for an event that is signalled.
EventReleases == signalled => k.wait["event"] = <<>>

\* thread_join that was woken with success finds the thread dead and not yet
\* freed (the assertions after its wait).
JoinFindsDead ==
    \A t \in Workers :
        (call[t] \in Threads /\ k.state[t] # "blocked" /\ k.ret[t] = "ok")
            => k.state[call[t]] = "death"
=============================================================================
