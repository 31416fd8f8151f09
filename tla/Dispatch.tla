------------------------------ MODULE Dispatch ------------------------------
(***************************************************************************)
(* The ride dispatcher of src/pset5/dispatch/dispatch.c: one dispatcher    *)
(* thread reads requests and pushes them onto a bounded queue, driver      *)
(* threads pop and drive them.  All shared state is guarded by one mutex,  *)
(* with three condition variables (cond_full, cond_empty, cond_done).     *)
(*                                                                         *)
(* A thread's critical section that cannot block is one step (it runs      *)
(* under the mutex, so no other thread's critical section interleaves).   *)
(* pthread_cond_wait releases the mutex and parks the thread in the        *)
(* condition's wait set; a signal moves one waiter out, a broadcast all;   *)
(* a woken thread re-acquires the mutex in a step of its own (Mesa         *)
(* semantics).  A ride is the number of the request line it came from.    *)
(***************************************************************************)
EXTENDS Naturals, Sequences, FiniteSets, SequencesExt

CONSTANTS
    Drivers,          \* the driver threads
    MAX_QUEUE_SIZE,   \* capacity of the request queue
    MaxLines,         \* most request lines on stdin
    FreedQueueReads   \* what empty() may report on the freed queue: a
                      \* subset of {"empty", "garbage"} (undefined behaviour)

ASSUME /\ Drivers # {}
       /\ MAX_QUEUE_SIZE \in Nat \ {0}
       /\ MaxLines \in Nat
       /\ FreedQueueReads \subseteq {"empty", "garbage"}

Dispatcher == "dispatcher"
Threads    == {Dispatcher} \cup Drivers
NoThread   == "none"
NoRide     == 0
Rides      == 1 .. MaxLines
CVs        == {"full", "empty", "done"}

VARIABLES
    lines,          \* number of request lines on stdin (fixed by Init)
    nread,          \* lines the dispatcher has read so far
    queue,          \* state->request_queue
    total_rides, rides_done, dispatch_done, exit_drivers,
    frees,          \* times free(state->request_queue) has run
    lock,           \* holder of state->lock
    waiting,        \* waiting[cv]: threads parked in pthread_cond_wait
    pc,             \* where each thread is
    curr_req,       \* each driver's curr_req
    drives,         \* drives[r]: calls of drive() for ride r
    crashed         \* the process died of a wild memory access

vars == <<lines, nread, queue, total_rides, rides_done, dispatch_done,
          exit_drivers, frees, lock, waiting, pc, curr_req, drives, crashed>>

QueueFreed == frees > 0

-----------------------------------------------------------------------------
(* The mutex and condition variables (pthread semantics).                *)

Unlock == lock' = NoThread

\* pthread_cond_wait(cv): park t and release the mutex; it resumes at `at`
Wait(t, cv, at) ==
    /\ waiting' = [waiting EXCEPT ![cv] = @ \cup {t}]
    /\ lock' = NoThread
    /\ pc' = [pc EXCEPT ![t] = at]

\* pthread_cond_signal(cv): wake one waiter, if any
Signal(cv) ==
    IF waiting[cv] = {} THEN UNCHANGED waiting
    ELSE \E t \in waiting[cv] : waiting' = [waiting EXCEPT ![cv] = @ \ {t}]

\* pthread_cond_broadcast(cv)
Broadcast(cv) == waiting' = [waiting EXCEPT ![cv] = {}]

\* A woken thread at `from` re-acquires the mutex and goes on at `to`
Reacquire(t, cv, from, to) ==
    /\ pc[t] = from
    /\ t \notin waiting[cv]
    /\ lock = NoThread
    /\ lock' = t
    /\ pc' = [pc EXCEPT ![t] = to]

-----------------------------------------------------------------------------
(* init_world()                                                           *)

Init ==
    /\ lines \in 0 .. MaxLines
    /\ nread = 0
    /\ queue = <<>>
    /\ total_rides = 0 /\ rides_done = 0
    /\ dispatch_done = FALSE /\ exit_drivers = FALSE
    /\ frees = 0
    /\ lock = NoThread
    /\ waiting = [cv \in CVs |-> {}]
    /\ pc = [t \in Threads |-> IF t = Dispatcher THEN "getline" ELSE "top"]
    /\ curr_req = [d \in Drivers |-> NoRide]
    /\ drives = [r \in Rides |-> 0]
    /\ crashed = FALSE

-----------------------------------------------------------------------------
(* dispatcher_thread() and dispatch()                                     *)

\* getline(): the next request line, or end of input
GetLine ==
    /\ ~crashed
    /\ pc[Dispatcher] = "getline"
    /\ IF nread < lines
       THEN /\ nread' = nread + 1
            /\ pc' = [pc EXCEPT ![Dispatcher] = "dispatch"]
       ELSE /\ pc' = [pc EXCEPT ![Dispatcher] = "input_done"]
            /\ UNCHANGED nread
    /\ UNCHANGED <<lines, queue, total_rides, rides_done, dispatch_done,
                   exit_drivers, frees, lock, waiting, curr_req, drives, crashed>>

\* Mutant: waits only once the queue is over capacity (off by one)
DispatchBody_off_by_one ==
    IF Len(queue) > MAX_QUEUE_SIZE
    THEN Wait(Dispatcher, "full", "dispatch_wait") /\ UNCHANGED queue
    ELSE /\ queue' = Append(queue, nread)
         /\ Signal("empty")
         /\ Unlock
         /\ pc' = [pc EXCEPT ![Dispatcher] = "getline"]

\* dispatch(), under the mutex: wait while the queue is full, else push
\* the request, signal cond_empty and unlock
DispatchBody ==
    IF Len(queue) = MAX_QUEUE_SIZE
    THEN Wait(Dispatcher, "full", "dispatch_wait") /\ UNCHANGED queue
    ELSE /\ queue' = Append(queue, nread)
         /\ Signal("empty")
         /\ Unlock
         /\ pc' = [pc EXCEPT ![Dispatcher] = "getline"]

\* dispatch(): lock the mutex and count the ride before the full check
Dispatch ==
    /\ ~crashed
    /\ pc[Dispatcher] = "dispatch"
    /\ lock = NoThread
    /\ total_rides' = total_rides + 1
    /\ DispatchBody
    /\ UNCHANGED <<lines, nread, rides_done, dispatch_done, exit_drivers,
                   frees, curr_req, drives, crashed>>

\* Mutant: total_rides++ inside the wait loop, counted again on each wake
DispatchResume_counts_again ==
    /\ ~crashed
    /\ pc[Dispatcher] = "dispatch_wait"
    /\ Dispatcher \notin waiting["full"]
    /\ lock = NoThread
    /\ total_rides' = total_rides + 1
    /\ DispatchBody
    /\ UNCHANGED <<lines, nread, rides_done, dispatch_done, exit_drivers,
                   frees, curr_req, drives, crashed>>

\* dispatch(): woken on cond_full, re-acquire the mutex and re-check
DispatchResume ==
    /\ ~crashed
    /\ pc[Dispatcher] = "dispatch_wait"
    /\ Dispatcher \notin waiting["full"]
    /\ lock = NoThread
    /\ DispatchBody
    /\ UNCHANGED <<lines, nread, total_rides, rides_done, dispatch_done,
                   exit_drivers, frees, curr_req, drives, crashed>>

\* Mutant: pthread_cond_signal instead of broadcast on cond_empty
DoneBody_signal_one ==
    IF total_rides # rides_done
    THEN Wait(Dispatcher, "done", "done_wait") /\ UNCHANGED exit_drivers
    ELSE /\ exit_drivers' = TRUE
         /\ Signal("empty")
         /\ Unlock
         /\ pc' = [pc EXCEPT ![Dispatcher] = "exited"]

\* After the input loop, under the mutex: wait on cond_done until every
\* counted ride is done, then tell the drivers to exit
DoneBody ==
    IF total_rides # rides_done
    THEN Wait(Dispatcher, "done", "done_wait") /\ UNCHANGED exit_drivers
    ELSE /\ exit_drivers' = TRUE
         /\ Broadcast("empty")
         /\ Unlock
         /\ pc' = [pc EXCEPT ![Dispatcher] = "exited"]

InputDone ==
    /\ ~crashed
    /\ pc[Dispatcher] = "input_done"
    /\ lock = NoThread
    /\ dispatch_done' = TRUE
    /\ DoneBody
    /\ UNCHANGED <<lines, nread, queue, total_rides, rides_done, frees,
                   curr_req, drives, crashed>>

DoneResume ==
    /\ ~crashed
    /\ pc[Dispatcher] = "done_wait"
    /\ Dispatcher \notin waiting["done"]
    /\ lock = NoThread
    /\ DoneBody
    /\ UNCHANGED <<lines, nread, queue, total_rides, rides_done,
                   dispatch_done, frees, curr_req, drives, crashed>>

-----------------------------------------------------------------------------
(* driver_thread()                                                        *)

\* The top of the loop: lock the mutex
DriverLock(d) ==
    /\ ~crashed
    /\ pc[d] = "top"
    /\ lock = NoThread
    /\ lock' = d
    /\ pc' = [pc EXCEPT ![d] = "check_empty"]
    /\ UNCHANGED <<lines, nread, queue, total_rides, rides_done, dispatch_done,
                   exit_drivers, frees, waiting, curr_req, drives, crashed>>

\* Woken on cond_empty: re-acquire the mutex and re-test the loop condition
DriverWake(d) ==
    /\ ~crashed
    /\ Reacquire(d, "empty", "empty_wait", "check_empty")
    /\ UNCHANGED <<lines, nread, queue, total_rides, rides_done, dispatch_done,
                   exit_drivers, frees, waiting, curr_req, drives, crashed>>

\* What empty(state->request_queue) can return: the queue's emptiness, or,
\* once the queue is freed, whatever the freed memory makes it report
EmptyResults ==
    IF QueueFreed THEN {o = "empty" : o \in FreedQueueReads}
    ELSE {queue = <<>>}

\* while (empty(queue) && !exit_drivers) pthread_cond_wait(&cond_empty)
DriverWait(d, isEmpty) ==
    /\ pc[d] = "check_empty"
    /\ isEmpty /\ ~exit_drivers
    /\ Wait(d, "empty", "empty_wait")
    /\ UNCHANGED <<lines, nread, queue, total_rides, rides_done, dispatch_done,
                   exit_drivers, frees, curr_req, drives, crashed>>

\* if (exit_drivers) { unlock; break; }
DriverExit(d, isEmpty) ==
    /\ pc[d] = "check_empty"
    /\ ~(isEmpty /\ ~exit_drivers)
    /\ exit_drivers
    /\ Unlock
    /\ pc' = [pc EXCEPT ![d] = "exited"]
    /\ UNCHANGED <<lines, nread, queue, total_rides, rides_done, dispatch_done,
                   exit_drivers, frees, waiting, curr_req, drives, crashed>>

\* else: pop_front, signal cond_full, unlock
DriverPop(d, isEmpty) ==
    /\ pc[d] = "check_empty"
    /\ ~isEmpty /\ ~exit_drivers
    /\ IF QueueFreed
       \* pop_front() follows pointers out of freed memory
       THEN /\ crashed' = TRUE
            /\ UNCHANGED <<queue, lock, waiting, pc, curr_req>>
       ELSE /\ curr_req' = [curr_req EXCEPT ![d] = Head(queue)]
            /\ queue' = Tail(queue)
            /\ Signal("full")
            /\ Unlock
            /\ pc' = [pc EXCEPT ![d] = "drive"]
            /\ UNCHANGED crashed
    /\ UNCHANGED <<lines, nread, total_rides, rides_done, dispatch_done,
                   exit_drivers, frees, drives>>

\* drive(curr_req), outside the mutex
Drive(d) ==
    /\ ~crashed
    /\ pc[d] = "drive"
    /\ drives' = [drives EXCEPT ![curr_req[d]] = @ + 1]
    /\ pc' = [pc EXCEPT ![d] = "finish"]
    /\ UNCHANGED <<lines, nread, queue, total_rides, rides_done, dispatch_done,
                   exit_drivers, frees, lock, waiting, curr_req, crashed>>

\* Mutant: the last-ride test forgets dispatch_done
Finish_ignores_dispatch_done(d) ==
    /\ ~crashed
    /\ pc[d] = "finish"
    /\ lock = NoThread
    /\ rides_done' = rides_done + 1
    /\ curr_req' = [curr_req EXCEPT ![d] = NoRide]
    /\ IF rides_done + 1 = total_rides
       THEN /\ frees' = frees + 1
            /\ Signal("done")
            /\ pc' = [pc EXCEPT ![d] = "exited"]
       ELSE /\ UNCHANGED <<frees, waiting>>
            /\ pc' = [pc EXCEPT ![d] = "top"]
    /\ UNCHANGED <<lines, nread, queue, total_rides, dispatch_done,
                   exit_drivers, lock, drives, crashed>>

\* Lock, count the ride done, free the request; the driver that completes
\* the last ride after the input ended frees the queue, signals cond_done
\* and exits
Finish(d) ==
    /\ ~crashed
    /\ pc[d] = "finish"
    /\ lock = NoThread
    /\ rides_done' = rides_done + 1
    /\ curr_req' = [curr_req EXCEPT ![d] = NoRide]
    /\ IF dispatch_done /\ rides_done + 1 = total_rides
       THEN /\ frees' = frees + 1
            /\ Signal("done")
            /\ pc' = [pc EXCEPT ![d] = "exited"]
       ELSE /\ UNCHANGED <<frees, waiting>>
            /\ pc' = [pc EXCEPT ![d] = "top"]
    /\ UNCHANGED <<lines, nread, queue, total_rides, dispatch_done,
                   exit_drivers, lock, drives, crashed>>

-----------------------------------------------------------------------------

\* Every thread has returned, or the process died: nothing more happens
Halted ==
    /\ crashed \/ \A t \in Threads : pc[t] = "exited"
    /\ UNCHANGED vars

DispatcherStep == GetLine \/ Dispatch \/ DispatchResume \/ InputDone \/ DoneResume

DriverStep(d) ==
    \/ DriverLock(d)
    \/ DriverWake(d)
    \/ \E e \in EmptyResults :
          DriverWait(d, e) \/ DriverExit(d, e) \/ DriverPop(d, e)
    \/ Drive(d)
    \/ Finish(d)

Next ==
    \/ GetLine \/ Dispatch \/ DispatchResume \/ InputDone \/ DoneResume
    \/ \E d \in Drivers :
          \/ DriverLock(d)
          \/ DriverWake(d)
          \/ \E e \in EmptyResults : DriverWait(d, e)
          \/ \E e \in EmptyResults : DriverExit(d, e)
          \/ \E e \in EmptyResults : DriverPop(d, e)
          \/ Drive(d)
          \/ Finish(d)
    \/ Halted

Spec == Init /\ [][Next]_vars

\* Each thread that can take a step, even one that can only intermittently
\* get the mutex, takes it sooner or later
FairSpec ==
    /\ Spec
    /\ SF_vars(DispatcherStep)
    /\ \A d \in Drivers : SF_vars(DriverStep(d))

-----------------------------------------------------------------------------
(* Properties.                                                            *)

Labels == {"getline", "dispatch", "dispatch_wait", "input_done", "done_wait",
           "top", "check_empty", "empty_wait", "drive", "finish", "exited"}

TypeOK ==
    /\ lines \in 0 .. MaxLines /\ nread \in 0 .. lines
    /\ queue \in Seq(Rides) /\ Len(queue) <= MAX_QUEUE_SIZE
    /\ total_rides \in 0 .. MaxLines /\ rides_done \in 0 .. MaxLines
    /\ dispatch_done \in BOOLEAN /\ exit_drivers \in BOOLEAN
    /\ frees \in Nat
    /\ lock \in Threads \cup {NoThread}
    /\ waiting \in [CVs -> SUBSET Threads]
    /\ pc \in [Threads -> Labels]
    /\ curr_req \in [Drivers -> Rides \cup {NoRide}]
    /\ drives \in [Rides -> Nat]
    /\ crashed \in BOOLEAN

\* The dispatcher holds ride r between reading its line and pushing it
HeldByDispatcher(r) ==
    r = nread /\ pc[Dispatcher] \in {"dispatch", "dispatch_wait"}

\* Rides are neither lost nor duplicated between dispatch() and the
\* drivers: every ride read so far is in exactly one place (held by the
\* dispatcher, in the queue, popped by a driver not yet driven, or driven
\* once), and total_rides and rides_done count what they claim to.
RideConservation ==
    /\ \A r \in Rides :
          LET places == (IF HeldByDispatcher(r) THEN 1 ELSE 0)
                        + Cardinality({i \in DOMAIN queue : queue[i] = r})
                        + Cardinality({d \in Drivers : pc[d] = "drive" /\ curr_req[d] = r})
                        + drives[r]
          IN  places = IF r <= nread THEN 1 ELSE 0
    /\ total_rides = nread - (IF pc[Dispatcher] = "dispatch" THEN 1 ELSE 0)
    /\ rides_done = Cardinality({r \in Rides : drives[r] > 0})
                    - Cardinality({d \in Drivers : pc[d] = "finish"})

\* The shutdown handshake is not early: the dispatcher tells the drivers
\* to exit, and the last driver frees the queue, only after every line of
\* the input was read and every ride was driven, and the queue is freed
\* at most once.
NoEarlyShutdown ==
    /\ (exit_drivers \/ QueueFreed) =>
          /\ nread = lines
          /\ \A r \in 1 .. lines : drives[r] = 1
    /\ frees <= 1

\* Every thread returns: all rides are dispatched and driven, the
\* dispatcher's cond_done wait and each driver's cond_empty wait end.
Termination == <>(\A t \in Threads : pc[t] = "exited")

\* No driver reads state->request_queue after the last driver freed it
\* (dispatch.c:150 frees it; line 129 reads it again in the other drivers).
NoUseAfterFree ==
    \A d \in Drivers : pc[d] = "check_empty" => ~QueueFreed

=============================================================================
