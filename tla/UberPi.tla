------------------------------ MODULE UberPi ------------------------------
(***************************************************************************)
(* Passenger threads sharing ubers (src/pset5/uber-pi/uber-pi.c).  main() *)
(* starts one of three passenger functions for every thread:               *)
(*   "lock"        passenger(): lock uber_locks[0], drive, unlock;         *)
(*   "better_init" passenger_better_init(): spin until free_ubers > 0      *)
(*                 (read without a lock), then under status_lock take the *)
(*                 first uber whose status is not_in_use; after the ride  *)
(*                 give it back under status_lock;                         *)
(*   "trylock"     passenger_trylock(): trylock the ubers round robin     *)
(*                 from 0 until one succeeds.                              *)
(* drive() is the ride: its Monte-Carlo arithmetic is left out, only which *)
(* uber a passenger is in matters.                                         *)
(***************************************************************************)
EXTENDS Naturals, FiniteSets, FiniteSetsExt

CONSTANTS
    Passengers,
    NUM_UBERS,
    RIDES_PER_PASSENGER,
    Variants         \* the values main's argv[1] may select

ASSUME /\ NUM_UBERS \in Nat \ {0}
       /\ RIDES_PER_PASSENGER \in Nat
       /\ Variants \subseteq {"lock", "better_init", "trylock"}

Ubers      == 0 .. NUM_UBERS - 1
NoOne      == "none"
NoSeat     == -2            \* not in any uber
Uninit     == -1            \* uber_id before its first assignment
OutOfRange == NUM_UBERS     \* an indeterminate uber_id outside the array

VARIABLES
    Variant,       \* the passenger function main started: argv[1]
    pc,            \* where each passenger is
    k,             \* k[p]: rides p has finished (the loop counter)
    uber_id,       \* passenger_better_init's local uber_id
    idx,           \* passenger_trylock's local idx
    seat,          \* the uber a passenger is driving in (drive's uber_id)
    uber_locks,    \* uber_locks[u]: holder of uber u's mutex
    status,        \* status[u]
    free_ubers

vars == <<Variant, pc, k, uber_id, idx, seat, uber_locks, status, free_ubers>>

(* status_lock is held only inside steps that cannot block (the claim and *)
(* the release of passenger_better_init), so it is never seen held and is *)
(* left implicit: each of those critical sections is one step.            *)

\* main(): initialise the locks, every status not_in_use, free_ubers
Init ==
    /\ Variant \in Variants
    /\ pc = [p \in Passengers |-> "top"]
    /\ k = [p \in Passengers |-> 0]
    /\ uber_id = [p \in Passengers |-> Uninit]
    /\ idx = [p \in Passengers |-> 0]
    /\ seat = [p \in Passengers |-> NoSeat]
    /\ uber_locks = [u \in Ubers |-> NoOne]
    /\ status = [u \in Ubers |-> "not_in_use"]
    /\ free_ubers = NUM_UBERS

\* Mutant: the ride loop runs while k <= RIDES_PER_PASSENGER
MoreRides_off_by_one(p) == k[p] <= RIDES_PER_PASSENGER

\* for (k = 0; k < RIDES_PER_PASSENGER; ++k), in all three functions
MoreRides(p) == k[p] < RIDES_PER_PASSENGER

\* The passenger has taken all its rides and returns
Finish(p) ==
    /\ pc[p] = "top"
    /\ ~MoreRides(p)
    /\ pc' = [pc EXCEPT ![p] = "exited"]
    /\ UNCHANGED <<Variant, k, uber_id, idx, seat, uber_locks, status, free_ubers>>

\* The end of a ride: the loop counter goes up
NextRide(p) ==
    /\ k' = [k EXCEPT ![p] = @ + 1]
    /\ seat' = [seat EXCEPT ![p] = NoSeat]
    /\ pc' = [pc EXCEPT ![p] = "top"]

-----------------------------------------------------------------------------
(* passenger(): the inner loop breaks after uber 0, so every ride is in   *)
(* uber 0 under uber_locks[0].                                             *)

\* Mutant: the mutex is released before drive() instead of after
LockStart_unlocks_early(p) ==
    /\ Variant = "lock"
    /\ pc[p] = "top"
    /\ MoreRides(p)
    /\ uber_locks[0] = NoOne
    /\ seat' = [seat EXCEPT ![p] = 0]
    /\ pc' = [pc EXCEPT ![p] = "driving"]
    /\ UNCHANGED <<Variant, k, uber_id, idx, uber_locks, status, free_ubers>>

\* pthread_mutex_lock(&uber_locks[0]), then drive(me, 0)
LockStart(p) ==
    /\ Variant = "lock"
    /\ pc[p] = "top"
    /\ MoreRides(p)
    /\ uber_locks[0] = NoOne
    /\ uber_locks' = [uber_locks EXCEPT ![0] = p]
    /\ seat' = [seat EXCEPT ![p] = 0]
    /\ pc' = [pc EXCEPT ![p] = "driving"]
    /\ UNCHANGED <<Variant, k, uber_id, idx, status, free_ubers>>

\* Mutant: the ride ends without pthread_mutex_unlock
LockEnd_keeps_lock(p) ==
    /\ Variant = "lock"
    /\ pc[p] = "driving"
    /\ NextRide(p)
    /\ UNCHANGED <<Variant, uber_id, idx, uber_locks, status, free_ubers>>

\* pthread_mutex_unlock(&uber_locks[0]); break
LockEnd(p) ==
    /\ Variant = "lock"
    /\ pc[p] = "driving"
    /\ uber_locks' = [uber_locks EXCEPT ![0] = NoOne]
    /\ NextRide(p)
    /\ UNCHANGED <<Variant, uber_id, idx, status, free_ubers>>

-----------------------------------------------------------------------------
(* passenger_better_init()                                                *)

\* while (free_ubers == 0) usleep(1): go on once free_ubers, read without
\* the lock, is not 0
BISpin(p) ==
    /\ Variant = "better_init"
    /\ pc[p] = "top"
    /\ MoreRides(p)
    /\ free_ubers # 0
    /\ pc' = [pc EXCEPT ![p] = "claim"]
    /\ UNCHANGED <<Variant, k, uber_id, idx, seat, uber_locks, status, free_ubers>>

\* Mutant: the claim forgets to mark the uber in_use
BIClaim_no_status(p, g) ==
    LET free == {u \in Ubers : status[u] = "not_in_use"}
        id   == IF free # {} THEN Min(free)
                ELSE IF uber_id[p] = Uninit THEN g ELSE uber_id[p]
    IN  /\ Variant = "better_init"
        /\ pc[p] = "claim"
        /\ free_ubers' = IF free # {} THEN free_ubers - 1 ELSE free_ubers
        /\ uber_id' = [uber_id EXCEPT ![p] = id]
        /\ seat' = [seat EXCEPT ![p] = id]
        /\ pc' = [pc EXCEPT ![p] = "driving"]
        /\ UNCHANGED <<Variant, k, idx, uber_locks, status>>

\* Under status_lock: claim the first uber that is not in use, if any is
\* left; then drive(me, uber_id).  If none is left, uber_id keeps its
\* value from the last ride, or, on the first ride, is indeterminate: g.
BIClaim(p, g) ==
    LET free == {u \in Ubers : status[u] = "not_in_use"}
        id   == IF free # {} THEN Min(free)
                ELSE IF uber_id[p] = Uninit THEN g ELSE uber_id[p]
    IN  /\ Variant = "better_init"
        /\ pc[p] = "claim"
        /\ IF free # {}
           THEN /\ free_ubers' = free_ubers - 1
                /\ status' = [status EXCEPT ![id] = "in_use"]
           ELSE UNCHANGED <<Variant, free_ubers, status>>
        /\ uber_id' = [uber_id EXCEPT ![p] = id]
        /\ seat' = [seat EXCEPT ![p] = id]
        /\ pc' = [pc EXCEPT ![p] = "driving"]
        /\ UNCHANGED <<Variant, k, idx, uber_locks>>

\* Mutant: the release forgets free_ubers++
BIRelease_no_increment(p) ==
    /\ Variant = "better_init"
    /\ pc[p] = "driving"
    /\ status' = IF uber_id[p] \in Ubers
                 THEN [status EXCEPT ![uber_id[p]] = "not_in_use"]
                 ELSE status
    /\ NextRide(p)
    /\ UNCHANGED <<Variant, uber_id, idx, uber_locks, free_ubers>>

\* Under status_lock: free_ubers++, status[uber_id] = not_in_use (a write
\* outside the array for an out-of-range uber_id is lost to the model)
BIRelease(p) ==
    /\ Variant = "better_init"
    /\ pc[p] = "driving"
    /\ free_ubers' = free_ubers + 1
    /\ status' = IF uber_id[p] \in Ubers
                 THEN [status EXCEPT ![uber_id[p]] = "not_in_use"]
                 ELSE status
    /\ NextRide(p)
    /\ UNCHANGED <<Variant, uber_id, idx, uber_locks>>

-----------------------------------------------------------------------------
(* passenger_trylock()                                                    *)

\* A new ride starts its scan at uber 0
TLStart(p) ==
    /\ Variant = "trylock"
    /\ pc[p] = "top"
    /\ MoreRides(p)
    /\ idx' = [idx EXCEPT ![p] = 0]
    /\ pc' = [pc EXCEPT ![p] = "try"]
    /\ UNCHANGED <<Variant, k, uber_id, seat, uber_locks, status, free_ubers>>

\* Mutant: the test of pthread_mutex_trylock's result is inverted (!= 0):
\* a lock it gets is kept while it scans on, and a failed try drives
TLTry_inverted(p) ==
    /\ Variant = "trylock"
    /\ pc[p] = "try"
    /\ IF uber_locks[idx[p]] = NoOne
       THEN /\ uber_locks' = [uber_locks EXCEPT ![idx[p]] = p]
            /\ idx' = [idx EXCEPT ![p] = (idx[p] + 1) % NUM_UBERS]
            /\ UNCHANGED <<Variant, seat, pc>>
       ELSE /\ seat' = [seat EXCEPT ![p] = idx[p]]
            /\ pc' = [pc EXCEPT ![p] = "driving"]
            /\ UNCHANGED <<Variant, idx, uber_locks>>
    /\ UNCHANGED <<Variant, k, uber_id, status, free_ubers>>

\* pthread_mutex_trylock(&uber_locks[idx]): on success drive in uber idx,
\* else move on to the next uber round robin
TLTry(p) ==
    /\ Variant = "trylock"
    /\ pc[p] = "try"
    /\ IF uber_locks[idx[p]] = NoOne
       THEN /\ uber_locks' = [uber_locks EXCEPT ![idx[p]] = p]
            /\ seat' = [seat EXCEPT ![p] = idx[p]]
            /\ pc' = [pc EXCEPT ![p] = "driving"]
            /\ UNCHANGED <<Variant, idx>>
       ELSE /\ idx' = [idx EXCEPT ![p] = (idx[p] + 1) % NUM_UBERS]
            /\ UNCHANGED <<Variant, seat, pc, uber_locks>>
    /\ UNCHANGED <<Variant, k, uber_id, status, free_ubers>>

\* Mutant: the ride ends without pthread_mutex_unlock
TLEnd_keeps_lock(p) ==
    /\ Variant = "trylock"
    /\ pc[p] = "driving"
    /\ NextRide(p)
    /\ UNCHANGED <<Variant, uber_id, idx, uber_locks, status, free_ubers>>

\* pthread_mutex_unlock(&uber_locks[idx]); needs_ride = 0
TLEnd(p) ==
    /\ Variant = "trylock"
    /\ pc[p] = "driving"
    /\ uber_locks' = [uber_locks EXCEPT ![idx[p]] = NoOne]
    /\ NextRide(p)
    /\ UNCHANGED <<Variant, uber_id, idx, status, free_ubers>>

-----------------------------------------------------------------------------

\* pthread_join: every passenger has returned
Halted ==
    /\ \A p \in Passengers : pc[p] = "exited"
    /\ UNCHANGED vars

PassengerStep(p) ==
    \/ Finish(p)
    \/ LockStart(p) \/ LockEnd(p)
    \/ BISpin(p) \/ (\E g \in Ubers \cup {OutOfRange} : BIClaim(p, g)) \/ BIRelease(p)
    \/ TLStart(p) \/ TLTry(p) \/ TLEnd(p)

Next ==
    \/ \E p \in Passengers :
          \/ Finish(p)
          \/ LockStart(p)
          \/ LockEnd(p)
          \/ BISpin(p)
          \/ \E g \in Ubers \cup {OutOfRange} : BIClaim(p, g)
          \/ BIRelease(p)
          \/ TLStart(p)
          \/ TLTry(p)
          \/ TLEnd(p)
    \/ Halted

Spec == Init /\ [][Next]_vars

\* Every passenger that can move moves sooner or later, including one
\* blocked in pthread_mutex_lock whenever the mutex is released
FairSpec == Spec /\ \A p \in Passengers : SF_vars(PassengerStep(p))

-----------------------------------------------------------------------------
(* Properties.                                                            *)

TypeOK ==
    /\ Variant \in Variants
    /\ pc \in [Passengers -> {"top", "claim", "try", "driving", "exited"}]
    /\ k \in [Passengers -> 0 .. RIDES_PER_PASSENGER]
    /\ uber_id \in [Passengers -> Ubers \cup {Uninit, OutOfRange}]
    /\ idx \in [Passengers -> Ubers]
    /\ seat \in [Passengers -> Ubers \cup {NoSeat, OutOfRange}]
    /\ uber_locks \in [Ubers -> Passengers \cup {NoOne}]
    /\ status \in [Ubers -> {"not_in_use", "in_use"}]
    /\ free_ubers \in Int

\* The claim of the better_init comment, and the point of every variant:
\* no two passengers ride in the same uber at the same time, and nobody
\* rides in an uber outside the array.
ExclusiveRide ==
    \A p \in Passengers :
        pc[p] = "driving" =>
            /\ seat[p] \in Ubers
            /\ \A q \in Passengers \ {p} : pc[q] = "driving" => seat[q] # seat[p]

\* Every passenger takes all its rides and returns, so main's
\* pthread_join loop ends.
AllRidesTaken ==
    <>(\A p \in Passengers : pc[p] = "exited" /\ k[p] = RIDES_PER_PASSENGER)

=============================================================================
