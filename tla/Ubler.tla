------------------------------- MODULE Ubler -------------------------------
(***************************************************************************)
(* Ubler driver threads (src/pset5/ubler/ubler.c).  Each order is a        *)
(* customer and the customer's meal; a driver either drives the customer   *)
(* to the restaurant or the meal to the customer, never both.  A driver    *)
(* receives a request (a customer or a meal), reads both picked-up flags   *)
(* without a lock, locks the customer's mutex (for a meal request, the    *)
(* mutex of the customer the meal points to), re-reads the flags, drives  *)
(* to the source, picks up and unlocks, then drives on and drops off.     *)
(*                                                                         *)
(* The helpers (receive_request, the private tracking of picked-up state) *)
(* are not in the repository: receive_request hands out a request of an   *)
(* order not yet served, or reports that none is left.                     *)
(***************************************************************************)
EXTENDS Naturals, FiniteSets

CONSTANTS
    Drivers,
    Customers,
    Meals,
    MealOf,        \* customer->meal
    CustomerOf     \* meal->customer (mixed up by some restaurants)

ASSUME /\ MealOf \in [Customers -> Meals]
       /\ CustomerOf \in [Meals -> Customers]

NoDriver == "none"

\* A request handed out by receive_request, with isCustomer
Requests == [isCustomer : {TRUE}, who : Customers]
              \cup [isCustomer : {FALSE}, who : Meals]

VARIABLES
    pc,            \* where each driver is in its loop
    req,           \* the request being handled
    customer,      \* the driver's local `customer`
    meal,          \* the driver's local `meal`
    mutex,         \* mutex[c]: the holder of customer c's lock
    pickedC,       \* pickedC[c]: times customer c was picked up
    pickedM,       \* pickedM[m]: times meal m was picked up
    dropped        \* requests dropped off at their destination

vars == <<pc, req, customer, meal, mutex, pickedC, pickedM, dropped>>

\* An order is served once its customer or its meal has been picked up
Served(c) == pickedC[c] > 0 \/ pickedM[MealOf[c]] > 0

\* The order a request belongs to, by the customer->meal pointers
OrderOf(r) == IF r.isCustomer THEN r.who
              ELSE CHOOSE c \in Customers : MealOf[c] = r.who

Init ==
    /\ pc = [d \in Drivers |-> "receive"]
    /\ req = [d \in Drivers |-> CHOOSE r \in Requests : TRUE]
    /\ customer = [d \in Drivers |-> CHOOSE c \in Customers : TRUE]
    /\ meal = [d \in Drivers |-> CHOOSE m \in Meals : TRUE]
    /\ mutex = [c \in Customers |-> NoDriver]
    /\ pickedC = [c \in Customers |-> 0]
    /\ pickedM = [m \in Meals |-> 0]
    /\ dropped = {}

-----------------------------------------------------------------------------
(* driver_thread()                                                        *)

\* receive_request() hands out a request of an order not yet served
Receive(d, r) ==
    /\ pc[d] = "receive"
    /\ ~Served(OrderOf(r))
    /\ req' = [req EXCEPT ![d] = r]
    /\ pc' = [pc EXCEPT ![d] = "precheck"]
    /\ UNCHANGED <<customer, meal, mutex, pickedC, pickedM, dropped>>

\* receive_request() != 0: no more destinations, the thread returns
ReceiveNone(d) ==
    /\ pc[d] = "receive"
    /\ \A c \in Customers : Served(c)
    /\ pc' = [pc EXCEPT ![d] = "exited"]
    /\ UNCHANGED <<req, customer, meal, mutex, pickedC, pickedM, dropped>>

\* Mutant: the request is cast to a customer whichever kind it is (and
\* the unlocked pre-check, which would read through the bad cast, is gone)
Precheck_casts_to_customer(d) ==
    LET r == req[d]
        c == r.who
        m == IF r.isCustomer THEN MealOf[r.who] ELSE r.who
    IN  /\ pc[d] = "precheck"
        /\ customer' = [customer EXCEPT ![d] = c]
        /\ meal' = [meal EXCEPT ![d] = m]
        /\ pc' = [pc EXCEPT ![d] = "lock"]
        /\ UNCHANGED <<req, mutex, pickedC, pickedM, dropped>>

\* Look up the other half of the order through the request's pointer and
\* skip it, without a lock, if both halves are already picked up
Precheck(d) ==
    LET r == req[d]
        c == IF r.isCustomer THEN r.who ELSE CustomerOf[r.who]
        m == IF r.isCustomer THEN MealOf[r.who] ELSE r.who
    IN  /\ pc[d] = "precheck"
        /\ customer' = [customer EXCEPT ![d] = c]
        /\ meal' = [meal EXCEPT ![d] = m]
        /\ pc' = [pc EXCEPT ![d] = IF pickedC[c] # 0 /\ pickedM[m] # 0
                                   THEN "receive" ELSE "lock"]
        /\ UNCHANGED <<req, mutex, pickedC, pickedM, dropped>>

\* pthread_mutex_lock(&customer->lock)
Lock(d) ==
    /\ pc[d] = "lock"
    /\ mutex[customer[d]] = NoDriver
    /\ mutex' = [mutex EXCEPT ![customer[d]] = d]
    /\ pc' = [pc EXCEPT ![d] = "recheck"]
    /\ UNCHANGED <<req, customer, meal, pickedC, pickedM, dropped>>

\* Mutant: the locked re-check tests only the half that was requested
Recheck_own_half_only(d) ==
    /\ pc[d] = "recheck"
    /\ IF IF req[d].isCustomer THEN pickedC[customer[d]] = 0 ELSE pickedM[meal[d]] = 0
       THEN /\ pc' = [pc EXCEPT ![d] = "pickup"]
            /\ UNCHANGED mutex
       ELSE /\ pc' = [pc EXCEPT ![d] = "receive"]
            /\ mutex' = [mutex EXCEPT ![customer[d]] = NoDriver]
    /\ UNCHANGED <<req, customer, meal, pickedC, pickedM, dropped>>

\* Mutant: the else branch forgets pthread_mutex_unlock
Recheck_keeps_lock(d) ==
    /\ pc[d] = "recheck"
    /\ IF pickedC[customer[d]] = 0 /\ pickedM[meal[d]] = 0
       THEN pc' = [pc EXCEPT ![d] = "pickup"]
       ELSE pc' = [pc EXCEPT ![d] = "receive"]
    /\ UNCHANGED <<req, customer, meal, mutex, pickedC, pickedM, dropped>>

\* Under the lock: go on only if neither half is picked up, else unlock
Recheck(d) ==
    /\ pc[d] = "recheck"
    /\ IF pickedC[customer[d]] = 0 /\ pickedM[meal[d]] = 0
       THEN /\ pc' = [pc EXCEPT ![d] = "pickup"]
            /\ UNCHANGED mutex
       ELSE /\ pc' = [pc EXCEPT ![d] = "receive"]
            /\ mutex' = [mutex EXCEPT ![customer[d]] = NoDriver]
    /\ UNCHANGED <<req, customer, meal, pickedC, pickedM, dropped>>

\* Drive to the source, pick the customer or the meal up, unlock
PickUp(d) ==
    /\ pc[d] = "pickup"
    /\ IF req[d].isCustomer
       THEN /\ pickedC' = [pickedC EXCEPT ![customer[d]] = @ + 1]
            /\ UNCHANGED pickedM
       ELSE /\ pickedM' = [pickedM EXCEPT ![meal[d]] = @ + 1]
            /\ UNCHANGED pickedC
    /\ mutex' = [mutex EXCEPT ![customer[d]] = NoDriver]
    /\ pc' = [pc EXCEPT ![d] = "dropoff"]
    /\ UNCHANGED <<req, customer, meal, dropped>>

\* Drive to the destination and drop off, outside the lock
DropOff(d) ==
    /\ pc[d] = "dropoff"
    /\ dropped' = dropped \cup {req[d]}
    /\ pc' = [pc EXCEPT ![d] = "receive"]
    /\ UNCHANGED <<req, customer, meal, mutex, pickedC, pickedM>>

\* Every driver has returned
Halted ==
    /\ \A d \in Drivers : pc[d] = "exited"
    /\ UNCHANGED vars

DriverStep(d) ==
    \/ \E r \in Requests : Receive(d, r)
    \/ ReceiveNone(d)
    \/ Precheck(d)
    \/ Lock(d)
    \/ Recheck(d)
    \/ PickUp(d)
    \/ DropOff(d)

Next ==
    \/ \E d \in Drivers :
          \/ \E r \in Requests : Receive(d, r)
          \/ ReceiveNone(d)
          \/ Precheck(d)
          \/ Lock(d)
          \/ Recheck(d)
          \/ PickUp(d)
          \/ DropOff(d)
    \/ Halted

Spec == Init /\ [][Next]_vars

\* Every driver that can move moves sooner or later, including one that can
\* only intermittently get a customer's mutex
FairSpec == Spec /\ \A d \in Drivers : SF_vars(DriverStep(d))

-----------------------------------------------------------------------------
(* Properties.                                                            *)

TypeOK ==
    /\ pc \in [Drivers -> {"receive", "precheck", "lock", "recheck", "pickup",
                           "dropoff", "exited"}]
    /\ req \in [Drivers -> Requests]
    /\ customer \in [Drivers -> Customers]
    /\ meal \in [Drivers -> Meals]
    /\ mutex \in [Customers -> Drivers \cup {NoDriver}]
    /\ pickedC \in [Customers -> Nat]
    /\ pickedM \in [Meals -> Nat]
    /\ dropped \subseteq Requests

\* The strategy comment's promise: no two drivers complete the same order.
\* For every customer, the customer and the customer's meal are picked up
\* at most once between them, whichever drivers race for either half.
ExclusivePickup ==
    \A c \in Customers : pickedC[c] + pickedM[MealOf[c]] <= 1

\* Every order is delivered and every driver thread returns.
AllDelivered ==
    <>(/\ \A d \in Drivers : pc[d] = "exited"
       /\ \A c \in Customers : \E r \in dropped : OrderOf(r) = c)

=============================================================================
