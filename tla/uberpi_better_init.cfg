\* Three passengers, two ubers, two rides each: passenger_better_init
CONSTANTS
    q1 = q1
    q2 = q2
    q3 = q3
    Passengers <- MC_Passengers
    NUM_UBERS = 2
    RIDES_PER_PASSENGER = 2
    Variants = {"better_init"}
SPECIFICATION Spec
INVARIANT ExclusiveRide
