\* Three passengers, three ubers, two rides each, under each passenger function
CONSTANTS
    q1 = q1
    q2 = q2
    q3 = q3
    Passengers <- MC_Passengers
    NUM_UBERS = 3
    RIDES_PER_PASSENGER = 2
    Variants = {"lock", "better_init", "trylock"}
SPECIFICATION FairSpec
INVARIANT TypeOK
INVARIANT ExclusiveRide
PROPERTY AllRidesTaken
