\* Three drivers racing for the two halves of two straight orders, fair scheduling
CONSTANTS
    u1 = u1
    u2 = u2
    u3 = u3
    cA = cA
    cB = cB
    mA = mA
    mB = mB
    Drivers <- MC_Drivers
    Customers <- MC_Customers
    Meals <- MC_Meals
    MealOf <- MC_MealOf
    CustomerOf <- MC_Straight
SPECIFICATION FairSpec
INVARIANT TypeOK
INVARIANT ExclusivePickup
PROPERTY AllDelivered
