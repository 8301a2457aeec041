SPECIFICATION FairSpec
CONSTANTS
    Conditions <- EndingPartials
    MaxSells = 1
 
PROPERTIES LegFillEventuallyBooked
CHECK_DEADLOCK FALSE
