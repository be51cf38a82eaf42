SPECIFICATION RSSpec
CONSTANTS
    NumDays = 1
    Hours = {8, 12}
    MaxPicks = 2
    MaxEdits = 0
    NumRequests = 3
    Missing = Missing
INVARIANT
    ChosenHourShowsItsOrders
CHECK_DEADLOCK FALSE
