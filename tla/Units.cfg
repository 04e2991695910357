CONSTANTS
    ship = ship
    scout = scout
    rover = rover
    Units = {ship, scout, rover}
    Transports = {ship}
    Capacity = 1
    Tiles = {"sea", "port"}
    Sea = {"sea"}
    MaxVehNum = 3
    MaxHandles = 1
    NoUnit = NoUnit
SYMMETRY Alike
SPECIFICATION Spec
INVARIANTS
    StacksAreWhole
PROPERTIES
    ImplementsUnitStacks
    FixedOrderIsOfTheArray
CHECK_DEADLOCK FALSE
