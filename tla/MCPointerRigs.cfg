CONSTANTS
    Keyboard = keyboard
    Mouse = mouse
    Itfs = {keyboard, mouse}
    keyboard = keyboard
    mouse = mouse
    Empty = Empty
    MaxResets = 1
    Revolutions = 3
    GameballRevolutions = 3
SPECIFICATION FairPointerSpec
INVARIANTS NothingStuck FiveClicks DeltasOnce
PROPERTY RigsKeepGoing
