\* Two slots for three processes; a queue of two messages; two mailboxes, so
\* that one that is never given back is missed.
CONSTANTS
    t1 = t1
    t2 = t2
    t3 = t3
    Slots = {1, 2}
    Threads = {t1, t2, t3}
    SlotOf <- MCSlotOf
    Boxes = {b1, b2}
    Regions = {1}
    Messages = {m, n}
    MaxPid = 3
    IPC_QUEUE_SIZE = 2
    RetirePosts = 1
    SHM_MAX_ATTACH = 2
    MaxOwned = 1
    NoBox = NoBox
SPECIFICATION Spec
INVARIANTS DeliveryInOrder NoStrandedReceiver InsideIsHeld MappedIsAttached
CHECK_DEADLOCK FALSE
