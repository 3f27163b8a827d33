\* Three clicks on a page that may still be loading.
SPECIFICATION Spec
CHECK_DEADLOCK FALSE
CONSTANTS
    m1 = m1
    m2 = m2
    Memory = {m1, m2}
    NoMemory = NoMemory
    MaxClicks = 3
INVARIANTS SubmitsOnce MessageFits
PROPERTIES AloneHandlersRefresh BusyEnds
