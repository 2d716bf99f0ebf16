\* Two endpoints of one partner, two tasks, a log of one row, one fault.
\* Without requests the system rests once MaxStamp deliveries are made.
CONSTANTS
    p1 = p1
    h1 = h1
    h2 = h2
    e1 = e1
    Partner = {p1}
    Hook = {h1, h2}
    Event = {e1}
    Owner <- OneOwner
    Request = {}
    Task = {t1, t2}
    Absent = Absent
    Unset = Unset
    Undefined = Undefined
    Limit = 1
    MaxStamp = 3
    MaxFaults = 1
SPECIFICATION Spec
INVARIANTS NothingForgotten
PROPERTIES LogRetained CapRestored
CHECK_DEADLOCK FALSE
