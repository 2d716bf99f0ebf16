\* One endpoint with two PATCH or DELETE requests, and one dispatch task, one fault.
CONSTANTS
    p1 = p1
    h1 = h1
    e1 = e1
    Partner = {p1}
    Hook = {h1}
    Event = {e1}
    Owner <- OneOwner
    Request = {r1, r2}
    Task = {t1}
    Absent = Absent
    Unset = Unset
    Undefined = Undefined
    Limit = 1
    MaxStamp = 1
    MaxFaults = 1
SPECIFICATION Spec
INVARIANTS TypeOK
PROPERTIES EndpointSettles
