\* One request at a time; the process may die once in the middle of one. No seeding.
CONSTANTS
    k1 = k1
    k2 = k2
    p1 = p1
    s1 = s1
    Partner = {p1}
    Key = {k1, k2}
    Slug = {s1}
    Request = {r1}
    NoPartner = NoPartner
    Absent = Absent
    Unset = Unset
    Undefined = Undefined
    SeedPartner = p1
    SeedKey = k1
    SeedSlug = s1
    Seeding = FALSE
    MaxCrashes = 1
SPECIFICATION Spec
INVARIANTS DisableRevokesKeys
