\* Two requests in flight that never update one row at once: two partners, two keys, two slugs.
CONSTANTS
    k1 = k1
    k2 = k2
    p1 = p1
    p2 = p2
    s1 = s1
    s2 = s2
    r1 = r1
    r2 = r2
    Partner = {p1, p2}
    Key = {k1, k2}
    Slug = {s1, s2}
    Request = {r1, r2}
    NoPartner = NoPartner
    Absent = Absent
    Unset = Unset
    Undefined = Undefined
    SeedPartner = p1
    SeedKey = k1
    SeedSlug = s1
    Seeding = TRUE
    MaxCrashes = 0
SPECIFICATION ApartSpec
SYMMETRY SlotSymmetry
INVARIANTS RevokedKeyRejected DisableRevokesKeys
PROPERTIES PartialUpdate
