\* Two requests in flight, no crash: DELETE /keys/:id against a call with the same key.
CONSTANTS
    k1 = k1
    k2 = k2
    p1 = p1
    s1 = s1
    Partner = {p1}
    Key = {k1, k2}
    Slug = {s1}
    Request = {r1, r2}
    NoPartner = NoPartner
    Absent = Absent
    Unset = Unset
    Undefined = Undefined
    SeedPartner = p1
    SeedKey = k1
    SeedSlug = s1
    Seeding = FALSE
    MaxCrashes = 0
SPECIFICATION Spec
SYMMETRY SlotSymmetry
INVARIANTS RevokedKeyRejected
