\* Two requests race for two slugs, with a crash and the boot after it.
CONSTANTS
    k1 = k1
    k2 = k2
    k3 = k3
    p1 = p1
    p2 = p2
    p3 = p3
    s1 = s1
    s2 = s2
    s3 = s3
    Partner = {p1, p2, p3}
    Key = {k1, k2, k3}
    Slug = {s1, s2, s3}
    Request = {r1, r2}
    NoPartner = NoPartner
    Absent = Absent
    Unset = Unset
    Undefined = Undefined
    SeedPartner = p1
    SeedKey = k1
    SeedSlug = s1
    Seeding = TRUE
    MaxCrashes = 1
SPECIFICATION RegistrySpec
SYMMETRY SlotSymmetry
PROPERTIES FailedBootIsFinal
