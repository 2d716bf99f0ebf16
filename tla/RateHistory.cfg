\* Two instances, two builds, hours of two ticks; a week of one hour, a month of five
\* ticks.  A behaviour ends with the bounds on time and boots.
CONSTANTS
    i1 = i1
    i2 = i2
    b1 = b1
    b2 = b2
    v1 = v1
    v2 = v2
    v3 = v3
    gone = gone
    a1 = a1
    a2 = a2
    aave = aave
    morpho = morpho
    u1 = u1
    u2 = u2
    p1 = p1
    p2 = p2
    Null = Null
    Scale = 2000
    Hour = 2
    Day = 4
    Week = 2
    Month = 5
    BaselineProvider = aave
    Instance = {i1, i2}
    Build <- MCBuild
    Unseeded = Unseeded
    Positions <- MCPositions
    Events <- MCEvents
    Partners = {p1}
    Share = 20
    Lag = 1
    MaxTime = 6
    MaxBoots = 2
    MaxFails = 1
CHECK_DEADLOCK FALSE
SPECIFICATION Spec
INVARIANTS TypeOK RowsAreObservations HourCovered AveragesHonest SignalsRestOnHours SteadyRatesAreStable UpliftAddsUp
SYMMETRY Symmetry
