--------------------------- MODULE MCRateHistory ---------------------------
(***************************************************************************)
(* Two builds for RateHistory: the second raises the rate of v1, pauses v2  *)
(* and adds v3, whose asset has no baseline venue.  The book has a position *)
(* that was never moved, one that was rebalanced twice, one that was topped *)
(* up, in a vault that is gone, and a closed one.                          *)
(***************************************************************************)
EXTENDS RateHistory, TLC

CONSTANTS i1, i2, b1, b2, v1, v2, v3, gone, a1, a2, aave, morpho, u1, u2, p1, p2

Row(id, seq, asset, provider, apy, alloc, tier, status) ==
    [id |-> id, seq |-> seq, asset |-> asset, provider |-> provider, apy |-> apy,
     alloc |-> alloc, tier |-> tier, status |-> status]

MCBuild ==
    b1 :> {Row(v1, 1, a1, aave, 50, 2, "bluechip", "active"),
           Row(v2, 2, a1, morpho, 80, 1, "core", "active")}
 @@ b2 :> {Row(v1, 1, a1, aave, 130, 2, "bluechip", "active"),
           Row(v2, 2, a1, morpho, 80, 1, "core", "paused"),
           Row(v3, 3, a2, morpho, 70, 0, "unrated", "active")}

Symmetry == Permutations(Instance)

Pos(seq, user, partner, asset, vault, principal, apy, status, opened, updated) ==
    [seq |-> seq, user |-> user, partner |-> partner, asset |-> asset, vault |-> vault,
     principal |-> principal, apy |-> apy, status |-> status, withdrawn |-> 0,
     opened |-> opened, updated |-> updated]

MCPositions ==
    {Pos(1, u1, p1, a1, v1, 10000, 50, "active", 0, 0),
     Pos(2, u1, p1, a1, v2, 25000, 80, "active", -4, -1),
     Pos(3, u2, p1, a2, gone, 9000, 70, "active", -3, -2),
     Pos(4, u2, p2, a1, v1, 5000, 60, "closed", -5, -1)}

Event(seq, position, type, at, amount, apy, vault) ==
    [seq |-> seq, position |-> position, type |-> type, at |-> at, amount |-> amount,
     apy |-> apy, vault |-> vault]

MCEvents ==
    {Event(1, 1, "deposit", 0, 10000, 50, v1),
     Event(2, 2, "deposit", -4, 25000, 55, v1), Event(3, 2, "rebalance", -2, 0, 40, v2),
     Event(4, 2, "rebalance", -1, 0, 80, v2),
     Event(5, 3, "deposit", -3, 5000, 65, gone), Event(6, 3, "deposit", -2, 4000, Null, Null),
     Event(7, 3, "rebalance", -2, 0, 70, gone),
     Event(8, 4, "deposit", -5, 5000, 60, v1)}

=============================================================================
