-------------------------- MODULE MCReconciliation --------------------------
(***************************************************************************)
(* A small book for Reconciliation.  The first position earns so little    *)
(* that its accrual row appears only after a while, before rows that are   *)
(* already listed; the vault of the third is gone, the fourth is closed.   *)
(***************************************************************************)
EXTENDS Reconciliation, TLC

CONSTANTS n1, n2, a1, a2, v1, v2, gone, u1, u2, p1, p2

Pos(seq, user, partner, asset, vault, principal, apy, status, withdrawn, opened, updated) ==
    [seq |-> seq, user |-> user, partner |-> partner, asset |-> asset, vault |-> vault,
     principal |-> principal, apy |-> apy, status |-> status, withdrawn |-> withdrawn,
     opened |-> opened, updated |-> updated]

Event(seq, position, type, at, amount, vault) ==
    [seq |-> seq, position |-> position, type |-> type, at |-> at, amount |-> amount,
     apy |-> Null, vault |-> vault]

MCHolding == {<<n1, a1>>, <<n2, a1>>, <<n2, a2>>}

MCVaultAsset == v1 :> a1 @@ v2 :> a2

MCPositions ==
    {Pos(1, u1, p1, a1, v1, 100, 1, "active", 0, -1, -1),
     Pos(2, u2, p1, a2, v2, 100, 12, "active", 0, 0, 0),
     Pos(3, u1, p2, a1, gone, 100, 30, "active", 40, -2, 0),
     Pos(4, u1, p1, a1, v1, 50, 60, "closed", 0, -3, -1)}

MCEvents ==
    {Event(1, 1, "deposit", -1, 100, v1), Event(2, 2, "deposit", 0, 100, v2),
     Event(3, 3, "deposit", -2, 140, gone), Event(4, 3, "withdraw", 0, 40, gone),
     Event(5, 4, "deposit", -3, 50, v1), Event(6, 3, "rebalance", -1, 0, v1)}

=============================================================================
