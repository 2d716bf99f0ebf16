----------------------------- MODULE Accounting -----------------------------
(***************************************************************************)
(* What the service computes from the rows of `positions` and              *)
(* `position_events`, as pure operators: accrual (common/accrual.ts), the  *)
(* aggregates of a partner (partner/attribution.service.ts and             *)
(* revenue.service.ts), balances, ledger and daily snapshots               *)
(* (reconciliation.service.ts), and the pages of a list (common/paged.ts). *)
(*                                                                         *)
(* Money is in cents, so that round2 of a sum of amounts is that sum.  A   *)
(* position earns principal * apy / Scale per tick; Scale is the ticks of  *)
(* a year times the units of apy.  A tick is also a day of the snapshots.  *)
(***************************************************************************)
EXTENDS Integers, FiniteSetsExt, Functions

CONSTANTS
    Null,       \* a query parameter that is absent, a cursor that ends
    Scale

ASSUME ScaleAssumption == Scale \in Nat \ {0}
ASSUME NullAssumption == Null \notin Int

(* Math.round(n / d): halves go up.                                        *)
Round(n, d) == (2 * n + d) \div (2 * d)

Total(f(_), S) == SumFunctionOnSet([x \in S |-> f(x)], S)

-----------------------------------------------------------------------------
(* Positions: [seq, user, partner, asset, vault, principal, apy, status,     *)
(* withdrawn, opened, updated]; seq is the order of the table's rows.        *)
(* Events: [seq, position, type, at, amount, apy, vault].                    *)

(* Rows with a key.                                                          *)
IsTable(rows) == IsFiniteSet(rows) /\ \A r, s \in rows : r.seq = s.seq => r = s

IsPosition(p) ==
    /\ {p.seq, p.principal, p.apy, p.withdrawn} \subseteq Nat
    /\ {p.opened, p.updated} \subseteq Int
    /\ p.status \in {"active", "closed"} /\ Null \notin {p.user, p.asset, p.vault}

IsEvent(e) ==
    /\ {e.seq, e.position, e.amount} \subseteq Nat /\ e.at \in Int
    /\ e.type \in STRING /\ e.apy \in Nat \cup {Null}


Elapsed(p, at) ==
    LET end == IF p.status = "closed" THEN p.updated ELSE at
    IN  Max({0, end - p.opened})

BaselineValue(principal, apy, elapsed) == Round(principal * (Scale + apy * elapsed), Scale)

Value(p, at) == BaselineValue(p.principal, p.apy, Elapsed(p, at))

Earned(p, at) == Value(p, at) - p.principal

Matches(field, wanted) == wanted = Null \/ field = wanted

InScope(ps, scope) ==
    {p \in ps : /\ Matches(p.partner, scope.partner) /\ Matches(p.user, scope.user)
                /\ Matches(p.seq, scope.position) /\ Matches(p.asset, scope.asset)}

PartnerScope(partner) == [partner |-> partner, user |-> Null, position |-> Null, asset |-> Null]
UserScope(user) == [PartnerScope(Null) EXCEPT !.user = user]

Active(ps) == {p \in ps : p.status = "active"}

-----------------------------------------------------------------------------
(* A partner's aggregates.                                                   *)

NetTVL(ps, partner, as_of) ==
    LET mine == Active(InScope(ps, PartnerScope(partner)))
        OfAsset(a) == {p \in mine : p.asset = a}
    IN  [tvl |-> Total(LAMBDA p : Value(p, as_of), mine),
         breakdown |-> {[asset |-> a, positions |-> Cardinality(OfAsset(a)),
                         tvl |-> Total(LAMBDA p : Value(p, as_of), OfAsset(a))]
                           : a \in {p.asset : p \in mine}}]

AttributedDeposits(ps, partner) ==
    Total(LAMBDA p : p.principal,
          {p \in InScope(ps, PartnerScope(partner)) : p.status # "closed"})

AttributedWithdrawals(ps, partner) ==
    Total(LAMBDA p : p.withdrawn + (IF p.status = "closed" THEN p.principal ELSE 0),
          InScope(ps, PartnerScope(partner)))

AttributedYield(ps, partner, as_of) ==
    Total(LAMBDA p : Earned(p, as_of), InScope(ps, PartnerScope(partner)))

(* The protocol's fee is a tenth of the yield, the partner's revenue a       *)
(* share of the fee; the blend is in basis points, share in hundredths.      *)
RevenueShare(ps, partner, as_of, blend, share) ==
    LET yield == Round(NetTVL(ps, partner, as_of).tvl * blend, 10000)
        fees  == Round(yield, 10)
    IN  [yield |-> yield, fees |-> fees, partner |-> Round(fees * share, 100)]

(* /partner/summary: every figure is read for itself.                        *)
Summary(ps, partner, as_of, blend, share) ==
    LET tvl == NetTVL(ps, partner, as_of)
    IN  [deposits |-> AttributedDeposits(ps, partner),
         count    |-> Cardinality({p \in InScope(ps, PartnerScope(partner)) : p.status # "closed"}),
         tvl |-> tvl.tvl, breakdown |-> tvl.breakdown,
         yield    |-> AttributedYield(ps, partner, as_of),
         revenue  |-> RevenueShare(ps, partner, as_of, blend, share).partner]

(* /partner/user/:id/positions, with an accrual of its own.                  *)
UserPositions(ps, user, as_of) ==
    {LET end == IF p.status = "closed" THEN p.updated ELSE as_of
         elapsed == Max({0, end - p.opened})
         current == Round(p.principal * (Scale + p.apy * elapsed), Scale)
     IN  [position |-> p.seq, status |-> p.status, current |-> current,
          accrued |-> current - p.principal]
        : p \in {p \in ps : p.user = user}}

-----------------------------------------------------------------------------
(* Balances: active positions by user and asset.                             *)

(* Wrong: closed positions still count.                                      *)
BalancesOfAll(ps, scope, as_of) ==
    LET mine == InScope(ps, scope)
        Of(k) == {p \in mine : p.user = k[1] /\ p.asset = k[2]}
    IN  {[user |-> k[1], asset |-> k[2], positions |-> Cardinality(Of(k)),
          principal |-> Total(LAMBDA p : p.principal, Of(k)),
          value     |-> Total(LAMBDA p : Value(p, as_of), Of(k)),
          accrued   |-> Total(LAMBDA p : Earned(p, as_of), Of(k))]
            : k \in {<<p.user, p.asset>> : p \in mine}}

Balances(ps, scope, as_of) ==
    LET mine == Active(InScope(ps, scope))
        Of(k) == {p \in mine : p.user = k[1] /\ p.asset = k[2]}
    IN  {[user |-> k[1], asset |-> k[2], positions |-> Cardinality(Of(k)),
          principal |-> Total(LAMBDA p : p.principal, Of(k)),
          value     |-> Total(LAMBDA p : Value(p, as_of), Of(k)),
          accrued   |-> Total(LAMBDA p : Earned(p, as_of), Of(k))]
            : k \in {<<p.user, p.asset>> : p \in mine}}

(* The snapshot of one day: every position opened by then that has principal. *)
DaySnapshot(ps, scope, day) ==
    LET open == {p \in InScope(ps, scope) : p.principal > 0 /\ p.opened <= day}
        Row(a) == LET of == {p \in open : p.asset = a}
                      principal == Total(LAMBDA p : p.principal, of)
                      value == Total(LAMBDA p : Value(p, day), of)
                  IN  [asset |-> a, principal |-> principal, value |-> value,
                       accrued |-> value - principal]
        byAsset == {Row(p.asset) : p \in open}
    IN  [principal |-> Total(LAMBDA r : r.principal, byAsset),
         value     |-> Total(LAMBDA r : r.value, byAsset),
         accrued   |-> Total(LAMBDA r : r.accrued, byAsset),
         positions |-> Cardinality(open), users |-> Cardinality({p.user : p \in open}),
         by_asset  |-> byAsset]

-----------------------------------------------------------------------------
(* The ledger.                                                               *)

Movements(p, evs) ==
    {e \in evs : e.position = p.seq /\ e.type \in {"deposit", "withdraw", "close"}}

Signed(e) == IF e.type = "deposit" THEN e.amount ELSE -e.amount

(* Stable sort by time: equal times stay in the order they were listed in.   *)
Before(e, f) == e.at < f.at \/ (e.at = f.at /\ e.seq < f.seq)

Settled(p, evs) == Total(Signed, Movements(p, evs))

(* /users/:id/ledger: the events of the user's positions, the newest first,  *)
(* as many as asked for.                                                     *)
UserLedger(ps, evs, user, limit) ==
    LET mine == {e \in evs : \E p \in ps : p.seq = e.position /\ p.user = user}
        Ahead(e) == {f \in mine : f.at > e.at \/ (f.at = e.at /\ f.seq < e.seq)}
    IN  {e \in mine : Cardinality(Ahead(e)) < limit}

MovementRow(p, evs, e) ==
    [kind |-> e.type, ref |-> e.seq, at |-> e.at, position |-> p.seq, amount |-> Signed(e),
     balance_after |-> Total(Signed, {f \in Movements(p, evs) : Before(f, e) \/ f = e}),
     settled |-> TRUE]

(* Wrong: the running balance forgets what was taken out.                    *)
AccrualRowsOnDeposits(p, evs, as_of) ==
    LET settled == Total(Signed, {e \in Movements(p, evs) : e.type = "deposit"})
        gap == Value(p, as_of) - settled
    IN  IF gap = 0 THEN {}
        ELSE {[kind |-> "accrual", ref |-> p.seq, at |-> p.updated, position |-> p.seq,
               amount |-> gap, balance_after |-> settled + gap,
               settled |-> p.status # "active"]}

(* One row per position closes the gap between what was moved and what the   *)
(* position is worth, unless there is none.                                  *)
AccrualRows(p, evs, as_of) ==
    LET gap == Value(p, as_of) - Settled(p, evs)
    IN  IF gap = 0 THEN {}
        ELSE {[kind |-> "accrual", ref |-> p.seq, at |-> p.updated, position |-> p.seq,
               amount |-> gap, balance_after |-> Settled(p, evs) + gap,
               settled |-> p.status # "active"]}

Ledger(ps, evs, scope, type, as_of) ==
    {row \in UNION {{MovementRow(p, evs, e) : e \in Movements(p, evs)}
                        \cup AccrualRows(p, evs, as_of) : p \in InScope(ps, scope)} :
        Matches(row.kind, type)}

(* Movements come first among rows of the same time.                         *)
ListedBefore(r, s) ==
    \/ r.at < s.at
    \/ r.at = s.at /\ r.kind # "accrual" /\ s.kind = "accrual"
    \/ r.at = s.at /\ (r.kind = "accrual") = (s.kind = "accrual") /\ r.ref < s.ref

Offset(r, rows) == Cardinality({s \in rows : ListedBefore(s, r)})

(* A page, and the cursor of the next one: an offset, Null when there is none. *)
Page(rows, cursor, limit) ==
    {r \in rows : Offset(r, rows) >= cursor /\ Offset(r, rows) < cursor + limit}

(* Wrong: the next page starts after the row that follows this one.          *)
NextCursorAfter(rows, cursor, limit) ==
    LET next == cursor + Cardinality(Page(rows, cursor, limit)) + 1
    IN  IF next < Cardinality(rows) THEN next ELSE Null

NextCursor(rows, cursor, limit) ==
    LET next == cursor + Cardinality(Page(rows, cursor, limit))
    IN  IF next < Cardinality(rows) THEN next ELSE Null

=============================================================================
