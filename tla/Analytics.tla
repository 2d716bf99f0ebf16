----------------------------- MODULE Analytics -----------------------------
(***************************************************************************)
(* What the service reads out of the recorded rates (`vault_apy_snapshots`) *)
(* and out of the positions of a scope: trailing averages                  *)
(* (vaults.service.ts), the yield curve of an asset (yield.service.ts),    *)
(* signals, regime, uplift and decisions (analytics.service.ts) and the    *)
(* revenue of a partner (revenue.service.ts).  Rates are whole basis       *)
(* points, times are ticks; a blend is rounded to a basis point.           *)
(*                                                                         *)
(* Vaults: [id, seq, asset, provider, apy, alloc, tier, status].           *)
(* Snapshots: [vault, bucket, asset, apy, alloc, at].                      *)
(***************************************************************************)
EXTENDS Accounting

CONSTANTS
    Hour, Day, Week, Month,     \* in ticks
    BaselineProvider

(* Opportunities that the advisor shows.                                     *)
Shown == 3

ASSUME WindowAssumption ==
    /\ Hour \in Nat \ {0} /\ Day \in Nat \ {0}
    /\ Week \in Nat /\ Month \in Nat /\ Week <= Month

MinObservations == 3

IsVault(v) ==
    /\ {v.seq, v.apy, v.alloc} \subseteq Nat /\ v.status \in {"active", "paused"}
    /\ Null \notin {v.id, v.asset}

-----------------------------------------------------------------------------
(* Averages and blends.                                                      *)

History(snaps, since) == {r \in snaps : r.at >= since}

OfVault(rows, v) == {r \in rows : r.vault = v.id}

Mean(rows) ==
    IF rows = {} THEN Null ELSE Round(Total(LAMBDA r : r.apy, rows), Cardinality(rows))

(* Unallocated rows count with weight one.                                   *)
Weight(r) == IF r.alloc > 0 THEN r.alloc ELSE 1

Blend(rows) == Round(Total(LAMBDA r : r.apy * Weight(r), rows), Total(Weight, rows))

(* Of the vaults as they are now: by allocation, or evenly if nothing is.    *)
BlendApy(vs) ==
    LET allocated == Total(LAMBDA v : v.alloc, vs)
    IN  IF vs = {} THEN 0
        ELSE IF allocated > 0 THEN Round(Total(LAMBDA v : v.apy * v.alloc, vs), allocated)
        ELSE Round(Total(LAMBDA v : v.apy, vs), Cardinality(vs))

(* /vaults: one query for the longest window, then a cut for each.           *)
(* Wrong: the cut is left out.                                               *)
TrailingAverageUncut(snaps, v, window, as_of) == Mean(OfVault(History(snaps, as_of - Month), v))

TrailingAverage(snaps, v, window, as_of) ==
    Mean({r \in OfVault(History(snaps, as_of - Month), v) : r.at >= as_of - window})

(* Every vault, the paused ones too.                                         *)
VaultList(vs, snaps, asset, as_of) ==
    {[vault |-> v.id, asset |-> v.asset, tier |-> v.tier, status |-> v.status,
      alloc |-> v.alloc, apy |-> v.apy, week |-> TrailingAverage(snaps, v, Week, as_of),
      month |-> TrailingAverage(snaps, v, Month, as_of)]
        : v \in {v \in vs : Matches(v.asset, asset)}}

(* /vaults/:id/apy-history                                                   *)
ApyHistory(snaps, v, window, as_of) == Mean(OfVault(History(snaps, as_of - window), v))

(* /yield/:asset: one point a day, and the week's average of every vault.    *)
YieldHistory(vs, snaps, asset, as_of) ==
    LET vaults == {v \in vs : v.asset = asset /\ v.status = "active"}
        rows == {r \in History(snaps, as_of - Month) : r.asset = asset}
        On(d) == {r \in rows : r.at \div Day = d}
        days == {r.at \div Day : r \in rows}
    IN  [history |-> {[day |-> d, apy |-> Blend(On(d))] : d \in days},
         blend   |-> IF days = {} THEN BlendApy(vaults) ELSE Blend(On(Max(days))),
         breakdown |-> {[vault |-> v.id,
                         avg |-> Mean({r \in OfVault(rows, v) : r.at >= as_of - Week})]
                           : v \in vaults}]

-----------------------------------------------------------------------------
(* Series of rates: sets of [at, apy], one point at a time.                  *)

Index(s, p) == Cardinality({q \in s : q.at < p.at})

(* The least-squares slope per step is Rise / Run.                           *)
Rise(s) == 6 * Total(LAMBDA p : (2 * Index(s, p) - (Cardinality(s) - 1)) * p.apy, s)
Run(s)  == LET n == Cardinality(s) IN n * (n * n - 1)

(* The sample variance is Spread / Pairs.                                    *)
Spread(s) ==
    LET sum == Total(LAMBDA p : p.apy, s)
    IN  Cardinality(s) * Total(LAMBDA p : p.apy * p.apy, s) - sum * sum
Pairs(s) == Cardinality(s) * (Cardinality(s) - 1)

(* The standard deviation, to the nearest basis point.                       *)
Volatility(s) ==
    LET spread == Spread(s)
        pairs == Pairs(s)
    IN  CHOOSE d \in 0 .. Max({p.apy : p \in s}) :
            /\ (2 * d + 1) * (2 * d + 1) * pairs > 4 * spread
            /\ d = 0 \/ (2 * d - 1) * (2 * d - 1) * pairs <= 4 * spread

Enough(s) == Cardinality(s) >= MinObservations

Last(s) == CHOOSE p \in s : \A q \in s : q.at <= p.at

(* What the latest rate comes to in seven days, within 0 and 30 %.           *)
Forecast(s) ==
    Min({3000, Max({0, Round(Last(s).apy * Run(s) + 7 * 24 * Rise(s), Run(s))})})

RiskFactor(tier) ==
    CASE tier = "bluechip" -> 100 [] tier = "core" -> 92
      [] tier = "opportunistic" -> 82 [] OTHER -> 90

Series(snaps, v, as_of) ==
    {[at |-> r.at, apy |-> r.apy] : r \in OfVault(History(snaps, as_of - Month), v)}

Signal(snaps, v, as_of) ==
    LET s == Series(snaps, v, as_of)
        volatility == IF Enough(s) THEN Volatility(s) ELSE 0
    IN  [vault |-> v.id, seq |-> v.seq, asset |-> v.asset, apy |-> v.apy,
         observations |-> Cardinality(s), insufficient |-> ~Enough(s),
         volatility |-> IF Enough(s) THEN volatility ELSE Null,
         slope      |-> IF Enough(s) THEN Round(24 * Rise(s), Run(s)) ELSE Null,
         forecast   |-> IF Enough(s) THEN Forecast(s) ELSE Null,
         risk_adjusted |-> Round(2 * v.apy * RiskFactor(v.tier) - 100 * volatility, 200)]

(* The best first; equals stay in the order of the table.                    *)
Rank(row, rows) ==
    1 + Cardinality({r \in rows : \/ r.risk_adjusted > row.risk_adjusted
                                  \/ r.risk_adjusted = row.risk_adjusted /\ r.seq < row.seq})

Recommendation(rank, rows) ==
    CASE rank = 1 -> "overweight" [] rank > 1 /\ rank = Cardinality(rows) -> "underweight"
      [] OTHER -> "neutral"

Ranked(row, rows) ==
    LET rank == Rank(row, rows)
    IN  [x \in DOMAIN row \cup {"rank", "recommendation"} |->
            CASE x = "rank" -> rank
              [] x = "recommendation" -> Recommendation(rank, rows)
              [] OTHER -> row[x]]

Signals(vs, snaps, asset, as_of) ==
    LET rows == {Signal(snaps, v, as_of)
                    : v \in {v \in vs : v.status = "active" /\ Matches(v.asset, asset)}}
    IN  {Ranked(r, rows) : r \in rows}

ClassifyRegime(s) ==
    IF Spread(s) > 35 * 35 * Pairs(s) THEN "volatile"
    ELSE IF 2 * 24 * Rise(s) > Run(s) THEN "rising"
    ELSE IF -2 * 24 * Rise(s) > Run(s) THEN "falling"
    ELSE "stable"

(* Wrong: the vaults' rates are lined up instead of blended.                 *)
BlendedNever(vs, snaps, asset, as_of) ==
    LET rows == {r \in History(snaps, as_of - Month) :
                    \E v \in vs : v.id = r.vault /\ v.asset = asset /\ v.status = "active"}
    IN  {[at |-> r.at, apy |-> r.apy] : r \in rows}

(* The blend of an asset's vaults at every time something was recorded.      *)
Blended(vs, snaps, asset, as_of) ==
    LET rows == {r \in History(snaps, as_of - Month) :
                    \E v \in vs : v.id = r.vault /\ v.asset = asset /\ v.status = "active"}
        At(t) == {r \in rows : r.at = t}
    IN  {[at |-> t, apy |-> Blend(At(t))] : t \in {r.at : r \in rows}}

RegimeOf(vs, snaps, asset, as_of) ==
    LET s == Blended(vs, snaps, asset, as_of)
    IN  [asset |-> asset, observations |-> Cardinality(s),
         regime |-> IF Enough(s) THEN ClassifyRegime(s) ELSE "unknown",
         blend |-> IF s = {} THEN Null ELSE Last(s).apy,
         slope |-> IF Enough(s) THEN Round(24 * Rise(s), Run(s)) ELSE Null,
         volatility |-> IF Enough(s) THEN Volatility(s) ELSE Null]

PerAsset(vs, snaps, asset, as_of) ==
    {RegimeOf(vs, snaps, a, as_of)
        : a \in {v.asset : v \in {v \in vs : v.status = "active" /\ Matches(v.asset, asset)}}}

(* The most cautious regime of the assets in scope.                          *)
Overall(perAsset) ==
    LET regimes == {r.regime : r \in perAsset}
    IN  CASE "volatile" \in regimes -> "volatile" [] "falling" \in regimes -> "falling"
          [] "rising" \in regimes -> "rising" [] "stable" \in regimes -> "stable"
          [] OTHER -> "unknown"

-----------------------------------------------------------------------------
(* Uplift: what positions are worth against two ways not to route them.      *)

(* The rate of the baseline venue of an asset, the last row's if several.    *)
BaselineApy(vs, asset) ==
    LET venues == {v \in vs : v.provider = BaselineProvider /\ v.status = "active" /\ v.asset = asset}
    IN  IF venues = {} THEN Null ELSE (CHOOSE v \in venues : \A w \in venues : w.seq <= v.seq).apy

(* The vault of the first deposit that names one, or the position's.         *)
Origin(evs, p) ==
    LET deposits == {e \in evs : e.type = "deposit" /\ e.position = p.seq /\ e.vault # Null}
    IN  IF deposits = {} THEN p.vault
        ELSE (CHOOSE e \in deposits : \A f \in deposits : e.seq <= f.seq).vault

HoldApy(vs, evs, p) ==
    LET origin == {v \in vs : v.id = Origin(evs, p)}
    IN  IF origin = {} THEN p.apy ELSE (CHOOSE v \in origin : TRUE).apy

UpliftRow(vs, evs, p, as_of) ==
    LET apy  == BaselineApy(vs, p.asset)
        base == IF apy = Null THEN Null ELSE BaselineValue(p.principal, apy, Elapsed(p, as_of))
        hold == BaselineValue(p.principal, HoldApy(vs, evs, p), Elapsed(p, as_of))
    IN  [position |-> p.seq, principal |-> p.principal, current |-> Value(p, as_of),
         base_apy |-> apy, base |-> base, hold |-> hold,
         uplift |-> IF base = Null THEN Null ELSE Value(p, as_of) - base,
         uplift_vs_hold |-> Value(p, as_of) - hold,
         projected |-> IF apy = Null THEN Null ELSE Round(p.principal * (p.apy - apy), 10000)]

(* Wrong: positions without a baseline count on one side.                    *)
BaselineCoveredAll(rows) == Total(LAMBDA r : r.current, rows)

(* What the positions with a baseline are worth.                             *)
BaselineCovered(rows) == Total(LAMBDA r : r.current, {r \in rows : r.base # Null})

(* Positions without a baseline are left out of both sides of the difference; *)
(* pct and coverage are in hundredths of a percent.                          *)
Uplift(ps, evs, vs, scope, as_of) ==
    LET rows == {UpliftRow(vs, evs, p, as_of) : p \in Active(InScope(ps, scope))}
        based == {r \in rows : r.base # Null}
        current == Total(LAMBDA r : r.current, rows)
        base == Total(LAMBDA r : r.base, based)
        hold == Total(LAMBDA r : r.hold, rows)
        gain == BaselineCovered(rows) - base
    IN  [positions |-> rows,
         principal |-> Total(LAMBDA r : r.principal, rows), current |-> current,
         base |-> base, hold |-> hold, uplift |-> gain, uplift_vs_hold |-> current - hold,
         pct |-> IF base > 0 THEN Round(gain * 10000, base) ELSE 0,
         coverage |-> IF rows = {} THEN 0
                      ELSE Round(10000 * Cardinality(based), Cardinality(rows))]

-----------------------------------------------------------------------------
(* Decisions: the routing of every deposit, and every rebalance, with the    *)
(* vault and the rate the position had before.                               *)

Routing(evs, p) == {e \in evs : e.position = p.seq /\ e.type \in {"deposit", "rebalance"}}

ToVault(p, e) == IF e.vault # Null THEN e.vault ELSE p.vault

Latest(events) == CHOOSE e \in events : \A f \in events : f = e \/ Before(f, e)

(* The venues of an asset as they are now.                                   *)
Alternatives(vs, asset) == {v.id : v \in {v \in vs : v.status = "active" /\ v.asset = asset}}

Decision(vs, evs, p, e) ==
    LET earlier == {f \in Routing(evs, p) : Before(f, e)}
        rated == {f \in earlier : f.apy # Null}
        before == IF e.type = "deposit" \/ rated = {} THEN Null ELSE Latest(rated).apy
    IN  [id |-> e.seq, position |-> p.seq, at |-> e.at,
         type |-> IF e.type = "deposit" THEN "initial_routing" ELSE "rebalance",
         from |-> IF e.type = "deposit" \/ earlier = {} THEN Null ELSE ToVault(p, Latest(earlier)),
         to |-> ToVault(p, e), apy_before |-> before, apy_after |-> e.apy,
         uplift_bps |-> IF before = Null \/ e.apy = Null THEN Null ELSE e.apy - before,
         alternatives |-> Alternatives(vs, p.asset)]

Decisions(ps, evs, vs, scope) ==
    UNION {{Decision(vs, evs, p, e) : e \in Routing(evs, p)} : p \in InScope(ps, scope)}

-----------------------------------------------------------------------------
(* The advisor puts the four together.                                       *)

Headline(up) ==
    CASE up.base = 0 -> "no_baseline" [] up.base # 0 /\ up.uplift >= 0 -> "beating"
      [] OTHER -> "trailing"

Opportunity(s) ==
    [vault |-> s.vault, asset |-> s.asset, risk_adjusted |-> s.risk_adjusted,
     forecast |-> s.forecast, recommendation |-> s.recommendation]

Portfolio(up) ==
    [current |-> up.current, uplift |-> up.uplift, pct |-> up.pct,
     positions |-> Cardinality(up.positions)]

Advisor(perAsset, signals, up, decisions) ==
    [headline   |-> Headline(up),
     regime     |-> Overall(perAsset),
     rebalances |-> Cardinality({d \in decisions : d.type = "rebalance"}),
     thin       |-> Cardinality({s \in signals : s.insufficient}),
     top_opportunities |-> {Opportunity(s) : s \in {s \in signals : s.rank <= Shown}},
     portfolio  |-> Portfolio(up)]

=============================================================================
