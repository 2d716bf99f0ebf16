---------------------------- MODULE RateHistory ----------------------------
(***************************************************************************)
(* The hourly recorder of vault rates (analytics/apy-snapshot.service.ts)  *)
(* in every instance of the service, and the table it fills, from which    *)
(* Analytics computes.  Instances come and go, each seeds the vaults of    *)
(* its build first (store.service.ts), records at once and then on a timer *)
(* that is re-armed when it fires, as late as that may be.  Several        *)
(* instances share the table; the first row of a vault and an hour stays.  *)
(*                                                                         *)
(* A statement is one step.  Deployments that switch the recorder off      *)
(* (APY_SNAPSHOTS=false) are left out.                                     *)
(***************************************************************************)
EXTENDS Analytics

CONSTANTS
    Instance,
    Build,                  \* build -> the vaults of its fixture
    Unseeded,               \* a boot with DB_SEED=false
    Positions, Events, Partners,
    Share,                  \* of the partners in the protocol's fees, in hundredths
    Lag,                    \* a timer and a recording are late by at most this
    MaxTime, MaxBoots, MaxFails     \* bounds

Builds == DOMAIN Build
VaultRows == UNION {Build[b] : b \in Builds}

ASSUME BuildAssumption ==
    /\ Builds # {} /\ IsFiniteSet(Builds) /\ \A b \in Builds : b # Unseeded
    /\ \A b \in Builds :
          IsFiniteSet(Build[b]) /\ \A v, w \in Build[b] : v.id = w.id => v = w
ASSUME VaultAssumption ==   \* a vault keeps its asset and its place in the table
    /\ \A v \in VaultRows : IsVault(v)
    /\ \A v, w \in VaultRows : v.id = w.id => v.asset = w.asset /\ v.seq = w.seq
ASSUME BookAssumption ==
    /\ IsTable(Positions) /\ \A p \in Positions : IsPosition(p)
    /\ IsTable(Events) /\ \A e \in Events : IsEvent(e)
ASSUME SeedAssumption ==    \* a position opens with a deposit that names a vault, and goes on from there
    \A p \in Positions :
        /\ p.principal > 0
        /\ \A e, f \in Routing(Events, p) : e.seq < f.seq => e.at <= f.at
        /\ \A e \in Routing(Events, p) : (\A f \in Routing(Events, p) : e.seq <= f.seq) =>
              e.type = "deposit" /\ e.vault # Null
ASSUME ShareAssumption == Share \in 0 .. 100
ASSUME LagAssumption == Lag \in Nat /\ 2 * Lag <= Hour
ASSUME BoundAssumption == {MaxTime, MaxBoots, MaxFails} \subseteq Nat

VARIABLES
    now, vaults, snaps, inst, boots, fails,
    held        \* history: <<tick, table>>, what the table of vaults was during a tick

vars == <<now, vaults, snaps, inst, boots, fails, held>>

(* `at` is when the step in progress began; `clean` is history: when the     *)
(* instance came up or last failed to record.                                *)
Down == [pc |-> "down", build |-> Unseeded, at |-> 0, rows |-> {},
         next |-> Null, armed |-> FALSE, clean |-> 0]

ActiveOf(vs) == {v \in vs : v.status = "active"}
ActiveVaults == ActiveOf(vaults)

Init ==
    /\ now = 0
    /\ vaults = {}
    /\ snaps = {}
    /\ inst = [i \in Instance |-> Down]
    /\ boots = 0 /\ fails = 0
    /\ held = {}

-----------------------------------------------------------------------------
(* Booting: the fixture's vaults are written, then the others are dropped.   *)

Boot(i) ==
    /\ inst[i].pc = "down" /\ boots < MaxBoots
    /\ boots' = boots + 1
    /\ \E b \in Builds \cup {Unseeded} :
          inst' = [inst EXCEPT ![i] = [Down EXCEPT !.pc = IF b = Unseeded THEN "select" ELSE "save",
                                                   !.build = b, !.at = now, !.clean = now]]
    /\ UNCHANGED <<now, vaults, snaps, fails, held>>

Seeded(rows) == vaults' = rows /\ held' = held \cup {<<now, rows>>}

SaveVaults(i) ==
    /\ inst[i].pc = "save"
    /\ LET fixture == Build[inst[i].build]
       IN  Seeded({v \in vaults : \A f \in fixture : f.id # v.id} \cup fixture)
    /\ inst' = [inst EXCEPT ![i].pc = "drop"]
    /\ UNCHANGED <<now, snaps, boots, fails>>

DropStaleVaults(i) ==
    /\ inst[i].pc = "drop"
    /\ Seeded({v \in vaults : \E f \in Build[inst[i].build] : f.id = v.id})
    /\ inst' = [inst EXCEPT ![i].pc = "select", ![i].at = now, ![i].clean = now]
    /\ UNCHANGED <<now, snaps, boots, fails>>

-----------------------------------------------------------------------------
(* Recording.                                                                *)

(* Wrong: a first recording that fails leaves the timer unset.               *)
RestIfRecorded(i, failed) ==
    inst' = [inst EXCEPT ![i] = [@ EXCEPT
                !.pc = "up", !.rows = {},
                !.armed = @ \/ ~failed,
                !.next = IF inst[i].armed \/ failed THEN @ ELSE now + Hour,
                !.clean = IF failed THEN now ELSE @]]

(* The first recording, failed or not, is followed by the timer.             *)
Rest(i, failed) ==
    inst' = [inst EXCEPT ![i] = [@ EXCEPT
                !.pc = "up", !.rows = {},
                !.armed = TRUE,
                !.next = IF inst[i].armed THEN inst[i].next ELSE now + Hour,
                !.clean = IF failed THEN now ELSE inst[i].clean]]

(* Wrong: the bucket is the time itself.                                     *)
HourBucketExact(at) == at

HourBucket(at) == at \div Hour

(* The row of vault `v` in a recording that began at `at`.                   *)
RateRow(v, at) ==
    [vault |-> v.id, bucket |-> HourBucket(at), asset |-> v.asset,
     apy |-> v.apy, alloc |-> v.alloc, at |-> at]

(* Wrong: the rates are those the instance was booted with.                  *)
SelectFixture(i) ==
    /\ inst[i].pc = "select"
    /\ LET known == IF inst[i].build = Unseeded THEN vaults ELSE Build[inst[i].build]
       IN  inst' = [inst EXCEPT ![i].pc = "insert",
              ![i].rows = {RateRow(v, inst[i].at) : v \in {v \in known : v.status = "active"}}]
    /\ UNCHANGED <<now, vaults, snaps, boots, fails, held>>

Select(i) ==
    /\ inst[i].pc = "select"
    /\ IF ActiveVaults = {}
       THEN Rest(i, TRUE)
       ELSE inst' = [inst EXCEPT ![i].pc = "insert",
                ![i].rows = {RateRow(v, inst[i].at) : v \in ActiveVaults}]
    /\ UNCHANGED <<now, vaults, snaps, boots, fails, held>>

SameHour(r, s) == r.vault = s.vault /\ r.bucket = s.bucket

(* Wrong: the table has no key.                                              *)
InsertAlways(i) ==
    /\ inst[i].pc = "insert"
    /\ snaps' = snaps \cup inst[i].rows
    /\ Rest(i, FALSE)
    /\ UNCHANGED <<now, vaults, boots, fails, held>>

(* Rows whose vault and hour are there already are ignored, one by one.      *)
Insert(i) ==
    /\ inst[i].pc = "insert"
    /\ snaps' = snaps \cup {r \in inst[i].rows : \A s \in snaps : ~SameHour(r, s)}
    /\ Rest(i, FALSE)
    /\ UNCHANGED <<now, vaults, boots, fails, held>>

RecordFails(i) ==
    /\ inst[i].pc \in {"select", "insert"} /\ fails < MaxFails
    /\ fails' = fails + 1
    /\ Rest(i, TRUE)
    /\ UNCHANGED <<now, vaults, snaps, boots, held>>

(* setInterval: the next firing is an hour after this one.                   *)
Fire(i) ==
    /\ inst[i].pc = "up" /\ inst[i].armed /\ now >= inst[i].next
    /\ inst' = [inst EXCEPT ![i] = [@ EXCEPT !.pc = "select", !.at = now, !.next = now + Hour]]
    /\ UNCHANGED <<now, vaults, snaps, boots, fails, held>>

(* The process ends, whatever it was doing.                                  *)
Kill(i) ==
    /\ inst[i].pc # "down"
    /\ inst' = [inst EXCEPT ![i] = Down]
    /\ UNCHANGED <<now, vaults, snaps, boots, fails, held>>

-----------------------------------------------------------------------------
Tick ==
    /\ now < MaxTime     \* bounds: nothing is later than Lag, and seeding takes no time
    /\ \A i \in Instance :
          /\ inst[i].pc \notin {"save", "drop"}
          /\ inst[i].pc \notin {"down", "up"} => now - inst[i].at < Lag
          /\ (inst[i].pc = "up" /\ inst[i].armed) => now - inst[i].next < Lag
    /\ now' = now + 1
    /\ held' = held \cup {<<now + 1, vaults>>}
    /\ UNCHANGED <<vaults, snaps, inst, boots, fails>>

Next ==
    \/ \E i \in Instance :
          \/ Boot(i) \/ SaveVaults(i) \/ DropStaleVaults(i)
          \/ Select(i) \/ Insert(i) \/ RecordFails(i) \/ Fire(i) \/ Kill(i)
    \/ Tick

Spec == Init /\ [][Next]_vars

-----------------------------------------------------------------------------
Times == 0 .. MaxTime

Snapshot == [vault : {v.id : v \in VaultRows}, bucket : 0 .. MaxTime \div Hour,
             asset : {v.asset : v \in VaultRows}, apy : Nat, alloc : Nat, at : Times]

InstanceRecord == [pc : {"down", "save", "drop", "select", "insert", "up"},
                   build : Builds \cup {Unseeded}, at : Times, rows : SUBSET Snapshot,
                   next : 0 .. MaxTime + Hour \cup {Null}, armed : BOOLEAN, clean : Times]

(* The answers, as analytics/dto/output.dto.ts declares them.                *)
Ids == {v.id : v \in VaultRows}
Assets == {v.asset : v \in VaultRows}
Regimes == {"rising", "falling", "volatile", "stable", "unknown"}
Advice == {"overweight", "neutral", "underweight"}
Optional(S) == S \cup {Null}
OfPositions == {p.seq : p \in Positions}

SignalDto ==
    [vault : Ids, seq : Nat, asset : Assets, apy : Nat, volatility : Optional(Nat),
     slope : Optional(Int), forecast : Optional(0 .. 3000), risk_adjusted : Int,
     observations : Nat, insufficient : BOOLEAN, rank : Nat \ {0}, recommendation : Advice]

RegimePerAssetDto ==
    [asset : Assets, regime : Regimes, blend : Optional(Nat), observations : Nat,
     slope : Optional(Int), volatility : Optional(Nat)]

UpliftRowDto ==
    [position : OfPositions, principal : Nat, current : Nat, base_apy : Optional(Nat),
     base : Optional(Nat), hold : Nat, uplift : Optional(Int), uplift_vs_hold : Int,
     projected : Optional(Int)]

UpliftTotalsDto ==
    [positions : SUBSET UpliftRowDto, principal : Nat, current : Nat, base : Nat, hold : Nat,
     uplift : Int, uplift_vs_hold : Int, pct : Int, coverage : 0 .. 10000]

Places == {e.vault : e \in Events} \cup {p.vault : p \in Positions}

DecisionDto ==
    [id : {e.seq : e \in Events}, position : OfPositions, at : Int,
     type : {"initial_routing", "rebalance"}, from : Optional(Places), to : Places,
     apy_before : Optional(Nat), apy_after : Optional(Nat), uplift_bps : Optional(Int),
     alternatives : SUBSET Ids]

AdvisorOpportunityDto ==
    [vault : Ids, asset : Assets, risk_adjusted : Int, forecast : Optional(0 .. 3000),
     recommendation : Advice]

AdvisorPortfolioDto == [current : Nat, uplift : Int, pct : Int, positions : Nat]

AdvisorDto ==
    [headline : {"no_baseline", "beating", "trailing"}, regime : Regimes, rebalances : Nat,
     thin : Nat, top_opportunities : SUBSET AdvisorOpportunityDto, portfolio : AdvisorPortfolioDto]

VaultDto ==
    [vault : Ids, asset : Assets, tier : {v.tier : v \in VaultRows}, alloc : Nat,
     status : {"active", "paused"}, apy : Nat, week : Optional(Nat), month : Optional(Nat)]

TvlBreakdownDto == [asset : {p.asset : p \in Positions}, tvl : Nat, positions : Nat \ {0}]

PartnerSummaryOutputDto ==
    [deposits : Nat, count : Nat, tvl : Nat, breakdown : SUBSET TvlBreakdownDto, yield : Nat,
     revenue : Nat]

RevenueShareOutputDto == [yield : Nat, fees : Nat, partner : Nat]

(* What is withheld is withheld together.                                    *)
Withheld(s) == s.insufficient => {s.volatility, s.slope, s.forecast} = {Null}

(* What the book comes to depends on the time and on the table of vaults.    *)
Tables == {vs \in SUBSET VaultRows : \A v, w \in vs : v.id = w.id => v = w}

Book == {[at |-> t, partner |-> partner, vaults |-> vs,
          summary |-> Summary(Positions, partner, t, BlendApy(ActiveOf(vs)), Share),
          revenue |-> RevenueShare(Positions, partner, t, BlendApy(ActiveOf(vs)), Share),
          uplift |-> Uplift(Positions, Events, vs, PartnerScope(partner), t),
          decisions |-> Decisions(Positions, Events, vs, PartnerScope(partner))]
            : partner \in Partners, vs \in Tables, t \in Times}

Shaped(b) ==
    /\ b.summary \in PartnerSummaryOutputDto /\ b.revenue \in RevenueShareOutputDto
    /\ b.uplift \in UpliftTotalsDto /\ b.decisions \subseteq DecisionDto

BookShaped == Book = {b \in Book : Shaped(b)}

Answers(partner) ==
    LET signals == Signals(vaults, snaps, Null, now)
        perAsset == PerAsset(vaults, snaps, Null, now)
        book == CHOOSE b \in Book : b.at = now /\ b.partner = partner /\ b.vaults = vaults
    IN  /\ signals \subseteq SignalDto /\ \A s \in signals : Withheld(s)
        /\ perAsset \subseteq RegimePerAssetDto
        /\ VaultList(vaults, snaps, Null, now) \subseteq VaultDto
        /\ Advisor(perAsset, signals, book.uplift, book.decisions) \in AdvisorDto

(* The variables have the shapes of the table, the instances and the vaults; *)
(* what is answered of them has the shape that is documented.                *)
TypeOK ==
    /\ now \in Times /\ boots \in 0 .. MaxBoots /\ fails \in 0 .. MaxFails
    /\ vaults \subseteq VaultRows /\ snaps \subseteq Snapshot
    /\ inst \in [Instance -> InstanceRecord] /\ held \subseteq Times \X SUBSET VaultRows
    /\ BookShaped /\ \A partner \in Partners : Answers(partner)

(* The vaults that were in the table during a tick.                          *)
Had == UNION {{<<h[1], v>> : v \in h[2]} : h \in held}

(* Every recorded rate is one that the vault had when the row says, or       *)
(* within the time a recording takes, whatever instances, builds and crashes *)
(* overlapped: "what was actually observed"                                  *)
(* (vault-apy-snapshot.entity.ts:9, apy-snapshot.service.ts:69-91).          *)
RowsAreObservations ==
    \A r \in snaps : \E h \in Had :
        /\ h[1] >= r.at /\ h[1] <= r.at + Lag
        /\ h[2].id = r.vault /\ h[2].apy = r.apy /\ h[2].alloc = r.alloc
        /\ h[2].status = "active"

(* While an instance is up, and no recording of it failed or found nothing,  *)
(* no two whole hours in a row go without a row.  One hour may: a timer that *)
(* is late drifts over the boundary (apy-snapshot.service.ts:57-59).         *)
HourCovered ==
    \A i \in Instance, h \in 0 .. MaxTime \div Hour :
        (inst[i].pc \notin {"down", "save", "drop"} /\ inst[i].clean <= h * Hour
           /\ now > (h + 2) * Hour + Lag)
        => \E r \in snaps : r.bucket \in {h, h + 1}

(* The endpoints that show a vault's week or month agree, show nothing if    *)
(* and only if nothing was recorded, and show no rate outside of what the    *)
(* vault had meanwhile; nor does a point of the yield curve                  *)
(* (vaults.service.ts:41-118, yield.service.ts:65-124).                      *)
Rates(Held(_)) == {h[2].apy : h \in {h \in Had : Held(h)}}

Within(apy, rates) == apy >= Min(rates) /\ apy <= Max(rates)

AveragesHonest ==
    /\ \A row \in VaultList(vaults, snaps, Null, now) :
          LET v == CHOOSE v \in vaults : v.id = row.vault
              inWeek(h) == h[1] >= now - Week /\ h[2].id = v.id
          IN  /\ row.week = ApyHistory(snaps, v, Week, now)
              /\ row.month = ApyHistory(snaps, v, Month, now)
              /\ v.status = "active" =>
                    [vault |-> v.id, avg |-> row.week]
                        \in YieldHistory(vaults, snaps, v.asset, now).breakdown
              /\ row.week = Null <=> \A r \in snaps : r.vault = v.id => r.at < now - Week
              /\ row.week # Null => Within(row.week, Rates(inWeek))
    /\ \A asset \in {v.asset : v \in ActiveVaults} :
          \A p \in YieldHistory(vaults, snaps, asset, now).history :
              LET onDay(h) == h[1] >= p.day * Day /\ h[1] < (p.day + 1) * Day + Lag
                                /\ h[2].asset = asset
              IN  Within(p.apy, Rates(onDay))

(* A trend and a volatility are only ever shown of a vault that was observed *)
(* in as many different hours as the model asks for, also when instances     *)
(* record side by side (analytics.service.ts:130-140,                        *)
(* vault-apy-snapshot.entity.ts:11).                                         *)
SignalsRestOnHours ==
    \A s \in Signals(vaults, snaps, Null, now) :
        ~s.insufficient =>
            Cardinality({r.at \div Hour : r \in {r \in snaps : r.vault = s.vault}}) >= MinObservations

(* As long as the table of vaults stands still, over the window and the hour *)
(* it starts in, no trend is made up: every asset is stable or unknown, and  *)
(* what is shown of it and of every vault is flat                            *)
(* (analytics.service.ts:122-221).                                           *)
Still == \A h \in held : h[1] >= HourBucket(now - Month) * Hour => h[2] \in {{}, vaults}

SteadyRatesAreStable ==
    Still =>
        /\ \A r \in PerAsset(vaults, snaps, Null, now) :
              r.regime \in {"stable", "unknown"} /\ {r.slope, r.volatility} \subseteq {0, Null}
        /\ \A s \in Signals(vaults, snaps, Null, now) :
              ~s.insufficient => s.volatility = 0 /\ s.slope = 0

(* The decisions on a position begin where holding is measured from, and     *)
(* after a deposit that was not topped up their gains add up to the          *)
(* difference the rate has made (analytics.service.ts:250-265, 363-408).     *)
DecisionsExplain(p, decisions) ==
    LET ds == {d \in decisions : d.position = p.seq}
        moves == {d \in ds : d.type = "rebalance"}
        first == CHOOSE d \in ds : \A e \in ds : d.at < e.at \/ (d.at = e.at /\ d.id <= e.id)
        last  == CHOOSE d \in ds : \A e \in ds : d.at > e.at \/ (d.at = e.at /\ d.id >= e.id)
    IN  ds # {} =>
        /\ first.to = Origin(Events, p)
        /\ (Cardinality(ds) = Cardinality(moves) + 1 /\ \A d \in ds : d.apy_after # Null) =>
              Total(LAMBDA d : d.uplift_bps, moves) = last.apy_after - first.apy_after

(* The same positions are worth the same: by the code, deposits are of open  *)
(* positions and TVL is with what has accrued (attribution.service.ts:103,   *)
(* 140-147), against QA-TESTING-GUIDE.md:340 and :347.                       *)
WorthTheSame(up, summary) ==
    /\ up.current = summary.tvl /\ Portfolio(up).current = summary.tvl
    /\ up.principal = summary.deposits /\ up.current - up.principal <= summary.yield

(* The totals and the headline are those of the rows.                        *)
RowsAddUp(up) ==
    LET based == {r \in up.positions : r.base # Null}
        gain == Total(LAMBDA r : r.uplift, based)
    IN  /\ up.uplift = gain
        /\ up.uplift_vs_hold = Total(LAMBDA r : r.uplift_vs_hold, up.positions)
        /\ up.coverage = 0 <=> (based = {} \/ 20000 * Cardinality(based) < Cardinality(up.positions))
        /\ Headline(up) = CASE based = {} -> "no_baseline"
                             [] based # {} /\ gain >= 0 -> "beating"
                             [] OTHER -> "trailing"

(* A position that stayed, at the rate it has, is its own hold.              *)
StayingIsHolding(up, vs) ==
    \A r \in up.positions : \A p \in Positions, v \in vs :
        (p.seq = r.position /\ v.id = p.vault /\ v.apy = p.apy
           /\ \A e \in Events : e.position = p.seq => e.vault = p.vault)
        => r.uplift_vs_hold = 0

RevenueIsAShare(revenue, summary) ==
    /\ revenue.partner = summary.revenue
    /\ revenue.partner <= revenue.fees /\ revenue.fees <= revenue.yield

BookAddsUp(b) ==
    /\ WorthTheSame(b.uplift, b.summary) /\ RowsAddUp(b.uplift)
    /\ StayingIsHolding(b.uplift, b.vaults) /\ RevenueIsAShare(b.revenue, b.summary)
    /\ \A p \in InScope(Positions, PartnerScope(b.partner)) : DecisionsExplain(p, b.decisions)

AddUp == {<<b.at, b.partner, b.vaults>> : b \in {b \in Book : BookAddsUp(b)}}

(* Under every build's rates, a partner's positions are worth the same on    *)
(* /analytics/uplift and in the advisor as in the partner's summary, the     *)
(* rows of both comparisons add up to the totals, and the decisions on them  *)
(* add up to the rates.  The advisor has a headline of the comparison if and *)
(* only if some position has a baseline, and the sign is the one of its      *)
(* rows; no coverage is shown if and only if less than one position in 20000 *)
(* has.  A position that was never moved, from a vault whose rate is what it *)
(* was, gains nothing over holding (analytics.service.ts:235-331, 413-479,   *)
(* attribution.service.ts:136-151).                                          *)
UpliftAddsUp == \A partner \in Partners : <<now, partner, vaults>> \in AddUp

=============================================================================
