--------------------------- MODULE Reconciliation ---------------------------
(***************************************************************************)
(* GET /reconciliation/report (reconciliation.service.ts) and the client   *)
(* of the monitoring service it reads the chains through                   *)
(* (monitor.client.ts): a snapshot cached for Ttl, one fetch in flight     *)
(* that concurrent callers share, the networks read one after another and  *)
(* skipped when they fail.  Beside the reports, clients that follow the    *)
(* cursors of GET /reconciliation/ledger while time goes on.               *)
(*                                                                         *)
(* Positions, events and vaults are constants: only the seeding of a new   *)
(* build writes them.  What was recorded is thus a function of the time it *)
(* was computed at, which is what a call keeps of it.  The code between    *)
(* two awaits is one step: from the last SELECT of `report` to the fetch   *)
(* or the answer, and from the last network read to all the answers.       *)
(***************************************************************************)
EXTENDS Accounting

CONSTANTS
    Network, Asset, Vault,
    VaultAsset,         \* rows of `vaults`: vault -> its asset
    Positions, Events,
    Partner,
    Caller,             \* requests in progress together
    None,
    Holding,            \* the assets of each network, as pairs <<network, asset>>
    Tvl,                \* what monitoring may report; 0 also for a figure that is no number
    Opening,            \* what every network holds at first
    Query,              \* the `asset` parameters of the calls
    ToleranceBps, Ttl, Timeout,
    PageLimit,
    PagedIn,            \* bound: the modes in which clients page through the ledger,
                        \* which does not read the chains
    MaxTime, MaxMoves   \* bounds: ticks, and changes on the chains

ASSUME VaultAssumption == VaultAsset \in [Vault -> Asset]
ASSUME HoldingAssumption ==
    /\ Holding \subseteq Network \X Asset /\ Opening \in Tvl /\ Tvl \subseteq Nat
    /\ Query \subseteq Asset \cup {Null} /\ ToleranceBps \in Nat
    /\ IsFiniteSet(Holding)
ASSUME ClockAssumption ==
    /\ PageLimit \in Nat \ {0}
    /\ Ttl \in Nat \ {0} /\ Timeout \in Nat \ {0}
    /\ {MaxTime, MaxMoves} \subseteq Nat
ASSUME BookAssumption ==
    /\ IsTable(Positions) /\ \A p \in Positions : IsPosition(p) /\ p.asset \in Asset
    /\ IsTable(Events) /\ \A e \in Events : IsEvent(e)

(* What the seed writes (store.service.ts:295-314): positions of the past,   *)
(* with no movement later than the last update.  What was deposited is       *)
(* principal or was withdrawn, and what was taken out is at least the latter. *)
ASSUME SeedAssumption ==
    \A p \in Positions :
        /\ p.opened <= 0 /\ \A e \in Movements(p, Events) : e.at <= p.updated
        /\ Total(LAMBDA e : e.amount, {e \in Movements(p, Events) : e.type = "deposit"})
             = p.principal + p.withdrawn
        /\ Settled(p, Events) <= p.principal
ASSUME NoneAssumption == None \notin Caller /\ Null \notin Asset

VARIABLES
    now,
    mode,       \* environment: "none" no MONITOR_API_URL, "listed", or "fixed" by MONITOR_NETWORKS
    chain,      \* what the networks hold
    cache, flight, inFlight,
    call,
    replies,    \* the reports that the last step answered calls with
    moves

vars == <<now, mode, chain, cache, flight, inFlight, call, replies, moves>>
monitor == <<cache, flight, inFlight>>

Chain == [Holding -> Tvl]
ObservedVault == [network : Network, asset : Asset, tvl : Tvl]

(* `read` and `truth` are history: the networks that were read, and the chains *)
(* if they stood still during the fetch.                                     *)
ObservedSnapshot == [vaults : SUBSET ObservedVault, networks : SUBSET Network,
                     at : 0 .. MaxTime, read : SUBSET Network, truth : Chain \cup {None}]

ASSUME SnapshotAssumption == None \notin ObservedSnapshot

NoFlight == [pc |-> "idle", networks |-> {}, todo |-> {}, vaults |-> {}, asked |-> 0,
             read |-> {}, truth |-> None]

NoCall == [pc |-> "idle", asset |-> Null, on |-> None, taken |-> 0,
           cursor |-> 0, listed |-> {}, seen |-> {}]

Init ==
    /\ now = 0
    /\ mode \in {"none", "listed", "fixed"}
    /\ chain = [h \in Holding |-> Opening]
    /\ cache = None /\ inFlight = None
    /\ flight = [f \in Caller |-> NoFlight]
    /\ call = [c \in Caller |-> NoCall]
    /\ replies = {}
    /\ moves = 0

-----------------------------------------------------------------------------
(* The report, from the time the recorded side was computed and a snapshot.  *)

(* The vault's asset, or the position's where the vault is gone.             *)
AssetOf(p) == IF p.vault \in Vault THEN VaultAsset[p.vault] ELSE p.asset

Reported(asset) == {p \in Active(Positions) : Matches(p.asset, asset)}

Recorded(asset, taken, a) ==
    Total(LAMBDA p : Value(p, taken), {p \in Reported(asset) : AssetOf(p) = a})

(* In hundredths of a basis point.                                           *)
DiffBps(recorded, onchain) ==
    IF onchain > 0 THEN Round((recorded - onchain) * 1000000, onchain) ELSE Null

(* Wrong: the query's asset is forgotten on the observed side.               *)
ObservedVaultsOfAll(asset, snap) == snap.vaults

ObservedVaults(asset, snap) == {v \in snap.vaults : Matches(v.asset, asset)}

Breakdown(asset, taken, snap) ==
    LET seen == ObservedVaults(asset, snap)
        Row(a) == LET recorded == Recorded(asset, taken, a)
                      onchain == Total(LAMBDA v : v.tvl, {v \in seen : v.asset = a})
                  IN  [asset |-> a, recorded |-> recorded, onchain |-> onchain,
                       discrepancy |-> recorded - onchain,
                       diff_bps |-> DiffBps(recorded, onchain),
                       observed |-> \E v \in seen : v.asset = a]
    IN  {Row(a) : a \in {AssetOf(p) : p \in Reported(asset)} \cup {v.asset : v \in seen}}

Beyond(bps) == bps > 100 * ToleranceBps \/ -bps > 100 * ToleranceBps

OpenDiscrepancies(asset, taken, snap) ==
    {r \in Breakdown(asset, taken, snap) :
        r.observed /\ r.diff_bps # Null /\ Beyond(r.diff_bps)}

RecordedTotal(asset, taken) == Total(LAMBDA p : Value(p, taken), Reported(asset))

ObservedReport(asset, taken, snap) ==
    LET recorded == RecordedTotal(asset, taken)
        onchain == Total(LAMBDA v : v.tvl, ObservedVaults(asset, snap))
        open == OpenDiscrepancies(asset, taken, snap)
    IN  [scope |-> asset, status |-> IF open = {} THEN "reconciled" ELSE "mismatch",
         recorded_total |-> recorded, onchain_total |-> onchain,
         discrepancy |-> recorded - onchain, diff_bps |-> DiffBps(recorded, onchain),
         positions |-> Cardinality(Reported(asset)),
         observed_at |-> snap.at, observed_networks |-> snap.networks,
         breakdown |-> Breakdown(asset, taken, snap), open_discrepancies |-> open]

(* The same shape without the observed side; its scope is always the protocol. *)
UnavailableReport(asset, taken) ==
    LET Row(a) == [asset |-> a, recorded |-> Recorded(asset, taken, a), onchain |-> Null,
                   discrepancy |-> Null, diff_bps |-> Null, observed |-> FALSE]
    IN  [scope |-> Null, status |-> "unavailable",
         recorded_total |-> RecordedTotal(asset, taken), onchain_total |-> Null,
         discrepancy |-> Null, diff_bps |-> Null, positions |-> Cardinality(Reported(asset)),
         observed_at |-> Null, observed_networks |-> {},
         breakdown |-> {Row(AssetOf(p)) : p \in Reported(asset)}, open_discrepancies |-> {}]

Report(r) == IF r.snap = None THEN UnavailableReport(r.asset, r.taken)
             ELSE ObservedReport(r.asset, r.taken, r.snap)

-----------------------------------------------------------------------------
(* Calls.                                                                    *)

Resting(c) == call[c].pc \in {"idle", "paged"}

Ask(c) ==
    /\ Resting(c)
    /\ \E asset \in Query :
          call' = [call EXCEPT ![c] = [NoCall EXCEPT !.pc = "select", !.asset = asset]]
    /\ replies' = {}
    /\ UNCHANGED <<now, mode, chain, monitor, moves>>

(* Wrong: a snapshot may be as old as its lifetime.                          *)
FreshForLonger == cache # None /\ now - cache.at <= Ttl

Fresh == cache # None /\ now - cache.at < Ttl

(* networks(): the configured ones need no request.                          *)
NewFlight ==
    LET begun == [NoFlight EXCEPT !.asked = now, !.truth = chain]
    IN  IF mode = "fixed"
        THEN [begun EXCEPT !.pc = "read", !.networks = Network, !.todo = Network]
        ELSE [begun EXCEPT !.pc = "list"]

Reply(c, taken, snap) == [caller |-> c, asset |-> call[c].asset, taken |-> taken, snap |-> snap]

AnswerNow(c, snap) ==
    /\ call' = [call EXCEPT ![c] = NoCall]
    /\ replies' = {Reply(c, now, snap)}
    /\ UNCHANGED monitor

Wait(c, f) ==
    /\ call' = [call EXCEPT ![c].pc = "waiting", ![c].on = f, ![c].taken = now]
    /\ replies' = {}

Unconfigured(c) == mode = "none" /\ AnswerNow(c, None)
FromCache(c)    == mode # "none" /\ Fresh /\ AnswerNow(c, cache)
Join(c)         == mode # "none" /\ ~Fresh /\ inFlight # None /\ Wait(c, inFlight) /\ UNCHANGED monitor
(* Wrong: the fetch in flight is not looked for.                             *)
FetchAnyway(c) ==
    /\ mode # "none" /\ ~Fresh
    /\ Wait(c, c)
    /\ flight' = [flight EXCEPT ![c] = NewFlight]
    /\ inFlight' = c
    /\ UNCHANGED cache

Fetch(c) ==
    /\ mode # "none" /\ ~Fresh /\ inFlight = None
    /\ Wait(c, c)
    /\ flight' = [flight EXCEPT ![c] = NewFlight]
    /\ inFlight' = c
    /\ UNCHANGED cache

(* The rows are read; up to `await observed()` nothing else runs.            *)
Observe(c) ==
    /\ call[c].pc = "select"
    /\ Unconfigured(c) \/ FromCache(c) \/ Join(c) \/ Fetch(c)
    /\ UNCHANGED <<now, mode, chain, moves>>

-----------------------------------------------------------------------------
(* The fetch that caller f started; it goes on whoever waits for it.         *)

WaitingFor(f) == {c \in Caller : call[c].pc = "waiting" /\ call[c].on = f}

(* Wrong: `then` for `finally`, a failed fetch stays in flight.              *)
EndFlightOnSuccess(f, snap) ==
    /\ flight' = [flight EXCEPT ![f] = NoFlight]
    /\ inFlight' = IF snap = None THEN inFlight ELSE None
    /\ call' = [c \in Caller |-> IF c \in WaitingFor(f) THEN NoCall ELSE call[c]]
    /\ replies' = {Reply(c, call[c].taken, snap) : c \in WaitingFor(f)}

EndFlight(f, snap) ==
    /\ flight' = [flight EXCEPT ![f] = NoFlight]
    /\ inFlight' = None
    /\ call' = [c \in Caller |-> IF c \in WaitingFor(f) THEN NoCall ELSE call[c]]
    /\ replies' = {Reply(c, call[c].taken, snap) : c \in WaitingFor(f)}

(* Wrong: the snapshot is dated with its expiry.                             *)
CompletedUntil(fl) == [vaults |-> fl.vaults, networks |-> fl.networks, at |-> now + Ttl,
                       read |-> fl.read, truth |-> fl.truth]

Completed(fl) == [vaults |-> fl.vaults, networks |-> fl.networks, at |-> now,
                  read |-> fl.read, truth |-> fl.truth]

(* The next network is asked, or the snapshot is complete.                   *)
Advance(f, fl) ==
    IF fl.todo = {}
    THEN cache' = Completed(fl) /\ EndFlight(f, Completed(fl))
    ELSE /\ flight' = [flight EXCEPT ![f] = [fl EXCEPT !.pc = "read", !.asked = now]]
         /\ replies' = {}
         /\ UNCHANGED <<cache, inFlight, call>>

(* Whatever monitoring lists; what is not a list counts as an empty one.     *)
Listed(f) ==
    /\ flight[f].pc = "list"
    /\ \E ns \in SUBSET Network :
          Advance(f, [flight[f] EXCEPT !.networks = ns, !.todo = ns])
    /\ UNCHANGED <<now, mode, chain, moves>>

ListFails(f) ==
    /\ flight[f].pc = "list"
    /\ EndFlight(f, None)
    /\ UNCHANGED <<now, mode, chain, cache, moves>>

RowsRead(n) == {[network |-> n, asset |-> h[2], tvl |-> chain[h]] : h \in {h \in Holding : h[1] = n}}

NetworkRead(f, n) ==
    /\ flight[f].pc = "read" /\ n \in flight[f].todo
    /\ Advance(f, [flight[f] EXCEPT !.todo = @ \ {n}, !.vaults = @ \cup RowsRead(n),
                                    !.read = @ \cup {n}])
    /\ UNCHANGED <<now, mode, chain, moves>>

(* Wrong: the error of one network is not caught.                            *)
NetworkMissedThrows(f, n) ==
    /\ flight[f].pc = "read" /\ n \in flight[f].todo
    /\ EndFlight(f, None)
    /\ UNCHANGED <<now, mode, chain, cache, moves>>

(* Unreachable, too slow, an error, or no list of vaults.                    *)
NetworkMissed(f, n) ==
    /\ flight[f].pc = "read" /\ n \in flight[f].todo
    /\ Advance(f, [flight[f] EXCEPT !.todo = @ \ {n}])
    /\ UNCHANGED <<now, mode, chain, moves>>

FlightStep(f) ==
    \/ Listed(f) \/ ListFails(f)
    \/ \E n \in Network : NetworkRead(f, n) \/ NetworkMissed(f, n)

-----------------------------------------------------------------------------
(* A partner's ledger, page by page; `listed` and `seen` are history: the    *)
(* rows there were at the first page, and those the client was shown.        *)

LedgerOf == [p \in {Partner} \cup {p.partner : p \in Positions} |->
                [t \in 0 .. MaxTime |-> Ledger(Positions, Events, PartnerScope(p), Null, t)]]
Ids(rows) == {<<r.kind, r.ref>> : r \in rows}

TakePage(c, from) ==
    LET rows == LedgerOf[Partner][now]
        next == NextCursor(rows, from.cursor, PageLimit)
    IN  /\ call' = [call EXCEPT ![c] = [from EXCEPT
                      !.pc = IF next = Null THEN "paged" ELSE "paging",
                      !.cursor = IF next = Null THEN 0 ELSE next,
                      !.seen = @ \cup Ids(Page(rows, from.cursor, PageLimit))]]
        /\ replies' = {}
        /\ UNCHANGED <<now, mode, chain, monitor, moves>>

FirstPage(c) ==
    /\ mode \in PagedIn /\ Resting(c)
    /\ TakePage(c, [NoCall EXCEPT !.listed = Ids(LedgerOf[Partner][now])])
NextPage(c)  == call[c].pc = "paging" /\ TakePage(c, call[c])

-----------------------------------------------------------------------------
(* Time and the chains.  No request to monitoring is out longer than Timeout. *)

Tick ==
    /\ now < MaxTime
    /\ \A f \in Caller : flight[f].pc # "idle" => now - flight[f].asked < Timeout
    /\ now' = now + 1
    /\ replies' = {}
    /\ UNCHANGED <<mode, chain, monitor, call, moves>>

MoveChain ==
    /\ moves < MaxMoves
    /\ \E h \in Holding, v \in Tvl : v # chain[h] /\ chain' = [chain EXCEPT ![h] = v]
    /\ flight' = [f \in Caller |-> [flight[f] EXCEPT !.truth = None]]
    /\ moves' = moves + 1
    /\ replies' = {}
    /\ UNCHANGED <<now, mode, cache, inFlight, call>>

Next ==
    \/ \E c \in Caller : Ask(c) \/ Observe(c) \/ FirstPage(c) \/ NextPage(c)
    \/ \E f \in Caller : FlightStep(f)
    \/ Tick
    \/ MoveChain

(* Postgres answers, and a request to monitoring is answered or aborted.     *)
Fairness ==
    /\ \A c \in Caller : WF_vars(Observe(c))
    /\ WF_vars(\E f \in Caller : FlightStep(f))

Spec == Init /\ [][Next]_vars /\ Fairness

-----------------------------------------------------------------------------
FlightRecord == [pc : {"idle", "list", "read"}, networks : SUBSET Network,
                 todo : SUBSET Network, vaults : SUBSET ObservedVault, asked : 0 .. MaxTime,
                 read : SUBSET Network, truth : Chain \cup {None}]

RowId == {"deposit", "withdraw", "close", "accrual"}
           \X ({p.seq : p \in Positions} \cup {e.seq : e \in Events})

CallRecord == [pc : {"idle", "select", "waiting", "paging", "paged"},
               asset : Asset \cup {Null}, on : Caller \cup {None}, taken : 0 .. MaxTime,
               cursor : Nat, listed : SUBSET RowId, seen : SUBSET RowId]

(* The answers, as reconciliation/dto/output.dto.ts declares them.           *)
Optional(S) == S \cup {Null}
OfPositions == {p.seq : p \in Positions}
Users == {p.user : p \in Positions}

ReconciliationRowDto ==
    [asset : Asset, recorded : Nat, onchain : Optional(Nat), discrepancy : Optional(Int),
     diff_bps : Optional(Int), observed : BOOLEAN]

ReconciliationReportDto ==
    [scope : Optional(Asset), status : {"reconciled", "mismatch", "unavailable"},
     recorded_total : Nat, onchain_total : Optional(Nat), discrepancy : Optional(Int),
     diff_bps : Optional(Int), positions : Nat, observed_at : Optional(Nat),
     observed_networks : SUBSET Network, breakdown : SUBSET ReconciliationRowDto,
     open_discrepancies : SUBSET ReconciliationRowDto]

LedgerEntryDto ==
    [kind : {"deposit", "withdraw", "close", "accrual"}, ref : Nat, at : Int,
     position : OfPositions, amount : Int, balance_after : Int, settled : BOOLEAN]

BalanceDto ==
    [user : Users, asset : Asset, positions : Nat \ {0}, principal : Nat, value : Nat,
     accrued : Nat]

SnapshotAssetDto == [asset : Asset, principal : Nat, value : Nat, accrued : Nat]

BalanceSnapshotDto ==
    [principal : Nat, value : Nat, accrued : Nat, positions : Nat, users : Nat,
     by_asset : SUBSET SnapshotAssetDto]

ListsShaped(t) ==
    /\ LedgerOf[Partner][t] \subseteq LedgerEntryDto
    /\ Balances(Positions, PartnerScope(Partner), t) \subseteq BalanceDto
    /\ DaySnapshot(Positions, PartnerScope(Partner), t) \in BalanceSnapshotDto

(* The variables have the shapes of the client of monitoring and of the      *)
(* calls; what is answered has the shape that is documented.                 *)
TypeOK ==
    /\ now \in 0 .. MaxTime /\ moves \in 0 .. MaxMoves
    /\ mode \in {"none", "listed", "fixed"} /\ chain \in Chain
    /\ cache \in ObservedSnapshot \cup {None} /\ inFlight \in Caller \cup {None}
    /\ flight \in [Caller -> FlightRecord] /\ call \in [Caller -> CallRecord]
    /\ \A r \in replies : Report(r) \in ReconciliationReportDto
    /\ mode \in PagedIn => ListsShaped(now)

(* At most one fetch runs, it is the one that inFlight names, and nobody     *)
(* waits for a fetch that is over (monitor.client.ts:87-125).                *)
SingleFlight ==
    /\ \A f \in Caller : flight[f].pc # "idle" <=> inFlight = f
    /\ \A c \in Caller : call[c].pc = "waiting" => call[c].on = inFlight

(* No answer rests on a snapshot that was completed Ttl ago or earlier, and  *)
(* a call that waited gets one completed after it asked: the recorded side   *)
(* is never newer than the observed one by as much as Ttl                    *)
(* (monitor.client.ts:84, reconciliation.service.ts:255).                    *)
AnswersAreFresh ==
    \A r \in replies : r.snap # None => (r.taken - r.snap.at < Ttl /\ now - r.snap.at < Ttl)

(* When every network was read and the chains stood still meanwhile, the     *)
(* verdict is the one the chains themselves give: a mismatch if and only if  *)
(* some asset in scope differs from them by more than the tolerance, in      *)
(* hundredths of a basis point with halves rounded up.  The rows of a        *)
(* report, available or not, add up to its totals                            *)
(* (reconciliation.service.ts:262-380).                                      *)
Differs(r, a) ==
    LET truth == Total(LAMBDA h : r.snap.truth[h], {h \in Holding : h[2] = a})
        gap == Recorded(r.asset, r.taken, a) - truth
        least == (200 * ToleranceBps + 1) * truth
    IN  truth > 0 /\ (2000000 * gap >= least \/ -2000000 * gap > least)

RowsAddUp(report) ==
    /\ report.recorded_total = Total(LAMBDA row : row.recorded, report.breakdown)
    /\ report.status # "unavailable" =>
          report.onchain_total = Total(LAMBDA row : row.onchain, report.breakdown)

VerdictSound ==
    \A r \in replies :
        /\ RowsAddUp(Report(r))
        /\ (r.snap # None /\ r.snap.truth # None /\ r.snap.read = Network) =>
              (Report(r).status = "mismatch"
                 <=> \E a \in Asset : Matches(a, r.asset) /\ Differs(r, a))

(* One network that fails never voids the report: whoever waits is shown     *)
(* what was read of the others (monitor.client.ts:110-114).                  *)
OneNetworkVoidsNothing ==
    [][\A f \in Caller, n \in Network : NetworkMissed(f, n) =>
          \A r \in replies' : r.snap # None /\ r.snap.vaults = flight[f].vaults]_vars

(* Every call is answered, also when the fetch it joined fails.              *)
Asking(c) == call[c].pc \in {"select", "waiting"}
EveryCallAnswered == \A c \in Caller : Asking(c) ~> ~Asking(c)

(* A client that follows the cursors sees every row that was listed when it  *)
(* began, though accrual rows appear between its pages and shift the rest    *)
(* (paged.ts:43-58, reconciliation.service.ts:169-200).                      *)
PagesLoseNothing ==
    \A c \in Caller : call[c].pc = "paged" => call[c].listed \subseteq call[c].seen

(* The rows of a position run without a gap and end at the value that is     *)
(* reported for it (reconciliation.service.ts:169-200).                      *)
ClosesAt(t) ==
    \A p \in Positions :
        LET rows == {r \in LedgerOf[p.partner][t] : r.position = p.seq}
            UpTo(r) == {s \in rows : s = r \/ ListedBefore(s, r)}
        IN  /\ \A r \in rows : r.balance_after = Total(LAMBDA s : s.amount, UpTo(r))
            /\ Total(LAMBDA r : r.amount, rows) = Value(p, t)

LedgerCloses == mode \in PagedIn => ClosesAt(now)

Deposits(partner) ==
    {e \in Events : e.type = "deposit"
                      /\ \E p \in Positions : p.seq = e.position /\ p.partner = partner}

AgreeAt(t) ==
    \A partner \in {p.partner : p \in Positions} \ {Null} :
        LET scope == PartnerScope(partner)
            balances == Balances(Positions, scope, t)
            today == DaySnapshot(Positions, scope, t)
            held == NetTVL(Positions, partner, t)
            closed == {p \in InScope(Positions, scope) : p.status = "closed"}
        IN  /\ Total(LAMBDA b : b.value, balances) = held.tvl
            /\ Total(LAMBDA b : b.tvl, held.breakdown) = held.tvl
            /\ Total(LAMBDA b : b.principal, balances) = AttributedDeposits(Positions, partner)
            /\ today.value = held.tvl + Total(LAMBDA p : Value(p, t), closed)
            /\ today.accrued = AttributedYield(Positions, partner, t)
            /\ Total(LAMBDA e : e.amount, Deposits(partner))
                 = AttributedDeposits(Positions, partner) + AttributedWithdrawals(Positions, partner)

UserAgreesAt(t, user) ==
    LET balances == Balances(Positions, UserScope(user), t)
        shown == Active(UserPositions(Positions, user, t))
        moved == {r \in Ledger(Positions, Events, UserScope(user), Null, t) : r.kind # "accrual"}
        latest == UserLedger(Positions, Events, user, PageLimit)
        all == UserLedger(Positions, Events, user, Cardinality(Events))
    IN  /\ Total(LAMBDA p : p.current, shown) = Total(LAMBDA b : b.value, balances)
        /\ Total(LAMBDA p : p.accrued, shown) = Total(LAMBDA b : b.accrued, balances)
        /\ {r.ref : r \in moved}
             = {e.seq : e \in {e \in all : e.type \in {"deposit", "withdraw", "close"}}}
        /\ Cardinality(latest) = Min({PageLimit, Cardinality(all)})
        /\ \A e \in latest, f \in all \ latest : e.at >= f.at

(* What a partner's users hold is the same amount on /partner/tvl, in        *)
(* /reconciliation/balances and, but for closed positions, in the snapshot   *)
(* of the day; principal and yield split it alike: "all three agree on       *)
(* value" (attribution.service.ts:91). What was ever deposited is deposited  *)
(* still or was withdrawn. Deposits are the principals of open positions     *)
(* (attribution.service.ts:103) and TVL is with what has accrued (:140-147): *)
(* QA-TESTING-GUIDE.md:340 counts a closed position as a deposit, and :347   *)
(* leaves the accrual out. A user's positions, which the partner API values  *)
(* by itself (partner-api.controller.ts:151-158), come to the same balance,  *)
(* and the user's ledger has the movements of the reconciliation ledger.     *)
ViewsAgree ==
    mode \in PagedIn => AgreeAt(now) /\ \A user \in Users : UserAgreesAt(now, user)

(* "When it is unreachable the caller is told so" (monitor.client.ts:39):    *)
(* when no request to monitoring was answered, a report is `unavailable`.    *)
UnreachableIsTold ==
    \A r \in replies :
        (mode = "fixed" /\ r.snap # None /\ r.snap.read = {}) =>
            Report(r).status = "unavailable"

=============================================================================
