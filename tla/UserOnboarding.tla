--------------------------- MODULE UserOnboarding ---------------------------
(***************************************************************************)
(* A client creates end-users through an SDK (http.ts, _http.py, which     *)
(* loop alike): attempts, a timeout, retries of 429 and 5xx, an answer in  *)
(* one piece.  On the server the rate limit and the key guard come first,  *)
(* then POST /users (users.controller.ts) writes the user, its attribution *)
(* (attribution.service.ts) and emits an event, and the interceptor        *)
(* records the outcome for GET /usage (usage.service.ts), which is the     *)
(* other endpoint that clients call here.  Between the two is a reverse    *)
(* proxy (bootstrap.ts:12-14) that may answer for itself.                  *)
(*                                                                         *)
(* A handler stands before its next statement against Postgres.  Keys do   *)
(* not change: KeyLifecycle is about their authentication.  A body that    *)
(* is refused for whatever reason has the external id Malformed.  A unit   *)
(* of time is the longest the client sleeps; backoff and jitter are less.  *)
(***************************************************************************)
EXTENDS Integers, FiniteSetsExt, Functions

CONSTANTS
    Partner, Key,
    KeyPartner,     \* Key -> its partner, Null for a key of no partner
    Scoped,         \* keys with the scope partner:read
    Call,           \* calls of the SDK
    ExternalId, Malformed, Null,
    MaxRetries, MaxDelay, Window, Limit,
    Count, Step,    \* the buckets of a usage report, and their length
    Top,            \* the endpoints it lists (10)
    Asks,           \* bound: Call -> the requests it may make
    MaxTime,        \* bound: time goes on beyond it only for a client that sleeps
    MaxFaults       \* bound: failed statements, deaths of the process, answers of the proxy

ASSUME KeyAssumption ==
    /\ Null \notin Partner /\ KeyPartner \in [Key -> Partner \cup {Null}]
    /\ Key # {} /\ Scoped \subseteq Key /\ Malformed \notin ExternalId
ASSUME AsksAssumption ==
    /\ IsFiniteSet(Call)
    /\ Asks \in [Call -> SUBSET [key : Key, kind : {"create", "usage"},
                                external : ExternalId \cup {Malformed}]]
ASSUME LimitAssumption ==
    /\ {MaxRetries, MaxTime, MaxFaults} \subseteq Nat
    /\ {MaxDelay, Window, Limit, Count, Step, Top} \subseteq Nat \ {0}

VARIABLES
    now,
    call,           \* the clients
    handler,        \* attempts on the server, and answers on the wire
    hits, blocked,  \* the storage of the throttler, in the memory of the process
    users, attributions,    \* tables
    log, unlogged,  \* table request_log, and inserts that nobody awaits
    emits,          \* emits that nobody awaits, before their SELECT
    faults,         \* failed statements and deaths of the process
    proxied         \* answers of the proxy

vars == <<now, call, handler, hits, blocked, users, attributions, log, unlogged, emits, faults, proxied>>
throttler == <<hits, blocked>>
tables == <<users, attributions>>
accounting == <<log, unlogged>>

Kind == {"create", "usage"}
Clock == 0 .. MaxTime + MaxDelay * MaxRetries * Cardinality(Call)
Status == {200, 400, 403, 429, 500}
BadGateway == 502     \* 502, 503 or 504: nobody but the proxy answers so
Unknown == 0
NetworkError == 1     \* no status at all

(* `known` and `met` are history: whether a user with this external id existed *)
(* when the call was made, and the end of the first block it was told of, if *)
(* it met nothing else since.  So is `cut`: the attempts that the proxy      *)
(* answered for before their handler had inserted.  `at`: when it wakes.     *)
CallState == [pc : {"idle", "send", "await", "sleep", "done"}, kind : Kind, key : Key,
              external : ExternalId \cup {Malformed}, attempt : 0 .. MaxRetries, at : Clock,
              result : Status \cup {BadGateway, Unknown, NetworkError},
              known : BOOLEAN, met : Nat, cut : SUBSET (0 .. MaxRetries)]

Handler == [call : Call, attempt : 0 .. MaxRetries, started : Clock, user : Nat,
            pc : {"check", "insert", "attr_read", "attr_insert", "usage", "wire"},
            status : Status, retry_after : Nat]

Row == [call : Call, attempt : 0 .. MaxRetries, partner : Partner \cup {Null},
        kind : Kind, status : Status, ms : Clock, t : Clock]

(* `by` and `attempt` are history.                                           *)
User == [id : Nat \ {0}, external : ExternalId, by : Call, attempt : 0 .. MaxRetries]

Init ==
    /\ now = 0
    /\ call = [c \in Call |->
                  [pc |-> "idle", kind |-> "create", key |-> CHOOSE k \in Key : TRUE,
                   external |-> Malformed, attempt |-> 0, at |-> 0, result |-> Unknown,
                   known |-> FALSE, met |-> 0, cut |-> {}]]
    /\ handler = {} /\ hits = {} /\ blocked = [b \in Key \X (Kind \cup {"any"}) |-> 0]
    /\ users = {} /\ attributions = {}
    /\ log = {} /\ unlogged = {} /\ emits = 0 /\ faults = 0 /\ proxied = 0

PartnerOf(h) == KeyPartner[call[h.call].key]

-----------------------------------------------------------------------------
(* The client.                                                               *)

Begin(c) ==
    /\ call[c].pc = "idle"
    /\ \E ask \in Asks[c] :
          call' = [call EXCEPT ![c] =
                      [@ EXCEPT !.pc = "send", !.key = ask.key, !.kind = ask.kind,
                                !.external = ask.external,
                                !.known = \E u \in users : u.external = ask.external]]
    /\ UNCHANGED <<now, handler, throttler, tables, accounting, emits, faults, proxied>>

Ended(c, result) ==
    call' = [call EXCEPT ![c] = [@ EXCEPT !.pc = "done", !.result = result, !.at = 0,
                                              !.met = 0]]

(* Wrong: what the server asked for is not waited for.                       *)
BackoffOnly(retry_after) == 0

(* Wrong: however long the server asks for.                                  *)
BackoffUncapped(retry_after) == retry_after

Backoff(retry_after) == Min({retry_after, MaxDelay})

Retryable(status) == status = 429 \/ status >= 500

Awaited(h) == call[h.call].pc = "await" /\ call[h.call].attempt = h.attempt

(* The attempt after this answer, or the end of the call.                    *)
Receive(h) ==
    LET c == h.call
        again == Retryable(h.status) /\ call[c].attempt < MaxRetries
        met == IF h.status # 429 THEN 0
               ELSE IF call[c].attempt = 0 THEN h.started + h.retry_after ELSE call[c].met
    IN  /\ h.pc = "wire" /\ Awaited(h)
        /\ handler' = handler \ {h}
        /\ \/ /\ again
              /\ call' = [call EXCEPT ![c] =
                             [@ EXCEPT !.pc = "sleep", !.at = now + Backoff(h.retry_after),
                                       !.met = met]]
           \/ ~again /\ Ended(c, h.status)
        /\ UNCHANGED <<now, throttler, tables, accounting, emits, faults, proxied>>

Creating(h) == h.pc \in {"check", "insert"}

(* 502, 503 or 504: the proxy cannot reach the server, has waited for long   *)
(* enough or has lost the answer.  A handler that is at it goes on.          *)
ProxyFails(c) ==
    LET cut == {h.attempt : h \in {h \in handler : h.call = c /\ Awaited(h) /\ Creating(h)}}
        answered == [call[c] EXCEPT !.cut = @ \cup cut, !.met = 0]
    IN  /\ faults + proxied < MaxFaults /\ proxied' = proxied + 1
        /\ call[c].pc \in {"send", "await"}
        /\ call' = [call EXCEPT ![c] =
                       IF Retryable(BadGateway) /\ call[c].attempt < MaxRetries
                       THEN [answered EXCEPT !.pc = "sleep", !.at = now + Backoff(0)]
                       ELSE [answered EXCEPT !.pc = "done", !.result = BadGateway, !.at = 0]]
        /\ UNCHANGED <<now, handler, throttler, tables, accounting, emits, faults>>

Wake(c) ==
    /\ call[c].pc = "sleep" /\ call[c].at <= now
    /\ call' = [call EXCEPT ![c] = [@ EXCEPT !.pc = "send",
                                             !.attempt = call[c].attempt + 1]]
    /\ UNCHANGED <<now, handler, throttler, tables, accounting, emits, faults, proxied>>

(* Wrong: a lost attempt is retried like an answered one.                    *)
GiveUpRetries(c) ==
    /\ call[c].pc \in {"send", "await"}
    /\ IF call[c].attempt < MaxRetries
       THEN call' = [call EXCEPT ![c] = [@ EXCEPT !.pc = "sleep", !.at = now]]
       ELSE Ended(c, NetworkError)
    /\ UNCHANGED <<now, handler, throttler, tables, accounting, emits, faults, proxied>>

(* Wrong: nothing aborts an attempt that is under way.                       *)
GiveUpUnsent(c) ==
    /\ call[c].pc = "send"
    /\ Ended(c, NetworkError)
    /\ UNCHANGED <<now, handler, throttler, tables, accounting, emits, faults, proxied>>

(* The timeout, or the connection fails: before the request arrived, while   *)
(* it is served or on the way back.  The server is not told.                 *)
GiveUp(c) ==
    /\ call[c].pc \in {"send", "await"}
    /\ Ended(c, NetworkError)
    /\ UNCHANGED <<now, handler, throttler, tables, accounting, emits, faults, proxied>>

Unheard(h) ==
    /\ h.pc = "wire" /\ ~Awaited(h)
    /\ handler' = handler \ {h}
    /\ UNCHANGED <<now, call, throttler, tables, accounting, emits, faults, proxied>>

-----------------------------------------------------------------------------
(* The guards.                                                               *)

(* Wrong: a budget for every endpoint, as the stock guard has it.            *)
BucketPerEndpoint(key, kind) == <<key, kind>>

(* getTracker and generateKey: the route is not part of the bucket.          *)
Bucket(key, kind) == <<key, "any">>

BucketOf(c) == Bucket(call[c].key, call[c].kind)

(* The storage of @nestjs/throttler: a hit lasts for Window; the first one   *)
(* beyond Limit blocks the bucket for another Window, and is not counted on. *)
HitsOf(bucket) == {hit \in hits : hit.bucket = bucket /\ now < hit.t + Window}
Exceeded(bucket) == now < blocked[bucket] \/ Cardinality(HitsOf(bucket)) = Limit

NewHandler(c, pc, status) ==
    [call |-> c, attempt |-> call[c].attempt, started |-> now, user |-> 0, pc |-> pc,
     status |-> status, retry_after |-> 0]

Arrived(c) == call[c].pc = "send" /\ call' = [call EXCEPT ![c].pc = "await"]

(* A request that a guard rejects reaches no interceptor.                    *)
Throttle(c) ==
    LET b == BucketOf(c)
        until == IF now < blocked[b] THEN blocked[b] ELSE now + Window
    IN  /\ Arrived(c) /\ Exceeded(b)
        /\ blocked' = [blocked EXCEPT ![b] = until]
        /\ handler' = handler \cup
              {[NewHandler(c, "wire", 429) EXCEPT !.retry_after = until - now]}
        /\ UNCHANGED <<now, hits, tables, accounting, emits, faults, proxied>>

Hit(c) ==
    /\ ~Exceeded(BucketOf(c))
    /\ hits' = hits \cup {[bucket |-> BucketOf(c), call |-> c, attempt |-> call[c].attempt,
                           t |-> now]}
    /\ UNCHANGED blocked

LacksScope(c) ==
    /\ Arrived(c) /\ Hit(c)
    /\ call[c].key \notin Scoped
    /\ handler' = handler \cup {NewHandler(c, "wire", 403)}
    /\ UNCHANGED <<now, tables, accounting, emits, faults, proxied>>

Admit(c) ==
    /\ Arrived(c) /\ Hit(c)
    /\ call[c].key \in Scoped /\ KeyPartner[call[c].key] # Null
    /\ handler' = handler \cup
          {NewHandler(c, IF call[c].kind = "create" THEN "check" ELSE "usage", 500)}
    /\ UNCHANGED <<now, tables, accounting, emits, faults, proxied>>

-----------------------------------------------------------------------------
(* The handlers.                                                             *)

RowOf(h, status) ==
    [call |-> h.call, attempt |-> h.attempt, partner |-> PartnerOf(h),
     kind |-> call[h.call].kind, status |-> status, ms |-> now - h.started, t |-> now]

(* Wrong: only what succeeds is recorded.                                    *)
RecordSuccess(h, status) ==
    unlogged' = IF status = 200 THEN unlogged \cup {RowOf(h, status)} ELSE unlogged

(* RequestLogInterceptor: an insert that is not awaited.                     *)
Record(h, status) == unlogged' = unlogged \cup {RowOf(h, status)}

Outcome(h, status) ==
    /\ handler' = (handler \ {h}) \cup {[h EXCEPT !.pc = "wire", !.status = status]}
    /\ Record(h, status)
    /\ UNCHANGED log

GoTo(h, pc, user) == handler' = (handler \ {h}) \cup {[h EXCEPT !.pc = pc, !.user = user]}

(* A body may be refused by the validation, or by the handler, which looks   *)
(* for the partner first.                                                    *)
Refusals(c) ==
    {403} \cup IF call[c].kind = "create" /\ call[c].external = Malformed THEN {400} ELSE {}

(* requirePartnerId, before the first statement.                             *)
NoPartner(c) ==
    /\ Arrived(c) /\ Hit(c)
    /\ call[c].key \in Scoped /\ KeyPartner[call[c].key] = Null
    /\ \E status \in Refusals(c) :
          LET h == NewHandler(c, "wire", status)
          IN  handler' = handler \cup {h} /\ Record(h, status) /\ UNCHANGED log
    /\ UNCHANGED <<now, tables, emits, faults, proxied>>

(* Wrong: external ids are told apart by partner.                            *)
TakenByPartner(h, external) ==
    \E u \in users, a \in attributions :
        u.external = external /\ a.user = u.id /\ a.partner = PartnerOf(h)

Taken(h, external) == \E u \in users : u.external = external

Check(h) ==
    LET external == call[h.call].external
        refused == external = Malformed \/ Taken(h, external)
    IN  /\ h.pc = "check"
        /\ \/ refused /\ Outcome(h, 400)
           \/ ~refused /\ GoTo(h, "insert", 0) /\ UNCHANGED accounting
        /\ UNCHANGED <<now, call, throttler, tables, emits, faults, proxied>>

NewUser(h) == [id |-> Cardinality(users) + 1, external |-> call[h.call].external,
               by |-> h.call, attempt |-> h.attempt]

(* Wrong: the user is answered before it is attributed.                      *)
InsertUserAnswers(h) ==
    /\ h.pc = "insert"
    /\ users' = users \cup {NewUser(h)} /\ emits' = emits + 1
    /\ Outcome(h, 200)
    /\ UNCHANGED <<now, call, throttler, attributions, faults, proxied>>

InsertUser(h) ==
    /\ h.pc = "insert"
    /\ users' = users \cup {NewUser(h)}
    /\ GoTo(h, "attr_read", NewUser(h).id)
    /\ UNCHANGED <<now, call, throttler, attributions, accounting, emits, faults, proxied>>

(* attributeUser returns the attribution there is.                           *)
AttributionRead(h) ==
    LET attributed == \E a \in attributions : a.user = h.user
    IN  /\ h.pc = "attr_read"
        /\ \/ attributed /\ Outcome(h, 200) /\ emits' = emits + 1
           \/ ~attributed /\ GoTo(h, "attr_insert", h.user) /\ UNCHANGED <<accounting, emits>>
        /\ UNCHANGED <<now, call, throttler, tables, faults, proxied>>

(* The insert, `void` emit and the return of the user.                       *)
AttributionInsert(h) ==
    /\ h.pc = "attr_insert"
    /\ attributions' = attributions \cup {[user |-> h.user, partner |-> PartnerOf(h)]}
    /\ emits' = emits + 1
    /\ Outcome(h, 200)
    /\ UNCHANGED <<now, call, throttler, users, faults, proxied>>

UsageSelect(h) ==
    /\ h.pc = "usage"
    /\ Outcome(h, 200)
    /\ UNCHANGED <<now, call, throttler, tables, emits, faults, proxied>>

(* What is not awaited.                                                      *)
LogInsert ==
    \E row \in unlogged :
        /\ log' = log \cup {row} /\ unlogged' = unlogged \ {row}
        /\ UNCHANGED <<now, call, handler, throttler, tables, emits, faults, proxied>>

Emit ==
    /\ emits > 0 /\ emits' = emits - 1
    /\ UNCHANGED <<now, call, handler, throttler, tables, accounting, faults, proxied>>

-----------------------------------------------------------------------------
(* Faults.                                                                   *)

Fault == faults + proxied < MaxFaults /\ faults' = faults + 1 /\ UNCHANGED proxied

(* 500; the client may retry.  A statement whose connection is lost may have *)
(* been carried out.                                                         *)
StatementFails(h) ==
    /\ Fault /\ h.pc # "wire"
    /\ Outcome(h, 500)
    /\ users' \in {users} \cup IF h.pc = "insert" THEN {users \cup {NewUser(h)}} ELSE {}
    /\ UNCHANGED <<now, call, throttler, attributions, emits>>

LogInsertFails ==
    /\ Fault
    /\ \E row \in unlogged : unlogged' = unlogged \ {row}
    /\ UNCHANGED <<now, call, handler, throttler, tables, log, emits>>

(* What was in memory or on the wire is gone; clients learn of it in GiveUp. *)
ProcessDies ==
    /\ handler' = {} /\ unlogged' = {} /\ emits' = 0
    /\ hits' = {} /\ blocked' = [b \in DOMAIN blocked |-> 0]
    /\ UNCHANGED <<now, call, tables, log>>

Crash == Fault /\ ProcessDies

(* The SELECT of emit: a rejection that nothing handles ends the process.    *)
EmitRejects == Fault /\ emits > 0 /\ ProcessDies

-----------------------------------------------------------------------------
Tick ==
    /\ \/ now < MaxTime
       \/ \E c \in Call : call[c].pc = "sleep" /\ now < call[c].at
    /\ now' = now + 1
    /\ hits' = {hit \in hits : now' < hit.t + Window}
    /\ blocked' = [b \in DOMAIN blocked |-> IF now' < blocked[b] THEN blocked[b] ELSE 0]
    /\ UNCHANGED <<call, handler, tables, accounting, emits, faults, proxied>>

Client(c) == Begin(c) \/ Wake(c) \/ GiveUp(c) \/ ProxyFails(c)
Arrive(c) == Throttle(c) \/ LacksScope(c) \/ NoPartner(c) \/ Admit(c)
Handle(h) == Check(h) \/ InsertUser(h) \/ AttributionRead(h) \/ AttributionInsert(h)
                      \/ UsageSelect(h)
Answer(h) == Receive(h) \/ Unheard(h)

Next == \/ \E c \in Call : Client(c) \/ Arrive(c)
        \/ \E h \in handler : Handle(h) \/ Answer(h) \/ StatementFails(h)
        \/ LogInsert \/ Emit \/ LogInsertFails \/ Crash \/ EmitRejects \/ Tick

(* The timer of every attempt fires, so does that of every sleep, and time   *)
(* goes on.  Nothing is asked of the network or of the server: what they     *)
(* lose, the timer ends.                                                     *)
Fairness ==
    /\ \A c \in Call : WF_vars(Wake(c)) /\ WF_vars(GiveUp(c))
    /\ WF_vars(Tick)

Spec == Init /\ [][Next]_vars /\ Fairness

-----------------------------------------------------------------------------
(* GET /usage, from the time the handler took before its SELECT.             *)

WindowStart(asked) == (asked \div Step - (Count - 1)) * Step
IndexOf(row, asked) == (row.t - WindowStart(asked)) \div Step
SelectedRows(p, asked) == {r \in log : r.partner = p /\ r.t >= WindowStart(asked)}

(* Wrong: rows stamped after the last bucket are counted in the totals.      *)
CountedAll(p, asked) == SelectedRows(p, asked)

Counted(p, asked) == {r \in SelectedRows(p, asked) : IndexOf(r, asked) < Count}

(* sorted[ceil(percent / 100 * length) - 1]                                  *)
Percentile(rows, percent) ==
    LET UpTo(r) == {s \in rows : s.ms <= r.ms}
    IN  IF rows = {} THEN 0
        ELSE Min({r.ms : r \in {r \in rows :
                    100 * Cardinality(UpTo(r)) >= percent * Cardinality(rows)}})

Errors(rows) == {r \in rows : r.status >= 400}

Figures(rows) ==
    [requests |-> Cardinality(rows), errors |-> Cardinality(Errors(rows)),
     p50 |-> Percentile(rows, 50), p99 |-> Percentile(rows, 99)]

UsageSeries(p, asked) ==
    [totals |-> Figures(Counted(p, asked)),
     series |-> [i \in 0 .. Count - 1 |->
                    Figures({r \in SelectedRows(p, asked) : IndexOf(r, asked) = i})]]

(* A route and its method is a kind of call here.                            *)
OfKind(rows, kind) == {r \in rows : r.kind = kind}
Called(rows) == {r.kind : r \in rows}

(* sort and slice(0, Top): which endpoints are kept, ties being broken by an *)
(* order of the rows that the SELECT does not fix.                           *)
TopKinds(rows) ==
    {kept \in SUBSET Called(rows) :
        /\ Cardinality(kept) = Min({Top, Cardinality(Called(rows))})
        /\ \A kind \in kept, dropped \in Called(rows) \ kept :
              Cardinality(OfKind(rows, kind)) >= Cardinality(OfKind(rows, dropped))}

TopEndpoints(rows, kept) ==
    [kind \in kept |-> [requests |-> Cardinality(OfKind(rows, kind)),
                        errors |-> Cardinality(OfKind(Errors(rows), kind))]]

-----------------------------------------------------------------------------
(* The variables have the shapes of the client, the server and its tables,   *)
(* an attempt is never in two handlers, and no sleep is longer than MaxDelay. *)
TypeOK ==
    /\ now \in Clock
    /\ call \in [Call -> CallState]
    /\ \A c \in Call : call[c].at <= now + MaxDelay
    /\ handler \subseteq Handler
    /\ \A h, i \in handler : h.call = i.call /\ h.attempt = i.attempt => h = i
    /\ users \subseteq User
    /\ attributions \subseteq [user : Nat, partner : Partner]
    /\ log \subseteq Row /\ unlogged \subseteq Row
    /\ emits \in 0 .. Cardinality(users)
    /\ {faults, proxied} \subseteq 0 .. MaxFaults

(* What a partner may see of the users (attribution.service.ts).             *)
ListAttributions(partner) == {a \in attributions : a.partner = partner}

AttributedUsers(partner) ==
    {u \in users : \E a \in ListAttributions(partner) : a.user = u.id}

IsUserAttributedToPartner(u, partner) ==
    LET found == {a \in attributions : a.user = u.id}
    IN  found # {} /\ (CHOOSE a \in found : TRUE).partner = partner

(* To the partner that created it, on its list and on nobody else's.         *)
Attributed(u) ==
    \A partner \in Partner :
        LET creator == partner = KeyPartner[call[u.by].key]
        IN  /\ u \in AttributedUsers(partner) <=> creator
            /\ IsUserAttributedToPartner(u, partner) <=> creator

(* No half-made users (users.controller.ts:86-101): a user that was returned *)
(* exists and is attributed to the caller's partner and nobody else.  So is  *)
(* every other, unless its handler is still at it or a fault hit: not even a *)
(* caller that hangs up leaves one behind.                                   *)
OnboardedWhole ==
    /\ \A u \in users :
          \/ Attributed(u)
          \/ faults > 0 /\ \A a \in attributions : a.user # u.id
          \/ \E h \in handler : h.user = u.id /\ h.pc \in {"attr_read", "attr_insert"}
    /\ \A c \in Call :
          call[c].pc = "done" /\ call[c].kind = "create" /\ call[c].result = 200 =>
              \E u \in users : u.by = c /\ u.external = call[c].external /\ Attributed(u)

(* However often the SDK retries (http.ts:225-230), whatever the server or   *)
(* the network loses: an attempt leaves at most one user, and a later one    *)
(* leaves another only if the proxy answered for the first before it had     *)
(* inserted, so that the two overlap.  An answer of the server itself, a     *)
(* timeout or a lost connection never leads to a second user.                *)
OneUserPerCall ==
    \A u, v \in users :
        u.by = v.by => \/ u = v
                       \/ u.attempt < v.attempt /\ u.attempt \in call[u.by].cut
                       \/ v.attempt < u.attempt /\ v.attempt \in call[u.by].cut

(* An external id that was there when a call was made is never given to a    *)
(* second user, whichever partner asks (users.controller.ts:75-78).  Only    *)
(* calls that overlap can do that.                                           *)
KnownIsRefused == \A u \in users : ~call[u.by].known

(* The budget of a key is one for all endpoints (api-throttler.guard.ts): in *)
(* no Window does one process let more than Limit of its requests through.   *)
AccountWideLimit ==
    \A key \in Key : Cardinality({hit \in hits : call[hit.call].key = key}) <= Limit

(* A client that gives up on 429 after nothing but 429s has outlasted the    *)
(* first block it was told of (http.ts:236-244: the cap on a sleep is less   *)
(* than a block, but all the sleeps together are not).                       *)
PatienceOutlastsBlock ==
    [][\A c \in Call :
          call[c].pc = "await" /\ call'[c].pc = "done" /\ call'[c].result = 429 =>
              call[c].met <= now]_vars

(* What the handlers answered is accounted for, errors included, with the    *)
(* status that was sent (request-log.interceptor.ts:32-53): the row is       *)
(* there, or is being inserted, unless a fault lost it.                      *)
AnswersAreLogged ==
    faults = 0 =>
        \A c \in Call :
            call[c].pc = "done" /\ call[c].result \in Status \ {429}
            /\ call[c].key \in Scoped =>
                \E row \in log \cup unlogged :
                    row.call = c /\ row.attempt = call[c].attempt
                    /\ row.status = call[c].result

SumOf(parts, figure) == SumFunctionOnSet([i \in DOMAIN parts |-> parts[i][figure]], DOMAIN parts)

AddsUp(totals, parts) ==
    /\ \A figure \in {"requests", "errors"} : totals[figure] = SumOf(parts, figure)
    /\ \A figure \in {"p50", "p99"} :
          /\ \E i \in DOMAIN parts : totals[figure] <= parts[i][figure]
          /\ totals.requests > 0 =>
                \E i \in DOMAIN parts :
                    parts[i].requests > 0 /\ parts[i][figure] <= totals[figure]
    /\ \A i \in DOMAIN parts : parts[i].p50 <= parts[i].p99

(* The endpoints account for all requests as long as none is cut off, and    *)
(* never for more; one that is cut off had no more than any that is kept.    *)
Accounts(totals, rows, kept) ==
    /\ \A figure \in {"requests", "errors"} :
          LET sum == SumOf(TopEndpoints(rows, kept), figure)
          IN  sum <= totals[figure] /\ (Cardinality(Called(rows)) <= Top => sum = totals[figure])
    /\ \A kind \in kept, dropped \in Called(rows) \ kept :
          Cardinality(OfKind(rows, dropped)) <= TopEndpoints(rows, kept)[kind].requests

(* Whatever is recorded between the time a usage handler took and its SELECT *)
(* (usage.service.ts:38-41), its report adds up by bucket, by endpoint as    *)
(* far as these are listed, and its percentiles lie between those of the     *)
(* fastest and of the slowest bucket: for every partner, and every time that *)
(* a handler may have taken before it selects now.                           *)
UsageAddsUp ==
    \A p \in Partner, asked \in 0 .. now :
        LET report == UsageSeries(p, asked)
            rows == Counted(p, asked)
        IN  /\ AddsUp(report.totals, report.series)
            /\ \A kept \in TopKinds(rows) : Accounts(report.totals, rows, kept)

(* Every call ends, though answers are lost and the server may die: every    *)
(* attempt has its timer, and the retries run out (_http.py:130-174, whose   *)
(* timeout covers the body; http.ts:163-232, but for a body that stalls      *)
(* behind its headers, which http.ts:188 reads without the timer).           *)
CallEnds == \A c \in Call : call[c].pc = "send" ~> call[c].pc = "done"

(* "Retrying a create with the same key replays the original response        *)
(* instead of producing a duplicate resource" (types.ts:19-22): a call that  *)
(* has created its user is not told that the user already exists.            *)
RetriedCreateReplays ==
    \A u \in users : ~(call[u.by].pc = "done" /\ call[u.by].result = 400)
=============================================================================
