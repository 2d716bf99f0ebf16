-------------------------- MODULE WebhookDelivery --------------------------
(***************************************************************************)
(* Webhook endpoints and the log of their deliveries: POST, PATCH, DELETE  *)
(* /webhooks and POST /webhooks/:id/test (webhooks.controller.ts), emit    *)
(* and the dispatch tasks it starts and does not await, and the pruning of *)
(* the log that ends every dispatch (webhooks.service.ts).                 *)
(*                                                                         *)
(* A registry request and a task stand before their next statement against *)
(* Postgres; any other may run first.  A task is a dispatch, or what leads *)
(* to one: the lookup of POST .../test, or the SELECT of emit.             *)
(*                                                                         *)
(* URLs and signatures are left out: checkUrl and the endpoint decide      *)
(* between `delivered` and `failed`, a column nothing here depends on.     *)
(* Secrets can be opened (ENCRYPTION_KEY is set).  Two deliveries never    *)
(* carry the same `at`; in the code a tie is broken by the order of the    *)
(* table's rows, which every pruning sees alike.                           *)
(***************************************************************************)
EXTENDS EntityStore, Recency

CONSTANTS
    Partner, Hook,
    Owner,          \* Hook -> the partner that will own the endpoint of this id
    Event,          \* event types an endpoint may subscribe to
    Request, Task,  \* slots: registry requests, and tasks, in progress together
    Absent,         \* no row with this id
    MaxStamp,       \* bound: deliveries ever stamped
    MaxFaults       \* bound: crashes and failed statements

ASSUME OwnerAssumption == Owner \in [Hook -> Partner]

ASSUME NullAssumption ==
    /\ Unset \notin BOOLEAN /\ \A events \in SUBSET Event : Unset # events
    /\ Undefined \notin BOOLEAN /\ \A events \in SUBSET Event : Undefined # events
    /\ \A row \in [active : BOOLEAN, events : SUBSET Event] : Absent # row

ASSUME BoundAssumption == MaxStamp \in Nat /\ MaxFaults \in Nat

ASSUME FiniteAssumption ==
    /\ IsFiniteSet(Hook) /\ Hook # {} /\ IsFiniteSet(Task) /\ Event # {}

VARIABLES
    hooks,      \* table webhooks: Hook -> row or Absent
    issued,     \* ids given out so far; randomId never repeats one
    rows,       \* table webhook_deliveries
    clock,      \* the time the last delivery was stamped with
    req, task,
    faults,
    owed        \* history: rows that a pruning which failed or died should have removed

vars == <<hooks, issued, rows, clock, req, task, faults, owed>>

HookRow   == [active : BOOLEAN, events : SUBSET Event]
HookPatch == [active : BOOLEAN \cup {Unset}, events : (SUBSET Event) \cup {Unset}]
Delivery  == [at : 1 .. MaxStamp, hook : Hook]

NoPatch == [active |-> Unset, events |-> Unset]
SomeRow == [active |-> FALSE, events |-> {}]

RequestSlot == [pc : {"idle", "patch_find", "patch_get", "patch_load", "patch_save",
                      "delete_find", "delete"},
                hook : Hook, patch : HookPatch, rec : HookRow,
                insert : BOOLEAN, dirty : SUBSET {"active", "events"}]

TaskSlot == [pc : {"idle", "test_find", "emit_read", "post", "insert", "prune_read",
                   "prune_remove"},
             op : {"none", "test", "emit"}, hook : Hook, partner : Partner,
             event : Event, at : 0 .. MaxStamp, plan : SUBSET Delivery]

AnyHook  == CHOOSE h \in Hook : TRUE
NoRequest == [pc |-> "idle", hook |-> AnyHook, patch |-> NoPatch, rec |-> SomeRow,
              insert |-> FALSE, dirty |-> {}]
NoTask == [pc |-> "idle", op |-> "none", hook |-> AnyHook, partner |-> Owner[AnyHook],
           event |-> CHOOSE e \in Event : TRUE, at |-> 0, plan |-> {}]

RowsOf(p) == {d \in rows : Owner[d.hook] = p}
Excess(p) == RowsOf(p) \ Newest(RowsOf(p))

Init ==
    /\ hooks = [h \in Hook |-> Absent] /\ issued = {}
    /\ rows = {} /\ clock = 0
    /\ req = [r \in Request |-> NoRequest]
    /\ task = [t \in Task |-> NoTask]
    /\ faults = 0 /\ owed = {}

-----------------------------------------------------------------------------
(* The registry of endpoints.                                                *)

Ask(r, new) == req' = [req EXCEPT ![r] = new]
Answered(r) == Ask(r, NoRequest)
AtRequest(r, pc) == req[r].pc = pc

(* POST /webhooks: one INSERT of a row that nobody else knows of.            *)
Register ==
    /\ \E h \in Hook \ issued, row \in HookRow :
          /\ hooks' = [hooks EXCEPT ![h] = row]
          /\ issued' = issued \cup {h}
    /\ UNCHANGED <<rows, clock, req, task, faults, owed>>

AskPatch(r) ==
    /\ AtRequest(r, "idle")
    /\ \E h \in issued, patch \in HookPatch :
          Ask(r, [NoRequest EXCEPT !.pc = "patch_find", !.hook = h, !.patch = patch])
    /\ UNCHANGED <<hooks, issued, rows, clock, task, faults, owed>>

AskDelete(r) ==
    /\ AtRequest(r, "idle")
    /\ \E h \in issued : Ask(r, [NoRequest EXCEPT !.pc = "delete_find", !.hook = h])
    /\ UNCHANGED <<hooks, issued, rows, clock, task, faults, owed>>

(* getWebhook, the first statement of both: 404 when there is no such row.   *)
Find(r) ==
    /\ \/ hooks[req[r].hook] = Absent /\ Answered(r)
       \/ /\ hooks[req[r].hook] # Absent
          /\ Ask(r, [req[r] EXCEPT !.pc = IF @ = "patch_find" THEN "patch_get" ELSE "delete"])
    /\ UNCHANGED <<hooks, issued, rows, clock, task, faults, owed>>

PatchFind(r)  == AtRequest(r, "patch_find") /\ Find(r)
DeleteFind(r) == AtRequest(r, "delete_find") /\ Find(r)

(* StoreService.update: its SELECT.  A row deleted meanwhile is answered 500. *)
PatchGet(r) ==
    LET row == hooks[req[r].hook]
    IN  /\ AtRequest(r, "patch_get")
        /\ \/ row = Absent /\ Answered(r)
           \/ /\ row # Absent
              /\ Ask(r, [req[r] EXCEPT !.pc = "patch_load", !.rec = Merge(row, req[r].patch)])
        /\ UNCHANGED <<hooks, issued, rows, clock, task, faults, owed>>

(* save: its SELECT decides between UPDATE and INSERT.                       *)
PatchLoad(r) ==
    LET row == hooks[req[r].hook]
    IN  /\ AtRequest(r, "patch_load")
        /\ Ask(r, [req[r] EXCEPT !.pc = "patch_save", !.insert = (row = Absent),
                                 !.dirty = IF row = Absent THEN {} ELSE Dirty(req[r].rec, row)])
        /\ UNCHANGED <<hooks, issued, rows, clock, task, faults, owed>>

(* save: an UPDATE of a row that is gone changes nothing, an INSERT of one   *)
(* that is back is refused by the primary key.  The row read for the answer  *)
(* changes nothing any more.                                                 *)
PatchSave(r) ==
    LET h == req[r].hook
    IN  /\ AtRequest(r, "patch_save")
        /\ hooks' = IF req[r].insert = (hooks[h] = Absent)
                    THEN [hooks EXCEPT ![h] =
                            IF req[r].insert THEN req[r].rec
                                             ELSE Written(@, req[r].rec, req[r].dirty)]
                    ELSE hooks
        /\ Answered(r)
        /\ UNCHANGED <<issued, rows, clock, task, faults, owed>>

Delete(r) ==
    /\ AtRequest(r, "delete")
    /\ hooks' = [hooks EXCEPT ![req[r].hook] = Absent]
    /\ Answered(r)
    /\ UNCHANGED <<issued, rows, clock, task, faults, owed>>

-----------------------------------------------------------------------------
(* Events and their dispatch.                                                *)

Do(t, new) == task' = [task EXCEPT ![t] = new]
Ended(t) == Do(t, NoTask)
AtTask(t, pc) == task[t].pc = pc

(* Bound: a stamp is set aside for every delivery that may still be made.    *)
Pending == Cardinality({t \in Task : task[t].pc \in {"test_find", "post"}})
           + Cardinality(Hook) * Cardinality({t \in Task : task[t].pc = "emit_read"})
StampsLeft(n) == clock + Pending + n <= MaxStamp

(* POST /webhooks/:id/test.                                                  *)
AskTest(t) ==
    /\ AtTask(t, "idle") /\ StampsLeft(1)
    /\ \E h \in issued : Do(t, [NoTask EXCEPT !.pc = "test_find", !.op = "test", !.hook = h,
                                              !.partner = Owner[h]])
    /\ UNCHANGED <<hooks, issued, rows, clock, req, faults, owed>>

TestFind(t) ==
    /\ AtTask(t, "test_find")
    /\ \/ hooks[task[t].hook] = Absent /\ Ended(t)
       \/ hooks[task[t].hook] # Absent /\ Do(t, [task[t] EXCEPT !.pc = "post"])
    /\ UNCHANGED <<hooks, issued, rows, clock, req, faults, owed>>

(* An event of a partner (POST /users): emit is called.                      *)
Emit(t) ==
    /\ AtTask(t, "idle") /\ StampsLeft(Cardinality(Hook))
    /\ \E p \in Partner, e \in Event :
          Do(t, [NoTask EXCEPT !.pc = "emit_read", !.op = "emit", !.partner = p, !.event = e])
    /\ UNCHANGED <<hooks, issued, rows, clock, req, faults, owed>>

Start(targets, t) ==
    LET free == {u \in Task : task[u].pc = "idle"} \cup {t}
    IN  \E f \in [targets -> free] :
          /\ \A g, h \in targets : f[g] = f[h] => g = h
          /\ task' = [u \in Task |->
                        IF \E h \in targets : f[h] = u
                        THEN LET h == CHOOSE h \in targets : f[h] = u
                             IN  [NoTask EXCEPT !.pc = "post", !.op = "emit", !.hook = h,
                                                !.partner = Owner[h]]
                        ELSE IF u = t THEN NoTask ELSE task[u]]

(* Mutation: endpoints that are switched off are served too.                 *)
EmitReadAll(t) ==
    /\ AtTask(t, "emit_read")
    /\ Start({h \in Hook : /\ hooks[h] # Absent /\ Owner[h] = task[t].partner
                           /\ task[t].event \in hooks[h].events}, t)
    /\ UNCHANGED <<hooks, issued, rows, clock, req, faults, owed>>

(* emit: its SELECT, and a dispatch for each endpoint it returns.            *)
EmitRead(t) ==
    /\ AtTask(t, "emit_read")
    /\ Start({h \in Hook : /\ hooks[h] # Absent /\ Owner[h] = task[t].partner
                           /\ hooks[h].active /\ task[t].event \in hooks[h].events}, t)
    /\ UNCHANGED <<hooks, issued, rows, clock, req, faults, owed>>

(* Mutation: only a POST that is answered stamps its delivery.               *)
PostEndsUnstamped(t) ==
    /\ AtTask(t, "post")
    /\ \/ clock' = clock + 1 /\ Do(t, [task[t] EXCEPT !.pc = "insert", !.at = clock + 1])
       \/ UNCHANGED clock /\ Do(t, [task[t] EXCEPT !.pc = "insert"])
    /\ UNCHANGED <<hooks, issued, rows, req, faults, owed>>

(* The POST has been answered, refused, or given up after 3 s; the delivery  *)
(* is stamped.                                                               *)
PostEnds(t) ==
    /\ AtTask(t, "post")
    /\ clock' = clock + 1
    /\ Do(t, [task[t] EXCEPT !.pc = "insert", !.at = clock + 1])
    /\ UNCHANGED <<hooks, issued, rows, req, faults, owed>>

InsertRow(t) ==
    /\ AtTask(t, "insert")
    /\ rows' = rows \cup {[at |-> task[t].at, hook |-> task[t].hook]}
    /\ Do(t, [task[t] EXCEPT !.pc = "prune_read"])
    /\ UNCHANGED <<hooks, issued, clock, req, faults, owed>>

(* Mutation: sorted the other way round, the newest rows are the excess.     *)
PruneReadNewest(t) ==
    LET mine == RowsOf(task[t].partner)
    IN  /\ AtTask(t, "prune_read")
        /\ \/ Cardinality(mine) <= Limit /\ Ended(t)
           \/ /\ Cardinality(mine) > Limit
              /\ Do(t, [task[t] EXCEPT !.pc = "prune_remove", !.plan = Newest(mine)])
        /\ owed' = owed \ mine
        /\ UNCHANGED <<hooks, issued, rows, clock, req, faults>>

(* Mutation: one row over the limit is tolerated.                            *)
PruneReadLate(t) ==
    LET mine == RowsOf(task[t].partner)
    IN  /\ AtTask(t, "prune_read")
        /\ \/ Cardinality(mine) <= Limit + 1 /\ Ended(t)
           \/ /\ Cardinality(mine) > Limit + 1
              /\ Do(t, [task[t] EXCEPT !.pc = "prune_remove", !.plan = mine \ Newest(mine)])
        /\ owed' = owed \ mine
        /\ UNCHANGED <<hooks, issued, rows, clock, req, faults>>

(* pruneDeliveries: its SELECT, and the rows beyond the newest Limit.        *)
PruneRead(t) ==
    LET mine == RowsOf(task[t].partner)
    IN  /\ AtTask(t, "prune_read")
        /\ \/ Cardinality(mine) <= Limit /\ Ended(t)
           \/ /\ Cardinality(mine) > Limit
              /\ Do(t, [task[t] EXCEPT !.pc = "prune_remove", !.plan = mine \ Newest(mine)])
        /\ owed' = owed \ mine
        /\ UNCHANGED <<hooks, issued, rows, clock, req, faults>>

Oldest(S) == CHOOSE d \in S : \A e \in S : d.at <= e.at

(* Mutation: one row is removed and the rest of the excess forgotten.        *)
PruneRemoveOne(t) ==
    /\ AtTask(t, "prune_remove")
    /\ rows' = rows \ {Oldest(task[t].plan)}
    /\ Ended(t)
    /\ UNCHANGED <<hooks, issued, clock, req, faults, owed>>

(* One DELETE of the excess, oldest first; the row may be gone already.      *)
PruneRemove(t) ==
    LET d == Oldest(task[t].plan)
    IN  /\ AtTask(t, "prune_remove")
        /\ rows' = rows \ {d}
        /\ \/ task[t].plan = {d} /\ Ended(t)
           \/ task[t].plan # {d} /\ Do(t, [task[t] EXCEPT !.plan = @ \ {d}])
        /\ UNCHANGED <<hooks, issued, clock, req, faults, owed>>

-----------------------------------------------------------------------------
(* Faults.                                                                   *)

(* A statement fails: a request is answered 500, a dispatch is given up with *)
(* a warning, a pruning is given up where it stands.  (emit's own SELECT is  *)
(* not caught by anyone: that is a crash.)                                   *)
RequestFails(r) ==
    /\ ~AtRequest(r, "idle") /\ faults < MaxFaults
    /\ faults' = faults + 1
    /\ Answered(r)
    /\ UNCHANGED <<hooks, issued, rows, clock, task, owed>>

TaskFails(t) ==
    /\ task[t].pc \in {"test_find", "insert", "prune_read", "prune_remove"}
    /\ faults < MaxFaults
    /\ faults' = faults + 1
    /\ owed' = IF task[t].pc \in {"prune_read", "prune_remove"}
               THEN owed \cup Excess(task[t].partner) ELSE owed
    /\ Ended(t)
    /\ UNCHANGED <<hooks, issued, rows, clock, req>>

(* The process dies and is started again.                                    *)
Crash ==
    /\ faults < MaxFaults
    /\ faults' = faults + 1
    /\ req' = [r \in Request |-> NoRequest]
    /\ task' = [t \in Task |-> NoTask]
    /\ owed' = owed \cup UNION {Excess(p) : p \in Partner}
    /\ UNCHANGED <<hooks, issued, rows, clock>>

Registry(r) ==
    \/ AskPatch(r) \/ AskDelete(r) \/ PatchFind(r) \/ DeleteFind(r)
    \/ PatchGet(r) \/ PatchLoad(r) \/ PatchSave(r) \/ Delete(r)

Work(t) ==
    \/ TestFind(t) \/ EmitRead(t) \/ PostEnds(t) \/ InsertRow(t)
    \/ PruneRead(t) \/ PruneRemove(t)

Next ==
    \/ Register \/ Crash
    \/ \E r \in Request : Registry(r) \/ RequestFails(r)
    \/ \E t \in Task : AskTest(t) \/ Emit(t) \/ Work(t) \/ TaskFails(t)

(* A task that has begun goes on: the event loop runs it, Postgres answers,  *)
(* and a POST is aborted after 3 s.  Requests need not come, nor faults.     *)
Spec == Init /\ [][Next]_vars /\ \A t \in Task : WF_vars(Work(t))

-----------------------------------------------------------------------------
(* Properties.                                                               *)

(* The shape of the state.                                                   *)
TypeOK ==
    /\ hooks \in [Hook -> HookRow \cup {Absent}] /\ issued \subseteq Hook
    /\ rows \subseteq Delivery /\ clock \in 0 .. MaxStamp
    /\ req \in [Request -> RequestSlot] /\ task \in [Task -> TaskSlot]
    /\ faults \in 0 .. MaxFaults /\ owed \subseteq Delivery

(* Whatever prunings run side by side, from however old a SELECT, a partner  *)
(* is shown the newest Limit deliveries ever recorded for it.                *)
Shown == INSTANCE RetainedLog WITH
            Entry <- Delivery,
            log <- [p \in Partner |-> Newest(RowsOf(p))]

LogRetained == Shown!Spec

(* A row beyond the limit always has a pruning that will remove it, unless a *)
(* fault ended the one that should have; the next delivery then collects it. *)
NothingForgotten ==
    \A p \in Partner : \A d \in Excess(p) \ owed :
       \E t \in Task : /\ task[t].partner = p
                       /\ \/ task[t].pc = "prune_read"
                          \/ task[t].pc = "prune_remove" /\ d \in task[t].plan

(* So the log of a partner returns to the limit, faults aside.               *)
CapRestored ==
    \A p \in Partner : (Excess(p) # {}) ~> (Excess(p) \subseteq owed)

(* The PATCH in r may make the endpoint h active, with what it has been      *)
(* asked or with what it read before h was switched off or deleted.          *)
MayEnable(r, h) ==
    /\ req[r].hook = h
    /\ \/ req[r].pc \in {"patch_find", "patch_get"} /\ req[r].patch.active = TRUE
       \/ req[r].pc = "patch_load" /\ req[r].rec.active
       \/ /\ req[r].pc = "patch_save" /\ req[r].rec.active
          /\ req[r].insert \/ "active" \in req[r].dirty

(* h has been registered and gets no events, now or from what is under way.  *)
Silent(h) ==
    /\ h \in issued /\ (hooks[h] # Absent => ~hooks[h].active)
    /\ \A r \in Request : ~MayEnable(r, h)
    /\ \A t \in Task : task[t].hook = h /\ task[t].op = "emit" => task[t].pc # "post"

(* An endpoint that was deleted or switched off stays silent: a concurrent   *)
(* PATCH can bring it back only if it was already in flight, and otherwise   *)
(* only a PATCH that asks for it does.                                       *)
EndpointSettles ==
    [][\A h \in Hook : Silent(h) =>
         \/ Silent(h)'
         \/ \E r \in Request : /\ req[r].pc = "idle" /\ req'[r].hook = h
                               /\ req'[r].patch.active = TRUE]_vars

=============================================================================
