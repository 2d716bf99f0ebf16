---------------------------- MODULE KeyLifecycle ----------------------------
(***************************************************************************)
(* Partners, the API keys bound to them, and every request that reads or   *)
(* writes either: authentication of a call, POST /keys, DELETE /keys/:id,  *)
(* POST /partners and PATCH /partners/:id (AuthService, PartnerService,    *)
(* their controllers, and the boot-time seeding of StoreService).          *)
(*                                                                         *)
(* Every await of a handler ends a step: between two statements against    *)
(* Postgres any other request may run.  No handler uses a transaction or a *)
(* lock; what one read may be stale when it writes.                        *)
(*                                                                         *)
(* A request is a slot that is idle, then at one of the program counters   *)
(* of its handler, then done with a response.  The administrator's own     *)
(* key, which authenticates the four admin operations, is not in Key.      *)
(* Scopes are left out: a key of Key carries the scope its call needs.     *)
(***************************************************************************)
EXTENDS EntityStore, Naturals, FiniteSets

CONSTANTS
    Partner, Key,   \* ids; randomId never repeats one
    Slug,
    Request,        \* slots: how many requests may be in flight together
    NoPartner,      \* partner_id: null
    Absent,         \* no row with this id
    SeedPartner, SeedKey, SeedSlug,   \* a partner fixture and its key fixture
    Seeding,        \* DB_SEED is not 'false'
    MaxCrashes      \* bound: how often the process dies

ASSUME FixtureAssumption ==
    SeedPartner \in Partner /\ SeedKey \in Key /\ SeedSlug \in Slug

ASSUME NullAssumption ==
    /\ NoPartner \notin Partner
    /\ Unset \notin Slug /\ Unset \notin Partner /\ Unset # NoPartner
    /\ Unset \notin BOOLEAN /\ Unset \notin {"active", "disabled"}
    /\ Undefined \notin Slug /\ Undefined \notin Partner \cup {NoPartner, Unset}
    /\ Undefined \notin BOOLEAN /\ Undefined \notin {"active", "disabled"}
    /\ Absent \notin [revoked : BOOLEAN, partner_id : Partner \cup {NoPartner}]
    /\ Absent \notin [status : {"active", "disabled"}, slug : Slug]

ASSUME BoundAssumption == Seeding \in BOOLEAN /\ MaxCrashes \in Nat

VARIABLES
    partners,   \* table partners: Partner -> row or Absent
    keys,       \* table api_keys: Key -> row or Absent
    slot,       \* the requests in flight
    process,    \* "up", "down" between a crash and the next boot, "failed"
    crashes,
    \* history, read by the properties only:
    acked,      \* keys whose DELETE has been answered revoked: true
    late,       \* requests that began when their key was already in acked
    shut,       \* requests whose partner has been disabled ever since they began
    disableAcked \* partners whose last change of status, answered, was a disable

history == <<acked, late, shut, disableAcked>>
vars == <<partners, keys, slot, process, crashes, acked, late, shut, disableAcked>>

Status == {"active", "disabled"}
PartnerRow == [status : Status, slug : Slug]
KeyRow == [revoked : BOOLEAN, partner_id : Partner \cup {NoPartner}]

(* The body of a PATCH, an UpdatePartnerInputDto.  That class declares      *)
(* status, so its instances have it, undefined when the body does not; the  *)
(* slug comes by PartialType, which hands on no property without a value.   *)
(* A body with other fields only (name, metadata, ...) is NoPatch: it saves *)
(* the whole record all the same.                                           *)
PartnerPatch == [status : Status \cup {Undefined}, slug : Slug \cup {Unset}]

(* The record to save: what was read, with the body over it.                *)
PartnerRecord == [status : Status \cup {Undefined}, slug : Slug]

(* Mutation: the whole key that authentication found is saved back.         *)
TouchWholeKey == [revoked |-> FALSE, partner_id |-> Unset]

(* Mutation: a revoked key is detached from its partner.                    *)
RevokeAndDetach == [revoked |-> TRUE, partner_id |-> NoPartner]

TouchPatch  == [revoked |-> Unset, partner_id |-> Unset]   \* last_used_at only
RevokePatch == [revoked |-> TRUE, partner_id |-> Unset]
NoPatch     == [status |-> Undefined, slug |-> Unset]

SeedPartnerRow == [status |-> "active", slug |-> SeedSlug]
SeedKeyRow     == [revoked |-> FALSE, partner_id |-> SeedPartner]

Idle == [op |-> "none", pc |-> "idle", key |-> SeedKey, partner |-> NoPartner,
         patch |-> NoPatch, before |-> "active", ptnRec |-> SeedPartnerRow,
         keyRec |-> SeedKeyRow, dirty |-> {}, live |-> {}, res |-> "none"]

Op == {"none", "use", "issue", "revoke", "create", "patch"}
PC == {"idle", "auth_find", "auth_partner", "gen_check", "gen_insert",
       "create_check", "create_insert", "patch_before", "slug_check",
       "ptn_get", "ptn_load", "ptn_write", "scan", "revoke_each",
       "key_get", "key_load", "key_write", "done"}
Response == {"none", "200", "400", "401", "403", "404", "409", "500"}

SlotType == [op : Op, pc : PC, key : Key, partner : Partner \cup {NoPartner},
             patch : PartnerPatch, before : Status, ptnRec : PartnerRecord, keyRec : KeyRow,
             dirty : SUBSET {"status", "slug", "revoked", "partner_id"},
             live : SUBSET Key, res : Response]

PartnerIds == {p \in Partner : partners[p] # Absent}
KeyIds     == {k \in Key : keys[k] # Absent}
IsDisabled(p) == p \in PartnerIds /\ partners[p].status = "disabled"
BoundTo(p) == {k \in KeyIds : keys[k].partner_id = p}

(* A row other than p's holds this slug: the check the service makes, and   *)
(* the unique index on partners.slug.                                       *)
SlugTaken(s, p) == \E q \in PartnerIds \ {p} : partners[q].slug = s

(* r goes on with these local variables.                                     *)
Move(r, new) == slot' = [slot EXCEPT ![r] = new]

(* The handler returns: what it held in its local variables is gone.         *)
Respond(r, code) ==
    Move(r, [slot[r] EXCEPT !.pc = "done", !.res = code, !.before = "active",
                            !.ptnRec = SeedPartnerRow, !.keyRec = SeedKeyRow,
                            !.dirty = {}])

(* r may take the step that begins at pc.                                   *)
At(r, pc) == process = "up" /\ slot[r].pc = pc

Init ==
    /\ partners = [p \in Partner |-> IF p = SeedPartner THEN SeedPartnerRow ELSE Absent]
    /\ keys = [k \in Key |-> IF k = SeedKey THEN SeedKeyRow ELSE Absent]
    /\ slot = [r \in Request |-> Idle]
    /\ process = "up" /\ crashes = 0
    /\ acked = {} /\ late = {} /\ shut = {} /\ disableAcked = {}

-----------------------------------------------------------------------------
(* Arrival of a request.                                                     *)

Admit(r, op, pc, key, partner, patch) ==
    /\ process = "up" /\ slot[r].pc = "idle"
    /\ Move(r, [Idle EXCEPT !.op = op, !.pc = pc, !.key = key,
                             !.partner = partner, !.patch = patch])
    /\ shut' = IF IsDisabled(partner) THEN shut \cup {r} ELSE shut \ {r}
    /\ UNCHANGED <<partners, keys, process, crashes, acked>>

(* Any route behind ApiKeyGuard, called with the secret of key k.            *)
Call(r) ==
    /\ \E k \in KeyIds :
          /\ Admit(r, "use", "auth_find", k, keys[k].partner_id, NoPatch)
          /\ late' = IF k \in acked THEN late \cup {r} ELSE late
    /\ UNCHANGED disableAcked

(* Bound: an id is set aside for every request that may still insert a row.  *)
Inserting(op) == {r \in Request : slot[r].op \in op /\ slot[r].pc # "done"}
KeyIdLeft == Cardinality(Key \ KeyIds) > Cardinality(Inserting({"issue", "create"}))
PartnerIdLeft == Cardinality(Partner \ PartnerIds) > Cardinality(Inserting({"create"}))

(* POST /keys; without a partner_id there is nothing to check.               *)
IssueKey(r) ==
    /\ KeyIdLeft
    /\ \E p \in Partner \cup {NoPartner} :
          Admit(r, "issue", IF p = NoPartner THEN "gen_insert" ELSE "gen_check",
                SeedKey, p, NoPatch)
    /\ UNCHANGED <<late, disableAcked>>

(* DELETE /keys/:id.                                                         *)
RevokeKey(r) ==
    /\ \E k \in Key : Admit(r, "revoke", "key_get", k, NoPartner, NoPatch)
    /\ UNCHANGED <<late, disableAcked>>

(* POST /partners.  patch.slug carries the slug of the new partner.          *)
CreatePartner(r) ==
    /\ KeyIdLeft /\ PartnerIdLeft
    /\ \E s \in Slug : Admit(r, "create", "create_check", SeedKey, NoPartner,
                             [NoPatch EXCEPT !.slug = s])
    /\ UNCHANGED <<late, disableAcked>>

(* PATCH /partners/:id.                                                      *)
PatchPartner(r) ==
    /\ \E p \in Partner, patch \in PartnerPatch :
          /\ Admit(r, "patch", "patch_before", SeedKey, p, patch)
          /\ disableAcked' = IF patch.status = "active" THEN disableAcked \ {p}
                                                        ELSE disableAcked
    /\ UNCHANGED late

(* The client has read the response; the slot is free.                       *)
Finish(r) ==
    /\ At(r, "done")
    /\ Move(r, Idle)
    /\ late' = late \ {r} /\ shut' = shut \ {r}
    /\ UNCHANGED <<partners, keys, process, crashes, acked, disableAcked>>

-----------------------------------------------------------------------------
(* AuthService.authenticate.                                                 *)

(* Mutation: `revoked` is not looked at.                                     *)
AuthFindAny(r) ==
    LET key == keys[slot[r].key]
    IN  /\ At(r, "auth_find")
        /\ Move(r, [slot[r] EXCEPT !.pc = IF key.partner_id = NoPartner
                                   THEN "key_get" ELSE "auth_partner",
                                   !.partner = key.partner_id])
        /\ UNCHANGED <<partners, keys, process, crashes, history>>

(* The SELECT that finds the key by its hash, and the two checks on the row  *)
(* it returns.                                                               *)
AuthFind(r) ==
    LET key == keys[slot[r].key]
    IN  /\ At(r, "auth_find")
        /\ \/ key.revoked /\ Respond(r, "401")
           \/ /\ ~key.revoked
              /\ Move(r, [slot[r] EXCEPT !.pc = IF key.partner_id = NoPartner
                                         THEN "key_get" ELSE "auth_partner",
                                         !.partner = key.partner_id])
        /\ UNCHANGED <<partners, keys, process, crashes, history>>

(* Mutation: only a missing partner is refused.                              *)
AuthPartnerExists(r) ==
    /\ At(r, "auth_partner")
    /\ \/ partners[slot[r].partner] = Absent /\ Respond(r, "403")
       \/ /\ partners[slot[r].partner] # Absent
          /\ Move(r, [slot[r] EXCEPT !.pc = "key_get"])
    /\ UNCHANGED <<partners, keys, process, crashes, history>>

(* The SELECT of the key's partner.                                          *)
AuthPartner(r) ==
    LET p == slot[r].partner
    IN  /\ At(r, "auth_partner")
        /\ \/ (partners[p] = Absent \/ IsDisabled(p)) /\ Respond(r, "403")
           \/ /\ partners[p] # Absent /\ ~IsDisabled(p)
              /\ Move(r, [slot[r] EXCEPT !.pc = "key_get"])
        /\ UNCHANGED <<partners, keys, process, crashes, history>>

-----------------------------------------------------------------------------
(* StoreService.update on a key, for authenticate (last_used_at), revokeKey   *)
(* and each key of revokeKeysForPartner.                                      *)

KeyPatch(r) == IF slot[r].op = "use" THEN TouchPatch ELSE RevokePatch

(* The first SELECT, and the record to save.                                  *)
KeyGet(r) ==
    LET k == slot[r].key
    IN  /\ At(r, "key_get")
        /\ \/ keys[k] = Absent /\ Respond(r, "200")     \* revoked: false
           \/ /\ keys[k] # Absent
              /\ Move(r, [slot[r] EXCEPT !.pc = "key_load",
                                         !.keyRec = Merge(keys[k], KeyPatch(r))])
        /\ UNCHANGED <<partners, keys, process, crashes, history>>

(* save: its SELECT.                                                          *)
KeyLoad(r) ==
    /\ At(r, "key_load")
    /\ Move(r, [slot[r] EXCEPT !.pc = "key_write",
                               !.dirty = Dirty(slot[r].keyRec, keys[slot[r].key])])
    /\ UNCHANGED <<partners, keys, process, crashes, history>>

(* save: its UPDATE.  What follows differs by caller: the call is admitted,   *)
(* the revocation is answered, or the next key of the partner is next.        *)
KeyWrite(r) ==
    LET k == slot[r].key
    IN  /\ At(r, "key_write")
        /\ keys' = [keys EXCEPT ![k] = Written(@, slot[r].keyRec, slot[r].dirty)]
        /\ \/ /\ slot[r].op = "patch"
              /\ Move(r, [slot[r] EXCEPT !.pc = "revoke_each", !.key = SeedKey,
                                         !.keyRec = SeedKeyRow, !.dirty = {}])
           \/ slot[r].op # "patch" /\ Respond(r, "200")
        /\ acked' = IF slot[r].op = "revoke" THEN acked \cup {k} ELSE acked
        /\ UNCHANGED <<partners, process, crashes, late, shut, disableAcked>>

-----------------------------------------------------------------------------
(* AuthService.generateKey, for POST /keys and at the end of POST /partners.  *)

(* Mutation: the status of the partner is not looked at.                     *)
GenCheckExists(r) ==
    LET p == slot[r].partner
    IN  /\ At(r, "gen_check")
        /\ \/ partners[p] = Absent /\ Respond(r, "400")
           \/ partners[p] # Absent /\ Move(r, [slot[r] EXCEPT !.pc = "gen_insert"])
        /\ UNCHANGED <<partners, keys, process, crashes, history>>

GenCheck(r) ==
    LET p == slot[r].partner
    IN  /\ At(r, "gen_check")
        /\ \/ (partners[p] = Absent \/ IsDisabled(p)) /\ Respond(r, "400")
           \/ /\ partners[p] # Absent /\ ~IsDisabled(p)
              /\ Move(r, [slot[r] EXCEPT !.pc = "gen_insert"])
        /\ UNCHANGED <<partners, keys, process, crashes, history>>

GenInsert(r) ==
    /\ At(r, "gen_insert")
    /\ \E k \in Key :
          /\ keys[k] = Absent
          /\ keys' = [keys EXCEPT ![k] = [revoked |-> FALSE, partner_id |-> slot[r].partner]]
          /\ Move(r, [slot[r] EXCEPT !.pc = "done", !.res = "200", !.key = k])
    /\ UNCHANGED <<partners, process, crashes, history>>

-----------------------------------------------------------------------------
(* PartnerService.createPartner: look for the slug, then insert.  The unique  *)
(* index on partners.slug is the only guard against two requests that both    *)
(* found the slug free; the loser of that race is answered 500, not 409.      *)

CreateCheck(r) ==
    /\ At(r, "create_check")
    /\ \/ SlugTaken(slot[r].patch.slug, NoPartner) /\ Respond(r, "409")
       \/ /\ ~SlugTaken(slot[r].patch.slug, NoPartner)
          /\ Move(r, [slot[r] EXCEPT !.pc = "create_insert"])
    /\ UNCHANGED <<partners, keys, process, crashes, history>>

CreateInsert(r) ==
    LET s == slot[r].patch.slug
    IN  /\ At(r, "create_insert")
        /\ \/ SlugTaken(s, NoPartner) /\ Respond(r, "500") /\ UNCHANGED partners
           \/ /\ ~SlugTaken(s, NoPartner)
              /\ \E p \in Partner :
                    /\ partners[p] = Absent
                    /\ partners' = [partners EXCEPT ![p] = [status |-> "active", slug |-> s]]
                    /\ Move(r, [slot[r] EXCEPT !.pc = "gen_check", !.partner = p])
        /\ UNCHANGED <<keys, process, crashes, history>>

-----------------------------------------------------------------------------
(* PartnerController.updatePartner over PartnerService.updatePartner.         *)

(* `before`, read for the decision whether this PATCH disables the partner.   *)
PatchBefore(r) ==
    LET p == slot[r].partner
    IN  /\ At(r, "patch_before")
        /\ \/ partners[p] = Absent /\ Respond(r, "404")
           \/ /\ partners[p] # Absent
              /\ Move(r, [slot[r] EXCEPT !.pc = IF slot[r].patch.slug = Unset
                                         THEN "ptn_get" ELSE "slug_check",
                                         !.before = partners[p].status])
        /\ UNCHANGED <<partners, keys, process, crashes, history>>

SlugCheck(r) ==
    /\ At(r, "slug_check")
    /\ \/ SlugTaken(slot[r].patch.slug, slot[r].partner) /\ Respond(r, "409")
       \/ /\ ~SlugTaken(slot[r].patch.slug, slot[r].partner)
          /\ Move(r, [slot[r] EXCEPT !.pc = "ptn_get"])
    /\ UNCHANGED <<partners, keys, process, crashes, history>>

(* Mutation: a body without a status is laid over the status that was read.   *)
PartnerGetWithStatus(r) ==
    LET body == [slot[r].patch EXCEPT !.status = IF @ = Undefined THEN Unset ELSE @]
    IN  /\ At(r, "ptn_get")
        /\ Move(r, [slot[r] EXCEPT !.pc = "ptn_load",
                                   !.ptnRec = Merge(partners[slot[r].partner], body)])
        /\ UNCHANGED <<partners, keys, process, crashes, history>>

(* Mutation: the record starts from the defaults of a new partner.            *)
PartnerGetDefaults(r) ==
    LET existing == [partners[slot[r].partner] EXCEPT !.slug = SeedSlug]
    IN  /\ At(r, "ptn_get")
        /\ Move(r, [slot[r] EXCEPT !.pc = "ptn_load",
                                   !.ptnRec = Merge(existing, slot[r].patch)])
        /\ UNCHANGED <<partners, keys, process, crashes, history>>

(* StoreService.update on the partner: SELECT and merge, save's SELECT,       *)
(* save's UPDATE.                                                             *)
PartnerGet(r) ==
    /\ At(r, "ptn_get")
    /\ Move(r, [slot[r] EXCEPT !.pc = "ptn_load",
                               !.ptnRec = Merge(partners[slot[r].partner], slot[r].patch)])
    /\ UNCHANGED <<partners, keys, process, crashes, history>>

PartnerLoad(r) ==
    /\ At(r, "ptn_load")
    /\ Move(r, [slot[r] EXCEPT !.pc = "ptn_write",
                               !.dirty = Dirty(slot[r].ptnRec, partners[slot[r].partner])])
    /\ UNCHANGED <<partners, keys, process, crashes, history>>

(* The step out of a PATCH that revokes no key: answered, and if it asked     *)
(* for a disable, acknowledged as one.                                        *)
PatchAnswered(r) ==
    /\ Respond(r, "200")
    /\ disableAcked' = IF slot[r].patch.status = "disabled"
                       THEN disableAcked \cup {slot[r].partner} ELSE disableAcked

PartnerWrite(r) ==
    LET p == slot[r].partner
        clash == "slug" \in slot[r].dirty /\ SlugTaken(slot[r].ptnRec.slug, p)
    IN  /\ At(r, "ptn_write")
        /\ \/ /\ clash
              /\ Respond(r, "500")
              /\ UNCHANGED <<partners, shut, disableAcked>>
           \/ /\ ~clash
              /\ partners' = [partners EXCEPT ![p] = Written(@, slot[r].ptnRec, slot[r].dirty)]
              /\ shut' = IF partners'[p].status = "active"
                         THEN {q \in shut : slot[q].partner # p} ELSE shut
              /\ IF slot[r].patch.status = "disabled" /\ slot[r].before # "disabled"
                 THEN /\ Move(r, [slot[r] EXCEPT !.pc = "scan", !.before = "active",
                                                 !.ptnRec = SeedPartnerRow, !.dirty = {}])
                      /\ UNCHANGED disableAcked
                 ELSE PatchAnswered(r)
        /\ UNCHANGED <<keys, process, crashes, acked, late>>

(* Mutation: the filter of the live keys is the wrong way round.              *)
ScanRevoked(r) ==
    /\ At(r, "scan")
    /\ Move(r, [slot[r] EXCEPT !.pc = "revoke_each",
                               !.live = {k \in BoundTo(slot[r].partner) : keys[k].revoked}])
    /\ UNCHANGED <<partners, keys, process, crashes, history>>

(* AuthService.revokeKeysForPartner: one SELECT of the live keys, then an     *)
(* update of each in turn.                                                    *)
Scan(r) ==
    /\ At(r, "scan")
    /\ Move(r, [slot[r] EXCEPT !.pc = "revoke_each",
                               !.live = {k \in BoundTo(slot[r].partner) : ~keys[k].revoked}])
    /\ UNCHANGED <<partners, keys, process, crashes, history>>

RevokeEach(r) ==
    /\ At(r, "revoke_each")
    /\ \/ slot[r].live = {} /\ PatchAnswered(r)
       \/ \E k \in slot[r].live :
             /\ Move(r, [slot[r] EXCEPT !.pc = "key_load",
                                        !.key = k,
                                        !.keyRec = Merge(keys[k], RevokePatch),
                                        !.live = @ \ {k}])
             /\ UNCHANGED disableAcked
    /\ UNCHANGED <<partners, keys, process, crashes, acked, late, shut>>

-----------------------------------------------------------------------------
(* The process dies: every request in flight is lost where it stands.         *)
Crash ==
    /\ process = "up" /\ crashes < MaxCrashes
    /\ process' = "down" /\ crashes' = crashes + 1
    /\ slot' = [r \in Request |-> Idle]
    /\ late' = {} /\ shut' = {}
    /\ UNCHANGED <<partners, keys, acked, disableAcked>>

(* The next boot.  Before it listens it brings the fixtures back to their     *)
(* definition; the partner first, so a slug that another partner holds by now *)
(* fails the whole boot.  Nothing runs beside it, so it is one step.          *)
BootClash == Seeding /\ SlugTaken(SeedSlug, SeedPartner)

Boot ==
    /\ process = "down" /\ ~BootClash
    /\ process' = "up"
    /\ partners' = IF Seeding THEN [partners EXCEPT ![SeedPartner] = SeedPartnerRow]
                              ELSE partners
    /\ keys' = IF Seeding THEN [keys EXCEPT ![SeedKey] = SeedKeyRow] ELSE keys
    /\ UNCHANGED <<slot, crashes, history>>

BootFails ==
    /\ process = "down" /\ BootClash
    /\ process' = "failed"
    /\ UNCHANGED <<partners, keys, slot, crashes, history>>

(* Mutation: a process whose boot failed listens all the same.                *)
SuperviseUp ==
    /\ process = "failed" /\ process' = "up"
    /\ UNCHANGED <<partners, keys, slot, crashes, history>>

(* The platform starts the process again.                                     *)
Supervise ==
    /\ process = "failed" /\ process' = "down"
    /\ UNCHANGED <<partners, keys, slot, crashes, history>>

Arrive(r) == Call(r) \/ IssueKey(r) \/ RevokeKey(r) \/ CreatePartner(r) \/ PatchPartner(r)

Handle(r) ==
    \/ AuthFind(r) \/ AuthPartner(r)
    \/ KeyGet(r) \/ KeyLoad(r) \/ KeyWrite(r)
    \/ GenCheck(r) \/ GenInsert(r) \/ CreateCheck(r) \/ CreateInsert(r)
    \/ PatchBefore(r) \/ SlugCheck(r)
    \/ PartnerGet(r) \/ PartnerLoad(r) \/ PartnerWrite(r)
    \/ Scan(r) \/ RevokeEach(r)

Next ==
    \/ \E r \in Request : Arrive(r) \/ Handle(r) \/ Finish(r)
    \/ Crash \/ Boot \/ BootFails \/ Supervise

Spec == Init /\ [][Next]_vars

-----------------------------------------------------------------------------
(* Properties.                                                                *)

(* The shape of the state.                                                    *)
TypeOK ==
    /\ partners \in [Partner -> PartnerRow \cup {Absent}]
    /\ keys \in [Key -> KeyRow \cup {Absent}]
    /\ slot \in [Request -> SlotType]
    /\ process \in {"up", "down", "failed"}
    /\ crashes \in 0 .. MaxCrashes
    /\ acked \subseteq Key /\ late \subseteq Request /\ shut \subseteq Request
    /\ disableAcked \subseteq Partner

(* A partner that stays disabled from the moment a request begins until it    *)
(* ends gets nothing from it, whatever else is in flight: its keys are not    *)
(* admitted (authenticate checks the partner even when the key was never      *)
(* revoked) and no new key is issued for it.                                  *)
DisabledPartnerBlocks ==
    \A r \in shut : slot[r].op \in {"use", "issue"} => slot[r].res # "200"

(* The request in slot s is going to write revoked = false over key k.        *)
StaleWriter(s, k) ==
    /\ s.key = k /\ ~s.keyRec.revoked
    /\ s.pc = "key_load" \/ (s.pc = "key_write" /\ "revoked" \in s.dirty)

Settled(k) ==
    /\ k \in KeyIds /\ keys[k].revoked
    /\ \A r \in Request : ~StaleWriter(slot[r], k)

(* A revocation can be undone only by a request that read the key before it   *)
(* was revoked.  Once none is in flight the key stays revoked for good,       *)
(* through every interleaving and crash; only the boot's reset of a fixture   *)
(* is exempt.                                                                 *)
RevocationSettles == [][\A k \in Key \ {SeedKey} : Settled(k) => Settled(k)']_vars

(* Whom a key acts for never changes: every save writes the whole record it   *)
(* read, and a stale one must not move the key to another partner.            *)
BindingFixed ==
    [][\A k \in KeyIds : keys'[k] # Absent /\ keys'[k].partner_id = keys[k].partner_id]_vars

(* There are no foreign keys in the schema, yet every key of a partner has    *)
(* its partner, so `partner linked to this API key no longer exists` is dead. *)
KeysHavePartners ==
    \A k \in KeyIds : keys[k].partner_id \in PartnerIds \cup {NoPartner}

(* What a request holds in its local variables is right about the rows it     *)
(* names, at each of its program counters; the strengthening that makes the   *)
(* properties above inductive.                                                *)
FixturesKept ==
    /\ SeedPartner \in PartnerIds
    /\ SeedKey \in KeyIds /\ keys[SeedKey].partner_id = SeedPartner

SaveKeepsBinding(s) ==
    s.pc \in {"key_load", "key_write"} =>
       s.key \in KeyIds /\ s.keyRec.partner_id = keys[s.key].partner_id

AuthHoldsBinding(s) ==
    s.pc \in {"auth_find", "auth_partner"} =>
       /\ s.op = "use" /\ s.key \in KeyIds
       /\ s.partner = keys[s.key].partner_id
       /\ s.pc = "auth_partner" => s.partner # NoPartner

PatchPC == {"patch_before", "slug_check", "ptn_get", "ptn_load", "ptn_write",
            "scan", "revoke_each"}

PatchKnowsPartner(s) ==
    /\ s.pc \in PatchPC => s.op = "patch"
    /\ s.op = "patch" => s.partner \in Partner
    /\ s.pc \in {"slug_check", "ptn_get", "ptn_load", "ptn_write"} => s.partner \in PartnerIds
    /\ s.pc \in {"ptn_load", "ptn_write"} => s.ptnRec.status = s.patch.status
    /\ s.pc = "ptn_write" /\ "status" \in s.dirty => s.patch.status # Undefined

PatchKnowsSlug(s) ==
    /\ s.pc \in {"create_check", "create_insert"} => s.op = "create" /\ s.patch.slug \in Slug
    /\ s.live \subseteq KeyIds

IssueKnowsPartner(s) ==
    /\ s.pc \in {"gen_check", "gen_insert"} => s.op \in {"create", "issue"}
    /\ s.pc = "gen_check" => s.partner \in Partner
    /\ s.pc = "gen_insert" => s.partner \in PartnerIds \cup {NoPartner}

Local(s) ==
    /\ SaveKeepsBinding(s) /\ AuthHoldsBinding(s) /\ PatchKnowsPartner(s)
    /\ PatchKnowsSlug(s) /\ IssueKnowsPartner(s)

ShutOut(s) ==
    s.op \in {"use", "issue"} =>
       /\ IsDisabled(s.partner)
       /\ s.pc \in {"auth_find", "auth_partner", "gen_check", "done"}
       /\ s.res # "200"

Flow ==
    /\ FixturesKept /\ KeysHavePartners
    /\ \A r \in Request : Local(slot[r])
    /\ \A r \in shut : ShutOut(slot[r])
    /\ process # "up" => shut = {}

IInv == TypeOK /\ Flow

(* A call that begins after the key's DELETE was answered is turned away.     *)
RevokedKeyRejected == \A r \in late : slot[r].op = "use" => slot[r].res # "200"

Quiet == process = "up" /\ \A r \in Request : slot[r].pc \in {"idle", "done"}

(* When a PATCH that disables a partner has been answered, and nothing is in  *)
(* flight, the partner has no live key to come back with.                     *)
DisableRevokesKeys ==
    Quiet => \A p \in disableAcked : IsDisabled(p) => \A k \in BoundTo(p) : keys[k].revoked

(* The step in which a PATCH of p ends its save, if its body has the column.  *)
Patched(p, column) ==
    \E r \in Request : /\ slot[r].pc = "ptn_write" /\ slot'[r].pc # "ptn_write"
                       /\ slot[r].partner = p
                       /\ slot[r].patch[column] \notin {Unset, Undefined}

OnlyPatched(p, column) ==
    partners'[p][column] # partners[p][column] => process = "down" \/ Patched(p, column)

(* A disabled partner comes back, and an active one goes, only by a PATCH     *)
(* whose body says so (or at a boot): no PATCH of something else that read    *)
(* the old status before it changed saves it back.                            *)
StatusIsAskedFor == [][\A p \in PartnerIds : OnlyPatched(p, "status")]_vars

(* PATCH is a partial update (partner.controller.ts:80): every column changes *)
(* only by a PATCH whose body has it.  Of the slug, which a body need not     *)
(* have, this is so while no two saves of the partner overlap.                *)
PartialUpdate ==
    [][\A p \in PartnerIds : OnlyPatched(p, "status") /\ OnlyPatched(p, "slug")]_vars

(* What a lock on the row would give, and the code does not have: no two      *)
(* requests are between the SELECT and the UPDATE of the same row.            *)
SavesKey(s)     == s.pc \in {"key_load", "key_write"}
SavesPartner(s) == s.pc \in {"ptn_load", "ptn_write"}

KeyUpdatesApart ==
    \A q, r \in Request : q # r /\ SavesKey(slot[q]) /\ SavesKey(slot[r])
                             => slot[q].key # slot[r].key

PartnerUpdatesApart ==
    \A q, r \in Request : q # r /\ SavesPartner(slot[q]) /\ SavesPartner(slot[r])
                             => slot[q].partner # slot[r].partner

(* The PATCH has read `before` and has not yet answered.                      *)
Settling(s) ==
    /\ s.op = "patch"
    /\ s.pc \in {"slug_check", "ptn_get", "ptn_load", "ptn_write", "scan",
                 "revoke_each", "key_load", "key_write"}

(* Two PATCHes of a partner do not overlap, nor does one overlap the issue of *)
(* a key whose check of the partner has passed.                               *)
StatusDecisionsApart ==
    \A q, r \in Request :
       q # r /\ Settling(slot[q]) /\ (Settling(slot[r]) \/ slot[r].pc = "gen_insert")
          => slot[q].partner # slot[r].partner

(* A boot that fails on the fixture's slug fails for good: nothing but a      *)
(* request could free the slug, and no request is served until a boot succeeds.*)
FailedBootIsFinal ==
    [][process = "failed" \/ (process = "down" /\ BootClash)
          => BootClash' /\ process' # "up"]_vars

=============================================================================
