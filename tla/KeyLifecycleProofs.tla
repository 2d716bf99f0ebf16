------------------------- MODULE KeyLifecycleProofs -------------------------
(***************************************************************************)
(* Theorems about KeyLifecycle, for any sets of partners, keys, slugs and  *)
(* slots and any number of crashes.  All of them rest on IInv: TypeOK and  *)
(* Flow, which says that whatever a request holds in its local variables   *)
(* is still right about the tables.  It is inductive because rows are      *)
(* never deleted and no key ever changes its partner (RowsKept).           *)
(***************************************************************************)
EXTENDS KeyLifecycle, TLAPS

(* A patch of authenticate or of a revocation laid over a row never moves the *)
(* key to another partner and never clears `revoked`.                         *)
LEMMA MergeKey ==
    ASSUME NEW row \in KeyRow, NEW patch \in {TouchPatch, RevokePatch}
    PROVE  /\ Merge(row, patch) \in KeyRow
           /\ Merge(row, patch).partner_id = row.partner_id
           /\ row.revoked => Merge(row, patch).revoked
  <1>1. CASE patch = TouchPatch
    BY <1>1 DEF Merge, KeyRow, TouchPatch
  <1>2. CASE patch = RevokePatch
    <2>1. TRUE # Unset
      <3>1. TRUE \in BOOLEAN
        OBVIOUS
      <3>2. Unset \notin BOOLEAN
        BY NullAssumption
      <3>3. QED
        BY <3>1, <3>2, Zenon
    <2>2. patch.revoked # Unset /\ patch.revoked = TRUE /\ patch.partner_id = Unset
      <3>1. patch.revoked = TRUE
        BY <1>2 DEF RevokePatch
      <3>2. patch.revoked # Unset
        BY <2>1, <3>1, Zenon
      <3>3. patch.partner_id = Unset
        BY <1>2 DEF RevokePatch
      <3>4. QED
        BY <3>1, <3>2, <3>3
    <2>3. QED
      BY <2>2 DEF Merge, KeyRow
  <1>3. QED
    BY <1>1, <1>2

(* A PATCH laid over a partner's row: its status is the one of the body.      *)
LEMMA MergePartner ==
    ASSUME NEW row \in PartnerRow, NEW patch \in PartnerPatch
    PROVE  /\ Merge(row, patch) \in PartnerRecord
           /\ Merge(row, patch).status = patch.status
  <1>1. patch.status # Unset
    BY NullAssumption DEF PartnerPatch, Status
  <1>2. QED
    BY <1>1 DEF Merge, PartnerRow, PartnerPatch, PartnerRecord

(* UPDATE keeps the partner of a key when the record does, and keeps `revoked` *)
(* unless the record writes a false over it.                                  *)
LEMMA WrittenKey ==
    ASSUME NEW row \in KeyRow, NEW rec \in KeyRow, NEW dirty
    PROVE  /\ Written(row, rec, dirty) \in KeyRow
           /\ rec.partner_id = row.partner_id
                => Written(row, rec, dirty).partner_id = row.partner_id
           /\ row.revoked /\ ("revoked" \in dirty => rec.revoked)
                => Written(row, rec, dirty).revoked
  BY DEF Written, KeyRow

(* UPDATE leaves a partner's row a partner's row: what is undefined is no     *)
(* column of it.                                                              *)
LEMMA WrittenPartner ==
    ASSUME NEW row \in PartnerRow, NEW rec \in PartnerRecord, NEW dirty,
           "status" \in dirty => rec.status # Undefined
    PROVE  Written(row, rec, dirty) \in PartnerRow
  BY DEF Written, PartnerRow, PartnerRecord

(* The columns save finds changed are columns of the row.                     *)
LEMMA DirtyColumns ==
    /\ \A row, rec \in KeyRow : Dirty(rec, row) \subseteq {"revoked", "partner_id"}
    /\ \A row \in PartnerRow, rec \in PartnerRecord : Dirty(rec, row) \subseteq {"status", "slug"}
    /\ \A row, rec : "status" \in Dirty(rec, row) => rec.status # Undefined
  BY DEF Dirty, KeyRow, PartnerRow

-----------------------------------------------------------------------------
(* The initial state.                                                         *)

(* The fixtures and an idle slot are of their types.                          *)
LEMMA IdleType ==
    /\ Idle \in SlotType /\ NoPatch \in PartnerPatch
    /\ SeedPartnerRow \in PartnerRow /\ SeedKeyRow \in KeyRow
    /\ SeedPartnerRow \in PartnerRecord
  BY FixtureAssumption DEF Idle, SlotType, Op, PC, PartnerPatch, NoPatch, Status,
     PartnerRow, PartnerRecord, SeedPartnerRow, KeyRow, SeedKeyRow, Response

(* An idle slot knows nothing, so it is right about everything.               *)
LEMMA IdleLocal == Local(Idle)
  BY DEF Local, SaveKeepsBinding, AuthHoldsBinding, PatchKnowsPartner, PatchPC,
     PatchKnowsSlug, IssueKnowsPartner, Idle

(* The invariant holds when the service first listens.                        *)
LEMMA InitInv == Init => IInv
  <1> SUFFICES ASSUME Init PROVE IInv
    OBVIOUS
  <1>1. TypeOK
    BY IdleType, BoundAssumption DEF Init, TypeOK
  <1>2. FixturesKept /\ KeysHavePartners
    BY FixtureAssumption, NullAssumption, IdleType
    DEF Init, FixturesKept, KeysHavePartners, PartnerIds, KeyIds,
        SeedPartnerRow, SeedKeyRow, KeyRow, PartnerRow, Status
  <1>3. Flow
    BY <1>2, IdleLocal DEF Init, Flow
  <1>4. QED
    BY <1>1, <1>3 DEF IInv

-----------------------------------------------------------------------------
(* What every step of one request has in common: one slot moves, no row        *)
(* disappears, and no key changes hands.                                       *)

Tables ==
    /\ partners \in [Partner -> PartnerRow \cup {Absent}]
    /\ keys \in [Key -> KeyRow \cup {Absent}]

Histories ==
    /\ acked \subseteq Key /\ late \subseteq Request /\ shut \subseteq Request
    /\ disableAcked \subseteq Partner

RowsKept ==
    /\ PartnerIds \subseteq PartnerIds'
    /\ \A k \in KeyIds : k \in KeyIds' /\ keys'[k].partner_id = keys[k].partner_id

(* Move changes one slot.                                                     *)
LEMMA Moved ==
    ASSUME TypeOK, NEW r \in Request, NEW new \in SlotType, Move(r, new)
    PROVE  /\ slot' \in [Request -> SlotType] /\ slot'[r] = new
           /\ \A q \in Request \ {r} : slot'[q] = slot[q]
  BY DEF TypeOK, Move

(* What a request knows stays right while rows are kept.                      *)
LEMMA LocalKept ==
    ASSUME NEW s \in SlotType, Local(s), RowsKept
    PROVE  Local(s)'
  BY DEF Local, RowsKept, SaveKeepsBinding, AuthHoldsBinding, PatchKnowsPartner,
     PatchKnowsSlug, IssueKnowsPartner

(* The frame of every step of a request: it is enough that the rows are kept, *)
(* that the mover's new locals are right afterwards, and that no partner of a *)
(* request in `shut` comes back.                                              *)
LEMMA FrameStep ==
    ASSUME IInv, NEW r \in Request, NEW new \in SlotType, Move(r, new), Local(new)',
           process = "up", UNCHANGED <<process, crashes>>,
           Tables', Histories', RowsKept, KeysHavePartners',
           \A q \in shut' \ {r} :
              q \in shut /\ (IsDisabled(slot[q].partner) => IsDisabled(slot[q].partner)'),
           r \in shut' => ShutOut(new)'
    PROVE  IInv'
  <1> USE DEF IInv
  <1>1. TypeOK'
    BY Moved DEF TypeOK, Tables, Histories
  <1>2. FixturesKept'
    BY DEF Flow, FixturesKept, RowsKept
  <1>3. ASSUME NEW q \in Request PROVE Local(slot[q])'
    <2>1. CASE q = r
      BY <2>1, Moved
    <2>2. CASE q # r
      <3>1. slot'[q] = slot[q] /\ slot[q] \in SlotType /\ Local(slot[q])
        BY <2>2, Moved DEF TypeOK, Flow
      <3>2. QED
        BY <3>1, LocalKept
    <2>3. QED
      BY <2>1, <2>2
  <1>4. ASSUME NEW q \in shut' PROVE ShutOut(slot[q])'
    <2>1. CASE q = r
      BY <2>1, Moved
    <2>2. CASE q # r
      <3>1. q \in Request /\ slot'[q] = slot[q] /\ ShutOut(slot[q])
        BY <2>2, Moved DEF Flow, Histories
      <3>2. QED
        BY <2>2, <3>1 DEF ShutOut
    <2>3. QED
      BY <2>1, <2>2
  <1>5. QED
    BY <1>1, <1>2, <1>3, <1>4 DEF Flow

(* A step that touches no table: the new locals need only be right now.       *)
LEMMA LocalStep ==
    ASSUME IInv, NEW r \in Request, NEW new \in SlotType, Move(r, new), Local(new),
           process = "up", UNCHANGED <<partners, keys, process, crashes>>, Histories',
           shut' \subseteq shut \cup {r}, r \in shut' => ShutOut(new)
    PROVE  IInv'
  <1>1. Tables' /\ RowsKept /\ KeysHavePartners'
    BY DEF IInv, TypeOK, Flow, Tables, RowsKept, KeysHavePartners, PartnerIds, KeyIds
  <1>2. Local(new)' /\ (r \in shut' => ShutOut(new)')
    BY LocalKept, <1>1 DEF ShutOut, IsDisabled, PartnerIds
  <1>3. \A q \in shut' \ {r} :
           q \in shut /\ (IsDisabled(slot[q].partner) => IsDisabled(slot[q].partner)')
    BY Moved DEF IInv, IsDisabled, PartnerIds, Histories
  <1>4. QED
    BY FrameStep, <1>1, <1>2, <1>3

(* A step that writes a row, by a request that is not shut out.               *)
LEMMA TableStep ==
    ASSUME IInv, NEW r \in Request, NEW new \in SlotType, Move(r, new), Local(new),
           process = "up", UNCHANGED <<process, crashes>>,
           Tables', Histories', RowsKept, KeysHavePartners',
           \A q \in shut' \ {r} :
              q \in shut /\ (IsDisabled(slot[q].partner) => IsDisabled(slot[q].partner)'),
           r \in shut' => new.op \notin {"use", "issue"}
    PROVE  IInv'
  <1>1. Local(new)'
    BY LocalKept
  <1>2. r \in shut' => ShutOut(new)'
    BY DEF ShutOut
  <1>3. QED
    BY FrameStep, <1>1, <1>2

-----------------------------------------------------------------------------
(* The arrival of a request, and its end.                                     *)

(* A request that arrives with locals that are right keeps the invariant.     *)
LEMMA AdmitStep ==
    ASSUME IInv, NEW r \in Request, NEW op \in Op, NEW pc \in PC, NEW key \in Key,
           NEW partner \in Partner \cup {NoPartner}, NEW patch \in PartnerPatch,
           Admit(r, op, pc, key, partner, patch), late' \subseteq Request,
           disableAcked' \subseteq Partner,
           Local([Idle EXCEPT !.op = op, !.pc = pc, !.key = key,
                              !.partner = partner, !.patch = patch]),
           op \in {"use", "issue"} /\ IsDisabled(partner) => pc \in {"auth_find", "gen_check"}
    PROVE  IInv'
  <1> DEFINE new == [Idle EXCEPT !.op = op, !.pc = pc, !.key = key,
                                 !.partner = partner, !.patch = patch]
  <1>1. new \in SlotType
    BY IdleType DEF SlotType
  <1>2. Move(r, new) /\ process = "up" /\ UNCHANGED <<partners, keys, process, crashes>>
    BY DEF Admit
  <1>3. Histories' /\ shut' \subseteq shut \cup {r}
    BY DEF Admit, Histories, IInv, TypeOK
  <1>4. r \in shut' => ShutOut(new)
    BY DEF Admit, ShutOut, Idle
  <1>5. QED
    BY LocalStep, <1>1, <1>2, <1>3, <1>4

(* Every arrival keeps the invariant.                                         *)
LEMMA ArriveStep ==
    ASSUME IInv, NEW r \in Request, Arrive(r)
    PROVE  IInv'
  <1> USE DEF Local, SaveKeepsBinding, AuthHoldsBinding, PatchKnowsPartner, PatchPC,
          PatchKnowsSlug, IssueKnowsPartner
  <1>1. CASE Call(r)
    <2>1. PICK k \in KeyIds :
             /\ Admit(r, "use", "auth_find", k, keys[k].partner_id, NoPatch)
             /\ late' = IF k \in acked THEN late \cup {r} ELSE late
      BY <1>1 DEF Call
    <2>2. k \in Key /\ keys[k].partner_id \in Partner \cup {NoPartner}
      BY DEF IInv, TypeOK, KeyIds, KeyRow
    <2>3. Local([Idle EXCEPT !.op = "use", !.pc = "auth_find", !.key = k,
                             !.partner = keys[k].partner_id, !.patch = NoPatch])
      BY <2>2 DEF Idle
    <2>4. late' \subseteq Request /\ disableAcked' \subseteq Partner
      BY <1>1, <2>1 DEF Call, IInv, TypeOK
    <2>5. "use" \in Op /\ "auth_find" \in PC
      BY DEF Op, PC
    <2> DEFINE holder == keys[k].partner_id
    <2> HIDE DEF holder, Local
    <2>6. QED
      BY <2>1, <2>2, <2>3, <2>4, <2>5, AdmitStep, IdleType DEF holder
  <1>2. CASE IssueKey(r)
    <2>1. PICK p \in Partner \cup {NoPartner} :
             Admit(r, "issue", IF p = NoPartner THEN "gen_insert" ELSE "gen_check",
                   SeedKey, p, NoPatch)
      BY <1>2 DEF IssueKey
    <2> DEFINE pc == IF p = NoPartner THEN "gen_insert" ELSE "gen_check"
    <2>2. Local([Idle EXCEPT !.op = "issue", !.pc = pc, !.key = SeedKey,
                             !.partner = p, !.patch = NoPatch])
      BY DEF Idle
    <2>3. IsDisabled(p) => pc \in {"auth_find", "gen_check"}
      BY NullAssumption DEF IsDisabled, PartnerIds
    <2>4. pc \in PC
      BY DEF PC
    <2>5. late' \subseteq Request /\ disableAcked' \subseteq Partner
      BY <1>2 DEF IssueKey, IInv, TypeOK
    <2>6. "issue" \in Op
      BY DEF Op
    <2>7. Admit(r, "issue", pc, SeedKey, p, NoPatch)
      BY <2>1
    <2> HIDE DEF pc, Local
    <2>8. QED
      BY <2>2, <2>3, <2>4, <2>5, <2>6, <2>7, AdmitStep, IdleType, FixtureAssumption
  <1>3. CASE RevokeKey(r)
    <2>1. PICK k \in Key : Admit(r, "revoke", "key_get", k, NoPartner, NoPatch)
      BY <1>3 DEF RevokeKey
    <2>2. Local([Idle EXCEPT !.op = "revoke", !.pc = "key_get", !.key = k,
                             !.partner = NoPartner, !.patch = NoPatch])
      BY DEF Idle
    <2>3. late' \subseteq Request /\ disableAcked' \subseteq Partner
      BY <1>3 DEF RevokeKey, IInv, TypeOK
    <2>4. "revoke" \in Op /\ "key_get" \in PC
      BY DEF Op, PC
    <2> HIDE DEF Local
    <2>5. QED
      BY <2>1, <2>2, <2>3, <2>4, AdmitStep, IdleType
  <1>4. CASE CreatePartner(r)
    <2>1. PICK s \in Slug : Admit(r, "create", "create_check", SeedKey, NoPartner,
                                  [NoPatch EXCEPT !.slug = s])
      BY <1>4 DEF CreatePartner
    <2>2. [NoPatch EXCEPT !.slug = s] \in PartnerPatch
      BY DEF NoPatch, PartnerPatch
    <2>3. Local([Idle EXCEPT !.op = "create", !.pc = "create_check", !.key = SeedKey,
                             !.partner = NoPartner,
                             !.patch = [NoPatch EXCEPT !.slug = s]])
      BY DEF Idle, NoPatch
    <2>4. late' \subseteq Request /\ disableAcked' \subseteq Partner
      BY <1>4 DEF CreatePartner, IInv, TypeOK
    <2>5. "create" \in Op /\ "create_check" \in PC
      BY DEF Op, PC
    <2> DEFINE body == [NoPatch EXCEPT !.slug = s]
    <2> HIDE DEF body, Local
    <2>6. QED
      BY <2>1, <2>2, <2>3, <2>4, <2>5, AdmitStep, FixtureAssumption DEF body
  <1>5. CASE PatchPartner(r)
    <2>1. PICK p \in Partner, patch \in PartnerPatch :
             /\ Admit(r, "patch", "patch_before", SeedKey, p, patch)
             /\ disableAcked' = IF patch.status = "active" THEN disableAcked \ {p}
                                                           ELSE disableAcked
      BY <1>5 DEF PatchPartner
    <2>2. Local([Idle EXCEPT !.op = "patch", !.pc = "patch_before", !.key = SeedKey,
                             !.partner = p, !.patch = patch])
      BY DEF Idle
    <2>3. late' \subseteq Request /\ disableAcked' \subseteq Partner
      BY <1>5, <2>1 DEF PatchPartner, IInv, TypeOK
    <2>4. "patch" \in Op /\ "patch_before" \in PC
      BY DEF Op, PC
    <2> HIDE DEF Local
    <2>5. QED
      BY <2>1, <2>2, <2>3, <2>4, AdmitStep, FixtureAssumption
  <1>6. QED
    BY <1>1, <1>2, <1>3, <1>4, <1>5 DEF Arrive

(* Freeing a slot keeps the invariant.                                        *)
LEMMA FinishStep ==
    ASSUME IInv, NEW r \in Request, Finish(r)
    PROVE  IInv'
  BY LocalStep, IdleType, IdleLocal DEF Finish, At, Histories, IInv, TypeOK

-----------------------------------------------------------------------------
(* The steps of a handler.                                                    *)

Answered(s, code) ==
    [s EXCEPT !.pc = "done", !.res = code, !.before = "active",
              !.ptnRec = SeedPartnerRow, !.keyRec = SeedKeyRow, !.dirty = {}]

(* A slot that has answered is a slot.                                        *)
LEMMA AnsweredType ==
    ASSUME NEW s \in SlotType, NEW code \in Response
    PROVE  Answered(s, code) \in SlotType
  BY IdleType DEF SlotType, Answered, PC, Status

(* A slot that has answered holds nothing that could be wrong.                *)
LEMMA AnsweredLocal ==
    ASSUME NEW s \in SlotType, NEW code \in Response, Local(s)
    PROVE  Local(Answered(s, code))
  BY DEF Local, SaveKeepsBinding, AuthHoldsBinding, PatchKnowsPartner, PatchPC,
     PatchKnowsSlug, IssueKnowsPartner, SlotType, Answered

(* What the invariant says of one slot.                                       *)
LEMMA SlotFacts ==
    ASSUME IInv, NEW r \in Request
    PROVE  /\ slot[r] \in SlotType /\ Local(slot[r]) /\ Histories
           /\ r \in shut => ShutOut(slot[r])
  BY DEF IInv, TypeOK, Flow, Histories

(* The local variables keep their types.                                      *)
LEMMA GoOnType ==
    ASSUME NEW s \in SlotType, NEW pc \in PC
    PROVE  /\ [s EXCEPT !.pc = pc] \in SlotType
           /\ \A p \in Partner \cup {NoPartner} :
                 [s EXCEPT !.pc = pc, !.partner = p] \in SlotType
           /\ \A row \in KeyRow : [s EXCEPT !.pc = pc, !.keyRec = row] \in SlotType
           /\ \A rec \in PartnerRecord : [s EXCEPT !.pc = pc, !.ptnRec = rec] \in SlotType
           /\ \A st \in Status : [s EXCEPT !.pc = pc, !.before = st] \in SlotType
           /\ \A ks \in SUBSET Key : [s EXCEPT !.pc = pc, !.live = ks] \in SlotType
           /\ \A k \in Key, row \in KeyRow, ks \in SUBSET Key :
                 [s EXCEPT !.pc = pc, !.key = k, !.keyRec = row, !.live = ks] \in SlotType
  BY DEF SlotType

(* A handler that returns without touching a table.                           *)
LEMMA RespondStep ==
    ASSUME IInv, NEW r \in Request, NEW code \in Response, Respond(r, code),
           process = "up", UNCHANGED <<partners, keys, process, crashes, shut>>, Histories',
           r \in shut /\ slot[r].op \in {"use", "issue"} => code # "200"
    PROVE  IInv'
  <1>1. Move(r, Answered(slot[r], code))
    BY DEF Respond, Answered
  <1>2. r \in shut => ShutOut(Answered(slot[r], code))
    BY SlotFacts DEF ShutOut, Answered, SlotType
  <1>3. QED
    BY <1>1, <1>2, SlotFacts, AnsweredType, AnsweredLocal, LocalStep

(* A handler that moves on to another program counter, for a request that is   *)
(* not shut out, or to one where it may still be turned away.                  *)
LEMMA GoOnStep ==
    ASSUME IInv, NEW r \in Request, NEW new \in SlotType, Move(r, new), Local(new),
           process = "up", UNCHANGED <<partners, keys, process, crashes, history>>,
           new.op = slot[r].op, new.partner = slot[r].partner, new.res = slot[r].res,
           slot[r].pc # "done",
           slot[r].pc \in {"auth_find", "auth_partner", "gen_check"} =>
              new.pc = "auth_partner" \/ ~IsDisabled(slot[r].partner)
    PROVE  IInv'
  <1>1. Histories'
    BY SlotFacts DEF Histories, history
  <1>2. r \in shut => ShutOut(new)
    <2> SUFFICES ASSUME r \in shut, slot[r].op \in {"use", "issue"}
                 PROVE  ShutOut(new)
      BY DEF ShutOut
    <2>1. /\ IsDisabled(slot[r].partner) /\ slot[r].res # "200"
          /\ slot[r].pc \in {"auth_find", "auth_partner", "gen_check", "done"}
      BY SlotFacts DEF ShutOut
    <2>2. QED
      BY <2>1 DEF ShutOut
  <1>3. QED
    BY <1>1, <1>2, LocalStep DEF history

(* The caller's key names the partner the key row names now: RowsKept.        *)
LEMMA AuthFindStep == ASSUME IInv, NEW r \in Request, AuthFind(r) PROVE IInv'
  <1> DEFINE key == keys[slot[r].key]
             new == [slot[r] EXCEPT !.pc = IF key.partner_id = NoPartner
                                           THEN "key_get" ELSE "auth_partner",
                                    !.partner = key.partner_id]
  <1>1. /\ process = "up" /\ slot[r].pc = "auth_find"
        /\ UNCHANGED <<partners, keys, process, crashes, history>>
    BY DEF AuthFind, At
  <1>2. /\ slot[r].op = "use" /\ slot[r].key \in KeyIds
        /\ slot[r].partner = key.partner_id
    BY <1>1, SlotFacts DEF Local, AuthHoldsBinding
  <1>3. CASE Respond(r, "401")
    BY <1>1, <1>3, SlotFacts, RespondStep DEF Response, Histories, history
  <1>4. CASE Move(r, new)
    <2>1. new \in SlotType
      <3>1. key.partner_id \in Partner \cup {NoPartner}
        BY <1>2, SlotFacts DEF SlotType
      <3>2. (IF key.partner_id = NoPartner THEN "key_get" ELSE "auth_partner") \in PC
        BY DEF PC
      <3>3. QED
        BY <3>1, <3>2, SlotFacts, GoOnType
    <2>2. Local(new)
      BY <1>2, SlotFacts DEF Local, SaveKeepsBinding, AuthHoldsBinding,
         PatchKnowsPartner, PatchPC, PatchKnowsSlug, IssueKnowsPartner, SlotType
    <2>3. new.pc = "auth_partner" \/ ~IsDisabled(slot[r].partner)
      BY <1>2, SlotFacts, NullAssumption DEF IsDisabled, PartnerIds, SlotType
    <2>4. new.op = slot[r].op /\ new.partner = slot[r].partner /\ new.res = slot[r].res
      BY <1>2, SlotFacts DEF SlotType
    <2> HIDE DEF new
    <2>5. QED
      BY <1>1, <1>4, <2>1, <2>2, <2>3, <2>4, GoOnStep
  <1>5. QED
    BY <1>3, <1>4 DEF AuthFind

(* A disabled partner's call is not let past this check.                      *)
LEMMA AuthPartnerStep == ASSUME IInv, NEW r \in Request, AuthPartner(r) PROVE IInv'
  <1> DEFINE new == [slot[r] EXCEPT !.pc = "key_get"]
  <1>1. /\ process = "up" /\ slot[r].pc = "auth_partner"
        /\ UNCHANGED <<partners, keys, process, crashes, history>>
    BY DEF AuthPartner, At
  <1>2. CASE Respond(r, "403")
    BY <1>1, <1>2, SlotFacts, RespondStep DEF Response, Histories, history
  <1>3. CASE ~IsDisabled(slot[r].partner) /\ Move(r, new)
    <2>1. new \in SlotType
      BY SlotFacts DEF SlotType, PC
    <2>2. Local(new)
      BY <1>1, SlotFacts DEF Local, SaveKeepsBinding, AuthHoldsBinding,
         PatchKnowsPartner, PatchPC, PatchKnowsSlug, IssueKnowsPartner, SlotType
    <2>3. new.op = slot[r].op /\ new.partner = slot[r].partner /\ new.res = slot[r].res
      BY SlotFacts DEF SlotType
    <2> HIDE DEF new
    <2>4. QED
      BY <1>1, <1>3, <2>1, <2>2, <2>3, GoOnStep
  <1>4. QED
    BY <1>2, <1>3 DEF AuthPartner

(* The record to save names the partner of the row it was read from.          *)
LEMMA KeyGetStep == ASSUME IInv, NEW r \in Request, KeyGet(r) PROVE IInv'
  <1> DEFINE k == slot[r].key
             rec == Merge(keys[k], KeyPatch(r))
             new == [slot[r] EXCEPT !.pc = "key_load", !.keyRec = rec]
  <1>1. /\ process = "up" /\ slot[r].pc = "key_get"
        /\ UNCHANGED <<partners, keys, process, crashes, history>>
    BY DEF KeyGet, At
  <1>2. CASE Respond(r, "200")
    BY <1>1, <1>2, SlotFacts, RespondStep DEF ShutOut, Response, Histories, history
  <1>3. CASE keys[k] # Absent /\ Move(r, new)
    <2>1. k \in KeyIds /\ keys[k] \in KeyRow
      BY <1>3, SlotFacts DEF SlotType, KeyIds, IInv, TypeOK
    <2>2. rec \in KeyRow /\ rec.partner_id = keys[k].partner_id
      BY <2>1, MergeKey DEF KeyPatch
    <2> HIDE DEF rec
    <2>3. new \in SlotType
      BY <2>2, SlotFacts, GoOnType DEF PC
    <2>4. Local(new)
      BY <1>1, <2>1, <2>2, SlotFacts DEF Local, SaveKeepsBinding, AuthHoldsBinding,
         PatchKnowsPartner, PatchPC, PatchKnowsSlug, IssueKnowsPartner, SlotType
    <2>5. new.op = slot[r].op /\ new.partner = slot[r].partner /\ new.res = slot[r].res
      BY SlotFacts DEF SlotType
    <2> HIDE DEF new
    <2>6. QED
      BY <1>1, <1>3, <2>3, <2>4, <2>5, GoOnStep
  <1>4. QED
    BY <1>2, <1>3 DEF KeyGet

(* save's SELECT changes only which columns are dirty.                        *)
LEMMA KeyLoadStep == ASSUME IInv, NEW r \in Request, KeyLoad(r) PROVE IInv'
  <1> DEFINE cols == Dirty(slot[r].keyRec, keys[slot[r].key])
             new == [slot[r] EXCEPT !.pc = "key_write", !.dirty = cols]
  <1>1. /\ process = "up" /\ slot[r].pc = "key_load" /\ Move(r, new)
        /\ UNCHANGED <<partners, keys, process, crashes, history>>
    BY DEF KeyLoad, At
  <1>2. slot[r].key \in KeyIds /\ keys[slot[r].key] \in KeyRow /\ slot[r].keyRec \in KeyRow
    BY <1>1, SlotFacts DEF Local, SaveKeepsBinding, KeyIds, IInv, TypeOK, SlotType
  <1>3. cols \subseteq {"revoked", "partner_id"}
    BY <1>2, DirtyColumns
  <1> HIDE DEF cols
  <1>4. new \in SlotType
    BY <1>3, SlotFacts DEF SlotType, PC
  <1>5. Local(new)
    BY <1>1, SlotFacts DEF Local, SaveKeepsBinding, AuthHoldsBinding,
       PatchKnowsPartner, PatchPC, PatchKnowsSlug, IssueKnowsPartner, SlotType
  <1>6. new.op = slot[r].op /\ new.partner = slot[r].partner /\ new.res = slot[r].res
    BY SlotFacts DEF SlotType
  <1> HIDE DEF new
  <1>7. QED
    BY <1>1, <1>4, <1>5, <1>6, GoOnStep

(* The one step of a save that writes a key: its partner stays.               *)
LEMMA KeyWriteStep == ASSUME IInv, NEW r \in Request, KeyWrite(r) PROVE IInv'
  <1> DEFINE k == slot[r].key
             row == Written(keys[k], slot[r].keyRec, slot[r].dirty)
             new == [slot[r] EXCEPT !.pc = "revoke_each", !.key = SeedKey,
                                    !.keyRec = SeedKeyRow, !.dirty = {}]
  <1>1. /\ process = "up" /\ slot[r].pc = "key_write"
        /\ keys' = [keys EXCEPT ![k] = row]
        /\ acked' = IF slot[r].op = "revoke" THEN acked \cup {k} ELSE acked
        /\ UNCHANGED <<partners, process, crashes, late, shut, disableAcked>>
    BY DEF KeyWrite, At
  <1>2. /\ k \in KeyIds /\ keys[k] \in KeyRow /\ slot[r].keyRec \in KeyRow
        /\ slot[r].keyRec.partner_id = keys[k].partner_id
    BY <1>1, SlotFacts DEF Local, SaveKeepsBinding, KeyIds, IInv, TypeOK, SlotType
  <1>3. row \in KeyRow /\ row.partner_id = keys[k].partner_id
    BY <1>2, WrittenKey
  <1> HIDE DEF row
  <1>4. row # Absent
    BY <1>3, NullAssumption DEF KeyRow
  <1>5. Tables'
    BY <1>1, <1>3 DEF Tables, IInv, TypeOK
  <1>6. RowsKept
    BY <1>1, <1>2, <1>3, <1>4 DEF RowsKept, KeyIds, PartnerIds, IInv, TypeOK
  <1>7. KeysHavePartners'
    <2> SUFFICES ASSUME NEW j \in Key, keys'[j] # Absent
                 PROVE  keys'[j].partner_id \in PartnerIds' \cup {NoPartner}
      BY DEF KeysHavePartners, KeyIds
    <2>1. j \in KeyIds
      BY <1>1, <1>2 DEF KeyIds, IInv, TypeOK
    <2>2. QED
      BY <2>1, <1>6 DEF RowsKept, IInv, Flow, KeysHavePartners
  <1>8. Histories'
    BY <1>1, SlotFacts DEF Histories, SlotType
  <1>9. r \notin shut \/ slot[r].op \notin {"use", "issue"}
    BY <1>1, SlotFacts DEF ShutOut
  <1>10. \A q \in shut' \ {r} :
            q \in shut /\ (IsDisabled(slot[q].partner) => IsDisabled(slot[q].partner)')
    <2> SUFFICES ASSUME NEW q \in shut \ {r}, IsDisabled(slot[q].partner)
                 PROVE  IsDisabled(slot[q].partner)'
      BY <1>1
    <2>1. slot'[q] = slot[q]
      BY SlotFacts DEF KeyWrite, Respond, Move, Histories, IInv, TypeOK
    <2>2. QED
      BY <1>1, <2>1 DEF IsDisabled, PartnerIds
  <1>11. CASE slot[r].op = "patch" /\ Move(r, new)
    <2>1. new \in SlotType
      BY SlotFacts, FixtureAssumption, IdleType DEF SlotType, PC
    <2>2. Local(new)
      BY <1>1, <1>2, <1>11, SlotFacts DEF Local, SaveKeepsBinding,
         AuthHoldsBinding, PatchKnowsPartner, PatchPC, PatchKnowsSlug, IssueKnowsPartner,
         SlotType
    <2>3. new.op = "patch"
      BY <1>11, SlotFacts DEF SlotType
    <2> HIDE DEF new
    <2>4. QED
      BY <1>1, <1>5, <1>6, <1>7, <1>8, <1>10, <1>11, <2>1, <2>2, <2>3, TableStep
  <1>12. CASE Respond(r, "200")
    <2> DEFINE ans == Answered(slot[r], "200")
    <2>1. Move(r, ans) /\ ans.op = slot[r].op
      BY <1>12, SlotFacts DEF Respond, Answered, SlotType
    <2>2. ans \in SlotType /\ Local(ans)
      BY SlotFacts, AnsweredType, AnsweredLocal DEF Response
    <2> HIDE DEF ans
    <2>3. r \in shut' => ans.op \notin {"use", "issue"}
      BY <2>1, <1>1, <1>9
    <2>4. QED
      BY <1>1, <1>5, <1>6, <1>7, <1>8, <1>10, <2>1, <2>2, <2>3, TableStep
  <1>13. QED
    BY <1>11, <1>12 DEF KeyWrite

(* No key is generated for a partner that is disabled or missing.             *)
LEMMA GenCheckStep == ASSUME IInv, NEW r \in Request, GenCheck(r) PROVE IInv'
  <1> DEFINE new == [slot[r] EXCEPT !.pc = "gen_insert"]
  <1>1. /\ process = "up" /\ slot[r].pc = "gen_check"
        /\ UNCHANGED <<partners, keys, process, crashes, history>>
    BY DEF GenCheck, At
  <1>2. CASE Respond(r, "400")
    BY <1>1, <1>2, SlotFacts, RespondStep DEF Response, Histories, history
  <1>3. CASE partners[slot[r].partner] # Absent /\ ~IsDisabled(slot[r].partner) /\ Move(r, new)
    <2>1. new \in SlotType
      BY SlotFacts, GoOnType DEF PC
    <2>2. Local(new)
      BY <1>1, <1>3, SlotFacts DEF Local, SaveKeepsBinding, AuthHoldsBinding,
         PatchKnowsPartner, PatchPC, PatchKnowsSlug, IssueKnowsPartner, SlotType, PartnerIds
    <2>3. new.op = slot[r].op /\ new.partner = slot[r].partner /\ new.res = slot[r].res
      BY SlotFacts DEF SlotType
    <2> HIDE DEF new
    <2>4. QED
      BY <1>1, <1>3, <2>1, <2>2, <2>3, GoOnStep
  <1>4. QED
    BY <1>2, <1>3 DEF GenCheck

(* A free slug lets the creation go on.                                       *)
LEMMA CreateCheckStep == ASSUME IInv, NEW r \in Request, CreateCheck(r) PROVE IInv'
  <1> DEFINE new == [slot[r] EXCEPT !.pc = "create_insert"]
  <1>1. /\ process = "up" /\ slot[r].pc = "create_check"
        /\ UNCHANGED <<partners, keys, process, crashes, history>>
    BY DEF CreateCheck, At
  <1>2. CASE Respond(r, "409")
    BY <1>1, <1>2, SlotFacts, RespondStep DEF Response, Histories, history
  <1>3. CASE Move(r, new)
    <2>1. new \in SlotType
      BY SlotFacts, GoOnType DEF PC
    <2>2. Local(new)
      BY <1>1, <1>3, SlotFacts DEF Local, SaveKeepsBinding, AuthHoldsBinding,
         PatchKnowsPartner, PatchPC, PatchKnowsSlug, IssueKnowsPartner, SlotType
    <2>3. new.op = slot[r].op /\ new.partner = slot[r].partner /\ new.res = slot[r].res
      BY SlotFacts DEF SlotType
    <2> HIDE DEF new
    <2>4. QED
      BY <1>1, <1>3, <2>1, <2>2, <2>3, GoOnStep
  <1>4. QED
    BY <1>2, <1>3 DEF CreateCheck

(* A free slug lets the PATCH go on.                                          *)
LEMMA SlugCheckStep == ASSUME IInv, NEW r \in Request, SlugCheck(r) PROVE IInv'
  <1> DEFINE new == [slot[r] EXCEPT !.pc = "ptn_get"]
  <1>1. /\ process = "up" /\ slot[r].pc = "slug_check"
        /\ UNCHANGED <<partners, keys, process, crashes, history>>
    BY DEF SlugCheck, At
  <1>2. CASE Respond(r, "409")
    BY <1>1, <1>2, SlotFacts, RespondStep DEF Response, Histories, history
  <1>3. CASE Move(r, new)
    <2>1. new \in SlotType
      BY SlotFacts, GoOnType DEF PC
    <2>2. Local(new)
      BY <1>1, <1>3, SlotFacts DEF Local, SaveKeepsBinding, AuthHoldsBinding,
         PatchKnowsPartner, PatchPC, PatchKnowsSlug, IssueKnowsPartner, SlotType
    <2>3. new.op = slot[r].op /\ new.partner = slot[r].partner /\ new.res = slot[r].res
      BY SlotFacts DEF SlotType
    <2> HIDE DEF new
    <2>4. QED
      BY <1>1, <1>3, <2>1, <2>2, <2>3, GoOnStep
  <1>4. QED
    BY <1>2, <1>3 DEF SlugCheck

(* From here on the PATCH knows that its partner has a row.                   *)
LEMMA PatchBeforeStep == ASSUME IInv, NEW r \in Request, PatchBefore(r) PROVE IInv'
  <1> DEFINE p == slot[r].partner
             pc == IF slot[r].patch.slug = Unset THEN "ptn_get" ELSE "slug_check"
             new == [slot[r] EXCEPT !.pc = pc, !.before = partners[p].status]
  <1>1. /\ process = "up" /\ slot[r].pc = "patch_before"
        /\ UNCHANGED <<partners, keys, process, crashes, history>>
    BY DEF PatchBefore, At
  <1>2. CASE Respond(r, "404")
    BY <1>1, <1>2, SlotFacts, RespondStep DEF Response, Histories, history
  <1>3. CASE partners[p] # Absent /\ Move(r, new)
    <2>1. slot[r].op = "patch" /\ p \in PartnerIds /\ partners[p] \in PartnerRow
      BY <1>1, <1>3, SlotFacts
      DEF Local, PatchKnowsPartner, PatchPC, PartnerIds, IInv, TypeOK
    <2>2. pc \in {"ptn_get", "slug_check"} /\ pc \in PC
      BY DEF PC
    <2> HIDE DEF pc
    <2>3. new \in SlotType
      BY <2>1, <2>2, SlotFacts, GoOnType DEF PartnerRow
    <2>4. Local(new)
      BY <1>1, <2>1, <2>2, SlotFacts DEF Local, SaveKeepsBinding, AuthHoldsBinding,
         PatchKnowsPartner, PatchPC, PatchKnowsSlug, IssueKnowsPartner, SlotType
    <2>5. new.op = slot[r].op /\ new.partner = slot[r].partner /\ new.res = slot[r].res
      BY SlotFacts DEF SlotType
    <2> HIDE DEF new
    <2>6. QED
      BY <1>1, <1>3, <2>3, <2>4, <2>5, GoOnStep
  <1>4. QED
    BY <1>2, <1>3 DEF PatchBefore

(* The partner a PATCH is saving has a row, and the record has its columns.    *)
LEMMA PartnerSaveFacts ==
    ASSUME IInv, NEW r \in Request, slot[r].pc \in {"ptn_get", "ptn_load", "ptn_write"}
    PROVE  /\ slot[r].op = "patch" /\ slot[r].partner \in PartnerIds
           /\ partners[slot[r].partner] \in PartnerRow
           /\ slot[r].ptnRec \in PartnerRecord /\ slot[r].patch \in PartnerPatch
           /\ slot[r].pc \in {"ptn_load", "ptn_write"} => slot[r].ptnRec.status = slot[r].patch.status
           /\ slot[r].pc = "ptn_write" /\ "status" \in slot[r].dirty
                 => slot[r].ptnRec.status # Undefined
  BY SlotFacts DEF Local, PatchKnowsPartner, PatchPC, PartnerIds, IInv, TypeOK, SlotType

(* The record to save is a partner's row with the PATCH laid over it.         *)
LEMMA PartnerGetStep == ASSUME IInv, NEW r \in Request, PartnerGet(r) PROVE IInv'
  <1> DEFINE rec == Merge(partners[slot[r].partner], slot[r].patch)
             new == [slot[r] EXCEPT !.pc = "ptn_load", !.ptnRec = rec]
  <1>1. /\ process = "up" /\ slot[r].pc = "ptn_get" /\ Move(r, new)
        /\ UNCHANGED <<partners, keys, process, crashes, history>>
    BY DEF PartnerGet, At
  <1>2. rec \in PartnerRecord /\ rec.status = slot[r].patch.status
    BY <1>1, PartnerSaveFacts, MergePartner
  <1> HIDE DEF rec
  <1>3. new \in SlotType
    BY <1>2, SlotFacts, GoOnType DEF PC
  <1>4. Local(new)
    BY <1>1, <1>2, SlotFacts DEF Local, SaveKeepsBinding, AuthHoldsBinding,
       PatchKnowsPartner, PatchPC, PatchKnowsSlug, IssueKnowsPartner, SlotType
  <1>5. new.op = slot[r].op /\ new.partner = slot[r].partner /\ new.res = slot[r].res
    BY SlotFacts DEF SlotType
  <1> HIDE DEF new
  <1>6. QED
    BY <1>1, <1>3, <1>4, <1>5, GoOnStep

(* save's SELECT changes only which columns are dirty.                        *)
LEMMA PartnerLoadStep == ASSUME IInv, NEW r \in Request, PartnerLoad(r) PROVE IInv'
  <1> DEFINE cols == Dirty(slot[r].ptnRec, partners[slot[r].partner])
             new == [slot[r] EXCEPT !.pc = "ptn_write", !.dirty = cols]
  <1>1. /\ process = "up" /\ slot[r].pc = "ptn_load" /\ Move(r, new)
        /\ UNCHANGED <<partners, keys, process, crashes, history>>
    BY DEF PartnerLoad, At
  <1>2. cols \subseteq {"status", "slug"} /\ ("status" \in cols => slot[r].ptnRec.status # Undefined)
    BY <1>1, PartnerSaveFacts, DirtyColumns
  <1> HIDE DEF cols
  <1>3. new \in SlotType
    BY <1>2, SlotFacts DEF SlotType, PC
  <1>4. Local(new)
    BY <1>1, <1>2, SlotFacts DEF Local, SaveKeepsBinding, AuthHoldsBinding,
       PatchKnowsPartner, PatchPC, PatchKnowsSlug, IssueKnowsPartner, SlotType
  <1>5. new.op = slot[r].op /\ new.partner = slot[r].partner /\ new.res = slot[r].res
    BY SlotFacts DEF SlotType
  <1> HIDE DEF new
  <1>6. QED
    BY <1>1, <1>3, <1>4, <1>5, GoOnStep

(* The keys to revoke all have rows.                                          *)
LEMMA ScanStep == ASSUME IInv, NEW r \in Request, Scan(r) PROVE IInv'
  <1> DEFINE ks == {k \in BoundTo(slot[r].partner) : ~keys[k].revoked}
             new == [slot[r] EXCEPT !.pc = "revoke_each", !.live = ks]
  <1>1. /\ process = "up" /\ slot[r].pc = "scan" /\ Move(r, new)
        /\ UNCHANGED <<partners, keys, process, crashes, history>>
    BY DEF Scan, At
  <1>2. ks \subseteq KeyIds /\ ks \subseteq Key
    BY DEF BoundTo, KeyIds
  <1> HIDE DEF ks
  <1>3. new \in SlotType
    BY <1>2, SlotFacts, GoOnType DEF PC
  <1>4. Local(new)
    BY <1>1, <1>2, SlotFacts DEF Local, SaveKeepsBinding, AuthHoldsBinding,
       PatchKnowsPartner, PatchPC, PatchKnowsSlug, IssueKnowsPartner, SlotType
  <1>5. new.op = slot[r].op /\ new.partner = slot[r].partner /\ new.res = slot[r].res
    BY SlotFacts DEF SlotType
  <1> HIDE DEF new
  <1>6. QED
    BY <1>1, <1>3, <1>4, <1>5, GoOnStep

(* Each of them is read before it is saved, with its partner.                 *)
LEMMA RevokeEachStep == ASSUME IInv, NEW r \in Request, RevokeEach(r) PROVE IInv'
  <1>1. /\ process = "up" /\ slot[r].pc = "revoke_each"
        /\ UNCHANGED <<partners, keys, process, crashes, acked, late, shut>>
    BY DEF RevokeEach, At
  <1>2. slot[r].op = "patch" /\ slot[r].partner \in Partner /\ slot[r].live \subseteq KeyIds
    BY <1>1, SlotFacts DEF Local, PatchKnowsPartner, PatchPC, PatchKnowsSlug
  <1>3. CASE PatchAnswered(r)
    <2>1. Histories'
      BY <1>1, <1>2, <1>3, SlotFacts DEF PatchAnswered, Histories
    <2>2. QED
      BY <1>1, <1>2, <1>3, <2>1, RespondStep DEF PatchAnswered, Response
  <1>4. ASSUME NEW k \in slot[r].live, UNCHANGED disableAcked,
               Move(r, [slot[r] EXCEPT !.pc = "key_load", !.key = k,
                                       !.keyRec = Merge(keys[k], RevokePatch),
                                       !.live = @ \ {k}])
        PROVE  IInv'
    <2> DEFINE rec == Merge(keys[k], RevokePatch)
               new == [slot[r] EXCEPT !.pc = "key_load", !.key = k, !.keyRec = rec,
                                      !.live = @ \ {k}]
    <2>1. k \in KeyIds /\ k \in Key /\ keys[k] \in KeyRow
      BY <1>2 DEF KeyIds, IInv, TypeOK
    <2>2. rec \in KeyRow /\ rec.partner_id = keys[k].partner_id
      BY <2>1, MergeKey
    <2>3. Move(r, new)
      BY <1>4
    <2> HIDE DEF rec
    <2>4. new \in SlotType
      <3>1. slot[r].live \ {k} \in SUBSET Key
        BY SlotFacts DEF SlotType
      <3>2. new = [slot[r] EXCEPT !.pc = "key_load", !.key = k, !.keyRec = rec,
                                  !.live = slot[r].live \ {k}]
        BY SlotFacts DEF SlotType
      <3>3. QED
        BY <2>1, <2>2, <3>1, <3>2, SlotFacts, GoOnType DEF PC
    <2>5. Local(new)
      BY <1>1, <1>2, <2>1, <2>2, SlotFacts DEF Local, SaveKeepsBinding, AuthHoldsBinding,
         PatchKnowsPartner, PatchPC, PatchKnowsSlug, IssueKnowsPartner, SlotType
    <2>6. new.op = slot[r].op /\ new.partner = slot[r].partner /\ new.res = slot[r].res
      BY SlotFacts DEF SlotType
    <2>7. UNCHANGED history
      BY <1>1, <1>4 DEF history
    <2> HIDE DEF new
    <2>8. QED
      BY <1>1, <2>3, <2>4, <2>5, <2>6, <2>7, GoOnStep
  <1>5. QED
    BY <1>3, <1>4 DEF RevokeEach

(* The new key's partner has a row: it was read or created before.            *)
LEMMA GenInsertStep == ASSUME IInv, NEW r \in Request, GenInsert(r) PROVE IInv'
  <1>1. /\ process = "up" /\ slot[r].pc = "gen_insert"
        /\ UNCHANGED <<partners, process, crashes, history>>
    BY DEF GenInsert, At
  <1>2. PICK k \in Key :
           /\ keys[k] = Absent
           /\ keys' = [keys EXCEPT ![k] = [revoked |-> FALSE, partner_id |-> slot[r].partner]]
           /\ Move(r, [slot[r] EXCEPT !.pc = "done", !.res = "200", !.key = k])
    BY DEF GenInsert
  <1> DEFINE row == [revoked |-> FALSE, partner_id |-> slot[r].partner]
             new == [slot[r] EXCEPT !.pc = "done", !.res = "200", !.key = k]
  <1>3. /\ slot[r].op \in {"create", "issue"}
        /\ slot[r].partner \in PartnerIds \cup {NoPartner}
    BY <1>1, SlotFacts DEF Local, IssueKnowsPartner
  <1>4. row \in KeyRow /\ row # Absent /\ row.partner_id = slot[r].partner
    <2>1. slot[r].partner \in Partner \cup {NoPartner}
      BY SlotFacts DEF SlotType
    <2>2. row \in KeyRow
      BY <2>1 DEF KeyRow
    <2>3. Absent \notin KeyRow
      BY NullAssumption DEF KeyRow
    <2>4. QED
      BY <2>2, <2>3
  <1>5. keys' = [keys EXCEPT ![k] = row]
    BY <1>2
  <1> HIDE DEF row
  <1>6. Tables'
    BY <1>1, <1>4, <1>5 DEF Tables, IInv, TypeOK
  <1>7. RowsKept
    BY <1>1, <1>2, <1>5 DEF RowsKept, KeyIds, PartnerIds, IInv, TypeOK
  <1>8. KeysHavePartners'
    <2> SUFFICES ASSUME NEW j \in Key, keys'[j] # Absent
                 PROVE  keys'[j].partner_id \in PartnerIds' \cup {NoPartner}
      BY DEF KeysHavePartners, KeyIds
    <2>1. CASE j = k
      BY <2>1, <1>3, <1>4, <1>5, <1>7 DEF RowsKept, IInv, TypeOK
    <2>2. CASE j # k
      BY <2>2, <1>5, <1>7 DEF RowsKept, KeyIds, IInv, TypeOK, Flow, KeysHavePartners
    <2>3. QED
      BY <2>1, <2>2
  <1>9. Histories' /\ shut' = shut
    BY <1>1, SlotFacts DEF Histories, history
  <1>10. \A q \in shut' \ {r} :
            q \in shut /\ (IsDisabled(slot[q].partner) => IsDisabled(slot[q].partner)')
    <2> SUFFICES ASSUME NEW q \in shut \ {r}, IsDisabled(slot[q].partner)
                 PROVE  IsDisabled(slot[q].partner)'
      BY <1>9
    <2>1. slot'[q] = slot[q]
      BY <1>2, SlotFacts DEF Move, Histories, IInv, TypeOK
    <2>2. QED
      BY <1>1, <2>1 DEF IsDisabled, PartnerIds
  <1>11. new \in SlotType /\ new.op = slot[r].op
    BY SlotFacts DEF SlotType, PC, Response
  <1>12. Local(new)
    BY <1>3, SlotFacts DEF Local, SaveKeepsBinding, AuthHoldsBinding,
       PatchKnowsPartner, PatchPC, PatchKnowsSlug, IssueKnowsPartner, SlotType
  <1>13. r \in shut => new.op \notin {"use", "issue"}
    BY <1>1, <1>11, SlotFacts DEF ShutOut
  <1>14. Move(r, new)
    BY <1>2
  <1> HIDE DEF new
  <1>15. QED
    BY <1>1, <1>6, <1>7, <1>8, <1>9, <1>10, <1>11, <1>12, <1>13, <1>14, TableStep

(* A new partner is active and takes the id of no other.                      *)
LEMMA CreateInsertStep == ASSUME IInv, NEW r \in Request, CreateInsert(r) PROVE IInv'
  <1> DEFINE s == slot[r].patch.slug
  <1>1. /\ process = "up" /\ slot[r].pc = "create_insert"
        /\ UNCHANGED <<keys, process, crashes, history>>
    BY DEF CreateInsert, At
  <1>2. slot[r].op = "create" /\ s \in Slug /\ slot[r].live \subseteq KeyIds
    BY <1>1, SlotFacts DEF Local, PatchKnowsSlug
  <1>3. CASE Respond(r, "500") /\ UNCHANGED partners
    BY <1>1, <1>3, SlotFacts, RespondStep DEF Response, Histories, history
  <1>4. ASSUME NEW p \in Partner, partners[p] = Absent,
               partners' = [partners EXCEPT ![p] = [status |-> "active", slug |-> s]],
               Move(r, [slot[r] EXCEPT !.pc = "gen_check", !.partner = p])
        PROVE  IInv'
    <2> DEFINE row == [status |-> "active", slug |-> s]
               new == [slot[r] EXCEPT !.pc = "gen_check", !.partner = p]
    <2>1. row \in PartnerRow /\ row # Absent
      BY <1>2, NullAssumption DEF PartnerRow, Status
    <2>2. partners' = [partners EXCEPT ![p] = row]
      BY <1>4
    <2> HIDE DEF row
    <2>3. Tables'
      BY <1>1, <2>1, <2>2 DEF Tables, IInv, TypeOK
    <2>4. RowsKept
      BY <1>1, <1>4, <2>2 DEF RowsKept, KeyIds, PartnerIds, IInv, TypeOK
    <2>5. KeysHavePartners'
      BY <1>1, <2>4 DEF RowsKept, KeysHavePartners, KeyIds, IInv, Flow
    <2>6. Histories' /\ shut' = shut
      BY <1>1, SlotFacts DEF Histories, history
    <2>7. \A q \in shut' \ {r} :
             q \in shut /\ (IsDisabled(slot[q].partner) => IsDisabled(slot[q].partner)')
      <3> SUFFICES ASSUME NEW q \in shut \ {r}, IsDisabled(slot[q].partner)
                   PROVE  IsDisabled(slot[q].partner)'
        BY <2>6
      <3>1. slot'[q] = slot[q]
        BY <1>4, SlotFacts DEF Move, Histories, IInv, TypeOK
      <3>2. QED
        BY <1>4, <2>2, <3>1 DEF IsDisabled, PartnerIds, IInv, TypeOK
    <2>8. new \in SlotType /\ new.op = "create"
      <3>1. new \in SlotType
        BY SlotFacts, GoOnType DEF PC
      <3>2. new.op = "create"
        BY <1>2, SlotFacts DEF SlotType
      <3>3. QED
        BY <3>1, <3>2
    <2>9. Local(new)
      BY <1>2, SlotFacts DEF Local, SaveKeepsBinding, AuthHoldsBinding,
         PatchKnowsPartner, PatchPC, PatchKnowsSlug, IssueKnowsPartner, SlotType
    <2>10. Move(r, new)
      BY <1>4
    <2> HIDE DEF new
    <2>11. QED
      BY <1>1, <2>3, <2>4, <2>5, <2>6, <2>7, <2>8, <2>9, <2>10, TableStep
  <1>5. QED
    BY <1>3, <1>4 DEF CreateInsert

(* A partner that becomes active leaves `shut` with its requests.             *)
LEMMA PartnerWriteStep == ASSUME IInv, NEW r \in Request, PartnerWrite(r) PROVE IInv'
  <1> DEFINE p == slot[r].partner
             row == Written(partners[p], slot[r].ptnRec, slot[r].dirty)
             new == [slot[r] EXCEPT !.pc = "scan", !.before = "active",
                                    !.ptnRec = SeedPartnerRow, !.dirty = {}]
             ans == Answered(slot[r], "200")
  <1>1. /\ process = "up" /\ slot[r].pc = "ptn_write"
        /\ UNCHANGED <<keys, process, crashes, acked, late>>
    BY DEF PartnerWrite, At
  <1>2. /\ slot[r].op = "patch" /\ p \in PartnerIds /\ p \in Partner
        /\ partners[p] \in PartnerRow /\ slot[r].ptnRec \in PartnerRecord
        /\ "status" \in slot[r].dirty => slot[r].ptnRec.status # Undefined
    BY <1>1, PartnerSaveFacts DEF PartnerIds
  <1>3. row \in PartnerRow
    BY <1>2, WrittenPartner
  <1> HIDE DEF row
  <1>4. row # Absent /\ row.status \in Status
    <2>1. Absent \notin PartnerRow
      BY NullAssumption DEF PartnerRow, Status
    <2>2. QED
      BY <1>3, <2>1 DEF PartnerRow
  <1>5. CASE Respond(r, "500") /\ UNCHANGED <<partners, shut, disableAcked>>
    BY <1>1, <1>2, <1>5, SlotFacts, RespondStep DEF Response, Histories
  <1>6. ASSUME partners' = [partners EXCEPT ![p] = row],
               shut' = IF partners'[p].status = "active"
                       THEN {q \in shut : slot[q].partner # p} ELSE shut,
               \/ Move(r, new) /\ UNCHANGED disableAcked
               \/ PatchAnswered(r)
        PROVE  IInv'
    <2>1. Tables'
      BY <1>1, <1>3, <1>6 DEF Tables, IInv, TypeOK
    <2>2. RowsKept
      BY <1>1, <1>4, <1>6 DEF RowsKept, KeyIds, PartnerIds, IInv, TypeOK
    <2>3. KeysHavePartners'
      BY <1>1, <2>2 DEF RowsKept, KeysHavePartners, KeyIds, IInv, Flow
    <2>4. Histories' /\ shut' \subseteq shut
      BY <1>1, <1>2, <1>6, SlotFacts DEF Histories, PatchAnswered
    <2>5. \A q \in shut' \ {r} :
             q \in shut /\ (IsDisabled(slot[q].partner) => IsDisabled(slot[q].partner)')
      <3> SUFFICES ASSUME NEW q \in shut', q # r, IsDisabled(slot[q].partner)
                   PROVE  IsDisabled(slot[q].partner)'
        BY <2>4
      <3>1. slot'[q] = slot[q]
        BY <1>6, <2>4, SlotFacts DEF PatchAnswered, Respond, Move, Histories, IInv, TypeOK
      <3>2. CASE slot[q].partner = p
        <4>1. partners'[p] = row /\ row.status = "disabled"
          BY <1>2, <1>4, <1>6, <3>2 DEF Status, IInv, TypeOK
        <4>2. QED
          BY <1>2, <1>4, <3>1, <3>2, <4>1 DEF IsDisabled, PartnerIds
      <3>3. CASE slot[q].partner # p
        BY <1>6, <3>1, <3>3 DEF IsDisabled, PartnerIds, IInv, TypeOK
      <3>4. QED
        BY <3>2, <3>3
    <2>6. CASE Move(r, new)
      <3>1. new \in SlotType
        BY SlotFacts, IdleType DEF SlotType, PC, Status
      <3>2. Local(new) /\ new.op = "patch"
        BY <1>2, SlotFacts DEF Local, SaveKeepsBinding, AuthHoldsBinding,
           PatchKnowsPartner, PatchPC, PatchKnowsSlug, IssueKnowsPartner, SlotType
      <3> HIDE DEF new
      <3>3. QED
        BY <1>1, <2>1, <2>2, <2>3, <2>4, <2>5, <2>6, <3>1, <3>2, TableStep
    <2>7. CASE PatchAnswered(r)
      <3>1. Move(r, ans) /\ ans.op = "patch"
        BY <1>2, <2>7, SlotFacts DEF PatchAnswered, Respond, Answered, SlotType
      <3>2. ans \in SlotType /\ Local(ans)
        BY SlotFacts, AnsweredType, AnsweredLocal DEF Response
      <3> HIDE DEF ans
      <3>3. QED
        BY <1>1, <2>1, <2>2, <2>3, <2>4, <2>5, <3>1, <3>2, TableStep
    <2>8. QED
      BY <1>6, <2>6, <2>7
  <1>7. QED
    BY <1>5, <1>6 DEF PartnerWrite, row

-----------------------------------------------------------------------------
(* Crash and boot.                                                            *)

(* A crash keeps the invariant: the slots are emptied, the tables stay.       *)
LEMMA CrashStep == ASSUME IInv, Crash PROVE IInv'
  <1>1. TypeOK'
    BY IdleType, BoundAssumption DEF Crash, IInv, TypeOK
  <1>2. Flow'
    <2>1. FixturesKept' /\ KeysHavePartners'
      BY DEF Crash, IInv, Flow, FixturesKept, KeysHavePartners, PartnerIds, KeyIds
    <2>2. ASSUME NEW q \in Request PROVE Local(slot[q])'
      <3>1. slot'[q] = Idle
        BY DEF Crash
      <3>2. QED
        BY <3>1 DEF Local, SaveKeepsBinding, AuthHoldsBinding, PatchKnowsPartner, PatchPC,
           PatchKnowsSlug, IssueKnowsPartner, Idle
    <2>3. QED
      BY <2>1, <2>2 DEF Crash, Flow
  <1>3. QED
    BY <1>1, <1>2 DEF IInv

(* A boot keeps the invariant: resetting the fixtures loses no row and moves no *)
(* key, because the fixture key was bound to the fixture partner all along.   *)
LEMMA BootStep == ASSUME IInv, Boot PROVE IInv'
  <1>1. /\ process = "down" /\ process' = "up" /\ shut = {}
        /\ UNCHANGED <<slot, crashes, history>>
    BY DEF Boot, IInv, Flow
  <1>2. SeedPartnerRow # Absent /\ SeedKeyRow # Absent
    <2>1. Absent \notin PartnerRow /\ Absent \notin KeyRow
      BY NullAssumption DEF PartnerRow, KeyRow, Status
    <2>2. QED
      BY <2>1, IdleType
  <1>3. Tables'
    BY IdleType DEF Boot, Tables, IInv, TypeOK
  <1>4. TypeOK'
    BY <1>1, <1>3 DEF Tables, IInv, TypeOK, history
  <1>5. RowsKept
    BY <1>2, FixtureAssumption
    DEF Boot, RowsKept, PartnerIds, KeyIds, SeedKeyRow, IInv, TypeOK, Flow, FixturesKept
  <1>6. FixturesKept'
    BY <1>5 DEF RowsKept, FixturesKept, IInv, Flow
  <1>7. KeysHavePartners'
    <2> SUFFICES ASSUME NEW j \in KeyIds'
                 PROVE  keys'[j].partner_id \in PartnerIds' \cup {NoPartner}
      BY DEF KeysHavePartners
    <2>1. j \in KeyIds
      BY FixtureAssumption DEF Boot, KeyIds, IInv, TypeOK, Flow, FixturesKept
    <2>2. QED
      BY <2>1, <1>5 DEF RowsKept, IInv, Flow, KeysHavePartners
  <1>8. ASSUME NEW q \in Request PROVE Local(slot[q])'
    <2>1. slot[q] \in SlotType /\ Local(slot[q]) /\ slot'[q] = slot[q]
      BY <1>1 DEF IInv, TypeOK, Flow
    <2>2. QED
      BY <2>1, <1>5, LocalKept
  <1>9. QED
    BY <1>1, <1>4, <1>6, <1>7, <1>8 DEF IInv, Flow, history

(* A failed boot, the supervisor and stuttering leave everything but `process`. *)
LEMMA IdleProcessStep ==
    ASSUME IInv, BootFails \/ Supervise \/ UNCHANGED vars
    PROVE  IInv'
  <1>1. UNCHANGED <<partners, keys, slot, crashes, history>>
    BY DEF BootFails, Supervise, vars, history
  <1>2. process' \in {"up", "down", "failed"} /\ (process' # "up" => process # "up")
    BY DEF BootFails, Supervise, vars, IInv, TypeOK
  <1>3. TypeOK'
    BY <1>1, <1>2 DEF IInv, TypeOK, history
  <1>4. Flow'
    BY <1>1, <1>2 DEF IInv, Flow, history, FixturesKept, KeysHavePartners, Local,
       SaveKeepsBinding, AuthHoldsBinding, PatchKnowsPartner, PatchPC, PatchKnowsSlug,
       IssueKnowsPartner, ShutOut, IsDisabled, PartnerIds, KeyIds
  <1>5. QED
    BY <1>3, <1>4 DEF IInv

-----------------------------------------------------------------------------
(* The invariant, and what follows from it.                                   *)

(* The invariant is inductive.                                                *)
LEMMA NextInv == IInv /\ [Next]_vars => IInv'
  <1> SUFFICES ASSUME IInv, [Next]_vars PROVE IInv'
    OBVIOUS
  <1>1. ASSUME NEW r \in Request, Arrive(r) PROVE IInv'
    BY <1>1, ArriveStep
  <1>2. ASSUME NEW r \in Request, Handle(r) PROVE IInv'
    BY <1>2, AuthFindStep, AuthPartnerStep, KeyGetStep, KeyLoadStep, KeyWriteStep,
       GenCheckStep, GenInsertStep, CreateCheckStep, CreateInsertStep, PatchBeforeStep,
       SlugCheckStep, PartnerGetStep, PartnerLoadStep, PartnerWriteStep, ScanStep,
       RevokeEachStep DEF Handle
  <1>3. ASSUME NEW r \in Request, Finish(r) PROVE IInv'
    BY <1>3, FinishStep
  <1>4. QED
    BY <1>1, <1>2, <1>3, CrashStep, BootStep, IdleProcessStep DEF Next

(* What every request holds in its local variables is right about the tables, in *)
(* every reachable state, for any number of partners, keys, slots and crashes. *)
THEOREM Inductive == Spec => []IInv
  <1>1. QED
    BY InitInv, NextInv, PTL DEF Spec

(* The type invariant.                                                        *)
THEOREM TypeCorrect == Spec => []TypeOK
  <1>1. IInv => TypeOK
    BY DEF IInv
  <1>2. QED
    BY <1>1, Inductive, PTL

(* What a request read before an await is still right, or outdated only in the *)
(* ways the code can live with (the conjuncts of Flow).                       *)
THEOREM FlowHolds == Spec => []Flow
  <1>1. IInv => Flow
    BY DEF IInv
  <1>2. QED
    BY <1>1, Inductive, PTL

(* A call or a POST /keys during the whole of which the partner is disabled is *)
(* never answered 200 (AuthService.authenticate and generateKey).             *)
THEOREM DisabledIsBlocked == Spec => []DisabledPartnerBlocks
  <1>1. IInv => DisabledPartnerBlocks
    BY DEF IInv, Flow, ShutOut, DisabledPartnerBlocks
  <1>2. QED
    BY <1>1, Inductive, PTL

(* Every key of a partner has its partner, though the schema has no foreign key. *)
THEOREM ReferencesHold == Spec => []KeysHavePartners
  <1>1. IInv => KeysHavePartners
    BY DEF IInv, Flow
  <1>2. QED
    BY <1>1, Inductive, PTL

-----------------------------------------------------------------------------
(* What a step may do to a key.                                               *)

(* Only three steps write api_keys.                                           *)
LEMMA KeyWriters ==
    ASSUME [Next]_vars
    PROVE  \/ UNCHANGED keys
           \/ \E r \in Request : KeyWrite(r) \/ GenInsert(r)
           \/ Boot
  <1>1. ASSUME NEW r \in Request, Arrive(r) \/ Finish(r) PROVE UNCHANGED keys
    BY <1>1 DEF Arrive, Call, IssueKey, RevokeKey, CreatePartner, PatchPartner, Admit, Finish
  <1>2. ASSUME NEW r \in Request, Handle(r)
        PROVE  UNCHANGED keys \/ KeyWrite(r) \/ GenInsert(r)
    <2>1. CASE AuthFind(r) \/ AuthPartner(r) \/ KeyGet(r) \/ KeyLoad(r) \/ GenCheck(r)
      BY <2>1 DEF AuthFind, AuthPartner, KeyGet, KeyLoad, GenCheck
    <2>2. CASE CreateCheck(r) \/ CreateInsert(r) \/ PatchBefore(r) \/ SlugCheck(r)
      BY <2>2 DEF CreateCheck, CreateInsert, PatchBefore, SlugCheck
    <2>3. CASE PartnerGet(r) \/ PartnerLoad(r) \/ PartnerWrite(r) \/ Scan(r) \/ RevokeEach(r)
      BY <2>3 DEF PartnerGet, PartnerLoad, PartnerWrite, Scan, RevokeEach
    <2>4. QED
      BY <1>2, <2>1, <2>2, <2>3 DEF Handle
  <1>3. CASE Crash \/ BootFails \/ Supervise \/ UNCHANGED vars
    BY <1>3 DEF Crash, BootFails, Supervise, vars
  <1>4. QED
    BY <1>1, <1>2, <1>3 DEF Next

(* The row a KeyWrite leaves behind.                                          *)
LEMMA KeyWriteRow ==
    ASSUME IInv, NEW r \in Request, KeyWrite(r)
    PROVE  LET k == slot[r].key IN
           /\ k \in KeyIds /\ keys[k] \in KeyRow
           /\ \A j \in Key \ {k} : keys'[j] = keys[j]
           /\ keys'[k] \in KeyRow /\ keys'[k].partner_id = keys[k].partner_id
           /\ keys[k].revoked /\ ~StaleWriter(slot[r], k) => keys'[k].revoked
  <1> DEFINE k == slot[r].key
             row == Written(keys[k], slot[r].keyRec, slot[r].dirty)
  <1>1. slot[r].pc = "key_write" /\ keys' = [keys EXCEPT ![k] = row]
    BY DEF KeyWrite, At
  <1>2. /\ k \in KeyIds /\ k \in Key /\ keys[k] \in KeyRow /\ slot[r].keyRec \in KeyRow
        /\ slot[r].keyRec.partner_id = keys[k].partner_id
    BY <1>1, SlotFacts DEF Local, SaveKeepsBinding, KeyIds, IInv, TypeOK, SlotType
  <1>3. ~StaleWriter(slot[r], k) => ("revoked" \in slot[r].dirty => slot[r].keyRec.revoked)
    BY <1>1 DEF StaleWriter
  <1>4. /\ row \in KeyRow /\ row.partner_id = keys[k].partner_id
        /\ keys[k].revoked /\ ~StaleWriter(slot[r], k) => row.revoked
    BY <1>2, <1>3, WrittenKey
  <1> HIDE DEF row
  <1>5. QED
    BY <1>1, <1>2, <1>4 DEF IInv, TypeOK

(* No step moves a key to another partner or deletes it.                      *)
LEMMA BindingStep ==
    ASSUME IInv, [Next]_vars, NEW k \in KeyIds
    PROVE  keys'[k] # Absent /\ keys'[k].partner_id = keys[k].partner_id
  <1>1. CASE UNCHANGED keys
    BY <1>1 DEF KeyIds
  <1>2. ASSUME NEW r \in Request, KeyWrite(r)
        PROVE  keys'[k] # Absent /\ keys'[k].partner_id = keys[k].partner_id
    <2>1. Absent \notin KeyRow
      BY NullAssumption DEF KeyRow
    <2>2. QED
      BY <1>2, <2>1, KeyWriteRow DEF KeyIds
  <1>3. ASSUME NEW r \in Request, GenInsert(r)
        PROVE  keys'[k] # Absent /\ keys'[k].partner_id = keys[k].partner_id
    BY <1>3 DEF GenInsert, KeyIds, IInv, TypeOK
  <1>4. CASE Boot
    <2>1. SeedKeyRow # Absent
      BY IdleType, NullAssumption DEF KeyRow
    <2>2. QED
      BY <1>4, <2>1 DEF Boot, KeyIds, SeedKeyRow, IInv, TypeOK, Flow, FixturesKept
  <1>5. QED
    BY <1>1, <1>2, <1>3, <1>4, KeyWriters

(* Whom a key acts for never changes, whatever stale record a save writes back. *)
THEOREM BindingIsFixed == Spec => BindingFixed
  <1>1. IInv /\ [Next]_vars =>
           [\A k \in KeyIds : keys'[k] # Absent /\ keys'[k].partner_id = keys[k].partner_id]_vars
    BY BindingStep
  <1>2. QED
    BY <1>1, Inductive, PTL DEF Spec, BindingFixed

-----------------------------------------------------------------------------
(* Revocations settle.                                                        *)

(* The slot r moves to a program counter that is not inside a save of a key.  *)
Harmless(r) ==
    /\ slot' = [slot EXCEPT ![r] = slot'[r]]
    /\ slot'[r].pc \notin {"key_load", "key_write"}

(* A move to `new` leaves the other slots alone and ends at new.pc.           *)
LEMMA MoveHarmless ==
    ASSUME TypeOK, NEW r \in Request, NEW new, Move(r, new),
           new.pc \notin {"key_load", "key_write"}
    PROVE  Harmless(r)
  BY DEF TypeOK, Move, Harmless

(* A response is harmless.                                                    *)
LEMMA RespondHarmless ==
    ASSUME TypeOK, NEW r \in Request, NEW code, Respond(r, code)
    PROVE  Harmless(r)
  <1> DEFINE new == [slot[r] EXCEPT !.pc = "done", !.res = code, !.before = "active",
                                    !.ptnRec = SeedPartnerRow, !.keyRec = SeedKeyRow,
                                    !.dirty = {}]
  <1>1. new.pc = "done"
    BY DEF TypeOK, SlotType
  <1>2. Move(r, new)
    BY DEF Respond
  <1> HIDE DEF new
  <1>3. QED
    BY <1>1, <1>2, MoveHarmless

(* So is every step of a request except the three that prepare a save of a key. *)
LEMMA HarmlessSteps ==
    ASSUME TypeOK, NEW r \in Request, Arrive(r) \/ Handle(r) \/ Finish(r)
    PROVE  Harmless(r) \/ KeyGet(r) \/ KeyLoad(r) \/ RevokeEach(r)
  <1>t. slot[r] \in SlotType
    BY DEF TypeOK
  <1>1. CASE Arrive(r)
    <2>1. ASSUME NEW op, NEW pc, NEW key, NEW partner, NEW patch,
                 Admit(r, op, pc, key, partner, patch), pc \notin {"key_load", "key_write"}
          PROVE  Harmless(r)
      BY <2>1, MoveHarmless DEF Admit, Idle
    <2>2. CASE Call(r)
      BY <2>1, <2>2 DEF Call
    <2>3. CASE IssueKey(r)
      BY <2>1, <2>3 DEF IssueKey
    <2>4. CASE RevokeKey(r)
      BY <2>1, <2>4 DEF RevokeKey
    <2>5. CASE CreatePartner(r)
      BY <2>1, <2>5 DEF CreatePartner
    <2>6. CASE PatchPartner(r)
      BY <2>1, <2>6 DEF PatchPartner
    <2>7. QED
      BY <1>1, <2>2, <2>3, <2>4, <2>5, <2>6 DEF Arrive
  <1>2. CASE Finish(r)
    BY <1>2, MoveHarmless DEF Finish, Idle
  <1>3. CASE AuthFind(r)
    BY <1>3, <1>t, MoveHarmless, RespondHarmless DEF AuthFind, SlotType
  <1>4. CASE AuthPartner(r)
    BY <1>4, <1>t, MoveHarmless, RespondHarmless DEF AuthPartner, SlotType
  <1>5. CASE KeyWrite(r)
    BY <1>5, <1>t, MoveHarmless, RespondHarmless DEF KeyWrite, SlotType
  <1>6. CASE GenCheck(r)
    BY <1>6, <1>t, MoveHarmless, RespondHarmless DEF GenCheck, SlotType
  <1>7. CASE GenInsert(r)
    BY <1>7, <1>t, MoveHarmless DEF GenInsert, SlotType
  <1>8. CASE CreateCheck(r) \/ SlugCheck(r) \/ PatchBefore(r)
    BY <1>8, <1>t, MoveHarmless, RespondHarmless
    DEF CreateCheck, SlugCheck, PatchBefore, SlotType
  <1>9. CASE CreateInsert(r)
    BY <1>9, <1>t, MoveHarmless, RespondHarmless DEF CreateInsert, SlotType
  <1>10. CASE PartnerGet(r) \/ PartnerLoad(r) \/ Scan(r)
    BY <1>10, <1>t, MoveHarmless DEF PartnerGet, PartnerLoad, Scan, SlotType
  <1>11. CASE PartnerWrite(r)
    BY <1>11, <1>t, MoveHarmless, RespondHarmless DEF PartnerWrite, PatchAnswered, SlotType
  <1>12. QED
    BY <1>1, <1>2, <1>3, <1>4, <1>5, <1>6, <1>7, <1>8, <1>9, <1>10, <1>11 DEF Handle

(* Once a revocation has settled, no step of a request makes that request a   *)
(* stale writer: what it reads from now on says revoked.                      *)
LEMMA NoNewStaleWriter ==
    ASSUME IInv, NEW k \in Key, Settled(k), NEW r \in Request,
           Arrive(r) \/ Handle(r) \/ Finish(r)
    PROVE  \A q \in Request : ~StaleWriter(slot[q], k)'
  <1>t. TypeOK /\ slot[r] \in SlotType /\ Local(slot[r])
    BY DEF IInv, Flow, TypeOK
  <1>f. \A q \in Request : ~StaleWriter(slot[q], k)
    BY DEF Settled
  <1>m. ASSUME NEW new, Move(r, new), ~StaleWriter(new, k)
        PROVE  \A q \in Request : ~StaleWriter(slot[q], k)'
    <2>1. \A q \in Request : slot'[q] = IF q = r THEN new ELSE slot[q]
      BY <1>m, <1>t DEF TypeOK, Move
    <2>2. QED
      BY <2>1, <1>m, <1>f DEF StaleWriter
  <1>r. ASSUME NEW j \in KeyIds, NEW patch \in {TouchPatch, RevokePatch}, j = k
        PROVE  Merge(keys[j], patch).revoked
    BY <1>r, MergeKey, <1>t DEF Settled, KeyIds, TypeOK
  <1>1. CASE Harmless(r)
    <2>1. \A q \in Request : slot'[q] = IF q = r THEN slot'[r] ELSE slot[q]
      BY <1>1, <1>t DEF TypeOK, Harmless
    <2>2. QED
      BY <2>1, <1>1, <1>f DEF StaleWriter, Harmless
  <1>2. CASE KeyGet(r)
    <2>1. CASE Respond(r, "200")
      <3>1. Harmless(r)
        BY <2>1, <1>t, RespondHarmless
      <3>2. QED
        BY <3>1, <1>1
    <2>2. CASE /\ keys[slot[r].key] # Absent
               /\ Move(r, [slot[r] EXCEPT !.pc = "key_load",
                                          !.keyRec = Merge(keys[slot[r].key], KeyPatch(r))])
      <3> DEFINE new == [slot[r] EXCEPT !.pc = "key_load",
                                        !.keyRec = Merge(keys[slot[r].key], KeyPatch(r))]
      <3>1. new.key = slot[r].key /\ new.keyRec = Merge(keys[slot[r].key], KeyPatch(r))
        BY <1>t DEF SlotType
      <3>2. slot[r].key \in KeyIds /\ KeyPatch(r) \in {TouchPatch, RevokePatch}
        BY <1>t, <2>2 DEF SlotType, KeyIds, KeyPatch
      <3>3. new.key = k => new.keyRec.revoked
        BY <3>1, <3>2, <1>r
      <3>4. ~StaleWriter(new, k)
        BY <3>3 DEF StaleWriter
      <3>5. Move(r, new)
        BY <2>2
      <3> HIDE DEF new
      <3>6. QED
        BY <3>4, <3>5, <1>m
    <2>3. QED
      BY <1>2, <2>1, <2>2 DEF KeyGet
  <1>3. CASE KeyLoad(r)
    <2> DEFINE new == [slot[r] EXCEPT !.pc = "key_write",
                          !.dirty = Dirty(slot[r].keyRec, keys[slot[r].key])]
    <2>1. Move(r, new) /\ slot[r].pc = "key_load"
      BY <1>3 DEF KeyLoad, At
    <2>2. new.key = slot[r].key /\ new.keyRec = slot[r].keyRec
      BY <1>t DEF SlotType
    <2> HIDE DEF new
    <2>3. ~StaleWriter(new, k)
      BY <2>1, <2>2, <1>f DEF StaleWriter
    <2>4. QED
      BY <2>1, <2>3, <1>m
  <1>4. CASE RevokeEach(r)
    <2>1. CASE PatchAnswered(r)
      <3>1. Harmless(r)
        BY <2>1, <1>t, RespondHarmless DEF PatchAnswered
      <3>2. QED
        BY <3>1, <1>1
    <2>2. ASSUME NEW j \in slot[r].live,
                 Move(r, [slot[r] EXCEPT !.pc = "key_load", !.key = j,
                                         !.keyRec = Merge(keys[j], RevokePatch),
                                         !.live = @ \ {j}])
          PROVE  \A q \in Request : ~StaleWriter(slot[q], k)'
      <3> DEFINE new == [slot[r] EXCEPT !.pc = "key_load", !.key = j,
                                        !.keyRec = Merge(keys[j], RevokePatch),
                                        !.live = @ \ {j}]
      <3>1. new.key = j /\ new.keyRec = Merge(keys[j], RevokePatch)
        BY <1>t DEF SlotType
      <3>2. j \in KeyIds
        BY <1>t DEF Local, PatchKnowsSlug
      <3>3. new.key = k => new.keyRec.revoked
        BY <3>1, <3>2, <1>r
      <3>4. ~StaleWriter(new, k)
        BY <3>3 DEF StaleWriter
      <3>5. Move(r, new)
        BY <2>2
      <3> HIDE DEF new
      <3>6. QED
        BY <3>4, <3>5, <1>m
    <2>3. QED
      BY <1>4, <2>1, <2>2 DEF RevokeEach
  <1>5. QED
    BY <1>1, <1>2, <1>3, <1>4, <1>t, HarmlessSteps

(* And no step clears the row.                                                *)
LEMMA RowStaysRevoked ==
    ASSUME IInv, [Next]_vars, NEW k \in Key \ {SeedKey}, Settled(k)
    PROVE  k \in KeyIds' /\ keys'[k].revoked
  <1>1. k \in KeyIds /\ keys[k].revoked
    BY DEF Settled
  <1>2. k \in KeyIds'
    BY <1>1, BindingStep DEF KeyIds
  <1>3. CASE UNCHANGED keys
    BY <1>1, <1>3 DEF KeyIds
  <1>4. ASSUME NEW r \in Request, KeyWrite(r) PROVE keys'[k].revoked
    <2>1. CASE slot[r].key = k
      <3>1. ~StaleWriter(slot[r], k)
        BY DEF Settled
      <3>2. QED
        BY <1>1, <1>4, <2>1, <3>1, KeyWriteRow
    <2>2. CASE slot[r].key # k
      BY <1>1, <1>4, <2>2, KeyWriteRow
    <2>3. QED
      BY <2>1, <2>2
  <1>5. ASSUME NEW r \in Request, GenInsert(r) PROVE keys'[k].revoked
    BY <1>1, <1>5 DEF GenInsert, KeyIds, IInv, TypeOK
  <1>6. CASE Boot
    BY <1>1, <1>6 DEF Boot, KeyIds, IInv, TypeOK
  <1>7. QED
    BY <1>2, <1>3, <1>4, <1>5, <1>6, KeyWriters

(* Hence a settled revocation stays settled.                                  *)
LEMMA SettledStep ==
    ASSUME IInv, [Next]_vars, NEW k \in Key \ {SeedKey}, Settled(k)
    PROVE  Settled(k)'
  <1>1. k \in KeyIds' /\ keys'[k].revoked
    BY RowStaysRevoked
  <1>2. \A q \in Request : ~StaleWriter(slot[q], k)'
    <2>1. ASSUME NEW r \in Request, Arrive(r) \/ Handle(r) \/ Finish(r)
          PROVE  \A q \in Request : ~StaleWriter(slot[q], k)'
      BY <2>1, NoNewStaleWriter
    <2>2. CASE Crash
      <3>1. \A q \in Request : slot'[q] = Idle
        BY <2>2 DEF Crash
      <3>2. QED
        BY <3>1 DEF StaleWriter, Idle
    <2>3. CASE Boot \/ BootFails \/ Supervise \/ UNCHANGED vars
      <3>1. UNCHANGED slot
        BY <2>3 DEF Boot, BootFails, Supervise, vars
      <3>2. QED
        BY <3>1 DEF Settled, StaleWriter
    <2>4. QED
      BY <2>1, <2>2, <2>3 DEF Next
  <1>3. QED
    BY <1>1, <1>2 DEF Settled

(* A revoked key that no request in flight is about to overwrite stays revoked for *)
(* good (fixtures aside).                                                     *)
THEOREM RevocationIsSettled == Spec => RevocationSettles
  <1>1. IInv /\ [Next]_vars =>
           [\A k \in Key \ {SeedKey} : Settled(k) => Settled(k)']_vars
    BY SettledStep
  <1>2. QED
    BY <1>1, Inductive, PTL DEF Spec, RevocationSettles

-----------------------------------------------------------------------------
(* A boot that failed.                                                        *)

(* Requests are served by a process that is up, and leave it so.              *)
LEMMA ServedWhenUp ==
    ASSUME NEW r \in Request, Arrive(r) \/ Handle(r) \/ Finish(r)
    PROVE  process = "up"
  <1>1. CASE Arrive(r)
    BY <1>1 DEF Arrive, Call, IssueKey, RevokeKey, CreatePartner, PatchPartner, Admit
  <1>2. CASE Handle(r)
    BY <1>2 DEF Handle, At, AuthFind, AuthPartner, KeyGet, KeyLoad, KeyWrite, GenCheck, GenInsert,
                CreateCheck, CreateInsert, PatchBefore, SlugCheck, PartnerGet, PartnerLoad,
                PartnerWrite, Scan, RevokeEach
  <1>3. CASE Finish(r)
    BY <1>3 DEF Finish, At
  <1>4. QED
    BY <1>1, <1>2, <1>3

LEMMA RequestKeepsProcess ==
    ASSUME NEW r \in Request, Arrive(r) \/ Handle(r) \/ Finish(r)
    PROVE  process' = process
  <1>1. CASE Arrive(r)
    BY <1>1 DEF Arrive, Call, IssueKey, RevokeKey, CreatePartner, PatchPartner, Admit
  <1>2. CASE Handle(r)
    BY <1>2 DEF Handle, AuthFind, AuthPartner, KeyGet, KeyLoad, KeyWrite, GenCheck, GenInsert,
                CreateCheck, CreateInsert, PatchBefore, SlugCheck, PartnerGet, PartnerLoad,
                PartnerWrite, Scan, RevokeEach
  <1>3. CASE Finish(r)
    BY <1>3 DEF Finish
  <1>4. QED
    BY <1>1, <1>2, <1>3

(* What made a boot fail is still there.                                      *)
FailedByClash == process = "failed" => BootClash

Stuck == process = "failed" \/ (process = "down" /\ BootClash)

(* The partners stand still until a boot succeeds, which a clash prevents.    *)
LEMMA StuckStep ==
    ASSUME FailedByClash, Stuck, [Next]_vars
    PROVE  BootClash' /\ process' # "up"
  <1>1. BootClash /\ process # "up"
    BY DEF FailedByClash, Stuck
  <1>2. CASE BootFails \/ Supervise \/ UNCHANGED vars
    <2>1. UNCHANGED partners /\ process' # "up"
      BY <1>1, <1>2 DEF BootFails, Supervise, vars
    <2>2. QED
      BY <1>1, <2>1 DEF BootClash, SlugTaken, PartnerIds
  <1>3. CASE Crash \/ Boot
    BY <1>1, <1>3 DEF Crash, Boot
  <1>4. ASSUME NEW r \in Request, Arrive(r) \/ Handle(r) \/ Finish(r)
        PROVE  FALSE
    BY <1>1, <1>4, ServedWhenUp
  <1>5. QED
    BY <1>2, <1>3, <1>4 DEF Next

LEMMA FailedByClashStep ==
    ASSUME FailedByClash, [Next]_vars
    PROVE  FailedByClash'
  <1>1. CASE Stuck
    BY <1>1, StuckStep DEF FailedByClash
  <1>2. CASE ~Stuck
    <2>1. process # "failed" /\ ~(process = "down" /\ BootClash)
      BY <1>2 DEF Stuck
    <2>2. ASSUME NEW r \in Request, Arrive(r) \/ Handle(r) \/ Finish(r)
          PROVE  process' # "failed"
      <3>1. process = "up"
        BY <2>2, ServedWhenUp
      <3>2. process' = process
        BY <2>2, RequestKeepsProcess
      <3>3. QED
        BY <3>1, <3>2
    <2>3. ASSUME Crash \/ Boot \/ BootFails \/ Supervise \/ UNCHANGED vars
          PROVE  process' # "failed"
      BY <2>1, <2>3 DEF Crash, Boot, BootFails, Supervise, vars
    <2>4. QED
      BY <2>2, <2>3 DEF Next, FailedByClash
  <1>3. QED
    BY <1>1, <1>2

(* A boot that fails because another partner holds the slug of a fixture can  *)
(* never succeed later, with any number of partners and requests before it    *)
(* (store.service.ts:191-208).                                                *)
THEOREM FailedBootIsForGood == Spec => FailedBootIsFinal
  <1>1. Init => FailedByClash
    BY DEF Init, FailedByClash
  <1>2. FailedByClash /\ [Next]_vars => FailedByClash'
    BY FailedByClashStep
  <1>3. FailedByClash /\ [Next]_vars =>
           [process = "failed" \/ (process = "down" /\ BootClash)
              => BootClash' /\ process' # "up"]_vars
    BY StuckStep DEF Stuck
  <1>4. QED
    BY <1>1, <1>2, <1>3, PTL DEF Spec, FailedBootIsFinal

=============================================================================
