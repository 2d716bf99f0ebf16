-------------------------- MODULE KeyOverlapProofs --------------------------
(***************************************************************************)
(* What overlapping updates cost.  KeyLifecycleProofs has what holds        *)
(* whatever is in flight; three of the four properties here (a partner's   *)
(* status needs no condition) are false of the code when two requests      *)
(* update the same row at once, and true, for any number of requests on    *)
(* other rows, when none do.  The conditions are those a lock on the row   *)
(* would establish (KeyUpdatesApart, PartnerUpdatesApart,                  *)
(* StatusDecisionsApart), taken as []-hypotheses of the theorems.          *)
(***************************************************************************)
EXTENDS KeyLifecycleProofs

-----------------------------------------------------------------------------
(* Where a step of a request ends.                                            *)

Alone(r) == \A q \in Request \ {r} : slot'[q] = slot[q]
EndsAt(r, pc) == slot'[r].pc = pc /\ Alone(r)

(* What a move does to the slots.                                             *)
LEMMA MoveEnds ==
    ASSUME TypeOK, NEW r \in Request, NEW new, Move(r, new)
    PROVE  /\ slot'[r] = new
           /\ \A pc : new.pc = pc => EndsAt(r, pc)
  BY DEF TypeOK, Move, Alone, EndsAt

(* And a response.                                                            *)
LEMMA RespondEnds ==
    ASSUME TypeOK, NEW r \in Request, NEW code, Respond(r, code)
    PROVE  EndsAt(r, "done")
  <1>1. Move(r, Answered(slot[r], code))
    BY DEF Respond, Answered
  <1>2. slot[r] \in SlotType
    BY DEF TypeOK
  <1>3. Answered(slot[r], code).pc = "done"
    BY <1>2 DEF Answered, SlotType
  <1>4. QED
    BY <1>1, <1>3, MoveEnds

(* The step that brings a request to a program counter.                       *)
CameFrom(r) ==
    LET pc == slot'[r].pc
    IN  /\ pc = "auth_find" => Call(r)
        /\ pc = "ptn_load" => PartnerGet(r)
        /\ pc = "ptn_write" => PartnerLoad(r)
        /\ pc = "key_load" => KeyGet(r) \/ RevokeEach(r)
        /\ pc = "key_write" => KeyLoad(r)
        /\ pc = "gen_insert" => GenCheck(r) \/ IssueKey(r)
        /\ pc = "slug_check" => PatchBefore(r)
        /\ pc = "ptn_get" => PatchBefore(r) \/ SlugCheck(r)
        /\ pc = "scan" => PartnerWrite(r)
        /\ pc = "revoke_each" => Scan(r) \/ KeyWrite(r)

(* A step of a request moves that request, and nobody else, along its handler. *)
LEMMA StepMoves ==
    ASSUME TypeOK, NEW r \in Request, Arrive(r) \/ Handle(r) \/ Finish(r)
    PROVE  CameFrom(r) /\ Alone(r)
  <1> DEFINE Early == {"gen_check", "create_check", "create_insert", "patch_before",
                        "key_get", "auth_partner", "done", "idle"}
  <1>t. slot[r] \in SlotType
    BY DEF TypeOK
  <1>e. slot'[r].pc \in Early => CameFrom(r)
    BY DEF CameFrom, EndsAt
  <1>1. CASE Arrive(r)
    <2>1. ASSUME NEW op, NEW pc, NEW key, NEW partner, NEW patch,
                 Admit(r, op, pc, key, partner, patch)
          PROVE  EndsAt(r, pc)
      <3> DEFINE new == [Idle EXCEPT !.op = op, !.pc = pc, !.key = key,
                                     !.partner = partner, !.patch = patch]
      <3>1. Move(r, new)
        BY <2>1 DEF Admit
      <3>2. new.pc = pc
        BY DEF Idle
      <3> HIDE DEF new
      <3>3. QED
        BY <3>1, <3>2, MoveEnds
    <2>2. CASE Call(r)
      BY <2>1, <2>2 DEF Call, CameFrom, EndsAt
    <2>3. CASE IssueKey(r)
      BY <2>1, <2>3 DEF IssueKey, CameFrom, EndsAt
    <2>4. CASE RevokeKey(r)
      BY <2>1, <2>4 DEF RevokeKey, CameFrom, EndsAt
    <2>5. CASE CreatePartner(r)
      BY <2>1, <2>5 DEF CreatePartner, CameFrom, EndsAt
    <2>6. CASE PatchPartner(r)
      BY <2>1, <2>6 DEF PatchPartner, CameFrom, EndsAt
    <2>7. QED
      BY <1>1, <2>2, <2>3, <2>4, <2>5, <2>6 DEF Arrive
  <1>2. CASE Finish(r)
    <2>1. Move(r, Idle) /\ Idle.pc = "idle"
      BY <1>2 DEF Finish, Idle
    <2>2. EndsAt(r, "idle")
      BY <2>1, MoveEnds
    <2>3. QED
      BY <2>2 DEF CameFrom, EndsAt
  <1>3. CASE AuthFind(r)
    <2> DEFINE key == keys[slot[r].key]
               new == [slot[r] EXCEPT !.pc = IF key.partner_id = NoPartner
                                             THEN "key_get" ELSE "auth_partner",
                                      !.partner = key.partner_id]
    <2>1. Respond(r, "401") \/ Move(r, new)
      BY <1>3 DEF AuthFind
    <2>2. new.pc \in Early
      BY <1>t DEF SlotType
    <2> HIDE DEF new
    <2>3. slot'[r].pc \in Early /\ Alone(r)
      BY <2>1, <2>2, MoveEnds, RespondEnds DEF EndsAt
    <2>4. QED
      BY <2>3, <1>e
  <1>4. CASE AuthPartner(r)
    <2>1. EndsAt(r, "done") \/ EndsAt(r, "key_get")
      BY <1>4, <1>t, MoveEnds, RespondEnds DEF AuthPartner, SlotType
    <2>2. QED
      BY <2>1 DEF CameFrom, EndsAt
  <1>5. CASE KeyGet(r) \/ KeyLoad(r) \/ KeyWrite(r)
    <2>1. ASSUME KeyGet(r) PROVE EndsAt(r, "done") \/ EndsAt(r, "key_load")
      BY <2>1, <1>t, MoveEnds, RespondEnds DEF KeyGet, SlotType
    <2>2. ASSUME KeyLoad(r) PROVE EndsAt(r, "key_write")
      BY <2>2, <1>t, MoveEnds, RespondEnds DEF KeyLoad, SlotType
    <2>3. ASSUME KeyWrite(r) PROVE EndsAt(r, "done") \/ EndsAt(r, "revoke_each")
      <3> DEFINE new == [slot[r] EXCEPT !.pc = "revoke_each", !.key = SeedKey,
                                        !.keyRec = SeedKeyRow, !.dirty = {}]
      <3>1. Respond(r, "200") \/ Move(r, new)
        BY <2>3 DEF KeyWrite
      <3>2. new.pc = "revoke_each"
        BY <1>t DEF SlotType
      <3> HIDE DEF new
      <3>3. QED
        BY <3>1, <3>2, MoveEnds, RespondEnds
    <2>4. QED
      BY <1>5, <2>1, <2>2, <2>3 DEF CameFrom, EndsAt
  <1>6. CASE GenCheck(r) \/ GenInsert(r) \/ CreateCheck(r) \/ CreateInsert(r)
    <2>1. ASSUME GenCheck(r) PROVE EndsAt(r, "done") \/ EndsAt(r, "gen_insert")
      BY <2>1, <1>t, MoveEnds, RespondEnds DEF GenCheck, SlotType
    <2>2. ASSUME GenInsert(r) PROVE EndsAt(r, "done")
      <3>1. PICK k \in Key : Move(r, [slot[r] EXCEPT !.pc = "done", !.res = "200", !.key = k])
        BY <2>2 DEF GenInsert
      <3>2. [slot[r] EXCEPT !.pc = "done", !.res = "200", !.key = k].pc = "done"
        BY <1>t DEF SlotType
      <3>3. QED
        BY <3>1, <3>2, MoveEnds
    <2>3. ASSUME CreateCheck(r) PROVE EndsAt(r, "done") \/ EndsAt(r, "create_insert")
      BY <2>3, <1>t, MoveEnds, RespondEnds DEF CreateCheck, SlotType
    <2>4. ASSUME CreateInsert(r) PROVE EndsAt(r, "done") \/ EndsAt(r, "gen_check")
      <3>1. CASE Respond(r, "500")
        BY <3>1, RespondEnds
      <3>2. CASE ~Respond(r, "500")
        <4>1. PICK p \in Partner : Move(r, [slot[r] EXCEPT !.pc = "gen_check", !.partner = p])
          BY <2>4, <3>2 DEF CreateInsert
        <4>2. [slot[r] EXCEPT !.pc = "gen_check", !.partner = p].pc = "gen_check"
          BY <1>t DEF SlotType
        <4>3. QED
          BY <4>1, <4>2, MoveEnds
      <3>3. QED
        BY <3>1, <3>2
    <2>5. QED
      BY <1>6, <2>1, <2>2, <2>3, <2>4 DEF CameFrom, EndsAt
  <1>7. CASE PatchBefore(r) \/ SlugCheck(r)
    <2>1. ASSUME PatchBefore(r)
          PROVE  EndsAt(r, "done") \/ EndsAt(r, "slug_check") \/ EndsAt(r, "ptn_get")
      <3> DEFINE pc == IF slot[r].patch.slug = Unset THEN "ptn_get" ELSE "slug_check"
                 new == [slot[r] EXCEPT !.pc = pc,
                                        !.before = partners[slot[r].partner].status]
      <3>1. Respond(r, "404") \/ Move(r, new)
        BY <2>1 DEF PatchBefore
      <3>2. new.pc = pc
        BY <1>t DEF SlotType
      <3> HIDE DEF new
      <3>3. QED
        BY <3>1, <3>2, MoveEnds, RespondEnds
    <2>2. ASSUME SlugCheck(r) PROVE EndsAt(r, "done") \/ EndsAt(r, "ptn_get")
      BY <2>2, <1>t, MoveEnds, RespondEnds DEF SlugCheck, SlotType
    <2>3. QED
      BY <1>7, <2>1, <2>2 DEF CameFrom, EndsAt
  <1>8. CASE PartnerGet(r) \/ PartnerLoad(r) \/ PartnerWrite(r)
    <2>1. ASSUME PartnerGet(r) PROVE EndsAt(r, "ptn_load")
      BY <2>1, <1>t, MoveEnds, RespondEnds DEF PartnerGet, SlotType
    <2>2. ASSUME PartnerLoad(r) PROVE EndsAt(r, "ptn_write")
      BY <2>2, <1>t, MoveEnds, RespondEnds DEF PartnerLoad, SlotType
    <2>3. ASSUME PartnerWrite(r) PROVE EndsAt(r, "done") \/ EndsAt(r, "scan")
      <3> DEFINE new == [slot[r] EXCEPT !.pc = "scan", !.before = "active",
                                        !.ptnRec = SeedPartnerRow, !.dirty = {}]
      <3>1. Respond(r, "500") \/ Respond(r, "200") \/ Move(r, new)
        BY <2>3 DEF PartnerWrite, PatchAnswered
      <3>2. new.pc = "scan"
        BY <1>t DEF SlotType
      <3> HIDE DEF new
      <3>3. QED
        BY <3>1, <3>2, MoveEnds, RespondEnds
    <2>4. QED
      BY <1>8, <2>1, <2>2, <2>3 DEF CameFrom, EndsAt
  <1>9. CASE Scan(r) \/ RevokeEach(r)
    <2>1. ASSUME Scan(r) PROVE EndsAt(r, "revoke_each")
      BY <2>1, <1>t, MoveEnds, RespondEnds DEF Scan, SlotType
    <2>2. ASSUME RevokeEach(r) PROVE EndsAt(r, "done") \/ EndsAt(r, "key_load")
      BY <2>2, <1>t, MoveEnds, RespondEnds DEF RevokeEach, PatchAnswered, SlotType
    <2>3. QED
      BY <1>9, <2>1, <2>2 DEF CameFrom, EndsAt
  <1>10. QED
    BY <1>1, <1>2, <1>3, <1>4, <1>5, <1>6, <1>7, <1>8, <1>9 DEF Handle

-----------------------------------------------------------------------------
(* A PATCH whose save no other save of the partner overlaps.                  *)

(* The record is the row as it is now with the PATCH laid over it.            *)
ExactPartner(s) ==
    /\ SavesPartner(s) => s.ptnRec = Merge(partners[s.partner], s.patch)
    /\ s.pc = "ptn_write" => s.dirty = Dirty(s.ptnRec, partners[s.partner])

(* Between a crash and the next boot no request is in flight.                 *)
Resting == process # "up" => crashes > 0 /\ late = {} /\ \A r \in Request : slot[r].pc = "idle"

LEMMA RestingStep ==
    ASSUME IInv, Resting, [Next]_vars
    PROVE  Resting'
  <1>1. ASSUME NEW r \in Request, Arrive(r) \/ Handle(r) \/ Finish(r) PROVE Resting'
    <2>1. process' = "up"
      BY <1>1, ServedWhenUp, RequestKeepsProcess
    <2>2. QED
      BY <2>1 DEF Resting
  <1>2. CASE Crash
    <2>1. \A r \in Request : slot'[r] = Idle
      BY <1>2 DEF Crash
    <2>2. late' = {} /\ crashes' > 0
      BY <1>2 DEF Crash, IInv, TypeOK
    <2>3. QED
      BY <2>1, <2>2 DEF Resting, Idle
  <1>3. CASE Boot \/ BootFails \/ Supervise \/ UNCHANGED vars
    <2>1. UNCHANGED <<slot, late, crashes>> /\ (process' # "up" => process # "up")
      BY <1>3 DEF Boot, BootFails, Supervise, vars, history
    <2>2. QED
      BY <2>1 DEF Resting
  <1>4. QED
    BY <1>1, <1>2, <1>3 DEF Next

(* Only two steps of a request write partners, and two write api_keys.        *)
LEMMA PartnerWritersOf ==
    ASSUME NEW r \in Request, Arrive(r) \/ Handle(r) \/ Finish(r)
    PROVE  UNCHANGED partners \/ PartnerWrite(r) \/ CreateInsert(r)
  <1>1. CASE Arrive(r) \/ Finish(r)
    BY <1>1 DEF Arrive, Call, IssueKey, RevokeKey, CreatePartner, PatchPartner, Admit, Finish
  <1>2. CASE AuthFind(r) \/ AuthPartner(r) \/ KeyGet(r) \/ KeyLoad(r) \/ KeyWrite(r)
    BY <1>2 DEF AuthFind, AuthPartner, KeyGet, KeyLoad, KeyWrite
  <1>3. CASE GenCheck(r) \/ GenInsert(r) \/ CreateCheck(r) \/ PatchBefore(r) \/ SlugCheck(r)
    BY <1>3 DEF GenCheck, GenInsert, CreateCheck, PatchBefore, SlugCheck
  <1>4. CASE PartnerGet(r) \/ PartnerLoad(r) \/ Scan(r) \/ RevokeEach(r)
    BY <1>4 DEF PartnerGet, PartnerLoad, Scan, RevokeEach
  <1>5. QED
    BY <1>1, <1>2, <1>3, <1>4 DEF Handle

LEMMA KeyWritersOf ==
    ASSUME NEW r \in Request, Arrive(r) \/ Handle(r) \/ Finish(r)
    PROVE  UNCHANGED keys \/ KeyWrite(r) \/ GenInsert(r)
  <1>1. CASE Arrive(r) \/ Finish(r)
    BY <1>1 DEF Arrive, Call, IssueKey, RevokeKey, CreatePartner, PatchPartner, Admit, Finish
  <1>2. CASE AuthFind(r) \/ AuthPartner(r) \/ KeyGet(r) \/ KeyLoad(r) \/ GenCheck(r)
    BY <1>2 DEF AuthFind, AuthPartner, KeyGet, KeyLoad, GenCheck
  <1>3. CASE CreateCheck(r) \/ CreateInsert(r) \/ PatchBefore(r) \/ SlugCheck(r)
    BY <1>3 DEF CreateCheck, CreateInsert, PatchBefore, SlugCheck
  <1>4. CASE PartnerGet(r) \/ PartnerLoad(r) \/ PartnerWrite(r) \/ Scan(r) \/ RevokeEach(r)
    BY <1>4 DEF PartnerGet, PartnerLoad, PartnerWrite, Scan, RevokeEach
  <1>5. QED
    BY <1>1, <1>2, <1>3, <1>4 DEF Handle

(* A request writes the row of its own partner, or a row that was absent.     *)
LEMMA PartnerRowKept ==
    ASSUME IInv, NEW r \in Request, Arrive(r) \/ Handle(r) \/ Finish(r), NEW p \in PartnerIds,
           ~(PartnerWrite(r) /\ slot[r].partner = p)
    PROVE  partners'[p] = partners[p]
  <1>t. partners \in [Partner -> PartnerRow \cup {Absent}] /\ p \in Partner /\ partners[p] # Absent
    BY DEF IInv, TypeOK, PartnerIds
  <1>1. CASE PartnerWrite(r)
    BY <1>1, <1>t DEF PartnerWrite
  <1>2. CASE CreateInsert(r)
    BY <1>2, <1>t DEF CreateInsert
  <1>3. CASE UNCHANGED partners
    BY <1>3
  <1>4. QED
    BY <1>1, <1>2, <1>3, PartnerWritersOf

(* While partner saves stay apart, what each of them holds stays exact.       *)
LEMMA ExactPartnerStep ==
    ASSUME IInv, Resting, PartnerUpdatesApart, \A q \in Request : ExactPartner(slot[q]), [Next]_vars
    PROVE  \A q \in Request : ExactPartner(slot[q])'
  <1>1. ASSUME NEW r \in Request, Arrive(r) \/ Handle(r) \/ Finish(r), NEW q \in Request \ {r}
        PROVE  ExactPartner(slot[q])'
    <2>1. slot'[q] = slot[q]
      BY <1>1, StepMoves DEF Alone, IInv
    <2> SUFFICES ASSUME SavesPartner(slot[q]) PROVE ExactPartner(slot[q])'
      BY <2>1 DEF ExactPartner, SavesPartner
    <2>2. slot[q].partner \in PartnerIds
      BY PartnerSaveFacts DEF SavesPartner
    <2>3. ASSUME PartnerWrite(r) PROVE slot[r].partner # slot[q].partner
      BY <2>3 DEF PartnerUpdatesApart, PartnerWrite, At, SavesPartner
    <2>4. partners'[slot[q].partner] = partners[slot[q].partner]
      BY <1>1, <2>2, <2>3, PartnerRowKept
    <2>5. QED
      BY <2>1, <2>4 DEF ExactPartner, SavesPartner
  <1>2. ASSUME NEW r \in Request, Arrive(r) \/ Handle(r) \/ Finish(r)
        PROVE  ExactPartner(slot[r])'
    <2>t. TypeOK /\ slot[r] \in SlotType
      BY DEF IInv, TypeOK
    <2> SUFFICES ASSUME SavesPartner(slot[r])' PROVE ExactPartner(slot[r])'
      BY DEF ExactPartner, SavesPartner
    <2>1. CASE PartnerGet(r)
      <3> DEFINE rec == Merge(partners[slot[r].partner], slot[r].patch)
                 new == [slot[r] EXCEPT !.pc = "ptn_load", !.ptnRec = rec]
      <3>1. slot'[r] = new /\ partners' = partners
        BY <2>1, <2>t, MoveEnds DEF PartnerGet
      <3>2. new.pc = "ptn_load" /\ new.ptnRec = rec /\ new.partner = slot[r].partner
            /\ new.patch = slot[r].patch
        BY <2>t DEF SlotType
      <3> HIDE DEF new
      <3>3. QED
        BY <3>1, <3>2 DEF ExactPartner, SavesPartner
    <2>2. CASE PartnerLoad(r)
      <3> DEFINE cols == Dirty(slot[r].ptnRec, partners[slot[r].partner])
                 new == [slot[r] EXCEPT !.pc = "ptn_write", !.dirty = cols]
      <3>1. slot'[r] = new /\ partners' = partners /\ slot[r].pc = "ptn_load"
        BY <2>2, <2>t, MoveEnds DEF PartnerLoad, At
      <3>2. new.pc = "ptn_write" /\ new.ptnRec = slot[r].ptnRec /\ new.partner = slot[r].partner
            /\ new.patch = slot[r].patch /\ new.dirty = cols
        BY <2>t DEF SlotType
      <3> HIDE DEF new
      <3>3. slot[r].ptnRec = Merge(partners[slot[r].partner], slot[r].patch)
        BY <3>1 DEF ExactPartner, SavesPartner
      <3>4. QED
        BY <3>1, <3>2, <3>3 DEF ExactPartner, SavesPartner
    <2>3. QED
      BY <1>2, <2>1, <2>2, StepMoves DEF CameFrom, SavesPartner, IInv
  <1>3. CASE Crash
    <2>1. \A q \in Request : slot'[q] = Idle
      BY <1>3 DEF Crash
    <2>2. QED
      BY <2>1 DEF ExactPartner, SavesPartner, Idle
  <1>4. CASE Boot
    <2>1. \A q \in Request : slot'[q].pc = "idle"
      BY <1>4 DEF Boot, Resting
    <2>2. QED
      BY <2>1 DEF ExactPartner, SavesPartner
  <1>5. CASE BootFails \/ Supervise \/ UNCHANGED vars
    <2>1. UNCHANGED <<partners, slot>>
      BY <1>5 DEF BootFails, Supervise, vars
    <2>2. QED
      BY <2>1 DEF ExactPartner, SavesPartner
  <1>6. QED
    BY <1>1, <1>2, <1>3, <1>4, <1>5 DEF Next

(* What the UPDATE of a PATCH leaves in the two columns.                       *)
LEMMA PartnerWritten ==
    ASSUME IInv, NEW r \in Request, PartnerWrite(r)
    PROVE  /\ slot[r].pc = "ptn_write" /\ slot[r].partner \in PartnerIds
           /\ partners[slot[r].partner] \in PartnerRow /\ slot[r].patch \in PartnerPatch
           /\ \A column \in {"status", "slug"} :
                 \/ partners'[slot[r].partner][column] = partners[slot[r].partner][column]
                 \/ /\ column \in slot[r].dirty
                    /\ partners'[slot[r].partner][column] = slot[r].ptnRec[column]
  <1> DEFINE p == slot[r].partner
             row == partners[p]
             rec == slot[r].ptnRec
             dirty == slot[r].dirty
  <1>1. slot[r].pc = "ptn_write"
    BY DEF PartnerWrite, At
  <1>2. p \in PartnerIds /\ p \in Partner /\ row \in PartnerRow /\ slot[r].patch \in PartnerPatch
    BY <1>1, PartnerSaveFacts DEF PartnerIds
  <1>3. partners' = partners \/ partners' = [partners EXCEPT ![p] = Written(row, rec, dirty)]
    BY DEF PartnerWrite
  <1>4. partners'[p] \in {row, Written(row, rec, dirty)}
    BY <1>2, <1>3 DEF IInv, TypeOK
  <1>5. \A column \in {"status", "slug"} :
           Written(row, rec, dirty)[column] = IF column \in dirty THEN rec[column] ELSE row[column]
    BY <1>2 DEF Written, PartnerRow
  <1> HIDE DEF row, rec, dirty
  <1>6. \A column \in {"status", "slug"} :
           \/ partners'[p][column] = row[column]
           \/ column \in dirty /\ partners'[p][column] = rec[column]
    BY <1>4, <1>5
  <1>7. QED
    BY <1>1, <1>2, <1>6 DEF row, rec, dirty

(* The status is what the body says, if it says anything: the record has no   *)
(* status of its own, whatever was read.                                      *)
LEMMA StatusWritten ==
    ASSUME IInv, NEW r \in Request, PartnerWrite(r)
    PROVE  LET p == slot[r].partner
               status == slot[r].patch.status
           IN  \/ partners'[p].status = partners[p].status
               \/ status # Undefined /\ partners'[p].status = status
  BY PartnerWritten, PartnerSaveFacts

(* The slug is what the body says, or what it was when the record was read.   *)
LEMMA SlugWritten ==
    ASSUME IInv, NEW r \in Request, ExactPartner(slot[r]), PartnerWrite(r)
    PROVE  \/ partners'[slot[r].partner].slug = partners[slot[r].partner].slug
           \/ slot[r].patch.slug # Unset
  <1>1. slot[r].ptnRec = Merge(partners[slot[r].partner], slot[r].patch)
    BY PartnerWritten DEF ExactPartner, SavesPartner
  <1>2. slot[r].patch.slug = Unset => slot[r].ptnRec.slug = partners[slot[r].partner].slug
    BY <1>1, PartnerWritten DEF Merge, PartnerRow
  <1>3. QED
    BY <1>2, PartnerWritten

(* A step that changes a partner is the UPDATE of a PATCH of it, or a boot.   *)
LEMMA PartnerChange ==
    ASSUME IInv, [Next]_vars, NEW p \in PartnerIds, partners'[p] # partners[p], process # "down"
    PROVE  \E r \in Request : /\ PartnerWrite(r) /\ slot[r].partner = p
                              /\ slot'[r].pc # "ptn_write"
  <1>1. ASSUME NEW r \in Request, Arrive(r) \/ Handle(r) \/ Finish(r)
        PROVE  PartnerWrite(r) /\ slot[r].partner = p /\ slot'[r].pc # "ptn_write"
    <2>1. PartnerWrite(r) /\ slot[r].partner = p
      BY <1>1, PartnerRowKept
    <2>2. slot[r].pc = "ptn_write"
      BY <2>1 DEF PartnerWrite, At
    <2>3. slot'[r].pc # "ptn_write"
      BY <1>1, <2>2, StepMoves DEF CameFrom, IInv, PartnerLoad, At
    <2>4. QED
      BY <2>1, <2>3
  <1>2. ~Boot /\ ~Crash /\ ~BootFails /\ ~Supervise /\ ~UNCHANGED vars
    BY DEF Boot, Crash, BootFails, Supervise, vars
  <1>3. QED
    BY <1>1, <1>2 DEF Next

(* A partner's status changes only by a PATCH that says so.                   *)
LEMMA OnlyPatchedStatus ==
    ASSUME IInv, [Next]_vars, NEW p \in PartnerIds
    PROVE  OnlyPatched(p, "status")
  <1> SUFFICES ASSUME partners'[p].status # partners[p].status, process # "down"
               PROVE  Patched(p, "status")
    BY DEF OnlyPatched
  <1>1. PICK r \in Request : PartnerWrite(r) /\ slot[r].partner = p /\ slot'[r].pc # "ptn_write"
    BY PartnerChange
  <1>2. slot[r].pc = "ptn_write" /\ slot[r].patch \in PartnerPatch /\ slot[r].patch.status # Undefined
    BY <1>1, StatusWritten, PartnerWritten
  <1>3. slot[r].patch.status # Unset
    BY <1>2, NullAssumption DEF PartnerPatch, Status
  <1>4. QED
    BY <1>1, <1>2, <1>3 DEF Patched

(* So does its slug, when what the PATCH holds is the row as it is.           *)
LEMMA OnlyPatchedSlug ==
    ASSUME IInv, \A q \in Request : ExactPartner(slot[q]), [Next]_vars, NEW p \in PartnerIds
    PROVE  OnlyPatched(p, "slug")
  <1> SUFFICES ASSUME partners'[p].slug # partners[p].slug, process # "down"
               PROVE  Patched(p, "slug")
    BY DEF OnlyPatched
  <1>1. PICK r \in Request : PartnerWrite(r) /\ slot[r].partner = p /\ slot'[r].pc # "ptn_write"
    BY PartnerChange
  <1>2. slot[r].pc = "ptn_write" /\ slot[r].patch \in PartnerPatch /\ slot[r].patch.slug # Unset
    BY <1>1, SlugWritten, PartnerWritten
  <1>3. slot[r].patch.slug # Undefined
    BY <1>2, NullAssumption DEF PartnerPatch
  <1>4. QED
    BY <1>1, <1>2, <1>3 DEF Patched

(* A partner is disabled and enabled only by a PATCH whose body asks for it,  *)
(* or at a boot, however many PATCHes of it overlap and however often the     *)
(* process dies: the DTO's own `status` keeps the one that was read out of    *)
(* the record that StoreService.update saves (store.service.ts:126-128).      *)
THEOREM StatusIsAsked == Spec => StatusIsAskedFor
  <1>1. IInv /\ [Next]_vars => [\A p \in PartnerIds : OnlyPatched(p, "status")]_vars
    BY OnlyPatchedStatus
  <1>2. QED
    BY <1>1, Inductive, PTL DEF Spec, StatusIsAskedFor

SavesExact == IInv /\ Resting /\ \A q \in Request : ExactPartner(slot[q])

LEMMA SavesExactInit == Init => SavesExact
  BY InitInv DEF Init, SavesExact, Resting, ExactPartner, SavesPartner, Idle

LEMMA SavesExactNext == SavesExact /\ PartnerUpdatesApart /\ [Next]_vars => SavesExact'
  BY NextInv, RestingStep, ExactPartnerStep DEF SavesExact

(* PATCH is a partial update of the slug, too, whatever else is in flight and *)
(* however often the process dies, as long as no two PATCHes of the same      *)
(* partner are between the SELECT and the UPDATE of StoreService.update at    *)
(* once: the second would save back the slug that it read.                    *)
THEOREM PatchIsPartial == Spec /\ []PartnerUpdatesApart => PartialUpdate
  <1>1. SavesExact /\ [Next]_vars =>
           [\A p \in PartnerIds : OnlyPatched(p, "status") /\ OnlyPatched(p, "slug")]_vars
    BY OnlyPatchedStatus, OnlyPatchedSlug DEF SavesExact
  <1>2. QED
    BY <1>1, SavesExactInit, SavesExactNext, PTL DEF Spec, PartialUpdate

-----------------------------------------------------------------------------
(* A key whose saves stay apart.                                              *)

(* The record is the key as it is now, touched or revoked.                    *)
ExactKey(s) ==
    /\ SavesKey(s) => s.keyRec = Merge(keys[s.key], IF s.op = "use" THEN TouchPatch ELSE RevokePatch)
    /\ s.pc = "key_write" => s.dirty = Dirty(s.keyRec, keys[s.key])

(* A request writes the key it holds, or a row that was absent.               *)
LEMMA KeyRowKept ==
    ASSUME IInv, NEW r \in Request, Arrive(r) \/ Handle(r) \/ Finish(r), NEW k \in KeyIds,
           ~(KeyWrite(r) /\ slot[r].key = k)
    PROVE  keys'[k] = keys[k]
  <1>t. keys \in [Key -> KeyRow \cup {Absent}] /\ k \in Key /\ keys[k] # Absent
    BY DEF IInv, TypeOK, KeyIds
  <1>1. CASE KeyWrite(r)
    BY <1>1, <1>t, KeyWriteRow
  <1>2. CASE GenInsert(r)
    BY <1>2, <1>t DEF GenInsert
  <1>3. CASE UNCHANGED keys
    BY <1>3
  <1>4. QED
    BY <1>1, <1>2, <1>3, KeyWritersOf

(* What a KeyGet and a RevokeEach put in the slot.                            *)
LEMMA KeyRecRead ==
    ASSUME IInv, NEW r \in Request, KeyGet(r) \/ RevokeEach(r), SavesKey(slot[r])'
    PROVE  /\ slot'[r].pc = "key_load" /\ UNCHANGED keys
           /\ slot'[r].op = slot[r].op
           /\ slot'[r].keyRec = Merge(keys[slot'[r].key],
                                      IF slot[r].op = "use" THEN TouchPatch ELSE RevokePatch)
           /\ RevokeEach(r) => /\ slot'[r].key \in slot[r].live
                               /\ slot'[r].live = slot[r].live \ {slot'[r].key}
                               /\ slot'[r].partner = slot[r].partner
  <1>t. TypeOK /\ slot[r] \in SlotType
    BY DEF IInv, TypeOK
  <1>1. CASE KeyGet(r)
    <2> DEFINE rec == Merge(keys[slot[r].key], KeyPatch(r))
               new == [slot[r] EXCEPT !.pc = "key_load", !.keyRec = rec]
    <2>1. ~Respond(r, "200")
      BY <1>t, RespondEnds DEF EndsAt, SavesKey
    <2>2. Move(r, new) /\ UNCHANGED keys /\ slot[r].pc = "key_get"
      BY <1>1, <2>1 DEF KeyGet, At
    <2>3. new.pc = "key_load" /\ new.op = slot[r].op /\ new.key = slot[r].key /\ new.keyRec = rec
      BY <1>t DEF SlotType
    <2> HIDE DEF new
    <2>4. slot'[r] = new
      BY <2>2, <1>t, MoveEnds
    <2>5. ~RevokeEach(r)
      BY <2>2 DEF RevokeEach, At
    <2>6. QED
      BY <2>2, <2>3, <2>4, <2>5 DEF KeyPatch
  <1>2. CASE RevokeEach(r)
    <2>1. slot[r].pc = "revoke_each" /\ UNCHANGED keys
      BY <1>2 DEF RevokeEach, At
    <2>2. slot[r].op = "patch"
      BY <2>1, SlotFacts DEF Local, PatchKnowsPartner, PatchPC
    <2>3. ~Respond(r, "200")
      BY <1>t, RespondEnds DEF EndsAt, SavesKey
    <2>4. PICK k \in slot[r].live :
             Move(r, [slot[r] EXCEPT !.pc = "key_load", !.key = k,
                                     !.keyRec = Merge(keys[k], RevokePatch),
                                     !.live = @ \ {k}])
      BY <1>2, <2>3 DEF RevokeEach, PatchAnswered
    <2> DEFINE rec == Merge(keys[k], RevokePatch)
               rest == slot[r].live \ {k}
               new == [slot[r] EXCEPT !.pc = "key_load", !.key = k, !.keyRec = rec, !.live = rest]
    <2>5. Move(r, new)
      BY <2>4
    <2>6. /\ new.pc = "key_load" /\ new.op = slot[r].op /\ new.key = k /\ new.keyRec = rec
          /\ new.live = rest /\ new.partner = slot[r].partner
      BY <1>t DEF SlotType
    <2> HIDE DEF new
    <2>7. slot'[r] = new
      BY <2>5, <1>t, MoveEnds
    <2>8. QED
      BY <2>1, <2>2, <2>6, <2>7
  <1>3. QED
    BY <1>1, <1>2

(* save's SELECT.                                                             *)
LEMMA KeyDirtyRead ==
    ASSUME IInv, NEW r \in Request, KeyLoad(r)
    PROVE  /\ slot[r].pc = "key_load" /\ slot'[r].pc = "key_write" /\ UNCHANGED keys
           /\ slot'[r].op = slot[r].op /\ slot'[r].key = slot[r].key
           /\ slot'[r].partner = slot[r].partner /\ slot'[r].live = slot[r].live
           /\ slot'[r].keyRec = slot[r].keyRec
           /\ slot'[r].dirty = Dirty(slot[r].keyRec, keys[slot[r].key])
  <1>t. TypeOK /\ slot[r] \in SlotType
    BY DEF IInv, TypeOK
  <1> DEFINE cols == Dirty(slot[r].keyRec, keys[slot[r].key])
             new == [slot[r] EXCEPT !.pc = "key_write", !.dirty = cols]
  <1>1. Move(r, new) /\ UNCHANGED keys /\ slot[r].pc = "key_load"
    BY DEF KeyLoad, At
  <1>2. /\ new.pc = "key_write" /\ new.op = slot[r].op /\ new.key = slot[r].key
        /\ new.partner = slot[r].partner /\ new.live = slot[r].live
        /\ new.keyRec = slot[r].keyRec /\ new.dirty = cols
    BY <1>t DEF SlotType
  <1> HIDE DEF new
  <1>3. slot'[r] = new
    BY <1>1, <1>t, MoveEnds
  <1>4. QED
    BY <1>1, <1>2, <1>3

(* While the saves of a key stay apart, what each of them holds stays exact.  *)
LEMMA ExactKeyStep ==
    ASSUME IInv, Resting, KeyUpdatesApart, \A q \in Request : ExactKey(slot[q]), [Next]_vars
    PROVE  \A q \in Request : ExactKey(slot[q])'
  <1>1. ASSUME NEW r \in Request, Arrive(r) \/ Handle(r) \/ Finish(r), NEW q \in Request \ {r}
        PROVE  ExactKey(slot[q])'
    <2>1. slot'[q] = slot[q]
      BY <1>1, StepMoves DEF Alone, IInv
    <2> SUFFICES ASSUME SavesKey(slot[q]) PROVE ExactKey(slot[q])'
      BY <2>1 DEF ExactKey, SavesKey
    <2>2. slot[q].key \in KeyIds
      BY SlotFacts DEF SavesKey, Local, SaveKeepsBinding
    <2>3. ASSUME KeyWrite(r) PROVE slot[r].key # slot[q].key
      BY <2>3 DEF KeyUpdatesApart, KeyWrite, At, SavesKey
    <2>4. keys'[slot[q].key] = keys[slot[q].key]
      BY <1>1, <2>2, <2>3, KeyRowKept
    <2>5. QED
      BY <2>1, <2>4 DEF ExactKey, SavesKey
  <1>2. ASSUME NEW r \in Request, Arrive(r) \/ Handle(r) \/ Finish(r)
        PROVE  ExactKey(slot[r])'
    <2> SUFFICES ASSUME SavesKey(slot[r])' PROVE ExactKey(slot[r])'
      BY DEF ExactKey, SavesKey
    <2>1. CASE KeyGet(r) \/ RevokeEach(r)
      <3>1. /\ slot'[r].pc = "key_load" /\ UNCHANGED keys /\ slot'[r].op = slot[r].op
            /\ slot'[r].keyRec = Merge(keys[slot'[r].key],
                                       IF slot[r].op = "use" THEN TouchPatch ELSE RevokePatch)
        BY <2>1, KeyRecRead
      <3>2. QED
        BY <3>1 DEF ExactKey, SavesKey
    <2>2. CASE KeyLoad(r)
      <3>1. slot[r].keyRec = Merge(keys[slot[r].key],
                                   IF slot[r].op = "use" THEN TouchPatch ELSE RevokePatch)
        BY <2>2, KeyDirtyRead DEF ExactKey, SavesKey
      <3>2. QED
        BY <2>2, <3>1, KeyDirtyRead DEF ExactKey, SavesKey
    <2>3. QED
      BY <1>2, <2>1, <2>2, StepMoves DEF CameFrom, SavesKey, IInv
  <1>3. CASE Crash
    <2>1. \A q \in Request : slot'[q] = Idle
      BY <1>3 DEF Crash
    <2>2. QED
      BY <2>1 DEF ExactKey, SavesKey, Idle
  <1>4. CASE Boot
    <2>1. \A q \in Request : slot'[q].pc = "idle"
      BY <1>4 DEF Boot, Resting
    <2>2. QED
      BY <2>1 DEF ExactKey, SavesKey
  <1>5. CASE BootFails \/ Supervise \/ UNCHANGED vars
    <2>1. UNCHANGED <<keys, slot>>
      BY <1>5 DEF BootFails, Supervise, vars
    <2>2. QED
      BY <2>1 DEF ExactKey, SavesKey
  <1>6. QED
    BY <1>1, <1>2, <1>3, <1>4, <1>5 DEF Next

(* Then a write never clears `revoked`, and that of a revocation sets it.     *)
LEMMA ExactKeyWrite ==
    ASSUME IInv, NEW r \in Request, ExactKey(slot[r]), KeyWrite(r)
    PROVE  LET k == slot[r].key
           IN  /\ k \in KeyIds /\ keys'[k] # Absent
               /\ keys[k].revoked \/ slot[r].op # "use" => keys'[k].revoked
  <1> DEFINE k == slot[r].key
             row == keys[k]
             patch == IF slot[r].op = "use" THEN TouchPatch ELSE RevokePatch
             rec == Merge(row, patch)
             dirty == Dirty(rec, row)
  <1>1. slot[r].pc = "key_write" /\ keys' = [keys EXCEPT ![k] = Written(@, slot[r].keyRec, slot[r].dirty)]
    BY DEF KeyWrite, At
  <1>2. k \in KeyIds /\ k \in Key /\ row \in KeyRow /\ keys \in [Key -> KeyRow \cup {Absent}]
        /\ keys'[k] \in KeyRow
    BY KeyWriteRow DEF KeyIds, IInv, TypeOK
  <1>3. slot[r].keyRec = rec /\ slot[r].dirty = dirty
    BY <1>1 DEF ExactKey, SavesKey
  <1>4. keys'[k] = Written(row, rec, dirty)
    BY <1>1, <1>2, <1>3
  <1>5. patch \in {TouchPatch, RevokePatch}
    OBVIOUS
  <1>6. rec \in KeyRow /\ (row.revoked => rec.revoked)
    BY <1>2, <1>5, MergeKey
  <1>7. slot[r].op # "use" => rec.revoked
    <2> SUFFICES ASSUME slot[r].op # "use" PROVE rec.revoked
      OBVIOUS
    <2>1. patch = RevokePatch
      OBVIOUS
    <2>2. RevokePatch.revoked = TRUE /\ TRUE # Unset
      <3>1. TRUE \in BOOLEAN
        OBVIOUS
      <3>2. QED
        BY <3>1, NullAssumption DEF RevokePatch
    <2>3. rec.revoked = TRUE
      BY <1>2, <2>1, <2>2 DEF Merge, KeyRow
    <2>4. QED
      BY <2>3
  <1>8. Written(row, rec, dirty).revoked = rec.revoked
    <2>1. PICK old \in BOOLEAN, now \in BOOLEAN : old = row.revoked /\ now = rec.revoked
      BY <1>2, <1>6, Zenon DEF KeyRow
    <2>2. now # Undefined
      BY NullAssumption, Zenon
    <2>3. DOMAIN row = {"revoked", "partner_id"} /\ "revoked" \in DOMAIN row
      BY <1>2 DEF KeyRow
    <2>4. "revoked" \in dirty <=> now \notin {Undefined, old}
      BY <2>1, <2>3, Zenon DEF Dirty
    <2>5. Written(row, rec, dirty)["revoked"] = IF "revoked" \in dirty THEN now ELSE old
      <3>1. Written(row, rec, dirty)["revoked"]
               = IF "revoked" \in dirty THEN rec["revoked"] ELSE row["revoked"]
        BY <2>3, Zenon DEF Written
      <3>2. QED
        BY <2>1, <3>1, Zenon
    <2>6. Written(row, rec, dirty)["revoked"] = now
      BY <2>2, <2>4, <2>5, Zenon
    <2>7. QED
      BY <2>1, <2>6, Zenon
  <1>9. Absent \notin KeyRow
    BY NullAssumption DEF KeyRow
  <1> HIDE DEF row, rec, patch, dirty
  <1>10. QED
    BY <1>2, <1>4, <1>6, <1>7, <1>8, <1>9 DEF row

-----------------------------------------------------------------------------
(* Then a revocation that was answered is final.                              *)

AckedRevoked == \A k \in acked : k \in KeyIds /\ keys[k].revoked

TurnedAway ==
    \A r \in late : /\ slot[r].op = "use" /\ slot[r].key \in acked
                    /\ slot[r].pc \in {"auth_find", "done"} /\ slot[r].res # "200"

(* The boot resets no key while the process runs for the first time, or when   *)
(* DB_SEED is 'false'.                                                        *)
KeysOutliveBoots == MaxCrashes = 0 \/ ~Seeding

LEMMA BootKeepsKeys ==
    ASSUME KeysOutliveBoots, IInv, Resting, Boot
    PROVE  UNCHANGED keys
  <1>1. crashes > 0 /\ crashes \in 0 .. MaxCrashes
    BY DEF Boot, Resting, IInv, TypeOK
  <1>2. ~Seeding
    BY <1>1, BoundAssumption DEF KeysOutliveBoots
  <1>3. QED
    BY <1>2 DEF Boot

LEMMA AckedStep ==
    ASSUME KeysOutliveBoots, IInv, Resting, \A q \in Request : ExactKey(slot[q]), AckedRevoked,
           [Next]_vars
    PROVE  AckedRevoked'
  <1>1. ASSUME NEW r \in Request, KeyWrite(r) PROVE AckedRevoked'
    <2>1. /\ slot[r].key \in KeyIds /\ keys'[slot[r].key] # Absent
          /\ keys[slot[r].key].revoked \/ slot[r].op # "use" => keys'[slot[r].key].revoked
      BY <1>1, ExactKeyWrite
    <2>2. \A j \in Key \ {slot[r].key} : keys'[j] = keys[j]
      BY <1>1, KeyWriteRow
    <2>3. acked' = IF slot[r].op = "revoke" THEN acked \cup {slot[r].key} ELSE acked
      BY <1>1 DEF KeyWrite
    <2>4. QED
      BY <2>1, <2>2, <2>3 DEF AckedRevoked, KeyIds
  <1>2. CASE ~(\E r \in Request : KeyWrite(r))
    <2>1. \A k \in KeyIds : k \in KeyIds' /\ keys'[k] = keys[k]
      <3>1. ASSUME NEW r \in Request, GenInsert(r) PROVE \A k \in KeyIds : keys'[k] = keys[k]
        BY <3>1 DEF GenInsert, KeyIds, IInv, TypeOK
      <3>2. \A k \in KeyIds : keys'[k] = keys[k]
        BY <1>2, <3>1, KeyWriters, BootKeepsKeys
      <3>3. QED
        BY <3>2 DEF KeyIds
    <2>2. acked' = acked
      <3>1. ASSUME NEW r \in Request, Arrive(r) \/ Finish(r) PROVE acked' = acked
        BY <3>1 DEF Arrive, Call, IssueKey, RevokeKey, CreatePartner, PatchPartner, Admit, Finish
      <3>2. ASSUME NEW r \in Request, Handle(r) PROVE acked' = acked
        <4>1. CASE AuthFind(r) \/ AuthPartner(r) \/ KeyGet(r) \/ KeyLoad(r) \/ GenCheck(r) \/ GenInsert(r)
          BY <4>1 DEF AuthFind, AuthPartner, KeyGet, KeyLoad, GenCheck, GenInsert, history
        <4>2. CASE CreateCheck(r) \/ CreateInsert(r) \/ PatchBefore(r) \/ SlugCheck(r)
          BY <4>2 DEF CreateCheck, CreateInsert, PatchBefore, SlugCheck, history
        <4>3. CASE PartnerGet(r) \/ PartnerLoad(r) \/ PartnerWrite(r) \/ Scan(r) \/ RevokeEach(r)
          BY <4>3 DEF PartnerGet, PartnerLoad, PartnerWrite, Scan, RevokeEach, history
        <4>4. QED
          BY <1>2, <3>2, <4>1, <4>2, <4>3 DEF Handle
      <3>3. CASE Crash \/ Boot \/ BootFails \/ Supervise \/ UNCHANGED vars
        BY <3>3 DEF Crash, Boot, BootFails, Supervise, vars, history
      <3>4. QED
        BY <3>1, <3>2, <3>3 DEF Next
    <2>3. QED
      BY <2>1, <2>2 DEF AckedRevoked
  <1>3. QED
    BY <1>1, <1>2

(* Answered revocations are never forgotten.                                  *)
LEMMA AckedGrows == [Next]_vars => acked \subseteq acked'
  <1> SUFFICES ASSUME [Next]_vars PROVE acked \subseteq acked'
    OBVIOUS
  <1>1. ASSUME NEW r \in Request, Arrive(r) \/ Finish(r) PROVE acked' = acked
    BY <1>1 DEF Arrive, Call, IssueKey, RevokeKey, CreatePartner, PatchPartner, Admit, Finish
  <1>2. ASSUME NEW r \in Request, Handle(r) PROVE acked \subseteq acked'
    <2>1. CASE AuthFind(r) \/ AuthPartner(r) \/ KeyGet(r) \/ KeyLoad(r) \/ KeyWrite(r)
      BY <2>1 DEF AuthFind, AuthPartner, KeyGet, KeyLoad, KeyWrite, history
    <2>2. CASE GenCheck(r) \/ GenInsert(r) \/ CreateCheck(r) \/ CreateInsert(r)
      BY <2>2 DEF GenCheck, GenInsert, CreateCheck, CreateInsert, history
    <2>3. CASE PatchBefore(r) \/ SlugCheck(r) \/ PartnerGet(r) \/ PartnerLoad(r)
      BY <2>3 DEF PatchBefore, SlugCheck, PartnerGet, PartnerLoad, history
    <2>4. CASE PartnerWrite(r) \/ Scan(r) \/ RevokeEach(r)
      BY <2>4 DEF PartnerWrite, Scan, RevokeEach, history
    <2>5. QED
      BY <1>2, <2>1, <2>2, <2>3, <2>4 DEF Handle
  <1>3. CASE Crash \/ Boot \/ BootFails \/ Supervise \/ UNCHANGED vars
    BY <1>3 DEF Crash, Boot, BootFails, Supervise, vars, history
  <1>4. QED
    BY <1>1, <1>2, <1>3 DEF Next

(* A handler leaves `late` alone.                                             *)
LEMMA HandleKeepsLate ==
    ASSUME NEW r \in Request, Handle(r)
    PROVE  late' = late
  <1>1. CASE AuthFind(r) \/ AuthPartner(r) \/ KeyGet(r) \/ KeyLoad(r) \/ KeyWrite(r)
    BY <1>1 DEF AuthFind, AuthPartner, KeyGet, KeyLoad, KeyWrite, history
  <1>2. CASE GenCheck(r) \/ GenInsert(r) \/ CreateCheck(r) \/ CreateInsert(r)
    BY <1>2 DEF GenCheck, GenInsert, CreateCheck, CreateInsert, history
  <1>3. CASE PatchBefore(r) \/ SlugCheck(r) \/ PartnerGet(r) \/ PartnerLoad(r)
    BY <1>3 DEF PatchBefore, SlugCheck, PartnerGet, PartnerLoad, history
  <1>4. CASE PartnerWrite(r) \/ Scan(r) \/ RevokeEach(r)
    BY <1>4 DEF PartnerWrite, Scan, RevokeEach, history
  <1>5. QED
    BY <1>1, <1>2, <1>3, <1>4 DEF Handle

(* A late call is refused when its key is looked up.                          *)
LEMMA LateHandled ==
    ASSUME IInv, AckedRevoked, TurnedAway, NEW r \in late, Handle(r)
    PROVE  /\ slot'[r].op = "use" /\ slot'[r].key = slot[r].key
           /\ slot'[r].pc = "done" /\ slot'[r].res = "401"
  <1>t. r \in Request /\ TypeOK /\ slot[r] \in SlotType
    BY DEF IInv, TypeOK
  <1>1. /\ slot[r].op = "use" /\ slot[r].key \in acked /\ slot[r].pc \in {"auth_find", "done"}
        /\ keys[slot[r].key].revoked
    BY DEF TurnedAway, AckedRevoked
  <1>2. AuthFind(r)
    BY <1>1 DEF Handle, At, AuthPartner, KeyGet, KeyLoad, KeyWrite, GenCheck, GenInsert,
       CreateCheck, CreateInsert, PatchBefore, SlugCheck, PartnerGet, PartnerLoad,
       PartnerWrite, Scan, RevokeEach
  <1>3. Respond(r, "401")
    BY <1>1, <1>2 DEF AuthFind
  <1>4. Move(r, Answered(slot[r], "401"))
    BY <1>3 DEF Respond, Answered
  <1>5. /\ Answered(slot[r], "401").pc = "done" /\ Answered(slot[r], "401").res = "401"
        /\ Answered(slot[r], "401").op = slot[r].op /\ Answered(slot[r], "401").key = slot[r].key
    BY <1>t DEF Answered, SlotType
  <1>6. QED
    BY <1>1, <1>4, <1>5, <1>t, MoveEnds

LEMMA TurnedAwayStep ==
    ASSUME IInv, AckedRevoked, TurnedAway, [Next]_vars
    PROVE  TurnedAway'
  <1>a. acked \subseteq acked'
    BY AckedGrows
  <1>t. TypeOK /\ late \subseteq Request
    BY DEF IInv, TypeOK
  <1>o. ASSUME NEW r \in Request, Arrive(r) \/ Handle(r) \/ Finish(r), NEW q \in late' \ {r},
               late' \subseteq late \cup {r}
        PROVE  slot'[q] = slot[q] /\ q \in late
    BY <1>o, <1>t, StepMoves DEF Alone
  <1>1. ASSUME NEW r \in Request, Call(r) PROVE TurnedAway'
    <2>1. PICK k \in KeyIds :
             /\ Admit(r, "use", "auth_find", k, keys[k].partner_id, NoPatch)
             /\ late' = IF k \in acked THEN late \cup {r} ELSE late
      BY <1>1 DEF Call
    <2> DEFINE new == [Idle EXCEPT !.op = "use", !.pc = "auth_find", !.key = k,
                                   !.partner = keys[k].partner_id, !.patch = NoPatch]
    <2>2. Move(r, new) /\ slot[r].pc = "idle"
      BY <2>1 DEF Admit
    <2>3. new.op = "use" /\ new.pc = "auth_find" /\ new.key = k /\ new.res = "none"
      BY DEF Idle
    <2> HIDE DEF new
    <2>4. slot'[r] = new
      BY <2>2, <1>t, MoveEnds
    <2>5. r \in late' => k \in acked
      BY <2>1, <2>2 DEF TurnedAway
    <2>6. \A q \in late' \ {r} : slot'[q] = slot[q] /\ q \in late
      BY <1>1, <1>o, <2>1 DEF Arrive
    <2>7. QED
      BY <2>3, <2>4, <2>5, <2>6, <1>a DEF TurnedAway
  <1>2. ASSUME NEW r \in Request, IssueKey(r) \/ RevokeKey(r) \/ CreatePartner(r) \/ PatchPartner(r)
        PROVE  TurnedAway'
    <2>1. late' = late /\ slot[r].pc = "idle"
      BY <1>2 DEF IssueKey, RevokeKey, CreatePartner, PatchPartner, Admit
    <2>2. r \notin late
      BY <2>1 DEF TurnedAway
    <2>3. QED
      BY <1>2, <1>o, <2>1, <2>2, <1>a DEF TurnedAway, Arrive
  <1>3. ASSUME NEW r \in Request, Finish(r) PROVE TurnedAway'
    <2>1. late' = late \ {r}
      BY <1>3 DEF Finish
    <2>2. QED
      BY <1>3, <1>o, <2>1, <1>a DEF TurnedAway
  <1>4. ASSUME NEW r \in Request, Handle(r) PROVE TurnedAway'
    <2>1. late' = late
      BY <1>4, HandleKeepsLate
    <2>2. \A q \in late' \ {r} : slot'[q] = slot[q] /\ q \in late
      BY <1>4, <1>o, <2>1
    <2>3. r \in late => /\ slot'[r].op = "use" /\ slot'[r].key = slot[r].key
                        /\ slot'[r].pc = "done" /\ slot'[r].res = "401"
      BY <1>4, LateHandled
    <2>4. QED
      BY <2>1, <2>2, <2>3, <1>a DEF TurnedAway
  <1>5. CASE Crash
    BY <1>5 DEF Crash, TurnedAway
  <1>6. CASE Boot \/ BootFails \/ Supervise \/ UNCHANGED vars
    <2>1. UNCHANGED <<slot, late>>
      BY <1>6 DEF Boot, BootFails, Supervise, vars, history
    <2>2. QED
      BY <2>1, <1>a DEF TurnedAway
  <1>7. QED
    BY <1>1, <1>2, <1>3, <1>4, <1>5, <1>6 DEF Next, Arrive

KeysExact == IInv /\ Resting /\ \A q \in Request : ExactKey(slot[q])

LEMMA KeysExactInit == Init => KeysExact
  BY InitInv DEF Init, KeysExact, Resting, ExactKey, SavesKey, Idle

LEMMA KeysExactNext == KeysExact /\ KeyUpdatesApart /\ [Next]_vars => KeysExact'
  BY NextInv, RestingStep, ExactKeyStep DEF KeysExact

Rejecting == KeysExact /\ AckedRevoked /\ TurnedAway

(* A call that begins after its key's DELETE was answered is never answered    *)
(* 200, whatever else is in flight, as long as no two requests save the same  *)
(* key at once and no boot brings a revoked fixture back.                     *)
THEOREM RevokedIsRejected ==
    ASSUME KeysOutliveBoots
    PROVE  Spec /\ []KeyUpdatesApart => []RevokedKeyRejected
  <1>1. Init => Rejecting
    BY KeysExactInit DEF Init, Rejecting, AckedRevoked, TurnedAway
  <1>2. Rejecting /\ KeyUpdatesApart /\ [Next]_vars => Rejecting'
    BY KeysExactNext, AckedStep, TurnedAwayStep DEF Rejecting, KeysExact
  <1>3. Rejecting => RevokedKeyRejected
    BY DEF Rejecting, TurnedAway, RevokedKeyRejected
  <1>4. QED
    BY <1>1, <1>2, <1>3, PTL DEF Spec

-----------------------------------------------------------------------------
(* A disable that no other decision about the partner overlaps.               *)

(* What a request read of the partner's status is still its status.           *)
ExactStatus(s) ==
    /\ s.pc \in {"slug_check", "ptn_get", "ptn_load", "ptn_write"}
          => s.before = partners[s.partner].status
    /\ s.pc = "gen_insert" => ~IsDisabled(s.partner)

(* The partner a request may have to change the decision for.                 *)
Deciding(s) ==
    s.pc \in {"slug_check", "ptn_get", "ptn_load", "ptn_write", "gen_insert"}

(* What the invariant says of a request that is deciding.                     *)
LEMMA DecidingFacts ==
    ASSUME IInv, NEW r \in Request, Deciding(slot[r])
    PROVE  /\ slot[r].pc # "gen_insert" => slot[r].partner \in PartnerIds /\ Settling(slot[r])
           /\ slot[r].partner \in PartnerIds \cup {NoPartner}
  BY SlotFacts DEF Deciding, Settling, Local, PatchKnowsPartner, PatchPC, IssueKnowsPartner

(* Nobody else changes the status while it matters.                           *)
LEMMA OthersStatusKept ==
    ASSUME IInv, StatusDecisionsApart, NEW r \in Request, Arrive(r) \/ Handle(r) \/ Finish(r),
           NEW q \in Request \ {r}, ExactStatus(slot[q])
    PROVE  ExactStatus(slot[q])'
  <1>1. slot'[q] = slot[q]
    BY StepMoves DEF Alone, IInv
  <1> SUFFICES ASSUME Deciding(slot[q]) PROVE ExactStatus(slot[q])'
    BY <1>1 DEF ExactStatus, Deciding
  <1> DEFINE p == slot[q].partner
  <1>2. CASE p \in PartnerIds
    <2>1. ASSUME PartnerWrite(r) PROVE slot[r].partner # p
      <3>1. slot[r].pc = "ptn_write" /\ Settling(slot[r])
        BY <2>1, PartnerSaveFacts DEF PartnerWrite, At, Settling
      <3>2. Settling(slot[q]) \/ slot[q].pc = "gen_insert"
        BY DecidingFacts
      <3>3. QED
        BY <3>1, <3>2 DEF StatusDecisionsApart
    <2>2. partners'[p] = partners[p]
      BY <1>2, <2>1, PartnerRowKept
    <2>3. IsDisabled(p)' => IsDisabled(p)
      BY <1>1, <1>2, <2>2 DEF IsDisabled, PartnerIds
    <2>4. QED
      BY <1>1, <2>2, <2>3 DEF ExactStatus
  <1>3. CASE p = NoPartner
    <2>1. slot[q].pc = "gen_insert"
      BY <1>3, DecidingFacts, NullAssumption DEF PartnerIds
    <2>2. ~IsDisabled(p)'
      BY <1>1, <1>3, NullAssumption DEF IsDisabled, PartnerIds
    <2>3. QED
      BY <1>1, <2>1, <2>2 DEF ExactStatus
  <1>4. QED
    BY <1>2, <1>3, DecidingFacts

(* What a step towards a decision leaves in the slot.                         *)
LEMMA StatusRead ==
    ASSUME IInv, NEW r \in Request, PatchBefore(r), Deciding(slot[r])'
    PROVE  /\ slot'[r].before = partners[slot[r].partner].status
           /\ slot'[r].partner = slot[r].partner /\ UNCHANGED partners
           /\ slot'[r].pc \in {"slug_check", "ptn_get"}
  <1>t. TypeOK /\ slot[r] \in SlotType
    BY DEF IInv, TypeOK
  <1> DEFINE st == partners[slot[r].partner].status
             pc == IF slot[r].patch.slug = Unset THEN "ptn_get" ELSE "slug_check"
             new == [slot[r] EXCEPT !.pc = pc, !.before = st]
  <1>1. ~Respond(r, "404")
    BY <1>t, RespondEnds DEF EndsAt, Deciding
  <1>2. Move(r, new) /\ UNCHANGED partners
    BY <1>1 DEF PatchBefore
  <1>3. new.before = st /\ new.partner = slot[r].partner /\ new.pc = pc
    BY <1>t DEF SlotType
  <1> HIDE DEF new, st
  <1>4. slot'[r] = new
    BY <1>2, <1>t, MoveEnds
  <1>5. QED
    BY <1>2, <1>3, <1>4 DEF st

LEMMA StatusCarried ==
    ASSUME IInv, NEW r \in Request, SlugCheck(r) \/ PartnerGet(r) \/ PartnerLoad(r),
           Deciding(slot[r])'
    PROVE  /\ slot'[r].before = slot[r].before /\ slot'[r].partner = slot[r].partner
           /\ UNCHANGED partners /\ slot'[r].pc # "gen_insert"
           /\ slot[r].pc \in {"slug_check", "ptn_get", "ptn_load"}
  <1>t. TypeOK /\ slot[r] \in SlotType
    BY DEF IInv, TypeOK
  <1>1. CASE SlugCheck(r)
    <2> DEFINE new == [slot[r] EXCEPT !.pc = "ptn_get"]
    <2>1. ~Respond(r, "409")
      BY <1>t, RespondEnds DEF EndsAt, Deciding
    <2>2. Move(r, new) /\ UNCHANGED partners /\ slot[r].pc = "slug_check"
      BY <1>1, <2>1 DEF SlugCheck, At
    <2>3. new.before = slot[r].before /\ new.partner = slot[r].partner /\ new.pc = "ptn_get"
      BY <1>t DEF SlotType
    <2> HIDE DEF new
    <2>4. QED
      BY <2>2, <2>3, <1>t, MoveEnds
  <1>2. CASE PartnerGet(r)
    <2> DEFINE rec == Merge(partners[slot[r].partner], slot[r].patch)
               new == [slot[r] EXCEPT !.pc = "ptn_load", !.ptnRec = rec]
    <2>1. Move(r, new) /\ UNCHANGED partners /\ slot[r].pc = "ptn_get"
      BY <1>2 DEF PartnerGet, At
    <2>2. new.before = slot[r].before /\ new.partner = slot[r].partner /\ new.pc = "ptn_load"
      BY <1>t DEF SlotType
    <2> HIDE DEF new
    <2>3. QED
      BY <2>1, <2>2, <1>t, MoveEnds
  <1>3. CASE PartnerLoad(r)
    <2> DEFINE cols == Dirty(slot[r].ptnRec, partners[slot[r].partner])
               new == [slot[r] EXCEPT !.pc = "ptn_write", !.dirty = cols]
    <2>1. Move(r, new) /\ UNCHANGED partners /\ slot[r].pc = "ptn_load"
      BY <1>3 DEF PartnerLoad, At
    <2>2. new.before = slot[r].before /\ new.partner = slot[r].partner /\ new.pc = "ptn_write"
      BY <1>t DEF SlotType
    <2> HIDE DEF new
    <2>3. QED
      BY <2>1, <2>2, <1>t, MoveEnds
  <1>4. QED
    BY <1>1, <1>2, <1>3

LEMMA IssueChecked ==
    ASSUME IInv, NEW r \in Request, GenCheck(r) \/ IssueKey(r), slot'[r].pc = "gen_insert"
    PROVE  ~IsDisabled(slot[r].partner)'
  <1>t. TypeOK /\ slot[r] \in SlotType
    BY DEF IInv, TypeOK
  <1>1. CASE GenCheck(r)
    <2> DEFINE new == [slot[r] EXCEPT !.pc = "gen_insert"]
    <2>1. ~Respond(r, "400")
      BY <1>t, RespondEnds DEF EndsAt
    <2>2. Move(r, new) /\ UNCHANGED partners /\ ~IsDisabled(slot[r].partner)
      BY <1>1, <2>1 DEF GenCheck
    <2>3. new.partner = slot[r].partner
      BY <1>t DEF SlotType
    <2> HIDE DEF new
    <2>4. slot'[r].partner = slot[r].partner
      BY <2>2, <2>3, <1>t, MoveEnds
    <2>5. QED
      BY <2>2, <2>4 DEF IsDisabled, PartnerIds
  <1>2. CASE IssueKey(r)
    <2>1. PICK p \in Partner \cup {NoPartner} :
             Admit(r, "issue", IF p = NoPartner THEN "gen_insert" ELSE "gen_check",
                   SeedKey, p, NoPatch)
      BY <1>2 DEF IssueKey
    <2> DEFINE pc == IF p = NoPartner THEN "gen_insert" ELSE "gen_check"
               new == [Idle EXCEPT !.op = "issue", !.pc = pc, !.key = SeedKey,
                                   !.partner = p, !.patch = NoPatch]
    <2>2. Move(r, new)
      BY <2>1 DEF Admit
    <2>3. new.pc = pc /\ new.partner = p
      BY DEF Idle
    <2> HIDE DEF new
    <2>4. slot'[r].partner = NoPartner
      BY <2>2, <2>3, <1>t, MoveEnds
    <2>5. QED
      BY <2>4, NullAssumption DEF IsDisabled, PartnerIds
  <1>3. QED
    BY <1>1, <1>2

(* While decisions about a partner stay apart, each rests on its status now.  *)
LEMMA ExactStatusStep ==
    ASSUME IInv, Resting, StatusDecisionsApart, \A q \in Request : ExactStatus(slot[q]), [Next]_vars
    PROVE  \A q \in Request : ExactStatus(slot[q])'
  <1>1. ASSUME NEW r \in Request, Arrive(r) \/ Handle(r) \/ Finish(r), NEW q \in Request \ {r}
        PROVE  ExactStatus(slot[q])'
    BY <1>1, OthersStatusKept
  <1>2. ASSUME NEW r \in Request, Arrive(r) \/ Handle(r) \/ Finish(r)
        PROVE  ExactStatus(slot[r])'
    <2> SUFFICES ASSUME Deciding(slot[r])' PROVE ExactStatus(slot[r])'
      BY DEF ExactStatus, Deciding
    <2>1. CASE PatchBefore(r)
      BY <2>1, StatusRead DEF ExactStatus
    <2>2. CASE SlugCheck(r) \/ PartnerGet(r) \/ PartnerLoad(r)
      BY <2>2, StatusCarried DEF ExactStatus
    <2>3. CASE slot'[r].pc = "gen_insert"
      BY <1>2, <2>3, StepMoves, IssueChecked DEF ExactStatus, CameFrom, IInv
    <2>4. QED
      BY <1>2, <2>1, <2>2, <2>3, StepMoves DEF CameFrom, Deciding, IInv
  <1>3. CASE Crash
    <2>1. \A q \in Request : slot'[q] = Idle
      BY <1>3 DEF Crash
    <2>2. QED
      BY <2>1 DEF ExactStatus, Idle
  <1>4. CASE Boot
    <2>1. \A q \in Request : slot'[q].pc = "idle"
      BY <1>4 DEF Boot, Resting
    <2>2. QED
      BY <2>1 DEF ExactStatus
  <1>5. CASE BootFails \/ Supervise \/ UNCHANGED vars
    <2>1. UNCHANGED <<partners, slot>>
      BY <1>5 DEF BootFails, Supervise, vars
    <2>2. QED
      BY <2>1 DEF ExactStatus, IsDisabled, PartnerIds
  <1>6. QED
    BY <1>1, <1>2, <1>3, <1>4, <1>5 DEF Next

(* r has still to revoke key k of partner p.                                  *)
Pending(s, p, k) ==
    /\ s.op = "patch" /\ s.partner = p
    /\ \/ s.pc = "scan"
       \/ s.pc = "revoke_each" /\ k \in s.live
       \/ SavesKey(s) /\ k \in s.live \cup {s.key}

(* A live key of a disabled partner is about to be revoked.                   *)
Locked ==
    \A p \in Partner : IsDisabled(p) =>
       \A k \in BoundTo(p) : keys[k].revoked \/ \E r \in Request : Pending(slot[r], p, k)

(* A partner becomes disabled only by a PATCH that goes on to scan its keys.  *)
LEMMA DisabledByPatch ==
    ASSUME IInv, NEW r \in Request, ExactStatus(slot[r]),
           Arrive(r) \/ Handle(r) \/ Finish(r),
           NEW p \in Partner, IsDisabled(p)', ~IsDisabled(p)
    PROVE  \A k : Pending(slot[r], p, k)'
  <1>t. TypeOK /\ slot[r] \in SlotType /\ partners \in [Partner -> PartnerRow \cup {Absent}]
    BY DEF IInv, TypeOK
  <1>1. partners'[p] # partners[p]
    BY DEF IsDisabled, PartnerIds
  <1>2. p \in PartnerIds
    <2> SUFFICES ASSUME p \notin PartnerIds PROVE FALSE
      OBVIOUS
    <2>1. UNCHANGED partners \/ PartnerWrite(r) \/ CreateInsert(r)
      BY PartnerWritersOf
    <2>2. CASE PartnerWrite(r)
      <3>1. slot[r].partner \in PartnerIds
        BY <2>2, PartnerSaveFacts DEF PartnerWrite, At
      <3>2. QED
        BY <2>2, <3>1, <1>1, <1>t DEF PartnerWrite
    <2>3. CASE CreateInsert(r)
      <3>1. PICK n \in Partner : partners' = [partners EXCEPT ![n] =
                                     [status |-> "active", slug |-> slot[r].patch.slug]]
        BY <2>3, <1>1 DEF CreateInsert
      <3>2. partners'[p].status = "active"
        BY <3>1, <1>1, <1>t
      <3>3. QED
        BY <3>2 DEF IsDisabled
    <2>4. QED
      BY <1>1, <2>1, <2>2, <2>3
  <1>3. PartnerWrite(r) /\ slot[r].partner = p
    BY <1>1, <1>2, PartnerRowKept
  <1>4. partners[p].status = "active" /\ partners'[p].status = "disabled"
    <2>1. partners[p] \in PartnerRow
      BY <1>2, <1>t DEF PartnerIds
    <2>2. QED
      BY <1>2, <2>1 DEF IsDisabled, PartnerRow, Status
  <1>5. slot[r].patch.status = "disabled"
    BY <1>3, <1>4, StatusWritten
  <1>6. slot[r].pc = "ptn_write" /\ slot[r].before = "active"
    BY <1>3, <1>4 DEF PartnerWrite, At, ExactStatus
  <1> DEFINE new == [slot[r] EXCEPT !.pc = "scan", !.before = "active",
                                    !.ptnRec = SeedPartnerRow, !.dirty = {}]
  <1>7. Move(r, new)
    BY <1>1, <1>3, <1>5, <1>6 DEF PartnerWrite
  <1>8. new.pc = "scan" /\ new.op = slot[r].op /\ new.partner = p
    BY <1>3, <1>t DEF SlotType
  <1> HIDE DEF new
  <1>9. slot'[r] = new
    BY <1>7, <1>t, MoveEnds
  <1>10. slot[r].op = "patch"
    BY <1>6, PartnerSaveFacts
  <1>11. QED
    BY <1>8, <1>9, <1>10 DEF Pending

(* A request that had to revoke a key has revoked it or still has to.         *)
LEMMA PendingStep ==
    ASSUME IInv, NEW r \in Request, ExactKey(slot[r]), Handle(r),
           NEW p \in Partner, NEW k \in BoundTo(p), ~keys[k].revoked, Pending(slot[r], p, k)
    PROVE  keys'[k].revoked \/ Pending(slot[r], p, k)'
  <1>t. TypeOK /\ slot[r] \in SlotType /\ slot[r].op = "patch" /\ slot[r].partner = p
    BY DEF IInv, TypeOK, Pending
  <1>1. Scan(r) \/ RevokeEach(r) \/ KeyLoad(r) \/ KeyWrite(r)
    BY DEF Pending, SavesKey, Handle, At, AuthFind, AuthPartner, KeyGet, GenCheck, GenInsert,
       CreateCheck, CreateInsert, PatchBefore, SlugCheck, PartnerGet, PartnerLoad, PartnerWrite
  <1>2. CASE Scan(r)
    <2> DEFINE ks == {j \in BoundTo(p) : ~keys[j].revoked}
               new == [slot[r] EXCEPT !.pc = "revoke_each", !.live = ks]
    <2>1. Move(r, new)
      BY <1>2, <1>t DEF Scan
    <2>2. new.pc = "revoke_each" /\ new.op = "patch" /\ new.partner = p /\ new.live = ks
      BY <1>t DEF SlotType
    <2>3. k \in ks
      OBVIOUS
    <2> HIDE DEF new, ks
    <2>4. slot'[r] = new
      BY <2>1, <1>t, MoveEnds
    <2>5. QED
      BY <2>2, <2>3, <2>4 DEF Pending
  <1>3. CASE RevokeEach(r)
    <2>1. k \in slot[r].live
      BY <1>3 DEF RevokeEach, At, Pending, SavesKey
    <2>2. SavesKey(slot[r])'
      <3>1. PICK j \in slot[r].live :
               Move(r, [slot[r] EXCEPT !.pc = "key_load", !.key = j,
                                       !.keyRec = Merge(keys[j], RevokePatch),
                                       !.live = @ \ {j}])
        BY <1>3, <2>1 DEF RevokeEach
      <3>2. [slot[r] EXCEPT !.pc = "key_load", !.key = j,
                            !.keyRec = Merge(keys[j], RevokePatch),
                            !.live = @ \ {j}].pc = "key_load"
        BY <1>t DEF SlotType
      <3>3. QED
        BY <3>1, <3>2, <1>t, MoveEnds DEF EndsAt, SavesKey
    <2>3. /\ slot'[r].op = slot[r].op /\ slot'[r].partner = slot[r].partner
          /\ slot'[r].live = slot[r].live \ {slot'[r].key}
      BY <1>3, <2>2, KeyRecRead
    <2>4. QED
      BY <2>1, <2>2, <2>3, <1>t DEF Pending, SavesKey
  <1>4. CASE KeyLoad(r)
    BY <1>4, <1>t, KeyDirtyRead DEF Pending, SavesKey
  <1>5. CASE KeyWrite(r)
    <2>1. CASE k = slot[r].key
      BY <1>5, <1>t, <2>1, ExactKeyWrite
    <2>2. CASE k # slot[r].key
      <3>1. slot[r].pc = "key_write" /\ k \in slot[r].live
        BY <1>5, <2>2 DEF KeyWrite, At, Pending, SavesKey
      <3> DEFINE new == [slot[r] EXCEPT !.pc = "revoke_each", !.key = SeedKey,
                                        !.keyRec = SeedKeyRow, !.dirty = {}]
      <3>2. Move(r, new)
        BY <1>5, <1>t DEF KeyWrite
      <3>3. new.pc = "revoke_each" /\ new.op = "patch" /\ new.partner = p /\ new.live = slot[r].live
        BY <1>t DEF SlotType
      <3> HIDE DEF new
      <3>4. slot'[r] = new
        BY <3>2, <1>t, MoveEnds
      <3>5. QED
        BY <3>1, <3>3, <3>4 DEF Pending
    <2>3. QED
      BY <2>1, <2>2
  <1>6. QED
    BY <1>1, <1>2, <1>3, <1>4, <1>5

(* No step of a request gives a disabled partner a live key.                  *)
LEMMA NoLiveKey ==
    ASSUME IInv, NEW r \in Request, ExactKey(slot[r]), ExactStatus(slot[r]),
           Arrive(r) \/ Handle(r) \/ Finish(r),
           NEW p \in Partner, IsDisabled(p)', NEW k \in BoundTo(p)', ~keys'[k].revoked
    PROVE  k \in BoundTo(p) /\ ~keys[k].revoked
  <1>t. keys \in [Key -> KeyRow \cup {Absent}] /\ k \in Key /\ keys'[k] # Absent
        /\ keys'[k].partner_id = p
    BY DEF IInv, TypeOK, BoundTo, KeyIds
  <1>1. CASE k \in KeyIds
    <2>1. keys[k].revoked => keys'[k].revoked
      <3>1. CASE KeyWrite(r) /\ slot[r].key = k
        BY <3>1, ExactKeyWrite
      <3>2. CASE ~(KeyWrite(r) /\ slot[r].key = k)
        BY <3>2, <1>1, KeyRowKept
      <3>3. QED
        BY <3>1, <3>2
    <2>2. [Next]_vars
      BY DEF Next
    <2>3. keys'[k].partner_id = keys[k].partner_id
      BY <1>1, <2>2, BindingStep
    <2>4. QED
      BY <1>1, <1>t, <2>1, <2>3 DEF BoundTo
  <1>2. CASE k \notin KeyIds
    <2>1. keys[k] = Absent
      BY <1>2, <1>t DEF KeyIds
    <2>2. ~KeyWrite(r)
      BY <2>1, <1>2, <1>t, KeyWriteRow
    <2>3. GenInsert(r)
      BY <2>1, <2>2, <1>t, KeyWritersOf
    <2>4. slot[r].partner = p /\ UNCHANGED partners /\ slot[r].pc = "gen_insert"
      <3>1. PICK j \in Key : keys[j] = Absent /\ keys' = [keys EXCEPT ![j] =
                                 [revoked |-> FALSE, partner_id |-> slot[r].partner]]
        BY <2>3 DEF GenInsert
      <3>2. j = k
        BY <2>1, <3>1, <1>t
      <3>3. keys'[k].partner_id = slot[r].partner
        BY <3>1, <3>2, <1>t
      <3>4. QED
        BY <2>3, <3>3, <1>t DEF GenInsert, At
    <2>5. ~IsDisabled(p)'
      BY <2>4 DEF ExactStatus, IsDisabled, PartnerIds
    <2>6. QED
      BY <2>5
  <1>3. QED
    BY <1>1, <1>2

(* Every live key of a disabled partner stays about to be revoked.            *)
LEMMA LockedStep ==
    ASSUME IInv, process = "up", MaxCrashes = 0, Locked, [Next]_vars,
           \A q \in Request : ExactKey(slot[q]) /\ ExactStatus(slot[q])
    PROVE  Locked'
  <1>1. ASSUME NEW r \in Request, Arrive(r) \/ Handle(r) \/ Finish(r),
               NEW p \in Partner, IsDisabled(p)', NEW k \in BoundTo(p)', ~keys'[k].revoked
        PROVE  \E q \in Request : Pending(slot[q], p, k)'
    <2>1. k \in BoundTo(p) /\ ~keys[k].revoked
      BY <1>1, NoLiveKey
    <2>2. CASE ~IsDisabled(p)
      BY <1>1, <2>2, DisabledByPatch
    <2>3. CASE IsDisabled(p)
      <3>1. PICK q \in Request : Pending(slot[q], p, k)
        BY <2>1, <2>3 DEF Locked
      <3>2. CASE q # r
        <4>1. slot'[q] = slot[q]
          BY <1>1, <3>2, StepMoves DEF Alone, IInv
        <4>2. Pending(slot[q], p, k)'
          BY <3>1, <4>1 DEF Pending, SavesKey
        <4>3. QED
          BY <4>2
      <3>3. CASE q = r
        <4>1. Handle(r)
          BY <1>1, <3>1, <3>3 DEF Pending, SavesKey, Arrive, Call, IssueKey, RevokeKey,
             CreatePartner, PatchPartner, Admit, Finish, At
        <4>2. Pending(slot[r], p, k)'
          BY <1>1, <2>1, <3>1, <3>3, <4>1, PendingStep
        <4>3. QED
          BY <4>2
      <3>4. QED
        BY <3>2, <3>3
    <2>4. QED
      BY <2>2, <2>3
  <1>2. ASSUME NEW r \in Request, Arrive(r) \/ Handle(r) \/ Finish(r)
        PROVE  Locked'
    BY <1>1, <1>2 DEF Locked
  <1>3. ~Crash /\ ~Boot /\ ~BootFails /\ ~Supervise
    BY DEF Crash, Boot, BootFails, Supervise, IInv, TypeOK
  <1>4. CASE UNCHANGED vars
    BY <1>4 DEF vars, Locked, Pending, SavesKey, BoundTo, KeyIds, IsDisabled, PartnerIds
  <1>5. QED
    BY <1>2, <1>3, <1>4 DEF Next

Disabling ==
    /\ KeysExact /\ process = "up" /\ Locked
    /\ \A q \in Request : ExactStatus(slot[q])

(* A step of a process that never dies leaves it up.                          *)
LEMMA StaysUp ==
    ASSUME IInv, process = "up", MaxCrashes = 0, [Next]_vars
    PROVE  process' = "up"
  <1>1. ASSUME NEW r \in Request, Arrive(r) \/ Handle(r) \/ Finish(r) PROVE process' = "up"
    BY <1>1, RequestKeepsProcess
  <1>2. ~Crash /\ ~Boot /\ ~BootFails /\ ~Supervise
    BY DEF Crash, Boot, BootFails, Supervise, IInv, TypeOK
  <1>3. QED
    BY <1>1, <1>2 DEF Next, vars

LEMMA DisablingInit == Init => Disabling
  <1> SUFFICES ASSUME Init PROVE Disabling
    OBVIOUS
  <1>1. \A p \in Partner : ~IsDisabled(p)
    BY DEF Init, IsDisabled, PartnerIds, SeedPartnerRow
  <1>2. Locked
    BY <1>1 DEF Locked
  <1>3. \A q \in Request : ExactStatus(slot[q])
    BY DEF Init, ExactStatus, Idle
  <1>4. QED
    BY <1>2, <1>3, KeysExactInit DEF Init, Disabling

LEMMA DisablingNext ==
    ASSUME MaxCrashes = 0, Disabling, KeyUpdatesApart, StatusDecisionsApart, [Next]_vars
    PROVE  Disabling'
  <1>1. KeysExact'
    BY KeysExactNext DEF Disabling
  <1>2. \A q \in Request : ExactStatus(slot[q])'
    BY ExactStatusStep DEF Disabling, KeysExact
  <1>3. Locked'
    BY LockedStep DEF Disabling, KeysExact
  <1>4. process' = "up"
    BY StaysUp DEF Disabling, KeysExact
  <1>5. QED
    BY <1>1, <1>2, <1>3, <1>4 DEF Disabling

(* When a PATCH that disables a partner has been answered and nothing is in    *)
(* flight, the partner has no live key, provided that the process did not die *)
(* and that neither two saves of a key nor two decisions about a partner      *)
(* overlapped; requests about other keys and partners may have.               *)
THEOREM DisableIsFinal ==
    ASSUME MaxCrashes = 0
    PROVE  Spec /\ []KeyUpdatesApart /\ []StatusDecisionsApart => []DisableRevokesKeys
  <1>1. Init => Disabling
    BY DisablingInit
  <1>2. Disabling /\ KeyUpdatesApart /\ StatusDecisionsApart /\ [Next]_vars => Disabling'
    BY DisablingNext
  <1>3. Disabling => DisableRevokesKeys
    <2> SUFFICES ASSUME Disabling, Quiet, NEW p \in disableAcked, IsDisabled(p),
                        NEW k \in BoundTo(p)
                 PROVE  keys[k].revoked
      BY DEF DisableRevokesKeys
    <2>1. \A r \in Request : ~Pending(slot[r], p, k)
      BY DEF Quiet, Pending, SavesKey
    <2>2. p \in Partner
      BY DEF Disabling, KeysExact, IInv, TypeOK
    <2>3. QED
      BY <2>1, <2>2 DEF Disabling, Locked
  <1>4. QED
    BY <1>1, <1>2, <1>3, PTL DEF Spec

=============================================================================
