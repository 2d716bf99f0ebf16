----------------------- MODULE WebhookDeliveryProofs -----------------------
(***************************************************************************)
(* Theorems about WebhookDelivery, for any finite sets of endpoints and    *)
(* tasks, any retention limit and any number of faults: the log that is    *)
(* kept implements RetainedLog, and no row over the limit is forgotten.    *)
(*                                                                         *)
(* Both rest on IInv.  Its heart is that a row which is beyond the limit   *)
(* stays beyond it while the prunings that read it run (TaskKnows): new    *)
(* rows only add later ones (LaterGrows), and a removal by another pruning *)
(* takes a row that is itself beyond the limit (BeyondStays).  Budget and  *)
(* StampsUnique keep the bound on stamps and their order.                  *)
(*                                                                         *)
(* That an endpoint which is switched off or deleted settles needs no more *)
(* of IInv than the types, and that what POST .../test looks up is not an  *)
(* event (TestsAreTests).                                                  *)
(***************************************************************************)
EXTENDS WebhookDelivery, FiniteSetTheorems, WellFoundedInduction, TLAPS

(* The sets of rows that the facts about recency are about.                   *)
Stamped(S) == IsFiniteSet(S) /\ \A d \in S : d.at \in Nat

(* What stands in front of a row are finitely many rows.                      *)
LEMMA LaterFinite ==
    ASSUME NEW S, Stamped(S), NEW d
    PROVE  /\ IsFiniteSet(Later(S, d)) /\ Later(S, d) \subseteq S
           /\ Cardinality(Later(S, d)) \in Nat
  <1>1. Later(S, d) \subseteq S
    BY DEF Later
  <1>2. QED
    BY <1>1, FS_Subset, FS_CardinalityType DEF Stamped

(* Fewer rows, fewer that are later.                                          *)
LEMMA LaterGrows ==
    ASSUME NEW S, Stamped(S), NEW T \in SUBSET S, NEW d
    PROVE  Cardinality(Later(T, d)) <= Cardinality(Later(S, d))
  <1>1. Later(T, d) \in SUBSET Later(S, d)
    BY DEF Later
  <1>2. QED
    BY <1>1, LaterFinite, FS_Subset

(* A set of rows has a latest row.                                            *)
LEMMA LatestExists ==
    ASSUME NEW S, Stamped(S), S # {}
    PROVE  \E d \in S : \A e \in S : e.at <= d.at
  <1> DEFINE L == {Cardinality(Later(S, d)) : d \in S}
             R == OpToRel(<, Nat)
  <1>1. L \subseteq Nat /\ L # {}
    BY LaterFinite
  <1>2. PICK n \in L : \A m \in L : ~ (<<m, n>> \in R)
    BY <1>1, NatLessThanWellFounded, WFMin
  <1>3. PICK d \in S : n = Cardinality(Later(S, d))
    BY <1>2
  <1>4. ASSUME NEW e \in S, e.at > d.at PROVE FALSE
    <2>1. Later(S, e) \in SUBSET Later(S, d) /\ e \in Later(S, d) /\ e \notin Later(S, e)
      BY <1>4 DEF Later, Stamped
    <2>2. Cardinality(Later(S, e)) < Cardinality(Later(S, d))
      BY <2>1, LaterFinite, FS_Subset
    <2>3. <<Cardinality(Later(S, e)), n>> \in R
      BY <2>2, <1>3, LaterFinite DEF OpToRel
    <2>4. QED
      BY <2>3, <1>2
  <1>5. QED
    BY <1>3, <1>4 DEF Stamped

-----------------------------------------------------------------------------
(* The newest rows.                                                           *)

(* A row beyond the limit stays beyond it when another such row goes.         *)
LEMMA BeyondStays ==
    ASSUME NEW S, Stamped(S), NEW d, d.at \in Nat, NEW e, e.at \in Nat,
           Cardinality(Later(S, d)) >= Limit, Cardinality(Later(S, e)) >= Limit
    PROVE  Cardinality(Later(S \ {d}, e)) >= Limit
  <1>1. CASE d \in Later(S, e)
    <2>1. Later(S, d) \in SUBSET Later(S \ {d}, e)
      BY <1>1 DEF Later, Stamped
    <2>2. Stamped(S \ {d})
      BY FS_RemoveElement DEF Stamped
    <2>3. Cardinality(Later(S, d)) <= Cardinality(Later(S \ {d}, e))
      BY <2>1, <2>2, LaterFinite, FS_Subset
    <2>4. QED
      BY <2>2, <2>3, LaterFinite, LimitAssumption
  <1>2. CASE d \notin Later(S, e)
    <2>1. Later(S \ {d}, e) = Later(S, e)
      BY <1>2 DEF Later
    <2>2. QED
      BY <2>1
  <1>3. QED
    BY <1>1, <1>2

(* A row beyond the limit can go without a trace in what is shown.            *)
LEMMA RemovalKeepsNewest ==
    ASSUME NEW S, Stamped(S), NEW d, d.at \in Nat, Cardinality(Later(S, d)) >= Limit
    PROVE  Newest(S \ {d}) = Newest(S)
  <1>1. d \notin Newest(S)
    BY LaterFinite, LimitAssumption DEF Newest
  <1>2. ASSUME NEW e \in S \ {d}
        PROVE  Cardinality(Later(S \ {d}, e)) < Limit <=> Cardinality(Later(S, e)) < Limit
    <2>1. Stamped(S \ {d}) /\ S \ {d} \in SUBSET S
      BY FS_RemoveElement DEF Stamped
    <2>2. Cardinality(Later(S \ {d}, e)) <= Cardinality(Later(S, e))
      BY <2>1, LaterGrows
    <2>3. Cardinality(Later(S, e)) >= Limit => Cardinality(Later(S \ {d}, e)) >= Limit
      BY BeyondStays DEF Stamped
    <2>4. Cardinality(Later(S, e)) \in Nat /\ Cardinality(Later(S \ {d}, e)) \in Nat
      BY <2>1, LaterFinite
    <2>5. QED
      BY <2>2, <2>3, <2>4, LimitAssumption
  <1>3. QED
    BY <1>1, <1>2 DEF Newest

(* What is shown with a new row follows from what was shown before.           *)
LEMMA InsertOnNewest ==
    ASSUME NEW S, Stamped(S), NEW e, e.at \in Nat
    PROVE  Newest(Newest(S) \cup {e}) = Newest(S \cup {e})
  <1> DEFINE T == S \cup {e}
             U == Newest(S) \cup {e}
  <1>1. Stamped(T) /\ Stamped(U) /\ U \in SUBSET T /\ S \in SUBSET T
    <2>1. Newest(S) \in SUBSET S
      BY DEF Newest
    <2>2. IsFiniteSet(Newest(S))
      BY <2>1, FS_Subset DEF Stamped
    <2>3. QED
      BY <2>1, <2>2, FS_AddElement DEF Stamped
  <1>2. ASSUME NEW x \in Newest(T) PROVE x \in Newest(U)
    <2>1. x \in T /\ Cardinality(Later(T, x)) < Limit
      BY DEF Newest
    <2>2. /\ Cardinality(Later(S, x)) <= Cardinality(Later(T, x))
          /\ Cardinality(Later(U, x)) <= Cardinality(Later(T, x))
      BY <1>1, LaterGrows
    <2>3. /\ Cardinality(Later(S, x)) \in Nat /\ Cardinality(Later(T, x)) \in Nat
          /\ Cardinality(Later(U, x)) \in Nat
      BY <1>1, LaterFinite
    <2>4. Cardinality(Later(S, x)) < Limit /\ Cardinality(Later(U, x)) < Limit
      BY <2>1, <2>2, <2>3, LimitAssumption
    <2>5. QED
      BY <2>1, <2>4 DEF Newest
  <1>3. ASSUME NEW x \in Newest(U) PROVE x \in Newest(T)
    <2>1. x \in U /\ x \in T /\ x.at \in Nat /\ Cardinality(Later(U, x)) < Limit
      BY <1>1 DEF Newest, Stamped
    <2> SUFFICES ASSUME ~(Cardinality(Later(T, x)) < Limit) PROVE FALSE
      BY <2>1 DEF Newest
    <2> DEFINE D == Later(T, x) \ U
    <2>2. Stamped(D) /\ D \subseteq S \ Newest(S)
      <3>1. D \in SUBSET T
        BY DEF Later
      <3>2. IsFiniteSet(D)
        BY <1>1, <3>1, FS_Subset DEF Stamped
      <3>3. QED
        BY <1>1, <3>1, <3>2 DEF Stamped
    <2>3. CASE D = {}
      <3>1. Later(U, x) = Later(T, x)
        BY <1>1, <2>3 DEF Later
      <3>2. QED
        BY <2>1, <3>1
    <2>4. CASE D # {}
      <3>1. PICK d \in D : \A f \in D : f.at <= d.at
        BY <2>2, <2>4, LatestExists
      <3>2. ~(Cardinality(Later(S, d)) < Limit)
        BY <2>2, <3>1 DEF Newest
      <3>3. Later(S, d) \in SUBSET Later(U, x)
        <4> SUFFICES ASSUME NEW f \in Later(S, d) PROVE f \in Later(U, x)
          OBVIOUS
        <4>1. f \in T /\ f.at \in Nat /\ d.at \in Nat /\ f.at > d.at /\ d.at > x.at
          BY <1>1, <3>1 DEF Later, Stamped
        <4>2. f \in Later(T, x)
          BY <2>1, <4>1 DEF Later
        <4>3. f \notin D
          BY <3>1, <4>1
        <4>4. QED
          BY <4>2, <4>3 DEF Later
      <3>4. Cardinality(Later(S, d)) <= Cardinality(Later(U, x))
        BY <1>1, <3>3, LaterFinite, FS_Subset
      <3>5. Cardinality(Later(S, d)) \in Nat /\ Cardinality(Later(U, x)) \in Nat
        BY <1>1, LaterFinite
      <3>6. QED
        BY <2>1, <3>2, <3>4, <3>5, LimitAssumption
    <2>5. QED
      BY <2>3, <2>4
  <1>4. QED
    BY <1>2, <1>3

(* As many rows as the limit allows are all shown.                            *)
LEMMA AllNewest ==
    ASSUME NEW S, Stamped(S), Cardinality(S) <= Limit
    PROVE  Newest(S) = S
  <1>1. ASSUME NEW e \in S PROVE Cardinality(Later(S, e)) < Limit
    <2>1. Later(S, e) \in SUBSET S /\ e \notin Later(S, e)
      BY DEF Later, Stamped
    <2>2. Cardinality(Later(S, e)) <= Cardinality(S) /\ Cardinality(Later(S, e)) # Cardinality(S)
      BY <2>1, FS_Subset DEF Stamped
    <2>3. Cardinality(Later(S, e)) \in Nat /\ Cardinality(S) \in Nat
      BY LaterFinite, FS_CardinalityType DEF Stamped
    <2>4. QED
      BY <2>2, <2>3, LimitAssumption
  <1>2. QED
    BY <1>1 DEF Newest

(* Oldest finds one of the rows of a set.                                     *)
LEMMA OldestExists ==
    ASSUME NEW S, S # {}, \A d \in S : d.at \in Nat
    PROVE  Oldest(S) \in S /\ \A e \in S : Oldest(S).at <= e.at
  <1> DEFINE A == {d.at : d \in S}
             R == OpToRel(<, Nat)
  <1>1. A \subseteq Nat /\ A # {}
    OBVIOUS
  <1>2. PICK n \in A : \A m \in A : ~ (<<m, n>> \in R)
    BY <1>1, NatLessThanWellFounded, WFMin
  <1>3. PICK d \in S : n = d.at
    BY <1>2
  <1>4. ASSUME NEW e \in S, e.at < d.at PROVE FALSE
    <2>1. <<e.at, n>> \in R
      BY <1>4, <1>3 DEF OpToRel
    <2>2. QED
      BY <2>1, <1>2
  <1>5. \E x \in S : \A e \in S : x.at <= e.at
    BY <1>3, <1>4
  <1>6. QED
    BY <1>5 DEF Oldest

-----------------------------------------------------------------------------
(* The invariant.                                                             *)

(* A task that is in pruneDeliveries.                                         *)
Prunes(s) == s.pc \in {"prune_read", "prune_remove"}

(* What Pending counts.                                                       *)
PostTasks == {t \in Task : task[t].pc \in {"test_find", "post"}}
EmitTasks == {t \in Task : task[t].pc = "emit_read"}

(* The stamps that are set aside are still there.                             *)
Budget == clock + Pending <= MaxStamp

(* What a task holds in its locals: whose row it writes, a stamp that has been *)
(* given out, and a plan of rows that are beyond the limit for good.           *)
TaskKnows(s) ==
    /\ s.pc \in {"test_find", "post", "insert", "prune_read", "prune_remove"}
         => s.partner = Owner[s.hook]
    /\ s.pc = "insert" => s.at \in 1 .. clock
    /\ s.pc = "prune_remove" =>
         /\ s.plan # {}
         /\ \A d \in s.plan : /\ Owner[d.hook] = s.partner
                              /\ Cardinality(Later(RowsOf(s.partner), d)) >= Limit

TasksKnow == \A t \in Task : TaskKnows(task[t])

(* No stamp is given out twice, so that a log over the limit has an excess.    *)
StampsUnique ==
    /\ \A d \in rows : d.at <= clock
    /\ \A d, e \in rows : d.at = e.at => d = e
    /\ \A t \in Task : task[t].pc = "insert" => \A d \in rows : d.at # task[t].at
    /\ \A t, u \in Task :
         task[t].pc = "insert" /\ task[u].pc = "insert" /\ task[t].at = task[u].at => t = u

IInv == TypeOK /\ Budget /\ TasksKnow /\ StampsUnique /\ NothingForgotten

(* There are finitely many deliveries.                                        *)
LEMMA DeliveryFinite == IsFiniteSet(Delivery)
  <1> DEFINE P == (1 .. MaxStamp) \X Hook
             f == [x \in P |-> [at |-> x[1], hook |-> x[2]]]
  <1>1. IsFiniteSet(P)
    <2>1. IsFiniteSet(1 .. MaxStamp)
      BY BoundAssumption, FS_Interval
    <2>2. IsFiniteSet(Hook)
      BY FiniteAssumption
    <2>3. QED
      BY <2>1, <2>2, FS_Product, Zenon
  <1>2. f \in Surjection(P, Delivery)
    <2>1. f \in [P -> Delivery]
      BY DEF Delivery
    <2>2. ASSUME NEW d \in Delivery PROVE \E x \in P : f[x] = d
      <3>1. <<d.at, d.hook>> \in P /\ f[<<d.at, d.hook>>] = d
        BY DEF Delivery
      <3>2. QED
        BY <3>1
    <2>3. QED
      BY <2>1, <2>2 DEF Surjection
  <1>3. QED
    BY <1>1, <1>2, FS_Surjection

(* So every set of deliveries is one the facts above are about.               *)
LEMMA DeliveriesStamped ==
    ASSUME NEW S \in SUBSET Delivery
    PROVE  Stamped(S)
  <1>1. IsFiniteSet(S)
    BY DeliveryFinite, FS_Subset
  <1>2. \A d \in S : d.at \in Nat
    BY BoundAssumption DEF Delivery
  <1>3. QED
    BY <1>1, <1>2 DEF Stamped

(* The log of a partner is such a set too.                                    *)
LEMMA RowsStamped ==
    ASSUME TypeOK, NEW p
    PROVE  RowsOf(p) \in SUBSET Delivery /\ Stamped(RowsOf(p))
  <1>1. RowsOf(p) \in SUBSET Delivery
    BY DEF TypeOK, RowsOf
  <1>2. QED
    BY <1>1, DeliveriesStamped

(* Fewer deliveries under way leave more stamps.                              *)
LEMMA PendingShrinks ==
    ASSUME NEW P, NEW E, IsFiniteSet(P), IsFiniteSet(E),
           NEW P1 \in SUBSET P, NEW E1 \in SUBSET E
    PROVE  /\ Cardinality(P1) + Cardinality(Hook) * Cardinality(E1)
                <= Cardinality(P) + Cardinality(Hook) * Cardinality(E)
           /\ Cardinality(P) + Cardinality(Hook) * Cardinality(E) \in Nat
           /\ Cardinality(P1) + Cardinality(Hook) * Cardinality(E1) \in Nat
  <1>1. /\ Cardinality(P1) <= Cardinality(P) /\ Cardinality(E1) <= Cardinality(E)
        /\ Cardinality(P) \in Nat /\ Cardinality(E) \in Nat
        /\ Cardinality(P1) \in Nat /\ Cardinality(E1) \in Nat /\ Cardinality(Hook) \in Nat
    BY FS_Subset, FS_CardinalityType, FiniteAssumption
  <1>2. ASSUME NEW h \in Nat, NEW m \in Nat, NEW n \in Nat, m <= n
        PROVE  h * m <= h * n /\ h * m \in Nat /\ h * n \in Nat
    BY <1>2
  <1>3. QED
    BY <1>1, <1>2

(* The tasks that Pending counts are finitely many.                           *)
LEMMA TasksFinite ==
    /\ IsFiniteSet(PostTasks) /\ IsFiniteSet(EmitTasks)
    /\ PostTasks \subseteq Task /\ EmitTasks \subseteq Task
    /\ Pending = Cardinality(PostTasks) + Cardinality(Hook) * Cardinality(EmitTasks)
    /\ Pending \in Nat
  <1>1. PostTasks \in SUBSET Task /\ EmitTasks \in SUBSET Task
    BY DEF PostTasks, EmitTasks
  <1>2. IsFiniteSet(PostTasks) /\ IsFiniteSet(EmitTasks)
    BY <1>1, FiniteAssumption, FS_Subset
  <1>3. Pending = Cardinality(PostTasks) + Cardinality(Hook) * Cardinality(EmitTasks)
    BY DEF Pending, PostTasks, EmitTasks
  <1>4. QED
    BY <1>1, <1>2, <1>3, PendingShrinks

(* Over the limit, the oldest row is in excess.                               *)
LEMMA ExcessExists ==
    ASSUME TypeOK, StampsUnique, NEW p, ~(Cardinality(RowsOf(p)) <= Limit)
    PROVE  Excess(p) # {}
  <1> DEFINE S == RowsOf(p)
  <1>1. S \in SUBSET Delivery /\ Stamped(S) /\ S \subseteq rows
    BY RowsStamped DEF RowsOf
  <1>2. IsFiniteSet(S) /\ Cardinality(S) \in Nat /\ \A d \in S : d.at \in Nat
    BY <1>1, FS_CardinalityType DEF Stamped
  <1>3. S # {}
    BY FS_EmptySet, LimitAssumption
  <1> HIDE DEF S
  <1>4. PICK x \in S : \A e \in S : x.at <= e.at
    BY <1>2, <1>3, OldestExists
  <1>5. Later(S, x) = S \ {x}
    <2>1. ASSUME NEW e \in S, e # x PROVE e.at > x.at
      <3>1. e.at # x.at
        BY <1>1, <2>1 DEF StampsUnique
      <3>2. QED
        BY <1>2, <1>4, <3>1
    <2>2. ~(x.at > x.at)
      BY <1>2
    <2>3. QED
      BY <2>1, <2>2 DEF Later
  <1>6. Cardinality(S \ {x}) = Cardinality(S) - 1
    BY <1>2, FS_RemoveElement
  <1>7. ~(Cardinality(Later(S, x)) < Limit)
    BY <1>2, <1>5, <1>6, LimitAssumption DEF S
  <1>8. QED
    BY <1>4, <1>7 DEF Excess, Newest, S

(* The slots that are free have their types.                                  *)
LEMMA SlotTypes ==
    /\ NoTask \in TaskSlot /\ NoRequest \in RequestSlot /\ AnyHook \in Hook
  <1>1. AnyHook \in Hook /\ (CHOOSE e \in Event : TRUE) \in Event
    BY FiniteAssumption DEF AnyHook
  <1>2. Owner[AnyHook] \in Partner
    BY <1>1, OwnerAssumption
  <1>3. NoTask \in TaskSlot
    BY <1>1, <1>2, BoundAssumption DEF NoTask, TaskSlot
  <1>4. NoRequest \in RequestSlot
    BY <1>1 DEF NoRequest, RequestSlot, NoPatch, SomeRow, HookPatch, HookRow
  <1>5. QED
    BY <1>1, <1>3, <1>4

(* An empty database and free slots satisfy the invariant.                    *)
LEMMA InitInv == Init => IInv
  <1> SUFFICES ASSUME Init PROVE IInv
    OBVIOUS
  <1>1. TypeOK
    BY SlotTypes, BoundAssumption DEF Init, TypeOK
  <1>2. Budget
    <2>1. PostTasks = {} /\ EmitTasks = {}
      BY DEF Init, PostTasks, EmitTasks, NoTask
    <2>2. Pending = 0
      BY <2>1, TasksFinite, FS_EmptySet, FS_CardinalityType, FiniteAssumption
    <2>3. QED
      BY <2>2, BoundAssumption DEF Budget, Init
  <1>3. TasksKnow
    BY DEF Init, TasksKnow, TaskKnows, NoTask
  <1>4. NothingForgotten
    BY DEF Init, NothingForgotten, Excess, RowsOf
  <1>5. StampsUnique
    BY DEF Init, StampsUnique, NoTask
  <1>6. QED
    BY <1>1, <1>2, <1>3, <1>4, <1>5 DEF IInv

-----------------------------------------------------------------------------
(* Requests do not touch the log.                                             *)

(* The records that PATCH reads, merges and writes are rows.                  *)
LEMMA HookRecords ==
    ASSUME NEW row \in HookRow
    PROVE  /\ \A patch \in HookPatch : Merge(row, patch) \in HookRow
           /\ \A rec \in HookRow : \A dirty : Written(row, rec, dirty) \in HookRow
           /\ \A rec \in HookRow : Dirty(rec, row) \in SUBSET {"active", "events"}
  BY DEF Merge, Written, Dirty, HookRow, HookPatch

(* What requests leave alone.                                                 *)
LogUnchanged == UNCHANGED <<rows, clock, task, owed>>

(* A step of one request.                                                     *)
LEMMA RegistryStep ==
    ASSUME TypeOK, NEW r \in Request, Registry(r) \/ RequestFails(r)
    PROVE  TypeOK' /\ LogUnchanged
  <1>1. /\ req[r] \in RequestSlot /\ NoRequest \in RequestSlot
        /\ hooks \in [Hook -> HookRow \cup {Absent}] /\ issued \subseteq Hook
    BY SlotTypes DEF TypeOK
  <1>2. CASE AskPatch(r) \/ AskDelete(r)
    <2>1. PICK h \in Hook, patch \in HookPatch, pc \in {"patch_find", "delete_find"} :
             \/ Ask(r, [NoRequest EXCEPT !.pc = pc, !.hook = h, !.patch = patch])
             \/ Ask(r, [NoRequest EXCEPT !.pc = pc, !.hook = h])
      <3>1. NoPatch \in HookPatch
        BY DEF NoPatch, HookPatch
      <3>2. QED
        BY <1>1, <1>2, <3>1 DEF AskPatch, AskDelete
    <2>2. /\ [NoRequest EXCEPT !.pc = pc, !.hook = h, !.patch = patch] \in RequestSlot
          /\ [NoRequest EXCEPT !.pc = pc, !.hook = h] \in RequestSlot
      BY <1>1 DEF RequestSlot
    <2>3. req' \in [Request -> RequestSlot]
      BY <2>1, <2>2 DEF TypeOK, Ask
    <2>4. QED
      BY <1>2, <2>3 DEF AskPatch, AskDelete, TypeOK, LogUnchanged
  <1>3. CASE PatchFind(r) \/ DeleteFind(r)
    <2>1. [req[r] EXCEPT !.pc = IF @ = "patch_find" THEN "patch_get" ELSE "delete"] \in RequestSlot
      BY <1>1 DEF RequestSlot
    <2>2. req' \in [Request -> RequestSlot]
      BY <1>1, <1>3, <2>1 DEF PatchFind, DeleteFind, Find, Answered, Ask, TypeOK
    <2>3. QED
      BY <1>3, <2>2 DEF PatchFind, DeleteFind, Find, TypeOK, LogUnchanged
  <1>4. CASE PatchGet(r)
    <2> DEFINE row == hooks[req[r].hook]
               new == [req[r] EXCEPT !.pc = "patch_load", !.rec = Merge(row, req[r].patch)]
    <2>1. req[r].hook \in Hook /\ req[r].patch \in HookPatch
      BY <1>1 DEF RequestSlot
    <2>2. row # Absent => new \in RequestSlot
      <3>1. row # Absent => Merge(row, req[r].patch) \in HookRow
        BY <1>1, <2>1, HookRecords
      <3>2. QED
        BY <1>1, <3>1 DEF RequestSlot
    <2>3. req' \in [Request -> RequestSlot]
      BY <1>1, <1>4, <2>2 DEF PatchGet, Answered, Ask, TypeOK
    <2>4. QED
      BY <1>4, <2>3 DEF PatchGet, TypeOK, LogUnchanged
  <1>5. CASE PatchLoad(r)
    <2> DEFINE row == hooks[req[r].hook]
               dirty == IF row = Absent THEN {} ELSE Dirty(req[r].rec, row)
               new == [req[r] EXCEPT !.pc = "patch_save", !.insert = (row = Absent),
                                     !.dirty = dirty]
    <2>1. req[r].hook \in Hook /\ req[r].rec \in HookRow
      BY <1>1 DEF RequestSlot
    <2>2. dirty \in SUBSET {"active", "events"}
      BY <1>1, <2>1, HookRecords
    <2>3. new \in RequestSlot
      <3>1. (row = Absent) \in BOOLEAN
        OBVIOUS
      <3>2. QED
        BY <1>1, <2>2, <3>1 DEF RequestSlot
    <2>4. req' \in [Request -> RequestSlot]
      BY <1>5, <2>3 DEF PatchLoad, Ask, TypeOK
    <2>5. QED
      BY <1>5, <2>4 DEF PatchLoad, TypeOK, LogUnchanged
  <1>6. CASE PatchSave(r)
    <2> DEFINE h == req[r].hook
    <2>1. h \in Hook /\ req[r].rec \in HookRow /\ req[r].insert \in BOOLEAN
      BY <1>1 DEF RequestSlot
    <2>2. hooks[h] # Absent => Written(hooks[h], req[r].rec, req[r].dirty) \in HookRow
      BY <1>1, <2>1, HookRecords
    <2>3. hooks' \in [Hook -> HookRow \cup {Absent}]
      <3>1. CASE req[r].insert = (hooks[h] = Absent)
        BY <1>1, <1>6, <2>1, <2>2, <3>1 DEF PatchSave
      <3>2. CASE req[r].insert # (hooks[h] = Absent)
        BY <1>1, <1>6, <3>2 DEF PatchSave
      <3>3. QED
        BY <3>1, <3>2
    <2>4. req' \in [Request -> RequestSlot]
      BY <1>1, <1>6 DEF PatchSave, Answered, Ask, TypeOK
    <2>5. QED
      BY <1>6, <2>3, <2>4 DEF PatchSave, TypeOK, LogUnchanged
  <1>7. CASE Delete(r) \/ RequestFails(r)
    <2>1. req' \in [Request -> RequestSlot] /\ hooks' \in [Hook -> HookRow \cup {Absent}]
      BY <1>1, <1>7 DEF Delete, RequestFails, Answered, Ask, TypeOK
    <2>2. faults' \in 0 .. MaxFaults
      BY <1>7, BoundAssumption DEF Delete, RequestFails, TypeOK
    <2>3. QED
      BY <1>7, <2>1, <2>2 DEF Delete, RequestFails, TypeOK, LogUnchanged
  <1>8. QED
    BY <1>2, <1>3, <1>4, <1>5, <1>6, <1>7 DEF Registry

(* Nor does the registration of an endpoint.                                  *)
LEMMA RegisterStep ==
    ASSUME TypeOK, Register
    PROVE  TypeOK' /\ LogUnchanged
  BY DEF Register, TypeOK, LogUnchanged

(* The rest of the invariant speaks of the log and the tasks only.            *)
LEMMA LogUnchangedStep ==
    ASSUME IInv, TypeOK', LogUnchanged
    PROVE  IInv'
  BY DEF IInv, LogUnchanged, Budget, Pending, TasksKnow, TaskKnows, StampsUnique,
     NothingForgotten, Excess, RowsOf

-----------------------------------------------------------------------------
(* Steps of tasks.                                                            *)

(* Do changes one task.                                                       *)
LEMMA TaskMoved ==
    ASSUME TypeOK, NEW t \in Task, NEW new \in TaskSlot, Do(t, new)
    PROVE  /\ task' \in [Task -> TaskSlot] /\ task'[t] = new
           /\ \A u \in Task \ {t} : task'[u] = task[u]
  BY DEF TypeOK, Do

(* A task that leaves, or does not enter, the counted places needs no stamp.  *)
LEMMA BudgetKept ==
    ASSUME IInv, NEW t \in Task, NEW new \in TaskSlot, Do(t, new), clock' = clock,
           new.pc # "emit_read",
           new.pc \in {"test_find", "post"} => task[t].pc \in {"test_find", "post"}
    PROVE  Budget'
  <1>1. /\ \A u \in Task \ {t} : task'[u] = task[u]
        /\ task'[t] = new
    BY TaskMoved DEF IInv
  <1>2. PostTasks' \in SUBSET PostTasks /\ EmitTasks' \in SUBSET EmitTasks
    BY <1>1 DEF PostTasks, EmitTasks
  <1>3. Pending' <= Pending /\ Pending' \in Nat /\ Pending \in Nat
    <2>1. Pending' = Cardinality(PostTasks') + Cardinality(Hook) * Cardinality(EmitTasks')
      BY DEF Pending, PostTasks, EmitTasks
    <2>2. QED
      BY <1>2, <2>1, TasksFinite, PendingShrinks
  <1>4. clock \in Nat /\ clock + Pending <= MaxStamp
    BY DEF IInv, TypeOK, Budget
  <1>5. \A c, x, y, m \in Nat : y <= x /\ c + x <= m => c + y <= m
    OBVIOUS
  <1>6. MaxStamp \in Nat /\ clock' = clock
    BY BoundAssumption
  <1>7. QED
    BY <1>3, <1>4, <1>5, <1>6, Zenon DEF Budget

(* Rows beyond the limit are as well covered as before when nothing is recorded *)
(* and no pruning moves.                                                      *)
LEMMA ForgottenFrame ==
    ASSUME IInv, rows' = rows, owed \subseteq owed',
           \A u \in Task : Prunes(task[u]) => task'[u] = task[u]
    PROVE  NothingForgotten'
  <1> SUFFICES ASSUME NEW p \in Partner, NEW d \in Excess(p) \ owed
               PROVE  \E u \in Task : /\ task'[u].partner = p
                                      /\ \/ task'[u].pc = "prune_read"
                                         \/ task'[u].pc = "prune_remove" /\ d \in task'[u].plan
    BY DEF NothingForgotten, Excess, RowsOf
  <1>1. PICK u \in Task : /\ task[u].partner = p
                          /\ \/ task[u].pc = "prune_read"
                             \/ task[u].pc = "prune_remove" /\ d \in task[u].plan
    BY DEF IInv, NothingForgotten
  <1>2. task'[u] = task[u]
    BY <1>1 DEF Prunes
  <1>3. QED
    BY <1>1, <1>2

(* Stamps stay apart when nothing is recorded and no stamp is given out.      *)
LEMMA StampsFrame ==
    ASSUME IInv, rows' = rows, clock' = clock,
           \A u \in Task : task'[u].pc = "insert" => task'[u] = task[u]
    PROVE  StampsUnique'
  <1>1. StampsUnique
    BY DEF IInv
  <1>2. QED
    BY <1>1, Zenon DEF StampsUnique

(* A step of a task that neither records nor removes a row and does not prune. *)
LEMMA QuietStep ==
    ASSUME IInv, NEW t \in Task, NEW new \in TaskSlot, Do(t, new), ~Prunes(task[t]),
           UNCHANGED <<hooks, issued, rows, req, owed>>,
           clock' \in 0 .. MaxStamp, clock <= clock', faults' \in 0 .. MaxFaults,
           Budget', TaskKnows(new)', StampsUnique'
    PROVE  IInv'
  <1>1. /\ task' \in [Task -> TaskSlot] /\ task'[t] = new
        /\ \A u \in Task \ {t} : task'[u] = task[u]
    BY TaskMoved DEF IInv
  <1>2. TypeOK'
    BY <1>1 DEF IInv, TypeOK
  <1>3. TasksKnow'
    <2>1. ASSUME NEW u \in Task \ {t} PROVE TaskKnows(task[u])'
      <3>1. TaskKnows(task[u])
        BY DEF IInv, TasksKnow
      <3>2. task'[u] = task[u]
        BY <1>1
      <3>3. clock \in Nat /\ clock' \in Nat
        BY BoundAssumption DEF IInv, TypeOK
      <3>4. QED
        BY <3>1, <3>2, <3>3 DEF TaskKnows, RowsOf
    <2>2. TaskKnows(task[t])'
      BY <1>1 DEF TaskKnows
    <2>3. QED
      BY <2>1, <2>2 DEF TasksKnow
  <1>4. NothingForgotten'
    <2>1. \A u \in Task : Prunes(task[u]) => task'[u] = task[u]
      BY <1>1
    <2>2. QED
      BY <2>1, ForgottenFrame
  <1>5. QED
    BY <1>2, <1>3, <1>4 DEF IInv

(* A stamp is set aside before a test is accepted, and one for each endpoint  *)
(* before an event is.                                                        *)
LEMMA AskTestStep ==
    ASSUME IInv, NEW t \in Task, AskTest(t)
    PROVE  IInv'
  <1>1. PICK h \in Hook : Do(t, [NoTask EXCEPT !.pc = "test_find", !.op = "test", !.hook = h,
                                              !.partner = Owner[h]])
    BY DEF AskTest, IInv, TypeOK
  <1> DEFINE new == [NoTask EXCEPT !.pc = "test_find", !.op = "test", !.hook = h,
                                   !.partner = Owner[h]]
  <1>2. new \in TaskSlot
    BY SlotTypes, OwnerAssumption DEF TaskSlot
  <1>3. new.pc = "test_find" /\ new.hook = h /\ new.partner = Owner[h] /\ task[t].pc = "idle"
    BY SlotTypes DEF TaskSlot, AskTest, AtTask
  <1>4. /\ task'[t] = new /\ \A u \in Task \ {t} : task'[u] = task[u]
    BY <1>1, <1>2, TaskMoved DEF IInv
  <1>5. PostTasks' = PostTasks \cup {t} /\ t \notin PostTasks /\ EmitTasks' = EmitTasks
    BY <1>3, <1>4 DEF PostTasks, EmitTasks
  <1>6. Pending' = Pending + 1
    <2>1. Pending' = Cardinality(PostTasks') + Cardinality(Hook) * Cardinality(EmitTasks')
      BY DEF Pending, PostTasks, EmitTasks
    <2>2. Cardinality(PostTasks') = Cardinality(PostTasks) + 1
      BY <1>5, TasksFinite, FS_AddElement
    <2> DEFINE m == Cardinality(Hook) * Cardinality(EmitTasks)
    <2>3. m \in Int /\ Cardinality(PostTasks) \in Int
      BY TasksFinite, FS_CardinalityType, FiniteAssumption
    <2>4. Pending = Cardinality(PostTasks) + m /\ Pending' = Cardinality(PostTasks) + 1 + m
      BY <1>5, <2>1, <2>2, TasksFinite
    <2> HIDE DEF m
    <2>5. QED
      BY <2>3, <2>4
  <1>7. Budget'
    <2>1. clock + Pending + 1 <= MaxStamp /\ clock' = clock /\ clock \in Nat
      BY DEF AskTest, StampsLeft, IInv, TypeOK
    <2>2. QED
      BY <1>6, <2>1, TasksFinite DEF Budget
  <1>8. TaskKnows(new)'
    BY <1>3 DEF TaskKnows
  <1>9. QED
    <2>1. /\ UNCHANGED <<hooks, issued, rows, req, owed>> /\ clock' = clock /\ faults' = faults
          /\ clock \in 0 .. MaxStamp /\ faults \in 0 .. MaxFaults
      BY DEF AskTest, IInv, TypeOK
    <2>2. ~Prunes(task[t])
      BY <1>3 DEF Prunes
    <2>3. StampsUnique'
      <3>1. \A u \in Task : task'[u].pc = "insert" => task'[u] = task[u]
        BY <1>3, <1>4
      <3>2. QED
        BY <2>1, <3>1, StampsFrame
    <2>4. QED
      BY <1>1, <1>2, <1>7, <1>8, <2>1, <2>2, <2>3, QuietStep

(* An event is accepted with a stamp set aside for every endpoint.            *)
LEMMA EmitStep ==
    ASSUME IInv, NEW t \in Task, Emit(t)
    PROVE  IInv'
  <1>1. PICK p \in Partner, e \in Event :
           Do(t, [NoTask EXCEPT !.pc = "emit_read", !.op = "emit", !.partner = p, !.event = e])
    BY DEF Emit
  <1> DEFINE new == [NoTask EXCEPT !.pc = "emit_read", !.op = "emit", !.partner = p, !.event = e]
  <1>2. new \in TaskSlot
    BY SlotTypes DEF TaskSlot
  <1>3. new.pc = "emit_read" /\ task[t].pc = "idle"
    BY SlotTypes DEF TaskSlot, Emit, AtTask
  <1>4. /\ task'[t] = new /\ \A u \in Task \ {t} : task'[u] = task[u]
    BY <1>1, <1>2, TaskMoved DEF IInv
  <1>5. EmitTasks' = EmitTasks \cup {t} /\ t \notin EmitTasks /\ PostTasks' = PostTasks
    BY <1>3, <1>4 DEF PostTasks, EmitTasks
  <1>6. Pending' = Pending + Cardinality(Hook)
    <2>1. Pending' = Cardinality(PostTasks') + Cardinality(Hook) * Cardinality(EmitTasks')
      BY DEF Pending, PostTasks, EmitTasks
    <2>2. Cardinality(EmitTasks') = Cardinality(EmitTasks) + 1
      BY <1>5, TasksFinite, FS_AddElement
    <2>3. /\ Cardinality(PostTasks) \in Nat /\ Cardinality(EmitTasks) \in Nat
          /\ Cardinality(Hook) \in Nat
      BY TasksFinite, FS_CardinalityType, FiniteAssumption
    <2>4. ASSUME NEW h \in Nat, NEW m \in Nat, NEW n \in Nat
          PROVE  m + h * (n + 1) = (m + h * n) + h
      OBVIOUS
    <2>5. Pending' = Cardinality(PostTasks) + Cardinality(Hook) * (Cardinality(EmitTasks) + 1)
      BY <1>5, <2>1, <2>2
    <2>6. QED
      BY <2>3, <2>4, <2>5, TasksFinite
  <1>7. Budget'
    <2>1. clock + Pending + Cardinality(Hook) <= MaxStamp /\ clock' = clock /\ clock \in Nat
      BY DEF Emit, StampsLeft, IInv, TypeOK
    <2>2. Cardinality(Hook) \in Nat
      BY FS_CardinalityType, FiniteAssumption
    <2>3. QED
      BY <1>6, <2>1, <2>2, TasksFinite DEF Budget
  <1>8. TaskKnows(new)'
    BY <1>3 DEF TaskKnows
  <1>9. QED
    <2>1. /\ UNCHANGED <<hooks, issued, rows, req, owed>> /\ clock' = clock /\ faults' = faults
          /\ clock \in 0 .. MaxStamp /\ faults \in 0 .. MaxFaults
      BY DEF Emit, IInv, TypeOK
    <2>2. ~Prunes(task[t])
      BY <1>3 DEF Prunes
    <2>3. StampsUnique'
      <3>1. \A u \in Task : task'[u].pc = "insert" => task'[u] = task[u]
        BY <1>3, <1>4
      <3>2. QED
        BY <2>1, <3>1, StampsFrame
    <2>4. QED
      BY <1>1, <1>2, <1>7, <1>8, <2>1, <2>2, <2>3, QuietStep

(* The lookup of a test leaves its stamp to the POST, or gives it back.       *)
LEMMA TestFindStep ==
    ASSUME IInv, NEW t \in Task, TestFind(t)
    PROVE  IInv'
  <1>1. task[t] \in TaskSlot /\ task[t].pc = "test_find" /\ TaskKnows(task[t])
    BY DEF TestFind, AtTask, IInv, TypeOK, TasksKnow
  <1>2. PICK new \in {NoTask, [task[t] EXCEPT !.pc = "post"]} : Do(t, new)
    BY DEF TestFind, Ended
  <1>3. /\ new \in TaskSlot /\ new.pc \in {"idle", "post"}
        /\ new.pc = "post" => new.hook = task[t].hook /\ new.partner = task[t].partner
    BY <1>1, SlotTypes DEF TaskSlot, NoTask
  <1>4. TaskKnows(new)'
    BY <1>1, <1>3 DEF TaskKnows
  <1>5. /\ UNCHANGED <<hooks, issued, rows, req, owed>> /\ clock' = clock /\ faults' = faults
        /\ clock \in 0 .. MaxStamp /\ faults \in 0 .. MaxFaults
    BY DEF TestFind, IInv, TypeOK
  <1>6. Budget'
    BY <1>1, <1>2, <1>3, <1>5, BudgetKept
  <1>7. ~Prunes(task[t])
    BY <1>1 DEF Prunes
  <1>8. StampsUnique'
    <2>1. \A u \in Task : task'[u].pc = "insert" => task'[u] = task[u]
      BY <1>2, <1>3, TaskMoved DEF IInv
    <2>2. QED
      BY <1>5, <2>1, StampsFrame
  <1>9. QED
    BY <1>2, <1>3, <1>4, <1>5, <1>6, <1>7, <1>8, QuietStep

(* The stamp comes out of those set aside.                                    *)
LEMMA PostEndsStep ==
    ASSUME IInv, NEW t \in Task, PostEnds(t)
    PROVE  IInv'
  <1>1. /\ task[t] \in TaskSlot /\ task[t].pc = "post" /\ TaskKnows(task[t])
        /\ clock \in Nat /\ clock' = clock + 1
    BY DEF PostEnds, AtTask, IInv, TypeOK, TasksKnow
  <1>2. t \in PostTasks /\ clock + Pending <= MaxStamp
    BY <1>1 DEF PostTasks, IInv, Budget
  <1>3. /\ Cardinality(PostTasks) \in Nat \ {0}
        /\ Cardinality(PostTasks \ {t}) = Cardinality(PostTasks) - 1
    BY <1>2, TasksFinite, FS_RemoveElement, FS_CardinalityType, FS_EmptySet
  <1> DEFINE m == Cardinality(Hook) * Cardinality(EmitTasks)
  <1>4. m \in Nat /\ Pending = Cardinality(PostTasks) + m
    <2>1. Cardinality(Hook) \in Nat /\ Cardinality(EmitTasks) \in Nat
      BY TasksFinite, FS_CardinalityType, FiniteAssumption
    <2>2. ASSUME NEW i \in Nat, NEW j \in Nat PROVE i * j \in Nat
      OBVIOUS
    <2>3. QED
      BY <2>1, <2>2, TasksFinite
  <1>5. clock' \in 0 .. MaxStamp
    <2> HIDE DEF m
    <2>1. \A c, i, j, k \in Nat : i # 0 /\ c + (i + j) <= k => c + 1 \in 0 .. k
      OBVIOUS
    <2>2. clock + (Cardinality(PostTasks) + m) <= MaxStamp /\ MaxStamp \in Nat
      BY <1>2, <1>4, BoundAssumption, Zenon
    <2>3. clock + 1 \in 0 .. MaxStamp
      BY <1>1, <1>3, <1>4, <2>1, <2>2, Zenon
    <2>4. QED
      BY <1>1, <2>3, Zenon
  <1>6. PICK new \in TaskSlot :
             /\ Do(t, new) /\ new.pc = "insert" /\ new.at = clock' /\ new.hook = task[t].hook
             /\ new.partner = task[t].partner
    <2> DEFINE new == [task[t] EXCEPT !.pc = "insert", !.at = clock + 1]
    <2>1. new \in TaskSlot /\ new.pc = "insert" /\ new.at = clock' /\ new.hook = task[t].hook
          /\ new.partner = task[t].partner
      BY <1>1, <1>5 DEF TaskSlot
    <2>2. Do(t, new)
      BY DEF PostEnds
    <2>3. QED
      BY <2>1, <2>2
  <1>7. /\ task'[t] = new /\ \A u \in Task \ {t} : task'[u] = task[u]
    BY <1>1, <1>6, TaskMoved DEF IInv
  <1>8. Budget'
    <2>1. PostTasks' = PostTasks \ {t} /\ EmitTasks' = EmitTasks
      BY <1>1, <1>6, <1>7 DEF PostTasks, EmitTasks
    <2>2. Pending' = Cardinality(PostTasks') + Cardinality(Hook) * Cardinality(EmitTasks')
      BY DEF Pending, PostTasks, EmitTasks
    <2>3. Pending' = Cardinality(PostTasks) - 1 + m
      BY <1>3, <2>1, <2>2
    <2> HIDE DEF m
    <2>4. QED
      BY <1>1, <1>2, <1>3, <1>4, <2>3, BoundAssumption DEF Budget
  <1>9. TaskKnows(new)'
    BY <1>1, <1>5, <1>6, BoundAssumption DEF TaskKnows
  <1>10. StampsUnique'
    <2>1. StampsUnique /\ rows' = rows /\ rows \subseteq Delivery
      BY DEF IInv, TypeOK, PostEnds
    <2>2. ASSUME NEW d \in rows PROVE d.at \in Nat /\ d.at <= clock' /\ d.at # clock'
      <3>1. d.at \in Nat /\ d.at <= clock
        BY <2>1, BoundAssumption DEF StampsUnique, Delivery
      <3>2. QED
        BY <1>1, <3>1
    <2>3. ASSUME NEW u \in Task, task[u].pc = "insert" PROVE task[u].at \in Nat /\ task[u].at < clock'
      <3>1. task[u].at \in 1 .. clock
        BY <2>3 DEF IInv, TasksKnow, TaskKnows
      <3>2. QED
        BY <1>1, <3>1
    <2>4. \A u \in Task : task'[u].pc = "insert" =>
             \/ u = t /\ task'[u].at = clock'
             \/ u # t /\ task'[u] = task[u] /\ task[u].pc = "insert"
      BY <1>6, <1>7
    <2>5. \A d \in rows' : d.at <= clock'
      BY <2>1, <2>2, Zenon
    <2>6. \A u \in Task : task'[u].pc = "insert" => \A d \in rows' : d.at # task'[u].at
      BY <2>1, <2>2, <2>4 DEF StampsUnique
    <2>7. \A u, v \in Task :
             task'[u].pc = "insert" /\ task'[v].pc = "insert" /\ task'[u].at = task'[v].at => u = v
      BY <2>1, <2>3, <2>4 DEF StampsUnique
    <2>8. QED
      BY <2>1, <2>5, <2>6, <2>7 DEF StampsUnique
  <1>11. QED
    <2>1. /\ UNCHANGED <<hooks, issued, rows, req, owed>> /\ faults' = faults
          /\ faults \in 0 .. MaxFaults /\ clock <= clock'
      BY <1>1 DEF PostEnds, IInv, TypeOK
    <2>2. ~Prunes(task[t])
      BY <1>1 DEF Prunes
    <2>3. QED
      BY <1>1, <1>5, <1>6, <1>8, <1>9, <1>10, <2>1, <2>2, QuietStep

(* The dispatches that an event starts fit into what was set aside for it.    *)
LEMMA EmitReadStep ==
    ASSUME IInv, NEW t \in Task, EmitRead(t)
    PROVE  IInv'
  <1> DEFINE T == {h \in Hook : /\ hooks[h] # Absent /\ Owner[h] = task[t].partner
                                /\ hooks[h].active /\ task[t].event \in hooks[h].events}
             free == {u \in Task : task[u].pc = "idle"} \cup {t}
             Post(h) == [NoTask EXCEPT !.pc = "post", !.op = "emit", !.hook = h,
                                       !.partner = Owner[h]]
  <1>1. /\ task[t].pc = "emit_read" /\ Start(T, t)
        /\ UNCHANGED <<hooks, issued, rows, clock, req, faults, owed>>
    BY DEF EmitRead, AtTask
  <1>2. PICK f \in [T -> free] :
           task' = [u \in Task |->
                      IF \E h \in T : f[h] = u
                      THEN LET h == CHOOSE h \in T : f[h] = u IN Post(h)
                      ELSE IF u = t THEN NoTask ELSE task[u]]
    BY <1>1 DEF Start
  <1> DEFINE R == {f[h] : h \in T}
  <1>3. ASSUME NEW u \in Task
        PROVE  /\ u \in R => \E h \in Hook : task'[u] = Post(h)
               /\ u \notin R => task'[u] = IF u = t THEN NoTask ELSE task[u]
    <2>1. CASE u \in R
      <3>1. \E h \in T : f[h] = u
        BY <2>1
      <3> DEFINE h == CHOOSE h \in T : f[h] = u
      <3>2. h \in T
        BY <3>1
      <3>3. task'[u] = Post(h)
        BY <1>2, <3>1
      <3>4. QED
        BY <2>1, <3>2, <3>3
    <2>2. CASE u \notin R
      <3>1. ~ \E h \in T : f[h] = u
        BY <2>2
      <3>2. QED
        BY <1>2, <2>2, <3>1
    <2>3. QED
      BY <2>1, <2>2
  <1>4. ASSUME NEW h \in Hook
        PROVE  /\ Post(h) \in TaskSlot /\ Post(h).pc = "post"
               /\ Post(h).hook = h /\ Post(h).partner = Owner[h]
    BY SlotTypes, OwnerAssumption DEF TaskSlot
  <1>5. NoTask \in TaskSlot /\ NoTask.pc = "idle"
    BY SlotTypes DEF NoTask
  <1> HIDE DEF Post
  <1>6. task' \in [Task -> TaskSlot]
    <2>1. ASSUME NEW u \in Task PROVE task'[u] \in TaskSlot
      BY <1>3, <1>4, <1>5 DEF IInv, TypeOK
    <2>2. \E g : task' = [u \in Task |-> g[u]]
      BY <1>2
    <2>3. QED
      BY <2>1, <2>2
  <1>7. TypeOK'
    BY <1>1, <1>6 DEF IInv, TypeOK
  <1>8. Budget'
    <2>1. EmitTasks' \in SUBSET (EmitTasks \ {t}) /\ t \in EmitTasks
      BY <1>1, <1>3, <1>4, <1>5 DEF EmitTasks
    <2>2. PostTasks' \in SUBSET (PostTasks \cup R)
      BY <1>3, <1>5 DEF PostTasks
    <2>3. IsFiniteSet(T) /\ Cardinality(T) <= Cardinality(Hook)
      <3>1. T \in SUBSET Hook
        OBVIOUS
      <3>2. QED
        BY <3>1, FiniteAssumption, FS_Subset
    <2>4. IsFiniteSet(R) /\ Cardinality(R) <= Cardinality(T)
      <3>1. f \in Surjection(T, R)
        BY DEF Surjection
      <3>2. QED
        BY <2>3, <3>1, FS_Surjection
    <2>5. /\ IsFiniteSet(PostTasks \cup R)
          /\ Cardinality(PostTasks \cup R)
               = Cardinality(PostTasks) + Cardinality(R) - Cardinality(PostTasks \cap R)
          /\ Cardinality(PostTasks \cap R) \in Nat
      BY <2>4, TasksFinite, FS_Union, FS_Intersection, FS_CardinalityType
    <2>6. /\ Cardinality(PostTasks) \in Nat /\ Cardinality(Hook) \in Nat
          /\ Cardinality(EmitTasks) \in Nat /\ Cardinality(PostTasks') \in Nat
          /\ Cardinality(EmitTasks') \in Nat /\ Cardinality(R) \in Nat /\ Cardinality(T) \in Nat
          /\ Cardinality(PostTasks') <= Cardinality(PostTasks \cup R)
      <3>1. IsFiniteSet(EmitTasks \ {t})
        BY TasksFinite, FS_RemoveElement
      <3>2. IsFiniteSet(PostTasks') /\ IsFiniteSet(EmitTasks')
        BY <2>1, <2>2, <2>5, <3>1, FS_Subset
      <3>3. QED
        BY <2>2, <2>3, <2>4, <2>5, <3>2, TasksFinite, FiniteAssumption, FS_Subset,
           FS_CardinalityType
    <2>7. Cardinality(PostTasks') <= Cardinality(PostTasks) + Cardinality(Hook)
      BY <2>3, <2>4, <2>5, <2>6
    <2>8. Cardinality(EmitTasks') + 1 <= Cardinality(EmitTasks)
      <3>1. /\ Cardinality(EmitTasks \ {t}) = Cardinality(EmitTasks) - 1
            /\ IsFiniteSet(EmitTasks \ {t})
        BY <2>1, TasksFinite, FS_RemoveElement
      <3>2. Cardinality(EmitTasks') <= Cardinality(EmitTasks \ {t})
        BY <2>1, <3>1, FS_Subset
      <3>3. QED
        BY <2>6, <3>1, <3>2
    <2>9. \A p, h, e, p1, e1 \in Nat :
             p1 <= p + h /\ e1 + 1 <= e => p1 + h * e1 <= p + h * e /\ p1 + h * e1 \in Nat
      <3> SUFFICES ASSUME NEW p \in Nat, NEW h \in Nat, NEW e \in Nat, NEW p1 \in Nat,
                          NEW e1 \in Nat, p1 <= p + h, e1 + 1 <= e
                   PROVE  p1 + h * e1 <= p + h * e /\ p1 + h * e1 \in Nat
        OBVIOUS
      <3>1. h * (e1 + 1) <= h * e
        OBVIOUS
      <3>2. h * (e1 + 1) = h * e1 + h /\ h * e1 \in Nat /\ h * e \in Nat
        OBVIOUS
      <3>3. QED
        BY <3>1, <3>2
    <2>10. Pending' = Cardinality(PostTasks') + Cardinality(Hook) * Cardinality(EmitTasks')
      BY DEF Pending, PostTasks, EmitTasks
    <2>11. Pending' <= Pending /\ Pending' \in Nat /\ Pending \in Nat
      BY <2>6, <2>7, <2>8, <2>9, <2>10, TasksFinite, Zenon
    <2>12. \A c, x, y, m \in Nat : y <= x /\ c + x <= m => c + y <= m
      OBVIOUS
    <2>13. MaxStamp \in Nat /\ clock' = clock /\ clock \in Nat /\ clock + Pending <= MaxStamp
      BY <1>1, BoundAssumption DEF IInv, TypeOK, Budget
    <2>14. QED
      BY <2>11, <2>12, <2>13, Zenon DEF Budget
  <1>9. TasksKnow'
    <2> SUFFICES ASSUME NEW u \in Task PROVE TaskKnows(task[u])'
      BY DEF TasksKnow
    <2>1. CASE u \in R
      BY <1>3, <1>4, <2>1 DEF TaskKnows
    <2>2. CASE u \notin R /\ u = t
      BY <1>3, <1>5, <2>2 DEF TaskKnows
    <2>3. CASE u \notin R /\ u # t
      <3>1. task'[u] = task[u] /\ TaskKnows(task[u]) /\ rows' = rows /\ clock' = clock
        BY <1>1, <1>3, <2>3 DEF IInv, TasksKnow
      <3>2. QED
        BY <3>1 DEF TaskKnows, RowsOf
    <2>4. QED
      BY <2>1, <2>2, <2>3
  <1>10. NothingForgotten'
    <2>1. ASSUME NEW u \in Task, Prunes(task[u]) PROVE task'[u] = task[u]
      <3>1. u \notin free /\ u # t
        BY <1>1, <2>1 DEF Prunes
      <3>2. QED
        BY <1>3, <3>1
    <2>2. QED
      BY <1>1, <2>1, ForgottenFrame
  <1>11. StampsUnique'
    <2>1. ASSUME NEW u \in Task, task'[u].pc = "insert" PROVE task'[u] = task[u]
      BY <1>3, <1>4, <1>5, <2>1
    <2>2. QED
      BY <1>1, <2>1, StampsFrame
  <1>12. QED
    BY <1>7, <1>8, <1>9, <1>10, <1>11 DEF IInv

(* The partner of a delivery is the one whose log is pruned after it.         *)
LEMMA InsertRowIs ==
    ASSUME IInv, NEW t \in Task, InsertRow(t)
    PROVE  \E e \in Delivery : /\ Owner[e.hook] = task[t].partner /\ rows' = rows \cup {e}
                               /\ task[t].partner \in Partner /\ e.at = task[t].at
  <1> DEFINE e == [at |-> task[t].at, hook |-> task[t].hook]
  <1>1. task[t] \in TaskSlot /\ task[t].pc = "insert" /\ TaskKnows(task[t]) /\ clock \in 0 .. MaxStamp
    BY DEF InsertRow, AtTask, IInv, TypeOK, TasksKnow
  <1>2. task[t].at \in 1 .. MaxStamp /\ Owner[task[t].hook] = task[t].partner
    BY <1>1, BoundAssumption DEF TaskKnows
  <1>3. e \in Delivery
    BY <1>1, <1>2 DEF Delivery, TaskSlot
  <1>4. QED
    BY <1>1, <1>2, <1>3 DEF InsertRow, TaskSlot

(* A recorded delivery only adds later rows in front of those in a plan, and  *)
(* the pruning that will collect the excess it makes is its own.              *)
LEMMA InsertRowStep ==
    ASSUME IInv, NEW t \in Task, InsertRow(t)
    PROVE  IInv'
  <1>1. /\ task[t] \in TaskSlot /\ task[t].pc = "insert" /\ TaskKnows(task[t])
        /\ UNCHANGED <<hooks, issued, clock, req, faults, owed>>
    BY DEF InsertRow, AtTask, IInv, TypeOK, TasksKnow
  <1>2. PICK e \in Delivery : /\ Owner[e.hook] = task[t].partner /\ rows' = rows \cup {e}
                              /\ e.at = task[t].at
    BY InsertRowIs
  <1>3. PICK new \in TaskSlot : /\ Do(t, new) /\ new.pc = "prune_read"
                                /\ new.hook = task[t].hook /\ new.partner = task[t].partner
    <2> DEFINE new == [task[t] EXCEPT !.pc = "prune_read"]
    <2>1. new \in TaskSlot /\ new.pc = "prune_read" /\ new.hook = task[t].hook
          /\ new.partner = task[t].partner
      BY <1>1 DEF TaskSlot
    <2>2. QED
      BY <2>1 DEF InsertRow
  <1>4. /\ task' \in [Task -> TaskSlot] /\ task'[t] = new
        /\ \A u \in Task \ {t} : task'[u] = task[u]
    BY <1>3, TaskMoved DEF IInv
  <1>5. TypeOK'
    BY <1>1, <1>2, <1>4 DEF IInv, TypeOK
  <1>6. Budget'
    BY <1>1, <1>3, BudgetKept
  <1>7. TasksKnow'
    <2> SUFFICES ASSUME NEW u \in Task PROVE TaskKnows(task[u])'
      BY DEF TasksKnow
    <2>1. CASE u = t
      BY <1>1, <1>3, <1>4, <2>1 DEF TaskKnows
    <2>2. CASE u # t
      <3> DEFINE s == task[u]
      <3>1. task'[u] = s /\ TaskKnows(s) /\ s \in TaskSlot
        BY <1>4, <2>2 DEF IInv, TasksKnow, TypeOK
      <3>2. ASSUME NEW p, NEW d, Cardinality(Later(RowsOf(p), d)) >= Limit
            PROVE  Cardinality(Later(RowsOf(p)', d)) >= Limit
        <4>1. RowsOf(p) \in SUBSET (RowsOf(p)') /\ Stamped(RowsOf(p)') /\ Stamped(RowsOf(p))
          <5>1. RowsOf(p) \in SUBSET (RowsOf(p)')
            BY <1>2 DEF RowsOf
          <5>2. RowsOf(p)' \in SUBSET Delivery
            BY <1>5 DEF TypeOK, RowsOf
          <5>3. RowsOf(p) \in SUBSET Delivery
            BY DEF IInv, TypeOK, RowsOf
          <5>4. QED
            BY <5>1, <5>2, <5>3, DeliveriesStamped
        <4>2. Cardinality(Later(RowsOf(p), d)) <= Cardinality(Later(RowsOf(p)', d))
          BY <4>1, LaterGrows
        <4>3. /\ Cardinality(Later(RowsOf(p), d)) \in Nat
              /\ Cardinality(Later(RowsOf(p)', d)) \in Nat
          BY <4>1, LaterFinite
        <4>4. QED
          BY <3>2, <4>2, <4>3, LimitAssumption
      <3> HIDE DEF s
      <3>3. QED
        BY <1>1, <3>1, <3>2 DEF TaskKnows
    <2>3. QED
      BY <2>1, <2>2
  <1>8. NothingForgotten'
    <2> SUFFICES ASSUME NEW p \in Partner, NEW d \in Excess(p)' \ owed'
                 PROVE  \E u \in Task : /\ task'[u].partner = p
                                        /\ \/ task'[u].pc = "prune_read"
                                           \/ task'[u].pc = "prune_remove" /\ d \in task'[u].plan
      BY DEF NothingForgotten
    <2>1. CASE p = task[t].partner
      BY <1>3, <1>4, <2>1
    <2>2. CASE p # task[t].partner
      <3>1. RowsOf(p)' = RowsOf(p)
        BY <1>2, <2>2 DEF RowsOf
      <3>2. d \in Excess(p) \ owed
        BY <1>1, <3>1 DEF Excess
      <3>3. PICK u \in Task : /\ task[u].partner = p
                              /\ \/ task[u].pc = "prune_read"
                                 \/ task[u].pc = "prune_remove" /\ d \in task[u].plan
        BY <3>2 DEF IInv, NothingForgotten
      <3>4. task'[u] = task[u]
        BY <1>1, <1>4, <3>3
      <3>5. QED
        BY <3>3, <3>4
    <2>3. QED
      BY <2>1, <2>2
  <1>9. StampsUnique'
    <2>1. StampsUnique /\ clock' = clock /\ e.at <= clock
      BY <1>1, <1>2 DEF IInv, TaskKnows, TypeOK
    <2>2. \A u \in Task : task'[u].pc = "insert" =>
             u # t /\ task'[u] = task[u] /\ task[u].at # e.at
      BY <1>1, <1>2, <1>3, <1>4, <2>1 DEF StampsUnique
    <2>3. \A d \in rows : d.at # e.at
      BY <1>1, <1>2, <2>1 DEF StampsUnique
    <2>4. QED
      BY <1>2, <2>1, <2>2, <2>3 DEF StampsUnique
  <1>10. QED
    BY <1>5, <1>6, <1>7, <1>8, <1>9 DEF IInv

(* The SELECT of a pruning finds all of the excess there is.                  *)
LEMMA PruneReadStep ==
    ASSUME IInv, NEW t \in Task, PruneRead(t)
    PROVE  IInv'
  <1>0. PICK q \in Partner : q = task[t].partner
    BY DEF IInv, TypeOK, TaskSlot
  <1>1. /\ task[t] \in TaskSlot /\ task[t].pc = "prune_read" /\ TaskKnows(task[t])
        /\ UNCHANGED <<hooks, issued, rows, clock, req, faults>>
        /\ owed' = owed \ RowsOf(q)
    BY <1>0 DEF PruneRead, AtTask, IInv, TypeOK, TasksKnow
  <1>2. RowsOf(q) \in SUBSET Delivery /\ Stamped(RowsOf(q))
    BY RowsStamped DEF IInv
  <1>3. PICK new \in TaskSlot :
          /\ Do(t, new)
          /\ \/ new.pc = "idle" /\ Excess(q) = {}
             \/ /\ new.pc = "prune_remove" /\ new.plan = Excess(q) /\ new.plan # {}
                /\ new.hook = task[t].hook /\ new.partner = q
    <2>1. CASE Cardinality(RowsOf(q)) <= Limit
      <3>1. Do(t, NoTask)
        <4>1. Cardinality(RowsOf(q)) \in Nat
          BY <1>2, FS_CardinalityType DEF Stamped
        <4>2. ~(Cardinality(RowsOf(q)) > Limit)
          BY <2>1, <4>1, LimitAssumption
        <4>3. QED
          BY <1>0, <4>2 DEF PruneRead, Ended
      <3>2. Excess(q) = {}
        BY <1>2, <2>1, AllNewest DEF Excess
      <3>3. NoTask \in TaskSlot /\ NoTask.pc = "idle"
        BY SlotTypes DEF NoTask
      <3>4. QED
        BY <3>1, <3>2, <3>3
    <2>2. CASE ~(Cardinality(RowsOf(q)) <= Limit)
      <3> DEFINE new == [task[t] EXCEPT !.pc = "prune_remove",
                                        !.plan = RowsOf(q) \ Newest(RowsOf(q))]
      <3>1. Do(t, new)
        BY <1>0, <2>2 DEF PruneRead
      <3>2. RowsOf(q) \ Newest(RowsOf(q)) \in SUBSET Delivery
        BY <1>2
      <3>3. new \in TaskSlot /\ new.pc = "prune_remove" /\ new.plan = Excess(q)
            /\ new.hook = task[t].hook /\ new.partner = q
        BY <1>0, <1>1, <3>2 DEF TaskSlot, Excess
      <3>4. Excess(q) # {}
        BY <2>2, ExcessExists DEF IInv
      <3>5. QED
        BY <3>1, <3>3, <3>4
    <2>3. QED
      BY <2>1, <2>2
  <1>4. /\ task' \in [Task -> TaskSlot] /\ task'[t] = new
        /\ \A u \in Task \ {t} : task'[u] = task[u]
    BY <1>3, TaskMoved DEF IInv
  <1>5. TypeOK'
    BY <1>1, <1>4 DEF IInv, TypeOK
  <1>6. Budget'
    <2>1. new.pc \in {"idle", "prune_remove"}
      BY <1>3
    <2>2. QED
      BY <1>1, <1>3, <2>1, BudgetKept
  <1>7. TasksKnow'
    <2> SUFFICES ASSUME NEW u \in Task PROVE TaskKnows(task[u])'
      BY DEF TasksKnow
    <2>1. CASE u = t
      <3>1. new.pc = "prune_remove" =>
              /\ new.hook = task[t].hook /\ new.partner = q /\ q = Owner[task[t].hook]
              /\ new.plan # {}
              /\ \A d \in new.plan : /\ Owner[d.hook] = q
                                     /\ Cardinality(Later(RowsOf(q), d)) >= Limit
        <4> SUFFICES ASSUME new.pc = "prune_remove", NEW d \in Excess(q)
                     PROVE  Owner[d.hook] = q /\ Cardinality(Later(RowsOf(q), d)) >= Limit
          BY <1>0, <1>1, <1>3 DEF TaskKnows
        <4>1. d \in RowsOf(q) /\ ~(Cardinality(Later(RowsOf(q), d)) < Limit)
          BY DEF Excess, Newest
        <4>2. Cardinality(Later(RowsOf(q), d)) \in Nat
          BY <1>2, LaterFinite
        <4>3. QED
          BY <4>1, <4>2, LimitAssumption DEF RowsOf
      <3>2. new.pc \in {"idle", "prune_remove"}
        BY <1>3
      <3>3. RowsOf(q)' = RowsOf(q) /\ task'[u] = new
        BY <1>1, <1>4, <2>1 DEF RowsOf
      <3>4. TaskKnows(new)'
        BY <1>1, <3>1, <3>2 DEF TaskKnows, RowsOf
      <3>5. QED
        BY <3>3, <3>4 DEF TaskKnows
    <2>2. CASE u # t
      <3>1. task'[u] = task[u] /\ TaskKnows(task[u])
        BY <1>4, <2>2 DEF IInv, TasksKnow
      <3>2. QED
        BY <1>1, <3>1 DEF TaskKnows, RowsOf
    <2>3. QED
      BY <2>1, <2>2
  <1>8. StampsUnique'
    <2>1. \A u \in Task : task'[u].pc = "insert" => task'[u] = task[u]
      BY <1>3, <1>4
    <2>2. QED
      BY <1>1, <2>1, StampsFrame
  <1>9. NothingForgotten'
    <2> SUFFICES ASSUME NEW p \in Partner, NEW d \in Excess(p)' \ owed'
                 PROVE  \E u \in Task : /\ task'[u].partner = p
                                        /\ \/ task'[u].pc = "prune_read"
                                           \/ task'[u].pc = "prune_remove" /\ d \in task'[u].plan
      BY DEF NothingForgotten
    <2>1. d \in Excess(p) /\ d \in RowsOf(p)
      BY <1>1 DEF Excess, RowsOf
    <2>2. CASE p = q
      BY <1>3, <1>4, <2>1, <2>2
    <2>3. CASE p # q
      <3>1. d \notin RowsOf(q)
        BY <2>1, <2>3 DEF RowsOf
      <3>2. d \in Excess(p) \ owed
        BY <1>1, <2>1, <3>1
      <3>3. PICK u \in Task : /\ task[u].partner = p
                              /\ \/ task[u].pc = "prune_read"
                                 \/ task[u].pc = "prune_remove" /\ d \in task[u].plan
        BY <3>2 DEF IInv, NothingForgotten
      <3>4. task'[u] = task[u]
        BY <1>0, <1>4, <2>3, <3>3
      <3>5. QED
        BY <3>3, <3>4
    <2>4. QED
      BY <2>2, <2>3
  <1>10. QED
    BY <1>5, <1>6, <1>7, <1>8, <1>9 DEF IInv

(* The DELETE of a pruning removes a row that is beyond the limit, and what is *)
(* left of its plan stays beyond it.                                          *)
LEMMA PruneRemoveIs ==
    ASSUME IInv, NEW t \in Task, PruneRemove(t)
    PROVE  \E q \in Partner, d \in Delivery :
              /\ task[t].partner = q /\ Oldest(task[t].plan) = d /\ d \in task[t].plan
              /\ Owner[d.hook] = q /\ Cardinality(Later(RowsOf(q), d)) >= Limit
              /\ rows' = rows \ {d}
              /\ RowsOf(q)' = RowsOf(q) \ {d}
              /\ \A p \in Partner \ {q} : RowsOf(p)' = RowsOf(p)
  <1> DEFINE d == Oldest(task[t].plan)
  <1>1. /\ task[t] \in TaskSlot /\ task[t].pc = "prune_remove" /\ TaskKnows(task[t])
    BY DEF PruneRemove, AtTask, IInv, TypeOK, TasksKnow
  <1>2. task[t].plan \in SUBSET Delivery /\ task[t].plan # {} /\ task[t].partner \in Partner
    BY <1>1 DEF TaskSlot, TaskKnows
  <1>3. \A e \in task[t].plan : e.at \in Nat
    BY <1>2, DeliveriesStamped DEF Stamped
  <1>4. d \in task[t].plan
    BY <1>2, <1>3, OldestExists
  <1>5. /\ Owner[d.hook] = task[t].partner
        /\ Cardinality(Later(RowsOf(task[t].partner), d)) >= Limit
    BY <1>1, <1>4 DEF TaskKnows
  <1>6. rows' = rows \ {d}
    BY DEF PruneRemove
  <1> HIDE DEF d
  <1>7. PICK q \in Partner, e \in Delivery : q = task[t].partner /\ e = d
    BY <1>2, <1>4
  <1>8. /\ RowsOf(q)' = RowsOf(q) \ {e}
        /\ \A p \in Partner \ {q} : RowsOf(p)' = RowsOf(p)
    BY <1>5, <1>6, <1>7 DEF RowsOf
  <1>9. QED
    BY <1>4, <1>5, <1>6, <1>7, <1>8 DEF d

(* Removing it leaves every other plan beyond the limit too, whatever the      *)
(* order in which prunings of the same partner interleave.                     *)
LEMMA PruneRemoveStep ==
    ASSUME IInv, NEW t \in Task, PruneRemove(t)
    PROVE  IInv'
  <1>1. /\ task[t] \in TaskSlot /\ task[t].pc = "prune_remove" /\ TaskKnows(task[t])
        /\ UNCHANGED <<hooks, issued, clock, req, faults, owed>>
    BY DEF PruneRemove, AtTask, IInv, TypeOK, TasksKnow
  <1>2. PICK q \in Partner, d \in Delivery :
              /\ task[t].partner = q /\ Oldest(task[t].plan) = d /\ d \in task[t].plan
              /\ Owner[d.hook] = q /\ Cardinality(Later(RowsOf(q), d)) >= Limit
              /\ rows' = rows \ {d}
              /\ RowsOf(q)' = RowsOf(q) \ {d}
              /\ \A p \in Partner \ {q} : RowsOf(p)' = RowsOf(p)
    BY PruneRemoveIs
  <1>3. PICK new \in TaskSlot :
          /\ Do(t, new)
          /\ \/ new.pc = "idle" /\ task[t].plan = {d}
             \/ /\ new.pc = "prune_remove" /\ new.plan = task[t].plan \ {d} /\ new.plan # {}
                /\ new.hook = task[t].hook /\ new.partner = q
    <2>1. CASE task[t].plan = {d}
      <3>1. Do(t, NoTask) /\ NoTask \in TaskSlot /\ NoTask.pc = "idle"
        BY <1>2, <2>1, SlotTypes DEF PruneRemove, Ended, NoTask
      <3>2. QED
        BY <2>1, <3>1
    <2>2. CASE task[t].plan # {d}
      <3> DEFINE new == [task[t] EXCEPT !.plan = @ \ {d}]
      <3>1. Do(t, new)
        BY <1>2, <2>2 DEF PruneRemove
      <3>2. new \in TaskSlot /\ new.pc = "prune_remove" /\ new.plan = task[t].plan \ {d}
            /\ new.hook = task[t].hook /\ new.partner = q
        BY <1>1, <1>2 DEF TaskSlot
      <3>3. task[t].plan \ {d} # {}
        BY <1>2, <2>2
      <3>4. QED
        BY <3>1, <3>2, <3>3
    <2>3. QED
      BY <2>1, <2>2
  <1>4. /\ task' \in [Task -> TaskSlot] /\ task'[t] = new
        /\ \A u \in Task \ {t} : task'[u] = task[u]
    BY <1>3, TaskMoved DEF IInv
  <1>5. TypeOK'
    BY <1>1, <1>2, <1>4 DEF IInv, TypeOK
  <1>6. Budget'
    <2>1. new.pc \in {"idle", "prune_remove"}
      BY <1>3
    <2>2. QED
      BY <1>1, <1>3, <2>1, BudgetKept
  <1>7. TasksKnow'
    <2>1. ASSUME NEW p \in Partner, NEW e \in Delivery, Cardinality(Later(RowsOf(p), e)) >= Limit
          PROVE  Cardinality(Later(RowsOf(p)', e)) >= Limit
      <3>1. CASE p = q
        <4>1. Stamped(RowsOf(q)) /\ d.at \in Nat /\ e.at \in Nat
          BY RowsStamped, BoundAssumption DEF IInv, Delivery
        <4>2. Cardinality(Later(RowsOf(q) \ {d}, e)) >= Limit
          BY <1>2, <2>1, <3>1, <4>1, BeyondStays
        <4>3. QED
          BY <1>2, <3>1, <4>2
      <3>2. CASE p # q
        BY <1>2, <2>1, <3>2
      <3>3. QED
        BY <3>1, <3>2
    <2>2. ASSUME NEW s \in TaskSlot, TaskKnows(s) PROVE TaskKnows(s)'
      <3>1. s.partner \in Partner /\ s.plan \in SUBSET Delivery
        BY DEF TaskSlot
      <3>2. QED
        BY <1>1, <2>1, <2>2, <3>1 DEF TaskKnows
    <2>3. TaskKnows(new)
      <3>1. new.pc = "prune_remove" => new.partner = task[t].partner /\ new.plan \subseteq task[t].plan
        BY <1>2, <1>3
      <3>2. new.pc \in {"idle", "prune_remove"}
        BY <1>3
      <3>3. QED
        BY <1>1, <1>3, <3>1, <3>2 DEF TaskKnows
    <2>4. ASSUME NEW u \in Task PROVE TaskKnows(task[u])'
      <3>1. PICK s \in TaskSlot : task'[u] = s /\ TaskKnows(s)
        BY <1>4, <2>3 DEF IInv, TasksKnow, TypeOK
      <3>2. TaskKnows(s)'
        BY <2>2, <3>1
      <3>3. QED
        BY <3>1, <3>2 DEF TaskKnows
    <2>5. QED
      BY <2>4 DEF TasksKnow
  <1>8. StampsUnique'
    <2>1. \A u \in Task : task'[u].pc = "insert" => task'[u] = task[u]
      BY <1>3, <1>4
    <2>2. StampsUnique /\ clock' = clock /\ \A e \in rows' : e \in rows
      BY <1>1, <1>2 DEF IInv
    <2>3. QED
      BY <2>1, <2>2, Zenon DEF StampsUnique
  <1>9. NothingForgotten'
    <2> SUFFICES ASSUME NEW p \in Partner, NEW e \in Excess(p)' \ owed'
                 PROVE  \E u \in Task : /\ task'[u].partner = p
                                        /\ \/ task'[u].pc = "prune_read"
                                           \/ task'[u].pc = "prune_remove" /\ e \in task'[u].plan
      BY DEF NothingForgotten
    <2>1. e \in Excess(p) /\ (p = q => e # d)
      <3>1. CASE p = q
        <4>1. Stamped(RowsOf(q)) /\ d.at \in Nat
          BY RowsStamped, BoundAssumption DEF IInv, Delivery
        <4>2. Newest(RowsOf(q) \ {d}) = Newest(RowsOf(q))
          BY <1>2, <4>1, RemovalKeepsNewest
        <4>3. QED
          BY <1>2, <3>1, <4>2 DEF Excess
      <3>2. CASE p # q
        BY <1>2, <3>2 DEF Excess
      <3>3. QED
        BY <3>1, <3>2
    <2>2. PICK u \in Task : /\ task[u].partner = p
                            /\ \/ task[u].pc = "prune_read"
                               \/ task[u].pc = "prune_remove" /\ e \in task[u].plan
      BY <1>1, <2>1 DEF IInv, NothingForgotten
    <2>3. CASE u # t
      BY <1>4, <2>2, <2>3
    <2>4. CASE u = t
      <3>1. p = q /\ e \in task[t].plan \ {d}
        BY <1>1, <1>2, <2>1, <2>2, <2>4
      <3>2. QED
        BY <1>3, <1>4, <3>1
    <2>5. QED
      BY <2>3, <2>4
  <1>10. QED
    BY <1>5, <1>6, <1>7, <1>8, <1>9 DEF IInv

(* What a task that gives up leaves beyond the limit is owed.                 *)
LEMMA TaskFailsStep ==
    ASSUME IInv, NEW t \in Task, TaskFails(t)
    PROVE  IInv'
  <1>1. /\ UNCHANGED <<hooks, issued, rows, clock, req>> /\ Do(t, NoTask)
        /\ faults' \in 0 .. MaxFaults
        /\ owed' = IF Prunes(task[t]) THEN owed \cup Excess(task[t].partner) ELSE owed
    BY BoundAssumption DEF TaskFails, Ended, IInv, TypeOK, Prunes
  <1>2. NoTask \in TaskSlot /\ NoTask.pc = "idle" /\ task[t] \in TaskSlot
    BY SlotTypes DEF NoTask, IInv, TypeOK
  <1>3. /\ task' \in [Task -> TaskSlot] /\ task'[t] = NoTask
        /\ \A u \in Task \ {t} : task'[u] = task[u]
    BY <1>1, <1>2, TaskMoved DEF IInv
  <1>4. TypeOK'
    <2>1. \A p : Excess(p) \in SUBSET Delivery
      BY DEF Excess, RowsOf, IInv, TypeOK
    <2>2. owed' \in SUBSET Delivery
      BY <1>1, <2>1 DEF IInv, TypeOK
    <2>3. QED
      BY <1>1, <1>3, <2>2 DEF IInv, TypeOK
  <1>5. Budget'
    BY <1>1, <1>2, BudgetKept
  <1>6. TasksKnow'
    <2> SUFFICES ASSUME NEW u \in Task PROVE TaskKnows(task[u])'
      BY DEF TasksKnow
    <2>1. CASE u = t
      BY <1>2, <1>3, <2>1 DEF TaskKnows
    <2>2. CASE u # t
      <3>1. task'[u] = task[u] /\ TaskKnows(task[u]) /\ rows' = rows /\ clock' = clock
        BY <1>1, <1>3, <2>2 DEF IInv, TasksKnow
      <3>2. QED
        BY <3>1 DEF TaskKnows, RowsOf
    <2>3. QED
      BY <2>1, <2>2
  <1>7. StampsUnique'
    <2>1. \A u \in Task : task'[u].pc = "insert" => task'[u] = task[u]
      BY <1>2, <1>3
    <2>2. QED
      BY <1>1, <2>1, StampsFrame
  <1>8. NothingForgotten'
    <2> SUFFICES ASSUME NEW p \in Partner, NEW d \in Excess(p)' \ owed'
                 PROVE  \E u \in Task : /\ task'[u].partner = p
                                        /\ \/ task'[u].pc = "prune_read"
                                           \/ task'[u].pc = "prune_remove" /\ d \in task'[u].plan
      BY DEF NothingForgotten
    <2>1. d \in Excess(p) \ owed
      BY <1>1 DEF Excess, RowsOf
    <2>2. PICK u \in Task : /\ task[u].partner = p
                            /\ \/ task[u].pc = "prune_read"
                               \/ task[u].pc = "prune_remove" /\ d \in task[u].plan
      BY <2>1 DEF IInv, NothingForgotten
    <2>3. u # t
      <3> SUFFICES ASSUME u = t PROVE FALSE
        OBVIOUS
      <3>1. Prunes(task[t]) /\ task[t].partner = p
        BY <2>2 DEF Prunes
      <3>2. d \in owed'
        BY <1>1, <2>1, <3>1
      <3>3. QED
        BY <3>2
    <2>4. QED
      BY <1>3, <2>2, <2>3
  <1>9. QED
    BY <1>4, <1>5, <1>6, <1>7, <1>8 DEF IInv

(* So is all that a crash leaves there.                                       *)
LEMMA CrashStep ==
    ASSUME IInv, Crash
    PROVE  IInv'
  <1>1. /\ UNCHANGED <<hooks, issued, rows, clock>> /\ faults' \in 0 .. MaxFaults
        /\ req' = [r \in Request |-> NoRequest] /\ task' = [t \in Task |-> NoTask]
        /\ owed' = owed \cup UNION {Excess(p) : p \in Partner}
    BY BoundAssumption DEF Crash, IInv, TypeOK
  <1>2. \A t \in Task : task'[t] = NoTask /\ NoTask.pc = "idle"
    BY <1>1 DEF NoTask
  <1>3. TypeOK'
    <2>1. \A p : Excess(p) \in SUBSET Delivery
      BY DEF Excess, RowsOf, IInv, TypeOK
    <2>2. owed' \in SUBSET Delivery
      BY <1>1, <2>1 DEF IInv, TypeOK
    <2>3. QED
      BY <1>1, <2>2, SlotTypes DEF IInv, TypeOK
  <1>4. Budget'
    <2>1. PostTasks' = {} /\ EmitTasks' = {}
      BY <1>2 DEF PostTasks, EmitTasks
    <2>2. Pending' = Cardinality(PostTasks') + Cardinality(Hook) * Cardinality(EmitTasks')
      BY DEF Pending, PostTasks, EmitTasks
    <2>3. Pending' = 0
      BY <2>1, <2>2, FS_EmptySet, FS_CardinalityType, FiniteAssumption
    <2>4. clock' \in Nat /\ clock' <= MaxStamp
      BY <1>1, BoundAssumption DEF IInv, TypeOK
    <2>5. \A c, x, m : c \in Nat /\ x = 0 /\ c <= m => c + x <= m
      OBVIOUS
    <2>6. QED
      BY <2>3, <2>4, <2>5, Zenon DEF Budget
  <1>5. TasksKnow'
    BY <1>2 DEF TasksKnow, TaskKnows
  <1>6. StampsUnique'
    <2>1. \A u \in Task : task'[u].pc = "insert" => task'[u] = task[u]
      BY <1>2
    <2>2. QED
      BY <1>1, <2>1, StampsFrame
  <1>7. NothingForgotten'
    <2> SUFFICES ASSUME NEW p \in Partner, NEW d \in Excess(p)', d \notin owed' PROVE FALSE
      BY DEF NothingForgotten
    <2>1. d \in Excess(p)
      BY <1>1 DEF Excess, RowsOf
    <2>2. QED
      BY <1>1, <2>1
  <1>8. QED
    BY <1>3, <1>4, <1>5, <1>6, <1>7 DEF IInv

(* A step that leaves everything as it was.                                   *)
LEMMA StutterStep ==
    ASSUME IInv, UNCHANGED vars
    PROVE  IInv'
  <1>1. LogUnchanged
    BY DEF vars, LogUnchanged
  <1>2. TypeOK'
    BY DEF vars, IInv, TypeOK
  <1>3. QED
    BY <1>1, <1>2, LogUnchangedStep

(* Every step preserves the invariant.                                        *)
LEMMA NextInv == IInv /\ [Next]_vars => IInv'
  <1> SUFFICES ASSUME IInv, [Next]_vars PROVE IInv'
    OBVIOUS
  <1> USE DEF IInv
  <1>1. CASE Register
    BY <1>1, RegisterStep, LogUnchangedStep
  <1>2. CASE Crash
    BY <1>2, CrashStep
  <1>3. ASSUME NEW r \in Request, Registry(r) \/ RequestFails(r) PROVE IInv'
    BY <1>3, RegistryStep, LogUnchangedStep
  <1>4. ASSUME NEW t \in Task, AskTest(t) \/ Emit(t) \/ Work(t) \/ TaskFails(t) PROVE IInv'
    BY <1>4, AskTestStep, EmitStep, TestFindStep, EmitReadStep, PostEndsStep, InsertRowStep,
       PruneReadStep, PruneRemoveStep, TaskFailsStep DEF Work
  <1>5. CASE UNCHANGED vars
    BY <1>5, StutterStep
  <1>6. QED
    BY <1>1, <1>2, <1>3, <1>4, <1>5 DEF Next

-----------------------------------------------------------------------------
(* The theorems.                                                              *)

(* The invariant holds in every reachable state.                              *)
THEOREM Inductive == Spec => []IInv
  <1>1. QED
    BY InitInv, NextInv, PTL DEF Spec

(* Every row, task and request keeps its shape: in particular no delivery is   *)
(* stamped beyond the bound, because a stamp was set aside for each.           *)
THEOREM TypeCorrect == Spec => []TypeOK
  <1>1. IInv => TypeOK
    BY DEF IInv
  <1>2. QED
    BY <1>1, Inductive, PTL

(* Whatever the interleaving of dispatches, failures and restarts, a row over *)
(* the limit has a pruning under way that has still to look or has it in its  *)
(* plan, unless a fault ended the one that should have removed it.            *)
THEOREM ExcessIsNeverForgotten == Spec => []NothingForgotten
  <1>1. IInv => NothingForgotten
    BY DEF IInv
  <1>2. QED
    BY <1>1, Inductive, PTL

-----------------------------------------------------------------------------
(* The refinement of RetainedLog.                                             *)

(* What each partner is shown: the log of RetainedLog.                        *)
Visible == [p \in Partner |-> Newest(RowsOf(p))]

(* Recording a delivery, however late, adds it to what its partner is shown.  *)
LEMMA RecordStep ==
    ASSUME IInv, NEW t \in Task, InsertRow(t)
    PROVE  \E p \in Partner, e \in Delivery : Visible' = [Visible EXCEPT ![p] = Newest(@ \cup {e})]
  <1>1. PICK e \in Delivery : /\ Owner[e.hook] = task[t].partner /\ rows' = rows \cup {e}
                              /\ task[t].partner \in Partner
    BY InsertRowIs
  <1>2. PICK q \in Partner : q = task[t].partner
    BY <1>1
  <1>3. Stamped(RowsOf(q)) /\ e.at \in Nat
    BY RowsStamped, BoundAssumption DEF IInv, Delivery
  <1>4. ASSUME NEW p \in Partner
        PROVE  Newest(RowsOf(p)') = IF p = q THEN Newest(Newest(RowsOf(q)) \cup {e})
                                             ELSE Newest(RowsOf(p))
    <2>1. CASE p = q
      <3>1. RowsOf(q)' = RowsOf(q) \cup {e}
        BY <1>1, <1>2 DEF RowsOf
      <3>2. QED
        BY <1>3, <2>1, <3>1, InsertOnNewest
    <2>2. CASE p # q
      <3>1. RowsOf(p)' = RowsOf(p)
        BY <1>1, <1>2, <2>2 DEF RowsOf
      <3>2. QED
        BY <2>2, <3>1
    <2>3. QED
      BY <2>1, <2>2
  <1>5. Visible' = [p \in Partner |-> Newest(RowsOf(p)')]
    BY DEF Visible, Newest, Later
  <1>6. [Visible EXCEPT ![q] = Newest(@ \cup {e})]
          = [p \in Partner |-> IF p = q THEN Newest(Newest(RowsOf(q)) \cup {e})
                                        ELSE Newest(RowsOf(p))]
    BY DEF Visible
  <1>7. QED
    BY <1>4, <1>5, <1>6

(* A pruning removes nothing that anyone is shown.                            *)
LEMMA RemoveStep ==
    ASSUME IInv, NEW t \in Task, PruneRemove(t)
    PROVE  Visible' = Visible
  <1>1. PICK q \in Partner, d \in Delivery :
              /\ Cardinality(Later(RowsOf(q), d)) >= Limit
              /\ RowsOf(q)' = RowsOf(q) \ {d}
              /\ \A p \in Partner \ {q} : RowsOf(p)' = RowsOf(p)
    BY PruneRemoveIs
  <1>2. Stamped(RowsOf(q)) /\ d.at \in Nat
    BY RowsStamped, BoundAssumption DEF IInv, Delivery
  <1>3. Newest(RowsOf(q) \ {d}) = Newest(RowsOf(q))
    BY <1>1, <1>2, RemovalKeepsNewest
  <1>4. \A p \in Partner : Newest(RowsOf(p)') = Newest(RowsOf(p))
    BY <1>1, <1>3
  <1>5. Visible' = [p \in Partner |-> Newest(RowsOf(p)')]
    BY DEF Visible, Newest, Later
  <1>6. QED
    BY <1>4, <1>5 DEF Visible

(* What everyone is shown depends on the recorded rows only.                  *)
LEMMA VisibleFrame ==
    ASSUME rows' = rows
    PROVE  Visible' = Visible
  BY DEF Visible, RowsOf, Newest, Later

(* Every step of the program records one delivery or shows nothing new.       *)
LEMMA VisibleStep ==
    ASSUME IInv, [Next]_vars
    PROVE  \/ Visible' = Visible
           \/ \E p \in Partner, e \in Delivery : Visible' = [Visible EXCEPT ![p] = Newest(@ \cup {e})]
  <1> USE DEF IInv
  <1>1. CASE Register \/ Crash \/ UNCHANGED vars
    <2>1. rows' = rows
      BY <1>1 DEF Register, Crash, vars
    <2>2. QED
      BY <2>1, VisibleFrame
  <1>2. ASSUME NEW r \in Request, Registry(r) \/ RequestFails(r) PROVE Visible' = Visible
    <2>1. rows' = rows
      BY <1>2, RegistryStep DEF LogUnchanged
    <2>2. QED
      BY <2>1, VisibleFrame
  <1>3. ASSUME NEW t \in Task, \/ AskTest(t) \/ Emit(t) \/ TaskFails(t) \/ TestFind(t)
                               \/ EmitRead(t) \/ PostEnds(t) \/ PruneRead(t)
        PROVE  Visible' = Visible
    <2>1. rows' = rows
      BY <1>3 DEF AskTest, Emit, TaskFails, TestFind, EmitRead, PostEnds, PruneRead
    <2>2. QED
      BY <2>1, VisibleFrame
  <1>4. ASSUME NEW t \in Task, PruneRemove(t) PROVE Visible' = Visible
    BY <1>4, RemoveStep
  <1>5. ASSUME NEW t \in Task, InsertRow(t)
        PROVE  \E p \in Partner, e \in Delivery : Visible' = [Visible EXCEPT ![p] = Newest(@ \cup {e})]
    BY <1>5, RecordStep
  <1>6. QED
    BY <1>1, <1>2, <1>3, <1>4, <1>5 DEF Next, Work

(* The log that is kept implements the log that is promised: it shows each    *)
(* partner the newest Limit deliveries ever recorded for it, and prunings,    *)
(* failures and restarts never show.                                          *)
THEOREM LogIsRetained == Spec => LogRetained
  <1>1. \A S : Shown!Newest(S) = Newest(S)
    <2>1. \A S : Shown!Cardinality(S) = Cardinality(S)
      BY Zenon DEF Shown!Cardinality, Cardinality
    <2>2. QED
      BY <2>1 DEF Shown!Newest, Shown!Later, Newest, Later
  <1>2. Init => Shown!Init
    <2> SUFFICES ASSUME Init PROVE Visible = [p \in Partner |-> {}]
      BY DEF Shown!Init, Visible
    <2>1. \A p : Newest(RowsOf(p)) = {}
      BY DEF Init, RowsOf, Newest
    <2>2. QED
      BY <2>1 DEF Visible
  <1>3. IInv /\ [Next]_vars => [Shown!Next]_Visible
    <2> SUFFICES ASSUME IInv, [Next]_vars PROVE [Shown!Next]_Visible
      OBVIOUS
    <2>1. CASE Visible' = Visible
      BY <2>1
    <2>2. ASSUME NEW p \in Partner, NEW e \in Delivery,
                 Visible' = [Visible EXCEPT ![p] = Newest(@ \cup {e})]
          PROVE  Shown!Next
      BY <1>1, <2>2 DEF Shown!Next, Shown!Record, Visible
    <2>3. QED
      BY <2>1, <2>2, VisibleStep
  <1>4. QED
    BY <1>2, <1>3, Inductive, PTL DEF Spec, LogRetained, Shown!Spec, Visible

-----------------------------------------------------------------------------
(* What brings an endpoint back.                                              *)

(* MayEnable, of a slot.                                                      *)
Enables(s, h) ==
    /\ s.hook = h
    /\ \/ s.pc \in {"patch_find", "patch_get"} /\ s.patch.active = TRUE
       \/ s.pc = "patch_load" /\ s.rec.active
       \/ s.pc = "patch_save" /\ s.rec.active /\ (s.insert \/ "active" \in s.dirty)

(* One request moves, and stays unable to enable h.                           *)
LEMMA QuietRequest ==
    ASSUME TypeOK, NEW h \in Hook, Silent(h), NEW r \in Request, NEW new,
           req' = [req EXCEPT ![r] = new], ~Enables(new, h),
           hooks'[h] # Absent => ~hooks'[h].active,
           UNCHANGED <<issued, task>>
    PROVE  Silent(h)'
  <1>1. req'[r] = new /\ \A u \in Request \ {r} : req'[u] = req[u]
    BY DEF TypeOK
  <1>2. ASSUME NEW u \in Request
        PROVE  ~MayEnable(u, h)'
    <2>1. CASE u = r
      BY <1>1, <2>1 DEF MayEnable, Enables
    <2>2. CASE u # r
      BY <1>1, <2>2 DEF MayEnable, Silent
    <2>3. QED
      BY <2>1, <2>2
  <1>3. QED
    BY <1>2 DEF Silent

(* One task moves, and does not post an event to h.                           *)
LEMMA QuietTask ==
    ASSUME TypeOK, NEW h \in Hook, Silent(h), NEW t \in Task, NEW new,
           task' = [task EXCEPT ![t] = new],
           new.pc # "post" \/ new.op # "emit" \/ new.hook # h,
           UNCHANGED <<hooks, issued, req>>
    PROVE  Silent(h)'
  <1>1. task'[t] = new /\ \A u \in Task \ {t} : task'[u] = task[u]
    BY DEF TypeOK
  <1>2. \A u \in Task : task'[u].hook = h /\ task'[u].op = "emit" => task'[u].pc # "post"
    BY <1>1 DEF Silent
  <1>3. QED
    BY <1>2 DEF Silent, MayEnable

(* A PATCH reads, and what it read of a row that is off is off.               *)
LEMMA SilentPatch ==
    ASSUME TypeOK, NEW h \in Hook, Silent(h), NEW r \in Request,
           PatchFind(r) \/ DeleteFind(r) \/ PatchGet(r) \/ PatchLoad(r)
    PROVE  Silent(h)'
  <1>1. /\ req[r] \in RequestSlot /\ ~MayEnable(r, h)
        /\ UNCHANGED <<hooks, issued, task>>
        /\ hooks' [h] # Absent => ~hooks'[h].active
    BY DEF TypeOK, Silent, PatchFind, DeleteFind, Find, PatchGet, PatchLoad
  <1>2. NoRequest.pc = "idle" /\ ~Enables(NoRequest, h)
    BY DEF NoRequest, Enables
  <1>3. CASE Answered(r)
    BY <1>1, <1>2, <1>3, QuietRequest DEF Answered, Ask
  <1>4. CASE (PatchFind(r) \/ DeleteFind(r)) /\ ~Answered(r)
    <2>1. PICK pc : pc = IF req[r].pc = "patch_find" THEN "patch_get" ELSE "delete"
      OBVIOUS
    <2>2. PICK new : new = [req[r] EXCEPT !.pc = pc]
      OBVIOUS
    <2>3. req' = [req EXCEPT ![r] = new] /\ req[r].pc \in {"patch_find", "delete_find"}
      BY <1>4, <2>1, <2>2 DEF PatchFind, DeleteFind, Find, Ask, AtRequest
    <2>4. new.pc = pc /\ new.hook = req[r].hook /\ new.patch = req[r].patch
      BY <1>1, <2>2 DEF RequestSlot
    <2>5. ~Enables(new, h)
      BY <1>1, <2>1, <2>3, <2>4 DEF Enables, MayEnable
    <2>6. QED
      BY <1>1, <2>3, <2>5, QuietRequest
  <1>5. CASE PatchGet(r) /\ ~Answered(r)
    <2>1. PICK row : row = hooks[req[r].hook]
      OBVIOUS
    <2>2. PICK rec : rec = Merge(row, req[r].patch)
      OBVIOUS
    <2>3. PICK new : new = [req[r] EXCEPT !.pc = "patch_load", !.rec = rec]
      OBVIOUS
    <2>4. req' = [req EXCEPT ![r] = new] /\ req[r].pc = "patch_get" /\ row # Absent
      BY <1>5, <2>1, <2>2, <2>3 DEF PatchGet, Ask, AtRequest
    <2>5. new.pc = "patch_load" /\ new.hook = req[r].hook /\ new.rec = rec
      BY <1>1, <2>3 DEF RequestSlot
    <2>6. ASSUME req[r].hook = h
          PROVE  ~rec.active
      <3>1. row \in HookRow /\ row.active = FALSE /\ req[r].patch \in HookPatch
        BY <1>1, <2>1, <2>4, <2>6 DEF TypeOK, HookRow, RequestSlot
      <3>2. req[r].patch.active # TRUE
        BY <1>1, <2>4, <2>6 DEF MayEnable
      <3>3. DOMAIN row = {"active", "events"}
        BY <3>1 DEF HookRow
      <3>4. rec.active = IF req[r].patch.active = Unset THEN row.active ELSE req[r].patch.active
        BY <2>2, <3>3 DEF Merge
      <3>5. QED
        BY <3>1, <3>2, <3>4 DEF HookPatch
    <2>7. ~Enables(new, h)
      BY <2>5, <2>6 DEF Enables
    <2>8. QED
      BY <1>1, <2>4, <2>7, QuietRequest
  <1>6. CASE PatchLoad(r)
    <2>1. PICK row : row = hooks[req[r].hook]
      OBVIOUS
    <2>2. PICK insert, dirty : insert = (row = Absent)
                               /\ dirty = IF row = Absent THEN {} ELSE Dirty(req[r].rec, row)
      OBVIOUS
    <2>3. PICK new : new = [req[r] EXCEPT !.pc = "patch_save", !.insert = insert, !.dirty = dirty]
      OBVIOUS
    <2>4. req' = [req EXCEPT ![r] = new] /\ req[r].pc = "patch_load"
      BY <1>6, <2>1, <2>2, <2>3 DEF PatchLoad, Ask, AtRequest
    <2>5. new.pc = "patch_save" /\ new.hook = req[r].hook /\ new.rec = req[r].rec
      BY <1>1, <2>3 DEF RequestSlot
    <2>6. ~Enables(new, h)
      BY <1>1, <2>4, <2>5 DEF Enables, MayEnable
    <2>7. QED
      BY <1>1, <2>4, <2>6, QuietRequest
  <1>7. QED
    BY <1>3, <1>4, <1>5, <1>6

(* What a PATCH writes over an endpoint that is off leaves it off.            *)
LEMMA SilentWrite ==
    ASSUME TypeOK, NEW h \in Hook, Silent(h), NEW r \in Request, PatchSave(r) \/ Delete(r)
    PROVE  Silent(h)'
  <1>1. req[r] \in RequestSlot /\ ~MayEnable(r, h) /\ hooks = [g \in Hook |-> hooks[g]]
    BY DEF TypeOK, Silent
  <1>2. /\ req' = [req EXCEPT ![r] = NoRequest] /\ UNCHANGED <<issued, task>>
    BY DEF PatchSave, Delete, Answered, Ask
  <1>3. ~Enables(NoRequest, h)
    BY DEF NoRequest, Enables
  <1>4. hooks'[h] # Absent => ~hooks'[h].active
    <2>1. CASE hooks'[h] = hooks[h]
      BY <2>1 DEF Silent
    <2>2. CASE hooks'[h] # hooks[h] /\ Delete(r)
      BY <1>1, <2>2 DEF Delete
    <2>3. CASE hooks'[h] # hooks[h] /\ PatchSave(r)
      <3>1. /\ req[r].pc = "patch_save" /\ req[r].hook = h
            /\ req[r].insert = (hooks[h] = Absent)
            /\ hooks'[h] = IF req[r].insert THEN req[r].rec
                           ELSE Written(hooks[h], req[r].rec, req[r].dirty)
        BY <1>1, <2>3 DEF PatchSave, AtRequest
      <3>2. CASE req[r].insert
        BY <1>1, <3>1, <3>2 DEF MayEnable
      <3>3. CASE ~req[r].insert
        <4>1. hooks[h] \in HookRow /\ hooks[h].active = FALSE
          BY <3>1, <3>3 DEF TypeOK, Silent, HookRow
        <4>2. DOMAIN hooks[h] = {"active", "events"}
          BY <4>1 DEF HookRow
        <4>3. hooks'[h].active = IF "active" \in req[r].dirty THEN req[r].rec.active
                                 ELSE hooks[h].active
          BY <3>1, <3>3, <4>2 DEF Written
        <4>4. "active" \in req[r].dirty => ~req[r].rec.active
          BY <1>1, <3>1 DEF MayEnable
        <4>5. QED
          BY <4>1, <4>3, <4>4
      <3>4. QED
        BY <3>2, <3>3
    <2>4. QED
      BY <2>1, <2>2, <2>3
  <1>5. QED
    BY <1>2, <1>3, <1>4, QuietRequest

(* A PATCH that does not ask for it, and a DELETE, begin.                     *)
LEMMA SilentAsk ==
    ASSUME TypeOK, NEW h \in Hook, Silent(h), NEW r \in Request, AskPatch(r) \/ AskDelete(r)
    PROVE  \/ Silent(h)'
           \/ req[r].pc = "idle" /\ req'[r].hook = h /\ req'[r].patch.active = TRUE
  <1>1. PICK new : /\ req' = [req EXCEPT ![r] = new] /\ new.pc \in {"patch_find", "delete_find"}
                   /\ req[r].pc = "idle"
    <2>1. CASE AskPatch(r)
      <3>1. PICK g \in issued, patch \in HookPatch :
              req' = [req EXCEPT ![r] = [NoRequest EXCEPT !.pc = "patch_find", !.hook = g,
                                                          !.patch = patch]]
        BY <2>1 DEF AskPatch, Ask
      <3>2. [NoRequest EXCEPT !.pc = "patch_find", !.hook = g, !.patch = patch].pc = "patch_find"
        BY DEF NoRequest
      <3>3. QED
        BY <2>1, <3>1, <3>2 DEF AskPatch, AtRequest
    <2>2. CASE AskDelete(r)
      <3>1. PICK g \in issued :
              req' = [req EXCEPT ![r] = [NoRequest EXCEPT !.pc = "delete_find", !.hook = g]]
        BY <2>2 DEF AskDelete, Ask
      <3>2. [NoRequest EXCEPT !.pc = "delete_find", !.hook = g].pc = "delete_find"
        BY DEF NoRequest
      <3>3. QED
        BY <2>2, <3>1, <3>2 DEF AskDelete, AtRequest
    <2>3. QED
      BY <2>1, <2>2
  <1>2. req'[r] = new
    BY <1>1 DEF TypeOK
  <1>3. UNCHANGED <<hooks, issued, task>> /\ (hooks'[h] # Absent => ~hooks'[h].active)
    BY DEF AskPatch, AskDelete, Silent
  <1>4. CASE ~Enables(new, h)
    BY <1>1, <1>3, <1>4, QuietRequest
  <1>5. CASE Enables(new, h)
    BY <1>1, <1>2, <1>5 DEF Enables
  <1>6. QED
    BY <1>4, <1>5

(* Where a task that moves on its own goes.                                   *)
LEMMA TaskGoes ==
    ASSUME TypeOK, NEW t \in Task, AskTest(t) \/ Emit(t) \/ Work(t) \/ TaskFails(t),
           ~EmitRead(t)
    PROVE  \E new :
             /\ task' = [task EXCEPT ![t] = new]
             /\ \/ new.pc \notin {"test_find", "post"}
                \/ new.pc = "test_find" /\ new.op = "test"
                \/ new.pc = "post" /\ task[t].pc = "test_find" /\ new.op = task[t].op
  <1>1. task[t] \in TaskSlot /\ NoTask.pc = "idle"
    BY DEF TypeOK, NoTask
  <1>2. CASE Ended(t)
    BY <1>1, <1>2 DEF Ended, Do
  <1>3. CASE AskTest(t)
    <2>1. PICK g : task' = [task EXCEPT ![t] =
                      [NoTask EXCEPT !.pc = "test_find", !.op = "test", !.hook = g,
                                     !.partner = Owner[g]]]
      BY <1>3 DEF AskTest, Do
    <2>2. [NoTask EXCEPT !.pc = "test_find", !.op = "test", !.hook = g,
                         !.partner = Owner[g]].pc = "test_find"
          /\ [NoTask EXCEPT !.pc = "test_find", !.op = "test", !.hook = g,
                            !.partner = Owner[g]].op = "test"
      BY DEF NoTask
    <2>3. QED
      BY <2>1, <2>2
  <1>4. CASE Emit(t)
    <2>1. PICK p, e : task' = [task EXCEPT ![t] =
                         [NoTask EXCEPT !.pc = "emit_read", !.op = "emit", !.partner = p,
                                        !.event = e]]
      BY <1>4 DEF Emit, Do
    <2>2. [NoTask EXCEPT !.pc = "emit_read", !.op = "emit", !.partner = p,
                         !.event = e].pc = "emit_read"
      BY DEF NoTask
    <2>3. QED
      BY <2>1, <2>2
  <1>5. CASE TestFind(t) /\ ~Ended(t)
    <2>1. task' = [task EXCEPT ![t] = [task[t] EXCEPT !.pc = "post"]]
          /\ task[t].pc = "test_find"
      BY <1>5 DEF TestFind, Do, AtTask
    <2>2. /\ [task[t] EXCEPT !.pc = "post"].pc = "post"
          /\ [task[t] EXCEPT !.pc = "post"].op = task[t].op
      BY <1>1 DEF TaskSlot
    <2>3. QED
      BY <2>1, <2>2
  <1>6. CASE PostEnds(t)
    <2>1. PICK at : task' = [task EXCEPT ![t] = [task[t] EXCEPT !.pc = "insert", !.at = at]]
      BY <1>6 DEF PostEnds, Do
    <2>2. [task[t] EXCEPT !.pc = "insert", !.at = at].pc = "insert"
      BY <1>1 DEF TaskSlot
    <2>3. QED
      BY <2>1, <2>2
  <1>7. CASE InsertRow(t)
    <2>1. task' = [task EXCEPT ![t] = [task[t] EXCEPT !.pc = "prune_read"]]
      BY <1>7 DEF InsertRow, Do
    <2>2. [task[t] EXCEPT !.pc = "prune_read"].pc = "prune_read"
      BY <1>1 DEF TaskSlot
    <2>3. QED
      BY <2>1, <2>2
  <1>8. CASE PruneRead(t) /\ ~Ended(t)
    <2>1. PICK plan : task' = [task EXCEPT ![t] =
                         [task[t] EXCEPT !.pc = "prune_remove", !.plan = plan]]
      BY <1>8 DEF PruneRead, Do
    <2>2. [task[t] EXCEPT !.pc = "prune_remove", !.plan = plan].pc = "prune_remove"
      BY <1>1 DEF TaskSlot
    <2>3. QED
      BY <2>1, <2>2
  <1>9. CASE PruneRemove(t) /\ ~Ended(t)
    <2>1. PICK plan : /\ task' = [task EXCEPT ![t] = [task[t] EXCEPT !.plan = plan]]
                      /\ task[t].pc = "prune_remove"
      BY <1>9 DEF PruneRemove, Do, AtTask
    <2>2. [task[t] EXCEPT !.plan = plan].pc = "prune_remove"
      BY <1>1, <2>1 DEF TaskSlot
    <2>3. QED
      BY <2>1, <2>2
  <1>10. QED
    BY <1>2, <1>3, <1>4, <1>5, <1>6, <1>7, <1>8, <1>9 DEF Work, TaskFails

(* emit starts posting only to endpoints that it found active.                *)
LEMMA EmitGoes ==
    ASSUME TypeOK, NEW t \in Task, EmitRead(t), NEW x \in Task
    PROVE  \/ task'[x] \in {task[x], NoTask}
           \/ /\ task'[x].pc = "post"
              /\ hooks[task'[x].hook] # Absent /\ hooks[task'[x].hook].active
  <1> DEFINE T == {h \in Hook : /\ hooks[h] # Absent /\ Owner[h] = task[t].partner
                                /\ hooks[h].active /\ task[t].event \in hooks[h].events}
             free == {u \in Task : task[u].pc = "idle"} \cup {t}
             Post(h) == [NoTask EXCEPT !.pc = "post", !.op = "emit", !.hook = h,
                                       !.partner = Owner[h]]
  <1>1. Start(T, t)
    BY DEF EmitRead
  <1>2. PICK f \in [T -> free] :
           task' = [u \in Task |->
                      IF \E h \in T : f[h] = u
                      THEN LET h == CHOOSE h \in T : f[h] = u IN Post(h)
                      ELSE IF u = t THEN NoTask ELSE task[u]]
    BY <1>1 DEF Start
  <1>3. CASE \E h \in T : f[h] = x
    <2> DEFINE g == CHOOSE h \in T : f[h] = x
    <2>1. g \in T
      BY <1>3
    <2>2. task'[x] = Post(g)
      BY <1>2, <1>3
    <2>3. task'[x].hook = g /\ task'[x].pc = "post"
      BY <2>2 DEF NoTask
    <2>4. hooks[g] # Absent /\ hooks[g].active
      BY <2>1
    <2>5. QED
      BY <2>3, <2>4
  <1>4. CASE ~\E h \in T : f[h] = x
    <2>1. task'[x] = IF x = t THEN NoTask ELSE task[x]
      BY <1>2, <1>4
    <2>2. QED
      BY <2>1
  <1>5. QED
    BY <1>3, <1>4

(* What POST .../test looks up is not an event.                               *)
TestsAreTests == \A t \in Task : task[t].pc = "test_find" => task[t].op = "test"

LEMMA TestsStep ==
    ASSUME TypeOK, TestsAreTests, [Next]_vars
    PROVE  TestsAreTests'
  <1>1. NoTask.pc = "idle" /\ task = [t \in Task |-> task[t]]
    BY DEF NoTask, TypeOK
  <1>2. CASE UNCHANGED task
    BY <1>2 DEF TestsAreTests
  <1>3. CASE Crash
    BY <1>1, <1>3 DEF Crash, TestsAreTests
  <1>4. ASSUME NEW t \in Task, AskTest(t) \/ Emit(t) \/ Work(t) \/ TaskFails(t)
        PROVE  TestsAreTests'
    <2>1. CASE EmitRead(t)
      <3>1. ASSUME NEW u \in Task, task'[u].pc = "test_find"
            PROVE  task'[u].op = "test"
        <4>1. \/ task'[u] \in {task[u], NoTask}
              \/ task'[u].pc = "post"
          BY <2>1, EmitGoes
        <4>2. task'[u] = task[u]
          BY <1>1, <3>1, <4>1
        <4>3. QED
          BY <3>1, <4>2 DEF TestsAreTests
      <3>2. QED
        BY <3>1 DEF TestsAreTests
    <2>2. CASE ~EmitRead(t)
      <3>1. PICK new : /\ task' = [task EXCEPT ![t] = new]
                       /\ new.pc = "test_find" => new.op = "test"
        BY <1>4, <2>2, TaskGoes
      <3>2. task'[t] = new /\ \A u \in Task \ {t} : task'[u] = task[u]
        BY <1>1, <3>1
      <3>3. QED
        BY <3>1, <3>2 DEF TestsAreTests
    <2>3. QED
      BY <2>1, <2>2
  <1>5. ASSUME NEW r \in Request, Registry(r) \/ RequestFails(r)
        PROVE  UNCHANGED task
    BY <1>5 DEF Registry, AskPatch, AskDelete, PatchFind, DeleteFind, Find, PatchGet, PatchLoad,
                PatchSave, Delete, RequestFails
  <1>6. QED
    BY <1>2, <1>3, <1>4, <1>5 DEF Next, Register, vars

(* So no task begins to post an event to an endpoint that is silent.          *)
LEMMA SilentTask ==
    ASSUME TypeOK, TestsAreTests, NEW h \in Hook, Silent(h), NEW t \in Task,
           AskTest(t) \/ Emit(t) \/ Work(t) \/ TaskFails(t)
    PROVE  Silent(h)'
  <1>1. NoTask.pc = "idle"
    BY DEF NoTask
  <1>2. UNCHANGED <<hooks, issued, req>>
    BY DEF AskTest, Emit, Work, TestFind, EmitRead, PostEnds, InsertRow, PruneRead, PruneRemove,
           TaskFails
  <1>3. CASE EmitRead(t)
    <2>1. ASSUME NEW u \in Task, task'[u].hook = h, task'[u].op = "emit"
          PROVE  task'[u].pc # "post"
      <3>1. \/ task'[u] \in {task[u], NoTask}
            \/ hooks[task'[u].hook] # Absent /\ hooks[task'[u].hook].active
        BY <1>3, EmitGoes
      <3>2. QED
        BY <1>1, <2>1, <3>1 DEF Silent
    <2>2. QED
      BY <1>2, <2>1 DEF Silent, MayEnable
  <1>4. CASE ~EmitRead(t)
    <2>1. PICK new : /\ task' = [task EXCEPT ![t] = new]
                     /\ new.pc = "post" => task[t].pc = "test_find" /\ new.op = task[t].op
      BY <1>4, TaskGoes
    <2>2. new.pc = "post" => new.op = "test"
      BY <2>1 DEF TestsAreTests
    <2>3. QED
      BY <1>2, <2>1, <2>2, QuietTask
  <1>5. QED
    BY <1>3, <1>4

(* Every step leaves a silent endpoint silent, or is a PATCH that asks for it. *)
LEMMA SilentStep ==
    ASSUME TypeOK, TestsAreTests, NEW h \in Hook, Silent(h), [Next]_vars
    PROVE  \/ Silent(h)'
           \/ \E r \in Request : /\ req[r].pc = "idle" /\ req'[r].hook = h
                                 /\ req'[r].patch.active = TRUE
  <1>1. CASE UNCHANGED vars
    BY <1>1 DEF vars, Silent, MayEnable
  <1>2. CASE Register
    <2>1. /\ hooks'[h] = hooks[h] /\ issued \subseteq issued' /\ UNCHANGED <<req, task>>
      BY <1>2 DEF Register, Silent, TypeOK
    <2>2. QED
      BY <2>1 DEF Silent, MayEnable
  <1>3. CASE Crash
    <2>1. NoRequest.pc = "idle" /\ NoTask.pc = "idle"
      BY DEF NoRequest, NoTask
    <2>2. QED
      BY <1>3, <2>1 DEF Crash, Silent, MayEnable
  <1>4. ASSUME NEW r \in Request, Registry(r)
        PROVE  \/ Silent(h)'
               \/ req[r].pc = "idle" /\ req'[r].hook = h /\ req'[r].patch.active = TRUE
    BY <1>4, SilentAsk, SilentPatch, SilentWrite DEF Registry
  <1>5. ASSUME NEW r \in Request, RequestFails(r)
        PROVE  Silent(h)'
    <2>1. /\ req' = [req EXCEPT ![r] = NoRequest] /\ UNCHANGED <<hooks, issued, task>>
      BY <1>5 DEF RequestFails, Answered, Ask
    <2>2. ~Enables(NoRequest, h)
      BY DEF NoRequest, Enables
    <2>3. hooks'[h] # Absent => ~hooks'[h].active
      BY <2>1 DEF Silent
    <2>4. QED
      BY <2>1, <2>2, <2>3, QuietRequest
  <1>6. ASSUME NEW t \in Task, AskTest(t) \/ Emit(t) \/ Work(t) \/ TaskFails(t)
        PROVE  Silent(h)'
    BY <1>6, SilentTask
  <1>7. QED
    BY <1>1, <1>2, <1>3, <1>4, <1>5, <1>6 DEF Next

(* An endpoint that was deleted or switched off stays silent, whatever        *)
(* requests and events overlap: only a PATCH that was in flight already, or   *)
(* one that asks for it, brings it back (webhooks.controller.ts,              *)
(* store.service.ts).                                                         *)
THEOREM EndpointsSettle == Spec => EndpointSettles
  <1>1. Init => TestsAreTests
    <2>1. NoTask.pc = "idle"
      BY DEF NoTask
    <2>2. QED
      BY <2>1 DEF Init, TestsAreTests
  <1>2. IInv /\ TestsAreTests /\ [Next]_vars => TestsAreTests'
    BY TestsStep DEF IInv
  <1>3. IInv /\ TestsAreTests /\ [Next]_vars =>
           [\A h \in Hook : Silent(h) =>
              \/ Silent(h)'
              \/ \E r \in Request : /\ req[r].pc = "idle" /\ req'[r].hook = h
                                    /\ req'[r].patch.active = TRUE]_vars
    BY SilentStep DEF IInv
  <1>4. QED
    BY <1>1, <1>2, <1>3, Inductive, PTL DEF Spec, EndpointSettles

=============================================================================
