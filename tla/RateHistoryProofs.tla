-------------------------- MODULE RateHistoryProofs --------------------------
(***************************************************************************)
(* Theorems about RateHistory, for any number of instances, builds and     *)
(* boots, any vaults, and recordings that take and timers that are late by *)
(* up to half an hour: what is in the table of rates was observed, it is   *)
(* there once an hour, no two whole hours in a row go without, averages    *)
(* are averages of what was, a table that stands still has no trend, the   *)
(* comparisons of a partner's positions add up, and every answer has the   *)
(* shape that is documented.                                               *)
(*                                                                         *)
(* The first rest on IInv: Table, about the rows, and InstanceOK, about    *)
(* how far every instance is.  The heart of it is that a recording that    *)
(* began at `at` is followed by one that begins within two hours, and that *)
(* every window of two hours since `clean` that ended by then has a row.   *)
(*                                                                         *)
(* The next two rest on RInv: every row is explained by a state of the     *)
(* table of vaults that was read in its time, and of which the hour has    *)
(* every active vault; rows of one hour that began at different times are  *)
(* explained by different states.  The last two are about the book, under  *)
(* any table of vaults, and about series of rates: Typed, the ranges of    *)
(* the state, is the last part of the invariant.                           *)
(***************************************************************************)
EXTENDS RateHistory, SumTheorems

(* The row says what its vault had when it says.                              *)
Observed(r) ==
    \E h \in Had :
        /\ h[1] >= r.at /\ h[1] <= r.at + Lag
        /\ h[2].id = r.vault /\ h[2].apy = r.apy /\ h[2].alloc = r.alloc
        /\ h[2].status = "active"

IsRow(r) == r.at \in Nat /\ r.bucket = HourBucket(r.at) /\ Observed(r)

OncePerHour(rows) == \A r, s \in rows : SameHour(r, s) => r = s

Identified(vs) == \A v, w \in vs : v.id = w.id => v = w

Table ==
    /\ now \in Nat
    /\ IsFiniteSet(vaults) /\ Identified(vaults) /\ \A v \in vaults : <<now, v>> \in Had
    /\ IsFiniteSet(snaps) /\ OncePerHour(snaps) /\ \A r \in snaps : IsRow(r)

(* The hour that begins at h * Hour, or the next, has a row.                  *)
Seen(h) == \E r \in snaps : r.bucket \in {h, h + 1}

IsInstance(s) ==
    s \in [pc : {"down", "save", "drop", "select", "insert", "up"}, build : {s.build},
           at : Nat, rows : {s.rows}, next : {s.next}, armed : BOOLEAN, clean : Nat]

Seeding(s) ==
    s.pc \in {"save", "drop"} => s.at = now /\ s.build \in Builds /\ s.armed = FALSE

(* A recording is under way.                                                  *)
Recording(s) ==
    s.pc \in {"select", "insert"} =>
        /\ s.at <= now /\ now <= s.at + Lag
        /\ s.armed => s.next = s.at + Hour
        /\ \A h \in Nat : s.clean <= h * Hour /\ (h + 2) * Hour <= s.at => Seen(h)

(* What it is about to insert.                                                *)
Inserting(s) ==
    s.pc = "insert" =>
        /\ s.rows # {} /\ OncePerHour(s.rows)
        /\ \A r \in s.rows : r.at = s.at /\ IsRow(r)

(* Between recordings, of which the last one was not before `clean` or began  *)
(* and failed then.                                                           *)
Resting(s) ==
    s.pc = "up" =>
        /\ s.armed /\ s.next \in Nat /\ now <= s.next + Lag /\ s.next <= s.at + Hour + Lag
        /\ \/ s.next <= s.clean + Hour
           \/ \A h \in Nat : s.clean <= h * Hour /\ h * Hour <= s.at => Seen(h)

InstanceOK(s) ==
    IsInstance(s) /\ IsFiniteSet(s.rows) /\ Seeding(s) /\ Recording(s) /\ Inserting(s)
      /\ Resting(s)

Instances ==
    inst = [i \in Instance |-> inst[i]] /\ \A i \in Instance : InstanceOK(inst[i])

IInv == Table /\ Instances

-----------------------------------------------------------------------------
(* Of arithmetic and sets.                                                    *)

LEMMA HadIs ==
    /\ \A t, v, vs : <<t, vs>> \in held /\ v \in vs => <<t, v>> \in Had
    /\ \A t, v, vs : <<t, vs>> \in held' /\ v \in vs => <<t, v>> \in Had'
    /\ \A h \in Had : \E k \in held : h[1] = k[1] /\ h[2] \in k[2]
  <1>1. ASSUME NEW t, NEW v, NEW vs, <<t, vs>> \in held, v \in vs PROVE <<t, v>> \in Had
    <2>1. <<t, v>> \in {<<(<<t, vs>>)[1], w>> : w \in (<<t, vs>>)[2]}
      BY <1>1
    <2>2. QED
      BY <1>1, <2>1 DEF Had
  <1>2. ASSUME NEW t, NEW v, NEW vs, <<t, vs>> \in held', v \in vs PROVE <<t, v>> \in Had'
    <2>1. <<t, v>> \in {<<(<<t, vs>>)[1], w>> : w \in (<<t, vs>>)[2]}
      BY <1>2
    <2>2. QED
      BY <1>2, <2>1 DEF Had
  <1>3. ASSUME NEW h \in Had PROVE \E k \in held : h[1] = k[1] /\ h[2] \in k[2]
    <2>1. PICK k \in held : h \in {<<k[1], v>> : v \in k[2]}
      BY DEF Had
    <2>2. QED
      BY <2>1
  <1>4. QED
    BY <1>1, <1>2, <1>3

LEMMA Lengths == Hour \in Nat \ {0} /\ Lag \in Nat /\ 2 * Lag <= Hour /\ Lag < Hour
  BY WindowAssumption, LagAssumption

(* A time within two hours belongs to the first or to the second.             *)
LEMMA TwoHours ==
    ASSUME NEW t \in Nat, NEW h \in Nat, h * Hour <= t, t < (h + 2) * Hour
    PROVE  HourBucket(t) \in {h, h + 1}
  <1>1. PICK q \in Nat : q = t \div Hour /\ q * Hour <= t /\ t < (q + 1) * Hour
    BY Lengths
  <1>2. q >= h
    <2>1. CASE q < h
      <3>1. (q + 1) * Hour <= h * Hour
        BY <2>1, Lengths
      <3>2. QED
        BY <1>1, <3>1, Lengths
    <2>2. QED
      BY <2>1
  <1>3. q <= h + 1
    <2>1. CASE q >= h + 2
      <3>1. (h + 2) * Hour <= q * Hour
        BY <2>1, Lengths
      <3>2. QED
        BY <1>1, <3>1, Lengths
    <2>2. QED
      BY <2>1
  <1>4. QED
    BY <1>1, <1>2, <1>3 DEF HourBucket

-----------------------------------------------------------------------------
(* The initial state.                                                         *)

LEMMA DownIsOK == InstanceOK(Down)
  <1>1. IsInstance(Down) /\ Down.pc = "down" /\ Down.rows = {}
    BY DEF Down, IsInstance
  <1>2. QED
    BY <1>1, FS_EmptySet DEF InstanceOK, Seeding, Recording, Inserting, Resting

LEMMA InitInv == Init => IInv
  <1> SUFFICES ASSUME Init PROVE IInv
    OBVIOUS
  <1>1. Table
    BY FS_EmptySet DEF Init, Table, Identified, OncePerHour
  <1>2. Instances
    BY DownIsOK DEF Init, Instances
  <1>3. QED
    BY <1>1, <1>2 DEF IInv

-----------------------------------------------------------------------------
(* One instance moves; what the others rely on only grows.                    *)
LEMMA OneMoves ==
    ASSUME Instances, NEW i \in Instance, NEW new, inst' = [inst EXCEPT ![i] = new],
           InstanceOK(new)',
           now' = now, snaps \subseteq snaps', held \subseteq held'
    PROVE  Instances'
  <1>1. /\ inst' = [j \in Instance |-> inst'[j]] /\ inst'[i] = new
        /\ \A j \in Instance \ {i} : inst'[j] = inst[j]
    BY DEF Instances
  <1>2. ASSUME NEW s, InstanceOK(s)
        PROVE  InstanceOK(s)'
    <2>1. \A h \in Nat : Seen(h) => Seen(h)'
      BY DEF Seen
    <2>2. \A r : IsRow(r) => IsRow(r)'
      BY DEF IsRow, Observed, Had
    <2>3. Seeding(s)' /\ Recording(s)' /\ Resting(s)'
      BY <1>2, <2>1 DEF InstanceOK, Seeding, Recording, Resting
    <2>4. Inserting(s)'
      BY <1>2, <2>2 DEF InstanceOK, Inserting
    <2>5. QED
      BY <1>2, <2>3, <2>4 DEF InstanceOK, IsInstance
  <1>3. ASSUME NEW j \in Instance
        PROVE  InstanceOK(inst[j])'
    <2>1. CASE j = i
      BY <1>1, <2>1
    <2>2. CASE j # i
      <3>1. InstanceOK(inst[j])
        BY DEF Instances
      <3>2. PICK s : s = inst[j]
        OBVIOUS
      <3>3. InstanceOK(s)'
        BY <1>2, <3>1, <3>2
      <3>4. QED
        BY <1>1, <2>2, <3>2, <3>3
    <2>3. QED
      BY <2>1, <2>2
  <1>4. QED
    BY <1>1, <1>3 DEF Instances

LEMMA BootStep ==
    ASSUME IInv, NEW i \in Instance, Boot(i)
    PROVE  IInv'
  <1>1. PICK b \in Builds \cup {Unseeded} :
          inst' = [inst EXCEPT ![i] = [Down EXCEPT !.pc = IF b = Unseeded THEN "select" ELSE "save",
                                                   !.build = b, !.at = now, !.clean = now]]
    BY DEF Boot
  <1>2. PICK new : new = [Down EXCEPT !.pc = IF b = Unseeded THEN "select" ELSE "save",
                                      !.build = b, !.at = now, !.clean = now]
    OBVIOUS
  <1>3. now \in Nat /\ UNCHANGED <<now, vaults, snaps, held>>
    BY DEF Boot, IInv, Table
  <1>4. /\ new.pc \in {"select", "save"} /\ (new.pc = "save" => new.build \in Builds)
        /\ new.at = now /\ new.clean = now /\ new.rows = {} /\ new.armed = FALSE
        /\ IsInstance(new)
    BY <1>2, <1>3 DEF Down, IsInstance
  <1>5. \A h \in Nat : ~(now <= h * Hour /\ (h + 2) * Hour <= now)
    BY <1>3, Lengths
  <1>6. InstanceOK(new)'
    BY <1>3, <1>4, <1>5, FS_EmptySet, Lengths
       DEF InstanceOK, IsInstance, Seeding, Recording, Inserting, Resting
  <1>7. Instances'
    BY <1>1, <1>2, <1>3, <1>6, OneMoves DEF IInv
  <1>8. Table'
    BY <1>3 DEF IInv, Table, IsRow, Observed, Had
  <1>9. QED
    BY <1>7, <1>8 DEF IInv

(* The seeding: vaults of the build, without those of the same id.            *)
LEMMA SaveStep ==
    ASSUME IInv, NEW i \in Instance, SaveVaults(i)
    PROVE  IInv'
  <1>1. InstanceOK(inst[i]) /\ inst[i].pc = "save" /\ inst[i].build \in Builds
    BY DEF SaveVaults, IInv, Instances, InstanceOK, Seeding
  <1>2. PICK fixture : fixture = Build[inst[i].build]
    OBVIOUS
  <1>3. IsFiniteSet(fixture) /\ Identified(fixture)
    BY <1>1, <1>2, BuildAssumption DEF Identified
  <1>4. PICK kept : kept = {v \in vaults : \A f \in fixture : f.id # v.id}
    OBVIOUS
  <1>5. /\ vaults' = kept \cup fixture
        /\ held' = held \cup {<<now, kept \cup fixture>>}
        /\ now' = now /\ snaps' = snaps
    BY <1>2, <1>4 DEF SaveVaults, Seeded
  <1>6. Table'
    <2>1. IsFiniteSet(vaults')
      <3>1. IsFiniteSet(kept)
        BY <1>4, FS_Subset DEF IInv, Table
      <3>2. QED
        BY <1>3, <1>5, <3>1, FS_Union
    <2>2. Identified(vaults')
      BY <1>3, <1>4, <1>5 DEF Identified, IInv, Table
    <2>3. \A v \in vaults' : <<now', v>> \in Had'
      BY <1>5, HadIs
    <2>4. \A r \in snaps' : IsRow(r)'
      BY <1>5 DEF IInv, Table, IsRow, Observed, Had
    <2>5. QED
      BY <1>5, <2>1, <2>2, <2>3, <2>4 DEF IInv, Table
  <1>7. PICK new : new = [inst[i] EXCEPT !.pc = "drop"]
    OBVIOUS
  <1>8. inst' = [inst EXCEPT ![i] = new]
    BY <1>7 DEF SaveVaults, IInv, Instances
  <1>9. /\ IsInstance(new) /\ new.pc = "drop" /\ new.at = inst[i].at /\ new.build = inst[i].build
        /\ new.rows = inst[i].rows /\ new.armed = inst[i].armed
    BY <1>1, <1>7 DEF InstanceOK, IsInstance
  <1>10. InstanceOK(new)'
    BY <1>1, <1>5, <1>9
       DEF InstanceOK, IsInstance, Seeding, Recording, Inserting, Resting
  <1>11. Instances'
    BY <1>5, <1>8, <1>10, OneMoves DEF IInv
  <1>12. QED
    BY <1>6, <1>11 DEF IInv

LEMMA DropStep ==
    ASSUME IInv, NEW i \in Instance, DropStaleVaults(i)
    PROVE  IInv'
  <1>1. InstanceOK(inst[i]) /\ inst[i].pc = "drop" /\ now \in Nat
    BY DEF DropStaleVaults, IInv, Instances, Table
  <1>2. PICK rows : rows = {v \in vaults : \E f \in Build[inst[i].build] : f.id = v.id}
    OBVIOUS
  <1>3. /\ vaults' = rows /\ held' = held \cup {<<now, rows>>}
        /\ now' = now /\ snaps' = snaps
    BY <1>2 DEF DropStaleVaults, Seeded
  <1>4. Table'
    <2>1. IsFiniteSet(vaults') /\ Identified(vaults')
      BY <1>2, <1>3, FS_Subset DEF IInv, Table, Identified
    <2>2. \A v \in vaults' : <<now', v>> \in Had'
      BY <1>3, HadIs
    <2>3. \A r \in snaps' : IsRow(r)'
      BY <1>3 DEF IInv, Table, IsRow, Observed, Had
    <2>4. QED
      BY <1>3, <2>1, <2>2, <2>3 DEF IInv, Table
  <1>5. PICK new : new = [inst[i] EXCEPT !.pc = "select", !.at = now, !.clean = now]
    OBVIOUS
  <1>6. inst' = [inst EXCEPT ![i] = new]
    BY <1>5 DEF DropStaleVaults, IInv, Instances
  <1>7. /\ IsInstance(new) /\ new.pc = "select" /\ new.at = now /\ new.clean = now
        /\ new.rows = inst[i].rows /\ new.armed = inst[i].armed
    BY <1>1, <1>5 DEF InstanceOK, IsInstance
  <1>8. new.armed = FALSE
    BY <1>1, <1>7 DEF InstanceOK, Seeding
  <1>9. \A h \in Nat : ~(now <= h * Hour /\ (h + 2) * Hour <= now)
    BY <1>1, Lengths
  <1>10. InstanceOK(new)'
    BY <1>1, <1>3, <1>7, <1>8, <1>9, Lengths
       DEF InstanceOK, IsInstance, Seeding, Recording, Inserting, Resting
  <1>11. Instances'
    BY <1>3, <1>6, <1>10, OneMoves DEF IInv
  <1>12. QED
    BY <1>4, <1>11 DEF IInv

-----------------------------------------------------------------------------
(* Recording.                                                                 *)

(* What Rest leaves of the instance.                                          *)
RestedAs(s, new, failed) ==
    /\ IsInstance(new) /\ new.pc = "up" /\ new.rows = {} /\ new.armed /\ new.at = s.at
    /\ new.next = IF s.armed THEN s.next ELSE now + Hour
    /\ new.clean = IF failed THEN now ELSE s.clean

LEMMA RestMoves ==
    ASSUME IInv, NEW i \in Instance, NEW failed \in BOOLEAN, Rest(i, failed)
    PROVE  \E new : inst' = [inst EXCEPT ![i] = new] /\ RestedAs(inst[i], new, failed)
  <1>1. IsInstance(inst[i]) /\ now \in Nat
    BY DEF IInv, Instances, InstanceOK, Table
  <1>2. PICK next, clean :
          /\ next = IF inst[i].armed THEN inst[i].next ELSE now + Hour
          /\ clean = IF failed THEN now ELSE inst[i].clean
    OBVIOUS
  <1>3. PICK new : new = [inst[i] EXCEPT !.pc = "up", !.rows = {}, !.armed = TRUE,
                                         !.next = next, !.clean = clean]
    OBVIOUS
  <1>4. inst' = [inst EXCEPT ![i] = new]
    BY <1>2, <1>3 DEF Rest
  <1>5. clean \in Nat
    BY <1>1, <1>2 DEF IsInstance
  <1>6. /\ IsInstance(new) /\ new.pc = "up" /\ new.rows = {} /\ new.armed /\ new.at = inst[i].at
        /\ new.next = next /\ new.clean = clean
    BY <1>1, <1>3, <1>5 DEF IsInstance
  <1>7. QED
    BY <1>2, <1>4, <1>6 DEF RestedAs

(* A recording that fails is left for the timer.                              *)
LEMMA FailedRest ==
    ASSUME IInv, NEW i \in Instance, inst[i].pc \in {"select", "insert"}, Rest(i, TRUE),
           UNCHANGED <<now, vaults, snaps, held>>
    PROVE  IInv'
  <1>1. /\ InstanceOK(inst[i]) /\ now \in Nat /\ inst[i].at \in Nat
        /\ inst[i].at <= now /\ now <= inst[i].at + Lag
        /\ inst[i].armed => inst[i].next = inst[i].at + Hour
    BY DEF IInv, Instances, InstanceOK, IsInstance, Recording, Table
  <1>2. PICK new : inst' = [inst EXCEPT ![i] = new] /\ RestedAs(inst[i], new, TRUE)
    BY RestMoves
  <1>3. /\ new.next \in Nat /\ now <= new.next + Lag /\ new.next <= new.at + Hour + Lag
        /\ new.next <= new.clean + Hour
    BY <1>1, <1>2, Lengths DEF RestedAs
  <1>4. InstanceOK(new)'
    BY <1>2, <1>3, FS_EmptySet
       DEF RestedAs, InstanceOK, IsInstance, Seeding, Recording, Inserting, Resting
  <1>5. Instances'
    BY <1>2, <1>4, OneMoves DEF IInv
  <1>6. Table'
    BY DEF IInv, Table, IsRow, Observed, Had
  <1>7. QED
    BY <1>5, <1>6 DEF IInv

LEMMA SelectStep ==
    ASSUME IInv, NEW i \in Instance, Select(i)
    PROVE  IInv'
  <1>1. /\ InstanceOK(inst[i]) /\ inst[i].pc = "select" /\ now \in Nat /\ inst[i].at \in Nat
        /\ inst[i].at <= now /\ now <= inst[i].at + Lag
        /\ UNCHANGED <<now, vaults, snaps, held>>
    BY DEF Select, IInv, Instances, InstanceOK, IsInstance, Recording, Table
  <1>2. CASE ActiveVaults = {}
    <2>1. Rest(i, TRUE)
      BY <1>2 DEF Select
    <2>2. QED
      BY <1>1, <2>1, FailedRest
  <1>3. CASE ActiveVaults # {}
    <2> DEFINE row(v) == RateRow(v, inst[i].at)
    <2>1. PICK rows : rows = {row(v) : v \in ActiveVaults}
      OBVIOUS
    <2>2. PICK new : new = [inst[i] EXCEPT !.pc = "insert", !.rows = rows]
      OBVIOUS
    <2>3. inst' = [inst EXCEPT ![i] = new]
      <3>1. inst' = [inst EXCEPT ![i].pc = "insert", ![i].rows = rows]
        BY <1>3, <2>1 DEF Select
      <3>2. QED
        BY <2>2, <3>1 DEF IInv, Instances
    <2>4. /\ IsInstance(new) /\ new.pc = "insert" /\ new.rows = rows /\ new.at = inst[i].at
          /\ new.armed = inst[i].armed /\ new.next = inst[i].next /\ new.clean = inst[i].clean
      BY <1>1, <2>2 DEF InstanceOK, IsInstance
    <2>5. ActiveVaults \subseteq vaults /\ \A v \in ActiveVaults : v.status = "active"
      BY DEF ActiveVaults, ActiveOf
    <2>6. IsFiniteSet(rows)
      <3>1. PICK f : f = [v \in ActiveVaults |-> row(v)]
        OBVIOUS
      <3>2. rows = {f[v] : v \in ActiveVaults} /\ f = [v \in ActiveVaults |-> f[v]]
        BY <2>1, <3>1
      <3>3. IsFiniteSet(ActiveVaults)
        BY <2>5, FS_Subset DEF IInv, Table
      <3>4. QED
        BY <3>2, <3>3, ImageIsFinite
    <2>7. OncePerHour(rows)
      <3> SUFFICES ASSUME NEW v \in ActiveVaults, NEW w \in ActiveVaults,
                          SameHour(row(v), row(w))
                   PROVE  row(v) = row(w)
        BY <2>1 DEF OncePerHour
      <3>1. v.id = w.id
        BY DEF SameHour, RateRow
      <3>2. v = w
        BY <2>5, <3>1 DEF IInv, Table, Identified
      <3>3. QED
        BY <3>2
    <2>8. ASSUME NEW v \in ActiveVaults
          PROVE  row(v).at = inst[i].at /\ IsRow(row(v))
      <3>1. <<now, v>> \in Had /\ v.status = "active"
        BY <2>5 DEF IInv, Table
      <3>2. <<now, v>>[1] = now /\ <<now, v>>[2] = v
        OBVIOUS
      <3>3. Observed(row(v))
        BY <1>1, <3>1, <3>2 DEF Observed, Had, RateRow
      <3>4. QED
        BY <1>1, <3>3 DEF IsRow, RateRow
    <2>9. rows # {} /\ \A r \in rows : r.at = inst[i].at /\ IsRow(r)
      BY <1>3, <2>1, <2>8
    <2> HIDE DEF row
    <2>10. InstanceOK(new)
      BY <1>1, <2>4, <2>6, <2>7, <2>9
         DEF InstanceOK, IsInstance, Seeding, Recording, Inserting, Resting
    <2>11. InstanceOK(new)'
      BY <1>1, <2>10 DEF InstanceOK, IsInstance, Seeding, Recording, Inserting, Resting, Seen,
                         IsRow, Observed, Had
    <2>12. Instances'
      BY <1>1, <2>3, <2>11, OneMoves DEF IInv
    <2>13. Table'
      BY <1>1 DEF IInv, Table, IsRow, Observed, Had
    <2>14. QED
      BY <2>12, <2>13 DEF IInv
  <1>4. QED
    BY <1>2, <1>3

(* Whoever inserts finds its hour in the table afterwards.                    *)
LEMMA InsertStep ==
    ASSUME IInv, NEW i \in Instance, Insert(i)
    PROVE  IInv'
  <1>1. /\ InstanceOK(inst[i]) /\ inst[i].pc = "insert" /\ now \in Nat /\ inst[i].at \in Nat
        /\ inst[i].at <= now /\ now <= inst[i].at + Lag /\ inst[i].clean \in Nat
        /\ inst[i].armed => inst[i].next = inst[i].at + Hour
        /\ \A h \in Nat : inst[i].clean <= h * Hour /\ (h + 2) * Hour <= inst[i].at => Seen(h)
        /\ UNCHANGED <<now, vaults, held>>
    BY DEF Insert, IInv, Instances, InstanceOK, IsInstance, Recording, Table
  <1>2. PICK rows : rows = inst[i].rows
    OBVIOUS
  <1>3. PICK added : added = {r \in rows : \A s \in snaps : ~SameHour(r, s)}
    OBVIOUS
  <1>4. snaps' = snaps \cup added /\ Rest(i, FALSE)
    BY <1>2, <1>3 DEF Insert
  <1>5. /\ rows # {} /\ IsFiniteSet(rows) /\ OncePerHour(rows)
        /\ \A r \in rows : r.at = inst[i].at /\ IsRow(r)
    BY <1>1, <1>2 DEF InstanceOK, Inserting
  <1>6. Table'
    <2>1. IsFiniteSet(snaps')
      <3>1. IsFiniteSet(added)
        BY <1>3, <1>5, FS_Subset
      <3>2. QED
        BY <1>4, <3>1, FS_Union DEF IInv, Table
    <2>2. OncePerHour(snaps')
      BY <1>3, <1>4, <1>5 DEF OncePerHour, SameHour, IInv, Table
    <2>3. \A r \in snaps' : IsRow(r)'
      BY <1>1, <1>3, <1>4, <1>5 DEF IInv, Table, IsRow, Observed, Had
    <2>4. QED
      BY <1>1, <2>1, <2>2, <2>3 DEF IInv, Table, Had
  <1>7. \E r \in snaps' : r.bucket = HourBucket(inst[i].at)
    <2>1. PICK r \in rows : r.bucket = HourBucket(inst[i].at)
      BY <1>5 DEF IsRow
    <2>2. CASE r \in added
      BY <1>4, <2>1, <2>2
    <2>3. CASE r \notin added
      <3>1. PICK s \in snaps : SameHour(r, s)
        BY <1>3, <2>3
      <3>2. QED
        BY <1>4, <2>1, <3>1 DEF SameHour
    <2>4. QED
      BY <2>2, <2>3
  <1>8. ASSUME NEW h \in Nat, inst[i].clean <= h * Hour, h * Hour <= inst[i].at
        PROVE  Seen(h)'
    <2>1. CASE (h + 2) * Hour <= inst[i].at
      BY <1>1, <1>4, <1>8, <2>1 DEF Seen
    <2>2. CASE ~((h + 2) * Hour <= inst[i].at)
      <3>1. (h + 2) * Hour \in Nat /\ inst[i].at < (h + 2) * Hour
        BY <1>1, <2>2, Lengths
      <3>2. HourBucket(inst[i].at) \in {h, h + 1}
        BY <1>1, <1>8, <3>1, TwoHours
      <3>3. QED
        BY <1>7, <3>2 DEF Seen
    <2>3. QED
      BY <2>1, <2>2
  <1>9. PICK new : inst' = [inst EXCEPT ![i] = new] /\ RestedAs(inst[i], new, FALSE)
    BY <1>4, RestMoves
  <1>10. /\ new.next \in Nat /\ now <= new.next + Lag /\ new.next <= new.at + Hour + Lag
    BY <1>1, <1>9, Lengths DEF RestedAs
  <1>11. InstanceOK(new)'
    BY <1>1, <1>8, <1>9, <1>10, FS_EmptySet
       DEF RestedAs, InstanceOK, IsInstance, Seeding, Recording, Inserting, Resting
  <1>12. Instances'
    BY <1>1, <1>4, <1>9, <1>11, OneMoves DEF IInv
  <1>13. QED
    BY <1>6, <1>12 DEF IInv

(* The timer: the next recording begins within two hours of this one.         *)
LEMMA FireStep ==
    ASSUME IInv, NEW i \in Instance, Fire(i)
    PROVE  IInv'
  <1>1. /\ InstanceOK(inst[i]) /\ inst[i].pc = "up" /\ inst[i].armed /\ now \in Nat
        /\ UNCHANGED <<now, vaults, snaps, held>>
    BY DEF Fire, IInv, Instances, Table
  <1>2. /\ inst[i].at \in Nat /\ inst[i].clean \in Nat /\ inst[i].next \in Nat
        /\ now <= inst[i].next + Lag /\ inst[i].next <= inst[i].at + Hour + Lag
        /\ \/ inst[i].next <= inst[i].clean + Hour
           \/ \A h \in Nat : inst[i].clean <= h * Hour /\ h * Hour <= inst[i].at => Seen(h)
    BY <1>1 DEF InstanceOK, IsInstance, Resting
  <1>3. PICK new : new = [inst[i] EXCEPT !.pc = "select", !.at = now, !.next = now + Hour]
    OBVIOUS
  <1>4. inst' = [inst EXCEPT ![i] = new]
    BY <1>3 DEF Fire
  <1>5. /\ IsInstance(new) /\ new.pc = "select" /\ new.rows = inst[i].rows /\ new.at = now
        /\ new.next = now + Hour /\ new.clean = inst[i].clean
    <2>1. PICK n : n = now + Hour
      OBVIOUS
    <2>2. QED
      BY <1>1, <1>3, <2>1 DEF InstanceOK, IsInstance
  <1>6. ASSUME NEW h \in Nat, inst[i].clean <= h * Hour, (h + 2) * Hour <= now
        PROVE  Seen(h)
    <2>1. PICK t \in Nat : t = h * Hour /\ (h + 2) * Hour = t + 2 * Hour
      BY Lengths
    <2>2. inst[i].clean <= t /\ t + 2 * Hour <= now
      BY <1>6, <2>1
    <2>3. inst[i].next > inst[i].clean + Hour /\ t <= inst[i].at
      BY <1>1, <1>2, <2>2, Lengths
    <2>4. ~(inst[i].next <= inst[i].clean + Hour)
      BY <1>1, <1>2, <2>3, Lengths
    <2>5. inst[i].clean <= h * Hour /\ h * Hour <= inst[i].at
      BY <1>6, <2>1, <2>3
    <2>6. \A g \in Nat : inst[i].clean <= g * Hour /\ g * Hour <= inst[i].at => Seen(g)
      BY <1>2, <2>4
    <2>7. QED
      BY <2>5, <2>6, Zenon
  <1>7. InstanceOK(new)
    BY <1>1, <1>5, <1>6, Lengths
       DEF InstanceOK, IsInstance, Seeding, Recording, Inserting, Resting
  <1>8. InstanceOK(new)'
    BY <1>1, <1>7 DEF InstanceOK, IsInstance, Seeding, Recording, Inserting, Resting, Seen,
                      IsRow, Observed, Had
  <1>9. Instances'
    BY <1>1, <1>4, <1>8, OneMoves DEF IInv
  <1>10. Table'
    BY <1>1 DEF IInv, Table, IsRow, Observed, Had
  <1>11. QED
    BY <1>9, <1>10 DEF IInv

LEMMA KillStep ==
    ASSUME IInv, NEW i \in Instance, Kill(i)
    PROVE  IInv'
  <1>1. inst' = [inst EXCEPT ![i] = Down] /\ UNCHANGED <<now, vaults, snaps, held>>
    BY DEF Kill
  <1>2. PICK new : new = Down
    OBVIOUS
  <1>3. InstanceOK(new)
    BY <1>2, DownIsOK
  <1>4. InstanceOK(new)'
    BY <1>1, <1>3 DEF InstanceOK, IsInstance, Seeding, Recording, Inserting, Resting, Seen,
                      IsRow, Observed, Had
  <1>5. Instances'
    BY <1>1, <1>2, <1>4, OneMoves DEF IInv
  <1>6. Table'
    BY <1>1 DEF IInv, Table, IsRow, Observed, Had
  <1>7. QED
    BY <1>5, <1>6 DEF IInv

-----------------------------------------------------------------------------
(* Time goes on while nobody is later than Lag.                               *)
LEMMA TickStep ==
    ASSUME IInv, Tick
    PROVE  IInv'
  <1>1. /\ now \in Nat /\ now' = now + 1 /\ UNCHANGED <<vaults, snaps, inst>>
        /\ held' = held \cup {<<now + 1, vaults>>}
    BY DEF Tick, IInv, Table
  <1>2. \A h \in Nat : Seen(h) => Seen(h)'
    BY <1>1 DEF Seen
  <1>3. \A r : IsRow(r) => IsRow(r)'
    BY <1>1 DEF IsRow, Observed, Had
  <1>4. Table'
    <2>1. \A v \in vaults' : <<now', v>> \in Had'
      <3>1. <<now', vaults'>> \in held'
        BY <1>1
      <3>2. QED
        BY <3>1, HadIs
    <2>2. QED
      BY <1>1, <1>3, <2>1 DEF IInv, Table, Identified, OncePerHour
  <1>5. ASSUME NEW i \in Instance
        PROVE  InstanceOK(inst[i])'
    <2>1. PICK s : s = inst[i]
      OBVIOUS
    <2>2. /\ InstanceOK(s) /\ s.pc \notin {"save", "drop"}
          /\ s.pc \notin {"down", "up"} => now - s.at < Lag
          /\ (s.pc = "up" /\ s.armed) => now - s.next < Lag
      BY <2>1 DEF Tick, IInv, Instances
    <2>3. s.at \in Nat /\ s.pc \in {"down", "select", "insert", "up"}
      BY <2>2 DEF InstanceOK, IsInstance
    <2>4. Recording(s)'
      BY <1>1, <1>2, <2>2, <2>3, Lengths DEF InstanceOK, Recording
    <2>5. Resting(s)'
      BY <1>1, <1>2, <2>2, <2>3, Lengths DEF InstanceOK, Resting
    <2>6. Inserting(s)' /\ Seeding(s)' /\ IsInstance(s)' /\ IsFiniteSet(s.rows)
      BY <1>3, <2>2 DEF InstanceOK, Inserting, Seeding, IsInstance
    <2>7. InstanceOK(s)'
      BY <2>4, <2>5, <2>6 DEF InstanceOK
    <2>8. QED
      BY <1>1, <2>1, <2>7
  <1>6. QED
    BY <1>1, <1>4, <1>5 DEF IInv, Instances

LEMMA NextInv == IInv /\ [Next]_vars => IInv'
  <1> SUFFICES ASSUME IInv, [Next]_vars PROVE IInv'
    OBVIOUS
  <1>1. ASSUME NEW i \in Instance, Boot(i) \/ SaveVaults(i) \/ DropStaleVaults(i)
        PROVE  IInv'
    BY <1>1, BootStep, SaveStep, DropStep
  <1>2. ASSUME NEW i \in Instance, Select(i) \/ Insert(i)
        PROVE  IInv'
    BY <1>2, SelectStep, InsertStep
  <1>3. ASSUME NEW i \in Instance, RecordFails(i)
        PROVE  IInv'
    BY <1>3, FailedRest DEF RecordFails
  <1>4. ASSUME NEW i \in Instance, Fire(i) \/ Kill(i)
        PROVE  IInv'
    BY <1>4, FireStep, KillStep
  <1>5. CASE Tick
    BY <1>5, TickStep
  <1>6. CASE UNCHANGED vars
    BY <1>6 DEF vars, IInv, Table, Instances, Identified, OncePerHour, IsRow, Observed, Had,
                InstanceOK, IsInstance, Seeding, Recording, Inserting, Resting, Seen
  <1>7. QED
    BY <1>1, <1>2, <1>3, <1>4, <1>5, <1>6 DEF Next

(* IInv holds in every state.                                                 *)
THEOREM Inductive == Spec => []IInv
  <1>1. QED
    BY InitInv, NextInv, PTL DEF Spec

-----------------------------------------------------------------------------
(* What is said of every behaviour.                                           *)

(* Every recorded rate is one that the vault had when the row says, or within *)
(* the time a recording takes, whatever instances, builds and crashes overlap *)
(* (apy-snapshot.service.ts:69-91).                                           *)
THEOREM RatesWereObserved == Spec => []RowsAreObservations
  <1>1. IInv => RowsAreObservations
    BY DEF IInv, Table, IsRow, Observed, Had, RowsAreObservations
  <1>2. QED
    BY <1>1, Inductive, PTL

(* While an instance is up and records, no two whole hours in a row go        *)
(* without a row, though the timer drifts (apy-snapshot.service.ts:57-59).    *)
THEOREM NoTwoHoursMissing == Spec => []HourCovered
  <1>1. ASSUME IInv, NEW i \in Instance, NEW h \in Nat,
               inst[i].pc \notin {"down", "save", "drop"}, inst[i].clean <= h * Hour,
               now > (h + 2) * Hour + Lag
        PROVE  Seen(h)
    <2>1. PICK t \in Nat : t = h * Hour /\ (h + 2) * Hour = t + 2 * Hour
      BY Lengths
    <2>2. /\ InstanceOK(inst[i]) /\ now \in Nat /\ inst[i].at \in Nat /\ inst[i].clean \in Nat
          /\ inst[i].pc \in {"select", "insert", "up"}
          /\ inst[i].clean <= t /\ now > t + 2 * Hour + Lag
      BY <1>1, <2>1 DEF IInv, Instances, InstanceOK, IsInstance, Table
    <2>3. CASE inst[i].pc \in {"select", "insert"}
      <3>1. /\ now <= inst[i].at + Lag
            /\ \A g \in Nat : inst[i].clean <= g * Hour /\ (g + 2) * Hour <= inst[i].at => Seen(g)
        BY <2>2, <2>3 DEF InstanceOK, Recording
      <3>2. t + 2 * Hour <= inst[i].at
        BY <2>2, <3>1, Lengths
      <3>3. inst[i].clean <= h * Hour /\ (h + 2) * Hour <= inst[i].at
        BY <2>1, <2>2, <3>2
      <3>4. QED
        BY <3>1, <3>3, Zenon
    <2>4. CASE inst[i].pc = "up"
      <3>1. /\ inst[i].next \in Nat /\ now <= inst[i].next + Lag
            /\ inst[i].next <= inst[i].at + Hour + Lag
            /\ \/ inst[i].next <= inst[i].clean + Hour
               \/ \A g \in Nat : inst[i].clean <= g * Hour /\ g * Hour <= inst[i].at => Seen(g)
        BY <2>2, <2>4 DEF InstanceOK, Resting
      <3>2. ~(inst[i].next <= inst[i].clean + Hour) /\ t <= inst[i].at
        BY <2>2, <3>1, Lengths
      <3>3. inst[i].clean <= h * Hour /\ h * Hour <= inst[i].at
        BY <2>1, <2>2, <3>2
      <3>4. \A g \in Nat : inst[i].clean <= g * Hour /\ g * Hour <= inst[i].at => Seen(g)
        BY <3>1, <3>2
      <3>5. QED
        BY <3>3, <3>4, Zenon
    <2>5. QED
      BY <2>2, <2>3, <2>4
  <1>2. IInv => HourCovered
    <2> SUFFICES ASSUME IInv, NEW i \in Instance, NEW h \in 0 .. MaxTime \div Hour,
                        inst[i].pc \notin {"down", "save", "drop"}, inst[i].clean <= h * Hour,
                        now > (h + 2) * Hour + Lag
                 PROVE  \E r \in snaps : r.bucket \in {h, h + 1}
      BY DEF HourCovered
    <2>1. h \in Nat
      OBVIOUS
    <2>2. Seen(h)
      BY <1>1, <2>1
    <2>3. QED
      BY <2>2 DEF Seen
  <1>3. QED
    BY <1>2, Inductive, PTL

(* A signal keeps what its vault's series says of it.                         *)
LEMMA SignalOf ==
    ASSUME NEW s \in Signals(vaults, snaps, Null, now)
    PROVE  \E v \in ActiveVaults :
              /\ s.vault = v.id /\ s.insufficient = ~Enough(Series(snaps, v, now))
              /\ ~s.insufficient =>
                    /\ s.volatility = Volatility(Series(snaps, v, now))
                    /\ s.slope = Round(24 * Rise(Series(snaps, v, now)), Run(Series(snaps, v, now)))
  <1> DEFINE rows == {Signal(snaps, v, now)
                        : v \in {v \in vaults : v.status = "active" /\ Matches(v.asset, Null)}}
  <1>1. PICK r \in rows : s = Ranked(r, rows)
    BY DEF Signals
  <1>2. PICK v \in ActiveVaults : r = Signal(snaps, v, now)
    BY DEF ActiveVaults, ActiveOf
  <1>3. /\ r.vault = v.id /\ r.insufficient = ~Enough(Series(snaps, v, now))
        /\ ~r.insufficient =>
              /\ r.volatility = Volatility(Series(snaps, v, now))
              /\ r.slope = Round(24 * Rise(Series(snaps, v, now)), Run(Series(snaps, v, now)))
        /\ {"vault", "insufficient", "volatility", "slope"} \subseteq DOMAIN r
    BY <1>2 DEF Signal
  <1> HIDE DEF rows
  <1>4. /\ s["vault"] = r["vault"] /\ s["insufficient"] = r["insufficient"]
        /\ s["volatility"] = r["volatility"] /\ s["slope"] = r["slope"]
    BY <1>1, <1>3 DEF Ranked
  <1>5. QED
    BY <1>3, <1>4

(* What a trend is computed from was observed in as many different hours,     *)
(* however many instances record side by side                                 *)
(* (analytics.service.ts:130-140, vault-apy-snapshot.entity.ts:11).           *)
THEOREM TrendsRestOnHours == Spec => []SignalsRestOnHours
  <1>1. ASSUME IInv, NEW s \in Signals(vaults, snaps, Null, now), ~s.insufficient
        PROVE  Cardinality({r.at \div Hour : r \in {r \in snaps : r.vault = s.vault}})
                 >= MinObservations
    <2>1. PICK v : s.vault = v.id /\ s.insufficient = ~Enough(Series(snaps, v, now))
      BY SignalOf
    <2>2. Table
      BY <1>1 DEF IInv
    <2>3. PICK points : points = Series(snaps, v, now)
      OBVIOUS
    <2>4. PICK own : own = {r \in snaps : r.vault = s.vault}
      OBVIOUS
    <2>5. PICK hours : hours = {r.at \div Hour : r \in own}
      OBVIOUS
    <2>6. IsFiniteSet(hours)
      <3>1. PICK f : f = [r \in own |-> r.at \div Hour]
        OBVIOUS
      <3>2. hours = {f[r] : r \in own} /\ f = [r \in own |-> f[r]]
        BY <2>5, <3>1
      <3>3. IsFiniteSet(own)
        BY <2>2, <2>4, FS_Subset DEF Table
      <3>4. QED
        BY <3>2, <3>3, ImageIsFinite
    <2>7. \A p \in points : \E r \in own : p = [at |-> r.at, apy |-> r.apy]
      BY <2>1, <2>3, <2>4 DEF Series, OfVault, History
    <2>8. PICK f : f = [p \in points |-> p.at \div Hour]
      OBVIOUS
    <2>9. f \in Injection(points, hours)
      <3>1. \A p \in points : f[p] \in hours
        BY <2>5, <2>7, <2>8
      <3>2. ASSUME NEW p \in points, NEW q \in points, f[p] = f[q]
            PROVE  p = q
        <4>1. PICK r \in own : p = [at |-> r.at, apy |-> r.apy]
          BY <2>7
        <4>2. PICK t \in own : q = [at |-> t.at, apy |-> t.apy]
          BY <2>7
        <4>3. r.at \div Hour = t.at \div Hour
          BY <2>8, <3>2, <4>1, <4>2
        <4>4. r.bucket = t.bucket /\ r.vault = t.vault /\ r \in snaps /\ t \in snaps
          BY <2>2, <2>4, <4>3 DEF Table, IsRow, HourBucket
        <4>5. r = t
          BY <2>2, <4>4 DEF Table, OncePerHour, SameHour
        <4>6. QED
          BY <4>1, <4>2, <4>5
      <3>3. QED
        BY <2>8, <3>1, <3>2 DEF Injection, IsInjective
    <2>10. /\ Cardinality(points) <= Cardinality(hours)
          /\ Cardinality(points) \in Nat /\ Cardinality(hours) \in Nat
      BY <2>6, <2>9, FS_Injection, FS_CardinalityType
    <2>11. Cardinality(points) >= MinObservations
      BY <1>1, <2>1, <2>3 DEF Enough
    <2>12. QED
      BY <2>4, <2>5, <2>10, <2>11 DEF MinObservations
  <1>2. IInv => SignalsRestOnHours
    BY <1>1 DEF SignalsRestOnHours
  <1>3. QED
    BY <1>2, Inductive, PTL

-----------------------------------------------------------------------------
(* The tables that were read.  A recording reads one state of the table of     *)
(* vaults and inserts a row for every active vault of it; the rows that are    *)
(* there already are left.  So an hour is covered by the vaults of every table *)
(* that explains one of its rows, and rows of an hour that began at different  *)
(* times come from different tables.                                           *)

ReadFrom(h, at) == h \in held /\ at \in Nat /\ h[1] >= at /\ h[1] <= at + Lag

Explains(h, r) == ReadFrom(h, r.at) /\ \E v \in ActiveOf(h[2]) : r = RateRow(v, r.at)

Covered(h, bucket) ==
    \A v \in ActiveOf(h[2]) : \E s \in snaps : s.vault = v.id /\ s.bucket = bucket

Explained == \A r \in snaps : \E h \in held : Explains(h, r) /\ Covered(h, r.bucket)

Differing ==
    \A r, s \in snaps : r.bucket = s.bucket /\ r.at # s.at =>
        \E h, g \in held : Explains(h, r) /\ Explains(g, s) /\ h[2] # g[2]

Holding(s) ==
    s.pc = "insert" =>
        \E h \in held : ReadFrom(h, s.at) /\ s.rows = {RateRow(v, s.at) : v \in ActiveOf(h[2])}

IsHeld(h) ==
    /\ h[1] \in Nat /\ h[1] <= now
    /\ h[2] \subseteq VaultRows /\ IsFiniteSet(h[2]) /\ Identified(h[2])

Tabled ==
    /\ IsFiniteSet(held) /\ \A h \in held : IsHeld(h)
    /\ vaults \subseteq VaultRows /\ (vaults = {} \/ <<now, vaults>> \in held)

RInv == IInv /\ Tabled /\ Explained /\ Differing /\ \A i \in Instance : Holding(inst[i])

LEMMA RInvInit == Init => RInv
  BY InitInv, DownIsOK, FS_EmptySet DEF Init, RInv, Tabled, Explained, Differing, Holding, Down

(* What was read stays explained.                                             *)
LEMMA ReadStays ==
    ASSUME held \subseteq held'
    PROVE  /\ \A h, at : ReadFrom(h, at) => ReadFrom(h, at)'
           /\ \A h, r : Explains(h, r) => Explains(h, r)'
           /\ \A s : Holding(s) => Holding(s)'
  <1>1. \A h, at : ReadFrom(h, at) => ReadFrom(h, at)'
    BY DEF ReadFrom
  <1>2. \A h, r : Explains(h, r) => Explains(h, r)'
    BY <1>1 DEF Explains
  <1>3. \A s : Holding(s) => Holding(s)'
    BY <1>1 DEF Holding
  <1>4. QED
    BY <1>1, <1>2, <1>3

(* No row is added.                                                           *)
LEMMA RowsStay ==
    ASSUME RInv, held \subseteq held', snaps' = snaps
    PROVE  Explained' /\ Differing'
  <1>1. ASSUME NEW r \in snaps PROVE \E h \in held' : Explains(h, r)' /\ Covered(h, r.bucket)'
    <2>1. PICK h \in held : Explains(h, r) /\ Covered(h, r.bucket)
      BY DEF RInv, Explained
    <2>2. Covered(h, r.bucket)'
      BY <2>1 DEF Covered
    <2>3. QED
      BY <2>1, <2>2, ReadStays
  <1>2. ASSUME NEW r \in snaps, NEW s \in snaps, r.bucket = s.bucket, r.at # s.at
        PROVE  \E h, g \in held' : Explains(h, r)' /\ Explains(g, s)' /\ h[2] # g[2]
    <2>1. PICK h \in held, g \in held : Explains(h, r) /\ Explains(g, s) /\ h[2] # g[2]
      BY <1>2 DEF RInv, Differing
    <2>2. QED
      BY <2>1, ReadStays
  <1>3. QED
    BY <1>1, <1>2 DEF Explained, Differing

(* Nobody reads or inserts: rows in hand are kept or given up.                *)
LEMMA OthersHold ==
    ASSUME RInv, held \subseteq held', NEW i \in Instance,
           \A j \in Instance \ {i} : inst'[j] = inst[j], Holding(inst[i])'
    PROVE  \A j \in Instance : Holding(inst[j])'
  <1>1. ASSUME NEW j \in Instance \ {i} PROVE Holding(inst[j])'
    <2>1. PICK s : s = inst[j]
      OBVIOUS
    <2>2. s = inst'[j] /\ Holding(s)
      BY <2>1 DEF RInv
    <2>3. Holding(s)'
      BY <2>2, ReadStays
    <2>4. QED
      BY <2>2, <2>3 DEF Holding
  <1>2. QED
    BY <1>1

LEMMA SeedingHeld ==
    ASSUME RInv, NEW i \in Instance, SaveVaults(i) \/ DropStaleVaults(i)
    PROVE  RInv'
  <1>1. IInv' /\ now \in Nat /\ inst[i].build \in Builds
    BY SaveStep, DropStep
       DEF RInv, IInv, Instances, InstanceOK, Seeding, Table, SaveVaults, DropStaleVaults
  <1>2. /\ vaults' \subseteq VaultRows /\ held' = held \cup {<<now, vaults'>>}
        /\ now' = now /\ snaps' = snaps
    <2>1. Build[inst[i].build] \subseteq VaultRows
      BY <1>1 DEF VaultRows
    <2>2. vaults \subseteq VaultRows
      BY DEF RInv, Tabled
    <2>3. QED
      BY <2>1, <2>2 DEF SaveVaults, DropStaleVaults, Seeded
  <1>3. Tabled'
    <2>1. IsFiniteSet(vaults') /\ Identified(vaults')
      BY <1>1 DEF IInv, Table, Identified
    <2>2. \A h \in held : IsHeld(h)'
      BY <1>2 DEF RInv, Tabled, IsHeld
    <2>3. PICK h : h = <<now, vaults'>>
      OBVIOUS
    <2>4. h[1] = now /\ h[2] = vaults'
      BY <2>3
    <2>5. IsHeld(h)'
      BY <1>1, <1>2, <2>1, <2>4 DEF IsHeld, Identified
    <2>6. QED
      BY <1>2, <2>2, <2>3, <2>5, FS_AddElement DEF RInv, Tabled
  <1>4. (\A j \in Instance \ {i} : inst'[j] = inst[j]) /\ inst'[i].pc # "insert"
    <2>1. inst[i] = [inst[i] EXCEPT !.pc = inst[i].pc] /\ IsInstance(inst[i])
      BY DEF RInv, IInv, Instances, InstanceOK, IsInstance
    <2>2. \/ inst' = [inst EXCEPT ![i].pc = "drop"]
          \/ inst' = [inst EXCEPT ![i].pc = "select", ![i].at = now, ![i].clean = now]
      BY DEF SaveVaults, DropStaleVaults
    <2>3. QED
      BY <2>1, <2>2 DEF RInv, IInv, Instances, IsInstance
  <1>5. \A j \in Instance : Holding(inst[j])'
    <2>1. Holding(inst[i])'
      BY <1>4 DEF Holding
    <2>2. QED
      BY <1>2, <1>4, <2>1, OthersHold
  <1>6. QED
    BY <1>1, <1>2, <1>3, <1>5, RowsStay DEF RInv

(* The instance's own step, which leaves the tables alone.                    *)
LEMMA IdleHeld ==
    ASSUME RInv, NEW i \in Instance, Boot(i) \/ RecordFails(i) \/ Fire(i) \/ Kill(i)
    PROVE  RInv'
  <1>1. IInv'
    BY BootStep, FailedRest, FireStep, KillStep DEF RInv, RecordFails
  <1>2. UNCHANGED <<now, vaults, snaps, held>>
    BY DEF Boot, RecordFails, Fire, Kill
  <1>3. (\A j \in Instance \ {i} : inst'[j] = inst[j]) /\ inst'[i].pc # "insert"
    <2>1. CASE Boot(i)
      <3>1. PICK b \in Builds \cup {Unseeded} :
              inst' = [inst EXCEPT ![i] = [Down EXCEPT !.pc = IF b = Unseeded THEN "select" ELSE "save",
                                                       !.build = b, !.at = now, !.clean = now]]
        BY <2>1 DEF Boot
      <3>2. [Down EXCEPT !.pc = IF b = Unseeded THEN "select" ELSE "save",
                         !.build = b, !.at = now, !.clean = now].pc # "insert"
        BY DEF Down
      <3>3. QED
        BY <3>1, <3>2 DEF RInv, IInv, Instances
    <2>2. CASE RecordFails(i)
      <3>1. PICK new : inst' = [inst EXCEPT ![i] = new] /\ RestedAs(inst[i], new, TRUE)
        BY <2>2, RestMoves DEF RInv, RecordFails
      <3>2. QED
        BY <3>1 DEF RInv, IInv, Instances, RestedAs
    <2>3. CASE Fire(i)
      <3>1. IsInstance(inst[i])
        BY DEF RInv, IInv, Instances, InstanceOK
      <3>2. PICK new : new = [inst[i] EXCEPT !.pc = "select", !.at = now, !.next = now + Hour]
        OBVIOUS
      <3>3. new.pc = "select" /\ inst' = [inst EXCEPT ![i] = new]
        BY <2>3, <3>1, <3>2 DEF Fire, IsInstance
      <3>4. QED
        BY <3>3 DEF RInv, IInv, Instances
    <2>4. CASE Kill(i)
      BY <2>4 DEF Kill, Down, RInv, IInv, Instances
    <2>5. QED
      BY <2>1, <2>2, <2>3, <2>4
  <1>4. \A j \in Instance : Holding(inst[j])'
    <2>1. Holding(inst[i])'
      BY <1>3 DEF Holding
    <2>2. QED
      BY <1>2, <1>3, <2>1, OthersHold
  <1>5. Tabled'
    BY <1>2 DEF RInv, Tabled, IsHeld, Identified
  <1>6. QED
    BY <1>1, <1>2, <1>4, <1>5, RowsStay DEF RInv

LEMMA SelectHeld ==
    ASSUME RInv, NEW i \in Instance, Select(i)
    PROVE  RInv'
  <1>1. /\ IInv' /\ inst[i].pc = "select" /\ now \in Nat /\ inst[i].at \in Nat
        /\ inst[i].at <= now /\ now <= inst[i].at + Lag
        /\ UNCHANGED <<now, vaults, snaps, held>> /\ IsInstance(inst[i])
    BY SelectStep DEF RInv, Select, IInv, Instances, InstanceOK, IsInstance, Recording, Table
  <1>2. Tabled'
    BY <1>1 DEF RInv, Tabled, IsHeld, Identified
  <1>3. (\A j \in Instance \ {i} : inst'[j] = inst[j]) /\ Holding(inst[i])'
    <2>1. CASE ActiveVaults = {}
      <3>1. PICK new : inst' = [inst EXCEPT ![i] = new] /\ RestedAs(inst[i], new, TRUE)
        BY <2>1, RestMoves DEF RInv, Select
      <3>2. QED
        BY <3>1 DEF RInv, IInv, Instances, RestedAs, Holding
    <2>2. CASE ActiveVaults # {}
      <3>1. PICK rows : rows = {RateRow(v, inst[i].at) : v \in ActiveVaults}
        OBVIOUS
      <3>2. PICK new : new = [inst[i] EXCEPT !.pc = "insert", !.rows = rows]
        OBVIOUS
      <3>3. inst' = [inst EXCEPT ![i] = new]
        BY <2>2, <3>1, <3>2 DEF Select, RInv, IInv, Instances
      <3>4. new.at = inst[i].at /\ new.rows = rows
        BY <1>1, <3>2 DEF IsInstance
      <3>5. PICK h : h = <<now, vaults>>
        OBVIOUS
      <3>6. h \in held /\ h[1] = now /\ h[2] = vaults
        BY <2>2, <3>5 DEF RInv, Tabled, ActiveVaults, ActiveOf
      <3>7. ReadFrom(h, new.at)
        BY <1>1, <3>4, <3>6, Lengths DEF ReadFrom
      <3>8. ReadFrom(h, new.at)'
        BY <1>1, <3>7 DEF ReadFrom
      <3>9. rows = {RateRow(v, new.at) : v \in ActiveOf(h[2])}
        BY <3>1, <3>4, <3>6 DEF ActiveVaults
      <3>10. inst'[i] = new /\ \A j \in Instance \ {i} : inst'[j] = inst[j]
        BY <3>3 DEF RInv, IInv, Instances
      <3>11. Holding(new)'
        BY <1>1, <3>4, <3>6, <3>8, <3>9 DEF Holding
      <3>12. QED
        BY <3>10, <3>11 DEF Holding
    <2>3. QED
      BY <2>1, <2>2
  <1>4. \A j \in Instance : Holding(inst[j])'
    BY <1>1, <1>3, OthersHold
  <1>5. QED
    BY <1>1, <1>2, <1>4, RowsStay DEF RInv

LEMMA InsertHeld ==
    ASSUME RInv, NEW i \in Instance, Insert(i)
    PROVE  RInv'
  <1>1. /\ IInv' /\ inst[i].pc = "insert" /\ UNCHANGED <<now, vaults, held>>
        /\ Rest(i, FALSE)
    BY InsertStep DEF RInv, Insert
  <1>2. PICK at, rows : at = inst[i].at /\ rows = inst[i].rows
    OBVIOUS
  <1>3. PICK table \in held :
          ReadFrom(table, at) /\ rows = {RateRow(v, at) : v \in ActiveOf(table[2])}
    BY <1>1, <1>2 DEF RInv, Holding
  <1>4. PICK added : added = {r \in rows : \A s \in snaps : ~SameHour(r, s)}
    OBVIOUS
  <1>5. snaps' = snaps \cup added
    BY <1>2, <1>4 DEF Insert
  <1>6. ASSUME NEW r \in rows
        PROVE  r.at = at /\ r.bucket = HourBucket(at) /\ Explains(table, r)
    <2>1. PICK v \in ActiveOf(table[2]) : r = RateRow(v, at)
      BY <1>3
    <2>2. r.at = at /\ r.bucket = HourBucket(at)
      BY <2>1 DEF RateRow
    <2>3. QED
      BY <1>3, <2>1, <2>2 DEF Explains
  <1>7. Covered(table, HourBucket(at))'
    <2> SUFFICES ASSUME NEW v \in ActiveOf(table[2])
                 PROVE  \E s \in snaps' : s.vault = v.id /\ s.bucket = HourBucket(at)
      BY DEF Covered
    <2>1. PICK r \in rows : r = RateRow(v, at)
      BY <1>3
    <2>2. r.vault = v.id /\ r.bucket = HourBucket(at)
      BY <2>1 DEF RateRow
    <2>3. CASE r \in added
      BY <1>5, <2>2, <2>3
    <2>4. CASE r \notin added
      <3>1. PICK s \in snaps : SameHour(r, s)
        BY <1>4, <2>4
      <3>2. QED
        BY <1>5, <2>2, <3>1 DEF SameHour
    <2>5. QED
      BY <2>3, <2>4
  <1>8. ASSUME NEW h, NEW bucket, Covered(h, bucket) PROVE Covered(h, bucket)'
    BY <1>5, <1>8 DEF Covered
  <1>9. \A h, r : Explains(h, r) => Explains(h, r)'
    BY <1>1, ReadStays
  <1>10. Explained'
    <2> SUFFICES ASSUME NEW r \in snaps'
                 PROVE  \E h \in held' : Explains(h, r)' /\ Covered(h, r.bucket)'
      BY DEF Explained
    <2>1. CASE r \in snaps
      <3>1. PICK h \in held : Explains(h, r) /\ Covered(h, r.bucket)
        BY <2>1 DEF RInv, Explained
      <3>2. QED
        BY <1>1, <1>8, <1>9, <3>1
    <2>2. CASE r \in added
      <3>1. r.bucket = HourBucket(at) /\ Explains(table, r)
        BY <1>4, <1>6, <2>2
      <3>2. Covered(table, r.bucket)'
        BY <1>7, <3>1 DEF Covered
      <3>3. QED
        BY <1>1, <1>9, <3>1, <3>2
    <2>3. QED
      BY <1>5, <2>1, <2>2
  <1>11. ASSUME NEW r \in snaps, NEW s \in added, r.bucket = s.bucket
         PROVE  \E h \in held : Explains(h, r) /\ Explains(table, s) /\ h[2] # table[2]
    <2>1. PICK h \in held : Explains(h, r) /\ Covered(h, r.bucket)
      BY DEF RInv, Explained
    <2>2. PICK w \in ActiveOf(table[2]) : s = RateRow(w, at)
      BY <1>3, <1>4
    <2>3. s.vault = w.id
      BY <2>2 DEF RateRow
    <2>4. h[2] # table[2]
      <3>1. SUFFICES ASSUME h[2] = table[2] PROVE FALSE
        OBVIOUS
      <3>2. PICK q \in snaps : q.vault = w.id /\ q.bucket = r.bucket
        BY <2>1, <2>2, <3>1 DEF Covered
      <3>3. SameHour(s, q)
        BY <1>11, <2>3, <3>2 DEF SameHour
      <3>4. QED
        BY <1>4, <3>3
    <2>5. QED
      BY <1>4, <1>6, <2>1, <2>4
  <1>12. Differing'
    <2> SUFFICES ASSUME NEW r \in snaps', NEW s \in snaps', r.bucket = s.bucket, r.at # s.at
                 PROVE  \E h, g \in held' : Explains(h, r)' /\ Explains(g, s)' /\ h[2] # g[2]
      BY DEF Differing
    <2>1. CASE r \in snaps /\ s \in snaps
      <3>1. PICK h \in held, g \in held : Explains(h, r) /\ Explains(g, s) /\ h[2] # g[2]
        BY <2>1 DEF RInv, Differing
      <3>2. QED
        BY <1>1, <1>9, <3>1
    <2>2. CASE r \in snaps /\ s \in added
      <3>1. PICK h \in held : Explains(h, r) /\ Explains(table, s) /\ h[2] # table[2]
        BY <1>11, <2>2
      <3>2. QED
        BY <1>1, <1>9, <3>1
    <2>3. CASE r \in added /\ s \in snaps
      <3>1. PICK h \in held : Explains(h, s) /\ Explains(table, r) /\ h[2] # table[2]
        BY <1>11, <2>3
      <3>2. QED
        BY <1>1, <1>9, <3>1
    <2>4. ~(r \in added /\ s \in added)
      BY <1>4, <1>6
    <2>5. QED
      BY <1>5, <2>1, <2>2, <2>3, <2>4
  <1>13. Tabled'
    BY <1>1 DEF RInv, Tabled, IsHeld, Identified
  <1>14. \A j \in Instance : Holding(inst[j])'
    <2>1. PICK new : inst' = [inst EXCEPT ![i] = new] /\ RestedAs(inst[i], new, FALSE)
      BY <1>1, RestMoves DEF RInv
    <2>2. (\A j \in Instance \ {i} : inst'[j] = inst[j]) /\ inst'[i].pc # "insert"
      BY <2>1 DEF RInv, IInv, Instances, RestedAs
    <2>3. Holding(inst[i])'
      BY <2>2 DEF Holding
    <2>4. QED
      BY <1>1, <2>2, <2>3, OthersHold
  <1>15. QED
    BY <1>1, <1>10, <1>12, <1>13, <1>14 DEF RInv

LEMMA TickHeld ==
    ASSUME RInv, Tick
    PROVE  RInv'
  <1>1. /\ IInv' /\ now \in Nat /\ now' = now + 1 /\ UNCHANGED <<vaults, snaps, inst>>
        /\ held' = held \cup {<<now + 1, vaults>>}
    BY TickStep DEF RInv, Tick, IInv, Table
  <1>2. Tabled'
    <2>1. PICK h : h = <<now + 1, vaults>>
      OBVIOUS
    <2>2. h[1] = now + 1 /\ h[2] = vaults
      BY <2>1
    <2>3. IsHeld(h)'
      BY <1>1, <2>2 DEF IsHeld, RInv, Tabled, IInv, Table, Identified
    <2>4. \A k \in held : IsHeld(k)'
      BY <1>1 DEF RInv, Tabled, IsHeld
    <2>5. QED
      BY <1>1, <2>1, <2>3, <2>4, FS_AddElement DEF RInv, Tabled
  <1>3. \A j \in Instance : Holding(inst[j])'
    <2>1. ASSUME NEW j \in Instance PROVE Holding(inst[j])'
      <3>1. PICK s : s = inst[j]
        OBVIOUS
      <3>2. Holding(s)'
        BY <1>1, <3>1, ReadStays DEF RInv
      <3>3. QED
        BY <1>1, <3>1, <3>2 DEF Holding
    <2>2. QED
      BY <2>1
  <1>4. QED
    BY <1>1, <1>2, <1>3, RowsStay DEF RInv

LEMMA RInvNext == RInv /\ [Next]_vars => RInv'
  <1> SUFFICES ASSUME RInv, [Next]_vars PROVE RInv'
    OBVIOUS
  <1>1. ASSUME NEW i \in Instance, SaveVaults(i) \/ DropStaleVaults(i) PROVE RInv'
    BY <1>1, SeedingHeld
  <1>2. ASSUME NEW i \in Instance, Boot(i) \/ RecordFails(i) \/ Fire(i) \/ Kill(i) PROVE RInv'
    BY <1>2, IdleHeld
  <1>3. ASSUME NEW i \in Instance, Select(i) \/ Insert(i) PROVE RInv'
    BY <1>3, SelectHeld, InsertHeld
  <1>4. CASE Tick
    BY <1>4, TickHeld
  <1>5. CASE UNCHANGED vars
    <2>1. IInv'
      BY <1>5, NextInv DEF RInv
    <2>2. UNCHANGED <<now, vaults, snaps, inst, held>>
      BY <1>5 DEF vars
    <2>3. Tabled'
      BY <2>2 DEF RInv, Tabled, IsHeld, Identified
    <2>4. \A j \in Instance : Holding(inst[j])'
      BY <2>2 DEF RInv, Holding, ReadFrom
    <2>5. QED
      BY <2>1, <2>2, <2>3, <2>4, RowsStay DEF RInv
  <1>6. QED
    BY <1>1, <1>2, <1>3, <1>4, <1>5 DEF Next

(* RInv holds in every state.                                                 *)
THEOREM TablesExplainRows == Spec => []RInv
  <1>1. QED
    BY RInvInit, RInvNext, PTL DEF Spec

-----------------------------------------------------------------------------
(* Of least and greatest numbers, and of averages between them.               *)

LEMMA LeastIs ==
    ASSUME NEW S, IsFiniteSet(S), S # {}, \A x \in S : x \in Int
    PROVE  Min(S) \in S /\ \A y \in S : Min(S) <= y
  <1> DEFINE B == {r \in SUBSET S : r # {} /\ ~ \E x \in r : \A y \in r : x <= y}
  <1>1. ASSUME NEW r \in B, \A u \in SUBSET r : u # r => u \notin B PROVE FALSE
    <2>1. PICK x \in r : TRUE
      OBVIOUS
    <2>2. r \ {x} \in SUBSET r /\ r \ {x} # r /\ r \ {x} \in SUBSET S
      BY <2>1
    <2>3. r \ {x} \notin B
      BY <1>1, <2>2
    <2>4. CASE r \ {x} = {}
      <3>1. \A y \in r : y = x /\ x <= y
        BY <2>1, <2>4
      <3>2. QED
        BY <2>1, <3>1
    <2>5. CASE r \ {x} # {}
      <3>1. PICK m \in r \ {x} : \A y \in r \ {x} : m <= y
        BY <2>2, <2>3, <2>5
      <3>2. x \in Int /\ m \in Int /\ \A y \in r : y \in Int
        BY <2>1, <3>1
      <3>3. \/ \A y \in r : m <= y
            \/ \A y \in r : x <= y
        <4>1. CASE m <= x
          BY <3>1, <4>1
        <4>2. CASE x <= m
          BY <3>1, <3>2, <4>2
        <4>3. QED
          BY <3>2, <4>1, <4>2
      <3>4. QED
        BY <2>1, <3>1, <3>3
    <2>6. QED
      BY <2>4, <2>5
  <1>2. B = {}
    <2>1. SUFFICES ASSUME B # {} PROVE FALSE
      OBVIOUS
    <2>2. B \subseteq SUBSET S
      OBVIOUS
    <2> HIDE DEF B
    <2>3. PICK s \in B : \A u \in SUBSET s : u # s => u \notin B
      BY <2>1, <2>2, SmallestBad
    <2>4. QED
      BY <1>1, <2>3
  <1>3. PICK x \in S : \A y \in S : x <= y
    BY <1>2
  <1>4. QED
    BY <1>3 DEF Min

(* The greatest is the negative of the least negative.                        *)
LEMMA GreatestIs ==
    ASSUME NEW S, IsFiniteSet(S), S # {}, \A x \in S : x \in Int
    PROVE  Max(S) \in S /\ \A y \in S : Max(S) >= y
  <1> DEFINE f == [x \in S |-> -x]
  <1>1. IsFiniteSet({f[x] : x \in S}) /\ {f[x] : x \in S} # {}
    BY ImageIsFinite
  <1>2. \A x \in S : f[x] = -x /\ f[x] \in Int
    OBVIOUS
  <1> HIDE DEF f
  <1>3. PICK N : N = {f[x] : x \in S}
    OBVIOUS
  <1>4. \A n \in N : n \in Int
    BY <1>2, <1>3
  <1>5. Min(N) \in N /\ \A n \in N : Min(N) <= n
    BY <1>1, <1>3, <1>4, LeastIs
  <1>6. PICK m \in S : Min(N) = f[m]
    BY <1>3, <1>5
  <1>7. ASSUME NEW y \in S PROVE m >= y
    <2>1. f[m] <= f[y]
      BY <1>3, <1>5, <1>6
    <2>2. QED
      BY <1>2, <2>1
  <1>8. QED
    BY <1>7 DEF Max

LEMMA RoundBetween ==
    ASSUME NEW n \in Int, NEW d \in Nat \ {0}, NEW lo \in Int, NEW hi \in Int,
           lo * d <= n, n <= hi * d
    PROVE  Round(n, d) \in Int /\ lo <= Round(n, d) /\ Round(n, d) <= hi
  <1>1. /\ Round(n, d) \in Int
        /\ (Round(n, d) >= lo <=> 2 * n >= (2 * lo - 1) * d)
        /\ (Round(n, d) >= hi + 1 <=> 2 * n >= (2 * (hi + 1) - 1) * d)
    BY NearestReaches DEF Round
  <1>2. PICK a \in Int, b \in Int : a = lo * d /\ b = hi * d
    BY Products
  <1>3. (2 * lo - 1) * d = 2 * a - d /\ (2 * (hi + 1) - 1) * d = 2 * b + d
    BY <1>2
  <1>4. QED
    BY <1>1, <1>2, <1>3

(* A weighted mean is between any bounds of what it is the mean of.           *)
LEMMA MeanBetween ==
    ASSUME NEW T, IsFiniteSet(T), T # {}, NEW lo \in Int, NEW hi \in Int,
           NEW w, \A x \in T : w[x] \in Nat \ {0},
           NEW a, \A x \in T : a[x] \in Int /\ lo <= a[x] /\ a[x] <= hi,
           NEW p, \A x \in T : p[x] = a[x] * w[x]
    PROVE  /\ SumFunctionOnSet(w, T) \in Nat \ {0} /\ SumFunctionOnSet(p, T) \in Int
           /\ Round(SumFunctionOnSet(p, T), SumFunctionOnSet(w, T)) \in lo .. hi
  <1>1. Integral(w, T) /\ Integral(p, T)
    <2>1. \A x \in T : p[x] \in Int
      BY Products
    <2>2. QED
      BY <2>1 DEF Integral
  <1> DEFINE low == [x \in T |-> lo * w[x]]
             high == [x \in T |-> hi * w[x]]
  <1>2. /\ SumFunctionOnSet(low, T) = lo * SumFunctionOnSet(w, T) /\ Integral(low, T)
        /\ SumFunctionOnSet(high, T) = hi * SumFunctionOnSet(w, T) /\ Integral(high, T)
    <2>1. (\A x \in T : low[x] = lo * w[x]) /\ \A x \in T : high[x] = hi * w[x]
      OBVIOUS
    <2> HIDE DEF low, high
    <2>2. QED
      BY <1>1, <2>1, SumOfMultiples
  <1>3. ASSUME NEW x \in T PROVE low[x] <= p[x] /\ p[x] <= high[x]
    <2>1. PICK k \in Nat \ {0}, c \in Int : k = w[x] /\ c = a[x] /\ lo <= c /\ c <= hi
      OBVIOUS
    <2>2. lo * k <= c * k /\ c * k <= hi * k
      BY <2>1
    <2>3. QED
      BY <2>1, <2>2
  <1> HIDE DEF low, high
  <1>4. /\ SumFunctionOnSet(low, T) <= SumFunctionOnSet(p, T)
        /\ SumFunctionOnSet(p, T) <= SumFunctionOnSet(high, T)
    BY <1>1, <1>2, <1>3, SumAtMost
  <1>5. SumFunctionOnSet(w, T) \in Nat \ {0}
    <2>1. PICK x \in T : TRUE
      OBVIOUS
    <2>2. SumFunctionOnSet(w, T) = w[x] + SumFunctionOnSet(w, T \ {x})
      BY <1>1, SumTakesOut
    <2>3. SumFunctionOnSet(w, T \ {x}) \in Nat
      <3>1. IsFiniteSet(T \ {x}) /\ \A y \in T \ {x} : w[y] \in Nat
        BY FS_Subset
      <3>2. QED
        BY <3>1, SumIsNatural
    <2>4. QED
      BY <2>2, <2>3
  <1>6. SumFunctionOnSet(p, T) \in Int
    BY <1>1, SumIsInteger
  <1>7. QED
    BY <1>2, <1>4, <1>5, <1>6, RoundBetween

LEMMA RowMeans ==
    ASSUME NEW rows, IsFiniteSet(rows), rows # {}, \A r \in rows : r.apy \in Nat /\ r.alloc \in Nat,
           NEW lo \in Int, NEW hi \in Int, \A r \in rows : lo <= r.apy /\ r.apy <= hi
    PROVE  Mean(rows) \in lo .. hi /\ Blend(rows) \in lo .. hi
  <1> DEFINE a == [r \in rows |-> r.apy]
             one == [r \in rows |-> 1]
             w == [r \in rows |-> Weight(r)]
             p == [r \in rows |-> r.apy * Weight(r)]
  <1>1. \A r \in rows : a[r] \in Int /\ lo <= a[r] /\ a[r] <= hi /\ a[r] = r.apy
    OBVIOUS
  <1>2. \A r \in rows : one[r] = 1 /\ one[r] \in Nat \ {0} /\ a[r] = a[r] * one[r]
    BY <1>1
  <1>3. \A r \in rows : w[r] = Weight(r) /\ w[r] \in Nat \ {0} /\ p[r] = a[r] * w[r]
    BY <1>1 DEF Weight
  <1>4. /\ Total(LAMBDA r : r.apy, rows) = SumFunctionOnSet(a, rows)
        /\ Total(LAMBDA r : r.apy * Weight(r), rows) = SumFunctionOnSet(p, rows)
        /\ Total(Weight, rows) = SumFunctionOnSet(w, rows)
    BY DEF Total
  <1> HIDE DEF a, one, w, p
  <1>5. Round(SumFunctionOnSet(a, rows), SumFunctionOnSet(one, rows)) \in lo .. hi
    BY <1>1, <1>2, MeanBetween
  <1>6. Round(SumFunctionOnSet(p, rows), SumFunctionOnSet(w, rows)) \in lo .. hi
    BY <1>1, <1>3, MeanBetween
  <1>7. SumFunctionOnSet(one, rows) = Cardinality(rows)
    BY <1>2, SumCounts
  <1>8. QED
    BY <1>4, <1>5, <1>6, <1>7 DEF Mean, Blend

(* The same between the rates of a finite set in which every row's rate is.   *)
LEMMA WithinRates ==
    ASSUME NEW rows, IsFiniteSet(rows), rows # {}, \A r \in rows : r.apy \in Nat /\ r.alloc \in Nat,
           NEW rates, IsFiniteSet(rates), \A x \in rates : x \in Int,
           \A r \in rows : r.apy \in rates
    PROVE  /\ Mean(rows) \in Int /\ Within(Mean(rows), rates)
           /\ Blend(rows) \in Int /\ Within(Blend(rows), rates)
  <1>1. rates # {}
    OBVIOUS
  <1>2. /\ Min(rates) \in Int /\ Max(rates) \in Int
        /\ \A r \in rows : Min(rates) <= r.apy /\ r.apy <= Max(rates)
    BY <1>1, LeastIs, GreatestIs
  <1>3. Mean(rows) \in Min(rates) .. Max(rates) /\ Blend(rows) \in Min(rates) .. Max(rates)
    BY <1>2, RowMeans
  <1>4. QED
    BY <1>2, <1>3 DEF Within

-----------------------------------------------------------------------------
(* The averages.                                                              *)

(* A row of the table: the vault it is of, and that this vault had its rate.  *)
LEMMA RowsAre ==
    ASSUME RInv, NEW r \in snaps
    PROVE  /\ r.at \in Nat /\ r.apy \in Nat /\ r.alloc \in Nat /\ r.bucket = HourBucket(r.at)
           /\ \E h \in Had : /\ h[1] \in Nat /\ h[1] >= r.at /\ h[1] <= r.at + Lag
                             /\ h[2] \in VaultRows /\ h[2].id = r.vault /\ h[2].apy = r.apy
                             /\ h[2].asset = r.asset
  <1>1. PICK t \in held : Explains(t, r)
    BY DEF RInv, Explained
  <1>2. PICK v \in ActiveOf(t[2]) : r = RateRow(v, r.at)
    BY <1>1 DEF Explains
  <1>3. /\ t[1] \in Nat /\ r.at \in Nat /\ t[1] >= r.at /\ t[1] <= r.at + Lag
        /\ v \in t[2] /\ t[2] \subseteq VaultRows
    BY <1>1, <1>2 DEF Explains, ReadFrom, RInv, Tabled, IsHeld, ActiveOf
  <1>4. IsVault(v)
    BY <1>3, VaultAssumption
  <1>5. /\ r.vault = v.id /\ r.asset = v.asset /\ r.apy = v.apy /\ r.alloc = v.alloc
        /\ r.bucket = HourBucket(r.at)
    BY <1>2 DEF RateRow
  <1>6. PICK h : h = <<t[1], v>>
    OBVIOUS
  <1>7. h \in Had
    BY <1>3, <1>6 DEF Had
  <1>8. h[1] = t[1] /\ h[2] = v
    BY <1>6
  <1>9. QED
    BY <1>3, <1>4, <1>5, <1>7, <1>8 DEF IsVault

LEMMA HadIsFinite ==
    ASSUME RInv
    PROVE  IsFiniteSet(Had) /\ \A h \in Had : h[2].apy \in Int
  <1> DEFINE of == [h \in held |-> {<<h[1], v>> : v \in h[2]}]
  <1>1. ASSUME NEW h \in held PROVE IsFiniteSet(of[h]) /\ \A k \in of[h] : k[2].apy \in Int
    <2>1. IsHeld(h)
      BY DEF RInv, Tabled
    <2> DEFINE pair == [v \in h[2] |-> <<h[1], v>>]
    <2>2. of[h] = {pair[v] : v \in h[2]}
      OBVIOUS
    <2>3. \A v \in h[2] : pair[v][2] = v /\ v.apy \in Int
      BY <2>1, VaultAssumption DEF IsHeld, IsVault
    <2> HIDE DEF pair, of
    <2>4. IsFiniteSet({pair[v] : v \in h[2]})
      BY <2>1, ImageIsFinite DEF IsHeld
    <2>5. QED
      BY <2>2, <2>3, <2>4
  <1>2. Had = UNION {of[h] : h \in held}
    BY DEF Had
  <1> HIDE DEF of
  <1>3. IsFiniteSet(held)
    BY DEF RInv, Tabled
  <1>4. IsFiniteSet({of[h] : h \in held})
    BY <1>3, ImageIsFinite
  <1>5. \A s \in {of[h] : h \in held} : IsFiniteSet(s)
    BY <1>1
  <1>6. IsFiniteSet(UNION {of[h] : h \in held})
    BY <1>4, <1>5, FS_UNION
  <1>7. QED
    BY <1>1, <1>2, <1>6

LEMMA RatesAre ==
    ASSUME RInv, NEW H, H \subseteq Had
    PROVE  IsFiniteSet({h[2].apy : h \in H}) /\ \A x \in {h[2].apy : h \in H} : x \in Int
  <1>1. IsFiniteSet(H) /\ \A h \in H : h[2].apy \in Int
    BY HadIsFinite, FS_Subset
  <1> DEFINE f == [h \in H |-> h[2].apy]
  <1>2. {h[2].apy : h \in H} = {f[h] : h \in H}
    OBVIOUS
  <1> HIDE DEF f
  <1>3. IsFiniteSet({f[h] : h \in H})
    BY <1>1, ImageIsFinite
  <1>4. QED
    BY <1>1, <1>2, <1>3

(* The rows that an average of the last `window` is taken of.                 *)
Recent(v, window) == {r \in snaps : r.at >= now - window /\ r.vault = v.id}

LEMMA RecentRows ==
    ASSUME RInv, NEW v \in vaults
    PROVE  /\ TrailingAverage(snaps, v, Week, now) = Mean(Recent(v, Week))
           /\ TrailingAverage(snaps, v, Month, now) = Mean(Recent(v, Month))
           /\ ApyHistory(snaps, v, Week, now) = Mean(Recent(v, Week))
           /\ ApyHistory(snaps, v, Month, now) = Mean(Recent(v, Month))
           /\ v.status = "active" =>
                 [vault |-> v.id, avg |-> Mean(Recent(v, Week))]
                   \in YieldHistory(vaults, snaps, v.asset, now).breakdown
  <1>1. now \in Nat /\ Week \in Nat /\ Month \in Nat /\ Week <= Month /\ \A r \in snaps : r.at \in Nat
    BY RowsAre, WindowAssumption DEF RInv, IInv, Table
  <1>2. {r \in OfVault(History(snaps, now - Month), v) : r.at >= now - Week} = Recent(v, Week)
    BY <1>1 DEF OfVault, History, Recent
  <1>3. {r \in OfVault(History(snaps, now - Month), v) : r.at >= now - Month} = Recent(v, Month)
    BY <1>1 DEF OfVault, History, Recent
  <1>4. /\ OfVault(History(snaps, now - Week), v) = Recent(v, Week)
        /\ OfVault(History(snaps, now - Month), v) = Recent(v, Month)
    BY <1>1 DEF OfVault, History, Recent
  <1>5. ASSUME v.status = "active"
        PROVE  [vault |-> v.id, avg |-> Mean(Recent(v, Week))]
                 \in YieldHistory(vaults, snaps, v.asset, now).breakdown
    <2> DEFINE rows == {r \in History(snaps, now - Month) : r.asset = v.asset}
    <2>1. ASSUME NEW r \in snaps, r.vault = v.id PROVE r.asset = v.asset
      <3>1. PICK h \in Had : h[2] \in VaultRows /\ h[2].id = r.vault /\ h[2].asset = r.asset
        BY RowsAre
      <3>2. v \in VaultRows
        BY DEF RInv, Tabled
      <3>3. QED
        BY <2>1, <3>1, <3>2, VaultAssumption
    <2>2. {r \in OfVault(rows, v) : r.at >= now - Week} = Recent(v, Week)
      BY <1>1, <2>1 DEF OfVault, History, Recent
    <2>3. YieldHistory(vaults, snaps, v.asset, now).breakdown =
            {[vault |-> w.id, avg |-> Mean({r \in OfVault(rows, w) : r.at >= now - Week})]
               : w \in {w \in vaults : w.asset = v.asset /\ w.status = "active"}}
      BY DEF YieldHistory
    <2> HIDE DEF rows
    <2>4. v \in {w \in vaults : w.asset = v.asset /\ w.status = "active"}
      BY <1>5
    <2>5. QED
      BY <2>2, <2>3, <2>4
  <1>6. QED
    BY <1>2, <1>3, <1>4, <1>5 DEF TrailingAverage, ApyHistory

(* What a vault's week shows.                                                 *)
LEMMA WeekIs ==
    ASSUME RInv, NEW v \in vaults,
           NEW H, H = {h \in Had : h[1] >= now - Week /\ h[2].id = v.id}
    PROVE  /\ Mean(Recent(v, Week)) = Null <=> \A r \in snaps : r.vault = v.id => r.at < now - Week
           /\ Mean(Recent(v, Week)) # Null => Within(Mean(Recent(v, Week)), {h[2].apy : h \in H})
  <1>1. now \in Nat /\ Week \in Nat /\ \A r \in snaps : r.at \in Nat /\ r.apy \in Nat /\ r.alloc \in Nat
    BY RowsAre, WindowAssumption DEF RInv, IInv, Table
  <1>2. CASE Recent(v, Week) = {}
    <2>1. Mean(Recent(v, Week)) = Null
      BY <1>2 DEF Mean
    <2>2. \A r \in snaps : r.vault = v.id => ~(r.at >= now - Week)
      BY <1>2 DEF Recent
    <2>3. QED
      BY <1>1, <2>1, <2>2
  <1>3. CASE Recent(v, Week) # {}
    <2>1. IsFiniteSet(Recent(v, Week))
      BY FS_Subset DEF Recent, RInv, IInv, Table
    <2>2. IsFiniteSet({h[2].apy : h \in H}) /\ \A x \in {h[2].apy : h \in H} : x \in Int
      BY RatesAre
    <2>3. ASSUME NEW r \in Recent(v, Week) PROVE r.apy \in {h[2].apy : h \in H}
      <3>1. r \in snaps /\ r.at >= now - Week /\ r.vault = v.id
        BY DEF Recent
      <3>2. PICK h \in Had : h[1] \in Nat /\ h[1] >= r.at /\ h[2].id = r.vault /\ h[2].apy = r.apy
        BY <3>1, RowsAre
      <3>3. h \in H
        BY <1>1, <3>1, <3>2
      <3>4. QED
        BY <3>2, <3>3
    <2>4. \A r \in Recent(v, Week) : r.apy \in Nat /\ r.alloc \in Nat
      BY <1>1 DEF Recent
    <2> PICK rates : rates = {h[2].apy : h \in H}
      OBVIOUS
    <2>5. /\ Mean(Recent(v, Week)) \in Int
          /\ Within(Mean(Recent(v, Week)), rates)
      BY <1>3, <2>1, <2>2, <2>3, <2>4, WithinRates
    <2>6. ~ \A r \in snaps : r.vault = v.id => r.at < now - Week
      <3>1. PICK r \in Recent(v, Week) : TRUE
        BY <1>3
      <3>2. r \in snaps /\ r.at >= now - Week /\ r.vault = v.id
        BY <3>1 DEF Recent
      <3>3. QED
        BY <1>1, <3>2
    <2>7. QED
      BY <2>5, <2>6, NullAssumption
  <1>4. QED
    BY <1>2, <1>3

(* A point of the yield curve.                                                *)
LEMMA PointsAre ==
    ASSUME RInv, NEW asset, NEW p \in YieldHistory(vaults, snaps, asset, now).history,
           NEW H, H = {h \in Had : h[1] >= p.day * Day /\ h[1] < (p.day + 1) * Day + Lag
                                     /\ h[2].asset = asset}
    PROVE  Within(p.apy, {h[2].apy : h \in H})
  <1>1. now \in Nat /\ Day \in Nat \ {0} /\ Lag \in Nat
        /\ \A r \in snaps : r.at \in Nat /\ r.apy \in Nat /\ r.alloc \in Nat
    BY RowsAre, WindowAssumption, LagAssumption DEF RInv, IInv, Table
  <1> DEFINE rows == {r \in History(snaps, now - Month) : r.asset = asset}
             On(d) == {r \in rows : r.at \div Day = d}
  <1>2. PICK r0 \in rows : p = [day |-> r0.at \div Day, apy |-> Blend(On(r0.at \div Day))]
    BY DEF YieldHistory
  <1>3. p.day = r0.at \div Day /\ p.apy = Blend(On(p.day)) /\ r0 \in On(p.day)
    BY <1>2
  <1>4. PICK day : day = On(p.day)
    OBVIOUS
  <1>5. \A r \in day : r \in snaps /\ r.at \div Day = p.day /\ r.asset = asset
    BY <1>4 DEF History
  <1>6. day # {} /\ p.apy = Blend(day)
    BY <1>3, <1>4
  <1> HIDE DEF rows, On
  <1>7. IsFiniteSet(day)
    BY <1>5, FS_Subset DEF RInv, IInv, Table
  <1>8. ASSUME NEW r \in day PROVE r.apy \in {h[2].apy : h \in H}
    <2>1. r \in snaps /\ r.at \div Day = p.day /\ r.asset = asset /\ r.at \in Nat
      BY <1>1, <1>5
    <2>2. PICK h \in Had : /\ h[1] \in Nat /\ h[1] >= r.at /\ h[1] <= r.at + Lag
                           /\ h[2].apy = r.apy /\ h[2].asset = r.asset
      BY <2>1, RowsAre
    <2>3. p.day \in Nat /\ p.day * Day <= r.at /\ r.at < (p.day + 1) * Day
      BY <1>1, <2>1
    <2>4. PICK b \in Nat, e \in Nat : b = p.day * Day /\ e = (p.day + 1) * Day
      BY <1>1, <2>3, Products
    <2>5. h[1] >= b /\ h[1] < e + Lag
      BY <1>1, <2>1, <2>2, <2>3, <2>4
    <2>6. h \in H
      BY <2>1, <2>2, <2>4, <2>5
    <2>7. QED
      BY <2>2, <2>6
  <1>9. IsFiniteSet({h[2].apy : h \in H}) /\ \A x \in {h[2].apy : h \in H} : x \in Int
    BY RatesAre
  <1>10. \A r \in day : r.apy \in Nat /\ r.alloc \in Nat
    BY <1>1, <1>5
  <1>11. PICK rates : rates = {h[2].apy : h \in H}
    OBVIOUS
  <1>12. Within(Blend(day), rates)
    BY <1>6, <1>7, <1>8, <1>9, <1>10, <1>11, WithinRates
  <1>13. QED
    BY <1>6, <1>11, <1>12

(* Whatever was recorded, by however many instances and builds: the routes    *)
(* that show a vault's week or month agree, show nothing if and only if       *)
(* nothing was recorded, and neither they nor the yield curve show a rate     *)
(* outside of what the vaults had (vaults.service.ts:41-118,                  *)
(* yield.service.ts:65-124).                                                  *)
THEOREM AveragesAreHonest == Spec => []AveragesHonest
  <1>1. ASSUME RInv, NEW row \in VaultList(vaults, snaps, Null, now),
               NEW v, v = CHOOSE w \in vaults : w.id = row.vault
        PROVE  /\ row.week = ApyHistory(snaps, v, Week, now)
               /\ row.month = ApyHistory(snaps, v, Month, now)
               /\ v.status = "active" =>
                     [vault |-> v.id, avg |-> row.week]
                         \in YieldHistory(vaults, snaps, v.asset, now).breakdown
               /\ row.week = Null <=> \A r \in snaps : r.vault = v.id => r.at < now - Week
               /\ row.week # Null =>
                     Within(row.week,
                            {h[2].apy : h \in {h \in Had : h[1] >= now - Week /\ h[2].id = v.id}})
    <2>1. PICK w \in vaults : /\ row.vault = w.id
                              /\ row.week = TrailingAverage(snaps, w, Week, now)
                              /\ row.month = TrailingAverage(snaps, w, Month, now)
      BY <1>1 DEF VaultList
    <2>2. v = w
      BY <1>1, <2>1 DEF RInv, IInv, Table, Identified
    <2>3. PICK H : H = {h \in Had : h[1] >= now - Week /\ h[2].id = v.id}
      OBVIOUS
    <2>4. row.week = Mean(Recent(v, Week))
      BY <1>1, <2>1, <2>2, RecentRows
    <2>5. /\ row.week = Null <=> \A r \in snaps : r.vault = v.id => r.at < now - Week
          /\ row.week # Null => Within(row.week, {h[2].apy : h \in H})
      BY <1>1, <2>2, <2>3, <2>4, WeekIs
    <2>6. /\ row.week = ApyHistory(snaps, v, Week, now)
          /\ row.month = ApyHistory(snaps, v, Month, now)
          /\ v.status = "active" =>
                [vault |-> v.id, avg |-> row.week]
                    \in YieldHistory(vaults, snaps, v.asset, now).breakdown
      BY <1>1, <2>1, <2>2, <2>4, RecentRows
    <2>7. QED
      BY <2>3, <2>5, <2>6
  <1>2. ASSUME RInv, NEW asset, NEW p \in YieldHistory(vaults, snaps, asset, now).history
        PROVE  Within(p.apy, {h[2].apy : h \in
                  {h \in Had : h[1] >= p.day * Day /\ h[1] < (p.day + 1) * Day + Lag
                                 /\ h[2].asset = asset}})
    BY <1>2, PointsAre
  <1>3. RInv => AveragesHonest
    <2> SUFFICES ASSUME RInv PROVE AveragesHonest
      OBVIOUS
    <2>1. ASSUME NEW row \in VaultList(vaults, snaps, Null, now)
          PROVE  LET v == CHOOSE v \in vaults : v.id = row.vault
                     inWeek(h) == h[1] >= now - Week /\ h[2].id = v.id
                 IN  /\ row.week = ApyHistory(snaps, v, Week, now)
                     /\ row.month = ApyHistory(snaps, v, Month, now)
                     /\ v.status = "active" =>
                           [vault |-> v.id, avg |-> row.week]
                               \in YieldHistory(vaults, snaps, v.asset, now).breakdown
                     /\ row.week = Null <=> \A r \in snaps : r.vault = v.id => r.at < now - Week
                     /\ row.week # Null => Within(row.week, Rates(inWeek))
      BY <1>1 DEF Rates
    <2>2. ASSUME NEW asset \in {v.asset : v \in ActiveVaults},
                 NEW p \in YieldHistory(vaults, snaps, asset, now).history
          PROVE  LET onDay(h) == h[1] >= p.day * Day /\ h[1] < (p.day + 1) * Day + Lag
                                   /\ h[2].asset = asset
                 IN  Within(p.apy, Rates(onDay))
      BY <1>2 DEF Rates
    <2>3. QED
      BY <2>1, <2>2 DEF AveragesHonest
  <1>4. QED
    BY <1>3, TablesExplainRows, PTL

-----------------------------------------------------------------------------
(* Series of one rate.                                                        *)

(* Points at different times.                                                 *)
IsSeries(s) ==
    /\ IsFiniteSet(s) /\ \A p \in s : p.at \in Int
    /\ \A p, q \in s : p.at = q.at => p = q

LEMMA LatestPoint ==
    ASSUME NEW s, IsSeries(s), s # {}
    PROVE  \E m \in s : \A p \in s \ {m} : p.at < m.at
  <1> DEFINE f == [p \in s |-> p.at]
  <1>2. IsFiniteSet(s) /\ \A p \in s : f[p] = p.at /\ f[p] \in Int
    BY DEF IsSeries
  <1> HIDE DEF f
  <1>1. IsFiniteSet({f[p] : p \in s})
    BY <1>2, ImageIsFinite
  <1>3. PICK N : N = {f[p] : p \in s}
    OBVIOUS
  <1>4. N # {} /\ \A n \in N : n \in Int
    BY <1>2, <1>3
  <1>5. Max(N) \in N /\ \A n \in N : Max(N) >= n
    BY <1>1, <1>3, <1>4, GreatestIs
  <1>6. PICK m \in s : Max(N) = f[m]
    BY <1>3, <1>5
  <1>7. ASSUME NEW p \in s \ {m} PROVE p.at < m.at
    <2>1. f[p] <= f[m]
      BY <1>3, <1>4, <1>5, <1>6
    <2>2. p.at # m.at
      BY <1>7 DEF IsSeries
    <2>3. QED
      BY <1>2, <2>1, <2>2
  <1>8. QED
    BY <1>7

(* How far a point is from the middle, doubled.                               *)
Offside(s) == [p \in s |-> 2 * Index(s, p) - (Cardinality(s) - 1)]

LEMMA IndexIs ==
    ASSUME NEW s, IsFiniteSet(s), NEW p
    PROVE  Index(s, p) \in Nat
  <1>1. IsFiniteSet({q \in s : q.at < p.at})
    BY FS_Subset
  <1>2. QED
    BY <1>1, FS_CardinalityType DEF Index

(* The points of a series balance around the middle.                          *)
LEMMA SeriesBalances ==
    ASSUME NEW s, IsSeries(s)
    PROVE  Integral(Offside(s), s) /\ SumFunctionOnSet(Offside(s), s) = 0
  <1> DEFINE B == {r \in SUBSET s : SumFunctionOnSet(Offside(r), r) # 0}
  <1>0. ASSUME NEW r \in SUBSET s PROVE IsSeries(r) /\ Integral(Offside(r), r)
    <2>1. IsSeries(r)
      BY FS_Subset DEF IsSeries
    <2>2. Cardinality(r) \in Nat /\ \A p \in r : Index(r, p) \in Nat
      BY <2>1, IndexIs, FS_CardinalityType DEF IsSeries
    <2>3. \A p \in r : Offside(r)[p] \in Int
      BY <2>2 DEF Offside
    <2>4. QED
      BY <2>1, <2>3 DEF Integral, IsSeries
  <1>1. ASSUME NEW r \in B, \A u \in SUBSET r : u # r => u \notin B PROVE FALSE
    <2>1. r \in SUBSET s /\ SumFunctionOnSet(Offside(r), r) # 0
      OBVIOUS
    <2>2. r # {}
      BY <2>1, SumOfNone
    <2>3. PICK m \in r : \A p \in r \ {m} : p.at < m.at
      BY <1>0, <2>1, <2>2, LatestPoint
    <2>4. PICK rest : rest = r \ {m}
      OBVIOUS
    <2>5. rest \in SUBSET r /\ rest \in SUBSET s /\ rest # r /\ m \notin rest
      BY <2>1, <2>3, <2>4
    <2>6. SumFunctionOnSet(Offside(rest), rest) = 0
      BY <1>1, <2>5
    <2>7. /\ IsFiniteSet(rest) /\ Cardinality(rest) \in Nat
          /\ Cardinality(r) = Cardinality(rest) + 1
      <3>1. IsFiniteSet(r) /\ IsFiniteSet(rest)
        BY <1>0, <2>1, <2>5 DEF IsSeries
      <3>2. QED
        BY <2>3, <2>4, <3>1, FS_CardinalityType, FS_RemoveElement
    <2>8. Offside(r)[m] = Cardinality(rest)
      <3>1. {q \in r : q.at < m.at} = rest
        <4>1. ~(m.at < m.at)
          BY <1>0, <2>1 DEF IsSeries
        <4>2. QED
          BY <2>3, <2>4, <4>1
      <3>2. Index(r, m) = Cardinality(rest)
        BY <3>1 DEF Index
      <3>3. QED
        BY <2>3, <2>7, <3>2 DEF Offside
    <2>9. ASSUME NEW p \in rest PROVE Offside(r)[p] = Offside(rest)[p] - 1
      <3>1. ~(m.at < p.at)
        <4>1. m.at \in Int /\ p.at \in Int /\ p.at < m.at
          BY <1>0, <2>1, <2>3, <2>4 DEF IsSeries
        <4>2. QED
          BY <4>1
      <3>2. {q \in r : q.at < p.at} = {q \in rest : q.at < p.at}
        BY <2>4, <3>1
      <3>3. Index(r, p) = Index(rest, p) /\ Index(rest, p) \in Nat
        BY <2>7, <3>2, IndexIs DEF Index
      <3>4. QED
        BY <2>4, <2>7, <3>3 DEF Offside
    <2> DEFINE less == [p \in rest |-> -1]
    <2>10. (\A p \in rest : less[p] = -1) /\ Integral(less, rest)
      BY <2>7 DEF Integral
    <2> HIDE DEF less
    <2>11. SumFunctionOnSet(less, rest) = (-1) * Cardinality(rest)
      BY <2>7, <2>10, SumOfConstant
    <2>12. Integral(Offside(rest), rest) /\ Integral(Offside(r), r)
      BY <1>0, <2>1, <2>5
    <2>13. \A p \in rest : Offside(r)[p] = Offside(rest)[p] + less[p]
      <3>1. \A p \in rest : Offside(rest)[p] \in Int
        BY <2>12 DEF Integral
      <3>2. QED
        BY <2>9, <2>10, <3>1
    <2>14. SumFunctionOnSet(Offside(r), rest)
             = SumFunctionOnSet(Offside(rest), rest) + SumFunctionOnSet(less, rest)
      BY <2>10, <2>12, <2>13, SumOfSums
    <2>15. SumFunctionOnSet(Offside(r), r) = Offside(r)[m] + SumFunctionOnSet(Offside(r), rest)
      BY <2>3, <2>4, <2>12, SumTakesOut
    <2>16. SumFunctionOnSet(Offside(r), r) = 0
      BY <2>6, <2>7, <2>8, <2>11, <2>14, <2>15
    <2>17. QED
      BY <2>1, <2>16
  <1>2. B = {}
    <2>1. SUFFICES ASSUME B # {} PROVE FALSE
      OBVIOUS
    <2>2. B \subseteq SUBSET s
      OBVIOUS
    <2>3. IsFiniteSet(s)
      BY DEF IsSeries
    <2> HIDE DEF B
    <2>4. PICK r \in B : \A u \in SUBSET r : u # r => u \notin B
      BY <2>1, <2>2, <2>3, SmallestBad
    <2>5. QED
      BY <1>1, <2>4
  <1>3. s \in SUBSET s
    OBVIOUS
  <1>4. QED
    BY <1>0, <1>2, <1>3

(* A series of one rate neither rises nor falls, and it does not vary.        *)
LEMMA FlatSeries ==
    ASSUME NEW s, IsSeries(s), NEW c \in Int, \A p \in s : p.apy = c
    PROVE  Rise(s) = 0 /\ Spread(s) = 0
  <1>1. IsFiniteSet(s) /\ Cardinality(s) \in Nat
    BY FS_CardinalityType DEF IsSeries
  <1>2. PICK n \in Nat : n = Cardinality(s)
    BY <1>1
  <1>3. Rise(s) = 0
    <2> DEFINE f == [p \in s |-> (2 * Index(s, p) - (Cardinality(s) - 1)) * p.apy]
    <2>1. Total(LAMBDA p : (2 * Index(s, p) - (Cardinality(s) - 1)) * p.apy, s) = SumFunctionOnSet(f, s)
      BY DEF Total
    <2>2. ASSUME NEW p \in s PROVE f[p] = c * Offside(s)[p]
      <3>1. PICK k \in Int : k = 2 * Index(s, p) - (Cardinality(s) - 1)
        BY <1>1, IndexIs
      <3>2. f[p] = k * c /\ Offside(s)[p] = k
        BY <3>1 DEF Offside
      <3>3. QED
        BY <3>2
    <2> HIDE DEF f
    <2>3. SumFunctionOnSet(f, s) = c * 0
      BY <2>2, SeriesBalances, SumOfMultiples
    <2>4. Rise(s) = 6 * Total(LAMBDA p : (2 * Index(s, p) - (Cardinality(s) - 1)) * p.apy, s)
      BY Zenon DEF Rise
    <2>5. Rise(s) = 6 * SumFunctionOnSet(f, s)
      BY Zenon, <2>1, <2>4
    <2>6. QED
      BY <2>3, <2>5
  <1>4. Spread(s) = 0
    <2> DEFINE f == [p \in s |-> p.apy]
               g == [p \in s |-> p.apy * p.apy]
    <2>1. /\ Total(LAMBDA p : p.apy, s) = SumFunctionOnSet(f, s)
          /\ Total(LAMBDA p : p.apy * p.apy, s) = SumFunctionOnSet(g, s)
      BY DEF Total
    <2>2. PICK k \in Int : k = c * c
      BY Products
    <2>3. (\A p \in s : f[p] = c) /\ \A p \in s : g[p] = k
      BY <2>2
    <2> HIDE DEF f, g
    <2>4. SumFunctionOnSet(f, s) = c * n /\ SumFunctionOnSet(g, s) = k * n
      BY <1>1, <1>2, <2>3, SumOfConstant
    <2>5. n * (k * n) - (c * n) * (c * n) = 0
      BY <2>2
    <2>6. QED
      BY <1>2, <2>1, <2>4, <2>5 DEF Spread
  <1>5. QED
    BY <1>3, <1>4

LEMMA EnoughPoints ==
    ASSUME NEW s, IsSeries(s), Enough(s)
    PROVE  Run(s) \in Nat \ {0} /\ Pairs(s) \in Nat \ {0} /\ s # {}
  <1>1. PICK n \in Nat : n = Cardinality(s) /\ n >= 3
    BY FS_CardinalityType DEF IsSeries, Enough, MinObservations
  <1>2. n * (n - 1) \in Nat \ {0}
    BY <1>1
  <1>3. n * n >= 3 * n
    BY <1>1
  <1>4. n * n - 1 \in Nat \ {0}
    BY <1>1, <1>3
  <1>5. \A a, b \in Nat \ {0} : a * b \in Nat \ {0}
    BY SMT
  <1>6. n * (n * n - 1) \in Nat \ {0}
    BY <1>1, <1>4, <1>5
  <1>7. s # {}
    BY <1>1, FS_EmptySet
  <1>8. QED
    BY <1>1, <1>2, <1>6, <1>7 DEF Run, Pairs

LEMMA FlatIsStable ==
    ASSUME NEW s, IsSeries(s), Enough(s), NEW c \in Int, \A p \in s : p.apy = c
    PROVE  /\ ClassifyRegime(s) = "stable"
           /\ Round(24 * Rise(s), Run(s)) = 0
           /\ c \in Nat => Volatility(s) = 0
  <1>1. PICK run \in Nat \ {0}, pairs \in Nat \ {0} : run = Run(s) /\ pairs = Pairs(s)
    BY EnoughPoints
  <1>2. Rise(s) = 0 /\ Spread(s) = 0 /\ s # {}
    BY FlatSeries, EnoughPoints
  <1>3. ClassifyRegime(s) = "stable"
    BY <1>1, <1>2 DEF ClassifyRegime
  <1>4. Round(0, run) = 0
    BY RoundBetween
  <1>5. ASSUME c \in Nat PROVE Volatility(s) = 0
    <2>1. {p.apy : p \in s} = {c}
      BY <1>2
    <2>2. Max({c}) = c
      BY <1>5 DEF Max
    <2> DEFINE P(d) == /\ (2 * d + 1) * (2 * d + 1) * pairs > 4 * 0
                       /\ d = 0 \/ (2 * d - 1) * (2 * d - 1) * pairs <= 4 * 0
    <2>3. Volatility(s) = CHOOSE d \in 0 .. c : P(d)
      BY <1>1, <1>2, <2>1, <2>2 DEF Volatility
    <2>4. 0 \in 0 .. c /\ P(0)
      BY <1>5
    <2>5. ASSUME NEW d \in 0 .. c, P(d) PROVE d = 0
      <3>1. SUFFICES ASSUME d # 0 PROVE FALSE
        OBVIOUS
      <3>2. PICK k \in Nat \ {0} : k = 2 * d - 1
        BY <3>1
      <3>3. \A a, b \in Nat \ {0} : a * b \in Nat \ {0}
        BY SMT
      <3>4. (k * k) * pairs \in Nat \ {0}
        BY <3>3
      <3>5. QED
        BY <2>5, <3>1, <3>2, <3>4
    <2> HIDE DEF P
    <2>6. QED
      BY <2>3, <2>4, <2>5
  <1>6. QED
    BY <1>1, <1>2, <1>3, <1>4, <1>5

-----------------------------------------------------------------------------
(* While the table stands still.                                              *)

(* Since the hour in which the window starts every row was read from the table *)
(* as it is.                                                                  *)
LEMMA StillTable ==
    ASSUME RInv, Still, NEW r \in snaps, HourBucket(r.at) >= HourBucket(now - Month),
           NEW h \in held, Explains(h, r)
    PROVE  h[2] = vaults
  <1>1. PICK k \in Int : k = HourBucket(now - Month)
    BY Lengths, WindowAssumption, QuotientReaches DEF HourBucket, RInv, IInv, Table
  <1>2. PICK start \in Int : start = k * Hour
    BY Lengths, Products
  <1>3. r.at \in Nat /\ h[1] \in Nat /\ h[1] >= r.at
    BY RowsAre DEF Explains, ReadFrom, RInv, Tabled, IsHeld
  <1>4. r.at >= start
    BY <1>1, <1>2, <1>3, Lengths, QuotientReaches DEF HourBucket
  <1>5. h[1] >= HourBucket(now - Month) * Hour
    BY <1>1, <1>2, <1>3, <1>4
  <1>6. h[2] # {}
    BY DEF Explains, ActiveOf
  <1>7. QED
    BY <1>5, <1>6 DEF Still

(* So every recording in the window left a row for each of its vaults, and    *)
(* nothing else.                                                              *)
LEMMA StillRows ==
    ASSUME RInv, Still, NEW r \in snaps, r.at >= now - Month
    PROVE  /\ \E v \in ActiveVaults : r = RateRow(v, r.at)
           /\ \A v \in ActiveVaults : RateRow(v, r.at) \in snaps
  <1>1. now \in Nat /\ Month \in Nat /\ r.at \in Nat /\ r.bucket = HourBucket(r.at)
    BY RowsAre, WindowAssumption DEF RInv, IInv, Table
  <1>2. HourBucket(r.at) >= HourBucket(now - Month)
    <2>1. PICK k \in Int : k = HourBucket(now - Month) /\ now - Month >= k * Hour
      <3>1. HourBucket(now - Month) \in Int
        BY <1>1, Lengths, QuotientReaches DEF HourBucket
      <3>2. now - Month >= HourBucket(now - Month) * Hour
        <4>1. PICK k \in Int : k = HourBucket(now - Month)
          BY <3>1
        <4>2. k >= k
          OBVIOUS
        <4>3. QED
          BY <1>1, <4>1, <4>2, Lengths, QuotientReaches DEF HourBucket
      <3>3. QED
        BY <3>1, <3>2
    <2>2. PICK start \in Int : start = k * Hour
      BY Lengths, Products
    <2>3. r.at >= k * Hour
      BY <1>1, <2>1, <2>2
    <2>4. QED
      BY <1>1, <2>1, <2>3, Lengths, QuotientReaches DEF HourBucket
  <1>3. PICK h \in held : Explains(h, r) /\ Covered(h, r.bucket)
    BY DEF RInv, Explained
  <1>4. h[2] = vaults
    BY <1>2, <1>3, StillTable
  <1>5. \E v \in ActiveVaults : r = RateRow(v, r.at)
    BY <1>3, <1>4 DEF Explains, ActiveVaults
  <1>6. ASSUME NEW v \in ActiveVaults PROVE RateRow(v, r.at) \in snaps
    <2>1. PICK s \in snaps : s.vault = v.id /\ s.bucket = r.bucket
      BY <1>3, <1>4 DEF Covered, ActiveVaults
    <2>2. HourBucket(s.at) >= HourBucket(now - Month)
      BY <1>1, <1>2, <2>1, RowsAre
    <2>3. s.at = r.at
      <3>1. SUFFICES ASSUME s.at # r.at PROVE FALSE
        OBVIOUS
      <3>2. PICK g \in held, k \in held : Explains(g, s) /\ Explains(k, r) /\ g[2] # k[2]
        BY <2>1, <3>1 DEF RInv, Differing
      <3>3. g[2] = vaults /\ k[2] = vaults
        BY <1>2, <2>2, <3>2, StillTable
      <3>4. QED
        BY <3>2, <3>3
    <2>4. PICK g \in held : Explains(g, s)
      BY DEF RInv, Explained
    <2>5. g[2] = vaults
      BY <2>2, <2>4, StillTable
    <2>6. PICK w \in ActiveVaults : s = RateRow(w, s.at)
      BY <2>4, <2>5 DEF Explains, ActiveVaults
    <2>7. w.id = v.id
      BY <2>1, <2>6 DEF RateRow
    <2>8. w = v
      BY <2>7 DEF ActiveVaults, ActiveOf, RInv, IInv, Table, Identified
    <2>9. QED
      BY <2>3, <2>6, <2>8
  <1>7. QED
    BY <1>5, <1>6

(* The blend of what one recording left is the blend of its vaults.           *)
LEMMA BlendOfTable ==
    ASSUME NEW V, IsFiniteSet(V), Identified(V), \A v \in V : v.apy \in Nat /\ v.alloc \in Nat,
           NEW wv, \A v \in V : wv[v] = Weight(v), NEW pv, \A v \in V : pv[v] = v.apy * Weight(v),
           NEW t
    PROVE  Blend({RateRow(v, t) : v \in V})
             = Round(SumFunctionOnSet(pv, V), SumFunctionOnSet(wv, V))
  <1> DEFINE row == [v \in V |-> RateRow(v, t)]
             rows == {row[v] : v \in V}
             w == [r \in rows |-> Weight(r)]
             p == [r \in rows |-> r.apy * Weight(r)]
  <1>1. {RateRow(v, t) : v \in V} = rows
    OBVIOUS
  <1>2. Total(LAMBDA r : r.apy * Weight(r), rows) = SumFunctionOnSet(p, rows)
        /\ Total(Weight, rows) = SumFunctionOnSet(w, rows)
    BY DEF Total
  <1>3. ASSUME NEW v \in V
        PROVE  /\ row[v].vault = v.id /\ w[row[v]] = wv[v] /\ p[row[v]] = pv[v]
               /\ wv[v] \in Int /\ pv[v] \in Int
    <2>1. RateRow(v, t).vault = v.id /\ RateRow(v, t).apy = v.apy /\ RateRow(v, t).alloc = v.alloc
      BY DEF RateRow
    <2>2. Weight(RateRow(v, t)) = Weight(v) /\ Weight(v) \in Nat
      BY <2>1 DEF Weight
    <2>3. row[v] = RateRow(v, t) /\ row[v] \in rows
      OBVIOUS
    <2>4. w[row[v]] = Weight(v) /\ p[row[v]] = v.apy * Weight(v)
      BY <2>1, <2>2, <2>3
    <2>5. v.apy * Weight(v) \in Int
      BY <2>2, Products
    <2>6. QED
      BY <2>1, <2>2, <2>3, <2>4, <2>5
  <1> HIDE DEF row, w, p
  <1>4. ASSUME NEW u \in V, NEW v \in V, row[u] = row[v] PROVE u = v
    <2>1. row[u].vault = u.id /\ row[v].vault = v.id
      BY <1>3
    <2>2. u.id = v.id
      BY <1>4, <2>1
    <2>3. QED
      BY <2>2 DEF Identified
  <1>5. /\ SumFunctionOnSet(w, {row[v] : v \in V}) = SumFunctionOnSet(wv, V)
        /\ SumFunctionOnSet(p, {row[v] : v \in V}) = SumFunctionOnSet(pv, V)
    BY <1>3, <1>4, SumOverRows
  <1>6. QED
    BY <1>1, <1>2, <1>5 DEF Blend

(* The blend of rows is a rate.                                              *)
LEMMA MeansAreNatural ==
    ASSUME NEW rows, IsFiniteSet(rows), rows # {}, \A r \in rows : r.apy \in Nat /\ r.alloc \in Nat
    PROVE  Mean(rows) \in Nat /\ Blend(rows) \in Nat
  <1>1. PICK rates : rates = {r.apy : r \in rows}
    OBVIOUS
  <1>2. IsFiniteSet(rates)
    <2>1. PICK f : f = [r \in rows |-> r.apy]
      OBVIOUS
    <2>2. rates = {f[r] : r \in rows}
      BY <1>1, <2>1
    <2>3. QED
      BY <2>2, ImageIsFinite
  <1>3. PICK hi : hi = Max(rates)
    OBVIOUS
  <1>4. hi \in Int /\ \A r \in rows : 0 <= r.apy /\ r.apy <= hi
    <2>1. rates # {} /\ \A x \in rates : x \in Int
      BY <1>1
    <2>2. hi \in rates /\ \A x \in rates : hi >= x
      BY <1>2, <1>3, <2>1, GreatestIs
    <2>3. \A r \in rows : r.apy \in rates
      BY <1>1
    <2>4. QED
      BY <2>1, <2>2, <2>3
  <1>5. Mean(rows) \in 0 .. hi /\ Blend(rows) \in 0 .. hi
    BY <1>4, RowMeans
  <1>6. QED
    BY <1>4, <1>5

(* The blended rates of an asset are one rate.                                *)
LEMMA StillBlends ==
    ASSUME RInv, Still, NEW asset
    PROVE  /\ IsSeries(Blended(vaults, snaps, asset, now))
           /\ \E c \in Nat : \A p \in Blended(vaults, snaps, asset, now) : p.apy = c
  <1> DEFINE rows == {r \in History(snaps, now - Month) :
                        \E v \in vaults : v.id = r.vault /\ v.asset = asset /\ v.status = "active"}
             At(t) == {r \in rows : r.at = t}
  <1>0. PICK V : V = {v \in ActiveVaults : v.asset = asset}
    OBVIOUS
  <1>1. Blended(vaults, snaps, asset, now)
          = {[at |-> t, apy |-> Blend(At(t))] : t \in {r.at : r \in rows}}
    BY DEF Blended
  <1>2. /\ IsFiniteSet(V) /\ Identified(V) /\ V \subseteq vaults
        /\ \A v \in V : v.apy \in Nat /\ v.alloc \in Nat
    <2>1. V \subseteq vaults
      BY <1>0 DEF ActiveVaults, ActiveOf
    <2>2. IsFiniteSet(V) /\ Identified(V)
      BY <2>1, FS_Subset DEF RInv, IInv, Table, Identified
    <2>3. QED
      BY <2>1, <2>2, VaultAssumption DEF RInv, Tabled, IsVault
  <1>3. ASSUME NEW r0 \in rows PROVE At(r0.at) = {RateRow(v, r0.at) : v \in V} /\ V # {}
    <2>1. PICK t : t = r0.at
      OBVIOUS
    <2>2. r0 \in snaps /\ t >= now - Month
      BY <2>1 DEF History
    <2>3. ASSUME NEW r \in At(t) PROVE r \in {RateRow(v, t) : v \in V}
      <3>1. /\ r \in snaps /\ r.at = t
            /\ \E u \in vaults : u.id = r.vault /\ u.asset = asset /\ u.status = "active"
        BY <2>3 DEF History
      <3>2. PICK v \in ActiveVaults : r = RateRow(v, t)
        BY <2>2, <3>1, StillRows
      <3>3. v.id = r.vault
        BY <3>2 DEF RateRow
      <3>4. v \in V
        BY <1>0, <3>1, <3>2, <3>3 DEF ActiveVaults, ActiveOf, RInv, IInv, Table, Identified
      <3>5. QED
        BY <3>2, <3>4
    <2>4. ASSUME NEW v \in V PROVE RateRow(v, t) \in At(t)
      <3>1. RateRow(v, t) \in snaps
        BY <1>0, <2>1, <2>2, StillRows
      <3>2. RateRow(v, t).at = t /\ RateRow(v, t).vault = v.id
        BY DEF RateRow
      <3>3. v \in vaults /\ v.asset = asset /\ v.status = "active"
        BY <1>0 DEF ActiveVaults, ActiveOf
      <3>4. QED
        BY <2>2, <3>1, <3>2, <3>3 DEF History
    <2>5. r0 \in At(t)
      BY <2>1
    <2> HIDE DEF At
    <2>6. At(t) = {RateRow(v, t) : v \in V}
      BY <2>3, <2>4
    <2>7. QED
      BY <2>1, <2>5, <2>6
  <1>4. PICK wv, pv : wv = [v \in V |-> Weight(v)] /\ pv = [v \in V |-> v.apy * Weight(v)]
    OBVIOUS
  <1>5. PICK c : c = Round(SumFunctionOnSet(pv, V), SumFunctionOnSet(wv, V))
    OBVIOUS
  <1>6. ASSUME NEW t PROVE Blend({RateRow(v, t) : v \in V}) = c
    BY <1>2, <1>4, <1>5, BlendOfTable
  <1>7. ASSUME NEW p \in Blended(vaults, snaps, asset, now)
        PROVE  \E r \in rows : p.at = r.at /\ p = [at |-> r.at, apy |-> c]
    <2> HIDE DEF At, rows
    <2>1. PICK r \in rows : p = [at |-> r.at, apy |-> Blend(At(r.at))]
      BY <1>1
    <2>2. At(r.at) = {RateRow(v, r.at) : v \in V}
      BY <1>3
    <2>3. Blend(At(r.at)) = c
      BY <1>6, <2>2
    <2>4. QED
      BY <2>1, <2>3
  <1>8. rows \subseteq snaps
    BY DEF History
  <1>9. ASSUME NEW r0 \in rows PROVE c \in Nat
    <2>1. PICK own : own = {RateRow(v, r0.at) : v \in V}
      OBVIOUS
    <2>2. At(r0.at) = own /\ own # {} /\ own \subseteq snaps
      BY <1>3, <1>8, <2>1
    <2>3. IsFiniteSet(own) /\ \A r \in own : r.apy \in Nat /\ r.alloc \in Nat
      BY <2>2, FS_Subset, RowsAre DEF RInv, IInv, Table
    <2>4. Blend(own) \in Nat
      BY <2>2, <2>3, MeansAreNatural
    <2>5. QED
      BY <1>6, <2>1, <2>4
  <1> HIDE DEF At
  <1>10. IsSeries(Blended(vaults, snaps, asset, now))
    <2>1. IsFiniteSet(rows)
      BY <1>8, FS_Subset DEF RInv, IInv, Table
    <2> DEFINE f == [r \in rows |-> [at |-> r.at, apy |-> Blend(At(r.at))]]
    <2>2. {f[r] : r \in rows} = Blended(vaults, snaps, asset, now)
      BY <1>1
    <2> HIDE DEF f, rows
    <2>3. IsFiniteSet(Blended(vaults, snaps, asset, now))
      BY <2>1, <2>2, ImageIsFinite
    <2>4. \A p \in Blended(vaults, snaps, asset, now) : p.at \in Int
      BY <1>7, <1>8, RowsAre
    <2>5. \A p, q \in Blended(vaults, snaps, asset, now) : p.at = q.at => p = q
      BY <1>7
    <2>6. QED
      BY <2>3, <2>4, <2>5 DEF IsSeries
  <1> HIDE DEF rows
  <1>11. CASE Blended(vaults, snaps, asset, now) = {}
    BY <1>10, <1>11
  <1>12. CASE Blended(vaults, snaps, asset, now) # {}
    BY <1>7, <1>9, <1>10, <1>12
  <1>13. QED
    BY <1>11, <1>12

(* So are the rates of a vault.                                               *)
LEMMA StillSeries ==
    ASSUME RInv, Still, NEW v \in ActiveVaults
    PROVE  /\ IsSeries(Series(snaps, v, now)) /\ v.apy \in Nat
           /\ \A p \in Series(snaps, v, now) : p.apy = v.apy
  <1>1. PICK own : own = OfVault(History(snaps, now - Month), v)
    OBVIOUS
  <1>2. \A r \in own : r \in snaps /\ r.at >= now - Month /\ r.vault = v.id
    BY <1>1 DEF OfVault, History
  <1>3. v \in vaults /\ v.apy \in Nat
    BY VaultAssumption DEF ActiveVaults, ActiveOf, RInv, Tabled, IsVault
  <1>4. Series(snaps, v, now) = {[at |-> r.at, apy |-> r.apy] : r \in own}
    BY <1>1 DEF Series
  <1>5. ASSUME NEW r \in own PROVE r.apy = v.apy
    <2>1. PICK w \in ActiveVaults : r = RateRow(w, r.at)
      BY <1>2, StillRows
    <2>2. w.id = v.id /\ r.apy = w.apy
      BY <1>2, <2>1 DEF RateRow
    <2>3. QED
      BY <1>3, <2>2 DEF ActiveVaults, ActiveOf, RInv, IInv, Table, Identified
  <1>6. IsFiniteSet(Series(snaps, v, now))
    <2>1. IsFiniteSet(own)
      BY <1>2, FS_Subset DEF RInv, IInv, Table
    <2> DEFINE f == [r \in own |-> [at |-> r.at, apy |-> r.apy]]
    <2>2. {f[r] : r \in own} = Series(snaps, v, now)
      BY <1>4
    <2> HIDE DEF f
    <2>3. QED
      BY <2>1, <2>2, ImageIsFinite
  <1>7. ASSUME NEW p \in Series(snaps, v, now)
        PROVE  p.apy = v.apy /\ p.at \in Int /\ p = [at |-> p.at, apy |-> v.apy]
    <2>1. PICK r \in own : p = [at |-> r.at, apy |-> r.apy]
      BY <1>4
    <2>2. r.at \in Nat /\ r.apy = v.apy
      BY <1>2, <1>5, RowsAre
    <2>3. QED
      BY <2>1, <2>2
  <1>8. \A p, q \in Series(snaps, v, now) : p.at = q.at => p = q
    BY <1>7
  <1>9. QED
    BY <1>3, <1>6, <1>7, <1>8 DEF IsSeries

(* Instances that record side by side, are late, fail and are replaced make   *)
(* up no trend: while the table of vaults stands still, over the window and   *)
(* the hour it starts in, every asset is stable or unknown, and each slope    *)
(* and volatility that is shown, of an asset or in a signal, is nought        *)
(* (analytics.service.ts:122-221).                                            *)
THEOREM SteadyTablesMakeNoTrend == Spec => []SteadyRatesAreStable
  <1>1. ASSUME RInv, Still, NEW r \in PerAsset(vaults, snaps, Null, now)
        PROVE  r.regime \in {"stable", "unknown"} /\ {r.slope, r.volatility} \subseteq {0, Null}
    <2>1. PICK asset : r = RegimeOf(vaults, snaps, asset, now)
      BY DEF PerAsset
    <2>2. PICK s : s = Blended(vaults, snaps, asset, now)
      OBVIOUS
    <2>3. /\ r.regime = IF Enough(s) THEN ClassifyRegime(s) ELSE "unknown"
          /\ r.slope = IF Enough(s) THEN Round(24 * Rise(s), Run(s)) ELSE Null
          /\ r.volatility = IF Enough(s) THEN Volatility(s) ELSE Null
      BY <2>1, <2>2 DEF RegimeOf
    <2>4. PICK c \in Nat : IsSeries(s) /\ \A p \in s : p.apy = c
      BY <1>1, <2>2, StillBlends
    <2>5. ASSUME Enough(s)
          PROVE  ClassifyRegime(s) = "stable" /\ Volatility(s) = 0 /\ Round(24 * Rise(s), Run(s)) = 0
      <3>1. c \in Int
        OBVIOUS
      <3>2. QED
        BY <2>4, <2>5, <3>1, FlatIsStable
    <2>6. QED
      BY <2>3, <2>5
  <1>2. ASSUME RInv, Still, NEW s \in Signals(vaults, snaps, Null, now), ~s.insufficient
        PROVE  s.volatility = 0 /\ s.slope = 0
    <2>1. PICK v \in ActiveVaults :
            /\ s.insufficient = ~Enough(Series(snaps, v, now))
            /\ s.volatility = Volatility(Series(snaps, v, now))
            /\ s.slope = Round(24 * Rise(Series(snaps, v, now)), Run(Series(snaps, v, now)))
      BY <1>2, SignalOf
    <2>2. PICK points : points = Series(snaps, v, now)
      OBVIOUS
    <2>3. IsSeries(points) /\ v.apy \in Nat /\ (\A p \in points : p.apy = v.apy) /\ Enough(points)
      BY <1>2, <2>1, <2>2, StillSeries
    <2>4. Volatility(points) = 0 /\ Round(24 * Rise(points), Run(points)) = 0
      BY <2>3, FlatIsStable
    <2>5. QED
      BY <2>1, <2>2, <2>4
  <1>3. RInv => SteadyRatesAreStable
    BY <1>1, <1>2 DEF SteadyRatesAreStable
  <1>4. QED
    BY <1>3, TablesExplainRows, PTL

-----------------------------------------------------------------------------
(* The book.                                                                  *)

LEMMA BookIs ==
    /\ IsFiniteSet(Positions) /\ IsFiniteSet(Events)
    /\ \A p \in Positions :
          /\ p.seq \in Nat /\ p.principal \in Nat \ {0} /\ p.apy \in Nat
          /\ p.opened \in Int /\ p.updated \in Int /\ p.status \in {"active", "closed"}
    /\ \A e \in Events : e.seq \in Nat /\ e.at \in Int /\ e.apy \in Nat \cup {Null}
    /\ \A p, q \in Positions : p.seq = q.seq => p = q
    /\ \A e, f \in Events : e.seq = f.seq => e = f
  BY BookAssumption, SeedAssumption DEF IsTable, IsPosition, IsEvent

(* The rows of a table come in an order.                                      *)
LEMMA FirstAndLast ==
    ASSUME NEW S, IsFiniteSet(S), S # {}, \A e \in S : e.seq \in Int
    PROVE  /\ \E e \in S : \A f \in S : e.seq <= f.seq
           /\ \E e \in S : \A f \in S : f.seq <= e.seq
  <1> DEFINE seq == [e \in S |-> e.seq]
  <1>1. \A e \in S : seq[e] = e.seq
    OBVIOUS
  <1> HIDE DEF seq
  <1>2. PICK N : N = {seq[e] : e \in S}
    OBVIOUS
  <1>3. IsFiniteSet(N) /\ N # {} /\ \A n \in N : n \in Int
    BY <1>1, <1>2, ImageIsFinite
  <1>4. (Min(N) \in N /\ \A n \in N : Min(N) <= n) /\ (Max(N) \in N /\ \A n \in N : Max(N) >= n)
    BY <1>3, LeastIs, GreatestIs
  <1>5. PICK e \in S, f \in S : Min(N) = seq[e] /\ Max(N) = seq[f]
    BY <1>2, <1>4
  <1>6. (\A g \in S : e.seq <= g.seq) /\ \A g \in S : g.seq <= f.seq
    BY <1>1, <1>2, <1>4, <1>5
  <1>7. QED
    BY <1>6

LEMMA BaselineIs ==
    ASSUME NEW principal \in Nat, NEW apy \in Nat, NEW elapsed \in Nat
    PROVE  /\ BaselineValue(principal, apy, elapsed) \in Nat
           /\ BaselineValue(principal, apy, elapsed) >= principal
  <1> DEFINE n == principal * (Scale + apy * elapsed)
  <1>1. Scale \in Nat \ {0} /\ apy * elapsed \in Nat
    BY ScaleAssumption, Products
  <1>2. n = principal * Scale + principal * (apy * elapsed)
    BY <1>1, SMT
  <1>3. principal * Scale \in Nat /\ principal * (apy * elapsed) \in Nat
    BY <1>1, Products
  <1>4. n \in Nat /\ principal * Scale <= n
    BY <1>2, <1>3
  <1>5. n <= n * Scale
    BY <1>1, <1>4, SMT
  <1> HIDE DEF n
  <1>6. Round(n, Scale) \in Int /\ principal <= Round(n, Scale)
    BY <1>1, <1>4, <1>5, RoundBetween
  <1>7. QED
    BY <1>6 DEF BaselineValue, n

LEMMA ElapsedIs ==
    ASSUME NEW p \in Positions, NEW t \in Int
    PROVE  Elapsed(p, t) \in Nat
  <1>1. PICK x : x = (IF p.status = "closed" THEN p.updated ELSE t) - p.opened
    OBVIOUS
  <1>2. x \in Int /\ Elapsed(p, t) = Max({0, x})
    BY <1>1, BookIs DEF Elapsed
  <1>3. PICK S : S = {0, x}
    OBVIOUS
  <1>4. IsFiniteSet(S)
    <2>1. IsFiniteSet({x}) /\ S = {x} \cup {0}
      BY <1>3, FS_Singleton
    <2>2. QED
      BY <2>1, FS_AddElement
  <1>5. Max(S) \in S /\ \A y \in S : Max(S) >= y
    BY <1>2, <1>3, <1>4, GreatestIs
  <1>6. QED
    BY <1>2, <1>3, <1>5

LEMMA ValueIs ==
    ASSUME NEW p \in Positions, NEW t \in Int
    PROVE  Value(p, t) \in Nat /\ Value(p, t) >= p.principal
  BY BookIs, ElapsedIs, BaselineIs DEF Value

-----------------------------------------------------------------------------
(* The comparison with two ways not to route.                                 *)

(* A state of the table of vaults.                                            *)
IsTableOf(vs) == vs \subseteq VaultRows /\ IsFiniteSet(vs) /\ Identified(vs)

LEMMA BaselineApyIs ==
    ASSUME NEW vs, IsTableOf(vs), NEW asset
    PROVE  BaselineApy(vs, asset) \in Nat \cup {Null}
  <1> DEFINE venues == {v \in vs : v.provider = BaselineProvider /\ v.status = "active" /\ v.asset = asset}
  <1>1. BaselineApy(vs, asset)
          = IF venues = {} THEN Null ELSE (CHOOSE v \in venues : \A w \in venues : w.seq <= v.seq).apy
    BY DEF BaselineApy
  <1>2. IsFiniteSet(venues) /\ \A v \in venues : v.seq \in Int /\ v.apy \in Nat
    BY VaultAssumption, FS_Subset DEF IsTableOf, IsVault
  <1> HIDE DEF venues
  <1>3. venues # {} => \E v \in venues : \A w \in venues : w.seq <= v.seq
    BY <1>2, FirstAndLast
  <1>4. QED
    BY <1>1, <1>2, <1>3

LEMMA HoldApyIs ==
    ASSUME NEW vs, IsTableOf(vs), NEW p \in Positions
    PROVE  HoldApy(vs, Events, p) \in Nat
  <1> DEFINE origin == {v \in vs : v.id = Origin(Events, p)}
  <1>1. \A v \in origin : v.apy \in Nat
    BY VaultAssumption DEF IsTableOf, IsVault
  <1>2. HoldApy(vs, Events, p) = IF origin = {} THEN p.apy ELSE (CHOOSE v \in origin : TRUE).apy
    BY DEF HoldApy
  <1> HIDE DEF origin
  <1>3. QED
    BY <1>1, <1>2, BookIs

LEMMA UpliftRowIs ==
    ASSUME NEW vs, IsTableOf(vs), NEW p \in Positions, NEW t \in Int,
           NEW r, r = UpliftRow(vs, Events, p, t)
    PROVE  /\ r \in UpliftRowDto
           /\ r.position = p.seq /\ r.principal = p.principal /\ r.current = Value(p, t)
           /\ r.base # Null => r.base >= r.principal /\ r.uplift = r.current - r.base
           /\ r.uplift_vs_hold = r.current - r.hold
           /\ r.hold = BaselineValue(p.principal, HoldApy(vs, Events, p), Elapsed(p, t))
  <1>1. PICK apy \in Nat \cup {Null} : apy = BaselineApy(vs, p.asset)
    BY BaselineApyIs
  <1>2. PICK base : base = IF apy = Null THEN Null ELSE BaselineValue(p.principal, apy, Elapsed(p, t))
    OBVIOUS
  <1>3. PICK hold : hold = BaselineValue(p.principal, HoldApy(vs, Events, p), Elapsed(p, t))
    OBVIOUS
  <1>4. PICK current : current = Value(p, t)
    OBVIOUS
  <1>5. PICK projected : projected = IF apy = Null THEN Null ELSE Round(p.principal * (p.apy - apy), 10000)
    OBVIOUS
  <1>6. r = [position |-> p.seq, principal |-> p.principal, current |-> current,
             base_apy |-> apy, base |-> base, hold |-> hold,
             uplift |-> IF base = Null THEN Null ELSE current - base,
             uplift_vs_hold |-> current - hold, projected |-> projected]
    BY <1>1, <1>2, <1>3, <1>4, <1>5 DEF UpliftRow
  <1>7. /\ p.seq \in OfPositions /\ p.principal \in Nat /\ p.apy \in Nat /\ current \in Nat
        /\ hold \in Nat
    BY <1>3, <1>4, BookIs, ValueIs, HoldApyIs, ElapsedIs, BaselineIs DEF OfPositions
  <1>8. base = Null \/ (base \in Nat /\ base >= p.principal)
    BY <1>1, <1>2, <1>7, ElapsedIs, BaselineIs
  <1>9. projected \in Int \cup {Null}
    <2>1. CASE apy = Null
      BY <1>5, <2>1
    <2>2. CASE apy # Null
      <3>1. PICK x \in Int : x = p.principal * (p.apy - apy)
        BY <1>1, <1>7, <2>2, Products
      <3>2. Round(x, 10000) \in Int
        BY NearestReaches DEF Round
      <3>3. QED
        BY <1>5, <2>2, <3>1, <3>2
    <2>3. QED
      BY <2>1, <2>2
  <1>10. (IF base = Null THEN Null ELSE current - base) \in Int \cup {Null}
         /\ current - hold \in Int
    BY <1>7, <1>8
  <1>11. r \in UpliftRowDto
    BY <1>1, <1>6, <1>7, <1>8, <1>9, <1>10 DEF UpliftRowDto, Optional
  <1>12. QED
    BY <1>3, <1>4, <1>6, <1>8, <1>11

Own(partner) == InScope(Positions, PartnerScope(partner))

Compared(vs, partner, t) == {UpliftRow(vs, Events, p, t) : p \in Active(Own(partner))}

Based(rows) == {r \in rows : r.base # Null}

LEMMA OwnIs ==
    ASSUME NEW partner
    PROVE  /\ Own(partner) \subseteq Positions /\ IsFiniteSet(Own(partner))
           /\ Active(Own(partner)) \subseteq Own(partner) /\ IsFiniteSet(Active(Own(partner)))
           /\ Active(Own(partner)) = {p \in Own(partner) : p.status # "closed"}
  <1>1. Own(partner) \subseteq Positions
    BY DEF Own, InScope
  <1>2. Active(Own(partner)) = {p \in Own(partner) : p.status # "closed"}
    BY <1>1, BookIs DEF Active
  <1>3. QED
    BY <1>1, <1>2, BookIs, FS_Subset

LEMMA ComparedIs ==
    ASSUME NEW vs, IsTableOf(vs), NEW partner, NEW t \in Int
    PROVE  /\ IsFiniteSet(Compared(vs, partner, t))
           /\ Compared(vs, partner, t) \subseteq UpliftRowDto
           /\ \A r \in Compared(vs, partner, t) :
                 /\ r.principal \in Nat \ {0} /\ r.current \in Nat /\ r.hold \in Nat
                 /\ r.base \in Nat \cup {Null} /\ r.uplift_vs_hold = r.current - r.hold
                 /\ r.base # Null => r.base >= r.principal /\ r.uplift = r.current - r.base
  <1> DEFINE f == [p \in Active(Own(partner)) |-> UpliftRow(vs, Events, p, t)]
  <1>1. {f[p] : p \in Active(Own(partner))} = Compared(vs, partner, t)
    BY DEF Compared
  <1> HIDE DEF f
  <1>2. IsFiniteSet(Compared(vs, partner, t))
    BY <1>1, OwnIs, ImageIsFinite
  <1>3. ASSUME NEW r \in Compared(vs, partner, t)
        PROVE  /\ r \in UpliftRowDto
               /\ r.principal \in Nat \ {0} /\ r.uplift_vs_hold = r.current - r.hold
               /\ r.base # Null => r.base >= r.principal /\ r.uplift = r.current - r.base
    <2>1. PICK p \in Active(Own(partner)) : r = UpliftRow(vs, Events, p, t)
      BY DEF Compared
    <2>2. p \in Positions
      BY <2>1, OwnIs
    <2>3. QED
      BY <2>1, <2>2, UpliftRowIs, BookIs
  <1>4. \A r \in UpliftRowDto : r.current \in Nat /\ r.hold \in Nat /\ r.base \in Nat \cup {Null}
    BY DEF UpliftRowDto, Optional
  <1>5. QED
    BY <1>2, <1>3, <1>4

(* What is summed over the rows is summed over the positions.                 *)
LEMMA ComparedSums ==
    ASSUME NEW vs, IsTableOf(vs), NEW partner, NEW t \in Int,
           NEW f, NEW v, \A p \in Active(Own(partner)) :
                            v[p] \in Int /\ f[UpliftRow(vs, Events, p, t)] = v[p]
    PROVE  SumFunctionOnSet(f, Compared(vs, partner, t)) = SumFunctionOnSet(v, Active(Own(partner)))
  <1> DEFINE row == [p \in Active(Own(partner)) |-> UpliftRow(vs, Events, p, t)]
  <1>1. {row[p] : p \in Active(Own(partner))} = Compared(vs, partner, t)
    BY DEF Compared
  <1>2. \A p \in Active(Own(partner)) : row[p] = UpliftRow(vs, Events, p, t)
    OBVIOUS
  <1> HIDE DEF row
  <1>3. ASSUME NEW p \in Active(Own(partner)), NEW q \in Active(Own(partner)), row[p] = row[q]
        PROVE  p = q
    <2>1. p \in Positions /\ q \in Positions
      BY OwnIs
    <2>2. row[p].position = p.seq /\ row[q].position = q.seq
      BY <1>2, <2>1, UpliftRowIs
    <2>3. QED
      BY <1>3, <2>1, <2>2, BookIs
  <1>4. \A p \in Active(Own(partner)) : f[row[p]] = v[p]
    BY <1>2
  <1>5. SumFunctionOnSet(f, {row[p] : p \in Active(Own(partner))})
          = SumFunctionOnSet(v, Active(Own(partner)))
    BY <1>3, <1>4, OwnIs, SumOverRows
  <1>6. QED
    BY <1>1, <1>5

(* The columns of the rows.                                                   *)
PrincipalOf(rows)   == [r \in rows |-> r.principal]
CurrentOf(rows)     == [r \in rows |-> r.current]
HoldOf(rows)        == [r \in rows |-> r.hold]
BaseOf(rows)        == [r \in rows |-> r.base]
UpliftOf(rows)      == [r \in rows |-> r.uplift]
OverHoldOf(rows)    == [r \in rows |-> r.uplift_vs_hold]

(* The totals as sums.                                                        *)
LEMMA UpliftIs ==
    ASSUME NEW vs, NEW partner, NEW t,
           NEW rows, rows = Compared(vs, partner, t), NEW based, based = Based(rows),
           NEW up, up = Uplift(Positions, Events, vs, PartnerScope(partner), t)
    PROVE  /\ up.positions = rows
           /\ up.principal = SumFunctionOnSet(PrincipalOf(rows), rows)
           /\ up.current = SumFunctionOnSet(CurrentOf(rows), rows)
           /\ up.hold = SumFunctionOnSet(HoldOf(rows), rows)
           /\ up.base = SumFunctionOnSet(BaseOf(based), based)
           /\ up.uplift = SumFunctionOnSet(CurrentOf(based), based) - up.base
           /\ up.uplift_vs_hold = up.current - up.hold
           /\ up.pct = IF up.base > 0 THEN Round(up.uplift * 10000, up.base) ELSE 0
           /\ up.coverage = IF rows = {} THEN 0
                            ELSE Round(10000 * Cardinality(based), Cardinality(rows))
           /\ up = [positions |-> rows, principal |-> up.principal, current |-> up.current,
                    base |-> up.base, hold |-> up.hold, uplift |-> up.uplift,
                    uplift_vs_hold |-> up.uplift_vs_hold, pct |-> up.pct,
                    coverage |-> up.coverage]
  <1>1. PICK principal, current, hold, base, covered :
          /\ principal = SumFunctionOnSet([r \in rows |-> r.principal], rows)
          /\ current = SumFunctionOnSet([r \in rows |-> r.current], rows)
          /\ hold = SumFunctionOnSet([r \in rows |-> r.hold], rows)
          /\ base = SumFunctionOnSet([r \in based |-> r.base], based)
          /\ covered = SumFunctionOnSet([r \in based |-> r.current], based)
    OBVIOUS
  <1>2. /\ Total(LAMBDA r : r.principal, rows) = principal
        /\ Total(LAMBDA r : r.current, rows) = current
        /\ Total(LAMBDA r : r.hold, rows) = hold
        /\ Total(LAMBDA r : r.base, based) = base
        /\ Total(LAMBDA r : r.current, based) = covered
    BY <1>1 DEF Total
  <1>3. based = {r \in rows : r.base # Null}
    BY DEF Based
  <1>4. rows = {UpliftRow(vs, Events, p, t) : p \in Active(InScope(Positions, PartnerScope(partner)))}
    BY DEF Compared, Own
  <1>5. up = [positions |-> rows, principal |-> principal, current |-> current,
              base |-> base, hold |-> hold, uplift |-> covered - base,
              uplift_vs_hold |-> current - hold,
              pct |-> IF base > 0 THEN Round((covered - base) * 10000, base) ELSE 0,
              coverage |-> IF rows = {} THEN 0
                           ELSE Round(10000 * Cardinality(based), Cardinality(rows))]
    BY <1>1, <1>3, <1>4 DEF Uplift, BaselineCovered, Total
  <1>6. /\ principal = SumFunctionOnSet(PrincipalOf(rows), rows)
        /\ current = SumFunctionOnSet(CurrentOf(rows), rows)
        /\ hold = SumFunctionOnSet(HoldOf(rows), rows)
        /\ base = SumFunctionOnSet(BaseOf(based), based)
        /\ covered = SumFunctionOnSet(CurrentOf(based), based)
    BY <1>1 DEF PrincipalOf, CurrentOf, HoldOf, BaseOf
  <1>7. QED
    BY <1>5, <1>6

LEMMA CoverageIs ==
    ASSUME NEW n \in Nat \ {0}, NEW hi \in Nat, NEW a \in Int, 0 <= a, a <= hi * n
    PROVE  Round(a, n) \in 0 .. hi /\ (Round(a, n) = 0 <=> 2 * a < n)
  <1>1. PICK lo \in Int, k \in Int : lo = 0 /\ k = 1
    OBVIOUS
  <1>2. hi \in Int /\ lo * n <= a /\ a <= hi * n
    BY <1>1
  <1>3. Round(a, n) \in Int /\ lo <= Round(a, n) /\ Round(a, n) <= hi
    BY <1>2, RoundBetween
  <1>4. Round(a, n) >= k <=> 2 * a >= n
    <2>1. PICK w : w = (2 * k - 1) * n
      OBVIOUS
    <2>2. Round(a, n) >= k <=> 2 * a >= w
      BY <1>1, <2>1, NearestReaches DEF Round
    <2>3. w = n
      BY <1>1, <2>1
    <2>4. QED
      BY <2>2, <2>3
  <1>5. PICK x \in Int : x = Round(a, n)
    BY <1>3
  <1>6. /\ lo <= x /\ x <= hi
        /\ x >= k <=> 2 * a >= n
    BY <1>3, <1>4, <1>5
  <1>7. x \in 0 .. hi
    BY <1>1, <1>6
  <1>8. x >= 1 <=> 2 * a >= n
    BY <1>1, <1>6
  <1>9. x = 0 <=> 2 * a < n
    BY <1>7, <1>8
  <1>10. QED
    BY <1>5, <1>7, <1>9

(* A partner's figures as sums over its positions.                            *)
Worth(partner, t)    == [p \in Own(partner) |-> Value(p, t)]
PaidIn(partner)      == [p \in Own(partner) |-> p.principal]
EarnedBy(partner, t) == [p \in Own(partner) |-> Value(p, t) - p.principal]

LEMMA SummaryIs ==
    ASSUME NEW partner, NEW t \in Int, NEW blend,
           NEW summary, summary = Summary(Positions, partner, t, blend, Share),
           NEW worth, worth = Worth(partner, t), NEW paid, paid = PaidIn(partner),
           NEW earned, earned = EarnedBy(partner, t)
    PROVE  /\ summary.tvl = SumFunctionOnSet(worth, Active(Own(partner)))
           /\ summary.deposits = SumFunctionOnSet(paid, Active(Own(partner)))
           /\ summary.yield = SumFunctionOnSet(earned, Own(partner))
           /\ Integral(worth, Own(partner)) /\ Integral(paid, Own(partner))
           /\ Integral(earned, Own(partner)) /\ \A p \in Own(partner) : earned[p] \in Nat
  <1>1. ASSUME NEW p \in Own(partner)
        PROVE  /\ worth[p] = Value(p, t) /\ paid[p] = p.principal /\ earned[p] = worth[p] - paid[p]
               /\ worth[p] \in Nat /\ paid[p] \in Nat /\ earned[p] \in Nat
    <2>1. p \in Positions
      BY OwnIs
    <2>2. Value(p, t) \in Nat /\ Value(p, t) >= p.principal /\ p.principal \in Nat
      BY <2>1, BookIs, ValueIs
    <2>3. QED
      BY <2>2 DEF Worth, PaidIn, EarnedBy
  <1>2. Integral(worth, Own(partner)) /\ Integral(paid, Own(partner)) /\ Integral(earned, Own(partner))
    BY <1>1, OwnIs DEF Integral
  <1> DEFINE mine == Active(Own(partner))
  <1>3. mine \in SUBSET Own(partner)
    BY OwnIs
  <1>4. Integral(worth, mine) /\ Integral(paid, mine)
    BY <1>2, <1>3, IntegralPart
  <1>5. summary.tvl = SumFunctionOnSet([p \in mine |-> Value(p, t)], mine)
    BY DEF Summary, NetTVL, Total, Own
  <1>6. summary.deposits = SumFunctionOnSet([p \in mine |-> p.principal], mine)
    <2>1. summary.deposits = AttributedDeposits(Positions, partner)
      BY DEF Summary
    <2>2. AttributedDeposits(Positions, partner) = SumFunctionOnSet([p \in mine |-> p.principal], mine)
      BY OwnIs DEF AttributedDeposits, Total, Own
    <2>3. QED
      BY <2>1, <2>2
  <1>7. summary.yield = SumFunctionOnSet(earned, Own(partner))
    <2>1. summary.yield = AttributedYield(Positions, partner, t)
      BY DEF Summary
    <2>2. AttributedYield(Positions, partner, t) = SumFunctionOnSet(earned, Own(partner))
      BY DEF AttributedYield, Total, Own, Earned, EarnedBy
    <2>3. QED
      BY <2>1, <2>2
  <1> DEFINE v == [p \in mine |-> Value(p, t)]
             d == [p \in mine |-> p.principal]
  <1>8. (\A p \in mine : v[p] = worth[p]) /\ \A p \in mine : d[p] = paid[p]
    BY <1>1, <1>3
  <1> HIDE DEF v, d, mine
  <1>9. SumFunctionOnSet(v, mine) = SumFunctionOnSet(worth, mine)
        /\ SumFunctionOnSet(d, mine) = SumFunctionOnSet(paid, mine)
    BY <1>4, <1>8, SumOfEqual
  <1>10. QED
    BY <1>1, <1>2, <1>5, <1>6, <1>7, <1>9 DEF v, d, mine

LEMMA ComparisonAddsUp ==
    ASSUME NEW vs, IsTableOf(vs), NEW partner, NEW t \in Int, NEW blend,
           NEW rows, rows = Compared(vs, partner, t), NEW based, based = Based(rows),
           NEW up, up = Uplift(Positions, Events, vs, PartnerScope(partner), t),
           NEW summary, summary = Summary(Positions, partner, t, blend, Share)
    PROVE  /\ up.current = summary.tvl /\ up.principal = summary.deposits
           /\ up.current - up.principal <= summary.yield
           /\ up.current \in Nat /\ up.principal \in Nat /\ up.hold \in Nat
           /\ summary.tvl \in Nat /\ summary.deposits \in Nat /\ summary.yield \in Nat
  <1> DEFINE mine == Active(Own(partner))
  <1>1. PICK worth, paid, earned :
          worth = Worth(partner, t) /\ paid = PaidIn(partner) /\ earned = EarnedBy(partner, t)
    OBVIOUS
  <1>2. /\ summary.tvl = SumFunctionOnSet(worth, mine)
        /\ summary.deposits = SumFunctionOnSet(paid, mine)
        /\ summary.yield = SumFunctionOnSet(earned, Own(partner))
        /\ Integral(worth, Own(partner)) /\ Integral(paid, Own(partner))
        /\ Integral(earned, Own(partner)) /\ \A p \in Own(partner) : earned[p] \in Nat
    BY <1>1, SummaryIs
  <1>3. mine \in SUBSET Own(partner)
    BY OwnIs
  <1>4. Integral(worth, mine) /\ Integral(paid, mine) /\ Integral(earned, mine)
    BY <1>2, <1>3, IntegralPart
  <1> DEFINE current == CurrentOf(rows)
             principal == PrincipalOf(rows)
             hold == HoldOf(rows)
  <1>5. /\ up.current = SumFunctionOnSet(current, rows)
        /\ up.principal = SumFunctionOnSet(principal, rows)
        /\ up.hold = SumFunctionOnSet(hold, rows)
    BY UpliftIs
  <1>6. ASSUME NEW p \in mine
        PROVE  /\ worth[p] \in Int /\ current[UpliftRow(vs, Events, p, t)] = worth[p]
               /\ paid[p] \in Int /\ principal[UpliftRow(vs, Events, p, t)] = paid[p]
    <2>1. PICK r \in rows : r = UpliftRow(vs, Events, p, t)
      BY DEF Compared
    <2>2. p \in Positions /\ p \in Own(partner)
      BY OwnIs
    <2>3. r.current = Value(p, t) /\ r.principal = p.principal
      BY <2>1, <2>2, UpliftRowIs
    <2>4. worth[p] = Value(p, t) /\ paid[p] = p.principal
      BY <1>1, <2>2 DEF Worth, PaidIn
    <2>5. worth[p] \in Int /\ paid[p] \in Int
      BY <1>2, <2>2 DEF Integral
    <2>6. current[r] = r.current /\ principal[r] = r.principal
      BY DEF CurrentOf, PrincipalOf
    <2>7. QED
      BY <2>1, <2>3, <2>4, <2>5, <2>6
  <1>7. \A r \in rows : current[r] \in Nat /\ principal[r] \in Nat /\ hold[r] \in Nat
    BY ComparedIs DEF CurrentOf, PrincipalOf, HoldOf
  <1> HIDE DEF mine, current, principal, hold
  <1>8. /\ SumFunctionOnSet(current, Compared(vs, partner, t)) = SumFunctionOnSet(worth, mine)
        /\ SumFunctionOnSet(principal, Compared(vs, partner, t)) = SumFunctionOnSet(paid, mine)
    BY <1>6, ComparedSums DEF mine
  <1>9. up.current \in Nat /\ up.principal \in Nat /\ up.hold \in Nat
    <2>1. IsFiniteSet(rows)
      BY ComparedIs
    <2>2. QED
      BY <1>5, <1>7, <2>1, SumIsNatural
  <1>10. summary.yield = SumFunctionOnSet(earned, mine) + SumFunctionOnSet(earned, Own(partner) \ mine)
    BY <1>2, <1>3, SumSplits
  <1>11. SumFunctionOnSet(worth, mine) = SumFunctionOnSet(paid, mine) + SumFunctionOnSet(earned, mine)
    <2>1. \A p \in mine : worth[p] = paid[p] + earned[p]
      <3>1. \A p \in mine : paid[p] \in Int /\ worth[p] \in Int /\ earned[p] = worth[p] - paid[p]
        BY <1>1, <1>3, <1>4 DEF Integral, Worth, PaidIn, EarnedBy
      <3>2. QED
        BY <3>1
    <2>2. QED
      BY <1>4, <2>1, SumOfSums
  <1>12. /\ SumFunctionOnSet(earned, Own(partner) \ mine) \in Nat
         /\ SumFunctionOnSet(earned, mine) \in Nat
    <2>1. IsFiniteSet(Own(partner)) /\ IsFiniteSet(Own(partner) \ mine) /\ IsFiniteSet(mine)
      BY <1>3, OwnIs, FS_Subset
    <2>2. (\A p \in mine : earned[p] \in Nat) /\ \A p \in Own(partner) \ mine : earned[p] \in Nat
      BY <1>2, <1>3
    <2>3. QED
      BY <2>1, <2>2, SumIsNatural
  <1>13. QED
    BY <1>2, <1>5, <1>8, <1>9, <1>10, <1>11, <1>12

LEMMA GainsAddUp ==
    ASSUME NEW vs, IsTableOf(vs), NEW partner, NEW t \in Int,
           NEW rows, rows = Compared(vs, partner, t), NEW based, based = Based(rows),
           NEW up, up = Uplift(Positions, Events, vs, PartnerScope(partner), t)
    PROVE  /\ up.uplift = SumFunctionOnSet(UpliftOf(based), based)
           /\ up.uplift_vs_hold = SumFunctionOnSet(OverHoldOf(rows), rows)
           /\ up.base \in Nat /\ (up.base = 0 <=> based = {})
           /\ up.uplift \in Int /\ up.uplift_vs_hold \in Int
  <1> DEFINE current == CurrentOf(rows)
             hold == HoldOf(rows)
             diff == OverHoldOf(rows)
             covered == CurrentOf(based)
             base == BaseOf(based)
             gain == UpliftOf(based)
  <1>1. /\ up.current = SumFunctionOnSet(current, rows)
        /\ up.hold = SumFunctionOnSet(hold, rows) /\ up.uplift_vs_hold = up.current - up.hold
        /\ up.base = SumFunctionOnSet(base, based)
        /\ up.uplift = SumFunctionOnSet(covered, based) - up.base
    BY UpliftIs
  <1>2. /\ IsFiniteSet(rows) /\ based \subseteq rows /\ IsFiniteSet(based)
        /\ \A r \in rows :
              /\ r.principal \in Nat \ {0} /\ r.current \in Nat /\ r.hold \in Nat
              /\ r.uplift_vs_hold = r.current - r.hold
        /\ \A r \in based :
              r.base \in Nat /\ r.base >= r.principal /\ r.uplift = r.current - r.base
    <2>1. based \subseteq rows /\ \A r \in based : r.base # Null
      BY DEF Based
    <2>2. QED
      BY <2>1, ComparedIs, FS_Subset
  <1>3. \A r \in rows : /\ current[r] \in Int /\ hold[r] \in Int /\ diff[r] \in Int
                        /\ current[r] = diff[r] + hold[r]
    BY <1>2 DEF CurrentOf, HoldOf, OverHoldOf
  <1>4. \A r \in based : /\ covered[r] \in Int /\ base[r] \in Nat \ {0} /\ gain[r] \in Int
                         /\ covered[r] = gain[r] + base[r]
    BY <1>2 DEF CurrentOf, BaseOf, UpliftOf
  <1>5. Integral(current, rows) /\ Integral(hold, rows) /\ Integral(diff, rows)
    BY <1>2, <1>3 DEF Integral
  <1>6. Integral(covered, based) /\ Integral(base, based) /\ Integral(gain, based)
    BY <1>2, <1>4 DEF Integral
  <1> HIDE DEF current, hold, diff, covered, base, gain
  <1>7. /\ SumFunctionOnSet(current, rows) = SumFunctionOnSet(diff, rows) + SumFunctionOnSet(hold, rows)
        /\ SumFunctionOnSet(covered, based) = SumFunctionOnSet(gain, based) + SumFunctionOnSet(base, based)
    BY <1>3, <1>4, <1>5, <1>6, SumOfSums
  <1>8. /\ SumFunctionOnSet(diff, rows) \in Int /\ SumFunctionOnSet(hold, rows) \in Int
        /\ SumFunctionOnSet(gain, based) \in Int
        /\ SumFunctionOnSet(base, based) \in Nat
    BY <1>2, <1>4, <1>5, <1>6, SumIsInteger, SumIsNatural
  <1>9. ASSUME based # {} PROVE up.base # 0
    <2>1. PICK r \in based : TRUE
      BY <1>9
    <2>2. SumFunctionOnSet(base, based) = base[r] + SumFunctionOnSet(base, based \ {r})
      BY <1>6, SumTakesOut
    <2>3. SumFunctionOnSet(base, based \ {r}) \in Nat
      <3>1. IsFiniteSet(based \ {r}) /\ \A s \in based \ {r} : base[s] \in Nat
        BY <1>2, <1>4, FS_Subset
      <3>2. QED
        BY <3>1, SumIsNatural
    <2>4. QED
      BY <1>1, <1>4, <2>2, <2>3
  <1>10. ASSUME based = {} PROVE up.base = 0
    BY <1>1, <1>10, SumOfNone
  <1>11. /\ up.uplift = SumFunctionOnSet(gain, based)
         /\ up.uplift_vs_hold = SumFunctionOnSet(diff, rows)
    BY <1>1, <1>7, <1>8
  <1>12. up.base \in Nat
    BY <1>1, <1>8
  <1>13. QED
    BY <1>8, <1>9, <1>10, <1>11, <1>12 DEF gain, diff

LEMMA CoverageAddsUp ==
    ASSUME NEW vs, IsTableOf(vs), NEW partner, NEW t \in Int,
           NEW rows, rows = Compared(vs, partner, t), NEW based, based = Based(rows),
           NEW up, up = Uplift(Positions, Events, vs, PartnerScope(partner), t),
           NEW c, c = Cardinality(based), NEW n, n = Cardinality(rows)
    PROVE  /\ up.coverage \in Nat /\ up.coverage <= 10000
           /\ up.coverage = 0 <=> (based = {} \/ 20000 * c < n)
  <1>1. up.coverage = IF rows = {} THEN 0 ELSE Round(10000 * Cardinality(based), Cardinality(rows))
    BY UpliftIs
  <1>2. IsFiniteSet(rows) /\ based \subseteq rows
    BY ComparedIs DEF Based
  <1>3. c \in Nat /\ n \in Nat /\ c <= n
    BY <1>2, FS_Subset, FS_CardinalityType
  <1>4. (c = 0 <=> based = {}) /\ (n = 0 <=> rows = {})
    BY <1>2, <1>3, FS_Subset, FS_EmptySet
  <1>5. PICK hi \in Nat, m \in Nat : hi = 10000 /\ m = 20000 * c
    BY <1>3
  <1>6. up.coverage \in 0 .. hi /\ (up.coverage = 0 <=> (based = {} \/ m < n))
    <2>1. CASE rows = {}
      <3>1. up.coverage = 0 /\ based = {}
        BY <1>1, <1>2, <2>1
      <3>2. QED
        BY <3>1
    <2>2. CASE rows # {}
      <3>1. PICK a : a = 10000 * c
        OBVIOUS
      <3>2. n \in Nat \ {0} /\ a \in Int /\ 0 <= a /\ a <= hi * n
        BY <1>3, <1>4, <1>5, <2>2, <3>1
      <3>3. Round(a, n) \in 0 .. hi /\ (Round(a, n) = 0 <=> 2 * a < n)
        BY <3>2, CoverageIs
      <3>4. PICK x : x = Round(a, n)
        OBVIOUS
      <3>5. x \in 0 .. hi /\ (x = 0 <=> 2 * a < n)
        BY <3>3, <3>4
      <3>6. up.coverage = x
        BY <1>1, <1>3, <2>2, <3>1, <3>4
      <3>7. 2 * a < n <=> (c = 0 \/ m < n)
        BY <1>3, <1>5, <3>1, <3>2
      <3>8. QED
        BY <1>4, <3>5, <3>6, <3>7
    <2>3. QED
      BY <2>1, <2>2
  <1>7. m = 20000 * c
    BY <1>5
  <1>8. up.coverage \in Nat /\ up.coverage <= 10000
    <2>1. PICK x \in 0 .. hi : x = up.coverage
      BY <1>6
    <2>2. hi = 10000
      BY <1>5
    <2>3. x \in Nat /\ x <= 10000
      <3>1. x \in Nat /\ x <= hi
        OBVIOUS
      <3>2. QED
        BY ONLY <2>2, <3>1
    <2>4. QED
      BY <2>1, <2>3
  <1>9. QED
    BY <1>6, <1>7, <1>8

-----------------------------------------------------------------------------
(* The decisions on a position follow its routing, in the order of the table. *)

LEMMA RoutingIs ==
    ASSUME NEW p \in Positions
    PROVE  /\ IsFiniteSet(Routing(Events, p)) /\ Routing(Events, p) \subseteq Events
           /\ \A e \in Routing(Events, p) :
                 /\ e.seq \in Nat /\ e.at \in Int /\ e.apy \in Nat \cup {Null}
                 /\ e.position = p.seq /\ e.type \in {"deposit", "rebalance"}
           /\ \A e, f \in Routing(Events, p) :
                 (e.seq = f.seq => e = f) /\ (Before(e, f) <=> e.seq < f.seq)
  <1>1. Routing(Events, p) \subseteq Events
    BY DEF Routing
  <1>2. IsFiniteSet(Routing(Events, p))
    BY <1>1, BookIs, FS_Subset
  <1>3. ASSUME NEW e \in Routing(Events, p)
        PROVE  /\ e.seq \in Nat /\ e.at \in Int /\ e.apy \in Nat \cup {Null}
               /\ e.position = p.seq /\ e.type \in {"deposit", "rebalance"}
    BY <1>1, BookIs DEF Routing
  <1>4. ASSUME NEW e \in Routing(Events, p), NEW f \in Routing(Events, p)
        PROVE  (e.seq = f.seq => e = f) /\ (Before(e, f) <=> e.seq < f.seq)
    <2>1. e.seq = f.seq => e = f
      BY <1>1, BookIs
    <2>2. (e.seq < f.seq => e.at <= f.at) /\ (f.seq < e.seq => f.at <= e.at)
      BY SeedAssumption
    <2>3. e.seq \in Int /\ f.seq \in Int /\ e.at \in Int /\ f.at \in Int
      BY <1>3
    <2>4. QED
      BY <2>1, <2>2, <2>3 DEF Before
  <1>5. QED
    BY <1>1, <1>2, <1>3, <1>4

LEMMA LatestIs ==
    ASSUME NEW p \in Positions, NEW S, S \subseteq Routing(Events, p), S # {}
    PROVE  Latest(S) \in S /\ \A f \in S : f.seq <= Latest(S).seq
  <1>1. IsFiniteSet(S) /\ \A e \in S : e.seq \in Int
    BY RoutingIs, FS_Subset
  <1>2. PICK e \in S : \A f \in S : f.seq <= e.seq
    BY <1>1, FirstAndLast
  <1>3. \A f \in S : f = e \/ Before(f, e)
    BY <1>1, <1>2, RoutingIs
  <1>4. PICK l : l = Latest(S)
    OBVIOUS
  <1>5. l \in S /\ \A f \in S : f = l \/ Before(f, l)
    BY <1>3, <1>4 DEF Latest
  <1>6. \A f \in S : f.seq <= l.seq
    BY <1>1, <1>5, RoutingIs
  <1>7. QED
    BY <1>4, <1>5, <1>6

(* The routing before an event.                                               *)
Earlier(p, e) == {f \in Routing(Events, p) : f.seq < e.seq}

LEMMA DecisionIs ==
    ASSUME NEW vs, NEW p \in Positions, NEW e \in Routing(Events, p),
           NEW d, d = Decision(vs, Events, p, e)
    PROVE  /\ d.id = e.seq /\ d.position = p.seq /\ d.at = e.at /\ d.to = ToVault(p, e)
           /\ d.apy_after = e.apy
           /\ d.type = IF e.type = "deposit" THEN "initial_routing" ELSE "rebalance"
           /\ (e.type # "deposit" /\ Earlier(p, e) # {} /\ \A f \in Routing(Events, p) : f.apy # Null)
                 => d.uplift_bps = e.apy - Latest(Earlier(p, e)).apy
  <1> DEFINE earlier == {f \in Routing(Events, p) : Before(f, e)}
             rated == {f \in earlier : f.apy # Null}
             before == IF e.type = "deposit" \/ rated = {} THEN Null ELSE Latest(rated).apy
             from == IF e.type = "deposit" \/ earlier = {} THEN Null ELSE ToVault(p, Latest(earlier))
             up == IF before = Null \/ e.apy = Null THEN Null ELSE e.apy - before
  <1>1. d = [id |-> e.seq, position |-> p.seq, at |-> e.at,
             type |-> IF e.type = "deposit" THEN "initial_routing" ELSE "rebalance",
             from |-> from, to |-> ToVault(p, e), apy_before |-> before, apy_after |-> e.apy,
             uplift_bps |-> up, alternatives |-> Alternatives(vs, p.asset)]
    BY DEF Decision
  <1>2. earlier = Earlier(p, e)
    BY RoutingIs DEF Earlier
  <1>3. ASSUME e.type # "deposit", Earlier(p, e) # {}, \A f \in Routing(Events, p) : f.apy # Null
        PROVE  up = e.apy - Latest(Earlier(p, e)).apy
    <2>1. Earlier(p, e) \subseteq Routing(Events, p)
      BY DEF Earlier
    <2>2. rated = Earlier(p, e)
      BY <1>2, <1>3, <2>1
    <2>3. before = Latest(Earlier(p, e)).apy
      BY <1>3, <2>2
    <2>4. Latest(Earlier(p, e)) \in Routing(Events, p)
      BY <1>3, <2>1, LatestIs
    <2>5. before # Null /\ e.apy # Null
      BY <1>3, <2>3, <2>4
    <2>6. QED
      BY <2>3, <2>5
  <1> HIDE DEF earlier, rated, before, from, up
  <1>4. QED
    BY <1>1, <1>3

(* Position p was opened by the event e.                                      *)
Opens(e, p) == e \in Routing(Events, p) /\ \A f \in Routing(Events, p) : e.seq <= f.seq

LEMMA OpeningIs ==
    ASSUME NEW p \in Positions, NEW e, Opens(e, p)
    PROVE  /\ e.type = "deposit" /\ e.vault # Null /\ ToVault(p, e) = Origin(Events, p)
           /\ \A f \in Routing(Events, p) : f # e => e.seq < f.seq
  <1>1. e.type = "deposit" /\ e.vault # Null
    BY SeedAssumption DEF Opens
  <1>2. \A f \in Routing(Events, p) : f # e => e.seq < f.seq
    BY RoutingIs DEF Opens
  <1>3. PICK deposits : deposits = {f \in Events : f.type = "deposit" /\ f.position = p.seq /\ f.vault # Null}
    OBVIOUS
  <1>4. deposits \subseteq Routing(Events, p)
    BY <1>3 DEF Routing
  <1>5. e \in deposits
    BY <1>1, <1>3, RoutingIs DEF Opens
  <1>6. \A f \in deposits : e.seq <= f.seq
    BY <1>4 DEF Opens
  <1>7. Origin(Events, p) = (CHOOSE d \in deposits : \A f \in deposits : d.seq <= f.seq).vault
    BY <1>3, <1>5 DEF Origin
  <1>8. PICK g : g = CHOOSE d \in deposits : \A f \in deposits : d.seq <= f.seq
    OBVIOUS
  <1>9. g \in deposits /\ \A f \in deposits : g.seq <= f.seq
    BY <1>5, <1>6, <1>8
  <1>10. g = e
    <2>1. g.seq <= e.seq /\ g \in Routing(Events, p)
      BY <1>4, <1>5, <1>9
    <2>2. ~ e.seq < g.seq
      BY <2>1, RoutingIs DEF Opens
    <2>3. QED
      BY <1>2, <2>1, <2>2
  <1>11. QED
    BY <1>1, <1>2, <1>7, <1>8, <1>10 DEF ToVault

(* From one event of a position to the next, the changes of its rate add up.  *)
LEMMA ChangesAddUp ==
    ASSUME NEW p \in Positions, NEW o, Opens(o, p), \A f \in Routing(Events, p) : f.apy # Null,
           NEW g, \A e \in Routing(Events, p) \ {o} : g[e] = e.apy - Latest(Earlier(p, e)).apy,
           NEW l \in Routing(Events, p), \A f \in Routing(Events, p) : f.seq <= l.seq
    PROVE  /\ SumFunctionOnSet(g, Routing(Events, p) \ {o}) = l.apy - o.apy
           /\ \A e \in Routing(Events, p) \ {o} : g[e] \in Int
  <1> DEFINE R == Routing(Events, p)
             UpTo(e) == {f \in R \ {o} : f.seq <= e.seq}
             bad == {e \in R : SumFunctionOnSet(g, UpTo(e)) # e.apy - o.apy}
  <1>1. /\ o \in R /\ IsFiniteSet(R) /\ \A e \in R : e.seq \in Int /\ e.apy \in Int
        /\ \A f \in R : f # o => o.seq < f.seq
        /\ \A e, f \in R : e.seq = f.seq => e = f
    BY RoutingIs, OpeningIs DEF Opens
  <1>2. ASSUME NEW e \in R \ {o}
        PROVE  \E q \in R : /\ q = Latest(Earlier(p, e)) /\ q.seq < e.seq
                            /\ \A f \in R : f.seq < e.seq => f.seq <= q.seq
    <2>1. Earlier(p, e) \subseteq R /\ o \in Earlier(p, e)
      BY <1>1 DEF Earlier
    <2>2. Latest(Earlier(p, e)) \in Earlier(p, e)
          /\ \A f \in Earlier(p, e) : f.seq <= Latest(Earlier(p, e)).seq
      BY <2>1, LatestIs
    <2>3. QED
      BY <2>2 DEF Earlier
  <1>3. \A e \in R \ {o} : g[e] \in Int
    BY <1>1, <1>2
  <1>4. ASSUME bad # {} PROVE FALSE
    <2>1. IsFiniteSet(bad) /\ \A e \in bad : e.seq \in Int
      BY <1>1, FS_Subset
    <2>2. PICK e \in bad : \A f \in bad : e.seq <= f.seq
      BY <1>4, <2>1, FirstAndLast
    <2>3. e \in R /\ SumFunctionOnSet(g, UpTo(e)) # e.apy - o.apy
      BY <2>2
    <2>4. CASE e = o
      <3>1. UpTo(e) = {}
        BY <1>1, <2>4
      <3>2. e.apy - o.apy = 0
        BY <1>1, <2>4
      <3>3. QED
        BY <2>3, <3>1, <3>2, SumOfNone
    <2>5. CASE e # o
      <3>1. PICK q \in R : /\ q = Latest(Earlier(p, e)) /\ q.seq < e.seq
                           /\ \A f \in R : f.seq < e.seq => f.seq <= q.seq
        BY <1>2, <2>3, <2>5
      <3>2. SumFunctionOnSet(g, UpTo(q)) = q.apy - o.apy
        BY <1>1, <2>2, <2>3, <3>1
      <3>3. g[e] = e.apy - q.apy
        BY <2>3, <2>5, <3>1
      <3>4. e \in UpTo(e) /\ UpTo(e) \ {e} = UpTo(q)
        BY <1>1, <2>3, <2>5, <3>1
      <3>5. Integral(g, UpTo(e))
        BY <1>1, <1>3, FS_Subset DEF Integral
      <3> HIDE DEF UpTo
      <3>6. SumFunctionOnSet(g, UpTo(e)) = g[e] + SumFunctionOnSet(g, UpTo(e) \ {e})
        BY <3>4, <3>5, SumTakesOut
      <3>7. SumFunctionOnSet(g, UpTo(e)) = (e.apy - q.apy) + (q.apy - o.apy)
        BY <3>2, <3>3, <3>4, <3>6
      <3>8. QED
        BY <1>1, <2>3, <3>7
    <2>6. QED
      BY <2>4, <2>5
  <1>5. UpTo(l) = R \ {o}
    OBVIOUS
  <1>6. SumFunctionOnSet(g, UpTo(l)) = l.apy - o.apy
    BY <1>4
  <1>7. QED
    BY <1>3, <1>5, <1>6

DecisionsOn(vs, partner, p) ==
    {d \in Decisions(Positions, Events, vs, PartnerScope(partner)) : d.position = p.seq}

LEMMA DecisionsOf ==
    ASSUME NEW vs, NEW partner, NEW p \in Own(partner), NEW ds, ds = DecisionsOn(vs, partner, p),
           NEW dec, \A e \in Routing(Events, p) : dec[e] = Decision(vs, Events, p, e)
    PROVE  /\ \A e \in Routing(Events, p) : dec[e] \in ds
           /\ \A d \in ds : \E e \in Routing(Events, p) : d = dec[e]
  <1>1. ASSUME NEW e \in Routing(Events, p) PROVE dec[e] \in ds
    <2>1. p \in Positions
      BY OwnIs
    <2>2. dec[e].position = p.seq
      BY <2>1, DecisionIs
    <2>3. dec[e] \in Decisions(Positions, Events, vs, PartnerScope(partner))
      BY DEF Decisions, Own
    <2>4. QED
      BY <2>2, <2>3 DEF DecisionsOn
  <1>2. ASSUME NEW d \in ds PROVE \E e \in Routing(Events, p) : d = dec[e]
    <2>1. d \in Decisions(Positions, Events, vs, PartnerScope(partner)) /\ d.position = p.seq
      BY DEF DecisionsOn
    <2>2. PICK q \in Own(partner) : \E e \in Routing(Events, q) : d = Decision(vs, Events, q, e)
      BY <2>1 DEF Decisions, Own
    <2>3. p \in Positions /\ q \in Positions
      BY OwnIs
    <2>4. d.position = q.seq
      BY <2>2, <2>3, DecisionIs
    <2>5. q = p
      BY <2>1, <2>3, <2>4, BookIs
    <2>6. QED
      BY <2>2, <2>5
  <1>3. QED
    BY <1>1, <1>2

LEMMA DecisionsAddUp ==
    ASSUME NEW vs, NEW partner, NEW p \in Own(partner)
    PROVE  DecisionsExplain(p, Decisions(Positions, Events, vs, PartnerScope(partner)))
  <1>1. PICK ds : ds = DecisionsOn(vs, partner, p)
    OBVIOUS
  <1>2. PICK moves : moves = {d \in ds : d.type = "rebalance"}
    OBVIOUS
  <1>3. PICK first, last :
          /\ first = CHOOSE d \in ds : \A e \in ds : d.at < e.at \/ (d.at = e.at /\ d.id <= e.id)
          /\ last = CHOOSE d \in ds : \A e \in ds : d.at > e.at \/ (d.at = e.at /\ d.id >= e.id)
    OBVIOUS
  <1> DEFINE R == Routing(Events, p)
             decisions == [e \in R |-> Decision(vs, Events, p, e)]
  <1>4. PICK dec : dec = decisions
    OBVIOUS
  <1>5. \A e \in R : dec[e] = Decision(vs, Events, p, e)
    BY <1>4
  <1>6. p \in Positions
    BY OwnIs
  <1>7. ds = {dec[e] : e \in R}
    <2>1. (\A e \in R : dec[e] \in ds) /\ \A d \in ds : \E e \in R : d = dec[e]
      BY <1>1, <1>5, DecisionsOf
    <2>2. QED
      BY <2>1
  <1>8. \A e \in R : /\ dec[e].id = e.seq /\ dec[e].at = e.at /\ dec[e].to = ToVault(p, e)
                     /\ dec[e].apy_after = e.apy
                     /\ dec[e].type = IF e.type = "deposit" THEN "initial_routing" ELSE "rebalance"
    BY <1>5, <1>6, DecisionIs
  <1>9. /\ IsFiniteSet(R) /\ \A e \in R : e.seq \in Int /\ e.at \in Int
        /\ \A e, f \in R : e.seq = f.seq => e = f
        /\ \A e, f \in R : e.at < f.at \/ (e.at = f.at /\ e.seq < f.seq) <=> e.seq < f.seq
    BY <1>6, RoutingIs DEF Before
  <1>10. ASSUME ds # {}
         PROVE  /\ first.to = Origin(Events, p)
                /\ (Cardinality(ds) = Cardinality(moves) + 1 /\ \A d \in ds : d.apy_after # Null) =>
                      Total(LAMBDA d : d.uplift_bps, moves) = last.apy_after - first.apy_after
    <2>1. R # {}
      BY <1>7, <1>10
    <2>2. PICK o \in R, l \in R : (\A f \in R : o.seq <= f.seq) /\ \A f \in R : f.seq <= l.seq
      BY <1>9, <2>1, FirstAndLast
    <2>3. Opens(o, p)
      BY <2>2 DEF Opens
    <2>4. first = dec[o]
      <3>1. \A e \in ds : dec[o].at < e.at \/ (dec[o].at = e.at /\ dec[o].id <= e.id)
        BY <1>7, <1>8, <1>9, <2>2
      <3>2. first \in ds /\ \A e \in ds : first.at < e.at \/ (first.at = e.at /\ first.id <= e.id)
        BY <1>3, <1>7, <3>1
      <3>3. PICK a \in R : first = dec[a]
        BY <1>7, <3>2
      <3>4. a.at < o.at \/ (a.at = o.at /\ a.seq <= o.seq)
        BY <1>7, <1>8, <3>2, <3>3
      <3>5. a = o
        BY <1>9, <2>2, <3>4
      <3>6. QED
        BY <3>3, <3>5
    <2>5. last = dec[l]
      <3>1. \A e \in ds : dec[l].at > e.at \/ (dec[l].at = e.at /\ dec[l].id >= e.id)
        BY <1>7, <1>8, <1>9, <2>2
      <3>2. last \in ds /\ \A e \in ds : last.at > e.at \/ (last.at = e.at /\ last.id >= e.id)
        BY <1>3, <1>7, <3>1
      <3>3. PICK a \in R : last = dec[a]
        BY <1>7, <3>2
      <3>4. a.at > l.at \/ (a.at = l.at /\ a.seq >= l.seq)
        BY <1>7, <1>8, <3>2, <3>3
      <3>5. a = l
        BY <1>9, <2>2, <3>4
      <3>6. QED
        BY <3>3, <3>5
    <2>6. first.to = Origin(Events, p) /\ first.apy_after = o.apy /\ last.apy_after = l.apy
      BY <1>6, <1>8, <2>3, <2>4, <2>5, OpeningIs
    <2>7. ASSUME Cardinality(ds) = Cardinality(moves) + 1, \A d \in ds : d.apy_after # Null
          PROVE  Total(LAMBDA d : d.uplift_bps, moves) = last.apy_after - first.apy_after
      <3>1. \A e \in R : e.apy # Null
        BY <1>7, <1>8, <2>7
      <3>2. dec[o] \in ds /\ dec[o] \notin moves /\ moves \subseteq ds
        BY <1>2, <1>6, <1>7, <1>8, <2>3, OpeningIs
      <3>3. moves = ds \ {dec[o]}
        <4>1. IsFiniteSet(ds)
          BY <1>7, <1>9, ImageIsFinite
        <4>2. IsFiniteSet(ds \ {dec[o]}) /\ Cardinality(ds \ {dec[o]}) = Cardinality(ds) - 1
          BY <3>2, <4>1, FS_RemoveElement
        <4>3. Cardinality(moves) = Cardinality(ds \ {dec[o]})
          <5>1. Cardinality(moves) \in Nat /\ Cardinality(ds) \in Nat
            BY <3>2, <4>1, FS_Subset, FS_CardinalityType
          <5>2. QED
            BY <2>7, <4>2, <5>1
        <4>4. moves \in SUBSET (ds \ {dec[o]})
          BY <3>2
        <4>5. QED
          BY <4>2, <4>3, <4>4, FS_Subset
      <3>4. \A e, f \in R : dec[e] = dec[f] => e = f
        BY <1>8, <1>9
      <3>5. moves = {dec[e] : e \in R \ {o}}
        BY <1>7, <3>3, <3>4
      <3>6. PICK g : g = [e \in R \ {o} |-> e.apy - Latest(Earlier(p, e)).apy]
        OBVIOUS
      <3>7. \A e \in R \ {o} : g[e] = e.apy - Latest(Earlier(p, e)).apy
        BY <3>6
      <3>8. SumFunctionOnSet(g, R \ {o}) = l.apy - o.apy /\ \A e \in R \ {o} : g[e] \in Int
        BY <1>6, <2>2, <2>3, <3>1, <3>7, ChangesAddUp
      <3>9. PICK b : b = [d \in moves |-> d.uplift_bps]
        OBVIOUS
      <3>10. ASSUME NEW e \in R \ {o} PROVE b[dec[e]] = g[e]
        <4>1. dec[e] \in moves
          BY <3>5
        <4>2. e.type # "deposit"
          BY <1>2, <1>8, <4>1
        <4>3. o \in Earlier(p, e)
          BY <1>6, <2>3, OpeningIs DEF Earlier
        <4>4. dec[e].uplift_bps = e.apy - Latest(Earlier(p, e)).apy
          BY <1>5, <1>6, <3>1, <4>2, <4>3, DecisionIs
        <4>5. QED
          BY <3>7, <3>9, <4>1, <4>4
      <3>11. IsFiniteSet(R \ {o})
        BY <1>9, FS_Subset
      <3> HIDE DEF R
      <3>12. SumFunctionOnSet(b, {dec[e] : e \in R \ {o}}) = SumFunctionOnSet(g, R \ {o})
        BY <3>4, <3>8, <3>10, <3>11, SumOverRows
      <3>13. Total(LAMBDA d : d.uplift_bps, moves) = SumFunctionOnSet(b, moves)
        BY <3>9 DEF Total
      <3>14. QED
        BY <2>6, <3>5, <3>8, <3>12, <3>13
    <2>8. QED
      BY <2>6, <2>7
  <1>11. QED
    BY <1>1, <1>2, <1>3, <1>10, Zenon DEF DecisionsExplain, DecisionsOn

-----------------------------------------------------------------------------
(* Revenue, and positions that were never moved.                              *)

LEMMA RoundIsNatural ==
    ASSUME NEW n \in Nat, NEW d \in Nat \ {0}
    PROVE  Round(n, d) \in Nat /\ Round(n, d) <= n
  <1>1. PICK lo \in Int : lo = 0
    OBVIOUS
  <1>2. lo * d <= n
    BY <1>1
  <1>3. n <= n * d
    BY SMT
  <1>4. Round(n, d) \in Int /\ lo <= Round(n, d) /\ Round(n, d) <= n
    BY <1>2, <1>3, RoundBetween
  <1>5. QED
    BY <1>1, <1>4

LEMMA BlendIsNatural ==
    ASSUME NEW vs, IsTableOf(vs)
    PROVE  BlendApy(ActiveOf(vs)) \in Nat
  <1>1. PICK as : as = ActiveOf(vs)
    OBVIOUS
  <1>2. as \subseteq vs /\ IsFiniteSet(as)
    BY <1>1, FS_Subset DEF ActiveOf, IsTableOf
  <1>3. \A v \in as : v.apy \in Nat /\ v.alloc \in Nat /\ v.apy * v.alloc \in Nat
    BY <1>2, VaultAssumption, Products DEF IsTableOf, IsVault
  <1>4. PICK a, b, c : /\ a = [v \in as |-> v.alloc] /\ b = [v \in as |-> v.apy * v.alloc]
                       /\ c = [v \in as |-> v.apy]
    OBVIOUS
  <1>5. \A v \in as : a[v] \in Nat /\ b[v] \in Nat /\ c[v] \in Nat
    BY <1>3, <1>4
  <1>6. /\ SumFunctionOnSet(a, as) \in Nat /\ SumFunctionOnSet(b, as) \in Nat
        /\ SumFunctionOnSet(c, as) \in Nat
    BY <1>2, <1>5, SumIsNatural
  <1>7. PICK allocated \in Nat, weighed \in Nat, even \in Nat :
          /\ allocated = Total(LAMBDA v : v.alloc, as)
          /\ weighed = Total(LAMBDA v : v.apy * v.alloc, as)
          /\ even = Total(LAMBDA v : v.apy, as)
    BY <1>4, <1>6 DEF Total
  <1>8. BlendApy(as) = IF as = {} THEN 0
                       ELSE IF allocated > 0 THEN Round(weighed, allocated)
                       ELSE Round(even, Cardinality(as))
    BY <1>7, Zenon DEF BlendApy
  <1>9. Cardinality(as) \in Nat /\ (as # {} => Cardinality(as) # 0)
    BY <1>2, FS_CardinalityType, FS_EmptySet
  <1>10. QED
    BY <1>1, <1>8, <1>9, RoundIsNatural

LEMMA RevenueIs ==
    ASSUME NEW partner, NEW t, NEW blend \in Nat,
           NEW revenue, revenue = RevenueShare(Positions, partner, t, blend, Share),
           NetTVL(Positions, partner, t).tvl \in Nat
    PROVE  /\ revenue.partner <= revenue.fees /\ revenue.fees <= revenue.yield
           /\ revenue.partner \in Nat /\ revenue.fees \in Nat /\ revenue.yield \in Nat
  <1>1. PICK n \in Nat : n = NetTVL(Positions, partner, t).tvl * blend
    BY Products
  <1>2. PICK yield \in Nat : yield = Round(n, 10000)
    BY RoundIsNatural
  <1>3. PICK fees \in Nat : fees = Round(yield, 10) /\ fees <= yield
    BY RoundIsNatural
  <1>4. PICK lo \in Int, hundred \in Nat \ {0} : lo = 0 /\ hundred = 100
    OBVIOUS
  <1>5. PICK s \in Nat : s = fees * Share
    BY ShareAssumption, Products
  <1>6. lo * hundred <= s /\ s <= fees * hundred
    <2>1. fees * Share <= fees * hundred
      BY <1>4, ShareAssumption, SMT
    <2>2. QED
      BY <1>4, <1>5, <2>1
  <1>7. Round(s, hundred) \in Int /\ lo <= Round(s, hundred) /\ Round(s, hundred) <= fees
    BY <1>6, RoundBetween
  <1>8. PICK part : part = Round(s, hundred)
    OBVIOUS
  <1>9. part \in Nat /\ part <= fees
    BY <1>4, <1>7, <1>8
  <1>10. revenue = [yield |-> yield, fees |-> fees, partner |-> part]
    BY <1>1, <1>2, <1>3, <1>4, <1>5, <1>8 DEF RevenueShare
  <1>11. QED
    BY <1>3, <1>9, <1>10

LEMMA StayedIs ==
    ASSUME NEW vs, IsTableOf(vs), NEW p \in Positions, NEW t \in Int, NEW v \in vs,
           v.id = p.vault, v.apy = p.apy, \A e \in Events : e.position = p.seq => e.vault = p.vault,
           NEW r, r = UpliftRow(vs, Events, p, t)
    PROVE  r.uplift_vs_hold = 0
  <1>1. PICK deposits : deposits = {e \in Events : e.type = "deposit" /\ e.position = p.seq /\ e.vault # Null}
    OBVIOUS
  <1>2. \A e \in deposits : e.vault = p.vault
    BY <1>1
  <1>3. Origin(Events, p) = IF deposits = {} THEN p.vault
                            ELSE (CHOOSE e \in deposits : \A f \in deposits : e.seq <= f.seq).vault
    BY <1>1 DEF Origin
  <1>4. Origin(Events, p) = p.vault
    <2>1. CASE deposits = {}
      BY <1>3, <2>1
    <2>2. CASE deposits # {}
      <3>1. IsFiniteSet(deposits) /\ \A e \in deposits : e.seq \in Int
        BY <1>1, BookIs, FS_Subset
      <3>2. \E e \in deposits : \A f \in deposits : e.seq <= f.seq
        BY <2>2, <3>1, FirstAndLast
      <3>3. (CHOOSE e \in deposits : \A f \in deposits : e.seq <= f.seq) \in deposits
        BY <3>2
      <3>4. QED
        BY <1>2, <1>3, <2>2, <3>3
    <2>3. QED
      BY <2>1, <2>2
  <1>5. PICK origin : origin = {w \in vs : w.id = Origin(Events, p)}
    OBVIOUS
  <1>6. v \in origin /\ \A w \in origin : w = v
    BY <1>4, <1>5 DEF IsTableOf, Identified
  <1>7. HoldApy(vs, Events, p) = IF origin = {} THEN p.apy ELSE (CHOOSE w \in origin : TRUE).apy
    BY <1>5 DEF HoldApy
  <1>8. HoldApy(vs, Events, p) = p.apy
    BY <1>6, <1>7
  <1>9. r.hold = Value(p, t) /\ r.current = Value(p, t) /\ r.uplift_vs_hold = r.current - r.hold
    BY <1>8, UpliftRowIs DEF Value
  <1>10. Value(p, t) \in Nat
    BY ValueIs
  <1>11. QED
    BY <1>9, <1>10

-----------------------------------------------------------------------------
(* The book under any table of vaults, at any time.                           *)

LEMMA RowsAreRight ==
    ASSUME NEW vs, IsTableOf(vs), NEW partner, NEW t \in Int,
           NEW up, up = Uplift(Positions, Events, vs, PartnerScope(partner), t)
    PROVE  RowsAddUp(up)
  <1> DEFINE based == {r \in up.positions : r.base # Null}
             gain == Total(LAMBDA r : r.uplift, based)
  <1>1. PICK rows : rows = Compared(vs, partner, t)
    OBVIOUS
  <1>2. PICK own : own = Based(rows)
    OBVIOUS
  <1>3. up.positions = rows /\ based = own
    <2>1. up.positions = rows
      BY <1>1, <1>2, UpliftIs
    <2>2. QED
      BY <1>2, <2>1 DEF Based
  <1> HIDE DEF based, gain
  <1>4. gain \in Int /\ up.uplift = gain
    <2>1. up.uplift = SumFunctionOnSet(UpliftOf(own), own) /\ up.uplift \in Int
      BY <1>1, <1>2, GainsAddUp
    <2>2. gain = SumFunctionOnSet(UpliftOf(own), own)
      BY <1>3 DEF gain, Total, UpliftOf
    <2>3. QED
      BY <2>1, <2>2
  <1>5. up.uplift_vs_hold = Total(LAMBDA r : r.uplift_vs_hold, up.positions)
    <2>1. up.uplift_vs_hold = SumFunctionOnSet(OverHoldOf(rows), rows)
      BY <1>1, <1>2, GainsAddUp
    <2>2. QED
      BY <1>3, <2>1 DEF Total, OverHoldOf
  <1>6. up.coverage = 0 <=> (based = {} \/ 20000 * Cardinality(based) < Cardinality(up.positions))
    <2>1. PICK c, n : c = Cardinality(own) /\ n = Cardinality(rows)
      OBVIOUS
    <2>2. up.coverage = 0 <=> (own = {} \/ 20000 * c < n)
      BY <1>1, <1>2, <2>1, CoverageAddsUp
    <2>3. QED
      BY <1>3, <2>1, <2>2
  <1>7. Headline(up) = CASE based = {} -> "no_baseline"
                         [] based # {} /\ gain >= 0 -> "beating"
                         [] OTHER -> "trailing"
    <2>1. up.base = 0 <=> based = {}
      BY <1>1, <1>2, <1>3, GainsAddUp
    <2>2. QED
      BY <1>4, <2>1 DEF Headline
  <1>8. QED
    BY <1>4, <1>5, <1>6, <1>7 DEF RowsAddUp, based, gain

LEMMA StayersAreRight ==
    ASSUME NEW vs, IsTableOf(vs), NEW partner, NEW t \in Int,
           NEW up, up = Uplift(Positions, Events, vs, PartnerScope(partner), t)
    PROVE  StayingIsHolding(up, vs)
  <1>1. PICK rows : rows = Compared(vs, partner, t)
    OBVIOUS
  <1>2. PICK own : own = Based(rows)
    OBVIOUS
  <1>3. up.positions = rows
    BY <1>1, <1>2, UpliftIs
  <1>4. ASSUME NEW r \in up.positions, NEW p \in Positions, NEW v \in vs,
               p.seq = r.position, v.id = p.vault, v.apy = p.apy,
               \A e \in Events : e.position = p.seq => e.vault = p.vault
        PROVE  r.uplift_vs_hold = 0
    <2>1. PICK q \in Active(Own(partner)) : r = UpliftRow(vs, Events, q, t)
      BY <1>1, <1>3 DEF Compared
    <2>2. q \in Positions
      BY <2>1, OwnIs
    <2>3. r.position = q.seq
      BY <2>1, <2>2, UpliftRowIs
    <2>4. q = p
      BY <1>4, <2>2, <2>3, BookIs
    <2>5. QED
      BY <1>4, <2>1, <2>4, StayedIs
  <1>5. QED
    BY <1>4 DEF StayingIsHolding

LEMMA BookIsRight ==
    ASSUME NEW vs, IsTableOf(vs), NEW partner, NEW t \in Int, NEW b,
           b.partner = partner, b.vaults = vs,
           b.summary = Summary(Positions, partner, t, BlendApy(ActiveOf(vs)), Share),
           b.revenue = RevenueShare(Positions, partner, t, BlendApy(ActiveOf(vs)), Share),
           b.uplift = Uplift(Positions, Events, vs, PartnerScope(partner), t),
           b.decisions = Decisions(Positions, Events, vs, PartnerScope(partner))
    PROVE  BookAddsUp(b)
  <1>1. PICK blend \in Nat : blend = BlendApy(ActiveOf(vs))
    BY BlendIsNatural
  <1>2. PICK up, summary, revenue : up = b.uplift /\ summary = b.summary /\ revenue = b.revenue
    OBVIOUS
  <1>3. /\ up = Uplift(Positions, Events, vs, PartnerScope(partner), t)
        /\ summary = Summary(Positions, partner, t, blend, Share)
        /\ revenue = RevenueShare(Positions, partner, t, blend, Share)
    BY <1>1, <1>2
  <1>4. PICK rows : rows = Compared(vs, partner, t)
    OBVIOUS
  <1>5. PICK own : own = Based(rows)
    OBVIOUS
  <1>6. /\ up.current = summary.tvl /\ up.principal = summary.deposits
        /\ up.current - up.principal <= summary.yield /\ summary.tvl \in Nat
    BY <1>3, <1>4, <1>5, ComparisonAddsUp
  <1>7. WorthTheSame(up, summary)
    BY <1>6 DEF WorthTheSame, Portfolio
  <1>8. RowsAddUp(up) /\ StayingIsHolding(up, vs)
    BY <1>3, RowsAreRight, StayersAreRight
  <1>9. RevenueIsAShare(revenue, summary)
    <2>1. summary.tvl = NetTVL(Positions, partner, t).tvl /\ revenue.partner = summary.revenue
      BY <1>3 DEF Summary
    <2>2. NetTVL(Positions, partner, t).tvl \in Nat
      BY <1>6, <2>1
    <2>3. QED
      BY <1>3, <2>1, <2>2, RevenueIs DEF RevenueIsAShare
  <1>10. \A p \in InScope(Positions, PartnerScope(b.partner)) : DecisionsExplain(p, b.decisions)
    BY DecisionsAddUp DEF Own
  <1>11. QED
    BY <1>2, <1>7, <1>8, <1>9, <1>10 DEF BookAddsUp

-----------------------------------------------------------------------------
(* The shapes of the state.                                                   *)

InstTyped(s) ==
    /\ s.build \in Builds \cup {Unseeded} /\ s.at \in Times /\ s.clean \in Times
    /\ s.rows \subseteq Snapshot /\ s.next \in (0 .. now + Hour) \cup {Null}

Typed ==
    /\ now \in Times /\ boots \in 0 .. MaxBoots /\ fails \in 0 .. MaxFails
    /\ snaps \subseteq Snapshot /\ \A h \in held : h = <<h[1], h[2]>>
    /\ \A i \in Instance : InstTyped(inst[i])

LEMMA TimesAre == Times \subseteq Nat /\ 0 \in Times /\ MaxTime \in Nat /\ \A t \in Times : t <= MaxTime
  BY BoundAssumption DEF Times

LEMMA RateRowIs ==
    ASSUME NEW v \in VaultRows, NEW t \in Times
    PROVE  RateRow(v, t) \in Snapshot
  <1>1. v.apy \in Nat /\ v.alloc \in Nat
    BY VaultAssumption DEF IsVault
  <1>2. t \div Hour \in 0 .. MaxTime \div Hour
    <2>1. t \in Nat /\ MaxTime \in Nat /\ t <= MaxTime /\ Hour \in Nat \ {0}
      BY TimesAre, Lengths
    <2>2. PICK q \in Nat : q = t \div Hour /\ q * Hour <= t /\ t < (q + 1) * Hour
      BY <2>1
    <2>3. PICK m \in Nat : m = MaxTime \div Hour /\ m * Hour <= MaxTime /\ MaxTime < (m + 1) * Hour
      BY <2>1
    <2>4. q <= m
      <3>1. CASE q >= m + 1
        <4>1. (m + 1) * Hour <= q * Hour
          BY <2>1, <3>1
        <4>2. QED
          BY <2>1, <2>2, <2>3, <4>1
      <3>2. QED
        BY <3>1
    <2>5. QED
      BY <2>2, <2>3, <2>4
  <1>3. QED
    BY <1>1, <1>2 DEF RateRow, HourBucket, Snapshot

LEMMA DownIsTyped == InstTyped(Down) /\ InstTyped(Down)'
  BY TimesAre DEF InstTyped, Down

LEMMA OneTyped ==
    ASSUME Typed, Instances, NEW i \in Instance, NEW new, inst' = [inst EXCEPT ![i] = new],
           InstTyped(new), now' = now
    PROVE  \A j \in Instance : InstTyped(inst[j])'
  <1>1. /\ inst'[i] = new
        /\ \A j \in Instance \ {i} : inst'[j] = inst[j]
    BY DEF Instances
  <1>2. \A s : InstTyped(s) => InstTyped(s)'
    BY DEF InstTyped
  <1>3. QED
    BY <1>1, <1>2 DEF Typed

LEMMA RestIsTyped ==
    ASSUME Typed, IInv, NEW i \in Instance, NEW failed, Rest(i, failed), now' = now
    PROVE  \A j \in Instance : InstTyped(inst[j])'
  <1>1. PICK s : s = inst[i]
    OBVIOUS
  <1>2. InstTyped(s) /\ IsInstance(s)
    BY <1>1 DEF Typed, IInv, Instances, InstanceOK
  <1>3. PICK new : new = [s EXCEPT !.pc = "up", !.rows = {}, !.armed = TRUE,
                                   !.next = IF s.armed THEN s.next ELSE now + Hour,
                                   !.clean = IF failed THEN now ELSE s.clean]
    OBVIOUS
  <1>4. inst' = [inst EXCEPT ![i] = new]
    BY <1>1, <1>3 DEF Rest, IInv, Instances
  <1>5. /\ new.build = s.build /\ new.at = s.at /\ new.rows = {}
        /\ new.next \in {s.next, now + Hour} /\ new.clean \in {now, s.clean}
    BY <1>2, <1>3 DEF IsInstance
  <1>6. now \in Times /\ now + Hour \in 0 .. now + Hour
    BY TimesAre, Lengths DEF Typed
  <1>7. InstTyped(new)
    BY <1>2, <1>5, <1>6 DEF InstTyped
  <1>8. QED
    BY <1>4, <1>7, OneTyped DEF IInv

LEMMA InstanceStaysTyped ==
    ASSUME Typed, RInv, NEW i \in Instance,
           \/ Boot(i) \/ SaveVaults(i) \/ DropStaleVaults(i)
           \/ Select(i) \/ Insert(i) \/ RecordFails(i) \/ Fire(i) \/ Kill(i)
    PROVE  /\ \A j \in Instance : InstTyped(inst[j])'
           /\ now' = now /\ snaps' \subseteq Snapshot /\ \A h \in held' : h = <<h[1], h[2]>>
           /\ boots' \in 0 .. MaxBoots /\ fails' \in 0 .. MaxFails
  <1>1. PICK s : s = inst[i]
    OBVIOUS
  <1>2. InstTyped(s) /\ IsInstance(s) /\ Instances /\ IInv
    BY <1>1 DEF Typed, RInv, IInv, Instances, InstanceOK
  <1>3. now \in Times /\ now + Hour \in 0 .. now + Hour
    BY TimesAre, Lengths DEF Typed
  <1>4. /\ {boots, fails, MaxBoots, MaxFails} \subseteq Nat /\ boots \in 0 .. MaxBoots
        /\ fails \in 0 .. MaxFails /\ snaps \subseteq Snapshot
        /\ \A h \in held : h = <<h[1], h[2]>>
    BY BoundAssumption DEF Typed
  <1>5. CASE Boot(i)
    <2>1. PICK b \in Builds \cup {Unseeded} :
            inst' = [inst EXCEPT ![i] = [Down EXCEPT !.pc = IF b = Unseeded THEN "select" ELSE "save",
                                                     !.build = b, !.at = now, !.clean = now]]
      BY <1>5 DEF Boot
    <2>2. PICK new : new = [Down EXCEPT !.pc = IF b = Unseeded THEN "select" ELSE "save",
                                        !.build = b, !.at = now, !.clean = now]
      OBVIOUS
    <2>3. InstTyped(new)
      BY <1>3, <2>2 DEF Down, InstTyped
    <2>4. now' = now /\ boots' = boots + 1 /\ boots < MaxBoots /\ UNCHANGED <<snaps, held, fails>>
      BY <1>5 DEF Boot
    <2>5. \A j \in Instance : InstTyped(inst[j])'
      BY <1>2, <2>1, <2>2, <2>3, <2>4, OneTyped
    <2>6. QED
      BY <1>4, <2>4, <2>5
  <1>6. CASE SaveVaults(i)
    <2>1. PICK new : new = [s EXCEPT !.pc = "drop"]
      OBVIOUS
    <2>2. inst' = [inst EXCEPT ![i] = new] /\ UNCHANGED <<now, snaps, boots, fails>>
      BY <1>1, <1>2, <1>6, <2>1 DEF SaveVaults, Instances
    <2>3. InstTyped(new)
      BY <1>2, <2>1 DEF InstTyped, IsInstance
    <2>4. \A h \in held' : h = <<h[1], h[2]>>
      BY <1>4, <1>6 DEF SaveVaults, Seeded
    <2>5. QED
      BY <1>2, <1>4, <2>2, <2>3, <2>4, OneTyped
  <1>7. CASE DropStaleVaults(i)
    <2>1. PICK new : new = [s EXCEPT !.pc = "select", !.at = now, !.clean = now]
      OBVIOUS
    <2>2. inst' = [inst EXCEPT ![i] = new] /\ UNCHANGED <<now, snaps, boots, fails>>
      BY <1>1, <1>2, <1>7, <2>1 DEF DropStaleVaults, Instances
    <2>3. InstTyped(new)
      BY <1>2, <1>3, <2>1 DEF InstTyped, IsInstance
    <2>4. \A h \in held' : h = <<h[1], h[2]>>
      BY <1>4, <1>7 DEF DropStaleVaults, Seeded
    <2>5. QED
      BY <1>2, <1>4, <2>2, <2>3, <2>4, OneTyped
  <1>8. CASE Select(i)
    <2>1. UNCHANGED <<now, snaps, boots, fails, held>>
      BY <1>8 DEF Select
    <2>2. \A j \in Instance : InstTyped(inst[j])'
      <3>1. CASE ActiveVaults = {}
        BY <1>2, <1>8, <2>1, <3>1, RestIsTyped DEF Select
      <3>2. CASE ActiveVaults # {}
        <4> DEFINE row(v) == RateRow(v, inst[i].at)
        <4>1. PICK rows : rows = {row(v) : v \in ActiveVaults}
          OBVIOUS
        <4>2. PICK new : new = [s EXCEPT !.pc = "insert", !.rows = rows]
          OBVIOUS
        <4>3. inst' = [inst EXCEPT ![i] = new]
          <5>1. inst' = [inst EXCEPT ![i].pc = "insert", ![i].rows = rows]
            BY <1>8, <3>2, <4>1 DEF Select
          <5>2. QED
            BY <1>1, <1>2, <4>2, <5>1 DEF Instances
        <4>4. rows \subseteq Snapshot
          BY <1>1, <1>2, <4>1, RateRowIs DEF InstTyped, RInv, Tabled, ActiveVaults, ActiveOf
        <4>5. InstTyped(new)
          BY <1>2, <4>2, <4>4 DEF InstTyped, IsInstance
        <4>6. QED
          BY <1>2, <2>1, <4>3, <4>5, OneTyped
      <3>3. QED
        BY <3>1, <3>2
    <2>3. QED
      BY <1>4, <2>1, <2>2
  <1>9. CASE Insert(i)
    <2>1. UNCHANGED <<now, boots, fails, held>> /\ Rest(i, FALSE) /\ snaps' \subseteq snaps \cup s.rows
      BY <1>1, <1>9 DEF Insert
    <2>2. snaps' \subseteq Snapshot
      BY <1>2, <1>4, <2>1 DEF InstTyped
    <2>3. \A j \in Instance : InstTyped(inst[j])'
      BY <1>2, <2>1, RestIsTyped
    <2>4. QED
      BY <1>4, <2>1, <2>2, <2>3
  <1>10. CASE RecordFails(i)
    <2>1. /\ UNCHANGED <<now, snaps, boots, held>> /\ Rest(i, TRUE)
          /\ fails < MaxFails /\ fails' = fails + 1
      BY <1>10 DEF RecordFails
    <2>2. \A j \in Instance : InstTyped(inst[j])'
      BY <1>2, <2>1, RestIsTyped
    <2>3. QED
      BY <1>4, <2>1, <2>2
  <1>11. CASE Fire(i)
    <2>1. PICK new : new = [s EXCEPT !.pc = "select", !.at = now, !.next = now + Hour]
      OBVIOUS
    <2>2. inst' = [inst EXCEPT ![i] = new] /\ UNCHANGED <<now, snaps, boots, fails, held>>
      BY <1>1, <1>2, <1>11, <2>1 DEF Fire, Instances
    <2>3. InstTyped(new)
      BY <1>2, <1>3, <2>1 DEF InstTyped, IsInstance
    <2>4. QED
      BY <1>2, <1>4, <2>2, <2>3, OneTyped
  <1>12. CASE Kill(i)
    <2>1. inst' = [inst EXCEPT ![i] = Down] /\ UNCHANGED <<now, snaps, boots, fails, held>>
      BY <1>12 DEF Kill
    <2>2. QED
      BY <1>2, <1>4, <2>1, DownIsTyped, OneTyped
  <1>13. QED
    BY <1>5, <1>6, <1>7, <1>8, <1>9, <1>10, <1>11, <1>12

LEMMA TypedNext == Typed /\ RInv /\ [Next]_vars => Typed'
  <1> SUFFICES ASSUME Typed, RInv, [Next]_vars PROVE Typed'
    OBVIOUS
  <1>1. CASE \E i \in Instance : \/ Boot(i) \/ SaveVaults(i) \/ DropStaleVaults(i)
                                 \/ Select(i) \/ Insert(i) \/ RecordFails(i) \/ Fire(i) \/ Kill(i)
    BY <1>1, InstanceStaysTyped DEF Typed
  <1>2. CASE Tick
    <2>1. /\ now < MaxTime /\ now' = now + 1 /\ held' = held \cup {<<now + 1, vaults>>}
          /\ UNCHANGED <<vaults, snaps, inst, boots, fails>>
      BY <1>2 DEF Tick
    <2>2. now \in Nat /\ now + 1 \in Times
      BY <2>1, TimesAre DEF Typed, Times
    <2>3. \A s : InstTyped(s) => InstTyped(s)'
      BY <2>1, <2>2, Lengths DEF InstTyped
    <2>4. QED
      BY <2>1, <2>2, <2>3 DEF Typed
  <1>3. CASE UNCHANGED vars
    BY <1>3 DEF vars, Typed, InstTyped
  <1>4. QED
    BY <1>1, <1>2, <1>3 DEF Next

LEMMA TypedInit == Init => Typed
  BY TimesAre, DownIsTyped, BoundAssumption DEF Init, Typed

(* At any time, under the vaults that are in the table, what the answers say   *)
(* of the positions of a partner adds up (analytics.service.ts:235-331,        *)
(* 413-479, attribution.service.ts:136-151).                                   *)
THEOREM ComparisonsAddUp == Spec => []UpliftAddsUp
  <1>1. ASSUME RInv, Typed PROVE UpliftAddsUp
    <2>1. IsTableOf(vaults)
      BY <1>1 DEF RInv, IInv, Table, Tabled, IsTableOf
    <2>2. vaults \in Tables
      BY <2>1 DEF IsTableOf, Identified, Tables
    <2>3. now \in Times /\ now \in Int
      BY <1>1, TimesAre DEF Typed
    <2>4. ASSUME NEW partner \in Partners PROVE <<now, partner, vaults>> \in AddUp
      <3>1. PICK b : b = [at |-> now, partner |-> partner, vaults |-> vaults,
                          summary |-> Summary(Positions, partner, now, BlendApy(ActiveOf(vaults)), Share),
                          revenue |-> RevenueShare(Positions, partner, now, BlendApy(ActiveOf(vaults)), Share),
                          uplift |-> Uplift(Positions, Events, vaults, PartnerScope(partner), now),
                          decisions |-> Decisions(Positions, Events, vaults, PartnerScope(partner))]
        OBVIOUS
      <3>2. b \in Book
        BY <2>2, <2>3, <3>1 DEF Book
      <3>3. BookAddsUp(b)
        BY <2>1, <2>3, <3>1, BookIsRight
      <3>4. b.at = now /\ b.partner = partner /\ b.vaults = vaults
        BY <3>1
      <3>5. QED
        BY <3>2, <3>3, <3>4 DEF AddUp
    <2>5. QED
      BY <2>4 DEF UpliftAddsUp
  <1>2. QED
    BY <1>1, TypedInit, TypedNext, TablesExplainRows, PTL DEF Spec

LEMMA StateShapes ==
    ASSUME Typed, RInv
    PROVE  /\ now \in Times /\ boots \in 0 .. MaxBoots /\ fails \in 0 .. MaxFails
           /\ vaults \subseteq VaultRows /\ snaps \subseteq Snapshot
           /\ inst \in [Instance -> InstanceRecord] /\ held \subseteq Times \X SUBSET VaultRows
  <1>1. ASSUME NEW i \in Instance PROVE inst[i] \in InstanceRecord
    <2>1. PICK s : s = inst[i]
      OBVIOUS
    <2>2. IsInstance(s) /\ InstTyped(s)
      BY <2>1 DEF RInv, IInv, Instances, InstanceOK, Typed
    <2>3. s.next \in (0 .. MaxTime + Hour) \cup {Null}
      BY <2>2, TimesAre, Lengths DEF InstTyped, Typed
    <2>4. s \in InstanceRecord
      BY <2>2, <2>3 DEF IsInstance, InstTyped, InstanceRecord
    <2>5. QED
      BY <2>1, <2>4
  <1>2. inst = [i \in Instance |-> inst[i]]
    BY DEF RInv, IInv, Instances
  <1>3. inst \in [Instance -> InstanceRecord]
    BY <1>1, <1>2
  <1>4. ASSUME NEW h \in held PROVE h \in Times \X SUBSET VaultRows
    <2>1. h = <<h[1], h[2]>> /\ h[1] \in Nat /\ h[1] <= now /\ h[2] \subseteq VaultRows
      BY DEF Typed, RInv, Tabled, IsHeld
    <2>2. h[1] \in Times
      BY <2>1, TimesAre DEF Typed, Times
    <2>3. QED
      BY <2>1, <2>2
  <1>5. QED
    BY <1>3, <1>4 DEF Typed, RInv, Tabled

-----------------------------------------------------------------------------
(* The shapes of the book.                                                    *)

LEMMA VaultRowsAreFinite == IsFiniteSet(VaultRows)
  <1>1. PICK f : f = [b \in Builds |-> Build[b]]
    OBVIOUS
  <1>2. PICK fixtures : fixtures = {f[b] : b \in Builds}
    OBVIOUS
  <1>3. IsFiniteSet(fixtures)
    BY <1>2, BuildAssumption, ImageIsFinite
  <1>4. \A S \in fixtures : IsFiniteSet(S)
    BY <1>1, <1>2, BuildAssumption
  <1>5. VaultRows = UNION fixtures
    BY <1>1, <1>2 DEF VaultRows
  <1>6. QED
    BY <1>3, <1>4, <1>5, FS_UNION

LEMMA TablesAre == \A vs \in Tables : IsTableOf(vs)
  BY VaultRowsAreFinite, FS_Subset DEF Tables, IsTableOf, Identified

LEMMA BreakdownShaped ==
    ASSUME NEW partner, NEW t \in Int
    PROVE  NetTVL(Positions, partner, t).breakdown \subseteq TvlBreakdownDto
  <1>1. PICK mine : mine = Active(InScope(Positions, PartnerScope(partner)))
    OBVIOUS
  <1>2. mine \subseteq Positions /\ IsFiniteSet(mine)
    BY <1>1, OwnIs DEF Own
  <1>3. ASSUME NEW a \in {p.asset : p \in mine}
        PROVE  [asset |-> a, positions |-> Cardinality({p \in mine : p.asset = a}),
                tvl |-> Total(LAMBDA p : Value(p, t), {p \in mine : p.asset = a})] \in TvlBreakdownDto
    <2>1. PICK of : of = {p \in mine : p.asset = a}
      OBVIOUS
    <2>2. IsFiniteSet(of) /\ of # {} /\ of \subseteq Positions
      BY <1>2, <2>1, FS_Subset
    <2>3. PICK n : n = Cardinality(of)
      OBVIOUS
    <2>4. n \in Nat \ {0}
      BY <2>2, <2>3, FS_CardinalityType, FS_EmptySet
    <2>5. PICK v : v = [p \in of |-> Value(p, t)]
      OBVIOUS
    <2>6. \A p \in of : v[p] \in Nat
      BY <2>2, <2>5, ValueIs
    <2>7. PICK tvl \in Nat : tvl = SumFunctionOnSet(v, of)
      BY <2>2, <2>6, SumIsNatural
    <2>8. Total(LAMBDA p : Value(p, t), of) = tvl
      BY <2>5, <2>7 DEF Total
    <2>9. a \in {p.asset : p \in Positions}
      BY <1>2
    <2>10. [asset |-> a, positions |-> n, tvl |-> tvl] \in TvlBreakdownDto
      BY <2>4, <2>9 DEF TvlBreakdownDto
    <2>11. QED
      BY <2>1, <2>3, <2>8, <2>10
  <1>4. NetTVL(Positions, partner, t).breakdown
          = {[asset |-> a, positions |-> Cardinality({p \in mine : p.asset = a}),
              tvl |-> Total(LAMBDA p : Value(p, t), {p \in mine : p.asset = a})]
                : a \in {p.asset : p \in mine}}
    BY <1>1 DEF NetTVL
  <1>5. QED
    BY <1>3, <1>4

LEMMA SummaryShaped ==
    ASSUME NEW partner, NEW t \in Int, NEW blend \in Nat
    PROVE  /\ Summary(Positions, partner, t, blend, Share) \in PartnerSummaryOutputDto
           /\ RevenueShare(Positions, partner, t, blend, Share) \in RevenueShareOutputDto
  <1>1. PICK summary, revenue :
          /\ summary = Summary(Positions, partner, t, blend, Share)
          /\ revenue = RevenueShare(Positions, partner, t, blend, Share)
    OBVIOUS
  <1>2. PICK vs : vs = {}
    OBVIOUS
  <1>3. IsTableOf(vs)
    BY <1>2, FS_EmptySet DEF IsTableOf, Identified
  <1>4. PICK rows : rows = Compared(vs, partner, t)
    OBVIOUS
  <1>5. PICK own : own = Based(rows)
    OBVIOUS
  <1>6. PICK up : up = Uplift(Positions, Events, vs, PartnerScope(partner), t)
    OBVIOUS
  <1>7. summary.tvl \in Nat /\ summary.deposits \in Nat /\ summary.yield \in Nat
    BY <1>1, <1>3, <1>4, <1>5, <1>6, ComparisonAddsUp
  <1>8. summary.tvl = NetTVL(Positions, partner, t).tvl /\ summary.revenue = revenue.partner
    BY <1>1 DEF Summary
  <1>9. revenue.partner \in Nat /\ revenue.fees \in Nat /\ revenue.yield \in Nat
    BY <1>1, <1>7, <1>8, RevenueIs
  <1>10. PICK open : open = {p \in InScope(Positions, PartnerScope(partner)) : p.status # "closed"}
    OBVIOUS
  <1>11. IsFiniteSet(open)
    BY <1>10, OwnIs DEF Own
  <1>12. PICK count \in Nat : count = Cardinality(open)
    BY <1>11, FS_CardinalityType
  <1>13. PICK breakdown : breakdown = NetTVL(Positions, partner, t).breakdown
    OBVIOUS
  <1>14. breakdown \subseteq TvlBreakdownDto
    BY <1>13, BreakdownShaped
  <1>15. summary = [deposits |-> summary.deposits, count |-> count, tvl |-> summary.tvl,
                    breakdown |-> breakdown, yield |-> summary.yield, revenue |-> summary.revenue]
    BY <1>1, <1>10, <1>12, <1>13 DEF Summary
  <1>16. summary \in PartnerSummaryOutputDto
    BY <1>7, <1>8, <1>9, <1>14, <1>15 DEF PartnerSummaryOutputDto
  <1>17. revenue = [yield |-> revenue.yield, fees |-> revenue.fees, partner |-> revenue.partner]
    BY <1>1 DEF RevenueShare
  <1>18. revenue \in RevenueShareOutputDto
    BY <1>9, <1>17 DEF RevenueShareOutputDto
  <1>19. QED
    BY <1>1, <1>16, <1>18

LEMMA UpliftShaped ==
    ASSUME NEW vs, IsTableOf(vs), NEW partner, NEW t \in Int
    PROVE  Uplift(Positions, Events, vs, PartnerScope(partner), t) \in UpliftTotalsDto
  <1>1. PICK up : up = Uplift(Positions, Events, vs, PartnerScope(partner), t)
    OBVIOUS
  <1>2. PICK rows : rows = Compared(vs, partner, t)
    OBVIOUS
  <1>3. PICK own : own = Based(rows)
    OBVIOUS
  <1>4. PICK c, n : c = Cardinality(own) /\ n = Cardinality(rows)
    OBVIOUS
  <1>5. PICK summary : summary = Summary(Positions, partner, t, 0, Share)
    OBVIOUS
  <1>6. up.current \in Nat /\ up.principal \in Nat /\ up.hold \in Nat
    BY <1>1, <1>2, <1>5, ComparisonAddsUp
  <1>7. up.base \in Nat /\ up.uplift \in Int /\ up.uplift_vs_hold \in Int
    BY <1>1, <1>2, <1>3, GainsAddUp
  <1>8. up.coverage \in Nat /\ up.coverage <= 10000
    BY <1>1, <1>2, <1>3, <1>4, CoverageAddsUp
  <1>9. up.pct \in Int
    <2>1. PICK w \in Int : w = up.uplift * 10000
      BY <1>7
    <2>2. up.base > 0 => Round(w, up.base) \in Int
      BY <1>7, NearestReaches DEF Round
    <2>3. up.pct = IF up.base > 0 THEN Round(w, up.base) ELSE 0
      BY <1>1, <1>2, <1>3, <2>1, UpliftIs
    <2>4. QED
      BY <2>2, <2>3
  <1>10. rows \subseteq UpliftRowDto
    BY <1>2, ComparedIs
  <1>11. up = [positions |-> rows, principal |-> up.principal, current |-> up.current,
               base |-> up.base, hold |-> up.hold, uplift |-> up.uplift,
               uplift_vs_hold |-> up.uplift_vs_hold, pct |-> up.pct, coverage |-> up.coverage]
    BY <1>1, <1>2, <1>3, UpliftIs
  <1>12. PICK hi \in Nat : hi = 10000
    OBVIOUS
  <1>13. up \in UpliftTotalsDto
    <2>1. up.coverage \in Nat /\ up.coverage <= hi
      BY <1>8, <1>12
    <2>2. up.coverage \in 0 .. hi
      BY <2>1
    <2>3. UpliftTotalsDto =
            [positions : SUBSET UpliftRowDto, principal : Nat, current : Nat, base : Nat, hold : Nat,
             uplift : Int, uplift_vs_hold : Int, pct : Int, coverage : 0 .. hi]
      BY <1>12 DEF UpliftTotalsDto
    <2>4. QED
      BY <1>6, <1>7, <1>9, <1>10, <1>11, <2>2, <2>3
  <1>14. QED
    BY <1>1, <1>13

LEMMA DecisionShaped ==
    ASSUME NEW vs, IsTableOf(vs), NEW p \in Positions, NEW e \in Routing(Events, p)
    PROVE  Decision(vs, Events, p, e) \in DecisionDto
  <1> DEFINE earlier == {f \in Routing(Events, p) : Before(f, e)}
             rated == {f \in earlier : f.apy # Null}
             before == IF e.type = "deposit" \/ rated = {} THEN Null ELSE Latest(rated).apy
             from == IF e.type = "deposit" \/ earlier = {} THEN Null ELSE ToVault(p, Latest(earlier))
             up == IF before = Null \/ e.apy = Null THEN Null ELSE e.apy - before
             type == IF e.type = "deposit" THEN "initial_routing" ELSE "rebalance"
             places == Alternatives(vs, p.asset)
  <1>1. Decision(vs, Events, p, e)
          = [id |-> e.seq, position |-> p.seq, at |-> e.at, type |-> type,
             from |-> from, to |-> ToVault(p, e), apy_before |-> before, apy_after |-> e.apy,
             uplift_bps |-> up, alternatives |-> places]
    BY DEF Decision
  <1>2. earlier \subseteq Routing(Events, p) /\ rated \subseteq Routing(Events, p)
        /\ \A f \in rated : f.apy # Null
    OBVIOUS
  <1>3. places \subseteq Ids
    BY DEF Alternatives, Ids, IsTableOf
  <1>4. type \in {"initial_routing", "rebalance"}
    OBVIOUS
  <1>5. \A f \in Routing(Events, p) : ToVault(p, f) \in Places
    BY RoutingIs DEF ToVault, Places
  <1>6. e.seq \in {f.seq : f \in Events} /\ e.at \in Int /\ e.apy \in Optional(Nat)
        /\ p.seq \in OfPositions
    BY RoutingIs DEF Optional, OfPositions
  <1> HIDE DEF earlier, rated, type, places
  <1>7. from \in Optional(Places)
    <2>1. earlier # {} => Latest(earlier) \in Routing(Events, p)
      BY <1>2, LatestIs
    <2>2. QED
      BY <1>5, <2>1 DEF Optional
  <1>8. before \in Optional(Nat)
    <2>1. rated # {} => Latest(rated) \in rated
      BY <1>2, LatestIs
    <2>2. rated # {} => Latest(rated).apy \in Nat
      BY <1>2, <2>1, RoutingIs
    <2>3. QED
      BY <2>2 DEF Optional
  <1> HIDE DEF before, from
  <1>9. up \in Optional(Int)
    BY <1>6, <1>8 DEF Optional
  <1> HIDE DEF up
  <1>10. QED
    BY <1>1, <1>3, <1>4, <1>5, <1>6, <1>7, <1>8, <1>9 DEF DecisionDto

LEMMA BookIsShaped == BookShaped
  <1>1. ASSUME NEW partner \in Partners, NEW vs \in Tables, NEW t \in Times, NEW b,
               b.summary = Summary(Positions, partner, t, BlendApy(ActiveOf(vs)), Share),
               b.revenue = RevenueShare(Positions, partner, t, BlendApy(ActiveOf(vs)), Share),
               b.uplift = Uplift(Positions, Events, vs, PartnerScope(partner), t),
               b.decisions = Decisions(Positions, Events, vs, PartnerScope(partner))
        PROVE  Shaped(b)
    <2>1. IsTableOf(vs) /\ t \in Int
      BY TablesAre, TimesAre
    <2>2. PICK blend \in Nat : blend = BlendApy(ActiveOf(vs))
      BY <2>1, BlendIsNatural
    <2>3. b.summary \in PartnerSummaryOutputDto /\ b.revenue \in RevenueShareOutputDto
      BY <1>1, <2>1, <2>2, SummaryShaped
    <2>4. b.uplift \in UpliftTotalsDto
      BY <1>1, <2>1, UpliftShaped
    <2>5. ASSUME NEW d \in b.decisions PROVE d \in DecisionDto
      <3>1. d \in Decisions(Positions, Events, vs, PartnerScope(partner))
        BY <1>1
      <3>2. PICK q \in Own(partner) : \E e \in Routing(Events, q) : d = Decision(vs, Events, q, e)
        BY <3>1 DEF Decisions, Own
      <3>3. q \in Positions
        BY OwnIs
      <3>4. QED
        BY <2>1, <3>2, <3>3, DecisionShaped
    <2>6. QED
      BY <2>3, <2>4, <2>5 DEF Shaped
  <1>2. ASSUME NEW b \in Book PROVE Shaped(b)
    <2>1. PICK partner \in Partners, vs \in Tables, t \in Times :
            b = [at |-> t, partner |-> partner, vaults |-> vs,
                 summary |-> Summary(Positions, partner, t, BlendApy(ActiveOf(vs)), Share),
                 revenue |-> RevenueShare(Positions, partner, t, BlendApy(ActiveOf(vs)), Share),
                 uplift |-> Uplift(Positions, Events, vs, PartnerScope(partner), t),
                 decisions |-> Decisions(Positions, Events, vs, PartnerScope(partner))]
      BY DEF Book
    <2>2. QED
      BY <1>1, <2>1
  <1>3. QED
    BY <1>2 DEF BookShaped

-----------------------------------------------------------------------------
(* The series that signals and regimes are read from.                         *)

LEMMA SeriesIs ==
    ASSUME RInv, NEW v
    PROVE  IsSeries(Series(snaps, v, now)) /\ \A p \in Series(snaps, v, now) : p.apy \in Nat
  <1>1. PICK own : own = OfVault(History(snaps, now - Month), v)
    OBVIOUS
  <1>2. own \subseteq snaps /\ \A r \in own : r.vault = v.id
    BY <1>1 DEF OfVault, History
  <1>3. Series(snaps, v, now) = {[at |-> r.at, apy |-> r.apy] : r \in own}
    BY <1>1 DEF Series
  <1>4. IsFiniteSet(Series(snaps, v, now))
    <2>1. IsFiniteSet(own)
      BY <1>2, FS_Subset DEF RInv, IInv, Table
    <2> DEFINE f == [r \in own |-> [at |-> r.at, apy |-> r.apy]]
    <2>2. {f[r] : r \in own} = Series(snaps, v, now)
      BY <1>3
    <2> HIDE DEF f
    <2>3. QED
      BY <2>1, <2>2, ImageIsFinite
  <1>5. ASSUME NEW r \in own, NEW t \in own, r.at = t.at PROVE r = t
    <2>1. r.bucket = t.bucket /\ r.vault = t.vault
      BY <1>2, <1>5, RowsAre
    <2>2. QED
      BY <1>2, <2>1 DEF RInv, IInv, Table, OncePerHour, SameHour
  <1>6. \A p \in Series(snaps, v, now) : \E r \in own : p = [at |-> r.at, apy |-> r.apy]
    BY <1>3
  <1>7. \A r \in own : r.at \in Int /\ r.apy \in Nat
    BY <1>2, RowsAre
  <1>8. ASSUME NEW p \in Series(snaps, v, now) PROVE p.at \in Int /\ p.apy \in Nat
    BY <1>6, <1>7
  <1>9. ASSUME NEW p \in Series(snaps, v, now), NEW q \in Series(snaps, v, now), p.at = q.at
        PROVE  p = q
    <2>1. PICK r \in own : p = [at |-> r.at, apy |-> r.apy]
      BY <1>6
    <2>2. PICK t \in own : q = [at |-> t.at, apy |-> t.apy]
      BY <1>6
    <2>3. r = t
      BY <1>5, <1>9, <2>1, <2>2
    <2>4. QED
      BY <2>1, <2>2, <2>3
  <1>10. QED
    BY <1>4, <1>8, <1>9 DEF IsSeries

LEMMA BlendedIs ==
    ASSUME RInv, NEW asset
    PROVE  /\ IsSeries(Blended(vaults, snaps, asset, now))
           /\ \A p \in Blended(vaults, snaps, asset, now) : p.apy \in Nat
  <1> DEFINE rows == {r \in History(snaps, now - Month) :
                        \E v \in vaults : v.id = r.vault /\ v.asset = asset /\ v.status = "active"}
             At(t) == {r \in rows : r.at = t}
  <1>1. Blended(vaults, snaps, asset, now)
          = {[at |-> t, apy |-> Blend(At(t))] : t \in {r.at : r \in rows}}
    BY DEF Blended
  <1>2. rows \subseteq snaps
    BY DEF History
  <1>3. IsFiniteSet(rows)
    BY <1>2, FS_Subset DEF RInv, IInv, Table
  <1>4. ASSUME NEW t \in {r.at : r \in rows} PROVE t \in Int /\ Blend(At(t)) \in Nat
    <2>1. At(t) # {} /\ At(t) \subseteq rows
      OBVIOUS
    <2>2. IsFiniteSet(At(t)) /\ \A r \in At(t) : r.apy \in Nat /\ r.alloc \in Nat
      BY <1>2, <1>3, <2>1, FS_Subset, RowsAre
    <2>3. t \in Int
      BY <1>2, RowsAre
    <2> HIDE DEF At
    <2>4. QED
      BY <2>1, <2>2, <2>3, MeansAreNatural
  <1> HIDE DEF At
  <1>5. IsFiniteSet(Blended(vaults, snaps, asset, now))
    <2> DEFINE f == [r \in rows |-> [at |-> r.at, apy |-> Blend(At(r.at))]]
    <2>1. {f[r] : r \in rows} = Blended(vaults, snaps, asset, now)
      BY <1>1
    <2> HIDE DEF f, rows
    <2>2. QED
      BY <1>3, <2>1, ImageIsFinite
  <1>6. ASSUME NEW p \in Blended(vaults, snaps, asset, now)
        PROVE  p = [at |-> p.at, apy |-> Blend(At(p.at))] /\ p.at \in Int /\ p.apy \in Nat
    <2>1. PICK t \in {r.at : r \in rows} : p = [at |-> t, apy |-> Blend(At(t))]
      BY <1>1
    <2>2. t \in Int /\ Blend(At(t)) \in Nat
      BY <1>4
    <2>3. QED
      BY <2>1, <2>2
  <1>7. \A p, q \in Blended(vaults, snaps, asset, now) : p.at = q.at => p = q
    BY <1>6
  <1>8. QED
    BY <1>5, <1>6, <1>7 DEF IsSeries

LEMMA LastIs ==
    ASSUME NEW s, IsSeries(s), s # {}
    PROVE  Last(s) \in s
  <1>1. PICK m \in s : \A p \in s \ {m} : p.at < m.at
    BY LatestPoint
  <1>2. \A q \in s : q.at <= m.at
    BY <1>1 DEF IsSeries
  <1>3. QED
    BY <1>2 DEF Last

LEMMA RiseIs ==
    ASSUME NEW s, IsSeries(s), \A p \in s : p.apy \in Nat
    PROVE  Rise(s) \in Int
  <1> DEFINE f == [p \in s |-> (2 * Index(s, p) - (Cardinality(s) - 1)) * p.apy]
  <1>1. IsFiniteSet(s) /\ Cardinality(s) \in Nat
    BY FS_CardinalityType DEF IsSeries
  <1>2. ASSUME NEW p \in s PROVE f[p] \in Int
    <2>1. PICK k \in Int : k = 2 * Index(s, p) - (Cardinality(s) - 1)
      BY <1>1, IndexIs
    <2>2. PICK a \in Int : a = p.apy
      OBVIOUS
    <2>3. f[p] = k * a
      BY <2>1, <2>2
    <2>4. QED
      BY <2>3, Products
  <1>3. Total(LAMBDA p : (2 * Index(s, p) - (Cardinality(s) - 1)) * p.apy, s) = SumFunctionOnSet(f, s)
    BY DEF Total
  <1>4. Rise(s) = 6 * Total(LAMBDA p : (2 * Index(s, p) - (Cardinality(s) - 1)) * p.apy, s)
    BY Zenon DEF Rise
  <1>5. Rise(s) = 6 * SumFunctionOnSet(f, s)
    BY Zenon, <1>3, <1>4
  <1> HIDE DEF f
  <1>6. SumFunctionOnSet(f, s) \in Int
    BY <1>1, <1>2, SumIsInteger DEF Integral
  <1>7. QED
    BY <1>5, <1>6

(* Of n rates up to m the sample variance is below (m + 1/2) squared.         *)
LEMMA SpreadIsBounded ==
    ASSUME NEW n \in Nat, n >= 2, NEW m \in Nat, NEW sum \in Nat, NEW squares \in Int,
           sum <= m * n, squares <= m * sum
    PROVE  (2 * m + 1) * (2 * m + 1) * (n * (n - 1)) > 4 * (n * squares - sum * sum)
  <1>1. PICK top \in Nat : top = m * n
    BY Products
  <1>2. n * squares <= top * sum
    <2>1. n * squares <= n * (m * sum)
      BY Products
    <2>2. n * (m * sum) = top * sum
      BY <1>1
    <2>3. QED
      BY <2>1, <2>2
  <1>3. 4 * (top * sum - sum * sum) <= top * top
    <2>1. PICK d \in Int : d = top - 2 * sum
      OBVIOUS
    <2>2. d * d >= 0
      BY <2>1
    <2>3. d * d = top * top - 4 * (top * sum) + 4 * (sum * sum)
      BY <2>1
    <2>4. top * top \in Int /\ top * sum \in Int /\ sum * sum \in Int
      BY Products
    <2>5. QED
      BY <2>2, <2>3, <2>4
  <1>4. PICK pairs \in Nat \ {0} : pairs = n * (n - 1)
    <2>1. \A a, b \in Nat \ {0} : a * b \in Nat \ {0}
      BY SMT
    <2>2. n \in Nat \ {0} /\ n - 1 \in Nat \ {0}
      OBVIOUS
    <2>3. QED
      BY <2>1, <2>2
  <1>5. PICK mm \in Nat : mm = m * m
    BY Products
  <1>6. top * top <= 2 * (mm * pairs)
    <2>1. PICK nn \in Nat : nn = n * n
      BY Products
    <2>2. nn <= 2 * pairs
      <3>1. 2 * n <= nn
        BY <2>1
      <3>2. pairs = nn - n
        BY <1>4, <2>1
      <3>3. QED
        BY <3>1, <3>2
    <2>3. top * top = mm * nn
      BY <1>1, <1>5, <2>1
    <2>4. mm * nn <= mm * (2 * pairs)
      BY <2>2
    <2>5. mm * (2 * pairs) = 2 * (mm * pairs)
      OBVIOUS
    <2>6. QED
      BY <2>3, <2>4, <2>5
  <1>7. (2 * m + 1) * (2 * m + 1) * pairs = 4 * (mm * pairs) + 4 * (m * pairs) + pairs
    BY <1>5
  <1>8. mm * pairs \in Nat /\ m * pairs \in Nat
    BY Products
  <1>9. n * squares \in Int /\ sum * sum \in Int /\ top * sum \in Int /\ top * top \in Int
    BY Products
  <1>10. 4 * (n * squares - sum * sum) <= top * top
    BY <1>2, <1>3, <1>9
  <1>11. QED
    BY <1>4, <1>6, <1>7, <1>8, <1>9, <1>10

LEMMA VolatilityIs ==
    ASSUME NEW s, IsSeries(s), Enough(s), \A p \in s : p.apy \in Nat
    PROVE  Volatility(s) \in Nat
  <1>1. PICK n \in Nat : n = Cardinality(s) /\ n >= 3
    BY FS_CardinalityType DEF IsSeries, Enough, MinObservations
  <1>2. IsFiniteSet(s) /\ s # {}
    BY EnoughPoints DEF IsSeries
  <1> DEFINE f == [p \in s |-> p.apy]
             g == [p \in s |-> p.apy * p.apy]
  <1>3. PICK m : m = Max({p.apy : p \in s})
    OBVIOUS
  <1>4. m \in Nat /\ \A p \in s : p.apy <= m
    <2>1. {f[p] : p \in s} = {p.apy : p \in s}
      OBVIOUS
    <2>2. PICK rates : rates = {p.apy : p \in s}
      OBVIOUS
    <2>3. rates # {} /\ (\A x \in rates : x \in Int) /\ (\A x \in rates : x \in Nat)
          /\ \A p \in s : p.apy \in rates
      BY <1>2, <2>2
    <2> HIDE DEF f
    <2>4. IsFiniteSet(rates)
      BY <1>2, <2>1, <2>2, ImageIsFinite
    <2>5. m \in rates /\ \A x \in rates : m >= x
      BY <1>3, <2>2, <2>3, <2>4, GreatestIs
    <2>6. QED
      BY <2>3, <2>5
  <1>5. /\ Total(LAMBDA p : p.apy, s) = SumFunctionOnSet(f, s)
        /\ Total(LAMBDA p : p.apy * p.apy, s) = SumFunctionOnSet(g, s)
    BY DEF Total
  <1>6. PICK cap, slack : cap = [p \in s |-> m] /\ slack = [p \in s |-> m * f[p]]
    OBVIOUS
  <1>7. ASSUME NEW p \in s
        PROVE  f[p] \in Nat /\ f[p] <= m /\ g[p] = f[p] * f[p] /\ cap[p] = m /\ slack[p] = m * f[p]
    BY <1>4, <1>6
  <1> HIDE DEF f, g
  <1>8. ASSUME NEW p \in s PROVE g[p] \in Int /\ slack[p] \in Int /\ g[p] <= slack[p]
    <2>1. PICK a \in Nat : a = f[p] /\ a <= m
      BY <1>7
    <2>2. a * a <= m * a /\ a * a \in Int /\ m * a \in Int
      BY <1>4, <2>1, Products
    <2>3. g[p] = a * a /\ slack[p] = m * a
      BY <1>7, <2>1
    <2>4. QED
      BY <2>2, <2>3
  <1>9. Integral(f, s) /\ Integral(g, s) /\ Integral(cap, s) /\ Integral(slack, s)
    BY <1>2, <1>4, <1>7, <1>8 DEF Integral
  <1>10. PICK sum \in Nat : sum = SumFunctionOnSet(f, s)
    BY <1>2, <1>7, SumIsNatural
  <1>11. PICK squares \in Int : squares = SumFunctionOnSet(g, s)
    BY <1>9, SumIsInteger
  <1>12. sum <= m * n
    <2>1. SumFunctionOnSet(cap, s) = m * n
      BY <1>1, <1>2, <1>4, <1>7, SumOfConstant
    <2>2. \A p \in s : f[p] <= cap[p]
      BY <1>7
    <2>3. QED
      BY <1>9, <1>10, <2>1, <2>2, SumAtMost
  <1>13. squares <= m * sum
    <2>1. SumFunctionOnSet(slack, s) = m * sum
      <3>1. m \in Int /\ \A p \in s : slack[p] = m * f[p]
        BY <1>4, <1>7
      <3>2. QED
        BY <1>9, <1>10, <3>1, SumOfMultiples
    <2>2. \A p \in s : g[p] <= slack[p]
      BY <1>8
    <2>3. QED
      BY <1>9, <1>11, <2>1, <2>2, SumAtMost
  <1>14. PICK spread \in Int : spread = Spread(s) /\ spread = n * squares - sum * sum
    <2>1. n * squares \in Int /\ sum * sum \in Int
      BY Products
    <2>2. Spread(s) = n * squares - sum * sum
      BY <1>1, <1>5, <1>10, <1>11 DEF Spread
    <2>3. QED
      BY <2>1, <2>2
  <1>15. PICK pairs \in Nat \ {0} : pairs = Pairs(s) /\ pairs = n * (n - 1)
    BY <1>1, EnoughPoints DEF Pairs
  <1> DEFINE Below(d) == (2 * d + 1) * (2 * d + 1) * pairs > 4 * spread
             P(d) == Below(d) /\ (d = 0 \/ (2 * d - 1) * (2 * d - 1) * pairs <= 4 * spread)
  <1>16. Volatility(s) = CHOOSE d \in 0 .. m : P(d)
    BY <1>3, <1>14, <1>15 DEF Volatility
  <1>17. Below(m)
    <2>1. (2 * m + 1) * (2 * m + 1) * (n * (n - 1)) > 4 * (n * squares - sum * sum)
      <3>1. n >= 2
        BY <1>1
      <3>2. QED
        BY Zenon, <1>4, <1>12, <1>13, <3>1, SpreadIsBounded
    <2>2. QED
      BY <1>14, <1>15, <2>1
  <1>18. PICK low : low = {d \in 0 .. m : Below(d)}
    OBVIOUS
  <1>19. PICK d \in low : \A e \in low : d <= e
    <2>1. IsFiniteSet(low) /\ low # {} /\ \A e \in low : e \in Int
      <3>1. IsFiniteSet(0 .. m)
        BY <1>4, FS_Interval
      <3>2. low \subseteq 0 .. m /\ m \in low
        BY <1>4, <1>17, <1>18
      <3>3. \A e \in low : e \in Int
        BY <3>2
      <3>4. IsFiniteSet(low)
        BY <3>1, <3>2, FS_Subset
      <3>5. QED
        BY <3>2, <3>3, <3>4
    <2>2. QED
      BY <2>1, LeastIs
  <1>20. P(d)
    <2>1. d \in 0 .. m /\ Below(d) /\ d \in Nat
      BY <1>4, <1>18, <1>19
    <2>2. CASE d # 0
      <3>1. PICK e \in Nat : e = d - 1
        BY <2>1, <2>2
      <3>2. e \in 0 .. m /\ e < d
        BY <1>4, <2>1, <3>1
      <3>3. ~Below(e)
        BY <1>18, <1>19, <2>1, <3>2
      <3>4. 2 * e + 1 = 2 * d - 1
        BY <2>1, <3>1
      <3>5. PICK w \in Int : w = (2 * d - 1) * (2 * d - 1) * pairs
        BY <2>1, Products
      <3>6. ~(w > 4 * spread)
        BY <3>3, <3>4, <3>5
      <3>7. w <= 4 * spread
        BY <3>6
      <3>8. QED
        BY <2>1, <3>5, <3>7
    <2>3. QED
      BY <2>1, <2>2
  <1>21. d \in 0 .. m
    BY <1>18, <1>19
  <1> HIDE DEF P, Below
  <1>22. QED
    BY <1>4, <1>16, <1>20, <1>21

(* A signal before it is ranked.                                              *)
Unranked(r) ==
    /\ r.vault \in Ids /\ r.seq \in Nat /\ r.asset \in Assets /\ r.apy \in Nat
    /\ r.volatility \in Optional(Nat) /\ r.slope \in Optional(Int)
    /\ r.forecast \in Optional(0 .. 3000) /\ r.risk_adjusted \in Int
    /\ r.observations \in Nat /\ r.insufficient \in BOOLEAN

LEMMA ForecastIs ==
    ASSUME NEW s, IsSeries(s), Enough(s), \A p \in s : p.apy \in Nat
    PROVE  Forecast(s) \in 0 .. 3000
  <1>1. PICK run \in Nat \ {0} : run = Run(s)
    BY EnoughPoints
  <1>2. PICK rise \in Int : rise = Rise(s)
    BY RiseIs
  <1>3. PICK a \in Nat : a = Last(s).apy
    BY EnoughPoints, LastIs
  <1>4. PICK w \in Int : w = a * run + 7 * 24 * rise
    BY <1>1, <1>2, <1>3, Products
  <1>5. PICK x \in Int : x = Round(w, run)
    BY <1>1, <1>4, NearestReaches DEF Round
  <1>6. PICK hi \in Nat : hi = 3000
    OBVIOUS
  <1>7. Forecast(s) = Min({hi, Max({0, x})})
    BY <1>1, <1>2, <1>3, <1>4, <1>5, <1>6 DEF Forecast
  <1>8. PICK y : y = Max({0, x})
    OBVIOUS
  <1>9. y \in {0, x} /\ \A z \in {0, x} : y >= z
    <2>1. IsFiniteSet({0} \cup {x}) /\ {0} \cup {x} = {0, x}
      BY FS_Singleton, FS_Union
    <2>2. QED
      BY <1>8, <2>1, GreatestIs
  <1>10. y \in Nat
    BY <1>9
  <1>11. Min({hi, y}) \in {hi, y} /\ \A z \in {hi, y} : Min({hi, y}) <= z
    <2>1. IsFiniteSet({hi} \cup {y}) /\ {hi} \cup {y} = {hi, y}
      BY FS_Singleton, FS_Union
    <2>2. QED
      BY <1>10, <2>1, LeastIs
  <1>12. Min({hi, y}) \in 0 .. hi
    BY <1>10, <1>11
  <1>13. QED
    BY <1>6, <1>7, <1>8, <1>12

LEMMA SignalIs ==
    ASSUME RInv, NEW v \in vaults, NEW r, r = Signal(snaps, v, now)
    PROVE  /\ Unranked(r) /\ Withheld(r)
           /\ r = [vault |-> r.vault, seq |-> r.seq, asset |-> r.asset, apy |-> r.apy,
                   observations |-> r.observations, insufficient |-> r.insufficient,
                   volatility |-> r.volatility, slope |-> r.slope, forecast |-> r.forecast,
                   risk_adjusted |-> r.risk_adjusted]
  <1>1. PICK s : s = Series(snaps, v, now)
    OBVIOUS
  <1>2. IsSeries(s) /\ \A p \in s : p.apy \in Nat
    BY <1>1, SeriesIs
  <1>3. v \in VaultRows /\ v.seq \in Nat /\ v.apy \in Nat
    BY VaultAssumption DEF RInv, Tabled, IsVault
  <1>4. PICK vol \in Nat : vol = IF Enough(s) THEN Volatility(s) ELSE 0
    BY <1>2, VolatilityIs
  <1>5. PICK slope : slope = IF Enough(s) THEN Round(24 * Rise(s), Run(s)) ELSE Null
    OBVIOUS
  <1>6. PICK forecast : forecast = IF Enough(s) THEN Forecast(s) ELSE Null
    OBVIOUS
  <1>7. slope \in Optional(Int)
    <2>1. CASE Enough(s)
      <3>1. PICK run \in Nat \ {0} : run = Run(s)
        BY <1>2, <2>1, EnoughPoints
      <3>2. PICK w \in Int : w = 24 * Rise(s)
        BY <1>2, RiseIs
      <3>3. Round(w, run) \in Int
        BY NearestReaches DEF Round
      <3>4. QED
        BY <1>5, <2>1, <3>1, <3>2, <3>3 DEF Optional
    <2>2. CASE ~Enough(s)
      BY <1>5, <2>2 DEF Optional
    <2>3. QED
      BY <2>1, <2>2
  <1>8. forecast \in Optional(0 .. 3000)
    BY <1>2, <1>6, ForecastIs DEF Optional
  <1>9. PICK risk \in Int : risk = Round(2 * v.apy * RiskFactor(v.tier) - 100 * vol, 200)
    <2>1. PICK factor \in Nat : factor = RiskFactor(v.tier)
      BY DEF RiskFactor
    <2>2. PICK w \in Int : w = 2 * v.apy * factor - 100 * vol
      BY <1>3, Products
    <2>3. PICK d \in Nat \ {0} : d = 200
      OBVIOUS
    <2>4. Round(w, d) \in Int
      BY NearestReaches DEF Round
    <2>5. QED
      BY <2>1, <2>2, <2>3, <2>4
  <1>10. PICK count \in Nat : count = Cardinality(s)
    BY <1>2, FS_CardinalityType DEF IsSeries
  <1>11. r = [vault |-> v.id, seq |-> v.seq, asset |-> v.asset, apy |-> v.apy,
              observations |-> count, insufficient |-> ~Enough(s),
              volatility |-> IF Enough(s) THEN vol ELSE Null,
              slope |-> slope, forecast |-> forecast, risk_adjusted |-> risk]
    BY <1>1, <1>4, <1>5, <1>6, <1>9, <1>10 DEF Signal
  <1>12. Withheld(r)
    <2>1. CASE Enough(s)
      <3>1. PICK few : few = ~Enough(s)
        OBVIOUS
      <3>2. r.insufficient = few
        BY <1>11, <3>1
      <3>3. r.insufficient = FALSE
        BY <2>1, <3>1, <3>2
      <3>4. QED
        BY <3>3 DEF Withheld
    <2>2. CASE ~Enough(s)
      BY <1>5, <1>6, <1>11, <2>2 DEF Withheld
    <2>3. QED
      BY <2>1, <2>2
  <1>13. v.id \in Ids /\ v.asset \in Assets
    BY <1>3 DEF Ids, Assets
  <1>14. (IF Enough(s) THEN vol ELSE Null) \in Optional(Nat)
    BY DEF Optional
  <1>15. PICK few, volatility : few = ~Enough(s) /\ volatility = (IF Enough(s) THEN vol ELSE Null)
    OBVIOUS
  <1>16. few \in BOOLEAN
    BY <1>15
  <1>17. Unranked(r)
    BY <1>3, <1>7, <1>8, <1>11, <1>13, <1>14, <1>15, <1>16 DEF Unranked
  <1>18. QED
    BY <1>11, <1>12, <1>17

LEMMA RankedIs ==
    ASSUME NEW rows, IsFiniteSet(rows), NEW r, Unranked(r), Withheld(r),
           r = [vault |-> r.vault, seq |-> r.seq, asset |-> r.asset, apy |-> r.apy,
                observations |-> r.observations, insufficient |-> r.insufficient,
                volatility |-> r.volatility, slope |-> r.slope, forecast |-> r.forecast,
                risk_adjusted |-> r.risk_adjusted]
    PROVE  Ranked(r, rows) \in SignalDto /\ Withheld(Ranked(r, rows))
  <1>1. PICK rank \in Nat \ {0} : rank = Rank(r, rows)
    <2>1. PICK ahead : ahead = {x \in rows : \/ x.risk_adjusted > r.risk_adjusted
                                             \/ x.risk_adjusted = r.risk_adjusted /\ x.seq < r.seq}
      OBVIOUS
    <2>2. IsFiniteSet(ahead)
      BY <2>1, FS_Subset
    <2>3. PICK k \in Nat : k = Cardinality(ahead)
      BY <2>2, FS_CardinalityType
    <2>4. Rank(r, rows) = 1 + k
      BY <2>1, <2>3 DEF Rank
    <2>5. QED
      BY <2>4
  <1>2. PICK advice \in Advice : advice = Recommendation(rank, rows)
    BY DEF Recommendation, Advice
  <1>3. PICK s : s = Ranked(r, rows)
    OBVIOUS
  <1>4. s = [x \in DOMAIN r \cup {"rank", "recommendation"} |->
               CASE x = "rank" -> rank [] x = "recommendation" -> advice [] OTHER -> r[x]]
    BY <1>1, <1>2, <1>3 DEF Ranked
  <1>5. DOMAIN r = {"vault", "seq", "asset", "apy", "observations", "insufficient",
                    "volatility", "slope", "forecast", "risk_adjusted"}
    OBVIOUS
  <1>6. s = [vault |-> r.vault, seq |-> r.seq, asset |-> r.asset, apy |-> r.apy,
             observations |-> r.observations, insufficient |-> r.insufficient,
             volatility |-> r.volatility, slope |-> r.slope, forecast |-> r.forecast,
             risk_adjusted |-> r.risk_adjusted, rank |-> rank, recommendation |-> advice]
    BY <1>4, <1>5
  <1>7. s \in SignalDto
    BY <1>6 DEF Unranked, SignalDto
  <1>8. Withheld(s)
    BY <1>6 DEF Withheld
  <1>9. QED
    BY <1>3, <1>7, <1>8

LEMMA SignalsAre ==
    ASSUME RInv, NEW signals, signals = Signals(vaults, snaps, Null, now)
    PROVE  /\ IsFiniteSet(signals) /\ signals \subseteq SignalDto
           /\ \A s \in signals : Withheld(s)
  <1> DEFINE of == {v \in vaults : v.status = "active" /\ Matches(v.asset, Null)}
             signal == [v \in of |-> Signal(snaps, v, now)]
  <1>1. PICK rows : rows = {Signal(snaps, v, now) : v \in of}
    OBVIOUS
  <1>2. signals = {Ranked(r, rows) : r \in rows}
    BY <1>1 DEF Signals
  <1>3. IsFiniteSet(rows)
    <2>1. IsFiniteSet(of)
      BY FS_Subset DEF RInv, IInv, Table
    <2>2. rows = {signal[v] : v \in of}
      BY <1>1
    <2> HIDE DEF signal, of
    <2>3. QED
      BY <2>1, <2>2, ImageIsFinite
  <1>4. PICK ranked : ranked = [r \in rows |-> Ranked(r, rows)]
    OBVIOUS
  <1>5. signals = {ranked[r] : r \in rows}
    BY <1>2, <1>4
  <1>6. IsFiniteSet(signals)
    BY <1>3, <1>5, ImageIsFinite
  <1>7. ASSUME NEW r \in rows PROVE Ranked(r, rows) \in SignalDto /\ Withheld(Ranked(r, rows))
    <2>1. PICK v \in vaults : r = Signal(snaps, v, now)
      BY <1>1
    <2>2. QED
      BY <1>3, <2>1, SignalIs, RankedIs
  <1>8. QED
    BY <1>2, <1>6, <1>7

LEMMA RegimesAre ==
    ASSUME RInv
    PROVE  PerAsset(vaults, snaps, Null, now) \subseteq RegimePerAssetDto
  <1>1. ASSUME NEW v \in vaults PROVE RegimeOf(vaults, snaps, v.asset, now) \in RegimePerAssetDto
    <2>1. PICK s : s = Blended(vaults, snaps, v.asset, now)
      OBVIOUS
    <2>2. IsSeries(s) /\ \A p \in s : p.apy \in Nat
      BY <2>1, BlendedIs
    <2>3. PICK count \in Nat : count = Cardinality(s)
      BY <2>2, FS_CardinalityType DEF IsSeries
    <2>4. PICK regime \in Regimes : regime = IF Enough(s) THEN ClassifyRegime(s) ELSE "unknown"
      BY DEF ClassifyRegime, Regimes
    <2>5. PICK blend \in Optional(Nat) : blend = IF s = {} THEN Null ELSE Last(s).apy
      <3>1. s # {} => Last(s).apy \in Nat
        BY <2>2, LastIs
      <3>2. QED
        BY <3>1 DEF Optional
    <2>6. v.asset \in Assets
      BY DEF RInv, Tabled, Assets
    <2>7. PICK slope \in Optional(Int) :
             slope = IF Enough(s) THEN Round(24 * Rise(s), Run(s)) ELSE Null
      <3>1. CASE Enough(s)
        <4>1. PICK run \in Nat \ {0} : run = Run(s)
          BY <2>2, <3>1, EnoughPoints
        <4>2. PICK w \in Int : w = 24 * Rise(s)
          BY <2>2, RiseIs
        <4>3. Round(w, run) \in Int
          BY NearestReaches DEF Round
        <4>4. QED
          BY <3>1, <4>1, <4>2, <4>3 DEF Optional
      <3>2. CASE ~Enough(s)
        BY <3>2 DEF Optional
      <3>3. QED
        BY <3>1, <3>2
    <2>8. PICK volatility \in Optional(Nat) :
             volatility = IF Enough(s) THEN Volatility(s) ELSE Null
      <3>1. (IF Enough(s) THEN Volatility(s) ELSE 0) \in Nat
        BY <2>2, VolatilityIs
      <3>2. QED
        BY <3>1 DEF Optional
    <2>9. RegimeOf(vaults, snaps, v.asset, now)
            = [asset |-> v.asset, observations |-> count, regime |-> regime, blend |-> blend,
               slope |-> slope, volatility |-> volatility]
      BY <2>1, <2>3, <2>4, <2>5, <2>7, <2>8 DEF RegimeOf
    <2>10. QED
      BY <2>6, <2>9 DEF RegimePerAssetDto
  <1>2. ASSUME NEW r \in PerAsset(vaults, snaps, Null, now)
        PROVE  \E v \in vaults : r = RegimeOf(vaults, snaps, v.asset, now)
    BY DEF PerAsset
  <1>3. QED
    BY <1>1, <1>2

LEMMA VaultsAreListed ==
    ASSUME RInv
    PROVE  VaultList(vaults, snaps, Null, now) \subseteq VaultDto
  <1>1. ASSUME NEW v \in vaults, NEW window PROVE Mean(Recent(v, window)) \in Optional(Nat)
    <2>1. PICK rows : rows = Recent(v, window)
      OBVIOUS
    <2>2. rows \subseteq snaps
      BY <2>1 DEF Recent
    <2>3. IsFiniteSet(rows) /\ \A r \in rows : r.apy \in Nat /\ r.alloc \in Nat
      BY <2>2, FS_Subset, RowsAre DEF RInv, IInv, Table
    <2>4. CASE rows = {}
      BY <2>1, <2>4 DEF Mean, Optional
    <2>5. CASE rows # {}
      BY <2>1, <2>3, <2>5, MeansAreNatural DEF Optional
    <2>6. QED
      BY <2>4, <2>5
  <1>2. ASSUME NEW row \in VaultList(vaults, snaps, Null, now) PROVE row \in VaultDto
    <2>1. PICK v \in vaults :
            row = [vault |-> v.id, asset |-> v.asset, tier |-> v.tier, status |-> v.status,
                   alloc |-> v.alloc, apy |-> v.apy, week |-> TrailingAverage(snaps, v, Week, now),
                   month |-> TrailingAverage(snaps, v, Month, now)]
      BY DEF VaultList
    <2>2. PICK week, month : week = TrailingAverage(snaps, v, Week, now)
                             /\ month = TrailingAverage(snaps, v, Month, now)
      OBVIOUS
    <2>3. week \in Optional(Nat) /\ month \in Optional(Nat)
      BY <1>1, <2>2, RecentRows
    <2>4. v \in VaultRows /\ v.apy \in Nat /\ v.alloc \in Nat /\ v.status \in {"active", "paused"}
      BY VaultAssumption DEF RInv, Tabled, IsVault
    <2>5. v.id \in Ids /\ v.asset \in Assets /\ v.tier \in {w.tier : w \in VaultRows}
      BY <2>4 DEF Ids, Assets
    <2>6. QED
      BY <2>1, <2>2, <2>3, <2>4, <2>5 DEF VaultDto
  <1>3. QED
    BY <1>2

LEMMA DecisionsAreFinite ==
    ASSUME NEW partner, NEW vs
    PROVE  IsFiniteSet(Decisions(Positions, Events, vs, PartnerScope(partner)))
  <1> DEFINE made == [p \in Own(partner) |-> {Decision(vs, Events, p, e) : e \in Routing(Events, p)}]
  <1>1. ASSUME NEW p \in Own(partner) PROVE IsFiniteSet(made[p])
    <2>1. IsFiniteSet(Routing(Events, p))
      BY OwnIs, RoutingIs
    <2>2. PICK f : f = [e \in Routing(Events, p) |-> Decision(vs, Events, p, e)]
      OBVIOUS
    <2>3. made[p] = {f[e] : e \in Routing(Events, p)}
      BY <2>2
    <2> HIDE DEF made
    <2>4. QED
      BY <2>1, <2>3, ImageIsFinite
  <1>2. Decisions(Positions, Events, vs, PartnerScope(partner)) = UNION {made[p] : p \in Own(partner)}
    BY DEF Decisions, Own
  <1> HIDE DEF made
  <1>3. IsFiniteSet({made[p] : p \in Own(partner)})
    BY OwnIs, ImageIsFinite
  <1>4. \A S \in {made[p] : p \in Own(partner)} : IsFiniteSet(S)
    BY <1>1
  <1>5. QED
    BY <1>2, <1>3, <1>4, FS_UNION

LEMMA BookIsFinite ==
    ASSUME NEW b \in Book
    PROVE  IsFiniteSet(b.uplift.positions) /\ IsFiniteSet(b.decisions)
  <1>1. PICK partner \in Partners, vs \in Tables, t \in Times :
          b = [at |-> t, partner |-> partner, vaults |-> vs,
               summary |-> Summary(Positions, partner, t, BlendApy(ActiveOf(vs)), Share),
               revenue |-> RevenueShare(Positions, partner, t, BlendApy(ActiveOf(vs)), Share),
               uplift |-> Uplift(Positions, Events, vs, PartnerScope(partner), t),
               decisions |-> Decisions(Positions, Events, vs, PartnerScope(partner))]
    BY DEF Book
  <1>2. PICK up, ds : up = b.uplift /\ ds = b.decisions
    OBVIOUS
  <1>3. /\ up = Uplift(Positions, Events, vs, PartnerScope(partner), t)
        /\ ds = Decisions(Positions, Events, vs, PartnerScope(partner))
    BY <1>1, <1>2
  <1>4. IsTableOf(vs) /\ t \in Int
    BY TablesAre, TimesAre
  <1>5. PICK rows : rows = Compared(vs, partner, t)
    OBVIOUS
  <1>6. PICK own : own = Based(rows)
    OBVIOUS
  <1>7. up.positions = rows
    BY <1>3, <1>5, <1>6, UpliftIs
  <1>8. IsFiniteSet(rows)
    BY <1>4, <1>5, ComparedIs
  <1>9. IsFiniteSet(ds)
    BY <1>3, DecisionsAreFinite
  <1>10. QED
    BY <1>2, <1>7, <1>8, <1>9

LEMMA AdviceIs ==
    ASSUME NEW perAsset, perAsset \subseteq RegimePerAssetDto,
           NEW signals, signals \subseteq SignalDto, IsFiniteSet(signals),
           NEW up, up \in UpliftTotalsDto, IsFiniteSet(up.positions),
           NEW decisions, IsFiniteSet(decisions)
    PROVE  Advisor(perAsset, signals, up, decisions) \in AdvisorDto
  <1>1. PICK headline \in {"no_baseline", "beating", "trailing"} : headline = Headline(up)
    BY DEF Headline
  <1>2. PICK regime \in Regimes : regime = Overall(perAsset)
    BY DEF Overall, Regimes
  <1>3. PICK moves, thins : /\ moves = {d \in decisions : d.type = "rebalance"}
                            /\ thins = {s \in signals : s.insufficient}
    OBVIOUS
  <1>4. IsFiniteSet(moves) /\ IsFiniteSet(thins)
    BY <1>3, FS_Subset
  <1>5. PICK rebalances \in Nat, thin \in Nat, positions \in Nat :
          /\ rebalances = Cardinality(moves) /\ thin = Cardinality(thins)
          /\ positions = Cardinality(up.positions)
    BY <1>4, FS_CardinalityType
  <1>6. PICK top : top = {Opportunity(s) : s \in {s \in signals : s.rank <= Shown}}
    OBVIOUS
  <1>7. top \subseteq AdvisorOpportunityDto
    <2>1. ASSUME NEW s \in signals PROVE Opportunity(s) \in AdvisorOpportunityDto
      <3>1. s \in SignalDto
        OBVIOUS
      <3>2. /\ s.vault \in Ids /\ s.asset \in Assets /\ s.risk_adjusted \in Int
            /\ s.forecast \in Optional(0 .. 3000) /\ s.recommendation \in Advice
        BY <3>1 DEF SignalDto
      <3>3. QED
        BY <3>2 DEF Opportunity, AdvisorOpportunityDto
    <2>2. QED
      BY <1>6, <2>1
  <1>8. Portfolio(up) \in AdvisorPortfolioDto
    <2>1. up.current \in Nat /\ up.uplift \in Int /\ up.pct \in Int
      BY DEF UpliftTotalsDto
    <2>2. QED
      BY <1>5, <2>1 DEF Portfolio, AdvisorPortfolioDto
  <1>9. Advisor(perAsset, signals, up, decisions)
          = [headline |-> headline, regime |-> regime, rebalances |-> rebalances, thin |-> thin,
             top_opportunities |-> top, portfolio |-> Portfolio(up)]
    BY <1>1, <1>2, <1>3, <1>5, <1>6 DEF Advisor
  <1>10. QED
    BY <1>7, <1>8, <1>9 DEF AdvisorDto

(* Whatever was recorded by whom, and whichever vaults a boot left, every      *)
(* answer that is computed of the rates and the positions has the documented   *)
(* shape: there is a volatility, a forecast within 0 and 30 % and a rank       *)
(* wherever one is shown, and none of the trend of a series that is too short  *)
(* (analytics/dto/output.dto.ts, analytics.service.ts:112-479,                 *)
(* vaults.service.ts:41-118).                                                  *)
THEOREM AnswersHaveTheirShape == Spec => []TypeOK
  <1>1. ASSUME RInv, Typed, NEW partner \in Partners PROVE Answers(partner)
    <2>1. PICK signals, perAsset : /\ signals = Signals(vaults, snaps, Null, now)
                                   /\ perAsset = PerAsset(vaults, snaps, Null, now)
      OBVIOUS
    <2>2. PICK book : book = CHOOSE b \in Book : b.at = now /\ b.partner = partner /\ b.vaults = vaults
      OBVIOUS
    <2>3. book \in Book
      <3>1. vaults \in Tables
        BY <1>1 DEF RInv, IInv, Table, Tabled, Identified, Tables
      <3>2. now \in Times
        BY <1>1 DEF Typed
      <3>3. PICK b : b = [at |-> now, partner |-> partner, vaults |-> vaults,
                          summary |-> Summary(Positions, partner, now, BlendApy(ActiveOf(vaults)), Share),
                          revenue |-> RevenueShare(Positions, partner, now, BlendApy(ActiveOf(vaults)), Share),
                          uplift |-> Uplift(Positions, Events, vaults, PartnerScope(partner), now),
                          decisions |-> Decisions(Positions, Events, vaults, PartnerScope(partner))]
        OBVIOUS
      <3>4. b \in Book
        BY <3>1, <3>2, <3>3 DEF Book
      <3>5. b.at = now /\ b.partner = partner /\ b.vaults = vaults
        BY <3>3
      <3>6. QED
        BY <2>2, <3>4, <3>5
    <2>4. PICK up, ds : up = book.uplift /\ ds = book.decisions
      OBVIOUS
    <2>5. up \in UpliftTotalsDto
      BY <2>3, <2>4, BookIsShaped DEF BookShaped, Shaped
    <2>6. IsFiniteSet(up.positions) /\ IsFiniteSet(ds)
      BY <2>3, <2>4, BookIsFinite
    <2>7. IsFiniteSet(signals) /\ signals \subseteq SignalDto /\ \A s \in signals : Withheld(s)
      BY <1>1, <2>1, SignalsAre
    <2>8. perAsset \subseteq RegimePerAssetDto
      BY <1>1, <2>1, RegimesAre
    <2>9. Advisor(perAsset, signals, up, ds) \in AdvisorDto
      BY <2>5, <2>6, <2>7, <2>8, AdviceIs
    <2>10. VaultList(vaults, snaps, Null, now) \subseteq VaultDto
      BY <1>1, VaultsAreListed
    <2>11. QED
      BY <2>1, <2>2, <2>4, <2>7, <2>8, <2>9, <2>10 DEF Answers
  <1>2. RInv /\ Typed => TypeOK
    BY <1>1, StateShapes, BookIsShaped DEF TypeOK
  <1>3. QED
    BY <1>2, TypedInit, TypedNext, TablesExplainRows, PTL DEF Spec

=============================================================================
