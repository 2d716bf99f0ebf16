------------------------ MODULE ReconciliationProofs ------------------------
(***************************************************************************)
(* Theorems about Reconciliation, for any sets of callers, networks and    *)
(* assets, any book that could have been seeded and any lifetime of a      *)
(* snapshot.  Concurrent callers share one fetch, no answer is staler than *)
(* the lifetime, a network that fails voids nothing, and a report says of  *)
(* the chains what they say themselves.  The ledger of a position runs     *)
(* without a gap to its value, a client that follows the cursors misses no *)
(* row, and the views of one book agree.                                   *)
(*                                                                         *)
(* Three invariants, beside what is true of the book at any time:          *)
(*   IInv  the types of the client of monitoring, SingleFlight, and Waits: *)
(*         whoever waits does so for a fetch, and has computed the         *)
(*         recorded side by now.  SingleFlight alone is not inductive: a   *)
(*         fetch may only start when nobody waits.                         *)
(*   HInv  what a fetch has read so far is what the chains hold, as long   *)
(*         as they stand still.                                            *)
(*   PInv  of the rows that were listed when a client began, it was shown  *)
(*         every one that is ahead of its cursor now.                      *)
(***************************************************************************)
EXTENDS Reconciliation, SumTheorems

(* The fields of a call; what a client that pages has collected is free.      *)
IsCall(s) ==
    s \in [pc : {s.pc}, asset : {s.asset}, on : {s.on}, taken : {s.taken},
           cursor : {s.cursor}, listed : {s.listed}, seen : {s.seen}]

(* The types of what reports are made from.                                   *)
Shapes ==
    /\ now \in 0 .. MaxTime /\ chain \in Chain
    /\ cache \in ObservedSnapshot \cup {None} /\ inFlight \in Caller \cup {None}
    /\ flight \in [Caller -> FlightRecord]
    /\ call = [c \in Caller |-> call[c]] /\ \A c \in Caller : IsCall(call[c])

(* Nobody waits for nothing, nor with a recorded side from the future.        *)
Waits ==
    \A c \in Caller : call[c].pc = "waiting" => call[c].on \in Caller /\ call[c].taken \in 0 .. now

IInv == Shapes /\ SingleFlight /\ Waits /\ AnswersAreFresh

-----------------------------------------------------------------------------
(* A free slot is a call that does not wait, whatever it asks next.           *)
LEMMA NoCallIs ==
    /\ IsCall(NoCall) /\ NoCall.pc = "idle"
    /\ \A a : IsCall([NoCall EXCEPT !.pc = "select", !.asset = a])
    /\ \A a : [NoCall EXCEPT !.pc = "select", !.asset = a].pc = "select"
    /\ \A l : IsCall([NoCall EXCEPT !.listed = l])
  BY DEF NoCall, IsCall

(* One call moves on.                                                         *)
LEMMA CallMoved ==
    ASSUME Shapes, NEW c \in Caller, NEW new, call' = [call EXCEPT ![c] = new], IsCall(new)
    PROVE  /\ call' = [d \in Caller |-> call'[d]] /\ \A d \in Caller : IsCall(call'[d])
           /\ call'[c] = new /\ \A d \in Caller \ {c} : call'[d] = call[d]
  <1>1. call = [d \in Caller |-> call[d]] /\ \A d \in Caller : IsCall(call[d])
    BY DEF Shapes
  <1>2. call' = [d \in Caller |-> IF d = c THEN new ELSE call[d]]
    BY <1>1
  <1>3. QED
    BY <1>1, <1>2

(* The initial state.                                                         *)
LEMMA InitInv == Init => IInv
  <1> SUFFICES ASSUME Init PROVE IInv
    OBVIOUS
  <1>1. now \in 0 .. MaxTime /\ chain \in Chain
    BY ClockAssumption, HoldingAssumption DEF Init, Chain
  <1>2. NoFlight \in FlightRecord
    BY ClockAssumption DEF NoFlight, FlightRecord
  <1>3. Shapes
    BY <1>1, <1>2, NoCallIs DEF Init, Shapes
  <1>4. SingleFlight /\ Waits
    BY NoCallIs, NoneAssumption DEF Init, SingleFlight, Waits, NoFlight
  <1>5. AnswersAreFresh
    BY DEF Init, AnswersAreFresh
  <1>6. QED
    BY <1>3, <1>4, <1>5 DEF IInv

(* A step of a call that neither waits nor stops waiting, and is given no     *)
(* report.                                                                    *)
LEMMA CallStep ==
    ASSUME IInv, NEW c \in Caller, NEW new, call' = [call EXCEPT ![c] = new], IsCall(new),
           call[c].pc # "waiting", new.pc # "waiting",
           UNCHANGED <<now, chain, monitor>>,
           \A r \in replies' : r.snap # None => r.taken - r.snap.at < Ttl /\ now - r.snap.at < Ttl
    PROVE  IInv'
  <1>1. /\ call' = [d \in Caller |-> call'[d]] /\ \A d \in Caller : IsCall(call'[d])
        /\ call'[c] = new /\ \A d \in Caller \ {c} : call'[d] = call[d]
    BY CallMoved DEF IInv
  <1>2. Shapes'
    BY <1>1 DEF IInv, Shapes, monitor
  <1>3. SingleFlight' /\ Waits'
    BY <1>1 DEF IInv, SingleFlight, Waits, monitor
  <1>4. AnswersAreFresh'
    BY DEF AnswersAreFresh
  <1>5. QED
    BY <1>2, <1>3, <1>4 DEF IInv

(* A call is made.                                                            *)
LEMMA AskStep ==
    ASSUME IInv, NEW c \in Caller, Ask(c)
    PROVE  IInv'
  <1>1. PICK a : call' = [call EXCEPT ![c] = [NoCall EXCEPT !.pc = "select", !.asset = a]]
    BY DEF Ask
  <1>2. call[c].pc # "waiting" /\ replies' = {} /\ UNCHANGED <<now, chain, monitor>>
    BY DEF Ask, Resting
  <1>3. QED
    BY <1>1, <1>2, NoCallIs, CallStep

(* A page of the ledger is read.                                              *)
LEMMA PageStep ==
    ASSUME IInv, NEW c \in Caller, FirstPage(c) \/ NextPage(c)
    PROVE  IInv'
  <1>1. PICK from : IsCall(from) /\ TakePage(c, from) /\ call[c].pc # "waiting"
    <2>1. CASE FirstPage(c)
      BY <2>1, NoCallIs DEF FirstPage, Resting
    <2>2. CASE NextPage(c)
      BY <2>2 DEF NextPage, IInv, Shapes
    <2>3. QED
      BY <2>1, <2>2
  <1>2. PICK x \in {"paged", "paging"} : \E y, z :
           call' = [call EXCEPT ![c] = [from EXCEPT !.pc = x, !.cursor = y, !.seen = z]]
    BY <1>1, Zenon DEF TakePage
  <1>3. PICK y, z :
           call' = [call EXCEPT ![c] = [from EXCEPT !.pc = x, !.cursor = y, !.seen = z]]
    BY <1>2
  <1>4. replies' = {} /\ UNCHANGED <<now, chain, monitor>>
    BY <1>1 DEF TakePage
  <1> DEFINE new == [from EXCEPT !.pc = x, !.cursor = y, !.seen = z]
  <1>5. IsCall(new) /\ new.pc = x
    BY <1>1 DEF IsCall
  <1> HIDE DEF new
  <1>6. call' = [call EXCEPT ![c] = new] /\ new.pc # "waiting"
    BY <1>3, <1>5 DEF new
  <1>7. QED
    BY <1>1, <1>4, <1>5, <1>6, CallStep

-----------------------------------------------------------------------------
(* A call that has read the rows.                                             *)

(* It is answered from the cache or without an observed side.                 *)
LEMMA AnswerNowStep ==
    ASSUME IInv, NEW c \in Caller, call[c].pc = "select", Unconfigured(c) \/ FromCache(c),
           UNCHANGED <<now, chain>>
    PROVE  IInv'
  <1>1. PICK snap : AnswerNow(c, snap) /\ (snap # None => now - snap.at < Ttl)
    BY DEF Unconfigured, FromCache, Fresh
  <1>2. /\ call' = [call EXCEPT ![c] = NoCall] /\ UNCHANGED monitor
        /\ \A r \in replies' : r.taken = now /\ r.snap = snap
    BY <1>1 DEF AnswerNow, Reply
  <1>3. QED
    BY <1>1, <1>2, NoCallIs, CallStep

(* It joins the fetch that is in flight, or starts one.                       *)
LEMMA WaitStep ==
    ASSUME IInv, NEW c \in Caller, call[c].pc = "select", Join(c) \/ Fetch(c),
           UNCHANGED <<now, chain>>
    PROVE  IInv'
  <1>1. PICK f \in Caller : Wait(c, f) /\ ((Join(c) /\ f = inFlight) \/ (Fetch(c) /\ f = c))
    BY DEF Join, Fetch, IInv, Shapes
  <1> DEFINE new == [call[c] EXCEPT !.pc = "waiting", !.on = f, !.taken = now]
  <1>2. call' = [call EXCEPT ![c] = new] /\ replies' = {}
    BY <1>1 DEF Wait, IInv, Shapes, IsCall
  <1>3. IsCall(new) /\ new.pc = "waiting" /\ new.on = f /\ new.taken = now
    <2>1. IsCall(call[c])
      BY DEF IInv, Shapes
    <2>2. QED
      BY <2>1 DEF IsCall
  <1> HIDE DEF new
  <1>4. /\ call' = [d \in Caller |-> call'[d]] /\ \A d \in Caller : IsCall(call'[d])
        /\ call'[c] = new /\ \A d \in Caller \ {c} : call'[d] = call[d]
    BY <1>2, <1>3, CallMoved DEF IInv
  <1>5. now \in 0 .. MaxTime /\ now' = now /\ now \in 0 .. now
    BY ClockAssumption DEF IInv, Shapes
  <1>6. Waits'
    BY <1>3, <1>4, <1>5 DEF IInv, Waits
  <1>7. AnswersAreFresh'
    BY <1>2 DEF AnswersAreFresh
  <1>8. Shapes' /\ SingleFlight'
    <2>1. CASE Join(c) /\ f = inFlight
      <3>1. UNCHANGED monitor
        BY <2>1 DEF Join
      <3>2. Shapes'
        BY <1>4, <3>1 DEF IInv, Shapes, monitor
      <3>3. SingleFlight'
        BY <1>3, <1>4, <2>1, <3>1 DEF IInv, SingleFlight, monitor
      <3>4. QED
        BY <3>2, <3>3
    <2>2. CASE Fetch(c) /\ f = c
      <3>1. /\ flight' = [flight EXCEPT ![c] = NewFlight] /\ inFlight' = c /\ cache' = cache
            /\ inFlight = None
        BY <2>2 DEF Fetch
      <3>2. NewFlight \in FlightRecord /\ NewFlight.pc # "idle"
        BY DEF NewFlight, NoFlight, FlightRecord, IInv, Shapes
      <3>3. Shapes'
        BY <1>4, <3>1, <3>2 DEF IInv, Shapes
      <3>4. \A d \in Caller \ {c} : call'[d].pc # "waiting" /\ flight'[d].pc = "idle"
        BY <1>4, <3>1, NoneAssumption DEF IInv, SingleFlight, Waits, Shapes
      <3>5. SingleFlight'
        BY <1>3, <1>4, <2>2, <3>1, <3>2, <3>4 DEF SingleFlight, IInv, Shapes
      <3>6. QED
        BY <3>3, <3>5
    <2>3. QED
      BY <1>1, <2>1, <2>2
  <1>9. QED
    BY <1>6, <1>7, <1>8 DEF IInv

(* Either way.                                                                *)
LEMMA ObserveStep ==
    ASSUME IInv, NEW c \in Caller, Observe(c)
    PROVE  IInv'
  BY AnswerNowStep, WaitStep DEF Observe

-----------------------------------------------------------------------------
(* The fetch.                                                                 *)

(* Its end answers everyone who waits, and nobody else was waiting.           *)
LEMMA EndFlightStep ==
    ASSUME IInv, NEW f \in Caller, NEW snap, flight[f].pc # "idle", EndFlight(f, snap),
           snap # None => snap.at = now,
           cache' \in ObservedSnapshot \cup {None}, UNCHANGED <<now, chain>>
    PROVE  IInv'
  <1>1. inFlight = f /\ \A d \in Caller : d # f => flight[d].pc = "idle"
    BY DEF IInv, SingleFlight
  <1>2. \A d \in Caller : call[d].pc = "waiting" => d \in WaitingFor(f)
    BY <1>1 DEF IInv, SingleFlight, WaitingFor
  <1>3. /\ flight' = [flight EXCEPT ![f] = NoFlight] /\ inFlight' = None
        /\ call' = [c \in Caller |-> IF c \in WaitingFor(f) THEN NoCall ELSE call[c]]
        /\ replies' = {Reply(c, call[c].taken, snap) : c \in WaitingFor(f)}
    BY DEF EndFlight
  <1>4. \A d \in Caller : IsCall(call'[d]) /\ call'[d].pc # "waiting"
    BY <1>2, <1>3, NoCallIs DEF IInv, Shapes
  <1>5. NoFlight \in FlightRecord /\ NoFlight.pc = "idle"
    BY ClockAssumption DEF NoFlight, FlightRecord
  <1>6. Shapes'
    BY <1>3, <1>4, <1>5 DEF IInv, Shapes
  <1>7. SingleFlight' /\ Waits'
    BY <1>1, <1>3, <1>4, <1>5, NoneAssumption DEF SingleFlight, Waits, IInv, Shapes
  <1>8. AnswersAreFresh'
    <2> SUFFICES ASSUME NEW r \in replies', r.snap # None
                 PROVE  r.taken - r.snap.at < Ttl /\ now' - r.snap.at < Ttl
      BY DEF AnswersAreFresh
    <2>1. PICK c \in WaitingFor(f) : r = Reply(c, call[c].taken, snap)
      BY <1>3
    <2>2. r.snap = snap /\ r.taken = call[c].taken /\ snap.at = now /\ now' = now
      BY <2>1 DEF Reply
    <2>3. call[c].taken \in 0 .. now /\ now \in 0 .. MaxTime
      BY <2>1 DEF WaitingFor, IInv, Waits, Shapes
    <2>4. QED
      BY <2>2, <2>3, ClockAssumption
  <1>9. QED
    BY <1>6, <1>7, <1>8 DEF IInv

(* A complete fetch is a snapshot of now.                                     *)
LEMMA CompletedIs ==
    ASSUME Shapes, NEW fl \in FlightRecord
    PROVE  /\ Completed(fl) \in ObservedSnapshot /\ Completed(fl) # None
           /\ Completed(fl).at = now /\ Completed(fl).vaults = fl.vaults
  BY SnapshotAssumption DEF Completed, ObservedSnapshot, FlightRecord, Shapes

(* After each network the next one is asked, or the fetch ends.               *)
LEMMA AdvanceStep ==
    ASSUME IInv, NEW f \in Caller, NEW fl \in FlightRecord, flight[f].pc # "idle",
           Advance(f, fl), UNCHANGED <<now, chain>>
    PROVE  IInv'
  <1>1. CASE fl.todo = {}
    <2>1. cache' = Completed(fl) /\ EndFlight(f, Completed(fl))
      BY <1>1 DEF Advance
    <2>2. QED
      BY <2>1, CompletedIs, EndFlightStep DEF IInv
  <1>2. CASE fl.todo # {}
    <2>1. /\ flight' = [flight EXCEPT ![f] = [fl EXCEPT !.pc = "read", !.asked = now]]
          /\ replies' = {} /\ UNCHANGED <<cache, inFlight, call>>
      BY <1>2 DEF Advance
    <2>2. /\ [fl EXCEPT !.pc = "read", !.asked = now] \in FlightRecord
          /\ [fl EXCEPT !.pc = "read", !.asked = now].pc = "read"
      BY DEF FlightRecord, IInv, Shapes
    <2>3. Shapes'
      BY <2>1, <2>2 DEF IInv, Shapes
    <2>4. SingleFlight' /\ Waits'
      BY <2>1, <2>2 DEF IInv, SingleFlight, Waits, Shapes
    <2>5. AnswersAreFresh'
      BY <2>1 DEF AnswersAreFresh
    <2>6. QED
      BY <2>3, <2>4, <2>5 DEF IInv
  <1>3. QED
    BY <1>1, <1>2

(* What a network answers are rows of its own vaults.                         *)
LEMMA RowsReadIs ==
    ASSUME Shapes, NEW n \in Network
    PROVE  RowsRead(n) \in SUBSET ObservedVault
  <1> SUFFICES ASSUME NEW h \in Holding, h[1] = n
               PROVE  [network |-> n, asset |-> h[2], tvl |-> chain[h]] \in ObservedVault
    BY DEF RowsRead
  <1>1. h[2] \in Asset /\ chain[h] \in Tvl
    BY HoldingAssumption DEF Shapes, Chain
  <1>2. QED
    BY <1>1 DEF ObservedVault

(* Every step of the fetch.                                                   *)
LEMMA FlightStepStep ==
    ASSUME IInv, NEW f \in Caller, FlightStep(f)
    PROVE  IInv'
  <1>1. flight[f] \in FlightRecord
    BY DEF IInv, Shapes
  <1>2. CASE Listed(f)
    <2>1. PICK ns \in SUBSET Network : Advance(f, [flight[f] EXCEPT !.networks = ns, !.todo = ns])
      BY <1>2 DEF Listed
    <2>2. [flight[f] EXCEPT !.networks = ns, !.todo = ns] \in FlightRecord
      BY <1>1 DEF FlightRecord
    <2>3. flight[f].pc # "idle" /\ UNCHANGED <<now, chain>>
      BY <1>2 DEF Listed
    <2>4. QED
      BY <2>1, <2>2, <2>3, AdvanceStep
  <1>3. CASE ListFails(f)
    <2>1. flight[f].pc # "idle" /\ EndFlight(f, None) /\ UNCHANGED <<now, chain, cache>>
      BY <1>3 DEF ListFails
    <2>2. cache' \in ObservedSnapshot \cup {None}
      BY <2>1 DEF IInv, Shapes
    <2>3. QED
      BY <2>1, <2>2, EndFlightStep
  <1>4. ASSUME NEW n \in Network, NetworkRead(f, n) PROVE IInv'
    <2> DEFINE fl == [flight[f] EXCEPT !.todo = @ \ {n}, !.vaults = @ \cup RowsRead(n),
                                       !.read = @ \cup {n}]
    <2>1. fl \in FlightRecord
      BY <1>1, RowsReadIs DEF FlightRecord, IInv
    <2>2. Advance(f, fl) /\ flight[f].pc # "idle" /\ UNCHANGED <<now, chain>>
      BY <1>4 DEF NetworkRead
    <2> HIDE DEF fl
    <2>3. QED
      BY <2>1, <2>2, AdvanceStep
  <1>5. ASSUME NEW n \in Network, NetworkMissed(f, n) PROVE IInv'
    <2> DEFINE fl == [flight[f] EXCEPT !.todo = @ \ {n}]
    <2>1. fl \in FlightRecord
      BY <1>1 DEF FlightRecord
    <2>2. Advance(f, fl) /\ flight[f].pc # "idle" /\ UNCHANGED <<now, chain>>
      BY <1>5 DEF NetworkMissed
    <2> HIDE DEF fl
    <2>3. QED
      BY <2>1, <2>2, AdvanceStep
  <1>6. QED
    BY <1>2, <1>3, <1>4, <1>5 DEF FlightStep

-----------------------------------------------------------------------------
(* Time and the chains.                                                       *)

(* Nothing is answered when time goes on, so nothing answered grows stale.    *)
LEMMA TickStep ==
    ASSUME IInv, Tick
    PROVE  IInv'
  <1>1. /\ now \in 0 .. MaxTime /\ now < MaxTime /\ now' = now + 1 /\ replies' = {}
        /\ UNCHANGED <<mode, chain, monitor, call, moves>>
    BY DEF IInv, Shapes, Tick
  <1>2. now' \in 0 .. MaxTime
    BY <1>1, ClockAssumption
  <1>3. Shapes'
    BY <1>1, <1>2 DEF IInv, Shapes, monitor
  <1>4. SingleFlight' /\ AnswersAreFresh'
    BY <1>1 DEF IInv, SingleFlight, AnswersAreFresh, monitor
  <1>5. Waits'
    BY <1>1, ClockAssumption DEF IInv, Waits
  <1>6. QED
    BY <1>3, <1>4, <1>5 DEF IInv

(* A move on the chains only spoils what a fetch knows of them.               *)
LEMMA MoveChainStep ==
    ASSUME IInv, MoveChain
    PROVE  IInv'
  <1>1. /\ chain' \in Chain /\ replies' = {} /\ UNCHANGED <<now, cache, inFlight, call>>
        /\ flight' = [f \in Caller |-> [flight[f] EXCEPT !.truth = None]]
    BY DEF MoveChain, IInv, Shapes, Chain
  <1>2. \A f \in Caller : /\ [flight[f] EXCEPT !.truth = None] \in FlightRecord
                          /\ [flight[f] EXCEPT !.truth = None].pc = flight[f].pc
    BY DEF FlightRecord, IInv, Shapes
  <1>3. Shapes'
    BY <1>1, <1>2 DEF IInv, Shapes
  <1>4. SingleFlight' /\ Waits' /\ AnswersAreFresh'
    BY <1>1, <1>2 DEF IInv, SingleFlight, Waits, AnswersAreFresh
  <1>5. QED
    BY <1>3, <1>4 DEF IInv

(* Every step preserves the invariant.                                        *)
LEMMA NextInv == IInv /\ [Next]_vars => IInv'
  <1> SUFFICES ASSUME IInv, [Next]_vars PROVE IInv'
    OBVIOUS
  <1>1. ASSUME NEW c \in Caller, Ask(c) \/ Observe(c) \/ FirstPage(c) \/ NextPage(c) PROVE IInv'
    BY <1>1, AskStep, ObserveStep, PageStep
  <1>2. ASSUME NEW f \in Caller, FlightStep(f) PROVE IInv'
    BY <1>2, FlightStepStep
  <1>3. CASE Tick
    BY <1>3, TickStep
  <1>4. CASE MoveChain
    BY <1>4, MoveChainStep
  <1>5. CASE UNCHANGED vars
    BY <1>5 DEF vars, IInv, Shapes, SingleFlight, Waits, AnswersAreFresh
  <1>6. QED
    BY <1>1, <1>2, <1>3, <1>4, <1>5 DEF Next

-----------------------------------------------------------------------------
(* The theorems.                                                              *)

(* The invariant holds in every reachable state.                              *)
THEOREM Inductive == Spec => []IInv
  <1>1. QED
    BY InitInv, NextInv, PTL DEF Spec

(* However many requests ask for a report together, one fetch serves them,    *)
(* and none of them is left waiting for one that is over.                     *)
THEOREM OneFetchServesAll == Spec => []SingleFlight
  <1>1. IInv => SingleFlight
    BY DEF IInv
  <1>2. QED
    BY <1>1, Inductive, PTL

(* Whether an answer comes from the cache, a fetch of its own or one that it  *)
(* joined, its observed side is younger than the lifetime of a snapshot.      *)
THEOREM NoStaleAnswer == Spec => []AnswersAreFresh
  <1>1. IInv => AnswersAreFresh
    BY DEF IInv
  <1>2. QED
    BY <1>1, Inductive, PTL

(* The failure of one network is never the failure of a report: those who     *)
(* wait are shown what the others answered.                                   *)
THEOREM PartialObservationCounts == Spec => OneNetworkVoidsNothing
  <1>1. ASSUME IInv, NEW f \in Caller, NEW n \in Network, NetworkMissed(f, n)
        PROVE  \A r \in replies' : r.snap # None /\ r.snap.vaults = flight[f].vaults
    <2> DEFINE fl == [flight[f] EXCEPT !.todo = @ \ {n}]
    <2>1. fl \in FlightRecord /\ fl.vaults = flight[f].vaults /\ Advance(f, fl)
      BY <1>1 DEF FlightRecord, IInv, Shapes, NetworkMissed
    <2> HIDE DEF fl
    <2>2. CASE fl.todo # {}
      BY <2>1, <2>2 DEF Advance
    <2>3. CASE fl.todo = {}
      <3>1. \A r \in replies' : r.snap = Completed(fl)
        BY <2>1, <2>3 DEF Advance, EndFlight, Reply
      <3>2. QED
        BY <1>1, <2>1, <3>1, CompletedIs DEF IInv
    <2>4. QED
      BY <2>2, <2>3
  <1>2. IInv => (\A f \in Caller, n \in Network : NetworkMissed(f, n) =>
                   \A r \in replies' : r.snap # None /\ r.snap.vaults = flight[f].vaults)
    BY <1>1
  <1>3. QED
    BY <1>2, Inductive, PTL DEF Spec, OneNetworkVoidsNothing

-----------------------------------------------------------------------------
(* Of arithmetic.                                                             *)

(* Rounding takes the nearest integer, halves up.                             *)
LEMMA RoundReaches ==
    ASSUME NEW n \in Int, NEW d \in Nat \ {0}, NEW k \in Int
    PROVE  Round(n, d) \in Int /\ (Round(n, d) >= k <=> 2 * n >= (2 * k - 1) * d)
  BY NearestReaches DEF Round

(* The larger of 0 and a number.                                              *)
LEMMA AtLeastZero ==
    ASSUME NEW x \in Int
    PROVE  Max({0, x}) = IF x > 0 THEN x ELSE 0
  <1> DEFINE m == IF x > 0 THEN x ELSE 0
  <1>1. m \in {0, x} /\ \A y \in {0, x} : m >= y
    OBVIOUS
  <1>2. \A y \in {0, x} : (\A z \in {0, x} : y >= z) => y = m
    OBVIOUS
  <1> HIDE DEF m
  <1>3. QED
    BY <1>1, <1>2 DEF Max

-----------------------------------------------------------------------------
(* The book.                                                                  *)

LEMMA BookIs ==
    /\ IsFiniteSet(Positions) /\ IsFiniteSet(Events)
    /\ \A p \in Positions :
          /\ p.seq \in Nat /\ p.principal \in Nat /\ p.apy \in Nat /\ p.withdrawn \in Nat
          /\ p.opened \in Int /\ p.updated \in Int /\ p.asset \in Asset
          /\ Null \notin {p.user, p.asset, p.vault}
    /\ \A e \in Events : e.seq \in Nat /\ e.position \in Nat /\ e.amount \in Nat /\ e.at \in Int
    /\ \A p, q \in Positions : p.seq = q.seq => p = q
    /\ \A e, f \in Events : e.seq = f.seq => e = f
  BY BookAssumption DEF IsTable, IsPosition, IsEvent

(* What a position is worth is a natural number, never below what was put in. *)
LEMMA ElapsedIs ==
    ASSUME NEW p \in Positions, NEW t \in Int
    PROVE  Elapsed(p, t) \in Nat
  <1> DEFINE end == IF p.status = "closed" THEN p.updated ELSE t
  <1>1. end - p.opened \in Int
    BY BookIs
  <1>2. Elapsed(p, t) = Max({0, end - p.opened})
    BY DEF Elapsed
  <1> HIDE DEF end
  <1>3. QED
    BY <1>1, <1>2, AtLeastZero

LEMMA BaselineIs ==
    ASSUME NEW principal \in Nat, NEW apy \in Nat, NEW elapsed \in Nat
    PROVE  /\ BaselineValue(principal, apy, elapsed) \in Nat
           /\ BaselineValue(principal, apy, elapsed) >= principal
  <1> DEFINE n == principal * (Scale + apy * elapsed)
  <1>1. Scale \in Nat \ {0}
    BY ScaleAssumption
  <1>2. apy * elapsed \in Nat
    BY Products
  <1>3. n = principal * Scale + principal * (apy * elapsed)
    BY <1>1, <1>2, SMT
  <1>4. principal * Scale \in Nat /\ principal * (apy * elapsed) \in Nat
    BY <1>1, <1>2, Products
  <1>5. n \in Nat /\ n >= principal * Scale
    BY <1>3, <1>4
  <1>6. (2 * principal - 1) * Scale = 2 * (principal * Scale) - Scale
    BY <1>1, SMT
  <1> HIDE DEF n
  <1>7. 2 * n >= (2 * principal - 1) * Scale
    BY <1>1, <1>4, <1>5, <1>6
  <1>8. Round(n, Scale) \in Int /\ Round(n, Scale) >= principal
    BY <1>1, <1>5, <1>7, RoundReaches
  <1>9. QED
    BY <1>8 DEF BaselineValue, n

LEMMA ValueIs ==
    ASSUME NEW p \in Positions, NEW t \in Int
    PROVE  Value(p, t) \in Nat /\ Value(p, t) >= p.principal
  BY BookIs, ElapsedIs, BaselineIs DEF Value


-----------------------------------------------------------------------------
(* The recorded side.                                                         *)

ReportedAssets(asset) == {AssetOf(p) : p \in Reported(asset)}

LEMMA ReportedIs ==
    ASSUME NEW asset
    PROVE  /\ IsFiniteSet(Reported(asset)) /\ Reported(asset) \subseteq Positions
           /\ IsFiniteSet(ReportedAssets(asset)) /\ ReportedAssets(asset) \subseteq Asset
  <1>1. Reported(asset) \subseteq Positions
    BY DEF Reported, Active
  <1>2. IsFiniteSet(Reported(asset))
    BY <1>1, BookIs, FS_Subset
  <1>3. \A p \in Positions : AssetOf(p) \in Asset
    BY BookIs, VaultAssumption DEF AssetOf
  <1> DEFINE f == [p \in Reported(asset) |-> AssetOf(p)]
  <1>4. ReportedAssets(asset) = {f[p] : p \in Reported(asset)}
    BY DEF ReportedAssets
  <1>5. IsFiniteSet(ReportedAssets(asset))
    <2> HIDE DEF f
    <2>1. QED
      BY <1>2, <1>4, ImageIsFinite
  <1>6. QED
    BY <1>1, <1>2, <1>3, <1>5 DEF ReportedAssets

(* The assets of a report, each with what is recorded of it, add up to the    *)
(* total; so they do with any others, of which nothing is recorded.           *)
LEMMA RecordedAddsUp ==
    ASSUME NEW asset, NEW t \in Int, NEW K, IsFiniteSet(K), ReportedAssets(asset) \subseteq K
    PROVE  /\ \A a : Recorded(asset, t, a) \in Nat
           /\ RecordedTotal(asset, t) \in Nat
           /\ SumFunctionOnSet([a \in K |-> Recorded(asset, t, a)], K) = RecordedTotal(asset, t)
  <1> DEFINE T == Reported(asset)
             v == [p \in T |-> Value(p, t)]
             g == [p \in T |-> AssetOf(p)]
             h == [a \in K |-> Recorded(asset, t, a)]
  <1>1. IsFiniteSet(T) /\ \A p \in T : v[p] \in Nat
    BY ReportedIs, ValueIs
  <1>2. ASSUME NEW a PROVE Recorded(asset, t, a) = SumFunctionOnSet(v, Group(T, g, a))
    <2> DEFINE w == [p \in Group(T, g, a) |-> Value(p, t)]
    <2>1. {p \in Reported(asset) : AssetOf(p) = a} = Group(T, g, a)
      BY DEF Group
    <2>2. Recorded(asset, t, a) = SumFunctionOnSet(w, Group(T, g, a))
      BY <2>1 DEF Recorded, Total
    <2>3. Group(T, g, a) \subseteq T
      BY DEF Group
    <2>4. \A p \in Group(T, g, a) : w[p] = v[p]
      BY <2>3
    <2>5. Integral(v, Group(T, g, a))
      BY <1>1, <2>3, FS_Subset DEF Integral
    <2> HIDE DEF w, v, g, T
    <2>6. QED
      BY <2>2, <2>4, <2>5, SumOfEqual
  <1>3. ASSUME NEW a PROVE Recorded(asset, t, a) \in Nat
    <2>1. IsFiniteSet(Group(T, g, a)) /\ \A p \in Group(T, g, a) : v[p] \in Nat
      BY <1>1, FS_Subset DEF Group
    <2> HIDE DEF v, g, T
    <2>2. QED
      BY <1>2, <2>1, SumIsNatural
  <1>4. RecordedTotal(asset, t) = SumFunctionOnSet(v, T)
    BY DEF RecordedTotal, Total
  <1>5. \A p \in T : g[p] \in K
    BY DEF ReportedAssets
  <1>6. \A a \in K : h[a] = SumFunctionOnSet(v, Group(T, g, a))
    BY <1>2
  <1>7. Integral(v, T)
    BY <1>1 DEF Integral
  <1>8. RecordedTotal(asset, t) \in Nat
    BY <1>1, <1>4, SumIsNatural
  <1> HIDE DEF v, g, T, h
  <1>9. SumFunctionOnSet(h, K) = SumFunctionOnSet(v, T)
    BY <1>5, <1>6, <1>7, SumByGroup
  <1>10. QED
    BY <1>3, <1>4, <1>8, <1>9 DEF h

-----------------------------------------------------------------------------
(* The observed side.                                                         *)

Onchain(seen, a) == Total(LAMBDA v : v.tvl, {v \in seen : v.asset = a})

LEMMA OnchainAddsUp ==
    ASSUME NEW seen, IsFiniteSet(seen), seen \subseteq ObservedVault, NEW K, IsFiniteSet(K),
           {v.asset : v \in seen} \subseteq K
    PROVE  /\ \A a : Onchain(seen, a) \in Nat
           /\ Total(LAMBDA v : v.tvl, seen) \in Nat
           /\ SumFunctionOnSet([a \in K |-> Onchain(seen, a)], K) = Total(LAMBDA v : v.tvl, seen)
  <1> DEFINE v == [x \in seen |-> x.tvl]
             g == [x \in seen |-> x.asset]
             h == [a \in K |-> Onchain(seen, a)]
  <1>1. \A x \in seen : v[x] \in Nat
    BY HoldingAssumption DEF ObservedVault
  <1>2. ASSUME NEW a PROVE Onchain(seen, a) = SumFunctionOnSet(v, Group(seen, g, a))
    <2> DEFINE w == [x \in Group(seen, g, a) |-> x.tvl]
    <2>1. {x \in seen : x.asset = a} = Group(seen, g, a)
      BY DEF Group
    <2>2. Onchain(seen, a) = SumFunctionOnSet(w, Group(seen, g, a))
      BY <2>1 DEF Onchain, Total
    <2>3. Group(seen, g, a) \subseteq seen
      BY DEF Group
    <2>4. \A x \in Group(seen, g, a) : w[x] = v[x]
      BY <2>3
    <2>5. Integral(v, Group(seen, g, a))
      BY <1>1, <2>3, FS_Subset DEF Integral
    <2> HIDE DEF w, v, g
    <2>6. QED
      BY <2>2, <2>4, <2>5, SumOfEqual
  <1>3. ASSUME NEW a PROVE Onchain(seen, a) \in Nat
    <2>1. IsFiniteSet(Group(seen, g, a)) /\ \A x \in Group(seen, g, a) : v[x] \in Nat
      BY <1>1, FS_Subset DEF Group
    <2> HIDE DEF v, g
    <2>2. QED
      BY <1>2, <2>1, SumIsNatural
  <1>4. Total(LAMBDA x : x.tvl, seen) = SumFunctionOnSet(v, seen)
    BY DEF Total
  <1>5. \A x \in seen : g[x] \in K
    OBVIOUS
  <1>6. \A a \in K : h[a] = SumFunctionOnSet(v, Group(seen, g, a))
    BY <1>2
  <1>7. Integral(v, seen)
    BY <1>1 DEF Integral
  <1>8. Total(LAMBDA x : x.tvl, seen) \in Nat
    BY <1>1, <1>4, SumIsNatural
  <1> HIDE DEF v, g, h
  <1>9. SumFunctionOnSet(h, K) = SumFunctionOnSet(v, seen)
    BY <1>5, <1>6, <1>7, SumByGroup
  <1>10. QED
    BY <1>3, <1>4, <1>8, <1>9 DEF h

-----------------------------------------------------------------------------
(* The rows of a report.                                                      *)

RowAssets(asset, snap) ==
    ReportedAssets(asset) \cup {v.asset : v \in ObservedVaults(asset, snap)}

ReportRow(asset, t, snap, a) ==
    LET seen == ObservedVaults(asset, snap)
        recorded == Recorded(asset, t, a)
        onchain == Onchain(seen, a)
    IN  [asset |-> a, recorded |-> recorded, onchain |-> onchain,
         discrepancy |-> recorded - onchain, diff_bps |-> DiffBps(recorded, onchain),
         observed |-> \E v \in seen : v.asset = a]

UnavailableRow(asset, t, a) ==
    [asset |-> a, recorded |-> Recorded(asset, t, a), onchain |-> Null,
     discrepancy |-> Null, diff_bps |-> Null, observed |-> FALSE]

LEMMA RowsAre ==
    ASSUME NEW asset, NEW t, NEW snap
    PROVE  /\ Breakdown(asset, t, snap)
                = {ReportRow(asset, t, snap, a) : a \in RowAssets(asset, snap)}
           /\ UnavailableReport(asset, t).breakdown
                = {UnavailableRow(asset, t, a) : a \in ReportedAssets(asset)}
  <1>1. Breakdown(asset, t, snap)
          = {ReportRow(asset, t, snap, a) : a \in RowAssets(asset, snap)}
    BY DEF Breakdown, ReportRow, RowAssets, ReportedAssets, Onchain
  <1>2. UnavailableReport(asset, t).breakdown
          = {UnavailableRow(asset, t, AssetOf(p)) : p \in Reported(asset)}
    BY DEF UnavailableReport, UnavailableRow
  <1>3. {UnavailableRow(asset, t, AssetOf(p)) : p \in Reported(asset)}
          = {UnavailableRow(asset, t, a) : a \in ReportedAssets(asset)}
    BY DEF ReportedAssets
  <1>4. QED
    BY <1>1, <1>2, <1>3

(* What was observed: a set of vaults, finite.                                *)
Countable(snap) == IsFiniteSet(snap.vaults) /\ snap.vaults \subseteq ObservedVault

LEMMA SeenIs ==
    ASSUME NEW asset, NEW snap, Countable(snap)
    PROVE  /\ IsFiniteSet(ObservedVaults(asset, snap))
           /\ ObservedVaults(asset, snap) \subseteq ObservedVault
           /\ IsFiniteSet(RowAssets(asset, snap)) /\ RowAssets(asset, snap) \subseteq Asset
  <1> DEFINE seen == ObservedVaults(asset, snap)
             f == [v \in seen |-> v.asset]
  <1>1. seen \subseteq snap.vaults
    BY DEF ObservedVaults
  <1>2. IsFiniteSet(seen) /\ seen \subseteq ObservedVault
    BY <1>1, FS_Subset DEF Countable
  <1>3. {v.asset : v \in seen} = {f[v] : v \in seen}
    OBVIOUS
  <1>4. {v.asset : v \in seen} \subseteq Asset
    BY <1>2 DEF ObservedVault
  <1> HIDE DEF f, seen
  <1>5. IsFiniteSet({v.asset : v \in seen})
    BY <1>2, <1>3, ImageIsFinite
  <1>6. IsFiniteSet(RowAssets(asset, snap)) /\ RowAssets(asset, snap) \subseteq Asset
    BY <1>4, <1>5, ReportedIs, FS_Union DEF RowAssets, seen
  <1>7. QED
    BY <1>2, <1>6 DEF seen

LEMMA ObservedRowsAddUp ==
    ASSUME NEW asset, NEW t \in Int, NEW snap, Countable(snap)
    PROVE  RowsAddUp(ObservedReport(asset, t, snap))
  <1> DEFINE seen == ObservedVaults(asset, snap)
             K == RowAssets(asset, snap)
             row == [a \in K |-> ReportRow(asset, t, snap, a)]
             rows == Breakdown(asset, t, snap)
             v == [a \in K |-> Recorded(asset, t, a)]
             w == [a \in K |-> Onchain(seen, a)]
             f == [r \in rows |-> r.recorded]
             g == [r \in rows |-> r.onchain]
  <1>1. IsFiniteSet(K) /\ IsFiniteSet(seen) /\ seen \subseteq ObservedVault
    BY SeenIs
  <1>2. rows = {row[a] : a \in K}
    BY RowsAre
  <1>3. \A a \in K : /\ row[a].asset = a /\ row[a].recorded = v[a] /\ row[a].onchain = w[a]
    BY DEF ReportRow
  <1>4. /\ \A a \in K : v[a] \in Int
        /\ SumFunctionOnSet(v, K) = RecordedTotal(asset, t)
    BY <1>1, RecordedAddsUp DEF RowAssets
  <1>5. /\ \A a \in K : w[a] \in Int
        /\ SumFunctionOnSet(w, K) = Total(LAMBDA x : x.tvl, seen)
    BY <1>1, OnchainAddsUp DEF RowAssets
  <1>6. \A a \in K : f[row[a]] = v[a] /\ g[row[a]] = w[a]
    BY <1>2, <1>3
  <1>7. /\ ObservedReport(asset, t, snap).recorded_total = RecordedTotal(asset, t)
        /\ ObservedReport(asset, t, snap).onchain_total = Total(LAMBDA x : x.tvl, seen)
        /\ ObservedReport(asset, t, snap).breakdown = rows
    BY DEF ObservedReport
  <1>8. /\ Total(LAMBDA r : r.recorded, rows) = SumFunctionOnSet(f, rows)
        /\ Total(LAMBDA r : r.onchain, rows) = SumFunctionOnSet(g, rows)
    BY DEF Total
  <1> HIDE DEF seen, K, row, rows, v, w, f, g
  <1>9. SumFunctionOnSet(f, rows) = SumFunctionOnSet(v, K)
    BY <1>1, <1>2, <1>3, <1>4, <1>6, SumOverRows
  <1>10. SumFunctionOnSet(g, rows) = SumFunctionOnSet(w, K)
    BY <1>1, <1>2, <1>3, <1>5, <1>6, SumOverRows
  <1>11. QED
    BY <1>4, <1>5, <1>7, <1>8, <1>9, <1>10 DEF RowsAddUp

LEMMA UnavailableRowsAddUp ==
    ASSUME NEW asset, NEW t \in Int
    PROVE  RowsAddUp(UnavailableReport(asset, t))
  <1> DEFINE K == ReportedAssets(asset)
             row == [a \in K |-> UnavailableRow(asset, t, a)]
             rows == UnavailableReport(asset, t).breakdown
             v == [a \in K |-> Recorded(asset, t, a)]
             f == [r \in rows |-> r.recorded]
  <1>1. IsFiniteSet(K)
    BY ReportedIs
  <1>2. rows = {row[a] : a \in K}
    BY RowsAre
  <1>3. \A a \in K : /\ row[a].asset = a /\ row[a].recorded = v[a]
    BY DEF UnavailableRow
  <1>4. /\ \A a \in K : v[a] \in Int
        /\ SumFunctionOnSet(v, K) = RecordedTotal(asset, t)
    BY <1>1, RecordedAddsUp
  <1>5. \A a \in K : f[row[a]] = v[a]
    BY <1>2, <1>3
  <1>6. /\ UnavailableReport(asset, t).recorded_total = RecordedTotal(asset, t)
        /\ UnavailableReport(asset, t).status = "unavailable"
    BY DEF UnavailableReport
  <1>7. Total(LAMBDA r : r.recorded, rows) = SumFunctionOnSet(f, rows)
    BY DEF Total
  <1>8. rows = UnavailableReport(asset, t).breakdown
    OBVIOUS
  <1> HIDE DEF K, row, rows, v, f
  <1>9. SumFunctionOnSet(f, rows) = SumFunctionOnSet(v, K)
    BY <1>1, <1>2, <1>3, <1>4, <1>5, SumOverRows
  <1>10. QED
    BY <1>4, <1>6, <1>7, <1>8, <1>9 DEF RowsAddUp

-----------------------------------------------------------------------------
(* The verdict.                                                               *)

(* A difference counts when it is beyond the tolerance and half a hundredth   *)
(* of a basis point, that half included on the side of a surplus.             *)
LEMMA GapIsBeyond ==
    ASSUME NEW recorded \in Nat, NEW onchain \in Nat
    PROVE  LET bps == DiffBps(recorded, onchain)
               gap == recorded - onchain
               least == (200 * ToleranceBps + 1) * onchain
           IN  (bps # Null /\ Beyond(bps))
                 <=> (onchain > 0 /\ (2000000 * gap >= least \/ -2000000 * gap > least))
  <1> DEFINE gap == recorded - onchain
             n == gap * 1000000
             k == 100 * ToleranceBps
             least == (200 * ToleranceBps + 1) * onchain
  <1>1. CASE onchain = 0
    BY <1>1 DEF DiffBps
  <1>2. CASE onchain > 0
    <2>1. onchain \in Nat \ {0} /\ ToleranceBps \in Nat /\ gap \in Int /\ n \in Int /\ k \in Int
      BY <1>2, HoldingAssumption
    <2>2. DiffBps(recorded, onchain) = Round(n, onchain)
      BY <1>2 DEF DiffBps
    <2>3. /\ Round(n, onchain) \in Int
          /\ Round(n, onchain) >= k + 1 <=> 2 * n >= (2 * (k + 1) - 1) * onchain
          /\ Round(n, onchain) >= -k <=> 2 * n >= (2 * (-k) - 1) * onchain
      BY <2>1, RoundReaches
    <2>4. (2 * (k + 1) - 1) * onchain = least /\ (2 * (-k) - 1) * onchain = -least
      BY <2>1, SMT
    <2>5. least \in Int /\ 2 * n = 2000000 * gap
      BY <2>1, SMT
    <2>6. DiffBps(recorded, onchain) # Null
      BY <2>2, <2>3, NullAssumption
    <2> HIDE DEF least, n, gap
    <2>7. Beyond(Round(n, onchain)) <=> (Round(n, onchain) >= k + 1 \/ ~ Round(n, onchain) >= -k)
      BY <2>1, <2>3 DEF Beyond
    <2>8. Beyond(Round(n, onchain)) <=> (2000000 * gap >= least \/ -2000000 * gap > least)
      BY <2>1, <2>3, <2>4, <2>5, <2>7
    <2>9. QED
      BY <1>2, <2>2, <2>6, <2>8 DEF gap, least
  <1>3. QED
    BY <1>1, <1>2

(* What networks that hold `held` answer.                                     *)
VaultRow(held, h) == [network |-> h[1], asset |-> h[2], tvl |-> held[h]]

VaultsOf(held, networks) == {VaultRow(held, h) : h \in {h \in Holding : h[1] \in networks}}

(* An observation is finite; if the chains stood still, it is what they held. *)
Honest(s) ==
    /\ Countable(s)
    /\ s.truth # None => s.truth \in Chain /\ s.vaults = VaultsOf(s.truth, s.read)

Truth(held, a) == Total(LAMBDA h : held[h], {h \in Holding : h[2] = a})

LEMMA ObservedIsTruth ==
    ASSUME NEW snap, Honest(snap), snap.truth # None, snap.read = Network,
           NEW asset, NEW a, Matches(a, asset)
    PROVE  /\ Onchain(ObservedVaults(asset, snap), a) = Truth(snap.truth, a)
           /\ (Onchain(ObservedVaults(asset, snap), a) > 0
                 => \E v \in ObservedVaults(asset, snap) : v.asset = a)
  <1> DEFINE K == {h \in Holding : h[2] = a}
             T == {v \in ObservedVaults(asset, snap) : v.asset = a}
             row == [h \in K |-> VaultRow(snap.truth, h)]
             held == [h \in K |-> snap.truth[h]]
             f == [v \in T |-> v.tvl]
  <1>1. \A h \in Holding : h = <<h[1], h[2]>> /\ h[1] \in Network
    BY HoldingAssumption
  <1>2. snap.vaults = {VaultRow(snap.truth, h) : h \in Holding}
    BY <1>1 DEF Honest, VaultsOf
  <1>3. T = {v \in snap.vaults : v.asset = a}
    BY DEF ObservedVaults
  <1>4. T = {row[h] : h \in K}
    <2>1. \A h \in Holding : VaultRow(snap.truth, h).asset = h[2]
      BY DEF VaultRow
    <2>2. \A h \in K : row[h] = VaultRow(snap.truth, h)
      OBVIOUS
    <2>3. \A h \in K : VaultRow(snap.truth, h) \in T
      BY <1>2, <1>3, <2>1
    <2>4. \A v \in T : \E h \in K : v = VaultRow(snap.truth, h)
      BY <1>2, <1>3, <2>1
    <2> HIDE DEF K, T, row
    <2>5. QED
      BY <2>2, <2>3, <2>4
  <1>5. IsFiniteSet(K) /\ \A h \in K : held[h] \in Int
    <2>1. K \subseteq Holding /\ IsFiniteSet(K)
      BY HoldingAssumption, FS_Subset
    <2>2. snap.truth \in [Holding -> Tvl] /\ Tvl \subseteq Nat
      BY HoldingAssumption DEF Honest, Chain
    <2>3. \A h \in Holding : snap.truth[h] \in Int
      <3>1. \A h \in Holding : snap.truth[h] \in Tvl
        BY <2>2
      <3>2. \A x \in Tvl : x \in Int
        BY HoldingAssumption
      <3>3. QED
        BY <3>1, <3>2, Zenon
    <2>4. \A h \in K : held[h] = snap.truth[h]
      OBVIOUS
    <2> HIDE DEF K, held
    <2>5. QED
      BY <2>1, <2>3, <2>4
  <1>6. \A h, i \in K : row[h] = row[i] => h = i
    BY <1>1 DEF VaultRow
  <1>7. \A h \in K : row[h] \in T /\ f[row[h]] = held[h]
    BY <1>4 DEF VaultRow
  <1>8. /\ Onchain(ObservedVaults(asset, snap), a) = SumFunctionOnSet(f, T)
        /\ Truth(snap.truth, a) = SumFunctionOnSet(held, K)
    BY DEF Onchain, Total, Truth
  <1>9. T = {} => SumFunctionOnSet(f, T) = 0
    BY SumOfNone
  <1>10. T # {} => \E v \in ObservedVaults(asset, snap) : v.asset = a
    OBVIOUS
  <1>11. SumFunctionOnSet(f, T) = SumFunctionOnSet(held, K)
    <2> HIDE DEF K, T, row, held, f
    <2>1. QED
      BY <1>4, <1>5, <1>6, <1>7, SumOverRows
  <1> HIDE DEF T, row, held, f
  <1>12. QED
    BY <1>8, <1>9, <1>10, <1>11

LEMMA VerdictIs ==
    ASSUME NEW r, r.asset \in Asset \cup {Null}, r.taken \in Int, r.snap # None,
           Honest(r.snap), r.snap.truth # None, r.snap.read = Network
    PROVE  Report(r).status = "mismatch"
             <=> \E a \in Asset : Matches(a, r.asset) /\ Differs(r, a)
  <1> DEFINE seen == ObservedVaults(r.asset, r.snap)
             K == RowAssets(r.asset, r.snap)
             Bps(a) == DiffBps(Recorded(r.asset, r.taken, a), Onchain(seen, a))
             Open(a) == (\E v \in seen : v.asset = a) /\ Bps(a) # Null /\ Beyond(Bps(a))
  <1>1. Countable(r.snap)
    BY DEF Honest
  <1>2. /\ \A a : Recorded(r.asset, r.taken, a) \in Nat
        /\ \A a : Onchain(seen, a) \in Nat
    BY <1>1, SeenIs, ReportedIs, RecordedAddsUp, OnchainAddsUp DEF RowAssets
  <1>3. Report(r).status = "mismatch" <=> \E a \in K : Open(a)
    <2>1. Report(r).status = "mismatch" <=> OpenDiscrepancies(r.asset, r.taken, r.snap) # {}
      BY DEF Report, ObservedReport
    <2>2. OpenDiscrepancies(r.asset, r.taken, r.snap) # {}
            <=> \E a \in K : LET row == ReportRow(r.asset, r.taken, r.snap, a)
                             IN  row.observed /\ row.diff_bps # Null /\ Beyond(row.diff_bps)
      BY RowsAre DEF OpenDiscrepancies
    <2>3. QED
      BY <2>1, <2>2 DEF ReportRow
  <1>4. ASSUME NEW a \in Asset, Matches(a, r.asset)
        PROVE  Differs(r, a) <=> (Onchain(seen, a) > 0 /\ Bps(a) # Null /\ Beyond(Bps(a)))
    <2>1. Onchain(seen, a) = Truth(r.snap.truth, a)
      BY <1>4, ObservedIsTruth
    <2>2. Differs(r, a)
            <=> LET gap == Recorded(r.asset, r.taken, a) - Onchain(seen, a)
                    least == (200 * ToleranceBps + 1) * Onchain(seen, a)
                IN  Onchain(seen, a) > 0 /\ (2000000 * gap >= least \/ -2000000 * gap > least)
      BY <2>1 DEF Differs, Truth, Total
    <2>3. (Bps(a) # Null /\ Beyond(Bps(a)))
            <=> LET gap == Recorded(r.asset, r.taken, a) - Onchain(seen, a)
                    least == (200 * ToleranceBps + 1) * Onchain(seen, a)
                IN  Onchain(seen, a) > 0 /\ (2000000 * gap >= least \/ -2000000 * gap > least)
      BY <1>2, GapIsBeyond
    <2>4. QED
      BY <2>2, <2>3
  <1>5. ASSUME NEW a \in K, Open(a) PROVE a \in Asset /\ Matches(a, r.asset) /\ Differs(r, a)
    <2>1. a \in Asset
      BY <1>1, SeenIs
    <2>2. Matches(a, r.asset)
      BY <1>5 DEF ObservedVaults
    <2>3. Onchain(seen, a) > 0
      BY <1>2, <1>5 DEF DiffBps
    <2>4. QED
      BY <1>4, <1>5, <2>1, <2>2, <2>3
  <1>6. ASSUME NEW a \in Asset, Matches(a, r.asset), Differs(r, a) PROVE a \in K /\ Open(a)
    <2>1. Onchain(seen, a) > 0 /\ Bps(a) # Null /\ Beyond(Bps(a))
      BY <1>4, <1>6
    <2>2. \E v \in seen : v.asset = a
      BY <1>6, <2>1, ObservedIsTruth
    <2>3. a \in K
      BY <2>2 DEF RowAssets
    <2>4. QED
      BY <2>1, <2>2, <2>3
  <1> HIDE DEF Open, K
  <1>7. QED
    BY <1>3, <1>5, <1>6

-----------------------------------------------------------------------------
(* Where the observed side comes from.                                        *)

(* What was read so far is what the chains held, as long as they stand still. *)
Reading(fl) == Honest(fl) /\ (fl.truth # None => fl.truth = chain)

Told(r) ==
    /\ r.asset \in Asset \cup {Null} /\ r.taken \in Nat
    /\ r.snap \in ObservedSnapshot \cup {None} /\ (r.snap # None => Honest(r.snap))

HInv ==
    /\ \A f \in Caller : Reading(flight[f])
    /\ cache # None => Honest(cache)
    /\ \A c \in Caller : call[c].asset \in Asset \cup {Null}
    /\ \A r \in replies : Told(r)

LEMMA NothingRead ==
    ASSUME NEW s, s.vaults = {}, s.read = {}, s.truth # None => s.truth \in Chain
    PROVE  Honest(s)
  <1>1. VaultsOf(s.truth, {}) = {}
    BY DEF VaultsOf
  <1>2. QED
    BY <1>1, FS_EmptySet DEF Honest, Countable

LEMMA NoFlightReads == Reading(NoFlight) /\ NoFlight.truth = None
  <1>1. NoFlight.vaults = {} /\ NoFlight.read = {} /\ NoFlight.truth = None
    BY DEF NoFlight
  <1>2. QED
    BY <1>1, NothingRead DEF Reading

(* Of a flight only what it read and what it knows of the chains count.       *)
LEMMA SameHonesty ==
    ASSUME NEW s, NEW u, Honest(s), u.vaults = s.vaults, u.read = s.read, u.truth = s.truth
    PROVE  Honest(u)
  BY DEF Honest, Countable

LEMMA InitHonest == Init => HInv
  <1> SUFFICES ASSUME Init PROVE HInv
    OBVIOUS
  <1>1. \A f \in Caller : Reading(flight[f])
    BY NoFlightReads DEF Init
  <1>2. \A c \in Caller : call[c].asset \in Asset \cup {Null}
    BY DEF Init, NoCall
  <1>3. QED
    BY <1>1, <1>2 DEF Init, HInv

(* Steps that leave the client of monitoring and the chains alone.            *)
LEMMA CallHonest ==
    ASSUME IInv, HInv, NEW c \in Caller, NEW new, call' = [call EXCEPT ![c] = new], IsCall(new),
           new.asset \in Asset \cup {Null}, UNCHANGED <<chain, monitor>>,
           \A r \in replies' : Told(r)
    PROVE  HInv'
  <1>1. \A d \in Caller : call'[d].asset \in Asset \cup {Null}
    BY CallMoved DEF IInv, HInv
  <1>2. \A f \in Caller : Reading(flight[f])'
    BY DEF HInv, Reading, monitor
  <1>3. (cache # None => Honest(cache))'
    BY DEF HInv, monitor
  <1>4. QED
    BY <1>1, <1>2, <1>3 DEF HInv

LEMMA AskHonest ==
    ASSUME IInv, HInv, NEW c \in Caller, Ask(c)
    PROVE  HInv'
  <1>1. PICK a \in Query : call' = [call EXCEPT ![c] = [NoCall EXCEPT !.pc = "select", !.asset = a]]
    BY DEF Ask
  <1> DEFINE new == [NoCall EXCEPT !.pc = "select", !.asset = a]
  <1>2. IsCall(new) /\ new.asset = a /\ a \in Asset \cup {Null}
    BY NoCallIs, HoldingAssumption DEF NoCall
  <1>3. replies' = {} /\ UNCHANGED <<chain, monitor>>
    BY DEF Ask
  <1> HIDE DEF new
  <1>4. QED
    BY <1>1, <1>2, <1>3, CallHonest DEF new

LEMMA PageHonest ==
    ASSUME IInv, HInv, NEW c \in Caller, FirstPage(c) \/ NextPage(c)
    PROVE  HInv'
  <1>1. PICK from : IsCall(from) /\ TakePage(c, from) /\ from.asset \in Asset \cup {Null}
    <2>1. CASE FirstPage(c)
      <3>1. [NoCall EXCEPT !.listed = Ids(LedgerOf[Partner][now])].asset = Null
        BY DEF NoCall
      <3>2. QED
        BY <2>1, <3>1, NoCallIs DEF FirstPage
    <2>2. CASE NextPage(c)
      BY <2>2 DEF NextPage, IInv, Shapes, HInv
    <2>3. QED
      BY <2>1, <2>2
  <1>2. PICK x, y, z : call' = [call EXCEPT ![c] = [from EXCEPT !.pc = x, !.cursor = y, !.seen = z]]
    BY <1>1, Zenon DEF TakePage
  <1> DEFINE new == [from EXCEPT !.pc = x, !.cursor = y, !.seen = z]
  <1>3. IsCall(new) /\ new.asset = from.asset
    BY <1>1 DEF IsCall
  <1>4. replies' = {} /\ UNCHANGED <<chain, monitor>>
    BY <1>1 DEF TakePage
  <1> HIDE DEF new
  <1>5. QED
    BY <1>1, <1>2, <1>3, <1>4, CallHonest DEF new

LEMMA ObserveHonest ==
    ASSUME IInv, HInv, NEW c \in Caller, Observe(c)
    PROVE  HInv'
  <1>1. IsCall(call[c]) /\ call[c].asset \in Asset \cup {Null} /\ now \in Nat
    BY ClockAssumption DEF IInv, Shapes, HInv
  <1>2. CASE Unconfigured(c) \/ FromCache(c)
    <2>1. PICK snap : /\ AnswerNow(c, snap) /\ snap \in ObservedSnapshot \cup {None}
                      /\ snap # None => Honest(snap)
      BY <1>2 DEF Unconfigured, FromCache, IInv, Shapes, HInv
    <2>2. /\ call' = [call EXCEPT ![c] = NoCall] /\ UNCHANGED monitor
          /\ \A r \in replies' : r.asset = call[c].asset /\ r.taken = now /\ r.snap = snap
      BY <2>1 DEF AnswerNow, Reply
    <2>3. \A r \in replies' : Told(r)
      BY <1>1, <2>1, <2>2 DEF Told
    <2>4. UNCHANGED chain /\ NoCall.asset = Null
      BY DEF Observe, NoCall
    <2>5. QED
      BY <2>2, <2>3, <2>4, NoCallIs, CallHonest
  <1>3. CASE Join(c) \/ Fetch(c)
    <2>1. PICK f : Wait(c, f)
      BY <1>3 DEF Join, Fetch
    <2> DEFINE new == [call[c] EXCEPT !.pc = "waiting", !.on = f, !.taken = now]
    <2>2. call' = [call EXCEPT ![c] = new] /\ replies' = {} /\ UNCHANGED chain
      BY <2>1 DEF Wait, IInv, Shapes, IsCall, Observe
    <2>3. IsCall(new) /\ new.asset = call[c].asset
      BY <1>1 DEF IsCall
    <2> HIDE DEF new
    <2>4. CASE Join(c)
      BY <1>1, <2>2, <2>3, <2>4, CallHonest DEF Join
    <2>5. CASE Fetch(c)
      <3>1. flight' = [flight EXCEPT ![c] = NewFlight] /\ cache' = cache
        BY <2>5 DEF Fetch
      <3>2. NewFlight.vaults = {} /\ NewFlight.read = {} /\ NewFlight.truth = chain
        BY DEF NewFlight, NoFlight
      <3>3. Reading(NewFlight)
        BY <3>2, NothingRead DEF Reading, IInv, Shapes
      <3>4. \A g \in Caller : Reading(flight[g])'
        BY <2>2, <3>1, <3>3 DEF HInv, Reading, IInv, Shapes
      <3>5. \A d \in Caller : call'[d].asset \in Asset \cup {Null}
        BY <1>1, <2>2, <2>3, CallMoved DEF IInv, HInv
      <3>6. (cache # None => Honest(cache))'
        BY <3>1 DEF HInv
      <3>7. QED
        BY <2>2, <3>4, <3>5, <3>6 DEF HInv
    <2>6. QED
      BY <1>3, <2>4, <2>5
  <1>4. QED
    BY <1>2, <1>3 DEF Observe

LEMMA EndFlightHonest ==
    ASSUME IInv, HInv, NEW f \in Caller, NEW snap, EndFlight(f, snap),
           snap \in ObservedSnapshot \cup {None}, snap # None => Honest(snap),
           cache' \in {cache, snap}, UNCHANGED chain
    PROVE  HInv'
  <1>1. /\ flight' = [flight EXCEPT ![f] = NoFlight]
        /\ call' = [c \in Caller |-> IF c \in WaitingFor(f) THEN NoCall ELSE call[c]]
        /\ replies' = {Reply(c, call[c].taken, snap) : c \in WaitingFor(f)}
    BY DEF EndFlight
  <1>2. \A g \in Caller : Reading(flight[g])'
    BY <1>1, NoFlightReads DEF HInv, Reading, IInv, Shapes
  <1>3. (cache # None => Honest(cache))'
    BY DEF HInv
  <1>4. \A c \in Caller : call'[c].asset \in Asset \cup {Null}
    BY <1>1 DEF HInv, NoCall
  <1>5. ASSUME NEW r \in replies' PROVE Told(r)
    <2>1. PICK c \in WaitingFor(f) : r = Reply(c, call[c].taken, snap)
      BY <1>1
    <2>2. r.asset = call[c].asset /\ r.taken = call[c].taken /\ r.snap = snap
      BY <2>1 DEF Reply
    <2>3. c \in Caller /\ call[c].taken \in 0 .. now /\ now \in 0 .. MaxTime
      BY <2>1 DEF WaitingFor, IInv, Waits, Shapes
    <2>4. call[c].taken \in Nat
      BY <2>3, ClockAssumption
    <2>5. QED
      BY <2>2, <2>3, <2>4 DEF Told, HInv
  <1>6. QED
    BY <1>2, <1>3, <1>4, <1>5 DEF HInv

LEMMA AdvanceHonest ==
    ASSUME IInv, HInv, NEW f \in Caller, NEW fl \in FlightRecord, Reading(fl),
           Advance(f, fl), UNCHANGED chain
    PROVE  HInv'
  <1>1. CASE fl.todo = {}
    <2>1. cache' = Completed(fl) /\ EndFlight(f, Completed(fl))
      BY <1>1 DEF Advance
    <2>2. /\ Completed(fl).vaults = fl.vaults /\ Completed(fl).read = fl.read
          /\ Completed(fl).truth = fl.truth
      BY DEF Completed
    <2>3. Honest(Completed(fl))
      BY <2>2, SameHonesty DEF Reading
    <2>4. QED
      BY <2>1, <2>3, CompletedIs, EndFlightHonest DEF IInv
  <1>2. CASE fl.todo # {}
    <2> DEFINE new == [fl EXCEPT !.pc = "read", !.asked = now]
    <2>1. /\ flight' = [flight EXCEPT ![f] = new]
          /\ replies' = {} /\ UNCHANGED <<cache, inFlight, call>>
      BY <1>2 DEF Advance
    <2>2. new.vaults = fl.vaults /\ new.read = fl.read /\ new.truth = fl.truth
      BY DEF FlightRecord
    <2> HIDE DEF new
    <2>3. Reading(new)
      BY <2>2, SameHonesty DEF Reading
    <2>4. \A g \in Caller : Reading(flight[g])'
      BY <2>1, <2>3 DEF HInv, Reading, IInv, Shapes
    <2>5. QED
      BY <2>1, <2>4 DEF HInv
  <1>3. QED
    BY <1>1, <1>2

(* What one more network answers is what its chain holds.                     *)
LEMMA OneMoreRead ==
    ASSUME IInv, NEW fl \in FlightRecord, Reading(fl), NEW n \in Network,
           NEW new, new.vaults = fl.vaults \cup RowsRead(n), new.read = fl.read \cup {n},
           new.truth = fl.truth
    PROVE  Reading(new)
  <1>1. RowsRead(n) = VaultsOf(chain, {n})
    BY DEF RowsRead, VaultsOf, VaultRow
  <1>2. VaultsOf(chain, fl.read) \cup VaultsOf(chain, {n}) = VaultsOf(chain, fl.read \cup {n})
    BY DEF VaultsOf
  <1>3. IsFiniteSet(RowsRead(n))
    <2> DEFINE K == {h \in Holding : h[1] = n}
               row == [h \in K |-> VaultRow(chain, h)]
    <2>1. IsFiniteSet(K)
      BY HoldingAssumption, FS_Subset
    <2>2. RowsRead(n) = {row[h] : h \in K}
      BY DEF RowsRead, VaultRow
    <2> HIDE DEF K, row
    <2>3. QED
      BY <2>1, <2>2, ImageIsFinite
  <1>4. Countable(new)
    <2>1. RowsRead(n) \subseteq ObservedVault
      BY RowsReadIs DEF IInv
    <2>2. IsFiniteSet(fl.vaults) /\ fl.vaults \subseteq ObservedVault
      BY DEF Reading, Honest, Countable
    <2>3. IsFiniteSet(fl.vaults \cup RowsRead(n))
      BY <1>3, <2>2, FS_Union
    <2>4. QED
      BY <2>1, <2>2, <2>3 DEF Countable
  <1>5. QED
    BY <1>1, <1>2, <1>4 DEF Reading, Honest

LEMMA FlightHonest ==
    ASSUME IInv, HInv, NEW f \in Caller, FlightStep(f)
    PROVE  HInv'
  <1>1. flight[f] \in FlightRecord /\ Reading(flight[f])
    BY DEF IInv, Shapes, HInv
  <1>2. CASE Listed(f)
    <2>1. PICK ns \in SUBSET Network : Advance(f, [flight[f] EXCEPT !.networks = ns, !.todo = ns])
      BY <1>2 DEF Listed
    <2> DEFINE fl == [flight[f] EXCEPT !.networks = ns, !.todo = ns]
    <2>2. /\ fl \in FlightRecord
          /\ fl.vaults = flight[f].vaults /\ fl.read = flight[f].read /\ fl.truth = flight[f].truth
      BY <1>1 DEF FlightRecord
    <2>3. Advance(f, fl) /\ UNCHANGED chain
      BY <1>2, <2>1 DEF Listed
    <2> HIDE DEF fl
    <2>4. Reading(fl)
      BY <1>1, <2>2, SameHonesty DEF Reading
    <2>5. QED
      BY <2>2, <2>3, <2>4, AdvanceHonest
  <1>3. CASE ListFails(f)
    BY <1>3, EndFlightHonest DEF ListFails
  <1>4. ASSUME NEW n \in Network, NetworkRead(f, n) PROVE HInv'
    <2> DEFINE fl == [flight[f] EXCEPT !.todo = @ \ {n}, !.vaults = @ \cup RowsRead(n),
                                       !.read = @ \cup {n}]
    <2>1. fl \in FlightRecord
      BY <1>1, RowsReadIs DEF FlightRecord, IInv
    <2>2. /\ fl.vaults = flight[f].vaults \cup RowsRead(n) /\ fl.read = flight[f].read \cup {n}
          /\ fl.truth = flight[f].truth
      BY <1>1 DEF FlightRecord
    <2>3. Advance(f, fl) /\ UNCHANGED chain
      BY <1>4 DEF NetworkRead
    <2> HIDE DEF fl
    <2>4. Reading(fl)
      BY <1>1, <2>2, OneMoreRead
    <2>5. QED
      BY <2>1, <2>3, <2>4, AdvanceHonest
  <1>5. ASSUME NEW n \in Network, NetworkMissed(f, n) PROVE HInv'
    <2> DEFINE fl == [flight[f] EXCEPT !.todo = @ \ {n}]
    <2>1. /\ fl \in FlightRecord
          /\ fl.vaults = flight[f].vaults /\ fl.read = flight[f].read /\ fl.truth = flight[f].truth
      BY <1>1 DEF FlightRecord
    <2>2. Advance(f, fl) /\ UNCHANGED chain
      BY <1>5 DEF NetworkMissed
    <2> HIDE DEF fl
    <2>3. Reading(fl)
      BY <1>1, <2>1, SameHonesty DEF Reading
    <2>4. QED
      BY <2>1, <2>2, <2>3, AdvanceHonest
  <1>6. QED
    BY <1>2, <1>3, <1>4, <1>5 DEF FlightStep

(* Whatever moves on a chain, a fetch under way no longer claims to know it.  *)
LEMMA MoveHonest ==
    ASSUME IInv, HInv, MoveChain
    PROVE  HInv'
  <1>1. /\ replies' = {} /\ UNCHANGED <<cache, call>>
        /\ flight' = [f \in Caller |-> [flight[f] EXCEPT !.truth = None]]
    BY DEF MoveChain
  <1>2. ASSUME NEW f \in Caller PROVE Reading(flight[f])'
    <2>1. flight'[f].vaults = flight[f].vaults /\ flight'[f].truth = None
      BY <1>1 DEF FlightRecord, IInv, Shapes
    <2>2. QED
      BY <2>1 DEF HInv, Reading, Honest, Countable
  <1>3. QED
    BY <1>1, <1>2 DEF HInv

LEMMA NextHonest == IInv /\ HInv /\ [Next]_vars => HInv'
  <1> SUFFICES ASSUME IInv, HInv, [Next]_vars PROVE HInv'
    OBVIOUS
  <1>1. ASSUME NEW c \in Caller, Ask(c) \/ Observe(c) \/ FirstPage(c) \/ NextPage(c) PROVE HInv'
    BY <1>1, AskHonest, ObserveHonest, PageHonest
  <1>2. ASSUME NEW f \in Caller, FlightStep(f) PROVE HInv'
    BY <1>2, FlightHonest
  <1>3. CASE Tick
    BY <1>3 DEF Tick, HInv, Reading, monitor
  <1>4. CASE MoveChain
    BY <1>4, MoveHonest
  <1>5. CASE UNCHANGED vars
    BY <1>5 DEF vars, HInv, Reading
  <1>6. QED
    BY <1>1, <1>2, <1>3, <1>4, <1>5 DEF Next

(* A report's rows add up to its totals, and when every network was read      *)
(* while the chains stood still it says of every asset what the chains say:   *)
(* one differs when it does by more than the tolerance, and only then.        *)
THEOREM ReportsAreRight == Spec => []VerdictSound
  <1>1. ASSUME HInv, NEW r \in replies
        PROVE  /\ RowsAddUp(Report(r))
               /\ (r.snap # None /\ r.snap.truth # None /\ r.snap.read = Network) =>
                     (Report(r).status = "mismatch"
                        <=> \E a \in Asset : Matches(a, r.asset) /\ Differs(r, a))
    <2>1. /\ r.asset \in Asset \cup {Null} /\ r.taken \in Int
          /\ r.snap # None => Honest(r.snap)
      BY <1>1 DEF HInv, Told
    <2>2. CASE r.snap = None
      BY <2>1, <2>2, UnavailableRowsAddUp DEF Report
    <2>3. CASE r.snap # None
      <3>1. RowsAddUp(Report(r))
        BY <2>1, <2>3, ObservedRowsAddUp DEF Report, Honest
      <3>2. QED
        BY <2>1, <2>3, <3>1, VerdictIs
    <2>4. QED
      BY <2>2, <2>3
  <1>2. HInv => VerdictSound
    BY <1>1 DEF VerdictSound
  <1>3. QED
    BY <1>2, InitInv, InitHonest, NextInv, NextHonest, PTL DEF Spec

-----------------------------------------------------------------------------
(* The rows of the ledger.                                                    *)

Gap(p, t) == Value(p, t) - Settled(p, Events)

MovementRows(p) == {MovementRow(p, Events, e) : e \in Movements(p, Events)}

RowsOf(p, t) == MovementRows(p) \cup AccrualRows(p, Events, t)

LEMMA MovementsAre ==
    ASSUME NEW p \in Positions
    PROVE  /\ IsFiniteSet(Movements(p, Events)) /\ Movements(p, Events) \subseteq Events
           /\ \A e \in Movements(p, Events) :
                 /\ e.type \in {"deposit", "withdraw", "close"} /\ e.position = p.seq
                 /\ e.seq \in Nat /\ e.at \in Int /\ e.at <= p.updated /\ Signed(e) \in Int
           /\ Settled(p, Events) \in Int /\ Settled(p, Events) <= p.principal
  <1> DEFINE M == Movements(p, Events)
             v == [e \in M |-> Signed(e)]
  <1>1. M \subseteq Events
    BY DEF Movements
  <1>2. IsFiniteSet(M)
    BY <1>1, BookIs, FS_Subset
  <1>3. \A e \in M : Signed(e) \in Int
    BY <1>1, BookIs DEF Signed
  <1>4. Integral(v, M)
    BY <1>2, <1>3 DEF Integral
  <1>5. Settled(p, Events) = SumFunctionOnSet(v, M)
    BY DEF Settled, Total
  <1>6. \A e \in M : e.type \in {"deposit", "withdraw", "close"} /\ e.position = p.seq
    BY DEF Movements
  <1> HIDE DEF M, v
  <1>7. Settled(p, Events) \in Int
    BY <1>4, <1>5, SumIsInteger
  <1>8. \A e \in M : e.seq \in Nat /\ e.at \in Int
    BY <1>1, BookIs
  <1>9. (\A e \in M : e.at <= p.updated) /\ Settled(p, Events) <= p.principal
    BY SeedAssumption DEF M
  <1>10. QED
    BY <1>1, <1>2, <1>3, <1>6, <1>7, <1>8, <1>9 DEF M

(* Rounding keeps the order.                                                  *)
LEMMA RoundKeepsOrder ==
    ASSUME NEW m \in Int, NEW n \in Int, m <= n, NEW d \in Nat \ {0}
    PROVE  Round(m, d) <= Round(n, d)
  <1>1. Round(m, d) \in Int
    BY RoundReaches
  <1>2. 2 * m >= (2 * Round(m, d) - 1) * d
    BY <1>1, RoundReaches
  <1>3. (2 * Round(m, d) - 1) * d \in Int
    BY <1>1, Products
  <1>4. 2 * n >= (2 * Round(m, d) - 1) * d
    BY <1>2, <1>3
  <1>5. QED
    BY <1>1, <1>4, RoundReaches

(* What a position is worth never falls.                                      *)
LEMMA ValueGrows ==
    ASSUME NEW p \in Positions, NEW t \in Int, NEW u \in Int, t <= u
    PROVE  Value(p, t) <= Value(p, u)
  <1> DEFINE s == Elapsed(p, t)
             w == Elapsed(p, u)
  <1>1. s \in Nat /\ w \in Nat
    BY ElapsedIs
  <1>2. s <= w
    <2>1. CASE p.status = "closed"
      BY <1>1, <2>1 DEF Elapsed
    <2>2. CASE p.status # "closed"
      <3>1. s = Max({0, t - p.opened}) /\ w = Max({0, u - p.opened})
        BY <2>2 DEF Elapsed
      <3>2. t - p.opened \in Int /\ u - p.opened \in Int /\ t - p.opened <= u - p.opened
        BY BookIs
      <3> HIDE DEF s, w
      <3>3. QED
        BY <3>1, <3>2, AtLeastZero
    <2>3. QED
      BY <2>1, <2>2
  <1>3. p.principal \in Nat /\ p.apy \in Nat /\ Scale \in Nat \ {0}
    BY BookIs, ScaleAssumption
  <1> HIDE DEF s, w
  <1>4. p.apy * s \in Nat /\ p.apy * w \in Nat /\ p.apy * s <= p.apy * w
    BY <1>1, <1>2, <1>3, SMT
  <1> DEFINE a == Scale + p.apy * s
             b == Scale + p.apy * w
  <1>5. a \in Nat /\ b \in Nat /\ a <= b
    BY <1>3, <1>4
  <1> HIDE DEF a, b
  <1>6. p.principal * a \in Int /\ p.principal * b \in Int /\ p.principal * a <= p.principal * b
    BY <1>3, <1>5, SMT
  <1>7. QED
    BY <1>3, <1>6, RoundKeepsOrder DEF Value, BaselineValue, s, w, a, b

(* What a position has earned is never negative, and never shrinks.           *)
LEMMA GapIs ==
    ASSUME NEW p \in Positions, NEW t \in Int
    PROVE  /\ Gap(p, t) \in Nat
           /\ \A u \in Int : t <= u => Gap(p, t) <= Gap(p, u)
  <1>1. Value(p, t) \in Nat /\ Value(p, t) >= p.principal /\ p.principal \in Nat
    BY ValueIs, BookIs
  <1>2. Settled(p, Events) \in Int /\ Settled(p, Events) <= p.principal
    BY MovementsAre
  <1>3. ASSUME NEW u \in Int, t <= u PROVE Gap(p, t) <= Gap(p, u)
    <2>1. Value(p, t) <= Value(p, u) /\ Value(p, u) \in Nat
      BY <1>3, ValueIs, ValueGrows
    <2>2. QED
      BY <1>1, <1>2, <2>1 DEF Gap
  <1>4. QED
    BY <1>1, <1>2, <1>3 DEF Gap

LEMMA BalanceIs ==
    ASSUME NEW p \in Positions, NEW e \in Movements(p, Events)
    PROVE  LET U == {f \in Movements(p, Events) : Before(f, e) \/ f = e}
               v == [f \in U |-> Signed(f)]
           IN  /\ Integral(v, U) /\ U \subseteq Movements(p, Events)
               /\ MovementRow(p, Events, e).balance_after = SumFunctionOnSet(v, U)
               /\ MovementRow(p, Events, e).balance_after \in Int
  <1> DEFINE U == {f \in Movements(p, Events) : Before(f, e) \/ f = e}
             v == [f \in U |-> Signed(f)]
  <1>1. U \subseteq Movements(p, Events)
    OBVIOUS
  <1>2. Integral(v, U)
    BY <1>1, MovementsAre, FS_Subset DEF Integral
  <1>3. MovementRow(p, Events, e).balance_after = SumFunctionOnSet(v, U)
    BY DEF MovementRow, Total
  <1> HIDE DEF U, v
  <1>4. SumFunctionOnSet(v, U) \in Int
    BY <1>2, SumIsInteger
  <1>5. QED
    BY <1>1, <1>2, <1>3, <1>4 DEF U, v

LEMMA MovementRowIs ==
    ASSUME NEW p \in Positions, NEW e \in Movements(p, Events)
    PROVE  LET r == MovementRow(p, Events, e)
           IN  /\ r.kind = e.type /\ r.ref = e.seq /\ r.at = e.at /\ r.position = p.seq
               /\ r.amount = Signed(e) /\ r \in LedgerEntryDto
  <1> DEFINE r == MovementRow(p, Events, e)
  <1>1. /\ r.kind = e.type /\ r.ref = e.seq /\ r.at = e.at /\ r.position = p.seq
        /\ r.amount = Signed(e)
    BY DEF MovementRow
  <1>2. r.balance_after \in Int
    BY BalanceIs
  <1>3. /\ e.type \in {"deposit", "withdraw", "close"} /\ e.seq \in Nat /\ e.at \in Int
        /\ Signed(e) \in Int
    BY MovementsAre
  <1>4. p.seq \in OfPositions
    BY DEF OfPositions
  <1> DEFINE b == Total(Signed, {f \in Movements(p, Events) : Before(f, e) \/ f = e})
  <1>5. r = [kind |-> e.type, ref |-> e.seq, at |-> e.at, position |-> p.seq,
             amount |-> Signed(e), balance_after |-> b, settled |-> TRUE]
    BY DEF MovementRow
  <1>6. b \in Int
    BY <1>2, <1>5
  <1> HIDE DEF b, r
  <1>7. r \in LedgerEntryDto
    BY <1>3, <1>4, <1>5, <1>6 DEF LedgerEntryDto
  <1>8. QED
    BY <1>1, <1>7 DEF r

LEMMA AccrualRowIs ==
    ASSUME NEW p \in Positions, NEW t \in Int
    PROVE  /\ (AccrualRows(p, Events, t) = {}) <=> (Gap(p, t) = 0)
           /\ \A r, s \in AccrualRows(p, Events, t) : r = s
           /\ \A r \in AccrualRows(p, Events, t) :
                 /\ r.kind = "accrual" /\ r.ref = p.seq /\ r.at = p.updated /\ r.position = p.seq
                 /\ r.amount = Gap(p, t) /\ r.balance_after = Settled(p, Events) + Gap(p, t)
                 /\ r \in LedgerEntryDto
  <1> DEFINE row == [kind |-> "accrual", ref |-> p.seq, at |-> p.updated, position |-> p.seq,
                     amount |-> Gap(p, t), balance_after |-> Settled(p, Events) + Gap(p, t),
                     settled |-> p.status # "active"]
  <1>1. AccrualRows(p, Events, t) = IF Gap(p, t) = 0 THEN {} ELSE {row}
    BY DEF AccrualRows, Gap
  <1>2. /\ row.kind = "accrual" /\ row.ref = p.seq /\ row.at = p.updated /\ row.position = p.seq
        /\ row.amount = Gap(p, t) /\ row.balance_after = Settled(p, Events) + Gap(p, t)
    OBVIOUS
  <1>3. /\ p.seq \in Nat /\ p.updated \in Int /\ p.seq \in OfPositions
        /\ Gap(p, t) \in Int /\ Settled(p, Events) + Gap(p, t) \in Int
    BY BookIs, GapIs, MovementsAre DEF OfPositions
  <1>4. row \in LedgerEntryDto
    BY <1>3 DEF LedgerEntryDto
  <1> HIDE DEF row
  <1>5. QED
    BY <1>1, <1>2, <1>4


(* The rows of the positions in scope, unless some are asked for by type.     *)
LEMMA LedgerIs ==
    ASSUME NEW scope, NEW t
    PROVE  Ledger(Positions, Events, scope, Null, t)
             = UNION {RowsOf(p, t) : p \in InScope(Positions, scope)}
  BY DEF Ledger, RowsOf, MovementRows, Matches

LEMMA LedgerOfIs ==
    ASSUME NEW partner \in {Partner} \cup {p.partner : p \in Positions}, NEW t \in 0 .. MaxTime
    PROVE  LedgerOf[partner][t]
             = UNION {RowsOf(p, t) : p \in InScope(Positions, PartnerScope(partner))}
  <1>1. LedgerOf[partner][t] = Ledger(Positions, Events, PartnerScope(partner), Null, t)
    BY DEF LedgerOf
  <1>2. QED
    BY <1>1, LedgerIs

LEMMA RowIs ==
    ASSUME NEW p \in Positions, NEW t \in Int, NEW r \in RowsOf(p, t)
    PROVE  r.position = p.seq /\ r \in LedgerEntryDto /\ r.at <= p.updated
  <1>1. CASE r \in MovementRows(p)
    BY <1>1, MovementRowIs, MovementsAre DEF MovementRows
  <1>2. CASE r \in AccrualRows(p, Events, t)
    BY <1>2, AccrualRowIs, BookIs
  <1>3. QED
    BY <1>1, <1>2 DEF RowsOf

(* The rows of one position among those of its partner.                       *)
LEMMA OwnRows ==
    ASSUME NEW p \in Positions, NEW t \in 0 .. MaxTime
    PROVE  {r \in LedgerOf[p.partner][t] : r.position = p.seq} = RowsOf(p, t)
  <1> DEFINE scope == InScope(Positions, PartnerScope(p.partner))
  <1>1. p \in scope /\ scope \subseteq Positions /\ t \in Int
    BY ClockAssumption DEF InScope, PartnerScope, Matches
  <1>2. LedgerOf[p.partner][t] = UNION {RowsOf(q, t) : q \in scope}
    BY LedgerOfIs
  <1>3. \A q \in scope : \A r \in RowsOf(q, t) : r.position = p.seq => q = p
    BY <1>1, RowIs, BookIs
  <1>4. \A r \in RowsOf(p, t) : r.position = p.seq
    BY <1>1, RowIs
  <1> HIDE DEF scope
  <1>5. QED
    BY <1>1, <1>2, <1>3, <1>4

-----------------------------------------------------------------------------
(* The rows of a position add up to what it is worth.                         *)

(* Sums over movement rows are sums over movements.                           *)
LEMMA MovementRowsAddUp ==
    ASSUME NEW p \in Positions, NEW U \in SUBSET Movements(p, Events),
           NEW rows, rows = {MovementRow(p, Events, e) : e \in U}
    PROVE  /\ Integral([r \in rows |-> r.amount], rows)
           /\ SumFunctionOnSet([r \in rows |-> r.amount], rows)
                = SumFunctionOnSet([e \in U |-> Signed(e)], U)
  <1> DEFINE row == [e \in U |-> MovementRow(p, Events, e)]
             v == [e \in U |-> Signed(e)]
             f == [r \in rows |-> r.amount]
  <1>1. IsFiniteSet(U) /\ \A e \in U : v[e] \in Int
    BY MovementsAre, FS_Subset
  <1>2. \A e, g \in U : row[e] = row[g] => e = g
    BY MovementRowIs, MovementsAre, BookIs
  <1>3. rows = {row[e] : e \in U}
    OBVIOUS
  <1>4. \A e \in U : row[e] \in rows /\ f[row[e]] = v[e]
    BY MovementRowIs
  <1> HIDE DEF row, v, f
  <1>5. SumFunctionOnSet(f, rows) = SumFunctionOnSet(v, U)
    <2>1. SumFunctionOnSet(f, {row[e] : e \in U}) = SumFunctionOnSet(v, U)
      BY <1>1, <1>2, <1>4, SumOverRows
    <2>2. QED
      BY <1>3, <2>1
  <1>6. IsFiniteSet(rows)
    BY <1>1, <1>3, ImageIsFinite
  <1>7. \A r \in rows : f[r] \in Int
    BY <1>1, <1>3, <1>4
  <1>8. Integral(f, rows)
    BY <1>6, <1>7 DEF Integral
  <1>9. QED
    BY <1>5, <1>8 DEF v, f

(* Movement rows are listed as the movements follow each other, the accrual   *)
(* row after them all.                                                        *)
LEMMA RowOrder ==
    ASSUME NEW p \in Positions, NEW t \in Int
    PROVE  /\ \A e, f \in Movements(p, Events) :
                 ListedBefore(MovementRow(p, Events, f), MovementRow(p, Events, e)) <=> Before(f, e)
           /\ \A e \in Movements(p, Events), a \in AccrualRows(p, Events, t) :
                 /\ ListedBefore(MovementRow(p, Events, e), a)
                 /\ ~ ListedBefore(a, MovementRow(p, Events, e))
  <1>1. ASSUME NEW e \in Movements(p, Events), NEW f \in Movements(p, Events)
        PROVE  ListedBefore(MovementRow(p, Events, f), MovementRow(p, Events, e)) <=> Before(f, e)
    <2>1. /\ e.type # "accrual" /\ f.type # "accrual"
          /\ e.at \in Int /\ f.at \in Int /\ e.seq \in Nat /\ f.seq \in Nat
      BY MovementsAre
    <2>2. /\ MovementRow(p, Events, e).kind # "accrual" /\ MovementRow(p, Events, f).kind # "accrual"
          /\ MovementRow(p, Events, e).at = e.at /\ MovementRow(p, Events, f).at = f.at
          /\ MovementRow(p, Events, e).ref = e.seq /\ MovementRow(p, Events, f).ref = f.seq
      BY <2>1, MovementRowIs
    <2>3. QED
      BY <2>1, <2>2 DEF ListedBefore, Before
  <1>2. ASSUME NEW e \in Movements(p, Events), NEW a \in AccrualRows(p, Events, t)
        PROVE  /\ ListedBefore(MovementRow(p, Events, e), a)
               /\ ~ ListedBefore(a, MovementRow(p, Events, e))
    <2>1. /\ MovementRow(p, Events, e).kind # "accrual" /\ MovementRow(p, Events, e).at = e.at
          /\ e.at \in Int /\ p.updated \in Int /\ e.at <= p.updated
      BY MovementRowIs, MovementsAre, BookIs
    <2>2. a.kind = "accrual" /\ a.at = p.updated
      BY AccrualRowIs
    <2>3. QED
      BY <2>1, <2>2 DEF ListedBefore
  <1>3. QED
    BY <1>1, <1>2

UpTo(rows, r) == {s \in rows : s = r \/ ListedBefore(s, r)}

(* Up to a movement: what was moved until then.                               *)
LEMMA MovementsClose ==
    ASSUME NEW p \in Positions, NEW t \in Int, NEW e \in Movements(p, Events)
    PROVE  MovementRow(p, Events, e).balance_after
             = Total(LAMBDA s : s.amount, UpTo(RowsOf(p, t), MovementRow(p, Events, e)))
  <1> DEFINE U == {f \in Movements(p, Events) : Before(f, e) \/ f = e}
             rows == {MovementRow(p, Events, f) : f \in U}
             here == MovementRow(p, Events, e)
  <1>1. UpTo(RowsOf(p, t), here) = rows
    <2>1. \A f \in Movements(p, Events) : MovementRow(p, Events, f) = here <=> f = e
      BY MovementRowIs, MovementsAre, BookIs
    <2>2. \A f \in Movements(p, Events) :
             MovementRow(p, Events, f) \in UpTo(RowsOf(p, t), here) <=> f \in U
      BY <2>1, RowOrder DEF UpTo, RowsOf, MovementRows
    <2>3. \A a \in AccrualRows(p, Events, t) : a \notin UpTo(RowsOf(p, t), here)
      <3>1. here.kind # "accrual"
        BY MovementRowIs, MovementsAre
      <3>2. QED
        BY <3>1, RowOrder, AccrualRowIs DEF UpTo
    <2> HIDE DEF here
    <2>4. UpTo(RowsOf(p, t), here) \subseteq MovementRows(p)
      BY <2>3 DEF UpTo, RowsOf
    <2>5. QED
      BY <2>2, <2>4 DEF MovementRows
  <1>2. here.balance_after = SumFunctionOnSet([f \in U |-> Signed(f)], U)
    BY BalanceIs
  <1>3. U \in SUBSET Movements(p, Events)
    OBVIOUS
  <1>4. Total(LAMBDA s : s.amount, rows) = SumFunctionOnSet([r \in rows |-> r.amount], rows)
    BY DEF Total
  <1> HIDE DEF U, rows, here
  <1>5. SumFunctionOnSet([r \in rows |-> r.amount], rows)
          = SumFunctionOnSet([f \in U |-> Signed(f)], U)
    BY <1>3, MovementRowsAddUp DEF rows
  <1>6. QED
    BY <1>1, <1>2, <1>4, <1>5 DEF here

(* All of them: what was moved, and what was earned if anything was.          *)
LEMMA AllRowsAddUp ==
    ASSUME NEW p \in Positions, NEW t \in Int
    PROVE  /\ Total(LAMBDA s : s.amount, RowsOf(p, t)) = Value(p, t)
           /\ \A a \in AccrualRows(p, Events, t) :
                 a.balance_after = Value(p, t) /\ UpTo(RowsOf(p, t), a) = RowsOf(p, t)
  <1> DEFINE M == MovementRows(p)
             A == AccrualRows(p, Events, t)
             rows == RowsOf(p, t)
             f == [r \in rows |-> r.amount]
             m == [r \in M |-> r.amount]
  <1>1. Value(p, t) \in Int /\ Settled(p, Events) \in Int /\ Gap(p, t) \in Int
        /\ Gap(p, t) = Value(p, t) - Settled(p, Events)
    BY ValueIs, MovementsAre, GapIs DEF Gap
  <1>2. Integral(m, M) /\ SumFunctionOnSet(m, M) = Settled(p, Events)
    <2>1. Settled(p, Events)
            = SumFunctionOnSet([e \in Movements(p, Events) |-> Signed(e)], Movements(p, Events))
      BY DEF Settled, Total
    <2>2. M = {MovementRow(p, Events, e) : e \in Movements(p, Events)}
      BY DEF MovementRows
    <2>3. Movements(p, Events) \in SUBSET Movements(p, Events)
      OBVIOUS
    <2> HIDE DEF M
    <2>4. QED
      BY <2>1, <2>2, <2>3, MovementRowsAddUp
  <1>3. rows = M \cup A
    BY DEF RowsOf
  <1>4. \A r \in M : f[r] = m[r]
    BY <1>3
  <1>5. \A r \in A : f[r] = Gap(p, t) /\ r.kind = "accrual"
    BY <1>3, AccrualRowIs
  <1>6. \A r \in M : r.kind # "accrual"
    BY MovementRowIs, MovementsAre DEF MovementRows
  <1>7. Total(LAMBDA s : s.amount, rows) = SumFunctionOnSet(f, rows)
    BY DEF Total
  <1>8. \A a \in A : UpTo(rows, a) = rows /\ a.balance_after = Value(p, t)
    <2> SUFFICES ASSUME NEW a \in A PROVE UpTo(rows, a) = rows /\ a.balance_after = Value(p, t)
      OBVIOUS
    <2>1. \A r \in M : ListedBefore(r, a)
      BY RowOrder DEF MovementRows
    <2>2. \A r \in A : r = a
      BY AccrualRowIs
    <2>3. a.balance_after = Settled(p, Events) + Gap(p, t)
      BY AccrualRowIs
    <2> HIDE DEF M, A, rows
    <2>4. UpTo(rows, a) = rows
      BY <1>3, <2>1, <2>2 DEF UpTo
    <2>5. QED
      BY <1>1, <2>3, <2>4
  <1>9. A = {} \/ \E a \in A : A = {a}
    BY AccrualRowIs
  <1>10. (A = {}) <=> (Gap(p, t) = 0)
    BY AccrualRowIs
  <1> HIDE DEF M, A, rows, f, m
  <1>11. Integral(f, M) /\ SumFunctionOnSet(f, M) = Settled(p, Events)
    <2>1. SumFunctionOnSet(f, M) = SumFunctionOnSet(m, M)
      BY <1>2, <1>4, SumOfEqual
    <2>2. QED
      BY <1>2, <1>4, <2>1 DEF Integral
  <1>12. SumFunctionOnSet(f, rows) = Value(p, t)
    <2>1. CASE A = {}
      BY <1>1, <1>3, <1>10, <1>11, <2>1
    <2>2. ASSUME NEW a \in A, A = {a} PROVE SumFunctionOnSet(f, rows) = Value(p, t)
      <3>1. f[a] = Gap(p, t) /\ IsFiniteSet({a}) /\ \A r \in {a} : f[r] \in Int
        BY <1>1, <1>5, FS_Singleton
      <3>2. Integral(f, {a}) /\ SumFunctionOnSet(f, {a}) = Gap(p, t)
        BY <1>1, <3>1, SumOfOne DEF Integral
      <3>3. M \cap {a} = {}
        BY <1>5, <1>6
      <3>4. SumFunctionOnSet(f, M \cup {a}) = SumFunctionOnSet(f, M) + SumFunctionOnSet(f, {a})
        BY <1>11, <3>2, <3>3, SumOfUnion
      <3>5. QED
        BY <1>1, <1>3, <1>11, <2>2, <3>2, <3>4
    <2>3. QED
      BY <1>9, <2>1, <2>2
  <1>13. QED
    BY <1>7, <1>8, <1>12 DEF A, rows

(* Whatever the book, the ledger of a position runs without a gap and ends at *)
(* the value that is reported for it, at every time.                          *)
LEMMA EveryLedgerCloses ==
    ASSUME NEW t \in 0 .. MaxTime
    PROVE  ClosesAt(t)
  <1>1. t \in Int
    BY ClockAssumption
  <1>2. ASSUME NEW p \in Positions
        PROVE  LET rows == {r \in LedgerOf[p.partner][t] : r.position = p.seq}
                   To(r) == {s \in rows : s = r \/ ListedBefore(s, r)}
               IN  /\ \A r \in rows : r.balance_after = Total(LAMBDA s : s.amount, To(r))
                   /\ Total(LAMBDA r : r.amount, rows) = Value(p, t)
    <2> DEFINE rows == RowsOf(p, t)
    <2>1. {r \in LedgerOf[p.partner][t] : r.position = p.seq} = rows
      BY OwnRows
    <2>2. ASSUME NEW r \in rows
          PROVE  r.balance_after = Total(LAMBDA s : s.amount, UpTo(rows, r))
      <3>1. CASE r \in MovementRows(p)
        BY <1>1, <3>1, MovementsClose DEF MovementRows
      <3>2. CASE r \in AccrualRows(p, Events, t)
        <4>1. r.balance_after = Value(p, t) /\ UpTo(rows, r) = rows
          BY <1>1, <3>2, AllRowsAddUp
        <4>2. Total(LAMBDA s : s.amount, rows) = Value(p, t)
          BY <1>1, AllRowsAddUp
        <4> HIDE DEF rows
        <4>3. QED
          BY <4>1, <4>2
      <3>3. QED
        BY <3>1, <3>2 DEF RowsOf
    <2>3. Total(LAMBDA r : r.amount, rows) = Value(p, t)
      BY <1>1, AllRowsAddUp
    <2> HIDE DEF rows
    <2>4. QED
      BY <2>1, <2>2, <2>3 DEF UpTo
  <1>3. QED
    BY <1>2 DEF ClosesAt

(* The theorem, of every reachable state.                                     *)
THEOREM LedgersRunUp == Spec => []LedgerCloses
  <1>1. IInv => LedgerCloses
    BY EveryLedgerCloses DEF IInv, Shapes, LedgerCloses
  <1>2. QED
    BY <1>1, Inductive, PTL

-----------------------------------------------------------------------------
(* The whole list that a client pages through.                                *)

Book(t) == LedgerOf[Partner][t]

IsAccrual(r) == r.kind = "accrual"

LEMMA BookRow ==
    ASSUME NEW t \in 0 .. MaxTime, NEW r
    PROVE  /\ r \in Book(t) <=> \E p \in InScope(Positions, PartnerScope(Partner)) : r \in RowsOf(p, t)
           /\ r \in Book(t) => \E p \in Positions : r \in RowsOf(p, t)
  <1>1. Book(t) = UNION {RowsOf(p, t) : p \in InScope(Positions, PartnerScope(Partner))}
    BY LedgerOfIs DEF Book
  <1>2. InScope(Positions, PartnerScope(Partner)) \subseteq Positions
    BY DEF InScope
  <1>3. QED
    BY <1>1, <1>2

(* The row of an event or of a position.                                      *)
LEMMA RowFrom ==
    ASSUME NEW t \in 0 .. MaxTime, NEW r \in Book(t)
    PROVE  /\ r \in LedgerEntryDto
           /\ \/ /\ ~ IsAccrual(r)
                 /\ \E p \in Positions : \E e \in Movements(p, Events) :
                       r = MovementRow(p, Events, e)
              \/ /\ IsAccrual(r)
                 /\ \E p \in Positions : r \in AccrualRows(p, Events, t)
  <1>1. PICK p \in Positions : r \in RowsOf(p, t)
    BY BookRow
  <1>2. t \in Int
    BY ClockAssumption
  <1>3. r \in LedgerEntryDto
    BY <1>1, <1>2, RowIs
  <1>4. CASE r \in MovementRows(p)
    <2>1. PICK e \in Movements(p, Events) : r = MovementRow(p, Events, e)
      BY <1>4 DEF MovementRows
    <2>2. ~ IsAccrual(r)
      BY <2>1, MovementRowIs, MovementsAre DEF IsAccrual
    <2>3. QED
      BY <1>3, <2>1, <2>2
  <1>5. CASE r \in AccrualRows(p, Events, t)
    BY <1>2, <1>3, <1>5, AccrualRowIs DEF IsAccrual
  <1>6. QED
    BY <1>1, <1>4, <1>5 DEF RowsOf

(* Kind and reference say which row it is, now and later.                     *)
LEMMA SameRow ==
    ASSUME NEW t \in 0 .. MaxTime, NEW r \in Book(t), NEW u \in 0 .. MaxTime, NEW s \in Book(u),
           IsAccrual(r) <=> IsAccrual(s), r.ref = s.ref
    PROVE  r.kind = s.kind /\ r.at = s.at /\ (t = u => r = s)
  <1>1. t \in Int /\ u \in Int
    BY ClockAssumption
  <1>2. CASE ~ IsAccrual(r)
    <2>1. PICK p \in Positions : \E e \in Movements(p, Events) : r = MovementRow(p, Events, e)
      BY <1>2, RowFrom
    <2>2. PICK e \in Movements(p, Events) : r = MovementRow(p, Events, e)
      BY <2>1
    <2>3. PICK q \in Positions : \E f \in Movements(q, Events) : s = MovementRow(q, Events, f)
      BY <1>2, RowFrom
    <2>4. PICK f \in Movements(q, Events) : s = MovementRow(q, Events, f)
      BY <2>3
    <2>5. e = f
      <3>1. r.ref = e.seq /\ s.ref = f.seq
        BY <2>2, <2>4, MovementRowIs
      <3>2. e \in Events /\ f \in Events
        BY MovementsAre
      <3>3. QED
        BY <3>1, <3>2, BookIs
    <2>6. p = q
      BY <2>5, MovementsAre, BookIs
    <2>7. QED
      BY <2>2, <2>4, <2>5, <2>6
  <1>3. CASE IsAccrual(r)
    <2>1. PICK p \in Positions : r \in AccrualRows(p, Events, t)
      BY <1>3, RowFrom
    <2>2. PICK q \in Positions : s \in AccrualRows(q, Events, u)
      BY <1>3, RowFrom
    <2>3. p = q
      BY <1>1, <2>1, <2>2, AccrualRowIs, BookIs
    <2>4. QED
      BY <1>1, <2>1, <2>2, <2>3, AccrualRowIs
  <1>4. QED
    BY <1>2, <1>3

(* A row that is listed stays listed.                                         *)
LEMMA RowStays ==
    ASSUME NEW t \in 0 .. MaxTime, NEW u \in 0 .. MaxTime, t <= u, NEW r \in Book(t)
    PROVE  \E s \in Book(u) : s.kind = r.kind /\ s.ref = r.ref /\ s.at = r.at
  <1>1. t \in Int /\ u \in Int
    BY ClockAssumption
  <1>2. PICK p \in InScope(Positions, PartnerScope(Partner)) : r \in RowsOf(p, t)
    BY BookRow
  <1>3. p \in Positions
    BY <1>2 DEF InScope
  <1>4. CASE r \in MovementRows(p)
    <2>1. r \in Book(u)
      BY <1>2, <1>4, BookRow DEF RowsOf
    <2>2. QED
      BY <2>1
  <1>5. CASE r \in AccrualRows(p, Events, t)
    <2>1. Gap(p, t) # 0
      BY <1>1, <1>3, <1>5, AccrualRowIs
    <2>2. Gap(p, u) # 0
      BY <1>1, <1>3, <2>1, GapIs
    <2>3. PICK s : s \in AccrualRows(p, Events, u)
      BY <1>1, <1>3, <2>2, AccrualRowIs
    <2>4. s \in Book(u)
      BY <1>2, <2>3, BookRow DEF RowsOf
    <2>5. QED
      BY <1>1, <1>3, <1>5, <2>3, <2>4, AccrualRowIs
  <1>6. QED
    BY <1>2, <1>4, <1>5 DEF RowsOf

LEMMA BookIsFinite ==
    ASSUME NEW t \in 0 .. MaxTime
    PROVE  IsFiniteSet(Book(t))
  <1> DEFINE g == [e \in Events |-> CHOOSE r : \E p \in Positions :
                      e \in Movements(p, Events) /\ r = MovementRow(p, Events, e)]
             h == [p \in Positions |-> CHOOSE r : r \in AccrualRows(p, Events, t)]
             G == {g[e] : e \in Events}
             H == {h[p] : p \in Positions}
  <1>1. t \in Int
    BY ClockAssumption
  <1>2. ASSUME NEW r \in Book(t) PROVE r \in G \cup H
    <2>1. CASE ~ IsAccrual(r)
      <3>1. PICK p \in Positions : \E e \in Movements(p, Events) : r = MovementRow(p, Events, e)
        BY <2>1, RowFrom
      <3>2. PICK e \in Movements(p, Events) : r = MovementRow(p, Events, e)
        BY <3>1
      <3>3. \A q \in Positions : e \in Movements(q, Events) => q = p
        BY MovementsAre, BookIs
      <3>4. e \in Events /\ g[e] = r
        BY <3>2, <3>3, MovementsAre
      <3>5. QED
        BY <3>4
    <2>2. CASE IsAccrual(r)
      <3>1. PICK p \in Positions : r \in AccrualRows(p, Events, t)
        BY <2>2, RowFrom
      <3>2. h[p] = r
        BY <1>1, <3>1, AccrualRowIs
      <3>3. QED
        BY <3>2
    <2>3. QED
      BY <2>1, <2>2
  <1> HIDE DEF g, h
  <1>3. IsFiniteSet(G) /\ IsFiniteSet(H)
    BY BookIs, ImageIsFinite
  <1>4. IsFiniteSet(G \cup H)
    BY <1>3, FS_Union
  <1>5. QED
    BY <1>2, <1>4, FS_Subset

-----------------------------------------------------------------------------
(* The order of the list, and what an offset means.                           *)

LEMMA Order ==
    /\ \A r \in LedgerEntryDto : ~ ListedBefore(r, r)
    /\ \A r, s, x \in LedgerEntryDto :
          ListedBefore(r, s) /\ ListedBefore(s, x) => ListedBefore(r, x)
    /\ \A r, s \in LedgerEntryDto :
          \/ ListedBefore(r, s) \/ ListedBefore(s, r)
          \/ (IsAccrual(r) <=> IsAccrual(s)) /\ r.ref = s.ref
  <1>1. \A r \in LedgerEntryDto : r.at \in Int /\ r.ref \in Nat
    BY DEF LedgerEntryDto
  <1>2. QED
    BY <1>1 DEF ListedBefore, IsAccrual

(* The place of a row depends on its kind, its time and its reference.        *)
LEMMA SamePlace ==
    ASSUME NEW r, NEW s, r.kind = s.kind, r.at = s.at, r.ref = s.ref,
           NEW x, NEW y, x.kind = y.kind, x.at = y.at, x.ref = y.ref
    PROVE  ListedBefore(x, r) => ListedBefore(y, s)
  BY DEF ListedBefore

Ahead(t, r) == {s \in Book(t) : ListedBefore(s, r)}

LEMMA OffsetIs ==
    ASSUME NEW t \in 0 .. MaxTime, NEW r \in Book(t)
    PROVE  /\ Offset(r, Book(t)) = Cardinality(Ahead(t, r)) /\ IsFiniteSet(Ahead(t, r))
           /\ Offset(r, Book(t)) \in Nat /\ Cardinality(Book(t)) \in Nat
           /\ Offset(r, Book(t)) < Cardinality(Book(t))
  <1>1. IsFiniteSet(Book(t)) /\ IsFiniteSet(Ahead(t, r)) /\ Ahead(t, r) \in SUBSET Book(t)
    BY BookIsFinite, FS_Subset DEF Ahead
  <1>2. r \notin Ahead(t, r)
    BY RowFrom, Order DEF Ahead
  <1>3. Cardinality(Ahead(t, r)) <= Cardinality(Book(t))
        /\ Cardinality(Ahead(t, r)) # Cardinality(Book(t))
    BY <1>1, <1>2, FS_Subset
  <1>4. Cardinality(Ahead(t, r)) \in Nat /\ Cardinality(Book(t)) \in Nat
    BY <1>1, FS_CardinalityType
  <1>5. Offset(r, Book(t)) = Cardinality(Ahead(t, r))
    BY DEF Offset, Ahead
  <1>6. QED
    BY <1>1, <1>3, <1>4, <1>5

(* No two rows have the same offset.                                          *)
LEMMA OffsetsDiffer ==
    ASSUME NEW t \in 0 .. MaxTime, NEW r \in Book(t), NEW s \in Book(t), r # s
    PROVE  Offset(r, Book(t)) # Offset(s, Book(t))
  <1>1. ASSUME NEW x \in Book(t), NEW y \in Book(t), ListedBefore(x, y)
        PROVE  Offset(x, Book(t)) # Offset(y, Book(t))
    <2>1. \A z \in Book(t) : z \in LedgerEntryDto
      BY RowFrom
    <2>2. Ahead(t, x) \in SUBSET Ahead(t, y) /\ x \in Ahead(t, y) /\ x \notin Ahead(t, x)
      BY <1>1, <2>1, Order DEF Ahead
    <2>3. Ahead(t, x) # Ahead(t, y) /\ IsFiniteSet(Ahead(t, y))
      BY <2>2, OffsetIs
    <2>4. Cardinality(Ahead(t, x)) # Cardinality(Ahead(t, y))
      BY <2>2, <2>3, FS_Subset
    <2>5. QED
      BY <2>4, OffsetIs
  <1>2. ListedBefore(r, s) \/ ListedBefore(s, r)
    <2>1. r \in LedgerEntryDto /\ s \in LedgerEntryDto
      BY RowFrom
    <2>2. ~ ((IsAccrual(r) <=> IsAccrual(s)) /\ r.ref = s.ref)
      BY SameRow
    <2>3. QED
      BY <2>1, <2>2, Order
  <1>3. QED
    BY <1>1, <1>2

(* A page is never longer than was asked for, and has every row whose offset  *)
(* is one of its own.                                                         *)
LEMMA PageIs ==
    ASSUME NEW t \in 0 .. MaxTime, NEW cursor \in Nat
    PROVE  /\ Cardinality(Page(Book(t), cursor, PageLimit)) \in 0 .. PageLimit
           /\ \A r \in Book(t) :
                 /\ Offset(r, Book(t)) >= cursor
                 /\ Offset(r, Book(t)) < cursor + Cardinality(Page(Book(t), cursor, PageLimit))
                 => r \in Page(Book(t), cursor, PageLimit)
  <1> DEFINE rows == Page(Book(t), cursor, PageLimit)
             f == [r \in rows |-> Offset(r, Book(t))]
             T == cursor .. (cursor + PageLimit - 1)
  <1>1. PageLimit \in Nat \ {0}
    BY ClockAssumption
  <1>2. \A r \in rows : /\ r \in Book(t) /\ Offset(r, Book(t)) \in Nat
                        /\ Offset(r, Book(t)) >= cursor /\ Offset(r, Book(t)) < cursor + PageLimit
    BY OffsetIs DEF Page
  <1>3. f \in Injection(rows, T)
    <2>1. f \in [rows -> T]
      BY <1>1, <1>2
    <2>2. \A r, s \in rows : f[r] = f[s] => r = s
      BY <1>2, OffsetsDiffer
    <2>3. QED
      BY <2>1, <2>2 DEF Injection, IsInjective
  <1>4. IsFiniteSet(T) /\ Cardinality(T) = PageLimit
    BY <1>1, FS_Interval
  <1> HIDE DEF rows, f, T
  <1>5. IsFiniteSet(rows) /\ Cardinality(rows) <= PageLimit
    BY <1>3, <1>4, FS_Injection
  <1>6. Cardinality(rows) \in 0 .. PageLimit
    BY <1>1, <1>5, FS_CardinalityType
  <1>7. ASSUME NEW r \in Book(t), Offset(r, Book(t)) >= cursor,
               Offset(r, Book(t)) < cursor + Cardinality(rows)
        PROVE  r \in rows
    <2>1. Offset(r, Book(t)) \in Nat
      BY OffsetIs
    <2>2. Offset(r, Book(t)) < cursor + PageLimit
      BY <1>1, <1>6, <1>7, <2>1
    <2>3. QED
      BY <1>7, <2>2 DEF Page, rows
  <1>8. QED
    BY <1>6, <1>7 DEF rows

(* As time goes on rows only move away from the beginning.                    *)
LEMMA OffsetGrows ==
    ASSUME NEW t \in 0 .. MaxTime, NEW u \in 0 .. MaxTime, t <= u,
           NEW r \in Book(t), NEW s \in Book(u), r.kind = s.kind, r.ref = s.ref
    PROVE  Offset(r, Book(t)) <= Offset(s, Book(u))
  <1> DEFINE S == Ahead(t, r)
             T == Ahead(u, s)
             Later(x, y) == y \in Book(u) /\ y.kind = x.kind /\ y.ref = x.ref /\ y.at = x.at
             f == [x \in S |-> CHOOSE y : Later(x, y)]
  <1>1. r.at = s.at
    BY SameRow DEF IsAccrual
  <1>2. ASSUME NEW x \in S PROVE Later(x, f[x])
    BY RowStays DEF Ahead
  <1>3. ASSUME NEW x \in S PROVE f[x] \in T
    <2>1. ListedBefore(x, r)
      BY DEF Ahead
    <2>2. f[x] \in Book(u) /\ f[x].kind = x.kind /\ f[x].ref = x.ref /\ f[x].at = x.at
      BY <1>2
    <2> HIDE DEF f, S
    <2>3. QED
      BY <1>1, <2>1, <2>2, SamePlace DEF Ahead
  <1>4. ASSUME NEW x \in S, NEW y \in S, f[x] = f[y] PROVE x = y
    <2>1. x.kind = y.kind /\ x.ref = y.ref
      BY <1>2, <1>4
    <2>2. x \in Book(t) /\ y \in Book(t)
      BY DEF Ahead
    <2>3. QED
      BY <2>1, <2>2, SameRow DEF IsAccrual
  <1>5. f \in Injection(S, T)
    <2>1. f \in [S -> T]
      BY <1>3
    <2>2. QED
      BY <1>4, <2>1 DEF Injection, IsInjective
  <1>6. IsFiniteSet(T)
    BY OffsetIs
  <1> HIDE DEF f
  <1>7. Cardinality(S) <= Cardinality(T)
    BY <1>5, <1>6, FS_Injection
  <1>8. QED
    BY <1>7, OffsetIs

-----------------------------------------------------------------------------
(* Following the cursors.                                                     *)

Id(r) == <<r.kind, r.ref>>

(* Of what was listed at first, nothing that is ahead of the cursor is missed. *)
ReadSoFar(s) ==
    /\ s.listed \subseteq Ids(Book(now))
    /\ \A r \in Book(now) : Id(r) \in s.listed /\ Offset(r, Book(now)) < s.cursor => Id(r) \in s.seen

Paging(s) ==
    /\ s.pc = "paging" => ReadSoFar(s)
    /\ s.pc = "paged" => s.listed \subseteq s.seen

PInv ==
    /\ mode \in {"none", "listed", "fixed"} /\ moves \in 0 .. MaxMoves
    /\ call \in [Caller -> CallRecord] /\ \A c \in Caller : Paging(call[c])

LEMMA RowIds ==
    ASSUME NEW t \in 0 .. MaxTime
    PROVE  Ids(Book(t)) \subseteq RowId
  <1> SUFFICES ASSUME NEW r \in Book(t) PROVE Id(r) \in RowId
    BY DEF Ids, Id
  <1>1. r.kind \in {"deposit", "withdraw", "close", "accrual"}
    BY RowFrom DEF LedgerEntryDto
  <1>2. r.ref \in {p.seq : p \in Positions} \cup {e.seq : e \in Events}
    <2>1. CASE ~ IsAccrual(r)
      <3>1. PICK p \in Positions : \E e \in Movements(p, Events) : r = MovementRow(p, Events, e)
        BY <2>1, RowFrom
      <3>2. PICK e \in Movements(p, Events) : r = MovementRow(p, Events, e)
        BY <3>1
      <3>3. QED
        BY <3>2, MovementRowIs, MovementsAre
    <2>2. CASE IsAccrual(r)
      <3>1. PICK p \in Positions : r \in AccrualRows(p, Events, t)
        BY <2>2, RowFrom
      <3>2. t \in Int
        BY ClockAssumption
      <3>3. QED
        BY <3>1, <3>2, AccrualRowIs
    <2>3. QED
      BY <2>1, <2>2
  <1>3. QED
    BY <1>1, <1>2 DEF RowId, Id

LEMMA FreshCall ==
    /\ NoCall \in CallRecord
    /\ \A a \in Query : /\ [NoCall EXCEPT !.pc = "select", !.asset = a] \in CallRecord
                        /\ [NoCall EXCEPT !.pc = "select", !.asset = a].pc = "select"
    /\ \A l \in SUBSET RowId : /\ [NoCall EXCEPT !.listed = l] \in CallRecord
                               /\ [NoCall EXCEPT !.listed = l].listed = l
                               /\ [NoCall EXCEPT !.listed = l].cursor = 0
    /\ Paging(NoCall)
  <1>1. 0 \in 0 .. MaxTime /\ Query \subseteq Asset \cup {Null}
    BY ClockAssumption, HoldingAssumption
  <1>2. QED
    BY <1>1 DEF NoCall, CallRecord, Paging

(* One page more.  When it is the last, every row has an offset that was      *)
(* passed, so that all of what was listed has been seen.                      *)
LEMMA OnePageMore ==
    ASSUME IInv, NEW c \in Caller, call \in [Caller -> CallRecord],
           NEW from \in CallRecord, ReadSoFar(from), TakePage(c, from)
    PROVE  /\ call' \in [Caller -> CallRecord] /\ Paging(call[c])'
           /\ \A d \in Caller \ {c} : call'[d] = call[d]
  <1> DEFINE rows == Book(now)
             page == Page(rows, from.cursor, PageLimit)
             reach == from.cursor + Cardinality(page)
             next == NextCursor(rows, from.cursor, PageLimit)
             new == [from EXCEPT !.pc = IF next = Null THEN "paged" ELSE "paging",
                                 !.cursor = IF next = Null THEN 0 ELSE next,
                                 !.seen = @ \cup Ids(page)]
  <1>1. now \in 0 .. MaxTime /\ now' = now
    BY DEF IInv, Shapes, TakePage
  <1>2. call' = [call EXCEPT ![c] = new]
    BY DEF TakePage, Book
  <1>3. from.cursor \in Nat /\ from.listed \subseteq RowId /\ from.seen \subseteq RowId
    BY DEF CallRecord
  <1>4. /\ reach \in Nat
        /\ \A r \in rows : Offset(r, rows) \in Nat /\ Offset(r, rows) < Cardinality(rows)
        /\ Cardinality(rows) \in Nat
    <2>1. Cardinality(page) \in 0 .. PageLimit /\ PageLimit \in Nat
      BY <1>1, <1>3, PageIs, ClockAssumption
    <2>2. Cardinality(rows) \in Nat
      BY <1>1, BookIsFinite, FS_CardinalityType
    <2> HIDE DEF page, rows
    <2>3. \A r \in rows : Offset(r, rows) \in Nat /\ Offset(r, rows) < Cardinality(rows)
      BY <1>1, OffsetIs DEF rows
    <2>4. QED
      BY <1>3, <2>1, <2>2, <2>3
  <1>5. ASSUME NEW r \in rows, Id(r) \in from.listed, Offset(r, rows) < reach
        PROVE  Id(r) \in from.seen \cup Ids(page)
    <2>1. CASE Offset(r, rows) < from.cursor
      BY <1>5, <2>1 DEF ReadSoFar
    <2>2. CASE ~ Offset(r, rows) < from.cursor
      <3>1. Offset(r, rows) >= from.cursor
        BY <1>3, <1>4, <2>2
      <3>2. r \in page
        BY <1>1, <1>3, <1>5, <3>1, PageIs
      <3>3. QED
        BY <3>2 DEF Ids, Id
    <2>3. QED
      BY <2>1, <2>2
  <1>6. Ids(page) \subseteq RowId
    <2>1. page \subseteq rows
      BY DEF Page
    <2>2. Ids(page) \subseteq Ids(rows)
      BY <2>1 DEF Ids
    <2>3. QED
      BY <1>1, <2>2, RowIds
  <1>7. next = IF reach < Cardinality(rows) THEN reach ELSE Null
    BY DEF NextCursor
  <1>8. from.listed \subseteq Ids(rows)
    BY DEF ReadSoFar
  <1> HIDE DEF next, reach, page, rows
  <1>9. /\ new.listed = from.listed /\ new.seen = from.seen \cup Ids(page)
        /\ new.pc = IF next = Null THEN "paged" ELSE "paging"
        /\ new.cursor = IF next = Null THEN 0 ELSE next
    BY DEF CallRecord
  <1>10. next = Null \/ next \in Nat
    BY <1>4, <1>7
  <1>11. new \in CallRecord
    BY <1>3, <1>6, <1>10 DEF CallRecord
  <1> HIDE DEF new
  <1>12. call' \in [Caller -> CallRecord] /\ call'[c] = new
         /\ \A d \in Caller \ {c} : call'[d] = call[d]
    BY <1>2, <1>11
  <1>13. CASE reach < Cardinality(rows)
    <2>1. next = reach /\ new.pc = "paging" /\ new.cursor = reach
      BY <1>4, <1>7, <1>9, <1>13, NullAssumption
    <2>2. ReadSoFar(new)
      BY <1>5, <1>8, <1>9, <2>1 DEF ReadSoFar, rows
    <2>3. Paging(new)
      BY <2>1, <2>2 DEF Paging
    <2>4. QED
      BY <1>1, <1>12, <2>3 DEF Paging, ReadSoFar
  <1>14. CASE ~ reach < Cardinality(rows)
    <2>1. new.pc = "paged"
      BY <1>7, <1>9, <1>14
    <2>2. \A r \in rows : Offset(r, rows) < reach
      BY <1>4, <1>14
    <2>3. \A r \in rows : Id(r) \in from.listed => Id(r) \in new.seen
      BY <1>5, <1>9, <2>2
    <2>4. new.listed \subseteq new.seen
      BY <1>8, <1>9, <2>3 DEF Ids, Id
    <2>5. QED
      BY <1>12, <2>1, <2>4 DEF Paging
  <1>15. QED
    BY <1>12, <1>13, <1>14

LEMMA InitPaging == Init => PInv
  <1> SUFFICES ASSUME Init PROVE PInv
    OBVIOUS
  <1>1. 0 \in 0 .. MaxMoves
    BY ClockAssumption
  <1>2. QED
    BY <1>1, FreshCall DEF Init, PInv

(* Steps in which every call stays or is as good as before.                   *)
LEMMA CallsKeep ==
    ASSUME PInv, UNCHANGED <<now, mode>>, moves' \in 0 .. MaxMoves,
           call' \in [Caller -> CallRecord],
           \A c \in Caller : call'[c] = call[c] \/ Paging(call[c])'
    PROVE  PInv'
  <1>1. ASSUME NEW c \in Caller, call'[c] = call[c] PROVE Paging(call[c])'
    BY <1>1 DEF PInv, Paging, ReadSoFar
  <1>2. QED
    BY <1>1 DEF PInv

LEMMA ObservePaging ==
    ASSUME IInv, PInv, NEW c \in Caller, Observe(c)
    PROVE  PInv'
  <1>1. UNCHANGED <<now, mode, moves>> /\ call \in [Caller -> CallRecord] /\ now \in 0 .. MaxTime
    BY DEF Observe, PInv, IInv, Shapes
  <1>2. PICK new \in CallRecord : call' = [call EXCEPT ![c] = new] /\ new.pc \in {"idle", "waiting"}
    <2>1. CASE Unconfigured(c) \/ FromCache(c)
      <3>1. NoCall.pc \in {"idle", "waiting"}
        BY DEF NoCall
      <3>2. QED
        BY <2>1, <3>1, FreshCall DEF Unconfigured, FromCache, AnswerNow
    <2>2. CASE Join(c) \/ Fetch(c)
      <3>1. PICK f \in Caller : Wait(c, f)
        BY <2>2 DEF Join, Fetch, IInv, Shapes
      <3> DEFINE new == [call[c] EXCEPT !.pc = "waiting", !.on = f, !.taken = now]
      <3>2. new \in CallRecord /\ new.pc = "waiting"
        BY <1>1 DEF CallRecord
      <3>3. call' = [call EXCEPT ![c] = new]
        BY <1>1, <3>1 DEF Wait, CallRecord
      <3>4. QED
        BY <3>2, <3>3
    <2>3. QED
      BY <2>1, <2>2 DEF Observe
  <1>3. call' \in [Caller -> CallRecord] /\ call'[c] = new
        /\ \A d \in Caller \ {c} : call'[d] = call[d]
    BY <1>1, <1>2
  <1>4. Paging(call[c])'
    BY <1>2, <1>3 DEF Paging
  <1>5. moves' \in 0 .. MaxMoves
    BY <1>1 DEF PInv
  <1>6. QED
    BY <1>1, <1>3, <1>4, <1>5, CallsKeep

LEMMA AskPaging ==
    ASSUME PInv, NEW c \in Caller, Ask(c)
    PROVE  PInv'
  <1>1. PICK a \in Query : call' = [call EXCEPT ![c] = [NoCall EXCEPT !.pc = "select", !.asset = a]]
    BY DEF Ask
  <1>2. call' \in [Caller -> CallRecord] /\ call'[c].pc = "select"
        /\ \A d \in Caller \ {c} : call'[d] = call[d]
    BY <1>1, FreshCall DEF PInv
  <1>3. Paging(call[c])'
    BY <1>2 DEF Paging
  <1>4. UNCHANGED <<now, mode>> /\ moves' \in 0 .. MaxMoves
    BY DEF Ask, PInv
  <1>5. QED
    BY <1>2, <1>3, <1>4, CallsKeep

LEMMA PagePaging ==
    ASSUME IInv, PInv, NEW c \in Caller, FirstPage(c) \/ NextPage(c)
    PROVE  PInv'
  <1>1. PICK from \in CallRecord : ReadSoFar(from) /\ TakePage(c, from)
    <2>1. CASE FirstPage(c)
      <3> DEFINE from == [NoCall EXCEPT !.listed = Ids(Book(now))]
      <3>1. now \in 0 .. MaxTime
        BY DEF IInv, Shapes
      <3>2. from \in CallRecord /\ from.listed = Ids(Book(now)) /\ from.cursor = 0
        BY <3>1, RowIds, FreshCall
      <3>3. TakePage(c, from)
        BY <2>1 DEF FirstPage, Book
      <3> HIDE DEF from
      <3>4. \A r \in Book(now) : ~ Offset(r, Book(now)) < 0
        BY <3>1, OffsetIs
      <3>5. ReadSoFar(from)
        BY <3>2, <3>4 DEF ReadSoFar
      <3>6. QED
        BY <3>2, <3>3, <3>5
    <2>2. CASE NextPage(c)
      BY <2>2 DEF NextPage, PInv, Paging
    <2>3. QED
      BY <2>1, <2>2
  <1>2. /\ call' \in [Caller -> CallRecord] /\ Paging(call[c])'
        /\ \A d \in Caller \ {c} : call'[d] = call[d]
    BY <1>1, OnePageMore DEF PInv
  <1>3. UNCHANGED <<now, mode>> /\ moves' \in 0 .. MaxMoves
    BY <1>1 DEF TakePage, PInv
  <1>4. QED
    BY <1>2, <1>3, CallsKeep

LEMMA FlightPaging ==
    ASSUME PInv, NEW f \in Caller, FlightStep(f)
    PROVE  PInv'
  <1>1. UNCHANGED <<now, mode, moves>>
    BY DEF FlightStep, Listed, ListFails, NetworkRead, NetworkMissed
  <1>2. \/ call' = call
        \/ call' = [c \in Caller |-> IF c \in WaitingFor(f) THEN NoCall ELSE call[c]]
    <2>1. ASSUME NEW snap, EndFlight(f, snap)
          PROVE  call' = [c \in Caller |-> IF c \in WaitingFor(f) THEN NoCall ELSE call[c]]
      BY <2>1 DEF EndFlight
    <2>2. ASSUME NEW fl, Advance(f, fl)
          PROVE  \/ call' = call
                 \/ call' = [c \in Caller |-> IF c \in WaitingFor(f) THEN NoCall ELSE call[c]]
      BY <2>1, <2>2 DEF Advance
    <2>3. QED
      BY <2>1, <2>2 DEF FlightStep, Listed, ListFails, NetworkRead, NetworkMissed
  <1>3. call' \in [Caller -> CallRecord]
    BY <1>2, FreshCall DEF PInv
  <1>4. \A c \in Caller : call'[c] = call[c] \/ call'[c] = NoCall
    BY <1>2
  <1>5. NoCall.pc = "idle"
    BY DEF NoCall
  <1>6. \A c \in Caller : call'[c] = call[c] \/ Paging(call[c])'
    BY <1>4, <1>5 DEF Paging
  <1>7. moves' \in 0 .. MaxMoves
    BY <1>1 DEF PInv
  <1>8. QED
    BY <1>1, <1>3, <1>6, <1>7, CallsKeep

(* Accrual rows that appear shift the rest away from the beginning, which is  *)
(* behind what the cursor has passed.                                         *)
LEMMA TickPaging ==
    ASSUME IInv, PInv, Tick
    PROVE  PInv'
  <1>1. /\ now \in 0 .. MaxTime /\ now' \in 0 .. MaxTime /\ now <= now'
        /\ UNCHANGED <<mode, call, moves>>
    BY ClockAssumption DEF Tick, IInv, Shapes
  <1>2. ASSUME NEW s \in CallRecord, ReadSoFar(s) PROVE ReadSoFar(s)'
    <2>1. s.listed \subseteq Ids(Book(now'))
      <3>1. \A r \in Book(now) : \E u \in Book(now') : Id(u) = Id(r)
        BY <1>1, RowStays DEF Id
      <3>2. QED
        BY <1>2, <3>1 DEF ReadSoFar, Ids, Id
    <2>2. ASSUME NEW u \in Book(now'), Id(u) \in s.listed, Offset(u, Book(now')) < s.cursor
          PROVE  Id(u) \in s.seen
      <3>1. PICK r \in Book(now) : r.kind = u.kind /\ r.ref = u.ref
        BY <1>2, <2>2 DEF ReadSoFar, Ids, Id
      <3>2. Offset(r, Book(now)) <= Offset(u, Book(now'))
        BY <1>1, <3>1, OffsetGrows
      <3>3. Offset(r, Book(now)) \in Nat /\ Offset(u, Book(now')) \in Nat /\ s.cursor \in Nat
        BY <1>1, OffsetIs DEF CallRecord
      <3>4. Offset(r, Book(now)) < s.cursor
        BY <2>2, <3>2, <3>3
      <3>5. QED
        BY <1>2, <2>2, <3>1, <3>4 DEF ReadSoFar, Id
    <2>3. QED
      BY <2>1, <2>2 DEF ReadSoFar
  <1>3. \A c \in Caller : Paging(call[c])'
    BY <1>1, <1>2 DEF PInv, Paging
  <1>4. QED
    BY <1>1, <1>3 DEF PInv

LEMMA NextPaging == IInv /\ PInv /\ [Next]_vars => PInv'
  <1> SUFFICES ASSUME IInv, PInv, [Next]_vars PROVE PInv'
    OBVIOUS
  <1>1. ASSUME NEW c \in Caller, Ask(c) \/ Observe(c) \/ FirstPage(c) \/ NextPage(c) PROVE PInv'
    BY <1>1, AskPaging, ObservePaging, PagePaging
  <1>2. ASSUME NEW f \in Caller, FlightStep(f) PROVE PInv'
    BY <1>2, FlightPaging
  <1>3. CASE Tick
    BY <1>3, TickPaging
  <1>4. CASE MoveChain
    <2>1. moves' \in 0 .. MaxMoves
      BY <1>4, ClockAssumption DEF MoveChain, PInv
    <2>2. UNCHANGED <<now, mode, call>>
      BY <1>4 DEF MoveChain
    <2>3. QED
      BY <2>1, <2>2, CallsKeep DEF PInv
  <1>5. CASE UNCHANGED vars
    BY <1>5, CallsKeep DEF vars, PInv
  <1>6. QED
    BY <1>1, <1>2, <1>3, <1>4, <1>5 DEF Next

(* A client that follows the cursors to the end has seen every row that was   *)
(* listed when it began, whatever accrual rows appeared in between, for any   *)
(* book, any number of clients and any length of a page.                      *)
THEOREM CursorsMissNothing == Spec => []PagesLoseNothing
  <1>1. PInv => PagesLoseNothing
    BY DEF PInv, Paging, PagesLoseNothing
  <1>2. QED
    BY <1>1, InitInv, InitPaging, NextInv, NextPaging, PTL DEF Spec

-----------------------------------------------------------------------------
(* The shapes of the reports.                                                 *)

LEMMA DiffBpsIs ==
    ASSUME NEW recorded \in Nat, NEW onchain \in Nat
    PROVE  DiffBps(recorded, onchain) \in Optional(Int)
  <1>1. CASE onchain > 0
    <2>1. (recorded - onchain) * 1000000 \in Int /\ onchain \in Nat \ {0}
      BY <1>1
    <2>2. Round((recorded - onchain) * 1000000, onchain) \in Int
      BY <2>1, RoundReaches
    <2>3. QED
      BY <1>1, <2>2 DEF DiffBps, Optional
  <1>2. CASE ~ (onchain > 0)
    BY <1>2 DEF DiffBps, Optional
  <1>3. QED
    BY <1>1, <1>2

LEMMA RecordedIs ==
    ASSUME NEW asset, NEW t \in Int
    PROVE  RecordedTotal(asset, t) \in Nat /\ \A a : Recorded(asset, t, a) \in Nat
  BY ReportedIs, RecordedAddsUp

LEMMA OnchainIs ==
    ASSUME NEW asset, NEW snap, Countable(snap)
    PROVE  /\ Total(LAMBDA v : v.tvl, ObservedVaults(asset, snap)) \in Nat
           /\ \A a : Onchain(ObservedVaults(asset, snap), a) \in Nat
  <1>1. {v.asset : v \in ObservedVaults(asset, snap)} \subseteq RowAssets(asset, snap)
    BY DEF RowAssets
  <1>2. QED
    BY <1>1, SeenIs, OnchainAddsUp

LEMMA ReportRowsAre ==
    ASSUME NEW asset, NEW t \in Int
    PROVE  /\ \A snap : Countable(snap) =>
                 Breakdown(asset, t, snap) \subseteq ReconciliationRowDto
           /\ UnavailableReport(asset, t).breakdown \subseteq ReconciliationRowDto
  <1>1. ASSUME NEW snap, Countable(snap), NEW a \in RowAssets(asset, snap)
        PROVE  ReportRow(asset, t, snap, a) \in ReconciliationRowDto
    <2> DEFINE recorded == Recorded(asset, t, a)
               onchain == Onchain(ObservedVaults(asset, snap), a)
               bps == DiffBps(recorded, onchain)
    <2>1. recorded \in Nat /\ onchain \in Nat /\ a \in Asset
      BY <1>1, RecordedIs, OnchainIs, SeenIs
    <2>2. bps \in Optional(Int)
      BY <2>1, DiffBpsIs
    <2>3. ReportRow(asset, t, snap, a)
            = [asset |-> a, recorded |-> recorded, onchain |-> onchain,
               discrepancy |-> recorded - onchain, diff_bps |-> bps,
               observed |-> \E v \in ObservedVaults(asset, snap) : v.asset = a]
      BY DEF ReportRow
    <2> HIDE DEF recorded, onchain, bps
    <2>4. recorded - onchain \in Int
      BY <2>1
    <2>5. QED
      BY <2>1, <2>2, <2>3, <2>4 DEF ReconciliationRowDto, Optional
  <1>2. ASSUME NEW a \in ReportedAssets(asset)
        PROVE  UnavailableRow(asset, t, a) \in ReconciliationRowDto
    <2>1. a \in Asset /\ Recorded(asset, t, a) \in Nat
      BY ReportedIs, RecordedIs
    <2>2. QED
      BY <2>1 DEF UnavailableRow, ReconciliationRowDto, Optional
  <1>3. ASSUME NEW snap, Countable(snap)
        PROVE  Breakdown(asset, t, snap) \subseteq ReconciliationRowDto
    <2>1. Breakdown(asset, t, snap)
            = {ReportRow(asset, t, snap, a) : a \in RowAssets(asset, snap)}
      BY RowsAre
    <2>2. \A a \in RowAssets(asset, snap) :
             ReportRow(asset, t, snap, a) \in ReconciliationRowDto
      BY <1>1, <1>3
    <2>3. QED
      BY <2>1, <2>2
  <1>4. UnavailableReport(asset, t).breakdown \subseteq ReconciliationRowDto
    <2>1. UnavailableReport(asset, t).breakdown
            = {UnavailableRow(asset, t, a) : a \in ReportedAssets(asset)}
      BY RowsAre
    <2>2. QED
      BY <1>2, <2>1
  <1>5. QED
    BY <1>3, <1>4

(* Whatever a caller is told, it has the shape that is documented.            *)
LEMMA ReportIs ==
    ASSUME NEW r, Told(r)
    PROVE  Report(r) \in ReconciliationReportDto
  <1> DEFINE asset == r.asset
             t == r.taken
  <1>1. asset \in Optional(Asset) /\ t \in Int
    BY DEF Told, Optional
  <1>2. RecordedTotal(asset, t) \in Nat
    BY <1>1, RecordedIs
  <1>3. Cardinality(Reported(asset)) \in Nat
    BY ReportedIs, FS_CardinalityType
  <1>4. CASE r.snap = None
    <2> DEFINE rows == UnavailableReport(asset, t).breakdown
               total == RecordedTotal(asset, t)
               count == Cardinality(Reported(asset))
    <2>1. rows \subseteq ReconciliationRowDto
      BY <1>1, ReportRowsAre
    <2>2. UnavailableReport(asset, t) =
             [scope |-> Null, status |-> "unavailable", recorded_total |-> total,
              onchain_total |-> Null, discrepancy |-> Null, diff_bps |-> Null,
              positions |-> count, observed_at |-> Null, observed_networks |-> {},
              breakdown |-> rows, open_discrepancies |-> {}]
      BY DEF UnavailableReport
    <2> HIDE DEF rows, total, count
    <2>3. UnavailableReport(asset, t) \in ReconciliationReportDto
      BY <1>2, <1>3, <2>1, <2>2 DEF ReconciliationReportDto, Optional, total, count
    <2>4. QED
      BY <1>4, <2>3 DEF Report
  <1>5. CASE r.snap # None
    <2> DEFINE snap == r.snap
               rows == Breakdown(asset, t, snap)
               open == OpenDiscrepancies(asset, t, snap)
               recorded == RecordedTotal(asset, t)
               onchain == Total(LAMBDA v : v.tvl, ObservedVaults(asset, snap))
               bps == DiffBps(recorded, onchain)
               count == Cardinality(Reported(asset))
               status == IF open = {} THEN "reconciled" ELSE "mismatch"
    <2>1. Countable(snap)
      BY <1>5 DEF Told, Honest
    <2>2. snap.at \in Optional(Nat) /\ snap.networks \subseteq Network
      <3>1. snap \in ObservedSnapshot
        BY <1>5 DEF Told
      <3>2. 0 .. MaxTime \subseteq Nat
        BY ClockAssumption
      <3>3. QED
        BY <3>1, <3>2 DEF ObservedSnapshot, Optional
    <2>3. rows \subseteq ReconciliationRowDto /\ open \subseteq rows
      BY <1>1, <2>1, ReportRowsAre DEF OpenDiscrepancies
    <2>4. onchain \in Nat
      BY <2>1, OnchainIs
    <2>5. bps \in Optional(Int)
      BY <1>2, <2>4, DiffBpsIs
    <2>6. recorded - onchain \in Optional(Int)
      BY <1>2, <2>4 DEF Optional
    <2>7. ObservedReport(asset, t, snap) =
             [scope |-> asset, status |-> status, recorded_total |-> recorded,
              onchain_total |-> onchain, discrepancy |-> recorded - onchain,
              diff_bps |-> bps, positions |-> count, observed_at |-> snap.at,
              observed_networks |-> snap.networks, breakdown |-> rows,
              open_discrepancies |-> open]
      BY DEF ObservedReport
    <2>8. /\ status \in {"reconciled", "mismatch", "unavailable"}
          /\ recorded \in Nat /\ onchain \in Optional(Nat) /\ count \in Nat
      BY <1>2, <1>3, <2>4 DEF Optional
    <2> HIDE DEF asset, snap, rows, open, recorded, onchain, bps, count, status
    <2>9. ObservedReport(asset, t, snap) \in ReconciliationReportDto
      BY <1>1, <2>2, <2>3, <2>5, <2>6, <2>7, <2>8 DEF ReconciliationReportDto
    <2>10. QED
      BY <1>5, <2>9 DEF Report, asset, snap
  <1>6. QED
    BY <1>4, <1>5

-----------------------------------------------------------------------------
(* Sums over groups of positions.                                             *)

LEMMA SomePositions ==
    ASSUME NEW S \in SUBSET Positions, NEW t \in Int
    PROVE  /\ IsFiniteSet(S) /\ Cardinality(S) \in Nat
           /\ \A p \in S : Value(p, t) \in Nat /\ Earned(p, t) \in Nat /\ p.principal \in Nat
           /\ Integral([p \in S |-> Value(p, t)], S)
           /\ Integral([p \in S |-> Earned(p, t)], S)
           /\ Integral([p \in S |-> p.principal], S)
           /\ Total(LAMBDA p : Value(p, t), S) \in Nat
           /\ Total(LAMBDA p : Earned(p, t), S) \in Nat
           /\ Total(LAMBDA p : p.principal, S) \in Nat
  <1> DEFINE v == [p \in S |-> Value(p, t)]
             w == [p \in S |-> Earned(p, t)]
             x == [p \in S |-> p.principal]
  <1>1. IsFiniteSet(S) /\ Cardinality(S) \in Nat
    BY BookIs, FS_Subset, FS_CardinalityType
  <1>2. ASSUME NEW p \in S
        PROVE  Value(p, t) \in Nat /\ Earned(p, t) \in Nat /\ p.principal \in Nat
    <2>1. Value(p, t) \in Nat /\ Value(p, t) >= p.principal /\ p.principal \in Nat
      BY ValueIs, BookIs
    <2>2. QED
      BY <2>1 DEF Earned
  <1>3. \A p \in S : v[p] \in Nat /\ w[p] \in Nat /\ x[p] \in Nat
    BY <1>2
  <1>4. /\ Total(LAMBDA p : Value(p, t), S) = SumFunctionOnSet(v, S)
        /\ Total(LAMBDA p : Earned(p, t), S) = SumFunctionOnSet(w, S)
        /\ Total(LAMBDA p : p.principal, S) = SumFunctionOnSet(x, S)
    BY DEF Total
  <1>5. Integral(v, S) /\ Integral(w, S) /\ Integral(x, S)
    BY <1>1, <1>3 DEF Integral
  <1>6. /\ SumFunctionOnSet(v, S) \in Nat /\ SumFunctionOnSet(w, S) \in Nat
        /\ SumFunctionOnSet(x, S) \in Nat
    <2> HIDE DEF v, w, x
    <2>1. QED
      BY <1>1, <1>3, SumIsNatural
  <1>7. QED
    BY <1>1, <1>2, <1>4, <1>5, <1>6

LEMMA ScopeIs ==
    ASSUME NEW scope
    PROVE  /\ InScope(Positions, scope) \subseteq Positions
           /\ Active(InScope(Positions, scope)) \subseteq Positions
  BY DEF InScope, Active

-----------------------------------------------------------------------------
(* Balances.                                                                  *)

OfKey(mine, k) == {p \in mine : p.user = k[1] /\ p.asset = k[2]}

BalanceOf(mine, t, k) ==
    [user |-> k[1], asset |-> k[2], positions |-> Cardinality(OfKey(mine, k)),
     principal |-> Total(LAMBDA p : p.principal, OfKey(mine, k)),
     value     |-> Total(LAMBDA p : Value(p, t), OfKey(mine, k)),
     accrued   |-> Total(LAMBDA p : Earned(p, t), OfKey(mine, k))]

KeyOf(p) == <<p.user, p.asset>>
KeysOf(mine) == {KeyOf(p) : p \in mine}

LEMMA BalancesAre ==
    ASSUME NEW scope, NEW t
    PROVE  LET mine == Active(InScope(Positions, scope))
           IN  Balances(Positions, scope, t) = {BalanceOf(mine, t, k) : k \in KeysOf(mine)}
  BY DEF Balances, BalanceOf, OfKey, KeysOf, KeyOf

(* The columns of the balances add up to what the active positions do.        *)
LEMMA BalancesAddUp ==
    ASSUME NEW scope, NEW t \in Int
    PROVE  LET mine == Active(InScope(Positions, scope))
               balances == Balances(Positions, scope, t)
           IN  /\ Total(LAMBDA b : b.value, balances) = Total(LAMBDA p : Value(p, t), mine)
               /\ Total(LAMBDA b : b.accrued, balances) = Total(LAMBDA p : Earned(p, t), mine)
               /\ Total(LAMBDA b : b.principal, balances) = Total(LAMBDA p : p.principal, mine)
  <1> DEFINE mine == Active(InScope(Positions, scope))
             balances == Balances(Positions, scope, t)
             K == KeysOf(mine)
             g == [p \in mine |-> KeyOf(p)]
             row == [k \in K |-> BalanceOf(mine, t, k)]
  <1>1. mine \subseteq Positions
    BY ScopeIs
  <1>2. IsFiniteSet(K) /\ \A p \in mine : g[p] \in K
    <2>1. K = {g[p] : p \in mine}
      BY DEF KeysOf
    <2>2. IsFiniteSet(mine)
      BY <1>1, SomePositions, BookIs, FS_Subset
    <2> HIDE DEF g
    <2>3. IsFiniteSet(K)
      BY <2>1, <2>2, ImageIsFinite
    <2>4. QED
      BY <2>1, <2>3
  <1>3. balances = {row[k] : k \in K}
    BY BalancesAre
  <1>4. \A k, l \in K : row[k] = row[l] => k = l
    <2>1. \A k \in K : k = <<k[1], k[2]>> /\ row[k].user = k[1] /\ row[k].asset = k[2]
      BY DEF KeysOf, KeyOf, BalanceOf
    <2>2. QED
      BY <2>1
  <1>5. ASSUME NEW k \in K PROVE OfKey(mine, k) = Group(mine, g, k)
    BY <1>5 DEF OfKey, Group, KeysOf, KeyOf
  <1>6. ASSUME NEW v, Integral(v, mine), NEW f,
               \A k \in K : f[row[k]] = SumIn(v, OfKey(mine, k))
        PROVE  SumFunctionOnSet(f, balances) = SumFunctionOnSet(v, mine)
    <2>1. ASSUME NEW k \in K
          PROVE  f[row[k]] = SumFunctionOnSet(v, Group(mine, g, k))
      <3>1. OfKey(mine, k) \in SUBSET mine
        BY DEF OfKey
      <3> HIDE DEF mine, g, row
      <3>2. SumIn(v, OfKey(mine, k)) = SumFunctionOnSet(v, OfKey(mine, k))
        BY <1>6, <3>1, SumInIs
      <3>3. QED
        BY <1>5, <1>6, <3>2
    <2>2. Integral(v, mine)
      BY <1>6
    <2> HIDE DEF mine, K, g, row, balances
    <2>3. SumFunctionOnSet(f, {row[k] : k \in K}) = SumFunctionOnSet(v, mine)
      BY <1>2, <1>4, <2>1, <2>2, SumOfGroups
    <2>4. QED
      BY <1>3, <2>3
  <1> DEFINE x == [p \in mine |-> p.principal]
             v == [p \in mine |-> Value(p, t)]
             w == [p \in mine |-> Earned(p, t)]
             i == [b \in balances |-> b.principal]
             j == [b \in balances |-> b.value]
             h == [b \in balances |-> b.accrued]
  <1>7. Integral(x, mine) /\ Integral(v, mine) /\ Integral(w, mine)
    BY <1>1, SomePositions
  <1>8. ASSUME NEW k \in K
        PROVE  /\ i[row[k]] = SumIn(x, OfKey(mine, k))
               /\ j[row[k]] = SumIn(v, OfKey(mine, k))
               /\ h[row[k]] = SumIn(w, OfKey(mine, k))
    <2> DEFINE of == OfKey(mine, k)
    <2>1. row[k] \in balances /\ of \subseteq mine
      BY <1>3 DEF OfKey
    <2>2. /\ i[row[k]] = Total(LAMBDA p : p.principal, of)
          /\ j[row[k]] = Total(LAMBDA p : Value(p, t), of)
          /\ h[row[k]] = Total(LAMBDA p : Earned(p, t), of)
      BY <2>1 DEF BalanceOf
    <2>3. /\ [p \in of |-> p.principal] = [p \in of |-> x[p]]
          /\ [p \in of |-> Value(p, t)] = [p \in of |-> v[p]]
          /\ [p \in of |-> Earned(p, t)] = [p \in of |-> w[p]]
      BY <2>1
    <2>4. QED
      BY <2>2, <2>3 DEF Total, SumIn
  <1>9. /\ SumFunctionOnSet(i, balances) = SumFunctionOnSet(x, mine)
        /\ SumFunctionOnSet(j, balances) = SumFunctionOnSet(v, mine)
        /\ SumFunctionOnSet(h, balances) = SumFunctionOnSet(w, mine)
    <2> HIDE DEF mine, K, g, row, balances, x, v, w, i, j, h
    <2>1. SumFunctionOnSet(i, balances) = SumFunctionOnSet(x, mine)
      BY <1>6, <1>7, <1>8
    <2>2. SumFunctionOnSet(j, balances) = SumFunctionOnSet(v, mine)
      BY <1>6, <1>7, <1>8
    <2>3. SumFunctionOnSet(h, balances) = SumFunctionOnSet(w, mine)
      BY <1>6, <1>7, <1>8
    <2>4. QED
      BY <2>1, <2>2, <2>3
  <1>10. QED
    BY <1>9 DEF Total

LEMMA BalancesShaped ==
    ASSUME NEW scope, NEW t \in Int
    PROVE  Balances(Positions, scope, t) \subseteq BalanceDto
  <1> DEFINE mine == Active(InScope(Positions, scope))
  <1>1. ASSUME NEW k \in KeysOf(mine) PROVE BalanceOf(mine, t, k) \in BalanceDto
    <2> DEFINE of == OfKey(mine, k)
               count == Cardinality(of)
               x == Total(LAMBDA p : p.principal, of)
               y == Total(LAMBDA p : Value(p, t), of)
               z == Total(LAMBDA p : Earned(p, t), of)
    <2>1. PICK p \in mine : k = <<p.user, p.asset>>
      BY <1>1 DEF KeysOf, KeyOf
    <2>2. p \in Positions /\ p \in of /\ of \in SUBSET Positions
      BY <2>1, ScopeIs DEF OfKey
    <2>3. /\ IsFiniteSet(of) /\ count \in Nat /\ x \in Nat /\ y \in Nat /\ z \in Nat
      BY <2>2, SomePositions
    <2>4. count # 0
      BY <2>2, <2>3, FS_EmptySet
    <2>5. k[1] \in Users /\ k[2] \in Asset
      BY <2>1, <2>2, BookIs DEF Users
    <2>6. BalanceOf(mine, t, k)
            = [user |-> k[1], asset |-> k[2], positions |-> count, principal |-> x,
               value |-> y, accrued |-> z]
      BY DEF BalanceOf
    <2> HIDE DEF count, x, y, z, mine
    <2>7. QED
      BY <2>3, <2>4, <2>5, <2>6 DEF BalanceDto
  <1>2. Balances(Positions, scope, t) = {BalanceOf(mine, t, k) : k \in KeysOf(mine)}
    BY BalancesAre
  <1> HIDE DEF mine
  <1>3. QED
    BY <1>1, <1>2

-----------------------------------------------------------------------------
(* Rows by asset, and the snapshot of a day.                                  *)

ByAsset(S, a) == {p \in S : p.asset = a}
AssetsOf(S) == {p.asset : p \in S}

LEMMA AssetsAre ==
    ASSUME NEW S \in SUBSET Positions
    PROVE  IsFiniteSet(AssetsOf(S)) /\ AssetsOf(S) \subseteq Asset
  <1> DEFINE f == [p \in S |-> p.asset]
  <1>1. IsFiniteSet(S) /\ AssetsOf(S) \subseteq Asset
    BY BookIs, FS_Subset DEF AssetsOf
  <1>2. AssetsOf(S) = {f[p] : p \in S}
    BY DEF AssetsOf
  <1> HIDE DEF f
  <1>3. QED
    BY <1>1, <1>2, ImageIsFinite

LEMMA AssetRowsAddUp ==
    ASSUME NEW S \in SUBSET Positions, NEW v, Integral(v, S),
           NEW row, \A a, b \in AssetsOf(S) : row[a] = row[b] => a = b,
           NEW f, \A a \in AssetsOf(S) :
                     f[row[a]] = SumIn(v, ByAsset(S, a))
    PROVE  SumFunctionOnSet(f, {row[a] : a \in AssetsOf(S)}) = SumFunctionOnSet(v, S)
  <1> DEFINE K == AssetsOf(S)
             g == [p \in S |-> p.asset]
  <1>1. IsFiniteSet(K) /\ \A p \in S : g[p] \in K
    BY AssetsAre DEF AssetsOf
  <1>2. ASSUME NEW a \in K
        PROVE  f[row[a]] = SumFunctionOnSet(v, Group(S, g, a))
    <2>1. ByAsset(S, a) \in SUBSET S /\ ByAsset(S, a) = Group(S, g, a)
      BY DEF ByAsset, Group
    <2> HIDE DEF g
    <2>2. SumIn(v, ByAsset(S, a)) = SumFunctionOnSet(v, ByAsset(S, a))
      BY <2>1, SumInIs
    <2>3. QED
      BY <2>1, <2>2
  <1>3. \A a, b \in K : row[a] = row[b] => a = b
    OBVIOUS
  <1> HIDE DEF K, g
  <1>4. SumFunctionOnSet(f, {row[a] : a \in K}) = SumFunctionOnSet(v, S)
    BY <1>1, <1>2, <1>3, SumOfGroups
  <1>5. QED
    BY <1>4 DEF K

(* What positions are worth is what was put in and what was earned.           *)
LEMMA WorthIs ==
    ASSUME NEW S \in SUBSET Positions, NEW t \in Int
    PROVE  Total(LAMBDA p : Value(p, t), S)
             = Total(LAMBDA p : p.principal, S) + Total(LAMBDA p : Earned(p, t), S)
  <1> DEFINE v == [p \in S |-> Value(p, t)]
             w == [p \in S |-> Earned(p, t)]
             x == [p \in S |-> p.principal]
  <1>1. Integral(v, S) /\ Integral(w, S) /\ Integral(x, S)
    BY SomePositions
  <1>2. \A p \in S : v[p] = x[p] + w[p]
    <2>1. \A p \in S : Value(p, t) \in Nat /\ p.principal \in Nat
      BY SomePositions
    <2>2. QED
      BY <2>1 DEF Earned
  <1>3. SumFunctionOnSet(v, S) = SumFunctionOnSet(x, S) + SumFunctionOnSet(w, S)
    <2> HIDE DEF v, w, x
    <2>1. QED
      BY <1>1, <1>2, SumOfSums
  <1>4. QED
    BY <1>3 DEF Total

OpenOn(scope, t) == {p \in InScope(Positions, scope) : p.principal > 0 /\ p.opened <= t}

DayRow(open, t, a) ==
    LET of == ByAsset(open, a)
        principal == Total(LAMBDA p : p.principal, of)
        value == Total(LAMBDA p : Value(p, t), of)
    IN  [asset |-> a, principal |-> principal, value |-> value, accrued |-> value - principal]

LEMMA DayIs ==
    ASSUME NEW scope, NEW t
    PROVE  LET open == OpenOn(scope, t)
               byAsset == {DayRow(open, t, a) : a \in AssetsOf(open)}
           IN  DaySnapshot(Positions, scope, t)
                 = [principal |-> Total(LAMBDA r : r.principal, byAsset),
                    value     |-> Total(LAMBDA r : r.value, byAsset),
                    accrued   |-> Total(LAMBDA r : r.accrued, byAsset),
                    positions |-> Cardinality(open), users |-> Cardinality({p.user : p \in open}),
                    by_asset  |-> byAsset]
  <1> DEFINE open == OpenOn(scope, t)
             byAsset == {DayRow(open, t, a) : a \in AssetsOf(open)}
             listed == {DayRow(open, t, p.asset) : p \in open}
  <1>1. byAsset = listed
    BY DEF AssetsOf
  <1>2. DaySnapshot(Positions, scope, t)
          = [principal |-> Total(LAMBDA r : r.principal, listed),
             value     |-> Total(LAMBDA r : r.value, listed),
             accrued   |-> Total(LAMBDA r : r.accrued, listed),
             positions |-> Cardinality(open), users |-> Cardinality({p.user : p \in open}),
             by_asset  |-> listed]
    BY DEF DaySnapshot, DayRow, OpenOn, ByAsset
  <1>3. QED
    BY <1>1, <1>2, Zenon

LEMMA DayAddsUp ==
    ASSUME NEW scope, NEW t \in Int
    PROVE  LET open == OpenOn(scope, t)
               today == DaySnapshot(Positions, scope, t)
           IN  /\ today.principal = Total(LAMBDA p : p.principal, open)
               /\ today.value = Total(LAMBDA p : Value(p, t), open)
               /\ today.accrued = Total(LAMBDA p : Earned(p, t), open)
  <1> DEFINE open == OpenOn(scope, t)
             K == AssetsOf(open)
             row == [a \in K |-> DayRow(open, t, a)]
             byAsset == {DayRow(open, t, a) : a \in AssetsOf(open)}
             f == [r \in byAsset |-> r.principal]
             g == [r \in byAsset |-> r.value]
             h == [r \in byAsset |-> r.accrued]
             x == [p \in open |-> p.principal]
             v == [p \in open |-> Value(p, t)]
             w == [p \in open |-> Earned(p, t)]
  <1>1. open \in SUBSET Positions
    BY ScopeIs DEF OpenOn
  <1>2. \A a, b \in K : row[a] = row[b] => a = b
    <2>1. \A a \in K : row[a].asset = a
      BY DEF DayRow
    <2>2. QED
      BY <2>1
  <1>3. Integral(x, open) /\ Integral(v, open) /\ Integral(w, open)
    BY <1>1, SomePositions
  <1>4. byAsset = {row[a] : a \in K}
    OBVIOUS
  <1>5. ASSUME NEW a \in K
        PROVE  LET of == ByAsset(open, a)
               IN  /\ f[row[a]] = SumIn(x, of)
                   /\ g[row[a]] = SumIn(v, of)
                   /\ h[row[a]] = SumIn(w, of)
    <2> DEFINE of == ByAsset(open, a)
    <2>1. row[a] \in byAsset /\ of \in SUBSET open /\ of \in SUBSET Positions
      BY <1>1 DEF ByAsset
    <2>2. /\ [p \in of |-> x[p]] = [p \in of |-> p.principal]
          /\ [p \in of |-> v[p]] = [p \in of |-> Value(p, t)]
          /\ [p \in of |-> w[p]] = [p \in of |-> Earned(p, t)]
      BY <2>1
    <2>3. /\ f[row[a]] = Total(LAMBDA p : p.principal, of)
          /\ g[row[a]] = Total(LAMBDA p : Value(p, t), of)
          /\ h[row[a]] = Total(LAMBDA p : Value(p, t), of) - Total(LAMBDA p : p.principal, of)
      BY <2>1 DEF DayRow
    <2>4. /\ Total(LAMBDA p : Value(p, t), of)
               = Total(LAMBDA p : p.principal, of) + Total(LAMBDA p : Earned(p, t), of)
          /\ Total(LAMBDA p : p.principal, of) \in Nat
          /\ Total(LAMBDA p : Earned(p, t), of) \in Nat
      BY <2>1, WorthIs, SomePositions
    <2>5. h[row[a]] = Total(LAMBDA p : Earned(p, t), of)
      <3> DEFINE i == Total(LAMBDA p : Value(p, t), of)
                 j == Total(LAMBDA p : p.principal, of)
                 k == Total(LAMBDA p : Earned(p, t), of)
      <3>1. h[row[a]] = i - j /\ i = j + k /\ j \in Nat /\ k \in Nat
        BY <2>3, <2>4
      <3> HIDE DEF h, row, i, j, k
      <3>2. h[row[a]] = k
        BY <3>1
      <3>3. QED
        BY <3>2 DEF k
    <2>6. QED
      BY <2>2, <2>3, <2>5 DEF Total, SumIn
  <1>6. /\ SumFunctionOnSet(f, byAsset) = SumFunctionOnSet(x, open)
        /\ SumFunctionOnSet(g, byAsset) = SumFunctionOnSet(v, open)
        /\ SumFunctionOnSet(h, byAsset) = SumFunctionOnSet(w, open)
    <2>1. /\ SumFunctionOnSet(f, {row[a] : a \in AssetsOf(open)}) = SumFunctionOnSet(x, open)
          /\ SumFunctionOnSet(g, {row[a] : a \in AssetsOf(open)}) = SumFunctionOnSet(v, open)
          /\ SumFunctionOnSet(h, {row[a] : a \in AssetsOf(open)}) = SumFunctionOnSet(w, open)
      <3>1. \A a \in AssetsOf(open) :
               /\ f[row[a]] = SumIn(x, ByAsset(open, a))
               /\ g[row[a]] = SumIn(v, ByAsset(open, a))
               /\ h[row[a]] = SumIn(w, ByAsset(open, a))
        BY <1>5
      <3>2. \A a, b \in AssetsOf(open) : row[a] = row[b] => a = b
        BY <1>2
      <3> HIDE DEF open, row, f, g, h, x, v, w
      <3>3. SumFunctionOnSet(f, {row[a] : a \in AssetsOf(open)}) = SumFunctionOnSet(x, open)
        BY <1>1, <1>3, <3>1, <3>2, AssetRowsAddUp
      <3>4. SumFunctionOnSet(g, {row[a] : a \in AssetsOf(open)}) = SumFunctionOnSet(v, open)
        BY <1>1, <1>3, <3>1, <3>2, AssetRowsAddUp
      <3>5. SumFunctionOnSet(h, {row[a] : a \in AssetsOf(open)}) = SumFunctionOnSet(w, open)
        BY <1>1, <1>3, <3>1, <3>2, AssetRowsAddUp
      <3>6. QED
        BY <3>3, <3>4, <3>5
    <2> HIDE DEF f, g, h, x, v, w
    <2>2. QED
      BY <1>4, <2>1
  <1>7. /\ DaySnapshot(Positions, scope, t).principal = SumFunctionOnSet(f, byAsset)
        /\ DaySnapshot(Positions, scope, t).value = SumFunctionOnSet(g, byAsset)
        /\ DaySnapshot(Positions, scope, t).accrued = SumFunctionOnSet(h, byAsset)
    <2> DEFINE today == DaySnapshot(Positions, scope, t)
               i == Total(LAMBDA r : r.principal, byAsset)
               j == Total(LAMBDA r : r.value, byAsset)
               k == Total(LAMBDA r : r.accrued, byAsset)
    <2>1. \E users : today = [principal |-> i, value |-> j, accrued |-> k,
                               positions |-> Cardinality(open), users |-> users,
                               by_asset |-> byAsset]
      BY DayIs
    <2>2. i = SumFunctionOnSet(f, byAsset) /\ j = SumFunctionOnSet(g, byAsset)
            /\ k = SumFunctionOnSet(h, byAsset)
      BY DEF Total
    <2> HIDE DEF today, i, j, k, byAsset
    <2>3. today.principal = i /\ today.value = j /\ today.accrued = k
      BY <2>1
    <2>4. QED
      BY <2>2, <2>3 DEF today
  <1>8. QED
    BY <1>6, <1>7 DEF Total

LEMMA DayShaped ==
    ASSUME NEW scope, NEW t \in Int
    PROVE  DaySnapshot(Positions, scope, t) \in BalanceSnapshotDto
  <1> DEFINE open == OpenOn(scope, t)
             today == DaySnapshot(Positions, scope, t)
             byAsset == {DayRow(open, t, a) : a \in AssetsOf(open)}
             count == Cardinality(open)
             users == Cardinality({p.user : p \in open})
  <1>1. open \in SUBSET Positions
    BY ScopeIs DEF OpenOn
  <1>2. today.principal \in Nat /\ today.value \in Nat /\ today.accrued \in Nat
    BY <1>1, DayAddsUp, SomePositions
  <1>3. count \in Nat /\ users \in Nat
    <2> DEFINE f == [p \in open |-> p.user]
    <2>1. {p.user : p \in open} = {f[p] : p \in open}
      OBVIOUS
    <2>2. IsFiniteSet(open) /\ count \in Nat
      BY <1>1, SomePositions, BookIs
    <2> HIDE DEF f, open
    <2>3. IsFiniteSet({p.user : p \in open})
      BY <2>1, <2>2, ImageIsFinite
    <2>4. QED
      BY <2>2, <2>3, FS_CardinalityType
  <1>4. byAsset \subseteq SnapshotAssetDto
    <2>1. ASSUME NEW a \in AssetsOf(open) PROVE DayRow(open, t, a) \in SnapshotAssetDto
      <3> DEFINE of == ByAsset(open, a)
                 x == Total(LAMBDA p : p.principal, of)
                 y == Total(LAMBDA p : Value(p, t), of)
                 z == Total(LAMBDA p : Earned(p, t), of)
      <3>1. of \in SUBSET Positions /\ a \in Asset
        BY <1>1, AssetsAre DEF ByAsset
      <3>2. x \in Nat /\ y \in Nat /\ z \in Nat /\ y = x + z
        BY <3>1, SomePositions, WorthIs
      <3>3. DayRow(open, t, a) = [asset |-> a, principal |-> x, value |-> y, accrued |-> y - x]
        BY DEF DayRow
      <3> HIDE DEF x, y, z, open
      <3>4. QED
        BY <3>1, <3>2, <3>3 DEF SnapshotAssetDto
    <2>2. QED
      BY <2>1
  <1>5. today = [principal |-> today.principal, value |-> today.value, accrued |-> today.accrued,
                 positions |-> count, users |-> users, by_asset |-> byAsset]
    <2> DEFINE x == Total(LAMBDA r : r.principal, byAsset)
               y == Total(LAMBDA r : r.value, byAsset)
               z == Total(LAMBDA r : r.accrued, byAsset)
    <2>1. today = [principal |-> x, value |-> y, accrued |-> z,
                   positions |-> count, users |-> users, by_asset |-> byAsset]
      BY DayIs
    <2> HIDE DEF today, byAsset, count, users, x, y, z
    <2>2. QED
      BY <2>1
  <1> HIDE DEF open, today, byAsset, count, users
  <1>6. today \in BalanceSnapshotDto
    BY <1>2, <1>3, <1>4, <1>5 DEF BalanceSnapshotDto
  <1>7. QED
    BY <1>6 DEF today

(* Every variable has its type and every answer the shape that is documented, *)
(* for any book.                                                              *)
THEOREM AnswersAreShaped == Spec => []TypeOK
  <1>1. ASSUME NEW t \in 0 .. MaxTime PROVE ListsShaped(t)
    <2>1. t \in Int
      BY ClockAssumption
    <2>2. LedgerOf[Partner][t] \subseteq LedgerEntryDto
      BY RowFrom DEF Book
    <2>3. QED
      BY <2>1, <2>2, BalancesShaped, DayShaped DEF ListsShaped
  <1>2. IInv /\ HInv /\ PInv => TypeOK
    <2> SUFFICES ASSUME IInv, HInv, PInv PROVE TypeOK
      OBVIOUS
    <2>1. \A r \in replies : Report(r) \in ReconciliationReportDto
      BY ReportIs DEF HInv
    <2>2. now \in 0 .. MaxTime
      BY DEF IInv, Shapes
    <2>3. ListsShaped(now)
      BY <1>1, <2>2
    <2>4. QED
      BY <2>1, <2>3 DEF TypeOK, IInv, Shapes, PInv
  <1>3. QED
    BY <1>2, InitInv, InitHonest, InitPaging, NextInv, NextHonest, NextPaging, PTL DEF Spec

-----------------------------------------------------------------------------
(* The views of a partner.                                                    *)

(* A position without principal is worth nothing.                             *)
LEMMA NothingGrows ==
    ASSUME NEW p \in Positions, NEW t \in Int, ~ (p.principal > 0)
    PROVE  Value(p, t) = 0 /\ Earned(p, t) = 0
  <1>1. p.principal = 0 /\ p.apy \in Nat /\ Elapsed(p, t) \in Nat
    BY BookIs, ElapsedIs
  <1>2. p.apy * Elapsed(p, t) \in Nat /\ Scale \in Nat \ {0}
    BY <1>1, Products, ScaleAssumption
  <1>3. p.principal * (Scale + p.apy * Elapsed(p, t)) = 0
    BY <1>1, <1>2
  <1>4. Round(0, Scale) \in Int /\ (Round(0, Scale) >= 0 <=> 2 * 0 >= (2 * 0 - 1) * Scale)
          /\ (Round(0, Scale) >= 1 <=> 2 * 0 >= (2 * 1 - 1) * Scale)
    BY <1>2, RoundReaches
  <1>5. Round(0, Scale) = 0
    BY <1>2, <1>4
  <1>6. Value(p, t) = 0
    BY <1>3, <1>5 DEF Value, BaselineValue
  <1>7. QED
    BY <1>1, <1>6 DEF Earned

(* The snapshot of a day counts every position in scope: one that it leaves   *)
(* out is worth nothing.                                                      *)
LEMMA DayCountsAll ==
    ASSUME NEW scope, NEW t \in Nat
    PROVE  LET mine == InScope(Positions, scope)
               today == DaySnapshot(Positions, scope, t)
           IN  /\ today.value = Total(LAMBDA p : Value(p, t), mine)
               /\ today.accrued = Total(LAMBDA p : Earned(p, t), mine)
  <1> DEFINE mine == InScope(Positions, scope)
             open == OpenOn(scope, t)
             v == [p \in mine |-> Value(p, t)]
             w == [p \in mine |-> Earned(p, t)]
             vo == [p \in open |-> Value(p, t)]
             wo == [p \in open |-> Earned(p, t)]
  <1>1. open \in SUBSET mine /\ mine \in SUBSET Positions /\ open \in SUBSET Positions
    BY ScopeIs DEF OpenOn
  <1> t \in Int
    OBVIOUS
  <1>2. ASSUME NEW p \in mine \ open PROVE v[p] = 0 /\ w[p] = 0
    <2>1. p \in Positions /\ p.opened <= t
      <3>1. \A q \in Positions : q.opened <= 0
        BY SeedAssumption, Zenon
      <3>2. QED
        BY <1>1, <3>1, BookIs
    <2>2. ~ (p.principal > 0)
      BY <2>1 DEF OpenOn
    <2>3. QED
      BY <2>1, <2>2, NothingGrows
  <1>3. Integral(v, mine) /\ Integral(w, mine)
    BY <1>1, SomePositions
  <1>4. \A p \in open : vo[p] = v[p] /\ wo[p] = w[p]
    BY <1>1
  <1>5. IsFiniteSet(mine \ open)
    BY <1>3, FS_Subset DEF Integral
  <1>6. /\ SumFunctionOnSet(vo, open) = SumFunctionOnSet(v, mine)
        /\ SumFunctionOnSet(wo, open) = SumFunctionOnSet(w, mine)
    <2> HIDE DEF v, w, vo, wo, open, mine
    <2>1. SumFunctionOnSet(v, mine) = SumFunctionOnSet(v, open) + SumFunctionOnSet(v, mine \ open)
      BY <1>1, <1>3, SumSplits
    <2>2. SumFunctionOnSet(w, mine) = SumFunctionOnSet(w, open) + SumFunctionOnSet(w, mine \ open)
      BY <1>1, <1>3, SumSplits
    <2>3. SumFunctionOnSet(v, mine \ open) = 0 /\ SumFunctionOnSet(w, mine \ open) = 0
      BY <1>2, <1>5, SumOfNothing
    <2>4. Integral(v, open) /\ Integral(w, open)
      BY <1>1, <1>3, IntegralPart
    <2>5. /\ SumFunctionOnSet(vo, open) = SumFunctionOnSet(v, open)
          /\ SumFunctionOnSet(wo, open) = SumFunctionOnSet(w, open)
      BY <1>4, <2>4, SumOfEqual
    <2>6. SumFunctionOnSet(v, open) \in Int /\ SumFunctionOnSet(w, open) \in Int
      BY <2>4, SumIsInteger
    <2>7. QED
      BY <2>1, <2>2, <2>3, <2>5, <2>6
  <1>7. /\ DaySnapshot(Positions, scope, t).value = Total(LAMBDA p : Value(p, t), open)
        /\ DaySnapshot(Positions, scope, t).accrued = Total(LAMBDA p : Earned(p, t), open)
    BY DayAddsUp
  <1>8. QED
    BY <1>6, <1>7 DEF Total

(* The net value by asset.                                                    *)
LEMMA BreakdownAddsUp ==
    ASSUME NEW partner, NEW t \in Int
    PROVE  LET held == NetTVL(Positions, partner, t)
               mine == Active(InScope(Positions, PartnerScope(partner)))
           IN  /\ held.tvl = Total(LAMBDA p : Value(p, t), mine)
               /\ Total(LAMBDA b : b.tvl, held.breakdown) = held.tvl
  <1> DEFINE mine == Active(InScope(Positions, PartnerScope(partner)))
             held == NetTVL(Positions, partner, t)
             v == [p \in mine |-> Value(p, t)]
             row == [a \in AssetsOf(mine) |->
                        [asset |-> a, positions |-> Cardinality(ByAsset(mine, a)),
                         tvl |-> Total(LAMBDA p : Value(p, t), ByAsset(mine, a))]]
             rows == {row[a] : a \in AssetsOf(mine)}
             f == [b \in rows |-> b.tvl]
  <1>1. mine \in SUBSET Positions
    BY ScopeIs
  <1>2. held.breakdown = rows
    BY DEF NetTVL, AssetsOf, ByAsset
  <1>3. held.tvl = SumFunctionOnSet(v, mine)
    BY DEF NetTVL, Total
  <1>4. Integral(v, mine)
    BY <1>1, SomePositions
  <1>5. \A a, b \in AssetsOf(mine) : row[a] = row[b] => a = b
    <2>1. \A a \in AssetsOf(mine) : row[a].asset = a
      OBVIOUS
    <2>2. QED
      BY <2>1
  <1>6. ASSUME NEW a \in AssetsOf(mine) PROVE f[row[a]] = SumIn(v, ByAsset(mine, a))
    <2>1. ByAsset(mine, a) \in SUBSET mine /\ row[a] \in rows
      BY DEF ByAsset
    <2>2. [p \in ByAsset(mine, a) |-> v[p]] = [p \in ByAsset(mine, a) |-> Value(p, t)]
      BY <2>1
    <2>3. f[row[a]] = Total(LAMBDA p : Value(p, t), ByAsset(mine, a))
      BY <2>1
    <2>4. QED
      BY <2>2, <2>3 DEF Total, SumIn
  <1>7. SumFunctionOnSet(f, {row[a] : a \in AssetsOf(mine)}) = SumFunctionOnSet(v, mine)
    <2> HIDE DEF mine, v, row, f
    <2>1. QED
      BY <1>1, <1>4, <1>5, <1>6, AssetRowsAddUp
  <1>8. Total(LAMBDA b : b.tvl, held.breakdown) = SumFunctionOnSet(v, mine)
    <2>1. Total(LAMBDA b : b.tvl, rows) = SumFunctionOnSet(f, rows)
      BY DEF Total
    <2>2. SumFunctionOnSet(f, rows) = SumFunctionOnSet(v, mine)
      BY <1>7
    <2> HIDE DEF held, rows, f, v, mine
    <2>3. QED
      BY <1>2, <2>1, <2>2
  <1>9. QED
    BY <1>3, <1>8 DEF Total

(* The balances of a partner are its deposits: a position that is not closed  *)
(* is active.                                                                 *)
LEMMA StatusIs ==
    ASSUME NEW scope
    PROVE  {p \in InScope(Positions, scope) : p.status # "closed"}
             = Active(InScope(Positions, scope))
  <1>1. \A p \in Positions : p.status \in {"active", "closed"}
    BY BookAssumption DEF IsPosition
  <1>2. QED
    BY <1>1, ScopeIs DEF Active

(* What was ever deposited is in there still, or was taken out.               *)
DepositsOf(p) == {e \in Movements(p, Events) : e.type = "deposit"}

LEMMA SeedIs ==
    ASSUME NEW p \in Positions
    PROVE  /\ DepositsOf(p) \in SUBSET Events /\ IsFiniteSet(DepositsOf(p))
           /\ SumFunctionOnSet([e \in DepositsOf(p) |-> e.amount], DepositsOf(p))
                = p.principal + p.withdrawn
  <1>1. Total(LAMBDA e : e.amount, {e \in Movements(p, Events) : e.type = "deposit"})
          = p.principal + p.withdrawn
    BY SeedAssumption, Zenon
  <1>2. DepositsOf(p) \in SUBSET Events
    BY MovementsAre DEF DepositsOf
  <1>3. QED
    BY <1>1, <1>2, BookIs, FS_Subset DEF Total, DepositsOf

LEMMA DepositsAddUp ==
    ASSUME NEW partner \in {p.partner : p \in Positions} \ {Null}
    PROVE  Total(LAMBDA e : e.amount, Deposits(partner))
             = AttributedDeposits(Positions, partner) + AttributedWithdrawals(Positions, partner)
  <1> DEFINE mine == InScope(Positions, PartnerScope(partner))
             active == Active(mine)
             T == Deposits(partner)
             a == [e \in T |-> e.amount]
             g == [e \in T |-> CHOOSE p \in Positions : p.seq = e.position]
             h == [p \in mine |-> p.principal + p.withdrawn]
             out == [p \in mine |->
                        p.withdrawn + (IF p.status = "closed" THEN p.principal ELSE 0)]
             kept == [p \in mine |-> IF p.status = "closed" THEN 0 ELSE p.principal]
             x == [p \in active |-> p.principal]
  <1>1. /\ mine = {p \in Positions : p.partner = partner} /\ mine \in SUBSET Positions
        /\ active = {p \in mine : p.status # "closed"} /\ active \in SUBSET mine
    <2>1. mine = {p \in Positions : p.partner = partner}
      BY DEF InScope, PartnerScope, Matches
    <2>2. QED
      BY <2>1, StatusIs
  <1>2. IsFiniteSet(mine) /\ IsFiniteSet(T)
    BY <1>1, BookIs, FS_Subset DEF Deposits
  <1>3. \A p \in mine : p.principal \in Nat /\ p.withdrawn \in Nat
    BY <1>1, BookIs
  <1>4. ASSUME NEW e \in T PROVE a[e] \in Int /\ g[e] \in mine /\ g[e].seq = e.position
    <2>1. PICK p \in Positions : p.seq = e.position /\ p.partner = partner
      BY DEF Deposits
    <2>2. g[e] = p
      BY <2>1, BookIs
    <2>3. a[e] \in Int
      BY BookIs DEF Deposits
    <2>4. p \in mine
      BY <1>1, <2>1
    <2> HIDE DEF a, g, mine
    <2>5. QED
      BY <2>1, <2>2, <2>3, <2>4
  <1>5. ASSUME NEW p \in mine PROVE h[p] = SumFunctionOnSet(a, Group(T, g, p))
    <2>1. Group(T, g, p) = DepositsOf(p)
      <3>1. ASSUME NEW e \in T, g[e] = p PROVE e \in DepositsOf(p)
        BY <1>4, <3>1 DEF DepositsOf, Movements, Deposits
      <3>2. ASSUME NEW e \in DepositsOf(p) PROVE e \in T /\ g[e] = p
        <4>1. e \in Events /\ e.position = p.seq /\ e.type = "deposit" /\ p.partner = partner
          BY <1>1 DEF DepositsOf, Movements
        <4>2. e \in T
          BY <1>1, <4>1 DEF Deposits
        <4>3. QED
          BY <1>1, <1>4, <4>1, <4>2, BookIs
      <3>3. QED
        BY <3>1, <3>2 DEF Group
    <2> DEFINE w == [e \in DepositsOf(p) |-> e.amount]
    <2>2. \A e \in DepositsOf(p) : w[e] = a[e]
      BY <2>1 DEF Group
    <2>3. Integral(a, DepositsOf(p))
      <3>1. DepositsOf(p) \in SUBSET T
        BY <2>1 DEF Group
      <3>2. QED
        BY <1>1, <1>4, <3>1, SeedIs DEF Integral
    <2>4. SumFunctionOnSet(w, DepositsOf(p)) = p.principal + p.withdrawn
      BY <1>1, SeedIs
    <2> HIDE DEF w, a, g, T
    <2>5. SumFunctionOnSet(w, DepositsOf(p)) = SumFunctionOnSet(a, DepositsOf(p))
      BY <2>2, <2>3, SumOfEqual
    <2>6. QED
      BY <2>1, <2>4, <2>5
  <1>6. \A p \in mine : h[p] = kept[p] + out[p] /\ kept[p] \in Int /\ out[p] \in Int
    <2>1. ASSUME NEW p \in mine PROVE h[p] = kept[p] + out[p] /\ kept[p] \in Int /\ out[p] \in Int
      <3>1. CASE p.status = "closed"
        BY <1>3, <3>1
      <3>2. CASE p.status # "closed"
        BY <1>3, <3>2
      <3>3. QED
        BY <3>1, <3>2
    <2>2. QED
      BY <2>1
  <1>7. SumFunctionOnSet(a, T) = SumFunctionOnSet(kept, mine) + SumFunctionOnSet(out, mine)
    <2> HIDE DEF a, T, g, h, kept, out, mine
    <2>1. Integral(a, T)
      BY <1>2, <1>4 DEF Integral
    <2>2. SumFunctionOnSet(h, mine) = SumFunctionOnSet(a, T)
      BY <1>2, <1>4, <1>5, <2>1, SumByGroup
    <2>3. Integral(kept, mine) /\ Integral(out, mine)
      BY <1>2, <1>6 DEF Integral
    <2>4. SumFunctionOnSet(h, mine) = SumFunctionOnSet(kept, mine) + SumFunctionOnSet(out, mine)
      BY <1>6, <2>3, SumOfSums
    <2>5. QED
      BY <2>2, <2>4
  <1>8. SumFunctionOnSet(kept, mine) = SumFunctionOnSet(x, active)
    <2>1. \A p \in mine \ active : kept[p] = 0
      BY <1>1
    <2>2. \A p \in active : x[p] = kept[p]
      BY <1>1
    <2>3. Integral(kept, mine) /\ IsFiniteSet(mine \ active)
      BY <1>2, <1>6, FS_Subset DEF Integral
    <2> HIDE DEF kept, x, mine, active
    <2>4. SumFunctionOnSet(kept, mine)
            = SumFunctionOnSet(kept, active) + SumFunctionOnSet(kept, mine \ active)
      BY <1>1, <2>3, SumSplits
    <2>5. SumFunctionOnSet(kept, mine \ active) = 0
      BY <2>1, <2>3, SumOfNothing
    <2>6. Integral(kept, active)
      BY <1>1, <2>3, IntegralPart
    <2>7. SumFunctionOnSet(x, active) = SumFunctionOnSet(kept, active)
      BY <2>2, <2>6, SumOfEqual
    <2>8. SumFunctionOnSet(kept, active) \in Int
      BY <2>6, SumIsInteger
    <2>9. QED
      BY <2>4, <2>5, <2>7, <2>8
  <1>9. /\ AttributedDeposits(Positions, partner) = SumFunctionOnSet(x, active)
        /\ AttributedWithdrawals(Positions, partner) = SumFunctionOnSet(out, mine)
        /\ Total(LAMBDA e : e.amount, Deposits(partner)) = SumFunctionOnSet(a, T)
    BY <1>1 DEF AttributedDeposits, AttributedWithdrawals, Total
  <1>10. QED
    BY <1>7, <1>8, <1>9

LEMMA PartnersAgree ==
    ASSUME NEW t \in Nat
    PROVE  AgreeAt(t)
  <1> t \in Int
    OBVIOUS
  <1> SUFFICES ASSUME NEW partner \in {p.partner : p \in Positions} \ {Null}
               PROVE  LET scope == PartnerScope(partner)
                          balances == Balances(Positions, scope, t)
                          today == DaySnapshot(Positions, scope, t)
                          held == NetTVL(Positions, partner, t)
                          closed == {p \in InScope(Positions, scope) : p.status = "closed"}
                      IN  /\ Total(LAMBDA b : b.value, balances) = held.tvl
                          /\ Total(LAMBDA b : b.tvl, held.breakdown) = held.tvl
                          /\ Total(LAMBDA b : b.principal, balances)
                               = AttributedDeposits(Positions, partner)
                          /\ today.value = held.tvl + Total(LAMBDA p : Value(p, t), closed)
                          /\ today.accrued = AttributedYield(Positions, partner, t)
                          /\ Total(LAMBDA e : e.amount, Deposits(partner))
                               = AttributedDeposits(Positions, partner)
                                   + AttributedWithdrawals(Positions, partner)
    BY DEF AgreeAt
  <1> DEFINE scope == PartnerScope(partner)
             mine == InScope(Positions, scope)
             active == Active(mine)
             balances == Balances(Positions, scope, t)
             today == DaySnapshot(Positions, scope, t)
             held == NetTVL(Positions, partner, t)
             closed == {p \in InScope(Positions, scope) : p.status = "closed"}
  <1>1. Total(LAMBDA b : b.value, balances) = held.tvl
    BY BalancesAddUp, BreakdownAddsUp, Zenon
  <1>2. Total(LAMBDA b : b.tvl, held.breakdown) = held.tvl
    BY BreakdownAddsUp, Zenon
  <1>3. Total(LAMBDA b : b.principal, balances) = AttributedDeposits(Positions, partner)
    <2>1. Total(LAMBDA b : b.principal, balances) = Total(LAMBDA p : p.principal, active)
      BY BalancesAddUp, Zenon
    <2>2. AttributedDeposits(Positions, partner) = Total(LAMBDA p : p.principal, active)
      BY StatusIs, Zenon DEF AttributedDeposits
    <2>3. QED
      BY <2>1, <2>2, Zenon
  <1>4. today.value = held.tvl + Total(LAMBDA p : Value(p, t), closed)
    <2> DEFINE v == [p \in mine |-> Value(p, t)]
               va == [p \in active |-> Value(p, t)]
               vc == [p \in closed |-> Value(p, t)]
    <2>1. /\ mine \in SUBSET Positions /\ closed = mine \ active /\ active \in SUBSET mine
          /\ closed \in SUBSET mine
      BY ScopeIs, StatusIs
    <2>2. Integral(v, mine)
      BY <2>1, SomePositions
    <2>3. (\A p \in active : va[p] = v[p]) /\ (\A p \in closed : vc[p] = v[p])
      BY <2>1
    <2>4. SumFunctionOnSet(v, mine) = SumFunctionOnSet(va, active) + SumFunctionOnSet(vc, closed)
      <3> HIDE DEF v, va, vc, mine, active, closed
      <3>1. SumFunctionOnSet(v, mine)
              = SumFunctionOnSet(v, active) + SumFunctionOnSet(v, mine \ active)
        BY <2>1, <2>2, SumSplits
      <3>2. Integral(v, active) /\ Integral(v, closed)
        BY <2>1, <2>2, IntegralPart
      <3>3. SumFunctionOnSet(va, active) = SumFunctionOnSet(v, active)
        BY <2>3, <3>2, SumOfEqual
      <3>4. SumFunctionOnSet(vc, closed) = SumFunctionOnSet(v, closed)
        BY <2>3, <3>2, SumOfEqual
      <3>5. QED
        BY <2>1, <3>1, <3>3, <3>4
    <2>5. today.value = Total(LAMBDA p : Value(p, t), mine)
      BY DayCountsAll, Zenon
    <2>6. held.tvl = Total(LAMBDA p : Value(p, t), active)
      BY BreakdownAddsUp, Zenon
    <2>7. QED
      BY <2>4, <2>5, <2>6 DEF Total
  <1>5. today.accrued = AttributedYield(Positions, partner, t)
    BY DayCountsAll, Zenon DEF AttributedYield
  <1>6. QED
    BY <1>1, <1>2, <1>3, <1>4, <1>5, DepositsAddUp

-----------------------------------------------------------------------------
(* The views of a user.                                                       *)

UserRow(p, t) == [position |-> p.seq, status |-> p.status, current |-> Value(p, t),
                  accrued |-> Earned(p, t)]

(* The partner API values a position as the accrual does.                     *)
LEMMA UserPositionsAre ==
    ASSUME NEW user \in Users, NEW t
    PROVE  LET mine == Active(InScope(Positions, UserScope(user)))
           IN  Active(UserPositions(Positions, user, t)) = {UserRow(p, t) : p \in mine}
  <1> DEFINE scope == InScope(Positions, UserScope(user))
             rows == {UserRow(p, t) : p \in {p \in Positions : p.user = user}}
  <1>1. scope = {p \in Positions : p.user = user}
    <2>1. user # Null
      BY BookIs DEF Users
    <2>2. QED
      BY <2>1 DEF InScope, UserScope, PartnerScope, Matches
  <1>2. UserPositions(Positions, user, t) = rows
    BY DEF UserPositions, UserRow, Value, BaselineValue, Elapsed, Earned
  <1>3. Active(rows) = {UserRow(p, t) : p \in Active(scope)}
    BY <1>1 DEF Active, UserRow
  <1> HIDE DEF rows
  <1>4. QED
    BY <1>2, <1>3

LEMMA UserPositionsAddUp ==
    ASSUME NEW user \in Users, NEW t \in Int
    PROVE  LET balances == Balances(Positions, UserScope(user), t)
               shown == Active(UserPositions(Positions, user, t))
           IN  /\ Total(LAMBDA p : p.current, shown) = Total(LAMBDA b : b.value, balances)
               /\ Total(LAMBDA p : p.accrued, shown) = Total(LAMBDA b : b.accrued, balances)
  <1> DEFINE mine == Active(InScope(Positions, UserScope(user)))
             balances == Balances(Positions, UserScope(user), t)
             shown == Active(UserPositions(Positions, user, t))
             row == [p \in mine |-> UserRow(p, t)]
             v == [p \in mine |-> Value(p, t)]
             w == [p \in mine |-> Earned(p, t)]
             f == [r \in shown |-> r.current]
             g == [r \in shown |-> r.accrued]
  <1>1. mine \in SUBSET Positions
    BY ScopeIs
  <1>2. shown = {row[p] : p \in mine}
    BY UserPositionsAre
  <1>3. \A p, q \in mine : row[p] = row[q] => p = q
    <2>1. \A p \in mine : row[p].position = p.seq
      BY DEF UserRow
    <2>2. QED
      BY <1>1, <2>1, BookIs
  <1>4. Integral(v, mine) /\ Integral(w, mine)
    BY <1>1, SomePositions
  <1>5. \A p \in mine : row[p] \in shown /\ f[row[p]] = v[p] /\ g[row[p]] = w[p]
    BY <1>2 DEF UserRow
  <1>6. /\ SumFunctionOnSet(f, shown) = SumFunctionOnSet(v, mine)
        /\ SumFunctionOnSet(g, shown) = SumFunctionOnSet(w, mine)
    <2> HIDE DEF mine, shown, row, v, w, f, g
    <2>1. IsFiniteSet(mine) /\ \A p \in mine : v[p] \in Int /\ w[p] \in Int
      BY <1>4 DEF Integral
    <2>2. SumFunctionOnSet(f, {row[p] : p \in mine}) = SumFunctionOnSet(v, mine)
      BY <1>3, <1>5, <2>1, SumOverRows
    <2>3. SumFunctionOnSet(g, {row[p] : p \in mine}) = SumFunctionOnSet(w, mine)
      BY <1>3, <1>5, <2>1, SumOverRows
    <2>4. QED
      BY <1>2, <2>2, <2>3
  <1>7. /\ Total(LAMBDA b : b.value, balances) = Total(LAMBDA p : Value(p, t), mine)
        /\ Total(LAMBDA b : b.accrued, balances) = Total(LAMBDA p : Earned(p, t), mine)
    BY BalancesAddUp, Zenon
  <1>8. QED
    BY <1>6, <1>7 DEF Total

(* The events of a user's positions, and those that are newer than one.       *)
UserEvents(user) == {e \in Events : \E p \in Positions : p.seq = e.position /\ p.user = user}
Newer(f, e) == f.at > e.at \/ (f.at = e.at /\ f.seq < e.seq)
NewerThan(user, e) == {f \in UserEvents(user) : Newer(f, e)}

LEMMA UserLedgerIs ==
    ASSUME NEW user, NEW limit
    PROVE  UserLedger(Positions, Events, user, limit)
             = {e \in UserEvents(user) : Cardinality(NewerThan(user, e)) < limit}
  BY DEF UserLedger, UserEvents, NewerThan, Newer

(* Every event has a rank of its own, the newer the smaller.                  *)
LEMMA RankIs ==
    ASSUME NEW user
    PROVE  LET S == UserEvents(user)
           IN  /\ S \subseteq Events /\ IsFiniteSet(S) /\ Cardinality(S) \in Nat
               /\ Cardinality(S) <= Cardinality(Events) /\ Cardinality(Events) \in Nat
               /\ \A e \in S : Cardinality(NewerThan(user, e)) \in 0 .. Cardinality(S) - 1
               /\ \A e, f \in S : Newer(e, f) =>
                     Cardinality(NewerThan(user, e)) < Cardinality(NewerThan(user, f))
               /\ \A e, f \in S :
                     Cardinality(NewerThan(user, e)) = Cardinality(NewerThan(user, f)) => e = f
  <1> DEFINE S == UserEvents(user)
  <1>1. /\ S \subseteq Events /\ IsFiniteSet(S) /\ Cardinality(S) \in Nat
        /\ Cardinality(S) <= Cardinality(Events) /\ Cardinality(Events) \in Nat
    <2>1. S \in SUBSET Events
      BY DEF UserEvents
    <2>2. QED
      BY <2>1, BookIs, FS_Subset, FS_CardinalityType
  <1>2. \A e \in S : e.at \in Int /\ e.seq \in Nat
    BY <1>1, BookIs
  <1>3. \A e \in S : NewerThan(user, e) \in SUBSET S /\ e \notin NewerThan(user, e)
    BY <1>2 DEF NewerThan, Newer
  <1>4. ASSUME NEW A \in SUBSET S, NEW B \in SUBSET S, A \subseteq B, A # B
        PROVE  Cardinality(A) \in Nat /\ Cardinality(B) \in Nat /\ Cardinality(A) < Cardinality(B)
    <2>1. IsFiniteSet(B) /\ IsFiniteSet(A)
      BY <1>1, FS_Subset
    <2>2. Cardinality(A) \in Nat /\ Cardinality(B) \in Nat
      BY <2>1, FS_CardinalityType
    <2>3. Cardinality(A) <= Cardinality(B) /\ Cardinality(A) # Cardinality(B)
      BY <1>4, <2>1, FS_Subset
    <2>4. QED
      BY <2>2, <2>3
  <1>5. ASSUME NEW e \in S
        PROVE  Cardinality(NewerThan(user, e)) \in 0 .. Cardinality(S) - 1
    <2>1. NewerThan(user, e) \in SUBSET S /\ NewerThan(user, e) # S
      BY <1>3
    <2>2. /\ Cardinality(NewerThan(user, e)) \in Nat
          /\ Cardinality(NewerThan(user, e)) < Cardinality(S)
      BY <1>4, <2>1
    <2>3. QED
      BY <1>1, <2>2
  <1>6. ASSUME NEW e \in S, NEW f \in S, Newer(e, f)
        PROVE  Cardinality(NewerThan(user, e)) < Cardinality(NewerThan(user, f))
    <2>1. \A x \in S : Newer(x, e) => Newer(x, f)
      BY <1>2, <1>6 DEF Newer
    <2>2. NewerThan(user, e) \subseteq NewerThan(user, f) /\ e \in NewerThan(user, f)
      BY <1>6, <2>1 DEF NewerThan
    <2>3. NewerThan(user, e) # NewerThan(user, f)
      BY <1>3, <2>2
    <2>4. QED
      BY <1>3, <1>4, <2>2, <2>3
  <1>7. ASSUME NEW e \in S, NEW f \in S,
               Cardinality(NewerThan(user, e)) = Cardinality(NewerThan(user, f))
        PROVE  e = f
    <2>1. ~ Newer(e, f) /\ ~ Newer(f, e)
      BY <1>1, <1>5, <1>6, <1>7
    <2>2. e.seq = f.seq
      BY <1>2, <2>1 DEF Newer
    <2>3. QED
      BY <1>1, <2>2, BookIs
  <1>8. QED
    BY <1>1, <1>5, <1>6, <1>7

LEMMA FirstNumbers ==
    ASSUME NEW n \in Nat
    PROVE  IsFiniteSet(0 .. n - 1) /\ Cardinality(0 .. n - 1) = n
  <1>1. 0 \in Int /\ n - 1 \in Int
    OBVIOUS
  <1>2. /\ IsFiniteSet(0 .. n - 1)
        /\ Cardinality(0 .. n - 1) = IF 0 > n - 1 THEN 0 ELSE (n - 1) - 0 + 1
    BY <1>1, FS_Interval, Zenon
  <1>3. QED
    BY <1>2

(* How many have one of the first ranks.                                      *)
LEMMA FirstRanks ==
    ASSUME NEW S, IsFiniteSet(S), NEW rank \in [S -> 0 .. Cardinality(S) - 1],
           \A x, y \in S : rank[x] = rank[y] => x = y, NEW k \in Nat
    PROVE  Cardinality({x \in S : rank[x] < k}) = IF k < Cardinality(S) THEN k ELSE Cardinality(S)
  <1> DEFINE n == Cardinality(S)
             m == IF k < n THEN k ELSE n
             F == {x \in S : rank[x] < k}
             g == [x \in F |-> rank[x]]
  <1>1. n \in Nat /\ m \in Nat /\ m <= n /\ m <= k
    BY FS_CardinalityType
  <1>2. rank \in Injection(S, 0 .. n - 1)
    BY DEF Injection, IsInjective
  <1>3. IsFiniteSet(0 .. n - 1) /\ Cardinality(0 .. n - 1) = n
    BY <1>1, FirstNumbers
  <1>4. rank \in Surjection(S, 0 .. n - 1)
    BY <1>2, <1>3, FS_Injection
  <1>5. g \in Injection(F, 0 .. m - 1)
    <2>1. \A x \in F : g[x] \in 0 .. m - 1
      BY <1>1
    <2>2. QED
      BY <2>1 DEF Injection, IsInjective
  <1>6. g \in Surjection(F, 0 .. m - 1)
    <2>1. ASSUME NEW i \in 0 .. m - 1 PROVE \E x \in F : g[x] = i
      <3>1. i \in 0 .. n - 1 /\ i < k
        BY <1>1
      <3>2. PICK x \in S : rank[x] = i
        BY <1>4, <3>1 DEF Surjection
      <3>3. QED
        BY <3>1, <3>2
    <2>2. QED
      BY <1>5, <2>1 DEF Surjection, Injection
  <1>7. IsFiniteSet(F) /\ IsFiniteSet(0 .. m - 1) /\ Cardinality(0 .. m - 1) = m
    <2>1. F \in SUBSET S
      OBVIOUS
    <2> HIDE DEF F, m
    <2>2. QED
      BY <1>1, <2>1, FS_Subset, FirstNumbers
  <1> HIDE DEF g
  <1>8. Cardinality(F) = Cardinality(0 .. m - 1)
    BY <1>5, <1>6, <1>7, FS_Injection
  <1>9. QED
    BY <1>7, <1>8

LEMMA UserLedgerSize ==
    ASSUME NEW user
    PROVE  LET latest == UserLedger(Positions, Events, user, PageLimit)
               all == UserLedger(Positions, Events, user, Cardinality(Events))
           IN  /\ all = UserEvents(user)
               /\ Cardinality(latest) = Min({PageLimit, Cardinality(all)})
               /\ \A e \in latest, f \in all \ latest : e.at >= f.at
  <1> DEFINE S == UserEvents(user)
             rank == [e \in S |-> Cardinality(NewerThan(user, e))]
             latest == UserLedger(Positions, Events, user, PageLimit)
             all == UserLedger(Positions, Events, user, Cardinality(Events))
  <1>1. /\ S \subseteq Events /\ IsFiniteSet(S) /\ Cardinality(S) \in Nat
        /\ Cardinality(S) <= Cardinality(Events) /\ Cardinality(Events) \in Nat
    BY RankIs
  <1>2. /\ rank \in [S -> 0 .. Cardinality(S) - 1]
        /\ \A e, f \in S : rank[e] = rank[f] => e = f
        /\ \A e, f \in S : Newer(e, f) => rank[e] < rank[f]
    BY RankIs
  <1>3. all = S
    <2>1. all = {e \in S : Cardinality(NewerThan(user, e)) < Cardinality(Events)}
      BY UserLedgerIs
    <2>2. all = {e \in S : rank[e] < Cardinality(Events)}
      BY <2>1
    <2> HIDE DEF all, rank, S
    <2>3. \A e \in S : rank[e] < Cardinality(Events)
      BY <1>1, <1>2
    <2>4. QED
      BY <2>2, <2>3
  <1>4. latest = {e \in S : rank[e] < PageLimit}
    <2>1. latest = {e \in S : Cardinality(NewerThan(user, e)) < PageLimit}
      BY UserLedgerIs
    <2>2. QED
      BY <2>1
  <1> HIDE DEF latest, all, rank, S
  <1>5. PageLimit \in Nat
    BY ClockAssumption
  <1>6. Cardinality(latest) = Min({PageLimit, Cardinality(S)})
    <2>1. Cardinality({e \in S : rank[e] < PageLimit})
            = IF PageLimit < Cardinality(S) THEN PageLimit ELSE Cardinality(S)
      BY <1>1, <1>2, <1>5, FirstRanks
    <2>2. ASSUME NEW i \in Nat, NEW j \in Nat
          PROVE  Min({i, j}) = IF i < j THEN i ELSE j
      <3>1. (IF i < j THEN i ELSE j) \in {i, j}
              /\ \A y \in {i, j} : (IF i < j THEN i ELSE j) <= y
        OBVIOUS
      <3>2. \A x \in {i, j} : (\A y \in {i, j} : x <= y) => x = IF i < j THEN i ELSE j
        OBVIOUS
      <3>3. QED
        BY <3>1, <3>2, Zenon DEF Min
    <2>3. QED
      BY <1>1, <1>4, <1>5, <2>1, <2>2
  <1>7. ASSUME NEW e \in latest, NEW f \in S \ latest
        PROVE  e.at >= f.at
    <2>1. e \in S /\ f \in S /\ rank[e] < PageLimit /\ ~ (rank[f] < PageLimit)
      BY <1>4
    <2>2. rank[e] \in Int /\ rank[f] \in Int /\ e.at \in Int /\ f.at \in Int
      BY <1>1, <1>2, <2>1, BookIs
    <2>3. ~ Newer(f, e)
      BY <1>2, <1>5, <2>1, <2>2
    <2>4. QED
      BY <2>2, <2>3 DEF Newer
  <1>8. QED
    BY <1>3, <1>6, <1>7 DEF latest, all, S

(* The movements that the two ledgers of a user name are the same.            *)
LEMMA MovesNamed ==
    ASSUME NEW user \in Users, NEW t
    PROVE  LET moved == {r \in Ledger(Positions, Events, UserScope(user), Null, t) :
                            r.kind # "accrual"}
           IN  {r.ref : r \in moved}
                 = {e.seq : e \in {e \in UserEvents(user) :
                                      e.type \in {"deposit", "withdraw", "close"}}}
  <1> DEFINE moved == {r \in Ledger(Positions, Events, UserScope(user), Null, t) :
                          r.kind # "accrual"}
             mine == InScope(Positions, UserScope(user))
             named == {e \in UserEvents(user) : e.type \in {"deposit", "withdraw", "close"}}
  <1>1. mine = {p \in Positions : p.user = user}
    <2>1. user # Null
      BY BookIs DEF Users
    <2>2. QED
      BY <2>1 DEF InScope, UserScope, PartnerScope, Matches
  <1>2. ASSUME NEW p \in Positions, NEW r \in AccrualRows(p, Events, t) PROVE r.kind = "accrual"
    BY DEF AccrualRows
  <1>3. ASSUME NEW r \in moved PROVE \E e \in named : r.ref = e.seq
    <2>1. PICK p \in mine : r \in RowsOf(p, t)
      BY LedgerIs
    <2>2. p \in Positions /\ p.user = user
      BY <1>1
    <2>3. PICK e \in Movements(p, Events) : r = MovementRow(p, Events, e)
      BY <1>2, <2>1, <2>2 DEF RowsOf, MovementRows
    <2>4. r.ref = e.seq
      BY <2>2, <2>3, MovementRowIs
    <2>5. e \in named
      BY <2>2, <2>3 DEF Movements, UserEvents
    <2>6. QED
      BY <2>4, <2>5
  <1>4. ASSUME NEW e \in named PROVE \E r \in moved : r.ref = e.seq
    <2>1. PICK p \in Positions : p.seq = e.position /\ p.user = user
      BY DEF UserEvents
    <2>2. e \in Movements(p, Events)
      BY <2>1 DEF UserEvents, Movements
    <2> DEFINE r == MovementRow(p, Events, e)
    <2>3. r.ref = e.seq /\ r.kind = e.type
      BY <2>2, MovementRowIs
    <2>4. p \in mine /\ r \in RowsOf(p, t)
      BY <1>1, <2>1, <2>2 DEF RowsOf, MovementRows
    <2> HIDE DEF r
    <2>5. r \in Ledger(Positions, Events, UserScope(user), Null, t)
      BY <2>4, LedgerIs
    <2>6. QED
      BY <2>3, <2>5
  <1> HIDE DEF moved, named
  <1>5. {r.ref : r \in moved} = {e.seq : e \in named}
    BY <1>3, <1>4
  <1>6. QED
    BY <1>5 DEF moved, named

LEMMA UsersAgree ==
    ASSUME NEW t \in Int, NEW user \in Users
    PROVE  UserAgreesAt(t, user)
  <1> DEFINE all == UserLedger(Positions, Events, user, Cardinality(Events))
             latest == UserLedger(Positions, Events, user, PageLimit)
             balances == Balances(Positions, UserScope(user), t)
             shown == Active(UserPositions(Positions, user, t))
             moved == {r \in Ledger(Positions, Events, UserScope(user), Null, t) :
                          r.kind # "accrual"}
  <1>1. /\ Total(LAMBDA p : p.current, shown) = Total(LAMBDA b : b.value, balances)
        /\ Total(LAMBDA p : p.accrued, shown) = Total(LAMBDA b : b.accrued, balances)
    BY UserPositionsAddUp, Zenon
  <1>2. /\ all = UserEvents(user)
        /\ Cardinality(latest) = Min({PageLimit, Cardinality(all)})
        /\ \A e \in latest, f \in all \ latest : e.at >= f.at
    BY UserLedgerSize, Zenon
  <1>3. {r.ref : r \in moved}
          = {e.seq : e \in {e \in all : e.type \in {"deposit", "withdraw", "close"}}}
    <2>1. {r.ref : r \in moved}
            = {e.seq : e \in {e \in UserEvents(user) :
                                 e.type \in {"deposit", "withdraw", "close"}}}
      BY MovesNamed, Zenon
    <2>2. QED
      BY <1>2, <2>1
  <1>4. QED
    BY <1>1, <1>2, <1>3, Zenon DEF UserAgreesAt

(* The views of one book agree at every time, for every partner and user: the *)
(* sums of an aggregate, of its breakdown, of the balances and of the day's   *)
(* snapshot are one amount, split alike, and a user's own views come to it.   *)
THEOREM OneBookManyViews == Spec => []ViewsAgree
  <1>1. IInv => ViewsAgree
    <2> SUFFICES ASSUME IInv PROVE ViewsAgree
      OBVIOUS
    <2>1. now \in Nat
      BY ClockAssumption DEF IInv, Shapes
    <2>2. QED
      BY <2>1, PartnersAgree, UsersAgree DEF ViewsAgree
  <1>2. QED
    BY <1>1, InitInv, NextInv, PTL DEF Spec

=============================================================================
