------------------------ MODULE OnboardingTimeProofs ------------------------
(***************************************************************************)
(* Theorems about UserOnboarding that need its clock and its tables whole: *)
(* the types of everything, the patience of a client that is throttled,    *)
(* and the sums of a usage report.                                         *)
(*                                                                         *)
(* They rest on IInv and on Bounded, Timed, Stamped, Announced and         *)
(* Patient.  Bounded is why the clock ends: what all clients may still     *)
(* sleep, added up, only shrinks, and pays for every tick beyond MaxTime.  *)
(* Patient follows the end of a block from the throttler over the wire to  *)
(* the client that sleeps.                                                 *)
(***************************************************************************)
EXTENDS UserOnboardingProofs, SumTheorems

-----------------------------------------------------------------------------
(* Time.                                                                     *)

(* What a client can sleep when it begins its n-th sleep or a later one.      *)
Left(n) == MaxDelay * (MaxRetries - n)

Rest(c) ==
    IF call[c].pc = "done" THEN 0
    ELSE IF call[c].pc # "sleep" THEN Left(call[c].attempt)
    ELSE Left(call[c].attempt + 1) + IF call[c].at <= now THEN 0 ELSE call[c].at - now

Rests == SumFunctionOnSet([c \in Call |-> Rest(c)], Call)

Latest == MaxTime + MaxDelay * MaxRetries * Cardinality(Call)

(* Time passes the bound on itself only for clients that sleep.               *)
Bounded == now + Rests <= Latest /\ MaxTime + Rests <= Latest

Timed ==
    /\ \A c \in Call :
          /\ call[c].external \in ExternalId \cup {Malformed}
          /\ call[c].attempt \in 0 .. MaxRetries /\ call[c].at \in Nat /\ call[c].met \in Nat
          /\ call[c].cut \subseteq 0 .. MaxRetries
          /\ IF call[c].pc = "sleep"
             THEN call[c].attempt < MaxRetries /\ call[c].at <= now + MaxDelay
             ELSE call[c].at <= now
    /\ \A h \in handler : h.started \in 0 .. now /\ h.retry_after \in Nat
    /\ blocked \in [Key \X (Kind \cup {"any"}) -> Nat]

(* Rows are stamped with times that have been.                                *)
Stamped ==
    /\ IsFiniteSet(log \cup unlogged)
    /\ log \cup unlogged \subseteq
          [call : Call, attempt : 0 .. MaxRetries, partner : Partner \cup {Null}, kind : Kind,
           status : Status, ms : 0 .. now, t : 0 .. now]

(* What users are made from, the emits, one for each that has an owner, and   *)
(* the bounds.                                                                *)
Announced ==
    /\ \A h \in handler : h.pc = "insert" => call[h.call].external # Malformed
    /\ \A u \in users : u.external # Malformed /\ u.attempt \in 0 .. MaxRetries
    /\ emits \in Nat /\ emits <= Cardinality({u \in users : Owned(u)})
    /\ {faults, proxied} \subseteq Nat /\ faults <= MaxFaults /\ proxied <= MaxFaults

(* A block that ended at `end`, or the bucket is blocked at least that long,  *)
(* or the process that remembered has died.                                   *)
Remembered(end, bucket) ==
    /\ end <= now + Window
    /\ end <= now \/ blocked[bucket] <= now \/ end <= blocked[bucket]

(* A call has yet to sleep until the end of the block it met, or it will      *)
(* before its retries are over: so far it has slept the most it ever sleeps.  *)
CallPatient(c) ==
    /\ Remembered(call[c].met, BucketOf(c))
    /\ call[c].pc = "idle" => call[c].met = 0
    /\ call[c].pc = "sleep" =>
          \/ call[c].met <= call[c].at
          \/ call[c].met + MaxDelay * (call[c].attempt + 1) <= call[c].at + Window
    /\ call[c].pc \in {"send", "await"} =>
          \/ call[c].met <= now
          \/ call[c].met + MaxDelay * call[c].attempt <= now + Window

(* Nor does the answer on its way send it back before that.                   *)
Patient ==
    /\ \A b \in DOMAIN blocked : blocked[b] <= now + Window
    /\ \A c \in Call : CallPatient(c)
    /\ \A h \in handler : h.pc = "wire" /\ h.status = 429 =>
          /\ Remembered(h.started + h.retry_after, BucketOf(h.call))
          /\ h.retry_after <= Window
          /\ Awaited(h) => \/ call[h.call].met <= now
                           \/ call[h.call].met <= h.started + h.retry_after

-----------------------------------------------------------------------------
(* How a call moves, as far as time is concerned.                            *)

LEMMA BackoffIs ==
    ASSUME NEW n \in Nat
    PROVE  /\ Backoff(n) \in 0 .. MaxDelay /\ (Backoff(n) = n \/ Backoff(n) = MaxDelay)
           /\ n <= MaxDelay => Backoff(n) = n
  <1>1. MaxDelay \in Nat
    BY LimitAssumption
  <1>2. \E x \in {n, MaxDelay} : \A y \in {n, MaxDelay} : x <= y
    BY <1>1
  <1>3. Backoff(n) \in {n, MaxDelay} /\ \A y \in {n, MaxDelay} : Backoff(n) <= y
    BY <1>2 DEF Backoff, Min
  <1>4. QED
    BY <1>1, <1>3

LEMMA LeftIs ==
    ASSUME NEW n \in 0 .. MaxRetries
    PROVE  /\ Left(n) \in Nat
           /\ n < MaxRetries => Left(n + 1) \in Nat /\ Left(n) = MaxDelay + Left(n + 1)
  <1>1. MaxDelay \in Nat /\ MaxRetries \in Nat
    BY LimitAssumption
  <1>2. \A a, b \in Nat : a * b \in Nat /\ a * (b + 1) = a + a * b
    BY SMT
  <1>3. MaxRetries - n \in Nat
    BY <1>1
  <1>4. n < MaxRetries => MaxRetries - (n + 1) \in Nat /\ MaxRetries - n = (MaxRetries - (n + 1)) + 1
    BY <1>1
  <1>5. QED
    BY <1>1, <1>2, <1>3, <1>4 DEF Left

(* The fields of a call that the clock is about.                             *)
SameTimes(s, new) == new.attempt = s.attempt /\ new.at = s.at /\ new.met = s.met

Starts(s, new) ==
    /\ SameTimes(s, new)
    /\ \/ s.pc = "idle" /\ new.pc = "send"
       \/ s.pc = "send" /\ new.pc = "await"

Wakes(s, new) ==
    /\ s.pc = "sleep" /\ s.at <= now /\ new.pc = "send"
    /\ new.attempt = s.attempt + 1 /\ new.at = s.at /\ new.met = s.met

Stops(s, new) ==
    s.pc \in {"send", "await"} /\ new.pc = "done" /\ new.attempt = s.attempt
    /\ new.at = 0 /\ new.met = 0

(* After the answer h.                                                       *)
Sleeps(h, s, new) ==
    /\ h.pc = "wire" /\ Awaited(h) /\ s = call[h.call] /\ s.attempt < MaxRetries
    /\ new.pc = "sleep" /\ new.attempt = s.attempt
    /\ new.at = now + Backoff(h.retry_after)
    /\ new.met = IF h.status # 429 THEN 0
                 ELSE IF s.attempt = 0 THEN h.started + h.retry_after ELSE s.met

(* After an answer of the proxy, which asks for no delay.                    *)
Fails(s, new) ==
    /\ s.pc \in {"send", "await"} /\ s.attempt < MaxRetries
    /\ new.pc = "sleep" /\ new.attempt = s.attempt
    /\ new.at = now + Backoff(0) /\ new.met = 0

Moves(c, new) ==
    /\ call' = [call EXCEPT ![c] = new] /\ now' = now
    /\ new.external \in {call[c].external} \cup ExternalId \cup {Malformed}
    /\ new.cut \in {call[c].cut} \cup SUBSET (call[c].cut \cup {call[c].attempt})
    /\ \/ Starts(call[c], new) \/ Wakes(call[c], new) \/ Stops(call[c], new)
       \/ Fails(call[c], new)
       \/ \E h \in handler : h.call = c /\ Sleeps(h, call[c], new)
    /\ call[c].pc # "idle" => new.external = call[c].external /\ new.key = call[c].key
    /\ new.pc # "idle"

LEMMA BeginMoves ==
    ASSUME IInv, NEW c \in Call, Begin(c)
    PROVE  \E new : Moves(c, new)
  <1>1. call[c].pc = "idle" /\ IsCall(call[c]) /\ now' = now
    BY DEF Begin, IInv, Shapes
  <1>2. PICK ask \in [key : Key, kind : Kind, external : ExternalId \cup {Malformed}] :
          call' = [call EXCEPT ![c] =
                      [@ EXCEPT !.pc = "send", !.key = ask.key, !.kind = ask.kind,
                                !.external = ask.external,
                                !.known = \E u \in users : u.external = ask.external]]
    BY AsksAssumption DEF Begin, Kind
  <1> DEFINE known == \E u \in users : u.external = ask.external
             new == [call[c] EXCEPT !.pc = "send", !.key = ask.key, !.kind = ask.kind,
                                    !.external = ask.external, !.known = known]
  <1>3. call' = [call EXCEPT ![c] = new]
    BY <1>2 DEF IInv, Shapes
  <1> HIDE DEF known
  <1>4. /\ new.pc = "send" /\ SameTimes(call[c], new) /\ new.cut = call[c].cut
        /\ new.external \in ExternalId \cup {Malformed}
    BY <1>1 DEF IsCall, SameTimes
  <1> HIDE DEF new
  <1>5. QED
    BY <1>1, <1>3, <1>4 DEF Moves, Starts

LEMMA TimerMoves ==
    ASSUME IInv, NEW c \in Call, Wake(c) \/ GiveUp(c)
    PROVE  \E new : Moves(c, new)
  <1>1. IsCall(call[c]) /\ now' = now
    BY DEF Wake, GiveUp, IInv, Shapes
  <1>2. CASE Wake(c)
    <2> DEFINE new == [call[c] EXCEPT !.pc = "send", !.attempt = call[c].attempt + 1]
    <2>1. call' = [call EXCEPT ![c] = new] /\ call[c].pc = "sleep" /\ call[c].at <= now
      BY <1>2 DEF Wake, IInv, Shapes
    <2>2. /\ new.pc = "send" /\ new.attempt = call[c].attempt + 1 /\ new.at = call[c].at
          /\ new.met = call[c].met /\ new.external = call[c].external /\ new.key = call[c].key
          /\ new.cut = call[c].cut
      BY <1>1 DEF IsCall
    <2> HIDE DEF new
    <2>3. QED
      BY <1>1, <2>1, <2>2 DEF Moves, Wakes
  <1>3. CASE GiveUp(c)
    <2> DEFINE new == [call[c] EXCEPT !.pc = "done", !.result = NetworkError, !.at = 0,
                                      !.met = 0]
    <2>1. call' = [call EXCEPT ![c] = new] /\ call[c].pc \in {"send", "await"}
      BY <1>3 DEF GiveUp, Ended, IInv, Shapes
    <2>2. /\ new.pc = "done" /\ new.attempt = call[c].attempt /\ new.at = 0
          /\ new.met = 0 /\ new.external = call[c].external /\ new.key = call[c].key
          /\ new.cut = call[c].cut
      BY <1>1 DEF IsCall
    <2> HIDE DEF new
    <2>3. QED
      BY <1>1, <2>1, <2>2 DEF Moves, Stops
  <1>4. QED
    BY <1>2, <1>3

LEMMA ReceiveMoves ==
    ASSUME IInv, NEW h \in handler, Receive(h)
    PROVE  \E new : Moves(h.call, new)
  <1> DEFINE c == h.call
             met == IF h.status # 429 THEN 0
                    ELSE IF call[c].attempt = 0 THEN h.started + h.retry_after ELSE call[c].met
             at == now + Backoff(h.retry_after)
             sleep == [call[c] EXCEPT !.pc = "sleep", !.at = at, !.met = met]
             done == [call[c] EXCEPT !.pc = "done", !.result = h.status, !.at = 0, !.met = 0]
  <1>1. c \in Call /\ IsCall(call[c]) /\ now' = now /\ h.pc = "wire" /\ Awaited(h)
        /\ call[c].pc = "await"
    BY DEF Receive, Awaited, IInv, Shapes, IsHandler
  <1>2. \/ call[c].attempt < MaxRetries /\ call' = [call EXCEPT ![c] = sleep]
        \/ call' = [call EXCEPT ![c] = done]
    BY DEF Receive, Ended
  <1> HIDE DEF met, at
  <1>3. /\ sleep.pc = "sleep" /\ sleep.attempt = call[c].attempt /\ sleep.at = at
        /\ sleep.met = met /\ sleep.external = call[c].external /\ sleep.key = call[c].key
        /\ sleep.cut = call[c].cut
    BY <1>1 DEF IsCall
  <1>4. /\ done.pc = "done" /\ done.attempt = call[c].attempt /\ done.at = 0
        /\ done.met = 0 /\ done.external = call[c].external /\ done.key = call[c].key
        /\ done.cut = call[c].cut
    BY <1>1 DEF IsCall
  <1> HIDE DEF sleep, done
  <1>5. CASE call[c].attempt < MaxRetries /\ call' = [call EXCEPT ![c] = sleep]
    <2>1. Sleeps(h, call[c], sleep)
      BY <1>1, <1>3, <1>5 DEF Sleeps, at, met
    <2>2. QED
      BY <1>1, <1>3, <1>5, <2>1 DEF Moves
  <1>6. CASE call' = [call EXCEPT ![c] = done]
    BY <1>1, <1>4, <1>6 DEF Moves, Stops
  <1>7. QED
    BY <1>2, <1>5, <1>6

LEMMA ProxyMoves ==
    ASSUME IInv, NEW c \in Call, ProxyFails(c)
    PROVE  \E new : Moves(c, new) /\ new.pc \in {"sleep", "done"}
                     /\ (new.pc = "done" => new.result = BadGateway)
  <1>1. call[c].pc \in {"send", "await"} /\ IsCall(call[c]) /\ now' = now
    BY DEF ProxyFails, IInv, Shapes
  <1>2. PICK cut : cut = {h.attempt : h \in {h \in handler : h.call = c /\ Awaited(h) /\ Creating(h)}}
    OBVIOUS
  <1>3. cut \subseteq {call[c].attempt}
    BY <1>2 DEF Awaited
  <1>4. PICK at : at = now + Backoff(0)
    OBVIOUS
  <1> DEFINE sleep == [call[c] EXCEPT !.cut = @ \cup cut, !.met = 0, !.pc = "sleep", !.at = at]
             done == [call[c] EXCEPT !.cut = @ \cup cut, !.met = 0, !.pc = "done",
                                     !.result = BadGateway, !.at = 0]
  <1>5. \/ call' = [call EXCEPT ![c] = sleep] /\ call[c].attempt < MaxRetries
        \/ call' = [call EXCEPT ![c] = done]
    BY <1>2, <1>4 DEF ProxyFails
  <1>6. /\ sleep.pc = "sleep" /\ sleep.attempt = call[c].attempt /\ sleep.at = at
        /\ sleep.met = 0 /\ sleep.external = call[c].external /\ sleep.key = call[c].key
        /\ sleep.cut = call[c].cut \cup cut
    BY <1>1 DEF IsCall
  <1>7. /\ done.pc = "done" /\ done.attempt = call[c].attempt /\ done.at = 0
        /\ done.met = 0 /\ done.external = call[c].external /\ done.key = call[c].key
        /\ done.cut = call[c].cut \cup cut /\ done.result = BadGateway
    BY <1>1 DEF IsCall
  <1> HIDE DEF sleep, done
  <1>8. CASE call' = [call EXCEPT ![c] = sleep] /\ call[c].attempt < MaxRetries
    <2>1. Fails(call[c], sleep)
      BY <1>1, <1>4, <1>6, <1>8 DEF Fails
    <2>2. QED
      BY <1>1, <1>3, <1>6, <1>8, <2>1 DEF Moves
  <1>9. CASE call' = [call EXCEPT ![c] = done]
    <2>1. Stops(call[c], done)
      BY <1>1, <1>7 DEF Stops
    <2>2. QED
      BY <1>1, <1>3, <1>7, <1>9, <2>1 DEF Moves
  <1>10. QED
    BY <1>5, <1>8, <1>9

LEMMA ArrivedMoves ==
    ASSUME IInv, NEW c \in Call, Arrived(c), UNCHANGED now
    PROVE  \E new : Moves(c, new) /\ new = [call[c] EXCEPT !.pc = "await"]
  <1> DEFINE new == [call[c] EXCEPT !.pc = "await"]
  <1>1. call[c].pc = "send" /\ call' = [call EXCEPT ![c] = new] /\ IsCall(call[c])
    BY DEF Arrived, IInv, Shapes
  <1>2. /\ new.pc = "await" /\ SameTimes(call[c], new) /\ new.cut = call[c].cut
        /\ new.external = call[c].external /\ new.key = call[c].key
    BY <1>1 DEF IsCall, SameTimes
  <1> HIDE DEF new
  <1>3. Moves(c, new)
    BY <1>1, <1>2 DEF Moves, Starts
  <1>4. QED
    BY <1>3 DEF new

(* All that a step can do to a call and to the clock.                         *)
LEMMA StepMoves ==
    ASSUME IInv, [Next]_vars
    PROVE  \/ call' = call /\ now' = now
           \/ call' = call /\ Tick
           \/ \E c \in Call : \E new : Moves(c, new)
  <1>1. \A h \in handler : h.call \in Call
    BY DEF IInv, Shapes, IsHandler
  <1>2. CASE \E c \in Call : Client(c)
    BY <1>2, BeginMoves, TimerMoves, ProxyMoves DEF Client
  <1>3. CASE \E c \in Call : Arrive(c)
    <2>1. PICK c \in Call : Arrived(c) /\ UNCHANGED now
      BY <1>3 DEF Arrive, Throttle, LacksScope, NoPartner, Admit
    <2>2. QED
      BY <2>1, ArrivedMoves
  <1>4. CASE \E h \in handler : Handle(h) \/ Unheard(h) \/ StatementFails(h)
    BY <1>4 DEF Handle, Unheard, StatementFails, Check, InsertUser, AttributionRead,
                AttributionInsert, UsageSelect
  <1>5. CASE \E h \in handler : Receive(h)
    BY <1>1, <1>5, ReceiveMoves
  <1>6. CASE LogInsert \/ Emit \/ LogInsertFails \/ Crash \/ EmitRejects
    BY <1>6 DEF LogInsert, Emit, LogInsertFails, Crash, EmitRejects, ProcessDies
  <1>7. CASE Tick
    BY <1>7 DEF Tick
  <1>8. CASE UNCHANGED vars
    BY <1>8 DEF vars
  <1>9. QED
    BY <1>2, <1>3, <1>4, <1>5, <1>6, <1>7, <1>8 DEF Next, Answer

(* One call has moved, the others have not.                                   *)
LEMMA OneMoves ==
    ASSUME IInv, NEW c \in Call, NEW new, Moves(c, new)
    PROVE  call'[c] = new /\ \A d \in Call \ {c} : call'[d] = call[d]
  <1>1. call = [d \in Call |-> call[d]] /\ call' = [call EXCEPT ![c] = new]
    BY DEF IInv, Shapes, Moves
  <1>2. QED
    BY <1>1

-----------------------------------------------------------------------------
(* The clock.                                                                 *)

LEMMA RestIs ==
    ASSUME Timed, Shapes, NEW c \in Call
    PROVE  Rest(c) \in Nat
  <1>1. /\ call[c].attempt \in 0 .. MaxRetries /\ call[c].at \in Nat /\ now \in Nat
        /\ call[c].pc = "sleep" => call[c].attempt < MaxRetries
    BY DEF Timed, Shapes
  <1>2. Left(call[c].attempt) \in Nat
        /\ (call[c].attempt < MaxRetries => Left(call[c].attempt + 1) \in Nat)
    BY <1>1, LeftIs
  <1>3. QED
    BY <1>1, <1>2 DEF Rest

LEMMA RestsAre ==
    ASSUME Timed, Shapes
    PROVE  Integral([c \in Call |-> Rest(c)], Call) /\ Rests \in Nat
  <1> DEFINE v == [c \in Call |-> Rest(c)]
  <1>1. \A c \in Call : v[c] \in Nat
    BY RestIs
  <1> HIDE DEF v
  <1>2. IsFiniteSet(Call)
    BY AsksAssumption
  <1>3. Integral(v, Call) /\ SumFunctionOnSet(v, Call) \in Nat
    BY <1>1, <1>2, SumIsNatural DEF Integral
  <1>4. QED
    BY <1>3 DEF v, Rests

(* A call that moves has nothing more to sleep than before.                   *)
LEMMA RestShrinks ==
    ASSUME IInv, Timed, NEW c \in Call, NEW new, Moves(c, new)
    PROVE  Rest(c)' \in Nat /\ Rest(c)' <= Rest(c)
  <1> DEFINE s == call[c]
  <1>1. /\ s.attempt \in 0 .. MaxRetries /\ s.at \in Nat /\ now \in Nat
        /\ s.pc = "sleep" => s.attempt < MaxRetries
    BY DEF Timed, IInv, Shapes
  <1>2. /\ Left(s.attempt) \in Nat
        /\ s.attempt < MaxRetries =>
              Left(s.attempt + 1) \in Nat /\ Left(s.attempt) = MaxDelay + Left(s.attempt + 1)
    BY <1>1, LeftIs
  <1>3. call'[c] = new /\ now' = now
    BY OneMoves DEF Moves
  <1>4. Rest(c) \in Nat
    BY RestIs DEF IInv
  <1>5. Rest(c)' = IF new.pc = "done" THEN 0
                   ELSE IF new.pc # "sleep" THEN Left(new.attempt)
                   ELSE Left(new.attempt + 1) + IF new.at <= now THEN 0 ELSE new.at - now
    BY <1>3 DEF Rest, Left
  <1>6. CASE Starts(s, new)
    BY <1>2, <1>5, <1>6 DEF Starts, SameTimes, Rest
  <1>7. CASE Wakes(s, new)
    BY <1>1, <1>2, <1>5, <1>7 DEF Wakes, Rest
  <1>8. CASE Stops(s, new)
    BY <1>4, <1>5, <1>8 DEF Stops
  <1>9. CASE \E h \in handler : h.call = c /\ Sleeps(h, s, new)
    <2>1. PICK h \in handler : h.call = c /\ Sleeps(h, s, new)
      BY <1>9
    <2>2. Backoff(h.retry_after) \in 0 .. MaxDelay
      BY BackoffIs DEF Timed
    <2>3. /\ new.pc = "sleep" /\ new.attempt = s.attempt /\ s.attempt < MaxRetries
          /\ new.at = now + Backoff(h.retry_after)
          /\ s.pc = "await"
      BY <2>1 DEF Sleeps, Awaited
    <2>4. MaxDelay \in Nat
      BY LimitAssumption
    <2>5. Rest(c)' = Left(s.attempt + 1) + Backoff(h.retry_after)
      BY <1>1, <1>5, <2>2, <2>3, <2>4
    <2>6. Rest(c) = Left(s.attempt)
      BY <2>3 DEF Rest
    <2>7. QED
      BY <1>1, <1>2, <2>2, <2>3, <2>4, <2>5, <2>6
  <1>10. CASE Fails(s, new)
    <2>1. Backoff(0) \in 0 .. MaxDelay
      BY BackoffIs
    <2>2. /\ new.pc = "sleep" /\ new.attempt = s.attempt /\ s.attempt < MaxRetries
          /\ new.at = now + Backoff(0) /\ s.pc \notin {"sleep", "done"}
      BY <1>10 DEF Fails
    <2>3. MaxDelay \in Nat
      BY LimitAssumption
    <2>4. Rest(c)' = Left(s.attempt + 1) + Backoff(0)
      BY <1>1, <1>5, <2>1, <2>2, <2>3
    <2>5. Rest(c) = Left(s.attempt)
      BY <2>2 DEF Rest
    <2>6. QED
      BY <1>1, <1>2, <2>1, <2>2, <2>3, <2>4, <2>5
  <1>11. QED
    BY <1>6, <1>7, <1>8, <1>9, <1>10 DEF Moves

LEMMA LatestIs == Latest \in Nat
  <1>1. MaxDelay * MaxRetries \in Nat /\ Cardinality(Call) \in Nat /\ MaxTime \in Nat
    <2>1. \A a, b \in Nat : a * b \in Nat
      BY SMT
    <2>2. QED
      BY <2>1, LimitAssumption, AsksAssumption, FS_CardinalityType
  <1>2. \A a, b \in Nat : a * b \in Nat
    BY SMT
  <1>3. QED
    BY <1>1, <1>2 DEF Latest

LEMMA BoundedStep ==
    ASSUME IInv, Timed, Bounded, [Next]_vars
    PROVE  Bounded'
  <1> DEFINE v == [c \in Call |-> Rest(c)]
             w == [c \in Call |-> Rest(c)']
  <1>1. /\ Integral(v, Call) /\ Rests = SumFunctionOnSet(v, Call)
        /\ Rests' = SumFunctionOnSet(w, Call) /\ Rests \in Nat
    BY RestsAre DEF Rests, IInv
  <1>2. now \in Nat /\ MaxTime \in Nat /\ IsFiniteSet(Call)
    BY LimitAssumption, AsksAssumption DEF IInv, Shapes
  <1>3. /\ \A c \in Call : v[c] = Rest(c) /\ w[c] = Rest(c)'
        /\ \A c \in Call : Rest(c) \in Nat
    BY RestIs DEF IInv
  <1> HIDE DEF v, w
  <1>4. ASSUME \A c \in Call : Rest(c)' \in Nat /\ Rest(c)' <= Rest(c)
        PROVE  Integral(w, Call) /\ Rests' \in Int /\ Rests' <= Rests
    <2>1. Integral(w, Call)
      BY <1>2, <1>3, <1>4 DEF Integral
    <2>2. QED
      BY <1>1, <1>3, <1>4, <2>1, SumIsInteger, SumAtMost
  <1>5. Latest \in Int /\ Latest' = Latest
    BY LatestIs DEF Latest
  <1>6. CASE call' = call /\ now' = now
    <2>1. Rests' = Rests
      BY <1>6 DEF Rests, Rest, Left
    <2>2. QED
      BY <1>6, <2>1, <1>5 DEF Bounded
  <1>7. CASE \E c \in Call : \E new : Moves(c, new)
    <2>0. PICK c \in Call : \E new : Moves(c, new)
      BY <1>7
    <2>1. PICK new : Moves(c, new)
      BY <2>0
    <2>2. ASSUME NEW d \in Call
          PROVE  Rest(d)' \in Nat /\ Rest(d)' <= Rest(d)
      <3>1. CASE d = c
        BY <2>1, <3>1, RestShrinks
      <3>2. CASE d # c
        <4>1. Rest(d)' = Rest(d)
          BY <2>1, <3>2, OneMoves DEF Moves, Rest, Left
        <4>2. QED
          BY <4>1, <1>3
      <3>3. QED
        BY <3>1, <3>2
    <2>3. now' = now
      BY <2>1 DEF Moves
    <2>4. QED
      BY <1>1, <1>2, <1>4, <1>5, <2>2, <2>3 DEF Bounded
  <1>8. CASE call' = call /\ Tick
    <2>1. now' = now + 1
      BY <1>8 DEF Tick
    <2>2. ASSUME NEW d \in Call
          PROVE  /\ Rest(d)' \in Nat /\ Rest(d)' <= Rest(d)
                 /\ call[d].pc = "sleep" /\ now < call[d].at => Rest(d)' <= Rest(d) - 1
      <3>1. /\ call[d].attempt \in 0 .. MaxRetries /\ call[d].at \in Nat
            /\ call[d].pc = "sleep" => call[d].attempt < MaxRetries
        BY DEF Timed
      <3>2. Left(call[d].attempt) \in Nat
            /\ (call[d].attempt < MaxRetries => Left(call[d].attempt + 1) \in Nat)
        BY <3>1, LeftIs
      <3>3. Rest(d)' = IF call[d].pc = "done" THEN 0
                       ELSE IF call[d].pc # "sleep" THEN Left(call[d].attempt)
                       ELSE Left(call[d].attempt + 1)
                              + IF call[d].at <= now + 1 THEN 0 ELSE call[d].at - (now + 1)
        BY <1>8, <2>1 DEF Rest, Left
      <3>4. QED
        BY <1>2, <3>1, <3>2, <3>3 DEF Rest
    <2>3. Integral(w, Call) /\ Rests' \in Int /\ Rests' <= Rests
      BY <1>4, <2>2
    <2>4. CASE now < MaxTime
      BY <1>1, <1>2, <1>5, <2>1, <2>3, <2>4 DEF Bounded
    <2>5. CASE \E c \in Call : call[c].pc = "sleep" /\ now < call[c].at
      <3>1. PICK c \in Call : call[c].pc = "sleep" /\ now < call[c].at
        BY <2>5
      <3> DEFINE R == Call \ {c}
      <3>2. /\ SumFunctionOnSet(v, Call) = v[c] + SumFunctionOnSet(v, R)
            /\ SumFunctionOnSet(w, Call) = w[c] + SumFunctionOnSet(w, R)
        BY <1>1, <2>3, SumTakesOut
      <3>3. Integral(v, R) /\ Integral(w, R)
        BY <1>1, <2>3, IntegralPart
      <3>4. /\ SumFunctionOnSet(v, R) \in Int /\ SumFunctionOnSet(w, R) \in Int
            /\ SumFunctionOnSet(w, R) <= SumFunctionOnSet(v, R)
        BY <3>3, <1>3, <2>2, SumIsInteger, SumAtMost
      <3>5. w[c] <= v[c] - 1 /\ w[c] \in Nat /\ v[c] \in Nat
        BY <1>3, <2>2, <3>1
      <3> HIDE DEF R
      <3>6. Rests' <= Rests - 1
        BY <1>1, <3>2, <3>4, <3>5
      <3>7. QED
        BY <1>1, <1>2, <1>5, <2>1, <2>3, <3>6 DEF Bounded
    <2>6. QED
      BY <1>8, <2>4, <2>5 DEF Tick
  <1>9. QED
    BY <1>6, <1>7, <1>8, StepMoves

-----------------------------------------------------------------------------
(* What else a step does.                                                     *)

(* A handler has taken a step, and has not met the throttler in it.           *)
Heir(h, g) ==
    /\ g.call = h.call /\ g.started = h.started /\ g.retry_after = h.retry_after
    /\ g.pc = "wire" => g.status # 429
    /\ g.pc = "insert" => call[h.call].external # Malformed

(* An attempt that has just arrived, and passed the throttler.                *)
Fresh(c, g) ==
    /\ Arrived(c) /\ g.call = c /\ g.started = now /\ g.retry_after = 0 /\ g.status # 429
    /\ g.pc # "insert"

(* Until when the throttler blocks the next request.                          *)
Until(b) == IF now < blocked[b] THEN blocked[b] ELSE now + Window

(* One that has not.                                                          *)
Refused(c, g) ==
    /\ Throttle(c) /\ g.call = c /\ g.started = now /\ g.pc = "wire" /\ g.status = 429
    /\ g.retry_after = Until(BucketOf(c)) - now

LEMMA HandlerHeir ==
    ASSUME IInv, NEW h \in handler, Handle(h) \/ StatementFails(h), NEW g \in handler'
    PROVE  call' = call /\ now' = now /\ (g \in handler \/ Heir(h, g))
  <1>1. IsHandler(h)
    BY DEF IInv, Shapes
  <1>2. ASSUME NEW status \in {200, 400, 500}, Outcome(h, status)
        PROVE  g \in handler \/ Heir(h, g)
    <2> DEFINE i == [h EXCEPT !.pc = "wire", !.status = status]
    <2>1. handler' = (handler \ {h}) \cup {i}
      BY <1>2 DEF Outcome
    <2>2. /\ i.call = h.call /\ i.started = h.started /\ i.retry_after = h.retry_after
          /\ i.pc = "wire" /\ i.status = status
      BY <1>1 DEF IsHandler
    <2> HIDE DEF i
    <2>3. QED
      BY <2>1, <2>2 DEF Heir
  <1>3. ASSUME NEW pc \in {"insert", "attr_read", "attr_insert"}, NEW user, GoTo(h, pc, user),
               pc = "insert" => call[h.call].external # Malformed
        PROVE  g \in handler \/ Heir(h, g)
    <2> DEFINE i == [h EXCEPT !.pc = pc, !.user = user]
    <2>1. handler' = (handler \ {h}) \cup {i}
      BY <1>3 DEF GoTo
    <2>2. /\ i.call = h.call /\ i.started = h.started /\ i.retry_after = h.retry_after
          /\ i.pc = pc
      BY <1>1 DEF IsHandler
    <2> HIDE DEF i
    <2>3. QED
      BY <1>3, <2>1, <2>2 DEF Heir
  <1>4. CASE Check(h)
    BY <1>2, <1>3, <1>4 DEF Check
  <1>5. CASE InsertUser(h)
    BY <1>3, <1>5 DEF InsertUser
  <1>6. CASE AttributionRead(h)
    BY <1>2, <1>3, <1>6 DEF AttributionRead
  <1>7. CASE AttributionInsert(h)
    BY <1>2, <1>7 DEF AttributionInsert
  <1>8. CASE UsageSelect(h)
    BY <1>2, <1>8 DEF UsageSelect
  <1>9. CASE StatementFails(h)
    BY <1>2, <1>9 DEF StatementFails
  <1>10. QED
    BY <1>4, <1>5, <1>6, <1>7, <1>8, <1>9 DEF Handle

LEMMA NewIsFresh ==
    ASSUME NEW c \in Call, NEW pc \in {"wire", "check", "usage"}, NEW status \in {400, 403, 500},
           Arrived(c), NEW g, g = NewHandler(c, pc, status)
    PROVE  Fresh(c, g)
  BY DEF NewHandler, Fresh

LEMMA HandlersMove ==
    ASSUME IInv, [Next]_vars, NEW g \in handler'
    PROVE  \/ g \in handler
           \/ call' = call /\ now' = now /\ \E h \in handler : Heir(h, g)
           \/ now' = now /\ \E c \in Call : Fresh(c, g) \/ Refused(c, g)
  <1>1. CASE \E c \in Call : Client(c)
    BY <1>1 DEF Client, Begin, Wake, GiveUp, ProxyFails
  <1>2. CASE \E c \in Call : Arrive(c)
    <2>1. PICK c \in Call : Arrive(c)
      BY <1>2
    <2>2. now' = now
      BY <2>1 DEF Arrive, Throttle, LacksScope, NoPartner, Admit
    <2>3. CASE Throttle(c)
      <3> DEFINE b == BucketOf(c)
                 r == Until(b) - now
                 i == [NewHandler(c, "wire", 429) EXCEPT !.retry_after = r]
      <3>1. handler' = handler \cup {i}
        BY <2>3 DEF Throttle, Until
      <3> HIDE DEF r
      <3>2. /\ i.call = c /\ i.started = now /\ i.pc = "wire" /\ i.status = 429
            /\ i.retry_after = r
        BY DEF NewHandler
      <3> HIDE DEF i
      <3>3. g \in handler \/ Refused(c, g)
        BY <2>3, <3>1, <3>2 DEF Refused, r
      <3>4. QED
        BY <2>2, <3>3
    <2>4. CASE LacksScope(c)
      <3>1. g \in handler \/ g = NewHandler(c, "wire", 403)
        BY <2>4 DEF LacksScope
      <3>2. Arrived(c)
        BY <2>4 DEF LacksScope
      <3>3. QED
        BY <2>2, <3>1, <3>2, NewIsFresh
    <2>5. CASE NoPartner(c)
      <3>1. PICK status \in {400, 403} : g \in handler \/ g = NewHandler(c, "wire", status)
        BY <2>5 DEF NoPartner, Refusals
      <3>2. Arrived(c)
        BY <2>5 DEF NoPartner
      <3>3. QED
        BY <2>2, <3>1, <3>2, NewIsFresh
    <2>6. CASE Admit(c)
      <3>1. PICK pc \in {"check", "usage"} : g \in handler \/ g = NewHandler(c, pc, 500)
        BY <2>6 DEF Admit
      <3>2. Arrived(c)
        BY <2>6 DEF Admit
      <3>3. QED
        BY <2>2, <3>1, <3>2, NewIsFresh
    <2>7. QED
      BY <2>1, <2>3, <2>4, <2>5, <2>6 DEF Arrive
  <1>3. CASE \E h \in handler : Handle(h) \/ StatementFails(h)
    BY <1>3, HandlerHeir
  <1>4. CASE \E h \in handler : Answer(h)
    BY <1>4 DEF Answer, Receive, Unheard
  <1>5. CASE LogInsert \/ Emit \/ LogInsertFails \/ Crash \/ EmitRejects \/ Tick
    BY <1>5 DEF LogInsert, Emit, LogInsertFails, Crash, EmitRejects, ProcessDies, Tick
  <1>6. CASE UNCHANGED vars
    BY <1>6 DEF vars
  <1>7. QED
    BY <1>1, <1>2, <1>3, <1>4, <1>5, <1>6 DEF Next

LEMMA BlockedMoves ==
    ASSUME IInv, [Next]_vars
    PROVE  \/ blocked' = blocked /\ now' = now
           \/ \E c \in Call : Throttle(c)
           \/ blocked' = [b \in DOMAIN blocked |-> 0] /\ now' = now
           \/ Tick
  <1>1. CASE \E c \in Call : Client(c)
    BY <1>1 DEF Client, Begin, Wake, GiveUp, ProxyFails, throttler
  <1>2. CASE \E c \in Call : Arrive(c)
    BY <1>2 DEF Arrive, LacksScope, NoPartner, Admit, Hit
  <1>3. CASE \E h \in handler : Handle(h) \/ StatementFails(h) \/ Answer(h)
    BY <1>3 DEF Handle, StatementFails, Answer, Receive, Unheard, Check, InsertUser,
                AttributionRead, AttributionInsert, UsageSelect, throttler
  <1>4. CASE LogInsert \/ Emit \/ LogInsertFails \/ Crash \/ EmitRejects \/ Tick
    BY <1>4 DEF LogInsert, Emit, LogInsertFails, Crash, EmitRejects, ProcessDies, throttler
  <1>5. CASE UNCHANGED vars
    BY <1>5 DEF vars
  <1>6. QED
    BY <1>1, <1>2, <1>3, <1>4, <1>5 DEF Next

(* The rows that are there or on their way: one more at most.                 *)
LEMMA RowsMove ==
    ASSUME IInv, [Next]_vars
    PROVE  \/ log' \cup unlogged' \subseteq log \cup unlogged
           \/ /\ now' = now
              /\ \E h \in handler, status \in Status :
                    log' \cup unlogged' = (log \cup unlogged) \cup {RowOf(h, status)}
           \/ /\ now' = now
              /\ \E c \in Call, status \in Status :
                    log' \cup unlogged'
                       = (log \cup unlogged) \cup {RowOf(NewHandler(c, "wire", status), status)}
  <1>1. CASE \E c \in Call : Client(c)
    BY <1>1 DEF Client, Begin, Wake, GiveUp, ProxyFails, accounting
  <1>2. CASE \E c \in Call : Arrive(c)
    <2>1. PICK c \in Call : Arrive(c)
      BY <1>2
    <2>2. CASE NoPartner(c)
      <3>1. now' = now /\ Refusals(c) \subseteq Status
        BY <2>2 DEF NoPartner, Refusals, Status
      <3>2. \E status \in Refusals(c) :
               log' \cup unlogged'
                  = (log \cup unlogged) \cup {RowOf(NewHandler(c, "wire", status), status)}
        BY <2>2 DEF NoPartner, Record
      <3>3. QED
        BY <3>1, <3>2
    <2>3. QED
      BY <2>1, <2>2 DEF Arrive, Throttle, LacksScope, Admit, accounting
  <1>3. CASE \E h \in handler : Handle(h) \/ StatementFails(h)
    <2>1. PICK h \in handler : Handle(h) \/ StatementFails(h)
      BY <1>3
    <2>2. ASSUME NEW status \in {200, 400, 500}, Outcome(h, status)
          PROVE  \E s \in Status :
                    log' \cup unlogged' = (log \cup unlogged) \cup {RowOf(h, s)}
      BY <2>2 DEF Outcome, Record, Status
    <2>3. /\ now' = now
          /\ \/ log' = log /\ unlogged' = unlogged
             \/ \E status \in {200, 400, 500} : Outcome(h, status)
      BY <2>1 DEF Handle, StatementFails, Check, InsertUser, AttributionRead,
                  AttributionInsert, UsageSelect, accounting
    <2>4. QED
      BY <2>2, <2>3
  <1>4. CASE \E h \in handler : Answer(h)
    BY <1>4 DEF Answer, Receive, Unheard, accounting
  <1>5. CASE LogInsert \/ Emit \/ LogInsertFails \/ Crash \/ EmitRejects \/ Tick
    BY <1>5 DEF LogInsert, Emit, LogInsertFails, Crash, EmitRejects, ProcessDies, Tick,
                accounting
  <1>6. CASE UNCHANGED vars
    BY <1>6 DEF vars
  <1>7. QED
    BY <1>1, <1>2, <1>3, <1>4, <1>5, <1>6 DEF Next

LEMMA ClockMoves ==
    ASSUME IInv, [Next]_vars
    PROVE  now' = now \/ (Tick /\ now' = now + 1)
  BY StepMoves DEF Moves, Tick

-----------------------------------------------------------------------------
(* Each part of the invariant is kept.                                        *)

LEMMA TimedCall ==
    ASSUME IInv, Timed, NEW c \in Call, NEW new, Moves(c, new)
    PROVE  /\ new.external \in ExternalId \cup {Malformed}
           /\ new.attempt \in 0 .. MaxRetries /\ new.at \in Nat /\ new.met \in Nat
           /\ new.cut \subseteq 0 .. MaxRetries
           /\ IF new.pc = "sleep"
              THEN new.attempt < MaxRetries /\ new.at <= now + MaxDelay
              ELSE new.at <= now
  <1>1. /\ call[c].external \in ExternalId \cup {Malformed}
        /\ call[c].attempt \in 0 .. MaxRetries /\ call[c].at \in Nat /\ call[c].met \in Nat
        /\ call[c].cut \subseteq 0 .. MaxRetries
        /\ IF call[c].pc = "sleep" THEN call[c].attempt < MaxRetries ELSE call[c].at <= now
        /\ now \in Nat /\ MaxRetries \in Nat /\ MaxDelay \in Nat
    BY LimitAssumption DEF Timed, IInv, Shapes
  <1>2. CASE Starts(call[c], new) \/ Wakes(call[c], new) \/ Stops(call[c], new)
    BY <1>1, <1>2 DEF Starts, Wakes, Stops, SameTimes, Moves
  <1>3. CASE \E h \in handler : h.call = c /\ Sleeps(h, call[c], new)
    <2>1. PICK h \in handler : h.call = c /\ Sleeps(h, call[c], new)
      BY <1>3
    <2>2. h.started \in Nat /\ h.retry_after \in Nat
      BY <1>1 DEF Timed
    <2>3. Backoff(h.retry_after) \in 0 .. MaxDelay
      BY <2>2, BackoffIs
    <2>4. QED
      BY <1>1, <2>1, <2>2, <2>3 DEF Sleeps, Moves
  <1>4. CASE Fails(call[c], new)
    <2>1. Backoff(0) \in 0 .. MaxDelay
      BY BackoffIs
    <2>2. QED
      BY <1>1, <1>4, <2>1 DEF Fails, Moves
  <1>5. QED
    BY <1>2, <1>3, <1>4 DEF Moves

LEMMA TimedStep ==
    ASSUME IInv, Timed, [Next]_vars
    PROVE  Timed'
  <1>1. now \in Nat /\ now' \in Nat /\ now <= now'
    BY ClockMoves DEF IInv, Shapes
  <1>2. MaxDelay \in Nat /\ Window \in Nat
    BY LimitAssumption
  <1>3. ASSUME NEW c \in Call
        PROVE  /\ call'[c].external \in ExternalId \cup {Malformed}
               /\ call'[c].attempt \in 0 .. MaxRetries /\ call'[c].at \in Nat
               /\ call'[c].met \in Nat /\ call'[c].cut \subseteq 0 .. MaxRetries
               /\ IF call'[c].pc = "sleep"
                  THEN call'[c].attempt < MaxRetries /\ call'[c].at <= now' + MaxDelay
                  ELSE call'[c].at <= now'
    <2>1. CASE call' = call
      BY <1>1, <1>2, <2>1 DEF Timed
    <2>2. CASE \E d \in Call : \E new : Moves(d, new)
      <3>0. PICK d \in Call : \E new : Moves(d, new)
        BY <2>2
      <3>1. PICK new : Moves(d, new)
        BY <3>0
      <3>2. now' = now
        BY <3>1 DEF Moves
      <3>3. CASE c = d
        BY <3>1, <3>2, <3>3, OneMoves, TimedCall
      <3>4. CASE c # d
        BY <3>1, <3>2, <3>4, OneMoves DEF Timed
      <3>5. QED
        BY <3>3, <3>4
    <2>3. QED
      BY <2>1, <2>2, StepMoves
  <1>4. ASSUME NEW g \in handler'
        PROVE  g.started \in 0 .. now' /\ g.retry_after \in Nat
    <2>1. CASE g \in handler
      BY <1>1, <2>1 DEF Timed
    <2>2. CASE now' = now /\ \E h \in handler : Heir(h, g)
      BY <2>2 DEF Timed, Heir
    <2>3. CASE now' = now /\ \E c \in Call : Fresh(c, g)
      BY <1>1, <2>3 DEF Fresh
    <2>4. CASE now' = now /\ \E c \in Call : Refused(c, g)
      <3>1. PICK c \in Call : Refused(c, g)
        BY <2>4
      <3>2. BucketOf(c) \in Key \X (Kind \cup {"any"})
        BY DEF BucketOf, Bucket, IInv, Shapes, IsCall
      <3>3. blocked[BucketOf(c)] \in Nat
        BY <3>2 DEF Timed
      <3>4. QED
        BY <1>1, <1>2, <2>4, <3>1, <3>3 DEF Refused, Until
    <2>5. QED
      BY <2>1, <2>2, <2>3, <2>4, HandlersMove
  <1>5. blocked' \in [Key \X (Kind \cup {"any"}) -> Nat]
    <2> DEFINE B == Key \X (Kind \cup {"any"})
    <2>1. blocked \in [B -> Nat]
      BY DEF Timed
    <2>2. \A c \in Call : BucketOf(c) \in B
      BY DEF BucketOf, Bucket, IInv, Shapes, IsCall
    <2> HIDE DEF B
    <2>3. CASE \E c \in Call : Throttle(c)
      <3>1. PICK c \in Call : Throttle(c)
        BY <2>3
      <3>2. blocked' = [blocked EXCEPT ![BucketOf(c)] = Until(BucketOf(c))]
        BY <3>1 DEF Throttle, Until
      <3>3. Until(BucketOf(c)) \in Nat
        BY <1>1, <1>2, <2>1, <2>2 DEF Until
      <3>4. QED
        BY <2>1, <3>2, <3>3 DEF B
    <2>4. CASE Tick
      BY <2>1, <2>4 DEF Tick, B
    <2>5. QED
      BY <2>1, <2>3, <2>4, BlockedMoves DEF B
  <1>6. QED
    BY <1>3, <1>4, <1>5 DEF Timed

(* No handler is ahead of its call.                                           *)
LEMMA AttemptsEnd ==
    ASSUME IInv, Timed, NEW h \in handler
    PROVE  h.attempt \in 0 .. MaxRetries
  <1>1. /\ h.attempt \in Nat /\ h.attempt <= call[h.call].attempt
        /\ call[h.call].attempt \in 0 .. MaxRetries
    BY DEF IInv, Shapes, Serves, Follows, IsHandler, Timed
  <1>2. QED
    BY <1>1, LimitAssumption

LEMMA StampedStep ==
    ASSUME IInv, Timed, Stamped, [Next]_vars
    PROVE  Stamped'
  <1>1. now \in Nat /\ now' \in Nat /\ now <= now'
    BY ClockMoves DEF IInv, Shapes
  <1> DEFINE R(n) == [call : Call, attempt : 0 .. MaxRetries, partner : Partner \cup {Null},
                      kind : Kind, status : Status, ms : 0 .. n, t : 0 .. n]
  <1>2. R(now) \subseteq R(now')
    BY <1>1
  <1>3. IsFiniteSet(log \cup unlogged) /\ log \cup unlogged \subseteq R(now)
    BY DEF Stamped
  <1>4. ASSUME NEW h, NEW status \in Status, h.call \in Call, h.attempt \in 0 .. MaxRetries,
               h.started \in 0 .. now
        PROVE  RowOf(h, status) \in R(now)
    <2>1. call[h.call].key \in Key /\ call[h.call].kind \in Kind
      BY <1>4 DEF IInv, Shapes, IsCall
    <2>2. PartnerOf(h) \in Partner \cup {Null}
      BY <2>1, KeyAssumption DEF PartnerOf
    <2>3. now - h.started \in 0 .. now /\ now \in 0 .. now
      BY <1>1, <1>4
    <2>4. QED
      BY <1>4, <2>1, <2>2, <2>3 DEF RowOf
  <1> HIDE DEF R
  <1>5. ASSUME NEW row \in R(now), log' \cup unlogged' = (log \cup unlogged) \cup {row},
               now' = now
        PROVE  IsFiniteSet(log' \cup unlogged') /\ log' \cup unlogged' \subseteq R(now')
    <2>1. IsFiniteSet((log \cup unlogged) \cup {row})
      BY <1>3, FS_AddElement
    <2>2. QED
      BY <1>2, <1>3, <1>5, <2>1
  <1>6. CASE log' \cup unlogged' \subseteq log \cup unlogged
    <2>1. IsFiniteSet(log' \cup unlogged')
      BY <1>3, <1>6, FS_Subset
    <2>2. QED
      BY <1>2, <1>3, <1>6, <2>1 DEF Stamped, R
  <1>7. CASE /\ now' = now
             /\ \E h \in handler, status \in Status :
                   log' \cup unlogged' = (log \cup unlogged) \cup {RowOf(h, status)}
    <2>1. PICK h \in handler, status \in Status :
                   log' \cup unlogged' = (log \cup unlogged) \cup {RowOf(h, status)}
      BY <1>7
    <2>2. h.call \in Call /\ h.attempt \in 0 .. MaxRetries
      BY AttemptsEnd DEF IInv, Shapes, IsHandler
    <2>3. RowOf(h, status) \in R(now)
      BY <1>4, <2>2 DEF Timed
    <2>4. QED
      BY <1>5, <1>7, <2>1, <2>3 DEF Stamped, R
  <1>8. CASE /\ now' = now
             /\ \E c \in Call, status \in Status :
                   log' \cup unlogged'
                      = (log \cup unlogged) \cup {RowOf(NewHandler(c, "wire", status), status)}
    <2>1. PICK c \in Call, status \in Status :
                   log' \cup unlogged'
                      = (log \cup unlogged) \cup {RowOf(NewHandler(c, "wire", status), status)}
      BY <1>8
    <2>2. PICK h : h = NewHandler(c, "wire", status)
      OBVIOUS
    <2>3. h.call = c /\ h.attempt = call[c].attempt /\ h.started = now
      BY <2>2 DEF NewHandler
    <2>4. RowOf(h, status) \in R(now)
      BY <1>1, <1>4, <2>3 DEF Timed
    <2>5. QED
      BY <1>5, <1>8, <2>1, <2>2, <2>4 DEF Stamped, R
  <1>9. QED
    BY <1>6, <1>7, <1>8, RowsMove

(* Users that have an owner keep it, and one that is attributed had none.     *)
LEMMA OwnersMove ==
    ASSUME IInv, [Next]_vars
    PROVE  /\ users \subseteq users' /\ attributions \subseteq attributions'
           /\ \A u \in users' : u \in users \/ \E h \in handler : h.pc = "insert" /\ u = NewUser(h)
           /\ \/ emits' = emits \/ (emits > 0 /\ emits' = emits - 1) \/ emits' = 0
              \/ emits' = emits + 1 /\ \E u \in users : ~Owned(u) /\ Owned(u)'
           /\ \/ UNCHANGED <<faults, proxied>>
              \/ faults + proxied < MaxFaults /\ faults' = faults + 1 /\ proxied' = proxied
              \/ faults + proxied < MaxFaults /\ faults' = faults /\ proxied' = proxied + 1
  <1>1. CASE \E c \in Call : Client(c)
    BY <1>1 DEF Client, Begin, Wake, GiveUp, ProxyFails, tables
  <1>2. CASE \E c \in Call : Arrive(c)
    BY <1>2 DEF Arrive, Throttle, LacksScope, NoPartner, Admit, tables
  <1>3. CASE \E h \in handler : Handle(h)
    <2>1. PICK h \in handler : Handle(h)
      BY <1>3
    <2>2. CASE Check(h) \/ UsageSelect(h)
      BY <2>2 DEF Check, UsageSelect, tables
    <2>3. CASE InsertUser(h)
      BY <2>3 DEF InsertUser
    <2>4. h.pc \in Attributing => \E u \in users : u.id = h.user /\ ~Owned(u)
      BY DEF IInv, Belongs
    <2>5. CASE AttributionRead(h)
      <3>1. \A a \in attributions : a.user # h.user
        BY <2>4, <2>5 DEF AttributionRead, Attributing, Owned
      <3>2. QED
        BY <2>5, <3>1 DEF AttributionRead, tables
    <2>6. CASE AttributionInsert(h)
      <3>1. PICK u \in users : u.id = h.user /\ ~Owned(u)
        BY <2>4, <2>6 DEF AttributionInsert, Attributing
      <3> DEFINE a == [user |-> h.user, partner |-> PartnerOf(h)]
      <3>2. a \in attributions' /\ a.user = u.id
        BY <2>6, <3>1 DEF AttributionInsert
      <3> HIDE DEF a
      <3>3. Owned(u)'
        BY <3>2 DEF Owned
      <3>4. QED
        BY <2>6, <3>1, <3>3 DEF AttributionInsert
    <2>7. QED
      BY <2>1, <2>2, <2>3, <2>5, <2>6 DEF Handle
  <1>4. CASE \E h \in handler : StatementFails(h)
    BY <1>4 DEF StatementFails, Fault
  <1>5. CASE \E h \in handler : Answer(h)
    BY <1>5 DEF Answer, Receive, Unheard, tables
  <1>6. CASE LogInsert \/ Emit \/ LogInsertFails \/ Crash \/ EmitRejects \/ Tick
    BY <1>6 DEF LogInsert, Emit, LogInsertFails, Crash, EmitRejects, ProcessDies, Tick, tables,
                Fault
  <1>7. CASE UNCHANGED vars
    BY <1>7 DEF vars
  <1>8. QED
    BY <1>1, <1>2, <1>3, <1>4, <1>5, <1>6, <1>7 DEF Next

LEMMA AnnouncedStep ==
    ASSUME IInv, Timed, Announced, [Next]_vars
    PROVE  Announced'
  <1>1. IInv'
    BY NextInv
  <1> DEFINE O == {u \in users : Owned(u)}
             P == {u \in users' : Owned(u)'}
  <1>2. /\ users \subseteq users' /\ attributions \subseteq attributions'
        /\ \A u \in users' : u \in users \/ \E h \in handler : h.pc = "insert" /\ u = NewUser(h)
        /\ \/ emits' = emits \/ (emits > 0 /\ emits' = emits - 1) \/ emits' = 0
           \/ emits' = emits + 1 /\ \E u \in users : ~Owned(u) /\ Owned(u)'
        /\ \/ UNCHANGED <<faults, proxied>>
           \/ faults + proxied < MaxFaults /\ faults' = faults + 1 /\ proxied' = proxied
           \/ faults + proxied < MaxFaults /\ faults' = faults /\ proxied' = proxied + 1
    BY OwnersMove
  <1>3. O \subseteq P /\ P \subseteq users'
    BY <1>2 DEF Owned
  <1>4. IsFiniteSet(P) /\ IsFiniteSet(O) /\ Cardinality(P) \in Nat /\ Cardinality(O) \in Nat
        /\ Cardinality(O) <= Cardinality(P)
    <2>1. IsFiniteSet(users')
      BY <1>1 DEF IInv, Shapes
    <2> HIDE DEF O, P
    <2>2. IsFiniteSet(P)
      BY <1>3, <2>1, FS_Subset
    <2>3. QED
      BY <1>3, <2>2, FS_Subset, FS_CardinalityType
  <1>5. emits' \in Nat /\ emits' <= Cardinality(P)
    <2>1. emits \in Nat /\ emits <= Cardinality(O)
      BY DEF Announced
    <2>2. CASE emits' = emits \/ (emits > 0 /\ emits' = emits - 1) \/ emits' = 0
      <3> HIDE DEF O, P
      <3>1. QED
        BY <1>4, <2>1, <2>2
    <2>3. CASE emits' = emits + 1 /\ \E u \in users : ~Owned(u) /\ Owned(u)'
      <3>1. PICK u : u \in P /\ u \notin O
        BY <1>2, <2>3
      <3> HIDE DEF O, P
      <3>2. O \cup {u} \subseteq P
        BY <1>3, <3>1
      <3>3. Cardinality(O \cup {u}) = Cardinality(O) + 1
        BY <1>4, <3>1, FS_AddElement
      <3>4. Cardinality(O \cup {u}) <= Cardinality(P)
        BY <1>4, <3>2, FS_Subset
      <3>5. QED
        BY <1>4, <2>1, <2>3, <3>3, <3>4
    <2>4. QED
      BY <1>2, <2>2, <2>3
  <1>6. {faults', proxied'} \subseteq Nat /\ faults' <= MaxFaults /\ proxied' <= MaxFaults
    <2>1. /\ faults \in Nat /\ proxied \in Nat /\ MaxFaults \in Nat
          /\ faults <= MaxFaults /\ proxied <= MaxFaults
      BY LimitAssumption DEF Announced
    <2>2. QED
      BY <1>2, <2>1
  <1>7. \A u \in users' : u.external # Malformed /\ u.attempt \in 0 .. MaxRetries
    <2>1. ASSUME NEW h \in handler, h.pc = "insert"
          PROVE  NewUser(h).external # Malformed /\ NewUser(h).attempt \in 0 .. MaxRetries
      BY <2>1, AttemptsEnd DEF NewUser, Announced
    <2>2. QED
      BY <1>2, <2>1 DEF Announced
  <1>8. ASSUME NEW g \in handler', g.pc = "insert"
        PROVE  call'[g.call].external # Malformed
    <2>1. CASE g \in handler
      <3>1. call[g.call].external # Malformed /\ g.call \in Call /\ call[g.call].pc # "idle"
        BY <1>8, <2>1 DEF Announced, IInv, Shapes, Serves, Follows, IsHandler
      <3>2. CASE \E c \in Call : \E new : Moves(c, new)
        <4>0. PICK c \in Call : \E new : Moves(c, new)
          BY <3>2
        <4>1. PICK new : Moves(c, new)
          BY <4>0
        <4>2. QED
          BY <3>1, <4>1, OneMoves DEF Moves
      <3>3. QED
        BY <3>1, <3>2, StepMoves
    <2>2. QED
      BY <1>8, <2>1, HandlersMove DEF Heir, Fresh, Refused
  <1>9. QED
    BY <1>5, <1>6, <1>7, <1>8 DEF Announced

-----------------------------------------------------------------------------
(* Patience.                                                                  *)

LEMMA WaitsAreNatural ==
    ASSUME Timed, NEW c \in Call
    PROVE  /\ MaxDelay * call[c].attempt \in Nat /\ MaxDelay * (call[c].attempt + 1) \in Nat
           /\ MaxDelay * (call[c].attempt + 1) = MaxDelay + MaxDelay * call[c].attempt
  <1>1. MaxDelay \in Nat /\ call[c].attempt \in Nat
    BY LimitAssumption DEF Timed
  <1>2. \A a, b \in Nat : a * b \in Nat /\ a * (b + 1) = a + a * b
    BY SMT
  <1>3. QED
    BY <1>1, <1>2

(* What is remembered of a block stays so.                                    *)
LEMMA RememberedStays ==
    ASSUME IInv, Timed, [Next]_vars, NEW end \in Nat,
           NEW b \in Key \X (Kind \cup {"any"}), Remembered(end, b)
    PROVE  Remembered(end, b)'
  <1>1. /\ now \in Nat /\ Window \in Nat /\ blocked[b] \in Nat /\ b \in DOMAIN blocked
        /\ now' = now \/ now' = now + 1
    BY ClockMoves, LimitAssumption DEF IInv, Shapes, Timed
  <1>2. CASE blocked' = blocked
    BY <1>1, <1>2 DEF Remembered
  <1>3. CASE \E c \in Call : Throttle(c)
    <2>1. PICK c \in Call : Throttle(c)
      BY <1>3
    <2>2. blocked' = [blocked EXCEPT ![BucketOf(c)] = Until(BucketOf(c))] /\ now' = now
      BY <2>1 DEF Throttle, Until
    <2>3. blocked'[b] = blocked[b] \/ blocked'[b] = Until(b)
      BY <1>1, <2>2
    <2>4. QED
      BY <1>1, <2>2, <2>3 DEF Remembered, Until
  <1>4. CASE blocked' = [d \in DOMAIN blocked |-> 0]
    BY <1>1, <1>4 DEF Remembered
  <1>5. CASE Tick
    <2>1. now' = now + 1 /\ blocked'[b] = IF now' < blocked[b] THEN blocked[b] ELSE 0
      BY <1>1, <1>5 DEF Tick
    <2>2. QED
      BY <1>1, <2>1 DEF Remembered
  <1>6. QED
    BY <1>2, <1>3, <1>4, <1>5, BlockedMoves

LEMMA BucketIs ==
    ASSUME IInv, NEW c \in Call
    PROVE  BucketOf(c) \in Key \X (Kind \cup {"any"})
  BY DEF BucketOf, Bucket, IInv, Shapes, IsCall

(* A client that begins to sleep.                                             *)
LEMMA SleepIsLong ==
    ASSUME IInv, Timed, Patient, NEW c \in Call, NEW new,
           NEW h \in handler, h.call = c, Sleeps(h, call[c], new)
    PROVE  /\ Remembered(new.met, BucketOf(c))
           /\ \/ new.met <= new.at
              \/ new.met + MaxDelay * (new.attempt + 1) <= new.at + Window
  <1> DEFINE s == call[c]
             wait == Backoff(h.retry_after)
  <1>1. /\ now \in Nat /\ Window \in Nat /\ MaxDelay \in Nat /\ s.met \in Nat
        /\ h.started \in 0 .. now /\ h.retry_after \in Nat
    BY LimitAssumption DEF IInv, Shapes, Timed
  <1>2. wait \in 0 .. MaxDelay /\ (wait = h.retry_after \/ wait = MaxDelay)
    BY <1>1, BackoffIs
  <1>3. /\ h.pc = "wire" /\ Awaited(h) /\ s.pc = "await" /\ new.attempt = s.attempt
        /\ new.at = now + wait
        /\ new.met = IF h.status # 429 THEN 0
                     ELSE IF s.attempt = 0 THEN h.started + h.retry_after ELSE s.met
    BY DEF Sleeps, Awaited
  <1>4. /\ MaxDelay * s.attempt \in Nat
        /\ MaxDelay * (s.attempt + 1) = MaxDelay + MaxDelay * s.attempt
    BY WaitsAreNatural
  <1>5. CASE h.status # 429
    BY <1>1, <1>2, <1>3, <1>5 DEF Remembered
  <1>6. CASE h.status = 429
    <2>1. /\ Remembered(h.started + h.retry_after, BucketOf(c)) /\ h.retry_after <= Window
          /\ s.met <= now \/ s.met <= h.started + h.retry_after
      BY <1>3, <1>6 DEF Patient
    <2>2. Remembered(s.met, BucketOf(c))
          /\ (s.met <= now \/ s.met + MaxDelay * s.attempt <= now + Window)
      BY <1>3 DEF Patient, CallPatient
    <2>3. CASE s.attempt = 0
      <3>1. MaxDelay * s.attempt = 0 /\ new.met = h.started + h.retry_after
        BY <1>1, <1>3, <1>6, <2>3
      <3> HIDE DEF s, wait
      <3>2. QED
        BY <1>1, <1>2, <1>3, <1>4, <2>1, <3>1
    <2>4. CASE s.attempt # 0
      <3>1. new.met = s.met
        BY <1>3, <1>6, <2>4
      <3> HIDE DEF s, wait
      <3>2. QED
        BY <1>1, <1>2, <1>3, <1>4, <2>1, <2>2, <3>1
    <2>5. QED
      BY <2>3, <2>4
  <1>7. QED
    BY <1>5, <1>6

LEMMA CallPatientStays ==
    ASSUME IInv, Timed, Patient, [Next]_vars, NEW c \in Call, call'[c] = call[c]
    PROVE  CallPatient(c)'
  <1>1. call[c].met \in Nat /\ call[c].at \in Nat /\ now \in Nat /\ Window \in Nat
        /\ MaxDelay * call[c].attempt \in Nat
        /\ (now' = now \/ now' = now + 1)
    BY LimitAssumption, WaitsAreNatural, ClockMoves DEF IInv, Shapes, Timed
  <1>2. CallPatient(c)
    BY DEF Patient, CallPatient
  <1>3. BucketOf(c)' = BucketOf(c)
    BY DEF BucketOf, Bucket
  <1>4. Remembered(call[c].met, BucketOf(c))'
    <2>1. PICK end \in Nat, b \in Key \X (Kind \cup {"any"}) :
            end = call[c].met /\ b = BucketOf(c)
      BY <1>1, BucketIs
    <2>2. Remembered(end, b)'
      BY <1>2, <2>1, RememberedStays DEF CallPatient
    <2>3. QED
      BY <1>3, <2>1, <2>2 DEF Remembered
  <1>5. QED
    BY <1>1, <1>2, <1>4 DEF CallPatient

LEMMA CallPatientMoves ==
    ASSUME IInv, Timed, Patient, [Next]_vars, NEW c \in Call, NEW new, Moves(c, new)
    PROVE  CallPatient(c)'
  <1> DEFINE s == call[c]
  <1>1. s.met \in Nat /\ s.at \in Nat /\ now \in Nat /\ Window \in Nat
        /\ MaxDelay * s.attempt \in Nat /\ MaxDelay \in Nat
    BY LimitAssumption, WaitsAreNatural DEF IInv, Shapes, Timed
  <1>2. call'[c] = new /\ now' = now
    BY OneMoves DEF Moves
  <1>3. CallPatient(c)
    BY DEF Patient, CallPatient
  <1>4. new.met \in Nat /\ \A h \in handler : h.call = c /\ Sleeps(h, s, new) =>
           /\ Remembered(new.met, BucketOf(c))
           /\ new.met <= new.at \/ new.met + MaxDelay * (new.attempt + 1) <= new.at + Window
    BY SleepIsLong, TimedCall
  <1>5. \/ new.met = 0
        \/ Remembered(new.met, BucketOf(c)) /\ BucketOf(c)' = BucketOf(c)
    <2>1. s.pc = "idle" => s.met = 0
      BY <1>3 DEF CallPatient
    <2>2. s.pc # "idle" => BucketOf(c)' = BucketOf(c)
      BY <1>2 DEF Moves, BucketOf, Bucket
    <2>3. CASE s.pc = "idle"
      BY <2>1, <2>3 DEF Moves, Starts, Wakes, Stops, Fails, Sleeps, SameTimes, Awaited
    <2>4. CASE s.pc # "idle"
      BY <1>3, <1>4, <2>2, <2>4 DEF Moves, Starts, Wakes, Stops, Fails, SameTimes, CallPatient
    <2>5. QED
      BY <2>3, <2>4
  <1>6. Remembered(call[c].met, BucketOf(c))'
    <2>1. CASE new.met = 0
      BY <1>1, <1>2, <2>1 DEF Remembered
    <2>2. CASE Remembered(new.met, BucketOf(c)) /\ BucketOf(c)' = BucketOf(c)
      <3>1. PICK end \in Nat, b \in Key \X (Kind \cup {"any"}) :
              end = new.met /\ b = BucketOf(c)
        BY <1>4, BucketIs
      <3>2. Remembered(end, b)'
        BY <2>2, <3>1, RememberedStays
      <3>3. QED
        BY <1>2, <2>2, <3>1, <3>2 DEF Remembered
    <2>3. QED
      BY <1>5, <2>1, <2>2
  <1>7. /\ new.pc # "idle"
        /\ new.pc = "sleep" =>
              new.met <= new.at \/ new.met + MaxDelay * (new.attempt + 1) <= new.at + Window
    <2>1. Fails(s, new) => new.met <= new.at
      <3>1. Backoff(0) \in Nat
        BY BackoffIs, LimitAssumption
      <3>2. QED
        BY <1>1, <3>1 DEF Fails
    <2>2. QED
      BY <1>4, <2>1 DEF Moves, Starts, Wakes, Stops
  <1>8. new.pc \in {"send", "await"} =>
           new.met <= now \/ new.met + MaxDelay * new.attempt <= now + Window
    <2>1. CASE Starts(s, new)
      BY <1>1, <1>3, <2>1 DEF Starts, SameTimes, CallPatient
    <2>2. CASE Wakes(s, new)
      <3>1. s.met <= s.at \/ s.met + MaxDelay * (s.attempt + 1) <= s.at + Window
        BY <1>3, <2>2 DEF Wakes, CallPatient
      <3>2. MaxDelay * (s.attempt + 1) \in Nat
        BY WaitsAreNatural
      <3>3. s.at <= now /\ new.met = s.met /\ new.attempt = s.attempt + 1
        BY <2>2 DEF Wakes
      <3>4. MaxDelay * new.attempt = MaxDelay * (s.attempt + 1)
        BY <3>3
      <3> HIDE DEF s
      <3>5. QED
        BY <1>1, <3>1, <3>2, <3>3, <3>4
    <2>3. CASE Stops(s, new)
      BY <2>3 DEF Stops
    <2>4. CASE \E h \in handler : h.call = c /\ Sleeps(h, s, new)
      BY <2>4 DEF Sleeps
    <2>5. CASE Fails(s, new)
      BY <2>5 DEF Fails
    <2>6. QED
      BY <2>1, <2>2, <2>3, <2>4, <2>5 DEF Moves
  <1>9. QED
    BY <1>2, <1>6, <1>7, <1>8 DEF CallPatient

(* A handler that is awaited has been, since its request arrived.             *)
LEMMA AwaitedStays ==
    ASSUME IInv, [Next]_vars, NEW h \in handler, Awaited(h)'
    PROVE  Awaited(h) /\ call'[h.call] = call[h.call]
  <1> DEFINE c == h.call
  <1>1. /\ c \in Call /\ call[c].pc # "idle"
        /\ h.attempt = call[c].attempt => call[c].pc # "send"
    BY DEF IInv, Shapes, Serves, Follows, IsHandler
  <1>2. call'[c].pc = "await" /\ call'[c].attempt = h.attempt
    BY DEF Awaited
  <1>3. CASE call' = call
    BY <1>3 DEF Awaited
  <1>4. CASE \E d \in Call : \E new : Moves(d, new)
    <2>0. PICK d \in Call : \E new : Moves(d, new)
      BY <1>4
    <2>1. PICK new : Moves(d, new)
      BY <2>0
    <2>2. d # c
      <3>1. SUFFICES ASSUME d = c PROVE FALSE
        OBVIOUS
      <3>2. call'[c] = new
        BY <2>1, <3>1, OneMoves
      <3>3. QED
        BY <1>1, <1>2, <2>1, <3>1, <3>2
           DEF Moves, Starts, Wakes, Stops, Fails, Sleeps, SameTimes
    <2>3. call'[c] = call[c]
      BY <1>1, <2>1, <2>2, OneMoves
    <2>4. QED
      BY <1>1, <1>2, <2>3 DEF Awaited
  <1>5. QED
    BY <1>3, <1>4, StepMoves

LEMMA PatientStep ==
    ASSUME IInv, Timed, Patient, [Next]_vars
    PROVE  Patient'
  <1>1. /\ now \in Nat /\ Window \in Nat /\ (now' = now \/ now' = now + 1)
        /\ blocked \in [Key \X (Kind \cup {"any"}) -> Nat]
        /\ \A b \in DOMAIN blocked : blocked[b] <= now + Window
    BY ClockMoves, LimitAssumption DEF IInv, Shapes, Timed, Patient
  <1>2. \A b \in DOMAIN blocked' : blocked'[b] <= now' + Window
    <2>1. CASE \E c \in Call : Throttle(c)
      <3>1. PICK c \in Call : Throttle(c)
        BY <2>1
      <3>2. blocked' = [blocked EXCEPT ![BucketOf(c)] = Until(BucketOf(c))] /\ now' = now
        BY <3>1 DEF Throttle, Until
      <3>3. QED
        BY <1>1, <3>2, BucketIs DEF Until
    <2>2. CASE Tick
      BY <1>1, <2>2 DEF Tick
    <2>3. QED
      BY <1>1, <2>1, <2>2, BlockedMoves
  <1>3. ASSUME NEW c \in Call
        PROVE  CallPatient(c)'
    <2>1. CASE call' = call
      BY <2>1, CallPatientStays
    <2>2. CASE \E d \in Call : \E new : Moves(d, new)
      <3>0. PICK d \in Call : \E new : Moves(d, new)
        BY <2>2
      <3>1. PICK new : Moves(d, new)
        BY <3>0
      <3>2. CASE c = d
        BY <3>1, <3>2, CallPatientMoves
      <3>3. CASE c # d
        BY <3>1, <3>3, OneMoves, CallPatientStays
      <3>4. QED
        BY <3>2, <3>3
    <2>3. QED
      BY <2>1, <2>2, StepMoves
  <1>4. ASSUME NEW g \in handler', g.pc = "wire", g.status = 429
        PROVE  /\ Remembered(g.started + g.retry_after, BucketOf(g.call))'
               /\ g.retry_after <= Window
               /\ Awaited(g)' =>
                     \/ call'[g.call].met <= now'
                     \/ call'[g.call].met <= g.started + g.retry_after
    <2>1. CASE g \in handler
      <3> DEFINE end == g.started + g.retry_after
      <3>1. /\ Remembered(end, BucketOf(g.call)) /\ g.retry_after <= Window
            /\ Awaited(g) => call[g.call].met <= now \/ call[g.call].met <= end
            /\ end \in Nat /\ g.call \in Call /\ call[g.call].met \in Nat
        BY <1>4, <2>1 DEF Patient, Timed, IInv, Shapes, IsHandler
      <3>2. BucketOf(g.call)' = BucketOf(g.call)
        <4>1. call[g.call].pc # "idle"
          BY <2>1 DEF IInv, Serves, Follows
        <4>2. call'[g.call].key = call[g.call].key
          BY <3>1, <4>1, StepMoves, OneMoves DEF Moves
        <4>3. QED
          BY <4>2 DEF BucketOf, Bucket
      <3>3. Remembered(end, BucketOf(g.call))'
        <4>1. PICK e \in Nat, b \in Key \X (Kind \cup {"any"}) :
                e = end /\ b = BucketOf(g.call)
          BY <3>1, BucketIs
        <4>2. Remembered(e, b)'
          BY <3>1, <4>1, RememberedStays
        <4> HIDE DEF end
        <4>3. QED
          BY <3>2, <4>1, <4>2 DEF Remembered
      <3>4. Awaited(g)' => call'[g.call].met <= now' \/ call'[g.call].met <= end
        BY <1>1, <2>1, <3>1, AwaitedStays
      <3>5. QED
        BY <3>1, <3>3, <3>4
    <2>2. CASE \E c \in Call : Refused(c, g)
      <3>1. PICK c \in Call : Refused(c, g)
        BY <2>2
      <3> DEFINE b == BucketOf(c)
      <3>2. b \in DOMAIN blocked /\ blocked[b] \in Nat /\ blocked[b] <= now + Window
        BY <1>1, BucketIs
      <3>3. /\ now' = now /\ blocked'[b] = Until(b) /\ Arrived(c)
        BY <3>1, <3>2 DEF Refused, Throttle, Until
      <3>4. /\ g.call = c /\ g.started = now /\ g.retry_after = Until(b) - now
        BY <3>1 DEF Refused
      <3>5. Until(b) \in Nat /\ Until(b) <= now + Window /\ g.started + g.retry_after = Until(b)
        BY <1>1, <3>2, <3>4 DEF Until
      <3>6. call'[c].met = call[c].met /\ b' = b
        BY <3>3 DEF Arrived, IInv, Shapes, IsCall, BucketOf, Bucket
      <3>7. Remembered(call[c].met, b) /\ call[c].met \in Nat
        BY DEF Patient, CallPatient, Timed
      <3> HIDE DEF b
      <3>8. call[c].met <= now \/ call[c].met <= Until(b)
        BY <1>1, <3>2, <3>7 DEF Remembered, Until
      <3>9. Remembered(g.started + g.retry_after, b)'
        BY <1>1, <3>3, <3>5, <3>6 DEF Remembered
      <3>10. QED
        BY <1>1, <3>3, <3>4, <3>5, <3>6, <3>8, <3>9 DEF b
    <2>3. QED
      BY <1>4, <2>1, <2>2, HandlersMove DEF Heir, Fresh
  <1>5. QED
    BY <1>2, <1>3, <1>4 DEF Patient

(* A call that ends with 429 has made all its retries.                        *)
LEMMA GivenUpLast ==
    ASSUME IInv, Timed, [Next]_vars, NEW c \in Call, call[c].pc = "await",
           call'[c].pc = "done", call'[c].result = 429
    PROVE  call[c].attempt = MaxRetries
  <1>1. IsCall(call[c]) /\ call[c].attempt \in 0 .. MaxRetries /\ MaxRetries \in Nat
    BY LimitAssumption DEF IInv, Shapes, Timed
  <1>2. call'[c] # call[c] /\ call = [d \in Call |-> call[d]]
    BY DEF IInv, Shapes
  <1>3. ASSUME NEW d \in Call, NEW new, call' = [call EXCEPT ![d] = new]
        PROVE  d = c /\ call'[c] = new
    BY <1>2, <1>3
  <1>4. CASE \E d \in Call : Begin(d) \/ Wake(d) \/ (Arrived(d) /\ now' = now)
    <2>1. PICK d \in Call : Begin(d) \/ Wake(d) \/ (Arrived(d) /\ now' = now)
      BY <1>4
    <2>2. call[d].pc # "await"
      BY <2>1 DEF Begin, Wake, Arrived
    <2>3. \E new : Moves(d, new)
      BY <2>1, BeginMoves, TimerMoves, ArrivedMoves
    <2>4. QED
      BY <1>2, <2>2, <2>3, OneMoves
  <1>5. CASE \E d \in Call : GiveUp(d)
    <2>1. PICK d \in Call : GiveUp(d)
      BY <1>5
    <2> DEFINE new == [call[d] EXCEPT !.pc = "done", !.result = NetworkError, !.at = 0,
                                      !.met = 0]
    <2>2. call' = [call EXCEPT ![d] = new]
      BY <2>1 DEF GiveUp, Ended
    <2>3. d = c /\ call'[c] = new
      <3> HIDE DEF new
      <3>1. QED
        BY <1>3, <2>2
    <2>4. new.result = NetworkError
      BY <1>1, <2>3 DEF IsCall
    <2>5. QED
      BY <2>3, <2>4 DEF NetworkError
  <1>6. CASE \E h \in handler : Receive(h)
    <2>1. PICK h \in handler : Receive(h)
      BY <1>6
    <2>2. h.call \in Call
      BY DEF IInv, Shapes, IsHandler
    <2> DEFINE again == Retryable(h.status) /\ call[h.call].attempt < MaxRetries
    <2> DEFINE Slept(at, met) ==
                 call' = [call EXCEPT ![h.call] =
                             [call[h.call] EXCEPT !.pc = "sleep", !.at = at, !.met = met]]
               Done ==
                 call' = [call EXCEPT ![h.call] =
                             [call[h.call] EXCEPT !.pc = "done", !.result = h.status,
                                                  !.at = 0, !.met = 0]]
    <2>3. (\E at, met : Slept(at, met)) \/ (~again /\ Done)
      <3> DEFINE at0 == now + Backoff(h.retry_after)
                 met0 == IF h.status # 429 THEN 0
                         ELSE IF call[h.call].attempt = 0 THEN h.started + h.retry_after
                         ELSE call[h.call].met
      <3>1. Slept(at0, met0) \/ (~again /\ Done)
        BY <2>1 DEF Receive, Ended
      <3> HIDE DEF at0, met0, again, Slept, Done
      <3>2. QED
        BY <3>1
    <2>4. CASE \E at, met : Slept(at, met)
      <3>1. PICK at, met : Slept(at, met)
        BY <2>4
      <3> DEFINE new == [call[h.call] EXCEPT !.pc = "sleep", !.at = at, !.met = met]
      <3>2. h.call = c /\ call'[c] = new
        <4> HIDE DEF new
        <4>1. call' = [call EXCEPT ![h.call] = new]
          BY <3>1 DEF new
        <4>2. QED
          BY <1>3, <2>2, <4>1
      <3>3. new.pc = "sleep"
        BY <1>1, <3>2 DEF IsCall
      <3>4. QED
        BY <3>2, <3>3
    <2>5. CASE ~again /\ Done
      <3> DEFINE new == [call[h.call] EXCEPT !.pc = "done", !.result = h.status, !.at = 0,
                                             !.met = 0]
      <3>1. h.call = c /\ call'[c] = new
        <4> HIDE DEF new
        <4>1. call' = [call EXCEPT ![h.call] = new]
          BY <2>5 DEF new
        <4>2. QED
          BY <1>3, <2>2, <4>1
      <3>2. new.result = h.status
        BY <1>1, <3>1 DEF IsCall
      <3>3. h.status = 429
        BY <3>1, <3>2
      <3>4. QED
        BY <1>1, <2>5, <3>1, <3>3 DEF Retryable
    <2>6. QED
      BY <2>3, <2>4, <2>5
  <1>7. CASE \E d \in Call : ProxyFails(d)
    <2>1. PICK d \in Call : ProxyFails(d)
      BY <1>7
    <2>2. \E new : /\ call' = [call EXCEPT ![d] = new] /\ new.pc \in {"sleep", "done"}
                   /\ new.pc = "done" => new.result = BadGateway
      BY <2>1, ProxyMoves DEF Moves
    <2>3. QED
      BY <1>3, <2>2 DEF BadGateway
  <1>8. \/ call' = call
        \/ \E d \in Call : \/ Begin(d) \/ Wake(d) \/ (Arrived(d) /\ now' = now)
                          \/ GiveUp(d) \/ ProxyFails(d)
        \/ \E h \in handler : Receive(h)
    BY DEF Next, Client, Arrive, Throttle, LacksScope, NoPartner, Admit, Handle, Answer,
           Unheard, StatementFails, Check, InsertUser, AttributionRead, AttributionInsert,
           UsageSelect, LogInsert, Emit, LogInsertFails, Crash, EmitRejects, ProcessDies, Tick,
           vars
  <1>9. QED
    BY <1>2, <1>4, <1>5, <1>6, <1>7, <1>8

-----------------------------------------------------------------------------
TInv == IInv /\ Timed /\ Bounded /\ Stamped /\ Announced /\ Patient

LEMMA TimeInit == Init => TInv
  <1> SUFFICES ASSUME Init PROVE TInv
    OBVIOUS
  <1>1. IInv
    BY InitInv
  <1>2. /\ now = 0 /\ faults = 0 /\ proxied = 0 /\ handler = {} /\ users = {} /\ emits = 0
        /\ log = {} /\ unlogged = {} /\ blocked = [b \in Key \X (Kind \cup {"any"}) |-> 0]
    BY DEF Init
  <1>3. \A c \in Call : /\ call[c].pc = "idle" /\ call[c].external = Malformed
                        /\ call[c].attempt = 0 /\ call[c].at = 0 /\ call[c].met = 0
                        /\ call[c].cut = {}
    BY DEF Init
  <1>4. MaxDelay \in Nat /\ MaxRetries \in Nat /\ Window \in Nat /\ MaxTime \in Nat
        /\ MaxFaults \in Nat
    BY LimitAssumption
  <1>5. Timed
    BY <1>2, <1>3, <1>4 DEF Timed
  <1>6. Bounded
    <2> DEFINE v == [c \in Call |-> Rest(c)]
               k == MaxDelay * MaxRetries
    <2>1. \A c \in Call : v[c] = k
      <3>1. \A c \in Call : Rest(c) = MaxDelay * (MaxRetries - 0)
        BY <1>3 DEF Rest, Left
      <3>2. MaxRetries - 0 = MaxRetries
        BY <1>4
      <3>3. QED
        BY <3>1, <3>2
    <2>2. Rests = SumFunctionOnSet(v, Call)
      BY DEF Rests
    <2>3. k \in Nat
      <3>1. \A a, b \in Nat : a * b \in Nat
        BY SMT
      <3>2. QED
        BY <1>4, <3>1
    <2> HIDE DEF v, k
    <2>4. SumFunctionOnSet(v, Call) = k * Cardinality(Call)
      BY <2>1, <2>3, SumOfConstant, AsksAssumption
    <2>5. Latest = MaxTime + k * Cardinality(Call) /\ k * Cardinality(Call) \in Nat
      <3>1. Cardinality(Call) \in Nat
        BY AsksAssumption, FS_CardinalityType
      <3>2. \A a, b \in Nat : a * b \in Nat
        BY SMT
      <3>3. QED
        BY <2>3, <3>1, <3>2 DEF Latest, k
    <2>6. QED
      BY <1>2, <1>4, <2>2, <2>4, <2>5 DEF Bounded
  <1>7. Stamped
    BY <1>2, FS_EmptySet DEF Stamped
  <1>8. Announced
    <2>1. {u \in users : Owned(u)} = {}
      BY <1>2
    <2>2. QED
      BY <1>2, <1>4, <2>1, FS_EmptySet DEF Announced
  <1>9. Patient
    BY <1>2, <1>3, <1>4 DEF Patient, CallPatient, Remembered
  <1>10. QED
    BY <1>1, <1>5, <1>6, <1>7, <1>8, <1>9 DEF TInv

LEMMA TimeInductive == Spec => []TInv
  <1>1. TInv /\ [Next]_vars => TInv'
    BY NextInv, TimedStep, BoundedStep, StampedStep, AnnouncedStep, PatientStep DEF TInv
  <1>2. QED
    BY <1>1, TimeInit, PTL DEF Spec

(* A client that gives up on 429 after nothing but 429s has outlasted the     *)
(* first block it was told of, if its sleeps are together as long as a block  *)
(* (http.ts:22-26 and app.module.ts:24: three of at most 30 s, and 60 s).  An *)
(* answer that travels for long, a block renewed by others and a process that *)
(* forgets its blocks do not change that.                                     *)
THEOREM PatienceOutlasts ==
    ASSUME MaxDelay * MaxRetries >= Window
    PROVE  Spec => PatienceOutlastsBlock
  <1>1. ASSUME TInv, [Next]_vars, NEW c \in Call, call[c].pc = "await", call'[c].pc = "done",
               call'[c].result = 429
        PROVE  call[c].met <= now
    <2>1. /\ call[c].met \in Nat /\ now \in Nat /\ Window \in Nat
          /\ call[c].attempt \in 0 .. MaxRetries
          /\ call[c].met <= now \/ call[c].met + MaxDelay * call[c].attempt <= now + Window
      BY <1>1, LimitAssumption DEF TInv, Timed, Patient, CallPatient, IInv, Shapes
    <2>2. call[c].attempt = MaxRetries
      BY <1>1, GivenUpLast DEF TInv
    <2>3. MaxDelay * MaxRetries \in Nat
      <3>1. \A a, b \in Nat : a * b \in Nat
        BY SMT
      <3>2. QED
        BY <3>1, LimitAssumption
    <2>4. MaxDelay * call[c].attempt = MaxDelay * MaxRetries
      BY <2>2
    <2>5. QED
      BY <2>1, <2>3, <2>4
  <1>2. TInv /\ [Next]_vars =>
           [\A c \in Call : call[c].pc = "await" /\ call'[c].pc = "done" /\ call'[c].result = 429
                                => call[c].met <= now]_vars
    BY <1>1
  <1>3. QED
    BY <1>2, TimeInductive, PTL DEF Spec, PatienceOutlastsBlock

-----------------------------------------------------------------------------
(* Types.                                                                     *)

(* A client that sleeps wakes before the clock ends.                          *)
LEMMA WakesInTime ==
    ASSUME IInv, Timed, Bounded, NEW c \in Call, call[c].pc = "sleep"
    PROVE  call[c].at <= Latest
  <1> DEFINE v == [d \in Call |-> Rest(d)]
  <1>1. Integral(v, Call) /\ Rests = SumFunctionOnSet(v, Call)
    BY RestsAre DEF Rests, IInv
  <1>2. /\ \A d \in Call : v[d] = Rest(d) /\ v[d] \in Nat
        /\ IsFiniteSet(Call)
    BY RestIs, AsksAssumption DEF IInv
  <1> HIDE DEF v
  <1>3. SumFunctionOnSet(v, Call) = v[c] + SumFunctionOnSet(v, Call \ {c})
    BY <1>1, SumTakesOut
  <1>4. SumFunctionOnSet(v, Call \ {c}) \in Nat
    <2>1. IsFiniteSet(Call \ {c})
      BY <1>2, FS_Subset
    <2>2. QED
      BY <1>2, <2>1, SumIsNatural
  <1>5. /\ now \in Nat /\ call[c].at \in Nat /\ call[c].attempt \in 0 .. MaxRetries
        /\ call[c].attempt < MaxRetries
    BY DEF IInv, Shapes, Timed
  <1>6. Left(call[c].attempt + 1) \in Nat
    BY <1>5, LeftIs
  <1>7. v[c] \in Nat /\ call[c].at <= now + v[c]
    BY <1>2, <1>5, <1>6 DEF Rest
  <1>8. Latest \in Int
    BY LatestIs
  <1>9. QED
    BY <1>1, <1>3, <1>4, <1>5, <1>7, <1>8 DEF Bounded

(* The clients, the server and its tables have the shapes that the code gives *)
(* them, an attempt is never in two handlers, no sleep is longer than         *)
(* MaxDelay (http.ts:22-26) and there is no emit without a user.              *)
THEOREM OnboardingTyped == Spec => []TypeOK
  <1>1. ASSUME TInv PROVE TypeOK
    <2> USE <1>1
    <2>1. now \in Nat /\ Latest \in Nat /\ now <= Latest
      <3>1. Rests \in Nat
        BY RestsAre DEF TInv, IInv
      <3>2. QED
        BY <3>1, LatestIs DEF TInv, Bounded, IInv, Shapes
    <2>2. now \in Clock /\ 0 .. now \subseteq Clock /\ Clock = 0 .. Latest
      BY <2>1 DEF Clock, Latest
    <2>3. ASSUME NEW c \in Call
          PROVE  call[c] \in CallState /\ call[c].at <= now + MaxDelay
      <3>1. /\ IsCall(call[c]) /\ call[c].external \in ExternalId \cup {Malformed}
            /\ call[c].attempt \in 0 .. MaxRetries /\ call[c].met \in Nat
            /\ call[c].cut \subseteq 0 .. MaxRetries
        BY DEF TInv, IInv, Shapes, Timed
      <3>2. call[c].at \in 0 .. Latest /\ call[c].at <= now + MaxDelay
        BY <2>1, WakesInTime, LimitAssumption DEF TInv, Timed
      <3>3. QED
        BY <2>2, <3>1, <3>2 DEF IsCall, CallState
    <2>4. call \in [Call -> CallState]
      BY <2>3 DEF TInv, IInv, Shapes
    <2>5. ASSUME NEW h \in handler
          PROVE  h \in Handler
      <3>1. /\ IsHandler(h) /\ h.attempt \in 0 .. MaxRetries
            /\ h.started \in Clock /\ h.retry_after \in Nat
        BY <2>2, AttemptsEnd DEF TInv, IInv, Shapes, Timed, IsHandler
      <3>2. QED
        BY <3>1 DEF IsHandler, Handler, Busy
    <2>6. \A h, i \in handler : h.call = i.call /\ h.attempt = i.attempt => h = i
      BY DEF TInv, IInv, Serves
    <2>7. ASSUME NEW u \in users
          PROVE  u \in User
      <3>1. IsUser(u) /\ u.external \in ExternalId /\ u.attempt \in 0 .. MaxRetries
        BY DEF TInv, IInv, Shapes, Creates, Timed, Announced, IsUser
      <3>2. QED
        BY <3>1 DEF IsUser, User
    <2>8. log \subseteq Row /\ unlogged \subseteq Row
      <3> DEFINE R == [call : Call, attempt : 0 .. MaxRetries, partner : Partner \cup {Null},
                       kind : Kind, status : Status, ms : 0 .. now, t : 0 .. now]
      <3>1. log \cup unlogged \subseteq R
        BY DEF TInv, Stamped
      <3>2. R \subseteq Row
        BY <2>2 DEF Row
      <3> HIDE DEF R
      <3>3. QED
        BY <3>1, <3>2
    <2>9. emits \in 0 .. Cardinality(users)
      <3> DEFINE O == {u \in users : Owned(u)}
      <3>1. emits \in Nat /\ emits <= Cardinality(O) /\ IsFiniteSet(users) /\ O \subseteq users
        BY DEF TInv, Announced, IInv, Shapes
      <3> HIDE DEF O
      <3>2. Cardinality(O) <= Cardinality(users) /\ Cardinality(O) \in Nat
            /\ Cardinality(users) \in Nat
        BY <3>1, FS_Subset, FS_CardinalityType
      <3>3. QED
        BY <3>1, <3>2
    <2>10. {faults, proxied} \subseteq 0 .. MaxFaults /\ attributions \subseteq [user : Nat, partner : Partner]
      BY LimitAssumption DEF TInv, Announced, IInv, Shapes
    <2>11. QED
      BY <2>2, <2>3, <2>4, <2>5, <2>6, <2>7, <2>8, <2>9, <2>10 DEF TypeOK
  <1>2. TInv => TypeOK
    BY <1>1
  <1>3. QED
    BY <1>2, TimeInductive, PTL

-----------------------------------------------------------------------------
(* The usage report.                                                          *)

(* The rows that took no longer than ms.                                      *)
Within(rows, ms) == {s \in rows : s.ms <= ms}

Timings(rows, bound) == IsFiniteSet(rows) /\ \A r \in rows : r.ms \in 0 .. bound

LEMMA LeastExists ==
    ASSUME NEW S, S \subseteq Nat, S # {}
    PROVE  \E m \in S : \A n \in S : m <= n
  <1> DEFINE R == OpToRel(<, Nat)
  <1>1. PICK m \in S : \A n \in S : ~ (<<n, m>> \in R)
    BY NatLessThanWellFounded, WFMin
  <1>2. ASSUME NEW n \in S PROVE m <= n
    <2>1. m \in Nat /\ n \in Nat /\ (n < m => <<n, m>> \in R)
      BY DEF OpToRel
    <2> HIDE DEF R
    <2>2. QED
      BY <1>1, <2>1
  <1>3. QED
    BY <1>2

LEMMA SlowestExists ==
    ASSUME NEW rows, NEW bound \in Nat, Timings(rows, bound), rows # {}
    PROVE  \E r \in rows : \A s \in rows : s.ms <= r.ms
  <1> DEFINE S == {bound - r.ms : r \in rows}
  <1>1. \A r \in rows : r.ms \in Nat /\ bound - r.ms \in Nat
    BY DEF Timings
  <1>2. S \subseteq Nat /\ S # {}
    BY <1>1
  <1>3. PICK m \in S : \A n \in S : m <= n
    BY <1>2, LeastExists
  <1>4. PICK r \in rows : m = bound - r.ms
    BY <1>3
  <1>5. ASSUME NEW s \in rows PROVE s.ms <= r.ms
    <2>1. bound - r.ms <= bound - s.ms
      BY <1>3, <1>4
    <2>2. QED
      BY <1>1, <2>1
  <1>6. QED
    BY <1>5

(* A part of the rows is finite, and no more than they are.                   *)
LEMMA WithinIs ==
    ASSUME NEW rows, NEW bound \in Nat, Timings(rows, bound), NEW ms
    PROVE  /\ Timings(Within(rows, ms), bound)
           /\ Cardinality(rows) \in Nat /\ Cardinality(Within(rows, ms)) \in Nat
           /\ Cardinality(Within(rows, ms)) <= Cardinality(rows)
  <1>1. Within(rows, ms) \subseteq rows
    BY DEF Within
  <1>2. QED
    BY <1>1, FS_Subset, FS_CardinalityType DEF Timings

(* What a percentile means: it is at most ms exactly when that share of the   *)
(* rows is within ms.                                                         *)
LEMMA PercentileMeans ==
    ASSUME NEW rows, NEW bound \in Nat, Timings(rows, bound), rows # {}, NEW percent \in 1 .. 100
    PROVE  /\ Percentile(rows, percent) \in 0 .. bound
           /\ \A ms \in Nat :
                 Percentile(rows, percent) <= ms <=>
                    100 * Cardinality(Within(rows, ms)) >= percent * Cardinality(rows)
  <1> DEFINE n == Cardinality(rows)
             Q == {r \in rows : 100 * Cardinality(Within(rows, r.ms)) >= percent * n}
             S == {r.ms : r \in Q}
  <1>1. n \in Nat \ {0}
    <2>1. n \in Nat /\ (n = 0 <=> rows = {})
      BY FS_CardinalityType, FS_EmptySet DEF Timings
    <2>2. QED
      BY <2>1
  <1>2. \A r \in rows : r.ms \in Nat /\ r.ms <= bound
    BY DEF Timings
  <1>3. Percentile(rows, percent) = Min(S)
    <2>1. \A r : {s \in rows : s.ms <= r.ms} = Within(rows, r.ms)
      BY DEF Within
    <2>2. QED
      BY <2>1 DEF Percentile
  <1>4. ASSUME NEW ms \in Nat,
               100 * Cardinality(Within(rows, ms)) >= percent * Cardinality(rows)
        PROVE  \E r \in Q : r.ms <= ms
    <2> DEFINE A == Within(rows, ms)
    <2>1. Timings(A, bound) /\ Cardinality(A) \in Nat /\ A \subseteq rows
      BY WithinIs DEF Within
    <2>2. A # {}
      <3>1. Cardinality(A) # 0
        BY <1>1, <1>4, <2>1
      <3>2. QED
        BY <3>1, FS_EmptySet
    <2>3. PICK r \in A : \A s \in A : s.ms <= r.ms
      BY <2>1, <2>2, SlowestExists
    <2>4. Within(rows, r.ms) = A
      BY <1>2, <2>1, <2>3 DEF Within
    <2>5. r \in Q /\ r.ms <= ms
      BY <1>4, <2>3, <2>4 DEF Within
    <2>6. QED
      BY <2>5
  <1>5. Q # {}
    <2>1. Within(rows, bound) = rows
      BY <1>2 DEF Within
    <2>2. 100 * n >= percent * n
      <3>1. \A a, b, c \in Nat : a <= b => a * c <= b * c
        BY SMT
      <3>2. QED
        BY <1>1, <3>1
    <2>3. QED
      BY <1>4, <2>1, <2>2
  <1>6. S \subseteq Nat /\ S # {}
    BY <1>2, <1>5
  <1>7. Min(S) \in S /\ \A x \in S : Min(S) <= x
    <2> HIDE DEF S
    <2>1. QED
      BY <1>6, LeastExists DEF Min
  <1>8. PICK q \in Q : q.ms = Min(S)
    BY <1>7
  <1>9. ASSUME NEW ms \in Nat, Min(S) <= ms
        PROVE  100 * Cardinality(Within(rows, ms)) >= percent * Cardinality(rows)
    <2>1. q.ms \in Nat /\ q.ms <= ms /\ q \in rows
      BY <1>2, <1>8, <1>9
    <2>2. Within(rows, q.ms) \subseteq Within(rows, ms)
      BY <1>2, <2>1 DEF Within
    <2>3. Cardinality(Within(rows, q.ms)) <= Cardinality(Within(rows, ms))
      BY <2>2, WithinIs, FS_Subset DEF Timings
    <2>4. Cardinality(Within(rows, q.ms)) \in Nat /\ Cardinality(Within(rows, ms)) \in Nat
      BY WithinIs
    <2>5. 100 * Cardinality(Within(rows, q.ms)) >= percent * n
      BY <1>8
    <2>6. percent * n \in Int
      <3>1. \A a, b \in Int : a * b \in Int
        BY SMT
      <3>2. QED
        BY <1>1, <3>1
    <2> HIDE DEF n, Q, S
    <2>7. QED
      BY <2>3, <2>4, <2>5, <2>6 DEF n
  <1>10. ASSUME NEW ms \in Nat,
                100 * Cardinality(Within(rows, ms)) >= percent * Cardinality(rows)
         PROVE  Min(S) <= ms
    <2>1. PICK r \in Q : r.ms <= ms
      BY <1>4, <1>10
    <2>2. r.ms \in S /\ r.ms \in Nat /\ Min(S) \in Nat
      BY <1>2, <1>6, <1>7, <2>1
    <2>3. Min(S) <= r.ms
      BY <1>7, <2>2
    <2> HIDE DEF n, Q, S
    <2>4. QED
      BY <2>1, <2>2, <2>3
  <1>11. Min(S) \in 0 .. bound
    BY <1>2, <1>8
  <1>12. QED
    BY <1>3, <1>9, <1>10, <1>11

LEMMA NoRowsNoTime ==
    ASSUME NEW percent
    PROVE  Percentile({}, percent) = 0
  BY DEF Percentile

LEMMA MedianFirst ==
    ASSUME NEW rows, NEW bound \in Nat, Timings(rows, bound)
    PROVE  Percentile(rows, 50) <= Percentile(rows, 99)
  <1>1. CASE rows = {}
    BY <1>1, NoRowsNoTime
  <1>2. CASE rows # {}
    <2> DEFINE ms == Percentile(rows, 99)
    <2>1. ms \in Nat
      BY <1>2, PercentileMeans
    <2>2. 100 * Cardinality(Within(rows, ms)) >= 99 * Cardinality(rows)
      BY <1>2, <2>1, PercentileMeans
    <2>3. Cardinality(Within(rows, ms)) \in Nat /\ Cardinality(rows) \in Nat
      BY WithinIs
    <2> HIDE DEF ms
    <2>4. 100 * Cardinality(Within(rows, ms)) >= 50 * Cardinality(rows)
      BY <2>2, <2>3
    <2>5. Percentile(rows, 50) <= ms
      BY <1>2, <2>1, <2>4, PercentileMeans
    <2>6. QED
      BY <2>5 DEF ms
  <1>3. QED
    BY <1>1, <1>2

(* A percentile of all rows lies between those of two parts.                  *)
LEMMA PercentilesBetween ==
    ASSUME NEW rows, NEW bound \in Nat, Timings(rows, bound),
           NEW K, IsFiniteSet(K), K # {}, NEW g, \A r \in rows : g[r] \in K,
           NEW percent \in 1 .. 100
    PROVE  /\ \E k \in K : Percentile(rows, percent) <= Percentile(Group(rows, g, k), percent)
           /\ rows # {} =>
                 \E k \in K : /\ Group(rows, g, k) # {}
                              /\ Percentile(Group(rows, g, k), percent)
                                    <= Percentile(rows, percent)
  <1> DEFINE part(k) == Group(rows, g, k)
             P(k) == Percentile(part(k), percent)
             all == Percentile(rows, percent)
             n == [k \in K |-> Cardinality(part(k))]
             in(ms) == [k \in K |-> Cardinality(Within(part(k), ms))]
             needs == [k \in K |-> percent * Cardinality(part(k))]
             has(ms) == [k \in K |-> 100 * Cardinality(Within(part(k), ms))]
  <1>1. ASSUME NEW k \in K
        PROVE  /\ Timings(part(k), bound) /\ Cardinality(part(k)) \in Nat
               /\ part(k) = {} <=> Cardinality(part(k)) = 0
               /\ \A ms : Cardinality(Within(part(k), ms)) \in Nat
               /\ P(k) \in 0 .. bound
               /\ part(k) = {} => P(k) = 0
               /\ percent * Cardinality(part(k)) \in Nat
    <2>1. part(k) \subseteq rows
      BY DEF Group
    <2>2. Timings(part(k), bound)
      BY <2>1, FS_Subset DEF Timings
    <2>3. Cardinality(part(k)) \in Nat /\ (part(k) = {} <=> Cardinality(part(k)) = 0)
      BY <2>2, FS_CardinalityType, FS_EmptySet DEF Timings
    <2>4. \A ms : Cardinality(Within(part(k), ms)) \in Nat
      BY <2>2, WithinIs
    <2>5. P(k) \in 0 .. bound /\ (part(k) = {} => P(k) = 0)
      BY <2>2, PercentileMeans, NoRowsNoTime
    <2>6. percent * Cardinality(part(k)) \in Nat
      <3>1. \A a, b \in Nat : a * b \in Nat
        BY SMT
      <3>2. QED
        BY <2>3, <3>1
    <2>7. QED
      BY <2>2, <2>3, <2>4, <2>5, <2>6
  <1>2. ASSUME NEW k \in K, NEW ms \in Nat, part(k) # {}
        PROVE  P(k) <= ms <=>
                  100 * Cardinality(Within(part(k), ms)) >= percent * Cardinality(part(k))
    BY <1>1, <1>2, PercentileMeans
  <1>3. /\ Integral(needs, K) /\ SumFunctionOnSet(needs, K) = percent * Cardinality(rows)
        /\ \A ms : Integral(has(ms), K)
                   /\ SumFunctionOnSet(has(ms), K) = 100 * Cardinality(Within(rows, ms))
    <2>1. \A k \in K : n[k] = Cardinality(Group(rows, g, k))
      OBVIOUS
    <2>2. \A k \in K : needs[k] = percent * n[k] /\ n[k] \in Int
      BY <1>1
    <2> HIDE DEF n, needs
    <2>3. SumFunctionOnSet(n, K) = Cardinality(rows)
      BY <2>1, CountByGroup DEF Timings
    <2>4. Integral(n, K)
      BY <2>2 DEF Integral
    <2>5. SumFunctionOnSet(needs, K) = percent * SumFunctionOnSet(n, K) /\ Integral(needs, K)
      BY <2>2, <2>4, SumOfMultiples
    <2>6. ASSUME NEW ms
          PROVE  Integral(has(ms), K)
                 /\ SumFunctionOnSet(has(ms), K) = 100 * Cardinality(Within(rows, ms))
      <3> DEFINE W == Within(rows, ms)
                 v == in(ms)
                 w == has(ms)
      <3>1. \A k \in K : Within(part(k), ms) = Group(W, g, k)
        BY DEF Within, Group
      <3>2. \A k \in K : /\ v[k] = Cardinality(Group(W, g, k)) /\ w[k] = 100 * v[k]
                         /\ v[k] \in Int
        BY <1>1, <3>1
      <3>3. IsFiniteSet(W) /\ \A r \in W : g[r] \in K
        BY WithinIs DEF Within, Timings
      <3> HIDE DEF v, w, W
      <3>4. SumFunctionOnSet(v, K) = Cardinality(W)
        BY <3>2, <3>3, CountByGroup
      <3>5. Integral(v, K)
        BY <3>2 DEF Integral
      <3>6. SumFunctionOnSet(w, K) = 100 * SumFunctionOnSet(v, K) /\ Integral(w, K)
        BY <3>2, <3>5, SumOfMultiples
      <3>7. QED
        BY <3>4, <3>6 DEF v, w, W
    <2>7. QED
      BY <2>3, <2>5, <2>6
  <1>4. \A k \in K : /\ needs[k] = percent * Cardinality(part(k))
                     /\ \A ms : has(ms)[k] = 100 * Cardinality(Within(part(k), ms))
    OBVIOUS
  <1> HIDE DEF n, in, needs, has, P, all
  <1>5. \E k \in K : all <= P(k)
    <2>1. CASE rows = {}
      <3>1. PICK k \in K : TRUE
        OBVIOUS
      <3>2. all = 0 /\ P(k) \in Nat
        BY <1>1, <2>1, NoRowsNoTime DEF all
      <3>3. QED
        BY <3>2
    <2>2. CASE rows # {}
      <3> DEFINE S == {bound - P(k) : k \in K}
      <3>1. S \subseteq Nat /\ S # {}
        BY <1>1
      <3>2. PICK k \in K : \A j \in K : bound - P(k) <= bound - P(j)
        <4>1. PICK m \in S : \A x \in S : m <= x
          BY <3>1, LeastExists
        <4>2. PICK k \in K : m = bound - P(k)
          BY <4>1
        <4>3. \A j \in K : bound - P(j) \in S
          OBVIOUS
        <4> HIDE DEF S
        <4>4. QED
          BY <4>1, <4>2, <4>3
      <3> HIDE DEF S
      <3> DEFINE ms == P(k)
      <3>3. ms \in Nat /\ \A j \in K : P(j) <= ms
        BY <1>1, <3>2
      <3>4. \A j \in K : needs[j] <= has(ms)[j]
        <4>1. ASSUME NEW j \in K PROVE needs[j] <= has(ms)[j]
          <5>1. CASE part(j) = {}
            <6>1. needs[j] = 0 /\ has(ms)[j] \in Nat
              <7>1. needs[j] = percent * 0
                BY <1>1, <1>4, <5>1
              <7>2. QED
                BY <1>1, <1>4, <7>1
            <6>2. QED
              BY <6>1
          <5>2. CASE part(j) # {}
            <6> HIDE DEF ms
            <6>1. QED
              BY <1>1, <1>2, <1>4, <3>3, <5>2
          <5>3. QED
            BY <5>1, <5>2
        <4>2. QED
          BY <4>1
      <3> HIDE DEF ms
      <3>5. percent * Cardinality(rows) <= 100 * Cardinality(Within(rows, ms))
        BY <1>3, <3>4, SumAtMost
      <3>6. all <= ms
        <4>1. percent * Cardinality(rows) \in Int /\ Cardinality(Within(rows, ms)) \in Nat
          BY <1>3, SumIsInteger, WithinIs
        <4>2. 100 * Cardinality(Within(rows, ms)) >= percent * Cardinality(rows)
          BY <3>5, <4>1
        <4>3. QED
          BY <2>2, <3>3, <4>2, PercentileMeans DEF all
      <3>7. QED
        BY <3>6 DEF ms
    <2>3. QED
      BY <2>1, <2>2
  <1>6. ASSUME rows # {}, \A k \in K : part(k) # {} => ~ (P(k) <= all)
        PROVE  FALSE
    <2>1. all \in Nat
      BY <1>6, PercentileMeans DEF all
    <2>2. 100 * Cardinality(Within(rows, all)) >= percent * Cardinality(rows)
      BY <1>6, <2>1, PercentileMeans DEF all
    <2> HIDE DEF part
    <2>3. ASSUME NEW k \in K
          PROVE  /\ has(all)[k] \in Nat /\ needs[k] \in Nat /\ has(all)[k] <= needs[k]
                 /\ part(k) # {} => has(all)[k] <= needs[k] - 1
      <3>1. has(all)[k] \in Nat /\ needs[k] \in Nat
        BY <1>1, <1>4
      <3>2. CASE part(k) = {}
        <4>1. Within(part(k), all) = {}
          BY <3>2 DEF Within
        <4>2. has(all)[k] = 100 * 0
          BY <1>4, <3>2, <4>1, FS_EmptySet
        <4>3. QED
          BY <3>1, <3>2, <4>2
      <3>3. CASE part(k) # {}
        <4>1. ~ (has(all)[k] >= needs[k])
          BY <1>2, <1>4, <1>6, <2>1, <3>3
        <4>2. QED
          BY <3>1, <4>1
      <3>4. QED
        BY <3>2, <3>3
    <2>4. PICK r \in rows : TRUE
      BY <1>6
    <2>5. g[r] \in K /\ part(g[r]) # {}
      BY <2>4 DEF part, Group
    <2> DEFINE k == g[r]
               R == K \ {k}
               v == has(all)
    <2>6. Integral(v, K) /\ SumFunctionOnSet(v, K) = 100 * Cardinality(Within(rows, all))
      BY <1>3
    <2>7. k \in K /\ v[k] <= needs[k] - 1 /\ v[k] \in Nat /\ needs[k] \in Nat
          /\ \A j \in R : v[j] <= needs[j]
      BY <2>3, <2>5
    <2> HIDE DEF k, R, v
    <2>8. /\ SumFunctionOnSet(v, K) = v[k] + SumFunctionOnSet(v, R)
          /\ SumFunctionOnSet(needs, K) = needs[k] + SumFunctionOnSet(needs, R)
          /\ Integral(v, R) /\ Integral(needs, R)
      BY <1>3, <2>6, <2>7, SumTakesOut, IntegralPart DEF R
    <2>9. /\ SumFunctionOnSet(v, R) \in Int /\ SumFunctionOnSet(needs, R) \in Int
          /\ SumFunctionOnSet(v, R) <= SumFunctionOnSet(needs, R)
      BY <2>7, <2>8, SumAtMost, SumIsInteger
    <2>10. SumFunctionOnSet(v, K) < SumFunctionOnSet(needs, K)
           /\ SumFunctionOnSet(v, K) \in Int /\ SumFunctionOnSet(needs, K) \in Int
      BY <2>7, <2>8, <2>9
    <2>11. SumFunctionOnSet(v, K) >= SumFunctionOnSet(needs, K)
      BY <1>3, <2>2, <2>6
    <2>12. QED
      BY <2>10, <2>11
  <1>7. QED
    BY <1>5, <1>6 DEF P, all

LEMMA IndexIs ==
    ASSUME NEW row, row.t \in Nat, NEW asked \in Nat, row.t >= WindowStart(asked)
    PROVE  IndexOf(row, asked) \in Nat
  <1>1. Step \in Nat \ {0} /\ Count \in Nat
    BY LimitAssumption
  <1>2. \A a \in Nat : a \div Step \in Nat
    BY <1>1
  <1>3. \A a, b \in Int : a * b \in Int
    BY SMT
  <1>4. WindowStart(asked) \in Int
    <2>1. asked \div Step \in Nat
      BY <1>2
    <2>2. asked \div Step - (Count - 1) \in Int
      BY <1>1, <2>1
    <2>3. QED
      BY <1>1, <1>3, <2>2 DEF WindowStart
  <1>5. row.t - WindowStart(asked) \in Nat
    BY <1>4
  <1>6. QED
    BY <1>2, <1>5 DEF IndexOf

(* A report by parts: the rows are told apart by `g`.                         *)
LEMMA PartsAddUp ==
    ASSUME NEW rows, NEW bound \in Nat, Timings(rows, bound),
           NEW K, IsFiniteSet(K), K # {}, NEW g, \A r \in rows : g[r] \in K,
           NEW parts, DOMAIN parts = K, \A k \in K : parts[k] = Figures(Group(rows, g, k))
    PROVE  AddsUp(Figures(rows), parts)
  <1>1. /\ Figures(rows).requests = Cardinality(rows)
        /\ Figures(rows).errors = Cardinality(Errors(rows))
        /\ Figures(rows).p50 = Percentile(rows, 50) /\ Figures(rows).p99 = Percentile(rows, 99)
    BY DEF Figures
  <1>2. ASSUME NEW k \in K
        PROVE  /\ Timings(Group(rows, g, k), bound)
               /\ parts[k].requests = Cardinality(Group(rows, g, k))
               /\ parts[k].errors = Cardinality(Errors(Group(rows, g, k)))
               /\ parts[k].p50 = Percentile(Group(rows, g, k), 50)
               /\ parts[k].p99 = Percentile(Group(rows, g, k), 99)
    <2>1. Group(rows, g, k) \subseteq rows
      BY DEF Group
    <2>2. QED
      BY <2>1, FS_Subset DEF Figures, Timings
  <1>3. Figures(rows).requests = SumFunctionOnSet([k \in K |-> parts[k].requests], K)
    <2> DEFINE h == [k \in K |-> parts[k].requests]
    <2>1. \A k \in K : h[k] = Cardinality(Group(rows, g, k))
      BY <1>2
    <2> HIDE DEF h
    <2>2. SumFunctionOnSet(h, K) = Cardinality(rows)
      BY <2>1, CountByGroup DEF Timings
    <2>3. QED
      BY <1>1, <2>2 DEF h
  <1>4. Figures(rows).errors = SumFunctionOnSet([k \in K |-> parts[k].errors], K)
    <2> DEFINE h == [k \in K |-> parts[k].errors]
               E == Errors(rows)
    <2>1. \A k \in K : h[k] = Cardinality(Group(E, g, k))
      <3>1. \A k \in K : Group(E, g, k) = Errors(Group(rows, g, k))
        BY DEF Group, Errors
      <3>2. QED
        BY <1>2, <3>1
    <2>2. IsFiniteSet(E) /\ \A r \in E : g[r] \in K
      BY FS_Subset DEF Timings, Errors
    <2> HIDE DEF h, E
    <2>3. SumFunctionOnSet(h, K) = Cardinality(E)
      BY <2>1, <2>2, CountByGroup
    <2>4. QED
      BY <1>1, <2>3 DEF h, E
  <1>5. ASSUME NEW percent \in 1 .. 100
        PROVE  /\ \E k \in K : Percentile(rows, percent) <= Percentile(Group(rows, g, k), percent)
               /\ rows # {} =>
                     \E k \in K : /\ Group(rows, g, k) # {}
                                  /\ Percentile(Group(rows, g, k), percent)
                                        <= Percentile(rows, percent)
    BY <1>2, PercentilesBetween
  <1>6. \A k \in K : parts[k].p50 <= parts[k].p99
    BY <1>2, MedianFirst
  <1>7. ASSUME NEW k \in K, Group(rows, g, k) # {} PROVE parts[k].requests > 0
    <2>1. /\ Cardinality(Group(rows, g, k)) \in Nat
          /\ Cardinality(Group(rows, g, k)) # 0
      BY <1>2, <1>7, FS_EmptySet, FS_CardinalityType DEF Timings
    <2>2. parts[k].requests = Cardinality(Group(rows, g, k))
      BY <1>2
    <2>3. QED
      BY <2>1, <2>2
  <1>8. Figures(rows).requests > 0 => rows # {}
    BY <1>1, FS_EmptySet
  <1>9. \A figure \in {"requests", "errors"} :
           Figures(rows)[figure] = SumFunctionOnSet([k \in K |-> parts[k][figure]], K)
    BY <1>3, <1>4
  <1>10. \A figure \in {"p50", "p99"} :
            /\ \E k \in K : Figures(rows)[figure] <= parts[k][figure]
            /\ Figures(rows).requests > 0 =>
                  \E k \in K : parts[k].requests > 0 /\ parts[k][figure] <= Figures(rows)[figure]
    <2>1. \A k \in K : /\ parts[k].p50 = Percentile(Group(rows, g, k), 50)
                       /\ parts[k].p99 = Percentile(Group(rows, g, k), 99)
      BY <1>2
    <2>2. /\ \E k \in K : Percentile(rows, 50) <= Percentile(Group(rows, g, k), 50)
          /\ rows # {} => \E k \in K : /\ Group(rows, g, k) # {}
                                      /\ Percentile(Group(rows, g, k), 50) <= Percentile(rows, 50)
      BY <1>5
    <2>3. /\ \E k \in K : Percentile(rows, 99) <= Percentile(Group(rows, g, k), 99)
          /\ rows # {} => \E k \in K : /\ Group(rows, g, k) # {}
                                      /\ Percentile(Group(rows, g, k), 99) <= Percentile(rows, 99)
      BY <1>5
    <2>4. /\ \E k \in K : Figures(rows).p50 <= parts[k].p50
          /\ Figures(rows).requests > 0 =>
                \E k \in K : parts[k].requests > 0 /\ parts[k].p50 <= Figures(rows).p50
      BY <1>1, <1>7, <1>8, <2>1, <2>2
    <2>5. /\ \E k \in K : Figures(rows).p99 <= parts[k].p99
          /\ Figures(rows).requests > 0 =>
                \E k \in K : parts[k].requests > 0 /\ parts[k].p99 <= Figures(rows).p99
      BY <1>1, <1>7, <1>8, <2>1, <2>3
    <2>6. QED
      BY <2>4, <2>5
  <1>11. QED
    BY <1>6, <1>9, <1>10 DEF AddsUp, SumOf

(* The endpoints that are kept, for the rows A.                               *)
LEMMA KeptAtMost ==
    ASSUME NEW A, IsFiniteSet(A), NEW kept, IsFiniteSet(kept),
           NEW h, \A kind \in kept : h[kind] = Cardinality(OfKind(A, kind))
    PROVE  /\ SumFunctionOnSet(h, kept) <= Cardinality(A)
           /\ Called(A) \subseteq kept => SumFunctionOnSet(h, kept) = Cardinality(A)
  <1> DEFINE B == {r \in A : r.kind \in kept}
             g == [r \in B |-> r.kind]
  <1>1. \A kind \in kept : Group(B, g, kind) = OfKind(A, kind)
    BY DEF Group, OfKind
  <1>2. B \subseteq A /\ \A r \in B : g[r] \in kept
    OBVIOUS
  <1>3. Called(A) \subseteq kept => B = A
    BY DEF Called
  <1> HIDE DEF B, g
  <1>4. IsFiniteSet(B) /\ Cardinality(B) <= Cardinality(A)
    BY <1>2, FS_Subset
  <1>5. \A kind \in kept : h[kind] = Cardinality(Group(B, g, kind))
    BY <1>1
  <1>6. SumFunctionOnSet(h, kept) = Cardinality(B)
    BY <1>2, <1>4, <1>5, CountByGroup
  <1>7. QED
    BY <1>3, <1>4, <1>6

LEMMA KeptAccount ==
    ASSUME NEW rows, IsFiniteSet(rows), \A r \in rows : r.kind \in Kind,
           NEW kept \in TopKinds(rows)
    PROVE  Accounts(Figures(rows), rows, kept)
  <1>1. IsFiniteSet(Kind)
    <2>1. IsFiniteSet({} \cup {"create"} \cup {"usage"})
      BY FS_EmptySet, FS_AddElement
    <2>2. QED
      BY <2>1 DEF Kind
  <1>2. IsFiniteSet(Called(rows)) /\ Cardinality(Called(rows)) \in Nat
    <2>1. Called(rows) \subseteq Kind
      BY DEF Called
    <2>2. QED
      BY <1>1, <2>1, FS_Subset, FS_CardinalityType
  <1>3. /\ kept \subseteq Called(rows)
        /\ Cardinality(kept) = Min({Top, Cardinality(Called(rows))})
        /\ \A kind \in kept, dropped \in Called(rows) \ kept :
              Cardinality(OfKind(rows, kind)) >= Cardinality(OfKind(rows, dropped))
    BY DEF TopKinds
  <1>4. IsFiniteSet(kept)
    BY <1>2, <1>3, FS_Subset
  <1>5. Cardinality(Called(rows)) <= Top => kept = Called(rows)
    <2> SUFFICES ASSUME Cardinality(Called(rows)) <= Top PROVE kept = Called(rows)
      OBVIOUS
    <2>1. PICK n \in Nat : n = Cardinality(Called(rows))
      BY <1>2
    <2>2. Top \in Nat /\ n <= Top
      BY <2>1, LimitAssumption
    <2>3. Min({Top, n}) = n
      <3>1. \E x \in {Top, n} : \A y \in {Top, n} : x <= y
        BY <2>2
      <3>2. Min({Top, n}) \in {Top, n} /\ \A y \in {Top, n} : Min({Top, n}) <= y
        BY <3>1 DEF Min
      <3>3. QED
        BY <2>2, <3>2
    <2>4. Cardinality(kept) = Cardinality(Called(rows))
      BY <1>3, <2>1, <2>3
    <2>5. QED
      BY <1>2, <1>3, <2>4, FS_Subset
  <1>6. /\ Figures(rows).requests = Cardinality(rows)
        /\ Figures(rows).errors = Cardinality(Errors(rows))
    BY DEF Figures
  <1> DEFINE parts == TopEndpoints(rows, kept)
  <1>7. /\ DOMAIN parts = kept
        /\ \A kind \in kept : /\ parts[kind].requests = Cardinality(OfKind(rows, kind))
                              /\ parts[kind].errors = Cardinality(OfKind(Errors(rows), kind))
    BY DEF TopEndpoints
  <1> HIDE DEF parts
  <1>8. /\ SumOf(parts, "requests") <= Cardinality(rows)
        /\ Called(rows) \subseteq kept => SumOf(parts, "requests") = Cardinality(rows)
    <2> DEFINE h == [kind \in DOMAIN parts |-> parts[kind]["requests"]]
    <2>1. \A kind \in kept : h[kind] = Cardinality(OfKind(rows, kind))
      BY <1>7
    <2>2. SumOf(parts, "requests") = SumFunctionOnSet(h, kept)
      BY <1>7 DEF SumOf
    <2> HIDE DEF h
    <2>3. QED
      BY <1>4, <2>1, <2>2, KeptAtMost
  <1>9. /\ SumOf(parts, "errors") <= Cardinality(Errors(rows))
        /\ Called(rows) \subseteq kept => SumOf(parts, "errors") = Cardinality(Errors(rows))
    <2> DEFINE h == [kind \in DOMAIN parts |-> parts[kind]["errors"]]
    <2>1. \A kind \in kept : h[kind] = Cardinality(OfKind(Errors(rows), kind))
      BY <1>7
    <2>2. SumOf(parts, "errors") = SumFunctionOnSet(h, kept)
      BY <1>7 DEF SumOf
    <2> HIDE DEF h
    <2>3. Errors(rows) \subseteq rows /\ Called(Errors(rows)) \subseteq Called(rows)
      BY DEF Errors, Called
    <2>4. IsFiniteSet(Errors(rows))
      BY <2>3, FS_Subset
    <2>5. QED
      BY <1>4, <2>1, <2>2, <2>3, <2>4, KeptAtMost
  <1>10. \A kind \in kept, dropped \in Called(rows) \ kept :
            Cardinality(OfKind(rows, dropped)) <= parts[kind].requests
    <2>1. \A kind \in Called(rows) : Cardinality(OfKind(rows, kind)) \in Nat
      <3>1. \A kind : OfKind(rows, kind) \subseteq rows
        BY DEF OfKind
      <3>2. QED
        BY <3>1, FS_Subset, FS_CardinalityType
    <2>2. QED
      BY <1>3, <1>7, <2>1
  <1>11. \A figure \in {"requests", "errors"} :
            /\ SumOf(parts, figure) <= Figures(rows)[figure]
            /\ Cardinality(Called(rows)) <= Top => SumOf(parts, figure) = Figures(rows)[figure]
    BY <1>5, <1>6, <1>8, <1>9
  <1>12. QED
    BY <1>10, <1>11 DEF parts, Accounts

(* Whoever asks for the report and whatever was recorded while it was being   *)
(* made (usage.service.ts:33-110): every request is counted in one bucket,    *)
(* and under one endpoint unless that one is cut off; the percentiles of the  *)
(* total lie between those of two buckets.                                    *)
THEOREM ReportsAddUp == Spec => []UsageAddsUp
  <1>1. ASSUME TInv, NEW p \in Partner, NEW asked \in 0 .. now
        PROVE  /\ AddsUp(UsageSeries(p, asked).totals, UsageSeries(p, asked).series)
               /\ \A kept \in TopKinds(Counted(p, asked)) :
                     Accounts(UsageSeries(p, asked).totals, Counted(p, asked), kept)
    <2> DEFINE rows == Counted(p, asked)
    <2>1. now \in Nat /\ asked \in Nat
      BY <1>1 DEF TInv, IInv, Shapes
    <2>2. Timings(rows, now) /\ \A r \in rows : r.kind \in Kind /\ r.t \in Nat
      <3>1. /\ rows \subseteq log \cup unlogged /\ IsFiniteSet(log \cup unlogged)
            /\ \A r \in log \cup unlogged : r.ms \in 0 .. now /\ r.kind \in Kind /\ r.t \in 0 .. now
        BY <1>1 DEF Counted, SelectedRows, TInv, Stamped
      <3> HIDE DEF rows
      <3>2. QED
        BY <2>1, <3>1, FS_Subset DEF Timings
    <2>3. /\ UsageSeries(p, asked).totals = Figures(rows)
          /\ UsageSeries(p, asked).series =
                [i \in 0 .. Count - 1 |->
                    Figures({r \in SelectedRows(p, asked) : IndexOf(r, asked) = i})]
      BY DEF UsageSeries
    <2>4. AddsUp(Figures(rows), UsageSeries(p, asked).series)
      <3> DEFINE K == 0 .. Count - 1
                 g == [r \in rows |-> IndexOf(r, asked)]
                 parts == UsageSeries(p, asked).series
      <3>1. IsFiniteSet(K) /\ K # {}
        <4>1. Count - 1 \in Nat
          BY LimitAssumption
        <4>2. QED
          BY <4>1, FS_Interval
      <3>2. ASSUME NEW r \in rows PROVE g[r] \in K
        <4>1. r.t >= WindowStart(asked) /\ IndexOf(r, asked) < Count
          BY DEF Counted, SelectedRows
        <4>2. IndexOf(r, asked) \in Nat
          BY <2>1, <2>2, <4>1, IndexIs
        <4>3. QED
          BY <4>1, <4>2, LimitAssumption
      <3>3. ASSUME NEW k \in K
            PROVE  parts[k] = Figures(Group(rows, g, k))
        <4>1. Group(rows, g, k) = {r \in SelectedRows(p, asked) : IndexOf(r, asked) = k}
          BY LimitAssumption DEF Group, Counted
        <4>2. QED
          BY <2>3, <4>1
      <3>4. DOMAIN parts = K
        BY <2>3
      <3> HIDE DEF K, g, parts, rows
      <3>5. AddsUp(Figures(rows), parts)
        BY <2>1, <2>2, <3>1, <3>2, <3>3, <3>4, PartsAddUp
      <3>6. QED
        BY <3>5 DEF parts
    <2>5. \A kept \in TopKinds(rows) : Accounts(Figures(rows), rows, kept)
      <3> HIDE DEF rows
      <3>1. QED
        BY <2>2, KeptAccount DEF Timings
    <2>6. QED
      BY <2>3, <2>4, <2>5
  <1>2. TInv => UsageAddsUp
    BY <1>1 DEF UsageAddsUp
  <1>3. QED
    BY <1>2, TimeInductive, PTL

=============================================================================
