------------------------ MODULE UserOnboardingProofs ------------------------
(***************************************************************************)
(* Theorems about UserOnboarding, for any sets of calls, keys, partners    *)
(* and external ids, any limits and any number of faults: what one call of *)
(* the SDK may leave in the tables however often it is retried, who the    *)
(* users belong to, what the throttler lets through and what is recorded.  *)
(*                                                                         *)
(* All of them rest on IInv.  Its heart is Follows: the SDK retries only   *)
(* what was answered and an attempt that it gave up ends the call, so a    *)
(* handler that may still create is at the last attempt of its call, or    *)
(* the proxy answered for it.                                              *)
(***************************************************************************)
EXTENDS UserOnboarding, FiniteSetTheorems, TLAPS

Busy == {"check", "insert", "attr_read", "attr_insert", "usage"}
Attributing == {"attr_read", "attr_insert"}

(* The shapes of calls, handlers and users; fields that no theorem is about   *)
(* are free.                                                                  *)
IsCall(s) ==
    s \in [pc : {"idle", "send", "await", "sleep", "done"}, kind : Kind, key : Key,
           external : {s.external}, attempt : Nat, at : {s.at},
           result : Status \cup {BadGateway, Unknown, NetworkError}, known : BOOLEAN,
           met : {s.met}, cut : {s.cut}]

IsHandler(h) ==
    h \in [call : Call, attempt : Nat, started : {h.started}, user : Nat,
           pc : Busy \cup {"wire"}, status : Status, retry_after : {h.retry_after}]

IsUser(u) == u \in [id : Nat \ {0}, external : {u.external}, by : Call, attempt : Nat]

Shapes ==
    /\ now \in Nat /\ faults \in Nat
    /\ call = [c \in Call |-> call[c]] /\ \A c \in Call : IsCall(call[c])
    /\ \A h \in handler : IsHandler(h)
    /\ IsFiniteSet(users) /\ \A u \in users : IsUser(u)
    /\ attributions \subseteq [user : Nat, partner : Partner]

(* What the state s of its call says of a handler.                            *)
Follows(h, s) ==
    /\ s.pc # "idle" /\ h.attempt <= s.attempt
    /\ h.attempt = s.attempt => s.pc \in {"await", "sleep", "done"}
    /\ Creating(h) =>
          \/ h.attempt \in s.cut
          \/ h.attempt = s.attempt /\ s.pc \in {"await", "done"}

(* One handler serves an attempt, and those of a call follow it.              *)
Serves ==
    /\ \A h, i \in handler : h.call = i.call /\ h.attempt = i.attempt => h = i
    /\ \A h \in handler :
          /\ Follows(h, call[h.call])
          /\ h.pc \in Busy => KeyPartner[call[h.call].key] \in Partner
          /\ h.pc = "usage" => call[h.call].kind = "usage"

(* Two attempts of a call that may both create: the earlier one was cut.      *)
Beside(m, n, cut) == m # n /\ (m < n => m \in cut) /\ (n < m => n \in cut)

(* Where users come from.                                                     *)
Creates ==
    /\ \A u \in users :
          /\ u.id <= Cardinality(users) /\ call[u.by].pc # "idle"
          /\ u.external = call[u.by].external
          /\ KeyPartner[call[u.by].key] \in Partner
    /\ \A u, v \in users : u.id = v.id => u = v
    /\ \A c \in Call : call[c].known => \E u \in users : u.external = call[c].external
    /\ \A h \in handler : h.pc = "insert" =>
          /\ ~call[h.call].known
          /\ \A u \in users :
                u.by = h.call => Beside(u.attempt, h.attempt, call[h.call].cut)

Owned(u) == \E a \in attributions : a.user = u.id

(* Whom they belong to, and what is said of them.                             *)
Belongs ==
    /\ \A a \in attributions :
          \E u \in users : a.user = u.id /\ a.partner = KeyPartner[call[u.by].key]
    /\ \A h \in handler : h.pc \in Attributing =>
          \E u \in users : /\ u.id = h.user /\ u.by = h.call /\ u.attempt = h.attempt
                          /\ ~Owned(u)
    /\ \A u \in users :
          Owned(u) \/ faults > 0 \/ \E h \in handler : h.user = u.id /\ h.pc \in Attributing
    /\ \A h \in handler :
          h.pc = "wire" /\ h.status = 200 /\ call[h.call].kind = "create" =>
             \E u \in users : u.by = h.call /\ Owned(u)
    /\ \A c \in Call :
          call[c].pc = "done" /\ call[c].result = 200 /\ call[c].kind = "create" =>
             \E u \in users : u.by = c /\ Owned(u)

HitsIn(bucket) == {hit \in hits : hit.bucket = bucket}

(* What the throttler remembers is of the last Window, and of the key alone.  *)
Throttled ==
    /\ IsFiniteSet(hits)
    /\ \A hit \in hits :
          /\ hit.call \in Call /\ call[hit.call].pc # "idle"
          /\ hit.bucket = <<call[hit.call].key, "any">> /\ now < hit.t + Window
    /\ \A key \in Key : Cardinality(HitsIn(<<key, "any">>)) <= Limit

(* A row of the request log, inserted or on its way.                          *)
Recorded(c, attempt, status) ==
    \E row \in log \cup unlogged :
        row.call = c /\ row.attempt = attempt /\ row.status = status

(* Until something fails, every answer of a handler has its row.              *)
Logged ==
    faults = 0 =>
        /\ \A h \in handler :
              h.pc = "wire" /\ h.status # 429 /\ call[h.call].key \in Scoped =>
                 Recorded(h.call, h.attempt, h.status)
        /\ AnswersAreLogged

IInv == Shapes /\ Serves /\ Creates /\ OneUserPerCall /\ KnownIsRefused /\ Belongs
          /\ Throttled /\ Logged

-----------------------------------------------------------------------------
(* The initial state.                                                         *)
LEMMA InitInv == Init => IInv
  <1> SUFFICES ASSUME Init PROVE IInv
    OBVIOUS
  <1>1. /\ now = 0 /\ faults = 0 /\ handler = {} /\ hits = {} /\ users = {} /\ attributions = {}
        /\ log = {} /\ unlogged = {}
    BY DEF Init
  <1>2. PICK s : /\ call = [c \in Call |-> s] /\ s.pc = "idle" /\ s.known = FALSE
                 /\ IsCall(s)
    <2> DEFINE s == [pc |-> "idle", kind |-> "create", key |-> CHOOSE k \in Key : TRUE,
                     external |-> Malformed, attempt |-> 0, at |-> 0, result |-> Unknown,
                     known |-> FALSE, met |-> 0, cut |-> {}]
    <2>1. call = [c \in Call |-> s]
      BY DEF Init
    <2>2. s.pc = "idle" /\ s.known = FALSE
      OBVIOUS
    <2>3. IsCall(s)
      BY KeyAssumption DEF IsCall, Kind
    <2>4. QED
      BY <2>1, <2>2, <2>3
  <1>3. Shapes
    BY <1>1, <1>2, FS_EmptySet DEF Shapes
  <1>4. Serves /\ Creates /\ OneUserPerCall /\ KnownIsRefused /\ Belongs
    BY <1>1, <1>2 DEF Serves, Creates, OneUserPerCall, KnownIsRefused, Belongs
  <1>5. Throttled
    <2>1. \A b : HitsIn(b) = {}
      BY <1>1 DEF HitsIn
    <2>2. QED
      BY <1>1, <2>1, FS_EmptySet, LimitAssumption DEF Throttled
  <1>6. Logged
    BY <1>1, <1>2 DEF Logged, AnswersAreLogged
  <1>7. QED
    BY <1>3, <1>4, <1>5, <1>6 DEF IInv

-----------------------------------------------------------------------------
(* Steps of clients.                                                          *)

(* One call moves on.                                                         *)
LEMMA CallMoved ==
    ASSUME Shapes, NEW c \in Call, NEW new, call' = [call EXCEPT ![c] = new], IsCall(new)
    PROVE  /\ call' = [d \in Call |-> call'[d]] /\ \A d \in Call : IsCall(call'[d])
           /\ call'[c] = new /\ \A d \in Call \ {c} : call'[d] = call[d]
  <1>1. call = [d \in Call |-> call[d]] /\ \A d \in Call : IsCall(call[d])
    BY DEF Shapes
  <1>2. call' = [d \in Call |-> IF d = c THEN new ELSE call[d]]
    BY <1>1
  <1>3. QED
    BY <1>1, <1>2

(* What a call asked for does not change any more, and what was cut stays so. *)
SameAsk(s, new) ==
    /\ new.kind = s.kind /\ new.key = s.key /\ new.external = s.external
    /\ new.known = s.known /\ s.cut \subseteq new.cut

(* A step of a call that is not answered, or is answered what its handler     *)
(* said; answers may be dropped on the way.                                   *)
LEMMA ClientStep ==
    ASSUME IInv, NEW c \in Call, NEW new, call' = [call EXCEPT ![c] = new], IsCall(new),
           new.pc # "idle",
           \/ call[c].pc # "idle" /\ SameAsk(call[c], new)
           \/ /\ call[c].pc = "idle" /\ new.pc = "send"
              /\ new.known => \E u \in users : u.external = new.external,
           handler' \subseteq handler, \A h \in handler \ handler' : h.pc = "wire",
           \A h \in handler' : h.call = c => Follows(h, new),
           \/ new = call[c]
           \/ new.pc # "done"
           \/ new.result \notin Status
           \/ \E h \in handler : /\ h.pc = "wire" /\ h.call = c /\ h.status = new.result
                                 /\ h.attempt = new.attempt,
           UNCHANGED <<now, throttler, tables, accounting, faults>>
    PROVE  IInv'
  <1>1. /\ call' = [d \in Call |-> call'[d]] /\ \A d \in Call : IsCall(call'[d])
        /\ call'[c] = new /\ \A d \in Call \ {c} : call'[d] = call[d]
    BY CallMoved DEF IInv
  <1>2. \A d \in Call : call[d].pc # "idle" => SameAsk(call[d], call'[d]) /\ call'[d].pc # "idle"
    BY <1>1 DEF SameAsk
  <1>3. /\ \A h \in handler : h.call \in Call /\ call[h.call].pc # "idle"
        /\ \A u \in users : u.by \in Call /\ call[u.by].pc # "idle"
        /\ \A h \in handler : h.pc \in Busy \cup {"wire"} /\ (h.pc \in Busy => h \in handler')
    BY DEF IInv, Shapes, Serves, Follows, Creates, IsHandler, IsUser, Busy
  <1>4. /\ now' = now /\ hits' = hits /\ users' = users /\ attributions' = attributions
        /\ log' = log /\ unlogged' = unlogged /\ faults' = faults
    BY DEF throttler, tables, accounting
  <1>5. Shapes'
    BY <1>1, <1>4 DEF IInv, Shapes
  <1>6. Serves'
    <2> SUFFICES ASSUME NEW h \in handler'
                 PROVE  /\ Follows(h, call'[h.call])
                        /\ h.pc \in Busy => KeyPartner[call'[h.call].key] \in Partner
                        /\ h.pc = "usage" => call'[h.call].kind = "usage"
      BY DEF IInv, Serves
    <2>1. SameAsk(call[h.call], call'[h.call])
      BY <1>2, <1>3
    <2>2. QED
      BY <1>1, <1>3, <2>1 DEF IInv, Serves, SameAsk
  <1>7. Creates'
    <2>1. \A u \in users : /\ u.id <= Cardinality(users) /\ call'[u.by].pc # "idle"
                           /\ u.external = call'[u.by].external
                           /\ KeyPartner[call'[u.by].key] \in Partner
      BY <1>2, <1>3 DEF IInv, Creates, SameAsk
    <2>2. \A d \in Call : call'[d].known => \E u \in users : u.external = call'[d].external
      BY <1>1 DEF IInv, Creates, SameAsk
    <2>3. ASSUME NEW h \in handler', h.pc = "insert"
          PROVE  /\ ~call'[h.call].known
                 /\ \A u \in users :
                       u.by = h.call => Beside(u.attempt, h.attempt, call'[h.call].cut)
      <3>1. h \in handler /\ SameAsk(call[h.call], call'[h.call])
        BY <1>2, <1>3
      <3>2. /\ ~call[h.call].known
            /\ \A u \in users :
                  u.by = h.call => Beside(u.attempt, h.attempt, call[h.call].cut)
        BY <2>3, <3>1 DEF IInv, Creates
      <3>3. QED
        BY <3>1, <3>2 DEF SameAsk, Beside
    <2>4. QED
      BY <1>4, <2>1, <2>2, <2>3 DEF IInv, Creates
  <1>8. OneUserPerCall' /\ KnownIsRefused'
    <2>1. \A u \in users : SameAsk(call[u.by], call'[u.by])
      BY <1>2, <1>3
    <2>2. QED
      BY <1>4, <2>1 DEF IInv, OneUserPerCall, KnownIsRefused, SameAsk
  <1>9. Belongs'
    <2>1. \A u : Owned(u)' <=> Owned(u)
      BY <1>4 DEF Owned
    <2>2. \A a \in attributions : \E u \in users : a.user = u.id /\ a.partner = KeyPartner[call'[u.by].key]
      BY <1>2, <1>3 DEF IInv, Belongs, SameAsk
    <2>3. \A h \in handler' : h.pc = "wire" /\ h.status = 200 /\ call'[h.call].kind = "create" =>
             \E u \in users : u.by = h.call /\ Owned(u)
      BY <1>2, <1>3 DEF IInv, Belongs, SameAsk
    <2>4. ASSUME NEW d \in Call, call'[d].pc = "done", call'[d].result = 200, call'[d].kind = "create"
          PROVE  \E u \in users : u.by = d /\ Owned(u)
      <3>1. CASE call'[d] = call[d]
        BY <2>4, <3>1 DEF IInv, Belongs
      <3>2. CASE call'[d] # call[d]
        <4>1. d = c /\ call[c].pc # "idle"
          BY <1>1, <2>4, <3>2
        <4>2. PICK h \in handler : h.pc = "wire" /\ h.call = c /\ h.status = 200
          BY <1>1, <2>4, <3>2, <4>1 DEF Status
        <4>3. call[c].kind = "create"
          BY <1>2, <2>4, <4>1 DEF SameAsk
        <4>4. QED
          BY <4>1, <4>2, <4>3 DEF IInv, Belongs
      <3>3. QED
        BY <3>1, <3>2
    <2>5. \A u \in users : Owned(u) \/ faults > 0
                             \/ \E h \in handler' : h.user = u.id /\ h.pc \in Attributing
      BY <1>3 DEF IInv, Belongs, Attributing, Busy
    <2>6. \A h \in handler' : h.pc \in Attributing =>
             \E u \in users : /\ u.id = h.user /\ u.by = h.call /\ u.attempt = h.attempt
                             /\ ~Owned(u)
      BY DEF IInv, Belongs
    <2>7. QED
      BY <1>4, <2>1, <2>2, <2>3, <2>4, <2>5, <2>6 DEF Belongs
  <1>10. Throttled'
    <2>1. \A hit \in hits : /\ hit.call \in Call /\ call'[hit.call].pc # "idle"
                            /\ hit.bucket = <<call'[hit.call].key, "any">>
      BY <1>2 DEF IInv, Throttled, SameAsk
    <2>2. QED
      BY <1>4, <2>1 DEF IInv, Throttled, HitsIn
  <1>11. Logged'
    <2>1. ASSUME faults = 0, NEW h \in handler', h.pc = "wire", h.status # 429,
                 call'[h.call].key \in Scoped
          PROVE  Recorded(h.call, h.attempt, h.status)
      BY <1>2, <1>3, <2>1 DEF IInv, Logged, SameAsk
    <2>2. ASSUME faults = 0, NEW d \in Call, call'[d].pc = "done",
                 call'[d].result \in Status \ {429}, call'[d].key \in Scoped
          PROVE  Recorded(d, call'[d].attempt, call'[d].result)
      <3>1. CASE call'[d] = call[d]
        BY <2>2, <3>1 DEF IInv, Logged, AnswersAreLogged, Recorded
      <3>2. CASE call'[d] # call[d]
        <4>1. d = c /\ call[c].pc # "idle"
          BY <1>1, <2>2, <3>2
        <4>2. PICK h \in handler : /\ h.pc = "wire" /\ h.call = c /\ h.status = new.result
                                   /\ h.attempt = new.attempt
          BY <1>1, <2>2, <3>2, <4>1
        <4>3. call[c].key \in Scoped
          BY <1>2, <2>2, <4>1 DEF SameAsk
        <4>4. QED
          BY <1>1, <2>2, <4>1, <4>2, <4>3 DEF IInv, Logged
      <3>3. QED
        BY <3>1, <3>2
    <2>3. QED
      BY <1>4, <2>1, <2>2 DEF Logged, AnswersAreLogged, Recorded
  <1>12. QED
    BY <1>5, <1>6, <1>7, <1>8, <1>9, <1>10, <1>11 DEF IInv

(* A call is made.                                                            *)
LEMMA BeginStep ==
    ASSUME IInv, NEW c \in Call, Begin(c)
    PROVE  IInv'
  <1>1. call[c].pc = "idle" /\ IsCall(call[c])
    BY DEF Begin, IInv, Shapes
  <1>2. PICK ask \in [key : Key, kind : Kind, external : ExternalId \cup {Malformed}] :
          call' = [call EXCEPT ![c] =
                      [@ EXCEPT !.pc = "send", !.key = ask.key, !.kind = ask.kind,
                                !.external = ask.external,
                                !.known = \E u \in users : u.external = ask.external]]
    BY AsksAssumption DEF Begin, Kind
  <1> DEFINE known == \E u \in users : u.external = ask.external
             new == [call[c] EXCEPT !.pc = "send", !.key = ask.key, !.kind = ask.kind,
                                    !.external = ask.external, !.known = known]
  <1>3. call' = [call EXCEPT ![c] = new]
    BY <1>2 DEF IInv, Shapes
  <1>4. known \in BOOLEAN /\ ask.key \in Key /\ ask.kind \in Kind
    BY Zenon
  <1> HIDE DEF known
  <1>5. IsCall(new) /\ new.pc = "send" /\ new.known = known /\ new.external = ask.external
    BY <1>1, <1>4 DEF IsCall
  <1>6. \A h \in handler : h.call # c
    BY <1>1 DEF IInv, Serves, Follows
  <1>7. new.known => \E u \in users : u.external = new.external
    BY <1>5 DEF known
  <1>8. UNCHANGED <<now, handler, throttler, tables, accounting, faults>>
    BY DEF Begin
  <1> HIDE DEF new
  <1>9. QED
    BY <1>1, <1>3, <1>5, <1>6, <1>7, <1>8, ClientStep

(* It wakes, or is given up: the handlers, if any, are at its attempts.       *)
LEMMA TimerStep ==
    ASSUME IInv, NEW c \in Call, Wake(c) \/ GiveUp(c)
    PROVE  IInv'
  <1>1. call[c].pc # "idle" /\ IsCall(call[c]) /\ call[c].attempt \in Nat
    BY DEF Wake, GiveUp, IInv, Shapes, IsCall
  <1>a. \A h \in handler : h.call = c => Follows(h, call[c]) /\ h.attempt \in Nat
    BY DEF IInv, Serves, Shapes, IsHandler
  <1>2. UNCHANGED <<now, handler, throttler, tables, accounting, faults>>
    BY DEF Wake, GiveUp
  <1>3. CASE Wake(c)
    <2> DEFINE new == [call[c] EXCEPT !.pc = "send", !.attempt = call[c].attempt + 1]
    <2>1. call' = [call EXCEPT ![c] = new] /\ call[c].pc = "sleep"
      BY <1>3 DEF Wake, IInv, Shapes
    <2>2. IsCall(new) /\ new.pc = "send" /\ SameAsk(call[c], new)
      <3>1. PICK n \in Nat : n = call[c].attempt + 1
        BY <1>1
      <3>2. QED
        BY <1>1, <3>1 DEF IsCall, SameAsk
    <2>3. \A h \in handler : h.call = c => Follows(h, new)
      <3>1. new.attempt = call[c].attempt + 1 /\ new.cut = call[c].cut
        BY <1>1 DEF IsCall
      <3> HIDE DEF new
      <3>2. QED
        BY <1>1, <1>a, <2>1, <2>2, <3>1 DEF Follows
    <2> HIDE DEF new
    <2>4. QED
      BY <1>1, <1>2, <2>1, <2>2, <2>3, ClientStep
  <1>4. CASE GiveUp(c)
    <2> DEFINE new == [call[c] EXCEPT !.pc = "done", !.result = NetworkError, !.at = 0,
                                      !.met = 0]
    <2>1. call' = [call EXCEPT ![c] = new]
      BY <1>4 DEF GiveUp, Ended, IInv, Shapes
    <2>2. /\ IsCall(new) /\ new.pc = "done" /\ SameAsk(call[c], new)
          /\ new.result = NetworkError /\ new.attempt = call[c].attempt /\ new.cut = call[c].cut
      BY <1>1 DEF IsCall, SameAsk
    <2>3. /\ handler' \subseteq handler /\ \A h \in handler \ handler' : h.pc = "wire"
          /\ \A h \in handler' : h.call = c => Follows(h, new)
      <3> HIDE DEF new
      <3>1. call[c].pc \in {"send", "await"}
        BY <1>4 DEF GiveUp
      <3>2. QED
        BY <1>a, <1>2, <2>2, <3>1 DEF Follows
    <2>4. NetworkError \notin Status
      BY DEF NetworkError, Status
    <2> HIDE DEF new
    <2>5. QED
      BY <1>1, <1>2, <2>1, <2>2, <2>3, <2>4, ClientStep
  <1>5. QED
    BY <1>3, <1>4

(* The proxy answers, and a handler that may still create goes on as cut.     *)
LEMMA ProxyStep ==
    ASSUME IInv, NEW c \in Call, ProxyFails(c)
    PROVE  IInv'
  <1>1. /\ call[c].pc \in {"send", "await"} /\ IsCall(call[c])
        /\ UNCHANGED <<now, handler, throttler, tables, accounting, faults>>
    BY DEF ProxyFails, IInv, Shapes
  <1>2. PICK cut : cut = {h.attempt : h \in {h \in handler : h.call = c /\ Awaited(h) /\ Creating(h)}}
    OBVIOUS
  <1>3. PICK at :
           \/ call' = [call EXCEPT ![c] = [call[c] EXCEPT !.cut = @ \cup cut, !.met = 0,
                                                         !.pc = "sleep", !.at = at]]
           \/ call' = [call EXCEPT ![c] = [call[c] EXCEPT !.cut = @ \cup cut, !.met = 0, !.pc = "done",
                                                         !.result = BadGateway, !.at = 0]]
    <2>1. PICK at : at = now + Backoff(0)
      OBVIOUS
    <2>2. QED
      BY <1>2, <2>1 DEF ProxyFails
  <1> DEFINE sleep == [call[c] EXCEPT !.cut = @ \cup cut, !.met = 0, !.pc = "sleep", !.at = at]
             done == [call[c] EXCEPT !.cut = @ \cup cut, !.met = 0, !.pc = "done",
                                     !.result = BadGateway, !.at = 0]
             Answered(new) ==
                /\ IsCall(new) /\ SameAsk(call[c], new) /\ new.attempt = call[c].attempt
                /\ new.cut = call[c].cut \cup cut /\ new.pc \in {"sleep", "done"}
                /\ new.pc = "done" => new.result = BadGateway
  <1>4. Answered(sleep) /\ Answered(done)
    BY <1>1 DEF IsCall, SameAsk
  <1>5. PICK new : call' = [call EXCEPT ![c] = new] /\ Answered(new)
    <2> HIDE DEF Answered
    <2>1. QED
      BY <1>3, <1>4
  <1>6. Answered(new)
    BY <1>5
  <1>7. \A h \in handler : h.call = c => Follows(h, new)
    <2> SUFFICES ASSUME NEW h \in handler, h.call = c PROVE Follows(h, new)
      OBVIOUS
    <2>1. Follows(h, call[c]) /\ h.attempt \in Nat /\ call[c].attempt \in Nat
      BY <1>1 DEF IInv, Serves, Shapes, IsHandler, IsCall
    <2>2. CASE h.attempt = call[c].attempt /\ Creating(h)
      <3>1. call[c].pc = "await"
        BY <1>1, <2>1, <2>2 DEF Follows
      <3>2. h.attempt \in cut
        BY <1>2, <2>2, <3>1 DEF Awaited
      <3>3. QED
        BY <1>6, <2>1, <3>2 DEF Follows, Creating
    <2>3. CASE ~(h.attempt = call[c].attempt /\ Creating(h))
      BY <1>6, <2>1, <2>3 DEF Follows, Creating
    <2>4. QED
      BY <2>2, <2>3
  <1>8. BadGateway \notin Status
    BY DEF BadGateway, Status
  <1>9. handler' \subseteq handler /\ (\A h \in handler \ handler' : h.pc = "wire")
        /\ \A h \in handler' : h.call = c => Follows(h, new)
    BY <1>1, <1>7
  <1>10. IsCall(new) /\ SameAsk(call[c], new) /\ new.pc # "idle" /\ call[c].pc # "idle"
         /\ (new.pc # "done" \/ new.result \notin Status)
    BY <1>1, <1>6, <1>8
  <1> HIDE DEF Answered
  <1>11. QED
    BY <1>1, <1>5, <1>9, <1>10, ClientStep

(* An answer is received, or nobody listens any more.                         *)
LEMMA AnswerStep ==
    ASSUME IInv, NEW h \in handler, Receive(h) \/ Unheard(h)
    PROVE  IInv'
  <1> DEFINE c == h.call
  <1>1. /\ c \in Call /\ IsCall(call[c]) /\ call[c].pc # "idle"
        /\ h.status \in Status
        /\ \A i \in handler : i.call = c /\ i.attempt = h.attempt => i = h
        /\ \A i \in handler : i.call = c => Follows(i, call[c]) /\ i.attempt \in Nat
    BY DEF IInv, Shapes, Serves, Follows, IsHandler
  <1>2. /\ UNCHANGED <<now, throttler, tables, accounting, faults>>
        /\ handler' = handler \ {h} /\ h.pc = "wire"
    BY DEF Receive, Unheard
  <1>3. handler' \subseteq handler /\ (\A i \in handler \ handler' : i.pc = "wire")
        /\ \A i \in handler' : i.call = c => Follows(i, call[c]) /\ i.attempt # h.attempt
    BY <1>1, <1>2
  <1>4. CASE Receive(h)
    <2>a. h.attempt = call[c].attempt /\ call[c].pc = "await" /\ call[c].attempt \in Nat
      BY <1>1, <1>4 DEF Receive, Awaited, IsCall
    <2>1. PICK at, met :
             \/ call' = [call EXCEPT ![c] = [call[c] EXCEPT !.pc = "sleep", !.at = at, !.met = met]]
             \/ call' = [call EXCEPT ![c] = [call[c] EXCEPT !.pc = "done", !.result = h.status,
                                                          !.at = 0, !.met = 0]]
      <3> DEFINE at0 == now + Backoff(h.retry_after)
                 met0 == IF h.status # 429 THEN 0
                         ELSE IF call[c].attempt = 0 THEN h.started + h.retry_after ELSE call[c].met
      <3>1. \/ call' = [call EXCEPT ![c] = [call[c] EXCEPT !.pc = "sleep", !.at = at0, !.met = met0]]
            \/ call' = [call EXCEPT ![c] = [call[c] EXCEPT !.pc = "done", !.result = h.status,
                                                         !.at = 0, !.met = 0]]
        BY <1>4 DEF Receive, Ended
      <3> HIDE DEF at0, met0
      <3>2. QED
        BY <3>1
    <2> DEFINE sleep == [call[c] EXCEPT !.pc = "sleep", !.at = at, !.met = met]
               done == [call[c] EXCEPT !.pc = "done", !.result = h.status, !.at = 0, !.met = 0]
               Moved(new) == /\ IsCall(new) /\ SameAsk(call[c], new) /\ new.pc \in {"sleep", "done"}
                             /\ new.attempt = call[c].attempt /\ new.cut = call[c].cut
                             /\ new.pc = "done" => new.result = h.status
    <2>1a. Moved(sleep)
      BY <1>1 DEF IsCall, SameAsk
    <2>1b. Moved(done)
      BY <1>1 DEF IsCall, SameAsk
    <2>2. PICK new : call' = [call EXCEPT ![c] = new] /\ Moved(new)
      <3> HIDE DEF Moved
      <3>1. QED
        BY <2>1, <2>1a, <2>1b
    <2>3. /\ IsCall(new) /\ SameAsk(call[c], new) /\ new.pc \in {"sleep", "done"}
          /\ new.attempt = call[c].attempt /\ new.cut = call[c].cut
          /\ new.pc = "done" => new.result = h.status
      BY <2>2
    <2> HIDE DEF Moved
    <2>4. \/ new.pc # "done"
          \/ \E i \in handler : /\ i.pc = "wire" /\ i.call = c /\ i.status = new.result
                                /\ i.attempt = new.attempt
      BY <1>1, <1>2, <2>a, <2>3
    <2>5. new.pc # "idle" /\ call[c].pc # "idle"
      BY <1>1, <2>3
    <2>6. \A i \in handler' : i.call = c => Follows(i, new)
      BY <1>1, <1>3, <2>a, <2>3 DEF Follows, Creating
    <2>7. QED
      BY <1>1, <1>2, <1>3, <2>2, <2>3, <2>4, <2>5, <2>6, ClientStep
  <1>5. CASE Unheard(h)
    <2>1. call' = [call EXCEPT ![c] = call[c]]
      BY <1>1, <1>5 DEF Unheard, IInv, Shapes
    <2>2. SameAsk(call[c], call[c]) /\ call[c].pc # "idle"
      BY <1>1 DEF SameAsk
    <2>3. QED
      BY <1>1, <1>2, <1>3, <2>1, <2>2, ClientStep
  <1>6. QED
    BY <1>4, <1>5

-----------------------------------------------------------------------------
(* Requests arrive.                                                           *)

(* A hit that the throttler counts leaves its bucket within the limit: none   *)
(* of those it remembers has expired.                                         *)
LEMMA HitCounted ==
    ASSUME IInv, NEW c \in Call, Arrived(c), Hit(c), UNCHANGED now
    PROVE  Throttled'
  <1> DEFINE key == call[c].key
             hit == [bucket |-> <<key, "any">>, call |-> c, attempt |-> call[c].attempt, t |-> now]
  <1>1. hits' = hits \cup {hit} /\ ~Exceeded(<<key, "any">>)
    BY DEF Hit, BucketOf, Bucket
  <1>2. /\ now \in Nat /\ Window \in Nat \ {0} /\ Limit \in Nat /\ IsFiniteSet(hits)
        /\ \A d \in Call : IsCall(call[d])
    BY LimitAssumption DEF IInv, Shapes, Throttled
  <1>3. \A d \in Call : call'[d].key = call[d].key /\ (call[d].pc # "idle" => call'[d].pc # "idle")
    BY DEF Arrived, IInv, Shapes
  <1>4. call'[c].pc # "idle"
    <2>1. call = [d \in Call |-> call[d]] /\ IsCall(call[c])
      BY DEF IInv, Shapes
    <2>2. QED
      BY <2>1 DEF Arrived, IsCall
  <1>5. \A g \in hits' :
          /\ g.call \in Call /\ call'[g.call].pc # "idle"
          /\ g.bucket = <<call'[g.call].key, "any">> /\ now' < g.t + Window
    <2>1. \A g \in hits : /\ g.call \in Call /\ call[g.call].pc # "idle"
                          /\ g.bucket = <<call[g.call].key, "any">> /\ now < g.t + Window
      BY DEF IInv, Throttled
    <2>2. hit.call = c /\ hit.bucket = <<key, "any">> /\ hit.t = now /\ now < now + Window
      BY <1>2
    <2> HIDE DEF hit
    <2>3. QED
      BY <1>1, <1>3, <1>4, <2>1, <2>2
  <1>6. IsFiniteSet(hits')
    BY <1>1, <1>2, FS_AddElement
  <1>7. ASSUME NEW k \in Key
        PROVE  Cardinality(HitsIn(<<k, "any">>)') <= Limit
    <2> DEFINE b == <<k, "any">>
    <2>1. /\ IsFiniteSet(HitsIn(b)) /\ Cardinality(HitsIn(b)) \in Nat
          /\ Cardinality(HitsIn(b)) <= Limit
      <3>1. HitsIn(b) \subseteq hits
        BY DEF HitsIn
      <3>2. QED
        BY <1>2, <3>1, FS_Subset, FS_CardinalityType DEF IInv, Throttled
    <2>2. hit.bucket = <<key, "any">>
      OBVIOUS
    <2> HIDE DEF hit
    <2>3. CASE k = key
      <3>1. HitsOf(b) = HitsIn(b)
        BY DEF HitsOf, HitsIn, IInv, Throttled
      <3>2. Cardinality(HitsIn(b)) # Limit
        BY <1>1, <2>3, <3>1 DEF Exceeded
      <3>3. HitsIn(b)' = HitsIn(b) \cup {hit}
        BY <1>1, <2>2, <2>3 DEF HitsIn
      <3>4. Cardinality(HitsIn(b) \cup {hit}) \in {Cardinality(HitsIn(b)), Cardinality(HitsIn(b)) + 1}
        BY <2>1, FS_AddElement
      <3>5. Cardinality(HitsIn(b) \cup {hit}) <= Limit
        BY <1>2, <2>1, <3>2, <3>4
      <3>6. QED
        BY <3>3, <3>5, Zenon
    <2>4. CASE k # key
      <3>1. HitsIn(b)' = HitsIn(b)
        BY <1>1, <2>2, <2>4 DEF HitsIn
      <3>2. QED
        BY <2>1, <3>1
    <2>5. QED
      BY <2>3, <2>4
  <1>8. QED
    BY <1>5, <1>6, <1>7 DEF Throttled

(* A request that arrives is the only one of its attempt.                     *)
LEMMA ArriveStep ==
    ASSUME IInv, NEW c \in Call, NEW i, Arrived(c), IsHandler(i),
           handler' = handler \cup {i}, i.call = c, i.attempt = call[c].attempt,
           i.pc \in {"wire", "check", "usage"}, i.pc = "wire" => i.status # 200,
           i.pc \in Busy => KeyPartner[call[c].key] \in Partner,
           i.pc = "usage" => call[c].kind = "usage",
           i.pc = "wire" /\ i.status # 429 /\ call[c].key \in Scoped =>
              Recorded(c, i.attempt, i.status)',
           unlogged \subseteq unlogged', Throttled',
           UNCHANGED <<now, tables, log, faults>>
    PROVE  IInv'
  <1> DEFINE new == [call[c] EXCEPT !.pc = "await"]
  <1>1. call[c].pc = "send" /\ call' = [call EXCEPT ![c] = new] /\ IsCall(call[c])
    BY DEF Arrived, IInv, Shapes
  <1>2. IsCall(new) /\ SameAsk(call[c], new) /\ new.pc = "await" /\ new.attempt = call[c].attempt
    BY <1>1 DEF IsCall, SameAsk
  <1> HIDE DEF new
  <1>3. /\ call' = [d \in Call |-> call'[d]] /\ \A d \in Call : IsCall(call'[d])
        /\ call'[c] = new /\ \A d \in Call \ {c} : call'[d] = call[d]
    BY <1>1, <1>2, CallMoved DEF IInv
  <1>4. \A d \in Call :
          /\ SameAsk(call[d], call'[d]) /\ call'[d].attempt = call[d].attempt
          /\ call[d].pc # "idle" => call'[d].pc # "idle"
          /\ call'[d].pc = "done" => call'[d] = call[d]
    BY <1>2, <1>3 DEF SameAsk
  <1>5. /\ \A h \in handler : h.call \in Call /\ (h.call = c => h.attempt # i.attempt)
        /\ \A u \in users : u.by \in Call
    BY <1>1 DEF IInv, Shapes, Serves, Follows, IsHandler, IsUser
  <1>6. /\ now' = now /\ users' = users /\ attributions' = attributions
        /\ log' = log /\ faults' = faults
    BY DEF tables
  <1>7. Shapes'
    BY <1>3, <1>6 DEF IInv, Shapes
  <1>8. Serves'
    <2>1. \A h, g \in handler' : h.call = g.call /\ h.attempt = g.attempt => h = g
      BY <1>5 DEF IInv, Serves
    <2>2. ASSUME NEW h \in handler'
          PROVE  /\ Follows(h, call'[h.call])
                 /\ h.pc \in Busy => KeyPartner[call'[h.call].key] \in Partner
                 /\ h.pc = "usage" => call'[h.call].kind = "usage"
      <3>1. CASE h = i
        <4>1. call[c].attempt \in Nat
          BY <1>1 DEF IsCall
        <4>2. QED
          BY <1>2, <1>3, <3>1, <4>1 DEF SameAsk, Follows
      <3>2. CASE h \in handler
        <4>1. /\ Follows(h, call[h.call]) /\ SameAsk(call[h.call], call'[h.call])
              /\ call'[h.call].attempt = call[h.call].attempt
              /\ h.call # c => call'[h.call] = call[h.call]
          BY <1>3, <1>4, <1>5, <3>2 DEF IInv, Serves
        <4>2. Follows(h, call'[h.call])
          BY <1>1, <1>2, <1>3, <1>5, <3>2, <4>1 DEF Follows, SameAsk
        <4>3. QED
          BY <3>2, <4>1, <4>2 DEF IInv, Serves, SameAsk
      <3>3. QED
        BY <3>1, <3>2
    <2>3. QED
      BY <2>1, <2>2 DEF Serves
  <1>9. Creates'
    <2>1. \A u \in users : /\ u.id <= Cardinality(users) /\ call'[u.by].pc # "idle"
                           /\ u.external = call'[u.by].external
                           /\ KeyPartner[call'[u.by].key] \in Partner
      BY <1>4, <1>5 DEF IInv, Creates, SameAsk
    <2>2. \A d \in Call : call'[d].known => \E u \in users : u.external = call'[d].external
      BY <1>4 DEF IInv, Creates, SameAsk
    <2>3. ASSUME NEW h \in handler', h.pc = "insert"
          PROVE  /\ ~call'[h.call].known
                 /\ \A u \in users :
                       u.by = h.call => Beside(u.attempt, h.attempt, call'[h.call].cut)
      <3>1. h \in handler /\ SameAsk(call[h.call], call'[h.call])
        BY <1>4, <1>5, <2>3
      <3>2. /\ ~call[h.call].known
            /\ \A u \in users :
                  u.by = h.call => Beside(u.attempt, h.attempt, call[h.call].cut)
        BY <2>3, <3>1 DEF IInv, Creates
      <3>3. QED
        BY <3>1, <3>2 DEF SameAsk, Beside
    <2>4. QED
      BY <1>6, <2>1, <2>2, <2>3 DEF IInv, Creates
  <1>10. OneUserPerCall' /\ KnownIsRefused'
    <2>1. \A u \in users : SameAsk(call[u.by], call'[u.by])
      BY <1>4, <1>5
    <2>2. QED
      BY <1>6, <2>1 DEF IInv, OneUserPerCall, KnownIsRefused, SameAsk
  <1>11. Belongs'
    <2>1. \A u : Owned(u)' <=> Owned(u)
      BY <1>6 DEF Owned
    <2>2. \A a \in attributions : \E u \in users : a.user = u.id /\ a.partner = KeyPartner[call'[u.by].key]
      BY <1>4, <1>5 DEF IInv, Belongs, SameAsk
    <2>3. \A h \in handler' : h.pc = "wire" /\ h.status = 200 /\ call'[h.call].kind = "create" =>
             \E u \in users : u.by = h.call /\ Owned(u)
      BY <1>4, <1>5 DEF IInv, Belongs, SameAsk
    <2>4. \A d \in Call : call'[d].pc = "done" /\ call'[d].result = 200 /\ call'[d].kind = "create" =>
             \E u \in users : u.by = d /\ Owned(u)
      BY <1>4 DEF IInv, Belongs
    <2>5. \A u \in users : Owned(u) \/ faults > 0
                             \/ \E h \in handler' : h.user = u.id /\ h.pc \in Attributing
      BY DEF IInv, Belongs
    <2>6. \A h \in handler' : h.pc \in Attributing =>
             \E u \in users : /\ u.id = h.user /\ u.by = h.call /\ u.attempt = h.attempt
                             /\ ~Owned(u)
      BY DEF IInv, Belongs, Attributing
    <2>7. QED
      BY <1>6, <2>1, <2>2, <2>3, <2>4, <2>5, <2>6 DEF Belongs
  <1>12. Logged'
    <2>1. \A d, a, s : Recorded(d, a, s) => Recorded(d, a, s)'
      BY <1>6 DEF Recorded
    <2>2. ASSUME faults = 0, NEW h \in handler', h.pc = "wire", h.status # 429,
                 call'[h.call].key \in Scoped
          PROVE  Recorded(h.call, h.attempt, h.status)'
      <3>1. CASE h = i
        BY <1>4, <2>2, <3>1 DEF SameAsk
      <3>2. CASE h \in handler
        BY <1>4, <1>5, <2>1, <2>2, <3>2 DEF IInv, Logged, SameAsk
      <3>3. QED
        BY <3>1, <3>2
    <2>3. ASSUME faults = 0, NEW d \in Call, call'[d].pc = "done",
                 call'[d].result \in Status \ {429}, call'[d].key \in Scoped
          PROVE  \E row \in log' \cup unlogged' :
                    row.call = d /\ row.attempt = call'[d].attempt
                    /\ row.status = call'[d].result
      <3>1. call'[d] = call[d]
        BY <1>4, <2>3
      <3>2. \E row \in log \cup unlogged :
               row.call = d /\ row.attempt = call[d].attempt /\ row.status = call[d].result
        BY <2>3, <3>1 DEF IInv, Logged, AnswersAreLogged
      <3>3. QED
        BY <1>6, <3>1, <3>2
    <2>4. AnswersAreLogged'
      BY <1>6, <2>3 DEF AnswersAreLogged
    <2>5. QED
      BY <1>6, <2>2, <2>4 DEF Logged
  <1>13. QED
    BY <1>7, <1>8, <1>9, <1>10, <1>11, <1>12 DEF IInv

(* What a new handler is.                                                     *)
LEMMA NewHandlerShape ==
    ASSUME IInv, NEW c \in Call, NEW pc \in Busy \cup {"wire"}, NEW status \in Status
    PROVE  LET h == NewHandler(c, pc, status)
           IN  IsHandler(h) /\ h.call = c /\ h.attempt = call[c].attempt /\ h.pc = pc
                 /\ h.status = status
  <1>1. call[c].attempt \in Nat
    BY DEF IInv, Shapes, IsCall
  <1>2. QED
    BY <1>1 DEF NewHandler, IsHandler

(* A request is refused by the throttler, by the scopes or for want of a      *)
(* partner, or it is admitted.                                                *)
LEMMA ArrivalsStep ==
    ASSUME IInv, NEW c \in Call, Arrive(c)
    PROVE  IInv'
  <1>1. call[c].kind \in Kind /\ call[c].key \in Key /\ call[c].attempt \in Nat
    BY DEF IInv, Shapes, IsCall
  <1>2. {429, 403, 500} \subseteq Status /\ "usage" \notin {"wire", "check"}
    BY DEF Status
  <1>3. CASE Throttle(c)
    <2>1. PICK r : handler' = handler \cup {[NewHandler(c, "wire", 429) EXCEPT !.retry_after = r]}
      BY <1>3 DEF Throttle
    <2> DEFINE i == [NewHandler(c, "wire", 429) EXCEPT !.retry_after = r]
    <2>2. /\ IsHandler(i) /\ i.call = c /\ i.attempt = call[c].attempt
          /\ i.pc = "wire" /\ i.status = 429
      BY <1>1, <1>2 DEF NewHandler, IsHandler
    <2>3. Arrived(c) /\ UNCHANGED <<now, hits, tables, accounting, faults>>
      BY <1>3 DEF Throttle
    <2>4. Throttled'
      <3>1. \A d \in Call : call'[d].key = call[d].key
                            /\ (call[d].pc # "idle" => call'[d].pc # "idle")
        BY <2>3 DEF Arrived, IInv, Shapes
      <3>2. QED
        BY <2>3, <3>1 DEF IInv, Throttled, HitsIn
    <2>5. unlogged \subseteq unlogged' /\ UNCHANGED <<now, tables, log, faults>>
      BY <2>3 DEF accounting
    <2> HIDE DEF i
    <2>6. handler' = handler \cup {i}
      BY <2>1 DEF i
    <2>7. QED
      BY <2>2, <2>3, <2>4, <2>5, <2>6, ArriveStep DEF Busy
  <1>4. CASE LacksScope(c)
    <2> DEFINE i == NewHandler(c, "wire", 403)
    <2>1. /\ IsHandler(i) /\ i.call = c /\ i.attempt = call[c].attempt
          /\ i.pc = "wire" /\ i.status = 403
      BY <1>2, NewHandlerShape
    <2>2. /\ Arrived(c) /\ Hit(c) /\ call[c].key \notin Scoped /\ handler' = handler \cup {i}
          /\ UNCHANGED <<now, tables, accounting, faults>>
      BY <1>4 DEF LacksScope
    <2>3. Throttled'
      BY <2>2, HitCounted
    <2>4. unlogged \subseteq unlogged' /\ UNCHANGED <<now, tables, log, faults>>
      BY <2>2 DEF accounting
    <2> HIDE DEF i
    <2>5. QED
      BY <2>1, <2>2, <2>3, <2>4, ArriveStep DEF Busy
  <1>5. CASE NoPartner(c)
    <2>0. PICK status \in Refusals(c) :
             /\ handler' = handler \cup {NewHandler(c, "wire", status)}
             /\ unlogged' = unlogged \cup {RowOf(NewHandler(c, "wire", status), status)}
      BY <1>5 DEF NoPartner, Record
    <2>1. PICK i : i = NewHandler(c, "wire", status)
      OBVIOUS
    <2>2. /\ IsHandler(i) /\ i.call = c /\ i.attempt = call[c].attempt
          /\ i.pc = "wire" /\ i.status = status /\ status # 200
      <3>1. status \in Status /\ status # 200
        BY DEF Refusals, Status
      <3>2. QED
        BY <2>1, <3>1, NewHandlerShape
    <2>3. /\ Arrived(c) /\ Hit(c) /\ handler' = handler \cup {i}
          /\ unlogged' = unlogged \cup {RowOf(i, status)}
          /\ UNCHANGED <<now, tables, log, faults>>
      BY <1>5, <2>0, <2>1 DEF NoPartner
    <2>4. Throttled'
      BY <2>3, HitCounted
    <2>5. Recorded(c, i.attempt, i.status)'
      <3>1. RowOf(i, status).call = i.call /\ RowOf(i, status).attempt = i.attempt
            /\ RowOf(i, status).status = status
        BY DEF RowOf
      <3>2. QED
        BY <2>2, <2>3, <3>1 DEF Recorded
    <2>6. QED
      BY <2>2, <2>3, <2>4, <2>5, ArriveStep DEF Busy
  <1>6. CASE Admit(c)
    <2> DEFINE pc == IF call[c].kind = "create" THEN "check" ELSE "usage"
               i == NewHandler(c, pc, 500)
    <2>1. pc \in {"check", "usage"} /\ (pc = "usage" => call[c].kind = "usage")
      BY <1>1 DEF Kind
    <2> HIDE DEF pc
    <2>2. /\ IsHandler(i) /\ i.call = c /\ i.attempt = call[c].attempt
          /\ i.pc = pc /\ i.status = 500
      BY <1>2, <2>1, NewHandlerShape DEF Busy
    <2>3. /\ Arrived(c) /\ Hit(c) /\ KeyPartner[call[c].key] # Null /\ handler' = handler \cup {i}
          /\ UNCHANGED <<now, tables, accounting, faults>>
      BY <1>6 DEF Admit, pc
    <2>4. Throttled'
      BY <2>3, HitCounted
    <2>5. unlogged \subseteq unlogged' /\ UNCHANGED <<now, tables, log, faults>>
      BY <2>3 DEF accounting
    <2>6. KeyPartner[call[c].key] \in Partner
      BY <1>1, <2>3, KeyAssumption
    <2> HIDE DEF i
    <2>7. i.pc \in {"wire", "check", "usage"} /\ i.pc # "wire"
      BY <2>1, <2>2
    <2>8. QED
      BY <2>1, <2>2, <2>3, <2>4, <2>5, <2>6, <2>7, ArriveStep
  <1>7. QED
    BY <1>3, <1>4, <1>5, <1>6 DEF Arrive

-----------------------------------------------------------------------------
(* Handlers take their steps.                                                 *)

(* What every step of a handler does: it becomes i, and i has its row when it *)
(* is the answer.                                                             *)
HandlerMoves(h, i) ==
    /\ IsHandler(i) /\ i.call = h.call /\ i.attempt = h.attempt
    /\ i.pc = "usage" => h.pc = "usage"
    /\ Creating(i) => Creating(h)
    /\ handler' = (handler \ {h}) \cup {i}
    /\ UNCHANGED <<now, call, throttler>>
    /\ faults' \in Nat /\ faults <= faults'
    /\ log' = log /\ unlogged \subseteq unlogged'
    /\ i.pc = "wire" => Recorded(i.call, i.attempt, i.status)'

Other(g, h) == g.call # h.call \/ g.attempt # h.attempt

LEMMA MoveStep ==
    ASSUME IInv, NEW h \in handler, h.pc \in Busy, NEW i, HandlerMoves(h, i)
    PROVE  /\ Serves' /\ Throttled' /\ Logged'
           /\ now' \in Nat /\ faults' \in Nat
           /\ call' = [c \in Call |-> call'[c]] /\ \A c \in Call : IsCall(call'[c])
           /\ \A g \in handler' : IsHandler(g)
           /\ \A g \in handler' : g = i \/ (g \in handler /\ Other(g, h))
           /\ \A g \in handler : g = h \/ (g \in handler' /\ Other(g, h))
  <1>1. /\ now' = now /\ call' = call /\ hits' = hits /\ log' = log
        /\ handler' = (handler \ {h}) \cup {i} /\ unlogged \subseteq unlogged'
        /\ i.call = h.call /\ i.attempt = h.attempt /\ IsHandler(i)
        /\ faults \in Nat /\ faults' \in Nat /\ faults <= faults'
    BY DEF HandlerMoves, throttler, IInv, Shapes
  <1>2. \A g \in handler : g = h \/ Other(g, h)
    BY DEF IInv, Serves, Other
  <1>3. /\ \A g \in handler' : g = i \/ (g \in handler /\ Other(g, h))
        /\ \A g \in handler : g = h \/ (g \in handler' /\ Other(g, h))
    BY <1>1, <1>2
  <1>4. Serves'
    <2>1. \A f, g \in handler' : f.call = g.call /\ f.attempt = g.attempt => f = g
      BY <1>1, <1>3 DEF IInv, Serves, Other
    <2>2. h.pc = "usage" => call[h.call].kind = "usage"
      BY DEF IInv, Serves
    <2>3. ASSUME NEW g \in handler'
          PROVE  /\ Follows(g, call[g.call])
                 /\ g.pc \in Busy => KeyPartner[call[g.call].key] \in Partner
                 /\ g.pc = "usage" => call[g.call].kind = "usage"
      <3>1. CASE g = i
        <4>1. Creating(i) => Creating(h)
          BY DEF HandlerMoves
        <4>2. Follows(g, call[g.call])
          BY <1>1, <3>1, <4>1 DEF IInv, Serves, Follows
        <4>3. QED
          BY <1>1, <2>2, <3>1, <4>2 DEF IInv, Serves, HandlerMoves
      <3>2. CASE g \in handler
        BY <3>2 DEF IInv, Serves
      <3>3. QED
        BY <1>3, <3>1, <3>2
    <2>4. QED
      BY <1>1, <2>1, <2>3 DEF Serves
  <1>5. Throttled'
    BY <1>1 DEF IInv, Throttled, HitsIn
  <1>6. Logged'
    <2>1. \A d, a, s : Recorded(d, a, s) => Recorded(d, a, s)'
      BY <1>1 DEF Recorded
    <2>2. faults' = 0 => faults = 0
      BY <1>1
    <2>3. ASSUME faults' = 0, NEW g \in handler', g.pc = "wire", g.status # 429,
                 call[g.call].key \in Scoped
          PROVE  Recorded(g.call, g.attempt, g.status)'
      <3>1. CASE g = i
        BY <2>3, <3>1 DEF HandlerMoves
      <3>2. CASE g \in handler
        BY <2>1, <2>2, <2>3, <3>2 DEF IInv, Logged
      <3>3. QED
        BY <1>3, <3>1, <3>2
    <2>4. ASSUME faults' = 0
          PROVE  AnswersAreLogged'
      <3>1. AnswersAreLogged
        BY <2>2, <2>4 DEF IInv, Logged
      <3>2. QED
        BY <1>1, <2>2, <3>1 DEF AnswersAreLogged
    <2>5. QED
      BY <1>1, <2>3, <2>4 DEF Logged
  <1>7. call = [c \in Call |-> call[c]] /\ (\A c \in Call : IsCall(call[c])) /\ now \in Nat
        /\ \A g \in handler : IsHandler(g)
    BY DEF IInv, Shapes
  <1>8. QED
    BY <1>1, <1>3, <1>4, <1>5, <1>6, <1>7

(* A step that writes no table.  One that was attributing its user is not     *)
(* done without doing so, unless something failed.                            *)
LEMMA ReadStep ==
    ASSUME IInv, NEW h \in handler, h.pc \in Busy, NEW i, HandlerMoves(h, i),
           UNCHANGED tables,
           i.pc = "insert" => /\ ~call[h.call].known
                              /\ \A u \in users : u.by # h.call,
           i.pc \in Attributing => h.pc \in Attributing /\ i.user = h.user,
           h.pc \in Attributing => i.pc \in Attributing \/ faults' > 0,
           i.pc = "wire" => i.status # 200 \/ call[h.call].kind # "create"
    PROVE  IInv'
  <1>1. /\ Serves' /\ Throttled' /\ Logged'
        /\ now' \in Nat /\ faults' \in Nat
        /\ call' = [c \in Call |-> call'[c]] /\ \A c \in Call : IsCall(call'[c])
        /\ \A g \in handler' : IsHandler(g)
        /\ \A g \in handler' : g = i \/ (g \in handler /\ Other(g, h))
        /\ \A g \in handler : g = h \/ (g \in handler' /\ Other(g, h))
    BY MoveStep
  <1>2. /\ users' = users /\ attributions' = attributions /\ call' = call
        /\ i \in handler' /\ i.call = h.call /\ faults \in Nat /\ faults <= faults'
    BY DEF tables, HandlerMoves, IInv, Shapes
  <1>3. Shapes'
    BY <1>1, <1>2 DEF IInv, Shapes
  <1>4. Creates'
    <2>1. \A g \in handler' : g.pc = "insert" =>
             /\ ~call[g.call].known
             /\ \A u \in users :
                   u.by = g.call => Beside(u.attempt, g.attempt, call[g.call].cut)
      BY <1>1, <1>2 DEF IInv, Creates
    <2>2. QED
      BY <1>2, <2>1 DEF IInv, Creates
  <1>5. OneUserPerCall' /\ KnownIsRefused'
    BY <1>2 DEF IInv, OneUserPerCall, KnownIsRefused
  <1>6. Belongs'
    <2>1. \A u : Owned(u)' <=> Owned(u)
      BY <1>2 DEF Owned
    <2>2. \A g \in handler' : g.pc \in Attributing =>
             \E u \in users : /\ u.id = g.user /\ u.by = g.call /\ u.attempt = g.attempt
                             /\ ~Owned(u)
      <3>1. i.attempt = h.attempt
        BY DEF HandlerMoves
      <3>2. QED
        BY <1>1, <1>2, <3>1 DEF IInv, Belongs
    <2>3. ASSUME NEW u \in users
          PROVE  Owned(u) \/ faults' > 0
                   \/ \E g \in handler' : g.user = u.id /\ g.pc \in Attributing
      <3>1. CASE faults > 0
        BY <1>1, <1>2, <3>1
      <3>2. CASE \E g \in handler : g.user = u.id /\ g.pc \in Attributing
        BY <1>1, <1>2, <3>2
      <3>3. QED
        BY <3>1, <3>2 DEF IInv, Belongs
    <2>4. \A g \in handler' :
             g.pc = "wire" /\ g.status = 200 /\ call[g.call].kind = "create" =>
                \E u \in users : u.by = g.call /\ Owned(u)
      BY <1>1, <1>2 DEF IInv, Belongs
    <2>5. QED
      BY <1>2, <2>1, <2>2, <2>3, <2>4 DEF IInv, Belongs
  <1>7. QED
    BY <1>1, <1>3, <1>4, <1>5, <1>6 DEF IInv

(* The user is written.  Its attempt has no other, nor has its call unless an *)
(* attempt was cut, and its external id was not there when the call was made. *)
LEMMA WriteUserStep ==
    ASSUME IInv, NEW h \in handler, h.pc = "insert", NEW i, HandlerMoves(h, i),
           users' = users \cup {NewUser(h)}, UNCHANGED attributions,
           i.pc # "insert",
           i.pc \in Attributing => i.user = NewUser(h).id,
           i.pc \in Attributing \/ faults' > 0,
           i.pc = "wire" => i.status # 200
    PROVE  IInv'
  <1>1. /\ Serves' /\ Throttled' /\ Logged'
        /\ now' \in Nat /\ faults' \in Nat
        /\ call' = [c \in Call |-> call'[c]] /\ \A c \in Call : IsCall(call'[c])
        /\ \A g \in handler' : IsHandler(g)
        /\ \A g \in handler' : g = i \/ (g \in handler /\ Other(g, h))
        /\ \A g \in handler : g = h \/ (g \in handler' /\ Other(g, h))
    BY MoveStep DEF Busy
  <1>2. /\ attributions' = attributions /\ call' = call
        /\ i \in handler' /\ i.call = h.call /\ i.attempt = h.attempt
        /\ faults \in Nat /\ faults <= faults'
    BY DEF HandlerMoves, IInv, Shapes
  <1>3. PICK u : u = NewUser(h)
    OBVIOUS
  <1>4. /\ u.id = Cardinality(users) + 1 /\ u.by = h.call /\ u.attempt = h.attempt
        /\ h.attempt \in Nat /\ u.external = call[h.call].external /\ users' = users \cup {u} /\ h.call \in Call
    BY <1>3 DEF NewUser, IInv, Shapes, IsHandler
  <1>5. /\ IsFiniteSet(users) /\ Cardinality(users) \in Nat
        /\ \A v \in users : IsUser(v) /\ v.id \in Nat /\ v.id <= Cardinality(users)
    BY FS_CardinalityType DEF IInv, Shapes, Creates, IsUser
  <1>6. /\ u \notin users /\ \A v \in users : v.id # u.id
        /\ IsFiniteSet(users') /\ Cardinality(users') = Cardinality(users) + 1
    <2>1. \A v \in users : v.id # u.id
      BY <1>4, <1>5
    <2>2. u \notin users
      BY <2>1
    <2>3. QED
      BY <1>4, <1>5, <2>1, <2>2, FS_AddElement
  <1>7. IsUser(u)
    BY <1>3, <1>4, <1>5 DEF NewUser, IsUser
  <1>8. Shapes'
    BY <1>1, <1>2, <1>4, <1>5, <1>6, <1>7 DEF IInv, Shapes
  <1>9. /\ ~call[h.call].known
        /\ \A v \in users : v.by = h.call => Beside(v.attempt, h.attempt, call[h.call].cut)
    BY DEF IInv, Creates
  <1>10. call[h.call].pc # "idle" /\ KeyPartner[call[h.call].key] \in Partner
    BY DEF IInv, Serves, Follows, Busy
  <1>11. Creates'
    <2>1. \A v \in users' : /\ v.id <= Cardinality(users') /\ call[v.by].pc # "idle"
                            /\ v.external = call[v.by].external
                            /\ KeyPartner[call[v.by].key] \in Partner
      <3>1. \A v \in users : /\ v.id <= Cardinality(users') /\ call[v.by].pc # "idle"
                             /\ v.external = call[v.by].external
                             /\ KeyPartner[call[v.by].key] \in Partner
        BY <1>5, <1>6 DEF IInv, Creates
      <3>2. QED
        BY <1>4, <1>5, <1>6, <1>10, <3>1
    <2>2. \A v, w \in users' : v.id = w.id => v = w
      BY <1>4, <1>6 DEF IInv, Creates
    <2>3. \A c \in Call : call[c].known => \E v \in users' : v.external = call[c].external
      BY <1>4 DEF IInv, Creates
    <2>4. ASSUME NEW g \in handler', g.pc = "insert"
          PROVE  /\ ~call[g.call].known
                 /\ \A v \in users' :
                       v.by = g.call => Beside(v.attempt, g.attempt, call[g.call].cut)
      <3>1. g \in handler /\ Other(g, h)
        BY <1>1, <2>4
      <3>2. /\ ~call[g.call].known
            /\ \A v \in users : v.by = g.call => Beside(v.attempt, g.attempt, call[g.call].cut)
        BY <2>4, <3>1 DEF IInv, Creates
      <3>3. ASSUME g.call = h.call
            PROVE  Beside(h.attempt, g.attempt, call[g.call].cut)
        <4>1. /\ Follows(g, call[g.call]) /\ Follows(h, call[g.call])
              /\ g.attempt \in Nat /\ h.attempt \in Nat /\ call[g.call].attempt \in Nat
          BY <3>1, <3>3 DEF IInv, Serves, Shapes, IsHandler, IsCall
        <4>2. Creating(g) /\ Creating(h) /\ g.attempt # h.attempt
          BY <2>4, <3>1, <3>3 DEF Creating, Other
        <4>3. QED
          BY <4>1, <4>2 DEF Follows, Beside
      <3>4. QED
        BY <1>4, <3>2, <3>3
    <2>5. \A g \in handler' : g.pc = "insert" =>
             /\ ~call'[g.call].known
             /\ \A v \in users' :
                   v.by = g.call => Beside(v.attempt, g.attempt, call'[g.call].cut)
      BY <1>2, <2>4
    <2>6. QED
      <3>1. \A v \in users' : /\ v.id <= Cardinality(users') /\ call'[v.by].pc # "idle"
                              /\ v.external = call'[v.by].external
                              /\ KeyPartner[call'[v.by].key] \in Partner
        BY <1>2, <2>1
      <3>2. \A c \in Call : call'[c].known => \E v \in users' : v.external = call'[c].external
        BY <1>2, <2>3
      <3>3. QED
        BY <2>2, <2>5, <3>1, <3>2 DEF Creates
  <1>12. OneUserPerCall' /\ KnownIsRefused'
    <2>1. \A v \in users : v.by = u.by =>
             \/ u.attempt < v.attempt /\ u.attempt \in call[u.by].cut
             \/ v.attempt < u.attempt /\ v.attempt \in call[u.by].cut
      BY <1>4, <1>5, <1>9 DEF Beside, IsUser
    <2>2. \A v, w \in users' :
             v.by = w.by => \/ v = w
                            \/ v.attempt < w.attempt /\ v.attempt \in call[v.by].cut
                            \/ w.attempt < v.attempt /\ w.attempt \in call[v.by].cut
      BY <1>4, <2>1 DEF IInv, OneUserPerCall
    <2>3. QED
      BY <1>2, <1>4, <1>9, <2>2 DEF IInv, OneUserPerCall, KnownIsRefused
  <1>13. Belongs'
    <2>1. \A v : Owned(v)' <=> Owned(v)
      BY <1>2 DEF Owned
    <2>2. ~Owned(u)
      BY <1>6 DEF Owned, IInv, Belongs
    <2>3. \A g \in handler' : g.pc \in Attributing =>
             \E v \in users' : /\ v.id = g.user /\ v.by = g.call /\ v.attempt = g.attempt
                              /\ ~Owned(v)
      BY <1>1, <1>2, <1>3, <1>4, <2>2 DEF IInv, Belongs
    <2>4. ASSUME NEW v \in users'
          PROVE  Owned(v) \/ faults' > 0
                   \/ \E g \in handler' : g.user = v.id /\ g.pc \in Attributing
      <3>1. CASE v = u
        BY <1>2, <1>3, <3>1
      <3>2. CASE v \in users /\ faults > 0
        BY <1>1, <1>2, <3>2
      <3>3. CASE v \in users /\ \E g \in handler : g.user = v.id /\ g.pc \in Attributing
        BY <1>1, <3>3 DEF Attributing
      <3>4. QED
        BY <1>4, <3>1, <3>2, <3>3 DEF IInv, Belongs
    <2>5. \A g \in handler' :
             g.pc = "wire" /\ g.status = 200 /\ call[g.call].kind = "create" =>
                \E v \in users' : v.by = g.call /\ Owned(v)
      BY <1>1, <1>4 DEF IInv, Belongs
    <2>6. \A a \in attributions :
             \E v \in users' : a.user = v.id /\ a.partner = KeyPartner[call[v.by].key]
      BY <1>4 DEF IInv, Belongs
    <2>7. \A c \in Call : call[c].pc = "done" /\ call[c].result = 200 /\ call[c].kind = "create" =>
             \E v \in users' : v.by = c /\ Owned(v)
      BY <1>4 DEF IInv, Belongs
    <2>8. QED
      BY <1>2, <2>1, <2>3, <2>4, <2>5, <2>6, <2>7 DEF Belongs
  <1>14. QED
    BY <1>1, <1>8, <1>11, <1>12, <1>13 DEF IInv

(* The user is attributed: it is its call's, so the partner is the caller's.  *)
LEMMA AttributeStep ==
    ASSUME IInv, NEW h \in handler, h.pc = "attr_insert", NEW i, HandlerMoves(h, i),
           attributions' = attributions \cup {[user |-> h.user, partner |-> PartnerOf(h)]},
           UNCHANGED users, i.pc = "wire"
    PROVE  IInv'
  <1>1. /\ Serves' /\ Throttled' /\ Logged'
        /\ now' \in Nat /\ faults' \in Nat
        /\ call' = [c \in Call |-> call'[c]] /\ \A c \in Call : IsCall(call'[c])
        /\ \A g \in handler' : IsHandler(g)
        /\ \A g \in handler' : g = i \/ (g \in handler /\ Other(g, h))
        /\ \A g \in handler : g = h \/ (g \in handler' /\ Other(g, h))
    BY MoveStep DEF Busy
  <1>2. /\ users' = users /\ call' = call
        /\ i \in handler' /\ i.call = h.call /\ faults \in Nat /\ faults <= faults'
    BY DEF HandlerMoves, IInv, Shapes
  <1>3. PICK u \in users : u.id = h.user /\ u.by = h.call /\ u.attempt = h.attempt
    BY DEF IInv, Belongs, Attributing
  <1>4. PICK b : b = [user |-> h.user, partner |-> PartnerOf(h)]
    OBVIOUS
  <1>5. /\ b.user = u.id /\ b.partner = KeyPartner[call[h.call].key]
        /\ attributions' = attributions \cup {b}
    BY <1>3, <1>4 DEF PartnerOf
  <1>6. b \in [user : Nat, partner : Partner]
    BY <1>4 DEF PartnerOf, IInv, Shapes, Serves, IsHandler, Busy
  <1>7. Shapes'
    BY <1>1, <1>2, <1>5, <1>6 DEF IInv, Shapes
  <1>8. Creates' /\ OneUserPerCall' /\ KnownIsRefused'
    <2>1. \A g \in handler' : g.pc = "insert" =>
             /\ ~call[g.call].known
             /\ \A v \in users :
                   v.by = g.call => Beside(v.attempt, g.attempt, call[g.call].cut)
      BY <1>1 DEF IInv, Creates
    <2>2. QED
      BY <1>2, <2>1 DEF IInv, Creates, OneUserPerCall, KnownIsRefused
  <1>9. Belongs'
    <2>1. Owned(u)' /\ \A v : Owned(v) => Owned(v)'
      BY <1>5 DEF Owned
    <2>2. \A v : ~Owned(v) /\ v.id # u.id => ~Owned(v)'
      BY <1>5 DEF Owned
    <2>3. ASSUME NEW g \in handler', g.pc \in Attributing
          PROVE  \E v \in users : /\ v.id = g.user /\ v.by = g.call /\ v.attempt = g.attempt
                                 /\ ~Owned(v)'
      <3>1. g \in handler /\ Other(g, h)
        BY <1>1, <2>3 DEF Attributing
      <3>2. PICK v \in users : /\ v.id = g.user /\ v.by = g.call /\ v.attempt = g.attempt
                              /\ ~Owned(v)
        BY <2>3, <3>1 DEF IInv, Belongs
      <3>3. v.id # u.id
        BY <1>3, <3>1, <3>2 DEF IInv, Creates, Other
      <3>4. QED
        BY <2>2, <3>2, <3>3
    <2>4. ASSUME NEW v \in users
          PROVE  Owned(v)' \/ faults' > 0
                   \/ \E g \in handler' : g.user = v.id /\ g.pc \in Attributing
      <3>1. CASE Owned(v)
        BY <2>1, <3>1
      <3>2. CASE faults > 0
        BY <1>1, <1>2, <3>2
      <3>3. CASE \E g \in handler : g.user = v.id /\ g.pc \in Attributing
        <4>1. PICK g \in handler : g.user = v.id /\ g.pc \in Attributing
          BY <3>3
        <4>2. CASE g = h
          BY <1>3, <2>1, <4>1, <4>2 DEF IInv, Creates
        <4>3. CASE g # h
          BY <1>1, <4>1, <4>3
        <4>4. QED
          BY <4>2, <4>3
      <3>4. QED
        BY <3>1, <3>2, <3>3 DEF IInv, Belongs
    <2>5. ASSUME NEW g \in handler', g.pc = "wire", g.status = 200, call[g.call].kind = "create"
          PROVE  \E v \in users : v.by = g.call /\ Owned(v)'
      <3>1. CASE g = i
        BY <1>2, <1>3, <2>1, <3>1
      <3>2. CASE g \in handler
        BY <2>1, <2>5, <3>2 DEF IInv, Belongs
      <3>3. QED
        BY <1>1, <3>1, <3>2
    <2>6. \A a \in attributions' :
             \E v \in users : a.user = v.id /\ a.partner = KeyPartner[call[v.by].key]
      BY <1>3, <1>5 DEF IInv, Belongs
    <2>7. \A c \in Call : call[c].pc = "done" /\ call[c].result = 200 /\ call[c].kind = "create" =>
             \E v \in users : v.by = c /\ Owned(v)'
      BY <2>1 DEF IInv, Belongs
    <2>8. QED
      BY <1>2, <2>3, <2>4, <2>5, <2>6, <2>7 DEF Belongs
  <1>10. QED
    BY <1>1, <1>7, <1>8, <1>9 DEF IInv

(* A handler answers, and the interceptor records it.                         *)
LEMMA OutcomeMoves ==
    ASSUME IInv, NEW h \in handler, NEW status \in Status, Outcome(h, status),
           UNCHANGED <<now, call, throttler>>, faults' \in Nat, faults <= faults'
    PROVE  \E i : HandlerMoves(h, i) /\ i.pc = "wire" /\ i.status = status
  <1>1. PICK i : i = [h EXCEPT !.pc = "wire", !.status = status]
    OBVIOUS
  <1>2. IsHandler(h)
    BY DEF IInv, Shapes
  <1>3. IsHandler(i) /\ i.call = h.call /\ i.attempt = h.attempt /\ i.pc = "wire" /\ i.status = status
    BY <1>1, <1>2 DEF IsHandler
  <1>4. /\ handler' = (handler \ {h}) \cup {i} /\ log' = log
        /\ unlogged' = unlogged \cup {RowOf(h, status)}
    BY <1>1 DEF Outcome, Record
  <1>5. Recorded(i.call, i.attempt, i.status)'
    <2>1. RowOf(h, status).call = h.call /\ RowOf(h, status).attempt = h.attempt
          /\ RowOf(h, status).status = status
      BY DEF RowOf
    <2>2. QED
      BY <1>3, <1>4, <2>1 DEF Recorded
  <1>6. HandlerMoves(h, i)
    BY <1>3, <1>4, <1>5 DEF HandlerMoves, Creating
  <1>7. QED
    BY <1>3, <1>6

(* It goes on to its next statement.                                          *)
LEMMA GoToMoves ==
    ASSUME IInv, NEW h \in handler, NEW pc \in Busy \ {"usage", "check"}, NEW user \in Nat,
           pc = "insert" => h.pc = "check",
           GoTo(h, pc, user), UNCHANGED <<now, call, throttler, accounting, faults>>
    PROVE  \E i : HandlerMoves(h, i) /\ i.pc = pc /\ i.user = user
  <1>1. PICK i : i = [h EXCEPT !.pc = pc, !.user = user]
    OBVIOUS
  <1>2. IsHandler(h) /\ faults \in Nat
    BY DEF IInv, Shapes
  <1>3. IsHandler(i) /\ i.call = h.call /\ i.attempt = h.attempt /\ i.pc = pc /\ i.user = user
    BY <1>1, <1>2 DEF IsHandler
  <1>4. handler' = (handler \ {h}) \cup {i} /\ log' = log /\ unlogged' = unlogged
        /\ pc # "wire" /\ pc # "usage"
    BY <1>1 DEF GoTo, accounting, Busy
  <1>5. HandlerMoves(h, i)
    BY <1>2, <1>3, <1>4 DEF HandlerMoves, Creating
  <1>6. QED
    BY <1>3, <1>5

LEMMA HandleStep ==
    ASSUME IInv, NEW h \in handler, Handle(h)
    PROVE  IInv'
  <1>1. faults \in Nat /\ {200, 400} \subseteq Status /\ h.user \in Nat
    BY DEF IInv, Shapes, IsHandler, Status
  <1>2. CASE Check(h)
    <2>1. h.pc = "check" /\ UNCHANGED <<now, call, throttler, tables, faults>>
      BY <1>2 DEF Check
    <2>2. CASE Outcome(h, 400)
      <3>1. PICK i : HandlerMoves(h, i) /\ i.pc = "wire" /\ i.status = 400
        BY <1>1, <2>1, <2>2, OutcomeMoves
      <3>2. QED
        BY <2>1, <3>1, ReadStep DEF Busy, Attributing
    <2>3. CASE /\ ~Taken(h, call[h.call].external) /\ GoTo(h, "insert", 0)
               /\ UNCHANGED accounting
      <3>1. PICK i : HandlerMoves(h, i) /\ i.pc = "insert"
        BY <1>1, <2>1, <2>3, GoToMoves DEF Busy
      <3>2. ~call[h.call].known /\ \A u \in users : u.by # h.call
        BY <2>3 DEF Taken, IInv, Creates, Shapes, IsHandler
      <3>3. QED
        BY <2>1, <3>1, <3>2, ReadStep DEF Busy, Attributing
    <2>4. QED
      BY <1>2, <2>2, <2>3 DEF Check
  <1>3. CASE InsertUser(h)
    <2>1. /\ h.pc = "insert" /\ users' = users \cup {NewUser(h)}
          /\ UNCHANGED <<now, call, throttler, attributions, accounting, faults>>
          /\ GoTo(h, "attr_read", NewUser(h).id)
      BY <1>3 DEF InsertUser
    <2>2. NewUser(h).id \in Nat
      BY FS_CardinalityType DEF NewUser, IInv, Shapes
    <2>3. PICK i : HandlerMoves(h, i) /\ i.pc = "attr_read" /\ i.user = NewUser(h).id
      BY <2>1, <2>2, GoToMoves DEF Busy
    <2>4. QED
      BY <2>1, <2>3, WriteUserStep DEF Attributing
  <1>4. CASE AttributionRead(h)
    <2>1. h.pc = "attr_read" /\ UNCHANGED <<now, call, throttler, tables, faults>>
      BY <1>4 DEF AttributionRead
    <2>2. \A a \in attributions : a.user # h.user
      BY <2>1 DEF IInv, Belongs, Attributing, Owned
    <2>3. GoTo(h, "attr_insert", h.user) /\ UNCHANGED accounting
      BY <1>4, <2>2 DEF AttributionRead
    <2>4. PICK i : HandlerMoves(h, i) /\ i.pc = "attr_insert" /\ i.user = h.user
      BY <1>1, <2>1, <2>3, GoToMoves DEF Busy
    <2>5. QED
      BY <2>1, <2>4, ReadStep DEF Busy, Attributing
  <1>5. CASE AttributionInsert(h)
    <2>1. /\ h.pc = "attr_insert" /\ Outcome(h, 200) /\ UNCHANGED users
          /\ attributions' = attributions \cup {[user |-> h.user, partner |-> PartnerOf(h)]}
          /\ UNCHANGED <<now, call, throttler, faults>>
      BY <1>5 DEF AttributionInsert
    <2>2. PICK i : HandlerMoves(h, i) /\ i.pc = "wire"
      BY <1>1, <2>1, OutcomeMoves
    <2>3. QED
      BY <2>1, <2>2, AttributeStep
  <1>6. CASE UsageSelect(h)
    <2>1. h.pc = "usage" /\ Outcome(h, 200) /\ UNCHANGED <<now, call, throttler, tables, faults>>
      BY <1>6 DEF UsageSelect
    <2>2. PICK i : HandlerMoves(h, i) /\ i.pc = "wire"
      BY <1>1, <2>1, OutcomeMoves
    <2>3. call[h.call].kind = "usage"
      BY <2>1 DEF IInv, Serves
    <2>4. QED
      BY <2>1, <2>2, <2>3, ReadStep DEF Busy, Attributing
  <1>7. QED
    BY <1>2, <1>3, <1>4, <1>5, <1>6 DEF Handle

LEMMA FailureStep ==
    ASSUME IInv, NEW h \in handler, StatementFails(h)
    PROVE  IInv'
  <1>1. faults \in Nat /\ 500 \in Status /\ h.pc \in Busy
    BY DEF IInv, Shapes, IsHandler, Status, StatementFails
  <1>2. /\ Outcome(h, 500) /\ UNCHANGED <<now, call, throttler, attributions>>
        /\ faults' = faults + 1
    BY DEF StatementFails, Fault
  <1>3. faults' \in Nat /\ faults <= faults' /\ faults' > 0
    BY <1>1, <1>2
  <1>4. PICK i : HandlerMoves(h, i) /\ i.pc = "wire" /\ i.status = 500
    BY <1>1, <1>2, <1>3, OutcomeMoves
  <1>5. CASE users' = users
    BY <1>1, <1>2, <1>3, <1>4, <1>5, ReadStep DEF tables, Busy, Attributing
  <1>6. CASE h.pc = "insert" /\ users' = users \cup {NewUser(h)}
    BY <1>2, <1>3, <1>4, <1>6, WriteUserStep DEF Attributing
  <1>7. QED
    BY <1>5, <1>6 DEF StatementFails

-----------------------------------------------------------------------------
(* The rest: what nobody awaits, faults and time.                             *)

(* Clients and tables stay, and the server forgets at most because it failed. *)
LEMMA AsideStep ==
    ASSUME IInv, UNCHANGED <<call, tables>>, now' \in Nat, Throttled',
           \/ UNCHANGED <<handler, faults>> /\ log' \cup unlogged' = log \cup unlogged
           \/ handler' \in {handler, {}} /\ faults' = faults + 1
    PROVE  IInv'
  <1>1. /\ call' = call /\ users' = users /\ attributions' = attributions /\ faults \in Nat
        /\ handler' \subseteq handler
        /\ faults' \in Nat /\ (faults' = faults \/ faults' > 0)
        /\ handler' = handler \/ faults' > 0
        /\ faults' = 0 => faults = 0 /\ handler' = handler
                          /\ log' \cup unlogged' = log \cup unlogged
    BY DEF tables, IInv, Shapes
  <1>2. Shapes' /\ Serves' /\ Creates' /\ OneUserPerCall' /\ KnownIsRefused'
    BY <1>1 DEF IInv, Shapes, Serves, Creates, OneUserPerCall, KnownIsRefused
  <1>3. Belongs'
    <2>1. \A u : Owned(u)' <=> Owned(u)
      BY <1>1 DEF Owned
    <2>2. \A u \in users : Owned(u) \/ faults' > 0
             \/ \E h \in handler' : h.user = u.id /\ h.pc \in Attributing
      BY <1>1 DEF IInv, Belongs
    <2>3. QED
      BY <1>1, <2>1, <2>2 DEF IInv, Belongs
  <1>4. Logged'
    BY <1>1 DEF IInv, Logged, AnswersAreLogged, Recorded
  <1>5. QED
    BY <1>2, <1>3, <1>4 DEF IInv

(* Without hits there is nothing to count.                                    *)
LEMMA NothingCounted ==
    ASSUME hits' = {}
    PROVE  Throttled'
  <1>1. \A b : HitsIn(b)' = {}
    BY DEF HitsIn
  <1>2. QED
    BY <1>1, FS_EmptySet, LimitAssumption DEF Throttled

LEMMA ServerStep ==
    ASSUME IInv, LogInsert \/ Emit \/ LogInsertFails \/ Crash \/ EmitRejects
    PROVE  IInv'
  <1>1. now \in Nat /\ faults \in Nat
    BY DEF IInv, Shapes
  <1>2. ASSUME UNCHANGED <<now, call, throttler>>
        PROVE  Throttled'
    BY <1>2 DEF throttler, IInv, Throttled, HitsIn
  <1>3. CASE LogInsert
    <2>1. log' \cup unlogged' = log \cup unlogged
      BY <1>3 DEF LogInsert
    <2>2. UNCHANGED <<now, call, handler, throttler, tables, faults>>
      BY <1>3 DEF LogInsert
    <2>3. QED
      BY <1>1, <1>2, <2>1, <2>2, AsideStep
  <1>4. CASE Emit
    <2>1. UNCHANGED <<now, call, handler, throttler, tables, accounting, faults>>
      BY <1>4 DEF Emit
    <2>2. log' \cup unlogged' = log \cup unlogged
      BY <2>1 DEF accounting
    <2>3. QED
      BY <1>1, <1>2, <2>1, <2>2, AsideStep
  <1>5. CASE LogInsertFails
    <2>1. UNCHANGED <<now, call, handler, throttler, tables>> /\ faults' = faults + 1
      BY <1>5 DEF LogInsertFails, Fault
    <2>2. QED
      BY <1>1, <1>2, <2>1, AsideStep
  <1>6. CASE Crash \/ EmitRejects
    <2>1. /\ UNCHANGED <<now, call, tables>> /\ faults' = faults + 1
          /\ handler' = {} /\ hits' = {}
      BY <1>6 DEF Crash, EmitRejects, ProcessDies, Fault
    <2>2. QED
      BY <1>1, <2>1, NothingCounted, AsideStep
  <1>7. QED
    BY <1>3, <1>4, <1>5, <1>6

(* Time: hits expire.                                                         *)
LEMMA TickStep ==
    ASSUME IInv, Tick
    PROVE  IInv'
  <1>1. /\ now' \in Nat /\ hits' = {hit \in hits : now' < hit.t + Window}
        /\ UNCHANGED <<call, handler, tables, accounting, faults>>
    BY DEF Tick, IInv, Shapes
  <1>2. Throttled'
    <2>1. hits' \subseteq hits /\ IsFiniteSet(hits) /\ IsFiniteSet(hits')
      BY <1>1, FS_Subset DEF IInv, Throttled
    <2>2. ASSUME NEW key \in Key
          PROVE  Cardinality(HitsIn(<<key, "any">>)') <= Limit
      <3> DEFINE old == HitsIn(<<key, "any">>)
                 new == HitsIn(<<key, "any">>)'
      <3>1. old \subseteq hits /\ new \subseteq old
        BY <2>1 DEF HitsIn
      <3>2. /\ Cardinality(new) <= Cardinality(old) /\ Cardinality(old) <= Limit
            /\ Cardinality(new) \in Nat /\ Cardinality(old) \in Nat /\ Limit \in Nat
        <4>1. IsFiniteSet(old) /\ Cardinality(old) <= Limit /\ Limit \in Nat
          BY <2>1, <3>1, FS_Subset, LimitAssumption DEF IInv, Throttled
        <4>2. QED
          BY <3>1, <4>1, FS_Subset, FS_CardinalityType
      <3> HIDE DEF old
      <3>3. Cardinality(new) <= Limit
        <4> HIDE DEF new
        <4>1. QED
          BY <3>2
      <3>4. QED
        BY <3>3
    <2>3. \A hit \in hits' : /\ hit.call \in Call /\ call'[hit.call].pc # "idle"
                             /\ hit.bucket = <<call'[hit.call].key, "any">>
                             /\ now' < hit.t + Window
      BY <1>1 DEF IInv, Throttled
    <2>4. QED
      BY <2>1, <2>2, <2>3 DEF Throttled
  <1>3. log' \cup unlogged' = log \cup unlogged
    BY <1>1 DEF accounting
  <1>4. QED
    BY <1>1, <1>2, <1>3, AsideStep

LEMMA StutterStep ==
    ASSUME IInv, UNCHANGED vars
    PROVE  IInv'
  <1>1. /\ UNCHANGED <<call, tables, handler, faults>> /\ now' = now /\ hits' = hits
        /\ log' = log /\ unlogged' = unlogged
    BY DEF vars, tables
  <1>2. now' \in Nat
    BY <1>1 DEF IInv, Shapes
  <1>3. Throttled'
    BY <1>1 DEF IInv, Throttled, HitsIn
  <1>4. QED
    BY <1>1, <1>2, <1>3, AsideStep

LEMMA NextInv == IInv /\ [Next]_vars => IInv'
  <1> SUFFICES ASSUME IInv, [Next]_vars PROVE IInv'
    OBVIOUS
  <1>1. ASSUME NEW c \in Call, Client(c)
        PROVE  IInv'
    BY <1>1, BeginStep, TimerStep, ProxyStep DEF Client
  <1>2. ASSUME NEW c \in Call, Arrive(c)
        PROVE  IInv'
    BY <1>2, ArrivalsStep
  <1>3. ASSUME NEW h \in handler, Handle(h)
        PROVE  IInv'
    BY <1>3, HandleStep
  <1>4. ASSUME NEW h \in handler, Answer(h)
        PROVE  IInv'
    BY <1>4, AnswerStep DEF Answer
  <1>5. ASSUME NEW h \in handler, StatementFails(h)
        PROVE  IInv'
    BY <1>5, FailureStep
  <1>6. CASE LogInsert \/ Emit \/ LogInsertFails \/ Crash \/ EmitRejects
    BY <1>6, ServerStep
  <1>7. CASE Tick
    BY <1>7, TickStep
  <1>8. CASE UNCHANGED vars
    BY <1>8, StutterStep
  <1>9. QED
    BY <1>1, <1>2, <1>3, <1>4, <1>5, <1>6, <1>7, <1>8 DEF Next

(* IInv holds in every state.                                                 *)
THEOREM Inductive == Spec => []IInv
  <1>1. QED
    BY InitInv, NextInv, PTL DEF Spec

-----------------------------------------------------------------------------
(* What is said of every behaviour.                                           *)

(* However often a call of the SDK is retried (http.ts:225-230) and whatever  *)
(* fails, each attempt leaves at most one user, and only an attempt that the  *)
(* proxy answered for before its insert can be followed by another user: any  *)
(* other handler has ended when the next attempt begins, and the check that   *)
(* precedes an insert sees what it left (users.controller.ts:75-89).          *)
THEOREM RetriesCreateOnce == Spec => []OneUserPerCall
  <1>1. IInv => OneUserPerCall
    BY DEF IInv
  <1>2. QED
    BY <1>1, Inductive, PTL

(* An external id that exists when a call is made is not given to another     *)
(* user by it (users.controller.ts:75-78).                                    *)
THEOREM KnownIdsAreRefused == Spec => []KnownIsRefused
  <1>1. IInv => KnownIsRefused
    BY DEF IInv
  <1>2. QED
    BY <1>1, Inductive, PTL

(* However many endpoints a client spreads its requests over, one process     *)
(* lets no more than Limit of them through in a Window                        *)
(* (api-throttler.guard.ts:24-37).                                            *)
THEOREM BudgetIsTheKeys == Spec => []AccountWideLimit
  <1>1. IInv => AccountWideLimit
    <2> SUFFICES ASSUME IInv, NEW key \in Key
                 PROVE  Cardinality({hit \in hits : call[hit.call].key = key}) <= Limit
      BY DEF AccountWideLimit
    <2> DEFINE own == {hit \in hits : call[hit.call].key = key}
               all == HitsIn(<<key, "any">>)
    <2>1. own \subseteq all /\ all \subseteq hits
      BY DEF IInv, Throttled, HitsIn
    <2>2. IsFiniteSet(all) /\ Cardinality(all) <= Limit /\ Limit \in Nat
      BY <2>1, FS_Subset, LimitAssumption DEF IInv, Throttled
    <2>3. Cardinality(own) <= Cardinality(all) /\ Cardinality(own) \in Nat /\ Cardinality(all) \in Nat
      BY <2>1, <2>2, FS_Subset, FS_CardinalityType
    <2> HIDE DEF own, all
    <2>4. Cardinality(own) <= Limit
      BY <2>2, <2>3
    <2>5. QED
      BY <2>4 DEF own
  <1>2. QED
    BY <1>1, Inductive, PTL

(* An owned user is on the list of its creator's partner and of nobody else,  *)
(* because nobody else ever attributes it.                                    *)
LEMMA OwnedIsAttributed ==
    ASSUME IInv, NEW u \in users, Owned(u)
    PROVE  Attributed(u)
  <1>1. \A a \in attributions : a.user = u.id => a.partner = KeyPartner[call[u.by].key]
    BY DEF IInv, Belongs, Creates
  <1>2. PICK a \in attributions : a.user = u.id
    BY DEF Owned
  <1>3. ASSUME NEW partner \in Partner
        PROVE  /\ u \in AttributedUsers(partner) <=> partner = KeyPartner[call[u.by].key]
               /\ IsUserAttributedToPartner(u, partner) <=> partner = KeyPartner[call[u.by].key]
    <2>1. u \in AttributedUsers(partner) <=> partner = KeyPartner[call[u.by].key]
      BY <1>1, <1>2 DEF AttributedUsers, ListAttributions
    <2> DEFINE found == {b \in attributions : b.user = u.id}
    <2>2. (CHOOSE b \in found : TRUE) \in found
      BY <1>2
    <2>3. (CHOOSE b \in found : TRUE).partner = KeyPartner[call[u.by].key]
      BY <1>1, <2>2
    <2>4. IsUserAttributedToPartner(u, partner) <=> partner = KeyPartner[call[u.by].key]
      BY <1>2, <2>3 DEF IsUserAttributedToPartner
    <2>5. QED
      BY <2>1, <2>4
  <1>4. QED
    BY <1>3 DEF Attributed

(* No half-made users: a user belongs to its creator's partner alone, unless  *)
(* its handler is still at it or something failed; and a call that was        *)
(* answered with its user left one that does (users.controller.ts:86-101).    *)
THEOREM UsersAreWhole == Spec => []OnboardedWhole
  <1>1. IInv => OnboardedWhole
    <2> SUFFICES ASSUME IInv PROVE OnboardedWhole
      OBVIOUS
    <2>1. ASSUME NEW u \in users
          PROVE  \/ Attributed(u)
                 \/ faults > 0 /\ \A a \in attributions : a.user # u.id
                 \/ \E h \in handler : h.user = u.id /\ h.pc \in {"attr_read", "attr_insert"}
      <3>1. CASE Owned(u)
        BY <3>1, OwnedIsAttributed
      <3>2. CASE ~Owned(u)
        BY <3>2 DEF IInv, Belongs, Owned, Attributing
      <3>3. QED
        BY <3>1, <3>2
    <2>2. ASSUME NEW c \in Call, call[c].pc = "done", call[c].kind = "create",
                 call[c].result = 200
          PROVE  \E u \in users : u.by = c /\ u.external = call[c].external /\ Attributed(u)
      <3>1. PICK u \in users : u.by = c /\ Owned(u)
        BY <2>2 DEF IInv, Belongs
      <3>2. QED
        BY <3>1, OwnedIsAttributed DEF IInv, Creates
    <2>3. QED
      BY <2>1, <2>2 DEF OnboardedWhole
  <1>2. QED
    BY <1>1, Inductive, PTL

(* Until something fails, what a client was answered is in the request log    *)
(* or on its way there, with the status it was sent                           *)
(* (request-log.interceptor.ts:32-53).                                        *)
THEOREM AnswersHaveRows == Spec => []AnswersAreLogged
  <1>1. IInv => AnswersAreLogged
    BY DEF IInv, Logged, AnswersAreLogged
  <1>2. QED
    BY <1>1, Inductive, PTL

=============================================================================
