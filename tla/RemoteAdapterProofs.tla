------------------------- MODULE RemoteAdapterProofs -------------------------
(***************************************************************************)
(* Proofs about the remote doors: for any callers, requests, timeouts and  *)
(* lifetimes, whatever the service answers and however late.               *)
(***************************************************************************)
EXTENDS RemoteAdapterProperties, TLAPS

(*---------------------------- the inductive invariant ----------------------------*)
\* A session of the service is as its creation asked for it.
Session == [key : {r.key : r \in Asks}, req : Asks, token : {r.token : r \in Asks},
            approval : {r.approval : r \in Asks}, wallets : {r.wallets : r \in Asks},
            summary : {r.ctx.summary : r \in Asks}, prepared : Nat,
            stage : {"ready", "sent", "done"}]
AskedFor(s) ==
  /\ s.req.op = "create" /\ Admitted(s.req)
  /\ s.key = s.req.key /\ s.token = s.req.token /\ s.approval = s.req.approval
SessionsOK ==
  /\ sessions \in Seq(Session)
  /\ \A i \in DOMAIN sessions : AskedFor(sessions[i])
  /\ \A i, j \in DOMAIN sessions : i # j => sessions[i].key # sessions[j].key

\* An answer on its way is of one of the forms the service has.
Kinds == {"status", "broken", "quote", "session", "bundle"}
ReplyOK(t) ==
  /\ t.kind \in Kinds \ {"status"}
  /\ t.kind \in {"session", "bundle"} =>
       DOMAIN t = {"kind", "sid", "quote", "echo", "material", "action"}
  /\ t.kind = "quote" => DOMAIN t = {"kind", "from", "to"}

Fields == {"pc", "door", "req", "probes", "asked", "wire", "reply", "verdict", "at"}
Verdicts == {"refused", "reapproval", "quote", "state", "handoff"}
HandedOff(c) ==
  /\ c.wire = "none" /\ c.req \in Asks /\ Admitted(c.req)
  /\ Accepted(c.reply.action, c.req.ctx, c.req.ctx.summary, c.at)
CallOK(c) ==
  /\ DOMAIN c = Fields
  /\ c.pc \in Waiting \union {"idle", "done"} /\ c.wire \in {"none", "request", "reply"}
  /\ c.pc = "idle" => c = Idle
  /\ c.pc \in Waiting => c.req \in Asks /\ Admitted(c.req) /\ c.door \in Doors
  /\ c.pc = "probe" => c.wire = "none" /\ c.probes # {}
  /\ c.wire = "request" => c.pc \in {"sent", "done"} /\ c.req \in Asks /\ Admitted(c.req)
  /\ c.wire = "reply" => c.pc = "sent" /\ ReplyOK(c.reply)
  /\ c.pc = "done" => c.verdict \in Verdicts
  /\ c.pc = "done" /\ c.verdict = "handoff" => HandedOff(c)

IInv ==
  /\ now \in 0 .. MaxTime /\ calls \in 0 .. MaxCalls
  /\ call = [p \in Slots |-> call[p]]
  /\ \A p \in Slots : CallOK(call[p])
  /\ SessionsOK

(*------------------------------- calls -------------------------------*)
LEMMA OneCall ==
  ASSUME IInv, NEW p \in Slots, NEW k, CallOK(k), call' = [call EXCEPT ![p] = k]
  PROVE  call' = [q \in Slots |-> call'[q]] /\ \A q \in Slots : CallOK(call'[q])
<1>1. call = [q \in Slots |-> call[q]] /\ \A q \in Slots : CallOK(call[q])
  BY DEF IInv
<1>2. \A q \in Slots : call'[q] = IF q = p THEN k ELSE call[q]
  BY <1>1
<1> QED BY <1>1, <1>2

LEMMA IdleOK == CallOK(Idle)
BY DEF CallOK, Idle, Waiting, Fields

\* An answered call is in order when its verdict is, and a request under way is kept.
LEMMA AnswerOK ==
  ASSUME NEW c, NEW verdict \in Verdicts,
         c.wire = "request" => c.req \in Asks /\ Admitted(c.req),
         verdict = "handoff" =>
           /\ c.wire # "request" /\ c.req \in Asks /\ Admitted(c.req)
           /\ Accepted(c.reply.action, c.req.ctx, c.req.ctx.summary, now)
  PROVE  CallOK(Answer(c, verdict))
<1> DEFINE k == Answer(c, verdict)
<1>1. DOMAIN k = Fields
  BY DEF Answer, Idle, Fields
<1>2. k.wire = IF c.wire = "request" THEN "request" ELSE "none"
  BY DEF Answer, Idle
<1>3. k.req = IF c.wire = "request" \/ verdict = "handoff" THEN c.req ELSE None
  BY DEF Answer, Idle
<1>4. k.pc = "done" /\ k.verdict = verdict
  BY DEF Answer, Idle
<1>5. verdict = "handoff" => k.reply = c.reply /\ k.at = now
  BY DEF Answer, Idle
<1> HIDE DEF k
<1>6. verdict = "handoff" => HandedOff(k)
  BY <1>2, <1>3, <1>5 DEF HandedOff
<1>7. CallOK(k)
  BY <1>1, <1>2, <1>3, <1>4, <1>6 DEF CallOK, Waiting
<1> QED BY <1>7 DEF k

LEMMA SendOK ==
  ASSUME NEW c, c.req \in Asks, Admitted(c.req), c.door \in Doors,
         DOMAIN c = Fields
  PROVE  CallOK(Send(c))
<1> DEFINE k == Send(c)
<1>1. DOMAIN k = Fields /\ k.pc = "sent" /\ k.wire = "request"
  BY DEF Send, Fields
<1>2. k.req = c.req /\ k.door = c.door
  BY DEF Send, Fields
<1> HIDE DEF k
<1>3. CallOK(k)
  BY <1>1, <1>2 DEF CallOK, Waiting
<1> QED BY <1>3 DEF k

(*------------------------------ answers ------------------------------*)
\* Whatever is wrong in an arriving answer, it is of one of the known forms.
LEMMA SpoiltKind ==
  ASSUME NEW t, ReplyOK(t), NEW reply \in Spoilt(t)
  PROVE  reply.kind = t.kind
<1>1. CASE t.kind \in {"session", "bundle"}
  <2>1. DOMAIN t = {"kind", "sid", "quote", "echo", "material", "action"}
    BY <1>1 DEF ReplyOK
  <2>2. CASE t.action = None
    BY <1>1, <2>1, <2>2 DEF Spoilt
  <2>3. CASE t.action # None
    BY <1>1, <2>1, <2>3 DEF Spoilt
  <2> QED BY <2>2, <2>3
<1>2. CASE t.kind = "quote"
  <2>1. reply = [t EXCEPT !.from = t.to] /\ DOMAIN t = {"kind", "from", "to"}
    BY <1>2 DEF ReplyOK, Spoilt
  <2> QED BY <2>1
<1>3. CASE t.kind = "broken"
  BY <1>3 DEF Spoilt
<1> QED BY <1>1, <1>2, <1>3 DEF ReplyOK, Kinds

LEMMA ArrivingKind ==
  ASSUME NEW t, ReplyOK(t), NEW reply \in Arriving(t)
  PROVE  reply.kind \in Kinds
<1>1. CASE reply \in {t, Broken, Refusal(503, TRUE), Refusal(409, TRUE), Refusal(409, FALSE)}
  BY <1>1 DEF ReplyOK, Broken, Refusal, Kinds
<1>2. CASE reply \in Spoilt(t)
  BY <1>2, SpoiltKind DEF ReplyOK
<1> QED BY <1>1, <1>2 DEF Arriving

\* A hand-off is told of an action that both checks accept, and of nothing else.
LEMMA VerdictAccepts ==
  ASSUME NEW door, NEW r, NEW reply, NEW at, reply.kind \in Kinds
  PROVE  /\ Verdict(door, r, reply, at) \in Verdicts
         /\ Verdict(door, r, reply, at) = "handoff" =>
              Accepted(reply.action, r.ctx, r.ctx.summary, at)
<1>1. CASE reply.kind = "status"
  BY <1>1 DEF Verdict, Verdicts
<1>2. CASE reply.kind = "broken"
  BY <1>2 DEF Verdict, Verdicts
<1>3. CASE reply.kind = "quote"
  BY <1>3 DEF Verdict, Verdicts
<1>4. CASE reply.kind \in {"session", "bundle"}
  BY <1>4 DEF Verdict, Verdicts, Verified
<1> QED BY <1>1, <1>2, <1>3, <1>4 DEF Kinds

(*------------------------------ the service --------------------------*)
LEMMA TruthOK ==
  ASSUME NEW s, NEW id
  PROVE  ReplyOK(Truth(s, id))
<1> DEFINE t == Truth(s, id)
<1>1. t.kind \in {"bundle", "session"}
  BY DEF Truth
<1>2. DOMAIN t = {"kind", "sid", "quote", "echo", "material", "action"}
  BY DEF Truth
<1> QED BY <1>1, <1>2 DEF ReplyOK, Kinds

LEMMA RepliedOK ==
  ASSUME IInv, NEW p \in Slots, call[p].wire = "request", NEW reply, ReplyOK(reply),
         Replied(p, reply)
  PROVE  call' = [q \in Slots |-> call'[q]] /\ \A q \in Slots : CallOK(call'[q])
<1> DEFINE c == call[p]
           k == [c EXCEPT !.wire = IF c.pc = "sent" THEN "reply" ELSE "none",
                          !.req = IF c.pc = "sent" THEN @ ELSE None,
                          !.reply = IF c.pc = "sent" THEN reply ELSE @]
<1>1. CallOK(c) /\ call = [q \in Slots |-> call[q]]
  BY DEF IInv
<1>2. c.pc \in {"sent", "done"} /\ ~(c.pc = "done" /\ c.verdict = "handoff") /\ DOMAIN c = Fields
  BY <1>1 DEF CallOK, HandedOff
<1>3. call' = [call EXCEPT ![p] = k]
  BY <1>1, <1>2 DEF Replied, Fields
<1>4. /\ DOMAIN k = Fields /\ k.pc = c.pc /\ k.verdict = c.verdict /\ k.door = c.door
      /\ c.pc = "sent" => k.wire = "reply" /\ k.req = c.req /\ k.reply = reply
      /\ c.pc = "done" => k.wire = "none"
  BY <1>2 DEF Fields
<1> HIDE DEF k
<1>5. CallOK(k)
  BY <1>1, <1>2, <1>4 DEF CallOK, Waiting
<1> QED BY <1>1, <1>3, <1>5, OneCall

\* What a request does to the session it names leaves what was asked for.
LEMMA AfterOK ==
  ASSUME IInv, NEW s \in Session, AskedFor(s), NEW op
  PROVE  After(s, op) \in Session /\ AskedFor(After(s, op)) /\ After(s, op).key = s.key
<1>1. now \in Nat
  BY RemoteAssumption DEF IInv
<1>2. \/ After(s, op) \in {s, [s EXCEPT !.stage = "sent"], [s EXCEPT !.stage = "done"]}
      \/ After(s, op) = [s EXCEPT !.prepared = now]
  BY DEF After
<1>3. CASE After(s, op) = s
  BY <1>3
<1>4. CASE After(s, op) = [s EXCEPT !.stage = "sent"]
  BY <1>4 DEF Session, AskedFor
<1>5. CASE After(s, op) = [s EXCEPT !.stage = "done"]
  BY <1>5 DEF Session, AskedFor
<1>6. CASE After(s, op) = [s EXCEPT !.prepared = now]
  BY <1>1, <1>6 DEF Session, AskedFor
<1> QED BY <1>2, <1>3, <1>4, <1>5, <1>6

LEMMA NewSessionOK ==
  ASSUME IInv, NEW r \in Asks, Admitted(r), r.op = "create"
  PROVE  NewSession(r) \in Session /\ AskedFor(NewSession(r)) /\ NewSession(r).key = r.key
<1>1. now \in Nat
  BY RemoteAssumption DEF IInv
<1>2. NewSession(r) \in Session
  BY <1>1 DEF NewSession, KeySent, Session
<1>3. AskedFor(NewSession(r)) /\ NewSession(r).key = r.key
  BY DEF NewSession, KeySent, AskedFor
<1> QED BY <1>2, <1>3

LEMMA ServeStatelessOK ==
  ASSUME IInv, NEW p \in Slots, call[p].wire = "request", ServeStateless(p)
  PROVE  (\E reply : ReplyOK(reply) /\ Replied(p, reply)) /\ SessionsOK'
<1>1. SessionsOK'
  BY DEF ServeStateless, IInv, SessionsOK
<1> DEFINE r == call[p].req
           quoted == [kind |-> "quote", from |-> r.from, to |-> r.to]
           reply == IF r.op = "prepare" THEN Truth(NewSession(r), 0) ELSE quoted
<1>2. Replied(p, reply)
  BY DEF ServeStateless
<1>3. ReplyOK(quoted)
  BY DEF ReplyOK, Kinds
<1>4. ReplyOK(reply)
  BY <1>3, TruthOK
<1> QED BY <1>1, <1>2, <1>4

LEMMA ServeCreateOK ==
  ASSUME IInv, NEW p \in Slots, call[p].wire = "request", ServeCreate(p)
  PROVE  (\E reply : ReplyOK(reply) /\ Replied(p, reply)) /\ SessionsOK'
<1> DEFINE r == call[p].req
           old == {i \in DOMAIN sessions : sessions[i].key = KeySent(r)}
           s == NewSession(r)
<1>1. r \in Asks /\ Admitted(r) /\ r.op = "create" /\ SessionsOK
  BY DEF IInv, CallOK, ServeCreate
<1>2. CASE \E i \in old : UNCHANGED sessions /\ Replied(p, Truth(sessions[i], i))
  <2>1. SessionsOK'
    BY <1>1, <1>2 DEF SessionsOK
  <2> QED BY <1>2, <2>1, TruthOK
<1>3. CASE /\ old = {} /\ sessions' = Append(sessions, s)
           /\ Replied(p, Truth(s, Len(sessions) + 1))
  <2>1. s \in Session /\ AskedFor(s) /\ s.key = r.key
    BY <1>1, NewSessionOK
  <2>2. sessions \in Seq(Session) /\ \A i \in DOMAIN sessions : sessions[i].key # r.key
    BY <1>1, <1>3 DEF SessionsOK, KeySent
  <2> HIDE DEF s
  <2>3. /\ sessions' \in Seq(Session)
        /\ DOMAIN sessions' = DOMAIN sessions \union {Len(sessions) + 1}
        /\ Len(sessions) + 1 \notin DOMAIN sessions
        /\ sessions'[Len(sessions) + 1] = s
        /\ \A i \in DOMAIN sessions : sessions'[i] = sessions[i]
    BY <1>3, <2>1, <2>2
  <2>4. SessionsOK'
    BY <1>1, <2>1, <2>2, <2>3 DEF SessionsOK
  <2> QED BY <1>3, <2>4, TruthOK
<1> QED BY <1>2, <1>3 DEF ServeCreate

LEMMA ServeSessionOK ==
  ASSUME IInv, NEW p \in Slots, call[p].wire = "request", ServeSession(p)
  PROVE  (\E reply : ReplyOK(reply) /\ Replied(p, reply)) /\ SessionsOK'
<1> DEFINE r == call[p].req
<1>1. PICK i \in DOMAIN sessions :
        /\ sessions' = [sessions EXCEPT ![i] = After(sessions[i], r.op)]
        /\ Replied(p, Truth(After(sessions[i], r.op), i))
  BY DEF ServeSession
<1> DEFINE s == After(sessions[i], r.op)
<1>2. sessions \in Seq(Session) /\ SessionsOK /\ sessions[i] \in Session
  BY DEF IInv, SessionsOK
<1>3. s \in Session /\ AskedFor(s) /\ s.key = sessions[i].key
  BY <1>2, AfterOK DEF SessionsOK
<1> HIDE DEF s
<1>4. /\ sessions' \in Seq(Session) /\ DOMAIN sessions' = DOMAIN sessions
      /\ \A j \in DOMAIN sessions : sessions'[j] = IF j = i THEN s ELSE sessions[j]
  BY <1>1, <1>2, <1>3 DEF s
<1>5. SessionsOK'
  BY <1>2, <1>3, <1>4 DEF SessionsOK
<1> QED BY <1>1, <1>5, TruthOK

(*----------------------- one step keeps the invariant ---------------------*)
LEMMA BeginOK ==
  ASSUME IInv, NEW p \in Slots, NEW door \in Doors, NEW r \in Asks, NEW http \in Http,
         Begin(p, door, r, http)
  PROVE  IInv'
<1> DEFINE c == [Idle EXCEPT !.door = door, !.req = r]
           probing == [c EXCEPT !.pc = "probe", !.asked = now,
                                !.probes = {"capabilities", "status"}]
<1>1. /\ DOMAIN c = Fields /\ c.req = r /\ c.door = door /\ c.wire = "none"
      /\ c.verdict = None /\ c.pc = "idle"
  BY DEF Idle, Fields
<1> HIDE DEF c
<1>2. PICK k : /\ call' = [call EXCEPT ![p] = k]
               /\ \/ k = Answer(c, "refused")
                  \/ Admitted(r) /\ (k = probing \/ k = Send(c))
  BY DEF Begin, c
<1>3. CallOK(k)
  <2>1. CASE k = Answer(c, "refused")
    BY <1>1, <2>1, AnswerOK DEF Verdicts
  <2>2. CASE Admitted(r) /\ k = probing
    <3>1. /\ DOMAIN k = Fields /\ k.pc = "probe" /\ k.req = r /\ k.door = door
          /\ k.wire = "none" /\ k.probes # {}
      BY <1>1, <2>2 DEF Fields
    <3> QED BY <2>2, <3>1 DEF CallOK, Waiting
  <2>3. CASE Admitted(r) /\ k = Send(c)
    BY <1>1, <2>3, SendOK
  <2> QED BY <1>2, <2>1, <2>2, <2>3
<1>4. calls' \in 0 .. MaxCalls
  BY RemoteAssumption DEF Begin, IInv
<1>5. now' \in 0 .. MaxTime /\ SessionsOK'
  BY DEF Begin, IInv, SessionsOK
<1> QED BY <1>2, <1>3, <1>4, <1>5, OneCall DEF IInv

\* Steps of one call that leave the clock, the sessions and the count alone.
LEMMA CallAlone ==
  ASSUME IInv, NEW p \in Slots, NEW k, CallOK(k), call' = [call EXCEPT ![p] = k],
         UNCHANGED <<now, sessions, calls>>
  PROVE  IInv'
<1>1. now' \in 0 .. MaxTime /\ calls' \in 0 .. MaxCalls /\ SessionsOK'
  BY DEF IInv, SessionsOK
<1> QED BY <1>1, OneCall DEF IInv

LEMMA ProbeOK ==
  ASSUME IInv, NEW p \in Slots, NEW what \in {"capabilities", "status"}, NEW good \in BOOLEAN,
         Probe(p, what, good)
  PROVE  IInv'
<1> DEFINE c == [call[p] EXCEPT !.probes = @ \ {what}]
           k == IF ~good THEN Answer(c, "refused") ELSE IF c.probes = {} THEN Send(c) ELSE c
<1>1. CallOK(call[p]) /\ call[p].pc = "probe"
  BY DEF IInv, Probe
<1>2. /\ DOMAIN c = Fields /\ c.pc = "probe" /\ c.req = call[p].req /\ c.door = call[p].door
      /\ c.wire = "none" /\ c.req \in Asks /\ Admitted(c.req) /\ c.door \in Doors
  BY <1>1 DEF CallOK, Fields, Waiting
<1>3. call' = [call EXCEPT ![p] = k] /\ UNCHANGED <<now, sessions, calls>>
  BY DEF Probe
<1> HIDE DEF c
<1>4. CallOK(Answer(c, "refused"))
  BY <1>2, AnswerOK DEF Verdicts
<1>5. CallOK(Send(c))
  BY <1>2, SendOK
<1>6. c.probes # {} => CallOK(c)
  BY <1>2 DEF CallOK, Waiting
<1>7. CallOK(k)
  BY <1>4, <1>5, <1>6
<1> QED BY <1>3, <1>7, CallAlone

LEMMA TimeOutOK ==
  ASSUME IInv, NEW p \in Slots, TimeOut(p)
  PROVE  IInv'
<1>1. CallOK(call[p]) /\ call[p].pc \in Waiting
  BY DEF IInv, TimeOut
<1>2. CallOK(Answer(call[p], "refused"))
  BY <1>1, AnswerOK DEF CallOK, Verdicts
<1>3. call' = [call EXCEPT ![p] = Answer(call[p], "refused")]
  BY DEF TimeOut
<1> QED BY <1>2, <1>3, CallAlone DEF TimeOut

LEMMA FreeOK ==
  ASSUME IInv, NEW p \in Slots, Free(p)
  PROVE  IInv'
BY IdleOK, CallAlone DEF Free

LEMMA LoseOK ==
  ASSUME IInv, NEW p \in Slots, Lose(p)
  PROVE  IInv'
<1> DEFINE c == call[p]
           k == [c EXCEPT !.wire = "none", !.reply = None]
<1>1. CallOK(c) /\ call = [q \in Slots |-> call[q]] /\ c.wire # "none"
  BY DEF IInv, Lose
<1>2. DOMAIN c = Fields /\ c.pc \in {"sent", "done"} /\ ~(c.pc = "done" /\ c.verdict = "handoff")
  BY <1>1 DEF CallOK, HandedOff
<1>3. call' = [call EXCEPT ![p] = k]
  BY <1>1, <1>2 DEF Lose, Fields
<1>4. /\ DOMAIN k = Fields /\ k.pc = c.pc /\ k.req = c.req /\ k.door = c.door
      /\ k.wire = "none" /\ k.verdict = c.verdict
  BY <1>2 DEF Fields
<1> HIDE DEF k
<1>5. CallOK(k)
  BY <1>1, <1>2, <1>4 DEF CallOK, Waiting
<1> QED BY <1>3, <1>5, CallAlone DEF Lose

LEMMA ReceiveOK ==
  ASSUME IInv, NEW p \in Slots, ReceiveAny(p)
  PROVE  IInv'
<1>1. PICK reply \in Arriving(call[p].reply) : Receive(p, reply)
  BY DEF ReceiveAny
<1> DEFINE c == call[p]
           d == [c EXCEPT !.reply = reply]
           verdict == Verdict(c.door, c.req, reply, now)
<1>2. CallOK(c) /\ c.pc = "sent" /\ c.wire = "reply"
  BY DEF IInv, ReceiveAny, Arrives
<1>3. ReplyOK(c.reply) /\ c.req \in Asks /\ Admitted(c.req) /\ DOMAIN c = Fields
  BY <1>2 DEF CallOK, Waiting
<1>4. reply.kind \in Kinds
  BY <1>1, <1>3, ArrivingKind
<1>5. /\ verdict \in Verdicts
      /\ verdict = "handoff" => Accepted(reply.action, c.req.ctx, c.req.ctx.summary, now)
  BY <1>4, VerdictAccepts
<1>6. d.wire = "reply" /\ d.req = c.req /\ d.reply = reply
  BY <1>2, <1>3 DEF Fields
<1>7. call' = [call EXCEPT ![p] = Answer(d, verdict)]
  BY <1>1 DEF Receive
<1> HIDE DEF d, verdict
<1>8. CallOK(Answer(d, verdict))
  BY <1>3, <1>5, <1>6, AnswerOK
<1> QED BY <1>7, <1>8, CallAlone DEF ReceiveAny

LEMMA ServeOK ==
  ASSUME IInv, NEW p \in Slots, Serve(p)
  PROVE  IInv'
<1>1. call[p].wire = "request" /\ UNCHANGED <<now, calls>>
  BY DEF Serve
<1>2. (\E reply : ReplyOK(reply) /\ Replied(p, reply)) /\ SessionsOK'
  <2>1. CASE ServeStateless(p)
    BY <1>1, <2>1, ServeStatelessOK
  <2>2. CASE ServeCreate(p)
    BY <1>1, <2>2, ServeCreateOK
  <2>3. CASE ServeSession(p)
    BY <1>1, <2>3, ServeSessionOK
  <2>4. CASE ServeNothing(p)
    <3>1. ReplyOK(Broken)
      BY DEF ReplyOK, Broken, Kinds
    <3>2. SessionsOK'
      BY <2>4 DEF ServeNothing, IInv, SessionsOK
    <3> QED BY <2>4, <3>1, <3>2 DEF ServeNothing
  <2> QED BY <2>1, <2>2, <2>3, <2>4 DEF Serve
<1>3. call' = [q \in Slots |-> call'[q]] /\ \A q \in Slots : CallOK(call'[q])
  BY <1>1, <1>2, RepliedOK
<1> QED BY <1>1, <1>2, <1>3 DEF IInv

LEMMA TickOK ==
  ASSUME IInv, Tick
  PROVE  IInv'
<1>1. now' \in 0 .. MaxTime
  BY RemoteAssumption DEF IInv, Tick
<1> QED BY <1>1 DEF IInv, Tick, SessionsOK

LEMMA Initially ==
  ASSUME Init
  PROVE  IInv
<1>1. now \in 0 .. MaxTime /\ calls \in 0 .. MaxCalls
  BY RemoteAssumption DEF Init
<1>2. call = [p \in Slots |-> call[p]] /\ \A p \in Slots : CallOK(call[p])
  BY IdleOK DEF Init
<1>3. SessionsOK
  BY DEF Init, SessionsOK
<1> QED BY <1>1, <1>2, <1>3 DEF IInv

LEMMA Inductive ==
  ASSUME IInv, [Next]_vars
  PROVE  IInv'
<1>1. ASSUME NEW p \in Slots, Call(p)
      PROVE  IInv'
  BY <1>1, BeginOK DEF Call
<1>2. ASSUME NEW p \in Slots, NEW what \in {"capabilities", "status"}, NEW good \in BOOLEAN,
             Probe(p, what, good)
      PROVE  IInv'
  BY <1>2, ProbeOK
<1>3. CASE UNCHANGED vars
  BY <1>3 DEF vars, IInv, SessionsOK
<1> QED BY <1>1, <1>2, <1>3, ReceiveOK, TimeOutOK, FreeOK, ServeOK, LoseOK, TickOK DEF Next

(*-------------------------------- theorems --------------------------------*)
LEMMA Always == Spec => []IInv
<1>1. Init => IInv
  BY Initially
<1>2. IInv /\ [Next]_vars => IInv'
  BY Inductive
<1> QED BY <1>1, <1>2, PTL DEF Spec

\* A call waits only while it holds an admitted request and its own timer runs, and a free
\* slot has nothing under way (callMcpTool, executeA2A).
THEOREM TypeCorrect == Spec => []TypeOK
<1>1. IInv => TypeOK
  <2> SUFFICES ASSUME IInv PROVE TypeOK
    OBVIOUS
  <2>1. ASSUME NEW p \in Slots, NEW c, c = call[p]
        PROVE  /\ c.pc \in Waiting \union {"idle", "done"} /\ c.wire \in {"none", "request", "reply"}
               /\ c.pc = "idle" => c = Idle
               /\ c.pc \in Waiting => c.req \in Asks /\ c.door \in Doors
               /\ c.wire # "none" => c.pc # "idle" /\ c.req \in Asks
               /\ c.pc = "done" => c.verdict \in
                    {"refused", "reapproval", "quote", "state", "handoff"}
               /\ c.pc = "probe" => c.probes # {} /\ c.wire = "none"
    <3>1. CallOK(c)
      BY <2>1 DEF IInv
    <3> QED BY <3>1 DEF CallOK, Waiting, Verdicts
  <2>2. \A i \in DOMAIN sessions : sessions[i].stage \in {"ready", "sent", "done"}
    <3>1. sessions \in Seq(Session)
      BY DEF IInv, SessionsOK
    <3>2. \A i \in DOMAIN sessions : sessions[i] \in Session
      BY <3>1
    <3> QED BY <3>2 DEF Session
  <2> QED BY <2>1, <2>2 DEF TypeOK, IInv
<1> QED BY <1>1, Always, PTL

\* Whatever the service answers and however late, an action that comes with a wallet
\* hand-off keeps to the approval the caller gave with the call (verifyRemoteBundle,
\* verifyRemoteSession, verifyA2ABundle, verifyA2ASession).
THEOREM HandoffsAreApproved == Spec => []HandoffIsApproved
<1>1. IInv => HandoffIsApproved
  <2> SUFFICES ASSUME IInv, NEW p \in Slots, call[p].pc = "done", call[p].verdict = "handoff"
               PROVE  LET b == call[p].reply.action
                          a == ApprovalOf(call[p].req)
                      IN  /\ b.step = 0 => b.spend <= a.maxIn
                          /\ b.step = Len(b.path) - 1 => b.receive >= a.minOut
                          /\ b.wallets = call[p].req.ctx.wallets
                          /\ call[p].at < b.expires
    BY DEF HandoffIsApproved
  <2> DEFINE r == call[p].req
             b == call[p].reply.action
  <2>1. HandedOff(call[p])
    BY DEF IInv, CallOK
  <2>2. Admitted(r) /\ Accepted(b, r.ctx, r.ctx.summary, call[p].at)
    BY <2>1 DEF HandedOff
  <2>3. r.ctx.approval = ApprovalOf(r)
    BY <2>2 DEF Admitted, ContextOfApproval, ApprovalOf, Building
  <2> HIDE DEF r, b
  <2>4. /\ b.step = 0 => b.spend <= r.ctx.approval.maxIn
        /\ b.step = Len(b.path) - 1 => b.receive >= r.ctx.approval.minOut
        /\ b.wallets = r.ctx.wallets
        /\ call[p].at < b.expires
    <3>1. /\ BundleVerified(b, r.ctx.intent, r.ctx.wallets, call[p].at)
          /\ BoundsVerified(b, r.ctx.summary, r.ctx.approval)
      BY <2>2 DEF Accepted
    <3> QED BY <3>1 DEF BundleVerified, BundleFresh, BoundsVerified
  <2> QED BY <2>3, <2>4 DEF r, b
<1> QED BY <1>1, Always, PTL

\* Every session of the service was asked for with an executable route, without secrets,
\* under the key and in the context of its approval: the checks come before the request.
THEOREM RefusalsAreHarmless == Spec => []RefusedIsHarmless
<1>1. IInv => RefusedIsHarmless
  BY DEF IInv, SessionsOK, AskedFor, Admitted, ContextOfApproval, Building, RefusedIsHarmless
<1> QED BY <1>1, Always, PTL

\* A creation tried again makes no second session: sessions have different keys, and a
\* session's key is the one of its approval.
THEOREM OneSession == Spec => []OneSessionPerApproval
<1>1. IInv => OneSessionPerApproval
  BY DEF IInv, SessionsOK, AskedFor, Admitted, OneSessionPerApproval
<1> QED BY <1>1, Always, PTL
=============================================================================
