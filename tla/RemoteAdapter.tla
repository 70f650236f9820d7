---------------------------- MODULE RemoteAdapter ----------------------------
(***************************************************************************)
(* The remote doors of the package, src/server.js (MCP tools) and          *)
(* src/a2a.js (A2A operations): each call is checked, sent to the AssetFare *)
(* service, and its answer checked again before the caller sees it.  Calls *)
(* run side by side; the service may answer late, wrongly or never, and a  *)
(* request may take effect after its call was given up.                    *)
(***************************************************************************)
EXTENDS QuoteRules

CONSTANTS
  None,
  Slots,      \* calls in progress at the same time
  Asks,       \* what callers may ask
  Ttl,        \* lifetime the service gives an action
  Timeout,    \* V2_TIMEOUT_MS and FETCH_TIMEOUT_MS
  MaxCalls,   \* bound on calls
  MaxTime     \* bound on the clock

ASSUME RemoteAssumption ==
  /\ Timeout \in Nat \ {0} /\ Ttl \in 1 .. MaxTtl /\ MaxCalls \in Nat /\ MaxTime \in Nat

VARIABLES now, call, sessions, calls
vars == <<now, call, sessions, calls>>

Doors == {"mcp", "a2a"}
Building == {"prepare", "create"}
Operations == {"quote", "get", "observe_source", "observe_output", "refresh"} \union Building

(***************************************************************************)
(* Before the request.                                                     *)
(***************************************************************************)
\* createHttpApp: the host is looked at for both doors, the origin for MCP, the
\* protocol version for A2A; the body is parsed under a size limit.
HttpRefuses(door, http) ==
  \/ http \in {"host", "method", "large"}
  \/ door = "mcp" /\ http = "origin"
  \/ door = "a2a" /\ http = "version"

\* The verification context the caller keeps: hash-bound to its fields, its summary
\* of the intent's route, and of the approval the call sends.
ContextSound(r) ==
  /\ r.ctx.bound
  /\ First(r.ctx.summary).from = r.ctx.intent.from
  /\ Final(r.ctx.summary).to = r.ctx.intent.to
ContextOfApproval(r) == r.op \in Building => r.ctx.approval = r.approval

\* The checks of a call in front of its request.  A schema of either door refuses a
\* session whose key is not its approval's.
Admitted(r) ==
  /\ r.shape
  /\ r.op = "create" => r.key = r.approval.key
  /\ r.op \in Building => ~r.secret
  /\ r.op \in Building \union {"quote"} => Executable(r.from, r.to)
  /\ r.op # "quote" => ContextSound(r) /\ ContextOfApproval(r)

(***************************************************************************)
(* After the request.                                                      *)
(***************************************************************************)
\* rejectUnsignedActionMaterial and its like: no secrets, no signed transactions,
\* no signing claims.  The unsigned bytes of an Aptos action carry a forbidden name;
\* MCP knows them, A2A does not.
SafeMaterial(door, material) == material = "plain" \/ (door = "mcp" /\ material = "aptos")

\* verifyRemoteBundle, verifyRemoteSession, verifyA2ABundle, verifyA2ASession.
SessionBound(r, reply) ==
  reply.kind = "session" => reply.quote = r.ctx.approval.quote /\ ~reply.echo
\* mutant: an action of the selected quote is within its bounds
VerifiedByQuote(r, b, at) == BundleVerified(b, r.ctx.intent, r.ctx.wallets, at)
Verified(r, b, at) == Accepted(b, r.ctx, r.ctx.summary, at)

\* What the caller is told.  A refusal of the service is passed on as a kind of
\* error, a well-formed demand for another approval as itself.
Verdict(door, r, reply, at) ==
  CASE reply.kind = "status" -> IF reply.code = 409 /\ reply.wellformed THEN "reapproval"
                                ELSE "refused"
    [] reply.kind = "broken" -> "refused"
    [] reply.kind = "quote" -> IF reply.from = r.from /\ reply.to = r.to THEN "quote"
                               ELSE "refused"
    [] reply.kind \in {"session", "bundle"} ->
         IF ~SafeMaterial(door, reply.material) \/ ~SessionBound(r, reply) THEN "refused"
         ELSE IF reply.action = None THEN "state"
         ELSE IF Verified(r, reply.action, at) THEN "handoff" ELSE "refused"

(***************************************************************************)
(* Calls.                                                                  *)
(***************************************************************************)
\* wire: where the call's request to the service is, whether or not anybody waits.
Idle == [pc |-> "idle", door |-> None, req |-> None, probes |-> {}, asked |-> 0,
         wire |-> "none", reply |-> None, verdict |-> None, at |-> 0]
Waiting == {"probe", "sent"}

\* What stays of an answered call: a hand-off, and a request still under way.
Answer(c, verdict) ==
  [Idle EXCEPT !.pc = "done", !.verdict = verdict,
               !.wire = IF c.wire = "request" THEN "request" ELSE "none",
               !.req = IF c.wire = "request" \/ verdict = "handoff" THEN c.req ELSE None,
               !.reply = IF verdict = "handoff" THEN c.reply ELSE None,
               !.at = IF verdict = "handoff" THEN now ELSE 0]
Send(c) == [c EXCEPT !.pc = "sent", !.asked = now, !.wire = "request"]

\* A tool or an operation is called.  An A2A quote first asks for the capabilities
\* and the status, together.
Begin(p, door, r, http) ==
  LET c == [Idle EXCEPT !.door = door, !.req = r]
  IN  /\ call[p].pc = "idle" /\ calls < MaxCalls
      /\ call' = [call EXCEPT ![p] =
           IF HttpRefuses(door, http) \/ ~Admitted(r) THEN Answer(c, "refused")
           ELSE IF door = "a2a" /\ r.op = "quote"
           THEN [c EXCEPT !.pc = "probe", !.asked = now, !.probes = {"capabilities", "status"}]
           ELSE Send(c)]
      /\ calls' = calls + 1
      /\ UNCHANGED <<now, sessions>>

Probe(p, what, good) ==
  LET c == [call[p] EXCEPT !.probes = @ \ {what}]
  IN  /\ call[p].pc = "probe" /\ what \in call[p].probes
      /\ call' = [call EXCEPT ![p] =
           IF ~good THEN Answer(c, "refused") ELSE IF c.probes = {} THEN Send(c) ELSE c]
      /\ UNCHANGED <<now, sessions, calls>>

\* mutant: the reads of an A2A call carry no signal
LimitOfMcp(door) == IF door = "mcp" THEN Timeout ELSE MaxTime + 1
\* AbortSignal.timeout of every request.
Limit(door) == Timeout
TimeOut(p) ==
  /\ call[p].pc \in Waiting /\ now - call[p].asked >= Limit(call[p].door)
  /\ call' = [call EXCEPT ![p] = Answer(@, "refused")]
  /\ UNCHANGED <<now, sessions, calls>>

\* mutant: the slot is free while its request is still under way
FreeAtOnce(p) ==
  /\ call[p].pc = "done" /\ call' = [call EXCEPT ![p] = [Idle EXCEPT !.wire = call[p].wire]]
  /\ UNCHANGED <<now, sessions, calls>>
\* The caller has its answer; a late request keeps its slot.
Free(p) ==
  /\ call[p].pc = "done" /\ call[p].wire = "none"
  /\ call' = [call EXCEPT ![p] = Idle]
  /\ UNCHANGED <<now, sessions, calls>>

(***************************************************************************)
(* The AssetFare service, outside.                                         *)
(***************************************************************************)
Path(s) == [i \in DOMAIN s |-> LegOf(s[i])]
BundleOf(s) ==
  [bound |-> TRUE, step |-> 0, spend |-> First(s.summary).expIn,
   receive |-> First(s.summary).minOut, input |-> First(s.summary).expIn,
   least |-> First(s.summary).minOut, prev |-> None, path |-> Path(s.summary),
   wallets |-> s.wallets, prepared |-> s.prepared, expires |-> s.prepared + Ttl,
   legacy |-> FALSE]
MaterialOf(s) == IF First(s.summary).from.chain = "aptos" THEN "aptos" ELSE "plain"

\* mutant: every call sends a key of its own
KeyOfCall(r) == <<r.key, calls>>
\* The body carries the caller's key.
KeySent(r) == r.key

NewSession(r) == [key |-> KeySent(r), req |-> r, token |-> r.token, approval |-> r.approval,
                  wallets |-> r.wallets, summary |-> r.ctx.summary, prepared |-> now,
                  stage |-> "ready"]

\* What the service has to say of a session (0: none is kept), and of anything else.
Truth(s, id) ==
  [kind |-> IF id = 0 THEN "bundle" ELSE "session", sid |-> id, quote |-> s.approval.quote,
   echo |-> FALSE, material |-> MaterialOf(s),
   action |-> IF s.stage = "ready" THEN BundleOf(s) ELSE None]
Broken == [kind |-> "broken"]
Refusal(code, wellformed) == [kind |-> "status", code |-> code, wellformed |-> wellformed]

\* The truth with one thing wrong; the workflow agrees with an amount that is.
Spoilt(t) ==
  CASE t.kind = "broken" -> {}
    [] t.kind = "quote" -> {[t EXCEPT !.from = t.to]}
    [] t.kind \in {"session", "bundle"} ->
         {[t EXCEPT !.echo = TRUE], [t EXCEPT !.material = "signed"],
          [t EXCEPT !.quote = None]} \union
         (IF t.action = None THEN {}
          ELSE {[t EXCEPT !.action.spend = @ + 1, !.action.input = @ + 1],
                [t EXCEPT !.action.receive = @ - 1, !.action.least = @ - 1],
                [t EXCEPT !.action.wallets = None]})

\* What arrives of it: nothing readable, an error though it took effect, the truth, or
\* one thing wrong with it.
Arriving(t) ==
  {t, Broken, Refusal(503, TRUE), Refusal(409, TRUE), Refusal(409, FALSE)} \union Spoilt(t)

\* What a request does to the session it names.
After(s, op) ==
  CASE op = "observe_source" /\ s.stage = "ready" -> [s EXCEPT !.stage = "sent"]
    [] op = "observe_output" /\ s.stage = "sent" -> [s EXCEPT !.stage = "done"]
    [] op = "refresh" /\ s.stage = "ready" /\ s.prepared + Ttl <= now -> [s EXCEPT !.prepared = now]
    [] OTHER -> s

Replied(p, reply) ==
  call' = [call EXCEPT ![p].wire = IF call[p].pc = "sent" THEN "reply" ELSE "none",
                       ![p].req = IF call[p].pc = "sent" THEN @ ELSE None,
                       ![p].reply = IF call[p].pc = "sent" THEN reply ELSE @]

ServeStateless(p) ==
  LET r == call[p].req
  IN  /\ r.op \in {"quote", "prepare"}
      /\ Replied(p, IF r.op = "prepare" THEN Truth(NewSession(r), 0)
                    ELSE [kind |-> "quote", from |-> r.from, to |-> r.to])
      /\ UNCHANGED sessions

\* POST /v2/session finds the session of its key and token, or makes one.
ServeCreate(p) ==
  LET r == call[p].req
      old == {i \in DOMAIN sessions : sessions[i].key = KeySent(r)}
  IN  /\ r.op = "create"
      /\ \/ \E i \in old : /\ sessions[i].token = r.token /\ UNCHANGED sessions
                           /\ Replied(p, Truth(sessions[i], i))
         \/ /\ old = {} /\ sessions' = Append(sessions, NewSession(r))
            /\ Replied(p, Truth(NewSession(r), Len(sessions) + 1))

ServeSession(p) ==
  LET r == call[p].req
  IN  /\ r.op \notin {"quote", "prepare", "create"}
      /\ \E i \in {r.sid} \intersect DOMAIN sessions :
           LET s == After(sessions[i], r.op)
           IN  /\ sessions[i].token = r.token
               /\ sessions' = [sessions EXCEPT ![i] = s]
               /\ Replied(p, Truth(s, i))

\* Down, overloaded, or asked for what it does not know.
ServeNothing(p) == Replied(p, Broken) /\ UNCHANGED sessions

Serve(p) ==
  /\ call[p].wire = "request"
  /\ ServeStateless(p) \/ ServeCreate(p) \/ ServeSession(p) \/ ServeNothing(p)
  /\ UNCHANGED <<now, calls>>

\* The answer is read whole, checked and handed to the caller.
Receive(p, reply) ==
  LET c == call[p]
  IN  call' = [call EXCEPT ![p] =
        Answer([c EXCEPT !.reply = reply], Verdict(c.door, c.req, reply, now))]
Arrives(p) == call[p].pc = "sent" /\ call[p].wire = "reply"
ReceiveAny(p) ==
  /\ Arrives(p)
  /\ \E reply \in Arriving(call[p].reply) : Receive(p, reply)
  /\ UNCHANGED <<now, sessions, calls>>

\* A request or an answer is lost.
Lose(p) ==
  /\ call[p].wire # "none"
  /\ call' = [call EXCEPT ![p].wire = "none", ![p].reply = None]
  /\ UNCHANGED <<now, sessions, calls>>

Tick ==
  /\ now < MaxTime
  /\ \A p \in Slots : ~(call[p].pc \in Waiting /\ now - call[p].asked >= Limit(call[p].door))
  /\ now' = now + 1
  /\ UNCHANGED <<call, sessions, calls>>

Init == now = 0 /\ call = [p \in Slots |-> Idle] /\ sessions = <<>> /\ calls = 0

Http == {"ok", "host", "method", "large", "origin", "version"}
\* A call is made in time for the instance's clock to see it end.
Call(p) ==
  /\ now + 2 * Timeout <= MaxTime
  /\ \E door \in Doors, r \in Asks, http \in Http : Begin(p, door, r, http)
Next ==
  \/ \E p \in Slots : Call(p) \/ ReceiveAny(p) \/ TimeOut(p) \/ Free(p) \/ Serve(p) \/ Lose(p)
  \/ \E p \in Slots, what \in {"capabilities", "status"}, good \in BOOLEAN : Probe(p, what, good)
  \/ Tick

\* Time passes and the runtime serves its timers; nothing makes the service answer.
Spec == Init /\ [][Next]_vars /\ WF_vars(Tick) /\ \A p \in Slots : WF_vars(TimeOut(p))
=============================================================================
