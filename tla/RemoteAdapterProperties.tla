----------------------- MODULE RemoteAdapterProperties -----------------------
(***************************************************************************)
(* What the remote doors promise a caller who keeps the quote, the approval *)
(* and the verification context.                                           *)
(***************************************************************************)
EXTENDS RemoteAdapter

\* States the program can be in: a call waits only while its own timer runs, and a
\* free slot has nothing under way.
TypeOK ==
  /\ now \in 0 .. MaxTime /\ calls \in 0 .. MaxCalls
  /\ \A p \in Slots :
       LET c == call[p]
       IN  /\ c.pc \in Waiting \union {"idle", "done"} /\ c.wire \in {"none", "request", "reply"}
           /\ c.pc = "idle" => c = Idle
           /\ c.pc \in Waiting => c.req \in Asks /\ c.door \in Doors
           /\ c.wire # "none" => c.pc # "idle" /\ c.req \in Asks
           /\ c.pc = "done" => c.verdict \in
                {"refused", "reapproval", "quote", "state", "handoff"}
           /\ c.pc = "probe" => c.probes # {} /\ c.wire = "none"
  /\ \A i \in DOMAIN sessions : sessions[i].stage \in {"ready", "sent", "done"}

\* The approval a call speaks for: the one it sends, or its context's.
ApprovalOf(r) == IF r.op \in Building THEN r.approval ELSE r.ctx.approval

\* Whatever the service answers, an action that comes with a wallet hand-off keeps to
\* the approval the caller gave with the call: it spends no more on the first step,
\* returns no less on the last one, and is the caller's wallets' (prepare and create
\* compare the context with the approval; the action is checked in the context).
HandoffIsApproved ==
  \A p \in Slots : call[p].pc = "done" /\ call[p].verdict = "handoff" =>
    LET b == call[p].reply.action
        a == ApprovalOf(call[p].req)
    IN  /\ b.step = 0 => b.spend <= a.maxIn
        /\ b.step = Len(b.path) - 1 => b.receive >= a.minOut
        /\ b.wallets = call[p].req.ctx.wallets
        /\ call[p].at < b.expires

\* A call that its own checks refuse leaves nothing behind: every session of the
\* service was asked for with an executable route, without secrets, under the key
\* and in the context of its approval (the checks come before the request).
RefusedIsHarmless ==
  \A i \in DOMAIN sessions :
    LET r == sessions[i].req
    IN  /\ Executable(r.from, r.to) /\ ~r.secret
        /\ r.key = r.approval.key /\ r.ctx.approval = r.approval

\* A creation tried again, after a lost answer or a timeout and through whichever
\* door, makes no second session: the body carries the caller's key.
OneSessionPerApproval ==
  \A i, j \in DOMAIN sessions :
    i # j => sessions[i].approval # sessions[j].approval \/ sessions[i].token # sessions[j].token

\* Every call is answered, whatever the service does (the signal of each request).
Answered == \A p \in Slots : call[p].pc \in Waiting ~> call[p].pc \notin Waiting

\* "Prepare and the session lifecycle mirror the MCP tools exactly" (a2a.js): for one
\* request and one answer of the service the two doors tell the caller the same.
DoorsAgree ==
  [][\A p \in Slots : Arrives(p) => \A reply \in Arriving(call[p].reply) :
       Receive(p, reply) =>
         Verdict("mcp", call[p].req, reply, now) = Verdict("a2a", call[p].req, reply, now)]_vars
=============================================================================
