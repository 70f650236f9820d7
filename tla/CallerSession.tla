--------------------------- MODULE CallerSession ---------------------------
(***************************************************************************)
(* A caller's way from a quote to a route that is executed, with the       *)
(* command line tools: assetfare-select writes an approval, assetfare-plan *)
(* creates a session (or prepares one action), assetfare-session drives it *)
(* step by step.  Each tool is a process that reads and writes private     *)
(* files and may be killed or time out at any await; its request may be    *)
(* handled long after.  The AssetFare service and the caller's wallet are  *)
(* outside.                                                                *)
(***************************************************************************)
EXTENDS QuoteRules

CONSTANTS
  None,        \* no file, no action, no receipt
  Procs,       \* tool processes that may run at the same time
  Drivers,     \* those that may run assetfare-session
  Quotes,      \* the quotes the caller may have
  WalletMaps,  \* public wallet maps the caller may pass
  ActionTtl,   \* lifetime the service gives an action
  ReadyMin,    \* WALLET_READY_MINIMUM_REMAINING_MS
  Stricter,    \* how much more output an approval may ask for than the quote
  Unsaved,     \* modes in which callers may keep the token in memory only
  MaxTime,     \* bound on the clock
  MaxTokens,   \* bound on session tokens drawn
  MaxHandoffs  \* bound on hand-offs that are live at one time

ASSUME SessionAssumption ==
  /\ {ReadyMin, MaxTime, MaxTokens, MaxHandoffs} \subseteq Nat
  /\ Drivers \subseteq Procs
  /\ ActionTtl \in 1 .. MaxTtl /\ Stricter \subseteq Nat

\* Amounts are integers.
ASSUME QuotesAssumption ==
  \A q \in Quotes :
    /\ Len(q.steps) \in Nat /\ DOMAIN q.steps = 1 .. Len(q.steps)
    /\ \A i \in DOMAIN q.steps : Amounts(q.steps[i]) \subseteq Int

Operations == {"get", "observe-source", "observe-output", "refresh", "wallet-ready"}

VARIABLES
  now,
  quote,      \* the quote file
  approval,   \* the approval file assetfare-select wrote, or None
  file,       \* the capability file, or None
  proc,       \* process -> what it is doing
  sessions,   \* the service's sessions, in the order of creation
  handoffs,   \* verified wallet hand-offs written or printed, not yet expired
  chain,      \* what the wallet executed: one row per session and step
  tokens      \* random tokens drawn

vars == <<now, quote, approval, file, proc, sessions, handoffs, chain, tokens>>

Summary == quote.steps
Steps   == Len(Summary)
IntentOf(q) == [from |-> First(q.steps).from, to |-> Final(q.steps).to]
Intent  == IntentOf(quote)
Path    == [i \in 1 .. Steps |-> LegOf(Summary[i])]

Idle == [pc |-> "idle"]
\* A tool process and its request.  It "wait"s for the answer, has the
\* "reply", or is "gone": it ended before its request was handled.  row is the
\* receipt it reports; ready and again tell wallet-ready and its second request;
\* named, that the session's id is the caller's and not the file's.
\* A request takes less than a tick (TIMEOUT_MS): late if a tick has come since.
Run(op, token, saved, ctx, sid, row, ready) ==
  [pc |-> "wait", op |-> op, token |-> token, saved |-> saved, ctx |-> ctx, sid |-> sid,
   row |-> row, ready |-> ready, named |-> FALSE, again |-> FALSE, late |-> FALSE,
   reply |-> None]

\* What the capability file holds; no session is bound to it while sid is 0.
Capability(token, sid, ctx) == [token |-> token, sid |-> sid, ctx |-> ctx]

\* An approval under the quote's bounds, or asking for more than its minimum.
Stricten(q, mode, key, more) ==
  [ExactApproval(q.continuation, mode, key) EXCEPT !.minOut = @ + more]
Approvals == {Stricten(q, mode, key, more) :
                q \in Quotes, mode \in {"one_shot", "session"}, key \in 0 .. MaxTokens,
                more \in Stricter \union {0}}

\* No file is not a file.
ASSUME NoneAssumption ==
  None \notin [token : Nat, sid : Nat,
               ctx : [intent : {IntentOf(q) : q \in Quotes}, wallets : WalletMaps,
                      approval : Approvals]]

(*------------------------------- the service ------------------------------*)
ActionExpired(s) == s.prepared + ActionTtl <= now

\* current_action as a bundle: it spends the step's input and returns at least the
\* quote's minimum for the step, and its workflow says so (input, least).
BundleOf(s) ==
  [bound |-> TRUE, step |-> s.step, spend |-> s.input, receive |-> Summary[s.step + 1].minOut,
   input |-> s.input, least |-> Summary[s.step + 1].minOut,
   prev |-> [status |-> "receipt_verified", out |-> s.input],
   path |-> Path, wallets |-> s.wallets, prepared |-> s.prepared,
   expires |-> s.prepared + ActionTtl, legacy |-> FALSE]

\* An answer names the session and whether to refresh; an expired action may be
\* left out.
Answers(id, s) ==
  {[sid |-> id, bundle |-> b, next |-> IF b = None /\ s.stage = "ready" THEN "refresh" ELSE s.stage] :
     b \in (IF s.stage = "ready" THEN {BundleOf(s)} ELSE {})
            \union (IF s.stage # "ready" \/ ActionExpired(s) THEN {None} ELSE {})}

\* The action a process receives may return more; and nothing makes the service
\* send the right one: it may spend another amount, return less or serve somebody
\* else, alone or with a workflow that agrees, and with what the step before
\* returned misreported to match.
Spending(b, x)  == [b EXCEPT !.spend = x, !.input = x]
Returning(b, x) == [b EXCEPT !.receive = x, !.least = x]
Received(b) ==
  LET st == Summary[b.step + 1]
  IN  {b, [b EXCEPT !.receive = st.expOut], [b EXCEPT !.receive = st.minOut - 1],
       Returning(b, st.minOut - 1), [b EXCEPT !.spend = @ + 1], Spending(b, b.spend + 1),
       [Spending(b, b.spend + 1) EXCEPT !.prev.out = b.spend + 1],
       [b EXCEPT !.wallets = None]}

\* The answer reaches the process if it still waits.
Reply(p, id, s) ==
  \/ /\ proc[p].pc = "wait"
     /\ \E a \in Answers(id, s) :
          proc' = [proc EXCEPT ![p].pc = "reply", ![p].reply = a]
  \/ proc[p].pc = "gone" /\ proc' = [proc EXCEPT ![p] = Idle]

NewSession(r) == [token |-> r.token, approval |-> r.ctx.approval, wallets |-> r.ctx.wallets,
                     saved |-> r.saved, step |-> 0, input |-> First(Summary).expIn,
                     prepared |-> now, stage |-> "ready"]

\* POST /v2/session is idempotent per key and token: a repeated creation finds
\* its session, another token or another body is refused.
ServeCreate(p) ==
  LET r == proc[p]
      old == {i \in DOMAIN sessions : sessions[i].approval.key = r.ctx.approval.key}
  IN  /\ r.op = "create"
      /\ \/ \E i \in old :
              /\ sessions[i].token = r.token /\ sessions[i].approval = r.ctx.approval
              /\ sessions[i].wallets = r.ctx.wallets
              /\ Reply(p, i, sessions[i])
              /\ UNCHANGED sessions
         \/ /\ old = {}
            /\ sessions' = Append(sessions, NewSession(r))
            /\ Reply(p, Len(sessions) + 1, NewSession(r))

\* POST /v2/prepare keeps no state.
ServePrepare(p) ==
  /\ proc[p].op = "prepare"
  /\ Reply(p, 0, NewSession(proc[p]))
  /\ UNCHANGED sessions

\* observe-source: a submitted action can no longer be replaced.
AfterSource(s, step) ==
  IF s.stage = "ready" /\ step = s.step THEN [s EXCEPT !.stage = "sent"] ELSE s

\* observe-output: the output of the step is the input of the next one.
AfterOutput(s, row) ==
  IF s.stage # "sent" \/ row.step # s.step THEN s
  ELSE IF s.step + 1 = Steps THEN [s EXCEPT !.stage = "done"]
  ELSE [s EXCEPT !.stage = "ready", !.step = @ + 1, !.input = row.out, !.prepared = now]

\* refresh-action: expired_unsubmitted_only.
AfterRefresh(s) ==
  IF s.stage = "ready" /\ ActionExpired(s) THEN [s EXCEPT !.prepared = now] ELSE s

Advance(s, r) == CASE r.op = "observe-source" -> AfterSource(s, r.row.step)
                   [] r.op = "observe-output" -> AfterOutput(s, r.row)
                   [] r.op = "refresh" -> AfterRefresh(s)
                   [] r.op = "get" -> s

ServeSession(p) ==
  LET r == proc[p]
      old == sessions[r.sid]
  IN  /\ r.op \notin {"create", "prepare"} /\ old.token = r.token
      /\ LET s == Advance(old, r)
         IN  /\ sessions' = [sessions EXCEPT ![r.sid] = s]
             /\ Reply(p, r.sid, s)

\* A request is handled once, whether its process still waits or is gone.
Handle(p) ==
  /\ proc[p].pc \in {"wait", "gone"}
  /\ ServeCreate(p) \/ ServePrepare(p) \/ ServeSession(p)
  /\ UNCHANGED <<now, quote, approval, file, handoffs, chain, tokens>>

\* parseV2Quote, validateContinuationV3 and the time a selection needs.
Plannable ==
  /\ quote.expires - now > PlanMin
  /\ ContinuationValid(quote.continuation, quote, now)
  /\ SummaryValid(Summary, quote.plan)

(*---------------------------- assetfare-select ----------------------------*)
SelectKey == 0     \* its random idempotency key; assetfare-plan's are 1, 2, ...

\* Writes approval_v3 with the caller's own bounds to a new file.
Select(more) ==
  /\ approval = None /\ Plannable
  /\ \E mode \in {"one_shot", "session"} :
       LET a == Stricten(quote, mode, SelectKey, more)
       IN  ApprovalValid(a, quote.continuation, mode, now) /\ approval' = a
  /\ UNCHANGED <<now, quote, file, proc, sessions, handoffs, chain, tokens>>

(*------------------------------ assetfare-plan ----------------------------*)
\* The caller's arguments: an approval file or the quote's exact bounds, and
\* where the session token goes: to no file, to a new one, or from an old one.
Arguments == {g \in [mode : {"one_shot", "session"}, exact : BOOLEAN,
                     token : {"memory", "output", "input"}, wallets : WalletMaps] :
                g.token = "memory" => g.mode \in Unsaved}

ArgumentsValid(g) == g.mode = "one_shot" => g.token = "memory"

\* A capability file belongs to this selection: same quote, same key, same
\* verification context.
CapabilityOfQuote(ctx) ==   \* mutant: any later selection may use the file
  file # None /\ file.ctx.approval.quote = quote.id /\ file.ctx.approval.key = ctx.approval.key
CapabilityMatches(ctx) ==
  /\ file # None /\ file.ctx.approval.quote = quote.id
  /\ file.ctx.approval.key = ctx.approval.key
  /\ file.ctx = ctx

\* The approval: the quote's own bounds under a random key, or the one of the
\* capability file, or else the approval file as it is.
ApprovalOf(g) ==
  IF ~g.exact THEN approval
  ELSE ExactApproval(quote.continuation, g.mode,
                     IF g.token = "input" THEN file.ctx.approval.key ELSE tokens + 1)

\* sessionVerificationContext, compared and kept whole.
ContextOf(g, a) == [intent |-> Intent, wallets |-> g.wallets, approval |-> a]

\* runPlan up to its request.  A new token is on disk before it is sent
\* (writeSessionToken), at a path that did not exist.
PlanStart(p, g) ==
  LET a     == ApprovalOf(g)
      ctx   == ContextOf(g, a)
      fresh == g.token # "input"
      token == IF fresh THEN tokens + 1 ELSE file.token
  IN  /\ proc[p].pc = "idle" /\ ArgumentsValid(g)
      /\ Plannable
      /\ g.exact \/ approval # None
      /\ g.token = "input" => file # None /\ CapabilityMatches(ctx)
      /\ ApprovalValid(a, quote.continuation, g.mode, now)
      /\ g.mode = "one_shot" => Steps = 1
      /\ DOMAIN g.wallets = quote.continuation.chains
      /\ fresh => tokens < MaxTokens
      /\ tokens' = IF fresh THEN tokens + 1 ELSE tokens
      /\ IF g.token = "output" THEN file = None /\ file' = Capability(token, 0, ctx)
                               ELSE UNCHANGED file
      /\ proc' = [proc EXCEPT ![p] = Run(IF g.mode = "one_shot" THEN "prepare" ELSE "create",
                                         token, g.token # "memory", ctx, 0, None, FALSE)]
  /\ UNCHANGED <<now, quote, approval, sessions, handoffs, chain>>

\* told: the action names the output of the step before as the service recorded it.
Handoff(sid, b, told) ==
  [sid |-> sid, step |-> b.step, spend |-> b.spend, receive |-> b.receive,
   expires |-> b.expires, told |-> told]

\* verifyPlanBundle, verifyApprovalBundleBounds and callerWalletHandoff: an
\* action is handed to the wallet only when both accept it.
HandOff(p) ==
  /\ proc[p].reply.bundle # None
  /\ \E b \in Received(proc[p].reply.bundle) :
       /\ Accepted(b, proc[p].ctx, Summary, now)
       /\ handoffs' = handoffs \union {Handoff(proc[p].reply.sid, b,
                                               b.prev.out = proc[p].reply.bundle.prev.out)}
  /\ Cardinality(handoffs') <= MaxHandoffs

\* updateSessionCapability: the file learns the session id before anything else
\* is done with the answer.
BindOffByOne(p) ==   \* mutant: binds another session
  file' = Capability(proc[p].token, proc[p].reply.sid + 1, proc[p].ctx)
BindOrIgnore(p) ==   \* mutant: a write that fails goes unnoticed
  file' = file
Bind(p) ==
  file' = IF proc[p].op = "create" /\ proc[p].saved
          THEN Capability(proc[p].token, proc[p].reply.sid, proc[p].ctx)
          ELSE file

\* runPlan from its answer on; it may fail after the file is written.
PlanFinish(p) ==
  /\ proc[p].pc = "reply" /\ proc[p].op \in {"create", "prepare"}
  /\ Bind(p)
  /\ HandOff(p) \/ UNCHANGED handoffs
  /\ proc' = [proc EXCEPT ![p] = Idle]
  /\ UNCHANGED <<now, quote, approval, sessions, chain, tokens>>

(*----------------------------- assetfare-session --------------------------*)
\* runSession up to its request: the session is the one the file names, or for a file
\* that names none the one of the caller's --session-id; an observation tells what the
\* wallet executed.
SessionStart(p, op) ==
  /\ proc[p].pc = "idle" /\ file # None
  /\ \E sid \in DOMAIN sessions, row \in chain \union {None} :
       /\ file.sid # 0 => sid = file.sid
       /\ op \in {"observe-source", "observe-output"} <=> row # None
       /\ row # None => row.sid = sid
       /\ proc' = [proc EXCEPT ![p] =
            [Run(IF op = "wallet-ready" THEN "get" ELSE op, file.token, TRUE,
                 file.ctx, sid, row, op = "wallet-ready") EXCEPT !.named = (file.sid = 0)]]
  /\ UNCHANGED <<now, quote, approval, file, sessions, handoffs, chain, tokens>>

Answered(p) == proc[p].pc = "reply" /\ proc[p].op \notin {"create", "prepare"}

Live(b) == b # None /\ now < b.expires

NeedsRefresh(p) == proc[p].ready /\ ~proc[p].again /\ ~Live(proc[p].reply.bundle)

\* wallet-ready asks for a replacement of an action that is gone or expired.
AskRefresh(p) ==
  /\ Answered(p) /\ NeedsRefresh(p)
  /\ proc[p].reply.bundle = None => proc[p].reply.next = "refresh"
  /\ proc' = [proc EXCEPT ![p].pc = "wait", ![p].op = "refresh", ![p].again = TRUE,
                           ![p].late = FALSE]
  /\ UNCHANGED <<now, quote, approval, file, sessions, handoffs, chain, tokens>>

\* The answer's action is verified and handed off; the clock is read again after
\* the last await.
SessionFinishUntimed(p) ==   \* mutant: the remaining time is not looked at again
  /\ Answered(p) /\ ~NeedsRefresh(p) /\ proc[p].reply.bundle # None
  /\ HandOff(p)
  /\ proc' = [proc EXCEPT ![p] = Idle]
  /\ UNCHANGED <<now, quote, approval, file, sessions, chain, tokens>>
SessionFinish(p) ==
  /\ Answered(p) /\ ~NeedsRefresh(p)
  /\ proc[p].reply.sid = proc[p].sid
  /\ Live(proc[p].reply.bundle)
  /\ proc[p].ready => proc[p].reply.bundle.expires - now >= ReadyMin
  /\ HandOff(p)
  /\ proc' = [proc EXCEPT ![p] = Idle]
  /\ UNCHANGED <<now, quote, approval, file, sessions, chain, tokens>>

(*--------------------------- processes and world --------------------------*)
\* A run ends without a result: a check or a disk write failed, a request was
\* refused or timed out, there was no action, or the process was killed.  A
\* request under way may still be handled, or be lost.
Fail(p) ==
  /\ proc[p].pc # "idle"
  /\ \/ proc' = [proc EXCEPT ![p] = Idle]
     \/ /\ proc[p].pc = "wait" /\ proc[p].op \notin {"get", "prepare"}
        /\ proc' = [proc EXCEPT ![p].pc = "gone"]
  /\ UNCHANGED <<now, quote, approval, file, sessions, handoffs, chain, tokens>>

\* The caller's wallet executes a hand-off while it is live, once per step, and
\* gets no more than the minimum, the worst that can happen.
Execute(h) ==
  /\ now < h.expires
  /\ ~\E row \in chain : row.sid = h.sid /\ row.step = h.step
  /\ chain' = chain \union {[sid |-> h.sid, step |-> h.step, spend |-> h.spend,
                              out |-> h.receive, told |-> h.told]}
  /\ UNCHANGED <<now, quote, approval, file, proc, sessions, handoffs, tokens>>

Tick == /\ now < MaxTime /\ now' = now + 1
        /\ \A p \in Procs : proc[p].pc # "idle" => ~proc[p].late
        /\ proc' = [p \in Procs |-> IF proc[p].pc = "idle" THEN Idle
                                     ELSE [proc[p] EXCEPT !.late = TRUE]]
        /\ handoffs' = {h \in handoffs : now + 1 < h.expires}
        /\ UNCHANGED <<quote, approval, file, sessions, chain, tokens>>

Init == /\ now = 0 /\ quote \in Quotes
        /\ approval = None /\ file = None
        /\ proc = [p \in Procs |-> Idle]
        /\ sessions = <<>> /\ handoffs = {} /\ chain = {}
        /\ tokens = 0

Plan(p)    == (\E g \in Arguments : PlanStart(p, g)) \/ PlanFinish(p)
Session(p) == (\E op \in Operations : SessionStart(p, op)) \/ AskRefresh(p) \/ SessionFinish(p)

Next == \/ \E p \in Procs : Plan(p) \/ Handle(p) \/ Fail(p)
        \/ \E p \in Drivers : Session(p)
        \/ \E more \in Stricter : Select(more)
        \/ Tick
        \/ \E h \in handoffs : Execute(h)

Spec == Init /\ [][Next]_vars
=============================================================================
