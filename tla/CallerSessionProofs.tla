------------------------- MODULE CallerSessionProofs -------------------------
(***************************************************************************)
(* Proofs about the command line tools: for any quotes, wallets, processes *)
(* and lifetimes, whatever the service answers and wherever a tool ends.   *)
(***************************************************************************)
EXTENDS CallerSessionProperties, TLAPS

(*------------------------------- the rules -------------------------------*)
\* What an accepted action keeps to, at its first and at its last step: the bounds of
\* the approval, the wallets of the context, and its own lifetime.
LEMMA AcceptedKeepsApproval ==
  ASSUME NEW b, NEW ctx, NEW s, NEW at, Accepted(b, ctx, s, at)
  PROVE  /\ b.step = 0 => b.spend <= ctx.approval.maxIn
         /\ b.step = Len(b.path) - 1 => b.receive >= ctx.approval.minOut
         /\ b.wallets = ctx.wallets
         /\ at < b.expires
<1>1. BundleVerified(b, ctx.intent, ctx.wallets, at) /\ BoundsVerified(b, s, ctx.approval)
  BY DEF Accepted
<1>2. b.wallets = ctx.wallets /\ at < b.expires
  BY <1>1 DEF BundleVerified, BundleFresh
<1>3. b.step = 0 => b.spend <= ctx.approval.maxIn
  BY <1>1 DEF BoundsVerified
<1>4. b.step = Len(b.path) - 1 => b.receive >= ctx.approval.minOut
  BY <1>1 DEF BoundsVerified
<1> QED BY <1>2, <1>3, <1>4

\* The wallet of an accepted later step spends exactly what the step before returned.
LEMMA AcceptedContinues ==
  ASSUME NEW b, NEW ctx, NEW s, NEW at, Accepted(b, ctx, s, at), b.step > 0
  PROVE  b.prev.out = b.spend
  BY DEF Accepted, BoundsVerified, Continuous

(*---------------------------- the inductive invariant ----------------------------*)
Modes == {"one_shot", "session"}
Creating == {"create", "prepare"}
Observing == {"observe-source", "observe-output"}
Driving  == {"get", "refresh"} \union Observing
RunFields == {"pc", "op", "token", "saved", "ctx", "sid", "row", "ready", "named", "again", "late",
              "reply"}

\* Something was planned: the quote's summary is valid and its continuation its own.
Planned == SummaryValid(Summary, quote.plan) /\ quote.continuation = Continuation(quote)

ApprovalFileOK ==
  approval # None =>
    /\ Planned
    /\ \E mode \in Modes, more \in Stricter :
         approval = Stricten(quote, mode, SelectKey, more)

\* Session i is the one of this token and verification context.
SessionFor(i, token, ctx) ==
  /\ i \in DOMAIN sessions /\ sessions[i].token = token
  /\ sessions[i].approval = ctx.approval /\ sessions[i].wallets = ctx.wallets
FileOK ==
  file # None =>
    /\ Planned /\ file.token \in 1 .. tokens /\ file.ctx \in Contexts
    /\ file = Capability(file.token, file.sid, file.ctx)
    /\ file.sid # 0 => SessionFor(file.sid, file.token, file.ctx)
    /\ file.sid \in 0 .. Len(sessions)
InFile(token, ctx) == file # None /\ file.token = token /\ file.ctx = ctx

\* The wallet got this input of a later step from the step before.
Funded(sid, step, input) ==
  \E before \in chain : before.sid = sid /\ before.step = step - 1 /\ before.out = input
\* A later step comes after the one before, and spends its output if that was told.
Follows(sid, step) == \E before \in chain : before.sid = sid /\ before.step = step - 1
Carried(sid, step, spend, told) == Follows(sid, step) /\ (told => Funded(sid, step, spend))

Bundle == {"bound", "step", "spend", "receive", "input", "least", "prev", "path", "wallets",
           "prepared", "expires", "legacy"}
BundleOK(sid, b) ==
  /\ DOMAIN b = Bundle /\ b.step \in 0 .. Steps - 1 /\ b.path = Path /\ b.legacy = FALSE
  /\ b.spend \in Int /\ b.receive \in Int
  /\ b.step > 0 => Funded(sid, b.step, b.prev.out)
ReplyOK(k) ==
  /\ k.reply.sid \in 0 .. Len(sessions)
  /\ k.op # "prepare" => SessionFor(k.reply.sid, k.token, k.ctx)
  /\ k.op = "prepare" => k.reply.sid = 0
  /\ k.op \in Driving => k.reply.sid = k.sid
  /\ k.reply.bundle # None => BundleOK(k.reply.sid, k.reply.bundle)

ProcOK(k) ==
  /\ k.pc \in {"idle", "wait", "gone", "reply"}
  /\ k.pc = "idle" => k = Idle
  /\ k.pc # "idle" =>
       /\ DOMAIN k = RunFields /\ k.op \in Creating \union Driving
       /\ Planned /\ k.ctx \in Contexts /\ k.token \in 1 .. tokens
       /\ k.saved \in BOOLEAN /\ (k.saved => InFile(k.token, k.ctx))
       /\ ~k.saved /\ file # None => file.token # k.token
       /\ k.op \in Creating => ~k.ready /\ k.sid = 0
       /\ k.op \in Driving => k.saved /\ k.sid \in DOMAIN sessions
                              /\ (k.sid = file.sid \/ k.named)
       /\ k.op \in Observing => k.row \in chain /\ k.row.sid = k.sid
       /\ k.pc = "reply" => ReplyOK(k)

SessionRec == [token : Nat, approval : Approvals, wallets : WalletMaps, saved : BOOLEAN,
               step : Nat, input : Int, prepared : Nat, stage : {"ready", "sent", "done"}]
SessionOK(i, s) ==
  /\ Planned /\ s.token \in 1 .. tokens /\ s.step \in 0 .. Steps - 1 /\ s.prepared \in 0 .. now
  /\ s.approval.maxIn = First(Summary).expIn
  /\ s.step = 0 => s.input = First(Summary).expIn
  /\ s.step > 0 => Funded(i, s.step, s.input)
  /\ s.saved => file # None /\ file.token = s.token /\ file.ctx.approval = s.approval
                /\ file.ctx.wallets = s.wallets
  /\ ~s.saved /\ file # None => file.token # s.token
SessionsOK ==
  /\ sessions \in Seq(SessionRec)
  /\ \A i \in DOMAIN sessions : SessionOK(i, sessions[i])
  /\ \A i, j \in DOMAIN sessions :
       i # j => sessions[i].approval.key # sessions[j].approval.key

\* What was handed to the wallet, and what the wallet did: out is what the step returns.
Within(sid, step, spend, out, told) ==
  /\ Planned /\ sid \in 0 .. Len(sessions) /\ step \in 0 .. Steps - 1 /\ out \in Int
  /\ step = 0 => spend <= BoundsOf(sid).maxIn
  /\ step = Steps - 1 => out >= BoundsOf(sid).minOut
  /\ out >= Summary[step + 1].minOut
  /\ step > 0 => spend >= Summary[step + 1].minIn /\ Carried(sid, step, spend, told)
HandoffOK(h) == Within(h.sid, h.step, h.spend, h.receive, h.told)
WalletOK ==
  /\ \A h \in handoffs : HandoffOK(h)
  /\ \A row \in chain : Within(row.sid, row.step, row.spend, row.out, row.told)

ProcsOK == proc = [p \in Procs |-> proc[p]] /\ \A p \in Procs : ProcOK(proc[p])
BoundsOK == now \in 0 .. MaxTime /\ quote \in Quotes /\ tokens \in 0 .. MaxTokens

IInv == BoundsOK /\ ApprovalFileOK /\ FileOK /\ ProcsOK /\ SessionsOK /\ WalletOK

(*------------------------------ what only grows ------------------------------*)
\* Files are written once, sessions and receipts are never taken back.
FileKept ==
  /\ file # None =>
       /\ file' # None /\ file'.token = file.token /\ file'.ctx = file.ctx
       /\ file.sid # 0 => file'.sid = file.sid
  /\ file = None /\ file' # None => file'.token > tokens
SessionsKept ==
  /\ Len(sessions') \in Nat /\ Len(sessions) <= Len(sessions')
  /\ \A i \in DOMAIN sessions :
       /\ i \in DOMAIN sessions'
       /\ sessions'[i].token = sessions[i].token /\ sessions'[i].approval = sessions[i].approval
       /\ sessions'[i].wallets = sessions[i].wallets /\ sessions'[i].saved = sessions[i].saved
Grown ==
  /\ BoundsOK' /\ quote' = quote /\ now <= now' /\ tokens <= tokens'
  /\ approval' = approval \/ approval = None
  /\ FileKept /\ SessionsKept /\ chain \subseteq chain'

LEMMA FileSame == file' = file => FileKept
BY DEF FileKept

LEMMA SessionsSame == IInv /\ sessions' = sessions => SessionsKept
BY DEF SessionsKept, IInv, SessionsOK

LEMMA PlannedStays == Planned /\ quote' = quote => Planned'
BY DEF Planned, Summary

LEMMA ContextsGrow ==
  ASSUME IInv, Grown
  PROVE  \A c \in Contexts : c \in Contexts'
<1>1. quote' = quote /\ Intent' = Intent /\ tokens \in Nat /\ tokens' \in Nat /\ tokens <= tokens'
  BY SessionAssumption DEF IInv, BoundsOK, Grown, Intent
<1>2. approval' = approval \/ approval = None
  BY DEF Grown
<1> QED BY <1>1, <1>2 DEF Contexts

LEMMA SessionForGrows ==
  ASSUME Grown, NEW i, NEW token, NEW ctx, SessionFor(i, token, ctx)
  PROVE  SessionFor(i, token, ctx)'
BY DEF Grown, SessionsKept, SessionFor

LEMMA BundleGrows ==
  ASSUME Grown, NEW sid, NEW b, BundleOK(sid, b)
  PROVE  BundleOK(sid, b)'
BY DEF Grown, BundleOK, Funded, Path, Steps, Summary

LEMMA ReplyGrows ==
  ASSUME IInv, Grown, NEW k, ReplyOK(k)
  PROVE  ReplyOK(k)'
<1>1. Len(sessions) \in Nat /\ Len(sessions') \in Nat /\ Len(sessions) <= Len(sessions')
  BY DEF IInv, SessionsOK, Grown, SessionsKept
<1>2. k.reply.sid \in 0 .. Len(sessions')
  BY <1>1 DEF ReplyOK
<1>3. k.op # "prepare" => SessionFor(k.reply.sid, k.token, k.ctx)'
  BY SessionForGrows DEF ReplyOK
<1>4. k.reply.bundle # None => BundleOK(k.reply.sid, k.reply.bundle)'
  BY BundleGrows DEF ReplyOK
<1> QED BY <1>2, <1>3, <1>4 DEF ReplyOK

LEMMA ProcGrows ==
  ASSUME IInv, Grown, NEW k, ProcOK(k)
  PROVE  ProcOK(k)'
<1>1. CASE k.pc = "idle"
  BY <1>1 DEF ProcOK
<1>2. CASE k.pc # "idle"
  <2>1. Planned' /\ k.ctx \in Contexts'
    BY <1>2, ContextsGrow, PlannedStays DEF ProcOK, Grown
  <2>2. k.token \in 1 .. tokens /\ k.token \in 1 .. tokens'
    BY <1>2, SessionAssumption DEF ProcOK, IInv, BoundsOK, Grown
  <2>3. k.saved => InFile(k.token, k.ctx)'
    BY <1>2 DEF ProcOK, InFile, Grown, FileKept
  <2>4. ~k.saved /\ file' # None => file'.token # k.token
    <3>1. CASE file = None
      BY <3>1, <2>2, SessionAssumption DEF Grown, FileKept, IInv, BoundsOK
    <3>2. CASE file # None
      BY <3>2, <1>2 DEF Grown, FileKept, ProcOK
    <3> QED BY <3>1, <3>2
  <2>5. k.op \in Driving => k.saved /\ k.sid \in DOMAIN sessions' /\ (k.sid = file'.sid \/ k.named)
    <3>1. k.op \in Driving => /\ k.saved /\ file # None /\ k.sid \in DOMAIN sessions
                              /\ k.sid = file.sid \/ k.named
      BY <1>2 DEF ProcOK, InFile
    <3>2. k.sid \in DOMAIN sessions => k.sid # 0 /\ k.sid \in DOMAIN sessions'
      BY DEF IInv, SessionsOK, Grown, SessionsKept
    <3> QED BY <3>1, <3>2 DEF Grown, FileKept
  <2>6. k.op \in Observing => k.row \in chain' /\ k.row.sid = k.sid
    BY <1>2 DEF ProcOK, Grown
  <2>7. k.pc = "reply" => ReplyOK(k)'
    BY <1>2, ReplyGrows DEF ProcOK
  <2> QED BY <1>2, <2>1, <2>2, <2>3, <2>4, <2>5, <2>6, <2>7 DEF ProcOK
<1> QED BY <1>1, <1>2

\* The bounds of a session never change.
LEMMA BoundsStay ==
  ASSUME IInv, Grown, NEW sid \in 0 .. Len(sessions)
  PROVE  BoundsOf(sid)' = BoundsOf(sid) /\ sid \in 0 .. Len(sessions')
<1>1. /\ Len(sessions) \in Nat /\ Len(sessions') \in Nat /\ Len(sessions) <= Len(sessions')
      /\ DOMAIN sessions = 1 .. Len(sessions) /\ Summary' = Summary
  BY DEF IInv, SessionsOK, Grown, SessionsKept, Summary
<1>2. sid \in 0 .. Len(sessions')
  BY <1>1
<1>3. sid # 0 => sessions'[sid].approval = sessions[sid].approval
  BY <1>1 DEF Grown, SessionsKept
<1> QED BY <1>1, <1>2, <1>3 DEF BoundsOf

LEMMA WithinGrows ==
  ASSUME IInv, Grown, NEW sid, NEW step, NEW spend, NEW out, NEW told,
         Within(sid, step, spend, out, told)
  PROVE  Within(sid, step, spend, out, told)'
<1>1. BoundsOf(sid)' = BoundsOf(sid) /\ sid \in 0 .. Len(sessions')
  BY BoundsStay DEF Within
<1>2. Planned' /\ Summary' = Summary /\ Steps' = Steps
  BY PlannedStays DEF Within, Grown, Summary, Steps
<1>3. Carried(sid, step, spend, told) => Carried(sid, step, spend, told)'
  BY DEF Carried, Follows, Funded, Grown
<1> QED BY <1>1, <1>2, <1>3 DEF Within

LEMMA HandoffGrows ==
  ASSUME IInv, Grown, NEW h, HandoffOK(h)
  PROVE  HandoffOK(h)'
BY WithinGrows DEF HandoffOK

LEMMA SessionGrows ==
  ASSUME IInv, Grown, NEW i, NEW s, SessionOK(i, s)
  PROVE  SessionOK(i, s)'
<1>1. Planned' /\ Summary' = Summary /\ Steps' = Steps
  BY PlannedStays DEF SessionOK, Grown, Summary, Steps
<1>2. s.token \in 1 .. tokens'
  BY SessionAssumption DEF SessionOK, Grown, IInv, BoundsOK
<1>3. s.step > 0 => Funded(i, s.step, s.input)'
  BY DEF SessionOK, Funded, Grown
<1>4. s.saved => file' # None /\ file'.token = s.token /\ file'.ctx.approval = s.approval
                 /\ file'.ctx.wallets = s.wallets
  BY DEF SessionOK, Grown, FileKept
<1>5. s.prepared \in 0 .. now'
  BY SessionAssumption DEF SessionOK, Grown, IInv, BoundsOK
<1>6. ~s.saved /\ file' # None => file'.token # s.token
  <2>1. s.token \in 1 .. tokens /\ tokens \in Nat
    BY SessionAssumption DEF SessionOK, IInv, BoundsOK
  <2>2. CASE file = None
    BY <2>1, <2>2, SessionAssumption DEF Grown, FileKept, IInv, BoundsOK
  <2>3. CASE file # None
    BY <2>3 DEF Grown, FileKept, SessionOK
  <2> QED BY <2>2, <2>3
<1> QED BY <1>1, <1>2, <1>3, <1>4, <1>5, <1>6 DEF SessionOK

(*---------------------------- what a step leaves alone ----------------------------*)
LEMMA ApprovalSame == IInv /\ Grown /\ approval' = approval => ApprovalFileOK'
BY PlannedStays DEF IInv, Grown, ApprovalFileOK

LEMMA FileStays ==
  ASSUME IInv, Grown, file' = file
  PROVE  FileOK'
<1> SUFFICES ASSUME file # None PROVE FileOK'
  BY DEF FileOK
<1>1. Planned' /\ file.ctx \in Contexts'
  BY PlannedStays, ContextsGrow DEF IInv, FileOK, Grown
<1>2. file.token \in 1 .. tokens' /\ file.sid \in 0 .. Len(sessions')
  BY SessionAssumption DEF IInv, FileOK, Grown, BoundsOK, SessionsOK, SessionsKept
<1>3. file.sid # 0 => SessionFor(file.sid, file.token, file.ctx)'
  BY SessionForGrows DEF IInv, FileOK
<1>4. file = Capability(file.token, file.sid, file.ctx)
  BY DEF IInv, FileOK
<1> QED BY <1>1, <1>2, <1>3, <1>4 DEF FileOK, Capability

LEMMA ProcsSame == IInv /\ Grown /\ proc' = proc => ProcsOK'
BY ProcGrows DEF IInv, ProcsOK

LEMMA OneProc ==
  ASSUME IInv, Grown, NEW p \in Procs, NEW k, ProcOK(k)', proc' = [proc EXCEPT ![p] = k]
  PROVE  ProcsOK'
<1>1. proc = [q \in Procs |-> proc[q]] /\ \A q \in Procs : ProcOK(proc[q])
  BY DEF IInv, ProcsOK
<1>2. proc' = [q \in Procs |-> proc'[q]]
  BY <1>1
<1>3. \A q \in Procs : proc'[q] = k \/ proc'[q] = proc[q]
  BY <1>1
<1>4. \A q \in Procs : ProcOK(proc[q])'
  BY <1>1, <1>3, ProcGrows
<1> QED BY <1>2, <1>4 DEF ProcsOK

LEMMA IdleOK == ProcOK(Idle)'
BY DEF ProcOK, Idle

LEMMA ProcIdles ==
  ASSUME IInv, Grown, NEW p \in Procs, proc' = [proc EXCEPT ![p] = Idle]
  PROVE  ProcsOK'
BY IdleOK, OneProc DEF Idle

LEMMA SessionsStay ==
  ASSUME IInv, Grown, sessions' = sessions
  PROVE  SessionsOK'
BY SessionGrows DEF IInv, SessionsOK

LEMMA WalletStays ==
  ASSUME IInv, Grown, chain' = chain, \A h \in handoffs' : h \in handoffs \/ HandoffOK(h)'
  PROVE  WalletOK'
<1>1. \A h \in handoffs' : HandoffOK(h)'
  BY HandoffGrows DEF IInv, WalletOK
<1>2. \A row \in chain' : Within(row.sid, row.step, row.spend, row.out, row.told)'
  BY WithinGrows DEF IInv, WalletOK
<1> QED BY <1>1, <1>2 DEF WalletOK

(*------------------------------ approvals and contexts ------------------------------*)
\* The amounts of a planned quote are integers, and it has a first and a last step.
LEMMA PlannedAmounts ==
  ASSUME quote \in Quotes, Planned
  PROVE  /\ Steps \in Nat \ {0} /\ DOMAIN Summary = 1 .. Steps
         /\ \A i \in 1 .. Steps : Amounts(Summary[i]) \subseteq Int
         /\ First(Summary).expIn \in Int /\ Final(Summary).minOut \in Int
<1>1. Steps \in Nat \ {0} /\ DOMAIN Summary = 1 .. Steps
  BY QuotesAssumption DEF Planned, SummaryValid, Steps, Summary
<1>2. \A i \in 1 .. Steps : Amounts(Summary[i]) \subseteq Int
  BY <1>1, QuotesAssumption DEF Summary
<1>3. Amounts(Summary[1]) \subseteq Int /\ Amounts(Summary[Steps]) \subseteq Int
  BY <1>1, <1>2
<1>4. First(Summary).expIn \in Int /\ Final(Summary).minOut \in Int
  BY <1>3 DEF Amounts, First, Final, Steps
<1> QED BY <1>1, <1>2, <1>4

\* An approval has the bounds of the quote, or asks for more than its minimum.
LEMMA ApprovalIsOne ==
  ASSUME quote \in Quotes, Planned, NEW mode \in Modes, NEW key \in 0 .. MaxTokens,
         NEW more \in Stricter \union {0}, NEW a,
         a = Stricten(quote, mode, key, more)
  PROVE  a \in Approvals /\ a.maxIn = First(Summary).expIn
<1>1. a \in Approvals
  BY DEF Approvals, Modes
<1>2. a.maxIn = quote.continuation.maxIn
  BY DEF Stricten, ExactApproval
<1>3. quote.continuation.maxIn = First(Summary).expIn
  BY DEF Planned, Continuation, Summary
<1> QED BY <1>1, <1>2, <1>3

LEMMA ExactIsOne ==
  ASSUME quote \in Quotes, Planned, NEW mode \in Modes, NEW key \in 0 .. MaxTokens
  PROVE  LET a == ExactApproval(quote.continuation, mode, key)
         IN  a \in Approvals /\ a.maxIn = First(Summary).expIn
<1> DEFINE a == ExactApproval(quote.continuation, mode, key)
<1>1. quote.continuation.minOut \in Int
  BY PlannedAmounts DEF Planned, Continuation, Summary
<1>2. a = Stricten(quote, mode, key, 0)
  BY <1>1 DEF Stricten, ExactApproval
<1>3. a \in Approvals
  BY <1>2 DEF Approvals, Modes
<1>4. a.maxIn = First(Summary).expIn
  BY DEF ExactApproval, Planned, Continuation, Summary
<1> QED BY <1>3, <1>4

LEMMA ContextIsApproved ==
  ASSUME IInv, Planned, NEW c \in Contexts
  PROVE  /\ c.approval \in Approvals /\ c.approval.maxIn = First(Summary).expIn
         /\ c.wallets \in WalletMaps /\ c.intent = Intent
<1>1. c.wallets \in WalletMaps /\ c.intent = Intent
  BY DEF Contexts
<1>2. quote \in Quotes /\ tokens \in Nat /\ tokens <= MaxTokens /\ 0 \in 0 .. MaxTokens
  BY SessionAssumption DEF IInv, BoundsOK
<1>3. CASE c.approval = approval /\ approval # None
  <2>1. PICK mode \in Modes, more \in Stricter :
          approval = Stricten(quote, mode, SelectKey, more)
    BY <1>3 DEF IInv, ApprovalFileOK
  <2> QED BY <1>1, <1>2, <1>3, <2>1, ApprovalIsOne DEF SelectKey
<1>4. ASSUME NEW m \in Modes, NEW key \in 0 .. tokens,
             c.approval = ExactApproval(quote.continuation, m, key)
      PROVE  c.approval \in Approvals /\ c.approval.maxIn = First(Summary).expIn
  <2>1. key \in 0 .. MaxTokens
    BY <1>2, SessionAssumption
  <2> QED BY <1>2, <1>4, <2>1, ExactIsOne
<1> QED BY <1>1, <1>3, <1>4 DEF Contexts, Modes

(*--------------------------------- the tools ---------------------------------*)
LEMMA SelectOK ==
  ASSUME IInv, NEW more \in Stricter, Select(more)
  PROVE  IInv'
<1>1. Planned'
  BY DEF Select, Plannable, ContinuationValid, Planned, Summary
<1>2. Grown
  BY FileSame, SessionsSame DEF Select, Grown, IInv, BoundsOK
<1>3. ApprovalFileOK'
  BY <1>1 DEF Select, ApprovalFileOK, Modes
<1>4. FileOK' /\ ProcsOK' /\ SessionsOK'
  BY <1>2, FileStays, ProcsSame, SessionsStay DEF Select
<1>5. WalletOK'
  BY <1>2, WalletStays DEF Select
<1> QED BY <1>2, <1>3, <1>4, <1>5 DEF IInv, Grown

\* The context of a new run: of the approval file, of the capability file, or under a
\* key drawn for it.
LEMMA PlannedContext ==
  ASSUME IInv, NEW p \in Procs, NEW g \in Arguments, PlanStart(p, g), NEW ctx,
         ctx = ContextOf(g, ApprovalOf(g)), Grown
  PROVE  /\ ctx \in Contexts' /\ ctx.approval \in Approvals /\ ctx.intent = IntentOf(quote)
         /\ ctx.wallets \in WalletMaps
         /\ ctx = [intent |-> ctx.intent, wallets |-> ctx.wallets, approval |-> ctx.approval]
<1>1. /\ g.wallets \in WalletMaps /\ g.mode \in Modes
      /\ ctx = [intent |-> Intent, wallets |-> g.wallets, approval |-> ApprovalOf(g)]
  BY DEF Arguments, Modes, ContextOf
<1>2. Planned /\ quote \in Quotes /\ tokens \in Nat
  BY SessionAssumption
     DEF PlanStart, Plannable, ContinuationValid, Planned, Summary, IInv, BoundsOK
<1>3. Intent' = Intent /\ quote' = quote /\ approval' = approval
  BY DEF PlanStart, Intent
<1>4. CASE g.token = "input" \/ ~g.exact
  <2>1. ctx \in Contexts
    <3>1. CASE g.token = "input"
      BY <3>1 DEF PlanStart, CapabilityMatches, IInv, FileOK
    <3>2. CASE ~g.exact
      BY <3>2, <1>1 DEF PlanStart, Contexts, ApprovalOf
    <3> QED BY <1>4, <3>1, <3>2
  <2> QED BY <1>1, <1>2, <2>1, ContextsGrow, ContextIsApproved DEF Intent
<1>5. CASE g.token # "input" /\ g.exact
  <2>1. /\ ApprovalOf(g) = ExactApproval(quote.continuation, g.mode, tokens + 1)
        /\ tokens' = tokens + 1 /\ tokens + 1 \in 0 .. MaxTokens
    BY <1>5, <1>2, SessionAssumption DEF PlanStart, ApprovalOf
  <2>2. tokens + 1 \in 0 .. tokens'
    BY <1>2, <2>1
  <2>3. ctx \in Contexts'
    BY <1>1, <1>3, <2>1, <2>2 DEF Contexts, Modes
  <2>4. ApprovalOf(g) \in Approvals
    BY <1>1, <1>2, <2>1, ExactIsOne
  <2> QED BY <1>1, <2>3, <2>4 DEF Intent
<1> QED BY <1>4, <1>5

LEMMA PlanStartOK ==
  ASSUME IInv, NEW p \in Procs, NEW g \in Arguments, PlanStart(p, g)
  PROVE  IInv'
<1> PICK ctx : ctx = ContextOf(g, ApprovalOf(g))
  OBVIOUS
<1> DEFINE fresh == g.token # "input"
<1> PICK token : token = IF fresh THEN tokens + 1 ELSE file.token
  OBVIOUS
<1> PICK op : op = IF g.mode = "one_shot" THEN "prepare" ELSE "create"
  OBVIOUS
<1> PICK saved \in BOOLEAN : saved = (g.token # "memory")
  OBVIOUS
<1> PICK k : k = Run(op, token, saved, ctx, 0, None, FALSE)
  OBVIOUS
<1>1. /\ IF g.token = "output" THEN file = None /\ file' = Capability(token, 0, ctx)
                               ELSE file' = file
      /\ proc' = [proc EXCEPT ![p] = k]
      /\ g.token = "input" => file # None /\ file.ctx = ctx
      /\ tokens' = IF fresh THEN tokens + 1 ELSE tokens
      /\ fresh => tokens < MaxTokens
      /\ UNCHANGED <<now, quote, approval, sessions, handoffs, chain>>
  BY DEF PlanStart, CapabilityMatches
<1>2. tokens \in Nat /\ MaxTokens \in Nat /\ BoundsOK /\ g.token \in {"memory", "output", "input"}
  BY SessionAssumption DEF IInv, BoundsOK, Arguments
<1>3. token \in 1 .. tokens' /\ BoundsOK' /\ tokens <= tokens' /\ now <= now'
  <2>1. token \in 1 .. tokens'
    BY <1>1, <1>2 DEF IInv, FileOK
  <2> QED BY <1>1, <1>2, <2>1, SessionAssumption DEF BoundsOK
<1>4. Planned'
  BY DEF PlanStart, Plannable, ContinuationValid, Planned, Summary
<1> DEFINE cap == Capability(token, 0, ctx)
<1>5. FileKept /\ SessionsKept
  <2>1. CASE g.token = "output"
    <3>1. file = None /\ file'.token = tokens + 1
      BY <1>1, <2>1 DEF Capability
    <3> QED BY <1>1, <1>2, <3>1, SessionsSame DEF FileKept
  <2>2. CASE g.token # "output"
    BY <1>1, <2>2, FileSame, SessionsSame
  <2> QED BY <2>1, <2>2
<1>6. Grown
  BY <1>1, <1>3, <1>5 DEF Grown
<1>7. /\ ctx \in Contexts' /\ ctx.approval \in Approvals /\ ctx.intent = IntentOf(quote)
      /\ ctx.wallets \in WalletMaps
      /\ ctx = [intent |-> ctx.intent, wallets |-> ctx.wallets, approval |-> ctx.approval]
  BY <1>6, PlannedContext
<1>8. cap # None
  <2>1. ctx \in [intent : {IntentOf(q) : q \in Quotes}, wallets : WalletMaps,
                 approval : Approvals]
    BY <1>2, <1>7 DEF BoundsOK
  <2>2. token \in Nat
    BY <1>1, <1>2, <1>3
  <2> QED BY <2>1, <2>2, NoneAssumption DEF Capability
<1>9. FileOK'
  <2>1. CASE g.token = "output"
    <3>1. file' = cap
      BY <1>1, <2>1
    <3>2. cap.token = token /\ cap.sid = 0 /\ cap.ctx = ctx
      BY DEF Capability
    <3>3. Len(sessions') \in Nat
      BY <1>5 DEF SessionsKept
    <3> QED BY <1>3, <1>4, <1>7, <3>1, <3>2, <3>3 DEF FileOK
  <2>2. CASE g.token # "output"
    BY <1>1, <1>6, <2>2, FileStays
  <2> QED BY <2>1, <2>2
<1>10. ProcOK(k)'
  <2>1. /\ DOMAIN k = RunFields /\ k.pc = "wait" /\ k.op = op /\ k.token = token /\ k.saved = saved
        /\ k.ctx = ctx /\ k.sid = 0 /\ k.ready = FALSE
    BY DEF Run, RunFields
  <2>2. saved => InFile(token, ctx)'
    <3>1. CASE g.token = "output"
      BY <1>1, <1>8, <3>1 DEF InFile, Capability
    <3>2. CASE g.token = "input"
      BY <1>1, <3>2 DEF InFile
    <3> QED BY <1>2, <3>1, <3>2
  <2>3. g.token = "memory" /\ file' # None => file'.token # token
    <3>1. g.token = "memory" => token = tokens + 1 /\ file' = file
      BY <1>1
    <3>2. file # None => file.token \in 1 .. tokens
      BY DEF IInv, FileOK
    <3> QED BY <1>2, <3>1, <3>2
  <2>4. ~saved => g.token = "memory"
    OBVIOUS
  <2> QED BY <1>3, <1>4, <1>7, <2>1, <2>2, <2>3, <2>4 DEF ProcOK, Creating, Driving, Observing
<1>11. ProcsOK'
  BY <1>1, <1>6, <1>10, OneProc
<1>12. ApprovalFileOK' /\ SessionsOK' /\ WalletOK'
  BY <1>1, <1>6, ApprovalSame, SessionsStay, WalletStays
<1> QED BY <1>3, <1>9, <1>11, <1>12 DEF IInv

(*------------------------------- hand-offs -------------------------------*)
\* An action that both checks accept keeps to the bounds of the session's approval and to
\* the amounts of the selected route, whatever the service made of it.
LEMMA AcceptedIsWithin ==
  ASSUME IInv, Planned, NEW sid \in 0 .. Len(sessions), NEW sent, BundleOK(sid, sent),
         NEW b \in Received(sent), NEW ctx, Accepted(b, ctx, Summary, now),
         sid # 0 => sessions[sid].approval = ctx.approval
  PROVE  Within(sid, b.step, b.spend, b.receive, b.prev.out = sent.prev.out)
<1>1. /\ Steps \in Nat \ {0} /\ Len(Summary) = Steps
      /\ \A i \in 1 .. Steps : Amounts(Summary[i]) \subseteq Int
  BY PlannedAmounts DEF IInv, BoundsOK, Steps
<1>2. /\ b.step = sent.step /\ b.legacy = FALSE /\ b.path = Path
      /\ b.step \in 0 .. Steps - 1
  BY DEF Received, Spending, Returning, BundleOK, Bundle
<1>3. b.receive \in Int
  <2>1. Amounts(Summary[b.step + 1]) \subseteq Int /\ sent.step = b.step
    BY <1>1, <1>2
  <2>2. b.receive \in {sent.receive, Summary[b.step + 1].expOut, Summary[b.step + 1].minOut - 1}
    BY <1>2 DEF Received, Spending, Returning, BundleOK, Bundle
  <2> QED BY <2>1, <2>2 DEF Amounts, BundleOK
<1>4. BoundsVerified(b, Summary, ctx.approval)
  BY DEF Accepted
<1>5. LegacyReceive(b, Summary) = FALSE
  BY <1>2 DEF LegacyReceive
<1>6. /\ b.step = 0 => b.spend <= Summary[b.step + 1].expIn /\ b.spend <= ctx.approval.maxIn
      /\ b.receive >= Summary[b.step + 1].minOut
      /\ b.step = Steps - 1 => b.receive >= ctx.approval.minOut
      /\ b.step > 0 => b.spend >= Summary[b.step + 1].minIn
      /\ Continuous(b)
  BY <1>1, <1>4, <1>5 DEF BoundsVerified
<1>7. b.step = 0 => b.spend <= BoundsOf(sid).maxIn
  BY <1>6 DEF BoundsOf, First
<1>8. b.step = Steps - 1 => b.receive >= BoundsOf(sid).minOut
  <2>1. sid = 0 /\ b.step = Steps - 1 => b.receive >= Summary[Steps].minOut
    BY <1>1, <1>6
  <2> QED BY <1>1, <1>6, <2>1 DEF BoundsOf, Final
<1>9. b.step > 0 => Carried(sid, b.step, b.spend, b.prev.out = sent.prev.out)
  BY <1>2, <1>6 DEF Continuous, BundleOK, Funded, Follows, Carried
<1> QED BY <1>2, <1>3, <1>6, <1>7, <1>8, <1>9 DEF Within

LEMMA HandOffOK ==
  ASSUME IInv, Grown, NEW p \in Procs, proc[p].pc = "reply", HandOff(p),
         NEW sid, sid = proc[p].reply.sid,
         sid # 0 => sid \in DOMAIN sessions /\ sessions[sid].approval = proc[p].ctx.approval
  PROVE  \A h \in handoffs' : h \in handoffs \/ HandoffOK(h)'
<1> DEFINE sent == proc[p].reply.bundle
<1>1. PICK b \in Received(sent) :
        /\ Accepted(b, proc[p].ctx, Summary, now)
        /\ handoffs' = handoffs \union {Handoff(sid, b, b.prev.out = sent.prev.out)}
  BY DEF HandOff
<1>2. Planned /\ sid \in 0 .. Len(sessions) /\ BundleOK(sid, sent)
  BY DEF IInv, ProcsOK, ProcOK, ReplyOK, HandOff
<1> PICK told : told = (b.prev.out = sent.prev.out)
  OBVIOUS
<1>3. Within(sid, b.step, b.spend, b.receive, told)
  BY <1>1, <1>2, AcceptedIsWithin
<1>4. Within(sid, b.step, b.spend, b.receive, told)'
  BY <1>3, WithinGrows
<1>5. ASSUME NEW h, h = Handoff(sid, b, told)
      PROVE  HandoffOK(h)'
  <2>1. /\ h.sid = sid /\ h.step = b.step /\ h.spend = b.spend /\ h.receive = b.receive
        /\ h.told = told
    BY <1>5 DEF Handoff
  <2> QED BY <1>4, <2>1 DEF HandoffOK
<1> QED BY <1>1, <1>5

LEMMA OnlySession ==
  ASSUME IInv, NEW i, NEW j, NEW s, NEW t, NEW ctx, SessionFor(i, s, ctx), SessionFor(j, t, ctx)
  PROVE  i = j
BY DEF IInv, SessionsOK, SessionFor

LEMMA CapabilityIsSome ==
  ASSUME IInv, Planned, NEW ctx \in Contexts, NEW token \in Nat, NEW sid \in Nat
  PROVE  Capability(token, sid, ctx) # None
<1>1. ctx.approval \in Approvals /\ ctx.wallets \in WalletMaps /\ ctx.intent = IntentOf(quote)
  BY ContextIsApproved DEF Intent
<1>2. ctx = [intent |-> ctx.intent, wallets |-> ctx.wallets, approval |-> ctx.approval]
  BY DEF Contexts
<1>3. ctx \in [intent : {IntentOf(q) : q \in Quotes}, wallets : WalletMaps, approval : Approvals]
  BY <1>1, <1>2 DEF IInv, BoundsOK
<1> QED BY <1>3, NoneAssumption DEF Capability

\* The file learns the session of its own creation, the only one it can ever name.
LEMMA BindOK ==
  ASSUME IInv, NEW p \in Procs, proc[p].pc = "reply", proc[p].op \in Creating, Bind(p)
  PROVE  /\ FileKept
         /\ proc[p].op = "create" /\ proc[p].saved => file' # None /\ file'.sid = proc[p].reply.sid
         /\ Grown => FileOK'
<1> PICK k : k = proc[p]
  OBVIOUS
<1>1. ProcOK(k) /\ Planned /\ ReplyOK(k) /\ k.ctx \in Contexts /\ k.token \in 1 .. tokens
  BY DEF IInv, ProcsOK, ProcOK
<1>2. CASE k.op = "create" /\ k.saved
  <2> PICK sid : sid = k.reply.sid
    OBVIOUS
  <2>1. file' = Capability(k.token, sid, k.ctx)
    BY <1>2 DEF Bind
  <2>2. file'.token = k.token /\ file'.sid = sid /\ file'.ctx = k.ctx
    BY <2>1 DEF Capability
  <2>3. file # None /\ file.token = k.token /\ file.ctx = k.ctx
    BY <1>1, <1>2 DEF ProcOK, InFile, Creating
  <2>4. SessionFor(sid, k.token, k.ctx) /\ sid \in 0 .. Len(sessions) /\ Len(sessions) \in Nat
    BY <1>1, <1>2 DEF ReplyOK, IInv, SessionsOK
  <2>5. file.sid # 0 => file.sid = sid
    BY <2>3, <2>4, OnlySession DEF IInv, FileOK
  <2>6. file' # None
    BY <1>1, <2>1, <2>4, CapabilityIsSome, SessionAssumption DEF IInv, BoundsOK
  <2>7. FileKept
    BY <2>2, <2>3, <2>5, <2>6 DEF FileKept
  <2>8. ASSUME Grown
        PROVE  FileOK'
    <3>1. Planned' /\ k.ctx \in Contexts' /\ SessionFor(sid, k.token, k.ctx)'
      BY <1>1, <2>4, <2>8, PlannedStays, ContextsGrow, SessionForGrows DEF Grown
    <3>2. k.token \in 1 .. tokens' /\ sid \in 0 .. Len(sessions')
      BY <1>1, <2>4, <2>8, SessionAssumption DEF Grown, SessionsKept, IInv, BoundsOK
    <3> QED BY <2>1, <2>2, <3>1, <3>2 DEF FileOK
  <2> QED BY <2>2, <2>6, <2>7, <2>8
<1>3. CASE ~(k.op = "create" /\ k.saved)
  <2>1. file' = file
    BY <1>3 DEF Bind
  <2> QED BY <1>3, <2>1, FileSame, FileStays
<1> QED BY <1>2, <1>3

LEMMA PlanFinishOK ==
  ASSUME IInv, NEW p \in Procs, PlanFinish(p)
  PROVE  IInv'
<1> PICK k : k = proc[p]
  OBVIOUS
<1> PICK sid : sid = k.reply.sid
  OBVIOUS
<1>1. /\ proc[p].pc = "reply" /\ proc[p].op \in Creating /\ Bind(p)
      /\ HandOff(p) \/ handoffs' = handoffs
      /\ proc' = [proc EXCEPT ![p] = Idle]
      /\ UNCHANGED <<now, quote, approval, sessions, chain, tokens>>
  BY DEF PlanFinish, Creating
<1>2. ProcOK(k) /\ ReplyOK(k) /\ SessionsOK
  BY <1>1 DEF IInv, ProcsOK, ProcOK
<1>3. BoundsOK'
  BY <1>1 DEF IInv, BoundsOK
<1>4. Grown
  <2>1. FileKept /\ SessionsKept
    BY <1>1, BindOK, SessionsSame
  <2> QED BY <1>1, <1>3, <2>1, SessionAssumption DEF Grown, IInv, BoundsOK
<1>5. sid # 0 => sid \in DOMAIN sessions /\ sessions[sid].approval = k.ctx.approval
                 /\ sessions[sid].token = k.token
  BY <1>1, <1>2 DEF ReplyOK, Creating, SessionFor
<1>6. \A h \in handoffs' : h \in handoffs \/ HandoffOK(h)'
  <2>1. CASE HandOff(p)
    BY <1>1, <1>4, <1>5, <2>1, HandOffOK
  <2> QED BY <1>1, <2>1
<1>7. FileOK' /\ ProcsOK' /\ WalletOK'
  BY <1>1, <1>4, <1>6, BindOK, ProcIdles, WalletStays
<1>8. ApprovalFileOK' /\ SessionsOK'
  BY <1>1, <1>4, ApprovalSame, SessionsStay
<1> QED BY <1>3, <1>7, <1>8 DEF IInv

\* The file names a saved session before the action of its creation is handed off.
LEMMA PlanBinds ==
  ASSUME IInv, NEW p \in Procs, PlanFinish(p), NEW sid, sid = proc[p].reply.sid, sid # 0,
         Saved(sid)
  PROVE  file' # None /\ file'.sid = sid
<1> PICK k : k = proc[p]
  OBVIOUS
<1>1. k.pc = "reply" /\ k.op \in Creating /\ Bind(p) /\ ProcOK(k) /\ ReplyOK(k)
  BY DEF PlanFinish, Creating, IInv, ProcsOK, ProcOK
<1>2. k.op = "create" /\ sid \in DOMAIN sessions /\ sessions[sid].token = k.token
  BY <1>1 DEF ReplyOK, Creating, SessionFor
<1>3. file # None /\ file.token = k.token
  BY <1>2 DEF IInv, SessionsOK, SessionOK, Saved
<1>4. k.saved
  BY <1>1, <1>3 DEF ProcOK
<1> QED BY <1>1, <1>2, <1>4, BindOK

LEMMA SessionStartOK ==
  ASSUME IInv, NEW p \in Procs, NEW op \in Operations, SessionStart(p, op)
  PROVE  IInv'
<1>1. PICK sid \in DOMAIN sessions, row \in chain \union {None} :
        /\ file.sid # 0 => sid = file.sid
        /\ op \in Observing <=> row # None
        /\ row # None => row.sid = sid
        /\ proc' = [proc EXCEPT ![p] =
             [Run(IF op = "wallet-ready" THEN "get" ELSE op, file.token, TRUE,
                  file.ctx, sid, row, op = "wallet-ready") EXCEPT !.named = (file.sid = 0)]]
  BY DEF SessionStart, Observing
<1>2. /\ file # None
      /\ UNCHANGED <<now, quote, approval, file, sessions, handoffs, chain, tokens>>
  BY DEF SessionStart
<1> PICK request : request = IF op = "wallet-ready" THEN "get" ELSE op
  OBVIOUS
<1> PICK ready : ready = (op = "wallet-ready")
  OBVIOUS
<1> PICK k : k = [Run(request, file.token, TRUE, file.ctx, sid, row, ready)
                    EXCEPT !.named = (file.sid = 0)]
  OBVIOUS
<1>3. Grown
  BY <1>2, FileSame, SessionsSame, SessionAssumption DEF Grown, IInv, BoundsOK
<1>4. /\ request \in Driving
      /\ request \in Observing => row \in chain /\ row.sid = sid
  BY <1>1 DEF Operations, Driving, Observing
<1>5. /\ DOMAIN k = RunFields /\ k.pc = "wait" /\ k.op = request /\ k.token = file.token
      /\ k.saved = TRUE /\ k.ctx = file.ctx /\ k.sid = sid /\ k.row = row
      /\ k.named = (file.sid = 0)
  BY DEF Run, RunFields
<1>6. Planned /\ file.ctx \in Contexts /\ file.token \in 1 .. tokens
  BY <1>2 DEF IInv, FileOK
<1>7. k.sid = file.sid \/ k.named
  BY <1>1, <1>5
<1>8. ProcOK(k)
  BY <1>2, <1>4, <1>5, <1>6, <1>7 DEF ProcOK, InFile, Creating, Driving, Observing
<1>9. ProcsOK'
  BY <1>1, <1>3, <1>8, ProcGrows, OneProc
<1>10. ApprovalFileOK' /\ FileOK' /\ SessionsOK' /\ WalletOK'
  BY <1>2, <1>3, ApprovalSame, FileStays, SessionsStay, WalletStays
<1> QED BY <1>3, <1>9, <1>10 DEF IInv, Grown

\* What a process is about stays while it waits, asks again, is answered, or is gone.
LEMMA ProcAsksAgain ==
  ASSUME NEW k, ProcOK(k), k.pc # "idle", k.op \in Driving,
         NEW c, DOMAIN c = RunFields, c.op = "refresh",
         c.token = k.token, c.saved = k.saved, c.ctx = k.ctx, c.sid = k.sid, c.row = k.row,
         c.ready = k.ready, c.named = k.named, c.pc \in {"wait", "gone", "reply"},
         c.pc = "reply" => ReplyOK(c)
  PROVE  ProcOK(c)
BY DEF ProcOK, Creating, Driving, Observing

LEMMA ProcKeeps ==
  ASSUME NEW k, ProcOK(k), k.pc # "idle", NEW c, DOMAIN c = RunFields, c.op = k.op,
         c.token = k.token, c.saved = k.saved, c.ctx = k.ctx, c.sid = k.sid, c.row = k.row,
         c.ready = k.ready, c.named = k.named, c.pc \in {"wait", "gone", "reply"},
         c.pc = "reply" => ReplyOK(c)
  PROVE  ProcOK(c)
BY DEF ProcOK, Creating, Driving, Observing

LEMMA AskRefreshOK ==
  ASSUME IInv, NEW p \in Procs, AskRefresh(p)
  PROVE  IInv'
<1> PICK k : k = proc[p]
  OBVIOUS
<1> PICK c : c = [k EXCEPT !.pc = "wait", !.op = "refresh", !.again = TRUE, !.late = FALSE]
  OBVIOUS
<1>1. /\ k.pc = "reply" /\ k.op \notin Creating
      /\ UNCHANGED <<now, quote, approval, file, sessions, handoffs, chain, tokens>>
  BY DEF AskRefresh, Answered, Creating
<1>2. proc' = [proc EXCEPT ![p] = c]
  BY DEF AskRefresh
<1>3. Grown
  BY <1>1, FileSame, SessionsSame, SessionAssumption DEF Grown, IInv, BoundsOK
<1>4. ProcOK(k) /\ k.op \in Driving /\ DOMAIN k = RunFields
  BY <1>1 DEF IInv, ProcsOK, ProcOK
<1>5. /\ DOMAIN c = RunFields /\ c.pc = "wait" /\ c.op = "refresh" /\ c.token = k.token
      /\ c.saved = k.saved /\ c.ctx = k.ctx /\ c.sid = k.sid /\ c.row = k.row
      /\ c.ready = k.ready /\ c.named = k.named
  BY <1>4 DEF RunFields
<1>6. ProcOK(c)
  BY <1>1, <1>4, <1>5, ProcAsksAgain
<1>7. ProcsOK'
  BY <1>2, <1>3, <1>6, ProcGrows, OneProc
<1>8. ApprovalFileOK' /\ FileOK' /\ SessionsOK' /\ WalletOK'
  BY <1>1, <1>3, ApprovalSame, FileStays, SessionsStay, WalletStays
<1> QED BY <1>3, <1>7, <1>8 DEF IInv, Grown

LEMMA SessionFinishOK ==
  ASSUME IInv, NEW p \in Procs, SessionFinish(p)
  PROVE  IInv'
<1> PICK k : k = proc[p]
  OBVIOUS
<1> PICK sid : sid = k.reply.sid
  OBVIOUS
<1>1. /\ k.pc = "reply" /\ k.op \notin Creating /\ HandOff(p)
      /\ proc' = [proc EXCEPT ![p] = Idle]
      /\ UNCHANGED <<now, quote, approval, file, sessions, chain, tokens>>
  BY DEF SessionFinish, Answered, Creating
<1>2. Grown
  BY <1>1, FileSame, SessionsSame, SessionAssumption DEF Grown, IInv, BoundsOK
<1>3. SessionFor(sid, k.token, k.ctx)
  BY <1>1 DEF IInv, ProcsOK, ProcOK, ReplyOK, Creating
<1>4. \A h \in handoffs' : h \in handoffs \/ HandoffOK(h)'
  BY <1>1, <1>2, <1>3, HandOffOK DEF SessionFor
<1>5. ApprovalFileOK' /\ FileOK' /\ ProcsOK' /\ SessionsOK' /\ WalletOK'
  BY <1>1, <1>2, <1>4, ApprovalSame, FileStays, ProcIdles, SessionsStay, WalletStays
<1> QED BY <1>2, <1>5 DEF IInv, Grown

LEMMA FailOK ==
  ASSUME IInv, NEW p \in Procs, Fail(p)
  PROVE  IInv'
<1> PICK k : k = proc[p]
  OBVIOUS
<1> PICK c : c = [k EXCEPT !.pc = "gone"]
  OBVIOUS
<1>1. /\ k.pc # "idle"
      /\ proc' = [proc EXCEPT ![p] = Idle] \/ proc' = [proc EXCEPT ![p] = c]
      /\ UNCHANGED <<now, quote, approval, file, sessions, handoffs, chain, tokens>>
  BY DEF Fail
<1>2. Grown
  BY <1>1, FileSame, SessionsSame, SessionAssumption DEF Grown, IInv, BoundsOK
<1>3. ProcOK(k) /\ DOMAIN k = RunFields
  BY <1>1 DEF IInv, ProcsOK, ProcOK
<1>4. /\ DOMAIN c = RunFields /\ c.pc = "gone" /\ c.op = k.op /\ c.token = k.token
      /\ c.saved = k.saved /\ c.ctx = k.ctx /\ c.sid = k.sid /\ c.row = k.row
      /\ c.ready = k.ready /\ c.named = k.named
  BY <1>3 DEF RunFields
<1>5. ProcOK(c)
  <2>1. c.pc \in {"wait", "gone", "reply"} /\ (c.pc = "reply" => ReplyOK(c))
    BY <1>4
  <2>2. k.pc # "idle"
    BY <1>1
  <2>3. /\ DOMAIN c = RunFields /\ c.op = k.op /\ c.token = k.token
        /\ c.saved = k.saved /\ c.ctx = k.ctx /\ c.sid = k.sid /\ c.row = k.row
        /\ c.ready = k.ready /\ c.named = k.named
    BY <1>4
  <2>4. ProcOK(k)
    BY <1>3
  <2> QED BY <2>1, <2>2, <2>3, <2>4, ProcKeeps, ZenonT(60)
<1>6. ProcsOK'
  BY <1>1, <1>2, <1>5, ProcGrows, OneProc, ProcIdles
<1>7. ApprovalFileOK' /\ FileOK' /\ SessionsOK' /\ WalletOK'
  BY <1>1, <1>2, ApprovalSame, FileStays, SessionsStay, WalletStays
<1> QED BY <1>2, <1>6, <1>7 DEF IInv, Grown

LEMMA ExecuteOK ==
  ASSUME IInv, NEW h \in handoffs, Execute(h)
  PROVE  IInv'
<1> PICK done : done = [sid |-> h.sid, step |-> h.step, spend |-> h.spend, out |-> h.receive,
                        told |-> h.told]
  OBVIOUS
<1>1. /\ chain' = chain \union {done}
      /\ UNCHANGED <<now, quote, approval, file, proc, sessions, handoffs, tokens>>
  BY DEF Execute
<1>2. Grown
  BY <1>1, FileSame, SessionsSame, SessionAssumption DEF Grown, IInv, BoundsOK
<1>3. Within(done.sid, done.step, done.spend, done.out, done.told)'
  BY <1>2, WithinGrows DEF IInv, WalletOK, HandoffOK
<1>4. WalletOK'
  <2>1. \A row \in chain' : Within(row.sid, row.step, row.spend, row.out, row.told)'
    BY <1>1, <1>2, <1>3, WithinGrows DEF IInv, WalletOK
  <2>2. \A g \in handoffs' : HandoffOK(g)'
    BY <1>1, <1>2, HandoffGrows DEF IInv, WalletOK
  <2> QED BY <2>1, <2>2 DEF WalletOK
<1>5. ApprovalFileOK' /\ FileOK' /\ ProcsOK' /\ SessionsOK'
  BY <1>1, <1>2, ApprovalSame, FileStays, ProcsSame, SessionsStay
<1> QED BY <1>2, <1>4, <1>5 DEF IInv, Grown

LEMMA TickOK ==
  ASSUME IInv, Tick
  PROVE  IInv'
<1>1. /\ now < MaxTime /\ now' = now + 1
      /\ proc' = [p \in Procs |-> IF proc[p].pc = "idle" THEN Idle
                                  ELSE [proc[p] EXCEPT !.late = TRUE]]
      /\ handoffs' \subseteq handoffs
      /\ UNCHANGED <<quote, approval, file, sessions, chain, tokens>>
  BY DEF Tick
<1>2. BoundsOK' /\ now <= now'
  BY <1>1, SessionAssumption DEF IInv, BoundsOK
<1>3. Grown
  BY <1>1, <1>2, FileSame, SessionsSame, SessionAssumption DEF Grown, IInv, BoundsOK
<1>4. ASSUME NEW p \in Procs
      PROVE  ProcOK(proc[p])'
  <2> PICK k : k = proc[p]
    OBVIOUS
  <2> PICK c : c = [k EXCEPT !.late = TRUE]
    OBVIOUS
  <2>1. ProcOK(k)
    BY DEF IInv, ProcsOK
  <2>2. CASE k.pc = "idle"
    <3>1. proc'[p] = Idle
      BY <1>1, <2>2
    <3> QED BY <3>1, IdleOK DEF Idle
  <2>3. CASE k.pc # "idle"
    <3>1. proc'[p] = c
      BY <1>1, <2>3
    <3>2. DOMAIN k = RunFields /\ k.pc \in {"wait", "gone", "reply"}
      BY <2>1, <2>3 DEF ProcOK
    <3>3. /\ DOMAIN c = RunFields /\ c.pc = k.pc /\ c.op = k.op /\ c.token = k.token
          /\ c.saved = k.saved /\ c.ctx = k.ctx /\ c.sid = k.sid /\ c.row = k.row
          /\ c.ready = k.ready /\ c.named = k.named /\ c.reply = k.reply
      BY <3>2 DEF RunFields
    <3>4. c.pc = "reply" => ReplyOK(c)
      BY <2>1, <2>3, <3>3 DEF ProcOK, ReplyOK
    <3>5. ProcOK(c)
      BY <2>1, <2>3, <3>2, <3>3, <3>4, ProcKeeps
    <3> QED BY <1>3, <3>1, <3>5, ProcGrows
  <2> QED BY <2>2, <2>3
<1>5. ProcsOK'
  BY <1>1, <1>4 DEF ProcsOK
<1>6. ApprovalFileOK' /\ FileOK' /\ SessionsOK' /\ WalletOK'
  BY <1>1, <1>3, ApprovalSame, FileStays, SessionsStay, WalletStays
<1> QED BY <1>2, <1>5, <1>6 DEF IInv

(*------------------------------- the service -------------------------------*)
\* The action of a session spends its input; an answer tells the session and may hold it.
LEMMA AnswerOK ==
  ASSUME IInv, Planned, NEW id, NEW s, s.step \in 0 .. Steps - 1, s.input \in Int,
         s.step > 0 => Funded(id, s.step, s.input), NEW a \in Answers(id, s)
  PROVE  a.sid = id /\ (a.bundle # None => BundleOK(id, a.bundle))
<1> PICK b : b = BundleOf(s)
  OBVIOUS
<1>1. a.sid = id /\ (a.bundle # None => a.bundle = b)
  BY DEF Answers
<1>2. /\ DOMAIN b = Bundle /\ b.step = s.step /\ b.path = Path /\ b.legacy = FALSE
      /\ b.spend = s.input /\ b.receive = Summary[s.step + 1].minOut /\ b.prev.out = s.input
  BY DEF BundleOf, Bundle
<1>3. Summary[s.step + 1].minOut \in Int
  <2>1. Steps \in Nat /\ \A i \in 1 .. Steps : Amounts(Summary[i]) \subseteq Int
    BY PlannedAmounts DEF IInv, BoundsOK
  <2>2. Amounts(Summary[s.step + 1]) \subseteq Int
    BY <2>1
  <2> QED BY <2>2 DEF Amounts
<1>4. BundleOK(id, b)
  BY <1>2, <1>3 DEF BundleOK
<1> QED BY <1>1, <1>4

\* Whom the answer reaches knows its session.
LEMMA ReplyIsOK ==
  ASSUME IInv, Grown, NEW p \in Procs, proc[p].pc \in {"wait", "gone"}, chain' = chain,
         NEW id, NEW s, Reply(p, id, s), id \in 0 .. Len(sessions'),
         s.step \in 0 .. Steps - 1, s.input \in Int, s.step > 0 => Funded(id, s.step, s.input),
         NEW k, k = proc[p], k.op # "prepare" => SessionFor(id, k.token, k.ctx)',
         k.op = "prepare" => id = 0, k.op \in Driving => id = k.sid
  PROVE  ProcsOK'
<1>1. CASE proc' = [proc EXCEPT ![p] = Idle]
  BY <1>1, ProcIdles
<1>2. CASE /\ k.pc = "wait"
           /\ \E a \in Answers(id, s) : proc' = [proc EXCEPT ![p].pc = "reply", ![p].reply = a]
  <2>1. PICK a \in Answers(id, s) : proc' = [proc EXCEPT ![p].pc = "reply", ![p].reply = a]
    BY <1>2
  <2> PICK c : c = [k EXCEPT !.pc = "reply", !.reply = a]
    OBVIOUS
  <2>2. proc' = [proc EXCEPT ![p] = c]
    BY <2>1
  <2>3. ProcOK(k) /\ ProcOK(k)' /\ Planned /\ DOMAIN k = RunFields
    BY <1>2, ProcGrows DEF IInv, ProcsOK, ProcOK
  <2>4. a.sid = id /\ (a.bundle # None => BundleOK(id, a.bundle)')
    BY <2>3, AnswerOK, BundleGrows
  <2>5. /\ DOMAIN c = RunFields /\ c.pc = "reply" /\ c.op = k.op /\ c.token = k.token
        /\ c.saved = k.saved /\ c.ctx = k.ctx /\ c.sid = k.sid /\ c.row = k.row
        /\ c.ready = k.ready /\ c.named = k.named /\ c.reply = a
    BY <2>3 DEF RunFields
  <2>6. ReplyOK(c)'
    BY <2>4, <2>5 DEF ReplyOK
  <2>7. ProcOK(c)'
    <3>1. /\ Planned' /\ k.ctx \in Contexts' /\ k.token \in 1 .. tokens'
          /\ k.saved \in BOOLEAN /\ (k.saved => InFile(k.token, k.ctx)')
          /\ ~k.saved /\ file' # None => file'.token # k.token
          /\ k.op \in Creating \union Driving
      BY <1>2, <2>3 DEF ProcOK
    <3>2. /\ k.op \in Creating => ~k.ready /\ k.sid = 0
          /\ k.op \in Driving => k.saved /\ k.sid \in DOMAIN sessions'
                                 /\ (k.sid = file'.sid \/ k.named)
          /\ k.op \in Observing => k.row \in chain' /\ k.row.sid = k.sid
      BY <1>2, <2>3 DEF ProcOK
    <3> QED BY <2>5, <2>6, <3>1, <3>2 DEF ProcOK
  <2> QED BY <2>2, <2>7, OneProc
<1> QED BY <1>1, <1>2 DEF Reply

\* A request to a session leaves whose it is, and moves it on by what the wallet got.
LEMMA AdvanceOK ==
  ASSUME IInv, NEW p \in Procs, NEW k, k = proc[p], k.pc \in {"wait", "gone"},
         k.op \in Driving, NEW old, old = sessions[k.sid], k.sid \in DOMAIN sessions,
         NEW s, s = Advance(old, k)
  PROVE  /\ SessionOK(k.sid, s) /\ s \in SessionRec
         /\ s.token = old.token /\ s.approval = old.approval /\ s.wallets = old.wallets
         /\ s.saved = old.saved
<1>1. SessionOK(k.sid, old) /\ old \in SessionRec
  BY DEF IInv, SessionsOK
<1>2. now \in 0 .. now /\ now \in Nat
  BY SessionAssumption DEF IInv, BoundsOK
<1>3. Planned /\ Steps \in Nat \ {0}
  BY <1>1, PlannedAmounts DEF SessionOK, IInv, BoundsOK
<1>4. CASE s = old
  BY <1>1, <1>4
<1>5. CASE s = [old EXCEPT !.stage = "sent"] \/ s = [old EXCEPT !.stage = "done"]
  <2>1. /\ s \in SessionRec /\ s.token = old.token /\ s.approval = old.approval
        /\ s.wallets = old.wallets /\ s.saved = old.saved /\ s.step = old.step
        /\ s.input = old.input /\ s.prepared = old.prepared
    BY <1>1, <1>5 DEF SessionRec
  <2> QED BY <1>1, <2>1 DEF SessionOK
<1>6. CASE s = [old EXCEPT !.prepared = now]
  <2>1. /\ s \in SessionRec /\ s.token = old.token /\ s.approval = old.approval
        /\ s.wallets = old.wallets /\ s.saved = old.saved /\ s.step = old.step
        /\ s.input = old.input /\ s.prepared = now
    BY <1>1, <1>2, <1>6 DEF SessionRec
  <2> QED BY <1>1, <1>2, <2>1 DEF SessionOK
<1>7. CASE /\ k.op = "observe-output" /\ k.row.step = old.step /\ old.step + 1 # Steps
           /\ s = [old EXCEPT !.stage = "ready", !.step = @ + 1, !.input = k.row.out,
                              !.prepared = now]
  <2>1. k.row \in chain /\ k.row.sid = k.sid
    BY <1>7 DEF IInv, ProcsOK, ProcOK, Observing
  <2>2. k.row.out \in Int
    BY <2>1 DEF IInv, WalletOK, Within
  <2>3. /\ s \in SessionRec /\ s.token = old.token /\ s.approval = old.approval
        /\ s.wallets = old.wallets /\ s.saved = old.saved /\ s.step = old.step + 1
        /\ s.input = k.row.out /\ s.prepared = now
    <3>1. s = [token |-> old.token, approval |-> old.approval, wallets |-> old.wallets,
               saved |-> old.saved, step |-> old.step + 1, input |-> k.row.out,
               prepared |-> now, stage |-> "ready"]
      BY <1>1, <1>7 DEF SessionRec
    <3>2. old.step + 1 \in Nat
      BY <1>1 DEF SessionRec
    <3> QED BY <1>1, <1>2, <2>2, <3>1, <3>2 DEF SessionRec
  <2>4. s.step \in 1 .. Steps - 1 /\ s.step - 1 = k.row.step
    BY <1>1, <1>3, <1>7, <2>3 DEF SessionOK
  <2>5. Funded(k.sid, s.step, s.input)
    BY <2>1, <2>3, <2>4 DEF Funded
  <2> QED BY <1>1, <1>2, <2>3, <2>4, <2>5 DEF SessionOK
<1>8. /\ AfterSource(old, k.row.step) \in {old, [old EXCEPT !.stage = "sent"]}
      /\ AfterRefresh(old) \in {old, [old EXCEPT !.prepared = now]}
  BY DEF AfterSource, AfterRefresh
<1>9. \/ AfterOutput(old, k.row) \in {old, [old EXCEPT !.stage = "done"]}
      \/ /\ k.row.step = old.step /\ old.step + 1 # Steps
         /\ AfterOutput(old, k.row) =
              [old EXCEPT !.stage = "ready", !.step = @ + 1, !.input = k.row.out, !.prepared = now]
  BY DEF AfterOutput
<1>10. \/ k.op = "observe-output" /\ s = AfterOutput(old, k.row)
       \/ s \in {old, AfterSource(old, k.row.step), AfterRefresh(old)}
  BY DEF Advance, Driving, Observing
<1> QED BY <1>4, <1>5, <1>6, <1>7, <1>8, <1>9, <1>10

Served(p) ==
  /\ proc[p].pc \in {"wait", "gone"}
  /\ UNCHANGED <<now, quote, approval, file, handoffs, chain, tokens>>

LEMMA ServedGrows ==
  ASSUME IInv, NEW p \in Procs, Served(p), SessionsKept
  PROVE  Grown
BY FileSame, SessionAssumption DEF Served, Grown, IInv, BoundsOK

LEMMA NewSessionOK ==
  ASSUME IInv, NEW k, ProcOK(k), k.pc # "idle", k.op \in Creating, NEW s, s = NewSession(k), NEW i
  PROVE  /\ SessionOK(i, s) /\ s \in SessionRec
         /\ s.token = k.token /\ s.approval = k.ctx.approval /\ s.wallets = k.ctx.wallets
<1>1. /\ Planned /\ k.ctx \in Contexts /\ k.token \in 1 .. tokens /\ k.saved \in BOOLEAN
      /\ k.saved => InFile(k.token, k.ctx)
  BY DEF ProcOK
<1>2. now \in 0 .. now /\ now \in Nat /\ tokens \in Nat /\ quote \in Quotes
  BY SessionAssumption DEF IInv, BoundsOK
<1>3. Steps \in Nat \ {0} /\ First(Summary).expIn \in Int
  BY <1>1, <1>2, PlannedAmounts
<1>4. /\ k.ctx.approval \in Approvals /\ k.ctx.approval.maxIn = First(Summary).expIn
      /\ k.ctx.wallets \in WalletMaps
  BY <1>1, ContextIsApproved
<1>5. /\ s.token = k.token /\ s.approval = k.ctx.approval /\ s.wallets = k.ctx.wallets
      /\ s.saved = k.saved /\ s.step = 0 /\ s.input = First(Summary).expIn /\ s.prepared = now
  BY DEF NewSession
<1>6. s \in SessionRec
  BY <1>1, <1>2, <1>3, <1>4 DEF NewSession, SessionRec
<1>7. 0 \in 0 .. Steps - 1 /\ ~(0 > 0)
  BY <1>3
<1>8. s.saved => file # None /\ file.token = s.token /\ file.ctx.approval = s.approval
                 /\ file.ctx.wallets = s.wallets
  BY <1>1, <1>5 DEF InFile
<1>9. ~s.saved /\ file # None => file.token # s.token
  BY <1>5 DEF ProcOK
<1>10. SessionOK(i, s)
  BY <1>1, <1>2, <1>4, <1>5, <1>7, <1>8, <1>9 DEF SessionOK
<1> QED BY <1>5, <1>6, <1>10

LEMMA ServeCreateOK ==
  ASSUME IInv, NEW p \in Procs, Served(p), ServeCreate(p)
  PROVE  Grown /\ SessionsOK' /\ ProcsOK'
<1> PICK k : k = proc[p]
  OBVIOUS
<1> PICK s : s = NewSession(k)
  OBVIOUS
<1>1. k.op = "create" /\ k.pc \in {"wait", "gone"} /\ ProcOK(k) /\ chain' = chain /\ quote' = quote
  BY DEF ServeCreate, Served, IInv, ProcsOK
<1>2. ASSUME NEW i \in DOMAIN sessions, sessions[i].token = k.token,
             sessions[i].approval = k.ctx.approval, sessions[i].wallets = k.ctx.wallets,
             Reply(p, i, sessions[i]), sessions' = sessions
      PROVE  Grown /\ SessionsOK' /\ ProcsOK'
  <2>1. Grown
    BY <1>2, ServedGrows, SessionsSame
  <2>2. SessionFor(i, k.token, k.ctx)'
    BY <1>2 DEF SessionFor
  <2>3. /\ SessionOK(i, sessions[i]) /\ sessions[i] \in SessionRec
        /\ i \in 0 .. Len(sessions')
    BY <1>2 DEF IInv, SessionsOK
  <2>4. /\ sessions[i].step \in 0 .. Steps - 1 /\ sessions[i].input \in Int
        /\ sessions[i].step > 0 => Funded(i, sessions[i].step, sessions[i].input)
    BY <2>3 DEF SessionOK, SessionRec
  <2>5. ProcsOK'
    BY <1>1, <1>2, <2>1, <2>2, <2>3, <2>4, ReplyIsOK DEF Driving, Observing
  <2> QED BY <1>2, <2>1, <2>5, SessionsStay
<1>3. ASSUME \A i \in DOMAIN sessions : sessions[i].approval.key # k.ctx.approval.key,
             Reply(p, Len(sessions) + 1, s), sessions' = Append(sessions, s)
      PROVE  Grown /\ SessionsOK' /\ ProcsOK'
  <2> PICK n : n = Len(sessions) + 1
    OBVIOUS
  <2>1. /\ SessionOK(n, s) /\ s \in SessionRec
        /\ s.token = k.token /\ s.approval = k.ctx.approval /\ s.wallets = k.ctx.wallets
    BY <1>1, NewSessionOK DEF Creating
  <2>2. sessions \in Seq(SessionRec) /\ Len(sessions) \in Nat /\ DOMAIN sessions = 1 .. Len(sessions)
    BY DEF IInv, SessionsOK
  <2>3. /\ sessions' \in Seq(SessionRec) /\ Len(sessions') = n /\ DOMAIN sessions' = 1 .. n
        /\ sessions'[n] = s /\ \A i \in DOMAIN sessions : sessions'[i] = sessions[i]
    BY <1>3, <2>1, <2>2
  <2>4. n \in Nat /\ n \in 1 .. n /\ n \in 0 .. n /\ Len(sessions) <= n
        /\ (\A i \in 1 .. n : i = n \/ i \in DOMAIN sessions)
        /\ \A i \in DOMAIN sessions : i \in 1 .. n
    BY <2>2
  <2>5. SessionsKept
    BY <2>2, <2>3, <2>4 DEF SessionsKept
  <2>6. Grown
    BY <2>5, ServedGrows
  <2>7. SessionFor(n, k.token, k.ctx)'
    BY <2>1, <2>3, <2>4 DEF SessionFor
  <2>8. \A i \in DOMAIN sessions' : SessionOK(i, sessions'[i])
    BY <2>1, <2>3, <2>4 DEF IInv, SessionsOK
  <2>9. \A i \in DOMAIN sessions' : SessionOK(i, sessions[i])'
    BY <2>6, <2>8, SessionGrows
  <2>10. \A i, j \in DOMAIN sessions' :
           i # j => sessions'[i].approval.key # sessions'[j].approval.key
    <3>1. ASSUME NEW i \in DOMAIN sessions', NEW j \in DOMAIN sessions', i # j
          PROVE  sessions'[i].approval.key # sessions'[j].approval.key
      <4>1. CASE i = n \/ j = n
        BY <1>3, <2>1, <2>3, <2>4, <3>1, <4>1
      <4>2. CASE i # n /\ j # n
        BY <2>3, <2>4, <3>1, <4>2 DEF IInv, SessionsOK
      <4> QED BY <4>1, <4>2
    <3> QED BY <3>1
  <2>11. SessionsOK'
    BY <2>3, <2>9, <2>10 DEF SessionsOK
  <2>12. s.step = 0 /\ s.input \in Int /\ s.step \in 0 .. Steps - 1
    BY <2>1 DEF NewSession, SessionOK, SessionRec
  <2>13. ProcsOK'
    BY <1>1, <1>3, <2>3, <2>4, <2>6, <2>7, <2>12, ReplyIsOK DEF Driving, Observing
  <2> QED BY <2>6, <2>11, <2>13
<1> QED BY <1>2, <1>3 DEF ServeCreate

LEMMA ServePrepareOK ==
  ASSUME IInv, NEW p \in Procs, Served(p), ServePrepare(p)
  PROVE  Grown /\ SessionsOK' /\ ProcsOK'
<1> PICK k : k = proc[p]
  OBVIOUS
<1> PICK s : s = NewSession(k)
  OBVIOUS
<1>1. /\ k.op = "prepare" /\ k.pc \in {"wait", "gone"} /\ ProcOK(k) /\ chain' = chain
      /\ Reply(p, 0, s) /\ sessions' = sessions
  BY DEF ServePrepare, Served, IInv, ProcsOK
<1>2. Grown /\ SessionsOK'
  BY <1>1, ServedGrows, SessionsSame, SessionsStay
<1>3. SessionOK(0, s) /\ s \in SessionRec /\ s.step = 0
  BY <1>1, NewSessionOK DEF Creating, NewSession
<1>4. s.step \in 0 .. Steps - 1 /\ s.input \in Int /\ 0 \in 0 .. Len(sessions') /\ ~(s.step > 0)
  BY <1>1, <1>3 DEF SessionOK, SessionRec, IInv, SessionsOK
<1>5. ProcsOK'
  BY <1>1, <1>2, <1>4, ReplyIsOK DEF Driving, Observing
<1> QED BY <1>2, <1>5

LEMMA ServeSessionOK ==
  ASSUME IInv, NEW p \in Procs, Served(p), ServeSession(p)
  PROVE  Grown /\ SessionsOK' /\ ProcsOK'
<1> PICK k : k = proc[p]
  OBVIOUS
<1> PICK old : old = sessions[k.sid]
  OBVIOUS
<1>1. /\ k.op \in Driving /\ k.pc \in {"wait", "gone"} /\ ProcOK(k) /\ chain' = chain
  BY DEF ServeSession, Served, IInv, ProcsOK, ProcOK, Creating
<1>2. k.sid \in DOMAIN sessions /\ old.token = k.token /\ InFile(k.token, k.ctx)
  BY <1>1 DEF ProcOK, ServeSession
<1> PICK s : s = Advance(old, k)
  OBVIOUS
<1>3. sessions' = [sessions EXCEPT ![k.sid] = s] /\ Reply(p, k.sid, s)
  BY DEF ServeSession
<1>4. /\ SessionOK(k.sid, s) /\ s \in SessionRec
      /\ s.token = old.token /\ s.approval = old.approval /\ s.wallets = old.wallets
      /\ s.saved = old.saved
  BY <1>1, <1>2, <1>3, AdvanceOK
<1>5. sessions \in Seq(SessionRec) /\ Len(sessions) \in Nat /\ DOMAIN sessions = 1 .. Len(sessions)
  BY DEF IInv, SessionsOK
<1>6. /\ sessions' \in Seq(SessionRec) /\ Len(sessions') = Len(sessions)
      /\ DOMAIN sessions' = DOMAIN sessions
      /\ \A i \in DOMAIN sessions : sessions'[i] = IF i = k.sid THEN s ELSE sessions[i]
  BY <1>2, <1>3, <1>4, <1>5
<1>7. \A i \in DOMAIN sessions :
        /\ sessions'[i].token = sessions[i].token /\ sessions'[i].approval = sessions[i].approval
        /\ sessions'[i].wallets = sessions[i].wallets /\ sessions'[i].saved = sessions[i].saved
  BY <1>4, <1>6
<1>8. Grown
  BY <1>5, <1>6, <1>7, ServedGrows DEF SessionsKept
<1>9. \A i \in DOMAIN sessions' : SessionOK(i, sessions'[i])
  BY <1>4, <1>6 DEF IInv, SessionsOK
<1>10. \A i \in DOMAIN sessions' : SessionOK(i, sessions[i])'
  BY <1>8, <1>9, SessionGrows
<1>11. SessionsOK'
  BY <1>6, <1>7, <1>10 DEF IInv, SessionsOK
<1>12. /\ k.sid \in 0 .. Len(sessions') /\ s.step \in 0 .. Steps - 1 /\ s.input \in Int
       /\ s.step > 0 => Funded(k.sid, s.step, s.input)
  <2>1. k.sid \in 0 .. Len(sessions')
    BY <1>2, <1>5, <1>6
  <2> QED BY <1>4, <2>1 DEF SessionOK, SessionRec
<1>13. SessionFor(k.sid, k.token, k.ctx)'
  \* the token is the file's, so the session is the saved one the file was written for
  <2>1. SessionOK(k.sid, old)
    BY <1>2 DEF IInv, SessionsOK
  <2>2. old.approval = k.ctx.approval /\ old.wallets = k.ctx.wallets
    BY <1>2, <2>1 DEF SessionOK, InFile
  <2>3. SessionFor(k.sid, k.token, k.ctx)
    BY <1>2, <2>2 DEF SessionFor
  <2> QED BY <1>8, <2>3, SessionForGrows
<1>14. ProcsOK'
  BY <1>1, <1>3, <1>8, <1>12, <1>13, ReplyIsOK DEF Driving, Observing
<1> QED BY <1>8, <1>11, <1>14

LEMMA HandleOK ==
  ASSUME IInv, NEW p \in Procs, Handle(p)
  PROVE  IInv'
<1>1. Served(p)
  BY DEF Handle, Served
<1>2. Grown /\ SessionsOK' /\ ProcsOK'
  BY <1>1, ServeCreateOK, ServePrepareOK, ServeSessionOK DEF Handle
<1>3. ApprovalFileOK' /\ FileOK' /\ WalletOK'
  BY <1>1, <1>2, ApprovalSame, FileStays, WalletStays DEF Served
<1> QED BY <1>2, <1>3 DEF IInv, Grown

(*------------------------------- the invariant -------------------------------*)
LEMMA Initially == Init => IInv
<1> SUFFICES ASSUME Init PROVE IInv
  OBVIOUS
<1>1. \A p \in Procs : ProcOK(proc[p])
  BY DEF Init, ProcOK, Idle
<1>2. SessionsOK
  BY DEF Init, SessionsOK
<1>3. BoundsOK /\ ApprovalFileOK /\ FileOK /\ ProcsOK /\ WalletOK
  BY <1>1, SessionAssumption DEF Init, BoundsOK, ApprovalFileOK, FileOK, ProcsOK, WalletOK
<1> QED BY <1>2, <1>3 DEF IInv

LEMMA Stuttering ==
  ASSUME IInv, UNCHANGED vars
  PROVE  IInv'
<1>1. /\ UNCHANGED <<now, quote, approval, file, proc, sessions, handoffs, chain, tokens>>
  BY DEF vars
<1>2. Grown
  BY <1>1, FileSame, SessionsSame, SessionAssumption DEF Grown, IInv, BoundsOK
<1>3. /\ ApprovalFileOK' /\ FileOK' /\ ProcsOK' /\ SessionsOK' /\ WalletOK'
  BY <1>1, <1>2, ApprovalSame, FileStays, ProcsSame, SessionsStay, WalletStays
<1> QED BY <1>2, <1>3 DEF IInv, Grown

LEMMA Inductive == IInv /\ [Next]_vars => IInv'
<1> SUFFICES ASSUME IInv, [Next]_vars PROVE IInv'
  OBVIOUS
<1>1. CASE UNCHANGED vars
  BY <1>1, Stuttering
<1>2. ASSUME NEW p \in Procs, Plan(p)
      PROVE  IInv'
  BY <1>2, PlanStartOK, PlanFinishOK DEF Plan
<1>3. ASSUME NEW p \in Procs, Handle(p) \/ Fail(p)
      PROVE  IInv'
  BY <1>3, HandleOK, FailOK
<1>4. ASSUME NEW p \in Drivers, Session(p)
      PROVE  IInv'
  BY <1>4, SessionAssumption, SessionStartOK, AskRefreshOK, SessionFinishOK DEF Session
<1>5. ASSUME NEW more \in Stricter, Select(more)
      PROVE  IInv'
  BY <1>5, SelectOK
<1>6. CASE Tick
  BY <1>6, TickOK
<1>7. ASSUME NEW h \in handoffs, Execute(h)
      PROVE  IInv'
  BY <1>7, ExecuteOK
<1> QED BY <1>1, <1>2, <1>3, <1>4, <1>5, <1>6, <1>7 DEF Next

LEMMA Always == Spec => []IInv
BY Initially, Inductive, PTL DEF Spec

(*------------------------------- the theorems -------------------------------*)
\* Every state variable stays in its range (TypeOK of the tools).
THEOREM TypeCorrect == Spec => []TypeOK
<1>1. IInv => TypeOK
  <2> SUFFICES ASSUME IInv PROVE TypeOK
    OBVIOUS
  <2>1. Len(sessions) \in Nat
    BY DEF IInv, SessionsOK
  <2>2. file # None => file.ctx \in Contexts /\ file.sid \in 0 .. Len(sessions)
    BY DEF IInv, FileOK
  <2>3. ASSUME NEW p \in Procs, proc[p].pc # "idle"
        PROVE  /\ proc[p].pc \in {"wait", "gone", "reply"}
               /\ proc[p].ctx \in Contexts /\ proc[p].sid \in 0 .. Len(sessions)
    <3>1. ProcOK(proc[p])
      BY DEF IInv, ProcsOK
    <3>2. proc[p].sid \in {0} \union DOMAIN sessions
      BY <2>3, <3>1 DEF ProcOK
    <3>3. proc[p].sid \in 0 .. Len(sessions)
      BY <2>1, <3>2 DEF IInv, SessionsOK
    <3> QED BY <2>3, <3>1, <3>3 DEF ProcOK
  <2>4. \A i \in DOMAIN sessions : sessions[i].stage \in {"ready", "sent", "done"}
                                   /\ sessions[i].step \in 0 .. Steps - 1
    <3>1. \A i \in DOMAIN sessions : SessionOK(i, sessions[i]) /\ sessions[i] \in SessionRec
      BY DEF IInv, SessionsOK
    <3> QED BY <3>1 DEF SessionOK, SessionRec
  <2>5. \A h \in handoffs : h.sid \in 0 .. Len(sessions)
    BY DEF IInv, WalletOK, HandoffOK, Within
  <2> QED BY <2>2, <2>3, <2>4, <2>5 DEF TypeOK, IInv, BoundsOK
<1> QED BY <1>1, Always, PTL

\* A session whose token went to a file can be taken up again from that file, whatever
\* answer was lost and wherever a tool ended.
THEOREM SessionsAreRecoverable == Spec => []SavedIsRecoverable
<1>1. IInv => SavedIsRecoverable
  <2> SUFFICES ASSUME IInv, NEW i \in DOMAIN sessions, Saved(i)
               PROVE  /\ file # None /\ file.token = sessions[i].token
                      /\ file.ctx.approval = sessions[i].approval
                      /\ file.ctx.wallets = sessions[i].wallets
                      /\ file.sid \in {0, i}
    BY DEF SavedIsRecoverable
  <2>1. /\ file # None /\ file.token = sessions[i].token
        /\ file.ctx.approval = sessions[i].approval
        /\ file.ctx.wallets = sessions[i].wallets
    BY DEF IInv, SessionsOK, SessionOK, Saved
  <2>2. SessionFor(i, file.token, file.ctx)
    BY <2>1 DEF SessionFor
  <2>3. file.sid # 0 => file.sid = i
    BY <2>1, <2>2, OnlySession DEF IInv, FileOK
  <2> QED BY <2>1, <2>3
<1> QED BY <1>1, Always, PTL

\* The route takes no more and ends with no less than the approval says, whatever the
\* service offers.
THEOREM RouteKeepsApproval == Spec => []ApprovedBounds
<1>1. IInv => ApprovedBounds
  BY DEF IInv, WalletOK, Within, ApprovedBounds
<1> QED BY <1>1, Always, PTL

\* A later step comes after the one before, spends at least its minimum, and spends just
\* what the one before returned whenever the service tells that as it recorded it.
THEOREM RouteCarriesOutput == Spec => []NextSpendsOutput
<1>1. IInv => NextSpendsOutput
  <2> SUFFICES ASSUME IInv, NEW row \in chain, row.step > 0
               PROVE  /\ row.spend >= Summary[row.step + 1].minIn
                      /\ \E before \in chain :
                           /\ before.sid = row.sid /\ before.step = row.step - 1
                           /\ row.told => before.out = row.spend
    BY DEF NextSpendsOutput
  <2>1. Within(row.sid, row.step, row.spend, row.out, row.told)
    BY DEF IInv, WalletOK
  <2>2. row.spend >= Summary[row.step + 1].minIn
    BY <2>1 DEF Within
  <2>3. Carried(row.sid, row.step, row.spend, row.told)
    BY <2>1 DEF Within
  <2>4. CASE row.told
    BY <2>2, <2>3, <2>4 DEF Carried, Funded
  <2>5. CASE ~row.told
    BY <2>2, <2>3, <2>5 DEF Carried, Follows
  <2> QED BY <2>4, <2>5
<1> QED BY <1>1, Always, PTL

(*------------------------- hand-offs and their lifetime -------------------------*)
LEMMA NewHandoff ==
  ASSUME IInv, NEW p \in Procs, proc[p].pc = "reply", HandOff(p), NEW h \in handoffs' \ handoffs
  PROVE  /\ now < h.expires /\ h.expires = proc[p].reply.bundle.expires
         /\ h.sid = proc[p].reply.sid
<1> DEFINE sent == proc[p].reply.bundle
<1>1. PICK b \in Received(sent) :
        /\ Accepted(b, proc[p].ctx, Summary, now)
        /\ handoffs' = handoffs \union
             {Handoff(proc[p].reply.sid, b, b.prev.out = sent.prev.out)}
  BY DEF HandOff
<1>2. DOMAIN sent = Bundle
  BY DEF HandOff, IInv, ProcsOK, ProcOK, ReplyOK, BundleOK
<1>3. b.expires = sent.expires
  BY <1>2 DEF Received, Spending, Returning, Bundle
<1>4. now < b.expires
  BY <1>1, AcceptedKeepsApproval
<1> QED BY <1>1, <1>3, <1>4 DEF Handoff

\* Only a finished tool hands anything off.
LEMMA HandoffComesFrom ==
  ASSUME IInv, Next, NEW h \in handoffs' \ handoffs
  PROVE  \E p \in Procs :
           /\ PlanFinish(p) \/ SessionFinish(p)
           /\ proc[p].pc = "reply" /\ HandOff(p) /\ proc' = [proc EXCEPT ![p] = Idle]
<1>1. ASSUME NEW p \in Procs, NEW g \in Arguments, PlanStart(p, g)
      PROVE  handoffs' = handoffs
  BY <1>1 DEF PlanStart
<1>2. ASSUME NEW p \in Procs, NEW op \in Operations, SessionStart(p, op)
      PROVE  handoffs' = handoffs
  BY <1>2 DEF SessionStart
<1>3. ASSUME NEW p \in Procs, Handle(p) \/ Fail(p) \/ AskRefresh(p)
      PROVE  handoffs' = handoffs
  BY <1>3 DEF Handle, Fail, AskRefresh
<1>4. ASSUME NEW more \in Stricter, Select(more)
      PROVE  handoffs' = handoffs
  BY <1>4 DEF Select
<1>5. ASSUME NEW g \in handoffs, Execute(g)
      PROVE  handoffs' = handoffs
  BY <1>5 DEF Execute
<1>6. Tick => handoffs' \subseteq handoffs
  BY DEF Tick
<1>7. PICK p \in Procs : PlanFinish(p) \/ SessionFinish(p)
  BY <1>1, <1>2, <1>3, <1>4, <1>5, <1>6, SessionAssumption DEF Next, Plan, Session
<1>8. proc[p].pc = "reply" /\ HandOff(p) /\ proc' = [proc EXCEPT ![p] = Idle]
  BY <1>7 DEF PlanFinish, SessionFinish, Answered
<1> QED BY <1>7, <1>8

\* The id of a saved session is on record before any of its actions reaches the wallet: in
\* the file, or with the caller who named it.
THEOREM FileIsBoundFirst == Spec => BoundBeforeHandoff
<1> DEFINE Bound == \A h \in handoffs' \ handoffs : h.sid # 0 /\ sessions'[h.sid].saved =>
              \/ file' # None /\ file'.sid = h.sid
              \/ \E p \in Procs : /\ proc[p].pc = "reply" /\ proc[p].named
                                  /\ proc[p].sid = h.sid /\ proc'[p] # proc[p]
<1>1. IInv /\ [Next]_vars => [Bound]_vars
  <2> SUFFICES ASSUME IInv, Next, NEW h \in handoffs' \ handoffs,
                      h.sid # 0, sessions'[h.sid].saved
               PROVE  \/ file' # None /\ file'.sid = h.sid
                      \/ \E p \in Procs : /\ proc[p].pc = "reply" /\ proc[p].named
                                          /\ proc[p].sid = h.sid /\ proc'[p] # proc[p]
    OBVIOUS
  <2>1. PICK p \in Procs :
          /\ PlanFinish(p) \/ SessionFinish(p)
          /\ proc[p].pc = "reply" /\ HandOff(p) /\ proc' = [proc EXCEPT ![p] = Idle]
    BY HandoffComesFrom
  <2>2. h.sid = proc[p].reply.sid
    BY <2>1, NewHandoff
  <2>3. CASE PlanFinish(p)
    <3>1. Saved(h.sid)
      BY <2>3 DEF PlanFinish, Saved
    <3> QED BY <2>2, <2>3, <3>1, PlanBinds
  <2>4. CASE SessionFinish(p)
    <3>1. proc[p].op \notin Creating /\ file' = file /\ ProcOK(proc[p])
      BY <2>4 DEF SessionFinish, Answered, Creating, IInv, ProcsOK
    <3>2. proc[p].sid = h.sid /\ file # None /\ (proc[p].sid = file.sid \/ proc[p].named)
      BY <2>1, <2>2, <3>1 DEF ProcOK, ReplyOK, InFile
    <3>3. proc'[p] = Idle /\ proc[p] # Idle
      BY <2>1 DEF IInv, ProcsOK, Idle
    <3> QED BY <2>1, <3>1, <3>2, <3>3
  <2> QED BY <2>1, <2>3, <2>4
<1> QED BY <1>1, Always, PTL DEF Spec, BoundBeforeHandoff

\* An action is handed to the wallet while it is live, and by wallet-ready with the minimum
\* still to run, however long its requests took.
THEOREM HandoffsAreFresh == Spec => FreshWhenHandedOff
<1> DEFINE Fresh == \A h \in handoffs' \ handoffs :
              /\ now < h.expires
              /\ \A p \in Procs : proc[p] # proc'[p] /\ proc[p].pc = "reply" /\ proc[p].ready
                                    => h.expires - now >= ReadyMin
<1>1. IInv /\ [Next]_vars => [Fresh]_vars
  <2> SUFFICES ASSUME IInv, Next, NEW h \in handoffs' \ handoffs
               PROVE  /\ now < h.expires
                      /\ \A p \in Procs : proc[p] # proc'[p] /\ proc[p].pc = "reply"
                                          /\ proc[p].ready => h.expires - now >= ReadyMin
    OBVIOUS
  <2>1. PICK p \in Procs :
          /\ PlanFinish(p) \/ SessionFinish(p)
          /\ proc[p].pc = "reply" /\ HandOff(p) /\ proc' = [proc EXCEPT ![p] = Idle]
    BY HandoffComesFrom
  <2>2. now < h.expires /\ h.expires = proc[p].reply.bundle.expires
    BY <2>1, NewHandoff
  <2>3. proc[p].ready => h.expires - now >= ReadyMin
    <3>1. CASE PlanFinish(p)
      BY <3>1 DEF PlanFinish, IInv, ProcsOK, ProcOK, Creating
    <3>2. CASE SessionFinish(p)
      BY <2>2, <3>2 DEF SessionFinish
    <3> QED BY <2>1, <3>1, <3>2
  <2>4. \A q \in Procs : proc[q] # proc'[q] => q = p
    BY <2>1 DEF IInv, ProcsOK
  <2> QED BY <2>2, <2>3, <2>4
<1> QED BY <1>1, Always, PTL DEF Spec, FreshWhenHandedOff

(*-------------------------- the action of an honest service --------------------------*)
\* The routes the service quotes: their steps join, and the addresses of their endpoints
\* are known to this package.
RoutesJoin ==
  \A q \in Quotes : \A i \in DOMAIN q.steps :
    /\ Pinned(q.steps[i].from) /\ Pinned(q.steps[i].to)
    /\ i > 1 => q.steps[i].from = q.steps[i - 1].to

\* The selected path, as verifyPlanBundle looks at it.
LEMMA PathJoins ==
  ASSUME quote \in Quotes, Planned, RoutesJoin
  PROVE  /\ Topology(Path, Intent.from, Intent.to) /\ Len(Path) = Steps
         /\ \A i \in 1 .. Steps : /\ Path[i] = LegOf(Summary[i])
                                  /\ Pinned(Path[i].from) /\ Pinned(Path[i].to)
<1>1. Steps \in Nat \ {0} /\ DOMAIN Summary = 1 .. Steps /\ Summary = quote.steps
  BY PlannedAmounts DEF Summary
<1>2. Len(Path) = Steps /\ \A i \in 1 .. Steps : Path[i] = LegOf(Summary[i])
  BY <1>1 DEF Path
<1>3. \A i \in 1 .. Steps : Path[i].from = Summary[i].from /\ Path[i].to = Summary[i].to
  BY <1>2 DEF LegOf
<1>4. \A i \in 2 .. Steps : Path[i].from = Path[i - 1].to
  <2> SUFFICES ASSUME NEW i \in 2 .. Steps PROVE Path[i].from = Path[i - 1].to
    OBVIOUS
  <2>1. i \in 1 .. Steps /\ i - 1 \in 1 .. Steps /\ i > 1
    BY <1>1
  <2>2. Summary[i].from = Summary[i - 1].to
    BY <1>1, <2>1 DEF RoutesJoin
  <2> QED BY <1>3, <2>1, <2>2
<1>5. First(Path).from = Intent.from /\ Final(Path).to = Intent.to
  BY <1>1, <1>2, <1>3 DEF First, Final, Intent, IntentOf
<1>6. \A i \in 1 .. Steps : Pinned(Path[i].from) /\ Pinned(Path[i].to)
  BY <1>1, <1>3 DEF RoutesJoin
<1>7. Len(Path) = Steps /\ Len(Path) > 0
  BY <1>1, <1>2
<1>8. Topology(Path, Intent.from, Intent.to)
  BY <1>4, <1>5, <1>7 DEF Topology
<1>9. \A i \in 1 .. Steps : Path[i] = LegOf(Summary[i])
  BY <1>2
<1> QED BY <1>6, <1>7, <1>8, <1>9

\* A step spends at least its minimum: the first the quote's amount, a later one what the
\* step before it returned, by the summary's chain of minima.
LEMMA InputSuffices ==
  ASSUME IInv, NEW i \in DOMAIN sessions, NEW s, s = sessions[i]
  PROVE  /\ s.step \in 0 .. Steps - 1 /\ s.input \in Int /\ s.input > 0
         /\ s.step = 0 => s.input <= Summary[s.step + 1].expIn /\ s.input <= s.approval.maxIn
         /\ s.step > 0 => s.input >= Summary[s.step + 1].minIn
         /\ Summary[s.step + 1].minOut > 0
<1>1. SessionOK(i, s) /\ s \in SessionRec
  BY DEF IInv, SessionsOK
<1>2. /\ Planned /\ s.step \in 0 .. Steps - 1 /\ s.input \in Int
      /\ s.approval.maxIn = First(Summary).expIn
      /\ s.step = 0 => s.input = First(Summary).expIn
      /\ s.step > 0 => Funded(i, s.step, s.input)
  BY <1>1 DEF SessionOK, SessionRec
<1>3. /\ Steps \in Nat \ {0} /\ Steps = Len(Summary) /\ SummaryValid(Summary, quote.plan)
      /\ \A j \in 1 .. Steps : Amounts(Summary[j]) \subseteq Int
  BY <1>2, PlannedAmounts DEF IInv, BoundsOK, Planned, Steps
<1>4. s.step + 1 \in 1 .. Steps
  BY <1>2, <1>3
<1>5. \A a \in Amounts(Summary[s.step + 1]) : a > 0 /\ a \in Int
  BY <1>3, <1>4 DEF SummaryValid
<1>6. /\ Summary[s.step + 1].minOut > 0 /\ Summary[s.step + 1].minIn > 0
      /\ Summary[s.step + 1].expIn > 0 /\ Summary[s.step + 1].minIn \in Int
      /\ Summary[s.step + 1].expIn \in Int
  BY <1>5 DEF Amounts
<1>7. CASE s.step = 0
  BY <1>2, <1>6, <1>7 DEF First
<1>8. CASE s.step > 0
  <2>1. Summary[s.step + 1].minIn = Summary[s.step].minOut
    <3>1. s.step + 1 > 1 /\ (s.step + 1) - 1 = s.step
      BY <1>2, <1>3, <1>8
    <3> QED BY <1>3, <1>4, <3>1 DEF SummaryValid
  <2>2. PICK before \in chain : before.step = s.step - 1 /\ before.out = s.input
    BY <1>2, <1>8 DEF Funded
  <2>3. before.out >= Summary[before.step + 1].minOut /\ before.step + 1 = s.step
    BY <1>2, <1>3, <2>2 DEF IInv, WalletOK, Within
  <2>4. s.input >= Summary[s.step + 1].minIn
    BY <2>1, <2>2, <2>3
  <2> QED BY <1>2, <1>6, <1>8, <2>4
<1> QED BY <1>2, <1>3, <1>7, <1>8

\* A caller who approved the quote's own bounds is never stranded half way: the action of a
\* service that returns the quoted minimum passes both checks at every step, for every quote
\* whose steps join.
THEOREM HonestServiceIsAccepted ==
  ASSUME RoutesJoin
  PROVE  Spec => []HonestIsAccepted
<1>1. IInv => HonestIsAccepted
  <2> SUFFICES ASSUME IInv, NEW i \in DOMAIN sessions, NEW s, s = sessions[i],
                      ~ActionExpired(s), s.approval.minOut = Final(Summary).minOut,
                      NEW ctx, ctx = [intent |-> Intent, wallets |-> s.wallets,
                                      approval |-> s.approval]
               PROVE  Accepted(BundleOf(s), ctx, Summary, now)
    BY DEF HonestIsAccepted
  <2> PICK b : b = BundleOf(s)
    OBVIOUS
  <2>1. /\ b.bound = TRUE /\ b.step = s.step /\ b.spend = s.input
        /\ b.receive = Summary[s.step + 1].minOut
        /\ b.input = b.spend /\ b.least = b.receive
        /\ b.prev.status = "receipt_verified" /\ b.prev.out = s.input
        /\ b.path = Path /\ b.wallets = s.wallets /\ b.prepared = s.prepared
        /\ b.expires = s.prepared + ActionTtl /\ b.legacy = FALSE
    BY DEF BundleOf
  <2>2. ctx.intent = Intent /\ ctx.wallets = s.wallets /\ ctx.approval = s.approval
    OBVIOUS
  <2>3. SessionOK(i, s) /\ Planned /\ quote \in Quotes
    BY DEF IInv, SessionsOK, SessionOK, BoundsOK
  <2>4. /\ Steps \in Nat \ {0} /\ Len(Summary) = Steps
        /\ s.step \in 0 .. Steps - 1 /\ s.step + 1 \in 1 .. Steps
    BY <2>3, PlannedAmounts DEF SessionOK, Steps
  <2>5. /\ Topology(Path, Intent.from, Intent.to) /\ Len(Path) = Steps
        /\ \A j \in 1 .. Steps : /\ Path[j] = LegOf(Summary[j])
                                 /\ Pinned(Path[j].from) /\ Pinned(Path[j].to)
    BY <2>3, PathJoins
  <2>6. /\ s.input > 0
        /\ s.step = 0 => s.input <= Summary[s.step + 1].expIn /\ s.input <= s.approval.maxIn
        /\ s.step > 0 => s.input >= Summary[s.step + 1].minIn
        /\ Summary[s.step + 1].minOut > 0
    BY InputSuffices
  <2>7. Summary[s.step + 1].minOut \in Int
    <3>1. Amounts(Summary[s.step + 1]) \subseteq Int
      BY <2>3, <2>4, PlannedAmounts
    <3> QED BY <3>1 DEF Amounts
  <2>8. BundleFresh(b, now)
    <3>1. /\ s.prepared \in 0 .. now /\ now \in Nat /\ ActionTtl \in 1 .. MaxTtl
          /\ MaxTtl \in Nat /\ Skew \in Nat /\ ~(s.prepared + ActionTtl <= now)
      BY <2>3, SessionAssumption, RulesAssumption DEF SessionOK, IInv, BoundsOK, ActionExpired
    <3> QED BY <2>1, <3>1 DEF BundleFresh
  <2>9. Continuous(b)
    BY <2>1 DEF Continuous
  <2>10. BundleVerified(b, ctx.intent, ctx.wallets, now)
    BY <2>1, <2>2, <2>4, <2>5, <2>6, <2>7, <2>8, <2>9 DEF BundleVerified
  <2>11. BoundsVerified(b, Summary, ctx.approval)
    <3>1. LegacyReceive(b, Summary) = FALSE
      BY <2>1 DEF LegacyReceive
    <3>2. b.step = Len(Summary) - 1 => b.receive >= s.approval.minOut
      <4>1. s.step = Steps - 1 => Summary[s.step + 1] = Final(Summary)
        BY <2>4 DEF Final
      <4> QED BY <2>1, <2>4, <2>7, <4>1
    <3> QED BY <2>1, <2>2, <2>4, <2>5, <2>6, <2>7, <2>9, <3>1, <3>2 DEF BoundsVerified
  <2> QED BY <2>10, <2>11 DEF Accepted
<1> QED BY <1>1, Always, PTL
=============================================================================
