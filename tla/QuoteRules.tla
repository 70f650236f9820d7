----------------------------- MODULE QuoteRules -----------------------------
(***************************************************************************)
(* What this package accepts: routes, quotes, approvals and unsigned       *)
(* actions.  The rules are pure; the command line tools (CallerSession)    *)
(* and the remote adapters (RemoteAdapter) apply them.  A hash that binds  *)
(* two documents is modelled by the equality it enforces, an amount by an  *)
(* integer, an endpoint "chain:token" by a record.                         *)
(***************************************************************************)
EXTENDS Integers, Sequences, FiniteSets

CONSTANTS
  MaxTtl,   \* longest lifetime of an unsigned action, MAX_ACTION_TTL_MS
  Skew,     \* clock difference tolerated, ACTION_CLOCK_SKEW_MS
  PlanMin   \* a quote must live longer than this to be planned

ASSUME RulesAssumption == MaxTtl \in Nat \ {0} /\ Skew \in Nat /\ PlanMin \in Nat

(*------------------------------- routes --------------------------------*)
At(c, t) == [chain |-> c, token |-> t]

NoForwardChains  == {"polygon", "optimism"}
ExpansionChains  == {"ethereum", "hyperevm"}
CandidateChains  == {"xlayer", "sei", "sonic", "monad", "avalanche", "cronos",
                     "injective", "linea", "aptos"}
SolanaOnlyChains == {"unichain", "ink"}
SourceOnlyChains == NoForwardChains \union ExpansionChains
                      \union CandidateChains \union SolanaOnlyChains

CoreEndpoints ==
  {At("solana", t) : t \in {"SOL", "USDC", "USDG"}} \union
  {At(c, t) : c \in {"base", "arbitrum"}, t \in {"ETH", "USDC"}} \union
  {At("robinhood", t) : t \in {"ETH", "USDG"}}

Endpoints == CoreEndpoints \union {At(c, "USDC") : c \in SourceOnlyChains}

\* Where the gate lets a source-only chain's USDC go.
Corridor(c) ==
  {At(d, "USDC") : d \in CASE c \in NoForwardChains -> {"base", "arbitrum"}
                           [] c \in ExpansionChains \union CandidateChains
                                -> {"base", "solana"}
                           [] c \in SolanaOnlyChains -> {"solana"}}

\* The gate in front of every prepare and session creation.
Executable(src, dst) ==
  /\ src \in Endpoints /\ dst \in Endpoints /\ src # dst
  /\ src.chain \in SourceOnlyChains => dst \in Corridor(src.chain)

\* Chains for which plan.mjs pins addresses; native coins need no pin.
PinnedChains == {"base", "arbitrum", "robinhood", "solana"} \union
                (SourceOnlyChains \ SolanaOnlyChains)
Pinned(e)    == e.token \in {"ETH", "SOL"} \/ e.chain \in PinnedChains

\* Chains a --wallet argument of assetfare-plan may name.
PlanChains == PinnedChains

(*------------------------ direct route summaries -----------------------*)
SwapProviders == {"raydium_clmm", "orca_whirlpool", "uniswap_v3"}

First(s) == s[1]
Final(s) == s[Len(s)]

\* A step of the contract's plan: provider, endpoints, fee and guard (0: none).
Leg(p, from, to, fee, guard) ==
  [provider |-> p, from |-> from, to |-> to, fee |-> fee, guard |-> guard]
LegOf(st) == [f \in {"provider", "from", "to", "fee", "guard"} |-> st[f]]

\* An old one-step quote of a route that now ends in a receive step.
LegacySourceOnly(plan, n) ==
  /\ Len(plan) = 2 /\ plan[2].provider = "circle_cctp_receive" /\ n = 1
PlanFor(plan, n) == IF LegacySourceOnly(plan, n) THEN <<plan[1]>> ELSE plan

\* The least output a cumulative guard of bps allows, rounded up.
CeilGuardFloor(out, bps) == (out * (10000 - bps) + 9999) \div 10000

Guards(s) == [i \in 1 .. Len(s) |-> s[i].guard]
GuardSum(guards, i) ==
  LET g[k \in 0 .. Len(guards)] == IF k = 0 THEN 0 ELSE g[k - 1] + guards[k] IN g[i]
GuardUpTo(s, i) == GuardSum(Guards(s), i)

Amounts(st) == {st.expIn, st.minIn, st.expOut, st.minOut}

SummaryUnchained(s, plan) ==   \* mutant: minima need not follow from one another
  /\ Len(s) = Len(PlanFor(plan, Len(s))) /\ Len(s) > 0
  /\ \A i \in 1 .. Len(s) : LegOf(s[i]) = plan[i] /\ s[i].minOut <= s[i].expOut
                             /\ i > 1 => s[i].expIn = s[i - 1].expOut
SummaryValid(s, plan) ==
  /\ Len(s) = Len(PlanFor(plan, Len(s))) /\ Len(s) > 0
  /\ \A i \in 1 .. Len(s) :
       /\ LegOf(s[i]) = plan[i]
       /\ \A a \in Amounts(s[i]) : a > 0
       /\ s[i].minOut <= s[i].expOut
       /\ i > 1 => s[i].expIn = s[i - 1].expOut /\ s[i].minIn = s[i - 1].minOut
       /\ s[i].guard > 0 =>
            s[i].minOut >= CeilGuardFloor(s[i].expOut, GuardUpTo(s, i))
  /\ First(s).minIn = First(s).expIn
  /\ (\E i \in 1 .. Len(s) : s[i].guard > 0) =>
       Final(s).minOut >= CeilGuardFloor(Final(s).expOut, GuardUpTo(s, Len(s)))
  /\ Cardinality({i \in 1 .. Len(s) : s[i].fee = 1}) = 1

(*----------------------- continuations, approvals ----------------------*)
RequiredChains(s) == UNION {{s[i].from.chain, s[i].to.chain} : i \in 1 .. Len(s)}

EventSignerRequired(s) ==
  \E i \in 1 .. Len(s) : s[i].provider = "circle_cctp" /\ s[i].from.chain = "solana"

AllowedModes(s) == IF Len(s) > 1 THEN {"session"} ELSE {"one_shot", "session"}

\* The continuation document a quote must carry: everything in it follows from
\* the quote it fingerprints.
Continuation(q) ==
  [quote |-> q.id, summary |-> q.steps, issued |-> q.issued, expires |-> q.expires,
   maxIn |-> First(q.steps).expIn, minOut |-> Final(q.steps).minOut,
   modes |-> AllowedModes(q.steps), chains |-> RequiredChains(q.steps),
   signer |-> EventSignerRequired(q.steps)]

\* The chains a continuation may require a wallet on: the Solana-only ones are not known.
ContinuationChains == {e.chain : e \in Endpoints} \ SolanaOnlyChains

ContinuationValid(c, q, now) ==
  /\ c = Continuation(q) /\ c.chains \subseteq ContinuationChains
  /\ c.issued <= now /\ now < c.expires

\* approval_v3 against its continuation: bounds may only be stricter.  Its quote
\* stands for the quote's id, its fingerprint and its summary's hash.
ApprovalValid(a, c, mode, now) ==
  /\ a.mode = mode /\ mode \in c.modes
  /\ a.quote = c.quote
  /\ a.maxIn <= c.maxIn /\ a.minOut >= c.minOut
  /\ now < c.expires

\* --select-exact-quote-bounds: the quote's own bounds.
ExactApproval(c, mode, key) ==
  [quote |-> c.quote, mode |-> mode, maxIn |-> c.maxIn, minOut |-> c.minOut, key |-> key]

(*--------------------------- unsigned actions --------------------------*)
\* verifyPlanBundle of an action (its 0-based step is b.step) for the caller's
\* route and wallets.  b.bound stands for the hashes and the decoded payload; input and
\* least are what the workflow says the step takes and returns.
BundleFresh(b, now) ==
  /\ now < b.expires /\ b.expires <= now + MaxTtl + Skew
  /\ now - MaxTtl <= b.prepared /\ b.prepared <= now + Skew
  /\ b.prepared <= b.expires /\ b.expires - b.prepared <= MaxTtl

ContinuousByStatus(b) ==   \* mutant: the amount is not compared
  b.step > 0 => b.prev.status \in {"receipt_verified", "attestation_verified"}
Continuous(b) ==
  b.step > 0 =>
    /\ \/ b.prev.status = "receipt_verified"
       \/ /\ b.path[b.step + 1].provider = "circle_cctp_receive"
          /\ b.prev.status = "attestation_verified"
    /\ b.prev.out = b.spend

Topology(path, from, to) ==
  /\ Len(path) > 0 /\ First(path).from = from /\ Final(path).to = to
  /\ \A i \in 2 .. Len(path) : path[i].from = path[i - 1].to

BundleVerified(b, intent, wallets, now) ==
  /\ b.bound /\ BundleFresh(b, now) /\ b.wallets = wallets
  /\ Topology(b.path, intent.from, intent.to)
  /\ b.step \in 0 .. Len(b.path) - 1
  /\ Pinned(b.path[b.step + 1].from) /\ Pinned(b.path[b.step + 1].to)
  /\ b.spend > 0 /\ b.receive > 0 /\ b.least > 0
  /\ b.spend = b.input /\ b.receive >= b.least
  /\ Continuous(b)

\* verifyApprovalBundleBounds: the path is the selected one, the first step
\* spends no more and the last one returns no less than was approved.
LegacyReceive(b, s) == b.legacy /\ Len(b.path) = 2 /\ Len(s) = 1 /\ b.step = 1

BoundsPerStep(b, s, a) ==   \* mutant: the approval's minimum is looked at on no step
  LET st == s[b.step + 1]
  IN  /\ b.spend <= IF b.step = 0 THEN a.maxIn ELSE b.spend
      /\ b.step > 0 => b.spend >= st.minIn
      /\ b.receive >= st.minOut /\ Continuous(b)
BoundsVerified(b, s, a) ==
  LET legacy == LegacyReceive(b, s)
      st     == s[IF legacy THEN 1 ELSE b.step + 1]
  IN  /\ legacy \/ (Len(b.path) = Len(s) /\ b.step \in 0 .. Len(s) - 1)
      /\ \A i \in 1 .. Len(s) : LegOf(s[i]) = b.path[i]
      /\ Continuous(b)
      /\ b.step = 0 => b.spend <= st.expIn /\ b.spend <= a.maxIn
      /\ b.step > 0 /\ ~legacy => b.spend >= st.minIn
      /\ b.receive >= st.minOut
      /\ legacy \/ b.step = Len(s) - 1 => b.receive >= a.minOut

\* Both checks, in the order every caller applies them.
Accepted(b, ctx, summary, now) ==
  /\ BundleVerified(b, ctx.intent, ctx.wallets, now)
  /\ BoundsVerified(b, summary, ctx.approval)
=============================================================================
