----------------------------- MODULE RoutePlans -----------------------------
(***************************************************************************)
(* The plan of every route, as the integrations build it and as the        *)
(* package's contract lists it, what a service's raw step has to carry,    *)
(* and what the two validators make of a whole quote.                      *)
(***************************************************************************)
EXTENDS QuoteRules

\* The routes a quote can be asked for: what the gate lets through, to a chain that is
\* not source-only.
PublicRoute(from, to) == Executable(from, to) /\ to.chain \notin SourceOnlyChains

Optional(condition, step) == IF condition THEN <<step>> ELSE <<>>

SwapProvider(chain, tokens) ==
  IF chain # "solana" THEN "uniswap_v3"
  ELSE IF "USDG" \in tokens THEN "orca_whirlpool" ELSE "raydium_clmm"
Swap(c, a, b, fee) == Leg(SwapProvider(c, {a, b}), At(c, a), At(c, b), fee, 0)
Cctp(c, d, fee)    == Leg("circle_cctp", At(c, "USDC"), At(d, "USDC"), fee, 0)
Paxos(c, d, fee)   == Leg("paxos_usdg_layerzero_oft", At(c, "USDG"), At(d, "USDG"), fee, 0)
Across(c, fee)     == Leg("across_intent_bridge", At(c, "USDC"), At("robinhood", "USDG"), fee, 0)

Fee(condition) == IF condition THEN 1 ELSE 0

\* Fifty basis points shared out over the steps, the first ones taking the rest.
Guarded(s) ==
  [i \in DOMAIN s |->
     [s[i] EXCEPT !.guard = 50 \div Len(s) + Fee(i <= 50 % Len(s))]]

SameChain(from, to) ==
  CASE from = At("solana", "SOL") /\ to = At("solana", "USDG") ->
         <<Swap("solana", "SOL", "USDC", 0), Swap("solana", "USDC", "USDG", 1)>>
    [] from = At("solana", "USDG") /\ to = At("solana", "SOL") ->
         <<Swap("solana", "USDG", "USDC", 1), Swap("solana", "USDC", "SOL", 0)>>
    [] OTHER -> <<Swap(from.chain, from.token, to.token, 1)>>

SourceOnly(from, to) ==
  <<Cctp(from.chain, to.chain, 1), Leg("circle_cctp_receive", to, to, 0, 0)>>

Egress(from, to) ==
  Optional(from.token = "ETH", Swap("robinhood", "ETH", "USDG", 0)) \o
  <<Paxos("robinhood", "solana", 1)>> \o
  Optional(to # At("solana", "USDG"), Swap("solana", "USDG", "USDC", 0)) \o
  Optional(to.chain # "solana", Cctp("solana", to.chain, 0)) \o
  Optional(to = At("solana", "SOL"), Swap("solana", "USDC", "SOL", 0)) \o
  Optional(to.token = "ETH", Swap(to.chain, "USDC", "ETH", 0))

IngressFromSolana(from, to) ==
  Optional(from.token = "SOL", Swap("solana", "SOL", "USDC", 1)) \o
  Optional(from.token # "USDG", Swap("solana", "USDC", "USDG", Fee(from.token = "USDC"))) \o
  <<Paxos("solana", "robinhood", Fee(from.token = "USDG" /\ to.token = "USDG"))>> \o
  Optional(to.token = "ETH", Swap("robinhood", "USDG", "ETH", Fee(from.token = "USDG")))

IngressFromEvm(from, to) ==
  Optional(from.token = "ETH", Swap(from.chain, "ETH", "USDC", 0)) \o
  <<Cctp(from.chain, "solana", 1), Swap("solana", "USDC", "USDG", 0),
    Paxos("solana", "robinhood", 0)>> \o
  Optional(to.token = "ETH", Swap("robinhood", "USDG", "ETH", 0))

\* The older way into Robinhood Chain, through an external intent.
AcrossIngress(from, to) ==
  IF from.chain = "solana"
  THEN Optional(from.token # "USDC", Swap("solana", from.token, "USDC", 0)) \o
       <<Cctp("solana", "base", 1), Across("base", 0)>> \o
       Optional(to.token = "ETH", Swap("robinhood", "USDG", "ETH", 0))
  ELSE Optional(from.token = "ETH", Swap(from.chain, "ETH", "USDC", 1)) \o
       <<Across(from.chain, Fee(from.token = "USDC" /\ to.token = "USDG"))>> \o
       Optional(to.token = "ETH", Swap("robinhood", "USDG", "ETH", Fee(from.token = "USDC")))

Composition(from, to) ==
  Optional(from.token # "USDC", Swap(from.chain, from.token, "USDC", 0)) \o
  <<Cctp(from.chain, to.chain, 1)>> \o
  Optional(to.token # "USDC", Swap(to.chain, "USDC", to.token, 0))

HasAcross(from, to) == to.chain = "robinhood" /\ from.chain # "robinhood"

\* buildDefinition: across is the quote's claim to be of the older mode.
Definition(from, to, across) ==
  IF from.chain = to.chain THEN SameChain(from, to)
  ELSE CASE from.chain = "aptos"            -> <<Cctp("aptos", to.chain, 1)>>
         [] from.chain \in NoForwardChains  -> SourceOnly(from, to)
         [] from.chain = "robinhood"        -> Egress(from, to)
         [] OTHER ->
              IF ~HasAcross(from, to) THEN Composition(from, to)
              ELSE IF across THEN AcrossIngress(from, to)
              ELSE Guarded(IF from.chain = "solana" THEN IngressFromSolana(from, to)
                           ELSE IngressFromEvm(from, to))

Chained(s) == \A i \in 2 .. Len(s) : s[i].from = s[i - 1].to
FeeSteps(s) == {i \in DOMAIN s : s[i].fee = 1}

(*------------------------------ raw steps ------------------------------*)
\* The finality a burn on this chain waits for.
FinalityOf(c) == IF c \in {"xlayer", "monad", "avalanche"} THEN 1000 ELSE 2000

\* Chains whose burn carries its finality, as the package and the integrations know them.
CoreFinality == NoForwardChains \union CandidateChains \union SolanaOnlyChains
KitFinality  == NoForwardChains \union {"xlayer", "sei", "sonic"}

RawOf(from, carrying) ==
  [finality |-> IF from.chain \in carrying THEN FinalityOf(from.chain) ELSE 0,
   family   |-> from.chain = "aptos" /\ "aptos" \in carrying]

(*------------------------------- quotes --------------------------------*)
\* Guidance of a route: a published best-from amount, an availability without a price
\* claim, a route others serve cheaper, an old amount nobody verified, a product offer.
GuidanceValid(g) ==
  /\ g.verified = (g.kind = "price")
  /\ g.kind \in {"price", "unverified"} => g.start > 0
  /\ g.kind \in {"availability", "compare", "offered"} => g.start = 0
GuidanceKinds == {"price", "availability", "compare", "unverified", "offered"}
\* The integrations know every form but the product offer.
KitGuidance == GuidanceKinds \ {"offered"}

\* What both validators ask of a quote against the intent it answers.
IntentMatches(q, ask) == q.from = ask.from /\ q.to = ask.to /\ q.amount = ask.amount
Executes(q) == q.supported /\ ~q.signing

\* mutant: the finality of the later chains is not known
CoreSummaryFewChains(q) ==
  /\ SummaryValid(q.steps, Definition(q.from, q.to, q.across))
  /\ q.raw = RawOf(q.from, KitFinality)
\* validateDirectRouteSummary of the package; an old quote of a source-only route has
\* one step.
CoreSummary(q) ==
  /\ PublicRoute(q.from, q.to) /\ (q.across => HasAcross(q.from, q.to))
  /\ SummaryValid(q.steps, Definition(q.from, q.to, q.across))
  /\ q.raw = RawOf(q.from, CoreFinality)
\* The copy of the integrations has no such exception and its own list of chains.
KitSummary(q) ==
  LET plan == Definition(q.from, q.to, q.across)
  IN  /\ q.across => HasAcross(q.from, q.to)
      /\ Len(q.steps) = Len(plan) /\ SummaryValid(q.steps, plan)
      /\ q.raw = RawOf(q.from, KitFinality)

\* mutant: a quote is taken for whatever route it names
KitUnasked(q, ask) == GuidanceValid(q.guidance) /\ Executes(q) /\ KitSummary(q)
\* validateQuoteDirectRoute.
KitAccepts(q, ask) ==
  /\ GuidanceValid(q.guidance) /\ q.guidance.kind \in KitGuidance
  /\ Executes(q) /\ IntentMatches(q, ask) /\ KitSummary(q)

\* parseV2Quote and validateQuote: the hand-off in its two versions, the newer one present
\* or absent as a whole, and the continuation bound to the quote and still open.
HandoffValid(h) == h \in {"first", "both"}
CoreAccepts(q, ask, now) ==
  /\ GuidanceValid(q.guidance)
  /\ Executes(q) /\ IntentMatches(q, ask) /\ CoreSummary(q)
  /\ HandoffValid(q.handoff)
  /\ ContinuationValid(q.continuation, q, now)
\* route-eval also wants the newer hand-off.
EvalAccepts(q, ask, now) == CoreAccepts(q, ask, now) /\ q.handoff = "both"
=============================================================================
