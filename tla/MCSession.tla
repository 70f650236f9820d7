----------------------------- MODULE MCSession -----------------------------
(* Instances of the command line tools for TLC. *)
EXTENDS CallerSessionProperties, TLC

CONSTANTS p1, p2, wa, wb

MCSymmetry == Permutations({wa, wb})

At1 == At("base", "ETH")
At2 == At("base", "USDC")
At3 == At("solana", "USDC")

Swap == Leg("uniswap_v3", At1, At2, 1, 1250)
Burn == Leg("circle_cctp", At2, At3, 0, 0)
StepOf(leg, in, minIn, out, minOut) ==
  [provider |-> leg.provider, from |-> leg.from, to |-> leg.to, fee |-> leg.fee,
   guard |-> leg.guard, expIn |-> in, minIn |-> minIn, expOut |-> out, minOut |-> minOut]

QuoteOf(steps, plan) ==
  LET q == [id |-> 1, issued |-> 0, expires |-> 1, steps |-> steps, plan |-> plan]
  IN  [id |-> 1, issued |-> 0, expires |-> 1, steps |-> steps, plan |-> plan,
       continuation |-> Continuation(q)]

MCQuotes == {
  \* no slack: what it expects is its minimum
  QuoteOf(<<StepOf(Swap, 10, 10, 8, 8)>>, <<Swap>>),
  QuoteOf(<<StepOf(Swap, 10, 10, 9, 8), StepOf(Burn, 9, 8, 8, 7)>>, <<Swap, Burn>>),
  \* a minimum that does not follow from the step before
  QuoteOf(<<StepOf(Swap, 10, 10, 9, 8), StepOf(Burn, 9, 9, 8, 7)>>, <<Swap, Burn>>)}

MCWallets == {[c \in {"base"} |-> wa], [c \in {"base"} |-> wb], [c \in {"base", "solana"} |-> wa],
              [c \in {"base", "solana"} |-> wb]}
=============================================================================
