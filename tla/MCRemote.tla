------------------------------ MODULE MCRemote ------------------------------
(* Instances of the remote doors for TLC. *)
EXTENDS RemoteAdapterProperties

CONSTANTS c1, c2, wa, t1

\* A one-step quote and two approvals of it, one stricter than the other.
QuoteOf(from, to, provider, guard) ==
  LET st == [provider |-> provider, from |-> from, to |-> to, fee |-> 1, guard |-> guard,
             expIn |-> 10, minIn |-> 10, expOut |-> 9, minOut |-> 8]
  IN  Continuation([id |-> 1, issued |-> 0, expires |-> 1, steps |-> <<st>>])
Swap  == QuoteOf(At("base", "ETH"), At("base", "USDC"), "uniswap_v3", 1250)
Aptos == QuoteOf(At("aptos", "USDC"), At("base", "USDC"), "circle_cctp", 0)

Approval(q, op) == ExactApproval(q, IF op = "prepare" THEN "one_shot" ELSE "session", 1)
Ask(q, op) ==
  LET from == First(q.summary).from
      to   == Final(q.summary).to
      a    == Approval(q, op)
  IN  [op |-> op, shape |-> TRUE, secret |-> FALSE, from |-> from, to |-> to,
       wallets |-> wa, approval |-> a, key |-> 1, token |-> t1, sid |-> 1,
       ctx |-> [intent |-> [from |-> from, to |-> to], wallets |-> wa, approval |-> a,
                summary |-> q.summary, bound |-> TRUE]]

Create == Ask(Swap, "create")
MCAsks ==
  {Ask(Swap, op) : op \in Operations} \union
  {\* an approval stricter than the context's, and what must be refused
   [Create EXCEPT !.approval.minOut = 9, !.secret = FALSE],
   [Create EXCEPT !.secret = TRUE],
   [Create EXCEPT !.key = 2],
   [Create EXCEPT !.from = At("polygon", "USDC"), !.to = At("solana", "USDC")],
   [Create EXCEPT !.ctx.bound = FALSE], [Create EXCEPT !.shape = FALSE]}

AptosAsks == {Ask(Aptos, op) : op \in {"prepare", "create", "get"}}
=============================================================================
