------------------------------ MODULE MCReaders ------------------------------
(***************************************************************************)
(* The readers on small instances, and the plans of all routes.            *)
(***************************************************************************)
EXTENDS QuoteReadersProperties, TLC

CONSTANTS
  r1, r2

PublicRoutes == {p \in Endpoints \X Endpoints : PublicRoute(p[1], p[2])}

\* The contract's hundred routes and fourteen older forms.
ASSUME RoutesOfTheContract ==
  /\ Cardinality(PublicRoutes) = 100
  /\ Cardinality({p \in PublicRoutes : HasAcross(p[1], p[2])}) = 14

\* The routes HonestQuoteTold excepts: the integrations disagree with the package on the raw
\* burn step of fourteen, all source-only; the package's continuation has not the chains of
\* two of these, so that no door at all takes an honest quote for them.
ASSUME RoutesUnknown ==
  LET burnt    == {p \in PublicRoutes : RawOf(p[1], CoreFinality) # RawOf(p[1], KitFinality)}
      unlisted == {p \in PublicRoutes :
                     ~(RequiredChains(Definition(p[1], p[2], FALSE)) \subseteq ContinuationChains)}
  IN  /\ Cardinality(burnt) = 14 /\ Cardinality(unlisted) = 2
      /\ unlisted \subseteq burnt
      /\ \A p \in burnt : p[1].chain \in SourceOnlyChains

Quote(door, from, to, amount) ==
  [door |-> door, what |-> "quote", from |-> from, to |-> to, amount |-> amount,
   out |-> FALSE, alone |-> FALSE]
Capabilities(door) ==
  [Quote(door, None, None, 0) EXCEPT !.what = "capabilities"]
ToFile(job) == [job EXCEPT !.out = TRUE]
\* A choice at a caller's pace: the last one asks for more time than its profile has.
Choices ==
  {[what |-> "choice", profile |-> pace[1], eta |-> pace[2]] @@
     Quote("mcp", At("solana", "SOL"), At("base", "ETH"), 60) :
     pace \in {<<"balanced", 0>>, <<"fast", 20>>, <<"fast", 60>>}}

SolToBase  == Quote("route_eval", At("solana", "SOL"), At("base", "ETH"), 60)
UsdcToBase == Quote("route_eval", At("solana", "USDC"), At("base", "USDC"), 60)

KitRoutes ==
  {<<At("base", "ETH"), At("robinhood", "ETH"), 60>>, <<At("xlayer", "USDC"), At("base", "USDC"), 40>>,
   <<At("aptos", "USDC"), At("solana", "USDC"), 60>>, <<At("base", "USDC"), At("base", "USDC"), 40>>}

\* One reader of every door, and evaluators that write to the same path.
MCJobs(r) ==
  IF r = r2 THEN {ToFile(SolToBase), [ToFile(UsdcToBase) EXCEPT !.alone = TRUE]}
  ELSE {Quote(door, k[1], k[2], k[3]) : door \in Kits, k \in KitRoutes}
         \union {Quote(door, At(c, "USDC"), At("base", "USDC"), 60) :
                   door \in Servers, c \in {"polygon", "aptos"}}
         \union {Quote("mcp", At("unichain", "USDC"), At("solana", "USDC"), 60),
                 Quote("route_eval", At("ink", "USDC"), At("solana", "USDC"), 60)}
         \union Choices \union {Capabilities(door) : door \in Kits \union {"mcp"}}
         \union {ToFile(SolToBase), UsdcToBase}

\* Readings meet only at the file: two at a time are two evaluators that write to it, and
\* the service is honest to them and stays at its release.
Contest ==
  r2 \in Readers /\ reader[r2].pc # "idle" =>
    /\ spent.lies = 0 /\ spent.rollouts = 0
    /\ reader[r1].job # None => reader[r1].job.out
==============================================================================
