----------------------- MODULE QuoteReadersProperties -----------------------
(***************************************************************************)
(* What a caller may rely on who is told something by one of the doors.    *)
(***************************************************************************)
EXTENDS QuoteReaders

\* The plans of the contract's routes, a closed formula: each is a chained way from its
\* source to its destination with one fee step, guarded by fifty basis points in all or
\* not at all, over chains a continuation knows unless it starts elsewhere; a full quote
\* of it is valid, and so is the old one of a single step.
IsWay(plan, from, to) ==
  /\ Len(plan) \in Nat \ {0} /\ DOMAIN plan = 1 .. Len(plan)
  /\ First(plan).from = from /\ Final(plan).to = to /\ Chained(plan)
  /\ Cardinality(FeeSteps(plan)) = 1
  /\ (\E i \in DOMAIN plan : plan[i].guard > 0) => GuardUpTo(plan, Len(plan)) = 50
  /\ LegacySourceOnly(plan, 1) => plan[1].to = to /\ ~(plan[1].guard > 0)
  /\ from.chain \notin SolanaOnlyChains => RequiredChains(plan) \subseteq ContinuationChains
ASSUME PlansAreWays ==
  \A from, to \in Endpoints, across \in BOOLEAN :
    PublicRoute(from, to) /\ (across => HasAcross(from, to)) =>
      LET plan == Definition(from, to, across)
      IN  /\ IsWay(plan, from, to) /\ SummaryValid(StepsOf(plan), plan)
          /\ \A i \in DOMAIN plan : StepsOf(plan)[i].minOut \in Int

Reading == [pc : {"idle"} \union Waiting \union Writing \union Over,
            asked : 0 .. MaxTime, since : {None} \union Releases]

\* Every process is at a step of its program, waits only for what it asked for and holds
\* the answers it has.
TypeOK ==
  /\ now \in 0 .. MaxTime /\ release \in Releases
  /\ \A r \in Readers :
       LET rd == reader[r]
       IN  /\ [pc |-> rd.pc, asked |-> rd.asked, since |-> rd.since] \in Reading
           /\ (rd.pending # {}) = (rd.pc \in Waiting)
           /\ rd.job # None => rd.job \in Jobs(r)
           /\ rd.caps # None => rd.caps \in [Parts -> Releases]
           /\ rd.offers # None => rd.offers \in [Providers -> Offers]
           /\ (rd.why # None) = (rd.pc = "refused")
           /\ (rd.choice # None \/ rd.pc = "shown") => rd.selection.shortlist = Shortlist

Claims(r) == reader[r].pc = "told" /\ reader[r].job.out

\* An evaluation that says its quote is persisted (quote_output.persisted) finds that quote,
\* and no one else's, at the path for as long as it says so: whatever other evaluators of
\* the same path do, wherever they are killed and whichever of their file operations fail.
ClaimedIsKept == \A r \in Readers : Claims(r) => file = Kept(r)

\* Routes whose raw step the integrations take for malformed (RoutePlans).
Disagreed(job) == RawOf(job.from, CoreFinality) # RawOf(job.from, KitFinality)

\* What a door does not know of an honest quote: an integration the product offer's
\* guidance and the finality of fourteen routes, the package the wallets of two.
UnknownTo(job, kind) ==
  IF job.door \in Kits THEN kind = "offered" \/ Disagreed(job)
  ELSE job.from.chain \in SolanaOnlyChains

\* A quote as the service should answer it is refused by no door, however late in its time
\* it arrives, but for what the door does not know.
HonestQuoteTold ==
  \A r \in Readers :
    LET rd == reader[r]
    IN  rd.pc = "refused" /\ rd.why = "quote" /\ rd.quote.lie = None =>
          UnknownTo(rd.job, rd.quote.kind)

Asked(job, q) ==
  /\ First(q.steps).from = job.from /\ Final(q.steps).to = job.to
  /\ Chained(q.steps) /\ Cardinality(FeeSteps(q.steps)) = 1
  /\ q.amount = job.amount /\ ~q.signing

\* A route with guarded steps loses at most half a percent.
Guarantees(q) ==
  (\E i \in DOMAIN q.steps : q.steps[i].guard > 0) =>
    2 * Final(q.steps).minOut * 100 >= Final(q.steps).expOut * 199

\* Use AssetFare first: from a published amount on, or on the one dated evidence route.
Backed(job, q) ==
  UseFirst(job, q.guidance) =>
    \/ q.guidance.start > 0 /\ job.amount >= q.guidance.start
    \/ job.door = "route_eval" /\ EvidenceRoute(job)

Best(offers) ==
  \A p \in Providers : OfferOf(offers, Highest(offers)) >= offers[p]

\* What a door tells of a quote is so, whatever the service answered: one way from the asked
\* source to the asked destination for the asked amount, with one fee step and its guards,
\* advice a published amount backs, and the best offer of those that came in time.  A chosen
\* quote is the picked candidate's and for what the selection was for.
ToldIsTrue ==
  \A r \in Readers :
    LET rd == reader[r]
        q  == QuoteOf(IF rd.job.what = "choice" THEN rd.choice.quote ELSE rd.quote)
    IN  rd.pc = "told" /\ rd.job.what # "capabilities" =>
          IF rd.job.what = "choice" /\ rd.choice.picked # "assetfare"
          THEN /\ rd.choice.candidate = rd.choice.picked
               /\ [rd.selection EXCEPT !.from = q.from, !.to = q.to, !.amount = q.amount] = rd.selection
          ELSE /\ Asked(rd.job, q) /\ Guarantees(q) /\ Backed(rd.job, q)
               /\ rd.offers # None => Best(rd.offers)

\* The parts a door tells as verified.
PartsTold(door) ==
  IF door \in Kits THEN {"directed", "implemented", "policy", "guidance"}
  ELSE Parts \ {"implemented"}
AlmostOf(c, s) == Cardinality({p \in Parts : c[p] # s}) <= 1

\* Capabilities told by a server or an integration are of one release, also when the service
\* is caught in the middle of a rollout and answers one part of another.
VerifiedIsOfOneRelease ==
  \A r \in Readers :
    LET rd == reader[r]
    IN  rd.pc = "told" /\ rd.job.what = "capabilities" =>
          \A s \in Releases :
            AlmostOf(rd.caps, s) => \A p \in PartsTold(rd.job.door) : rd.caps[p] = s

\* Every reading ends: with a silent service, with silent comparison providers, over a path
\* that is taken.
ReadingEnds == \A r \in Readers : reader[r].pc # "idle" ~> reader[r].pc \in Over
=============================================================================
