-------------------------- MODULE QuoteReadersProofs --------------------------
(***************************************************************************)
(* Proofs about the read-only doors: for any readers and jobs, whatever    *)
(* the service answers, whichever release it runs and wherever a reading   *)
(* is interrupted.                                                         *)
(***************************************************************************)
EXTENDS QuoteReadersProperties, FiniteSetTheorems, TLAPS

(*---------------------------- the inductive invariant ----------------------------*)
Fields == {"pc", "job", "asked", "since", "pending", "caps", "quote", "offers", "selection",
           "choice", "why"}
Listing == {"manifest", "capabilities", "status"}
WithQuote == Writing \union {"compare", "told"}

\* What is so of a quote that a door accepted.
Fits(job, q) == Asked(job, q) /\ Guarantees(q) /\ Backed(job, q)

\* A request is pending as long as a reading waits; capabilities are asked for until they
\* are there.
PendingOK(rd) ==
  /\ (rd.pending # {}) = (rd.pc \in Waiting)
  /\ rd.pc = "prelude" =>
       IF rd.job.what = "choice" THEN rd.pending = {"selection"}
       ELSE /\ rd.pending \subseteq Listing
            /\ "capabilities" \in rd.pending \/ rd.caps \in [Parts -> Releases]
  /\ rd.pc = "quote" => rd.pending = {"quote"}
  /\ rd.pc = "compare" => rd.pending \subseteq Providers /\ rd.offers \in [Providers -> Offers]
  /\ rd.pc = "choose" => rd.pending = {"choice"}

SelectionOK(s, job) ==
  /\ s = [f \in DOMAIN s |-> s[f]]
  /\ DOMAIN s = {"from", "to", "amount", "profile", "eta", "shortlist", "recommended", "guided",
                 "direct", "issued"}
  /\ s.from = job.from /\ s.to = job.to /\ s.amount = job.amount /\ s.shortlist = Shortlist

\* A chosen quote is the candidate's that the caller picked.
ChoiceOK(job, choice) ==
  LET q == QuoteOf(choice.quote)
  IN  IF choice.picked = "assetfare" THEN Fits(job, q)
      ELSE choice.candidate = choice.picked /\ IntentMatches(q, AskOf(job))

ToldOK(rd) ==
  CASE rd.job.what = "capabilities" ->
         rd.caps \in [Parts -> Releases] /\ CapsAccepted(rd.job.door, rd.caps)
    [] rd.job.what = "quote"        -> Fits(rd.job, QuoteOf(rd.quote))
    [] rd.job.what = "choice"       -> ChoiceOK(rd.job, rd.choice)

\* A door refuses an honest quote only for what it does not know; the evaluator also one
\* for a route that has none.
HonestOK(rd) ==
  (/\ rd.pc = "refused" /\ rd.why = "quote" /\ rd.quote.lie = None
   /\ rd.job.door = "route_eval" => PublicRoute(rd.job.from, rd.job.to))
     => UnknownTo(rd.job, rd.quote.kind)

\* The answers that a reading keeps, whether it goes on or not.
HeldOK(r, rd) ==
  /\ DOMAIN rd = Fields /\ rd.job \in Jobs(r)
  /\ rd.caps # None => rd.caps \in [Parts -> Releases]
  /\ rd.offers # None => rd.offers \in [Providers -> Offers]
  /\ rd.choice # None => SelectionOK(rd.selection, rd.job)

AccountedOK(rd) ==
  /\ rd.pc \in Waiting \union Writing \union Over /\ rd.asked \in 0 .. MaxTime
  /\ rd.since \in {None} \union Releases /\ (rd.pc \in Waiting => rd.since \in Releases)
  /\ (rd.why # None) = (rd.pc = "refused")

StageOK(rd) ==
  /\ rd.pc # "refused" => Gate(rd.job)
  /\ rd.pc \in {"quote", "compare"} \union Writing => rd.job.what = "quote"
  /\ rd.pc \in {"shown", "choose"} => rd.job.what = "choice"
  /\ rd.pc \in {"shown", "choose", "told"} /\ rd.job.what = "choice" =>
       SelectionOK(rd.selection, rd.job)
  /\ rd.pc \in WithQuote /\ rd.job.what = "quote" =>
       Fits(rd.job, QuoteOf(rd.quote)) /\ rd.quote \in Refs
  /\ rd.pc = "told" => ToldOK(rd)
  /\ HonestOK(rd)

RunningOK(r, rd) == HeldOK(r, rd) /\ AccountedOK(rd) /\ StageOK(rd) /\ PendingOK(rd)

ReadingOK(r, rd) == rd = Idle \/ RunningOK(r, rd)

\* Whoever has linked its file finds it there.
Linked(rd) == rd.job.out /\ rd.pc \in {"linked", "compare", "told"}

IInv ==
  /\ now \in 0 .. MaxTime /\ release \in Releases
  /\ reader = [r \in Readers |-> reader[r]]
  /\ \A r \in Readers : /\ ReadingOK(r, reader[r])
                        /\ reader[r] # Idle /\ Linked(reader[r]) => file = Kept(r)

(*------------------------------ quotes and plans ------------------------------*)
\* The guard over a whole route is half a percent, rounded up.
LEMMA HalfPercent ==
  ASSUME NEW out \in Int, NEW min \in Int, min >= CeilGuardFloor(out, 50)
  PROVE  2 * min * 100 >= out * 199
<1> DEFINE n == out * 9950 + 9999
<1>1. n \in Int /\ CeilGuardFloor(out, 50) = n \div 10000
  BY DEF CeilGuardFloor
<1>2. 10000 * (n \div 10000) + 10000 > n /\ n \div 10000 \in Int
  BY <1>1
<1>3. 10000 * min + 10000 > out * 9950 + 9999
  BY <1>1, <1>2
<1> QED BY <1>3

\* A summary that is valid for the plan of a route is a way of that route.
LEMMA ValidIsWay ==
  ASSUME NEW s, NEW plan, NEW from, NEW to, IsWay(plan, from, to), SummaryValid(s, plan),
         Len(s) \in Nat, DOMAIN s = 1 .. Len(s),
         \A i \in 1 .. Len(s) : s[i].expOut \in Int /\ s[i].minOut \in Int
  PROVE  /\ First(s).from = from /\ Final(s).to = to
         /\ Chained(s) /\ Cardinality(FeeSteps(s)) = 1
         /\ (\E i \in DOMAIN s : s[i].guard > 0) =>
              2 * Final(s).minOut * 100 >= Final(s).expOut * 199
<1> DEFINE n == Len(s)
<1>1. /\ n \in Nat \ {0} /\ n = Len(PlanFor(plan, n))
      /\ \A i \in 1 .. n : LegOf(s[i]) = plan[i]
  BY DEF SummaryValid
<1>2. \A i \in 1 .. n : /\ s[i].from = plan[i].from /\ s[i].to = plan[i].to
                        /\ s[i].guard = plan[i].guard
  <2> SUFFICES ASSUME NEW i \in 1 .. n
               PROVE  /\ s[i].from = plan[i].from /\ s[i].to = plan[i].to
                      /\ s[i].guard = plan[i].guard
    OBVIOUS
  <2>1. LegOf(s[i]) = plan[i]
    BY <1>1
  <2>2. /\ LegOf(s[i]).from = s[i].from /\ LegOf(s[i]).to = s[i].to
        /\ LegOf(s[i]).guard = s[i].guard
    BY DEF LegOf
  <2> QED BY <2>1, <2>2
<1>3. /\ Len(plan) \in Nat \ {0} /\ DOMAIN plan = 1 .. Len(plan) /\ Chained(plan)
      /\ First(plan).from = from /\ Final(plan).to = to
  BY DEF IsWay
<1>4. CASE LegacySourceOnly(plan, n)
  <2>1. n = 1 /\ LegacySourceOnly(plan, 1)
    BY <1>4 DEF LegacySourceOnly
  <2>2. plan[1].to = to /\ ~(plan[1].guard > 0)
    BY <2>1 DEF IsWay
  <2>3. First(s).from = from /\ Final(s).to = to /\ ~(\E i \in DOMAIN s : s[i].guard > 0)
    BY <1>2, <1>3, <2>1, <2>2 DEF First, Final
  <2>4. Chained(s)
    BY <2>1 DEF Chained
  <2>5. FeeSteps(s) = {i \in 1 .. Len(s) : s[i].fee = 1}
    BY DEF FeeSteps
  <2> QED BY <2>3, <2>4, <2>5 DEF SummaryValid
<1>5. CASE ~LegacySourceOnly(plan, n)
  <2>1. n = Len(plan)
    BY <1>1, <1>5 DEF PlanFor
  <2>2. First(s).from = from /\ Final(s).to = to
    BY <1>1, <1>2, <1>3, <2>1 DEF First, Final
  <2>3. Chained(s)
    <3> SUFFICES ASSUME NEW i \in 2 .. n PROVE s[i].from = s[i - 1].to
      BY DEF Chained
    <3>1. i \in 1 .. n /\ i - 1 \in 1 .. n
      BY <1>1
    <3>2. plan[i].from = plan[i - 1].to
      BY <1>3, <2>1 DEF Chained
    <3> QED BY <1>2, <3>1, <3>2
  <2>4. FeeSteps(s) = {i \in 1 .. Len(s) : s[i].fee = 1}
    BY DEF FeeSteps
  <2>5. ASSUME NEW i \in DOMAIN s, s[i].guard > 0
        PROVE  2 * Final(s).minOut * 100 >= Final(s).expOut * 199
    <3>1. i \in DOMAIN plan /\ plan[i].guard > 0
      BY <1>2, <1>3, <2>1, <2>5
    <3>2. GuardUpTo(plan, Len(plan)) = 50
      BY <3>1 DEF IsWay
    <3>3. Guards(s) = Guards(plan)
      BY <1>2, <2>1 DEF Guards
    <3>4. GuardUpTo(s, Len(s)) = 50
      BY <2>1, <3>2, <3>3 DEF GuardUpTo
    <3>5. Final(s).minOut >= CeilGuardFloor(Final(s).expOut, 50)
      BY <2>5, <3>4 DEF SummaryValid
    <3>6. Final(s).minOut \in Int /\ Final(s).expOut \in Int
      BY <1>1 DEF Final
    <3> QED BY <3>5, <3>6, HalfPercent
  <2> QED BY <2>2, <2>3, <2>4, <2>5 DEF SummaryValid
<1> QED BY <1>4, <1>5

(*------------------------------ the service's quotes ------------------------------*)
LEMMA HonestSteps ==
  ASSUME NEW plan, NEW from, NEW to, IsWay(plan, from, to),
         \A i \in DOMAIN plan : StepsOf(plan)[i].minOut \in Int
  PROVE  /\ DOMAIN StepsOf(plan) = 1 .. Len(plan) /\ Len(StepsOf(plan)) = Len(plan)
         /\ \A i \in 1 .. Len(plan) :
              /\ StepsOf(plan)[i].expOut \in Int /\ StepsOf(plan)[i].minOut \in Int
              /\ DOMAIN StepsOf(plan)[i] = {"provider", "from", "to", "fee", "guard",
                                            "expIn", "minIn", "expOut", "minOut"}
<1>1. Len(plan) \in Nat /\ DOMAIN plan = 1 .. Len(plan)
  BY DEF IsWay
<1>2. DOMAIN StepsOf(plan) = 1 .. Len(plan) /\ Len(StepsOf(plan)) = Len(plan)
  BY <1>1 DEF StepsOf
<1>3. \A i \in 1 .. Len(plan) : StepsOf(plan)[i].expOut = 10000 - i
  BY <1>1 DEF StepsOf
<1>4. \A i \in 1 .. Len(plan) :
        DOMAIN StepsOf(plan)[i] = {"provider", "from", "to", "fee", "guard",
                                   "expIn", "minIn", "expOut", "minOut"}
  BY <1>1 DEF StepsOf
<1> QED BY <1>1, <1>2, <1>3, <1>4

\* A quote's steps pass over the chains of its plan.
LEMMA HonestChains ==
  ASSUME NEW plan, NEW from, NEW to, IsWay(plan, from, to),
         \A i \in DOMAIN plan : StepsOf(plan)[i].minOut \in Int
  PROVE  RequiredChains(StepsOf(plan)) = RequiredChains(plan)
<1>1. Len(plan) \in Nat /\ DOMAIN plan = 1 .. Len(plan)
  BY DEF IsWay
<1>2. Len(StepsOf(plan)) = Len(plan)
  BY HonestSteps
<1>3. \A i \in 1 .. Len(plan) : StepsOf(plan)[i].from = plan[i].from
  BY <1>1 DEF StepsOf
<1>4. \A i \in 1 .. Len(plan) : StepsOf(plan)[i].to = plan[i].to
  BY <1>1 DEF StepsOf
<1> DEFINE Touching(i) == {StepsOf(plan)[i].from.chain, StepsOf(plan)[i].to.chain}
           Way(i) == {plan[i].from.chain, plan[i].to.chain}
<1>5. \A i \in 1 .. Len(plan) : Touching(i) = Way(i)
  BY <1>3, <1>4
<1> HIDE DEF Touching, Way
<1>6. {Touching(i) : i \in 1 .. Len(plan)} = {Way(i) : i \in 1 .. Len(plan)}
  BY <1>5
<1> QED BY <1>2, <1>6 DEF RequiredChains, Touching, Way

LEMMA QuoteIs ==
  ASSUME NEW ref
  PROVE  LET q == QuoteOf(ref)
         IN  /\ q.from = ref.ask.from /\ q.to = Quoted(ref).to /\ q.steps = Quoted(ref).steps
             /\ q.across = Quoted(ref).across /\ q.amount = Quoted(ref).amount
             /\ q.signing = Quoted(ref).signing /\ q.raw = Quoted(ref).raw
             /\ q.guidance = Quoted(ref).guidance /\ q.supported = TRUE
             /\ q.handoff = Quoted(ref).handoff
BY DEF QuoteOf, Quoted

\* The steps of a quote for the route it was asked for.
LEMMA QuotedSteps ==
  ASSUME NEW ref, ref.lie # "route", NEW across \in BOOLEAN, Quoted(ref).across = across,
         PublicRoute(ref.ask.from, ref.ask.to), across => HasAcross(ref.ask.from, ref.ask.to)
  PROVE  LET s == Quoted(ref).steps
         IN  /\ Quoted(ref).to = ref.ask.to
             /\ IsWay(Definition(ref.ask.from, ref.ask.to, across), ref.ask.from, ref.ask.to)
             /\ Len(s) \in Nat /\ DOMAIN s = 1 .. Len(s)
             /\ \A i \in 1 .. Len(s) : s[i].expOut \in Int /\ s[i].minOut \in Int
<1> PICK from, to : from = ref.ask.from /\ to = ref.ask.to
  OBVIOUS
<1> PICK plan : plan = Definition(from, to, across)
  OBVIOUS
<1> PICK honest : honest = StepsOf(plan)
  OBVIOUS
<1> PICK s : s = Quoted(ref).steps
  OBVIOUS
<1> DEFINE n == Len(plan)
<1>1. from \in Endpoints /\ to \in Endpoints
  BY DEF PublicRoute, Executable
<1>2. IsWay(plan, from, to) /\ \A i \in DOMAIN plan : StepsOf(plan)[i].minOut \in Int
  BY <1>1, PlansAreWays
<1>3. n \in Nat \ {0}
  BY <1>2 DEF IsWay
<1>4. /\ DOMAIN honest = 1 .. n /\ Len(honest) = n
      /\ \A i \in 1 .. n : /\ honest[i].expOut \in Int /\ honest[i].minOut \in Int
                           /\ DOMAIN honest[i] = {"provider", "from", "to", "fee", "guard",
                                                  "expIn", "minIn", "expOut", "minOut"}
  BY <1>2, HonestSteps
<1>5. Quoted(ref).to = to /\ Quoted(ref).across = (ref.lie = "older" /\ HasAcross(from, to))
  BY DEF Quoted
<1>6. across = (ref.lie = "older" /\ HasAcross(from, to))
  BY <1>5
<1>7. s = Spoilt(honest, ref.lie)
  BY <1>6 DEF Quoted
<1> DEFINE Good == /\ Len(s) \in Nat /\ DOMAIN s = 1 .. Len(s)
                   /\ \A i \in 1 .. Len(s) : s[i].expOut \in Int /\ s[i].minOut \in Int
<1>8. ref.lie = "cut" => Good
  <2> SUFFICES ASSUME ref.lie = "cut" PROVE Good
    OBVIOUS
  <2>1. s = SubSeq(honest, 1, n - 1)
    BY <1>4, <1>7 DEF Spoilt
  <2>2. s = [i \in 1 .. n - 1 |-> honest[i]]
    BY <1>3, <1>4, <2>1
  <2>3. Len(s) = n - 1 /\ DOMAIN s = 1 .. n - 1
    BY <1>3, <2>2
  <2> QED BY <1>3, <1>4, <2>2, <2>3
<1>9. ref.lie = "fee" => Good
  <2> SUFFICES ASSUME ref.lie = "fee" PROVE Good
    OBVIOUS
  <2>1. s = [i \in 1 .. n |-> [honest[i] EXCEPT !.fee = 1 - @]]
    BY <1>4, <1>7 DEF Spoilt
  <2>2. Len(s) = n /\ DOMAIN s = 1 .. n
    BY <1>3, <2>1
  <2>3. \A i \in 1 .. n : s[i].expOut = honest[i].expOut /\ s[i].minOut = honest[i].minOut
    BY <1>4, <2>1
  <2> QED BY <1>3, <1>4, <2>2, <2>3
<1>10. ref.lie = "low" => Good
  <2> SUFFICES ASSUME ref.lie = "low" PROVE Good
    OBVIOUS
  <2>1. s = [honest EXCEPT ![n].minOut = @ - 1]
    BY <1>4, <1>7 DEF Spoilt
  <2>2. DOMAIN s = 1 .. n
    BY <1>3, <1>4, <2>1
  <2>3. Len(s) = n
    BY <1>3, <2>2
  <2>4. \A i \in 1 .. n : s[i].expOut = honest[i].expOut /\ s[i].minOut \in Int
    BY <1>4, <2>1
  <2> QED BY <1>3, <1>4, <2>2, <2>3, <2>4
<1>11. ref.lie \notin {"cut", "fee", "low"} => Good
  BY <1>3, <1>4, <1>7 DEF Spoilt
<1>12. Good
  BY <1>8, <1>9, <1>10, <1>11
<1> QED BY <1>2, <1>5, <1>12

LEMMA AdviceIsBacked ==
  ASSUME NEW job, NEW q
  PROVE  Backed(job, q)
BY DEF Backed, UseFirst

\* A quote whose summary a door accepted for the intent is told truly.
LEMMA SummedFits ==
  ASSUME NEW job, NEW ref, ref.ask = AskOf(job), NEW q, q = QuoteOf(ref),
         PublicRoute(job.from, job.to), IntentMatches(q, AskOf(job)), ~q.signing,
         q.across => HasAcross(q.from, q.to),
         SummaryValid(q.steps, Definition(q.from, q.to, q.across))
  PROVE  Fits(job, q)
<1>1. /\ q.from = job.from /\ q.to = job.to /\ q.amount = job.amount
      /\ ref.ask.from = job.from /\ ref.ask.to = job.to
  BY DEF IntentMatches, AskOf
<1>2. q.to = Quoted(ref).to /\ q.steps = Quoted(ref).steps /\ q.across = Quoted(ref).across
  BY QuoteIs
<1>3. ref.lie # "route"
  <2>1. ref.lie = "route" => Quoted(ref).to = Elsewhere(ref.ask)
    BY DEF Quoted
  <2>2. Elsewhere(ref.ask) # ref.ask.to
    <3>1. At("solana", "SOL") # At("base", "USDC")
      BY DEF At
    <3> QED BY <3>1 DEF Elsewhere
  <2> QED BY <1>1, <1>2, <2>1, <2>2
<1>4. PICK across \in BOOLEAN : across = Quoted(ref).across
  BY DEF Quoted
<1>5. across => HasAcross(job.from, job.to)
  BY <1>1, <1>2, <1>4
<1>6. LET s == q.steps
      IN  /\ IsWay(Definition(job.from, job.to, across), job.from, job.to)
          /\ Len(s) \in Nat /\ DOMAIN s = 1 .. Len(s)
          /\ \A i \in 1 .. Len(s) : s[i].expOut \in Int /\ s[i].minOut \in Int
  BY <1>1, <1>2, <1>3, <1>4, <1>5, QuotedSteps
<1>7. SummaryValid(q.steps, Definition(job.from, job.to, across))
  BY <1>1, <1>2, <1>4
<1>8. /\ First(q.steps).from = job.from /\ Final(q.steps).to = job.to
      /\ Chained(q.steps) /\ Cardinality(FeeSteps(q.steps)) = 1
      /\ (\E i \in DOMAIN q.steps : q.steps[i].guard > 0) =>
           2 * Final(q.steps).minOut * 100 >= Final(q.steps).expOut * 199
  BY <1>6, <1>7, ValidIsWay
<1> QED BY <1>1, <1>8, AdviceIsBacked DEF Fits, Asked, Guarantees

LEMMA CoreFits ==
  ASSUME NEW job, NEW ref, ref.ask = AskOf(job), NEW at, CoreAccepts(QuoteOf(ref), AskOf(job), at)
  PROVE  Fits(job, QuoteOf(ref))
<1> PICK q : q = QuoteOf(ref)
  OBVIOUS
<1>1. IntentMatches(q, AskOf(job)) /\ ~q.signing /\ CoreSummary(q)
  BY DEF CoreAccepts, Executes
<1>2. PublicRoute(job.from, job.to)
  BY <1>1 DEF CoreSummary, IntentMatches, AskOf
<1> QED BY <1>1, <1>2, SummedFits DEF CoreSummary

LEMMA KitFits ==
  ASSUME NEW job, NEW ref, ref.ask = AskOf(job), KitAccepts(QuoteOf(ref), AskOf(job)),
         PublicRoute(job.from, job.to)
  PROVE  Fits(job, QuoteOf(ref))
<1> PICK q : q = QuoteOf(ref)
  OBVIOUS
<1>1. IntentMatches(q, AskOf(job)) /\ ~q.signing /\ KitSummary(q)
  BY DEF KitAccepts, Executes
<1> QED BY <1>1, SummedFits DEF KitSummary

LEMMA AcceptedFits ==
  ASSUME NEW r \in Readers, NEW job \in Jobs(r), job.what = "quote", Gate(job),
         NEW ref, ref.ask = AskOf(job), Accepts(job, QuoteOf(ref))
  PROVE  Fits(job, QuoteOf(ref))
<1>1. job.door \in Kits \union Servers \union {"route_eval"}
  BY JobsAssumption
<1>2. CASE job.door \in Kits
  <2>1. KitAccepts(QuoteOf(ref), AskOf(job))
    BY <1>2 DEF Accepts, Kits, Servers
  <2>2. PublicRoute(job.from, job.to)
    BY <1>2 DEF Gate, Kits
  <2> QED BY <2>1, <2>2, KitFits
<1>3. CASE job.door \in Servers \union {"route_eval"}
  <2>1. CoreAccepts(QuoteOf(ref), AskOf(job), now)
    BY <1>3 DEF Accepts, Kits, Servers, EvalAccepts
  <2> QED BY <2>1, CoreFits
<1> QED BY <1>1, <1>2, <1>3

(*------------------------------ honest quotes ------------------------------*)
LEMMA HonestQuote ==
  ASSUME NEW ref, ref.lie = None, PublicRoute(ref.ask.from, ref.ask.to), ref.kind \in GuidanceKinds
  PROVE  LET q == QuoteOf(ref)
         IN  /\ q.from = ref.ask.from /\ q.to = ref.ask.to /\ q.amount = ref.ask.amount
             /\ q.steps = StepsOf(Definition(q.from, q.to, FALSE)) /\ q.across = FALSE
             /\ SummaryValid(q.steps, Definition(q.from, q.to, FALSE))
             /\ Len(q.steps) = Len(Definition(q.from, q.to, FALSE))
             /\ q.raw = RawOf(q.from, CoreFinality) /\ q.supported /\ ~q.signing
             /\ q.handoff = "both" /\ GuidanceValid(q.guidance) /\ q.guidance.kind = ref.kind
             /\ q.issued = ref.issued /\ q.expires = ref.issued + Ttl
             /\ q.continuation = Continuation(q)
             /\ q.from.chain \notin SolanaOnlyChains =>
                  RequiredChains(q.steps) \subseteq ContinuationChains
<1> PICK from, to : from = ref.ask.from /\ to = ref.ask.to
  OBVIOUS
<1> PICK plan : plan = Definition(from, to, FALSE)
  OBVIOUS
<1> PICK honest : honest = Quoted(ref)
  OBVIOUS
<1>1. \A lie \in Lies : ref.lie # lie
  BY NoneAssumption
<1>2. from \in Endpoints /\ to \in Endpoints
  BY DEF PublicRoute, Executable
<1>3. /\ IsWay(plan, from, to) /\ SummaryValid(StepsOf(plan), plan)
      /\ \A i \in DOMAIN plan : StepsOf(plan)[i].minOut \in Int
  BY <1>2, PlansAreWays
<1>4. Len(StepsOf(plan)) = Len(plan) /\ Len(plan) \in Nat \ {0}
  BY <1>3, HonestSteps DEF IsWay
<1>12. from.chain \notin SolanaOnlyChains =>
         RequiredChains(StepsOf(plan)) \subseteq ContinuationChains
  <2>1. RequiredChains(StepsOf(plan)) = RequiredChains(plan)
    BY <1>3, HonestChains
  <2> QED BY <1>3, <2>1 DEF IsWay
<1>5. /\ honest.id = ref /\ honest.from = from /\ honest.to = to /\ honest.across = FALSE
      /\ honest.amount = ref.ask.amount
      /\ honest.raw = RawOf(from, CoreFinality) /\ honest.supported = TRUE /\ ~honest.signing
      /\ honest.handoff = "both" /\ honest.issued = ref.issued
      /\ honest.expires = ref.issued + Ttl
      /\ honest.guidance = [Guidance(ref.kind) EXCEPT !.verified = (ref.lie = "guidance") # @]
  BY <1>1 DEF Quoted, Lies
<1>6. honest.steps = StepsOf(plan)
  BY <1>1 DEF Quoted, Spoilt, Lies
<1>7. GuidanceValid(honest.guidance) /\ honest.guidance.kind = ref.kind
  <2>1. ref.lie # "guidance"
    BY <1>1 DEF Lies
  <2>2. honest.guidance = Guidance(ref.kind)
    BY <1>5, <2>1 DEF Guidance
  <2> QED BY <2>2 DEF GuidanceValid, Guidance, BestFrom, GuidanceKinds
<1>8. QuoteOf(ref) = [honest EXCEPT !.continuation = Continuation(honest)]
  <2>1. honest.steps # <<>>
    <3>1. Len(<<>>) = 0
      OBVIOUS
    <3> QED BY <1>4, <1>6, <3>1
  <2>2. ref.lie # "unbound"
    BY <1>1 DEF Lies
  <2> QED BY <2>1, <2>2 DEF QuoteOf
<1> PICK q : q = QuoteOf(ref)
  OBVIOUS
<1>9. DOMAIN honest = {"id", "from", "to", "steps", "across", "amount", "raw", "guidance",
                       "supported", "signing", "handoff", "continuation", "issued", "expires"}
  BY DEF Quoted
<1>10. /\ q.id = honest.id /\ q.from = from /\ q.to = to /\ q.across = FALSE
       /\ q.steps = honest.steps
       /\ q.amount = honest.amount /\ q.raw = honest.raw /\ q.guidance = honest.guidance
       /\ q.supported = TRUE /\ q.signing = honest.signing /\ q.handoff = honest.handoff
       /\ q.issued = honest.issued /\ q.expires = honest.expires
       /\ q.continuation = Continuation(honest)
  BY <1>5, <1>8, <1>9
<1>11. Continuation(honest) = Continuation(q)
  BY <1>10 DEF Continuation
<1> QED BY <1>3, <1>4, <1>5, <1>6, <1>7, <1>10, <1>11, <1>12

LEMMA HonestIsAccepted ==
  ASSUME NEW job, job.door \in Kits \union Servers \union {"route_eval"},
         NEW ref, ref.lie = None, ref.ask = AskOf(job), PublicRoute(job.from, job.to),
         ref.kind \in GuidanceKinds, now \in Int, NEW asked \in Int, ref.issued \in asked .. now,
         now <= asked + Timeout, ~Accepts(job, QuoteOf(ref))
  PROVE  UnknownTo(job, ref.kind)
<1> PICK q : q = QuoteOf(ref)
  OBVIOUS
<1> PICK at : at = now
  OBVIOUS
<1> DEFINE plan == Definition(q.from, q.to, FALSE)
<1>1. /\ ref.ask.from = job.from /\ ref.ask.to = job.to /\ ref.ask.amount = job.amount
  BY DEF AskOf
<1>2. /\ q.from = job.from /\ q.to = job.to /\ q.amount = job.amount
      /\ q.across = FALSE /\ SummaryValid(q.steps, plan) /\ Len(q.steps) = Len(plan)
      /\ q.raw = RawOf(q.from, CoreFinality) /\ q.supported /\ ~q.signing
      /\ q.handoff = "both" /\ GuidanceValid(q.guidance) /\ q.guidance.kind = ref.kind
      /\ q.issued = ref.issued /\ q.expires = ref.issued + Ttl
      /\ q.continuation = Continuation(q)
      /\ job.from.chain \notin SolanaOnlyChains =>
           RequiredChains(q.steps) \subseteq ContinuationChains
  BY <1>1, HonestQuote
<1>3. IntentMatches(q, AskOf(job)) /\ Executes(q)
  BY <1>2 DEF IntentMatches, AskOf, Executes
<1>4. CASE job.door \in Kits
  <2> SUFFICES ASSUME ref.kind # "offered", ~Disagreed(job) PROVE KitAccepts(q, AskOf(job))
    BY <1>4 DEF UnknownTo, Accepts, Kits, Servers
  <2>1. KitSummary(q)
    BY <1>2 DEF KitSummary, Disagreed
  <2> QED BY <1>2, <1>3, <2>1 DEF KitAccepts, KitGuidance
<1>5. CASE job.door \in Servers \union {"route_eval"}
  <2> SUFFICES ASSUME job.from.chain \notin SolanaOnlyChains PROVE Accepts(job, q)
    BY <1>5 DEF UnknownTo, Kits, Servers
  <2>1. CoreSummary(q)
    BY <1>2 DEF CoreSummary
  <2>2. ContinuationValid(q.continuation, q, at)
    <3>1. Continuation(q).issued = ref.issued /\ Continuation(q).expires = ref.issued + Ttl
      BY <1>2 DEF Continuation
    <3>2. Timeout \in Int /\ Ttl \in Int /\ Timeout < Ttl
      BY ReadersAssumption
    <3>3. ref.issued <= at /\ at < ref.issued + Ttl
      BY <3>2
    <3>4. Continuation(q).chains \subseteq ContinuationChains
      BY <1>2 DEF Continuation
    <3> QED BY <1>2, <3>1, <3>3, <3>4 DEF ContinuationValid
  <2>3. CoreAccepts(q, AskOf(job), at)
    BY <1>2, <1>3, <2>1, <2>2 DEF CoreAccepts, HandoffValid
  <2>4. EvalAccepts(q, AskOf(job), at)
    BY <1>2, <2>3 DEF EvalAccepts
  <2> QED BY <1>5, <2>3, <2>4 DEF Accepts, Kits, Servers
<1> QED BY <1>4, <1>5

(*------------------------------ one reading's step ------------------------------*)
\* Only the evaluator writes a file, and all it does is take quotes.
LEMMA FileIsOfQuotes ==
  ASSUME NEW r \in Readers, NEW job \in Jobs(r), job.out
  PROVE  job.door = "route_eval" /\ job.what = "quote"
BY JobsAssumption

LEMMA BegunIsRunning ==
  ASSUME IInv, NEW r \in Readers, reader[r].pc # "idle"
  PROVE  RunningOK(r, reader[r])
BY DEF IInv, ReadingOK, Idle

\* A reading may take a step that keeps what its file says of it, or one that changes a
\* file no one else has linked.
LEMMA OneReading ==
  ASSUME IInv, NEW r \in Readers, NEW rd, Becomes(r, rd), RunningOK(r, rd),
         Linked(rd) => file' = [quote |-> rd.quote, by |-> r],
         file' = file \/ \A s \in Readers \ {r} : ~(reader[s] # Idle /\ Linked(reader[s]))
  PROVE  IInv'
<1>1. now' = now /\ release' = release /\ reader' = [reader EXCEPT ![r] = rd]
  BY DEF Becomes
<1>2. DOMAIN reader = Readers
  BY DEF IInv
<1>3. /\ reader' = [s \in Readers |-> reader'[s]] /\ reader'[r] = rd
      /\ \A s \in Readers \ {r} : reader'[s] = reader[s]
  BY <1>1, <1>2
<1>4. ASSUME NEW s \in Readers
      PROVE  /\ ReadingOK(s, reader'[s])
             /\ reader'[s] # Idle /\ Linked(reader'[s]) => file' = Kept(s)'
  <2>1. CASE s = r
    BY <1>3, <2>1 DEF ReadingOK, Kept
  <2>2. CASE s # r
    <3>1. reader'[s] = reader[s] /\ Kept(s)' = Kept(s)
      BY <1>3, <2>2 DEF Kept
    <3>2. ReadingOK(s, reader[s]) /\ (reader[s] # Idle /\ Linked(reader[s]) => file = Kept(s))
      BY DEF IInv
    <3> QED BY <2>2, <3>1, <3>2
  <2> QED BY <2>1, <2>2
<1> QED BY <1>1, <1>3, <1>4 DEF IInv

LEMMA RefusedIsRunning ==
  ASSUME NEW r, NEW rd, HeldOK(r, rd), NEW why \in Reasons,
         why = "quote" => HonestOK(Refused(rd, why))
  PROVE  RunningOK(r, Refused(rd, why)) /\ ~Linked(Refused(rd, why))
<1> PICK new : new = Refused(rd, why)
  OBVIOUS
<1>1. DOMAIN rd = Fields /\ 0 \in 0 .. MaxTime
  BY ReadersAssumption DEF HeldOK
<1>2. /\ DOMAIN new = Fields /\ new.pc = "refused" /\ new.why = why /\ new.asked = 0
      /\ new.since = None /\ new.pending = {} /\ new.job = rd.job /\ new.caps = rd.caps
      /\ new.offers = rd.offers /\ new.choice = rd.choice /\ new.selection = rd.selection
  BY <1>1 DEF Fields, Refused, Ended
<1>3. HeldOK(r, new)
  BY <1>2 DEF HeldOK
<1>4. AccountedOK(new)
  BY <1>1, <1>2, NoneAssumption DEF AccountedOK, Waiting, Writing, Over
<1>5. PendingOK(new) /\ HonestOK(new)
  BY <1>2 DEF PendingOK, HonestOK, Waiting
<1>6. StageOK(new)
  BY <1>2, <1>5 DEF StageOK, WithQuote, Writing
<1> QED BY <1>2, <1>3, <1>4, <1>5, <1>6 DEF RunningOK, Linked

LEMMA ToldIsRunning ==
  ASSUME NEW r \in Readers, NEW rd, HeldOK(r, rd), rd.why = None, Gate(rd.job), ToldOK(rd),
         rd.job.what = "quote" => rd.quote \in Refs,
         rd.job.what = "choice" => SelectionOK(rd.selection, rd.job)
  PROVE  RunningOK(r, Told(rd))
<1> PICK new : new = Told(rd)
  OBVIOUS
<1>1. DOMAIN rd = Fields /\ 0 \in 0 .. MaxTime
  BY ReadersAssumption DEF HeldOK
<1>2. /\ DOMAIN new = Fields /\ new.pc = "told" /\ new.why = rd.why /\ new.asked = 0
      /\ new.since = None /\ new.pending = {} /\ new.job = rd.job /\ new.caps = rd.caps
      /\ new.offers = rd.offers /\ new.choice = rd.choice /\ new.selection = rd.selection
      /\ new.quote = rd.quote
  BY <1>1 DEF Fields, Told, Ended
<1>3. HeldOK(r, new)
  BY <1>2 DEF HeldOK
<1>4. AccountedOK(new)
  BY <1>1, <1>2 DEF AccountedOK, Waiting, Writing, Over
<1>5. PendingOK(new)
  BY <1>2 DEF PendingOK, Waiting
<1>6. ToldOK(new)
  BY <1>2 DEF ToldOK
<1>7. rd.job.what = "quote" => Fits(rd.job, QuoteOf(rd.quote))
  BY DEF ToldOK
<1>8. StageOK(new)
  BY <1>2, <1>6, <1>7 DEF StageOK, HonestOK, Writing
<1> QED BY <1>3, <1>4, <1>5, <1>8 DEF RunningOK

LEMMA SentIsRunning ==
  ASSUME IInv, NEW r, NEW rd, HeldOK(r, rd), rd.why = None, Gate(rd.job),
         NEW pc \in Waiting, NEW requests, requests # {},
         pc = "prelude" =>
           IF rd.job.what = "choice" THEN requests = {"selection"}
           ELSE requests \subseteq Listing /\ "capabilities" \in requests,
         pc = "quote" => requests = {"quote"} /\ rd.job.what = "quote",
         pc = "compare" => /\ requests \subseteq Providers /\ rd.offers \in [Providers -> Offers]
                           /\ rd.job.what = "quote" /\ rd.quote \in Refs
                           /\ Fits(rd.job, QuoteOf(rd.quote)),
         pc = "choose" => /\ requests = {"choice"} /\ rd.job.what = "choice"
                          /\ SelectionOK(rd.selection, rd.job)
  PROVE  RunningOK(r, Sent(rd, pc, requests))
<1> PICK new : new = Sent(rd, pc, requests)
  OBVIOUS
<1>1. DOMAIN rd = Fields /\ now \in 0 .. MaxTime /\ release \in Releases
  BY DEF HeldOK, IInv
<1>2. /\ DOMAIN new = Fields /\ new.pc = pc /\ new.why = rd.why /\ new.asked = now
      /\ new.since = release /\ new.pending = requests /\ new.job = rd.job /\ new.caps = rd.caps
      /\ new.offers = rd.offers /\ new.choice = rd.choice /\ new.selection = rd.selection
      /\ new.quote = rd.quote
  BY <1>1 DEF Fields, Sent
<1>3. HeldOK(r, new)
  BY <1>2 DEF HeldOK
<1>4. AccountedOK(new)
  BY <1>1, <1>2 DEF AccountedOK, Waiting
<1>5. PendingOK(new)
  BY <1>2 DEF PendingOK
<1>6. StageOK(new)
  BY <1>2 DEF StageOK, HonestOK, Waiting, Writing, WithQuote
<1> QED BY <1>2, <1>3, <1>4, <1>5, <1>6 DEF RunningOK

\* A quote that was accepted, and is in the file if it is to be, is compared or told.
LEMMA PrintedIsRunning ==
  ASSUME IInv, NEW r \in Readers, NEW rd, HeldOK(r, rd), rd.why = None, Gate(rd.job),
         rd.job.what = "quote", rd.quote \in Refs, Fits(rd.job, QuoteOf(rd.quote))
  PROVE  /\ RunningOK(r, Printed(rd))
         /\ Printed(rd).quote = rd.quote /\ Printed(rd).job = rd.job
<1>1. DOMAIN rd = Fields
  BY DEF HeldOK
<1>2. CASE rd.job.door = "route_eval" /\ Comparable(rd.job)
  <2> PICK offers : offers = [p \in Providers |-> 0]
    OBVIOUS
  <2> PICK held : held = [rd EXCEPT !.offers = offers]
    OBVIOUS
  <2>1. /\ DOMAIN held = Fields /\ held.job = rd.job /\ held.why = rd.why
        /\ held.caps = rd.caps /\ held.choice = rd.choice /\ held.selection = rd.selection
        /\ held.quote = rd.quote /\ held.offers = offers
    BY <1>1 DEF Fields
  <2>2. offers \in [Providers -> Offers]
    BY DEF Offers
  <2>3. HeldOK(r, held)
    BY <2>1, <2>2 DEF HeldOK
  <2>4. "compare" \in Waiting /\ Providers # {}
    BY DEF Waiting, Providers
  <2>5. RunningOK(r, Sent(held, "compare", Providers))
    BY <2>1, <2>2, <2>3, <2>4, SentIsRunning
  <2>6. Printed(rd) = Sent(held, "compare", Providers)
    BY <1>1, <1>2 DEF Printed, Sent, Fields
  <2>7. /\ Sent(held, "compare", Providers).quote = rd.quote
        /\ Sent(held, "compare", Providers).job = rd.job
    BY <2>1 DEF Sent, Fields
  <2> QED BY <2>5, <2>6, <2>7
<1>3. CASE ~(rd.job.door = "route_eval" /\ Comparable(rd.job))
  <2>1. Printed(rd) = Told(rd)
    BY <1>3 DEF Printed
  <2>2. ToldOK(rd)
    BY DEF ToldOK
  <2>3. Told(rd).quote = rd.quote /\ Told(rd).job = rd.job
    BY <1>1 DEF Told, Ended, Fields
  <2> QED BY <2>1, <2>2, <2>3, ToldIsRunning
<1> QED BY <1>2, <1>3

\* The answers before a quote are judged when the last of them is in.
LEMMA JudgedIsRunning ==
  ASSUME IInv, NEW r \in Readers, NEW rd, HeldOK(r, rd), rd.why = None, Gate(rd.job),
         rd.pc = "prelude", rd.job.what # "choice", rd.pending \subseteq Listing,
         "capabilities" \in rd.pending \/ rd.caps \in [Parts -> Releases],
         rd.asked \in 0 .. MaxTime, rd.since \in Releases
  PROVE  RunningOK(r, Judged(rd)) /\ ~Linked(Judged(rd))
<1>1. DOMAIN rd = Fields /\ rd.job \in Jobs(r)
  BY DEF HeldOK
<1>2. rd.job.what \in {"capabilities", "quote"} /\ (rd.job.out => rd.job.what = "quote")
  BY <1>1, JobsAssumption
<1>3. CASE rd.pending # {}
  <2>1. AccountedOK(rd) /\ PendingOK(rd) /\ StageOK(rd)
    BY <1>3 DEF AccountedOK, PendingOK, StageOK, HonestOK, Waiting, Writing, WithQuote
  <2> QED BY <1>3, <2>1 DEF Judged, RunningOK, Linked
<1>4. CASE rd.pending = {} /\ ~CapsAccepted(rd.job.door, rd.caps)
  BY <1>4, RefusedIsRunning DEF Judged, Reasons
<1>5. CASE rd.pending = {} /\ CapsAccepted(rd.job.door, rd.caps) /\ rd.job.what = "capabilities"
  <2>1. Judged(rd) = Told(rd) /\ ToldOK(rd)
    BY <1>5 DEF Judged, ToldOK
  <2>2. Told(rd).job = rd.job
    BY <1>1 DEF Told, Ended, Fields
  <2>3. RunningOK(r, Told(rd))
    BY <1>5, <2>1, ToldIsRunning
  <2> QED BY <1>2, <1>5, <2>1, <2>2, <2>3 DEF Linked
<1>6. CASE rd.pending = {} /\ CapsAccepted(rd.job.door, rd.caps) /\ rd.job.what = "quote"
  <2>1. "quote" \in Waiting
    BY DEF Waiting
  <2>2. RunningOK(r, Sent(rd, "quote", {"quote"}))
    BY <1>6, <2>1, SentIsRunning
  <2>3. Sent(rd, "quote", {"quote"}).pc = "quote"
    BY <1>1 DEF Sent, Fields
  <2>4. ~Linked(Sent(rd, "quote", {"quote"}))
    BY <2>3 DEF Linked
  <2>5. RunningOK(r, Refused(rd, "unlisted")) /\ ~Linked(Refused(rd, "unlisted"))
    BY RefusedIsRunning DEF Reasons
  <2> QED BY <1>6, <2>2, <2>4, <2>5 DEF Judged
<1> QED BY <1>2, <1>3, <1>4, <1>5, <1>6

(*---------------------------------- actions ----------------------------------*)
\* What a reading that waits for this request is known to be.
LEMMA WaitingFor ==
  ASSUME IInv, NEW r \in Readers, NEW request \in reader[r].pending
  PROVE  LET rd == reader[r]
         IN  /\ RunningOK(r, rd) /\ rd.pc \in Waiting /\ rd.since \in Releases
             /\ HeldOK(r, rd) /\ rd.why = None /\ Gate(rd.job)
             /\ request \in Listing => rd.pc = "prelude" /\ rd.job.what # "choice"
             /\ request = "quote" => rd.pc = "quote"
             /\ request = "selection" => rd.pc = "prelude" /\ rd.job.what = "choice"
             /\ request = "choice" => rd.pc = "choose"
             /\ request \in Providers => rd.pc = "compare"
<1> PICK rd : rd = reader[r]
  OBVIOUS
<1>1. RunningOK(r, rd)
  BY DEF IInv, ReadingOK, Idle
<1>2. rd.pc \in Waiting /\ PendingOK(rd)
  BY <1>1 DEF RunningOK, PendingOK
<1>3. rd.since \in Releases /\ HeldOK(r, rd) /\ rd.why = None /\ Gate(rd.job)
  BY <1>1, <1>2 DEF RunningOK, AccountedOK, StageOK, Waiting
<1>4. rd.pc \in {"prelude", "quote", "compare", "choose"}
  BY <1>2 DEF Waiting
<1>5. CASE rd.pc = "prelude" /\ rd.job.what = "choice"
  BY <1>1, <1>2, <1>3, <1>5 DEF PendingOK, Listing, Providers
<1>6. CASE rd.pc = "prelude" /\ rd.job.what # "choice"
  BY <1>1, <1>2, <1>3, <1>6 DEF PendingOK, Listing, Providers
<1>7. CASE rd.pc = "quote"
  BY <1>1, <1>2, <1>3, <1>7 DEF PendingOK, Listing, Providers
<1>8. CASE rd.pc = "compare"
  BY <1>1, <1>2, <1>3, <1>8 DEF PendingOK, Listing, Providers
<1>9. CASE rd.pc = "choose"
  BY <1>1, <1>2, <1>3, <1>9 DEF PendingOK, Listing, Providers
<1> QED BY <1>4, <1>5, <1>6, <1>7, <1>8, <1>9

\* A step of a reading that has linked no file, or that only moves on.
LEMMA UnlinkedStep ==
  ASSUME IInv, NEW r \in Readers, NEW rd, Becomes(r, rd), RunningOK(r, rd), ~Linked(rd),
         file' = file
  PROVE  IInv'
BY OneReading

LEMMA BeginKeeps ==
  ASSUME IInv, NEW r \in Readers, NEW job \in Jobs(r), Begin(r, job)
  PROVE  IInv'
<1> PICK rd : rd = [Idle EXCEPT !.job = job]
  OBVIOUS
<1>1. /\ DOMAIN rd = Fields /\ rd.job = job /\ rd.why = None /\ rd.caps = None /\ rd.offers = None
      /\ rd.choice = None
  BY DEF Idle, Fields
<1>2. HeldOK(r, rd)
  BY <1>1 DEF HeldOK
<1>3. CASE ~Gate(job)
  <2>1. Becomes(r, Refused(rd, "gate")) /\ file' = file
    BY <1>3 DEF Begin
  <2>2. RunningOK(r, Refused(rd, "gate")) /\ ~Linked(Refused(rd, "gate"))
    BY <1>2, RefusedIsRunning DEF Reasons
  <2> QED BY <2>1, <2>2, UnlinkedStep
<1>4. CASE Gate(job) /\ Prelude(job) # {}
  <2>1. Becomes(r, Sent(rd, "prelude", Prelude(job))) /\ file' = file
    BY <1>4 DEF Begin
  <2>2. IF job.what = "choice" THEN Prelude(job) = {"selection"}
        ELSE Prelude(job) \subseteq Listing /\ "capabilities" \in Prelude(job)
    <3>1. job.what \in {"capabilities", "quote", "choice"}
      BY JobsAssumption
    <3> QED BY <1>4, <3>1 DEF Prelude, Listing
  <2>3. RunningOK(r, Sent(rd, "prelude", Prelude(job)))
    BY <1>1, <1>2, <1>4, <2>2, SentIsRunning DEF Waiting
  <2>4. Sent(rd, "prelude", Prelude(job)).pc = "prelude"
    BY <1>1 DEF Sent, Fields
  <2>5. ~Linked(Sent(rd, "prelude", Prelude(job)))
    BY <2>4 DEF Linked
  <2> QED BY <2>1, <2>3, <2>5, UnlinkedStep
<1>5. CASE Gate(job) /\ Prelude(job) = {}
  <2>1. Becomes(r, Sent(rd, "quote", {"quote"})) /\ file' = file
    BY <1>5 DEF Begin
  <2>2. job.what = "quote"
    <3>1. job.what \in {"capabilities", "quote", "choice"}
      BY JobsAssumption
    <3> QED BY <1>5, <3>1 DEF Prelude
  <2>3. RunningOK(r, Sent(rd, "quote", {"quote"}))
    BY <1>1, <1>2, <1>5, <2>2, SentIsRunning DEF Waiting
  <2>4. Sent(rd, "quote", {"quote"}).pc = "quote"
    BY <1>1 DEF Sent, Fields
  <2>5. ~Linked(Sent(rd, "quote", {"quote"}))
    BY <2>4 DEF Linked
  <2> QED BY <2>1, <2>3, <2>5, UnlinkedStep
<1> QED BY <1>3, <1>4, <1>5

LEMMA AnswerPlainKeeps ==
  ASSUME IInv, NEW r \in Readers, AnswerPlain(r)
  PROVE  IInv'
<1> PICK rd : rd = reader[r]
  OBVIOUS
<1> PICK request \in rd.pending \intersect {"status", "manifest"} :
      Becomes(r, Judged([rd EXCEPT !.pending = @ \ {request}])) /\ file' = file
  BY DEF AnswerPlain
<1> PICK new : new = [rd EXCEPT !.pending = @ \ {request}]
  OBVIOUS
<1>1. /\ RunningOK(r, rd) /\ HeldOK(r, rd) /\ rd.since \in Releases /\ rd.why = None
      /\ Gate(rd.job) /\ rd.pc = "prelude" /\ rd.job.what # "choice"
  BY WaitingFor DEF Listing
<1>2. DOMAIN rd = Fields
  BY <1>1 DEF HeldOK
<1>3. /\ DOMAIN new = Fields /\ new.pc = "prelude" /\ new.job = rd.job /\ new.why = None
      /\ new.caps = rd.caps /\ new.offers = rd.offers /\ new.choice = rd.choice
      /\ new.selection = rd.selection /\ new.asked = rd.asked /\ new.since = rd.since
      /\ new.pending = rd.pending \ {request}
  BY <1>1, <1>2 DEF Fields
<1>4. HeldOK(r, new)
  BY <1>1, <1>3 DEF HeldOK
<1>5. /\ rd.pending \subseteq Listing /\ rd.asked \in 0 .. MaxTime
      /\ "capabilities" \in rd.pending \/ rd.caps \in [Parts -> Releases]
  BY <1>1 DEF RunningOK, PendingOK, AccountedOK
<1>6. /\ new.pending \subseteq Listing
      /\ "capabilities" \in new.pending \/ new.caps \in [Parts -> Releases]
  BY <1>3, <1>5
<1>7. RunningOK(r, Judged(new)) /\ ~Linked(Judged(new))
  BY <1>1, <1>3, <1>4, <1>5, <1>6, JudgedIsRunning
<1> QED BY <1>7, UnlinkedStep

LEMMA AnswerCapabilitiesKeeps ==
  ASSUME IInv, NEW r \in Readers, AnswerCapabilities(r)
  PROVE  IInv'
<1> PICK rd : rd = reader[r]
  OBVIOUS
<1>1. /\ "capabilities" \in rd.pending /\ file' = file
      /\ \E s \in Serving(rd) :
           LET ofRelease == [p \in Parts |-> s]
               answered(c) ==
                 Becomes(r, Judged([rd EXCEPT !.caps = c, !.pending = @ \ {"capabilities"}]))
           IN  \/ answered(ofRelease)
               \/ \E p \in Parts, other \in Releases \ {s} :
                    answered([ofRelease EXCEPT ![p] = other])
  BY DEF AnswerCapabilities
<1>2. /\ RunningOK(r, rd) /\ HeldOK(r, rd) /\ rd.since \in Releases /\ rd.why = None
      /\ Gate(rd.job) /\ rd.pc = "prelude" /\ rd.job.what # "choice"
  BY <1>1, WaitingFor DEF Listing
<1>3. Serving(rd) \subseteq Releases
  BY <1>2 DEF Serving, IInv
<1>4. PICK c \in [Parts -> Releases] :
        Becomes(r, Judged([rd EXCEPT !.caps = c, !.pending = @ \ {"capabilities"}]))
  BY <1>1, <1>3
<1> PICK new : new = [rd EXCEPT !.caps = c, !.pending = @ \ {"capabilities"}]
  OBVIOUS
<1>5. DOMAIN rd = Fields
  BY <1>2 DEF HeldOK
<1>6. /\ DOMAIN new = Fields /\ new.pc = "prelude" /\ new.job = rd.job /\ new.why = None
      /\ new.caps = c /\ new.offers = rd.offers /\ new.choice = rd.choice
      /\ new.selection = rd.selection /\ new.asked = rd.asked /\ new.since = rd.since
      /\ new.pending = rd.pending \ {"capabilities"}
  BY <1>2, <1>5 DEF Fields
<1>7. HeldOK(r, new)
  BY <1>2, <1>6 DEF HeldOK
<1>8. rd.pending \subseteq Listing /\ rd.asked \in 0 .. MaxTime
  BY <1>2 DEF RunningOK, PendingOK, AccountedOK
<1>9. RunningOK(r, Judged(new)) /\ ~Linked(Judged(new))
  BY <1>2, <1>6, <1>7, <1>8, JudgedIsRunning
<1> QED BY <1>1, <1>4, <1>9, UnlinkedStep

LEMMA AnswerQuoteKeeps ==
  ASSUME IInv, NEW r \in Readers, AnswerQuote(r)
  PROVE  IInv'
<1> PICK rd : rd = reader[r]
  OBVIOUS
<1>1. /\ RunningOK(r, rd) /\ HeldOK(r, rd) /\ rd.since \in Releases /\ rd.why = None
      /\ Gate(rd.job) /\ rd.pc = "quote"
  BY WaitingFor DEF AnswerQuote
<1>2. DOMAIN rd = Fields /\ rd.job \in Jobs(r) /\ rd.asked \in 0 .. MaxTime
  BY <1>1 DEF HeldOK, RunningOK, AccountedOK
<1>3. rd.job.what = "quote"
  BY <1>1 DEF RunningOK, StageOK
<1>4. Serving(rd) \subseteq {54, 65, 76, 80, 98, 100}
  BY <1>1, ReadersAssumption DEF Serving, IInv
<1> DEFINE Ref(kind, issued, lie) ==
             [ask |-> AskOf(rd.job), kind |-> kind, issued |-> issued, lie |-> lie]
           Answered(ref) == Becomes(r, Assessed([rd EXCEPT !.quote = ref, !.pending = {}]))
<1>5. PICK s \in Serving(rd), issued \in rd.asked .. now :
        \E kind \in GuidanceOf(s) :
          \/ Answered(Ref(kind, issued, None))
          \/ \E lie \in Lies : Answered([Ref(kind, issued, None) EXCEPT !.lie = lie])
  BY DEF AnswerQuote
<1>6. PICK kind \in GuidanceOf(s) :
        \/ Answered(Ref(kind, issued, None))
        \/ \E lie \in Lies : Answered([Ref(kind, issued, None) EXCEPT !.lie = lie])
  BY <1>5
<1>7. \A lie : [Ref(kind, issued, None) EXCEPT !.lie = lie] = Ref(kind, issued, lie)
  OBVIOUS
<1>8. PICK lie \in Lies \union {None} : Answered(Ref(kind, issued, lie))
  <2> HIDE DEF Answered, Ref
  <2> QED BY <1>6, <1>7
<1> PICK ref : ref = Ref(kind, issued, lie)
  OBVIOUS
<1> PICK new : new = [rd EXCEPT !.quote = ref, !.pending = {}]
  OBVIOUS
<1>9. /\ DOMAIN new = Fields /\ new.pc = "quote" /\ new.job = rd.job /\ new.why = None
      /\ new.caps = rd.caps /\ new.offers = rd.offers /\ new.choice = rd.choice
      /\ new.selection = rd.selection /\ new.asked = rd.asked /\ new.since = rd.since
      /\ new.quote = ref /\ new.pending = {}
  BY <1>1, <1>2 DEF Fields
<1>10. HeldOK(r, new)
  BY <1>1, <1>9 DEF HeldOK
<1>11. ref \in Refs /\ ref.ask = AskOf(rd.job)
  <2>1. kind \in GuidanceKinds
    <3>1. s \in {54, 65, 76, 80, 98, 100}
      BY <1>4
    <3> QED BY <1>6, <3>1 DEF GuidanceOf, GuidanceKinds
  <2>2. issued \in 0 .. MaxTime
    <3>1. now \in Int /\ now <= MaxTime /\ MaxTime \in Int
      BY ReadersAssumption DEF IInv
    <3>2. rd.asked \in Int /\ 0 <= rd.asked
      BY <1>2, <3>1
    <3> QED BY <3>1, <3>2
  <2>3. AskOf(rd.job) \in {AskOf(job) : job \in UNION {Jobs(t) : t \in Readers}}
    BY <1>2
  <2> QED BY <2>1, <2>2, <2>3 DEF Refs
<1>12. CASE ~Accepts(new.job, QuoteOf(new.quote))
  <2>1. HonestOK(Refused(new, "quote"))
    <3> SUFFICES ASSUME ref.lie = None,
                        rd.job.door = "route_eval" => PublicRoute(rd.job.from, rd.job.to)
                 PROVE  UnknownTo(rd.job, ref.kind)
      <4>1. Refused(new, "quote").job = rd.job /\ Refused(new, "quote").quote = ref
        BY <1>9 DEF Refused, Ended, Fields
      <4> QED BY <4>1 DEF HonestOK
    <3>1. rd.job.door \in Kits \union Servers \union {"route_eval"}
      BY <1>2, JobsAssumption
    <3>2. now <= rd.asked + Timeout
      BY DEF AnswerQuote, InTime
    <3>3. now \in Int /\ rd.asked \in Int
      BY <1>2 DEF IInv
    <3>4. ref.issued \in rd.asked .. now /\ ref.kind \in GuidanceKinds
      BY <1>11, <1>5 DEF Refs
    <3>5. ~Accepts(rd.job, QuoteOf(ref))
      BY <1>9, <1>12
    <3>6. PublicRoute(rd.job.from, rd.job.to)
      BY <1>1, <1>3 DEF Gate
    <3> QED BY <1>11, <3>1, <3>2, <3>3, <3>4, <3>5, <3>6, HonestIsAccepted
  <2>2. RunningOK(r, Refused(new, "quote")) /\ ~Linked(Refused(new, "quote"))
    BY <1>10, <2>1, RefusedIsRunning DEF Reasons
  <2>3. Assessed(new) = Refused(new, "quote")
    BY <1>12 DEF Assessed
  <2>4. file' = file
    BY DEF AnswerQuote
  <2> QED BY <1>8, <2>2, <2>3, <2>4, UnlinkedStep
<1>13. CASE Accepts(new.job, QuoteOf(new.quote))
  <2>1. Fits(rd.job, QuoteOf(ref))
    BY <1>1, <1>2, <1>3, <1>9, <1>11, <1>13, AcceptedFits
  <2>2. file' = file
    BY DEF AnswerQuote
  <2>3. CASE rd.job.door = "route_eval" /\ rd.job.out
    <3> PICK temp : temp = [new EXCEPT !.pc = "temp"]
      OBVIOUS
    <3>1. Assessed(new) = temp
      BY <1>9, <1>13, <2>3 DEF Assessed
    <3>2. /\ DOMAIN temp = Fields /\ temp.pc = "temp" /\ temp.job = rd.job /\ temp.why = None
          /\ temp.caps = rd.caps /\ temp.offers = rd.offers /\ temp.choice = rd.choice
          /\ temp.selection = rd.selection /\ temp.asked = rd.asked /\ temp.since = rd.since
          /\ temp.quote = ref /\ temp.pending = {}
      BY <1>9 DEF Fields
    <3>3. HeldOK(r, temp)
      BY <1>1, <3>2 DEF HeldOK
    <3>4. AccountedOK(temp) /\ PendingOK(temp)
      BY <1>1, <1>2, <3>2 DEF AccountedOK, PendingOK, Waiting, Writing
    <3>5. StageOK(temp)
      BY <1>1, <1>3, <1>11, <2>1, <3>2 DEF StageOK, HonestOK, WithQuote, Writing
    <3>6. RunningOK(r, temp) /\ ~Linked(temp)
      BY <3>2, <3>3, <3>4, <3>5 DEF RunningOK, Linked
    <3> QED BY <1>8, <2>2, <3>1, <3>6, UnlinkedStep
  <2>4. CASE ~(rd.job.door = "route_eval" /\ rd.job.out)
    <3>1. Assessed(new) = Printed(new)
      BY <1>9, <1>13, <2>4 DEF Assessed
    <3>2. /\ new.why = None /\ Gate(new.job) /\ new.job.what = "quote" /\ new.quote \in Refs
          /\ Fits(new.job, QuoteOf(new.quote))
      <4> HIDE DEF Ref
      <4> QED BY <1>1, <1>3, <1>9, <1>11, <2>1
    <3>3. RunningOK(r, Printed(new)) /\ Printed(new).job = rd.job
      BY <1>9, <1>10, <3>2, PrintedIsRunning
    <3>4. ~rd.job.out
      BY <1>2, <2>4, FileIsOfQuotes
    <3>5. ~Linked(Printed(new))
      BY <3>3, <3>4 DEF Linked
    <3> QED BY <1>8, <2>2, <3>1, <3>3, <3>5, UnlinkedStep
  <2> QED BY <2>3, <2>4
<1> QED BY <1>12, <1>13

LEMMA AcceptedSelection ==
  ASSUME NEW job, NEW best, NEW issued, NEW lie,
         SelectionAccepted(SelectionOf(job, best, issued, lie), job)
  PROVE  SelectionOK(SelectionOf(job, best, issued, lie), job)
<1> PICK s : s = SelectionOf(job, best, issued, lie)
  OBVIOUS
<1>1. /\ DOMAIN s = {"from", "to", "amount", "profile", "eta", "shortlist", "recommended", "guided",
                     "direct", "issued"}
      /\ s.shortlist = IF lie = "few" THEN Shortlist \ {"relay"} ELSE Shortlist
  BY DEF SelectionOf
<1>2. s.from = job.from /\ s.to = job.to /\ s.amount = job.amount /\ Cardinality(s.shortlist) = 3
  BY DEF SelectionAccepted
<1>3. lie # "few"
  <2>1. Shortlist \ {"relay"} = {"assetfare", "mayan"}
    BY DEF Shortlist
  <2>2. Cardinality({"assetfare"}) = 1 /\ IsFiniteSet({"assetfare"})
    BY FS_Singleton
  <2>3. Cardinality({"assetfare"} \union {"mayan"}) = 2
    BY <2>2, FS_AddElement
  <2>4. {"assetfare", "mayan"} = {"assetfare"} \union {"mayan"}
    OBVIOUS
  <2> QED BY <1>1, <1>2, <2>1, <2>3, <2>4
<1>4. s = [f \in DOMAIN s |-> s[f]]
  BY DEF SelectionOf
<1> QED BY <1>1, <1>2, <1>3, <1>4 DEF SelectionOK

LEMMA AnswerSelectionKeeps ==
  ASSUME IInv, NEW r \in Readers, AnswerSelection(r)
  PROVE  IInv'
<1> PICK rd : rd = reader[r]
  OBVIOUS
<1>1. /\ RunningOK(r, rd) /\ HeldOK(r, rd) /\ rd.why = None /\ Gate(rd.job)
      /\ rd.job.what = "choice"
  BY WaitingFor DEF AnswerSelection
<1>2. PICK best, issued, lie :
        LET s == SelectionOf(rd.job, best, issued, lie)
        IN  Becomes(r, IF SelectionAccepted(s, rd.job)
                       THEN [Ended(rd, "shown") EXCEPT !.selection = s]
                       ELSE Refused(rd, "selection"))
  BY DEF AnswerSelection
<1>3. file' = file
  BY DEF AnswerSelection
<1> PICK s : s = SelectionOf(rd.job, best, issued, lie)
  OBVIOUS
<1>4. CASE ~SelectionAccepted(s, rd.job)
  <2>1. RunningOK(r, Refused(rd, "selection")) /\ ~Linked(Refused(rd, "selection"))
    BY <1>1, RefusedIsRunning DEF Reasons
  <2> QED BY <1>2, <1>3, <1>4, <2>1, UnlinkedStep
<1>5. CASE SelectionAccepted(s, rd.job)
  <2> PICK new : new = [Ended(rd, "shown") EXCEPT !.selection = s]
    OBVIOUS
  <2>1. DOMAIN rd = Fields /\ 0 \in 0 .. MaxTime
    BY <1>1, ReadersAssumption DEF HeldOK
  <2>2. /\ DOMAIN new = Fields /\ new.pc = "shown" /\ new.job = rd.job /\ new.why = None
        /\ new.caps = rd.caps /\ new.offers = rd.offers /\ new.choice = rd.choice
        /\ new.selection = s /\ new.asked = 0 /\ new.since = None /\ new.pending = {}
    BY <1>1, <2>1 DEF Ended, Fields
  <2>3. SelectionOK(s, rd.job)
    BY <1>5, AcceptedSelection
  <2>4. HeldOK(r, new)
    BY <1>1, <2>2, <2>3 DEF HeldOK
  <2>5. AccountedOK(new) /\ PendingOK(new)
    BY <2>1, <2>2 DEF AccountedOK, PendingOK, Waiting, Over
  <2>6. StageOK(new)
    BY <1>1, <2>2, <2>3 DEF StageOK, HonestOK, WithQuote, Writing
  <2>7. RunningOK(r, new) /\ ~Linked(new)
    BY <2>2, <2>4, <2>5, <2>6 DEF RunningOK, Linked
  <2> QED BY <1>2, <1>3, <1>5, <2>7, UnlinkedStep
<1> QED BY <1>4, <1>5

LEMMA ChooseKeeps ==
  ASSUME IInv, NEW r \in Readers, Choose(r)
  PROVE  IInv'
<1> PICK rd : rd = reader[r]
  OBVIOUS
<1>1. RunningOK(r, rd) /\ rd.pc = "shown" /\ file' = file
  BY BegunIsRunning DEF Choose
<1>2. PICK picked : Becomes(r, [Sent(rd, "choose", {"choice"}) EXCEPT
                                  !.choice = [picked |-> picked]])
  BY DEF Choose
<1> PICK held : held = [rd EXCEPT !.choice = [picked |-> picked]]
  OBVIOUS
<1>3. /\ HeldOK(r, rd) /\ DOMAIN rd = Fields /\ rd.why = None /\ Gate(rd.job)
      /\ rd.job.what = "choice" /\ SelectionOK(rd.selection, rd.job)
  BY <1>1 DEF RunningOK, HeldOK, AccountedOK, StageOK
<1>4. /\ DOMAIN held = Fields /\ held.job = rd.job /\ held.why = None
      /\ held.caps = rd.caps /\ held.offers = rd.offers /\ held.selection = rd.selection
  BY <1>3 DEF Fields
<1>5. HeldOK(r, held)
  BY <1>3, <1>4 DEF HeldOK
<1>6. RunningOK(r, Sent(held, "choose", {"choice"}))
  BY <1>3, <1>4, <1>5, SentIsRunning DEF Waiting
<1>7. Sent(held, "choose", {"choice"}) =
        [Sent(rd, "choose", {"choice"}) EXCEPT !.choice = [picked |-> picked]]
  BY <1>3 DEF Sent, Fields
<1>8. Sent(held, "choose", {"choice"}).pc = "choose"
  BY <1>4 DEF Sent, Fields
<1>9. ~Linked(Sent(held, "choose", {"choice"}))
  BY <1>8 DEF Linked
<1> QED BY <1>1, <1>2, <1>6, <1>7, <1>9, UnlinkedStep

\* Whatever the service spoils in a chosen quote, it is one for the asked intent.
LEMMA AnswerChoiceKeeps ==
  ASSUME IInv, NEW r \in Readers, AnswerChoice(r)
  PROVE  IInv'
<1> PICK rd : rd = reader[r]
  OBVIOUS
<1> DEFINE Answered(c) ==
      LET after == [rd EXCEPT !.choice = c]
      IN  Becomes(r, IF ChoiceAccepted(c, QuoteOf(c.quote), c.picked, rd.selection.issued,
                                       AskOf(rd.job), now)
                     THEN Told(after) ELSE Refused(after, "choice"))
<1>1. /\ RunningOK(r, rd) /\ HeldOK(r, rd) /\ rd.why = None /\ Gate(rd.job)
      /\ rd.job.what = "choice" /\ SelectionOK(rd.selection, rd.job)
  <2>1. RunningOK(r, rd) /\ HeldOK(r, rd) /\ rd.why = None /\ Gate(rd.job) /\ rd.pc = "choose"
    BY WaitingFor DEF AnswerChoice
  <2> QED BY <2>1 DEF RunningOK, StageOK
<1>2. PICK c : c.quote.ask = AskOf(rd.job) /\ Answered(c)
  <2>1. PICK at \in rd.asked .. now :
          LET c == Chosen(rd, at)
          IN  \/ Answered(c) \/ \E lie \in Lies : Answered([c EXCEPT !.quote.lie = lie])
              \/ \E other \in Shortlist \ {c.picked} : Answered([c EXCEPT !.candidate = other])
              \/ Answered([c EXCEPT !.receipt = @ + 1]) \/ Answered([c EXCEPT !.reused = ~@])
    BY DEF AnswerChoice
  <2> PICK c : c = Chosen(rd, at)
    OBVIOUS
  <2>2. /\ c.quote.ask = AskOf(rd.job)
        /\ \A lie : [c EXCEPT !.quote.lie = lie].quote.ask = AskOf(rd.job)
        /\ \A other : [c EXCEPT !.candidate = other].quote.ask = AskOf(rd.job)
        /\ [c EXCEPT !.receipt = @ + 1].quote.ask = AskOf(rd.job)
        /\ [c EXCEPT !.reused = ~@].quote.ask = AskOf(rd.job)
    BY DEF Chosen
  <2> HIDE DEF Answered
  <2> QED BY <2>1, <2>2
<1> PICK new : new = [rd EXCEPT !.choice = c]
  OBVIOUS
<1>3. /\ DOMAIN new = Fields /\ new.job = rd.job /\ new.why = None /\ new.caps = rd.caps
      /\ new.offers = rd.offers /\ new.selection = rd.selection /\ new.choice = c
  BY <1>1 DEF HeldOK, Fields
<1>4. HeldOK(r, new)
  BY <1>1, <1>3 DEF HeldOK
<1> DEFINE Taken == ChoiceAccepted(c, QuoteOf(c.quote), c.picked, rd.selection.issued,
                                   AskOf(rd.job), now)
<1>5. file' = file
  BY DEF AnswerChoice
<1>6. CASE ~Taken
  <2>1. RunningOK(r, Refused(new, "choice")) /\ ~Linked(Refused(new, "choice"))
    BY <1>4, RefusedIsRunning DEF Reasons
  <2> QED BY <1>2, <1>5, <1>6, <2>1, UnlinkedStep
<1>7. CASE Taken
  <2>1. c.picked = "assetfare" => Fits(rd.job, QuoteOf(c.quote))
    BY <1>2, <1>7, CoreFits DEF ChoiceAccepted
  <2>2. c.picked # "assetfare" =>
          c.candidate = c.picked /\ IntentMatches(QuoteOf(c.quote), AskOf(rd.job))
    BY <1>7 DEF ChoiceAccepted
  <2>3. ToldOK(new)
    <3>1. ChoiceOK(rd.job, c)
      BY <2>1, <2>2 DEF ChoiceOK
    <3> QED BY <1>1, <1>3, <3>1 DEF ToldOK
  <2>4. RunningOK(r, Told(new))
    BY <1>1, <1>3, <1>4, <2>3, ToldIsRunning
  <2>5. ~rd.job.out
    BY <1>1, FileIsOfQuotes DEF HeldOK
  <2>6. Told(new).job = rd.job
    BY <1>3 DEF Told, Ended, Fields
  <2>7. ~Linked(Told(new))
    BY <2>5, <2>6 DEF Linked
  <2> QED BY <1>2, <1>5, <1>7, <2>4, <2>7, UnlinkedStep
<1> QED BY <1>6, <1>7

\* A reading that moves on with the quote it has: its file stays what it was.
LEMMA SameQuoteStep ==
  ASSUME IInv, NEW r \in Readers, NEW rd, Becomes(r, rd), RunningOK(r, rd),
         reader[r].pc # "idle", rd.quote = reader[r].quote,
         Linked(rd) => Linked(reader[r]), file' = file
  PROVE  IInv'
<1>1. Linked(reader[r]) => file = Kept(r)
  BY DEF IInv, Idle
<1>2. Linked(rd) => file' = [quote |-> rd.quote, by |-> r]
  BY <1>1 DEF Kept
<1> QED BY <1>2, OneReading

LEMMA ComparedIsTold ==
  ASSUME NEW r \in Readers, NEW rd, RunningOK(r, rd), rd.pc = "compare"
  PROVE  /\ RunningOK(r, Told(rd)) /\ Told(rd).quote = rd.quote
         /\ Linked(Told(rd)) => Linked(rd)
<1>1. /\ HeldOK(r, rd) /\ DOMAIN rd = Fields /\ rd.why = None /\ Gate(rd.job)
      /\ rd.job.what = "quote" /\ rd.quote \in Refs /\ Fits(rd.job, QuoteOf(rd.quote))
  BY DEF RunningOK, HeldOK, AccountedOK, StageOK, WithQuote
<1>2. ToldOK(rd)
  BY <1>1 DEF ToldOK
<1>3. Told(rd).quote = rd.quote /\ Told(rd).job = rd.job
  BY <1>1 DEF Told, Ended, Fields
<1> QED BY <1>1, <1>2, <1>3, ToldIsRunning DEF Linked

LEMMA AnswerOfferKeeps ==
  ASSUME IInv, NEW r \in Readers, AnswerOffer(r)
  PROVE  IInv'
<1> PICK rd : rd = reader[r]
  OBVIOUS
<1>1. PICK p \in rd.pending \intersect Providers, amount \in Offers :
        Becomes(r, Compared(rd, p, amount)) /\ file' = file
  BY DEF AnswerOffer
<1>2. RunningOK(r, rd) /\ rd.pc = "compare"
  BY WaitingFor
<1>3. /\ HeldOK(r, rd) /\ AccountedOK(rd) /\ StageOK(rd) /\ PendingOK(rd) /\ DOMAIN rd = Fields
      /\ rd.offers \in [Providers -> Offers] /\ rd.pending \subseteq Providers
  BY <1>2 DEF RunningOK, HeldOK, PendingOK
<1> PICK after : after = [rd EXCEPT !.offers[p] = amount, !.pending = @ \ {p}]
  OBVIOUS
<1>4. /\ DOMAIN after = Fields /\ after.pc = "compare" /\ after.job = rd.job
      /\ after.why = rd.why /\ after.caps = rd.caps /\ after.choice = rd.choice
      /\ after.selection = rd.selection /\ after.asked = rd.asked /\ after.since = rd.since
      /\ after.quote = rd.quote /\ after.pending = rd.pending \ {p}
      /\ after.offers = [rd.offers EXCEPT ![p] = amount]
  BY <1>2, <1>3 DEF Fields
<1>5. after.offers \in [Providers -> Offers]
  BY <1>3, <1>4
<1>6. HeldOK(r, after)
  BY <1>3, <1>4, <1>5 DEF HeldOK
<1>7. StageOK(after)
  BY <1>2, <1>3, <1>4 DEF StageOK, HonestOK, WithQuote, Writing
<1>8. Linked(after) => Linked(rd)
  BY <1>2, <1>4 DEF Linked
<1>9. CASE after.pending # {}
  <2>1. AccountedOK(after) /\ PendingOK(after)
    BY <1>2, <1>3, <1>4, <1>5, <1>9 DEF AccountedOK, PendingOK, Waiting
  <2>2. RunningOK(r, after)
    BY <1>6, <1>7, <2>1 DEF RunningOK
  <2>3. Compared(rd, p, amount) = after
    BY <1>9 DEF Compared
  <2> QED BY <1>1, <1>2, <1>4, <1>8, <2>2, <2>3, SameQuoteStep
<1>10. CASE after.pending = {}
  <2>1. /\ after.why = None /\ Gate(after.job) /\ after.job.what = "quote"
        /\ after.quote \in Refs /\ Fits(after.job, QuoteOf(after.quote))
    BY <1>2, <1>3, <1>4 DEF AccountedOK, StageOK, WithQuote
  <2>2. ToldOK(after)
    BY <2>1 DEF ToldOK
  <2>3. RunningOK(r, Told(after))
    BY <1>6, <2>1, <2>2, ToldIsRunning
  <2>4. Told(after).quote = rd.quote /\ Told(after).job = rd.job
    BY <1>4 DEF Told, Ended, Fields
  <2>5. Linked(Told(after)) => Linked(rd)
    BY <1>2, <2>4 DEF Linked
  <2>6. Compared(rd, p, amount) = Told(after)
    BY <1>10 DEF Compared
  <2> QED BY <1>1, <1>2, <2>3, <2>4, <2>5, <2>6, SameQuoteStep
<1> QED BY <1>9, <1>10

LEMMA RefusingKeeps ==
  ASSUME IInv, NEW r \in Readers, reader[r].pc # "idle", NEW why \in Reasons \ {"quote"},
         Becomes(r, Refused(reader[r], why)), file' = file
  PROVE  IInv'
<1> PICK rd : rd = reader[r]
  OBVIOUS
<1>1. HeldOK(r, rd)
  BY BegunIsRunning DEF RunningOK
<1>2. RunningOK(r, Refused(rd, why)) /\ ~Linked(Refused(rd, why))
  BY <1>1, RefusedIsRunning
<1> QED BY <1>2, UnlinkedStep

LEMMA FailKeeps ==
  ASSUME IInv, NEW r \in Readers, Fail(r)
  PROVE  IInv'
BY RefusingKeeps DEF Fail, Waiting, Reasons

LEMMA TimeOutKeeps ==
  ASSUME IInv, NEW r \in Readers, TimeOut(r)
  PROVE  IInv'
<1> PICK rd : rd = reader[r]
  OBVIOUS
<1>1. rd.pc # "idle" /\ file' = file
  BY DEF TimeOut, Waiting
<1>2. CASE rd.pc = "compare"
  <2>1. Becomes(r, Told(rd))
    BY <1>2 DEF TimeOut
  <2>2. RunningOK(r, rd)
    BY <1>1, BegunIsRunning
  <2> QED BY <1>1, <1>2, <2>1, <2>2, ComparedIsTold, SameQuoteStep
<1>3. CASE rd.pc # "compare"
  <2>1. Becomes(r, Refused(rd, "request"))
    BY <1>3 DEF TimeOut
  <2> QED BY <1>1, <2>1, RefusingKeeps DEF Reasons
<1> QED BY <1>2, <1>3

\* A path that no one has taken is no one's file.
LEMMA LinkKeeps ==
  ASSUME IInv, NEW r \in Readers, Link(r)
  PROVE  IInv'
<1> PICK rd : rd = reader[r]
  OBVIOUS
<1>1. RunningOK(r, rd) /\ rd.pc = "temp"
  BY BegunIsRunning DEF Link
<1>2. CASE file = None
  <2> PICK new : new = [rd EXCEPT !.pc = "linked"]
    OBVIOUS
  <2>1. file' = Kept(r) /\ Becomes(r, new)
    BY <1>2 DEF Link
  <2>2. /\ HeldOK(r, rd) /\ AccountedOK(rd) /\ StageOK(rd) /\ PendingOK(rd) /\ DOMAIN rd = Fields
        /\ rd.pending = {}
    BY <1>1 DEF RunningOK, HeldOK, PendingOK, Waiting
  <2>3. /\ DOMAIN new = Fields /\ new.pc = "linked" /\ new.job = rd.job /\ new.why = rd.why
        /\ new.caps = rd.caps /\ new.offers = rd.offers /\ new.choice = rd.choice
        /\ new.selection = rd.selection /\ new.asked = rd.asked /\ new.since = rd.since
        /\ new.quote = rd.quote /\ new.pending = {}
    BY <2>2 DEF Fields
  <2>4. HeldOK(r, new)
    BY <2>2, <2>3 DEF HeldOK
  <2>5. AccountedOK(new) /\ PendingOK(new)
    BY <1>1, <2>2, <2>3 DEF AccountedOK, PendingOK, Waiting, Writing
  <2>6. StageOK(new)
    BY <1>1, <2>2, <2>3 DEF StageOK, HonestOK, WithQuote, Writing
  <2>7. RunningOK(r, new)
    BY <2>4, <2>5, <2>6 DEF RunningOK
  <2>8. file' = [quote |-> new.quote, by |-> r]
    BY <2>1, <2>3 DEF Kept
  <2>9. ASSUME NEW s \in Readers, reader[s] # Idle, Linked(reader[s])
        PROVE  FALSE
    <3>1. file = Kept(s) /\ RunningOK(s, reader[s])
      BY <2>9 DEF IInv, ReadingOK
    <3>2. reader[s].job \in Jobs(s) /\ reader[s].job.out /\ reader[s].pc \in WithQuote
      BY <2>9, <3>1 DEF RunningOK, HeldOK, Linked, WithQuote, Writing
    <3>3. reader[s].job.what = "quote"
      BY <3>2, FileIsOfQuotes
    <3>4. reader[s].quote \in Refs
      BY <3>1, <3>2, <3>3 DEF RunningOK, StageOK
    <3>5. Kept(s) \in [quote : Refs, by : Readers]
      BY <3>4 DEF Kept
    <3> QED BY <1>2, <3>1, <3>5, NoneAssumption
  <2> QED BY <2>1, <2>7, <2>8, <2>9, OneReading
<1>3. CASE file # None
  <2>1. Becomes(r, Refused(rd, "file")) /\ file' = file
    BY <1>3 DEF Link
  <2> QED BY <1>1, <2>1, RefusingKeeps DEF Reasons
<1> QED BY <1>2, <1>3

LEMMA UnlinkKeeps ==
  ASSUME IInv, NEW r \in Readers, Unlink(r)
  PROVE  IInv'
<1> PICK rd : rd = reader[r]
  OBVIOUS
<1>1. RunningOK(r, rd) /\ rd.pc = "linked" /\ Becomes(r, Printed(rd)) /\ file' = file
  BY BegunIsRunning DEF Unlink
<1>2. /\ HeldOK(r, rd) /\ rd.why = None /\ Gate(rd.job) /\ rd.job.what = "quote"
      /\ rd.quote \in Refs /\ Fits(rd.job, QuoteOf(rd.quote))
  BY <1>1 DEF RunningOK, AccountedOK, StageOK, WithQuote, Writing
<1>3. /\ RunningOK(r, Printed(rd)) /\ Printed(rd).quote = rd.quote /\ Printed(rd).job = rd.job
  BY <1>2, PrintedIsRunning
<1>4. Linked(Printed(rd)) => Linked(rd)
  BY <1>1, <1>3 DEF Linked
<1> QED BY <1>1, <1>3, <1>4, SameQuoteStep

LEMMA WriteFailsKeeps ==
  ASSUME IInv, NEW r \in Readers, WriteFails(r)
  PROVE  IInv'
BY RefusingKeeps DEF WriteFails, Writing, Reasons

LEMMA KillKeeps ==
  ASSUME IInv, NEW r \in Readers, Kill(r)
  PROVE  IInv'
BY RefusingKeeps DEF Kill, Waiting, Writing, Reasons

LEMMA UntouchedReadings ==
  ASSUME IInv, reader' = reader, file' = file, now' \in 0 .. MaxTime, release' \in Releases
  PROVE  IInv'
<1>1. \A r \in Readers : Kept(r)' = Kept(r)
  BY DEF Kept
<1> QED BY <1>1 DEF IInv

(*---------------------------- the invariant holds ----------------------------*)
LEMMA Initially == Init => IInv
<1> SUFFICES ASSUME Init PROVE IInv
  OBVIOUS
<1>1. now \in 0 .. MaxTime
  BY ReadersAssumption DEF Init
<1>2. \A r \in Readers : reader[r] = Idle
  BY DEF Init
<1> QED BY <1>1, <1>2 DEF Init, IInv, ReadingOK

LEMMA Inductive == IInv /\ [Next]_vars => IInv'
<1> SUFFICES ASSUME IInv, [Next]_vars PROVE IInv'
  OBVIOUS
<1>1. ASSUME NEW r \in Readers, NEW door, BeginAt(r, door)
      PROVE  IInv'
  BY <1>1, BeginKeeps DEF BeginAt
<1>2. ASSUME NEW r \in Readers,
             \/ Agenti(r) \/ Coinbase(r) \/ Elizaos(r) \/ Goat(r) \/ SolanaKit(r)
             \/ Mcp(r) \/ A2a(r) \/ RouteEval(r)
      PROVE  IInv'
  BY <1>1, <1>2 DEF Agenti, Coinbase, Elizaos, Goat, SolanaKit, Mcp, A2a, RouteEval
<1>3. ASSUME NEW r \in Readers, Service(r) \/ Choose(r)
      PROVE  IInv'
  BY <1>3, AnswerPlainKeeps, AnswerCapabilitiesKeeps, AnswerQuoteKeeps, AnswerOfferKeeps,
     AnswerSelectionKeeps, AnswerChoiceKeeps, FailKeeps, ChooseKeeps DEF Service
<1>4. ASSUME NEW r \in Readers, TimeOut(r) \/ FileStep(r) \/ Kill(r)
      PROVE  IInv'
  BY <1>4, TimeOutKeeps, LinkKeeps, UnlinkKeeps, WriteFailsKeeps, KillKeeps DEF FileStep
<1>5. CASE Rollout
  <2>1. now \in 0 .. MaxTime
    BY DEF IInv
  <2> QED BY <1>5, <2>1, UntouchedReadings DEF Rollout
<1>6. CASE Tick
  <2>1. now \in 0 .. MaxTime /\ MaxTime \in Nat /\ release \in Releases
    BY ReadersAssumption DEF IInv
  <2>2. now' \in 0 .. MaxTime
    BY <1>6, <2>1 DEF Tick
  <2> QED BY <1>6, <2>1, <2>2, UntouchedReadings DEF Tick
<1>7. CASE UNCHANGED vars
  <2>1. now \in 0 .. MaxTime /\ release \in Releases
    BY DEF IInv
  <2> QED BY <1>7, <2>1, UntouchedReadings DEF vars
<1> QED BY <1>2, <1>3, <1>4, <1>5, <1>6, <1>7 DEF Next

LEMMA Always == Spec => []IInv
BY Initially, Inductive, PTL DEF Spec

(*---------------------------- what the invariant says ----------------------------*)
LEMMA HighestIsBest ==
  ASSUME NEW offers \in [Providers -> Offers]
  PROVE  Best(offers)
<1> DEFINE amount(i) == OfferOf(offers, Ranking[i])
           best(i) == \A j \in DOMAIN Ranking :
                        amount(i) > amount(j) \/ (amount(i) = amount(j) /\ i <= j)
<1>1. /\ DOMAIN Ranking = 1 .. 3 /\ Ranking[1] = "assetfare" /\ Ranking[2] = "relay"
      /\ Ranking[3] = "mayan"
  BY DEF Ranking
<1>2. /\ amount(1) \in Int /\ amount(2) = offers["relay"] /\ amount(2) \in Int
      /\ amount(3) = offers["mayan"] /\ amount(3) \in Int
  BY <1>1 DEF OfferOf, Offers, AssetFareOffer, Providers
<1>3. \E i \in DOMAIN Ranking : best(i)
  <2> HIDE DEF amount
  <2>1. CASE amount(1) >= amount(2) /\ amount(1) >= amount(3)
    <3>1. best(1)
      BY <1>1, <1>2, <2>1
    <3> QED BY <1>1, <3>1
  <2>2. CASE amount(2) > amount(1) /\ amount(2) >= amount(3)
    <3>1. best(2)
      BY <1>1, <1>2, <2>2
    <3> QED BY <1>1, <3>1
  <2>3. CASE amount(3) > amount(1) /\ amount(3) > amount(2)
    <3>1. best(3)
      BY <1>1, <1>2, <2>3
    <3> QED BY <1>1, <3>1
  <2> QED BY <1>2, <2>1, <2>2, <2>3
<1>4. PICK i \in DOMAIN Ranking : best(i) /\ Highest(offers) = Ranking[i]
  BY <1>3 DEF Highest
<1>5. amount(i) >= amount(2) /\ amount(i) >= amount(3)
  <2> HIDE DEF amount
  <2>1. amount(i) \in Int
    BY <1>1, <1>2
  <2> QED BY <1>1, <1>2, <1>4, <2>1
<1> QED BY <1>2, <1>4, <1>5 DEF Best, Providers

\* In every reachable state every reading is at a step of its program, waits only for what
\* it asked for and holds the answers it has.
THEOREM TypeCorrect == Spec => []TypeOK
<1>1. IInv => TypeOK
  <2> SUFFICES ASSUME IInv, NEW r \in Readers
               PROVE  LET rd == reader[r]
                      IN  /\ [pc |-> rd.pc, asked |-> rd.asked, since |-> rd.since] \in Reading
                          /\ (rd.pending # {}) = (rd.pc \in Waiting)
                          /\ rd.job # None => rd.job \in Jobs(r)
                          /\ rd.caps # None => rd.caps \in [Parts -> Releases]
                          /\ rd.offers # None => rd.offers \in [Providers -> Offers]
                          /\ (rd.why # None) = (rd.pc = "refused")
                          /\ (rd.choice # None \/ rd.pc = "shown") =>
                               rd.selection.shortlist = Shortlist
    BY DEF IInv, TypeOK
  <2> PICK rd : rd = reader[r]
    OBVIOUS
  <2>1. CASE rd = Idle
    BY <2>1, ReadersAssumption DEF Idle, Reading, Waiting
  <2>2. CASE RunningOK(r, rd)
    <3>1. HeldOK(r, rd) /\ AccountedOK(rd) /\ StageOK(rd) /\ PendingOK(rd)
      BY <2>2 DEF RunningOK
    <3>2. [pc |-> rd.pc, asked |-> rd.asked, since |-> rd.since] \in Reading
      BY <3>1 DEF Reading, AccountedOK
    <3>3. (rd.choice # None \/ rd.pc = "shown") => rd.selection.shortlist = Shortlist
      BY <3>1 DEF HeldOK, StageOK, SelectionOK
    <3> QED BY <3>1, <3>2, <3>3 DEF HeldOK, AccountedOK, PendingOK
  <2> QED BY <2>1, <2>2 DEF IInv, ReadingOK
<1> QED BY <1>1, Always, PTL

\* An evaluation that says its quote is persisted finds that quote at the path, whatever
\* other evaluators of the same path do and wherever they are interrupted.
THEOREM FilesAreKept == Spec => []ClaimedIsKept
<1>1. IInv => ClaimedIsKept
  <2> SUFFICES ASSUME IInv, NEW r \in Readers, Claims(r)
               PROVE  file = Kept(r)
    BY DEF ClaimedIsKept
  <2>1. reader[r] # Idle /\ Linked(reader[r])
    BY DEF Claims, Linked, Idle
  <2> QED BY <2>1 DEF IInv
<1> QED BY <1>1, Always, PTL

\* What a door tells of a quote is so, whatever the service answered.
THEOREM TellingIsTrue == Spec => []ToldIsTrue
<1>1. IInv => ToldIsTrue
  <2> SUFFICES ASSUME IInv, NEW r \in Readers, reader[r].pc = "told",
                      reader[r].job.what # "capabilities"
               PROVE  LET rd == reader[r]
                          q  == QuoteOf(IF rd.job.what = "choice" THEN rd.choice.quote
                                        ELSE rd.quote)
                      IN  IF rd.job.what = "choice" /\ rd.choice.picked # "assetfare"
                          THEN /\ rd.choice.candidate = rd.choice.picked
                               /\ [rd.selection EXCEPT !.from = q.from, !.to = q.to,
                                                       !.amount = q.amount] = rd.selection
                          ELSE /\ Asked(rd.job, q) /\ Guarantees(q) /\ Backed(rd.job, q)
                               /\ rd.offers # None => Best(rd.offers)
    BY DEF ToldIsTrue
  <2> PICK rd : rd = reader[r]
    OBVIOUS
  <2>1. RunningOK(r, rd)
    BY BegunIsRunning
  <2>2. ToldOK(rd) /\ HeldOK(r, rd)
    BY <2>1 DEF RunningOK, StageOK
  <2>3. rd.job.what \in {"quote", "choice"}
    BY <2>2, JobsAssumption DEF HeldOK
  <2>4. rd.offers # None => Best(rd.offers)
    BY <2>2, HighestIsBest DEF HeldOK
  <2>5. CASE rd.job.what = "quote"
    <3>1. Fits(rd.job, QuoteOf(rd.quote))
      BY <2>2, <2>5 DEF ToldOK
    <3> QED BY <2>4, <2>5, <3>1 DEF Fits
  <2>6. CASE rd.job.what = "choice" /\ rd.choice.picked = "assetfare"
    <3>1. Fits(rd.job, QuoteOf(rd.choice.quote))
      BY <2>2, <2>6 DEF ToldOK, ChoiceOK
    <3> QED BY <2>4, <2>6, <3>1 DEF Fits
  <2>7. CASE rd.job.what = "choice" /\ rd.choice.picked # "assetfare"
    <3> PICK q : q = QuoteOf(rd.choice.quote)
      OBVIOUS
    <3>1. rd.choice.candidate = rd.choice.picked /\ IntentMatches(q, AskOf(rd.job))
      BY <2>2, <2>7 DEF ToldOK, ChoiceOK
    <3>2. q.from = rd.job.from /\ q.to = rd.job.to /\ q.amount = rd.job.amount
      BY <3>1 DEF IntentMatches, AskOf
    <3>3. SelectionOK(rd.selection, rd.job)
      BY <2>1, <2>7 DEF RunningOK, StageOK
    <3>4. rd.selection.from = q.from /\ rd.selection.to = q.to /\ rd.selection.amount = q.amount
      BY <3>2, <3>3 DEF SelectionOK
    <3> PICK s : s = rd.selection
      OBVIOUS
    <3>5. s = [f \in DOMAIN s |-> s[f]] /\ {"from", "to", "amount"} \subseteq DOMAIN s
      BY <3>3 DEF SelectionOK
    <3>6. [s EXCEPT !.from = q.from, !.to = q.to, !.amount = q.amount] = s
      BY <3>4, <3>5
    <3> QED BY <2>7, <3>1, <3>6
  <2> QED BY <2>3, <2>5, <2>6, <2>7
<1> QED BY <1>1, Always, PTL

LEMMA AtMostOneOther ==
  ASSUME NEW c, NEW s, AlmostOf(c, s), NEW p \in Parts, NEW q \in Parts, p # q
  PROVE  c[p] = s \/ c[q] = s
<1> SUFFICES ASSUME c[p] # s, c[q] # s PROVE FALSE
  OBVIOUS
<1> DEFINE others == {o \in Parts : c[o] # s}
<1>1. IsFiniteSet(Parts)
  <2>1. IsFiniteSet({"count"} \union {"directed"} \union {"implemented"} \union {"endpoints"})
    <3>1. IsFiniteSet({"count"})
      BY FS_Singleton
    <3>2. IsFiniteSet({"count"} \union {"directed"})
      BY <3>1, FS_AddElement
    <3>3. IsFiniteSet({"count"} \union {"directed"} \union {"implemented"})
      BY <3>2, FS_AddElement
    <3> QED BY <3>3, FS_AddElement
  <2>2. IsFiniteSet({"count"} \union {"directed"} \union {"implemented"} \union {"endpoints"}
                      \union {"policy"} \union {"floor"} \union {"guidance"})
    <3>1. IsFiniteSet({"count"} \union {"directed"} \union {"implemented"} \union {"endpoints"}
                        \union {"policy"})
      BY <2>1, FS_AddElement
    <3>2. IsFiniteSet({"count"} \union {"directed"} \union {"implemented"} \union {"endpoints"}
                        \union {"policy"} \union {"floor"})
      BY <3>1, FS_AddElement
    <3> QED BY <3>2, FS_AddElement
  <2>3. Parts = {"count"} \union {"directed"} \union {"implemented"} \union {"endpoints"}
                  \union {"policy"} \union {"floor"} \union {"guidance"}
    BY DEF Parts
  <2> QED BY <2>2, <2>3
<1>2. IsFiniteSet(others) /\ Cardinality(others) \in Nat
  BY <1>1, FS_Subset, FS_CardinalityType
<1>3. Cardinality({p, q}) = 2
  <2>1. IsFiniteSet({p}) /\ Cardinality({p}) = 1
    BY FS_Singleton
  <2>2. Cardinality({p} \union {q}) = 2
    BY <2>1, FS_AddElement
  <2>3. {p, q} = {p} \union {q}
    OBVIOUS
  <2> QED BY <2>2, <2>3
<1>4. Cardinality({p, q}) <= Cardinality(others)
  <2>1. {p, q} \subseteq others
    OBVIOUS
  <2> QED BY <1>2, <2>1, FS_Subset
<1> QED BY <1>2, <1>3, <1>4 DEF AlmostOf

\* Since the expansion, the endpoints of a release and the versions it lets execute tell it
\* from every other.
Expanded == {54, 65, 80, 98, 100}

LEMMA EndpointsTell ==
  ASSUME NEW a \in Expanded, NEW b \in Expanded, EndpointsOf(a) = EndpointsOf(b)
  PROVE  a = b
<1> DEFINE U == At("unichain", "USDC")   X == At("xlayer", "USDC")
           P == At("polygon", "USDC")    B == At("base", "ETH")
<1>1. U \in Endpoints /\ X \in Endpoints /\ P \in Endpoints /\ B \in Endpoints
  BY DEF At, Endpoints, CoreEndpoints, SourceOnlyChains, NoForwardChains, CandidateChains,
         SolanaOnlyChains
<1>2. /\ U.chain \in SolanaOnlyChains /\ X.chain \notin SolanaOnlyChains
      /\ P.chain \notin SolanaOnlyChains /\ B.chain \notin SolanaOnlyChains
      /\ X.chain \in CandidateChains /\ P.chain \notin CandidateChains
      /\ B.chain \notin CandidateChains
      /\ U # P /\ U # B /\ X # P /\ X # B /\ P # B
  BY DEF At, CandidateChains, SolanaOnlyChains
<1> DEFINE Has(e, r) == e \in EndpointsOf(r)
<1>3. Has(U, 100) /\ Has(X, 100) /\ Has(B, 100) /\ Has(P, 100)
  BY <1>1 DEF EndpointsOf
<1>4. ~Has(U, 98) /\ Has(X, 98) /\ Has(B, 98) /\ Has(P, 98)
  BY <1>1, <1>2 DEF EndpointsOf
<1>5. Has(U, 65) /\ Has(X, 65) /\ Has(B, 65) /\ ~Has(P, 65)
  BY <1>1, <1>2 DEF EndpointsOf
<1>6. ~Has(U, 54) /\ Has(X, 54) /\ ~Has(B, 54) /\ ~Has(P, 54)
  BY <1>1, <1>2 DEF EndpointsOf
<1>7. ~Has(U, 80) /\ ~Has(X, 80) /\ Has(B, 80) /\ Has(P, 80)
  BY <1>1, <1>2 DEF EndpointsOf
<1>8. \A e : Has(e, a) = Has(e, b)
  OBVIOUS
<1> HIDE DEF Has, U, X, P, B
<1> QED BY <1>3, <1>4, <1>5, <1>6, <1>7, <1>8 DEF Expanded

\* The 76-route release is taken with the policy of another, and one version is a floor of
\* both the 54-route and the 80-route release.
ToldApart == Releases \subseteq Expanded /\ ~({54, 80} \subseteq Releases)

LEMMA FloorsTell ==
  ASSUME ToldApart, NEW a \in Releases, NEW b \in Releases, Floors(a) \intersect Floors(b) # {}
  PROVE  a = b
BY DEF Floors, Expanded, ToldApart

\* Capabilities that a server or an integration tells are of one release, also when one part
\* of them is another's, for releases that can be told apart.
THEOREM CapabilitiesOfOneRelease ==
  ASSUME ToldApart
  PROVE  Spec => []VerifiedIsOfOneRelease
<1>1. IInv => VerifiedIsOfOneRelease
  <2> SUFFICES ASSUME IInv, NEW r \in Readers, reader[r].pc = "told",
                      reader[r].job.what = "capabilities",
                      NEW s \in Releases, AlmostOf(reader[r].caps, s)
               PROVE  \A p \in PartsTold(reader[r].job.door) : reader[r].caps[p] = s
    BY DEF VerifiedIsOfOneRelease
  <2> PICK c : c = reader[r].caps
    OBVIOUS
  <2> PICK job \in Jobs(r) : job = reader[r].job
    BY BegunIsRunning DEF RunningOK, HeldOK
  <2>1. c \in [Parts -> Releases] /\ CapsAccepted(job.door, c)
    <3>1. ToldOK(reader[r])
      BY BegunIsRunning DEF RunningOK, StageOK
    <3> QED BY <3>1 DEF ToldOK
  <2>2. job.door \in Kits \/ job.door \in Servers
    BY JobsAssumption
  <2>3. \A p, q \in Parts : p # q => c[p] = s \/ c[q] = s
    BY AtMostOneOther
  <2>4. /\ c.directed = s \/ c.implemented = s
        /\ c.directed = s \/ c.count = s
        /\ c.policy = s \/ c.guidance = s
        /\ c.policy = s \/ c.floor = s
        /\ c.endpoints = s \/ c.count = s
        /\ c.count = s \/ c.policy = s
    BY <2>3 DEF Parts
  <2>5. CASE job.door \in Kits
    <3>1. KitCaps(c)
      BY <2>1, <2>5 DEF CapsAccepted, Kits, Servers
    <3>2. c.directed = s /\ c.implemented = s /\ c.policy = s /\ c.guidance = s
      BY <2>4, <3>1 DEF KitCaps
    <3> QED BY <2>5, <3>2 DEF PartsTold
  <2>6. CASE job.door \in Servers
    <3>1. CoreCaps(c)
      BY <2>1, <2>6 DEF CapsAccepted, Kits, Servers
    <3>2. c.count = s /\ c.directed = s
      BY <2>4, <3>1 DEF CoreCaps
    <3>3. s # 76 /\ s \in Expanded
      BY DEF ToldApart, Expanded
    <3>4. PolicyValid(c)
      BY <3>1, <3>2, <3>3 DEF CoreCaps
    <3>5. c.policy = s /\ c.guidance = s
      BY <2>4, <3>4 DEF PolicyValid
    <3>6. c.floor = s
      <4>1. Floors(c.floor) \intersect Floors(s) # {}
        BY <3>4, <3>5 DEF PolicyValid
      <4>2. c.floor \in Releases
        BY <2>1 DEF Parts
      <4> QED BY <4>1, <4>2, FloorsTell
    <3>7. c.endpoints = s
      <4>1. EndpointsOf(c.endpoints) = EndpointsOf(s)
        BY <3>1, <3>2 DEF CoreCaps
      <4>2. c.endpoints \in Expanded
        BY <2>1 DEF Parts, ToldApart
      <4> QED BY <3>3, <4>1, <4>2, EndpointsTell
    <3>8. PartsTold(job.door) = Parts \ {"implemented"}
      BY <2>6 DEF PartsTold, Kits, Servers
    <3> QED BY <3>2, <3>5, <3>6, <3>7, <3>8 DEF Parts
  <2> QED BY <2>2, <2>5, <2>6
<1> QED BY <1>1, Always, PTL

\* The evaluator asks for routes a quote can be asked for, as the other doors make sure.
EvaluatedArePublic ==
  \A r \in Readers : \A job \in Jobs(r) :
    job.door = "route_eval" => PublicRoute(job.from, job.to)

\* A quote as the service should answer it is refused by no door, however late in its time
\* it arrives, but for what the integrations do not know.
THEOREM HonestQuotesAreTold ==
  ASSUME EvaluatedArePublic
  PROVE  Spec => []HonestQuoteTold
<1>1. IInv => HonestQuoteTold
  <2> SUFFICES ASSUME IInv, NEW r \in Readers, reader[r].pc = "refused", reader[r].why = "quote",
                      reader[r].quote.lie = None
               PROVE  UnknownTo(reader[r].job, reader[r].quote.kind)
    BY DEF HonestQuoteTold
  <2> PICK rd : rd = reader[r]
    OBVIOUS
  <2>1. HonestOK(rd) /\ rd.job \in Jobs(r)
    BY BegunIsRunning DEF RunningOK, StageOK, HeldOK
  <2>2. rd.job.door = "route_eval" => PublicRoute(rd.job.from, rd.job.to)
    BY <2>1 DEF EvaluatedArePublic
  <2> QED BY <2>1, <2>2 DEF HonestOK
<1> QED BY <1>1, Always, PTL
=============================================================================
