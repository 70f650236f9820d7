---------------------------- MODULE QuoteReaders ----------------------------
(***************************************************************************)
(* The read-only doors to the service: the capability and quote tools of   *)
(* the MCP server, the A2A endpoint and the five agent integrations, and   *)
(* the route evaluator with its quote file and its two comparison prices.  *)
(* A reading sends its requests, judges the answers and tells or refuses.  *)
(* The service may be rolled out to another release between two requests,  *)
(* fail or stay silent at any of them, and now and then answer wrongly.    *)
(***************************************************************************)
EXTENDS RouteChoice

CONSTANTS
  None,
  Readers,       \* readings, one call of a tool or one run of the evaluator each
  Jobs(_),       \* what a reading may be asked for
  Releases,      \* the service's releases, by their number of routes, that the code knows
  Timeout,       \* how long a request waits for its answer
  Ttl,           \* how long a quote lives
  MaxTime, MaxLies, MaxKills, MaxRollouts   \* bounds

ASSUME ReadersAssumption ==
  /\ Releases \subseteq {54, 65, 76, 80, 98, 100}
  /\ Timeout \in Nat \ {0} /\ Ttl \in Nat /\ Timeout < Ttl
  /\ {MaxTime, MaxLies, MaxKills, MaxRollouts} \subseteq Nat

VARIABLES
  now,       \* clock
  release,   \* release the service runs
  reader,    \* the readings
  file,      \* what is at the output path the evaluators share
  spent      \* lies told, processes killed, rollouts

vars == <<now, release, reader, file, spent>>

(*-------------------------------- doors --------------------------------*)
Kits    == {"agenti", "coinbase", "elizaos", "goat", "solana_kit"}
Servers == {"mcp", "a2a"}

AskOf(job) == [from |-> job.from, to |-> job.to, amount |-> job.amount]

\* Servers and integrations have capabilities and quotes, the MCP server a route choice
\* too; the evaluator takes one quote, and may write it to a file.
ASSUME JobsAssumption ==
  \A r \in Readers : \A job \in Jobs(r) :
    /\ job.door \in Kits \union Servers \union {"route_eval"}
    /\ job.what \in {"capabilities", "quote", "choice"}
    /\ job.what = "choice" => job.door = "mcp"
    /\ job.door = "route_eval" => job.what = "quote"
    /\ job.out \in BOOLEAN /\ (job.out => job.door = "route_eval")
    /\ job.amount \in Nat

\* What is asked of the service before a quote is, or instead of one.
Prelude(job) ==
  CASE job.what = "capabilities" ->
         {"capabilities"} \union IF job.door = "mcp" THEN {} ELSE {"status"}
    [] job.what = "choice" -> {"selection"}
    [] job.what = "quote" ->
         CASE job.door = "route_eval" -> {"manifest", "capabilities", "status"}
           [] job.door = "a2a"        -> {"capabilities", "status"}
           [] OTHER                   -> {}

\* Intents refused before any request.
Gate(job) ==
  CASE job.what = "capabilities" -> TRUE
    [] job.what = "choice"       -> PublicRoute(job.from, job.to) /\ PaceAllowed(job)
    [] job.what = "quote"        ->
         IF job.door = "route_eval" THEN job.from # job.to ELSE PublicRoute(job.from, job.to)

(*----------------------------- capabilities ----------------------------*)
\* Capabilities are what they say of the release: each part names one.
Parts == {"count", "directed", "implemented", "endpoints", "policy", "floor", "guidance"}

EndpointsOf(r) ==
  LET pre100 == {e \in Endpoints : e.chain \notin SolanaOnlyChains}
  IN  CASE r = 100 -> Endpoints
        [] r = 98  -> pre100
        [] r = 65  -> Endpoints \ {At("polygon", "USDC")}
        [] r = 54  -> pre100 \ {At("base", "ETH"), At("polygon", "USDC")}
        [] r = 80  -> {e \in pre100 : e.chain \notin CandidateChains}
        [] r = 76  -> {e \in pre100 : e.chain \notin CandidateChains \union ExpansionChains}

\* Package versions a policy may name as the oldest one to execute with.
Floors(r) ==
  CASE r = 100 -> {"1.20.1"}
    [] r = 98  -> {"1.16.0"}
    [] r = 65  -> {"1.21.3"}
    [] r = 54  -> {"1.13.0", "1.14.0", "1.14.1", "1.14.2", "1.14.3", "1.14.4", "1.14.5",
                   "1.15.0", "1.15.1", "1.15.3"}
    [] r = 80  -> {"1.12.0", "1.12.1", "1.13.0", "1.13.1", "1.13.2"}
    [] r = 76  -> {}

\* validateExpandedEconomicPolicy: the policy carries its own copy of the guidance.
PolicyValid(c) ==
  c.policy # 76 /\ c.guidance = c.policy /\ Floors(c.floor) \intersect Floors(c.policy) # {}
\* validatePreExpansionEconomicPolicy: no route depends on an amount.
PreExpansionValid(c) == c.policy \in {76, 80, 65}

CoreCapsAnyCount(c) ==   \* mutant: the numbers of routes are not compared
  /\ EndpointsOf(c.endpoints) = EndpointsOf(c.count)
  /\ IF c.count = 76 THEN PreExpansionValid(c) ELSE PolicyValid(c)
\* parseV2Capabilities and validateCapabilities.
CoreCaps(c) ==
  /\ c.directed = c.count
  /\ EndpointsOf(c.endpoints) = EndpointsOf(c.count)
  /\ IF c.count = 76 THEN PreExpansionValid(c) ELSE PolicyValid(c)
\* validateCapabilitiesEconomicGuidance, behind a schema that knows one number of routes.
KitCaps(c) ==
  /\ c.directed = 100 /\ c.implemented = 100
  /\ c.guidance \in {100, 54, 80} /\ c.policy = c.guidance
\* validateDirectRouteCapability, which has not heard of the product release.
EvalCaps(c) == c.count \in {76, 80, 54, 98, 100}

CapsAccepted(door, c) ==
  CASE door \in Servers     -> CoreCaps(c)
    [] door \in Kits        -> KitCaps(c)
    [] door = "route_eval"  -> EvalCaps(c)

(*-------------------------------- quotes -------------------------------*)
GuidanceOf(r) ==
  CASE r \in {98, 100} -> {"price", "availability", "compare"}
    [] r = 54          -> {"price", "availability"}
    [] r \in {76, 80}  -> {"unverified"}
    [] r = 65          -> {"offered"}

\* The published best-from amount of the routes that have one.
BestFrom == 50
Guidance(kind) ==
  [kind |-> kind, verified |-> kind = "price",
   start |-> IF kind \in {"price", "unverified"} THEN BestFrom ELSE 0]

\* What a wrong quote is wrong in.
Lies == {"route", "amount", "cut", "fee", "low", "stale", "unbound", "handoff",
         "signing", "guidance", "older"}

\* The base-unit amounts of step i of a plan: each step costs one unit of 10000.
Minimum(plan, i) ==
  IF i = 0 THEN 10000 ELSE CeilGuardFloor(10000 - i, GuardUpTo(plan, i))
StepsOf(plan) ==
  [i \in DOMAIN plan |->
     [provider |-> plan[i].provider, from |-> plan[i].from, to |-> plan[i].to,
      fee |-> plan[i].fee, guard |-> plan[i].guard,
      expIn |-> 10001 - i, minIn |-> Minimum(plan, i - 1),
      expOut |-> 10000 - i, minOut |-> Minimum(plan, i)]]

\* A quote is known by what it answers, its guidance, its age and what is wrong in it.
Elsewhere(ask) ==
  IF ask.to = At("base", "USDC") THEN At("solana", "SOL") ELSE At("base", "USDC")
Spoilt(steps, lie) ==
  LET n == Len(steps)
  IN  CASE lie = "cut" -> SubSeq(steps, 1, n - 1)
        [] lie = "fee" -> [i \in 1 .. n |-> [steps[i] EXCEPT !.fee = 1 - @]]
        [] lie = "low" -> [steps EXCEPT ![n].minOut = @ - 1]
        [] OTHER       -> steps
Quoted(ref) ==
  LET across == ref.lie = "older" /\ HasAcross(ref.ask.from, ref.ask.to)
      to     == IF ref.lie = "route" THEN Elsewhere(ref.ask) ELSE ref.ask.to
      steps  == Spoilt(StepsOf(Definition(ref.ask.from, to, across)), ref.lie)
      issued == IF ref.lie = "stale" THEN ref.issued - Ttl ELSE ref.issued
  IN  [id |-> ref, from |-> ref.ask.from, to |-> to, steps |-> steps, across |-> across,
       amount |-> IF ref.lie = "amount" THEN ref.ask.amount + 1 ELSE ref.ask.amount,
       raw |-> RawOf(ref.ask.from, CoreFinality),
       guidance |-> [Guidance(ref.kind) EXCEPT !.verified = (ref.lie = "guidance") # @],
       supported |-> TRUE, signing |-> ref.lie = "signing",
       handoff |-> IF ref.lie = "handoff" THEN "mixed" ELSE "both", continuation |-> None,
       issued |-> issued, expires |-> issued + Ttl]
Refs == [ask : {AskOf(job) : job \in UNION {Jobs(r) : r \in Readers}}, kind : GuidanceKinds,
         issued : 0 .. MaxTime, lie : Lies \union {None}]
QuoteOf(ref) ==
  LET q == Quoted(ref)
      bound == Continuation(q)
  IN  IF q.steps = <<>> THEN q
      ELSE [q EXCEPT !.continuation =
              IF ref.lie = "unbound" THEN [bound EXCEPT !.minOut = @ - 1] ELSE bound]

Accepts(job, q) ==
  CASE job.door \in Kits       -> KitAccepts(q, AskOf(job))
    [] job.door \in Servers    -> CoreAccepts(q, AskOf(job), now)
    [] job.door = "route_eval" -> EvalAccepts(q, AskOf(job), now)

(*--------------------------- what is told of it -------------------------*)
EvidenceRoute(job) == job.from = At("solana", "USDC") /\ job.to = At("base", "USDC")

\* use_assetfare_first: economicFit of the evaluator, the guidance of the other doors.
UseFirst(job, g) ==
  IF job.door # "route_eval" THEN g.start > 0 /\ job.amount >= g.start
  ELSE /\ g.kind # "availability"
       /\ IF g.start > 0 THEN job.amount # 1 /\ job.amount >= g.start
          ELSE EvidenceRoute(job) /\ job.amount >= 50

Providers == {"relay", "mayan"}
Comparable(job) ==
  /\ job.from = At("solana", "SOL") /\ job.to = At("base", "ETH") /\ ~job.alone

\* An offer of a provider is an amount, 0 when there is none or it is not a number.
AssetFareOffer == 2
Offers == {0, AssetFareOffer, AssetFareOffer + 1}
OfferOf(offers, p) == IF p = "assetfare" THEN AssetFareOffer ELSE offers[p]
Ranking == <<"assetfare", "relay", "mayan">>
\* highest_expected_receive_snapshot: the first of a stable sort of the readable offers.
Highest(offers) ==
  LET best(i) == \A j \in DOMAIN Ranking :
                   LET a == OfferOf(offers, Ranking[i])
                       b == OfferOf(offers, Ranking[j])
                   IN  a > b \/ (a = b /\ i <= j)
  IN  Ranking[CHOOSE i \in DOMAIN Ranking : best(i)]

(*------------------------------- readings ------------------------------*)
Idle == [pc |-> "idle", job |-> None, asked |-> 0, since |-> None, pending |-> {},
         caps |-> None, quote |-> None, offers |-> None, selection |-> None, choice |-> None,
         why |-> None]

\* A selection that is "shown" waits for its caller, who need not choose.
Waiting == {"prelude", "quote", "compare", "choose"}
Writing == {"temp", "linked"}
Over    == {"told", "refused", "shown"}

Sent(rd, pc, requests) ==
  [rd EXCEPT !.pc = pc, !.asked = now, !.since = release, !.pending = requests]
EndedWaiting(rd, pc) == [rd EXCEPT !.pc = pc]   \* mutant: requests stay pending
Ended(rd, pc) == [rd EXCEPT !.pc = pc, !.asked = 0, !.since = None, !.pending = {}]
Refused(rd, why) == [Ended(rd, "refused") EXCEPT !.why = why]
Told(rd) == Ended(rd, "told")

\* After the file, if one is asked for: prices to compare with, or the end.
Printed(rd) ==
  IF rd.job.door = "route_eval" /\ Comparable(rd.job)
  THEN [Sent(rd, "compare", Providers) EXCEPT !.offers = [p \in Providers |-> 0]]
  ELSE Told(rd)

\* All answers of a prelude are in.
Listed(rd) ==
  {rd.job.from, rd.job.to} \subseteq EndpointsOf(rd.caps.endpoints)
Judged(rd) ==
  IF rd.pending # {} THEN rd
  ELSE IF ~CapsAccepted(rd.job.door, rd.caps) THEN Refused(rd, "capabilities")
  ELSE IF rd.job.what = "capabilities" THEN Told(rd)
  ELSE IF rd.job.door = "route_eval" /\ ~Listed(rd) THEN Refused(rd, "unlisted")
  ELSE Sent(rd, "quote", {"quote"})

\* The quote is in.
Assessed(rd) ==
  IF ~Accepts(rd.job, QuoteOf(rd.quote)) THEN Refused(rd, "quote")
  ELSE IF rd.job.door = "route_eval" /\ rd.job.out THEN [rd EXCEPT !.pc = "temp"]
  ELSE Printed(rd)

Becomes(r, rd) ==
  /\ reader' = [reader EXCEPT ![r] = rd]
  /\ UNCHANGED <<now, release>>

Begin(r, job) ==
  LET rd == [Idle EXCEPT !.job = job]
  IN  /\ reader[r].pc = "idle" /\ now + 3 * Timeout <= MaxTime
      /\ Becomes(r, IF ~Gate(job) THEN Refused(rd, "gate")
                    ELSE IF Prelude(job) # {} THEN Sent(rd, "prelude", Prelude(job))
                    ELSE Sent(rd, "quote", {"quote"}))
      /\ UNCHANGED <<file, spent>>

BeginAt(r, door) == \E job \in Jobs(r) : job.door = door /\ Begin(r, job)

Agenti(r)    == BeginAt(r, "agenti")
Coinbase(r)  == BeginAt(r, "coinbase")
Elizaos(r)   == BeginAt(r, "elizaos")
Goat(r)      == BeginAt(r, "goat")
SolanaKit(r) == BeginAt(r, "solana_kit")
Mcp(r)       == BeginAt(r, "mcp")
A2a(r)       == BeginAt(r, "a2a")
RouteEval(r) == BeginAt(r, "route_eval")

\* No file and no reason are neither a file nor a reason, and no lie is not a lie.
Reasons == {"gate", "capabilities", "unlisted", "quote", "selection", "choice", "request",
            "file", "killed"}
ASSUME NoneAssumption ==
  /\ None \notin [quote : Refs, by : Readers]
  /\ None \notin Reasons \union Lies

(*-------------------------------- answers ------------------------------*)
\* An answer still counts for a request that has waited its time out to the last tick.
InTime(rd) == now <= rd.asked + Timeout
Serving(rd) == {rd.since, release}

Honestly == UNCHANGED spent
Wrongly  == spent.lies < MaxLies /\ spent' = [spent EXCEPT !.lies = @ + 1]

\* A status that is as it should be, a manifest under the pinned key and still valid.
AnswerPlain(r) ==
  LET rd == reader[r]
  IN  \E request \in rd.pending \intersect {"status", "manifest"} :
        /\ InTime(rd)
        /\ Becomes(r, Judged([rd EXCEPT !.pending = @ \ {request}]))
        /\ UNCHANGED <<file, spent>>

AnswerCapabilities(r) ==
  LET rd == reader[r]
      answered(c) == Becomes(r, Judged([rd EXCEPT !.caps = c, !.pending = @ \ {"capabilities"}]))
      ofRelease(s) == [p \in Parts |-> s]
  IN  /\ "capabilities" \in rd.pending /\ InTime(rd)
      /\ \E s \in Serving(rd) :
           \/ answered(ofRelease(s)) /\ Honestly
           \/ \E p \in Parts, other \in Releases \ {s} :
                answered([ofRelease(s) EXCEPT ![p] = other]) /\ Wrongly
      /\ UNCHANGED file

AnswerQuote(r) ==
  LET rd == reader[r]
      answered(ref) == Becomes(r, Assessed([rd EXCEPT !.quote = ref, !.pending = {}]))
  IN  /\ "quote" \in rd.pending /\ InTime(rd)
      /\ \E s \in Serving(rd), issued \in rd.asked .. now : \E kind \in GuidanceOf(s) :
           LET ref == [ask |-> AskOf(rd.job), kind |-> kind, issued |-> issued, lie |-> None]
           IN  \/ answered(ref) /\ Honestly
               \/ \E lie \in Lies : answered([ref EXCEPT !.lie = lie]) /\ Wrongly
      /\ UNCHANGED file

AnswerSelection(r) ==
  LET rd == reader[r]
      answered(s) ==
        Becomes(r, IF SelectionAccepted(s, rd.job) THEN [Ended(rd, "shown") EXCEPT !.selection = s]
                   ELSE Refused(rd, "selection"))
  IN  /\ "selection" \in rd.pending /\ InTime(rd)
      /\ \E best \in {{"assetfare", "relay"}, {"mayan"}}, issued \in rd.asked .. now :
           \/ answered(SelectionOf(rd.job, best, issued, None)) /\ Honestly
           \/ \E lie \in SelectionLies : answered(SelectionOf(rd.job, best, issued, lie)) /\ Wrongly
      /\ UNCHANGED file

\* The caller names one of the candidates, in a call of its own and some time later.
Choose(r) ==
  LET rd == reader[r]
  IN  /\ rd.pc = "shown" /\ now + Timeout <= MaxTime
      /\ \E picked \in rd.selection.shortlist :
           Becomes(r, [Sent(rd, "choose", {"choice"}) EXCEPT !.choice = [picked |-> picked]])
      /\ UNCHANGED <<file, spent>>

\* The candidate's quote: the one of the selection while it is valid, a new one afterwards.
Chosen(rd, at) ==
  LET valid == at < rd.selection.issued + Ttl
  IN  [picked |-> rd.choice.picked, candidate |-> rd.choice.picked,
       receipt |-> rd.selection.issued, reused |-> valid,
       source |-> IF valid THEN "request_time_exact_quote" ELSE "selected_candidate_expiry_refresh",
       quote |-> [ask |-> AskOf(rd.job), kind |-> "price", lie |-> None,
                  issued |-> IF valid THEN rd.selection.issued ELSE at]]

AnswerChoice(r) ==
  LET rd == reader[r]
      answered(c) ==
        LET after == [rd EXCEPT !.choice = c]
        IN  Becomes(r, IF ChoiceAccepted(c, QuoteOf(c.quote), c.picked, rd.selection.issued,
                                         AskOf(rd.job), now)
                       THEN Told(after) ELSE Refused(after, "choice"))
  IN  /\ "choice" \in rd.pending /\ InTime(rd)
      /\ \E at \in rd.asked .. now :
           LET c == Chosen(rd, at)
           IN  \/ answered(c) /\ Honestly
               \/ \E lie \in Lies : answered([c EXCEPT !.quote.lie = lie]) /\ Wrongly
               \/ \E other \in Shortlist \ {c.picked} :
                    answered([c EXCEPT !.candidate = other]) /\ Wrongly
               \/ answered([c EXCEPT !.receipt = @ + 1]) /\ Wrongly
               \/ answered([c EXCEPT !.reused = ~@]) /\ Wrongly
      /\ UNCHANGED file

Compared(rd, p, amount) ==
  LET after == [rd EXCEPT !.offers[p] = amount, !.pending = @ \ {p}]
  IN  IF after.pending = {} THEN Told(after) ELSE after

\* An offer, or anything that is none: Promise.allSettled takes both.
AnswerOffer(r) ==
  LET rd == reader[r]
  IN  \E p \in rd.pending \intersect Providers, amount \in Offers :
        /\ InTime(rd)
        /\ Becomes(r, Compared(rd, p, amount)) /\ UNCHANGED <<file, spent>>

\* The service refuses, is unreachable, or answers what no parser takes: Promise.all
\* rejects with the first one.
Fail(r) ==
  /\ reader[r].pc \in Waiting \ {"compare"}
  /\ Becomes(r, Refused(reader[r], "request")) /\ UNCHANGED <<file, spent>>

TimeOutRequests(r) ==   \* mutant: the comparison prices are awaited without a limit
  LET rd == reader[r]
  IN  /\ rd.pc \in Waiting \ {"compare"} /\ now >= rd.asked + Timeout
      /\ Becomes(r, Refused(rd, "request")) /\ UNCHANGED <<file, spent>>
\* AbortSignal.timeout.
TimeOut(r) ==
  LET rd == reader[r]
  IN  /\ rd.pc \in Waiting /\ now >= rd.asked + Timeout
      /\ Becomes(r, IF rd.pc = "compare" THEN Told(rd)
                    ELSE Refused(rd, "request"))
      /\ UNCHANGED <<file, spent>>

(*------------------------------ quote file -----------------------------*)
Kept(r) == [quote |-> reader[r].quote, by |-> r]

LinkOver(r) ==   \* mutant: the file takes the place of one that is there
  /\ reader[r].pc = "temp"
  /\ file' = Kept(r) /\ Becomes(r, [reader[r] EXCEPT !.pc = "linked"])
  /\ UNCHANGED spent
\* linkSync of the written and synced temporary file: it never replaces anything.
Link(r) ==
  /\ reader[r].pc = "temp"
  /\ IF file = None
     THEN file' = Kept(r) /\ Becomes(r, [reader[r] EXCEPT !.pc = "linked"])
     ELSE Becomes(r, Refused(reader[r], "file")) /\ UNCHANGED file
  /\ UNCHANGED spent

Unlink(r) ==
  /\ reader[r].pc = "linked" /\ Becomes(r, Printed(reader[r]))
  /\ UNCHANGED <<file, spent>>

\* Writing, linking or unlinking fails: an error, although the path may be there.
WriteFails(r) ==
  /\ reader[r].pc \in Writing
  /\ Becomes(r, Refused(reader[r], "file")) /\ UNCHANGED <<file, spent>>

(*------------------------------ environment ----------------------------*)
Kill(r) ==
  /\ spent.kills < MaxKills /\ reader[r].pc \in Waiting \union Writing
  /\ Becomes(r, Refused(reader[r], "killed")) /\ UNCHANGED file
  /\ spent' = [spent EXCEPT !.kills = @ + 1]

Rollout ==
  /\ spent.rollouts < MaxRollouts
  /\ \E s \in Releases \ {release} : release' = s
  /\ spent' = [spent EXCEPT !.rollouts = @ + 1]
  /\ UNCHANGED <<now, reader, file>>

\* The file steps take no time next to a request's.
Tick ==
  /\ now < MaxTime /\ \A r \in Readers : reader[r].pc \notin Writing
  /\ now' = now + 1 /\ UNCHANGED <<release, reader, file, spent>>

Init ==
  /\ now = 0 /\ release \in Releases /\ file = None
  /\ reader = [r \in Readers |-> Idle]
  /\ spent = [lies |-> 0, kills |-> 0, rollouts |-> 0]

FileStep(r) == Link(r) \/ Unlink(r) \/ WriteFails(r)
Service(r) ==
  \/ AnswerPlain(r) \/ AnswerCapabilities(r) \/ AnswerQuote(r) \/ AnswerOffer(r)
  \/ AnswerSelection(r) \/ AnswerChoice(r) \/ Fail(r)

Next ==
  \/ \E r \in Readers :
       \/ Agenti(r) \/ Coinbase(r) \/ Elizaos(r) \/ Goat(r) \/ SolanaKit(r)
       \/ Mcp(r) \/ A2a(r) \/ RouteEval(r) \/ Choose(r)
       \/ Service(r) \/ TimeOut(r) \/ FileStep(r) \/ Kill(r)
  \/ Rollout \/ Tick

Spec == Init /\ [][Next]_vars

\* Time passes, timers fire and a process that writes goes on; nothing makes the
\* service answer.
FairSpec ==
  /\ Spec /\ WF_vars(Tick)
  /\ \A r \in Readers : WF_vars(TimeOut(r)) /\ WF_vars(FileStep(r))
=============================================================================
