----------------------------- MODULE RouteChoice -----------------------------
(***************************************************************************)
(* The two tools that let a caller choose a route among providers: a       *)
(* selection of candidates for an intent, and the quote of the candidate   *)
(* the caller picked, reused while it is valid and refreshed afterwards.   *)
(* What src/server.js asks of the two answers.                             *)
(***************************************************************************)
EXTENDS RoutePlans

Shortlist == {"assetfare", "relay", "mayan"}

\* parseV2RouteSelectionIntent: eta is the caller's own limit in seconds, 0 if none is given.
PaceAllowed(job) == job.eta <= IF job.profile = "fast" THEN 30 ELSE 60

\* What a selection may be wrong in.
SelectionLies == {"route", "amount", "profile", "eta", "few", "none", "guidance", "direct"}
SelectionOf(job, recommended, issued, lie) ==
  [from |-> job.from, to |-> IF lie = "route" THEN job.from ELSE job.to,
   amount |-> IF lie = "amount" THEN job.amount + 1 ELSE job.amount,
   profile |-> IF lie = "profile" THEN "economy" ELSE job.profile,
   eta |-> IF lie = "eta" \/ job.eta = 0 THEN 60 ELSE job.eta,
   shortlist |-> IF lie = "few" THEN Shortlist \ {"relay"} ELSE Shortlist,
   recommended |-> IF lie = "none" THEN {} ELSE recommended,
   guided |-> lie # "guidance", direct |-> IF lie = "direct" THEN "unlisted" ELSE "assetfare",
   issued |-> issued]

\* parseV2RouteSelection.  guided stands for the guidance's hash in the receipt and for
\* the buckets behind its range, direct for the AssetFare candidate it compares.
SelectionAccepted(s, job) ==
  /\ s.from = job.from /\ s.to = job.to /\ s.amount = job.amount
  /\ s.profile = job.profile /\ (job.eta > 0 => s.eta = job.eta)
  /\ Cardinality(s.shortlist) = 3 /\ Cardinality(s.recommended) \in {1, 2}
  /\ s.guided /\ s.direct \in s.shortlist

\* parseV2SelectedQuote of an answer c and the quote q in it, for the candidate the caller
\* names.  A quote of AssetFare passes the checks of every quote; the normalized facts of
\* another provider carry no expiry.
ChoiceAccepted(c, q, picked, receipt, ask, now) ==
  /\ c.candidate = picked /\ c.receipt = receipt
  /\ c.reused = (c.source = "request_time_exact_quote")
  /\ IF picked = "assetfare" THEN CoreAccepts(q, ask, now) ELSE IntentMatches(q, ask)
=============================================================================
