---------------------- MODULE CallerRunnerProperties ----------------------
(***************************************************************************)
(* What the caller-owned runner promises of its state file, of the chains  *)
(* and of the session service, across errors, crashes and restarts.        *)
(***************************************************************************)
EXTENDS CallerRunner

\* Four recorded totals never pass the caps of the caller's policy: the reserve total
\* that executeEvm adds to and the catch block and releaseConfirmedEvmReserves
\* subtract from, the EVM and Solana transaction counts and the Solana fees.  The
\* fifth, the actual native spend, may: see OverspendIsRecovery and SpendWithinCap.
RecordedWithinPolicy ==
  /\ disk.resv <= Cap /\ disk.txs <= MaxTx
  /\ disk.sol <= SolCap /\ disk.soltxs <= SolMaxTx

\* The reserve total is exactly the reserves actions still hold plus what the
\* settled actions cost: no reserve is counted twice or lost by a retry, a
\* refreshed action, a crash or the release done at start and at settlement.
Charged(act) == IF act.reserve > 0 THEN act.reserve
                ELSE IF act.status \in {"confirmed", "observed"} /\ Family[act.step] = "evm"
                     THEN act.paid ELSE 0
ReserveLedger == disk.resv = SumFunction([a \in Actions |-> Charged(disk.act[a])])

\* Native spend recorded as actual really happened: it never exceeds the value
\* and fees of the transactions that landed, however often rows are resumed.
LandedOn(family) == {k \in DOMAIN chain : chain[k].st = "ok" /\ Family[chain[k].step] = family}
CostOf(k) == chain[k].fee + (IF chain[k].idx = Revoke THEN 0
                             ELSE Value[chain[k].step][chain[k].idx])
Costs == [k \in DOMAIN chain |-> CostOf(k)]
SpendHappened == /\ disk.spent <= SumFunctionOnSet(Costs, LandedOn("evm"))
                 /\ disk.sol <= SumFunctionOnSet(Costs, LandedOn("solana"))

\* The recorded native spend passes its cap in no other step than the one that records
\* a revocation: executeEvm throws before it saves a row that would, though memory has
\* the row then and the catch block, later saves and later runs go on from there.
OverspendIsRecovery ==
  [][disk'.spent > Cap /\ disk'.spent # disk.spent =>
       \E a \in Actions : disk'.act[a].attempt > disk.act[a].attempt]_vars

\* An action recorded as confirmed has every request landed on chain.
ConfirmedLanded ==
  \A a \in Actions : disk.act[a].status = "confirmed" =>
    \A i \in 0 .. Rows[disk.act[a].step] - 1 : Landed(a, disk.act[a].attempt, i)

\* "retryable after approval recovery" is recorded only once the revocation of
\* the finished attempt landed, and no approval of the action landed after it.
RecoveryIsExactZero ==
  \A a \in Actions : disk.act[a].status = Retryable =>
    \E k \in TxOf(a, disk.act[a].attempt - 1, Revoke) :
      /\ chain[k].st = "ok"
      /\ \A j \in k + 1 .. Len(chain) : ~(chain[j].a = a /\ chain[j].idx = 0)

\* No idempotency key names two different mutations, and every call that
\* observes the source of one action carries one key and one list of hashes,
\* although the counter and the key are saved in two separate writes.
KeysNameOneMutation ==
  \A c, d \in srv.log :
    /\ c.op = d.op /\ c.step = d.step /\ c.key = d.key => c = d
    /\ c.op = "source" /\ d.op = "source" /\ c.a = d.a => c = d
    /\ c.op = "output" /\ d.op = "output" /\ c.step = d.step => c = d

\* Write-ahead: an EVM request reaches the chain only when the state file already
\* announces the attempt, holds the worst-case reserve, and records all earlier
\* rows as confirmed; those rows have landed.
New == Len(chain) + 1 .. Len(chain')
Announced ==
  \A k \in New : LET t == chain'[k] IN
    t.idx # Revoke /\ Family[t.step] = "evm" =>
      /\ disk.act[t.a].status = Attempted
      /\ disk.act[t.a].reserve = StepReserve[t.step]
      /\ \A i \in 0 .. t.idx - 1 : disk.act[t.a].item[i] = "done" /\ Landed(t.a, t.attempt, i)
BroadcastIsAnnounced == [][Announced]_vars

\* Never re-submit a confirmed action: once some action of a step is recorded as
\* confirmed or observed, nothing more is broadcast for that step.
ConfirmedNotResubmitted ==
  [][\A k \in New : \A a \in Actions :
       disk.act[a].status \in {"confirmed", "observed"} => disk.act[a].step # chain'[k].step]_vars

\* The runtime window is anchored when the state file is created: restarting the
\* runner does not extend the time in which the caller's wallet may be used.
RuntimeIsAnchored == [][New # {} => now < anchor + MaxRuntime]_vars

\* Every invocation ends, by result or by error, although it polls, sleeps and
\* retries for as long as the service keeps refusing.
RunTerminates == pc # "idle" ~> pc = "idle"

(*------------------- statements the code does not live up to -------------------*)
\* The self-test reports "uncertain_submission_reserve_retained:true": while a
\* request was broadcast and its hash is not recorded, the reserve is kept.
UncertainReserveRetained ==
  \A k \in DOMAIN chain : LET t == chain[k] act == disk.act[t.a] IN
    /\ Family[t.step] = "evm" /\ t.idx # Revoke
    /\ t.attempt = act.attempt /\ act.item[t.idx] = "none"
    => act.reserve > 0

\* executeEvm refuses a recorded spend above the policy's maximum_total_native_spend_wei
\* ("assetfare_runner_evm_actual_total_exceeded"), and README says that the worst case
\* is reserved before the first approval: the state file never records more.
SpendWithinCap == disk.spent <= Cap

\* The self-test's session client asserts that an EVM source is observed with the
\* hashes of all its requests (options.transactionHashes.length is 2 for 2 rows).
ObservationCarriesEveryHash ==
  \A c \in srv.log : c.op = "source" => c.n = Rows[c.step]
=============================================================================
