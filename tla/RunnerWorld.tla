---------------------------- MODULE RunnerWorld ----------------------------
(***************************************************************************)
(* The world a caller-owned runner (src/caller-runner.js) acts in: the     *)
(* clock, the hosted session service it calls through scripts/session.mjs, *)
(* and the chains its wallet adapter submits to.  The service and the      *)
(* chains are outside the repository; they are described here by what the  *)
(* runner relies on.  A wallet adapter is described by the contract the    *)
(* runner demands of it (validateAdapter): submissions are idempotent by   *)
(* operation id, and the execution window is checked once more inside it.  *)
(***************************************************************************)
EXTENDS Integers, Sequences, FiniteSets, FiniteSetsExt, Functions

CONSTANTS
  NSteps,         \* steps of the session's workflow
  Family,         \* step -> "evm" | "solana"
  Rows,           \* step -> number of ordered wallet requests
  MaxRows,        \* length of policy.evm.gas_limit_caps
  NeedsApproval,  \* step -> row 0 is an ERC-20 approval
  Value,          \* step -> row -> protocol value carried by the request
  GasCap,         \* row -> policy gas limit cap * maximum fee per gas
  RecoveryGas,    \* policy recovery gas limit * maximum fee per gas
  StepReserve,    \* step -> worst-case native spend reserved up front
  Cap,            \* policy.evm.maximum_total_native_spend_wei
  MaxTx,          \* policy.evm.maximum_signed_submitted_transactions
  SolCap,         \* policy.solana.maximum_total_fee_and_rent_lamports
  SolMaxTx,       \* policy.solana.maximum_signed_submitted_transactions
  SolQuotes,      \* fee-and-rent maxima an adapter may quote
  AuthExpiry,     \* policy.authorization_expires_at
  MaxRuntime,     \* policy.maximum_runtime_seconds
  MinAction,      \* policy.minimum_action_remaining_seconds
  MinSubmit,      \* policy.minimum_submit_remaining_seconds
  Ttl,            \* lifetime of a freshly built action
  MaxTime,        \* bound on the clock
  MaxActions      \* bound on the actions the service builds

Steps   == 0 .. NSteps - 1
Idx     == 0 .. MaxRows - 1
Revoke  == -1                     \* row number of a recovery transaction
Actions == 1 .. MaxActions        \* action ids, in the order they are built
NoAct   == 0

ASSUME ShapeAssumption ==
  /\ NSteps \in Nat \ {0} /\ MaxActions \in Nat \ {0} /\ MaxTime \in Nat
  /\ MaxRows \in Nat \ {0}
  /\ Family \in [Steps -> {"evm", "solana"}]
  /\ Rows \in [Steps -> Nat \ {0}] /\ \A s \in Steps : Rows[s] - 1 \in Idx
  /\ \A s \in Steps : Family[s] = "solana" => Rows[s] = 1
  /\ NeedsApproval \in [Steps -> BOOLEAN]
  /\ Value \in [Steps -> [Idx -> Nat]]

\* What validatePolicy enforces of the caller's policy file.
ASSUME PolicyAssumption ==
  /\ GasCap \in [Idx -> Nat \ {0}] /\ RecoveryGas \in Nat \ {0}
  /\ StepReserve \in [Steps -> Nat \ {0}]
  /\ Cap \in Nat \ {0} /\ SolCap \in Nat \ {0}
  /\ MaxTx \in Nat \ {0} /\ SolMaxTx \in Nat \ {0}
  /\ SolQuotes \subseteq Nat
  /\ AuthExpiry \in Nat /\ MaxRuntime \in Nat \ {0} /\ Ttl \in Nat \ {0}
  /\ MinSubmit \in Nat \ {0} /\ MinAction \in Nat /\ MinSubmit <= MinAction

\* The reserve is the recovery gas plus value and capped gas of every row.
ASSUME ReserveAssumption ==
  \A s \in Steps :
    StepReserve[s] = RecoveryGas
      + MapThenSumSet(LAMBDA i : Value[s][i] + GasCap[i], 0 .. Rows[s] - 1)

VARIABLES
  now,    \* the clock, shared by the runner, the adapter and the service
  srv,    \* the session service
  chain   \* transactions broadcast, in nonce order

world == <<now, srv, chain>>

Tx == [a : Actions, attempt : Nat, step : Steps, idx : Idx \union {Revoke},
       gas : Nat, fee : Nat, st : {"pending", "ok", "failed"}]

\* One delivered mutation: its idempotency key and what it asks for.
Call == [key : Nat, op : {"source", "output", "refresh"}, step : Steps,
         a : Actions \union {NoAct}, n : Nat]

Session == [phase : {"build", "ready", "flight", "halted", "complete"},
            step : Steps, a : Actions \union {NoAct}, exp : Nat,
            last : Actions \union {NoAct}, obs : Actions \union {NoAct},
            enough : BOOLEAN, log : SUBSET Call]

WorldTypeOK == now \in Nat /\ srv \in Session /\ chain \in Seq(Tx)

\* assetfare-plan created the session and its first action is live.
WorldInit ==
  /\ now = 0 /\ chain = <<>>
  /\ srv = [phase |-> "ready", step |-> 0, a |-> 1, exp |-> Ttl, last |-> 1,
            obs |-> NoAct, enough |-> TRUE, log |-> {}]

(*------------------------------ the clock ------------------------------*)
Tick == now < MaxTime /\ now' = now + 1 /\ UNCHANGED <<srv, chain>>

(*------------------------------ the chains -----------------------------*)
TxOf(a, attempt, i) ==
  {k \in DOMAIN chain : /\ chain[k].a = a /\ chain[k].attempt = attempt
                        /\ chain[k].idx = i}

\* Row i of this attempt has been mined successfully.
Landed(a, attempt, i) == \E k \in TxOf(a, attempt, i) : chain[k].st = "ok"

\* One account per chain: the transactions of a step are mined in nonce order.
Mine ==
  \E k \in DOMAIN chain :
    /\ chain[k].st = "pending"
    /\ \A j \in 1 .. k - 1 : chain[j].step = chain[k].step => chain[j].st # "pending"
    /\ \E st \in {"ok", "failed"}, fee \in 0 .. chain[k].gas :
         chain' = [chain EXCEPT ![k].st = st, ![k].fee = fee]
    /\ UNCHANGED <<now, srv>>

\* The adapter's send.  A known operation id is answered from its store.
Broadcast(a, attempt, step, i, gas) ==
  chain' = IF TxOf(a, attempt, i) # {} THEN chain
           ELSE Append(chain, [a |-> a, attempt |-> attempt, step |-> step, idx |-> i,
                               gas |-> gas, fee |-> 0, st |-> "pending"])

(*---------------------------- the service ------------------------------*)
Logged(key, op, s, a, n) ==
  srv.log \union {[key |-> key, op |-> op, step |-> s, a |-> a, n |-> n]}

\* The successor of a finished step: complete, a new action, or one to build.
NextStep(r) ==
  IF r.step = NSteps - 1
  THEN {[r EXCEPT !.phase = "complete", !.a = NoAct, !.enough = e] : e \in BOOLEAN}
  ELSE LET moved == [r EXCEPT !.step = @ + 1, !.obs = NoAct]
       IN  {[moved EXCEPT !.phase = "build", !.a = NoAct]} \union
           (IF r.last < MaxActions
            THEN {[moved EXCEPT !.phase = "ready", !.a = r.last + 1,
                                !.last = r.last + 1, !.exp = now + Ttl]}
            ELSE {})

\* observe-source is accepted when every request of the live action landed; it
\* is replayed for the action already accepted.
SourceFresh(a, attempt, n) ==
  /\ srv.phase = "ready" /\ srv.a = a /\ n = Rows[srv.step]
  /\ \A i \in 0 .. n - 1 : Landed(a, attempt, i)
SourceReplay(a) == srv.phase = "flight" /\ srv.obs = a

\* refresh-action replaces an absent or expired action, never a live one; the
\* replacement may keep the action id.
Refreshable == srv.phase = "build" \/ (srv.phase = "ready" /\ now >= srv.exp)
Refreshed(r) ==
  {[r EXCEPT !.phase = "ready", !.a = b, !.last = IF b > @ THEN b ELSE @,
             !.exp = now + Ttl]
     : b \in (IF r.phase = "ready" THEN {r.a} ELSE {}) \union
             (IF r.last < MaxActions THEN {r.last + 1} ELSE {})}

\* A bridge fails or is settled by hand: a status the runner does not handle.
Halt ==
  /\ srv.phase = "flight"
  /\ srv' = [srv EXCEPT !.phase = "halted"]
  /\ UNCHANGED <<now, chain>>
=============================================================================
