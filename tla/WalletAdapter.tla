--------------------------- MODULE WalletAdapter ---------------------------
(***************************************************************************)
(* The standard wallet adapter, src/standard-wallet-adapter.js: its        *)
(* operation store, and prepare, submit and confirm for an EIP-1193        *)
(* provider and a Solana wallet.  A call runs from one await to the next;  *)
(* the store's own reads and writes are synchronous.  The chains, the      *)
(* provider's transaction pool and the caller that uses the adapter are    *)
(* outside it.                                                             *)
(***************************************************************************)
EXTENDS Integers, Sequences, FiniteSets, Functions

CONSTANTS
  Ops,        \* operation ids
  Family,     \* operation -> "evm" | "solana"
  Callers,    \* calls that may run at the same time
  Windows,    \* execution windows a call may carry
  MayClose,   \* those that may end
  Durable,    \* a mode-0600 JSON store; FALSE: the default memory store
  Depth,      \* evmConfirmations
  ReorgDepth, \* most blocks a reorganisation replaces
  MaxHeight,  \* bound on the height of the EVM chain
  MaxReorgs,  \* bound on reorganisations
  MaxHashes,  \* bound on Solana blockhashes
  MaxForeign, \* bound on transactions the wallet's owner sends by other means
  MaxCrashes  \* bound on restarts of the caller's process

ASSUME ShapeAssumption ==
  /\ Family \in [Ops -> {"evm", "solana"}] /\ Durable \in BOOLEAN
  /\ MayClose \subseteq Windows
  /\ {Depth, MaxHeight, MaxReorgs, MaxHashes, MaxForeign, MaxCrashes} \subseteq Nat

\* createStandardCallerWalletAdapter rejects other values.
ASSUME DepthAssumption == Depth \in 1 .. 64

\* Confirmations are chosen deeper than the chain reorganises.
ASSUME ReorgAssumption == ReorgDepth \in Nat /\ ReorgDepth < Depth

Foreign == "foreign"                  \* a transaction not sent by the adapter
NoOp    == "no operation"
ASSUME NameAssumption == Foreign \notin Ops /\ NoOp \notin Ops

VARIABLES
  store,    \* the operation store
  call,     \* caller -> the adapter call it awaits
  answers,  \* submissions answered to the caller, which keeps them
  open,     \* execution windows not over
  net,      \* transaction -> where it is
  branch,   \* ids of the canonical EVM blocks
  blocks,   \* EVM block ids given out
  hash,     \* the latest Solana blockhash
  reorgs, foreign, crashes

vars == <<store, call, answers, open, net, branch, blocks, hash, reorgs, foreign, crashes>>
bounds == <<reorgs, foreign, crashes>>
ledger == <<net, branch, blocks, hash>>

\* A transaction is determined by its operation and by the nonce or the recent
\* blockhash stored for it: everything else that is signed comes from the request.
Tx == [op : Ops \union {Foreign}, slot : Nat]

\* A submission's answer names the hash, so the transaction, and its window.
Answer == [op : Ops, slot : Nat, win : Windows \union {NoOp}]

\* blk is a block id, Pool while pending, Gone when it can no longer be included.
Pool == 0
Gone == -1
Final == -2       \* finalized on Solana
Place == [blk : Int, ok : BOOLEAN]

Record == [st : {"none", "prepared", "submitted", "confirmed"},
           win : Windows \union {NoOp}, slot : Nat]
NoRecord == [st |-> "none", win |-> NoOp, slot |-> 0]

Pcs == {"idle", "account", "slot", "keep", "ready", "send", "sent", "answer",
        "receipt", "height", "again", "finality", "found"}
\* rec is the record the call read; blk and num the receipt it saw; late, that
\* confirmationTimeoutMs has passed since a confirmation began.
Call == [pc : Pcs, op : Ops \union {NoOp}, win : Windows \union {NoOp}, slot : Nat,
         rec : Record, blk : Int, num : Nat, late : BOOLEAN]
NoCall == [pc |-> "idle", op |-> NoOp, win |-> NoOp, slot |-> 0, rec |-> NoRecord,
           blk |-> 0, num |-> 0, late |-> FALSE]

TypeOK ==
  /\ store \in [Ops -> Record] /\ call \in [Callers -> Call]
  /\ answers \subseteq Answer /\ open \subseteq Windows
  /\ DOMAIN net \subseteq Tx /\ \A t \in DOMAIN net : net[t] \in Place
  /\ branch \in Seq(Nat) /\ {blocks, hash, reorgs, foreign, crashes} \subseteq Nat

Init ==
  /\ store = [o \in Ops |-> NoRecord] /\ call = [c \in Callers |-> NoCall]
  /\ answers = {} /\ open = Windows
  /\ net = [t \in {} |-> Pool] /\ branch = <<>> /\ blocks = 0 /\ hash = 1
  /\ reorgs = 0 /\ foreign = 0 /\ crashes = 0

(*--------------------------------- the chains ---------------------------------*)
IsEvm(t)    == t.op = Foreign \/ Family[t.op] = "evm"
Mined(t)    == IsEvm(t) /\ net[t].blk \in Range(branch)
MinedCount  == Cardinality({t \in DOMAIN net : Mined(t)})
Pending     == {t \in DOMAIN net : IsEvm(t) /\ net[t].blk = Pool}
Height(b)   == CHOOSE n \in DOMAIN branch : branch[n] = b

\* eth_getTransactionCount "pending": the first nonce neither mined nor pending.
NextNonce == {n \in MinedCount .. Cardinality(DOMAIN net) :
                /\ \A t \in Pending : t.slot # n
                /\ \A m \in MinedCount .. n - 1 : \E t \in Pending : t.slot = m}

\* A used nonce is refused.  A pending one is refused too, or the transaction is
\* already known, or it takes the place of another one with that nonce.
EvmAccepts(t) ==
  /\ t.slot >= MinedCount /\ (t \in DOMAIN net => net[t].blk \in {Pool, Gone})
  /\ net' = [u \in DOMAIN net \union {t} |->
               IF u = t THEN [blk |-> Pool, ok |-> FALSE]
               ELSE IF u \in Pending /\ u.slot = t.slot THEN [net[u] EXCEPT !.blk = Gone]
               ELSE net[u]]

\* A blockhash lives until the next one but one; a transaction with the same
\* blockhash and content has the same signature.
Fresh(slot) == slot + 1 >= hash
SolAccepts(t) ==
  /\ Fresh(t.slot)
  /\ net' = IF t \in DOMAIN net THEN net
            ELSE [u \in DOMAIN net \union {t} |->
                    IF u = t THEN [blk |-> Pool, ok |-> FALSE] ELSE net[u]]

Accepts(t) == IF IsEvm(t) THEN EvmAccepts(t) ELSE SolAccepts(t)

\* The next block carries the transaction with the next nonce, or none of ours.
Block ==
  /\ Len(branch) < MaxHeight
  /\ blocks' = blocks + 1 /\ branch' = Append(branch, blocks')
  /\ \/ UNCHANGED net
     \/ \E t \in Pending, ok \in BOOLEAN :
          t.slot = MinedCount /\ net' = [net EXCEPT ![t] = [blk |-> blocks', ok |-> ok]]
  /\ UNCHANGED <<store, call, answers, open, hash, bounds>>

\* The last d blocks give way to d others; what was in them is pending again or
\* included in one of the new ones, in nonce order, perhaps with another result.
Reorg ==
  /\ reorgs < MaxReorgs /\ reorgs' = reorgs + 1
  /\ \E d \in 1 .. ReorgDepth :
       LET keep == SubSeq(branch, 1, Len(branch) - d)
           new  == [i \in 1 .. d |-> blocks + i]
           lost == {t \in DOMAIN net : Mined(t) /\ net[t].blk \notin Range(keep)}
       IN  /\ d <= Len(branch)
           /\ branch' = keep \o new /\ blocks' = blocks + d
           /\ \E f \in [lost -> {Pool} \union Range(new)], ok \in [lost -> BOOLEAN] :
                /\ \A t, u \in lost : t.slot < u.slot /\ f[u] # Pool =>
                                        f[t] # Pool /\ f[t] <= f[u]
                /\ net' = [t \in DOMAIN net |->
                             IF t \in lost THEN [blk |-> f[t], ok |-> f[t] # Pool /\ ok[t]]
                             ELSE net[t]]
  /\ UNCHANGED <<store, call, answers, open, hash, foreign, crashes>>

\* The owner of the account uses the wallet elsewhere.
Elsewhere ==
  /\ foreign < MaxForeign /\ foreign' = foreign + 1
  /\ \E n \in NextNonce : EvmAccepts([op |-> Foreign, slot |-> n])
  /\ UNCHANGED <<store, call, answers, open, branch, blocks, hash, reorgs, crashes>>

NewHash ==
  /\ hash < MaxHashes /\ hash' = hash + 1
  /\ net' = [t \in DOMAIN net |-> IF ~IsEvm(t) /\ net[t].blk = Pool /\ t.slot + 1 < hash'
                                  THEN [net[t] EXCEPT !.blk = Gone] ELSE net[t]]
  /\ UNCHANGED <<store, call, answers, open, branch, blocks, bounds>>

Finalize ==
  /\ \E t \in DOMAIN net, ok \in BOOLEAN :
       ~IsEvm(t) /\ net[t].blk = Pool /\ net' = [net EXCEPT ![t] = [blk |-> Final, ok |-> ok]]
  /\ UNCHANGED <<store, call, answers, open, branch, blocks, hash, bounds>>

(*-------------------------------- the adapter --------------------------------*)
Become(c, new) == call' = [call EXCEPT ![c] = new]
Goto(c, p)     == Become(c, [call[c] EXCEPT !.pc = p])
Own            == UNCHANGED <<ledger, open, bounds>>
At(c, p)       == call[c].pc = p
Rec(c)         == store[call[c].op]
TxOf(c)        == [op |-> call[c].op, slot |-> call[c].slot]
AnswerOf(c)    == [op |-> call[c].op, slot |-> call[c].slot, win |-> call[c].win]

\* Any await may throw; the call ends and leaves what it has stored.
Throws(c) == ~At(c, "idle") /\ Become(c, NoCall) /\ UNCHANGED <<store, answers>> /\ Own

\* A known operation is answered from the store, under its own window only.
LookedUpAfresh(k) ==  \* mutant: what is only prepared is prepared anew
  LET rec == store[k.op] IN
  IF rec.st \in {"none", "prepared"} THEN {[k EXCEPT !.pc = "slot"]}
  ELSE IF rec.win = k.win THEN {[k EXCEPT !.pc = "ready", !.slot = rec.slot]}
  ELSE {}
LookedUp(k) ==
  LET rec == store[k.op] IN
  IF rec.st = "none" THEN {[k EXCEPT !.pc = "slot"]}
  ELSE IF rec.win = k.win THEN {[k EXCEPT !.pc = "ready", !.slot = rec.slot]}
  ELSE {}

\* prepareEvm and prepareSolana check the window first; prepareEvm asks for the
\* provider's chain and accounts before it looks the operation up.
Prepare(c, o, w) ==
  LET k == [NoCall EXCEPT !.pc = "account", !.op = o, !.win = w] IN
  /\ At(c, "idle") /\ w \in open
  /\ \E next \in (IF Family[o] = "evm" THEN {k} ELSE LookedUp(k)) : Become(c, next)
  /\ UNCHANGED <<store, answers>> /\ Own

LookUp(c) ==
  /\ At(c, "account") /\ \E next \in LookedUp(call[c]) : Become(c, next)
  /\ UNCHANGED <<store, answers>> /\ Own

\* eth_getTransactionCount or getLatestBlockhash; the simulation may throw.
ReadSlot(c) ==
  /\ At(c, "slot")
  /\ \E n \in (IF Family[call[c].op] = "evm" THEN NextNonce ELSE {hash}) :
       Become(c, [call[c] EXCEPT !.pc = "keep", !.slot = n])
  /\ UNCHANGED <<store, answers>> /\ Own

PreparedUnbound(c) ==   \* mutant: the record does not name its window
  [st |-> "prepared", slot |-> call[c].slot]
Prepared(c) == [st |-> "prepared", win |-> call[c].win, slot |-> call[c].slot]
KeepPrepared(c) ==
  /\ At(c, "keep") /\ store' = [store EXCEPT ![call[c].op] = Prepared(c)]
  /\ Goto(c, "ready") /\ UNCHANGED answers /\ Own

\* submitEvm and submitSolana: the handle, the window and the record must agree.
Matches(rec, c) == rec.st # "none" /\ rec.slot = call[c].slot /\ rec.win = call[c].win

Submit(c) ==
  /\ At(c, "ready") /\ call[c].win \in open /\ Matches(Rec(c), c)
  /\ IF Rec(c).st \in {"submitted", "confirmed"}
     THEN Goto(c, "sent") /\ answers' = answers \union {AnswerOf(c)}
     ELSE Become(c, [call[c] EXCEPT !.pc = "send", !.rec = Rec(c)]) /\ UNCHANGED answers
  /\ UNCHANGED store /\ Own

\* eth_sendTransaction or signAndSendTransaction: accepted and answered, or
\* accepted with the answer lost.  What is refused throws.
SendTransaction(c) ==
  /\ At(c, "send") /\ Accepts(TxOf(c))
  /\ Goto(c, "answer") \/ Become(c, NoCall)
  /\ UNCHANGED <<store, answers, open, branch, blocks, hash, bounds>>

Submitted(rec) == [rec EXCEPT !.st = "submitted"]
KeepHash(c) ==
  /\ At(c, "answer") /\ store' = [store EXCEPT ![call[c].op] = Submitted(call[c].rec)]
  /\ answers' = answers \union {AnswerOf(c)}
  /\ Goto(c, "sent") /\ Own

\* confirmEvm and confirmSolana, right after the submission or for a hash the
\* caller recorded in an earlier run; the window must be the record's, over or not.
HasHash(rec, a) ==
  rec.st \in {"submitted", "confirmed"} /\ rec.slot = a.slot /\ rec.win = a.win
Waiting(o) == IF Family[o] = "evm" THEN "receipt" ELSE "finality"
Confirm(c, a) ==
  /\ HasHash(store[a.op], a)
  /\ Become(c, [NoCall EXCEPT !.pc = Waiting(a.op), !.op = a.op, !.slot = a.slot,
                              !.rec = store[a.op]])
  /\ UNCHANGED <<store, answers>> /\ Own
ConfirmSent(c) == At(c, "sent") /\ Confirm(c, AnswerOf(c))
Resume(c, o) == At(c, "idle") /\ \E a \in answers : a.op = o /\ Confirm(c, a)

\* The polling loop asks for the time at the head of each turn, then for a receipt, the
\* height, and the receipt once more.
Polls == {"receipt", "height", "again", "finality"}
TimeOut(c) ==
  /\ call[c].pc \in Polls /\ ~call[c].late
  /\ Become(c, [call[c] EXCEPT !.late = TRUE]) /\ UNCHANGED <<store, answers>> /\ Own
GiveUp(c) ==
  /\ call[c].pc \in {"receipt", "finality"} /\ call[c].late
  /\ Become(c, NoCall) /\ UNCHANGED <<store, answers>> /\ Own
TurnAnew(c) ==   \* mutant: every turn has the full time again
  Become(c, [call[c] EXCEPT !.pc = "receipt", !.late = FALSE])
Turn(c) == Goto(c, "receipt")

Receipt(c) == IF TxOf(c) \in DOMAIN net /\ Mined(TxOf(c)) THEN {net[TxOf(c)]} ELSE {}
ReadReceipt(c) ==
  /\ At(c, "receipt") /\ ~call[c].late
  /\ \E r \in Receipt(c) :
       IF r.ok THEN Become(c, [call[c] EXCEPT !.pc = "height", !.blk = r.blk,
                                              !.num = Height(r.blk)])
       ELSE Become(c, NoCall)
  /\ UNCHANGED <<store, answers>> /\ Own

BuriedShallow(height, num) == height >= num + Depth - 2   \* mutant: off by one
Buried(height, num) == height >= num + Depth - 1
ReadHeight(c) ==
  /\ At(c, "height")
  /\ IF Buried(Len(branch), call[c].num) THEN Goto(c, "again") ELSE Turn(c)
  /\ UNCHANGED <<store, answers>> /\ Own

AnyReceiptAgain(c) == \E r \in Receipt(c) : r.ok   \* mutant: in whichever block
SameReceipt(c) == \E r \in Receipt(c) : r.blk = call[c].blk /\ r.ok
ReadAgain(c) ==
  /\ At(c, "again") /\ IF SameReceipt(c) THEN Goto(c, "found") ELSE Turn(c)
  /\ UNCHANGED <<store, answers>> /\ Own

ReadFinality(c) ==
  /\ At(c, "finality") /\ ~call[c].late /\ TxOf(c) \in DOMAIN net /\ net[TxOf(c)].blk = Final
  /\ IF net[TxOf(c)].ok THEN Goto(c, "found") ELSE Become(c, NoCall)
  /\ UNCHANGED <<store, answers>> /\ Own

Confirmed(rec) == [rec EXCEPT !.st = "confirmed"]
Report(c) ==
  /\ At(c, "found") /\ store' = [store EXCEPT ![call[c].op] = Confirmed(call[c].rec)]
  /\ Become(c, NoCall) /\ UNCHANGED answers /\ Own

(*------------------------------ the specification ------------------------------*)
Close ==
  /\ \E w \in MayClose : w \in open /\ open' = open \ {w}
  /\ UNCHANGED <<store, call, answers, ledger, bounds>>

\* The process ends: calls are gone, and so is a store kept in memory.
Crash ==
  /\ crashes < MaxCrashes /\ crashes' = crashes + 1
  /\ call' = [c \in Callers |-> NoCall]
  /\ store' = IF Durable THEN store ELSE [o \in Ops |-> NoRecord]
  /\ UNCHANGED <<answers, open, ledger, reorgs, foreign>>

Poll(c) == \/ ReadReceipt(c) \/ ReadHeight(c) \/ ReadAgain(c) \/ ReadFinality(c)
           \/ Report(c) \/ GiveUp(c)

AdapterStep(c) ==
  \/ \E o \in Ops, w \in Windows : Prepare(c, o, w)
  \/ LookUp(c) \/ ReadSlot(c) \/ KeepPrepared(c)
  \/ Submit(c) \/ SendTransaction(c) \/ KeepHash(c)
  \/ ConfirmSent(c) \/ \E o \in Ops : Resume(c, o)
  \/ Poll(c) \/ TimeOut(c)

Next == \/ \E c \in Callers : AdapterStep(c) \/ Throws(c)
        \/ Block \/ Reorg \/ Elsewhere \/ NewHash \/ Finalize \/ Close \/ Crash

Spec == Init /\ [][Next]_vars

\* Time passes, and the provider answers what a confirmation asks, if only with nothing.
Timely == \A c \in Callers : WF_vars(TimeOut(c)) /\ WF_vars(Poll(c))

ConfirmSpec == Spec /\ Timely
=============================================================================
