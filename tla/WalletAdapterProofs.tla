------------------------- MODULE WalletAdapterProofs -------------------------
(***************************************************************************)
(* Proofs about the standard wallet adapter: for any operations, windows,  *)
(* confirmation depth and deeper-than-reorganised chain, with a durable    *)
(* store and one call at a time, it implements idempotent submission.      *)
(***************************************************************************)
EXTENDS WalletAdapterProperties, FiniteSetTheorems, SequenceTheorems, TLAPS

(*---------------------------- the inductive invariant ----------------------------*)
\* ids of canonical blocks were given out in order
ChainOK ==
  /\ blocks \in Nat /\ hash \in Nat /\ branch \in Seq(Nat)
  /\ \A n \in 1 .. Len(branch) : branch[n] \in 1 .. blocks
  /\ \A m, n \in 1 .. Len(branch) : m < n => branch[m] < branch[n]

NetOK ==
  /\ IsFiniteSet(DOMAIN net) /\ DOMAIN net \subseteq Tx
  /\ \A t \in DOMAIN net : net[t] \in Place

\* block b is at height n, at least Depth confirmations deep
AtHeight(b, n) == n \in 1 .. Len(branch) /\ branch[n] = b
Settled(b, n)  == AtHeight(b, n) /\ n + Depth - 1 <= Len(branch)
Canonical(b)   == \E n \in 1 .. Len(branch) : branch[n] = b

\* a transaction that can no longer be undone
Fixed(t) == /\ t \in DOMAIN net /\ net[t].ok
            /\ IF Family[t.op] = "evm" THEN \E n \in Nat : Settled(net[t].blk, n)
               ELSE net[t].blk = Final

StoreOK ==
  /\ store \in [Ops -> Record]
  /\ \A t \in DOMAIN net : t.op \in Ops => /\ store[t.op].st # "none"
                                           /\ store[t.op].slot = t.slot
  /\ \A o \in Ops : store[o].st \in {"submitted", "confirmed"} =>
                      [op |-> o, slot |-> store[o].slot] \in DOMAIN net
  /\ \A o \in Ops : store[o].st = "confirmed" => Fixed([op |-> o, slot |-> store[o].slot])

Busy      == Pcs \ {"idle"}
Polling   == {"receipt", "height", "again", "finality", "found"}
Recorded(k) == /\ store[k.op] = k.rec /\ k.rec.slot = k.slot

\* what a call knows at each of its awaits
CallOK(k) ==
  /\ k \in Call
  /\ k.pc \in Busy => k.op \in Ops
  /\ k.pc \in {"slot", "keep"} => store[k.op].st = "none" /\ k.win \in Windows
  /\ k.pc = "account" => k.win \in Windows
  /\ k.pc \in {"send", "answer"} => Recorded(k) /\ k.rec.st = "prepared"
  /\ k.pc = "answer" => [op |-> k.op, slot |-> k.slot] \in DOMAIN net
  /\ k.pc \in Polling => Recorded(k) /\ k.rec.st \in {"submitted", "confirmed"}
  /\ k.pc \in {"receipt", "height", "again"} => Family[k.op] = "evm"
  /\ k.pc = "finality" => Family[k.op] = "solana"
  /\ k.pc \in {"height", "again"} => /\ k.blk \in 1 .. blocks /\ k.num \in Nat
                                     /\ (Canonical(k.blk) => AtHeight(k.blk, k.num))
  /\ k.pc = "again" /\ Canonical(k.blk) => Settled(k.blk, k.num)
  /\ k.pc = "found" => Fixed([op |-> k.op, slot |-> k.slot])

IInv ==
  /\ ChainOK /\ NetOK /\ StoreOK
  /\ open \subseteq Windows /\ answers \subseteq Answer
  /\ {reorgs, foreign, crashes} \subseteq Nat
  /\ call \in [Callers -> Call] /\ \A c \in Callers : CallOK(call[c])

\* How the adapter has to be used: with a durable store, one call at a time.
Usage == Durable /\ \A c, d \in Callers : c = d

(*----------------------------- what steps preserve -----------------------------*)
\* No step undoes a settled block, reuses a block id or forgets a transaction.
ChainKept ==
  /\ blocks \in Nat /\ blocks' \in Nat /\ blocks <= blocks'
  /\ \A b \in 1 .. blocks : /\ Canonical(b)' => Canonical(b)
                            /\ \A n \in Nat : AtHeight(b, n) /\ Canonical(b)' => AtHeight(b, n)'
  /\ \A b \in 1 .. blocks, n \in Nat : Settled(b, n) => Settled(b, n)'
Kept ==
  /\ ChainKept /\ DOMAIN net \subseteq DOMAIN net'
  /\ \A t \in DOMAIN net : t.op \in Ops /\ Fixed(t) => Fixed(t)'

LEMMA SameLedgerKept ==
  ASSUME ChainOK, UNCHANGED ledger
  PROVE  Kept
BY DEF Kept, ChainKept, ledger, ChainOK, Canonical, AtHeight, Settled, Fixed

LEMMA CallKept ==
  ASSUME NEW k, CallOK(k), Kept, UNCHANGED store
  PROVE  CallOK(k)'
<1>1. k \in Call /\ (k.pc \in Busy => k.op \in Ops) BY DEF CallOK
<1>2. CASE k.pc \in {"height", "again"}
  <2>1. k.blk \in 1 .. blocks /\ k.num \in Nat BY <1>2 DEF CallOK
  <2>2. k.blk \in 1 .. blocks' BY <2>1 DEF Kept, ChainKept
  <2>3. Canonical(k.blk)' => Canonical(k.blk) /\ AtHeight(k.blk, k.num)'
    BY <1>2, <2>1 DEF Kept, ChainKept, CallOK
  <2>4. k.pc = "again" /\ Canonical(k.blk)' => Settled(k.blk, k.num)'
    BY <1>2, <2>1, <2>3 DEF Kept, ChainKept, CallOK
  <2> QED BY <1>2, <2>1, <2>2, <2>3, <2>4 DEF CallOK, Recorded, Polling, Busy
<1>3. CASE k.pc = "found"
  <2>1. [op |-> k.op, slot |-> k.slot] \in DOMAIN net /\ k.op \in Ops
    BY <1>3, <1>1 DEF CallOK, Fixed, Busy, Pcs
  <2>2. Fixed([op |-> k.op, slot |-> k.slot])' BY <1>3, <2>1 DEF CallOK, Kept
  <2> QED BY <1>3, <2>2 DEF CallOK, Recorded, Polling, Busy
<1>4. CASE k.pc \notin {"height", "again", "found"}
  BY <1>4 DEF CallOK, Recorded, Polling, Busy, Kept
<1> QED BY <1>2, <1>3, <1>4

LEMMA StoreKept ==
  ASSUME StoreOK, Kept, UNCHANGED store,
         \A t \in DOMAIN net' : t.op \in Ops /\ t \notin DOMAIN net =>
                                 store[t.op].st # "none" /\ store[t.op].slot = t.slot
  PROVE  StoreOK'
<1>1. \A o \in Ops : store[o].st = "confirmed" => Fixed([op |-> o, slot |-> store[o].slot])'
  <2> SUFFICES ASSUME NEW o \in Ops, store[o].st = "confirmed"
               PROVE  Fixed([op |-> o, slot |-> store[o].slot])'
    OBVIOUS
  <2> DEFINE t == [op |-> o, slot |-> store[o].slot]
  <2>1. t \in DOMAIN net /\ t.op \in Ops /\ Fixed(t) BY DEF StoreOK
  <2> QED BY <2>1 DEF Kept
<1>2. \A o \in Ops : store[o].st \in {"submitted", "confirmed"} =>
                       [op |-> o, slot |-> store[o].slot] \in DOMAIN net'
  BY DEF StoreOK, Kept
<1>3. \A t \in DOMAIN net' : t.op \in Ops => store[t.op].st # "none" /\ store[t.op].slot = t.slot
  BY DEF StoreOK
<1> QED BY <1>1, <1>2, <1>3 DEF StoreOK

\* A step outside the adapter.
LEMMA WorldStep ==
  ASSUME IInv, Kept, ChainOK', NetOK', UNCHANGED <<store, call, answers>>,
         open' \subseteq open, {reorgs', foreign', crashes'} \subseteq Nat,
         \A t \in DOMAIN net' : t.op \in Ops => t \in DOMAIN net
  PROVE  IInv'
<1>1. StoreOK' BY StoreKept DEF IInv
<1>2. \A c \in Callers : CallOK(call[c])' BY CallKept DEF IInv
<1> QED BY <1>1, <1>2 DEF IInv

\* Every call is fine if each is equal to one that is.
LEMMA EachCallOK ==
  ASSUME \A d \in Callers : \E x : x = call'[d] /\ CallOK(x)'
  PROVE  (\A d \in Callers : CallOK(call[d]))'
<1> SUFFICES ASSUME NEW d \in Callers PROVE CallOK(call[d])'
  OBVIOUS
<1>1. PICK x : x = call'[d] /\ CallOK(x)' OBVIOUS
<1> QED BY <1>1 DEF CallOK, Recorded, Canonical, AtHeight, Settled, Fixed

\* A step of one call that leaves the store and the chains alone.
LEMMA LocalStep ==
  ASSUME IInv, NEW c \in Callers, NEW k, CallOK(k), call' = [call EXCEPT ![c] = k],
         UNCHANGED <<store, ledger, open, bounds>>, answers' \subseteq Answer
  PROVE  IInv'
<1>1. Kept BY SameLedgerKept DEF IInv
<1>2. \A x : CallOK(x) => CallOK(x)' BY <1>1, CallKept
<1>3. \A d \in Callers : \E x : x = call'[d] /\ CallOK(x)
  BY DEF IInv
<1>4. (\A d \in Callers : CallOK(call[d]))' BY <1>2, <1>3, EachCallOK
<1>5. StoreOK' BY <1>1, StoreKept DEF IInv, ledger
<1>6. ChainOK' /\ NetOK' BY DEF IInv, ChainOK, NetOK, ledger
<1>7. call' \in [Callers -> Call] BY DEF IInv, CallOK
<1> QED BY <1>4, <1>5, <1>6, <1>7 DEF IInv, bounds

(*------------------------------- the local steps -------------------------------*)
LEMMA NoCallOK == CallOK(NoCall)
BY DEF CallOK, NoCall, Call, Pcs, Busy, Polling, NoRecord, Record

LEMMA ThrowsInv == ASSUME IInv, NEW c \in Callers, Throws(c) PROVE IInv'
<1>1. call' = [call EXCEPT ![c] = NoCall] /\ UNCHANGED <<store, ledger, open, bounds>>
  BY DEF Throws, Become, Own
<1>2. answers' \subseteq Answer BY DEF Throws, IInv
<1> QED BY <1>1, <1>2, NoCallOK, LocalStep

LEMMA LookedUpOK ==
  ASSUME IInv, NEW k, CallOK(k), k.op \in Ops, k.win \in Windows, NEW l \in LookedUp(k)
  PROVE  CallOK(l)
<1>1. store[k.op] \in Record /\ k \in Call BY DEF IInv, StoreOK, CallOK
<1>2. CASE store[k.op].st = "none"
  <2>1. l = [k EXCEPT !.pc = "slot"] BY <1>2 DEF LookedUp
  <2> QED BY <1>1, <1>2, <2>1 DEF CallOK, Call, Pcs, Busy, Polling
<1>3. CASE store[k.op].st # "none"
  <2>1. l = [k EXCEPT !.pc = "ready", !.slot = store[k.op].slot] BY <1>3 DEF LookedUp
  <2> QED BY <1>1, <2>1 DEF CallOK, Call, Record, Pcs, Busy, Polling
<1> QED BY <1>2, <1>3

LEMMA PrepareInv ==
  ASSUME IInv, NEW c \in Callers, NEW o \in Ops, NEW w \in Windows, Prepare(c, o, w)
  PROVE  IInv'
<1> DEFINE k == [NoCall EXCEPT !.pc = "account", !.op = o, !.win = w]
<1>1. CallOK(k) /\ k.op = o /\ k.win = w
  <2>1. NoCall \in Call BY NoCallOK DEF CallOK
  <2>2. k \in Call /\ k.pc = "account" /\ k.op = o /\ k.win = w
    BY <2>1 DEF Call, Pcs
  <2> HIDE DEF k
  <2> QED BY <2>2 DEF CallOK, Busy, Polling
<1>2. PICK l \in (IF Family[o] = "evm" THEN {k} ELSE LookedUp(k)) : call' = [call EXCEPT ![c] = l]
  BY DEF Prepare, Become
<1>3. CallOK(l)
  <2> HIDE DEF k
  <2> QED BY <1>1, <1>2, LookedUpOK
<1>4. UNCHANGED <<store, ledger, open, bounds>> /\ answers' \subseteq Answer
  BY DEF Prepare, Own, IInv
<1> QED BY <1>2, <1>3, <1>4, LocalStep

LEMMA LookUpInv == ASSUME IInv, NEW c \in Callers, LookUp(c) PROVE IInv'
<1>1. CallOK(call[c]) BY DEF IInv
<1>2. call[c].op \in Ops /\ call[c].win \in Windows
  BY <1>1 DEF CallOK, LookUp, At, Busy, Pcs
<1>3. PICK l \in LookedUp(call[c]) : call' = [call EXCEPT ![c] = l] BY DEF LookUp, Become
<1>4. CallOK(l) BY <1>1, <1>2, LookedUpOK
<1>5. UNCHANGED <<store, ledger, open, bounds>> /\ answers' \subseteq Answer
  BY DEF LookUp, Own, IInv
<1> QED BY <1>3, <1>4, <1>5, LocalStep

LEMMA NextNonceNat == ASSUME IInv PROVE NextNonce \subseteq Nat
<1>1. IsFiniteSet({t \in DOMAIN net : Mined(t)}) /\ IsFiniteSet(DOMAIN net)
  BY FS_Subset DEF IInv, NetOK
<1>2. MinedCount \in Nat /\ Cardinality(DOMAIN net) \in Nat
  BY <1>1, FS_CardinalityType DEF MinedCount
<1> QED BY <1>2 DEF NextNonce

LEMMA ReadSlotInv == ASSUME IInv, NEW c \in Callers, ReadSlot(c) PROVE IInv'
<1>1. PICK n \in Nat : call' = [call EXCEPT ![c] = [call[c] EXCEPT !.pc = "keep", !.slot = n]]
  BY NextNonceNat DEF ReadSlot, Become, IInv, ChainOK
<1>2. CallOK(call[c]) /\ call[c].pc = "slot" BY DEF IInv, ReadSlot, At
<1>3. CallOK([call[c] EXCEPT !.pc = "keep", !.slot = n])
  BY <1>2 DEF CallOK, Call, Pcs, Busy, Polling
<1>4. UNCHANGED <<store, ledger, open, bounds>> /\ answers' \subseteq Answer
  BY DEF ReadSlot, Own, IInv
<1> QED BY <1>1, <1>3, <1>4, LocalStep
LEMMA SubmitInv == ASSUME IInv, NEW c \in Callers, Submit(c) PROVE IInv'
<1>1. CallOK(call[c]) /\ call[c].pc = "ready" BY DEF IInv, Submit, At
<1>2. call[c] \in Call /\ call[c].op \in Ops BY <1>1 DEF CallOK, Busy, Pcs
<1>3. Rec(c) \in Record BY <1>2 DEF Rec, IInv, StoreOK
<1>4. UNCHANGED <<store, ledger, open, bounds>> BY DEF Submit, Own
<1>5. CASE Rec(c).st \in {"submitted", "confirmed"}
  <2>1. CallOK([call[c] EXCEPT !.pc = "sent"])
    BY <1>1, <1>2 DEF CallOK, Call, Pcs, Busy, Polling
  <2>2. AnswerOf(c) \in Answer BY <1>2 DEF AnswerOf, Answer, Call
  <2>3. answers' \subseteq Answer BY <1>5, <2>2 DEF Submit, IInv
  <2>4. call' = [call EXCEPT ![c] = [call[c] EXCEPT !.pc = "sent"]]
    BY <1>5 DEF Submit, Goto, Become
  <2> QED BY <1>4, <2>1, <2>3, <2>4, LocalStep
<1>6. CASE Rec(c).st \notin {"submitted", "confirmed"}
  <2> DEFINE k == [call[c] EXCEPT !.pc = "send", !.rec = Rec(c)]
  <2>1. Rec(c).st = "prepared" /\ Rec(c).slot = call[c].slot
    BY <1>3, <1>6 DEF Submit, Matches, Record
  <2>2. CallOK(k)
    BY <1>1, <1>2, <1>3, <2>1 DEF CallOK, Call, Pcs, Busy, Polling, Recorded, Rec
  <2>3. call' = [call EXCEPT ![c] = k] /\ answers' \subseteq Answer
    BY <1>6 DEF Submit, Become, IInv
  <2> QED BY <1>4, <2>2, <2>3, LocalStep
<1> QED BY <1>5, <1>6

LEMMA ConfirmInv ==
  ASSUME IInv, NEW c \in Callers, NEW a \in Answer, Confirm(c, a)
  PROVE  IInv'
<1> DEFINE k == [NoCall EXCEPT !.pc = Waiting(a.op), !.op = a.op, !.slot = a.slot,
                               !.rec = store[a.op]]
<1>1. store[a.op] \in Record /\ a.slot \in Nat /\ a.op \in Ops BY DEF IInv, StoreOK, Answer
<1>2. /\ k \in Call /\ k.pc = Waiting(a.op) /\ k.op = a.op /\ k.slot = a.slot
      /\ k.rec = store[a.op]
  <2>1. NoCall \in Call BY NoCallOK DEF CallOK
  <2> QED BY <1>1, <2>1 DEF Call, Pcs, Waiting
<1>3. /\ store[a.op].st \in {"submitted", "confirmed"} /\ store[a.op].slot = a.slot
      /\ call' = [call EXCEPT ![c] = k]
      /\ UNCHANGED <<store, ledger, open, bounds>> /\ answers' \subseteq Answer
  BY DEF Confirm, HasHash, Become, Own, IInv
<1> HIDE DEF k
<1>4. Family[a.op] \in {"evm", "solana"} BY <1>1, ShapeAssumption
<1>5. CallOK(k)
  BY <1>1, <1>2, <1>3, <1>4 DEF CallOK, Call, Pcs, Busy, Polling, Recorded, Waiting
<1> QED BY <1>3, <1>5, LocalStep

LEMMA ConfirmSentInv == ASSUME IInv, NEW c \in Callers, ConfirmSent(c) PROVE IInv'
<1>1. call[c] \in Call /\ call[c].op \in Ops
  BY DEF IInv, CallOK, Busy, Pcs, ConfirmSent, At
<1>2. AnswerOf(c) \in Answer BY <1>1 DEF AnswerOf, Answer, Call
<1> QED BY <1>2, ConfirmInv DEF ConfirmSent

LEMMA ResumeInv == ASSUME IInv, NEW c \in Callers, NEW o \in Ops, Resume(c, o) PROVE IInv'
BY ConfirmInv DEF Resume, IInv

(*----------------------------- polling for a receipt -----------------------------*)
LEMMA ReceiptSeen ==
  ASSUME IInv, NEW c \in Callers, call[c].op \in Ops, Family[call[c].op] = "evm",
         NEW r \in Receipt(c)
  PROVE  /\ TxOf(c) \in DOMAIN net /\ r = net[TxOf(c)]
         /\ r.blk \in 1 .. blocks /\ AtHeight(r.blk, Height(r.blk))
<1>1. TxOf(c) \in DOMAIN net /\ Mined(TxOf(c)) /\ r = net[TxOf(c)] BY DEF Receipt
<1>2. r.blk \in Range(branch) BY <1>1 DEF Mined
<1>3. PICK n \in 1 .. Len(branch) : r.blk = branch[n] BY <1>2 DEF Range, IInv, ChainOK
<1>4. Height(r.blk) \in DOMAIN branch /\ branch[Height(r.blk)] = r.blk
  BY <1>3 DEF Height, IInv, ChainOK
<1> QED BY <1>1, <1>3, <1>4 DEF AtHeight, IInv, ChainOK

LEMMA ReadReceiptInv == ASSUME IInv, NEW c \in Callers, ReadReceipt(c) PROVE IInv'
<1>1. CallOK(call[c]) /\ call[c].pc = "receipt" BY DEF IInv, ReadReceipt, At
<1>2. call[c] \in Call /\ call[c].op \in Ops /\ Family[call[c].op] = "evm"
  BY <1>1 DEF CallOK, Busy, Pcs
<1>3. UNCHANGED <<store, ledger, open, bounds>> /\ answers' \subseteq Answer
  BY DEF ReadReceipt, Own, IInv
<1>4. PICK r \in Receipt(c) :
        call' = [call EXCEPT ![c] =
                   IF r.ok THEN [call[c] EXCEPT !.pc = "height", !.blk = r.blk,
                                                !.num = Height(r.blk)]
                   ELSE NoCall]
  BY DEF ReadReceipt, Become
<1>5. r.blk \in 1 .. blocks /\ AtHeight(r.blk, Height(r.blk)) BY <1>2, ReceiptSeen
<1>6. Height(r.blk) \in Nat /\ r.blk \in Int BY <1>5 DEF AtHeight, IInv, ChainOK
<1>7. CallOK([call[c] EXCEPT !.pc = "height", !.blk = r.blk, !.num = Height(r.blk)])
  BY <1>1, <1>2, <1>5, <1>6 DEF CallOK, Call, Pcs, Busy, Polling, Recorded
<1> QED BY <1>3, <1>4, <1>7, NoCallOK, LocalStep

LEMMA ReadHeightInv == ASSUME IInv, NEW c \in Callers, ReadHeight(c) PROVE IInv'
<1>1. CallOK(call[c]) /\ call[c].pc = "height" BY DEF IInv, ReadHeight, At
<1>2. call[c] \in Call BY <1>1 DEF CallOK
<1>3. UNCHANGED <<store, ledger, open, bounds>> /\ answers' \subseteq Answer
  BY DEF ReadHeight, Own, IInv
<1>4. CallOK([call[c] EXCEPT !.pc = "receipt"])
  BY <1>1, <1>2 DEF CallOK, Call, Pcs, Busy, Polling, Recorded
<1>5. Buried(Len(branch), call[c].num) => CallOK([call[c] EXCEPT !.pc = "again"])
  <2> SUFFICES ASSUME Buried(Len(branch), call[c].num)
               PROVE  CallOK([call[c] EXCEPT !.pc = "again"])
    OBVIOUS
  <2>1. Len(branch) \in Nat /\ Depth \in Nat BY DepthAssumption DEF IInv, ChainOK
  <2>2. Canonical(call[c].blk) => Settled(call[c].blk, call[c].num)
    BY <1>1, <1>2, <2>1 DEF CallOK, Settled, Buried
  <2> QED BY <1>1, <1>2, <2>2 DEF CallOK, Call, Pcs, Busy, Polling, Recorded
<1>6. CASE Buried(Len(branch), call[c].num)
  BY <1>3, <1>5, <1>6, LocalStep DEF ReadHeight, Goto, Become
<1>7. CASE ~Buried(Len(branch), call[c].num)
  BY <1>3, <1>4, <1>7, LocalStep DEF ReadHeight, Turn, Goto, Become
<1> QED BY <1>6, <1>7

LEMMA ReadAgainInv == ASSUME IInv, NEW c \in Callers, ReadAgain(c) PROVE IInv'
<1>1. CallOK(call[c]) /\ call[c].pc = "again" BY DEF IInv, ReadAgain, At
<1>2. call[c] \in Call /\ call[c].op \in Ops /\ Family[call[c].op] = "evm"
  BY <1>1 DEF CallOK, Busy, Pcs
<1>3. UNCHANGED <<store, ledger, open, bounds>> /\ answers' \subseteq Answer
  BY DEF ReadAgain, Own, IInv
<1>4. CallOK([call[c] EXCEPT !.pc = "receipt"])
  BY <1>1, <1>2 DEF CallOK, Call, Pcs, Busy, Polling, Recorded
<1>5. SameReceipt(c) => CallOK([call[c] EXCEPT !.pc = "found"])
  <2> SUFFICES ASSUME NEW r \in Receipt(c), r.blk = call[c].blk, r.ok
               PROVE  CallOK([call[c] EXCEPT !.pc = "found"])
    BY DEF SameReceipt
  <2>1. TxOf(c) \in DOMAIN net /\ r = net[TxOf(c)] /\ AtHeight(r.blk, Height(r.blk))
    BY <1>2, ReceiptSeen
  <2>2. Canonical(call[c].blk) BY <2>1 DEF Canonical, AtHeight
  <2>3. Settled(r.blk, call[c].num) /\ call[c].num \in Nat BY <1>1, <2>2 DEF CallOK
  <2>4. Fixed(TxOf(c)) BY <1>2, <2>1, <2>3 DEF Fixed, TxOf
  <2> QED BY <1>1, <1>2, <2>4 DEF CallOK, Call, Pcs, Busy, Polling, Recorded, TxOf
<1>6. CASE SameReceipt(c)
  BY <1>3, <1>5, <1>6, LocalStep DEF ReadAgain, Goto, Become
<1>7. CASE ~SameReceipt(c)
  BY <1>3, <1>4, <1>7, LocalStep DEF ReadAgain, Turn, Goto, Become
<1> QED BY <1>6, <1>7

LEMMA ReadFinalityInv == ASSUME IInv, NEW c \in Callers, ReadFinality(c) PROVE IInv'
<1>1. CallOK(call[c]) /\ call[c].pc = "finality" BY DEF IInv, ReadFinality, At
<1>2. call[c] \in Call /\ call[c].op \in Ops /\ Family[call[c].op] = "solana"
  BY <1>1 DEF CallOK, Busy, Pcs
<1>3. UNCHANGED <<store, ledger, open, bounds>> /\ answers' \subseteq Answer
  BY DEF ReadFinality, Own, IInv
<1>4. net[TxOf(c)].ok => CallOK([call[c] EXCEPT !.pc = "found"])
  <2> SUFFICES ASSUME net[TxOf(c)].ok PROVE CallOK([call[c] EXCEPT !.pc = "found"])
    OBVIOUS
  <2>1. Fixed(TxOf(c)) BY <1>2 DEF ReadFinality, Fixed, TxOf
  <2> QED BY <1>1, <1>2, <2>1 DEF CallOK, Call, Pcs, Busy, Polling, Recorded, TxOf
<1>5. CASE net[TxOf(c)].ok
  BY <1>3, <1>4, <1>5, LocalStep DEF ReadFinality, Goto, Become
<1>6. CASE ~net[TxOf(c)].ok
  BY <1>3, <1>6, NoCallOK, LocalStep DEF ReadFinality, Become
<1> QED BY <1>5, <1>6

\* Giving up a confirmation, and its time passing, change only the call.
LEMMA GiveUpInv == ASSUME IInv, NEW c \in Callers, GiveUp(c) PROVE IInv'
<1>1. call' = [call EXCEPT ![c] = NoCall] /\ UNCHANGED <<store, ledger, open, bounds, answers>>
  BY DEF GiveUp, Become, Own
<1> QED BY <1>1, NoCallOK, LocalStep DEF IInv

LEMMA TimeOutInv == ASSUME IInv, NEW c \in Callers, TimeOut(c) PROVE IInv'
<1>1. CallOK(call[c]) BY DEF IInv
<1>2. CallOK([call[c] EXCEPT !.late = TRUE])
  BY <1>1 DEF CallOK, Call, Busy, Polling, Recorded
<1>3. UNCHANGED <<store, ledger, open, bounds, answers>> BY DEF TimeOut, Own
<1>4. call' = [call EXCEPT ![c] = [call[c] EXCEPT !.late = TRUE]] BY DEF TimeOut, Become
<1> QED BY <1>2, <1>3, <1>4, LocalStep DEF IInv

(*------------------------------ the world's steps ------------------------------*)
\* What is settled is at a block id, so neither pending nor gone.
LEMMA FixedPlace ==
  ASSUME IInv, NEW t \in DOMAIN net, t.op \in Ops, Fixed(t)
  PROVE  /\ IF Family[t.op] = "evm" THEN net[t].blk \in 1 .. blocks /\ net[t].blk \in Range(branch)
            ELSE net[t].blk = Final
         /\ net[t].blk \notin {Pool, Gone}
BY DEF IInv, ChainOK, Fixed, Settled, AtHeight, Range, Pool, Gone, Final

LEMMA SameChain ==
  ASSUME ChainOK, UNCHANGED <<branch, blocks>>
  PROVE  ChainKept
BY DEF ChainOK, ChainKept, Canonical, AtHeight, Settled

LEMMA NetKept ==
  ASSUME ChainOK, ChainKept, DOMAIN net \subseteq DOMAIN net',
         \A t \in DOMAIN net : t.op \in Ops /\ Fixed(t) => net'[t] = net[t]
  PROVE  Kept
<1> SUFFICES ASSUME NEW t \in DOMAIN net, t.op \in Ops, Fixed(t) PROVE Fixed(t)'
  BY DEF Kept
<1>1. net'[t] = net[t] /\ t \in DOMAIN net' OBVIOUS
<1>2. CASE Family[t.op] = "evm"
  <2>1. PICK n \in Nat : Settled(net[t].blk, n) BY <1>2 DEF Fixed
  <2>2. net[t].blk \in 1 .. blocks BY <2>1 DEF Settled, AtHeight, ChainOK
  <2> DEFINE b == net[t].blk
  <2>3. \A x : x = b => Settled(x, n)' BY <2>1, <2>2 DEF ChainKept
  <2>4. Settled(net[t].blk, n)' BY <1>1, <2>3 DEF Settled, AtHeight
  <2> QED BY <1>1, <1>2, <2>4 DEF Fixed
<1>3. CASE Family[t.op] # "evm"
  BY <1>1, <1>3 DEF Fixed
<1> QED BY <1>2, <1>3

LEMMA BlockInv == ASSUME IInv, Block PROVE IInv'
<1>1. blocks' = blocks + 1 /\ branch' = Append(branch, blocks + 1) /\ UNCHANGED hash
  BY DEF Block
<1>2. blocks \in Nat /\ branch \in Seq(Nat) BY DEF IInv, ChainOK
<1>3. /\ Len(branch') = Len(branch) + 1 /\ branch' \in Seq(Nat)
      /\ \A n \in 1 .. Len(branch) : branch'[n] = branch[n]
      /\ branch'[Len(branch) + 1] = blocks + 1
  BY <1>1, <1>2
<1>4. ChainOK'
  <2>1. \A n \in 1 .. Len(branch') : branch'[n] \in 1 .. blocks'
    BY <1>1, <1>2, <1>3 DEF IInv, ChainOK
  <2>2. ASSUME NEW m \in 1 .. Len(branch'), NEW n \in 1 .. Len(branch'), m < n
        PROVE  branch'[m] < branch'[n]
    <3>1. m \in 1 .. Len(branch) /\ branch'[m] = branch[m] BY <1>2, <1>3, <2>2
    <3>2. branch[m] \in 1 .. blocks BY <3>1 DEF IInv, ChainOK
    <3>3. CASE n = Len(branch) + 1 BY <1>2, <1>3, <3>1, <3>2, <3>3
    <3>4. CASE n # Len(branch) + 1
      <4>1. n \in 1 .. Len(branch) BY <1>2, <1>3, <3>4
      <4>2. branch[m] < branch[n] BY <2>2, <3>1, <4>1 DEF IInv, ChainOK
      <4> QED BY <1>3, <3>1, <4>1, <4>2
    <3> QED BY <3>3, <3>4
  <2> QED BY <1>1, <1>2, <1>3, <2>1, <2>2 DEF IInv, ChainOK
<1>5. ChainKept
  <2>1. ASSUME NEW b \in 1 .. blocks, Canonical(b)' PROVE Canonical(b)
    <3>1. PICK n \in 1 .. Len(branch') : branch'[n] = b BY <2>1 DEF Canonical
    <3>2. n \in 1 .. Len(branch) BY <1>2, <1>3, <3>1
    <3> QED BY <1>3, <3>1, <3>2 DEF Canonical
  <2>2. ASSUME NEW b \in 1 .. blocks, NEW n \in Nat, AtHeight(b, n) PROVE AtHeight(b, n)'
    BY <1>2, <1>3, <2>2 DEF AtHeight
  <2>3. ASSUME NEW b \in 1 .. blocks, NEW n \in Nat, Settled(b, n) PROVE Settled(b, n)'
    BY <1>2, <1>3, <2>2, <2>3, DepthAssumption DEF Settled
  <2> QED BY <1>1, <1>2, <2>1, <2>2, <2>3 DEF ChainKept
<1> DEFINE Moved == /\ DOMAIN net' = DOMAIN net /\ \A u \in DOMAIN net : net'[u] \in Place
                    /\ \A u \in DOMAIN net : net[u].blk # Pool => net'[u] = net[u]
<1>6. Moved
  <2>1. CASE UNCHANGED net BY <2>1 DEF IInv, NetOK
  <2>2. ASSUME NEW t \in Pending, NEW ok \in BOOLEAN,
               net' = [net EXCEPT ![t] = [blk |-> blocks', ok |-> ok]]
        PROVE  Moved
    BY <1>1, <1>2, <2>2 DEF Pending, Place, IInv, NetOK
  <2> QED BY <2>1, <2>2 DEF Block
<1>7. NetOK' BY <1>6 DEF IInv, NetOK
<1>8. Kept BY <1>5, <1>6, FixedPlace, NetKept DEF IInv
<1> QED BY <1>4, <1>6, <1>7, <1>8, WorldStep DEF Block, bounds, IInv
\* The last d elements of a sequence replaced by d new ids.
LEMMA ReplacedTail ==
  ASSUME NEW s \in Seq(Nat), NEW b \in Nat, NEW d \in 1 .. Len(s)
  PROVE  LET r == SubSeq(s, 1, Len(s) - d) \o [i \in 1 .. d |-> b + i]
         IN  /\ r \in Seq(Nat) /\ Len(r) = Len(s)
             /\ \A n \in 1 .. Len(s) :
                  /\ n <= Len(s) - d => r[n] = s[n]
                  /\ n > Len(s) - d => r[n] = b + (n - (Len(s) - d))
<1> DEFINE keep == SubSeq(s, 1, Len(s) - d)
           new  == [i \in 1 .. d |-> b + i]
<1>1. /\ keep \in Seq(Nat) /\ Len(keep) = Len(s) - d
      /\ \A n \in 1 .. Len(s) - d : keep[n] = s[n]
  OBVIOUS
<1>2. new \in Seq(Nat) /\ Len(new) = d /\ \A n \in 1 .. d : new[n] = b + n
  OBVIOUS
<1> DEFINE k == Len(s) - d
<1>3. k \in Nat /\ Len(s) = k + d /\ Len(keep) = k BY <1>1
<1> HIDE DEF keep, new, k
<1>4. /\ keep \o new \in Seq(Nat) /\ Len(keep \o new) = k + d
      /\ \A n \in 1 .. k + d : (keep \o new)[n] = IF n <= k THEN keep[n] ELSE new[n - k]
  BY <1>1, <1>2, <1>3, ConcatProperties
<1>5. ASSUME NEW n \in 1 .. Len(s), n <= k PROVE (keep \o new)[n] = s[n]
  BY <1>1, <1>3, <1>4, <1>5 DEF k
<1>6. ASSUME NEW n \in 1 .. Len(s), n > k PROVE (keep \o new)[n] = b + (n - k)
  <2>1. n - k \in 1 .. d BY <1>3, <1>6
  <2> QED BY <1>2, <1>3, <1>4, <1>6, <2>1
<1> QED BY <1>3, <1>4, <1>5, <1>6 DEF keep, new, k

LEMMA ReorgInv == ASSUME IInv, Reorg PROVE IInv'
<1>1. PICK d \in 1 .. ReorgDepth :
        LET keep == SubSeq(branch, 1, Len(branch) - d)
            new  == [i \in 1 .. d |-> blocks + i]
            lost == {t \in DOMAIN net : Mined(t) /\ net[t].blk \notin Range(keep)}
        IN  /\ d <= Len(branch) /\ branch' = keep \o new /\ blocks' = blocks + d
            /\ \E f \in [lost -> {Pool} \union Range(new)], ok \in [lost -> BOOLEAN] :
                 net' = [t \in DOMAIN net |->
                           IF t \in lost THEN [blk |-> f[t], ok |-> f[t] # Pool /\ ok[t]]
                           ELSE net[t]]
  BY DEF Reorg
<1> DEFINE L    == Len(branch)
           k    == L - d
           keep == SubSeq(branch, 1, L - d)
           new  == [i \in 1 .. d |-> blocks + i]
           lost == {t \in DOMAIN net : Mined(t) /\ net[t].blk \notin Range(keep)}
<1>2. /\ blocks \in Nat /\ branch \in Seq(Nat) /\ L \in Nat
      /\ d \in 1 .. L /\ d < Depth /\ Depth \in Nat
  BY <1>1, ReorgAssumption, DepthAssumption DEF IInv, ChainOK
<1>3. k \in Nat /\ L = k + d BY <1>2
<1>4. /\ branch' \in Seq(Nat) /\ Len(branch') = L /\ blocks' = blocks + d /\ UNCHANGED hash
      /\ \A n \in 1 .. L :
           /\ n <= k => branch'[n] = branch[n]
           /\ n > k => branch'[n] = blocks + (n - k)
  <2>1. /\ branch' = SubSeq(branch, 1, Len(branch) - d) \o [i \in 1 .. d |-> blocks + i]
        /\ blocks' = blocks + d /\ UNCHANGED hash
    BY <1>1 DEF Reorg
  <2>2. LET r == SubSeq(branch, 1, Len(branch) - d) \o [i \in 1 .. d |-> blocks + i]
        IN  /\ r \in Seq(Nat) /\ Len(r) = Len(branch)
            /\ \A n \in 1 .. Len(branch) :
                  /\ n <= Len(branch) - d => r[n] = branch[n]
                  /\ n > Len(branch) - d => r[n] = blocks + (n - (Len(branch) - d))
    BY <1>2, ReplacedTail
  <2> QED BY <2>1, <2>2
<1>5. keep \in Seq(Nat) /\ Len(keep) = k /\ \A n \in 1 .. k : keep[n] = branch[n]
  BY <1>2
<1>6. \A t : t \in lost => t \in DOMAIN net /\ Mined(t) /\ net[t].blk \notin Range(keep)
  OBVIOUS
<1>7. \A x \in Range(new) : x \in Nat BY <1>2 DEF Range
<1>8. PICK f \in [lost -> {Pool} \union Range(new)], ok \in [lost -> BOOLEAN] :
        net' = [t \in DOMAIN net |-> IF t \in lost THEN [blk |-> f[t], ok |-> f[t] # Pool /\ ok[t]]
                                     ELSE net[t]]
  BY <1>1
<1> HIDE DEF L, k, keep, new, lost
<1>9. NetOK' /\ DOMAIN net' = DOMAIN net
  <2>1. \A t \in lost : f[t] \in Int BY <1>7, <1>8 DEF Pool
  <2>2. \A t \in lost : [blk |-> f[t], ok |-> f[t] # Pool /\ ok[t]] \in Place
    BY <1>8, <2>1 DEF Place
  <2> QED BY <1>8, <2>2 DEF IInv, NetOK
<1>10. \A n \in 1 .. L : branch[n] \in 1 .. blocks BY DEF IInv, ChainOK, L
<1>11. ASSUME NEW t \in DOMAIN net, t.op \in Ops, Fixed(t) PROVE net'[t] = net[t]
  <2>1. CASE Family[t.op] = "evm"
    <3>1. PICK n \in Nat : Settled(net[t].blk, n) BY <1>11, <2>1 DEF Fixed
    <3>2. n \in 1 .. L /\ n + Depth - 1 <= L /\ net[t].blk = branch[n]
      BY <3>1 DEF Settled, AtHeight, L
    <3>3. n \in 1 .. k BY <1>2, <1>3, <3>2
    <3>4. net[t].blk \in Range(keep) BY <1>5, <3>2, <3>3 DEF Range
    <3> QED BY <1>6, <1>8, <3>4
  <2>2. CASE Family[t.op] # "evm"
    <3>1. ~Mined(t) BY <1>11, <2>2, NameAssumption DEF Mined, IsEvm
    <3> QED BY <1>6, <1>8, <3>1
  <2> QED BY <2>1, <2>2
<1>12. \A n \in 1 .. L : branch'[n] \in 1 .. blocks' /\ (n > k => branch'[n] > blocks)
  <2> SUFFICES ASSUME NEW n \in 1 .. L
               PROVE  branch'[n] \in 1 .. blocks' /\ (n > k => branch'[n] > blocks)
    OBVIOUS
  <2>1. CASE n <= k BY <1>2, <1>3, <1>4, <1>10, <2>1
  <2>2. CASE n > k
    <3>1. branch'[n] = blocks + (n - k) BY <1>4, <2>2
    <3>2. n - k \in 1 .. d BY <1>2, <1>3, <2>2
    <3> QED BY <1>2, <1>4, <3>1, <3>2
  <2> QED BY <1>2, <1>3, <2>1, <2>2
<1>13. ChainOK'
  <2>1. ASSUME NEW m \in 1 .. L, NEW n \in 1 .. L, m < n PROVE branch'[m] < branch'[n]
    <3>1. branch[m] < branch[n] BY <2>1 DEF IInv, ChainOK, L
    <3>2. branch[m] \in 1 .. blocks BY <1>10
    <3>3. CASE n <= k BY <1>2, <1>3, <1>4, <2>1, <3>1, <3>3
    <3>4. CASE m <= k /\ n > k
      <4>1. branch'[m] = branch[m] BY <1>4, <3>4
      <4>2. branch'[n] > blocks /\ branch'[n] \in Int BY <1>2, <1>12, <1>4, <3>4
      <4> QED BY <1>2, <3>2, <4>1, <4>2
    <3>5. CASE m > k BY <1>2, <1>3, <1>4, <2>1, <3>5
    <3> QED BY <1>3, <3>3, <3>4, <3>5
  <2> QED BY <1>2, <1>4, <1>12, <2>1 DEF IInv, ChainOK
<1>14. ASSUME NEW b \in 1 .. blocks, NEW n \in 1 .. L, branch'[n] = b
       PROVE  n <= k /\ branch[n] = b
  <2>1. ~(n > k) BY <1>2, <1>12, <1>14
  <2>2. n <= k BY <1>2, <1>3, <2>1
  <2> QED BY <1>4, <1>14, <2>2
<1>15. ChainKept
  <2>1. ASSUME NEW b \in 1 .. blocks, Canonical(b)' PROVE Canonical(b)
    BY <1>4, <1>14, <2>1 DEF Canonical, L
  <2>2. ASSUME NEW b \in 1 .. blocks, NEW n \in Nat, AtHeight(b, n), Canonical(b)'
        PROVE  AtHeight(b, n)'
    <3>1. PICK m \in 1 .. L : branch'[m] = b BY <1>4, <2>2 DEF Canonical
    <3>2. m <= k /\ branch[m] = b BY <1>14, <3>1
    <3>3. n \in 1 .. L /\ branch[n] = b BY <2>2 DEF AtHeight, L
    <3>4. ~(m < n) /\ ~(n < m) BY <1>10, <3>2, <3>3 DEF IInv, ChainOK, L
    <3>5. m = n BY <1>2, <3>3, <3>4
    <3> QED BY <1>4, <3>1, <3>5 DEF AtHeight
  <2>3. ASSUME NEW b \in 1 .. blocks, NEW n \in Nat, Settled(b, n) PROVE Settled(b, n)'
    <3>1. n \in 1 .. L /\ n + Depth - 1 <= L /\ branch[n] = b
      BY <2>3 DEF Settled, AtHeight, L
    <3>2. branch'[n] = b BY <1>2, <1>3, <1>4, <3>1
    <3> QED BY <1>4, <3>1, <3>2 DEF Settled, AtHeight
  <2> QED BY <1>2, <1>4, <2>1, <2>2, <2>3 DEF ChainKept
<1>16. Kept BY <1>9, <1>11, <1>15, NetKept DEF IInv
<1> QED BY <1>9, <1>13, <1>16, WorldStep DEF Reorg, IInv

\* An EVM transaction accepted into the pool disturbs no settled one.
LEMMA EvmAcceptsKept ==
  ASSUME IInv, NEW t \in Tx, IsEvm(t), EvmAccepts(t), UNCHANGED <<branch, blocks>>
  PROVE  Kept /\ NetOK' /\ DOMAIN net' = DOMAIN net \union {t}
<1>1. DOMAIN net' = DOMAIN net \union {t} BY DEF EvmAccepts
<1>2. IsFiniteSet(DOMAIN net') BY <1>1, FS_AddElement DEF IInv, NetOK
<1>3. \A u \in DOMAIN net' : net'[u] \in Place
  BY DEF EvmAccepts, IInv, NetOK, Place, Pool, Gone
<1>4. NetOK' BY <1>1, <1>2, <1>3 DEF IInv, NetOK
<1>5. ASSUME NEW u \in DOMAIN net, u.op \in Ops, Fixed(u) PROVE net'[u] = net[u]
  <2>1. net[u].blk \notin {Pool, Gone} BY <1>5, FixedPlace
  <2> QED BY <2>1 DEF EvmAccepts, Pending
<1> QED BY <1>1, <1>4, <1>5, SameChain, NetKept DEF IInv

LEMMA SolAcceptsKept ==
  ASSUME IInv, NEW t \in Tx, SolAccepts(t), UNCHANGED <<branch, blocks>>
  PROVE  Kept /\ NetOK' /\ DOMAIN net' = DOMAIN net \union {t}
<1>1. DOMAIN net' = DOMAIN net \union {t} BY DEF SolAccepts
<1>2. IsFiniteSet(DOMAIN net') BY <1>1, FS_AddElement DEF IInv, NetOK
<1>3. \A u \in DOMAIN net' : net'[u] \in Place
  BY DEF SolAccepts, IInv, NetOK, Place, Pool
<1>4. NetOK' BY <1>1, <1>2, <1>3 DEF IInv, NetOK
<1>5. \A u \in DOMAIN net : net'[u] = net[u] BY DEF SolAccepts
<1> QED BY <1>1, <1>4, <1>5, SameChain, NetKept DEF IInv

LEMMA ElsewhereInv == ASSUME IInv, Elsewhere PROVE IInv'
<1>1. PICK n \in Nat : EvmAccepts([op |-> Foreign, slot |-> n])
  BY NextNonceNat DEF Elsewhere
<1> DEFINE t == [op |-> Foreign, slot |-> n]
<1>2. t \in Tx /\ IsEvm(t) /\ t.op \notin Ops BY NameAssumption DEF Tx, IsEvm
<1>3. Kept /\ NetOK' /\ DOMAIN net' = DOMAIN net \union {t}
  BY <1>1, <1>2, EvmAcceptsKept DEF Elsewhere
<1>4. ChainOK' BY DEF Elsewhere, IInv, ChainOK
<1> QED BY <1>2, <1>3, <1>4, WorldStep DEF Elsewhere, IInv

LEMMA NewHashInv == ASSUME IInv, NewHash PROVE IInv'
<1>1. /\ DOMAIN net' = DOMAIN net /\ \A t \in DOMAIN net : net'[t] \in Place
      /\ \A t \in DOMAIN net : net[t].blk # Pool => net'[t] = net[t]
  BY DEF NewHash, IInv, NetOK, Place, Gone
<1>2. NetOK' BY <1>1 DEF IInv, NetOK
<1>3. Kept BY <1>1, FixedPlace, NetKept, SameChain DEF IInv, NewHash
<1>4. ChainOK' BY DEF NewHash, IInv, ChainOK
<1> QED BY <1>1, <1>2, <1>3, <1>4, WorldStep DEF NewHash, bounds, IInv

LEMMA FinalizeInv == ASSUME IInv, Finalize PROVE IInv'
<1>1. PICK t \in DOMAIN net, ok \in BOOLEAN :
        net[t].blk = Pool /\ net' = [net EXCEPT ![t] = [blk |-> Final, ok |-> ok]]
  BY DEF Finalize
<1>2. /\ DOMAIN net' = DOMAIN net /\ \A u \in DOMAIN net : net'[u] \in Place
      /\ \A u \in DOMAIN net : net[u].blk # Pool => net'[u] = net[u]
  BY <1>1 DEF IInv, NetOK, Place, Final
<1>3. NetOK' BY <1>2 DEF IInv, NetOK
<1>4. Kept BY <1>2, FixedPlace, NetKept, SameChain DEF IInv, Finalize
<1>5. ChainOK' BY DEF Finalize, IInv, ChainOK
<1> QED BY <1>2, <1>3, <1>4, <1>5, WorldStep DEF Finalize, bounds, IInv

LEMMA CloseInv == ASSUME IInv, Close PROVE IInv'
<1>1. Kept BY SameLedgerKept DEF Close, IInv
<1>2. ChainOK' /\ NetOK' BY DEF Close, ledger, IInv, ChainOK, NetOK
<1> QED BY <1>1, <1>2, WorldStep DEF Close, ledger, bounds, IInv

LEMMA CrashInv == ASSUME IInv, Durable, Crash PROVE IInv'
<1>1. Kept BY SameLedgerKept DEF Crash, IInv
<1>2. ChainOK' /\ NetOK' BY DEF Crash, ledger, IInv, ChainOK, NetOK
<1>3. StoreOK' BY <1>1, StoreKept DEF Crash, ledger, IInv
<1>4. \A x : CallOK(x) => CallOK(x)' BY <1>1, CallKept DEF Crash
<1>5. \A d \in Callers : \E x : x = call'[d] /\ CallOK(x) BY NoCallOK DEF Crash
<1>6. (\A d \in Callers : CallOK(call[d]))' BY <1>4, <1>5, EachCallOK
<1>7. call' \in [Callers -> Call] BY NoCallOK DEF Crash, CallOK
<1> QED BY <1>2, <1>3, <1>6, <1>7 DEF Crash, IInv
(*--------------------- the steps that change store or network ---------------------*)
\* A step of the only call.
LEMMA OnlyCallStep ==
  ASSUME IInv, Usage, NEW c \in Callers,
         \E x : call' = [call EXCEPT ![c] = x] /\ CallOK(x)', ChainOK', NetOK', StoreOK',
         answers' \subseteq Answer, UNCHANGED <<open, bounds>>
  PROVE  IInv'
<1>1. \A d \in Callers : d = c BY DEF Usage
<1>2. (\A d \in Callers : CallOK(call[d]))' BY <1>1, EachCallOK DEF IInv
<1>3. call' \in [Callers -> Call] BY DEF CallOK, IInv
<1> QED BY <1>2, <1>3 DEF IInv, bounds

\* The only transaction an operation can have in the network.
LEMMA StoredTx ==
  ASSUME IInv, NEW t \in DOMAIN net, t.op \in Ops
  PROVE  t = [op |-> t.op, slot |-> store[t.op].slot]
BY DEF IInv, StoreOK, NetOK, Tx

LEMMA KeepPreparedInv == ASSUME IInv, Usage, NEW c \in Callers, KeepPrepared(c) PROVE IInv'
<1> DEFINE o == call[c].op
<1>1. CallOK(call[c]) /\ call[c].pc = "keep" BY DEF IInv, KeepPrepared, At
<1>2. /\ call[c] \in Call /\ o \in Ops /\ store[o].st = "none"
      /\ call[c].win \in Windows
  BY <1>1 DEF CallOK, Busy, Pcs
<1>3. /\ store' = [store EXCEPT ![o] = Prepared(c)]
      /\ call' = [call EXCEPT ![c] = [call[c] EXCEPT !.pc = "ready"]]
      /\ UNCHANGED <<ledger, open, bounds, answers>>
  BY DEF KeepPrepared, Goto, Become, Own
<1>4. Prepared(c) \in Record /\ Prepared(c).st = "prepared"
  BY <1>2 DEF Prepared, Record, Call
<1> HIDE DEF o
<1>5. Kept BY <1>3, SameLedgerKept DEF IInv
<1>6. StoreOK'
  <2>1. store' \in [Ops -> Record] BY <1>2, <1>3, <1>4 DEF IInv, StoreOK
  <2>2. \A t \in DOMAIN net : t.op # o BY <1>2 DEF IInv, StoreOK
  <2>3. store'[o].st = "prepared" /\ \A p \in Ops : p # o => store'[p] = store[p]
    BY <1>2, <1>3, <1>4 DEF IInv, StoreOK
  <2>4. ASSUME NEW p \in Ops, store'[p].st = "confirmed"
        PROVE  Fixed([op |-> p, slot |-> store[p].slot])'
    <3>1. store'[p] = store[p] BY <2>3, <2>4
    <3>2. \A t : t = [op |-> p, slot |-> store[p].slot] =>
                   t \in DOMAIN net /\ t.op \in Ops /\ Fixed(t)
      BY <2>4, <3>1 DEF IInv, StoreOK
    <3>3. \A t : t = [op |-> p, slot |-> store[p].slot] => Fixed(t)'
      BY <1>5, <3>2 DEF Kept
    <3>4. \E t : t = [op |-> p, slot |-> store'[p].slot] /\ Fixed(t)' BY <3>1, <3>3
    <3> QED BY <3>4 DEF Fixed, Settled, AtHeight
  <2>5. \A t \in DOMAIN net' : t.op \in Ops => store'[t.op].st # "none" /\ store'[t.op].slot = t.slot
    BY <1>3, <2>2, <2>3 DEF IInv, StoreOK, ledger
  <2>6. \A p \in Ops : store'[p].st \in {"submitted", "confirmed"} =>
                         [op |-> p, slot |-> store'[p].slot] \in DOMAIN net'
    BY <1>3, <2>3 DEF IInv, StoreOK, ledger
  <2> QED BY <2>1, <2>4, <2>5, <2>6 DEF StoreOK
<1>7. \E x : call' = [call EXCEPT ![c] = x] /\ CallOK(x)'
  <2>1. PICK x : x = [call[c] EXCEPT !.pc = "ready"] OBVIOUS
  <2>2. x \in Call /\ x.pc = "ready" /\ x.op \in Ops BY <1>2, <2>1 DEF Call, Pcs, o
  <2>3. CallOK(x)' BY <2>2 DEF CallOK, Busy, Polling
  <2> QED BY <1>3, <2>1, <2>3 DEF IInv
<1>8. ChainOK' /\ NetOK' BY <1>3 DEF IInv, ChainOK, NetOK, ledger
<1> QED BY <1>3, <1>6, <1>7, <1>8, OnlyCallStep DEF IInv

LEMMA SendTransactionInv ==
  ASSUME IInv, Usage, NEW c \in Callers, SendTransaction(c)
  PROVE  IInv'
<1> DEFINE o == call[c].op
<1>1. CallOK(call[c]) /\ call[c].pc = "send" BY DEF IInv, SendTransaction, At
<1>2. /\ call[c] \in Call /\ o \in Ops /\ store[o] = call[c].rec
      /\ call[c].rec.st = "prepared" /\ call[c].rec.slot = call[c].slot
  BY <1>1 DEF CallOK, Busy, Pcs, Recorded
<1>3. TxOf(c) \in Tx /\ TxOf(c).op = o /\ TxOf(c).slot = call[c].slot
  BY <1>2 DEF TxOf, Tx, Call
<1>4. UNCHANGED <<store, answers, open, branch, blocks, hash, bounds>>
  BY DEF SendTransaction
<1>5. Kept /\ NetOK' /\ DOMAIN net' = DOMAIN net \union {TxOf(c)}
  BY <1>3, <1>4, EvmAcceptsKept, SolAcceptsKept DEF SendTransaction, Accepts
<1>6. StoreOK'
  <2>1. store[o].st # "none" /\ store[o].slot = TxOf(c).slot BY <1>2, <1>3
  <2>2. \A t \in DOMAIN net' : t.op \in Ops /\ t \notin DOMAIN net =>
                                 store[t.op].st # "none" /\ store[t.op].slot = t.slot
    BY <1>3, <1>5, <2>1
  <2> QED BY <1>4, <1>5, <2>2, StoreKept DEF IInv
<1>7. \E x : call' = [call EXCEPT ![c] = x] /\ CallOK(x)'
  <2>1. CASE call' = [call EXCEPT ![c] = NoCall]
    <3>1. CallOK(NoCall)' BY <1>4, <1>5, NoCallOK, CallKept
    <3> QED BY <2>1, <3>1 DEF IInv
  <2>2. CASE call' = [call EXCEPT ![c] = [call[c] EXCEPT !.pc = "answer"]]
    <3>1. PICK x : x = [call[c] EXCEPT !.pc = "answer"] OBVIOUS
    <3>2. /\ x \in Call /\ x.pc = "answer" /\ x.op = o /\ x.slot = call[c].slot
          /\ x.rec = call[c].rec
      BY <1>2, <3>1 DEF Call, Pcs
    <3>3. [op |-> x.op, slot |-> x.slot] \in DOMAIN net' BY <1>5, <3>2 DEF TxOf
    <3>4. CallOK(x)' BY <1>2, <1>4, <3>2, <3>3 DEF CallOK, Busy, Polling, Recorded
    <3> QED BY <2>2, <3>1, <3>4 DEF IInv
  <2> QED BY <2>1, <2>2 DEF SendTransaction, Goto, Become
<1>8. ChainOK' BY <1>4 DEF IInv, ChainOK
<1> QED BY <1>4, <1>5, <1>6, <1>7, <1>8, OnlyCallStep DEF IInv

\* KeepHash and Report store a record that differs from the one read in st alone.
LEMMA StatusStep ==
  ASSUME IInv, NEW o \in Ops, NEW r \in Record, r.slot = store[o].slot,
         r.st \in {"submitted", "confirmed"},
         store' = [store EXCEPT ![o] = r], UNCHANGED ledger,
         [op |-> o, slot |-> r.slot] \in DOMAIN net,
         r.st = "confirmed" \/ store[o].st = "confirmed" => Fixed([op |-> o, slot |-> r.slot])
  PROVE  StoreOK' /\ Kept
<1>1. Kept BY SameLedgerKept DEF IInv
<1>2. store' \in [Ops -> Record] BY DEF IInv, StoreOK
<1>3. store'[o] = r /\ \A p \in Ops : p # o => store'[p] = store[p] BY DEF IInv, StoreOK
<1>4. ASSUME NEW p \in Ops, store'[p].st = "confirmed"
      PROVE  Fixed([op |-> p, slot |-> store[p].slot])'
  <2>1. \A t : t = [op |-> p, slot |-> store'[p].slot] =>
                 t \in DOMAIN net /\ t.op \in Ops /\ Fixed(t)
    BY <1>3, <1>4 DEF IInv, StoreOK
  <2>2. \E t : t = [op |-> p, slot |-> store'[p].slot] /\ Fixed(t)' BY <1>1, <2>1 DEF Kept
  <2> QED BY <2>2 DEF Fixed, Settled, AtHeight
<1>5. \A t \in DOMAIN net' : t.op \in Ops => store'[t.op].st # "none" /\ store'[t.op].slot = t.slot
  BY <1>3 DEF IInv, StoreOK, ledger
<1>6. \A p \in Ops : store'[p].st \in {"submitted", "confirmed"} =>
                       [op |-> p, slot |-> store'[p].slot] \in DOMAIN net'
  BY <1>3 DEF IInv, StoreOK, ledger
<1> QED BY <1>1, <1>2, <1>4, <1>5, <1>6 DEF StoreOK

LEMMA KeepHashInv == ASSUME IInv, Usage, NEW c \in Callers, KeepHash(c) PROVE IInv'
<1> DEFINE o == call[c].op
           r == Submitted(call[c].rec)
<1>1. CallOK(call[c]) /\ call[c].pc = "answer" BY DEF IInv, KeepHash, At
<1>2. /\ call[c] \in Call /\ o \in Ops /\ store[o] = call[c].rec
      /\ call[c].rec.st = "prepared" /\ call[c].rec.slot = call[c].slot
      /\ [op |-> o, slot |-> call[c].slot] \in DOMAIN net
  BY <1>1 DEF CallOK, Busy, Pcs, Recorded
<1>3. r \in Record /\ r.slot = call[c].slot /\ r.st = "submitted"
  BY <1>2 DEF Submitted, Call, Record
<1>4. store' = [store EXCEPT ![o] = r] /\ UNCHANGED <<ledger, open, bounds>>
  BY DEF KeepHash, Own
<1>5. call' = [call EXCEPT ![c] = [call[c] EXCEPT !.pc = "sent"]]
  BY DEF KeepHash, Goto, Become
<1>6. StoreOK'
  <2> HIDE DEF o, r
  <2> QED BY <1>2, <1>3, <1>4, StatusStep
<1>7. \E x : call' = [call EXCEPT ![c] = x] /\ CallOK(x)'
  <2>1. PICK x : x = [call[c] EXCEPT !.pc = "sent"] OBVIOUS
  <2>2. x \in Call /\ x.pc = "sent" /\ x.op \in Ops BY <1>2, <2>1 DEF Call, Pcs
  <2>3. CallOK(x)' BY <2>2 DEF CallOK, Busy, Polling
  <2> QED BY <1>5, <2>1, <2>3 DEF IInv
<1>8. ChainOK' /\ NetOK' BY <1>4 DEF IInv, ChainOK, NetOK, ledger
<1>9. AnswerOf(c) \in Answer BY <1>2 DEF AnswerOf, Answer, Call
<1>10. answers' \subseteq Answer BY <1>9 DEF KeepHash, IInv
<1> QED BY <1>4, <1>5, <1>6, <1>7, <1>8, <1>10, OnlyCallStep DEF IInv

LEMMA ReportInv == ASSUME IInv, Usage, NEW c \in Callers, Report(c) PROVE IInv'
<1> DEFINE o == call[c].op
           r == Confirmed(call[c].rec)
<1>1. CallOK(call[c]) /\ call[c].pc = "found" BY DEF IInv, Report, At
<1>2. /\ call[c] \in Call /\ o \in Ops /\ store[o] = call[c].rec
      /\ call[c].rec.slot = call[c].slot /\ Fixed([op |-> o, slot |-> call[c].slot])
  BY <1>1 DEF CallOK, Busy, Pcs, Recorded, Polling
<1>3. r \in Record /\ r.slot = call[c].slot /\ r.st = "confirmed"
  BY <1>2 DEF Confirmed, Call, Record
<1>4. store' = [store EXCEPT ![o] = r] /\ UNCHANGED <<ledger, open, bounds, answers>>
  BY DEF Report, Own
<1>5. call' = [call EXCEPT ![c] = NoCall] BY DEF Report, Become
<1>6. [op |-> o, slot |-> call[c].slot] \in DOMAIN net BY <1>2 DEF Fixed
<1>7. StoreOK' /\ Kept
  <2> HIDE DEF o, r
  <2> QED BY <1>2, <1>3, <1>4, <1>6, StatusStep
<1>8. \E x : call' = [call EXCEPT ![c] = x] /\ CallOK(x)'
  <2>1. PICK x : x = NoCall OBVIOUS
  <2>2. x \in Call /\ x.pc = "idle" BY <2>1, NoCallOK DEF CallOK, NoCall
  <2>3. CallOK(x)' BY <2>2 DEF CallOK, Busy, Polling
  <2> QED BY <1>5, <2>1, <2>3 DEF IInv
<1>9. ChainOK' /\ NetOK' BY <1>4 DEF IInv, ChainOK, NetOK, ledger
<1> QED BY <1>4, <1>5, <1>7, <1>8, <1>9, OnlyCallStep DEF IInv

(*--------------------------- the invariant is inductive ---------------------------*)
LEMMA InitInv == ASSUME Init PROVE IInv
<1>1. ChainOK BY DEF Init, ChainOK
<1>2. NetOK /\ DOMAIN net = {}
  <2>1. DOMAIN net = {} BY DEF Init
  <2> QED BY <2>1, FS_EmptySet DEF NetOK
<1>3. StoreOK
  <2>1. NoRecord \in Record /\ NoRecord.st = "none" BY DEF NoRecord, Record
  <2> QED BY <1>2, <2>1 DEF Init, StoreOK
<1>4. call \in [Callers -> Call] /\ \A c \in Callers : CallOK(call[c])
  <2>1. \A c \in Callers : call[c] = NoCall BY DEF Init
  <2> QED BY <2>1, NoCallOK DEF Init, CallOK
<1> QED BY <1>1, <1>3, <1>2, <1>4 DEF Init, IInv

LEMMA NextInv == ASSUME IInv, Usage, [Next]_vars PROVE IInv'
<1>1. ASSUME NEW c \in Callers, AdapterStep(c) PROVE IInv'
  BY <1>1, PrepareInv, LookUpInv, ReadSlotInv, KeepPreparedInv, SubmitInv, SendTransactionInv,
     KeepHashInv, ConfirmSentInv, ResumeInv, ReadReceiptInv, ReadHeightInv, ReadAgainInv,
     ReadFinalityInv, ReportInv, GiveUpInv, TimeOutInv DEF AdapterStep, Poll
<1>2. ASSUME NEW c \in Callers, Throws(c) PROVE IInv' BY <1>2, ThrowsInv
<1>3. CASE Block \/ Reorg \/ Elsewhere \/ NewHash \/ Finalize \/ Close \/ Crash
  BY <1>3, BlockInv, ReorgInv, ElsewhereInv, NewHashInv, FinalizeInv, CloseInv, CrashInv
     DEF Usage
<1>4. CASE UNCHANGED vars
  <2>1. UNCHANGED <<store, call, answers, open, net, branch, blocks, hash, reorgs, foreign, crashes>>
    BY <1>4 DEF vars
  <2>2. Kept BY <2>1, SameLedgerKept DEF IInv, ledger
  <2>3. ChainOK' /\ NetOK' BY <2>1 DEF IInv, ChainOK, NetOK
  <2> QED BY <2>1, <2>2, <2>3, WorldStep DEF IInv
<1> QED BY <1>1, <1>2, <1>3, <1>4 DEF Next
LEMMA InductiveInvariant == ASSUME Usage PROVE Spec => []IInv
<1>1. Init => IInv BY InitInv
<1>2. IInv /\ [Next]_vars => IInv' BY NextInv
<1> QED BY <1>1, <1>2, PTL DEF Spec

(*--------------------------------- the theorems ---------------------------------*)
\* The adapter's state is well typed, whatever the constants.
THEOREM TypeCorrect == ASSUME Usage PROVE Spec => []TypeOK
<1>1. IInv => TypeOK
  BY DEF IInv, TypeOK, ChainOK, NetOK, StoreOK
<1> QED BY <1>1, InductiveInvariant, PTL

\* However many retries, crashes, expired windows and reorganisations: an operation
\* id has one transaction in the network, never a second one.
THEOREM AtMostOnce == ASSUME Usage PROVE Spec => []OneTransaction
<1>1. IInv => OneTransaction BY StoredTx DEF OneTransaction, TxsOf
<1> QED BY <1>1, InductiveInvariant, PTL

LEMMA FixedIncluded ==
  ASSUME IInv, NEW t \in DOMAIN net, t.op \in Ops, Fixed(t)
  PROVE  Included(t)
<1>1. Family[t.op] \in {"evm", "solana"} BY ShapeAssumption
<1> QED BY <1>1, FixedPlace DEF Included, Mined, IsEvm, Fixed

LEMMA InvConfirmed == IInv => ConfirmedIsFinal
<1> SUFFICES ASSUME IInv, NEW o \in Ops, store[o].st = "confirmed"
             PROVE  \E t \in TxsOf(o) : t.slot = store[o].slot /\ Included(t)
  BY DEF ConfirmedIsFinal
<1> DEFINE t == [op |-> o, slot |-> store[o].slot]
<1>1. t \in DOMAIN net /\ Fixed(t) BY DEF IInv, StoreOK
<1>2. Included(t) BY <1>1, FixedIncluded
<1> QED BY <1>1, <1>2 DEF TxsOf

\* What confirmEvm and confirmSolana report stays included, for every depth and
\* every reorganisation that is not as deep.
THEOREM ConfirmationFinal == ASSUME Usage PROVE Spec => []ConfirmedIsFinal
BY InvConfirmed, InductiveInvariant, PTL

(*--------------------- what becomes of a hash that was told ---------------------*)
\* A call that is about to store the hash writes the record it read, under the window it was
\* made for.
ToldInv ==
  /\ \A a \in answers : HasHash(store[a.op], a)
  /\ \A c \in Callers : call[c].pc \in {"send", "answer"} => call[c].rec.win = call[c].win

LEMMA ToldInvTold == ToldInv => ToldStaysConfirmable
BY DEF ToldInv, HasHash, ToldStaysConfirmable

\* A record changes while its operation has no hash yet, or only in its status.
LEMMA RecordKept ==
  ASSUME IInv, ToldInv, NEW o \in Ops, NEW r \in Record, store' = [store EXCEPT ![o] = r],
         \/ store[o].st \in {"none", "prepared"}
         \/ r.st \in {"submitted", "confirmed"} /\ r.slot = store[o].slot /\ r.win = store[o].win
  PROVE  \A a \in answers : HasHash(store'[a.op], a)
<1> SUFFICES ASSUME NEW a \in answers PROVE HasHash(store'[a.op], a)
  OBVIOUS
<1>1. a.op \in Ops /\ store \in [Ops -> Record] /\ HasHash(store[a.op], a)
  BY DEF IInv, Answer, StoreOK, ToldInv
<1>2. CASE a.op = o
  <2>1. store'[a.op] = r BY <1>1, <1>2
  <2> QED BY <1>1, <1>2, <2>1 DEF HasHash
<1>3. CASE a.op # o
  <2>1. store'[a.op] = store[a.op] BY <1>1, <1>3
  <2> QED BY <1>1, <2>1 DEF HasHash
<1> QED BY <1>2, <1>3

LEMMA SubmitNames ==
  ASSUME IInv, ToldInv, NEW c \in Callers, Submit(c)
  PROVE  \A a \in answers' : HasHash(store'[a.op], a)
<1>1. store' = store /\ Matches(store[call[c].op], c) BY DEF Submit, Rec
<1>2. \/ answers' = answers
      \/ /\ answers' = answers \union {AnswerOf(c)}
         /\ store[call[c].op].st \in {"submitted", "confirmed"}
  BY DEF Submit, Rec
<1>3. AnswerOf(c).op = call[c].op /\ AnswerOf(c).slot = call[c].slot /\ AnswerOf(c).win = call[c].win
  BY DEF AnswerOf
<1> QED BY <1>1, <1>2, <1>3 DEF ToldInv, HasHash, Matches

LEMMA KeepPreparedNames ==
  ASSUME IInv, ToldInv, NEW c \in Callers, KeepPrepared(c)
  PROVE  \A a \in answers' : HasHash(store'[a.op], a)
<1>1. CallOK(call[c]) /\ call[c].pc = "keep" BY DEF IInv, KeepPrepared, At
<1>2. /\ call[c] \in Call /\ call[c].op \in Ops /\ store[call[c].op].st = "none"
      /\ call[c].win \in Windows
  BY <1>1 DEF CallOK, Busy, Pcs
<1>3. Prepared(c) \in Record BY <1>2 DEF Prepared, Record, Call
<1>4. store' = [store EXCEPT ![call[c].op] = Prepared(c)] /\ answers' = answers
  BY DEF KeepPrepared
<1>5. \A a \in answers : HasHash(store'[a.op], a)
  BY <1>2, <1>3, <1>4, RecordKept
<1> QED BY <1>4, <1>5

LEMMA KeepHashNames ==
  ASSUME IInv, ToldInv, NEW c \in Callers, KeepHash(c)
  PROVE  \A a \in answers' : HasHash(store'[a.op], a)
<1>1. CallOK(call[c]) /\ call[c].pc = "answer" BY DEF IInv, KeepHash, At
<1>2. /\ call[c] \in Call /\ call[c].op \in Ops /\ store[call[c].op] = call[c].rec
      /\ call[c].rec.slot = call[c].slot /\ call[c].rec.st = "prepared"
      /\ call[c].rec.win = call[c].win /\ call[c].rec \in Record
  BY <1>1 DEF CallOK, Busy, Pcs, Recorded, ToldInv, Call
<1>3. PICK r : r = Submitted(call[c].rec) OBVIOUS
<1>4. r \in Record /\ r.st = "submitted" /\ r.slot = call[c].slot /\ r.win = call[c].win
  BY <1>2, <1>3 DEF Submitted, Record
<1>5. store' = [store EXCEPT ![call[c].op] = r] /\ answers' = answers \union {AnswerOf(c)}
  BY <1>3 DEF KeepHash
<1>6. \A a \in answers : HasHash(store'[a.op], a)
  BY <1>2, <1>4, <1>5, RecordKept
<1>7. HasHash(store'[AnswerOf(c).op], AnswerOf(c))
  <2>1. AnswerOf(c).op = call[c].op /\ AnswerOf(c).slot = call[c].slot /\ AnswerOf(c).win = call[c].win
    BY DEF AnswerOf
  <2>2. store'[call[c].op] = r BY <1>2, <1>5 DEF IInv, StoreOK
  <2> QED BY <1>4, <2>1, <2>2 DEF HasHash
<1> QED BY <1>5, <1>6, <1>7

LEMMA ReportNames ==
  ASSUME IInv, ToldInv, NEW c \in Callers, Report(c)
  PROVE  \A a \in answers' : HasHash(store'[a.op], a)
<1>1. CallOK(call[c]) /\ call[c].pc = "found" BY DEF IInv, Report, At
<1>2. /\ call[c] \in Call /\ call[c].op \in Ops /\ store[call[c].op] = call[c].rec
      /\ call[c].rec \in Record
  BY <1>1 DEF CallOK, Busy, Pcs, Recorded, Polling, Call
<1>3. PICK r : r = Confirmed(call[c].rec) OBVIOUS
<1>4. r \in Record /\ r.st = "confirmed" /\ r.slot = call[c].rec.slot /\ r.win = call[c].rec.win
  BY <1>2, <1>3 DEF Confirmed, Record
<1>5. store' = [store EXCEPT ![call[c].op] = r] /\ answers' = answers
  BY <1>3 DEF Report
<1>6. \A a \in answers : HasHash(store'[a.op], a)
  BY <1>2, <1>4, <1>5, RecordKept
<1> QED BY <1>5, <1>6

\* A call changes alone, so what it asks the store to keep is its own.
LEMMA AskingStep ==
  ASSUME IInv, ToldInv, NEW c \in Callers, NEW x, call' = [call EXCEPT ![c] = x],
         x.pc \in {"send", "answer"} => x.rec.win = x.win
  PROVE  \A d \in Callers : call'[d].pc \in {"send", "answer"} => call'[d].rec.win = call'[d].win
BY DEF IInv, ToldInv

LEMMA AdapterAsking ==
  ASSUME IInv, ToldInv, NEW c \in Callers, AdapterStep(c)
  PROVE  \A d \in Callers : call'[d].pc \in {"send", "answer"} => call'[d].rec.win = call'[d].win
<1> DEFINE Asking(x) == x.pc \in {"send", "answer"} => x.rec.win = x.win
           Moved     == \E x : call' = [call EXCEPT ![c] = x] /\ Asking(x)
<1>1. call[c] \in Call /\ CallOK(call[c]) BY DEF IInv
<1>2. \A q \in Pcs \ {"send", "answer"} : [call[c] EXCEPT !.pc = q].pc = q BY <1>1 DEF Call
<1>3. Asking(NoCall) BY DEF NoCall
<1> HIDE DEF Moved
<1>0. \A x : Become(c, x) /\ Asking(x) => Moved BY DEF Moved, Become
<1> SUFFICES Moved
  <2>1. ASSUME NEW x, call' = [call EXCEPT ![c] = x], Asking(x)
        PROVE  \A d \in Callers : call'[d].pc \in {"send", "answer"} => call'[d].rec.win = call'[d].win
    BY <2>1, AskingStep
  <2> QED BY <2>1 DEF Moved
<1> HIDE DEF Asking
<1>4. ASSUME NEW q \in Pcs \ {"send", "answer"}, Goto(c, q) PROVE Moved
  BY <1>0, <1>2, <1>4 DEF Goto, Asking
<1>5. ASSUME NEW k \in Call, k.pc \in Pcs \ {"send", "answer"}, NEW x \in LookedUp(k) PROVE Asking(x)
  BY <1>5 DEF LookedUp, Call, Pcs, Asking
<1>6. ASSUME NEW o \in Ops, NEW w \in Windows, Prepare(c, o, w) PROVE Moved
  <2>1. PICK k : k = [NoCall EXCEPT !.pc = "account", !.op = o, !.win = w] OBVIOUS
  <2>2. k \in Call /\ k.pc = "account" BY <2>1, NoCallOK DEF CallOK, Call, Pcs, NoCall
  <2>3. Asking(k) /\ \A x \in LookedUp(k) : Asking(x) BY <2>2, <1>5 DEF Pcs, Asking
  <2> QED BY <1>0, <1>6, <2>1, <2>3 DEF Prepare
<1>7. CASE LookUp(c)
  <2>1. call[c].pc = "account" BY <1>7 DEF LookUp, At
  <2> QED BY <1>0, <1>1, <1>5, <1>7, <2>1 DEF LookUp, Pcs
<1>8. CASE ReadSlot(c)
  <2>1. PICK n : Become(c, [call[c] EXCEPT !.pc = "keep", !.slot = n]) BY <1>8 DEF ReadSlot
  <2>2. Asking([call[c] EXCEPT !.pc = "keep", !.slot = n]) BY <1>1 DEF Call, Asking
  <2> QED BY <1>0, <2>1, <2>2
<1>9. CASE KeepPrepared(c) \/ KeepHash(c)
  BY <1>4, <1>9 DEF KeepPrepared, KeepHash, Pcs
<1>10. CASE Submit(c)
  <2>1. CASE Goto(c, "sent") BY <1>4, <2>1 DEF Pcs
  <2>2. CASE Become(c, [call[c] EXCEPT !.pc = "send", !.rec = Rec(c)])
    <3>1. PICK x : x = [call[c] EXCEPT !.pc = "send", !.rec = Rec(c)] OBVIOUS
    <3>2. x.rec.win = x.win BY <1>1, <1>10, <3>1 DEF Submit, Matches, Call
    <3> QED BY <1>0, <2>2, <3>1, <3>2 DEF Asking
  <2> QED BY <1>10, <2>1, <2>2 DEF Submit
<1>11. CASE SendTransaction(c)
  <2>1. CASE Goto(c, "answer")
    <3>1. PICK x : x = [call[c] EXCEPT !.pc = "answer"] OBVIOUS
    <3>2. x.rec.win = x.win BY <1>1, <1>11, <3>1 DEF SendTransaction, At, ToldInv, Call
    <3> QED BY <1>0, <2>1, <3>1, <3>2 DEF Goto, Asking
  <2> QED BY <1>0, <1>3, <1>11, <2>1 DEF SendTransaction
<1>12. ASSUME NEW a, Confirm(c, a) PROVE Moved
  <2>1. PICK x : x = [NoCall EXCEPT !.pc = Waiting(a.op), !.op = a.op, !.slot = a.slot,
                                    !.rec = store[a.op]] OBVIOUS
  <2>2. x.pc \in {"receipt", "finality"} BY <2>1 DEF NoCall, Waiting
  <2> QED BY <1>0, <1>12, <2>1, <2>2 DEF Confirm, Asking
<1>13. CASE ReadReceipt(c)
  <2>1. call[c].pc = "receipt" BY <1>13 DEF ReadReceipt, At
  <2>2. ASSUME NEW r, Become(c, [call[c] EXCEPT !.pc = "height", !.blk = r.blk, !.num = Height(r.blk)])
        PROVE  Moved
    <3>1. PICK x : x = [call[c] EXCEPT !.pc = "height", !.blk = r.blk, !.num = Height(r.blk)] OBVIOUS
    <3>2. x.pc = "height" BY <1>1, <3>1 DEF Call
    <3> QED BY <1>0, <2>2, <3>1, <3>2 DEF Asking
  <2> QED BY <1>0, <1>3, <1>13, <2>2 DEF ReadReceipt
<1>14. CASE ReadHeight(c) \/ ReadAgain(c) \/ ReadFinality(c)
  BY <1>0, <1>3, <1>4, <1>14 DEF ReadHeight, ReadAgain, ReadFinality, Turn, Pcs
<1>15. CASE Report(c) \/ GiveUp(c)
  BY <1>0, <1>3, <1>15 DEF Report, GiveUp
<1>16. CASE TimeOut(c)
  <2>1. PICK x : x = [call[c] EXCEPT !.late = TRUE] OBVIOUS
  <2>2. x.pc \in Polls BY <1>1, <1>16, <2>1 DEF TimeOut, Call
  <2> QED BY <1>0, <1>16, <2>1, <2>2 DEF TimeOut, Polls, Asking
<1> QED
  BY <1>6, <1>7, <1>8, <1>9, <1>10, <1>11, <1>12, <1>13, <1>14, <1>15, <1>16
     DEF AdapterStep, Poll, ConfirmSent, Resume

LEMMA ToldInvStep == ASSUME IInv, ToldInv, Usage, [Next]_vars PROVE ToldInv'
<1>1. ASSUME NEW c \in Callers, AdapterStep(c) PROVE ToldInv'
  <2>1. \A a \in answers' : HasHash(store'[a.op], a)
    <3>1. CASE Submit(c) BY <3>1, SubmitNames
    <3>2. CASE KeepPrepared(c) BY <3>2, KeepPreparedNames
    <3>3. CASE KeepHash(c) BY <3>3, KeepHashNames
    <3>4. CASE Report(c) BY <3>4, ReportNames
    <3>5. CASE UNCHANGED <<store, answers>> BY <3>5 DEF ToldInv
    <3> QED BY <1>1, <3>1, <3>2, <3>3, <3>4, <3>5
            DEF AdapterStep, Poll, Prepare, LookUp, ReadSlot, SendTransaction, ConfirmSent, Resume,
                Confirm, ReadReceipt, ReadHeight, ReadAgain, ReadFinality, GiveUp, TimeOut
  <2> QED BY <1>1, <2>1, AdapterAsking DEF ToldInv, HasHash
<1>2. ASSUME NEW c \in Callers, Throws(c) PROVE ToldInv'
  <2>1. call' = [call EXCEPT ![c] = NoCall] /\ UNCHANGED <<store, answers>>
    BY <1>2 DEF Throws, Become
  <2>2. PICK x : x = NoCall OBVIOUS
  <2>3. \A d \in Callers : call'[d].pc \in {"send", "answer"} => call'[d].rec.win = call'[d].win
    BY <2>1, <2>2, AskingStep DEF NoCall
  <2> QED BY <2>1, <2>3 DEF ToldInv, HasHash
<1>3. CASE Block \/ Reorg \/ Elsewhere \/ NewHash \/ Finalize \/ Close \/ UNCHANGED vars
  <2>1. UNCHANGED <<store, call, answers>>
    BY <1>3 DEF Block, Reorg, Elsewhere, NewHash, Finalize, Close, vars
  <2> QED BY <2>1 DEF ToldInv, HasHash
<1>4. CASE Crash
  <2>1. UNCHANGED <<store, answers>> /\ \A d \in Callers : call'[d] = NoCall
    BY <1>4 DEF Crash, Usage
  <2> QED BY <2>1 DEF ToldInv, HasHash, NoCall
<1> QED BY <1>1, <1>2, <1>3, <1>4 DEF Next

\* Whatever windows ended and whatever was prepared, submitted, confirmed or cut off since, the
\* record stays the one that a told hash and its window name.
THEOREM ToldIsKept == ASSUME Usage PROVE Spec => []ToldStaysConfirmable
<1>1. Init => ToldInv BY DEF Init, ToldInv, NoCall
<1>2. IInv /\ ToldInv /\ [Next]_vars => ToldInv' BY ToldInvStep
<1> QED BY <1>1, <1>2, ToldInvTold, InductiveInvariant, PTL DEF Spec

(*--------------------------------- the refinement ---------------------------------*)
SentOnce == \A o \in Ops : /\ TxsOf(o) = {} => Cardinality(TxsOf(o)) = 0
                           /\ TxsOf(o) # {} => Cardinality(TxsOf(o)) = 1

LEMMA SentOf == IInv => SentOnce
<1> SUFFICES ASSUME IInv, NEW o \in Ops
             PROVE  /\ TxsOf(o) = {} => Cardinality(TxsOf(o)) = 0
                    /\ TxsOf(o) # {} => Cardinality(TxsOf(o)) = 1
  BY DEF SentOnce
<1>1. \A t \in TxsOf(o) : t = [op |-> o, slot |-> store[o].slot] BY StoredTx DEF TxsOf
<1>2. CASE TxsOf(o) = {} BY <1>2, FS_EmptySet
<1>3. CASE TxsOf(o) # {}
  <2>1. TxsOf(o) = {[op |-> o, slot |-> store[o].slot]} BY <1>1, <1>3
  <2> QED BY <2>1, FS_Singleton
<1> QED BY <1>2, <1>3

\* The abstract state, named.
Sends == [o \in Ops |-> Cardinality(TxsOf(o))]
Told  == {o \in Ops : store[o].st \in {"submitted", "confirmed"}}
In    == {o \in Ops : \E t \in TxsOf(o) : Included(t)}
Done  == {o \in Ops : store[o].st = "confirmed"}

\* A step that sends nothing and tells nothing is a change of inclusion.
LEMMA QuietStep ==
  ASSUME IInv, IInv', \A o \in Ops : TxsOf(o)' = TxsOf(o), Told' = Told, Done' = Done
  PROVE  Promise!ANext
<1>1. Sends' = Sends BY DEF Sends
<1>2. In' \subseteq {o \in Ops : Sends[o] = 1} BY SentOf DEF SentOnce, In, Sends
<1>3. Done \subseteq In'
  <2>1. ConfirmedIsFinal' BY InvConfirmed, PTL
  <2> QED BY <2>1 DEF ConfirmedIsFinal, Done, In
<1> QED BY <1>1, <1>2, <1>3 DEF Promise!ANext, Promise!AInclude, Sends, Told, In, Done
LEMMA SameStore ==
  ASSUME IInv, IInv', UNCHANGED store, \A t \in Tx : t.op \in Ops =>
           (t \in DOMAIN net' <=> t \in DOMAIN net)
  PROVE  Promise!ANext
<1>1. DOMAIN net \subseteq Tx /\ DOMAIN net' \subseteq Tx BY DEF IInv, NetOK
<1>2. \A o \in Ops : TxsOf(o)' = TxsOf(o) BY <1>1 DEF TxsOf
<1> QED BY <1>2, QuietStep DEF Told, Done

LEMMA SendRefines ==
  ASSUME IInv, IInv', NEW c \in Callers, SendTransaction(c)
  PROVE  Promise!ANext
<1>0. PICK o, t : o = call[c].op /\ t = TxOf(c) OBVIOUS
<1>1. /\ o \in Ops /\ store[o].slot = t.slot /\ t \in Tx /\ t.op = o
  BY <1>0 DEF IInv, CallOK, Busy, Pcs, Recorded, SendTransaction, At, TxOf, Tx, Call
<1>2. UNCHANGED <<store, branch>> /\ Accepts(t) BY <1>0 DEF SendTransaction
<1>3. DOMAIN net' = DOMAIN net \union {t} BY <1>2 DEF Accepts, EvmAccepts, SolAccepts
<1>4. CASE t \in DOMAIN net
  BY <1>2, <1>3, <1>4, SameStore
<1>5. CASE t \notin DOMAIN net
  <2>1. TxsOf(o) = {}
    <3> SUFFICES ASSUME NEW u \in DOMAIN net, u.op = o PROVE FALSE
      BY DEF TxsOf
    <3>1. u = [op |-> o, slot |-> t.slot] BY <1>1, StoredTx
    <3>2. t = [op |-> o, slot |-> t.slot] BY <1>0, <1>1 DEF TxOf
    <3> QED BY <1>5, <3>1, <3>2
  <2>2. TxsOf(o)' # {} /\ \A p \in Ops : p # o => TxsOf(p)' = TxsOf(p)
    BY <1>1, <1>3 DEF TxsOf
  <2>3. Sends[o] = 0 /\ Sends' = [Sends EXCEPT ![o] = 1]
    <3>1. SentOnce /\ SentOnce' BY SentOf, PTL
    <3>2. Sends'[o] = 1 BY <1>1, <2>2, <3>1 DEF SentOnce, Sends
    <3>3. Cardinality(TxsOf(o)) = 0 BY <2>1, FS_EmptySet
    <3>4. Sends[o] = 0 BY <1>1, <3>3 DEF Sends
    <3> QED BY <1>1, <2>2, <3>2, <3>4 DEF Sends
  <2>4. In' = In
    <3>1. Pool \notin Range(branch) /\ Gone \notin Range(branch)
      BY DEF Pool, Gone, Range, IInv, ChainOK
    <3>2. /\ net'[t].ok = FALSE
          /\ \A u \in DOMAIN net : \/ net'[u] = net[u]
                                   \/ net[u].blk = Pool /\ net'[u].blk = Gone
      BY <1>2, <1>5 DEF Accepts, EvmAccepts, SolAccepts, Pending, IInv, NetOK, Place
    <3>3. \A u \in DOMAIN net : Included(u)' <=> Included(u)
      BY <1>2, <3>1, <3>2 DEF Included, Mined, Pool, Gone, Final
    <3>4. ~Included(t)' BY <3>2 DEF Included
    <3>5. \A p \in Ops : (\E u \in TxsOf(p) : Included(u)) <=> (\E u \in TxsOf(p) : Included(u))'
      BY <1>3, <3>3, <3>4 DEF TxsOf
    <3> QED BY <3>5 DEF In
  <2>5. Promise!ASubmit(o)
    BY <1>1, <1>2, <2>3, <2>4 DEF Promise!ASubmit, Sends, Told, In, Done
  <2> QED BY <1>1, <2>5 DEF Promise!ANext
<1> QED BY <1>4, <1>5

LEMMA KeepPreparedRefines ==
  ASSUME IInv, IInv', NEW c \in Callers, KeepPrepared(c)
  PROVE  Promise!ANext
<1> DEFINE o == call[c].op
<1>1. o \in Ops /\ store[o].st = "none"
  BY DEF IInv, CallOK, Busy, Pcs, KeepPrepared, At
<1>2. /\ UNCHANGED ledger /\ store' = [store EXCEPT ![o] = Prepared(c)]
      /\ Prepared(c).st = "prepared" /\ DOMAIN store = Ops
  BY DEF KeepPrepared, Own, Prepared, IInv, StoreOK
<1> HIDE DEF o
<1>3. \A p \in Ops : p # o => store'[p] = store[p] BY <1>1, <1>2
<1>4. store'[o].st = "prepared" BY <1>1, <1>2
<1>5. Told' = Told /\ Done' = Done BY <1>1, <1>3, <1>4 DEF Told, Done
<1>6. \A p \in Ops : TxsOf(p)' = TxsOf(p) BY <1>2 DEF TxsOf, ledger
<1> QED BY <1>5, <1>6, QuietStep

LEMMA KeepHashRefines ==
  ASSUME IInv, NEW c \in Callers, KeepHash(c)
  PROVE  Promise!ANext
<1>0. PICK o : o = call[c].op OBVIOUS
<1>1. /\ o \in Ops /\ store[o] = call[c].rec /\ call[c].rec.st = "prepared"
      /\ call[c].rec \in Record /\ [op |-> o, slot |-> call[c].slot] \in DOMAIN net
  BY <1>0 DEF IInv, CallOK, Busy, Pcs, Recorded, KeepHash, At, Call
<1>2. /\ UNCHANGED ledger /\ store' = [store EXCEPT ![o] = Submitted(call[c].rec)]
      /\ Submitted(call[c].rec).st = "submitted" /\ DOMAIN store = Ops
  BY <1>0, <1>1 DEF KeepHash, Own, Submitted, IInv, StoreOK, Record
<1>3. TxsOf(o) # {} BY <1>1 DEF TxsOf
<1>4. Sends[o] = 1 BY <1>1, <1>3, SentOf DEF SentOnce, Sends
<1>5. \A p \in Ops : p # o => store'[p] = store[p] BY <1>1, <1>2
<1>6. store'[o].st = "submitted" BY <1>1, <1>2
<1>7. Told' = Told \union {o} /\ Done' = Done BY <1>1, <1>5, <1>6 DEF Told, Done
<1>8. Sends' = Sends /\ In' = In
  BY <1>2 DEF Sends, In, TxsOf, Included, Mined, ledger
<1>9. Promise!ATell(o)
  BY <1>4, <1>7, <1>8 DEF Promise!ATell, Sends, Told, In, Done
<1> QED BY <1>1, <1>9 DEF Promise!ANext

LEMMA ReportRefines ==
  ASSUME IInv, NEW c \in Callers, Report(c)
  PROVE  Promise!ANext
<1>0. PICK o : o = call[c].op OBVIOUS
<1>1. /\ o \in Ops /\ store[o] = call[c].rec /\ call[c].rec \in Record
      /\ call[c].rec.st \in {"submitted", "confirmed"}
      /\ Fixed([op |-> o, slot |-> call[c].slot])
  BY <1>0 DEF IInv, CallOK, Busy, Pcs, Polling, Recorded, Report, At, Call
<1>2. /\ UNCHANGED ledger /\ store' = [store EXCEPT ![o] = Confirmed(call[c].rec)]
      /\ Confirmed(call[c].rec).st = "confirmed" /\ DOMAIN store = Ops
  BY <1>0, <1>1 DEF Report, Own, Confirmed, IInv, StoreOK, Record
<1>3. o \in In
  <2>1. [op |-> o, slot |-> call[c].slot] \in DOMAIN net BY <1>1 DEF Fixed
  <2>2. Included([op |-> o, slot |-> call[c].slot]) BY <1>1, <2>1, FixedIncluded
  <2> QED BY <1>1, <2>1, <2>2 DEF In, TxsOf
<1>4. \A p \in Ops : p # o => store'[p] = store[p] BY <1>1, <1>2
<1>5. store'[o].st = "confirmed" BY <1>1, <1>2
<1>6. o \in Told /\ Told' = Told /\ Done' = Done \union {o}
  BY <1>1, <1>4, <1>5 DEF Told, Done
<1>7. Sends' = Sends /\ In' = In
  BY <1>2 DEF Sends, In, TxsOf, Included, Mined, ledger
<1>8. Promise!AReport(o)
  BY <1>3, <1>6, <1>7 DEF Promise!AReport, Sends, Told, In, Done
<1> QED BY <1>1, <1>8 DEF Promise!ANext

LEMMA StepRefines ==
  ASSUME Usage, IInv, IInv', [Next]_vars
  PROVE  Promise!ANext
<1>1. ASSUME NEW c \in Callers, AdapterStep(c) PROVE Promise!ANext
  <2>1. CASE \/ \E o \in Ops, w \in Windows : Prepare(c, o, w)
             \/ LookUp(c) \/ ReadSlot(c) \/ Submit(c) \/ ConfirmSent(c)
             \/ \E o \in Ops : Resume(c, o)
             \/ ReadReceipt(c) \/ ReadHeight(c) \/ ReadAgain(c) \/ ReadFinality(c)
             \/ GiveUp(c) \/ TimeOut(c)
    <3>1. UNCHANGED <<store, ledger>>
      BY <2>1 DEF Prepare, LookUp, ReadSlot, Submit, ConfirmSent, Resume, Confirm,
                  ReadReceipt, ReadHeight, ReadAgain, ReadFinality, GiveUp, TimeOut, Own
    <3> QED BY <3>1, SameStore DEF ledger
  <2>2. CASE KeepPrepared(c) BY <2>2, KeepPreparedRefines
  <2>3. CASE SendTransaction(c) BY <2>3, SendRefines
  <2>4. CASE KeepHash(c) BY <2>4, KeepHashRefines
  <2>5. CASE Report(c) BY <2>5, ReportRefines
  <2> QED BY <1>1, <2>1, <2>2, <2>3, <2>4, <2>5 DEF AdapterStep, Poll
<1>2. ASSUME NEW c \in Callers, Throws(c) PROVE Promise!ANext
  <2>1. UNCHANGED <<store, ledger>> BY <1>2 DEF Throws, Own
  <2> QED BY <2>1, SameStore DEF ledger
<1>3. CASE Block \/ Reorg \/ NewHash \/ Finalize
  <2>1. UNCHANGED store /\ DOMAIN net' = DOMAIN net
    BY <1>3 DEF Block, Reorg, NewHash, Finalize, IInv, NetOK
  <2> QED BY <2>1, SameStore
<1>4. CASE Elsewhere
  <2>1. PICK n \in NextNonce : EvmAccepts([op |-> Foreign, slot |-> n])
    BY <1>4 DEF Elsewhere
  <2>2. DOMAIN net' = DOMAIN net \union {[op |-> Foreign, slot |-> n]}
    BY <2>1 DEF EvmAccepts
  <2> QED BY <1>4, <2>2, SameStore, NameAssumption DEF Elsewhere
<1>5. CASE Close \/ Crash
  BY <1>5, SameStore DEF Close, Crash, ledger, Usage
<1>6. CASE UNCHANGED vars
  BY <1>6, SameStore DEF vars
<1> QED BY <1>1, <1>2, <1>3, <1>4, <1>5, <1>6 DEF Next

\* The adapter implements idempotent submission: every step is one of the abstract
\* ones, for any number of operations and any history of the chains.
THEOREM ImplementsPromise == ASSUME Usage PROVE Spec => Idempotent
<1>1. Init => Promise!AInit
  <2> SUFFICES ASSUME Init PROVE Promise!AInit
    OBVIOUS
  <2>1. \A o \in Ops : TxsOf(o) = {} BY DEF Init, TxsOf
  <2>2. \A o \in Ops : store[o].st = "none" BY DEF Init, NoRecord
  <2> QED BY <2>1, <2>2, FS_EmptySet DEF Promise!AInit
<1>2. IInv /\ IInv' /\ [Next]_vars => [Promise!ANext]_(Promise!avars) BY StepRefines
<1> QED BY <1>1, <1>2, InductiveInvariant, PTL DEF Spec, Idempotent, Promise!ASpec
=============================================================================
