------------------------- MODULE CallerRunnerProofs -------------------------
(***************************************************************************)
(* Theorems about the caller-owned runner, for all values of the           *)
(* constants.  The inductive invariant IInv adds to the type invariant     *)
(* what each program point knows about the locals and about the caps that  *)
(* were checked before an await, and that a cap checked on mem before the  *)
(* await still holds when the outcome is recorded.                         *)
(***************************************************************************)
EXTENDS CallerRunnerProperties, FiniteSetTheorems, TLAPS

\* the recorded totals of one state object respect the policy
Bounded(s) == /\ s.resv <= Cap /\ s.txs <= MaxTx
              /\ s.sol <= SolCap /\ s.soltxs <= SolMaxTx

\* what holds of both the state file and the object in memory
Sound(s) == s \in State /\ Bounded(s) /\ s.born = anchor

\* program points of an action, of one of its rows, and of a counted broadcast
ActionPcs == {"source", "evm", "rows", "prepare", "submit", "record", "confirm", "settle",
              "catch", "rprepare", "rsubmit", "rconfirm",
              "sol", "sprepare", "ssubmit", "srecord", "sconfirm", "sdone"}
RowPcs    == {"prepare", "submit", "record", "confirm"}
EvmTxPcs  == {"submit", "record", "rprepare", "rsubmit", "rconfirm"}
SolTxPcs  == {"ssubmit", "srecord"}

\* p is a program point that locals l and state m fit
Fits(p, l, m) ==
  /\ p \in Pcs /\ l \in Local
  /\ p \in ActionPcs \/ (p \in {"key", "store"} /\ l.op = "source") => l.a \in Actions
  /\ p \in {"evm", "rows"} => l.idx \in 0 .. Rows[l.step]
  /\ p \in RowPcs => l.idx \in 0 .. Rows[l.step] - 1
  /\ p \in EvmTxPcs => m.txs + 1 <= MaxTx
  /\ p \in SolTxPcs => m.soltxs + 1 <= SolMaxTx

WorldOK == WorldTypeOK /\ (srv.phase = "ready" => srv.a \in Actions)

IInv ==
  /\ WorldOK /\ runs \in Nat /\ anchor \in Nat
  /\ Sound(mem) /\ Sound(disk) /\ Fits(pc, loc, mem)

(*------------------------------ the world ------------------------------*)
LEMMA RowIsIndex == \A s \in Steps : \A i \in 0 .. Rows[s] - 1 : i \in Idx
BY ShapeAssumption DEF Idx, Steps

LEMMA FirstRow == 0 \in Idx
BY ShapeAssumption DEF Idx

LEMMA SentCount ==
  ASSUME NEW act
  PROVE  Cardinality(Sent(act)) \in Nat
<1>1. IsFiniteSet(Idx) BY FS_Interval, ShapeAssumption DEF Idx
<1>2. Sent(act) \subseteq Idx BY DEF Sent
<1> QED BY <1>1, <1>2, FS_Subset, FS_CardinalityType

\* what the clock, the chains and the adapter's send do to the world
LEMMA TickSafe == WorldOK /\ Tick => WorldOK'
BY DEF WorldOK, WorldTypeOK, Tick

LEMMA MinedRow ==
  ASSUME WorldOK, Mine
  PROVE  /\ UNCHANGED <<now, srv>>
         /\ \E k \in DOMAIN chain : \E t \in Tx : chain' = [chain EXCEPT ![k] = t]
<1>1. PICK k \in DOMAIN chain :
        /\ \E st \in {"ok", "failed"}, fee \in 0 .. chain[k].gas :
             chain' = [chain EXCEPT ![k].st = st, ![k].fee = fee]
        /\ UNCHANGED <<now, srv>>
  BY DEF Mine
<1>2. PICK st \in {"ok", "failed"}, fee \in 0 .. chain[k].gas :
        chain' = [chain EXCEPT ![k].st = st, ![k].fee = fee]
  BY <1>1
<1>3. chain \in Seq(Tx) /\ chain[k] \in Tx BY DEF WorldOK, WorldTypeOK
<1> DEFINE mined == [chain[k] EXCEPT !.st = st, !.fee = fee]
<1>4. mined \in Tx
  <2>1. fee \in Nat BY <1>3 DEF Tx
  <2> QED BY <1>3, <2>1 DEF Tx
<1>5. chain' = [chain EXCEPT ![k] = mined] BY <1>2, <1>3
<1> HIDE DEF mined
<1> QED BY <1>1, <1>4, <1>5

LEMMA MineSafe == WorldOK /\ Mine => WorldOK'
<1> SUFFICES ASSUME WorldOK, Mine PROVE WorldOK'
  OBVIOUS
<1>1. chain \in Seq(Tx) BY DEF WorldOK, WorldTypeOK
<1>2. chain' \in Seq(Tx) BY <1>1, MinedRow
<1> QED BY <1>2, MinedRow DEF WorldOK, WorldTypeOK

LEMMA HaltSafe == WorldOK /\ Halt => WorldOK'
BY DEF WorldOK, WorldTypeOK, Halt, Session

LEMMA SendSafe ==
  ASSUME WorldOK, loc \in Local, loc.a \in Actions, Sound(mem),
         NEW i \in Idx \union {Revoke}, Send(i), UNCHANGED <<now, srv>>
  PROVE  WorldOK'
<1> DEFINE tx == [a |-> loc.a, attempt |-> Cur.attempt, step |-> loc.step, idx |-> i,
                  gas |-> loc.gas, fee |-> 0, st |-> "pending"]
<1>1. tx \in Tx BY DEF Tx, Local, Cur, Sound, State, ActionRec
<1>2. chain' \in Seq(Tx) BY <1>1 DEF Send, Broadcast, WorldOK, WorldTypeOK
<1> QED BY <1>2 DEF WorldOK, WorldTypeOK

(*---------------------- the session after each call ----------------------*)
\* A session the runner can be told about.
Served(r) == r \in Session /\ (r.phase = "ready" => r.a \in Actions)

LEMMA Sizes == NSteps \in Nat \ {0} /\ MaxActions \in Nat \ {0} /\ Ttl \in Nat
BY ShapeAssumption, PolicyAssumption

LEMMA NextStepServed ==
  ASSUME NEW r, Served(r), now \in Nat
  PROVE  \A q \in NextStep(r) : Served(q)
<1>1. r \in Session BY DEF Served
<1>2. CASE r.step = NSteps - 1
  <2> DEFINE over(e) == [r EXCEPT !.phase = "complete", !.a = NoAct, !.enough = e]
  <2>1. NextStep(r) = {over(e) : e \in BOOLEAN} BY <1>2 DEF NextStep
  <2>2. \A e \in BOOLEAN : Served(over(e)) BY <1>1 DEF Served, Session
  <2> HIDE DEF over
  <2> QED BY <2>1, <2>2
<1>3. CASE r.step # NSteps - 1
  <2> DEFINE moved == [r EXCEPT !.step = @ + 1, !.obs = NoAct]
  <2>1. r.step \in Steps BY <1>1 DEF Session
  <2>2. r.step + 1 \in Steps BY <1>3, <2>1, Sizes DEF Steps
  <2>3. moved \in Session /\ moved.last = r.last BY <1>1, <2>2 DEF Session
  <2>4. r.last \in Nat BY <1>1 DEF Session, Actions, NoAct
  <2>5. now + Ttl \in Nat BY Sizes
  <2>6. r.last < MaxActions => r.last + 1 \in Actions BY <2>4, Sizes DEF Actions
  <2> DEFINE building == [moved EXCEPT !.phase = "build", !.a = NoAct]
             acting   == [moved EXCEPT !.phase = "ready", !.a = r.last + 1,
                                       !.last = r.last + 1, !.exp = now + Ttl]
  <2>7. NextStep(r) = {building} \union (IF r.last < MaxActions THEN {acting} ELSE {})
    BY <1>3 DEF NextStep
  <2> HIDE DEF moved
  <2>8. Served(building) BY <2>3 DEF Served, Session
  <2>9. r.last < MaxActions => Served(acting) BY <2>3, <2>5, <2>6 DEF Served, Session
  <2> QED BY <2>7, <2>8, <2>9
<1> QED BY <1>2, <1>3

LEMMA RefreshedServed ==
  ASSUME NEW r, Served(r), now \in Nat
  PROVE  \A q \in Refreshed(r) : Served(q) /\ q.a \in Actions
<1> DEFINE built(b) == [r EXCEPT !.phase = "ready", !.a = b,
                                 !.last = IF b > @ THEN b ELSE @, !.exp = now + Ttl]
<1>1. r \in Session /\ now + Ttl \in Nat BY Sizes DEF Served
<1>2. r.last \in Nat BY <1>1 DEF Session, Actions, NoAct
<1>3. r.last < MaxActions => r.last + 1 \in Actions BY <1>2, Sizes DEF Actions
<1>4. r.phase = "ready" => r.a \in Actions BY DEF Served
<1>5. ASSUME NEW b \in Actions PROVE Served(built(b)) /\ built(b).a \in Actions
  <2>1. (IF b > r.last THEN b ELSE r.last) \in Actions \union {NoAct} BY <1>1 DEF Session
  <2> QED BY <1>1, <2>1 DEF Served, Session
<1>6. ASSUME NEW q \in Refreshed(r) PROVE \E b \in Actions : q = built(b)
  BY <1>3, <1>4 DEF Refreshed
<1> HIDE DEF built
<1> QED BY <1>5, <1>6

LEMMA DeliveredServed ==
  ASSUME Served(srv), loc \in Local,
         NEW a \in Actions \union {NoAct}, NEW n \in Nat
  PROVE  Served(Delivered(a, n))
<1>1. [key |-> loc.key, op |-> loc.op, step |-> loc.step, a |-> a, n |-> n] \in Call
  BY DEF Local, Call
<1>2. Logged(loc.key, loc.op, loc.step, a, n) \in SUBSET Call
  BY <1>1 DEF Served, Session, Logged
<1> QED BY <1>2 DEF Delivered, Served, Session

(*--------------------- the operators on the state object ---------------------*)
\* Each leaves a sound state sound, given what the code has checked before it.
LEMMA ActionSound ==
  ASSUME NEW s, Sound(s), NEW a \in Actions
  PROVE  s.act[a] \in ActionRec
BY DEF Sound, State

LEMMA ReleaseReserveSound ==
  ASSUME NEW s, Sound(s), NEW a \in Actions,
         s.resv >= s.act[a].reserve, s.act[a].paid <= s.act[a].reserve
  PROVE  Sound(ReleaseReserve(s, a))
<1>1. s \in State /\ Bounded(s) BY DEF Sound
<1>2. s.act[a] \in ActionRec /\ s.act \in [Actions -> ActionRec] BY <1>1 DEF State
<1>3. s.resv - s.act[a].reserve + s.act[a].paid \in Nat BY <1>1, <1>2 DEF State, ActionRec
<1>4. s.resv - s.act[a].reserve + s.act[a].paid <= Cap
  BY <1>1, <1>2, PolicyAssumption DEF State, ActionRec, Bounded
<1>5. [s.act[a] EXCEPT !.reserve = 0] \in ActionRec BY <1>2 DEF ActionRec
<1> QED BY <1>1, <1>2, <1>3, <1>4, <1>5 DEF Sound, State, Bounded, ReleaseReserve

LEMMA ActionStateSound ==
  ASSUME NEW s, Sound(s), loc \in Local, loc.a \in Actions
  PROVE  Sound(ActionState(s))
<1>1. s.act[loc.a] \in ActionRec BY ActionSound
<1>2. loc.step \in Steps /\ "ready" \in Status BY DEF Local, Status
<1>3. [s.act[loc.a] EXCEPT !.status = "ready", !.step = loc.step] \in ActionRec
  BY <1>1, <1>2 DEF ActionRec
<1> QED BY <1>3 DEF Sound, State, Bounded, ActionState

LEMMA StatusSound ==
  ASSUME NEW s, Sound(s), NEW a \in Actions, NEW st \in Status
  PROVE  Sound([s EXCEPT !.act[a].status = st])
<1>1. [s.act[a] EXCEPT !.status = st] \in ActionRec BY ActionSound DEF ActionRec
<1> QED BY <1>1 DEF Sound, State, Bounded

LEMMA ReserveForSound ==
  ASSUME NEW s, Sound(s), loc.a \in Actions, NEW r \in Nat, ReserveFits(s, r)
  PROVE  Sound(ReserveFor(s, r))
<1>1. [s.act[loc.a] EXCEPT !.reserve = r] \in ActionRec
  <2>1. s.act[loc.a] \in ActionRec BY ActionSound
  <2> QED BY <2>1 DEF ActionRec
<1>2. s.resv + r \in Nat /\ s.resv + r <= Cap BY DEF Sound, State, ReserveFits
<1> QED BY <1>1, <1>2 DEF Sound, State, Bounded, ReserveFor

LEMMA RecordHashSound ==
  ASSUME NEW s, Sound(s), loc \in Local, loc.a \in Actions, loc.idx \in Idx, TxFits(s)
  PROVE  Sound(RecordHash(s))
<1>1. s.act[loc.a] \in ActionRec BY ActionSound
<1>2. Value[loc.step][loc.idx] \in Nat BY ShapeAssumption DEF Local
<1>3. s.act[loc.a].paid + Value[loc.step][loc.idx] \in Nat BY <1>1, <1>2 DEF ActionRec
<1>4. "submitted" \in Status BY DEF Status
<1>5. [s.act[loc.a] EXCEPT !.item[loc.idx] = "sent", !.status = "submitted",
          !.paid = @ + Value[loc.step][loc.idx]] \in ActionRec
  BY <1>1, <1>3, <1>4 DEF ActionRec
<1>6. s.txs + 1 \in Nat /\ s.txs + 1 <= MaxTx BY DEF Sound, State, TxFits
<1> QED BY <1>5, <1>6 DEF Sound, State, Bounded, RecordHash

LEMMA RecordActualSound ==
  ASSUME NEW s, Sound(s), loc \in Local, loc.a \in Actions, loc.idx \in Idx, NEW fee \in Nat
  PROVE  Sound(RecordActual(s, fee))
<1>1. s.act[loc.a] \in ActionRec BY ActionSound
<1>2. Value[loc.step][loc.idx] \in Nat BY ShapeAssumption DEF Local
<1>3. s.act[loc.a].paid + fee \in Nat BY <1>1 DEF ActionRec
<1>4. [s.act[loc.a] EXCEPT !.item[loc.idx] = "done", !.paid = @ + fee] \in ActionRec
  BY <1>1, <1>3 DEF ActionRec
<1>5. s.spent + fee + Value[loc.step][loc.idx] \in Nat BY <1>2 DEF Sound, State
<1> QED BY <1>4, <1>5 DEF Sound, State, Bounded, RecordActual

LEMMA ReleaseUnsubmittedSound ==
  ASSUME NEW s, Sound(s), loc.a \in Actions, s.resv >= s.act[loc.a].reserve
  PROVE  Sound(ReleaseUnsubmitted(s))
<1>1. s.act[loc.a] \in ActionRec BY ActionSound
<1>2. Released \in Status BY DEF Status
<1>3. [s.act[loc.a] EXCEPT !.reserve = 0, !.status = Released] \in ActionRec
  BY <1>1, <1>2 DEF ActionRec
<1>4. s.resv - s.act[loc.a].reserve \in Nat /\ s.resv - s.act[loc.a].reserve <= Cap
  BY <1>1, PolicyAssumption DEF Sound, State, Bounded, ActionRec
<1> QED BY <1>3, <1>4 DEF Sound, State, Bounded, ReleaseUnsubmitted

LEMMA RecoveredSound ==
  ASSUME NEW s, Sound(s), loc.a \in Actions, NEW fee \in Nat, TxFits(s)
  PROVE  Sound(Recovered(s, fee))
<1>1. s.act[loc.a] \in ActionRec BY ActionSound
<1>2. Retryable \in Status /\ NoRows \in [Idx -> {"none", "sent", "done"}]
  BY DEF Status, NoRows
<1>3. Reopened(s.act[loc.a]) \in ActionRec
  <2>1. s.act[loc.a].attempt + 1 \in Nat BY <1>1 DEF ActionRec
  <2> QED BY <1>1, <1>2, <2>1 DEF Reopened, ActionRec
<1>4. s.txs + 1 \in Nat /\ s.txs + 1 <= MaxTx /\ s.spent + fee \in Nat
  BY DEF Sound, State, TxFits
<1> QED BY <1>3, <1>4 DEF Sound, State, Bounded, Recovered

LEMMA CaughtSound ==
  ASSUME Sound(mem), Sound(disk), loc.a \in Actions
  PROVE  Sound(Caught(mem))
<1>1. Sound(OutcomeUnknown(mem))
  <2>1. Unknown \in Status BY DEF Status
  <2> QED BY <2>1, StatusSound DEF OutcomeUnknown
<1>2. mem.resv >= mem.act[loc.a].reserve => Sound(ReleaseUnsubmitted(mem))
  BY ReleaseUnsubmittedSound
<1> QED BY <1>1, <1>2 DEF Caught

(*----------------------------- ways to move on -----------------------------*)
LEMMA StepSafe ==
  ASSUME IInv, WorldOK', UNCHANGED <<runs, anchor>>,
         Sound(mem'), Sound(disk'), Fits(pc', loc', mem')
  PROVE  IInv'
BY DEF IInv, Sound, Fits

LEMMA NoLocalsTyped == NoLocals \in Local
<1>1. 0 \in Steps BY Sizes DEF Steps
<1> QED BY <1>1 DEF NoLocals, Local

LEMMA FitsLoose ==
  ASSUME NEW l \in Local, NEW m, NEW p \in {"idle", "restart", "top", "sleep", "output", "refresh"}
  PROVE  Fits(p, l, m)
BY DEF Fits, Pcs, ActionPcs, RowPcs, EvmTxPcs, SolTxPcs

LEMMA StopSafe ==
  ASSUME IInv, WorldOK', UNCHANGED <<runs, anchor>>, NEW d, Sound(d), Stop(d)
  PROVE  IInv'
<1>1. Fits(pc', loc', mem') BY NoLocalsTyped, FitsLoose DEF Stop
<1> QED BY <1>1, StepSafe DEF Stop

LEMMA AgainSafe ==
  ASSUME IInv, WorldOK', UNCHANGED <<runs, anchor>>, Sound(mem'), Sound(disk'), Again
  PROVE  IInv'
<1>1. Fits(pc', loc', mem') BY NoLocalsTyped, FitsLoose DEF Again
<1> QED BY <1>1, StepSafe

LEMMA SleepSafe ==
  ASSUME IInv, WorldOK', UNCHANGED <<runs, anchor>>, Keep, NEW t \in Nat, SleepUntil(t)
  PROVE  IInv'
<1>1. loc' \in Local BY NoLocalsTyped, ShapeAssumption DEF SleepUntil, Local
<1>2. Fits(pc', loc', mem') BY <1>1, FitsLoose DEF SleepUntil
<1>3. Sound(mem') /\ Sound(disk') BY DEF Keep, IInv
<1> QED BY <1>2, <1>3, StepSafe

LEMMA ExecuteSafe ==
  ASSUME IInv, WorldOK', UNCHANGED <<runs, anchor>>, Keep,
         NEW r \in Session, r.a \in Actions, Execute(r)
  PROVE  IInv'
<1>1. r.step \in Steps /\ r.exp \in Nat BY DEF Session
<1>2. /\ loc' \in Local /\ loc'.a \in Actions /\ loc'.idx = 0 /\ loc'.step = r.step
  BY <1>1, NoLocalsTyped DEF Execute, Local, NoLocals
<1>3. Rows[r.step] \in Nat BY <1>1, ShapeAssumption
<1>4. Fits(pc', loc', mem')
  BY <1>2, <1>3 DEF Execute, Fits, Pcs, ActionPcs, RowPcs, EvmTxPcs, SolTxPcs
<1>5. Sound(mem') /\ Sound(disk') BY DEF Keep, IInv
<1> QED BY <1>4, <1>5, StepSafe

LEMMA WorldKept == WorldOK /\ UNCHANGED world => WorldOK'
BY DEF WorldOK, WorldTypeOK, world

LEMMA QuietWorld == IInv /\ Quiet => WorldOK' /\ UNCHANGED <<runs, anchor>>
BY WorldKept DEF IInv, Quiet, world

(*---------------------- actions of the main loop preserve IInv ----------------------*)
LEMMA StartSafe == IInv /\ Start => IInv'
<1> SUFFICES ASSUME IInv, Start PROVE IInv'
  OBVIOUS
<1>1. WorldOK' BY WorldKept DEF Start, IInv
<1>2. runs' \in Nat /\ anchor' \in Nat BY DEF Start, IInv, WorldOK, WorldTypeOK
<1>3. LoadState(disk) \in State /\ Bounded(LoadState(disk)) /\ LoadState(disk).born = anchor'
  BY DEF Start, LoadState, IInv, WorldOK, WorldTypeOK, Sound, State, Bounded
<1>4. Fits(pc', loc', mem') BY FitsLoose DEF Start, Goto, IInv, Fits
<1> QED BY <1>1, <1>2, <1>3, <1>4 DEF Start, Write, IInv, Sound

LEMMA RestartSafe == IInv /\ (ReleaseOne \/ Restarted) => IInv'
<1> SUFFICES ASSUME IInv, ReleaseOne \/ Restarted PROVE IInv'
  OBVIOUS
<1>1. Quiet BY DEF ReleaseOne, Restarted
<1>2. WorldOK' /\ UNCHANGED <<runs, anchor>> BY <1>1, QuietWorld
<1>3. Sound(mem) /\ Sound(disk) BY DEF IInv
<1>4. CASE ReleaseOne
  <2>1. PICK a \in Settled(mem) :
          IF mem.resv < mem.act[a].reserve \/ mem.act[a].paid > mem.act[a].reserve
          THEN Stop(disk)
          ELSE mem' = ReleaseReserve(mem, a) /\ UNCHANGED <<disk, pc, loc>>
    BY <1>4 DEF ReleaseOne
  <2>2. a \in Actions BY DEF Settled
  <2>3. CASE mem.resv < mem.act[a].reserve \/ mem.act[a].paid > mem.act[a].reserve
    BY <1>2, <1>3, <2>1, <2>3, StopSafe
  <2>4. CASE ~(mem.resv < mem.act[a].reserve \/ mem.act[a].paid > mem.act[a].reserve)
    <3>1. mem.resv \in Nat /\ mem.act[a].reserve \in Nat /\ mem.act[a].paid \in Nat
      BY <1>3, <2>2, ActionSound DEF Sound, State, ActionRec
    <3>2. mem.resv >= mem.act[a].reserve /\ mem.act[a].paid <= mem.act[a].reserve
      BY <2>4, <3>1
    <3>3. Sound(ReleaseReserve(mem, a)) BY <1>3, <2>2, <3>2, ReleaseReserveSound
    <3>4. Sound(mem') /\ Sound(disk') BY <1>3, <2>1, <2>4, <3>3
    <3>5. pc \in {"restart", "settle"} BY <1>4 DEF ReleaseOne
    <3>6. Fits(pc', loc', mem')
      BY <2>1, <2>4, <3>5 DEF IInv, Fits, RowPcs, EvmTxPcs, SolTxPcs
    <3> QED BY <1>2, <3>4, <3>6, StepSafe
  <2> QED BY <2>3, <2>4
<1>5. CASE Restarted
  <2>1. CASE mem.status = "complete" BY <1>2, <1>3, <1>5, <2>1, StopSafe DEF Restarted
  <2>2. CASE mem.status # "complete"
    <3>1. Sound(mem') /\ Sound(disk') /\ Again BY <1>3, <1>5, <2>2 DEF Restarted, Write
    <3> QED BY <1>2, <3>1, AgainSafe
  <2> QED BY <2>1, <2>2
<1> QED BY <1>4, <1>5

LEMMA GetSafe ==
  IInv /\ (GiveUp \/ Asleep \/ GetComplete \/ GetPending \/ GetInFlight
           \/ GetUnsupported \/ GetShort \/ GetExpired \/ GetReady) => IInv'
<1> SUFFICES ASSUME IInv, GiveUp \/ Asleep \/ GetComplete \/ GetPending \/ GetInFlight
                          \/ GetUnsupported \/ GetShort \/ GetExpired \/ GetReady
             PROVE  IInv'
  OBVIOUS
<1>1. Quiet
  BY DEF GiveUp, Asleep, Looking, GetComplete, GetPending, GetInFlight, GetUnsupported,
         GetShort, GetExpired, GetReady
<1>2. WorldOK' /\ UNCHANGED <<runs, anchor>> BY <1>1, QuietWorld
<1>3. Sound(mem) /\ Sound(disk) BY DEF IInv
<1>4. srv \in Session /\ now \in Nat /\ (srv.phase = "ready" => srv.a \in Actions)
  BY DEF IInv, WorldOK, WorldTypeOK
<1>5. ASSUME NEW op \in {"source", "output", "refresh"}, NEW a \in Actions \union {NoAct},
             op = "source" => a \in Actions, ToKey(op, a)
      PROVE  IInv'
  <2>1. loc' \in Local BY <1>4, <1>5, NoLocalsTyped DEF ToKey, Local, Session
  <2>2. pc' = "key" /\ loc'.op = op /\ loc'.a = a BY <1>5, NoLocalsTyped DEF ToKey, Local
  <2>3. Fits(pc', loc', mem')
    BY <1>5, <2>1, <2>2 DEF Fits, Pcs, ActionPcs, RowPcs, EvmTxPcs, SolTxPcs
  <2>4. Sound(mem') /\ Sound(disk') BY <1>3, <1>5 DEF ToKey, Keep
  <2> QED BY <1>2, <2>3, <2>4, StepSafe
<1>6. CASE GiveUp \/ GetUnsupported BY <1>2, <1>3, <1>6, StopSafe DEF GiveUp, GetUnsupported
<1>7. CASE Asleep
  <2>1. Sound(mem') /\ Sound(disk') /\ Again BY <1>3, <1>7 DEF Asleep, Keep
  <2> QED BY <1>2, <2>1, AgainSafe
<1>8. CASE GetComplete
  <2>1. Sound([mem EXCEPT !.status = "complete"]) BY <1>3 DEF Sound, State, Bounded
  <2> QED BY <1>2, <1>3, <1>8, <2>1, StopSafe DEF GetComplete
<1>9. CASE GetPending BY <1>5, <1>9 DEF GetPending
<1>10. CASE GetInFlight BY <1>5, <1>10 DEF GetInFlight
<1>11. CASE GetExpired BY <1>5, <1>11 DEF GetExpired
<1>12. CASE GetShort
  <2>1. srv.exp + 1 \in Nat BY <1>4 DEF Session
  <2> QED BY <1>2, <1>12, <2>1, SleepSafe DEF GetShort
<1>13. CASE GetReady
  <2>1. Execute(srv) /\ Keep /\ srv.a \in Actions BY <1>4, <1>13 DEF GetReady
  <2> QED BY <1>2, <1>4, <2>1, ExecuteSafe
<1> QED BY <1>6, <1>7, <1>8, <1>9, <1>10, <1>11, <1>12, <1>13

LEMMA KeySafe == IInv /\ (NextOperation \/ StoreKey) => IInv'
<1> SUFFICES ASSUME IInv, NextOperation \/ StoreKey PROVE IInv'
  OBVIOUS
<1>1. WorldOK' /\ UNCHANGED <<runs, anchor>> BY QuietWorld DEF NextOperation, StoreKey
<1>2. Sound(mem) /\ Sound(disk) /\ mem \in State /\ loc \in Local BY DEF IInv, Sound, Fits
<1>3. loc.op \in {"source", "output", "refresh"} /\ loc.step \in Steps /\ loc.key \in Nat
  BY <1>2 DEF Local
<1>4. pc \in {"key", "store"} /\ loc.op = "source" => loc.a \in Actions BY DEF IInv, Fits
<1>5. CASE NextOperation /\ KnownKey # 0 /\ Keep /\ pc' = "store"
           /\ loc' = [loc EXCEPT !.key = KnownKey]
  <2>1. pc = "key" BY <1>5 DEF NextOperation
  <2>2. KnownKey \in Nat BY <1>2, <1>3, <1>4, <2>1 DEF KnownKey, State
  <2>3. loc' \in Local /\ loc'.op = loc.op /\ loc'.a = loc.a BY <1>2, <1>5, <2>2 DEF Local
  <2>4. Fits(pc', loc', mem')
    BY <1>4, <1>5, <2>1, <2>3 DEF Fits, Pcs, ActionPcs, RowPcs, EvmTxPcs, SolTxPcs
  <2>5. Sound(mem') /\ Sound(disk') BY <1>2, <1>5 DEF Keep
  <2> QED BY <1>1, <2>4, <2>5, StepSafe
<1>6. CASE NextOperation /\ Write(CountUp(mem)) /\ loc' = [loc EXCEPT !.key = mem.ctr + 1]
           /\ pc' = (IF loc.op = "refresh" THEN "refresh" ELSE "store")
  <2>1. pc = "key" BY <1>6 DEF NextOperation
  <2>2. mem.ctr + 1 \in Nat BY <1>2 DEF State
  <2>3. loc' \in Local /\ loc'.op = loc.op /\ loc'.a = loc.a BY <1>2, <1>6, <2>2 DEF Local
  <2>4. Fits(pc', loc', mem')
    BY <1>4, <1>6, <2>1, <2>3 DEF Fits, Pcs, ActionPcs, RowPcs, EvmTxPcs, SolTxPcs
  <2>5. Sound(CountUp(mem)) BY <1>2, <2>2 DEF CountUp, Sound, State, Bounded
  <2>6. Sound(mem') /\ Sound(disk') BY <1>6, <2>5 DEF Write
  <2> QED BY <1>1, <2>4, <2>6, StepSafe
<1>7. CASE NextOperation /\ Stop(disk) BY <1>1, <1>2, <1>7, StopSafe
<1>8. CASE StoreKey
  <2>1. pc = "store" /\ loc' = loc /\ pc' = loc.op BY <1>8 DEF StoreKey, Goto
  <2>2. Sound([mem EXCEPT !.outKey[loc.step] = loc.key])
    BY <1>2, <1>3 DEF Sound, State, Bounded
  <2>3. loc.op = "source" => Sound([mem EXCEPT !.srcKey[loc.a] = loc.key])
    BY <1>2, <1>3, <1>4, <2>1 DEF Sound, State, Bounded
  <2>4. Sound(mem') /\ Sound(disk') BY <1>8, <2>2, <2>3 DEF StoreKey, Write
  <2>5. Fits(pc', loc', mem')
    BY <1>2, <1>3, <1>4, <2>1 DEF Fits, Pcs, ActionPcs, RowPcs, EvmTxPcs, SolTxPcs
  <2> QED BY <1>1, <2>4, <2>5, StepSafe
<1> QED BY <1>5, <1>6, <1>7, <1>8 DEF NextOperation

LEMMA SourceServed ==
  ASSUME IInv, loc.a \in Actions
  PROVE  \A q \in SourceEffect \union {srv} : Served(q)
<1> DEFINE n == Cardinality(Sent(Cur))
           r == Delivered(loc.a, n)
<1>1. n \in Nat BY SentCount
<1>2. Served(srv) /\ now \in Nat /\ loc \in Local
  BY DEF IInv, WorldOK, WorldTypeOK, Served, Fits
<1>3. Served(r) BY <1>1, <1>2, DeliveredServed
<1>4. Served([r EXCEPT !.phase = "flight", !.obs = loc.a])
  <2> HIDE DEF r
  <2> QED BY <1>3 DEF Served, Session
<1>5. \A q \in NextStep(r) : Served(q)
  <2> HIDE DEF r
  <2> QED BY <1>2, <1>3, NextStepServed
<1>6. SourceEffect = IF SourceFresh(loc.a, Cur.attempt, n)
                     THEN {[r EXCEPT !.phase = "flight", !.obs = loc.a]} \union NextStep(r)
                     ELSE {r}
  BY DEF SourceEffect
<1> HIDE DEF n, r
<1> QED BY <1>2, <1>3, <1>4, <1>5, <1>6

LEMMA OutputServed ==
  ASSUME IInv
  PROVE  \A q \in OutputEffect \union {srv} : Served(q)
<1> DEFINE r == Delivered(NoAct, 0)
<1>1. Served(srv) /\ now \in Nat /\ loc \in Local
  BY DEF IInv, WorldOK, WorldTypeOK, Served, Fits
<1>2. Served(r) BY <1>1, DeliveredServed
<1>3. \A q \in NextStep(r) : Served(q)
  <2> HIDE DEF r
  <2> QED BY <1>1, <1>2, NextStepServed
<1>4. OutputEffect = {r} \union (IF srv.phase = "flight" THEN NextStep(r) ELSE {})
  BY DEF OutputEffect
<1> HIDE DEF r
<1> QED BY <1>1, <1>2, <1>3, <1>4

\* The world after a session call that leaves the clock and the chains alone.
LEMMA ServedWorld ==
  ASSUME IInv, OnlySrv, Served(srv')
  PROVE  WorldOK' /\ UNCHANGED <<runs, anchor>>
BY DEF IInv, OnlySrv, Served, WorldOK, WorldTypeOK

LEMMA ObserveSafe == IInv /\ (ObserveSource \/ ObserveOutput) => IInv'
<1> SUFFICES ASSUME IInv, ObserveSource \/ ObserveOutput PROVE IInv'
  OBVIOUS
<1>1. Sound(mem) /\ Sound(disk) /\ now + 1 \in Nat BY DEF IInv, WorldOK, WorldTypeOK
<1>2. pc = "source" => loc.a \in Actions BY DEF IInv, Fits, ActionPcs
<1>3. Served(srv')
  BY <1>2, SourceServed, OutputServed DEF ObserveSource, ObserveOutput
<1>4. WorldOK' /\ UNCHANGED <<runs, anchor>>
  BY <1>3, ServedWorld DEF ObserveSource, ObserveOutput
<1>5. ASSUME Keep, Again PROVE IInv'
  BY <1>1, <1>4, <1>5, AgainSafe DEF Keep
<1>6. CASE ObserveSource
  <2>1. "observed" \in Status BY DEF Status
  <2>2. Sound([mem EXCEPT !.act[loc.a].status = "observed"])
    BY <1>1, <1>2, <1>6, <2>1, StatusSound DEF ObserveSource
  <2>3. ASSUME Write([mem EXCEPT !.act[loc.a].status = "observed"]), Again PROVE IInv'
    BY <1>4, <2>2, <2>3, AgainSafe DEF Write
  <2> QED BY <1>1, <1>4, <1>6, <2>3, SleepSafe, StopSafe DEF ObserveSource
<1>7. CASE ObserveOutput
  BY <1>1, <1>4, <1>5, <1>7, SleepSafe, StopSafe DEF ObserveOutput
<1> QED BY <1>6, <1>7

LEMMA RefreshSafe == IInv /\ Refresh => IInv'
<1> SUFFICES ASSUME IInv, Refresh PROVE IInv'
  OBVIOUS
<1> DEFINE r == Delivered(srv.a, srv.exp)
<1>1. Sound(mem) /\ Sound(disk) /\ now \in Nat BY DEF IInv, WorldOK, WorldTypeOK
<1>2. Served(srv) /\ srv \in Session /\ loc \in Local
  BY DEF IInv, WorldOK, WorldTypeOK, Served, Fits
<1>3. srv.a \in Actions \union {NoAct} /\ srv.exp \in Nat BY <1>2 DEF Session
<1>4. Served(r) BY <1>2, <1>3, DeliveredServed
<1>5. Served([r EXCEPT !.phase = "build", !.a = NoAct])
  <2> HIDE DEF r
  <2> QED BY <1>4 DEF Served, Session
<1>6. \A q \in Refreshed(r) : Served(q) /\ q.a \in Actions
  <2> HIDE DEF r
  <2> QED BY <1>1, <1>4, RefreshedServed
<1>7. OnlySrv BY DEF Refresh
<1>8. Served(srv')
  <2>1. \/ srv' \in Refreshed(r)
        \/ srv' = [r EXCEPT !.phase = "build", !.a = NoAct]
        \/ srv' \in {srv, r}
    BY DEF Refresh
  <2> HIDE DEF r
  <2> QED BY <1>2, <1>4, <1>5, <1>6, <2>1
<1>9. WorldOK' /\ UNCHANGED <<runs, anchor>> BY <1>7, <1>8, ServedWorld
<1>10. ASSUME srv' \in Refreshed(r), Keep, Execute(srv') PROVE IInv'
  <2>1. srv' \in Session /\ srv'.a \in Actions BY <1>6, <1>8, <1>10 DEF Served
  <2> QED BY <1>9, <1>10, <2>1, ExecuteSafe
<1>11. ASSUME Keep, Again PROVE IInv'
  BY <1>1, <1>9, <1>11, AgainSafe DEF Keep
<1>12. Stop(disk) => IInv' BY <1>1, <1>9, StopSafe
<1> QED BY <1>10, <1>11, <1>12 DEF Refresh

(*------------------------- executeEvm preserves IInv -------------------------*)
\* At a point of an action: the locals are typed and the state is sound.
LEMMA Inside ==
  IInv => /\ loc \in Local /\ Sound(mem) /\ Sound(disk)
          /\ loc.step \in Steps
          /\ pc \in ActionPcs => loc.a \in Actions
          /\ pc \in {"evm", "rows"} => loc.idx \in 0 .. Rows[loc.step]
          /\ pc \in RowPcs => loc.idx \in 0 .. Rows[loc.step] - 1 /\ loc.idx \in Idx
          /\ pc \in EvmTxPcs => mem.txs + 1 <= MaxTx
          /\ pc \in SolTxPcs => mem.soltxs + 1 <= SolMaxTx
BY RowIsIndex DEF IInv, Fits, Local

LEMMA EvmReserveSafe == IInv /\ EvmReserve => IInv'
<1> SUFFICES ASSUME IInv, EvmReserve PROVE IInv'
  OBVIOUS
<1> DEFINE r == StepReserve[loc.step]
<1>1. WorldOK' /\ UNCHANGED <<runs, anchor>> BY QuietWorld DEF EvmReserve
<1>2. loc \in Local /\ Sound(mem) /\ Sound(disk) /\ loc.a \in Actions /\ loc.step \in Steps
  BY Inside DEF EvmReserve, ActionPcs
<1>3. CASE r > Cap \/ (Cur.reserve = 0 /\ ~ReserveFits(mem, r))
  BY <1>1, <1>2, <1>3, StopSafe DEF EvmReserve
<1>4. CASE ~(r > Cap \/ (Cur.reserve = 0 /\ ~ReserveFits(mem, r)))
  <2>1. r \in Nat BY <1>2, PolicyAssumption
  <2>2. Sound(ActionState(mem)) BY <1>2, ActionStateSound
  <2>3. ActionState(mem).resv = mem.resv BY <1>2 DEF ActionState, Sound, State
  <2>4. Cur.reserve = 0 => Sound(ReserveFor(ActionState(mem), r))
    <3> HIDE DEF r
    <3>1. Cur.reserve = 0 => ReserveFits(ActionState(mem), r) BY <1>4, <2>3 DEF ReserveFits
    <3> QED BY <1>2, <2>1, <2>2, <3>1, ReserveForSound
  <2>5. Sound(mem') /\ Sound(disk') /\ Goto("rows")
    BY <1>4, <2>2, <2>4 DEF EvmReserve, Write
  <2>6. Fits(pc', loc', mem')
    BY <1>2, <2>5, Inside DEF EvmReserve, Goto, Fits, Pcs, ActionPcs, RowPcs, EvmTxPcs, SolTxPcs
  <2> QED BY <1>1, <2>5, <2>6, StepSafe
<1> QED BY <1>3, <1>4

\* Points of an action that assume nothing beyond the action itself.
LEMMA GotoSafe ==
  ASSUME IInv, WorldOK', UNCHANGED <<runs, anchor>>, Sound(mem'), Sound(disk'),
         loc.a \in Actions, NEW p \in {"settle", "catch", "sprepare", "sconfirm", "sdone"}, Goto(p)
  PROVE  IInv'
<1>1. Fits(pc', loc', mem')
  BY Inside DEF Goto, Fits, Pcs, ActionPcs, RowPcs, EvmTxPcs, SolTxPcs
<1> QED BY <1>1, StepSafe

LEMMA EvmRowSafe == IInv /\ EvmRow => IInv'
<1> SUFFICES ASSUME IInv, EvmRow PROVE IInv'
  OBVIOUS
<1>1. WorldOK' /\ UNCHANGED <<runs, anchor>> BY QuietWorld DEF EvmRow
<1>2. /\ loc \in Local /\ Sound(mem) /\ Sound(disk) /\ loc.a \in Actions
      /\ loc.idx \in 0 .. Rows[loc.step] /\ Rows[loc.step] \in Nat
  BY Inside, ShapeAssumption DEF EvmRow, ActionPcs
<1>3. CASE loc.idx = Rows[loc.step]
  <2>1. "confirmed" \in Status BY DEF Status
  <2>2. Sound([mem EXCEPT !.act[loc.a].status = "confirmed"]) BY <1>2, <2>1, StatusSound
  <2>3. Sound(mem') /\ Sound(disk') /\ Goto("settle") BY <1>2, <1>3, <2>2 DEF EvmRow
  <2> QED BY <1>1, <1>2, <2>3, GotoSafe
<1>4. CASE loc.idx # Rows[loc.step]
  <2>1. Sound(mem') /\ Sound(disk') BY <1>2, <1>4 DEF EvmRow, Keep
  <2>2. loc.idx \in 0 .. Rows[loc.step] - 1 BY <1>2, <1>4
  <2>3. \/ pc' = pc /\ loc' = [loc EXCEPT !.idx = @ + 1]
        \/ Goto("confirm") \/ Goto("prepare") \/ Goto("catch")
    BY <1>4 DEF EvmRow
  <2>4. CASE pc' = pc /\ loc' = [loc EXCEPT !.idx = @ + 1]
    <3>1. pc = "rows" BY DEF EvmRow
    <3>2. loc.idx + 1 \in 0 .. Rows[loc.step] BY <1>2, <2>2
    <3>3. loc' \in Local /\ loc'.idx = loc.idx + 1 /\ loc'.a = loc.a /\ loc'.step = loc.step
      BY <1>2, <2>4, <3>2 DEF Local
    <3>4. Fits(pc', loc', mem')
      BY <1>2, <2>4, <3>1, <3>2, <3>3 DEF Fits, Pcs, ActionPcs, RowPcs, EvmTxPcs, SolTxPcs
    <3> QED BY <1>1, <2>1, <3>4, StepSafe
  <2>5. ASSUME NEW p \in {"confirm", "prepare"}, Goto(p) PROVE IInv'
    <3>1. Fits(pc', loc', mem')
      BY <1>2, <2>2, <2>5 DEF Goto, Fits, Pcs, ActionPcs, RowPcs, EvmTxPcs, SolTxPcs
    <3> QED BY <1>1, <2>1, <3>1, StepSafe
  <2>6. CASE Goto("catch") BY <1>1, <1>2, <2>1, <2>6, GotoSafe
  <2> QED BY <2>3, <2>4, <2>5, <2>6
<1> QED BY <1>3, <1>4

\* A save that throws inside the try: what memory holds is sound, on disk or not.
LEMMA SaveFailsSafe ==
  ASSUME IInv, WorldOK', UNCHANGED <<runs, anchor>>, loc.a \in Actions,
         NEW s, Sound(s), NEW l \in Local, l.a = loc.a, SaveFails(s, l)
  PROVE  IInv'
<1>1. Sound(disk) BY DEF IInv
<1>2. anchor' = anchor OBVIOUS
<1>3. Sound(mem') /\ Sound(disk') BY <1>1, <1>2 DEF SaveFails
<1>4. Fits(pc', loc', mem') BY DEF SaveFails, Fits, Pcs, ActionPcs, RowPcs, EvmTxPcs, SolTxPcs
<1> QED BY <1>3, <1>4, StepSafe

LEMMA EvmPrepareSafe == IInv /\ EvmPrepare => IInv'
<1> SUFFICES ASSUME IInv, EvmPrepare PROVE IInv'
  OBVIOUS
<1>1. WorldOK' /\ UNCHANGED <<runs, anchor>> BY QuietWorld DEF EvmPrepare
<1>2. pc = "prepare" BY DEF EvmPrepare
<1>3. /\ loc \in Local /\ Sound(mem) /\ Sound(disk) /\ loc.a \in Actions
      /\ loc.idx \in 0 .. Rows[loc.step] - 1 /\ loc.idx \in Idx
  BY <1>2, Inside DEF ActionPcs, RowPcs
<1>4. ASSUME Keep, Goto("catch") PROVE IInv'
  <2>1. Sound(mem') /\ Sound(disk') BY <1>3, <1>4 DEF Keep
  <2> QED BY <1>1, <1>3, <1>4, <2>1, GotoSafe
<1>5. ASSUME NEW gas \in 1 .. GasCap[loc.idx], TxFits(mem),
             NEW l, l = [loc EXCEPT !.gas = gas, !.tried = TRUE],
             \/ Write(Announce(mem)) /\ pc' = "submit" /\ loc' = l
             \/ SaveFails(Announce(mem), l)
      PROVE  IInv'
  <2>1. gas \in Nat BY <1>3, <1>5, PolicyAssumption
  <2>2. l \in Local /\ l.a = loc.a /\ l.idx = loc.idx /\ l.step = loc.step
    BY <1>3, <1>5, <2>1 DEF Local
  <2>3. Attempted \in Status BY DEF Status
  <2>4. Sound(Announce(mem)) BY <1>3, <2>3, StatusSound DEF Announce
  <2>5. CASE Write(Announce(mem)) /\ pc' = "submit" /\ loc' = l
    <3>1. Sound(mem') /\ Sound(disk') BY <2>4, <2>5 DEF Write
    <3>2. mem'.txs = mem.txs BY <1>3, <2>5 DEF Write, Announce, Sound, State
    <3>3. Fits(pc', loc', mem')
      BY <1>3, <1>5, <2>2, <2>5, <3>2 DEF TxFits, Fits, Pcs, ActionPcs, RowPcs, EvmTxPcs, SolTxPcs
    <3> QED BY <1>1, <3>1, <3>3, StepSafe
  <2>6. CASE SaveFails(Announce(mem), l) BY <1>1, <1>3, <2>2, <2>4, <2>6, SaveFailsSafe
  <2> QED BY <1>5, <2>5, <2>6
<1> QED BY <1>4, <1>5 DEF EvmPrepare

\* The world after a send, or after one that did not reach the chain.
LEMMA NetWorld ==
  ASSUME IInv, OnlyNet, loc.a \in Actions, NEW i \in Idx \union {Revoke},
         Send(i) \/ UNCHANGED chain
  PROVE  WorldOK' /\ UNCHANGED <<runs, anchor>>
<1>1. WorldOK /\ loc \in Local /\ Sound(mem) BY DEF IInv, Fits
<1>2. Send(i) => WorldOK' BY <1>1, SendSafe DEF OnlyNet
<1>3. UNCHANGED chain => WorldOK' BY <1>1 DEF OnlyNet, WorldOK, WorldTypeOK
<1> QED BY <1>2, <1>3 DEF OnlyNet

LEMMA EvmSubmitSafe == IInv /\ EvmSubmit => IInv'
<1> SUFFICES ASSUME IInv, EvmSubmit PROVE IInv'
  OBVIOUS
<1>1. pc = "submit" BY DEF EvmSubmit
<1>2. /\ loc \in Local /\ Sound(mem) /\ Sound(disk) /\ loc.a \in Actions
      /\ loc.idx \in 0 .. Rows[loc.step] - 1 /\ loc.idx \in Idx /\ mem.txs + 1 <= MaxTx
  BY <1>1, Inside DEF ActionPcs, RowPcs, EvmTxPcs
<1>3. WorldOK' /\ UNCHANGED <<runs, anchor>> BY <1>2, NetWorld DEF EvmSubmit
<1>4. Sound(mem') /\ Sound(disk') /\ mem' = mem BY <1>2 DEF EvmSubmit, Keep
<1>5. CASE Goto("record")
  <2>1. Fits(pc', loc', mem')
    BY <1>2, <1>4, <1>5 DEF Goto, Fits, Pcs, ActionPcs, RowPcs, EvmTxPcs, SolTxPcs
  <2> QED BY <1>3, <1>4, <2>1, StepSafe
<1>6. CASE Goto("catch") BY <1>2, <1>3, <1>4, <1>6, GotoSafe
<1> QED BY <1>5, <1>6 DEF EvmSubmit

LEMMA EvmRecordSafe == IInv /\ EvmRecord => IInv'
<1> SUFFICES ASSUME IInv, EvmRecord PROVE IInv'
  OBVIOUS
<1>1. pc = "record" BY DEF EvmRecord
<1>2. /\ loc \in Local /\ Sound(mem) /\ Sound(disk) /\ loc.a \in Actions
      /\ loc.idx \in 0 .. Rows[loc.step] - 1 /\ loc.idx \in Idx /\ mem.txs + 1 <= MaxTx
  BY <1>1, Inside DEF ActionPcs, RowPcs, EvmTxPcs
<1>3. WorldOK' /\ UNCHANGED <<runs, anchor>> BY QuietWorld DEF EvmRecord
<1>4. Sound(RecordHash(mem)) BY <1>2, RecordHashSound DEF TxFits
<1>5. CASE Write(RecordHash(mem)) /\ Goto("confirm")
  <2>1. Sound(mem') /\ Sound(disk') BY <1>4, <1>5 DEF Write
  <2>2. Fits(pc', loc', mem')
    BY <1>2, <1>5 DEF Goto, Fits, Pcs, ActionPcs, RowPcs, EvmTxPcs, SolTxPcs
  <2> QED BY <1>3, <2>1, <2>2, StepSafe
<1>6. CASE SaveFails(RecordHash(mem), loc) BY <1>2, <1>3, <1>4, <1>6, SaveFailsSafe
<1> QED BY <1>5, <1>6 DEF EvmRecord

LEMMA ReceiptFee ==
  ASSUME IInv, NEW i
  PROVE  \A k \in Receipts(i) : chain[k].fee \in Nat
<1>1. chain \in Seq(Tx) BY DEF IInv, WorldOK, WorldTypeOK
<1>2. \A k \in DOMAIN chain : chain[k] \in Tx BY <1>1
<1>3. \A t \in Tx : t.fee \in Nat BY DEF Tx
<1> QED BY <1>2, <1>3 DEF Receipts, TxOf

LEMMA EvmConfirmSafe == IInv /\ EvmConfirm => IInv'
<1> SUFFICES ASSUME IInv, EvmConfirm PROVE IInv'
  OBVIOUS
<1>1. pc = "confirm" BY DEF EvmConfirm
<1>2. /\ loc \in Local /\ Sound(mem) /\ Sound(disk) /\ loc.a \in Actions
      /\ loc.idx \in 0 .. Rows[loc.step] - 1 /\ loc.idx \in Idx /\ Rows[loc.step] \in Nat
  BY <1>1, Inside, ShapeAssumption DEF ActionPcs, RowPcs
<1>3. WorldOK' /\ UNCHANGED <<runs, anchor>> BY QuietWorld DEF EvmConfirm
<1>4. CASE Keep /\ Goto("catch")
  <2>1. Sound(mem') /\ Sound(disk') BY <1>2, <1>4 DEF Keep
  <2> QED BY <1>2, <1>3, <1>4, <2>1, GotoSafe
<1>5. ASSUME NEW k \in Receipts(loc.idx), NEW t, t = RecordActual(mem, chain[k].fee),
             IF ~SpendFits(mem, t) THEN mem' = t /\ UNCHANGED disk /\ Goto("catch")
             ELSE \/ Write(t) /\ pc' = "rows" /\ loc' = [loc EXCEPT !.idx = @ + 1]
                  \/ SaveFails(t, loc)
      PROVE  IInv'
  <2>1. Sound(t) BY <1>2, <1>5, ReceiptFee, RecordActualSound
  <2>2. CASE ~SpendFits(mem, t)
    <3>1. Sound(mem') /\ Sound(disk') /\ Goto("catch") BY <1>2, <1>5, <2>1, <2>2
    <3> QED BY <1>2, <1>3, <3>1, GotoSafe
  <2>3. CASE Write(t) /\ pc' = "rows" /\ loc' = [loc EXCEPT !.idx = @ + 1]
    <3>1. Sound(mem') /\ Sound(disk') BY <2>1, <2>3 DEF Write
    <3>2. loc.idx + 1 \in 0 .. Rows[loc.step] BY <1>2
    <3>3. /\ loc' \in Local /\ loc'.a = loc.a /\ loc'.step = loc.step
          /\ loc'.idx = loc.idx + 1 /\ pc' = "rows"
      BY <1>2, <2>3, <3>2 DEF Local
    <3>4. Fits(pc', loc', mem')
      BY <1>2, <3>2, <3>3 DEF Fits, Pcs, ActionPcs, RowPcs, EvmTxPcs, SolTxPcs
    <3> QED BY <1>3, <3>1, <3>4, StepSafe
  <2>4. CASE SaveFails(t, loc) BY <1>2, <1>3, <2>1, <2>4, SaveFailsSafe
  <2> QED BY <1>5, <2>2, <2>3, <2>4
<1> QED BY <1>4, <1>5 DEF EvmConfirm

\* The step after the last row: on to the observation of the source.
LEMMA ToSourceSafe ==
  ASSUME IInv, WorldOK', UNCHANGED <<runs, anchor>>, Sound(mem'), Sound(disk'),
         loc.a \in Actions, pc' = "key",
         loc' = [NoLocals EXCEPT !.op = "source", !.a = loc.a, !.step = loc.step]
  PROVE  IInv'
<1>1. loc' \in Local /\ loc'.a = loc.a BY NoLocalsTyped, Inside DEF Local
<1>2. Fits(pc', loc', mem') BY <1>1 DEF Fits, Pcs, ActionPcs, RowPcs, EvmTxPcs, SolTxPcs
<1> QED BY <1>2, StepSafe

LEMMA EvmSettledSafe == IInv /\ EvmSettled => IInv'
<1> SUFFICES ASSUME IInv, EvmSettled PROVE IInv'
  OBVIOUS
<1>1. WorldOK' /\ UNCHANGED <<runs, anchor>> BY QuietWorld DEF EvmSettled
<1>2. Sound(mem) /\ loc.a \in Actions BY Inside DEF EvmSettled, ActionPcs
<1>3. Sound(mem') /\ Sound(disk') BY <1>2 DEF EvmSettled, Write
<1> QED BY <1>1, <1>2, <1>3, ToSourceSafe DEF EvmSettled

LEMMA EvmCatchSafe == IInv /\ EvmCatch => IInv'
<1> SUFFICES ASSUME IInv, EvmCatch PROVE IInv'
  OBVIOUS
<1>1. WorldOK' /\ UNCHANGED <<runs, anchor>> BY QuietWorld DEF EvmCatch
<1>2. loc \in Local /\ Sound(mem) /\ Sound(disk) /\ loc.a \in Actions
  BY Inside DEF EvmCatch, ActionPcs
<1>3. CASE TxFits(mem) /\ Keep /\ Goto("rprepare")
  <2>1. Sound(mem') /\ Sound(disk') BY <1>2, <1>3 DEF Keep
  <2>2. Fits(pc', loc', mem')
    BY <1>2, <1>3 DEF Keep, Goto, TxFits, Fits, Pcs, ActionPcs, RowPcs, EvmTxPcs, SolTxPcs
  <2> QED BY <1>1, <2>1, <2>2, StepSafe
<1>4. CASE Stop(Caught(mem)) BY <1>1, <1>2, <1>4, CaughtSound, StopSafe
<1> QED BY <1>3, <1>4 DEF EvmCatch

LEMMA RevokeSafe == IInv /\ (RevokePrepare \/ RevokeSubmit \/ RevokeConfirm) => IInv'
<1> SUFFICES ASSUME IInv, RevokePrepare \/ RevokeSubmit \/ RevokeConfirm PROVE IInv'
  OBVIOUS
<1>1. /\ loc \in Local /\ Sound(mem) /\ Sound(disk) /\ loc.a \in Actions
      /\ mem.txs + 1 <= MaxTx
  BY Inside DEF RevokePrepare, RevokeSubmit, RevokeConfirm, ActionPcs, EvmTxPcs
<1>2. WorldOK' /\ UNCHANGED <<runs, anchor>>
  BY <1>1, NetWorld, QuietWorld DEF RevokePrepare, RevokeSubmit, RevokeConfirm
<1>3. Stop(disk) => IInv' BY <1>1, <1>2, StopSafe
<1>4. ASSUME Keep, loc' \in Local, loc'.a = loc.a, NEW p \in {"rsubmit", "rconfirm"}, pc' = p
      PROVE  IInv'
  <2>1. Sound(mem') /\ Sound(disk') /\ mem' = mem BY <1>1, <1>4 DEF Keep
  <2>2. Fits(pc', loc', mem')
    BY <1>1, <1>4, <2>1 DEF Fits, Pcs, ActionPcs, RowPcs, EvmTxPcs, SolTxPcs
  <2> QED BY <1>2, <2>1, <2>2, StepSafe
<1>5. CASE RevokePrepare
  <2>1. ASSUME NEW gas \in 1 .. RecoveryGas, Keep, pc' = "rsubmit", loc' = [loc EXCEPT !.gas = gas]
        PROVE  IInv'
    <3>1. gas \in Nat BY PolicyAssumption
    <3>2. loc' \in Local /\ loc'.a = loc.a BY <1>1, <2>1, <3>1 DEF Local
    <3> QED BY <1>4, <2>1, <3>2
  <2> QED BY <1>3, <1>5, <2>1 DEF RevokePrepare
<1>6. CASE RevokeSubmit
  <2>1. Keep /\ Goto("rconfirm") => IInv' BY <1>1, <1>4 DEF Goto
  <2> QED BY <1>3, <1>6, <2>1 DEF RevokeSubmit
<1>7. CASE RevokeConfirm
  <2>1. ASSUME NEW k \in Receipts(Revoke), Stop(Recovered(mem, chain[k].fee)) PROVE IInv'
    <3>1. Sound(Recovered(mem, chain[k].fee))
      BY <1>1, ReceiptFee, RecoveredSound DEF TxFits
    <3> QED BY <1>2, <2>1, <3>1, StopSafe
  <2> QED BY <1>3, <1>7, <2>1 DEF RevokeConfirm
<1> QED BY <1>5, <1>6, <1>7

(*------------------------ executeSolana preserves IInv ------------------------*)
LEMMA SolPrepareSafe == IInv /\ (SolBegin \/ SolPrepare) => IInv'
<1> SUFFICES ASSUME IInv, SolBegin \/ SolPrepare PROVE IInv'
  OBVIOUS
<1>1. WorldOK' /\ UNCHANGED <<runs, anchor>> BY QuietWorld DEF SolBegin, SolPrepare
<1>2. loc \in Local /\ Sound(mem) /\ Sound(disk) /\ loc.a \in Actions
  BY Inside DEF SolBegin, SolPrepare, ActionPcs
<1>3. Stop(disk) => IInv' BY <1>1, <1>2, StopSafe
<1>4. CASE SolBegin
  <2>1. Sound(ActionState(mem)) BY <1>2, ActionStateSound
  <2>2. ASSUME mem' = ActionState(mem), UNCHANGED disk,
               NEW p \in {"sprepare", "sconfirm", "sdone"}, Goto(p)
        PROVE  IInv'
    <3>1. Sound(mem') /\ Sound(disk') BY <1>2, <2>1, <2>2
    <3> QED BY <1>1, <1>2, <2>2, <3>1, GotoSafe
  <2> QED BY <1>3, <1>4, <2>2 DEF SolBegin
<1>5. CASE SolPrepare
  <2>1. ASSUME NEW quote \in SolQuotes, SolTxFits(mem), Write(mem), pc' = "ssubmit",
               loc' = [loc EXCEPT !.gas = quote]
        PROVE  IInv'
    <3>1. quote \in Nat BY PolicyAssumption
    <3>2. loc' \in Local /\ loc'.a = loc.a BY <1>2, <2>1, <3>1 DEF Local
    <3>3. Sound(mem') /\ Sound(disk') /\ mem' = mem BY <1>2, <2>1 DEF Write
    <3>4. Fits(pc', loc', mem')
      BY <1>2, <2>1, <3>2, <3>3 DEF SolTxFits, Fits, Pcs, ActionPcs, RowPcs, EvmTxPcs, SolTxPcs
    <3> QED BY <1>1, <3>3, <3>4, StepSafe
  <2> QED BY <1>3, <1>5, <2>1 DEF SolPrepare
<1> QED BY <1>4, <1>5

LEMMA SolSubmitSafe == IInv /\ SolSubmit => IInv'
<1> SUFFICES ASSUME IInv, SolSubmit PROVE IInv'
  OBVIOUS
<1>1. /\ loc \in Local /\ Sound(mem) /\ Sound(disk) /\ loc.a \in Actions
      /\ mem.soltxs + 1 <= SolMaxTx
  BY Inside DEF SolSubmit, ActionPcs, SolTxPcs
<1>2. WorldOK' /\ UNCHANGED <<runs, anchor>> BY <1>1, FirstRow, NetWorld DEF SolSubmit
<1>3. CASE Keep /\ Goto("srecord")
  <2>1. Sound(mem') /\ Sound(disk') /\ mem' = mem BY <1>1, <1>3 DEF Keep
  <2>2. Fits(pc', loc', mem')
    BY <1>1, <1>3, <2>1 DEF Goto, Fits, Pcs, ActionPcs, RowPcs, EvmTxPcs, SolTxPcs
  <2> QED BY <1>2, <2>1, <2>2, StepSafe
<1>4. CASE Stop(disk) BY <1>1, <1>2, <1>4, StopSafe
<1> QED BY <1>3, <1>4 DEF SolSubmit

LEMMA SolRecordSafe == IInv /\ SolRecord => IInv'
<1> SUFFICES ASSUME IInv, SolRecord PROVE IInv'
  OBVIOUS
<1>1. WorldOK' /\ UNCHANGED <<runs, anchor>> BY QuietWorld DEF SolRecord
<1>2. Sound(mem) /\ loc.a \in Actions /\ mem.soltxs + 1 <= SolMaxTx
  BY Inside DEF SolRecord, ActionPcs, SolTxPcs
<1> DEFINE t == [mem EXCEPT !.act[loc.a].item[0] = "sent",
                            !.act[loc.a].status = "submitted", !.soltxs = @ + 1]
<1>3. Sound(t)
  <2>1. mem.act[loc.a] \in ActionRec BY <1>2, ActionSound
  <2>2. "submitted" \in Status BY DEF Status
  <2>3. [mem.act[loc.a] EXCEPT !.item[0] = "sent", !.status = "submitted"] \in ActionRec
    BY <2>1, <2>2, FirstRow DEF ActionRec
  <2>4. mem.soltxs + 1 \in Nat BY <1>2 DEF Sound, State
  <2> QED BY <1>2, <2>3, <2>4 DEF Sound, State, Bounded
<1>4. Write(t) /\ Goto("sconfirm") BY DEF SolRecord
<1> HIDE DEF t
<1>5. Sound(mem') /\ Sound(disk') BY <1>3, <1>4 DEF Write
<1> QED BY <1>1, <1>2, <1>4, <1>5, GotoSafe

LEMMA SolConfirmSafe == IInv /\ SolConfirm => IInv'
<1> SUFFICES ASSUME IInv, SolConfirm PROVE IInv'
  OBVIOUS
<1>1. WorldOK' /\ UNCHANGED <<runs, anchor>> BY QuietWorld DEF SolConfirm
<1>2. Sound(mem) /\ Sound(disk) /\ loc.a \in Actions BY Inside DEF SolConfirm, ActionPcs
<1>3. Stop(disk) => IInv' BY <1>1, <1>2, StopSafe
<1>4. ASSUME NEW k \in Receipts(0), NEW t,
             t = [mem EXCEPT !.act[loc.a].item[0] = "done", !.sol = @ + chain[k].fee],
             ~(t.sol > SolCap), Write(t), Goto("sdone")
      PROVE  IInv'
  <2>1. mem.act[loc.a] \in ActionRec BY <1>2, ActionSound
  <2>2. [mem.act[loc.a] EXCEPT !.item[0] = "done"] \in ActionRec
    BY <2>1, FirstRow DEF ActionRec
  <2>3. mem.sol + chain[k].fee \in Nat BY <1>2, <1>4, ReceiptFee DEF Sound, State
  <2>4. mem.sol + chain[k].fee <= SolCap
    BY <1>2, <1>4, <2>3, PolicyAssumption DEF Sound, State
  <2>5. Sound(t) BY <1>2, <1>4, <2>2, <2>3, <2>4 DEF Sound, State, Bounded
  <2>6. Sound(mem') /\ Sound(disk') BY <1>4, <2>5 DEF Write
  <2> QED BY <1>1, <1>2, <1>4, <2>6, GotoSafe
<1> QED BY <1>3, <1>4 DEF SolConfirm

LEMMA SolDoneSafe == IInv /\ SolDone => IInv'
<1> SUFFICES ASSUME IInv, SolDone PROVE IInv'
  OBVIOUS
<1>1. WorldOK' /\ UNCHANGED <<runs, anchor>> BY QuietWorld DEF SolDone
<1>2. Sound(mem) /\ loc.a \in Actions BY Inside DEF SolDone, ActionPcs
<1>3. "confirmed" \in Status BY DEF Status
<1>4. Sound([mem EXCEPT !.act[loc.a].status = "confirmed"]) BY <1>2, <1>3, StatusSound
<1>5. Sound(mem') /\ Sound(disk') BY <1>4 DEF SolDone, Write
<1> QED BY <1>1, <1>2, <1>5, ToSourceSafe DEF SolDone

(*------------------------------- the theorems -------------------------------*)
LEMMA InitSafe == Init => IInv
<1> SUFFICES ASSUME Init PROVE IInv
  OBVIOUS
<1>1. WorldOK
  <2>1. srv \in Session /\ srv.a \in Actions
    BY Sizes DEF Init, WorldInit, Session, Steps, Actions, NoAct
  <2> QED BY <2>1 DEF Init, WorldInit, WorldOK, WorldTypeOK
<1>2. NoAction \in ActionRec
  BY Sizes DEF NoAction, NoRows, ActionRec, Status, Steps
<1>3. InitialState \in State BY <1>2 DEF InitialState, State
<1>4. Sound(mem) /\ Sound(disk)
  BY <1>3, PolicyAssumption DEF Init, Sound, Bounded, InitialState
<1>5. Fits(pc, loc, mem) BY NoLocalsTyped, FitsLoose DEF Init
<1> QED BY <1>1, <1>4, <1>5 DEF Init, IInv

LEMMA EnvironmentSafe == IInv /\ (Crash \/ Time \/ Mining \/ Halting) => IInv'
<1> SUFFICES ASSUME IInv, Crash \/ Time \/ Mining \/ Halting PROVE IInv'
  OBVIOUS
<1>1. CASE Crash
  <2>1. WorldOK' /\ UNCHANGED <<runs, anchor>> /\ Sound(disk)
    BY <1>1, QuietWorld DEF Crash, IInv
  <2> QED BY <1>1, <2>1, StopSafe DEF Crash
<1>2. CASE Time \/ Mining \/ Halting
  <2>1. WorldOK' BY <1>2, TickSafe, MineSafe, HaltSafe DEF Time, Mining, Halting, IInv
  <2>2. UNCHANGED process BY <1>2 DEF Time, Mining, Halting
  <2> QED BY <2>1, <2>2 DEF process, IInv, Sound, Fits
<1> QED BY <1>1, <1>2

\* Every step of the runner, of a crash and of the world preserves the invariant.
LEMMA NextSafe == IInv /\ [Next]_vars => IInv'
<1> SUFFICES ASSUME IInv, [Next]_vars PROVE IInv'
  OBVIOUS
<1>1. CASE UNCHANGED vars
  BY <1>1 DEF vars, IInv, WorldOK, WorldTypeOK, Sound, Fits
<1>2. CASE RunnerStep
  BY <1>2, RestartSafe, GetSafe, KeySafe, ObserveSafe, RefreshSafe, EvmReserveSafe, EvmRowSafe,
     EvmPrepareSafe, EvmSubmitSafe, EvmRecordSafe, EvmConfirmSafe, EvmSettledSafe, EvmCatchSafe,
     RevokeSafe, SolPrepareSafe, SolSubmitSafe, SolRecordSafe, SolConfirmSafe, SolDoneSafe
  DEF RunnerStep
<1> QED BY <1>1, <1>2, StartSafe, EnvironmentSafe DEF Next

LEMMA Inductive == Spec => []IInv
BY InitSafe, NextSafe, PTL DEF Spec

\* The state file, the object in memory and every local keep their types, through
\* errors, crashes and restarts; in particular no total ever becomes negative.
THEOREM TypeCorrect == Spec => []TypeOK
<1>1. IInv => TypeOK BY DEF IInv, WorldOK, Sound, Fits, TypeOK
<1> QED BY <1>1, Inductive, PTL

\* For every policy the recorded reserve, the transaction counts and the recorded
\* Solana fees stay within the caps, for any number of actions and restarts.
THEOREM PolicyRespected == Spec => []RecordedWithinPolicy
<1>1. IInv => RecordedWithinPolicy BY DEF IInv, Sound, Bounded, RecordedWithinPolicy
<1> QED BY <1>1, Inductive, PTL

(*------------------- what the state file says was spent -------------------*)
\* Two state objects that agree on the native spend and on every action's attempt.
Same(s, t) == s.spent = t.spent /\ \A a \in Actions : s.act[a].attempt = t.act[a].attempt

\* Memory and state file agree, except that after an error the catch block and the
\* recovery work with a row confirmed in memory only.
CatchPcs == {"catch", "rprepare", "rsubmit", "rconfirm"}
SpendInv ==
  /\ \A a \in Actions : mem.act[a].attempt = disk.act[a].attempt
  /\ mem.spent = disk.spent \/ (pc \in CatchPcs /\ Sent(Cur) # {})

\* The steps that confirm no row and recover nothing.
Unspending ==
  \/ Same(mem', disk') /\ (Same(disk, disk') \/ (pc \notin CatchPcs /\ Same(mem, disk')))
  \/ pc \notin CatchPcs /\ Same(mem, mem') /\ (Same(disk, disk') \/ Same(mem, disk'))
  \/ pc \in CatchPcs /\ pc' \in CatchPcs /\ Keep /\ loc'.a = loc.a
  \/ UNCHANGED <<mem, disk, pc, loc>>

LEMMA UnspendingKeeps ==
  ASSUME SpendInv, Unspending
  PROVE  SpendInv' /\ disk'.spent = disk.spent
BY DEF SpendInv, Unspending, Same, Keep, Cur, Sent

\* Changes of a state object that leave spend and attempts alone.
LEMMA SameEdits ==
  ASSUME NEW s, s \in State, NEW a \in Actions
  PROVE  /\ \A st : Same(s, [s EXCEPT !.act[a].status = st])
         /\ Same(s, LoadState(s)) /\ Same(s, ReleaseReserve(s, a)) /\ Same(s, CountUp(s))
         /\ \A k : Same(s, [s EXCEPT !.srcKey[a] = k])
         /\ \A k, i : Same(s, [s EXCEPT !.outKey[i] = k])
         /\ Same(s, [s EXCEPT !.status = "complete"])
BY DEF Same, State, ActionRec, LoadState, ReleaseReserve, CountUp

LEMMA SameActionEdits ==
  ASSUME NEW s, s \in State, loc.a \in Actions
  PROVE  /\ Same(s, ActionState(s)) /\ \A r : Same(s, ReserveFor(s, r))
         /\ Same(s, Announce(s)) /\ Same(s, RecordHash(s))
         /\ Same(s, ReleaseUnsubmitted(s)) /\ Same(s, OutcomeUnknown(s))
BY DEF Same, State, ActionRec, ActionState, ReserveFor, Announce, RecordHash,
       ReleaseUnsubmitted, OutcomeUnknown

LEMMA SameSelf == ASSUME NEW s PROVE Same(s, s)
BY DEF Same

LEMMA StopUnspending == Stop(disk) => Unspending
BY SameSelf DEF Stop, Unspending

LEMMA LoopUnspending ==
  ASSUME IInv, \/ Start \/ ReleaseOne \/ Restarted \/ GiveUp \/ Asleep \/ GetComplete
               \/ GetPending \/ GetInFlight \/ GetUnsupported \/ GetShort \/ GetExpired \/ GetReady
  PROVE  Unspending
<1>1. mem \in State /\ disk \in State BY DEF IInv, Sound
<1>2. pc \notin CatchPcs
  BY DEF CatchPcs, Start, ReleaseOne, Restarted, GiveUp, Asleep, GetComplete, GetPending,
         GetInFlight, GetUnsupported, GetShort, GetExpired, GetReady, Looking
<1>3. CASE Start
  <2>1. 1 \in Actions BY Sizes DEF Actions
  <2>2. Same(disk, LoadState(disk)) BY <1>1, <2>1, SameEdits
  <2> QED BY <1>3, <2>2, SameSelf DEF Start, Write, Unspending
<1>4. CASE ReleaseOne
  <2>1. PICK a \in Actions : Stop(disk) \/ (mem' = ReleaseReserve(mem, a) /\ UNCHANGED disk)
    BY <1>4 DEF ReleaseOne, Settled
  <2>2. Same(mem, ReleaseReserve(mem, a)) BY <1>1, SameEdits
  <2> QED BY <1>2, <2>1, <2>2, StopUnspending, SameSelf DEF Unspending
<1>5. CASE Restarted
  BY <1>2, <1>5, SameSelf DEF Restarted, Stop, Write, Unspending
<1>6. CASE GetComplete
  <2>1. 1 \in Actions BY Sizes DEF Actions
  <2>2. Same(mem, [mem EXCEPT !.status = "complete"]) BY <1>1, <2>1, SameEdits
  <2> QED BY <1>2, <1>6, <2>2, SameSelf, StopUnspending DEF GetComplete, Stop, Unspending
<1>7. CASE GiveUp \/ GetUnsupported
  BY <1>7, StopUnspending DEF GiveUp, GetUnsupported
<1>8. CASE Asleep \/ GetPending \/ GetInFlight \/ GetShort \/ GetExpired \/ GetReady
  <2>1. Keep
    <3>1. GetPending => Keep
      <4>1. ASSUME NEW a \in Actions, ToKey("source", a) PROVE Keep BY <4>1 DEF ToKey
      <4> QED BY <4>1 DEF GetPending
    <3>2. GetInFlight \/ GetExpired => Keep BY DEF GetInFlight, GetExpired, ToKey
    <3>3. Asleep \/ GetShort \/ GetReady => Keep BY DEF Asleep, GetShort, GetReady
    <3> QED BY <1>8, <3>1, <3>2, <3>3
  <2> QED BY <1>2, <2>1, SameSelf DEF Keep, Unspending
<1> QED BY <1>3, <1>4, <1>5, <1>6, <1>7, <1>8

LEMMA CallsUnspending ==
  ASSUME IInv, NextOperation \/ StoreKey \/ ObserveSource \/ ObserveOutput \/ Refresh
  PROVE  Unspending
<1>1. mem \in State /\ disk \in State BY DEF IInv, Sound
<1>2. pc \notin CatchPcs
  BY DEF CatchPcs, NextOperation, StoreKey, ObserveSource, ObserveOutput, Refresh
<1>3. Keep => Unspending BY <1>2, SameSelf DEF Keep, Unspending
<1>4. ASSUME NEW s, Same(mem, s), Write(s) PROVE Unspending
  BY <1>2, <1>4, SameSelf DEF Write, Unspending
<1>5. CASE NextOperation
  <2>1. 1 \in Actions BY Sizes DEF Actions
  <2>2. Same(mem, CountUp(mem)) BY <1>1, <2>1, SameEdits
  <2>3. Keep \/ Write(CountUp(mem)) \/ Stop(disk) BY <1>5 DEF NextOperation
  <2> QED BY <1>3, <1>4, <2>2, <2>3, StopUnspending
<1>6. CASE StoreKey
  <2>1. pc = "store" BY <1>6 DEF StoreKey
  <2>2. CASE loc.op = "source"
    <3>1. loc.a \in Actions BY <2>1, <2>2 DEF IInv, Fits
    <3>2. Same(mem, [mem EXCEPT !.srcKey[loc.a] = loc.key]) BY <1>1, <3>1, SameEdits
    <3> QED BY <1>4, <1>6, <2>2, <3>2 DEF StoreKey
  <2>3. CASE loc.op # "source"
    <3>1. 1 \in Actions BY Sizes DEF Actions
    <3>2. Same(mem, [mem EXCEPT !.outKey[loc.step] = loc.key]) BY <1>1, <3>1, SameEdits
    <3> QED BY <1>4, <1>6, <2>3, <3>2 DEF StoreKey
  <2> QED BY <2>2, <2>3
<1>7. CASE ObserveSource
  <2>1. loc.a \in Actions BY <1>7 DEF ObserveSource, IInv, Fits, ActionPcs
  <2>2. Same(mem, [mem EXCEPT !.act[loc.a].status = "observed"]) BY <1>1, <2>1, SameEdits
  <2>3. Write([mem EXCEPT !.act[loc.a].status = "observed"]) \/ Keep \/ Stop(disk)
    BY <1>7 DEF ObserveSource
  <2> QED BY <1>3, <1>4, <2>2, <2>3, StopUnspending
<1>8. CASE ObserveOutput \/ Refresh
  <2>1. Keep \/ Stop(disk) BY <1>8 DEF ObserveOutput, Refresh
  <2> QED BY <1>3, <2>1, StopUnspending
<1> QED BY <1>5, <1>6, <1>7, <1>8

LEMMA PrepareUnspending == IInv /\ EvmPrepare => pc = "prepare" /\ Unspending
<1> SUFFICES ASSUME IInv, EvmPrepare PROVE pc = "prepare" /\ Unspending
  OBVIOUS
<1>1. pc = "prepare" BY DEF EvmPrepare
<1>2. mem \in State /\ loc.a \in Actions BY <1>1, Inside DEF Sound, ActionPcs
<1>3. Same(mem, Announce(mem)) BY <1>2, SameActionEdits
<1>4. ASSUME Keep, Goto("catch") PROVE Unspending
  BY <1>1, <1>4, SameSelf DEF Keep, CatchPcs, Unspending
<1>5. ASSUME NEW gas \in 1 .. GasCap[loc.idx], TxFits(mem),
             NEW l, l = [loc EXCEPT !.gas = gas, !.tried = TRUE],
             \/ Write(Announce(mem)) /\ pc' = "submit" /\ loc' = l
             \/ SaveFails(Announce(mem), l)
      PROVE  Unspending
  BY <1>1, <1>3, <1>5, SameSelf DEF Write, SaveFails, CatchPcs, Unspending
<1>6. Unspending BY <1>4, <1>5 DEF EvmPrepare
<1> QED BY <1>1, <1>6

LEMMA SolConfirmUnspending == IInv /\ SolConfirm => pc = "sconfirm" /\ Unspending
<1> SUFFICES ASSUME IInv, SolConfirm PROVE pc = "sconfirm" /\ Unspending
  OBVIOUS
<1>1. pc = "sconfirm" BY DEF SolConfirm
<1>2. mem \in State /\ loc.a \in Actions BY <1>1, Inside DEF Sound, ActionPcs
<1>3. Stop(disk) => Unspending BY StopUnspending
<1>4. ASSUME NEW k \in Receipts(0), NEW t,
             t = [mem EXCEPT !.act[loc.a].item[0] = "done", !.sol = @ + chain[k].fee],
             ~(t.sol > SolCap), Write(t), Goto("sdone")
      PROVE  Unspending
  <2>1. Same(mem, t) BY <1>2, <1>4 DEF Same, State, ActionRec
  <2> QED BY <1>1, <1>4, <2>1, SameSelf DEF Write, CatchPcs, Unspending
<1>5. Unspending BY <1>3, <1>4 DEF SolConfirm
<1> QED BY <1>1, <1>5

LEMMA EvmUnspending ==
  ASSUME IInv, \/ EvmReserve \/ EvmRow \/ EvmPrepare \/ EvmSubmit \/ EvmRecord \/ EvmSettled
  PROVE  Unspending
<1>1. mem \in State /\ disk \in State BY DEF IInv, Sound
<1>2. pc \notin CatchPcs /\ loc.a \in Actions
  <2>1. pc \in {"evm", "rows", "prepare", "submit", "record", "settle"}
    <3>1. EvmReserve \/ EvmRow => pc \in {"evm", "rows"} BY DEF EvmReserve, EvmRow
    <3>2. EvmPrepare => pc = "prepare" BY PrepareUnspending
    <3>3. EvmSubmit \/ EvmRecord => pc \in {"submit", "record"} BY DEF EvmSubmit, EvmRecord
    <3>4. EvmSettled => pc = "settle" BY DEF EvmSettled
    <3> QED BY <3>1, <3>2, <3>3, <3>4
  <2> QED BY <2>1, Inside DEF CatchPcs, ActionPcs
<1>3. Keep => Unspending BY <1>2, SameSelf DEF Keep, Unspending
<1>4. ASSUME NEW s, Same(mem, s), Write(s) \/ (mem' = s /\ disk' \in {disk, s})
      PROVE  Unspending
  BY <1>2, <1>4, SameSelf DEF Write, Unspending
<1>5. CASE EvmReserve
  <2>1. PICK s : s = ActionState(mem) OBVIOUS
  <2>2. Same(mem, s) /\ s \in State
    <3>1. Sound(ActionState(mem)) BY <1>2, Inside, ActionStateSound DEF IInv
    <3> QED BY <1>1, <1>2, <2>1, <3>1, SameActionEdits DEF Sound
  <2>3. Same(s, ReserveFor(s, StepReserve[loc.step])) BY <1>2, <2>2, SameActionEdits
  <2>4. Same(mem, ReserveFor(s, StepReserve[loc.step])) BY <2>2, <2>3 DEF Same
  <2>5. Stop(disk) \/ Write(s) \/ Write(ReserveFor(s, StepReserve[loc.step]))
    BY <1>5, <2>1 DEF EvmReserve
  <2> QED BY <1>4, <2>2, <2>4, <2>5, StopUnspending
<1>6. CASE EvmRow
  <2>1. Same(mem, [mem EXCEPT !.act[loc.a].status = "confirmed"]) BY <1>1, <1>2, SameEdits
  <2>2. Keep \/ (mem' = [mem EXCEPT !.act[loc.a].status = "confirmed"] /\ UNCHANGED disk)
    BY <1>6 DEF EvmRow
  <2> QED BY <1>3, <1>4, <2>1, <2>2
<1>7. CASE EvmPrepare BY <1>7, PrepareUnspending
<1>8. CASE EvmRecord
  <2>1. Same(mem, RecordHash(mem)) BY <1>1, <1>2, SameActionEdits
  <2>2. Write(RecordHash(mem)) \/ (mem' = RecordHash(mem) /\ disk' \in {disk, RecordHash(mem)})
    BY <1>8 DEF EvmRecord, SaveFails
  <2> QED BY <1>4, <2>1, <2>2
<1>9. CASE EvmSubmit BY <1>3, <1>9 DEF EvmSubmit
<1>10. CASE EvmSettled BY <1>4, <1>10, SameSelf DEF EvmSettled
<1> QED BY <1>5, <1>6, <1>7, <1>8, <1>9, <1>10

LEMMA SolUnspending ==
  ASSUME IInv, SolBegin \/ SolPrepare \/ SolSubmit \/ SolRecord \/ SolConfirm \/ SolDone
  PROVE  Unspending
<1>1. mem \in State /\ disk \in State BY DEF IInv, Sound
<1>2. pc \notin CatchPcs /\ loc.a \in Actions
  <2>1. pc \in {"sol", "sprepare", "ssubmit", "srecord", "sconfirm", "sdone"}
    <3>1. SolBegin \/ SolPrepare => pc \in {"sol", "sprepare"} BY DEF SolBegin, SolPrepare
    <3>2. SolSubmit \/ SolRecord => pc \in {"ssubmit", "srecord"} BY DEF SolSubmit, SolRecord
    <3>3. SolConfirm => pc = "sconfirm" BY SolConfirmUnspending
    <3>4. SolDone => pc = "sdone" BY DEF SolDone
    <3> QED BY <3>1, <3>2, <3>3, <3>4
  <2> QED BY <2>1, Inside DEF CatchPcs, ActionPcs
<1>3. Keep => Unspending BY <1>2, SameSelf DEF Keep, Unspending
<1>4. ASSUME NEW s, Same(mem, s), Write(s) \/ (mem' = s /\ UNCHANGED disk) PROVE Unspending
  BY <1>2, <1>4, SameSelf DEF Write, Unspending
<1>5. CASE SolBegin
  <2>1. Same(mem, ActionState(mem)) BY <1>1, <1>2, SameActionEdits
  <2> QED BY <1>4, <1>5, <2>1, StopUnspending DEF SolBegin
<1>6. CASE SolPrepare
  <2>1. Write(mem) \/ Stop(disk) BY <1>6 DEF SolPrepare
  <2> QED BY <1>4, <2>1, SameSelf, StopUnspending
<1>7. CASE SolSubmit
  <2>1. Keep \/ Stop(disk) BY <1>7 DEF SolSubmit
  <2> QED BY <1>3, <2>1, StopUnspending
<1>8. CASE SolRecord
  <2>1. Same(mem, [mem EXCEPT !.act[loc.a].item[0] = "sent", !.act[loc.a].status = "submitted",
                              !.soltxs = @ + 1])
    BY <1>1, <1>2 DEF Same, State, ActionRec
  <2> QED BY <1>4, <1>8, <2>1 DEF SolRecord
<1>9. CASE SolConfirm BY <1>9, SolConfirmUnspending
<1>10. CASE SolDone
  <2>1. Same(mem, [mem EXCEPT !.act[loc.a].status = "confirmed"]) BY <1>1, <1>2, SameEdits
  <2> QED BY <1>4, <1>10, <2>1 DEF SolDone
<1> QED BY <1>5, <1>6, <1>7, <1>8, <1>9, <1>10

\* A confirmed row: the total is compared before it is saved.
LEMMA ConfirmSpends ==
  ASSUME IInv, SpendInv, EvmConfirm
  PROVE  SpendInv' /\ (disk'.spent # disk.spent => disk'.spent <= Cap)
<1>1. pc = "confirm" BY DEF EvmConfirm
<1>2. /\ mem \in State /\ disk \in State /\ loc \in Local /\ loc.a \in Actions /\ loc.idx \in Idx
      /\ mem.spent = disk.spent
  BY <1>1, Inside DEF Sound, ActionPcs, RowPcs, SpendInv, CatchPcs
<1>3. CASE Keep /\ Goto("catch")
  BY <1>1, <1>3 DEF Keep, Goto, SpendInv, CatchPcs
<1>4. ASSUME NEW k \in Receipts(loc.idx), NEW t, t = RecordActual(mem, chain[k].fee),
             IF ~SpendFits(mem, t) THEN mem' = t /\ UNCHANGED disk /\ Goto("catch")
             ELSE \/ Write(t) /\ pc' = "rows" /\ loc' = [loc EXCEPT !.idx = @ + 1]
                  \/ SaveFails(t, loc)
      PROVE  SpendInv' /\ (disk'.spent # disk.spent => disk'.spent <= Cap)
  <2>1. \A a \in Actions : t.act[a].attempt = mem.act[a].attempt
    BY <1>2, <1>4 DEF RecordActual, State, ActionRec
  <2>2. t.act[loc.a].item[loc.idx] = "done"
    BY <1>2, <1>4 DEF RecordActual, State, ActionRec
  <2>3. CASE ~SpendFits(mem, t)
    <3>1. mem' = t /\ disk' = disk /\ pc' = "catch" /\ loc' = loc BY <1>4, <2>3 DEF Goto
    <3>2. loc.idx \in Sent(Cur)' BY <1>2, <2>2, <3>1 DEF Sent, Cur
    <3> QED BY <2>1, <3>1, <3>2 DEF SpendInv, CatchPcs
  <2>4. CASE SpendFits(mem, t) /\ Write(t)
    BY <2>1, <2>4 DEF Write, SpendInv, SpendFits
  <2>5. CASE SpendFits(mem, t) /\ SaveFails(t, loc)
    <3>1. mem' = t /\ disk' \in {disk, t} /\ pc' = "catch" /\ loc' = loc BY <2>5 DEF SaveFails
    <3>2. loc.idx \in Sent(Cur)' BY <1>2, <2>2, <3>1 DEF Sent, Cur
    <3> QED BY <2>1, <2>5, <3>1, <3>2 DEF SpendInv, CatchPcs, SpendFits
  <2> QED BY <1>4, <2>3, <2>4, <2>5
<1> QED BY <1>3, <1>4 DEF EvmConfirm

\* The catch block saves what memory holds only when no row of the action is recorded.
LEMMA CatchSpends ==
  ASSUME IInv, SpendInv, EvmCatch \/ RevokePrepare \/ RevokeSubmit
  PROVE  SpendInv' /\ disk'.spent = disk.spent
<1>1. mem \in State /\ loc.a \in Actions /\ pc \in CatchPcs
  BY Inside DEF Sound, CatchPcs, ActionPcs, EvmCatch, RevokePrepare, RevokeSubmit
<1>2. Stop(disk) => SpendInv' /\ disk'.spent = disk.spent
  BY StopUnspending, UnspendingKeeps
<1>3. ASSUME Keep, pc' \in CatchPcs, loc'.a = loc.a PROVE SpendInv' /\ disk'.spent = disk.spent
  BY <1>1, <1>3, UnspendingKeeps DEF Unspending
<1>4. CASE EvmCatch
  <2>1. Keep /\ Goto("rprepare") => SpendInv' /\ disk'.spent = disk.spent
    BY <1>3 DEF Goto, CatchPcs
  <2>2. ASSUME NEW d, d = Caught(mem), Stop(d) PROVE SpendInv' /\ disk'.spent = disk.spent
    <3>1. CASE Sent(Cur) = {}
      <4>1. Same(mem, disk) BY <3>1 DEF SpendInv, Same
      <4>2. d \in {ReleaseUnsubmitted(mem), OutcomeUnknown(mem), disk} BY <2>2 DEF Caught
      <4>3. Same(disk, d) BY <1>1, <4>1, <4>2, SameActionEdits, SameSelf DEF Same
      <4> QED BY <2>2, <4>3, SameSelf, UnspendingKeeps DEF Stop, Unspending
    <3>2. CASE Sent(Cur) # {}
      <4>1. d = disk BY <2>2, <3>2 DEF Caught, NothingSubmitted, Cur
      <4> QED BY <1>2, <2>2, <4>1
    <3> QED BY <3>1, <3>2
  <2> QED BY <1>4, <2>1, <2>2 DEF EvmCatch
<1>5. CASE RevokePrepare
  <2>1. ASSUME NEW gas, Keep, pc' = "rsubmit", loc' = [loc EXCEPT !.gas = gas]
        PROVE  SpendInv' /\ disk'.spent = disk.spent
    <3>1. loc'.a = loc.a BY <2>1, Inside DEF Local
    <3> QED BY <1>3, <2>1, <3>1 DEF CatchPcs
  <2> QED BY <1>2, <1>5, <2>1 DEF RevokePrepare
<1>6. CASE RevokeSubmit
  BY <1>2, <1>3, <1>6 DEF RevokeSubmit, Goto, CatchPcs
<1> QED BY <1>4, <1>5, <1>6

\* A recorded revocation adds to the spend, and opens the next attempt.
LEMMA RecoverySpends ==
  ASSUME IInv, SpendInv, RevokeConfirm
  PROVE  /\ SpendInv'
         /\ disk'.spent # disk.spent => \E a \in Actions : disk'.act[a].attempt > disk.act[a].attempt
<1>1. mem \in State /\ disk \in State /\ loc.a \in Actions
  BY Inside DEF Sound, ActionPcs, RevokeConfirm
<1>2. CASE Stop(disk)
  BY <1>2, StopUnspending, UnspendingKeeps
<1>3. ASSUME NEW k \in Receipts(Revoke), NEW t, t = Recovered(mem, chain[k].fee), Stop(t)
      PROVE  SpendInv' /\ \E a \in Actions : disk'.act[a].attempt > disk.act[a].attempt
  <2>1. disk' = t /\ mem' = t BY <1>3 DEF Stop
  <2>2. t.act[loc.a].attempt = mem.act[loc.a].attempt + 1
    BY <1>1, <1>3 DEF Recovered, Reopened, State, ActionRec
  <2>3. mem.act[loc.a].attempt = disk.act[loc.a].attempt /\ disk.act[loc.a].attempt \in Nat
    BY <1>1 DEF SpendInv, State, ActionRec
  <2> QED BY <1>1, <2>1, <2>2, <2>3 DEF SpendInv
<1> QED BY <1>2, <1>3 DEF RevokeConfirm

LEMMA SpendStep ==
  ASSUME IInv, SpendInv, [Next]_vars
  PROVE  /\ SpendInv'
         /\ disk'.spent # disk.spent => \/ disk'.spent <= Cap
                                        \/ \E a \in Actions : disk'.act[a].attempt > disk.act[a].attempt
<1>1. Unspending => SpendInv' /\ disk'.spent = disk.spent BY UnspendingKeeps
<1>2. CASE RunnerStep
  BY <1>1, <1>2, LoopUnspending, CallsUnspending, EvmUnspending, SolUnspending, ConfirmSpends,
     CatchSpends, RecoverySpends DEF RunnerStep
<1>3. CASE Start BY <1>1, <1>3, LoopUnspending
<1>4. CASE Crash BY <1>1, <1>4, StopUnspending DEF Crash
<1>5. CASE Time \/ Mining \/ Halting \/ UNCHANGED vars
  <2>1. UNCHANGED <<mem, disk, pc, loc>> BY <1>5 DEF Time, Mining, Halting, process, vars
  <2> QED BY <1>1, <2>1 DEF Unspending
<1> QED BY <1>2, <1>3, <1>4, <1>5 DEF Next

\* For every policy and workflow, any number of attempts and restarts: no save but the one
\* of a recovery takes the recorded native spend past the policy's cap.
THEOREM OverspendRecovers == Spec => OverspendIsRecovery
<1>1. Init => SpendInv
  BY DEF Init, SpendInv
<1>2. IInv /\ SpendInv /\ [Next]_vars => SpendInv' BY SpendStep
<1>3. IInv /\ IInv' /\ SpendInv /\ [Next]_vars =>
        [disk'.spent > Cap /\ disk'.spent # disk.spent =>
           \E a \in Actions : disk'.act[a].attempt > disk.act[a].attempt]_vars
  <2> SUFFICES ASSUME IInv, IInv', SpendInv, [Next]_vars, disk'.spent > Cap,
                      disk'.spent # disk.spent
               PROVE  \E a \in Actions : disk'.act[a].attempt > disk.act[a].attempt
    OBVIOUS
  <2>1. disk'.spent \in Nat BY DEF IInv, Sound, State
  <2> QED BY <2>1, SpendStep, PolicyAssumption
<1> QED BY <1>1, <1>2, <1>3, Inductive, PTL DEF Spec, OverspendIsRecovery

LEMMA NothingNew == WorldOK /\ UNCHANGED chain => New = {}
<1> SUFFICES ASSUME WorldOK, UNCHANGED chain PROVE New = {}
  OBVIOUS
<1>1. Len(chain) \in Nat BY DEF WorldOK, WorldTypeOK
<1> QED BY <1>1 DEF New

LEMMA MiningAddsNothing == WorldOK /\ Mine => New = {}
<1> SUFFICES ASSUME WorldOK, Mine PROVE New = {}
  OBVIOUS
<1>1. chain \in Seq(Tx) BY DEF WorldOK, WorldTypeOK
<1>2. PICK k \in DOMAIN chain : \E t \in Tx : chain' = [chain EXCEPT ![k] = t]
  BY MinedRow
<1>3. Len(chain') = Len(chain) /\ Len(chain) \in Nat BY <1>1, <1>2
<1> QED BY <1>3 DEF New

\* Whatever the number of restarts, nothing is broadcast once maximum_runtime_seconds
\* have passed since the state file was created.
THEOREM RuntimeAnchored == Spec => RuntimeIsAnchored
<1>1. ASSUME IInv, [Next]_vars PROVE New # {} => now < anchor + MaxRuntime
  <2>1. WorldOK /\ mem.born = anchor BY <1>1 DEF IInv, Sound
  <2>2. UNCHANGED chain \/ Mine \/ Window(loc.exp)
    <3>1. CASE UNCHANGED vars \/ Start \/ Crash \/ Time \/ Mining \/ Halting
      BY <3>1 DEF vars, Start, world, Crash, Quiet, Time, Tick, Mining, Halting, Halt
    <3>2. CASE EvmSubmit \/ RevokeSubmit \/ SolSubmit
      BY <3>2 DEF EvmSubmit, RevokeSubmit, SolSubmit, Send
    <3>3. CASE ObserveSource \/ ObserveOutput \/ Refresh
      BY <3>3 DEF ObserveSource, ObserveOutput, Refresh, OnlySrv
    <3>4. CASE RunnerStep /\ Quiet BY <3>4 DEF Quiet
    <3>5. RunnerStep => \/ Quiet \/ EvmSubmit \/ RevokeSubmit \/ SolSubmit
                        \/ ObserveSource \/ ObserveOutput \/ Refresh
      BY DEF RunnerStep, ReleaseOne, Restarted, GiveUp, Asleep, Looking, GetComplete, GetPending,
             GetInFlight, GetUnsupported, GetShort, GetExpired, GetReady, NextOperation, StoreKey,
             EvmReserve, EvmRow, EvmPrepare, EvmRecord, EvmConfirm, EvmSettled, EvmCatch,
             RevokePrepare, RevokeConfirm, SolBegin, SolPrepare, SolRecord, SolConfirm, SolDone
    <3> QED BY <1>1, <3>1, <3>2, <3>3, <3>4, <3>5 DEF Next
  <2>3. Window(loc.exp) => now < anchor + MaxRuntime BY <2>1 DEF Window
  <2> QED BY <2>1, <2>2, <2>3, NothingNew, MiningAddsNothing
<1>2. IInv /\ [Next]_vars => [New # {} => now < anchor + MaxRuntime]_vars BY <1>1
<1> QED BY <1>2, Inductive, PTL DEF RuntimeIsAnchored, Spec
=============================================================================
