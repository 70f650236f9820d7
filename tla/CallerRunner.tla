---------------------------- MODULE CallerRunner ----------------------------
(***************************************************************************)
(* runCallerOwnedSession of src/caller-runner.js: one runner process, its  *)
(* durable state file, and its restarts after errors and crashes.          *)
(*                                                                         *)
(* disk is the state file and mem the object the process works on.         *)
(* saveState is atomic (write, fsync, rename), so disk changes only to the *)
(* value of mem.  Every await of the code, and every point between two     *)
(* saves, is a program point of its own: the clock, the chains, the        *)
(* service and a crash may interleave there.                               *)
(***************************************************************************)
EXTENDS RunnerWorld

CONSTANTS MaxRuns,     \* bound on the invocations of the runner
          MaxKeys      \* bound on the idempotency keys it mints

ASSUME BoundAssumption == MaxRuns \in Nat /\ MaxKeys \in Nat

VARIABLES
  disk,    \* the state file
  mem,     \* the state object of the running process
  pc,      \* where the process awaits, "idle" when no process runs
  loc,     \* its local variables
  runs,    \* invocations so far
  anchor   \* history: when the state file was created

vars == <<now, srv, chain, disk, mem, pc, loc, runs, anchor>>

Released  == "pre_submission_failed_reservation_released"
Retryable == "retryable_after_approval_recovery"
Unknown   == "submission_outcome_unknown"
Attempted == "submission_attempted"

Status == {"absent", "ready", Attempted, Unknown, "submitted", "confirmed",
           "observed", Released, Retryable}

\* paid sums protocol_value_wei (known at submission) and actual_fee_wei (known
\* at confirmation) over the rows; reserve = 0 when none is recorded.
ActionRec == [status : Status, step : Steps, attempt : Nat, paid : Nat, reserve : Nat,
              item : [Idx -> {"none", "sent", "done"}]]

State == [status : {"none", "running", "complete"}, born : Nat, ctr : Nat,
          act : [Actions -> ActionRec], resv : Nat, spent : Nat, txs : Nat,
          sol : Nat, soltxs : Nat,
          srcKey : [Actions -> Nat], outKey : [Steps -> Nat]]

Pcs == {"idle", "restart", "top", "sleep", "key", "store", "source", "output", "refresh",
        "evm", "rows", "prepare", "submit", "record", "confirm", "settle", "catch",
        "rprepare", "rsubmit", "rconfirm",
        "sol", "sprepare", "ssubmit", "srecord", "sconfirm", "sdone"}

Local == [a : Actions \union {NoAct}, step : Steps, exp : Nat, idx : Nat,
          gas : Nat, tried : BOOLEAN, op : {"source", "output", "refresh"},
          key : Nat, wake : Nat]

TypeOK ==
  /\ WorldTypeOK
  /\ disk \in State /\ mem \in State /\ pc \in Pcs /\ loc \in Local
  /\ runs \in Nat /\ anchor \in Nat

NoRows   == [i \in Idx |-> "none"]
NoAction == [status |-> "absent", step |-> 0, attempt |-> 1, paid |-> 0,
             reserve |-> 0, item |-> NoRows]
NoLocals == [a |-> NoAct, step |-> 0, exp |-> 0, idx |-> 0, gas |-> 0,
             tried |-> FALSE, op |-> "source", key |-> 0, wake |-> 0]

\* No state file yet.
InitialState == [status |-> "none", born |-> 0, ctr |-> 0,
                 act |-> [a \in Actions |-> NoAction], resv |-> 0, spent |-> 0,
                 txs |-> 0, sol |-> 0, soltxs |-> 0,
                 srcKey |-> [a \in Actions |-> 0], outKey |-> [s \in Steps |-> 0]]

Init ==
  /\ WorldInit
  /\ disk = InitialState /\ mem = InitialState
  /\ pc = "idle" /\ loc = NoLocals /\ runs = 0 /\ anchor = 0

(*------------------------------- plumbing ------------------------------*)
Cur  == mem.act[loc.a]
Sent(act) == {i \in Idx : act.item[i] # "none"}
PendingSubmitted(act, s) ==  \* mutant: a confirmed action is not waited for
  act.step = s /\ act.status = "submitted" /\ Sent(act) # {}
Pending(act, s) ==
  act.step = s /\ act.status \in {"submitted", "confirmed"} /\ Sent(act) # {}

Write(s) == mem' = s /\ disk' = s            \* change the state and saveState
Keep     == UNCHANGED <<mem, disk>>
Goto(p)  == pc' = p /\ UNCHANGED loc
Quiet    == UNCHANGED <<now, srv, chain, runs, anchor>>
OnlySrv  == UNCHANGED <<now, chain, runs, anchor>>
OnlyNet  == UNCHANGED <<now, srv, runs, anchor>>

\* The process ends (an error it throws, or its result); unsaved state is lost.
Stop(durable) == /\ pc' = "idle" /\ loc' = NoLocals
                 /\ disk' = durable /\ mem' = durable

\* The for-loop's continue.
Again         == pc' = "top" /\ loc' = NoLocals
\* A sleep that would outlast the bounded clock ends with it.
SleepUntil(t) ==
  pc' = "sleep" /\ loc' = [NoLocals EXCEPT !.wake = IF t > MaxTime THEN MaxTime ELSE t]

\* assertExecutionWindow; the adapter repeats it before it signs.
Window(exp) == /\ now < AuthExpiry
               /\ now < mem.born + MaxRuntime
               /\ exp - now >= MinSubmit

\* validateConfirmation: a successful receipt of this attempt's row i.
AnyReceipt(i) == {k \in TxOf(loc.a, Cur.attempt, i) : chain[k].st # "pending"}  \* mutant
Receipts(i)   == {k \in TxOf(loc.a, Cur.attempt, i) : chain[k].st = "ok"}

\* policy caps the code compares against before it submits or reserves
ReserveAlone(s, r)  == r <= Cap          \* mutant: earlier reserves forgotten
ReserveFits(s, r) == s.resv + r <= Cap
TxFits(s)         == s.txs + 1 <= MaxTx
SolTxAtLimit(s)     == s.soltxs <= SolMaxTx  \* mutant: off by one
SolTxFits(s)      == s.soltxs + 1 <= SolMaxTx

(*------------------- start, and releasing settled reserves -------------------*)
\* loadState: the state file is created once and read back by later invocations.
LoadStateAfresh(file) ==  \* mutant: each run restarts the window
  [file EXCEPT !.status = IF @ = "none" THEN "running" ELSE @, !.born = now]
LoadState(file) ==
  IF file.status = "none" THEN [file EXCEPT !.status = "running", !.born = now] ELSE file

Start ==
  /\ pc = "idle" /\ runs < MaxRuns /\ now < AuthExpiry
  /\ Write(LoadState(disk))
  /\ anchor' = IF disk.status = "none" THEN now ELSE anchor
  /\ runs' = runs + 1
  /\ Goto("restart") /\ UNCHANGED world

\* releaseConfirmedEvmReserves: a settled action gives its reserve back and is
\* charged what its recorded rows cost.
Settled(s) == {a \in Actions : /\ s.act[a].status \in {"confirmed", "observed"}
                               /\ s.act[a].reserve > 0}
ReleasePaidTwice(s, a) ==  \* mutant: the actual cost is subtracted too
  [s EXCEPT !.resv = @ - s.act[a].reserve - s.act[a].paid, !.act[a].reserve = 0]
ReleaseReserve(s, a) == [s EXCEPT !.resv = @ - s.act[a].reserve + s.act[a].paid,
                                  !.act[a].reserve = 0]

ReleaseOne ==
  /\ pc \in {"restart", "settle"}
  /\ \E a \in Settled(mem) :
       IF mem.resv < mem.act[a].reserve \/ mem.act[a].paid > mem.act[a].reserve
       THEN Stop(disk)
       ELSE mem' = ReleaseReserve(mem, a) /\ UNCHANGED <<disk, pc, loc>>
  /\ Quiet

Restarted ==
  /\ pc = "restart" /\ Settled(mem) = {}
  /\ IF mem.status = "complete" THEN Stop(mem) ELSE Write(mem) /\ Again
  /\ Quiet

(*------------------------------ the main loop ------------------------------*)
NoDeadline  == TRUE      \* mutant: the runtime is not checked
MayContinue == now - mem.born <= MaxRuntime

\* The runtime is over, the 256 iterations are used up, or the get call or the
\* validation of its handoff throws.
GiveUp == pc = "top" /\ Stop(disk) /\ Quiet

Asleep == pc = "sleep" /\ now >= loc.wake /\ Keep /\ Again /\ Quiet

Looking == pc = "top" /\ MayContinue /\ Quiet
ToKey(op, a) ==
  Keep /\ pc' = "key" /\ loc' = [NoLocals EXCEPT !.op = op, !.a = a, !.step = srv.step]
NonePending == \A a \in Actions : ~Pending(mem.act[a], srv.step)

GetComplete ==
  /\ Looking /\ srv.phase = "complete"
  /\ Stop(IF srv.enough THEN [mem EXCEPT !.status = "complete"] ELSE disk)

GetPending ==
  /\ Looking /\ srv.phase # "complete"
  /\ \E a \in Actions : Pending(mem.act[a], srv.step) /\ ToKey("source", a)

GetInFlight == Looking /\ NonePending /\ srv.phase = "flight" /\ ToKey("output", NoAct)

GetUnsupported == Looking /\ NonePending /\ srv.phase = "halted" /\ Stop(disk)

\* A live action with too little time left is waited out, never replaced.
GetShort ==
  /\ Looking /\ NonePending /\ srv.phase = "ready"
  /\ srv.exp - now > 0 /\ srv.exp - now < MinAction
  /\ Keep /\ SleepUntil(srv.exp + 1)

GetExpired == Looking /\ NonePending /\ Refreshable /\ ToKey("refresh", NoAct)

Execute(r) ==
  /\ pc' = IF Family[r.step] = "evm" THEN "evm" ELSE "sol"
  /\ loc' = [NoLocals EXCEPT !.a = r.a, !.step = r.step, !.exp = r.exp]

GetReady ==
  /\ Looking /\ NonePending /\ srv.phase = "ready" /\ srv.exp - now >= MinAction
  /\ Keep /\ Execute(srv)

(*-------------------- idempotency keys and session calls --------------------*)
FreshKey == 0            \* mutant: a retry mints a new key
KnownKey == CASE loc.op = "source" -> mem.srcKey[loc.a]
              [] loc.op = "output" -> mem.outKey[loc.step]
              [] OTHER -> 0

\* nextOperation: the counter is durable before the key is used or recorded.
CountUp(s) == [s EXCEPT !.ctr = @ + 1]
NextOperation ==
  /\ pc = "key" /\ Quiet
  /\ \/ KnownKey # 0 /\ Keep /\ pc' = "store" /\ loc' = [loc EXCEPT !.key = KnownKey]
     \/ /\ KnownKey = 0 /\ mem.ctr < MaxKeys
        /\ Write(CountUp(mem))
        /\ pc' = IF loc.op = "refresh" THEN "refresh" ELSE "store"
        /\ loc' = [loc EXCEPT !.key = mem.ctr + 1]
     \/ KnownKey = 0 /\ mem.ctr >= MaxKeys /\ Stop(disk)

StoreKey ==
  /\ pc = "store" /\ Quiet
  /\ Write(IF loc.op = "source" THEN [mem EXCEPT !.srcKey[loc.a] = loc.key]
                                ELSE [mem EXCEPT !.outKey[loc.step] = loc.key])
  /\ Goto(loc.op)

\* The call reaches the service, or is lost on the way.
Delivered(a, n) == [srv EXCEPT !.log = Logged(loc.key, loc.op, loc.step, a, n)]
SourceEffect ==
  LET n == Cardinality(Sent(Cur)) r == Delivered(loc.a, n)
  IN  IF SourceFresh(loc.a, Cur.attempt, n)
      THEN {[r EXCEPT !.phase = "flight", !.obs = loc.a]} \union NextStep(r) ELSE {r}

ObserveSource ==
  /\ pc = "source" /\ OnlySrv
  /\ \/ /\ \/ SourceFresh(loc.a, Cur.attempt, Cardinality(Sent(Cur)))
           \/ SourceReplay(loc.a)
        /\ srv' \in SourceEffect
        /\ Write([mem EXCEPT !.act[loc.a].status = "observed"]) /\ Again
     \/ srv' \in SourceEffect \union {srv} /\ Keep /\ SleepUntil(now + 1)
     \/ srv' \in SourceEffect \union {srv} /\ Stop(disk)

OutputEffect ==
  LET r == Delivered(NoAct, 0)
  IN  {r} \union (IF srv.phase = "flight" THEN NextStep(r) ELSE {})

\* After an error the session is read again: if it moved on the error is ignored.
ObserveOutput ==
  /\ pc = "output" /\ OnlySrv
  /\ \/ srv.phase = "flight" /\ srv' \in OutputEffect /\ Keep /\ Again
     \/ /\ srv' \in OutputEffect \union {srv} /\ Keep
        /\ IF srv'.phase = "flight" THEN SleepUntil(now + 1) ELSE Again
     \/ srv' \in OutputEffect \union {srv} /\ Stop(disk)

\* The replaced instance of the action is identified by its expiry.
Refresh ==
  LET r == Delivered(srv.a, srv.exp) IN
  /\ pc = "refresh" /\ OnlySrv
  /\ \/ /\ Refreshable /\ srv' \in Refreshed(r)
        /\ IF Ttl >= MinAction THEN Keep /\ Execute(srv') ELSE Stop(disk)
     \/ /\ Refreshable /\ srv' = [r EXCEPT !.phase = "build", !.a = NoAct]
        /\ Keep /\ Again
     \/ /\ srv' \in {srv, r} \union (IF Refreshable THEN Refreshed(r) ELSE {})
        /\ Stop(disk)

(*-------------------------------- executeEvm --------------------------------*)
ActionState(s) == IF s.act[loc.a].status # "absent" THEN s
                  ELSE [s EXCEPT !.act[loc.a].status = "ready", !.act[loc.a].step = loc.step]

ReserveFor(s, r) == [s EXCEPT !.resv = @ + r, !.act[loc.a].reserve = r]

\* The worst case is reserved durably before the first request is prepared; a
\* resumed action keeps the reserve it has.
EvmReserve ==
  LET r == StepReserve[loc.step] IN
  /\ pc = "evm" /\ Quiet
  /\ IF r > Cap \/ (Cur.reserve = 0 /\ ~ReserveFits(mem, r)) THEN Stop(disk)
     ELSE /\ Write(IF Cur.reserve = 0 THEN ReserveFor(ActionState(mem), r) ELSE ActionState(mem))
          /\ Goto("rows")

\* The loop over the rows: skip confirmed ones, confirm submitted ones, and ask
\* the adapter to prepare the first one not submitted yet.
EvmRow ==
  /\ pc = "rows" /\ Quiet
  /\ IF loc.idx = Rows[loc.step]
     THEN /\ mem' = [mem EXCEPT !.act[loc.a].status = "confirmed"]
          /\ UNCHANGED disk /\ Goto("settle")
     ELSE /\ Keep
          /\ CASE Cur.item[loc.idx] = "done" -> pc' = pc /\ loc' = [loc EXCEPT !.idx = @ + 1]
               [] Cur.item[loc.idx] = "sent" -> Goto("confirm")
               [] OTHER -> Goto(IF Window(loc.exp) THEN "prepare" ELSE "catch")

\* saveState throws inside executeEvm's try, before or after its rename: the catch
\* block goes on with what memory holds.
SaveFails(s, l) == mem' = s /\ disk' \in {disk, s} /\ pc' = "catch" /\ loc' = l

\* After the simulation the caps and the window are checked again and the
\* attempt is announced in the state file.
AnnounceNothing(s) == s   \* mutant: the attempt is not announced
Announce(s) == [s EXCEPT !.act[loc.a].status = Attempted]
EvmPrepare ==
  /\ pc = "prepare" /\ Quiet
  /\ \/ Keep /\ Goto("catch")
     \/ \E gas \in 1 .. GasCap[loc.idx] :
          LET l == [loc EXCEPT !.gas = gas, !.tried = TRUE] IN
          IF TxFits(mem) /\ Window(loc.exp)
          THEN \/ Write(Announce(mem)) /\ pc' = "submit" /\ loc' = l
               \/ SaveFails(Announce(mem), l)
          ELSE Keep /\ Goto("catch")

Send(i) == Window(loc.exp) /\ Broadcast(loc.a, Cur.attempt, loc.step, i, loc.gas)

\* The adapter call returns a hash, or throws whether or not it has broadcast.
EvmSubmit ==
  /\ pc = "submit" /\ Keep /\ OnlyNet
  /\ \/ Send(loc.idx) /\ Goto("record")
     \/ (Send(loc.idx) \/ UNCHANGED chain) /\ Goto("catch")

RecordHash(s) == [s EXCEPT !.act[loc.a].item[loc.idx] = "sent",
                           !.act[loc.a].paid = @ + Value[loc.step][loc.idx],
                           !.act[loc.a].status = "submitted", !.txs = @ + 1]
EvmRecord ==
  /\ pc = "record" /\ Quiet
  /\ \/ Write(RecordHash(mem)) /\ Goto("confirm")
     \/ SaveFails(RecordHash(mem), loc)

RecordUnmarked(s, fee) ==  \* mutant: the row is not marked confirmed
  [s EXCEPT !.act[loc.a].paid = @ + fee, !.spent = @ + fee + Value[loc.step][loc.idx]]
RecordActual(s, fee) ==
  [s EXCEPT !.act[loc.a].item[loc.idx] = "done", !.act[loc.a].paid = @ + fee,
            !.spent = @ + fee + Value[loc.step][loc.idx]]

\* A total above the cap throws after mem has changed and before it is saved.
SpendFitted(s, t) == s.spent <= Cap   \* mutant: the total before this row is compared
SpendFits(s, t)   == t.spent <= Cap
EvmConfirm ==
  /\ pc = "confirm" /\ Quiet
  /\ \/ Keep /\ Goto("catch")
     \/ \E k \in Receipts(loc.idx) :
          LET s == RecordActual(mem, chain[k].fee) IN
          IF ~SpendFits(mem, s) THEN mem' = s /\ UNCHANGED disk /\ Goto("catch")
          ELSE \/ Write(s) /\ pc' = "rows" /\ loc' = [loc EXCEPT !.idx = @ + 1]
               \/ SaveFails(s, loc)

EvmSettled == pc = "settle" /\ Settled(mem) = {} /\ Write(mem) /\ Quiet
              /\ pc' = "key" /\ loc' = [NoLocals EXCEPT !.op = "source", !.a = loc.a, !.step = loc.step]

(*--------------------- executeEvm's catch and the recovery ---------------------*)
ApprovalDone(act)   == act.item[0] = "done"
DownstreamSent(act) == \E i \in Sent(act) : i > 0

\* Nothing of this action is known to be submitted by this run or recorded.
ReleaseForgotten(s) ==    \* mutant: the total keeps the released reserve
  [s EXCEPT !.act[loc.a].reserve = 0, !.act[loc.a].status = Released]
ReleaseUnsubmitted(s) ==
  [s EXCEPT !.resv = @ - s.act[loc.a].reserve, !.act[loc.a].reserve = 0,
            !.act[loc.a].status = Released]
OutcomeUnknown(s) == [s EXCEPT !.act[loc.a].status = Unknown]

NothingSubmitted(act) == ~loc.tried /\ Sent(act) = {} /\ act.reserve > 0

\* What the catch block leaves in the state file.
Caught(s) ==
  CASE NothingSubmitted(s.act[loc.a]) /\ s.resv >= s.act[loc.a].reserve -> ReleaseUnsubmitted(s)
    [] loc.tried /\ Sent(s.act[loc.a]) = {} -> OutcomeUnknown(s)
    [] OTHER -> disk

NeedsRecovery(act) == NeedsApproval[loc.step] /\ ApprovalDone(act) /\ ~DownstreamSent(act)

EvmCatch ==
  /\ pc = "catch" /\ Quiet
  /\ IF NeedsRecovery(Cur) /\ TxFits(mem) /\ Window(loc.exp)
     THEN Keep /\ Goto("rprepare")
     ELSE Stop(Caught(mem))

RevokePrepare ==
  /\ pc = "rprepare" /\ Quiet
  /\ \/ Stop(disk)
     \/ \E gas \in 1 .. RecoveryGas :
          Window(loc.exp) /\ Keep /\ pc' = "rsubmit" /\ loc' = [loc EXCEPT !.gas = gas]

RevokeSubmit ==
  /\ pc = "rsubmit" /\ OnlyNet
  /\ \/ Send(Revoke) /\ Keep /\ Goto("rconfirm")
     \/ (Send(Revoke) \/ UNCHANGED chain) /\ Stop(disk)

\* A confirmed zero allowance clears the rows and opens the next attempt.
Reopened(act) == [act EXCEPT !.attempt = @ + 1, !.item = NoRows, !.paid = 0, !.status = Retryable]
Recovered(s, fee) ==
  [s EXCEPT !.txs = @ + 1, !.spent = @ + fee, !.act[loc.a] = Reopened(@)]

RevokeConfirm ==
  /\ pc = "rconfirm" /\ Quiet
  /\ \/ Stop(disk)
     \/ \E k \in Receipts(Revoke) : Stop(Recovered(mem, chain[k].fee))

(*------------------------------- executeSolana -------------------------------*)
SolBegin ==
  /\ pc = "sol" /\ Quiet
  /\ IF Cur.item[0] # "none"
     THEN mem' = ActionState(mem) /\ UNCHANGED disk
          /\ Goto(IF Cur.item[0] = "done" THEN "sdone" ELSE "sconfirm")
     ELSE IF Window(loc.exp) THEN mem' = ActionState(mem) /\ UNCHANGED disk /\ Goto("sprepare")
          ELSE Stop(disk)

SolPrepare ==
  /\ pc = "sprepare" /\ Quiet
  /\ \/ Stop(disk)
     \/ \E quote \in SolQuotes :
          IF mem.sol + quote <= SolCap /\ SolTxFits(mem) /\ Window(loc.exp)
          THEN Write(mem) /\ pc' = "ssubmit" /\ loc' = [loc EXCEPT !.gas = quote]
          ELSE Stop(disk)

SolSubmit ==
  /\ pc = "ssubmit" /\ OnlyNet
  /\ \/ Send(0) /\ Keep /\ Goto("srecord")
     \/ (Send(0) \/ UNCHANGED chain) /\ Stop(disk)

SolRecord ==
  /\ pc = "srecord" /\ Quiet
  /\ Write([mem EXCEPT !.act[loc.a].item[0] = "sent", !.act[loc.a].status = "submitted",
                       !.soltxs = @ + 1])
  /\ Goto("sconfirm")

SolConfirm ==
  /\ pc = "sconfirm" /\ Quiet
  /\ \/ Stop(disk)
     \/ \E k \in Receipts(0) :
          LET s == [mem EXCEPT !.act[loc.a].item[0] = "done", !.sol = @ + chain[k].fee] IN
          IF s.sol > SolCap THEN Stop(disk) ELSE Write(s) /\ Goto("sdone")

SolDone ==
  /\ pc = "sdone" /\ Quiet
  /\ Write([mem EXCEPT !.act[loc.a].status = "confirmed"])
  /\ pc' = "key" /\ loc' = [NoLocals EXCEPT !.op = "source", !.a = loc.a, !.step = loc.step]

(*------------------------------ the specification ------------------------------*)
\* The process is killed: everything not saved is lost.
Crash == pc # "idle" /\ Stop(disk) /\ Quiet

RunnerStep ==
  \/ ReleaseOne \/ Restarted \/ GiveUp \/ Asleep
  \/ GetComplete \/ GetPending \/ GetInFlight \/ GetUnsupported \/ GetShort \/ GetExpired
  \/ GetReady \/ NextOperation \/ StoreKey \/ ObserveSource \/ ObserveOutput \/ Refresh
  \/ EvmReserve \/ EvmRow \/ EvmPrepare \/ EvmSubmit \/ EvmRecord \/ EvmConfirm \/ EvmSettled
  \/ EvmCatch \/ RevokePrepare \/ RevokeSubmit \/ RevokeConfirm
  \/ SolBegin \/ SolPrepare \/ SolSubmit \/ SolRecord \/ SolConfirm \/ SolDone

process == <<disk, mem, pc, loc, runs, anchor>>
Time    == Tick /\ UNCHANGED process
Mining  == Mine /\ UNCHANGED process
Halting == Halt /\ UNCHANGED process

Next == Start \/ RunnerStep \/ Crash \/ Time \/ Mining \/ Halting

Spec == Init /\ [][Next]_vars

\* The event loop keeps running a live process and the clock advances.
FairSpec == Spec /\ WF_vars(RunnerStep) /\ WF_vars(Time)
=============================================================================
