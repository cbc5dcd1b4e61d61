------------------------- MODULE TacticalLiveProofs -------------------------
(* Proofs about the live lane, first half: the types of everything it keeps,  *)
(* the exclusion of the two loops by the claim on an entry's I/O, and the     *)
(* entry order, which is sent at most once and fills what the record says.    *)
(* TacticalLaneProofs builds on them.                                         *)
(*                                                                            *)
(* Most of the work is done by three relations between a step and what it     *)
(* does: Takes (a handler moves its call on, keeping or giving back its       *)
(* claim), CallStep (any step, as seen by the calls and the claims) and       *)
(* ExchangeChanges (who may change the exchange).                             *)
EXTENDS TacticalLive, TLAPS

\* The loop awaits a primitive on behalf of an intent.
Busy(c) == c.op \notin {"none", "apply", "notify"}
\* A well-formed call, stronger than membership in Calls.
CallFine(c) ==
    /\ c \in Calls
    /\ Busy(c) => c.i \in Intents
    /\ c.goal = "idle" <=> c.op = "none"
    /\ c.goal = "sync" <=> c.op \in {"apply", "notify"}

\* The strengthened type invariant: TypeOK with well-formed calls and no more
\* held than was filled.
CallType == call \in [Loops -> Calls] /\ \A a \in Loops : CallFine(call[a])
ExchType == ExchangeTypeOK /\ \A i \in Intents : held[i] <= filled[i]
RecordType ==
    /\ st \in [Intents -> States] /\ why \in [Intents -> IntegrityReasons]
    /\ memo \in [Intents -> Memos] /\ spent \in [Intents -> BOOLEAN]
HostType ==
    /\ halt \in Halts /\ seen \in Halts
    /\ local \in [Intents -> {"none", "v2", "main"}]
    /\ resync \in SUBSET Intents /\ active \in SUBSET Intents
    /\ pnl \in [Intents -> PnlStates]
    /\ io \in SUBSET Intents /\ boot \in SUBSET Intents
    /\ crashes \in 0..MaxCrashes
TypeInv == CallType /\ ExchType /\ RecordType /\ HostType

\* The call belongs to a handler that claimed its intent.
Owned(c) == c.goal \in {"entry", "recheck", "protfail"}
\* A handler step: a's call becomes c, its claim is kept or given back.
Takes(a, c) ==
  /\ Goto(a, c)
  /\ CallFine(c)
  /\ c.op # "submit"
  /\ \/ Owned(c) /\ Owned(call[a]) /\ c.i = call[a].i /\ io' = io
     \/ ~Owned(c) /\ Owned(call[a]) /\ io' = io \ {call[a].i}
     \/ ~Owned(c) /\ ~Owned(call[a]) /\ io' = io
MovesOn(a) == \E c : Takes(a, c)

\* Between two handlers a loop is idle, and an idle loop claims nothing.
LEMMA IdleFine == CallFine(Idle) /\ ~Owned(Idle)
  BY LotsAssumption DEF CallFine, Idle, Calls, Goals, Ops, Tags, Busy, Owned

\* Every primitive a handler awaits is a well-formed call.
LEMMA AwaitFine ==
  ASSUME NEW goal \in Goals \ {"idle", "sync"},
         NEW op \in Ops \ {"none", "apply", "notify"},
         NEW i \in Intents, NEW qty \in 0..Lots, NEW rem \in BOOLEAN
  PROVE  CallFine(Await(goal, op, i, qty, rem))
  BY DEF CallFine, Await, Calls, Goals, Ops, Tags, Busy

\* A handler that goes on to its next primitive keeps a well-formed call.
LEMMA ContinueFine ==
  ASSUME NEW c, CallFine(c), Busy(c),
         NEW op \in Ops \ {"none", "apply", "notify"}
  PROVE  CallFine([c EXCEPT !.op = op, !.tag = "none"])
  <1> DEFINE d == [c EXCEPT !.op = op, !.tag = "none"]
  <1>1. /\ d \in Calls
        /\ d.op = op /\ d.i = c.i /\ d.goal = c.goal
    BY DEF CallFine, Calls, Ops, Tags
  <1>2. op \notin {"none", "apply", "notify"}
    OBVIOUS
  <1> QED BY <1>1, <1>2 DEF CallFine, Busy

\* Ending a claimed handler gives its claim back.
LEMMA ReleaseMoves ==
  ASSUME NEW a \in Loops, Owned(call[a]), Release(a)
  PROVE  MovesOn(a)
  <1>1. Takes(a, Idle)
    BY IdleFine DEF Takes, Release, Idle
  <1> QED BY <1>1 DEF MovesOn

\* Ending a handler that claimed nothing leaves the claims alone.
LEMMA DoneMoves ==
  ASSUME NEW a \in Loops, ~Owned(call[a]), Done(a)
  PROVE  MovesOn(a)
  <1>1. Takes(a, Idle)
    BY IdleFine DEF Takes, Done, Idle
  <1> QED BY <1>1 DEF MovesOn

\* Going on to the next primitive keeps the intent and the claim.
LEMMA ContinueMoves ==
  ASSUME CallType, NEW a \in Loops, Busy(call[a]), NEW op \in Ops \ {"none", "apply",
         "notify", "submit"},
         Goto(a, [call[a] EXCEPT !.op = op, !.tag = "none"]), UNCHANGED io
  PROVE MovesOn(a)
  <1> DEFINE c == [call[a] EXCEPT !.op = op, !.tag = "none"]
  <1>1. CallFine(c) BY ContinueFine DEF CallType
  <1>2. c.op = op /\ c.goal = call[a].goal /\ c.i = call[a].i BY DEF CallType, Calls
  <1>3. Takes(a, c) BY <1>1, <1>2 DEF Takes, Owned
  <1> QED BY <1>3 DEF MovesOn

\* _fail_closed keeps the claim while it cancels and closes.
LEMMA FailMoves ==
  ASSUME CallType, NEW a \in Loops, Busy(call[a]), FailClosed(a)
  PROVE  MovesOn(a)
  <1> DEFINE c == [call[a] EXCEPT !.op = "unguard", !.tag = "none", !.old = FALSE]
  <1>1. /\ c \in Calls
        /\ c.op = "unguard" /\ c.i = call[a].i /\ c.goal = call[a].goal
    BY DEF CallType, CallFine, Calls, Ops, Tags
  <1>2. CallFine(c)
    BY <1>1 DEF CallType, CallFine, Busy
  <1>3. Takes(a, c)
    BY <1>1, <1>2 DEF Takes, FailClosed, Owned
  <1> QED BY <1>3 DEF MovesOn

\* _settle_live_fill keeps the claim of the handler that found the fill.
LEMMA SettleMoves ==
  ASSUME NEW a \in Loops, Owned(call[a]), NEW goal \in {"entry", "recheck"},
         NEW i \in Intents, i = call[a].i,
         NEW qty \in 0..Lots, NEW rem \in BOOLEAN,
         BeginSettle(a, goal, i, qty, rem)
  PROVE  MovesOn(a)
  <1> DEFINE c == Await(goal, IF rem THEN "rest" ELSE "verify", i, qty, rem)
  <1>1. CallFine(c)
    BY AwaitFine DEF Goals, Ops
  <1>2. Takes(a, c)
    BY <1>1 DEF Takes, BeginSettle, Await, Owned
  <1> QED BY <1>2 DEF MovesOn

\* _cancel_live_entry_owned keeps the claim of the handler that calls it.
LEMMA CancelMoves ==
  ASSUME NEW a \in Loops, Owned(call[a]), NEW i \in Intents, i = call[a].i, BeginCancel(a, i)
  PROVE  MovesOn(a)
  <1> DEFINE c == Await("entry", "cancel", i, 0, FALSE)
  <1>0. 0 \in 0..Lots
    BY LotsAssumption
  <1>1. CallFine(c)
    BY <1>0, AwaitFine DEF Goals, Ops
  <1>2. Takes(a, c)
    BY <1>1 DEF Takes, BeginCancel, Await, Owned
  <1> QED BY <1>2 DEF MovesOn

\* _close_intent needs no claim and takes none.
LEMMA CloseMoves ==
  ASSUME CallType, RecordType, NEW a \in Loops, ~Owned(call[a]), NEW i \in Intents,
         BeginClose(a, i), UNCHANGED io
  PROVE  MovesOn(a)
  <1> DEFINE c == Await("close", "position", i, memo[i].qty, FALSE)
  <1>1. CallFine(c)
    BY AwaitFine DEF Goals, Ops, RecordType, Memos
  <1>2. CASE Goto(a, c)
    <2>1. Takes(a, c)
      BY <1>1, <1>2 DEF Takes, Await, Owned
    <2> QED BY <2>1 DEF MovesOn
  <1>3. CASE Goto(a, Idle)
    BY <1>3, DoneMoves DEF Done
  <1> QED BY <1>2, <1>3 DEF BeginClose

\* Every handler step moves its own call on, keeping or giving back its claim.
LEMMA HandlerMoves ==
  ASSUME TypeInv, NEW a \in Loops, Handler(a)
  PROVE  MovesOn(a)
  <1> DEFINE i == call[a].i
  <1> USE DEF TypeInv
  <1>0. ASSUME Busy(call[a])
        PROVE  /\ i \in Intents /\ call[a].qty \in 0..Lots /\ call[a].rem \in BOOLEAN
    BY <1>0 DEF CallType, CallFine, Calls
  <1> USE <1>0, ReleaseMoves, DoneMoves, ContinueMoves, SettleMoves, FailMoves, CancelMoves,
          CloseMoves DEF Resumes, Busy, Owned, Ops
  <1>1. CASE Submitted(a)
    BY <1>1 DEF Submitted
  <1>2. CASE Protected(a)
    BY <1>2 DEF Protected
  <1>3. CASE EntryMissing(a)
    BY <1>3 DEF EntryMissing
  <1>4. CASE EntryFound(a)
    BY <1>4 DEF EntryFound
  <1>5. CASE EntryCanceled(a)
    BY <1>5 DEF EntryCanceled
  <1>6. CASE RecheckQueried(a)
    BY <1>6 DEF RecheckQueried
  <1>7. CASE RecheckCanceled(a)
    BY <1>7 DEF RecheckCanceled
  <1>8. CASE RecheckUnproven(a)
    BY <1>8 DEF RecheckUnproven
  <1>9. CASE RecheckUnfilled(a)
    BY <1>9 DEF RecheckUnfilled
  <1>10. CASE RecheckFilled(a)
    BY <1>10 DEF RecheckFilled
  <1>11. CASE SafeClosePending(a)
    BY <1>11 DEF SafeClosePending
  <1>12. CASE SafeCloseFlat(a)
    BY <1>12 DEF SafeCloseFlat
  <1>13. CASE SafeCloseConfirmed(a)
    BY <1>13 DEF SafeCloseConfirmed
  <1>14. CASE RemainderCanceled(a)
    BY <1>14 DEF RemainderCanceled
  <1>15. CASE Unverified(a)
    BY <1>15 DEF Unverified
  <1>16. CASE Unguarded(a)
    BY <1>16 DEF Unguarded
  <1>17. CASE Secured(a)
    BY <1>17 DEF Secured
  <1>18. CASE StillOpen(a)
    BY <1>18 DEF StillOpen
  <1>19. CASE RecoverOpen(a)
    BY <1>19 DEF RecoverOpen
  <1>20. CASE Recovered(a)
    BY <1>20 DEF Recovered
  <1>21. CASE FoundFlat(a)
    BY <1>21 DEF FoundFlat
  <1>22. CASE ClosedFlat(a)
    BY <1>22 DEF ClosedFlat
  <1>23. CASE SendClose(a)
    BY <1>23 DEF SendClose
  <1>24. CASE CloseAnswered(a)
    BY <1>24 DEF CloseAnswered
  <1>25. CASE Raised(a)
    BY <1>25 DEF Raised
  <1> QED BY <1>1, <1>2, <1>3, <1>4, <1>5, <1>6, <1>7, <1>8, <1>9, <1>10, <1>11, <1>12,
             <1>13, <1>14, <1>15, <1>16, <1>17, <1>18, <1>19, <1>20, <1>21, <1>22, <1>23,
             <1>24, <1>25 DEF Handler

\* The state names the steps write are states.
LEMMA StateNames ==
  {"none", "ready_for_quote", "submitting_entry", "pending_entry", "reconciling_entry",
   "canceling_entry", "filled_unverified", "protected", "closing", "integrity_required",
   "entry_terminal", "exchange_closed_pending_pnl", "closed_final"} \subseteq States
  BY DEF States, SlotStates, EntryReconcileStates, FreeStates

\* The fields the steps write keep a record's notes well-formed.
LEMMA MemoFields ==
  ASSUME NEW m \in Memos
  PROVE  /\ [m EXCEPT !.canceled = TRUE] \in Memos
         /\ [m EXCEPT !.deferred = TRUE] \in Memos
         /\ \A q \in 0..Lots : [m EXCEPT !.qty = q] \in Memos
         /\ \A q \in 0..Lots : [m EXCEPT !.qty = q, !.queued = TRUE] \in Memos
         /\ [m EXCEPT !.queued = TRUE, !.failed = TRUE] \in Memos
         /\ \A b \in BOOLEAN : [m EXCEPT !.sent = @ \/ b] \in Memos
  <1>1. [m EXCEPT !.canceled = TRUE] \in Memos
    BY DEF Memos
  <1>2. [m EXCEPT !.deferred = TRUE] \in Memos
    BY DEF Memos
  <1>3. \A q \in 0..Lots : [m EXCEPT !.qty = q] \in Memos
    BY DEF Memos
  <1>4. \A q \in 0..Lots : [m EXCEPT !.qty = q, !.queued = TRUE] \in Memos
    BY DEF Memos
  <1>5. [m EXCEPT !.queued = TRUE, !.failed = TRUE] \in Memos
    BY DEF Memos
  <1>6. \A b \in BOOLEAN : [m EXCEPT !.sent = @ \/ b] \in Memos
    BY DEF Memos
  <1> QED BY <1>1, <1>2, <1>3, <1>4, <1>5, <1>6

\* What the shared steps of the handlers do to a record.
LEMMA RecordSteps ==
  ASSUME RecordType, NEW i \in Intents
  PROVE  /\ \A s \in States : SetState(i, s) /\ KeepNotes => RecordType'
         /\ \A r \in IntegrityReasons : RequireIntegrity(i, r) => RecordType'
         /\ Terminalize(i) => RecordType'
         /\ MarkExchangeClosed(i) => RecordType'
         /\ UNCHANGED record => RecordType'
         /\ \A a : BeginCancel(a, i) => RecordType'
         /\ \A a, goal, qty, rem : qty \in 0..Lots /\ BeginSettle(a, goal, i, qty, rem) => RecordType'
  <1> USE StateNames DEF RecordType, SetState
  <1>1. \A s \in States : SetState(i, s) /\ KeepNotes => RecordType'
    BY DEF KeepNotes
  <1>2. \A r \in IntegrityReasons : RequireIntegrity(i, r) => RecordType'
    BY DEF RequireIntegrity
  <1>3. Terminalize(i) => RecordType'
    BY DEF Terminalize
  <1>4. MarkExchangeClosed(i) => RecordType'
    BY DEF MarkExchangeClosed
  <1>5. UNCHANGED record => RecordType'
    BY DEF record
  <1>m. memo[i] \in Memos
    OBVIOUS
  <1>6. ASSUME NEW a, BeginCancel(a, i)
        PROVE  RecordType'
    <2>1. [memo[i] EXCEPT !.canceled = TRUE] \in Memos
      BY <1>m, MemoFields, Zenon
    <2> QED BY <1>6, <2>1 DEF BeginCancel, SetMemo
  <1>7. ASSUME NEW a, NEW goal, NEW qty \in 0..Lots, NEW rem,
               BeginSettle(a, goal, i, qty, rem)
        PROVE  RecordType'
    <2>1. [memo[i] EXCEPT !.qty = qty] \in Memos
      BY <1>m, MemoFields, Zenon
    <2> QED BY <1>7, <2>1 DEF BeginSettle, SetMemo
  <1> QED BY <1>1, <1>2, <1>3, <1>4, <1>5, <1>6, <1>7

\* Every handler step leaves well-typed records.
LEMMA HandlerRecords ==
  ASSUME TypeInv, NEW a \in Loops, Handler(a)
  PROVE  RecordType'
  <1> DEFINE i == call[a].i
  <1> USE StateNames DEF TypeInv
  <1>0. ASSUME Busy(call[a])
        PROVE  i \in Intents /\ call[a].qty \in 0..Lots
    BY <1>0 DEF CallType, CallFine, Calls
  <1>r. {"entry_reconciliation_unknown", "entry_cancel_unproven",
         "entry_fill_flat_awaiting_final_pnl", "entry_recovery_position_mismatch",
         "tactical_protection_incomplete", "protected_position_mismatch", "proof_reason"} \subseteq IntegrityReasons
    BY DEF IntegrityReasons, RecheckReasons
  <1> USE <1>0, <1>r, RecordSteps DEF Resumes, Busy
  <1>1. CASE Submitted(a)
    BY <1>1 DEF Submitted
  <1>2. CASE Protected(a)
    BY <1>2, MemoFields DEF Protected, RecordType, SetState, SetMemo, record
  <1>3. CASE EntryMissing(a)
    BY <1>3 DEF EntryMissing
  <1>4. CASE EntryFound(a)
    BY <1>4 DEF EntryFound
  <1>5. CASE EntryCanceled(a)
    BY <1>5 DEF EntryCanceled
  <1>6. CASE RecheckQueried(a)
    BY <1>6 DEF RecheckQueried
  <1>7. CASE RecheckCanceled(a)
    BY <1>7 DEF RecheckCanceled
  <1>8. CASE RecheckUnproven(a)
    BY <1>8 DEF RecheckUnproven
  <1>9. CASE RecheckUnfilled(a)
    BY <1>9 DEF RecheckUnfilled
  <1>10. CASE RecheckFilled(a)
    <2>1. i \in Intents /\ call[a].qty \in 0..Lots /\ memo[i] \in Memos
      BY <1>10, <1>0 DEF RecheckFilled, Resumes, Busy, RecordType
    <2>2. [memo[i] EXCEPT !.qty = call[a].qty, !.queued = TRUE] \in Memos
      BY <2>1, MemoFields, Zenon
    <2> QED BY <1>10, <1>r, <2>1, <2>2, RecordSteps
            DEF RecheckFilled, RecordType, SetState, SetMemo
  <1>11. CASE SafeClosePending(a)
    BY <1>11 DEF SafeClosePending
  <1>12. CASE SafeCloseFlat(a)
    BY <1>12 DEF SafeCloseFlat
  <1>13. CASE SafeCloseConfirmed(a)
    <2>1. i \in Intents /\ memo[i] \in Memos
      BY <1>13, <1>0 DEF SafeCloseConfirmed, Resumes, Busy, RecordType
    <2>2. [memo[i] EXCEPT !.queued = TRUE, !.failed = TRUE] \in Memos
      BY <2>1, MemoFields, Zenon
    <2>3. \/ UNCHANGED record
          \/ /\ spent' = [spent EXCEPT ![i] = TRUE] /\ UNCHANGED why
             /\ SetState(i, "exchange_closed_pending_pnl")
             /\ SetMemo(i, [memo[i] EXCEPT !.queued = TRUE, !.failed = TRUE])
      BY <1>13 DEF SafeCloseConfirmed
    <2>4. CASE UNCHANGED record
      BY <2>1, <2>4, RecordSteps
    <2>5. CASE /\ spent' = [spent EXCEPT ![i] = TRUE] /\ UNCHANGED why
               /\ SetState(i, "exchange_closed_pending_pnl")
               /\ memo' = [memo EXCEPT ![i] =
                            [memo[i] EXCEPT !.queued = TRUE, !.failed = TRUE]]
      <3> DEFINE m == [memo[i] EXCEPT !.queued = TRUE, !.failed = TRUE]
      <3>1. m \in Memos
        BY <2>2
      <3> HIDE DEF m
      <3> QED BY <2>1, <3>1, <2>5 DEF RecordType, SetState, m
    <2> QED BY <2>3, <2>4, <2>5 DEF SetMemo
  <1>14. CASE RemainderCanceled(a)
    BY <1>14 DEF RemainderCanceled, FailClosed
  <1>15. CASE Unverified(a)
    BY <1>15 DEF Unverified, FailClosed
  <1>16. CASE Unguarded(a)
    BY <1>16 DEF Unguarded
  <1>17. CASE Secured(a)
    BY <1>17 DEF Secured
  <1>18. CASE StillOpen(a)
    BY <1>18 DEF StillOpen, BeginClose, KeepNotes, RecordType, SetState
  <1>19. CASE RecoverOpen(a)
    BY <1>19 DEF RecoverOpen
  <1>20. CASE Recovered(a)
    BY <1>20 DEF Recovered
  <1>21. CASE FoundFlat(a)
    BY <1>21 DEF FoundFlat
  <1>22. CASE ClosedFlat(a)
    BY <1>22 DEF ClosedFlat, record
  <1>23. CASE SendClose(a)
    BY <1>23 DEF SendClose
  <1>24. CASE CloseAnswered(a)
    <2>1. i \in Intents /\ memo[i] \in Memos
      BY <1>24, <1>0 DEF CloseAnswered, Resumes, Busy, RecordType
    <2>2. [memo[i] EXCEPT !.sent = @ \/ call[a].tag = "sent"] \in Memos
      BY <2>1 DEF Memos
    <2> QED BY <1>24, <2>1, <2>2, RecordSteps
            DEF CloseAnswered, RecordType, SetState, SetMemo
  <1>25. CASE Raised(a)
    BY <1>25 DEF Raised
  <1> QED BY <1>1, <1>2, <1>3, <1>4, <1>5, <1>6, <1>7, <1>8, <1>9, <1>10, <1>11, <1>12,
             <1>13, <1>14, <1>15, <1>16, <1>17, <1>18, <1>19, <1>20, <1>21, <1>22, <1>23,
             <1>24, <1>25 DEF Handler

\* What the shared steps do to the governor's integrity slot is well-typed.
LEMMA HaltSteps ==
  ASSUME HostType, NEW i \in Intents
  PROVE  /\ \A r \in RecoveryHaltReasons \cup ManualHaltReasons :
               ActivateHalt(r, i) \/ ActivateHaltIfClear(r, i) => halt' \in Halts /\ seen' \in Halts
         /\ LiftOwnHalt(i) => halt' \in Halts /\ seen' \in Halts
         /\ UNCHANGED gov => halt' \in Halts /\ seen' \in Halts
         /\ \A a \in Loops : i = call[a].i /\ FailClosed(a) => halt' \in Halts /\ seen' \in Halts
         /\ PersistCommonPosition(i) =>
               /\ halt' \in Halts /\ seen' \in Halts
               /\ local' \in [Intents -> {"none", "v2", "main"}]
  <1> USE DEF HostType
  <1>1. \A r \in RecoveryHaltReasons \cup ManualHaltReasons :
               [why |-> r, who |-> i] \in Halts
    BY DEF Halts
  <1>2. \A r \in RecoveryHaltReasons \cup ManualHaltReasons :
               ActivateHalt(r, i) \/ ActivateHaltIfClear(r, i) => halt' \in Halts /\ seen' \in Halts
    BY <1>1 DEF ActivateHalt, ActivateHaltIfClear, gov
  <1>3. LiftOwnHalt(i) => halt' \in Halts /\ seen' \in Halts
    BY DEF LiftOwnHalt, gov, Halts
  <1>4. UNCHANGED gov => halt' \in Halts /\ seen' \in Halts
    BY DEF gov
  <1>5. \A a \in Loops : i = call[a].i /\ FailClosed(a) => halt' \in Halts /\ seen' \in Halts
    BY <1>1 DEF FailClosed, RecoveryHaltReasons
  <1>6. PersistCommonPosition(i) =>
               /\ halt' \in Halts /\ seen' \in Halts
               /\ local' \in [Intents -> {"none", "v2", "main"}]
    BY <1>2, <1>4 DEF PersistCommonPosition, ManualHaltReasons
  <1> QED BY <1>2, <1>3, <1>4, <1>5, <1>6

\* Queuing a removed position for its final PnL is well-typed.
LEMMA PnlSteps ==
  ASSUME HostType, NEW i \in Intents
  PROVE  /\ EmitRemoved(i) => pnl' \in [Intents -> PnlStates]
         /\ MarkExchangeClosed(i) =>
               /\ pnl' \in [Intents -> PnlStates] /\ UNCHANGED sync
               /\ local' \in [Intents -> {"none", "v2", "main"}]
  BY DEF HostType, EmitRemoved, MarkExchangeClosed, PnlStates

\* Every handler step leaves the governor and the executor well-typed.
LEMMA HandlerHosts ==
  ASSUME TypeInv, NEW a \in Loops, Handler(a)
  PROVE  HostType'
  <1> DEFINE i == call[a].i
  <1> USE DEF TypeInv
  <1>0. ASSUME Busy(call[a])
        PROVE  i \in Intents
    BY <1>0 DEF CallType, CallFine, Calls
  <1>i. io' \in SUBSET Intents
    BY HandlerMoves DEF MovesOn, Takes, HostType
  <1>h. RecoveryHaltReasons \cup ManualHaltReasons = {"entry_reconciliation_unknown",
         "entry_cancel_unproven",
     "tactical_protection_incomplete", "protected_position_mismatch", "position_owner_collision", "pnl_mismatch"}
    BY DEF RecoveryHaltReasons, ManualHaltReasons
  <1> USE <1>0, <1>i, <1>h, HaltSteps, PnlSteps DEF Resumes, Busy, HostType, host, sync,
          BeginCancel, BeginSettle
  <1>1. CASE Submitted(a)
    BY <1>1 DEF Submitted
  <1>2. CASE Protected(a)
    BY <1>2 DEF Protected
  <1>3. CASE EntryMissing(a)
    BY <1>3 DEF EntryMissing
  <1>4. CASE EntryFound(a)
    BY <1>4 DEF EntryFound
  <1>5. CASE EntryCanceled(a)
    BY <1>5 DEF EntryCanceled
  <1>6. CASE RecheckQueried(a)
    BY <1>6 DEF RecheckQueried
  <1>7. CASE RecheckCanceled(a)
    BY <1>7 DEF RecheckCanceled
  <1>8. CASE RecheckUnproven(a)
    BY <1>8 DEF RecheckUnproven
  <1>9. CASE RecheckUnfilled(a)
    BY <1>9 DEF RecheckUnfilled
  <1>10. CASE RecheckFilled(a)
    BY <1>10 DEF RecheckFilled
  <1>11. CASE SafeClosePending(a)
    BY <1>11 DEF SafeClosePending
  <1>12. CASE SafeCloseFlat(a)
    BY <1>12 DEF SafeCloseFlat
  <1>13. CASE SafeCloseConfirmed(a)
    BY <1>13 DEF SafeCloseConfirmed
  <1>14. CASE RemainderCanceled(a)
    BY <1>14 DEF RemainderCanceled
  <1>15. CASE Unverified(a)
    BY <1>15 DEF Unverified
  <1>16. CASE Unguarded(a)
    BY <1>16 DEF Unguarded
  <1>17. CASE Secured(a)
    BY <1>17 DEF Secured
  <1>18. CASE StillOpen(a)
    BY <1>18 DEF StillOpen
  <1>19. CASE RecoverOpen(a)
    BY <1>19 DEF RecoverOpen
  <1>20. CASE Recovered(a)
    BY <1>20 DEF Recovered
  <1>21. CASE FoundFlat(a)
    BY <1>21 DEF FoundFlat
  <1>22. CASE ClosedFlat(a)
    BY <1>22 DEF ClosedFlat
  <1>23. CASE SendClose(a)
    BY <1>23 DEF SendClose
  <1>24. CASE CloseAnswered(a)
    BY <1>24 DEF CloseAnswered
  <1>25. CASE Raised(a)
    BY <1>25 DEF Raised
  <1> QED BY <1>1, <1>2, <1>3, <1>4, <1>5, <1>6, <1>7, <1>8, <1>9, <1>10, <1>11, <1>12,
             <1>13, <1>14, <1>15, <1>16, <1>17, <1>18, <1>19, <1>20, <1>21, <1>22, <1>23,
             <1>24, <1>25 DEF Handler

-----------------------------------------------------------------------------
\* The other steps of the loops: what they do to the calls and the claims.
Keeps(a, c) ==
    /\ Goto(a, c) /\ CallFine(c) /\ io' = io
    /\ c.i = call[a].i /\ c.goal = call[a].goal /\ c.op = call[a].op
Starts(a, c) ==
    /\ call[a] = Idle /\ Goto(a, c) /\ CallFine(c)
    /\ \/ Owned(c) /\ Claim(c.i)
       \/ ~Owned(c) /\ io' = io
CallStep ==
    \/ \E a \in Loops : MovesOn(a) \/ \E c : Keeps(a, c) \/ Starts(a, c)
    \/ (\A a \in Loops : call'[a] = Idle) /\ call' \in [Loops -> Calls] /\ io' = {}
    \/ UNCHANGED <<call, io>>

\* A primitive that answers keeps the call it answers.
LEMMA AnswerKeeps ==
  ASSUME CallType, NEW a \in Loops, NEW tag \in Tags,
         Busy(call[a]), UNCHANGED io, NEW qty \in 0..Lots, NEW rem \in BOOLEAN,
         Goto(a, [call[a] EXCEPT !.tag = tag, !.qty = qty, !.rem = rem])
  PROVE  CallStep
  <1> DEFINE c == [call[a] EXCEPT !.tag = tag, !.qty = qty, !.rem = rem]
  <1>1. /\ c \in Calls
        /\ c.i = call[a].i /\ c.goal = call[a].goal /\ c.op = call[a].op
    BY DEF CallType, CallFine, Calls
  <1>2. Keeps(a, c)
    BY <1>1 DEF Keeps, CallType, CallFine, Busy
  <1> QED BY <1>2 DEF CallStep

\* A handler that claims starts from an idle loop with an unclaimed intent.
LEMMA StartOwned ==
  ASSUME NEW a \in Loops, call[a] = Idle, NEW i \in Intents, Claim(i),
         NEW goal \in {"entry", "recheck", "protfail"},
         NEW op \in Ops \ {"none", "apply", "notify"},
         Goto(a, Await(goal, op, i, 0, FALSE))
  PROVE  CallStep
  <1> DEFINE c == Await(goal, op, i, 0, FALSE)
  <1>0. 0 \in 0..Lots /\ goal \in Goals \ {"idle", "sync"}
    BY LotsAssumption DEF Goals
  <1>1. CallFine(c)
    BY <1>0, AwaitFine
  <1>2. c.goal = goal /\ c.i = i
    BY DEF Await
  <1>3. Starts(a, c)
    BY <1>1, <1>2 DEF Starts, Owned
  <1> QED BY <1>3 DEF CallStep

\* A handler that needs no claim starts from an idle loop.
LEMMA StartOther ==
  ASSUME NEW a \in Loops, call[a] = Idle, NEW i \in Intents, UNCHANGED io,
         NEW goal \in {"protected", "boot", "close", "closing"},
         NEW op \in Ops \ {"none", "apply", "notify"},
         NEW qty \in 0..Lots, NEW rem \in BOOLEAN,
         Goto(a, Await(goal, op, i, qty, rem))
  PROVE  CallStep
  <1> DEFINE c == Await(goal, op, i, qty, rem)
  <1>0. goal \in Goals \ {"idle", "sync"}
    BY DEF Goals
  <1>1. CallFine(c)
    BY <1>0, AwaitFine
  <1>2. c.goal = goal
    BY DEF Await
  <1>3. Starts(a, c)
    BY <1>1, <1>2 DEF Starts, Owned
  <1> QED BY <1>3 DEF CallStep

\* Rebuilding the read model only marks a call whose adapter it replaces.
LEMMA ReloadKeeps ==
  ASSUME CallType, Reload, UNCHANGED io
  PROVE  CallStep
  <1> DEFINE old == call["tick"].old \/ call["tick"].op \in {"rest", "verify"}
             c == [call["tick"] EXCEPT !.old = old]
  <1>1. "tick" \in Loops /\ CallFine(call["tick"])
    BY DEF CallType, Loops
  <1>2. old \in BOOLEAN
    BY <1>1 DEF CallFine, Calls
  <1> HIDE DEF old
  <1>3. /\ c \in Calls
        /\ c.i = call["tick"].i /\ c.goal = call["tick"].goal /\ c.op = call["tick"].op
    BY <1>1, <1>2 DEF CallFine, Calls
  <1>4. call' = [call EXCEPT !["tick"] = c]
    BY DEF Reload, old
  <1> HIDE DEF c
  <1>5. Keeps("tick", c)
    BY <1>1, <1>3, <1>4 DEF Keeps, Goto, CallFine, Busy
  <1> QED BY <1>1, <1>5 DEF CallStep

\* What a message does to the calls and claims.
LEMMA MessageCalls ==
  ASSUME TypeInv, NEW i \in Intents, Message(i)
  PROVE  CallStep
  <1> USE DEF TypeInv
  <1>0. 0 \in 0..Lots /\ "msg" \in Loops
    BY LotsAssumption DEF Loops
  <1>1. CASE Admit(i)
    BY <1>1, ReloadKeeps DEF Admit
  <1>2. CASE DropReady(i)
    BY <1>2 DEF DropReady, CallStep
  <1>3. CASE StartEntry(i)
    BY <1>3, <1>0, StartOwned DEF StartEntry, Free, Ops
  <1>4. CASE RequestCancel("msg", i)
    BY <1>4, <1>0, StartOwned DEF RequestCancel, Free, Ops, CallStep
  <1>5. CASE CloseForSafety(i)
    <2>1. memo[i].qty \in 0..Lots
      BY DEF RecordType, Memos
    <2>2. CASE Goto("msg", Idle)
      <3>1. Starts("msg", Idle)
        BY <1>5, <2>2, IdleFine DEF CloseForSafety, Starts, Free
      <3> QED BY <1>0, <3>1 DEF CallStep
    <2>3. CASE Goto("msg", Await("close", "position", i, memo[i].qty, FALSE))
      BY <1>0, <1>5, <2>1, <2>3, StartOther DEF CloseForSafety, Free, Ops
    <2> QED BY <1>5, <2>2, <2>3 DEF CloseForSafety, BeginClose
  <1> QED BY <1>1, <1>2, <1>3, <1>4, <1>5 DEF Message

\* What a visit of the tick loop does to the calls and claims.
LEMMA TickCalls ==
  ASSUME TypeInv, NEW i \in Intents, Tick(i)
  PROVE  CallStep
  <1> USE DEF TypeInv
  <1>0. /\ 0 \in 0..Lots /\ "tick" \in Loops
        /\ memo[i].qty \in 0..Lots /\ memo[i].sent \in BOOLEAN
    BY LotsAssumption DEF Loops, RecordType, Memos
  <1>1. CASE ReconcileEntry(i)
    BY <1>1, <1>0, StartOwned DEF ReconcileEntry, Free, Ops
  <1>2. CASE RequestCancel("tick", i)
    BY <1>2, <1>0, StartOwned DEF RequestCancel, Free, Ops, CallStep
  <1>3. CASE Recheck(i)
    <2>1. CASE ProtectionFailure(i)
      BY <1>3, <2>1, <1>0, StartOwned DEF Recheck, Free, Ops
    <2>2. CASE ~ProtectionFailure(i)
      BY <1>3, <2>2, <1>0, StartOwned DEF Recheck, Free, Ops
    <2> QED BY <2>1, <2>2
  <1>4. CASE RecoverProtected(i)
    BY <1>4, <1>0, StartOther DEF RecoverProtected, Free, Ops, CallStep
  <1>5. CASE CheckProtected(i)
    BY <1>5, <1>0, StartOther DEF CheckProtected, Free, Ops
  <1>6. CASE CheckClosing(i)
    BY <1>6, <1>0, StartOther DEF CheckClosing, Free, Ops
  <1> QED BY <1>1, <1>2, <1>3, <1>4, <1>5, <1>6 DEF Tick

\* What an answering primitive does to the calls and claims.
LEMMA ExchangeCalls ==
  ASSUME TypeInv, NEW a \in Loops, Exchange(a)
  PROVE  CallStep
  <1> DEFINE c == call[a]
             i == c.i
  <1> USE DEF TypeInv
  <1>1. /\ c \in Calls /\ UNCHANGED io
        /\ c.op \in {"submit", "query", "cancel", "rest", "verify", "unguard",
                      "secure", "position", "clean", "close"}
    BY DEF Exchange, CallType, CallFine
  <1>2. Busy(c) /\ i \in Intents
    BY <1>1 DEF Busy, CallType, CallFine
  <1>3. /\ filled[i] \in 0..Lots /\ c.qty \in 0..Lots /\ c.rem \in BOOLEAN
        /\ (order[i] = "open") \in BOOLEAN
    BY <1>1, <1>2 DEF ExchType, ExchangeTypeOK, Calls
  <1>4. PICK tag \in Tags : \E qty \in 0..Lots, rem \in BOOLEAN :
           Goto(a, [c EXCEPT !.tag = tag, !.qty = qty, !.rem = rem])
    <2>1. PICK tag \in Tags :
            \/ Answer(a, tag)
            \/ Goto(a, [c EXCEPT !.tag = tag, !.qty = filled[i], !.rem = (order[i] = "open")])
            \/ Goto(a, [c EXCEPT !.tag = tag, !.qty = filled[i], !.rem = (tag # "proven")])
            \/ Goto(a, [c EXCEPT !.tag = tag,
                                 !.qty = IF tag = "proven" /\ filled[i] > @
                                         THEN filled[i] ELSE @])
      BY DEF Exchange
    <2>2. CASE Answer(a, tag)
      <3>1. [c EXCEPT !.tag = tag] = [c EXCEPT !.tag = tag, !.qty = c.qty, !.rem = c.rem]
        BY <1>1 DEF Calls
      <3> QED BY <2>2, <3>1, <1>3 DEF Answer
    <2>3. CASE Goto(a, [c EXCEPT !.tag = tag, !.qty = filled[i], !.rem = (order[i] = "open")])
      BY <2>3, <1>3
    <2>4. CASE Goto(a, [c EXCEPT !.tag = tag, !.qty = filled[i], !.rem = (tag # "proven")])
      BY <2>4, <1>3
    <2>5. CASE Goto(a, [c EXCEPT !.tag = tag,
                                 !.qty = IF tag = "proven" /\ filled[i] > @
                                         THEN filled[i] ELSE @])
      <3> DEFINE q == IF tag = "proven" /\ filled[i] > c.qty THEN filled[i] ELSE c.qty
      <3>1. q \in 0..Lots
        BY <1>3
      <3>2. [c EXCEPT !.tag = tag, !.qty = q] = [c EXCEPT !.tag = tag, !.qty = q, !.rem = c.rem]
        BY <1>1 DEF Calls
      <3> QED BY <2>5, <3>1, <3>2, <1>3
    <2> QED BY <2>1, <2>2, <2>3, <2>4, <2>5
  <1> QED BY <1>1, <1>2, <1>4, AnswerKeeps

\* What the position sync does to the calls and claims.
LEMMA SyncCalls ==
  ASSUME TypeInv, SyncFetch \/ SyncApply \/ Notify
  PROVE  CallStep
  <1> USE DEF TypeInv
  <1>0. "tick" \in Loops /\ CallFine(call["tick"]) /\ 0 \in 0..Lots
    BY LotsAssumption DEF Loops, CallType
  <1>1. CASE SyncFetch
    <2> DEFINE c == Await("sync", "apply", NoIntent, 0, FALSE)
    <2>1. CallFine(c)
      BY <1>0 DEF CallFine, Await, Calls, Goals, Ops, Tags, Busy
    <2>2. Starts("tick", c)
      BY <1>1, <2>1 DEF SyncFetch, Free, Starts, Await, Owned
    <2> QED BY <1>0, <2>2 DEF CallStep
  <1>2. CASE SyncApply
    <2> DEFINE c == [call["tick"] EXCEPT !.op = "notify"]
    <2>1. c \in Calls /\ c.op = "notify" /\ c.goal = "sync"
      BY <1>0, <1>2 DEF SyncApply, CallFine, Calls, Ops
    <2>2. CallFine(c) /\ ~Owned(c) /\ ~Owned(call["tick"])
      BY <1>2, <2>1 DEF SyncApply, CallFine, Busy, Owned
    <2>3. Takes("tick", c)
      BY <1>2, <2>1, <2>2 DEF SyncApply, Takes
    <2> QED BY <1>0, <2>3 DEF MovesOn, CallStep
  <1>3. CASE Notify
    BY <1>0, <1>3, DoneMoves DEF Notify, Owned, CallStep, Done
  <1> QED BY <1>1, <1>2, <1>3

\* Every step treats calls and claims in one of the ways of CallStep.
LEMMA NextCalls ==
  ASSUME TypeInv, Next
  PROVE  CallStep
  <1> USE DEF TypeInv
  <1>1. ASSUME NEW a \in Loops, Exchange(a) \/ Handler(a) \/ CutShort(a)
        PROVE  CallStep
    <2>1. CASE CutShort(a)
      BY <2>1, IdleFine DEF CutShort, Reboot, CallStep, CallFine
    <2> QED BY <1>1, <2>1, ExchangeCalls, HandlerMoves DEF CallStep
  <1>2. ASSUME NEW i \in Intents, Message(i) \/ Tick(i) \/ FinalPnl(i)
        PROVE  CallStep
    <2>1. CASE FinalPnl(i)
      BY <2>1 DEF FinalPnl, Resolve, PnlMismatch, DeliverFinal, AckFinal, CallStep
    <2> QED BY <1>2, <2>1, MessageCalls, TickCalls
  <1>3. CASE TurnAway
    BY <1>3, ReloadKeeps DEF TurnAway
  <1>4. CASE SyncFetch \/ SyncApply \/ Notify
    BY <1>4, SyncCalls
  <1>5. CASE Crash
    BY <1>5, IdleFine DEF Crash, Reboot, CallStep, CallFine
  <1>6. CASE ExchangeStep
    BY <1>6 DEF ExchangeStep, CallStep
  <1> QED BY <1>1, <1>2, <1>3, <1>4, <1>5, <1>6 DEF Next

\* ClaimExclusive, strengthened: whoever works on an entry holds its claim.
ClaimInv ==
    /\ \A a \in Loops : Owned(call[a]) => call[a].i \in io
    /\ ClaimExclusive

\* Such a step keeps the calls well-formed.
LEMMA CallStepType ==
  ASSUME CallType, CallStep
  PROVE  CallType'
  <1>1. ASSUME NEW a \in Loops, NEW c, Goto(a, c), CallFine(c)
        PROVE  CallType'
    BY <1>1 DEF CallType, Goto, CallFine, Busy
  <1>2. CASE (\A a \in Loops : call'[a] = Idle) /\ call' \in [Loops -> Calls]
    BY <1>2, IdleFine DEF CallType, CallFine, Busy
  <1>3. CASE UNCHANGED call
    BY <1>3 DEF CallType, CallFine, Busy
  <1> QED BY <1>1, <1>2, <1>3 DEF CallStep, MovesOn, Takes, Keeps, Starts

\* Such a step keeps every entry handler under a claim of its own.
LEMMA CallStepClaims ==
  ASSUME CallType, ClaimInv, CallStep
  PROVE  ClaimInv'
  <1> USE DEF ClaimInv, ClaimExclusive, CallType
  <1>1. ASSUME NEW a \in Loops, NEW c, Takes(a, c)
        PROVE  ClaimInv'
    BY <1>1 DEF Takes, Goto, Owned, Owns
  <1>2. ASSUME NEW a \in Loops, NEW c, Keeps(a, c)
        PROVE  ClaimInv'
    BY <1>2 DEF Keeps, Goto, Owned, Owns
  <1>3. ASSUME NEW a \in Loops, NEW c, Starts(a, c)
        PROVE  ClaimInv'
    BY <1>3 DEF Starts, Goto, Claim, Owned, Owns
  <1>4. CASE \A a \in Loops : call'[a] = Idle
    BY <1>4, IdleFine DEF Owned, Owns
  <1>5. CASE UNCHANGED <<call, io>>
    BY <1>5 DEF Owned, Owns
  <1> QED BY <1>1, <1>2, <1>3, <1>4, <1>5 DEF CallStep, MovesOn

-----------------------------------------------------------------------------
LEMMA HandlerKeepsExchange ==
  ASSUME NEW a \in Loops, Handler(a)
  PROVE  UNCHANGED exch
  BY DEF Handler, Submitted, RemainderCanceled, Unverified, Unguarded, Protected, Secured,
         EntryMissing, EntryFound, EntryCanceled, RecheckQueried, RecheckCanceled,
         RecheckUnproven, RecheckUnfilled, RecheckFilled, SafeClosePending, SafeCloseFlat,
         SafeCloseConfirmed, StillOpen, RecoverOpen, Recovered, FoundFlat, ClosedFlat,
         SendClose, CloseAnswered, Raised

\* The exchange changes only by a primitive, by itself or by a counted fault.
LEMMA ExchangeChanges ==
  ASSUME Next
  PROVE  \/ \E a \in Loops : Exchange(a)
         \/ ExchangeStep
         \/ UNCHANGED exch
         \/ Faulty /\ UNCHANGED <<order, filled, held, algos, closeOrder, submits>>
  <1>1. ASSUME NEW a \in Loops, CutShort(a)
        PROVE  UNCHANGED exch
    BY <1>1 DEF CutShort, Reboot
  <1>2. ASSUME NEW i \in Intents, Message(i)
        PROVE  UNCHANGED exch
    BY <1>2 DEF Message, Admit, DropReady, StartEntry, RequestCancel, CloseForSafety
  <1>3. ASSUME NEW i \in Intents, Tick(i)
        PROVE  UNCHANGED exch
    BY <1>3 DEF Tick, ReconcileEntry, RequestCancel, Recheck, RecoverProtected,
           CheckProtected, CheckClosing
  <1>4. ASSUME NEW i \in Intents, FinalPnl(i)
        PROVE  \/ UNCHANGED exch
               \/ Faulty /\ UNCHANGED <<order, filled, held, algos, closeOrder, submits>>
    BY <1>4 DEF FinalPnl, Resolve, PnlMismatch, DeliverFinal, AckFinal, exch
  <1>5. CASE TurnAway \/ SyncFetch \/ SyncApply \/ Notify \/ Crash
    BY <1>5 DEF TurnAway, SyncFetch, SyncApply, Notify, Crash, Reboot
  <1> QED BY <1>1, <1>2, <1>3, <1>4, <1>5, HandlerKeepsExchange DEF Next

\* Every primitive leaves a well-typed exchange.
LEMMA PrimitiveType ==
  ASSUME ExchType, NEW i \in Intents, NEW tag \in Tags, NEW qty \in 0..Lots
  PROVE  /\ SubmitEntry(i, tag) => ExchType'
         /\ QueryEntry(i, tag) => ExchType'
         /\ CancelEntry(i, tag) => ExchType'
         /\ VerifyProtection(i, tag) => ExchType'
         /\ CancelProtection(i, tag) => ExchType'
         /\ FetchPosition(i, qty, tag) => ExchType'
         /\ ClosePosition(i, qty, tag) => ExchType'
         /\ Faulty /\ UNCHANGED <<order, filled, held, algos, closeOrder, submits>> => ExchType'
  <1> USE LotsAssumption, FaultsAssumption DEF ExchType, ExchangeTypeOK, Faulty, Honest,
         OrderStates, AlgoStates
  <1>1. SubmitEntry(i, tag) => ExchType'
    BY DEF SubmitEntry
  <1>2. QueryEntry(i, tag) => ExchType'
    BY DEF QueryEntry
  <1>3. CancelEntry(i, tag) => ExchType'
    BY DEF CancelEntry
  <1>4. VerifyProtection(i, tag) => ExchType'
    BY DEF VerifyProtection
  <1>5. CancelProtection(i, tag) => ExchType'
    BY DEF CancelProtection
  <1>6. FetchPosition(i, qty, tag) => ExchType'
    BY DEF FetchPosition
  <1>7. ClosePosition(i, qty, tag) => ExchType'
    <2> DEFINE h == IF held[i] > qty THEN held[i] - qty ELSE 0
    <2>1. h \in 0..Lots /\ h <= filled[i] /\ h <= held[i]
      OBVIOUS
    <2>2. ASSUME ClosePosition(i, qty, tag)
          PROVE  /\ held' = held \/ held' = [held EXCEPT ![i] = h]
                 /\ algos' = algos \/ algos' = [algos EXCEPT ![i] = "none"]
                 /\ closeOrder' = closeOrder \/ closeOrder' = [closeOrder EXCEPT ![i] = TRUE]
                 /\ UNCHANGED <<order, filled, submits>> /\ faults' \in 0..MaxFaults
      BY <2>2 DEF ClosePosition
    <2> HIDE DEF h
    <2> QED BY <2>1, <2>2
  <1>8. Faulty /\ UNCHANGED <<order, filled, held, algos, closeOrder, submits>> => ExchType'
    OBVIOUS
  <1> QED BY <1>1, <1>2, <1>3, <1>4, <1>5, <1>6, <1>7, <1>8

\* Every step leaves a well-typed exchange.
LEMMA NextExchange ==
  ASSUME TypeInv, Next
  PROVE  ExchType'
  <1> USE DEF TypeInv
  <1>1. ASSUME NEW a \in Loops, Exchange(a)
        PROVE  ExchType'
    <2>1. Busy(call[a])
      BY <1>1 DEF Exchange, Busy
    <2>2. call[a].i \in Intents /\ call[a].qty \in 0..Lots
      BY <2>1 DEF CallType, CallFine, Calls
    <2> QED BY <1>1, <2>2, PrimitiveType DEF Exchange
  <1>2. CASE ExchangeStep
    <2>1. PICK i \in Intents : Fill(i) \/ Trigger(i) \/ OrderEnds(i)
      BY <1>2 DEF ExchangeStep, ExchangeMoves
    <2> USE LotsAssumption DEF ExchType, ExchangeTypeOK, OrderStates, AlgoStates
    <2>2. CASE Fill(i)
      BY <2>2 DEF Fill
    <2>3. CASE Trigger(i)
      BY <2>3 DEF Trigger
    <2>4. CASE OrderEnds(i)
      BY <2>4 DEF OrderEnds
    <2> QED BY <2>1, <2>2, <2>3, <2>4
  <1>3. CASE UNCHANGED exch
    BY <1>3 DEF exch, ExchType, ExchangeTypeOK
  <1>4. CASE Faulty /\ UNCHANGED <<order, filled, held, algos, closeOrder, submits>>
    BY <1>4, FaultsAssumption DEF Faulty, ExchType, ExchangeTypeOK
  <1> QED BY <1>1, <1>2, <1>3, <1>4, ExchangeChanges

-----------------------------------------------------------------------------
\* What survives a crash is well-typed.
LEMMA RebootTypes ==
  ASSUME HostType, RecordType, NEW states \in [Intents -> States], NEW h \in Halts,
         Reboot(states, h)
  PROVE  HostType' /\ st' = states /\ UNCHANGED spent
  <1>1. NoHalt \in Halts
    BY DEF Halts
  <1>2. halt' \in Halts /\ seen' \in Halts
    BY <1>1 DEF Reboot
  <1>3. crashes' \in 0..MaxCrashes
    BY CrashAssumption DEF Reboot, HostType
  <1>4. pnl' \in [Intents -> PnlStates]
    BY DEF Reboot, HostType, Survives, PnlStates
  <1> QED BY <1>2, <1>3, <1>4 DEF Reboot, HostType

\* What survives a crash between two appends is well-typed.
LEMMA CutShortTypes ==
  ASSUME TypeInv, NEW a \in Loops, CutShort(a)
  PROVE  RecordType' /\ HostType'
  <1> DEFINE i == call[a].i
  <1> USE StateNames DEF TypeInv
  <1>0. i \in Intents /\ call[a].qty \in 0..Lots
    BY DEF CutShort, Resumes, CallType, CallFine, Busy, Calls
  <1>1. /\ [st EXCEPT ![i] = "protected"] \in [Intents -> States]
        /\ [st EXCEPT ![i] = "integrity_required"] \in [Intents -> States]
        /\ halt \in Halts
    BY DEF RecordType, HostType
  <1>2. memo[i] \in Memos
    BY <1>0 DEF RecordType
  <1>3. [memo[i] EXCEPT !.qty = call[a].qty] \in Memos
    BY <1>0, <1>2, MemoFields, Zenon
  <1>4. memo' \in [Intents -> Memos] /\ why' \in [Intents -> IntegrityReasons]
    BY <1>0, <1>3 DEF CutShort, SetMemo, RecordType, IntegrityReasons, RecheckReasons
  <1>5. HostType' /\ st' \in [Intents -> States] /\ UNCHANGED spent
    BY <1>1, RebootTypes DEF CutShort
  <1> QED BY <1>4, <1>5 DEF RecordType

\* Messages leave records, governor and executor well-typed.
LEMMA MessageTypes ==
  ASSUME TypeInv, NEW i \in Intents, Message(i)
  PROVE  RecordType' /\ HostType'
  <1> USE StateNames DEF TypeInv
  <1>0. io' \in SUBSET Intents
    BY DEF Message, Admit, DropReady, StartEntry, RequestCancel, CloseForSafety, Claim, HostType
  <1>1. CASE Admit(i)
    BY <1>1, <1>0, RecordSteps DEF Admit, Reload, HostType, host, sync
  <1>2. CASE DropReady(i)
    BY <1>2, <1>0, RecordSteps DEF DropReady, HostType, host, sync, gov
  <1>3. CASE StartEntry(i)
    BY <1>3, <1>0, RecordSteps DEF StartEntry, HostType, host, sync, gov
  <1>4. CASE RequestCancel("msg", i)
    <2>1. HostType'
      BY <1>4, <1>0 DEF RequestCancel, HostType, host, sync, gov
    <2>2. memo[i] \in Memos
      BY DEF RecordType
    <2>3. /\ [memo[i] EXCEPT !.canceled = TRUE] \in Memos
          /\ [memo[i] EXCEPT !.deferred = TRUE] \in Memos
      BY <2>2, MemoFields, Zenon
    <2> QED BY <1>4, <2>1, <2>3 DEF RequestCancel, RecordType, SetState, SetMemo
  <1>5. CASE CloseForSafety(i)
    BY <1>5, <1>0, RecordSteps DEF CloseForSafety, BeginClose, KeepNotes, SetState,
           RecordType, HostType, host, sync, gov
  <1> QED BY <1>1, <1>2, <1>3, <1>4, <1>5 DEF Message

\* Ticks leave records, governor and executor well-typed.
LEMMA TickTypes ==
  ASSUME TypeInv, NEW i \in Intents, Tick(i)
  PROVE  RecordType' /\ HostType'
  <1> USE StateNames DEF TypeInv
  <1>0. io' \in SUBSET Intents
    BY DEF Tick, ReconcileEntry, RequestCancel, Recheck, RecoverProtected, CheckProtected,
           CheckClosing, Claim, HostType
  <1>1. CASE ReconcileEntry(i)
    BY <1>1, <1>0, RecordSteps DEF ReconcileEntry, HostType, host, sync, gov
  <1>2. CASE RequestCancel("tick", i)
    <2>1. HostType'
      BY <1>2, <1>0 DEF RequestCancel, HostType, host, sync, gov
    <2>2. memo[i] \in Memos
      BY DEF RecordType
    <2>3. /\ [memo[i] EXCEPT !.canceled = TRUE] \in Memos
          /\ [memo[i] EXCEPT !.deferred = TRUE] \in Memos
      BY <2>2, MemoFields, Zenon
    <2> QED BY <1>2, <2>1, <2>3 DEF RequestCancel, RecordType, SetState, SetMemo
  <1>3. CASE Recheck(i)
    <2>1. halt' \in Halts /\ seen' \in Halts
      BY <1>3, HaltSteps DEF Recheck, RecoveryHaltReasons
    <2> QED BY <1>3, <1>0, <2>1, RecordSteps DEF Recheck, HostType, host, sync
  <1>4. CASE RecoverProtected(i)
    BY <1>4, <1>0, RecordSteps DEF RecoverProtected, HostType, host, sync, gov
  <1>5. CASE CheckProtected(i) \/ CheckClosing(i)
    BY <1>5, <1>0, RecordSteps DEF CheckProtected, CheckClosing, HostType, host, sync, gov
  <1> QED BY <1>1, <1>2, <1>3, <1>4, <1>5 DEF Tick

\* The delivery of a final PnL leaves everything well-typed.
LEMMA FinalPnlTypes ==
  ASSUME TypeInv, NEW i \in Intents, FinalPnl(i)
  PROVE  RecordType' /\ HostType'
  <1> USE StateNames DEF TypeInv
  <1>1. CASE Resolve(i) \/ AckFinal(i)
    BY <1>1, RecordSteps DEF Resolve, AckFinal, HostType, sync, gov, PnlStates
  <1>2. CASE PnlMismatch(i)
    <2>1. halt' \in Halts /\ seen' \in Halts
      BY <1>2 DEF PnlMismatch, ActivateHalt, Halts, ManualHaltReasons
    <2> QED BY <1>2, <2>1, RecordSteps DEF PnlMismatch, HostType, host, sync
  <1>3. CASE DeliverFinal(i)
    <2>1. halt' \in Halts /\ seen' \in Halts
      BY <1>3, HaltSteps DEF DeliverFinal
    <2>2. RecordType'
      BY <1>3 DEF DeliverFinal, SetState, RecordType
    <2> QED BY <1>3, <2>1, <2>2 DEF DeliverFinal, HostType, sync, PnlStates
  <1> QED BY <1>1, <1>2, <1>3 DEF FinalPnl

\* Every step leaves records, governor and executor well-typed.
LEMMA NextTypes ==
  ASSUME TypeInv, Next
  PROVE  RecordType' /\ HostType'
  <1> USE DEF TypeInv
  <1>1. ASSUME NEW a \in Loops, Exchange(a)
        PROVE  RecordType' /\ HostType'
    BY <1>1 DEF Exchange, record, host, sync, gov, RecordType, HostType
  <1>2. CASE Crash
    BY <1>2, RebootTypes DEF Crash, RecordType, HostType
  <1>3. CASE TurnAway
    BY <1>3 DEF TurnAway, Reload, record, host, sync, RecordType, HostType
  <1>4. CASE SyncFetch
    BY <1>4 DEF SyncFetch, record, gov, RecordType, HostType
  <1>5. CASE SyncApply
    BY <1>5 DEF SyncApply, record, gov, RecordType, HostType, PnlStates
  <1>6. CASE Notify
    BY <1>6 DEF Notify, Done, record, gov, sync, RecordType, HostType, PnlStates
  <1>7. CASE ExchangeStep
    BY <1>7 DEF ExchangeStep, record, host, sync, gov, RecordType, HostType
  <1> QED BY <1>1, <1>2, <1>3, <1>4, <1>5, <1>6, <1>7, CutShortTypes, MessageTypes, TickTypes,
             FinalPnlTypes, HandlerRecords, HandlerHosts DEF Next

\* The strengthened type invariant holds when the program starts.
LEMMA TypeInit == Init => TypeInv
  <1> SUFFICES ASSUME Init PROVE TypeInv
    OBVIOUS
  <1> USE LotsAssumption, FaultsAssumption, CrashAssumption, StateNames DEF Init, ExchangeInit
  <1>1. CallType
    BY IdleFine DEF CallType, CallFine
  <1>2. ExchType
    BY DEF ExchType, ExchangeTypeOK, OrderStates, AlgoStates
  <1>3. RecordType
    BY DEF RecordType, BlankMemo, Memos, IntegrityReasons
  <1>4. HostType
    BY DEF HostType, Halts, PnlStates
  <1> QED BY <1>1, <1>2, <1>3, <1>4 DEF TypeInv

\* The strengthened type invariant is preserved by every step.
LEMMA TypeStep == TypeInv /\ [Next]_vars => TypeInv'
  <1>1. TypeInv /\ Next => TypeInv'
    BY NextCalls, CallStepType, NextExchange, NextTypes DEF TypeInv
  <1>2. TypeInv /\ UNCHANGED vars => TypeInv'
    BY DEF TypeInv, vars, CallType, CallFine, Busy, ExchType, ExchangeTypeOK, RecordType,
           HostType,
           record, host, sync, gov, exch
  <1> QED BY <1>1, <1>2

\* The strengthened type invariant implies the stated one.
LEMMA TypeInvImpliesTypeOK == TypeInv => TypeOK
  BY DEF TypeInv, TypeOK, CallType, CallFine, ExchType, RecordType, HostType

\* The types of every variable, the code's record fields and halts included.
THEOREM TypeCorrect == Spec => []TypeOK
  <1>1. Spec => []TypeInv
    BY TypeInit, TypeStep, PTL DEF Spec
  <1> QED BY <1>1, TypeInvImpliesTypeOK, PTL

\* The claims are exclusive when the program starts, and every step keeps them.
LEMMA ClaimInit == Init => ClaimInv
  BY DEF Init, ClaimInv, ClaimExclusive, Owned, Owns, Idle

LEMMA ClaimStep == TypeInv /\ ClaimInv /\ [Next]_vars => ClaimInv'
  <1>1. TypeInv /\ ClaimInv /\ Next => ClaimInv'
    BY NextCalls, CallStepClaims DEF TypeInv
  <1>2. ClaimInv /\ UNCHANGED vars => ClaimInv'
    BY DEF vars, ClaimInv, ClaimExclusive, Owned, Owns
  <1> QED BY <1>1, <1>2

\* The two loops never work on the entry of one intent at the same time.
THEOREM ClaimsExclusive == Spec => []ClaimExclusive
  <1>1. ClaimInv => ClaimExclusive
    BY DEF ClaimInv
  <1> QED BY <1>1, ClaimInit, ClaimStep, TypeInit, TypeStep, PTL DEF Spec

-----------------------------------------------------------------------------
(* The entry order and its fills: it is sent at most once, a protected        *)
(* position has no order left that could fill further, and its recorded       *)
(* quantity is what filled.                                                   *)

Fresh(i) == st[i] \in {"none", "ready_for_quote"}

\* An intent that is still fresh was never sent, and the one handler that may
\* send it is the message loop's, which has already taken the freshness away.
EntryInv ==
    /\ \A i \in Intents : Fresh(i) => submits[i] = 0
    /\ \A i \in Intents : submits[i] = 0 => order[i] = "none" /\ filled[i] = 0
    /\ EntryOnce
    /\ call["tick"].op # "submit"
    /\ call["msg"].op = "submit" =>
         /\ ~Fresh(call["msg"].i)
         /\ call["msg"].tag = "none" => submits[call["msg"].i] = 0

\* A step of a record: nothing becomes fresh.
Ages == \A i \in Intents : Fresh(i)' => Fresh(i)

\* A handler only ever moves a record to a state in which it is not fresh.
LEMMA HandlerAges ==
  ASSUME TypeInv, NEW a \in Loops, Handler(a)
  PROVE  Ages
  <1> USE DEF TypeInv, RecordType, Ages, Fresh, record, SetState, Terminalize,
          RequireIntegrity, BeginSettle, BeginCancel, BeginClose, FailClosed,
          MarkExchangeClosed
  <1>1. CASE Submitted(a) \/ RemainderCanceled(a) \/ Unverified(a) \/ Unguarded(a)
             \/ Protected(a) \/ Secured(a)
    BY <1>1 DEF Submitted, RemainderCanceled, Unverified, Unguarded, Protected, Secured
  <1>2. CASE EntryMissing(a) \/ EntryFound(a) \/ EntryCanceled(a)
    BY <1>2 DEF EntryMissing, EntryFound, EntryCanceled
  <1>3. CASE RecheckQueried(a) \/ RecheckCanceled(a) \/ RecheckUnproven(a)
             \/ RecheckUnfilled(a) \/ RecheckFilled(a)
    BY <1>3 DEF RecheckQueried, RecheckCanceled, RecheckUnproven, RecheckUnfilled,
                RecheckFilled
  <1>4. CASE SafeClosePending(a) \/ SafeCloseFlat(a) \/ SafeCloseConfirmed(a)
    BY <1>4 DEF SafeClosePending, SafeCloseFlat, SafeCloseConfirmed
  <1>5. CASE StillOpen(a) \/ RecoverOpen(a) \/ Recovered(a) \/ FoundFlat(a)
    BY <1>5 DEF StillOpen, RecoverOpen, Recovered, FoundFlat
  <1>6. CASE ClosedFlat(a) \/ SendClose(a) \/ CloseAnswered(a) \/ Raised(a)
    BY <1>6 DEF ClosedFlat, SendClose, CloseAnswered, Raised
  <1> QED BY <1>1, <1>2, <1>3, <1>4, <1>5, <1>6 DEF Handler

\* A step that sends nothing and makes nothing fresh keeps EntryInv.
LEMMA QuietKeepsEntryInv ==
  ASSUME TypeInv, EntryInv, Ages, UNCHANGED <<order, filled, submits>>,
         call'["tick"].op # "submit",
         call'["msg"].op = "submit" =>
            /\ call["msg"].op = "submit" /\ call'["msg"].i = call["msg"].i
            /\ call'["msg"].tag = "none" => call["msg"].tag = "none"
  PROVE  EntryInv'
  <1>1. call["msg"].op = "submit" => call["msg"].i \in Intents
    BY DEF TypeInv, CallType, CallFine, Busy, Loops
  <1> QED BY <1>1 DEF EntryInv, EntryOnce, Ages, Fresh

\* No handler sends: the only submit is the call StartEntry starts.
LEMMA HandlerKeepsEntryInv ==
  ASSUME TypeInv, EntryInv, NEW a \in Loops, Handler(a)
  PROVE  EntryInv'
  <1>1. Ages /\ UNCHANGED <<order, filled, submits>>
    BY HandlerAges, HandlerKeepsExchange DEF exch
  <1>2. PICK c : Takes(a, c)
    BY HandlerMoves DEF MovesOn
  <1>3. call' = [call EXCEPT ![a] = c] /\ c.op # "submit"
    BY <1>2 DEF Takes, Goto
  <1>4. /\ call'["tick"].op # "submit"
        /\ call'["msg"].op = "submit" => call'["msg"] = call["msg"]
    BY <1>3 DEF TypeInv, CallType, Loops, EntryInv
  <1> QED BY <1>1, <1>4, QuietKeepsEntryInv

\* A message sends at most for a fresh intent, and takes the freshness away.
LEMMA MessageKeepsEntryInv ==
  ASSUME TypeInv, EntryInv, NEW i \in Intents, Message(i)
  PROVE  EntryInv'
  <1> USE DEF TypeInv, RecordType, Fresh, SetState, CallType
  <1>0. UNCHANGED <<order, filled, submits>> /\ "msg" \in Loops /\ "tick" \in Loops
    BY DEF Message, Admit, DropReady, StartEntry, RequestCancel, CloseForSafety, exch,
           Loops
  <1>1. CASE Admit(i)
    <2>1. Ages
      BY <1>1 DEF Ages, Admit, Eligible
    <2>2. call["msg"] = Idle /\ call'["msg"] = call["msg"]
      BY <1>0, <1>1 DEF Admit, Free, Reload
    <2>3. call'["tick"].op = call["tick"].op
      BY <1>0, <1>1 DEF Admit, Reload, Calls, CallFine
    <2> QED BY <1>0, <2>1, <2>2, <2>3, QuietKeepsEntryInv DEF EntryInv
  <1>2. CASE DropReady(i) \/ CloseForSafety(i)
    <2>1. Ages
      BY <1>2 DEF Ages, DropReady, CloseForSafety, Terminalize, BeginClose
    <2>2. /\ call'["tick"] = call["tick"]
          /\ call'["msg"].op = "submit" => call'["msg"] = call["msg"]
      BY <1>0, <1>2 DEF DropReady, CloseForSafety, BeginClose, Goto, Await, Idle
    <2> QED BY <1>0, <2>1, <2>2, QuietKeepsEntryInv DEF EntryInv
  <1>3. CASE StartEntry(i)
    <2>1. /\ call'["tick"] = call["tick"]
          /\ call'["msg"].i = i /\ submits'[i] = 0 /\ ~Fresh(i)'
      BY <1>0, <1>3 DEF StartEntry, Goto, Await, EntryInv
    <2>2. Ages
      BY <1>3 DEF Ages, StartEntry
    <2> QED BY <1>0, <2>1, <2>2 DEF EntryInv, EntryOnce, Ages
  <1>4. CASE RequestCancel("msg", i)
    <2>1. Ages
      BY <1>4 DEF Ages, RequestCancel
    <2>2. /\ call'["tick"] = call["tick"]
          /\ call'["msg"].op = "submit" => call'["msg"] = call["msg"]
      BY <1>0, <1>4 DEF RequestCancel, Goto, Await
    <2> QED BY <1>0, <2>1, <2>2, QuietKeepsEntryInv DEF EntryInv
  <1> QED BY <1>1, <1>2, <1>3, <1>4 DEF Message

\* The tick loop never sends an entry.
LEMMA TickKeepsEntryInv ==
  ASSUME TypeInv, EntryInv, NEW i \in Intents, Tick(i)
  PROVE  EntryInv'
  <1> USE DEF TypeInv, RecordType, Fresh, SetState, CallType
  <1>0. UNCHANGED <<order, filled, submits>> /\ "msg" \in Loops /\ "tick" \in Loops
    BY DEF Tick, ReconcileEntry, RequestCancel, Recheck, RecoverProtected,
           CheckProtected, CheckClosing, exch, Loops
  <1>1. Ages
    BY DEF Tick, ReconcileEntry, RequestCancel, Recheck, RecoverProtected,
           CheckProtected, CheckClosing, Ages, record
  <1>2. call'["msg"] = call["msg"]
    BY <1>0 DEF Tick, ReconcileEntry, RequestCancel, Recheck, RecoverProtected,
           CheckProtected, CheckClosing, Goto
  <1>3. call'["tick"].op # "submit"
    BY <1>0 DEF Tick, ReconcileEntry, RequestCancel, Recheck, RecoverProtected,
           CheckProtected, CheckClosing, Goto, Await, EntryInv
  <1> QED BY <1>0, <1>1, <1>2, <1>3, QuietKeepsEntryInv

\* The primitives and the exchange: only "submit" sends, and only once.
LEMMA PrimitiveKeepsEntryInv ==
  ASSUME TypeInv, EntryInv, NEW a \in Loops, Exchange(a)
  PROVE  EntryInv'
  <1> DEFINE c == call[a]
             i == c.i
  <1> USE DEF TypeInv, CallType, RecordType, ExchType, ExchangeTypeOK
  <1>0. /\ i \in Intents /\ c \in Calls /\ "msg" \in Loops /\ "tick" \in Loops
        /\ c.op # "none" /\ c.tag = "none" /\ UNCHANGED st
    BY DEF Exchange, Busy, CallFine, Loops, record
  <1>1. PICK d : /\ call' = [call EXCEPT ![a] = d]
                 /\ d.op = c.op /\ d.i = c.i /\ d.tag # "none"
    <2>1. PICK tag \in Tags \ {"none"} :
            \/ Answer(a, tag)
            \/ Goto(a, [c EXCEPT !.tag = tag, !.qty = filled[i], !.rem = (order[i] = "open")])
            \/ Goto(a, [c EXCEPT !.tag = tag, !.qty = filled[i], !.rem = (tag # "proven")])
            \/ Goto(a, [c EXCEPT !.tag = tag,
                                 !.qty = IF tag = "proven" /\ filled[i] > @
                                         THEN filled[i] ELSE @])
      BY DEF Exchange
    <2> DEFINE Same(d) == d.op = c.op /\ d.i = c.i /\ d.tag # "none"
    <2>2. ASSUME NEW q, NEW r
          PROVE  /\ Same([c EXCEPT !.tag = tag])
                 /\ Same([c EXCEPT !.tag = tag, !.qty = q])
                 /\ Same([c EXCEPT !.tag = tag, !.qty = q, !.rem = r])
      BY <1>0, <2>1 DEF Calls
    <2> SUFFICES \E d : call' = [call EXCEPT ![a] = d] /\ Same(d)
      OBVIOUS
    <2> HIDE DEF Same
    <2>3. CASE Answer(a, tag)
      BY <2>2, <2>3 DEF Answer, Goto
    <2>4. CASE Goto(a, [c EXCEPT !.tag = tag, !.qty = filled[i], !.rem = (order[i] = "open")])
      BY <2>2, <2>4 DEF Goto
    <2>5. CASE Goto(a, [c EXCEPT !.tag = tag, !.qty = filled[i], !.rem = (tag # "proven")])
      BY <2>2, <2>5 DEF Goto
    <2>6. CASE Goto(a, [c EXCEPT !.tag = tag, !.qty = IF tag = "proven" /\ filled[i] > @
                                                     THEN filled[i] ELSE @])
      BY <2>2, <2>6 DEF Goto
    <2> QED BY <2>1, <2>3, <2>4, <2>5, <2>6
  <1>2. /\ call'["tick"].op # "submit"
        /\ call'["msg"].op = "submit" => ~Fresh(call["msg"].i) /\ call'["msg"].i = call["msg"].i
        /\ call'["msg"].op = "submit" /\ call'["msg"].tag = "none" =>
              call'["msg"] = call["msg"] /\ a = "tick"
    BY <1>0, <1>1 DEF EntryInv, Loops
  <1>3. CASE c.op = "submit"
    <2>1. a = "msg" /\ submits[i] = 0 /\ ~Fresh(i)
      BY <1>0, <1>3 DEF EntryInv, Loops
    <2>2. /\ submits' = [submits EXCEPT ![i] = 1] /\ UNCHANGED filled
          /\ order' = order \/ order' = [order EXCEPT ![i] = "open"]
      BY <1>0, <1>3, <2>1 DEF Exchange, SubmitEntry
    <2> QED BY <1>0, <1>2, <2>1, <2>2 DEF EntryInv, EntryOnce, Fresh
  <1>4. CASE c.op # "submit"
    <2>1. /\ UNCHANGED <<submits, filled>>
          /\ \/ order' = order
             \/ order[i] # "none" /\ order' = [order EXCEPT ![i] = "dead"]
      BY <1>4 DEF Exchange, QueryEntry, CancelEntry, VerifyProtection, FetchPosition,
                  CancelProtection, ClosePosition
    <2> QED BY <1>0, <1>2, <2>1 DEF EntryInv, EntryOnce, Fresh
  <1> QED BY <1>3, <1>4

\* EntryInv is inductive.
LEMMA EntryStep == TypeInv /\ EntryInv /\ [Next]_vars => EntryInv'
  <1> SUFFICES ASSUME TypeInv, EntryInv, [Next]_vars
               PROVE  EntryInv'
    OBVIOUS
  <1> USE DEF TypeInv, CallType, RecordType
  <1>0. "msg" \in Loops /\ "tick" \in Loops
    BY DEF Loops
  <1>1. ASSUME NEW a \in Loops, CutShort(a)
        PROVE  EntryInv'
    <2>1. \A b \in Loops : call'[b].op # "submit"
      BY <1>1 DEF CutShort, Reboot, Idle
    <2>2. Ages /\ UNCHANGED <<order, filled, submits>>
      BY <1>1 DEF CutShort, Reboot, exch, Ages, Fresh
    <2> QED BY <1>0, <2>1, <2>2, QuietKeepsEntryInv
  <1>2. CASE Crash
    <2>1. \A b \in Loops : call'[b].op # "submit"
      BY <1>2 DEF Crash, Reboot, Idle
    <2>2. Ages /\ UNCHANGED <<order, filled, submits>>
      BY <1>2 DEF Crash, Reboot, exch, Ages, Fresh
    <2> QED BY <1>0, <2>1, <2>2, QuietKeepsEntryInv
  <1>3. ASSUME NEW i \in Intents, FinalPnl(i)
        PROVE  EntryInv'
    <2>1. Ages /\ UNCHANGED <<order, filled, submits, call>>
      BY <1>3 DEF FinalPnl, Resolve, PnlMismatch, DeliverFinal, AckFinal, SetState, Ages,
                  Fresh, exch, record
    <2> QED BY <2>1, QuietKeepsEntryInv DEF EntryInv
  <1>4. CASE TurnAway
    <2>1. Ages /\ UNCHANGED <<order, filled, submits>>
      BY <1>4 DEF TurnAway, Ages, Fresh, exch, record
    <2>2. call'["msg"] = call["msg"] /\ call'["tick"].op = call["tick"].op
      BY <1>0, <1>4 DEF TurnAway, Reload, Calls, CallFine
    <2> QED BY <2>1, <2>2, QuietKeepsEntryInv DEF EntryInv
  <1>5. CASE SyncFetch \/ SyncApply \/ Notify
    <2>1. Ages /\ UNCHANGED <<order, filled, submits>>
      BY <1>5 DEF SyncFetch, SyncApply, Notify, Ages, Fresh, exch, record
    <2>2. call'["msg"] = call["msg"] /\ call'["tick"].op # "submit"
      BY <1>0, <1>5 DEF SyncFetch, SyncApply, Notify, Done, Goto, Await, Idle, Calls, CallFine
    <2> QED BY <2>1, <2>2, QuietKeepsEntryInv
  <1>6. CASE ExchangeStep
    <2>1. UNCHANGED <<st, call, submits>>
      BY <1>6 DEF ExchangeStep, ExchangeMoves, Fill, Trigger, OrderEnds, record
    <2>2. PICK i \in Intents : Fill(i) \/ Trigger(i) \/ OrderEnds(i)
      BY <1>6 DEF ExchangeStep, ExchangeMoves
    <2>3. \/ UNCHANGED <<order, filled>>
          \/ /\ order[i] = "open"
             /\ \A j \in Intents \ {i} : order'[j] = order[j] /\ filled'[j] = filled[j]
      BY <2>2 DEF Fill, Trigger, OrderEnds, ExchType, ExchangeTypeOK
    <2> QED BY <2>1, <2>3 DEF EntryInv, EntryOnce, Fresh
  <1>7. CASE UNCHANGED vars
    BY <1>7 DEF vars, record, exch, EntryInv, EntryOnce, Fresh
  <1> QED BY <1>1, <1>2, <1>3, <1>4, <1>5, <1>6, <1>7, HandlerKeepsEntryInv,
             MessageKeepsEntryInv, TickKeepsEntryInv, PrimitiveKeepsEntryInv DEF Next

\* Nothing has been sent when the program starts.
LEMMA EntryInit == Init => EntryInv
  BY DEF Init, ExchangeInit, EntryInv, EntryOnce, Idle, Loops

\* Whatever answers are lost and wherever the process dies, the entry order of
\* an intent is sent at most once (_start_live_entry persists before it sends).
THEOREM EntrySentOnce == Spec => []EntryOnce
  <1>1. EntryInv => EntryOnce
    BY DEF EntryInv
  <1> QED BY <1>1, EntryInit, EntryStep, TypeInit, TypeStep, PTL DEF Spec

-----------------------------------------------------------------------------
(* Fills.                                                                     *)

\* The call carries a fill that can no longer grow: the lookup found the order
\* terminal, or the cancel of the order or of its remainder was proven.
Settled(c) ==
    /\ c.goal \in {"entry", "recheck"}
    /\ \/ c.op = "query" /\ c.tag = "found" /\ ~c.rem
       \/ c.op \in {"cancel", "rest"} /\ c.tag = "proven"
       \/ c.op = "position" /\ ~c.rem
       \/ c.op = "verify"

CallFill(c) ==
    /\ c.goal \in {"entry", "recheck"} => c.qty <= filled[c.i]
    /\ Settled(c) => order[c.i] = "dead" /\ c.qty = filled[c.i]
    /\ c.goal \in {"protected", "boot", "close", "closing"} => order[c.i] = "dead"

RecordFill(i) ==
    /\ st[i] \in {"protected", "closing"} => order[i] = "dead"
    /\ st[i] = "protected" => memo[i].qty = filled[i]

FillInv ==
    /\ \A a \in Loops : CallFill(call[a])
    /\ \A i \in Intents : RecordFill(i)

\* An idle loop carries no fill.
LEMMA IdleFill == CallFill(Idle)
  BY DEF CallFill, Settled, Idle

\* One loop moves on and one record changes; the exchange stands still.
LEMMA MoveKeepsFillInv ==
  ASSUME FillInv, RecordType, CallType, NEW a \in Loops, NEW c, Goto(a, c), CallFill(c),
         NEW i \in Intents,
         \A j \in Intents \ {i} : st'[j] = st[j] /\ memo'[j] = memo[j],
         UNCHANGED <<order, filled>>,
         \/ st'[i] \notin {"protected", "closing"}
         \/ st'[i] = st[i] /\ memo'[i].qty = memo[i].qty
         \/ st'[i] = "closing" /\ order[i] = "dead"
         \/ st'[i] = "protected" /\ order[i] = "dead" /\ memo'[i].qty = filled[i]
  PROVE  FillInv'
  <1>1. \A b \in Loops : CallFill(call[b])'
    BY DEF FillInv, Goto, CallFill, Settled, CallType
  <1>2. \A j \in Intents : RecordFill(j)'
    BY DEF FillInv, RecordFill
  <1> QED BY <1>1, <1>2 DEF FillInv

\* A handler records a fill only from an answer that settled it.
LEMMA HandlerKeepsFillInv ==
  ASSUME TypeInv, FillInv, NEW a \in Loops, Handler(a)
  PROVE  FillInv'
  <1> DEFINE c == call[a]
             i == c.i
             Elsewhere == \A j \in Intents \ {i} : st'[j] = st[j] /\ memo'[j] = memo[j]
             Harmless == \/ st'[i] \notin {"protected", "closing"}
                         \/ st'[i] = st[i] /\ memo'[i].qty = memo[i].qty
  <1> USE DEF TypeInv
  <1>0. /\ c \in Calls /\ i \in Intents /\ CallFill(c) /\ RecordFill(i)
        /\ memo[i] \in Memos /\ UNCHANGED <<order, filled>>
    <2>1. Busy(c)
      BY DEF Handler, Submitted, RemainderCanceled, Unverified, Unguarded, Protected, Secured,
             EntryMissing, EntryFound, EntryCanceled, RecheckQueried, RecheckCanceled,
             RecheckUnproven, RecheckUnfilled, RecheckFilled, SafeClosePending, SafeCloseFlat,
             SafeCloseConfirmed, StillOpen, RecoverOpen, Recovered, FoundFlat, ClosedFlat,
             SendClose, CloseAnswered, Raised, Resumes, Busy
    <2> QED BY <2>1, HandlerKeepsExchange DEF CallType, CallFine, FillInv, RecordType, exch
  <1> DEFINE Onward(op) == [c EXCEPT !.op = op, !.tag = "none"]
  <1>o. ASSUME NEW op \in Ops,
               \/ op \notin {"verify", "position"} \/ Settled(c)
               \/ op = "position" /\ c.rem
               \/ c.goal \notin {"entry", "recheck"}
        PROVE  CallFill(Onward(op))
    <2>1. LET d == Onward(op) IN
            /\ d.goal = c.goal /\ d.op = op /\ d.tag = "none" /\ d.i = i
            /\ d.qty = c.qty /\ d.rem = c.rem
      BY <1>0 DEF Calls
    <2> QED BY <1>0, <1>o, <2>1 DEF CallFill, Settled
  <1> HIDE DEF Onward
  <1>1. ASSUME NEW op, CallFill(Onward(op)), Goto(a, Onward(op)), UNCHANGED record
        PROVE  FillInv'
    BY <1>0, <1>1, MoveKeepsFillInv DEF record
  <1>2. ASSUME Goto(a, Idle), Elsewhere, Harmless
        PROVE  FillInv'
    BY <1>0, <1>2, IdleFill, MoveKeepsFillInv
  <1>3. ASSUME NEW goal \in {"entry", "recheck"}, NEW rem \in BOOLEAN, c.qty <= filled[i],
               rem \/ (order[i] = "dead" /\ c.qty = filled[i]),
               BeginSettle(a, goal, i, c.qty, rem)
        PROVE  FillInv'
    <2> DEFINE d == Await(goal, IF rem THEN "rest" ELSE "verify", i, c.qty, rem)
    <2>1. CallFill(d)
      BY <1>3 DEF CallFill, Settled, Await
    <2>2. Elsewhere /\ st'[i] = "filled_unverified"
      BY <1>0, <1>3 DEF BeginSettle, SetState, SetMemo, RecordType
    <2> QED BY <1>0, <1>3, <2>1, <2>2, MoveKeepsFillInv DEF BeginSettle
  <1>4. ASSUME BeginCancel(a, i)
        PROVE  FillInv'
    <2>1. CallFill(Await("entry", "cancel", i, 0, FALSE))
      BY <1>0 DEF CallFill, Settled, Await, ExchType, ExchangeTypeOK
    <2>2. Elsewhere /\ st'[i] = "canceling_entry"
      BY <1>0, <1>4 DEF BeginCancel, SetState, SetMemo, RecordType
    <2> QED BY <1>0, <1>4, <2>1, <2>2, MoveKeepsFillInv DEF BeginCancel
  <1>5. CASE Submitted(a)
    BY <1>5, <1>0, <1>2, <1>4 DEF Submitted, Release, SetState, KeepNotes, RecordType
  <1>f. ASSUME FailClosed(a)
        PROVE  FillInv'
    <2> DEFINE d == [c EXCEPT !.op = "unguard", !.tag = "none", !.old = FALSE]
    <2>1. d.goal = c.goal /\ d.op = "unguard" /\ d.i = i /\ d.qty = c.qty
      BY <1>0 DEF Calls
    <2>2. CallFill(d)
      BY <1>0, <2>1 DEF CallFill, Settled
    <2>3. Goto(a, d) /\ Elsewhere /\ Harmless
      BY <1>f DEF FailClosed, record
    <2> QED BY <1>0, <2>2, <2>3, MoveKeepsFillInv
  <1>r. ASSUME UNCHANGED record
        PROVE  Elsewhere /\ Harmless
    BY <1>r DEF record
  <1>6. CASE RemainderCanceled(a)
    <2>1. CASE FailClosed(a)
      BY <1>f, <2>1
    <2>2. CASE c.tag = "proven" /\ Goto(a, Onward("verify")) /\ UNCHANGED record
      <3>1. Settled(c) /\ "verify" \in Ops
        BY <1>6, <2>2 DEF RemainderCanceled, Resumes, Settled, Ops
      <3> QED BY <1>o, <1>1, <2>2, <3>1
    <2> QED BY <1>6, <2>1, <2>2 DEF RemainderCanceled, Onward
  <1>7. CASE Unverified(a)
    BY <1>7, <1>f, <1>r, <1>2 DEF Unverified, Release, Done
  <1>8. CASE Unguarded(a)
    <2>1. "secure" \in Ops /\ Goto(a, Onward("secure")) /\ UNCHANGED record
      BY <1>8 DEF Ops, Unguarded, Onward
    <2> QED BY <2>1, <1>o, <1>1
  <1>9. CASE Protected(a)
    <2>1. order[i] = "dead" /\ c.qty = filled[i]
      BY <1>0, <1>9 DEF Protected, Resumes, CallFill, Settled
    <2>2. Elsewhere /\ st'[i] = "protected" /\ memo'[i].qty = c.qty
      BY <1>0, <1>9 DEF Protected, SetState, SetMemo, RecordType, Memos
    <2>3. Goto(a, Idle)
      BY <1>9 DEF Protected, Release
    <2> QED BY <1>0, <2>1, <2>2, <2>3, IdleFill, MoveKeepsFillInv
  <1>10. CASE Secured(a)
    BY <1>10, <1>0, <1>2 DEF Secured, RequireIntegrity, Release, Done, SetState, RecordType
  <1>11. CASE EntryMissing(a)
    BY <1>11, <1>0, <1>2 DEF EntryMissing, RequireIntegrity, Release, SetState, KeepNotes,
           RecordType
  <1>12. CASE EntryFound(a)
    <2>1. CASE BeginSettle(a, "entry", i, c.qty, c.rem)
      <3>1. c.goal = "entry" /\ c.rem \in BOOLEAN /\ (~c.rem => Settled(c))
        BY <1>0, <1>12 DEF EntryFound, Resumes, Settled, Calls
      <3> QED BY <1>0, <1>3, <2>1, <3>1 DEF CallFill
    <2>2. CASE BeginCancel(a, i)
      BY <1>4, <2>2
    <2>3. CASE Terminalize(i) /\ Release(a)
      BY <2>3, <1>0, <1>2 DEF Terminalize, Release, SetState, RecordType
    <2>4. CASE SetState(i, "pending_entry") /\ KeepNotes /\ Release(a)
      BY <2>4, <1>0, <1>2 DEF Release, SetState, KeepNotes, RecordType
    <2> QED BY <1>12, <2>1, <2>2, <2>3, <2>4 DEF EntryFound
  <1>13. CASE EntryCanceled(a)
    <2>1. CASE c.tag = "proven" /\ BeginSettle(a, "entry", i, c.qty, FALSE)
      <3>1. c.goal = "entry" /\ Settled(c)
        BY <1>13, <2>1 DEF EntryCanceled, Resumes, Settled
      <3> QED BY <1>0, <1>3, <2>1, <3>1 DEF CallFill
    <2>2. CASE Terminalize(i) /\ Release(a)
      BY <2>2, <1>0, <1>2 DEF Terminalize, Release, SetState, RecordType
    <2>3. CASE RequireIntegrity(i, "entry_cancel_unproven") /\ Release(a)
      BY <2>3, <1>0, <1>2 DEF RequireIntegrity, Release, SetState, RecordType
    <2> QED BY <1>13, <2>1, <2>2, <2>3 DEF EntryCanceled
  <1>n. {"cancel", "position", "clean", "close", "verify"} \subseteq Ops
    BY DEF Ops
  <1>14. CASE RecheckQueried(a)
    <2>1. CASE RequireIntegrity(i, "entry_reconciliation_unknown") /\ Release(a)
      BY <2>1, <1>0, <1>2 DEF RequireIntegrity, Release, SetState, RecordType
    <2>2. CASE Goto(a, Onward("cancel")) /\ UNCHANGED record
      BY <1>n, <1>o, <1>1, <2>2
    <2>3. CASE /\ c.tag = "found" /\ UNCHANGED record
               /\ Goto(a, Onward("position"))
      <3>1. Settled(c) \/ c.rem
        BY <1>0, <1>14, <2>3 DEF RecheckQueried, Resumes, Settled, Calls
      <3> QED BY <1>n, <1>o, <1>1, <2>3, <3>1
    <2> QED BY <1>14, <2>1, <2>2, <2>3 DEF RecheckQueried, Onward
  <1>15. CASE RecheckCanceled(a)
    <2>1. CASE RequireIntegrity(i, "entry_reconciliation_unknown") /\ Release(a)
      BY <2>1, <1>0, <1>2 DEF RequireIntegrity, Release, SetState, RecordType
    <2>2. CASE /\ c.tag = "proven" /\ UNCHANGED record
               /\ Goto(a, Onward("position"))
      <3>1. Settled(c)
        BY <1>15, <2>2 DEF RecheckCanceled, Resumes, Settled
      <3> QED BY <1>n, <1>o, <1>1, <2>2, <3>1
    <2> QED BY <1>15, <2>1, <2>2 DEF RecheckCanceled, Onward
  <1>16. CASE RecheckUnproven(a)
    BY <1>16, <1>0, <1>2 DEF RecheckUnproven, RequireIntegrity, Release, SetState, RecordType
  <1>17. CASE RecheckUnfilled(a)
    BY <1>17, <1>0, <1>2 DEF RecheckUnfilled, Terminalize, KeepNotes, Release, SetState,
           RecordType
  <1>18. CASE RecheckFilled(a)
    <2>1. CASE BeginSettle(a, "recheck", i, c.qty, c.rem)
      <3>1. c.goal = "recheck" /\ c.rem \in BOOLEAN /\ (~c.rem => Settled(c))
        BY <1>0, <1>18 DEF RecheckFilled, Resumes, Settled, Calls
      <3> QED BY <1>0, <1>3, <2>1, <3>1 DEF CallFill
    <2>2. CASE Release(a) /\ SetState(i, "integrity_required")
               /\ SetMemo(i, [memo[i] EXCEPT !.qty = c.qty, !.queued = TRUE])
      BY <2>2, <1>0, <1>2 DEF Release, SetState, SetMemo, RecordType
    <2> QED BY <1>18, <2>1, <2>2 DEF RecheckFilled
  <1>19. CASE SafeClosePending(a)
    BY <1>19, <1>0, <1>2 DEF SafeClosePending, RequireIntegrity, Release, SetState, RecordType
  <1>20. CASE SafeCloseFlat(a)
    <2>1. Goto(a, Onward("clean")) /\ UNCHANGED record
      BY <1>20 DEF SafeCloseFlat, Onward
    <2> QED BY <1>n, <1>o, <1>1, <2>1
  <1>21. CASE SafeCloseConfirmed(a)
    <2>1. Goto(a, Idle)
      BY <1>21 DEF SafeCloseConfirmed, Release
    <2>2. Elsewhere /\ Harmless
      BY <1>21, <1>0, <1>r DEF SafeCloseConfirmed, SetState, SetMemo, RecordType
    <2> QED BY <1>2, <2>1, <2>2
  <1>b. ASSUME BeginClose(a, i), order[i] = "dead", UNCHANGED memo
        PROVE  FillInv'
    <2>1. CASE Goto(a, Idle) /\ UNCHANGED st
      BY <1>2, <1>b, <2>1
    <2>2. CASE /\ Goto(a, Await("close", "position", i, memo[i].qty, FALSE))
               /\ SetState(i, "closing")
      <3>1. CallFill(Await("close", "position", i, memo[i].qty, FALSE))
        BY <1>b DEF CallFill, Settled, Await
      <3>2. Elsewhere /\ st'[i] = "closing"
        BY <1>0, <1>b, <2>2 DEF SetState, RecordType
      <3> QED BY <1>0, <1>b, <2>2, <3>1, <3>2, MoveKeepsFillInv
    <2> QED BY <1>b, <2>1, <2>2 DEF BeginClose
  <1>22. CASE StillOpen(a)
    <2>1. order[i] = "dead" /\ UNCHANGED memo
      BY <1>0, <1>22 DEF StillOpen, Resumes, CallFill, KeepNotes
    <2>2. CASE Done(a) /\ UNCHANGED st
      BY <1>2, <2>1, <2>2 DEF Done
    <2>3. CASE BeginClose(a, i)
      BY <1>b, <2>1, <2>3
    <2> QED BY <1>22, <2>2, <2>3 DEF StillOpen
  <1>23. CASE RecoverOpen(a)
    <2>1. CASE Goto(a, Onward("verify")) /\ UNCHANGED record
      <3>1. c.goal = "boot"
        BY <1>23 DEF RecoverOpen, Resumes
      <3> QED BY <1>n, <1>o, <1>1, <2>1, <3>1
    <2>2. CASE RequireIntegrity(i, "protected_position_mismatch") /\ Done(a)
      BY <2>2, <1>0, <1>2 DEF RequireIntegrity, Done, SetState, RecordType
    <2> QED BY <1>23, <2>1, <2>2 DEF RecoverOpen, Onward
  <1>24. CASE Recovered(a) \/ Raised(a)
    BY <1>24, <1>2, <1>r DEF Recovered, Raised, Done
  <1>25. CASE FoundFlat(a)
    <2>1. Goto(a, Onward("clean")) /\ UNCHANGED record
      BY <1>25 DEF FoundFlat, Onward
    <2> QED BY <1>n, <1>o, <1>1, <2>1
  <1>26. CASE ClosedFlat(a)
    BY <1>26, <1>0, <1>2, <1>r DEF ClosedFlat, MarkExchangeClosed, Done, SetState, RecordType
  <1>27. CASE SendClose(a)
    <2>1. Goto(a, Onward("close")) /\ UNCHANGED record
      BY <1>27 DEF SendClose, Onward
    <2> QED BY <1>n, <1>o, <1>1, <2>1
  <1>28. CASE CloseAnswered(a)
    <2>1. order[i] = "dead" /\ Goto(a, Idle)
      BY <1>0, <1>28 DEF CloseAnswered, Resumes, CallFill, Done
    <2>2. /\ Elsewhere
          /\ st'[i] \in {"closing", "exchange_closed_pending_pnl"}
      BY <1>0, <1>28 DEF CloseAnswered, MarkExchangeClosed, SetState, SetMemo, RecordType
    <2> QED BY <1>0, <2>1, <2>2, IdleFill, MoveKeepsFillInv
  <1> QED BY <1>5, <1>6, <1>7, <1>8, <1>9, <1>10, <1>11, <1>12, <1>13, <1>14, <1>15,
             <1>16, <1>17, <1>18, <1>19, <1>20, <1>21, <1>22, <1>23, <1>24, <1>25,
             <1>26, <1>27, <1>28 DEF Handler

\* A primitive: what it reports of the order and of its fill is so.
LEMMA PrimitiveKeepsFillInv ==
  ASSUME TypeInv, EntryInv, FillInv, NEW a \in Loops, Exchange(a)
  PROVE  FillInv'
  <1> DEFINE c == call[a]
             i == c.i
  <1> USE DEF TypeInv, CallType, RecordType, ExchType, ExchangeTypeOK
  <1>0. /\ i \in Intents /\ c \in Calls /\ CallFill(c) /\ UNCHANGED <<st, memo>>
        /\ c.op # "none" /\ c.tag = "none"
    BY DEF Exchange, Busy, CallFine, record, FillInv
  <1>1. /\ UNCHANGED filled
        /\ \A j \in Intents : order[j] = "dead" => order'[j] = "dead"
    <2>1. CASE c.op = "submit"
      <3>1. order[i] = "none"
        BY <1>0, <2>1 DEF EntryInv, Loops
      <3> QED BY <1>0, <2>1, <3>1 DEF Exchange, SubmitEntry
    <2>2. CASE c.op # "submit"
      BY <2>2, <1>0 DEF Exchange, QueryEntry, CancelEntry, VerifyProtection, FetchPosition,
                        CancelProtection, ClosePosition
    <2> QED BY <2>1, <2>2
  <1>2. \A i_1 \in Intents : RecordFill(i_1)'
    BY <1>0, <1>1 DEF FillInv, RecordFill
  <1>3. ASSUME NEW b \in Loops, b # a
        PROVE  CallFill(call[b])'
    <2>1. call'[b] = call[b] /\ CallFill(call[b])
      BY <1>3 DEF Exchange, Answer, Goto, FillInv
    <2>2. call[b].i \in Intents \/ ~Busy(call[b])
      BY DEF CallFine
    <2>3. CASE call[b].goal \in {"idle", "sync", "protfail"}
      BY <2>1, <2>3 DEF CallFill, Settled
    <2>4. CASE call[b].goal \notin {"idle", "sync", "protfail"}
      <3>1. call[b].i \in Intents
        BY <2>4 DEF CallFine, Busy, Calls, Goals
      <3> QED BY <1>1, <2>1, <3>1 DEF CallFill, Settled
    <2> QED BY <2>3, <2>4
  <1>g. ASSUME NEW d, Goto(a, d), CallFill(d)'
        PROVE  FillInv'
    BY <1>2, <1>3, <1>g DEF Goto, FillInv
  <1>4. ASSUME NEW tag \in Tags \ {"none"}, Answer(a, tag), c.op \notin {"query", "cancel", "rest"}
        PROVE  FillInv'
    <2>d. PICK d : d = [c EXCEPT !.tag = tag]
      OBVIOUS
    <2>1. d.goal = c.goal /\ d.op = c.op /\ d.i = i /\ d.qty = c.qty /\ d.rem = c.rem
      BY <1>0, <2>d DEF Calls
    <2>2. CallFill(d)'
      BY <1>0, <1>1, <1>4, <2>1 DEF CallFill, Settled
    <2> QED BY <1>4, <2>d, <2>2, <1>g DEF Answer
  <1>5. ASSUME NEW tag \in Tags \ {"none"}, c.op = "query", QueryEntry(i, tag),
               Goto(a, [c EXCEPT !.tag = tag, !.qty = filled[i], !.rem = (order[i] = "open")])
        PROVE  FillInv'
    <2> DEFINE r == order[i] = "open"
    <2>r. r \in BOOLEAN
      OBVIOUS
    <2>o. /\ order' = order /\ order[i] \in OrderStates
          /\ tag = "found" => order[i] # "none"
          /\ ~r => order[i] # "open"
      BY <1>0, <1>5 DEF QueryEntry
    <2> HIDE DEF r
    <2>d. PICK d : d = [c EXCEPT !.tag = tag, !.qty = filled[i], !.rem = r]
      OBVIOUS
    <2>1. d.goal = c.goal /\ d.op = "query" /\ d.tag = tag /\ d.i = i /\ d.qty = filled[i] /\ d.rem = r
      BY <1>0, <1>5, <2>d DEF Calls
    <2>2. CallFill(d)'
      BY <1>0, <1>1, <2>o, <2>1 DEF CallFill, Settled, OrderStates
    <2>3. Goto(a, d)
      BY <1>5, <2>d DEF r
    <2> QED BY <2>2, <2>3, <1>g
  <1>6. ASSUME NEW tag \in Tags \ {"none"}, c.op = "cancel", CancelEntry(i, tag),
               Goto(a, [c EXCEPT !.tag = tag, !.qty = filled[i], !.rem = (tag # "proven")])
        PROVE  FillInv'
    <2> DEFINE r == tag # "proven"
    <2>o. tag = "proven" => order'[i] = "dead"
      BY <1>0, <1>6 DEF CancelEntry
    <2> HIDE DEF r
    <2>d. PICK d : d = [c EXCEPT !.tag = tag, !.qty = filled[i], !.rem = r]
      OBVIOUS
    <2>1. d.goal = c.goal /\ d.op = "cancel" /\ d.tag = tag /\ d.i = i /\ d.qty = filled[i]
      BY <1>0, <1>6, <2>d DEF Calls
    <2>2. CallFill(d)'
      BY <1>0, <1>1, <2>o, <2>1 DEF CallFill, Settled
    <2>3. Goto(a, d)
      BY <1>6, <2>d DEF r
    <2> QED BY <2>2, <2>3, <1>g
  <1>7. ASSUME NEW tag \in Tags \ {"none"}, c.op = "rest", CancelEntry(i, tag),
               Goto(a, [c EXCEPT !.tag = tag, !.qty = IF tag = "proven" /\ filled[i] > @
                                                      THEN filled[i] ELSE @])
        PROVE  FillInv'
    <2> DEFINE q == IF tag = "proven" /\ filled[i] > c.qty THEN filled[i] ELSE c.qty
    <2>o. tag = "proven" => order'[i] = "dead"
      BY <1>0, <1>7 DEF CancelEntry
    <2>q. /\ c.qty <= filled[i] => q <= filled[i]
          /\ c.qty <= filled[i] /\ tag = "proven" => q = filled[i]
      <3>1. c.qty \in Nat /\ filled[i] \in Nat
        BY <1>0, LotsAssumption DEF Calls
      <3> QED BY <3>1
    <2> HIDE DEF q
    <2>d. PICK d : d = [c EXCEPT !.tag = tag, !.qty = q]
      OBVIOUS
    <2>1. d.goal = c.goal /\ d.op = "rest" /\ d.tag = tag /\ d.i = i /\ d.qty = q
      BY <1>0, <1>7, <2>d DEF Calls
    <2>2. CallFill(d)'
      BY <1>0, <1>1, <2>o, <2>q, <2>1 DEF CallFill, Settled
    <2>3. Goto(a, d)
      BY <1>7, <2>d DEF q
    <2> QED BY <2>2, <2>3, <1>g
  <1> QED BY <1>4, <1>5, <1>6, <1>7 DEF Exchange

\* A cancel request carries no fill.
LEMMA CancelRequestKeepsFillInv ==
  ASSUME TypeInv, FillInv, NEW a \in Loops, NEW i \in Intents, RequestCancel(a, i)
  PROVE  FillInv'
  <1> USE DEF TypeInv
  <1>0. /\ RecordFill(i) /\ memo[i] \in Memos /\ filled[i] \in 0..Lots
        /\ UNCHANGED <<order, filled>>
    BY DEF RequestCancel, exch, FillInv, RecordType, ExchType, ExchangeTypeOK
  <1>1. \A j \in Intents \ {i} : st'[j] = st[j] /\ memo'[j] = memo[j]
    BY DEF RequestCancel, SetState, SetMemo, RecordType
  <1>2. CASE Goto(a, Await("entry", "cancel", i, 0, FALSE)) /\ SetState(i, "canceling_entry")
    <2>1. CallFill(Await("entry", "cancel", i, 0, FALSE))
      BY <1>0 DEF CallFill, Settled, Await
    <2>2. st'[i] = "canceling_entry"
      BY <1>2 DEF SetState, RecordType
    <2> QED BY <1>0, <1>1, <1>2, <2>1, <2>2, MoveKeepsFillInv
  <1>3. CASE SetMemo(i, [memo[i] EXCEPT !.deferred = TRUE]) /\ UNCHANGED <<st, call>>
    <2>1. memo'[i].qty = memo[i].qty
      BY <1>0, <1>3 DEF SetMemo, RecordType, Memos
    <2> QED BY <1>0, <1>1, <1>3, <2>1 DEF FillInv, RecordFill, CallFill, Settled
  <1> QED BY <1>2, <1>3 DEF RequestCancel

\* Messages carry no fill, and close only what is protected already.
LEMMA MessageKeepsFillInv ==
  ASSUME TypeInv, FillInv, NEW i \in Intents, Message(i)
  PROVE  FillInv'
  <1> USE DEF TypeInv
  <1>0. /\ RecordFill(i) /\ memo[i] \in Memos /\ "msg" \in Loops /\ "tick" \in Loops
        /\ filled[i] \in 0..Lots /\ UNCHANGED <<order, filled>>
    BY DEF Message, Admit, DropReady, StartEntry, RequestCancel, CloseForSafety, exch, Loops,
           FillInv, RecordType, ExchType, ExchangeTypeOK
  <1> DEFINE Elsewhere == \A j \in Intents \ {i} : st'[j] = st[j] /\ memo'[j] = memo[j]
  <1>1. CASE Admit(i)
    <2> DEFINE old == call["tick"].old \/ call["tick"].op \in {"rest", "verify"}
    <2>d. PICK d : d = [call["tick"] EXCEPT !.old = old]
      OBVIOUS
    <2>1. LET c == call["tick"] IN
            /\ d.goal = c.goal /\ d.op = c.op /\ d.tag = c.tag /\ d.i = c.i
            /\ d.qty = c.qty /\ d.rem = c.rem
      BY <1>0, <2>d DEF CallType, CallFine, Calls
    <2>2. CallFill(d) /\ Goto("tick", d)
      BY <1>0, <1>1, <2>d, <2>1 DEF FillInv, CallFill, Settled, Admit, Reload, Goto
    <2>3. Elsewhere /\ st'[i] = "ready_for_quote"
      BY <1>0, <1>1 DEF Admit, SetState, KeepNotes, RecordType
    <2> QED BY <1>0, <2>2, <2>3, MoveKeepsFillInv
  <1>2. CASE DropReady(i)
    <2>1. Elsewhere /\ st'[i] = "entry_terminal" /\ UNCHANGED call
      BY <1>0, <1>2 DEF DropReady, Terminalize, SetState, RecordType
    <2> QED BY <1>0, <2>1 DEF FillInv, RecordFill, CallFill, Settled
  <1>3. CASE StartEntry(i)
    <2>1. CallFill(Await("entry", "submit", i, 0, FALSE))
      BY <1>0 DEF CallFill, Settled, Await
    <2>2. Elsewhere /\ st'[i] = "submitting_entry"
      BY <1>0, <1>3 DEF StartEntry, SetState, KeepNotes, RecordType
    <2> QED BY <1>0, <1>3, <2>1, <2>2, MoveKeepsFillInv DEF StartEntry
  <1>4. CASE RequestCancel("msg", i)
    BY <1>0, <1>4, CancelRequestKeepsFillInv
  <1>5. CASE CloseForSafety(i)
    <2>1. order[i] = "dead" /\ UNCHANGED memo
      BY <1>0, <1>5 DEF CloseForSafety, RecordFill, KeepNotes
    <2>2. CASE Goto("msg", Idle) /\ UNCHANGED st
      BY <1>0, <2>1, <2>2, IdleFill, MoveKeepsFillInv
    <2>3. CASE /\ Goto("msg", Await("close", "position", i, memo[i].qty, FALSE))
               /\ SetState(i, "closing")
      <3>1. CallFill(Await("close", "position", i, memo[i].qty, FALSE))
        BY <2>1 DEF CallFill, Settled, Await
      <3>2. Elsewhere /\ st'[i] = "closing"
        BY <1>0, <2>1, <2>3 DEF SetState, RecordType
      <3> QED BY <1>0, <2>1, <2>3, <3>1, <3>2, MoveKeepsFillInv
    <2> QED BY <1>5, <2>2, <2>3 DEF CloseForSafety, BeginClose
  <1> QED BY <1>1, <1>2, <1>3, <1>4, <1>5 DEF Message

\* A visit of the tick loop starts without a fill or from a settled one.
LEMMA TickKeepsFillInv ==
  ASSUME TypeInv, FillInv, NEW i \in Intents, Tick(i)
  PROVE  FillInv'
  <1> USE DEF TypeInv
  <1>0. /\ RecordFill(i) /\ memo[i] \in Memos /\ "tick" \in Loops
        /\ filled[i] \in 0..Lots /\ UNCHANGED <<order, filled>>
    BY DEF Tick, ReconcileEntry, RequestCancel, Recheck, RecoverProtected, CheckProtected,
           CheckClosing, exch, Loops, FillInv, RecordType, ExchType, ExchangeTypeOK
  <1> DEFINE Elsewhere == \A j \in Intents \ {i} : st'[j] = st[j] /\ memo'[j] = memo[j]
  <1>g. ASSUME NEW c, Goto("tick", c), CallFill(c), UNCHANGED record
        PROVE  FillInv'
    BY <1>0, <1>g, MoveKeepsFillInv DEF record
  <1>1. CASE ReconcileEntry(i)
    <2>1. CallFill(Await("entry", "query", i, 0, FALSE))
      BY <1>0 DEF CallFill, Settled, Await
    <2>2. Elsewhere /\ st'[i] = "reconciling_entry"
      BY <1>0, <1>1 DEF ReconcileEntry, SetState, KeepNotes, RecordType
    <2> QED BY <1>0, <1>1, <2>1, <2>2, MoveKeepsFillInv DEF ReconcileEntry
  <1>2. CASE RequestCancel("tick", i)
    BY <1>0, <1>2, CancelRequestKeepsFillInv
  <1>3. CASE Recheck(i)
    <2>1. /\ CallFill(Await("protfail", "position", i, 0, FALSE))
          /\ CallFill(Await("recheck", "query", i, 0, FALSE))
      BY <1>0 DEF CallFill, Settled, Await
    <2> QED BY <1>3, <1>g, <2>1 DEF Recheck
  <1>4. CASE RecoverProtected(i)
    <2>1. CASE st[i] = "protected"
      <3>1. CallFill(Await("boot", "position", i, memo[i].qty, FALSE))
        BY <1>0, <2>1 DEF CallFill, Settled, Await, RecordFill
      <3> QED BY <1>4, <1>g, <2>1, <3>1 DEF RecoverProtected
    <2>2. CASE st[i] # "protected"
      BY <1>0, <1>4, <2>2 DEF RecoverProtected, record, FillInv, RecordFill, CallFill, Settled
    <2> QED BY <2>1, <2>2
  <1>5. CASE CheckProtected(i)
    <2>1. CallFill(Await("protected", "position", i, memo[i].qty, FALSE))
      BY <1>0, <1>5 DEF CheckProtected, CallFill, Settled, Await, RecordFill
    <2> QED BY <1>5, <1>g, <2>1 DEF CheckProtected
  <1>6. CASE CheckClosing(i)
    <2>1. CallFill(Await("closing", "position", i, memo[i].qty, memo[i].sent))
      BY <1>0, <1>6 DEF CheckClosing, CallFill, Settled, Await, RecordFill
    <2> QED BY <1>6, <1>g, <2>1 DEF CheckClosing
  <1> QED BY <1>1, <1>2, <1>3, <1>4, <1>5, <1>6 DEF Tick

\* The exchange by itself: only an open order fills, so a settled fill stands.
LEMMA ExchangeKeepsFillInv ==
  ASSUME TypeInv, FillInv, ExchangeStep
  PROVE  FillInv'
  <1> USE DEF TypeInv, ExchType, ExchangeTypeOK
  <1>1. UNCHANGED <<st, memo, call>>
    BY DEF ExchangeStep, record
  <1>2. PICK i \in Intents : Fill(i) \/ Trigger(i) \/ OrderEnds(i)
    BY DEF ExchangeStep, ExchangeMoves
  <1>3. \A j \in Intents : /\ filled[j] <= filled'[j]
                           /\ order[j] = "dead" => order'[j] = "dead" /\ filled'[j] = filled[j]
    <2>1. CASE Fill(i)
      BY <2>1, LotsAssumption DEF Fill
    <2>2. CASE Trigger(i) \/ OrderEnds(i)
      BY <2>2 DEF Trigger, OrderEnds
    <2> QED BY <1>2, <2>1, <2>2
  <1>4. \A j \in Intents : RecordFill(j)'
    BY <1>1, <1>3 DEF FillInv, RecordFill
  <1>5. ASSUME NEW a \in Loops
        PROVE  CallFill(call[a])'
    <2>1. CASE call[a].goal \in {"idle", "sync", "protfail"}
      BY <1>1, <2>1 DEF CallFill, Settled
    <2>2. CASE call[a].goal \notin {"idle", "sync", "protfail"}
      <3>1. call[a].i \in Intents /\ call[a].qty \in Nat /\ CallFill(call[a])
        BY <2>2, LotsAssumption DEF CallType, CallFine, Busy, Calls, FillInv
      <3>2. filled[call[a].i] \in Nat /\ filled[call[a].i] <= filled'[call[a].i]
        BY <1>3, <3>1, LotsAssumption
      <3>3. /\ order[call[a].i] = "dead" =>
                 order'[call[a].i] = "dead" /\ filled'[call[a].i] = filled[call[a].i]
            /\ filled'[call[a].i] \in Nat
        BY <1>2, <1>3, <3>1, <3>2, LotsAssumption DEF Fill, Trigger, OrderEnds
      <3> QED BY <1>1, <3>1, <3>2, <3>3 DEF CallFill, Settled
    <2> QED BY <2>1, <2>2
  <1> QED BY <1>4, <1>5 DEF FillInv

\* FillInv is inductive, given that an order is sent once.
LEMMA FillStep == TypeInv /\ EntryInv /\ FillInv /\ [Next]_vars => FillInv'
  <1> SUFFICES ASSUME TypeInv, EntryInv, FillInv, [Next]_vars
               PROVE  FillInv'
    OBVIOUS
  <1> USE DEF TypeInv
  <1>1. ASSUME NEW a \in Loops, CutShort(a)
        PROVE  FillInv'
    <2>1. call' = [b \in Loops |-> Idle] /\ UNCHANGED <<order, filled>>
      BY <1>1 DEF CutShort, Reboot, exch
    <2> DEFINE i == call[a].i
    <2>2. i \in Intents /\ memo[i] \in Memos
      BY <1>1 DEF CutShort, Resumes, CallType, CallFine, Busy, RecordType
    <2>3. /\ \A j \in Intents \ {i} : st'[j] = st[j] /\ memo'[j] = memo[j]
          /\ \/ st'[i] = "integrity_required"
             \/ /\ st'[i] = "protected" /\ order[i] = "dead"
                /\ memo'[i].qty = filled[i]
      BY <1>1, <2>2 DEF CutShort, Resumes, Reboot, SetMemo, RecordType, Memos, FillInv,
             CallFill,
                        Settled
    <2>4. \A j \in Intents : RecordFill(j)'
      BY <2>1, <2>2, <2>3 DEF FillInv, RecordFill
    <2> QED BY <2>1, <2>4 DEF FillInv, CallFill, Settled, Idle
  <1>2. CASE Crash
    <2>1. call' = [b \in Loops |-> Idle] /\ UNCHANGED <<order, filled, st, memo>>
      BY <1>2 DEF Crash, Reboot, exch
    <2> QED BY <2>1 DEF FillInv, RecordFill, CallFill, Settled, Idle
  <1>3. ASSUME NEW i \in Intents, FinalPnl(i)
        PROVE  FillInv'
    <2>1. /\ UNCHANGED <<order, filled, call, memo>>
          /\ \A j \in Intents : st'[j] = st[j] \/ st'[j] = "closed_final"
      BY <1>3 DEF FinalPnl, Resolve, PnlMismatch, DeliverFinal, AckFinal, SetState, record,
             exch,
                  RecordType
    <2> QED BY <2>1 DEF FillInv, RecordFill, CallFill, Settled
  <1>4. CASE TurnAway
    <2>1. UNCHANGED <<order, filled, st, memo>> /\ "tick" \in Loops
      BY <1>4 DEF TurnAway, record, exch, Loops
    <2> DEFINE old == call["tick"].old \/ call["tick"].op \in {"rest", "verify"}
    <2>d. PICK d : d = [call["tick"] EXCEPT !.old = old]
      OBVIOUS
    <2>2. LET c == call["tick"] IN
            /\ d.goal = c.goal /\ d.op = c.op /\ d.tag = c.tag /\ d.i = c.i
            /\ d.qty = c.qty /\ d.rem = c.rem
      BY <2>1, <2>d DEF CallType, CallFine, Calls
    <2>3. CallFill(d) /\ call' = [call EXCEPT !["tick"] = d]
      BY <1>4, <2>1, <2>d, <2>2 DEF FillInv, CallFill, Settled, TurnAway, Reload
    <2>4. \A b \in Loops : CallFill(call'[b])
      BY <2>1, <2>3 DEF CallType, FillInv
    <2> QED BY <2>1, <2>4 DEF FillInv, RecordFill, CallFill, Settled
  <1>5. CASE SyncFetch \/ SyncApply \/ Notify
    <2>1. UNCHANGED <<order, filled, st, memo>> /\ "tick" \in Loops
      BY <1>5 DEF SyncFetch, SyncApply, Notify, record, exch, Loops
    <2>2. call'["msg"] = call["msg"] /\ call'["tick"].goal \in {"idle", "sync"}
      <3>1. CASE SyncFetch
        BY <2>1, <3>1 DEF SyncFetch, Goto, Await, CallType, Loops
      <3>2. CASE SyncApply
        BY <2>1, <3>2 DEF SyncApply, Goto, CallType, CallFine, Calls, Loops
      <3>3. CASE Notify
        BY <2>1, <3>3 DEF Notify, Done, Goto, Idle, CallType, Loops
      <3> QED BY <1>5, <3>1, <3>2, <3>3
    <2> QED BY <2>1, <2>2 DEF FillInv, RecordFill, CallFill, Settled, Loops
  <1>6. CASE UNCHANGED vars
    BY <1>6 DEF vars, record, exch, FillInv, RecordFill, CallFill, Settled
  <1> QED BY <1>1, <1>2, <1>3, <1>4, <1>5, <1>6, HandlerKeepsFillInv, MessageKeepsFillInv,
             TickKeepsFillInv, PrimitiveKeepsFillInv, ExchangeKeepsFillInv DEF Next

\* No fill is recorded when the program starts.
LEMMA FillInit == Init => FillInv
  BY DEF Init, FillInv, RecordFill, CallFill, Settled, Idle

\* The three inductive invariants hold together.
LEMMA FillInvHolds == Spec => [](TypeInv /\ EntryInv /\ FillInv)
  BY EntryInit, EntryStep, FillInit, FillStep, TypeInit, TypeStep, PTL DEF Spec

\* A record is called protected or closing only after the rest of its entry
\* order is proven gone (_settle_live_fill, settle_fill).
THEOREM RemainderProvenGone == Spec => []RemainderGone
  <1>1. FillInv => RemainderGone
    BY DEF FillInv, RecordFill, RemainderGone
  <1> QED BY <1>1, FillInvHolds, PTL

\* The quantity a protected record will close is the quantity that filled,
\* also when lots filled between the lookup and the cancel of the remainder.
THEOREM ProtectedQuantityExact == Spec => []QuantityExact
  <1>1. FillInv => QuantityExact
    BY DEF FillInv, RecordFill, QuantityExact
  <1> QED BY <1>1, FillInvHolds, PTL

\* The fill that protection and close rest on is the whole fill, and no order is
\* left that could add to it.
THEOREM FillSettledExactly == Spec => []SettledExactly
  <1>1. RemainderGone /\ QuantityExact => SettledExactly
    BY DEF SettledExactly
  <1> QED BY <1>1, RemainderProvenGone, ProtectedQuantityExact, PTL

-----------------------------------------------------------------------------
(* Freed records.                                                             *)

\* A record that gave its slot back has consumed its episode: every step that
\* frees it consumes first (_terminalize, _mark_exchange_closed, a final PnL).
THEOREM FreedEpisodeSpent == Spec => []FreedMeansSpent
  <1>1. Init => FreedMeansSpent
    BY DEF Init, FreedMeansSpent, FreeStates
  <1>2. TypeInv /\ FreedMeansSpent /\ [Next]_vars => FreedMeansSpent'
    <2> SUFFICES ASSUME TypeInv, FreedMeansSpent, [Next]_vars
                 PROVE  FreedMeansSpent'
      OBVIOUS
    <2> USE DEF TypeInv, RecordType, FreedMeansSpent, FreeStates, record, SetState, KeepNotes,
            Terminalize
    <2>1. ASSUME NEW a \in Loops, Handler(a)
          PROVE  FreedMeansSpent'
      <3> USE DEF RequireIntegrity, BeginSettle, BeginCancel, BeginClose, FailClosed,
              MarkExchangeClosed
      <3>0. call[a].i \in Intents
        BY <2>1 DEF Handler, Submitted, RemainderCanceled, Unverified, Unguarded, Protected,
             Secured, EntryMissing, EntryFound, EntryCanceled, RecheckQueried, RecheckCanceled,
             RecheckUnproven, RecheckUnfilled, RecheckFilled, SafeClosePending, SafeCloseFlat,
             SafeCloseConfirmed, StillOpen, RecoverOpen, Recovered, FoundFlat, ClosedFlat,
             SendClose, CloseAnswered, Raised, Resumes, Busy, CallType, CallFine
      <3>1. CASE Submitted(a) \/ RemainderCanceled(a) \/ Unverified(a) \/ Unguarded(a)
                 \/ Protected(a) \/ Secured(a)
        BY <3>0, <3>1 DEF Submitted, RemainderCanceled, Unverified, Unguarded, Protected,
               Secured
      <3>2. CASE EntryMissing(a) \/ EntryFound(a) \/ EntryCanceled(a)
        BY <3>0, <3>2 DEF EntryMissing, EntryFound, EntryCanceled
      <3>3. CASE RecheckQueried(a) \/ RecheckCanceled(a) \/ RecheckUnproven(a)
                 \/ RecheckUnfilled(a) \/ RecheckFilled(a)
        BY <3>0, <3>3 DEF RecheckQueried, RecheckCanceled, RecheckUnproven, RecheckUnfilled,
                    RecheckFilled
      <3>4. CASE SafeClosePending(a) \/ SafeCloseFlat(a) \/ SafeCloseConfirmed(a)
        BY <3>0, <3>4 DEF SafeClosePending, SafeCloseFlat, SafeCloseConfirmed
      <3>5. CASE StillOpen(a) \/ RecoverOpen(a) \/ Recovered(a) \/ FoundFlat(a)
        BY <3>0, <3>5 DEF StillOpen, RecoverOpen, Recovered, FoundFlat
      <3>6. CASE ClosedFlat(a) \/ SendClose(a) \/ CloseAnswered(a) \/ Raised(a)
        BY <3>0, <3>6 DEF ClosedFlat, SendClose, CloseAnswered, Raised
      <3> QED BY <2>1, <3>1, <3>2, <3>3, <3>4, <3>5, <3>6 DEF Handler
    <2>2. ASSUME NEW a \in Loops, Exchange(a) \/ CutShort(a)
          PROVE  FreedMeansSpent'
      BY <2>2 DEF Exchange, CutShort, Reboot
    <2>3. ASSUME NEW i \in Intents, Message(i) \/ Tick(i)
          PROVE  FreedMeansSpent'
      BY <2>3 DEF Message, Admit, DropReady, StartEntry, RequestCancel, CloseForSafety,
             BeginClose,
                  Tick, ReconcileEntry, Recheck, RecoverProtected, CheckProtected, CheckClosing
    <2>4. ASSUME NEW i \in Intents, FinalPnl(i)
          PROVE  FreedMeansSpent'
      BY <2>4 DEF FinalPnl, Resolve, PnlMismatch, DeliverFinal, AckFinal
    <2>5. CASE TurnAway \/ SyncFetch \/ SyncApply \/ Notify \/ Crash \/ ExchangeStep
      BY <2>5 DEF TurnAway, SyncFetch, SyncApply, Notify, Crash, Reboot, ExchangeStep
    <2>6. CASE UNCHANGED vars
      BY <2>6 DEF vars
    <2> QED BY <2>1, <2>2, <2>3, <2>4, <2>5, <2>6 DEF Next
  <1> QED BY <1>1, <1>2, TypeInit, TypeStep, PTL DEF Spec
=============================================================================
