----------------------------- MODULE TacticalLive -----------------------------
(* The live lane of the Tactical V2 controller                               *)
(* (src/utils/tactical_v2/controller.py, exchange.py): the life of a frozen   *)
(* intent from admission through entry, protection and close to its final    *)
(* PnL, shared by the two loops of the executor agent and cut by crashes.    *)
(*                                                                           *)
(* The agent runs a message loop ("msg") and a tick loop ("tick") on one     *)
(* event loop (agents/base.py 65-66).  A handler runs alone between two      *)
(* awaits; what it awaits is an exchange primitive in a worker thread.  So a *)
(* handler is a chain of steps: it changes records and calls a primitive     *)
(* (call[a] with tag "none"), the primitive acts (Exchange step, a tag), the *)
(* handler resumes and reads the tag.  Anything may happen in between.       *)
(*                                                                           *)
(* Records are event-sourced: each _persist_record_state sets the field in   *)
(* memory and appends it to the ledger before the next await, so a record is *)
(* its durable self at every step of the model; CutShort is the crash        *)
(* between two appends of one step.  Clock comparisons (visibility deadline, *)
(* TTL, max hold, recheck interval) are free choices.                        *)
EXTENDS TacticalExchange, FiniteSets

CONSTANTS
    MaxConcurrent,  \* slots of the lane (3 in the code)
    MaxCrashes,     \* bound: crashes of one behaviour
    NoIntent        \* not an intent

ASSUME SlotAssumption == MaxConcurrent \in Nat \ {0}
ASSUME CrashAssumption == MaxCrashes \in Nat
ASSUME NoIntentAssumption == NoIntent \notin Intents

VARIABLES
    st,       \* record["state"]; "none" before admission
    why,      \* record["integrity_reason"]
    memo,     \* the other durable fields of the record that steer it
    spent,    \* the intent's episode is consumed
    halt,     \* the integrity halt the ledger holds
    seen,     \* the one the controller's governor object holds
    io,       \* _entry_io_inflight: intents whose entry I/O is claimed
    call,     \* per loop: the handler in progress and its outstanding call
    boot,     \* protected intents recover() has yet to re-verify
    local,    \* owner of the symbol in executor.positions: none, v2 or main
    resync,   \* symbols sync_positions has seen once and not adopted yet
    active,   \* the open positions the running sync_positions fetched
    pnl,      \* where the final PnL of the closed position is
    crashes   \* crashes so far

record == <<st, why, memo, spent>>
sync == <<resync, active>>
host == <<local, sync, pnl>>
gov == <<halt, seen>>
vars == <<record, gov, io, call, boot, host, crashes, exch>>

Loops == {"msg", "tick"}

EntryReconcileStates ==
    {"submitting_entry", "pending_entry", "reconciling_entry",
     "canceling_entry", "partial_fill", "filled_unverified"}
SlotStates == EntryReconcileStates \cup
    {"ready_for_quote", "protected", "closing", "integrity_required"}
FreeStates == {"entry_terminal", "exchange_closed_pending_pnl", "closed_final"}
States == {"none"} \cup SlotStates \cup FreeStates

\* Reasons a halted entry is looked at again, and the subset whose halt the
\* controller may lift by itself.
RecheckReasons ==
    {"entry_reconciliation_unknown", "entry_cancel_unproven",
     "entry_fill_flat_awaiting_final_pnl", "entry_recovery_position_mismatch",
     "tactical_protection_incomplete"}
RecoveryHaltReasons ==
    {"entry_reconciliation_unknown", "entry_cancel_unproven",
     "tactical_protection_incomplete"}
ManualHaltReasons ==
    {"protected_position_mismatch", "position_owner_collision", "pnl_mismatch"}
\* "proof_reason" stands for the reason of a failed proof (missing_tp, ..).
IntegrityReasons == RecheckReasons \cup
    {"none", "protected_position_mismatch", "proof_reason"}

NoHalt == [why |-> "none", who |-> NoIntent]
Halts == {NoHalt} \cup [why : RecoveryHaltReasons \cup ManualHaltReasons,
                        who : Intents \cup {NoIntent}]

\* qty: filled_qty; deferred, canceled: a deferred_cancel_reason, a
\* cancel_reason is recorded; sent: close_order_id; queued:
\* pnl_recovery_queued; failed: recovery_kind = "protection_failure".
BlankMemo == [qty |-> 0, deferred |-> FALSE, canceled |-> FALSE,
              sent |-> FALSE, queued |-> FALSE, failed |-> FALSE]
Memos == [qty : 0..Lots, deferred : BOOLEAN, canceled : BOOLEAN,
          sent : BOOLEAN, queued : BOOLEAN, failed : BOOLEAN]

\* goal: the handler; op: the primitive it awaits; tag: the answer, "none"
\* while the thread runs; qty, rem: the fill it acts on and whether a
\* remainder is open (for "closing": whether close_order_id was set); old:
\* its adapter belongs to a governor object that has been replaced since.
Idle == [goal |-> "idle", op |-> "none", i |-> NoIntent, tag |-> "none",
         qty |-> 0, rem |-> FALSE, old |-> FALSE]
Goals == {"idle", "entry", "recheck", "protfail", "protected", "boot",
          "close", "closing", "sync"}
Ops == {"none", "submit", "query", "cancel", "rest", "verify", "unguard",
        "secure", "position", "clean", "close", "apply", "notify"}
Tags == {"none", "ok", "err", "found", "missing", "proven", "unproven",
         "complete", "incomplete", "flat", "match", "mismatch", "sent",
         "locked"}
Calls == [goal : Goals, op : Ops, i : Intents \cup {NoIntent}, tag : Tags,
          qty : 0..Lots, rem : BOOLEAN, old : BOOLEAN]

\* "memory": queued in _removed_positions_data; "pending": in the trade
\* ledger; "routing": final in the ledger with a live delivery task; "final":
\* final in the ledger only; "handled": delivered, not acknowledged yet;
\* "acked": acknowledged.
PnlStates ==
    {"none", "memory", "pending", "routing", "final", "handled", "acked"}

TypeOK ==
    /\ ExchangeTypeOK
    /\ st \in [Intents -> States]
    /\ why \in [Intents -> IntegrityReasons]
    /\ memo \in [Intents -> Memos]
    /\ spent \in [Intents -> BOOLEAN]
    /\ halt \in Halts /\ seen \in Halts
    /\ io \in SUBSET Intents
    /\ call \in [Loops -> Calls]
    /\ boot \in SUBSET Intents
    /\ local \in [Intents -> {"none", "v2", "main"}]
    /\ resync \in SUBSET Intents
    /\ active \in SUBSET Intents
    /\ pnl \in [Intents -> PnlStates]
    /\ crashes \in 0..MaxCrashes

Init ==
    /\ ExchangeInit
    /\ st = [i \in Intents |-> "none"]
    /\ why = [i \in Intents |-> "none"]
    /\ memo = [i \in Intents |-> BlankMemo]
    /\ spent = [i \in Intents |-> FALSE]
    /\ halt = NoHalt /\ seen = NoHalt
    /\ io = {}
    /\ call = [a \in Loops |-> Idle]
    /\ boot = {}
    /\ local = [i \in Intents |-> "none"]
    /\ resync = {}
    /\ active = {}
    /\ pnl = [i \in Intents |-> "none"]
    /\ crashes = 0

-----------------------------------------------------------------------------
(* Steps of a handler.                                                       *)

Free(a) == call[a] = Idle /\ (a = "msg" => boot = {})
Goto(a, c) == call' = [call EXCEPT ![a] = c]
Await(goal, op, i, qty, rem) ==
    [goal |-> goal, op |-> op, i |-> i, tag |-> "none", qty |-> qty, rem |-> rem,
     old |-> FALSE]
Done(a) == Goto(a, Idle) /\ UNCHANGED io
\* _try_claim_entry_io, and the finally clause of every claimed handler.
ClaimAnyway(i) == io' = io \cup {i}
Claim(i) == i \notin io /\ io' = io \cup {i}
ReleaseNever(a) == Goto(a, Idle) /\ UNCHANGED io
Release(a) == Goto(a, Idle) /\ io' = io \ {call[a].i}

\* a's handler with this goal has the answer to this primitive.
Resumes(a, goals, op) ==
    call[a].goal \in goals /\ call[a].op = op /\ call[a].tag # "none"

SetState(i, s) == st' = [st EXCEPT ![i] = s]
SetMemo(i, fields) == memo' = [memo EXCEPT ![i] = fields]
KeepNotes == UNCHANGED <<why, memo, spent>>

\* governor.activate_integrity_halt overwrites the slot; .._if_clear does not.
ActivateHalt(reason, i) == halt' = [why |-> reason, who |-> i] /\ seen' = halt'
ActivateHaltIfClear(reason, i) ==
    IF seen = NoHalt THEN ActivateHalt(reason, i) ELSE UNCHANGED gov
\* Lift the slot only if it holds this intent's recoverable halt.
LiftOwnHalt(i) ==
    IF seen.why \in RecoveryHaltReasons /\ seen.who = i
    THEN halt' = NoHalt /\ seen' = NoHalt
    ELSE UNCHANGED gov

\* _set_terminal_record and _terminalize: consume the episode, then persist.
TerminalizeRecord(i) == SetState(i, "entry_terminal") /\ KeepNotes
Terminalize(i) ==
    /\ spent' = [spent EXCEPT ![i] = TRUE]
    /\ SetState(i, "entry_terminal")
    /\ UNCHANGED <<why, memo>>

\* Persist integrity_required with its reason.
RequireIntegrity(i, reason) ==
    /\ SetState(i, "integrity_required")
    /\ why' = [why EXCEPT ![i] = reason]
    /\ UNCHANGED <<memo, spent>>

\* _queue_flat_pnl_recovery and the emission of a removed position.
EmitRemoved(i) == pnl' = [pnl EXCEPT ![i] = IF @ = "none" THEN "memory" ELSE @]

\* _mark_exchange_closed: consume the episode, queue the removed position,
\* persist, drop it from executor.positions.  No check of the record's state.
MarkExchangeClosed(i) ==
    /\ spent' = [spent EXCEPT ![i] = TRUE]
    /\ SetState(i, "exchange_closed_pending_pnl")
    /\ IF local[i] = "v2"
       THEN EmitRemoved(i) /\ local' = [local EXCEPT ![i] = "none"]
       ELSE UNCHANGED <<pnl, local>>
    /\ UNCHANGED <<why, memo, sync>>

SlotCountOpen ==
    Cardinality({i \in Intents : st[i] \in SlotStates \ {"closing"}})
SlotCount == Cardinality({i \in Intents : st[i] \in SlotStates})

\* _is_protection_failure_record.
ProtectionFailure(i) ==
    /\ st[i] = "integrity_required"
    /\ \/ why[i] = "tactical_protection_incomplete"
       \/ /\ seen = [why |-> "tactical_protection_incomplete", who |-> i]
          /\ memo[i].qty > 0

\* _entry_halt_due, the clock aside.
RecheckDue(i) ==
    /\ st[i] = "integrity_required"
    /\ why[i] \in RecheckReasons \/ ProtectionFailure(i)

-----------------------------------------------------------------------------
(* The primitives: the worker thread acts and leaves the answer.             *)

Answer(a, tag) == Goto(a, [call[a] EXCEPT !.tag = tag])

Exchange(a) ==
    LET c == call[a]
        i == c.i IN
    /\ c.op # "none" /\ c.tag = "none"
    /\ \E tag \in Tags \ {"none"} :
         \/ c.op = "submit" /\ SubmitEntry(i, tag) /\ Answer(a, tag)
         \/ /\ c.op = "query" /\ QueryEntry(i, tag)
            /\ Goto(a, [c EXCEPT !.tag = tag, !.qty = filled[i],
                                 !.rem = (order[i] = "open")])
         \/ /\ c.op = "cancel" /\ CancelEntry(i, tag)
            /\ Goto(a, [c EXCEPT !.tag = tag, !.qty = filled[i],
                                 !.rem = (tag # "proven")])
         \/ /\ c.op = "rest" /\ CancelEntry(i, tag)
            /\ Goto(a, [c EXCEPT !.tag = tag,
                                 !.qty = IF tag = "proven" /\ filled[i] > @
                                         THEN filled[i] ELSE @])
         \/ c.op = "verify" /\ VerifyProtection(i, tag) /\ Answer(a, tag)
         \/ c.op = "position" /\ FetchPosition(i, c.qty, tag) /\ Answer(a, tag)
         \/ c.op \in {"clean", "unguard"} /\ CancelProtection(i, tag)
            /\ Answer(a, tag)
         \/ c.op \in {"secure", "close"} /\ ClosePosition(i, c.qty, tag)
            /\ Answer(a, tag)
    /\ UNCHANGED <<record, gov, io, boot, host, crashes>>

-----------------------------------------------------------------------------
(* Admission and the frozen plan before any order.                           *)

\* _reload_candidate_read_model_if_stale: every candidate that finds new events
\* in the ledger builds the read model afresh, the governor and the exchange
\* adapter too.  A settle_fill in progress keeps the old ones.
Reload ==
    /\ seen' = halt
    /\ call' = [call EXCEPT !["tick"].old = @ \/ call["tick"].op \in {"rest", "verify"}]

\* The episode was never attempted and the symbol has no position.
Eligible(i) == st[i] = "none" /\ local[i] = "none"

\* handle_candidate for an eligible episode: reload, governor.can_open, then
\* intent_created.  (The loss gates of can_open belong to TacticalGovernor.)
AdmitUnread(i) ==
    /\ Free("msg")
    /\ Eligible(i)
    /\ seen = NoHalt
    /\ \A j \in Intents : st[j] # "integrity_required"
    /\ SlotCount < MaxConcurrent
    /\ SetState(i, "ready_for_quote")
    /\ KeepNotes
    /\ UNCHANGED <<gov, io, call, boot, host, crashes, exch>>
Admit(i) ==
    /\ Free("msg")
    /\ Reload
    /\ Eligible(i)
    /\ seen' = NoHalt
    /\ \A j \in Intents : st[j] # "integrity_required"
    /\ SlotCount < MaxConcurrent
    /\ SetState(i, "ready_for_quote")
    /\ KeepNotes
    /\ UNCHANGED <<halt, io, boot, host, crashes, exch>>

\* ... for a candidate that is turned away.
TurnAway ==
    /\ Free("msg")
    /\ Reload
    /\ UNCHANGED <<record, halt, io, boot, host, crashes, exch>>

\* A quote that already missed the plan, or an opposing structure, ends a
\* plan that has no order yet.
DropUnfilled(i) ==
    /\ Free("msg")
    /\ st[i] \in {"ready_for_quote", "pending_entry"}
    /\ Terminalize(i)
    /\ UNCHANGED <<gov, io, call, boot, host, crashes, exch>>
DropReady(i) ==
    /\ Free("msg")
    /\ st[i] = "ready_for_quote"
    /\ Terminalize(i)
    /\ UNCHANGED <<gov, io, call, boot, host, crashes, exch>>

\* _start_live_entry up to the submit: claim, persist, then send.
StartEntry(i) ==
    /\ Free("msg")
    /\ st[i] = "ready_for_quote"
    /\ Claim(i)
    /\ SetState(i, "submitting_entry")
    /\ KeepNotes
    /\ Goto("msg", Await("entry", "submit", i, 0, FALSE))
    /\ UNCHANGED <<gov, boot, host, crashes, exch>>

\* _cancel_live_entry_owned up to the cancel.
BeginCancel(a, i) ==
    /\ SetState(i, "canceling_entry")
    /\ SetMemo(i, [memo[i] EXCEPT !.canceled = TRUE])
    /\ Goto(a, Await("entry", "cancel", i, 0, FALSE))
    /\ UNCHANGED <<why, spent, io, gov>>

\* _start_live_entry after the submit.  A cancel asked for meanwhile is
\* carried out before the claim is released.  (The claim keeps the record in
\* submitting_entry, so the code's second look at the state never fails.)
Submitted(a) ==
    LET i == call[a].i IN
    /\ Resumes(a, {"entry"}, "submit")
    /\ \/ /\ st[i] = "submitting_entry" /\ call[a].tag = "err"
          /\ SetState(i, "reconciling_entry") /\ KeepNotes
          /\ Release(a) /\ UNCHANGED gov
       \/ /\ st[i] = "submitting_entry" /\ call[a].tag = "ok"
          /\ ~memo[i].deferred
          /\ SetState(i, "pending_entry") /\ KeepNotes
          /\ Release(a) /\ UNCHANGED gov
       \/ /\ st[i] = "submitting_entry" /\ call[a].tag = "ok"
          /\ memo[i].deferred
          /\ BeginCancel(a, i)
    /\ UNCHANGED <<boot, host, crashes, exch>>

-----------------------------------------------------------------------------
(* A fill: cancel the remainder, prove the protection, or fail closed.       *)

\* _settle_live_fill and settle_fill up to the first primitive.
BeginSettleAdding(a, goal, i, qty, rem) ==
    /\ SetState(i, "filled_unverified")
    /\ SetMemo(i, [memo[i] EXCEPT !.qty = @ + qty])
    /\ Goto(a, Await(goal, IF rem THEN "rest" ELSE "verify", i, qty, rem))
    /\ UNCHANGED <<why, spent, io, gov>>
BeginSettleOpen(a, goal, i, qty, rem) ==
    /\ SetState(i, "filled_unverified")
    /\ SetMemo(i, [memo[i] EXCEPT !.qty = qty])
    /\ Goto(a, Await(goal, "verify", i, qty, rem))
    /\ UNCHANGED <<why, spent, io, gov>>
BeginSettle(a, goal, i, qty, rem) ==
    /\ SetState(i, "filled_unverified")
    /\ SetMemo(i, [memo[i] EXCEPT !.qty = qty])
    /\ Goto(a, Await(goal, IF rem THEN "rest" ELSE "verify", i, qty, rem))
    /\ UNCHANGED <<why, spent, io, gov>>

\* LiveExchangeAdapter._fail_closed: the halt replaces whatever the slot
\* held, then the algos are cancelled and the position is closed.  An adapter
\* that was replaced halts the ledger and its own governor only.
FailClosed(a) ==
    /\ halt' = [why |-> "tactical_protection_incomplete", who |-> call[a].i]
    /\ seen' = IF call[a].old THEN seen ELSE halt'
    /\ Goto(a, [call[a] EXCEPT !.op = "unguard", !.tag = "none", !.old = FALSE])
    /\ UNCHANGED <<record, io>>

\* ... the close is sent whether or not the algos could be cancelled.
Unguarded(a) ==
    /\ Resumes(a, {"entry", "recheck", "boot"}, "unguard")
    /\ Goto(a, [call[a] EXCEPT !.op = "secure", !.tag = "none"])
    /\ UNCHANGED <<record, gov, io, boot, host, crashes, exch>>

RemainderCanceled(a) ==
    /\ Resumes(a, {"entry", "recheck"}, "rest")
    /\ \/ /\ call[a].tag = "proven"
          /\ Goto(a, [call[a] EXCEPT !.op = "verify", !.tag = "none"])
          /\ UNCHANGED <<record, io, gov>>
       \/ call[a].tag = "unproven" /\ FailClosed(a)
    /\ UNCHANGED <<boot, host, crashes, exch>>

\* Verification failed, or raised: an exception ends the handler and leaves
\* the record as it is.
Unverified(a) ==
    /\ Resumes(a, {"entry", "recheck", "boot"}, "verify")
    /\ \/ call[a].tag = "incomplete" /\ FailClosed(a)
       \/ /\ call[a].tag = "err" /\ call[a].goal # "boot"
          /\ Release(a) /\ UNCHANGED <<record, gov>>
       \/ /\ call[a].tag = "err" /\ call[a].goal = "boot"
          /\ Done(a) /\ UNCHANGED <<record, gov>>
    /\ UNCHANGED <<boot, host, crashes, exch>>

\* _persist_common_position: hand the position to executor.positions, unless
\* the symbol already has another owner.
PersistCommonPosition(i) ==
    IF local[i] = "main"
    THEN ActivateHalt("position_owner_collision", i) /\ UNCHANGED local
    ELSE local' = [local EXCEPT ![i] = "v2"] /\ UNCHANGED gov

\* _settle_live_fill with a complete proof; a recheck then lifts its own halt.
Protected(a) ==
    LET i == call[a].i IN
    /\ Resumes(a, {"entry", "recheck"}, "verify")
    /\ call[a].tag = "complete"
    /\ SetState(i, "protected")
    /\ SetMemo(i, [memo[i] EXCEPT !.qty = call[a].qty])
    /\ IF call[a].goal = "recheck" /\ local[i] # "main"
       THEN local' = [local EXCEPT ![i] = "v2"] /\ LiftOwnHalt(i)
       ELSE PersistCommonPosition(i)
    /\ Release(a)
    /\ UNCHANGED <<why, spent, boot, sync, pnl, crashes, exch>>

\* _settle_live_fill and _recover_protected after _fail_closed; the latter
\* records the reason of the failed proof.
SecuredQuietly(a) ==
    LET i == call[a].i IN
    /\ Resumes(a, {"entry", "recheck", "boot"}, "secure")
    /\ IF call[a].goal = "boot"
       THEN UNCHANGED record /\ Done(a) /\ boot' = boot \ {i}
       ELSE /\ RequireIntegrity(i, "tactical_protection_incomplete")
            /\ Release(a) /\ UNCHANGED boot
    /\ UNCHANGED <<gov, host, crashes, exch>>
Secured(a) ==
    LET i == call[a].i IN
    /\ Resumes(a, {"entry", "recheck", "boot"}, "secure")
    /\ IF call[a].goal = "boot"
       THEN RequireIntegrity(i, "proof_reason") /\ Done(a) /\ boot' = boot \ {i}
       ELSE /\ RequireIntegrity(i, "tactical_protection_incomplete")
            /\ Release(a) /\ UNCHANGED boot
    /\ UNCHANGED <<gov, host, crashes, exch>>

-----------------------------------------------------------------------------
(* Reconciling and cancelling an entry.                                      *)

\* _reconcile_live_entry: tick, under the claim.
ReconcileEntry(i) ==
    /\ Free("tick") /\ boot = {}
    /\ st[i] \in EntryReconcileStates
    /\ Claim(i)
    /\ SetState(i, "reconciling_entry")
    /\ KeepNotes
    /\ Goto("tick", Await("entry", "query", i, 0, FALSE))
    /\ UNCHANGED <<gov, boot, host, crashes, exch>>

\* _reconcile_live_entry_owned: no order in sight.  Inside the visibility
\* grace it stays; after it, fail closed.
EntryMissing(a) ==
    LET i == call[a].i IN
    /\ Resumes(a, {"entry"}, "query") /\ call[a].tag = "missing"
    /\ \/ SetState(i, "reconciling_entry") /\ KeepNotes /\ UNCHANGED gov
       \/ /\ RequireIntegrity(i, "entry_reconciliation_unknown")
          /\ ActivateHaltIfClear("entry_reconciliation_unknown", i)
    /\ Release(a)
    /\ UNCHANGED <<boot, host, crashes, exch>>

\* _reconcile_live_entry_owned: the order is there.
EntryFound(a) ==
    LET i == call[a].i IN
    /\ Resumes(a, {"entry"}, "query") /\ call[a].tag = "found"
    /\ \/ /\ call[a].qty > 0
          /\ BeginSettle(a, "entry", i, call[a].qty, call[a].rem)
       \/ /\ call[a].qty = 0 /\ ~call[a].rem
          /\ Terminalize(i) /\ Release(a) /\ UNCHANGED gov
       \/ /\ call[a].qty = 0 /\ call[a].rem /\ memo[i].deferred
          /\ BeginCancel(a, i)
       \/ /\ call[a].qty = 0 /\ call[a].rem /\ ~memo[i].deferred
          /\ SetState(i, "pending_entry") /\ KeepNotes
          /\ Release(a) /\ UNCHANGED gov
    /\ UNCHANGED <<boot, host, crashes, exch>>

\* _cancel_live_entry: from a quote or a structure ("msg"), or the TTL
\* ("tick", which leaves partial and unverified fills to reconciliation).
\* While another handler owns the entry's I/O the request is only recorded.
RequestCancel(a, i) ==
    /\ Free(a) /\ boot = {}
    /\ st[i] \in EntryReconcileStates
    /\ a = "tick" => st[i] \notin {"filled_unverified", "partial_fill"}
    /\ \/ /\ Claim(i)
          /\ SetState(i, "canceling_entry")
          /\ SetMemo(i, [memo[i] EXCEPT !.canceled = TRUE])
          /\ Goto(a, Await("entry", "cancel", i, 0, FALSE))
       \/ /\ i \in io
          /\ SetMemo(i, [memo[i] EXCEPT !.deferred = TRUE])
          /\ UNCHANGED <<st, io, call>>
    /\ UNCHANGED <<why, spent, gov, boot, host, crashes, exch>>

\* _cancel_live_entry_owned after the cancel.
EntryCanceled(a) ==
    LET i == call[a].i IN
    /\ Resumes(a, {"entry"}, "cancel")
    /\ \/ /\ call[a].tag = "unproven"
          /\ RequireIntegrity(i, "entry_cancel_unproven")
          /\ ActivateHaltIfClear("entry_cancel_unproven", i)
          /\ Release(a)
       \/ /\ call[a].tag = "proven" /\ call[a].qty > 0
          /\ BeginSettle(a, "entry", i, call[a].qty, FALSE)
       \/ /\ call[a].tag = "proven" /\ call[a].qty = 0
          /\ Terminalize(i) /\ Release(a) /\ UNCHANGED gov
    /\ UNCHANGED <<boot, host, crashes, exch>>

-----------------------------------------------------------------------------
(* Rechecking a halted entry (every 30 s, tick).                             *)

\* _recheck_entry_integrity_halt: a protection failure looks at the position
\* it closed, any other halt at the entry order.
Recheck(i) ==
    /\ Free("tick") /\ boot = {}
    /\ RecheckDue(i)
    /\ Claim(i)
    /\ ActivateHaltIfClear("entry_reconciliation_unknown", i)
    /\ Goto("tick", IF ProtectionFailure(i)
                    THEN Await("protfail", "position", i, 0, FALSE)
                    ELSE Await("recheck", "query", i, 0, FALSE))
    /\ UNCHANGED <<record, boot, host, crashes, exch>>

\* _recheck_entry_integrity_halt_owned after the lookup.
RecheckQueried(a) ==
    LET i == call[a].i IN
    /\ Resumes(a, {"recheck"}, "query")
    /\ \/ /\ call[a].tag = "missing"
          /\ RequireIntegrity(i, "entry_reconciliation_unknown") /\ Release(a)
       \* unfilled and to be cancelled (an old request, or the TTL)
       \/ /\ call[a].tag = "found" /\ call[a].qty = 0 /\ call[a].rem
          /\ Goto(a, [call[a] EXCEPT !.op = "cancel", !.tag = "none"])
          /\ UNCHANGED <<record, io>>
       \* filled, terminal, or open and still wanted: look at the position
       \/ /\ call[a].tag = "found"
          /\ call[a].qty = 0 /\ call[a].rem =>
                ~(memo[i].deferred \/ memo[i].canceled)
          /\ Goto(a, [call[a] EXCEPT !.op = "position", !.tag = "none"])
          /\ UNCHANGED <<record, io>>
    /\ UNCHANGED <<gov, boot, host, crashes, exch>>

\* _recover_exact_unfilled_entry_halt after its cancel.
RecheckCanceled(a) ==
    LET i == call[a].i IN
    /\ Resumes(a, {"recheck"}, "cancel")
    /\ \/ /\ call[a].tag = "unproven"
          /\ RequireIntegrity(i, "entry_reconciliation_unknown") /\ Release(a)
       \/ /\ call[a].tag = "proven"
          /\ Goto(a, [call[a] EXCEPT !.op = "position", !.tag = "none"])
          /\ UNCHANGED <<record, io>>
    /\ UNCHANGED <<gov, boot, host, crashes, exch>>

\* The position could not be read, or is not the one the order explains.
RecheckUnproven(a) ==
    LET i == call[a].i IN
    /\ Resumes(a, {"recheck"}, "position")
    /\ \/ /\ call[a].tag = "err"
          /\ RequireIntegrity(i, "entry_reconciliation_unknown")
       \/ /\ call[a].tag = "mismatch"
          /\ RequireIntegrity(i, "entry_recovery_position_mismatch")
    /\ Release(a)
    /\ UNCHANGED <<gov, boot, host, crashes, exch>>

\* _recover_exact_unfilled_entry_halt with a flat position: terminal, or back
\* to pending; either way its own halt is lifted.
RecheckUnfilled(a) ==
    LET i == call[a].i IN
    /\ Resumes(a, {"recheck"}, "position")
    /\ call[a].tag = "flat" /\ call[a].qty = 0
    /\ IF call[a].rem
       THEN SetState(i, "pending_entry") /\ KeepNotes
       ELSE Terminalize(i)
    /\ LiftOwnHalt(i)
    /\ Release(a)
    /\ UNCHANGED <<boot, host, crashes, exch>>

\* _recover_exact_filled_entry_halt: the fill is already flat, wait for its
\* PnL; or the position is exactly the fill, settle it.
RecheckFilled(a) ==
    LET i == call[a].i IN
    /\ Resumes(a, {"recheck"}, "position") /\ call[a].qty > 0
    /\ \/ /\ call[a].tag = "flat"
          /\ SetState(i, "integrity_required")
          /\ why' = [why EXCEPT ![i] = "entry_fill_flat_awaiting_final_pnl"]
          /\ SetMemo(i, [memo[i] EXCEPT !.qty = call[a].qty, !.queued = TRUE])
          /\ EmitRemoved(i)
          /\ Release(a) /\ UNCHANGED <<spent, gov>>
       \/ /\ call[a].tag = "match"
          /\ BeginSettle(a, "recheck", i, call[a].qty, call[a].rem)
          /\ UNCHANGED pnl
    /\ UNCHANGED <<boot, local, sync, crashes, exch>>

\* _recover_protection_failure_halt: not provably flat, try again later.
SafeClosePending(a) ==
    /\ \/ Resumes(a, {"protfail"}, "position") /\ call[a].tag # "flat"
       \/ Resumes(a, {"protfail"}, "clean") /\ call[a].tag = "err"
    /\ RequireIntegrity(call[a].i, "tactical_protection_incomplete")
    /\ Release(a)
    /\ UNCHANGED <<gov, boot, host, crashes, exch>>

SafeCloseFlat(a) ==
    /\ Resumes(a, {"protfail"}, "position") /\ call[a].tag = "flat"
    /\ Goto(a, [call[a] EXCEPT !.op = "clean", !.tag = "none"])
    /\ UNCHANGED <<record, gov, io, boot, host, crashes, exch>>

\* ... flat and cleaned: queue the PnL, free the slot.
SafeCloseConfirmed(a) ==
    LET i == call[a].i IN
    /\ Resumes(a, {"protfail"}, "clean") /\ call[a].tag = "ok"
    /\ IF ProtectionFailure(i)
       THEN /\ spent' = [spent EXCEPT ![i] = TRUE]
            /\ SetState(i, "exchange_closed_pending_pnl")
            /\ SetMemo(i, [memo[i] EXCEPT !.queued = TRUE, !.failed = TRUE])
            /\ EmitRemoved(i) /\ UNCHANGED why
       ELSE UNCHANGED <<record, pnl>>
    /\ Release(a)
    /\ UNCHANGED <<gov, boot, local, sync, crashes, exch>>

-----------------------------------------------------------------------------
(* A protected position and its close.                                       *)

\* _reconcile_protected (tick) and, after a restart, _recover_protected.
CheckProtected(i) ==
    /\ Free("tick") /\ boot = {}
    /\ st[i] = "protected"
    /\ Goto("tick", Await("protected", "position", i, memo[i].qty, FALSE))
    /\ UNCHANGED <<record, gov, io, boot, host, crashes, exch>>

RecoverProtected(i) ==
    /\ Free("tick") /\ i \in boot
    /\ IF st[i] = "protected"
       THEN /\ Goto("tick", Await("boot", "position", i, memo[i].qty, FALSE))
            /\ UNCHANGED boot
       ELSE boot' = boot \ {i} /\ UNCHANGED call
    /\ UNCHANGED <<record, gov, io, host, crashes, exch>>

\* _close_intent up to the position lookup; "sent" answers a repeated close.
BeginClose(a, i) ==
    IF st[i] \in {"protected", "closing"} /\ ~(st[i] = "closing" /\ memo[i].sent)
    THEN /\ SetState(i, "closing")
         /\ Goto(a, Await("close", "position", i, memo[i].qty, FALSE))
    ELSE Goto(a, Idle) /\ UNCHANGED st

\* close_for_safety: a risk alert or a daily hard stop ("msg").
CloseForSafety(i) ==
    /\ Free("msg")
    /\ st[i] \in {"protected", "closing"} /\ local[i] = "v2"
    /\ BeginClose("msg", i)
    /\ KeepNotes
    /\ UNCHANGED <<gov, io, boot, host, crashes, exch>>

\* _reconcile_closing (tick); rem remembers whether a close order was known.
CheckClosing(i) ==
    /\ Free("tick") /\ boot = {}
    /\ st[i] = "closing"
    /\ Goto("tick", Await("closing", "position", i, memo[i].qty, memo[i].sent))
    /\ UNCHANGED <<record, gov, io, boot, host, crashes, exch>>

\* The position is still open: nothing to do, max hold, or close again.
StillOpen(a) ==
    LET i == call[a].i IN
    /\ Resumes(a, {"protected", "closing"}, "position")
    /\ call[a].tag \in {"match", "mismatch"}
    /\ \/ call[a].goal = "protected" /\ Done(a) /\ UNCHANGED st
       \/ call[a].goal = "protected" /\ BeginClose(a, i) /\ UNCHANGED io
       \/ call[a].goal = "closing" /\ call[a].rem /\ Done(a) /\ UNCHANGED st
       \/ /\ call[a].goal = "closing" /\ ~call[a].rem
          /\ BeginClose(a, i) /\ UNCHANGED io
    /\ KeepNotes
    /\ UNCHANGED <<gov, boot, host, crashes, exch>>

\* _recover_protected: the position is the recorded one, prove it again; or
\* it is not, and only an operator may say why.
RecoverOpen(a) ==
    LET i == call[a].i IN
    /\ Resumes(a, {"boot"}, "position")
    /\ \/ /\ call[a].tag = "match"
          /\ Goto(a, [call[a] EXCEPT !.op = "verify", !.tag = "none"])
          /\ UNCHANGED <<record, gov, io, boot>>
       \/ /\ call[a].tag = "mismatch"
          /\ RequireIntegrity(i, "protected_position_mismatch")
          /\ ActivateHalt("protected_position_mismatch", i)
          /\ Done(a) /\ boot' = boot \ {i}
    /\ UNCHANGED <<host, crashes, exch>>

\* _recover_protected with a complete proof.
Recovered(a) ==
    LET i == call[a].i IN
    /\ Resumes(a, {"boot"}, "verify") /\ call[a].tag = "complete"
    /\ PersistCommonPosition(i)
    /\ boot' = IF local[i] = "main" THEN boot ELSE boot \ {i}
    /\ Done(a)
    /\ UNCHANGED <<record, sync, pnl, crashes, exch>>

\* The position is flat: sweep what is left of the protection.
FoundFlat(a) ==
    /\ Resumes(a, {"protected", "boot", "close", "closing"}, "position")
    /\ call[a].tag = "flat"
    /\ Goto(a, [call[a] EXCEPT !.op = "clean", !.tag = "none"])
    /\ UNCHANGED <<record, gov, io, boot, host, crashes, exch>>

\* ... and record the close.  Only the protected paths look at the record
\* again after the await.
ClosedFlat(a) ==
    LET i == call[a].i IN
    /\ Resumes(a, {"protected", "boot", "close", "closing"}, "clean")
    /\ call[a].tag = "ok"
    /\ IF call[a].goal \in {"protected", "boot"} /\ st[i] # "protected"
       THEN UNCHANGED <<record, host>>
       ELSE MarkExchangeClosed(i)
    /\ boot' = IF call[a].goal = "boot" THEN boot \ {i} ELSE boot
    /\ Done(a)
    /\ UNCHANGED <<gov, crashes, exch>>

\* _close_intent: the position is open, send the close.
SendClose(a) ==
    /\ Resumes(a, {"close"}, "position")
    /\ call[a].tag \in {"match", "mismatch"}
    /\ Goto(a, [call[a] EXCEPT !.op = "close", !.tag = "none"])
    /\ UNCHANGED <<record, gov, io, boot, host, crashes, exch>>

\* _close_intent after close_tactical_position, whatever the record says now.
CloseAnswered(a) ==
    LET i == call[a].i IN
    /\ Resumes(a, {"close"}, "close")
    /\ \/ call[a].tag = "flat" /\ MarkExchangeClosed(i)
       \/ /\ call[a].tag \in {"sent", "locked"}
          /\ SetState(i, "closing")
          /\ SetMemo(i, [memo[i] EXCEPT !.sent = @ \/ call[a].tag = "sent"])
          /\ UNCHANGED <<why, spent, host>>
    /\ Done(a)
    /\ UNCHANGED <<gov, boot, crashes, exch>>

\* A primitive raised: the handler ends, the record stays, a later tick (or,
\* during recovery, a restart) tries again.
Raised(a) ==
    /\ call[a].goal \in {"protected", "boot", "close", "closing"}
    /\ call[a].op \in {"position", "clean", "close"} /\ call[a].tag = "err"
    /\ Done(a)
    /\ UNCHANGED <<record, gov, boot, host, crashes, exch>>

-----------------------------------------------------------------------------
(* The executor agent around the controller: the position sync and the final *)
(* PnL of what has closed.                                                   *)

\* sync_positions runs in a thread: it fetches the open positions ...
SyncFetch ==
    /\ Free("tick") /\ boot = {}
    /\ active' = {i \in Intents : held[i] # 0}
    /\ Goto("tick", Await("sync", "apply", NoIntent, 0, FALSE))
    /\ UNCHANGED <<record, gov, io, boot, local, resync, pnl, crashes, exch>>

\* ... and compares them with executor.positions as it is then.  A local
\* position the fetch did not list is removed; a listed one nobody owns is
\* adopted for Main the second time it is seen.
SyncApply ==
    LET gone == {i \in Intents : local[i] # "none" /\ i \notin active}
        lost == {i \in active : local[i] = "none"} IN
    /\ call["tick"].goal = "sync" /\ call["tick"].op = "apply"
    /\ local' = [i \in Intents |-> IF i \in gone THEN "none"
                                  ELSE IF i \in lost \cap resync THEN "main"
                                  ELSE local[i]]
    /\ resync' = (lost \ resync) \cup {i \in resync \cap active : i \notin lost}
    /\ pnl' = [i \in Intents |->
                 IF i \in gone /\ local[i] = "v2" /\ pnl[i] = "none"
                 THEN "memory" ELSE pnl[i]]
    /\ Goto("tick", [call["tick"] EXCEPT !.op = "notify"])
    /\ active' = {}
    /\ UNCHANGED <<record, gov, io, boot, crashes, exch>>

\* _notify_removed_positions: the queued closes become pending in the trade
\* ledger, each with a resolver task of its own.
Notify ==
    /\ call["tick"].goal = "sync" /\ call["tick"].op = "notify"
    /\ pnl' = [i \in Intents |-> IF pnl[i] = "memory" THEN "pending" ELSE pnl[i]]
    /\ Done("tick")
    /\ UNCHANGED <<record, gov, boot, local, sync, crashes, exch>>

\* _resolve_external_close_async and auto_resolve_pending: the fills of entry
\* and close are found and the final is written to the trade ledger.
Resolve(i) ==
    /\ pnl[i] = "pending" /\ held[i] = 0 /\ filled[i] > 0
    /\ pnl' = [pnl EXCEPT ![i] = "routing"]
    /\ UNCHANGED <<record, gov, io, call, boot, local, sync, crashes, exch>>

\* ... or they contradict the ledger: handle_pnl_mismatch.
PnlMismatch(i) ==
    /\ pnl[i] = "pending" /\ Faulty
    /\ ActivateHalt("pnl_mismatch", NoIntent)
    /\ UNCHANGED <<record, io, call, boot, host, crashes, order, filled, held,
                   algos, closeOrder, submits>>

\* _is_entry_flat_recovery_record.
FlatRecovery(i) ==
    \/ /\ st[i] \in {"integrity_required", "closed_final"}
       /\ why[i] = "entry_fill_flat_awaiting_final_pnl"
    \/ /\ memo[i].failed
       /\ st[i] \in {"exchange_closed_pending_pnl", "closed_final"}

\* should_replay_durable_pnl_final.
ShouldReplay(i) ==
    \/ st[i] \in {"exchange_closed_pending_pnl", "closed_final"}
    \/ /\ st[i] = "integrity_required"
       /\ memo[i].queued \/ why[i] = "entry_fill_flat_awaiting_final_pnl"

\* _route_pnl_event: the resolver's task, or the replay of a final nobody
\* acknowledged, hands it to handle_pnl_resolution.
DeliverFinal(i) ==
    /\ \/ pnl[i] = "routing"
       \/ pnl[i] = "final" /\ Free("tick") /\ ShouldReplay(i)
    /\ pnl' = [pnl EXCEPT ![i] = "handled"]
    /\ IF st[i] \in {"protected", "closing", "integrity_required",
                     "exchange_closed_pending_pnl"}
       THEN /\ spent' = [spent EXCEPT ![i] = TRUE]
            /\ SetState(i, "closed_final")
            /\ IF FlatRecovery(i) THEN LiftOwnHalt(i) ELSE UNCHANGED gov
       ELSE UNCHANGED <<st, spent, gov>>
    /\ UNCHANGED <<why, memo, io, call, boot, local, sync, crashes, exch>>

\* ... publishes it and acknowledges it in the ledger.
AckFinal(i) ==
    /\ pnl[i] = "handled"
    /\ pnl' = [pnl EXCEPT ![i] = "acked"]
    /\ UNCHANGED <<record, gov, io, call, boot, local, sync, crashes, exch>>

-----------------------------------------------------------------------------
(* Crashes.  Records, governor, positions file and ledgers survive; the      *)
(* loops, the claims, the sync counters and the queue of removed positions   *)
(* do not.  _requeue_durable_pnl_recoveries refills that queue for records   *)
(* that carry a recovery snapshot, _recover_durable_entry_flat_final_halt    *)
(* lifts the halt of a recovery that was final already.                      *)

SurvivesUnrouted(p, queued) ==
    CASE p \in {"none", "memory"} -> IF queued THEN "memory" ELSE "none"
      [] p \in {"routing", "handled"} -> "none"
      [] OTHER -> p
Survives(p, queued) ==
    CASE p \in {"none", "memory"} -> IF queued THEN "memory" ELSE "none"
      [] p \in {"routing", "handled"} -> "final"
      [] OTHER -> p

\* The process dies and recover() begins, with these records and this halt.
Reboot(states, h) ==
    /\ crashes < MaxCrashes /\ crashes' = crashes + 1
    /\ st' = states
    /\ call' = [a \in Loops |-> Idle]
    /\ io' = {} /\ resync' = {} /\ active' = {}
    /\ boot' = {i \in Intents : states[i] = "protected"}
    /\ pnl' = [i \in Intents |-> Survives(pnl[i], memo[i].queued)]
    /\ halt' = IF /\ h.why \in RecoveryHaltReasons /\ h.who # NoIntent
                  /\ \E i \in Intents : /\ i = h.who /\ FlatRecovery(i)
                                         /\ states[i] = "closed_final"
               THEN NoHalt ELSE h
    /\ seen' = halt'
    /\ UNCHANGED <<spent, local, exch>>

CrashRequeues ==
    /\ Reboot([i \in Intents |-> IF st[i] = "submitting_entry"
                                 THEN "ready_for_quote" ELSE st[i]], halt)
    /\ UNCHANGED <<why, memo>>
Crash == Reboot(st, halt) /\ UNCHANGED <<why, memo>>

\* The crash falls between two appends of a step: the record is protected and
\* executor.positions does not have it, or integrity is required and the
\* governor does not halt.
CutShort(a) ==
    LET i == call[a].i IN
    \/ /\ Resumes(a, {"entry", "recheck"}, "verify")
       /\ call[a].tag = "complete"
       /\ Reboot([st EXCEPT ![i] = "protected"], halt)
       /\ SetMemo(i, [memo[i] EXCEPT !.qty = call[a].qty]) /\ UNCHANGED why
    \/ /\ \/ Resumes(a, {"entry"}, "query") /\ call[a].tag = "missing"
          \/ Resumes(a, {"entry"}, "cancel") /\ call[a].tag = "unproven"
       /\ Reboot([st EXCEPT ![i] = "integrity_required"], halt)
       /\ why' = [why EXCEPT ![i] = IF call[a].op = "query"
                                   THEN "entry_reconciliation_unknown"
                                   ELSE "entry_cancel_unproven"]
       /\ UNCHANGED memo

-----------------------------------------------------------------------------
Handler(a) ==
    \/ Submitted(a) \/ RemainderCanceled(a) \/ Unverified(a) \/ Unguarded(a)
    \/ Protected(a) \/ Secured(a)
    \/ EntryMissing(a) \/ EntryFound(a) \/ EntryCanceled(a)
    \/ RecheckQueried(a) \/ RecheckCanceled(a) \/ RecheckUnproven(a)
    \/ RecheckUnfilled(a) \/ RecheckFilled(a)
    \/ SafeClosePending(a) \/ SafeCloseFlat(a) \/ SafeCloseConfirmed(a)
    \/ StillOpen(a) \/ RecoverOpen(a) \/ Recovered(a)
    \/ FoundFlat(a) \/ ClosedFlat(a) \/ SendClose(a) \/ CloseAnswered(a)
    \/ Raised(a)

Tick(i) ==
    \/ ReconcileEntry(i) \/ RequestCancel("tick", i) \/ Recheck(i)
    \/ RecoverProtected(i) \/ CheckProtected(i) \/ CheckClosing(i)

Message(i) ==
    \/ Admit(i) \/ DropReady(i) \/ StartEntry(i)
    \/ RequestCancel("msg", i) \/ CloseForSafety(i)

FinalPnl(i) == Resolve(i) \/ PnlMismatch(i) \/ DeliverFinal(i) \/ AckFinal(i)

ExchangeStep ==
    ExchangeMoves /\ UNCHANGED <<record, gov, io, call, boot, host, crashes>>

Next ==
    \/ \E a \in Loops : Exchange(a) \/ Handler(a) \/ CutShort(a)
    \/ \E i \in Intents : Message(i) \/ Tick(i) \/ FinalPnl(i)
    \/ TurnAway
    \/ SyncFetch \/ SyncApply \/ Notify
    \/ Crash
    \/ ExchangeStep

Spec == Init /\ [][Next]_vars

\* The code's scheduling: both loops run on and the threads they wait for
\* return; tick visits every record again and again, finds an entry past its
\* TTL in the end, and syncs every sixth time; the resolver is retried until
\* the fills are there.  Messages, the market, faults and crashes owe nothing.
Fairness ==
    /\ WF_vars(Exchange("msg") \/ Handler("msg"))
    /\ WF_vars(Exchange("tick") \/ Handler("tick") \/ SyncApply \/ Notify)
    /\ \A i \in Intents :
         /\ SF_vars(\/ ReconcileEntry(i) \/ Recheck(i) \/ RecoverProtected(i)
                    \/ CheckProtected(i) \/ CheckClosing(i))
         /\ SF_vars(RequestCancel("tick", i))
         /\ SF_vars(Resolve(i) \/ DeliverFinal(i) \/ AckFinal(i))
    /\ SF_vars(SyncFetch)

FairSpec == Spec /\ Fairness

-----------------------------------------------------------------------------
(* Properties.                                                               *)

Exposed(i) == order[i] = "open" \/ held[i] # 0
Works(i) == \E a \in Loops : call[a].i = i

\* The entry order of an intent is sent at most once, whatever answer is lost
\* and wherever the process dies: _start_live_entry persists submitting_entry
\* before it sends, and no recovery path sends again.
EntryOnce == \A i \in Intents : submits[i] <= 1

\* At most one of the two loops works on the entry of an intent at a time:
\* _try_claim_entry_io against reconcile, cancel, recheck and submit.
Owns(a) == call[a].goal \in {"entry", "recheck", "protfail"}
ClaimExclusive ==
    \A a, b \in Loops : Owns(a) /\ Owns(b) /\ call[a].i = call[b].i => a = b

\* As long as an intent has a live order or an open position its record holds
\* a slot: nothing is freed on an unproven cancel or a stale answer.  (False
\* when an entry can fill in part, see live_remainder.)
SlotCoversExposure == \A i \in Intents : Exposed(i) => st[i] \in SlotStates

\* The lane never has more live orders and positions than slots, although
\* admission counts records and not what is on the exchange.
ExposureBounded == Cardinality({i \in Intents : Exposed(i)}) <= MaxConcurrent

\* A record that gave its slot back has consumed its episode, so the same
\* signal cannot come back for the slot it freed.
FreedMeansSpent == \A i \in Intents : st[i] \in FreeStates => spent[i]

\* An open position whose record says protected has both algos on the
\* exchange, unless a handler is at work on it or recovery has yet to verify
\* it: no other handler's cleanup takes the protection of a live position.
ProtectedHasGuard ==
    \A i \in Intents :
        st[i] = "protected" /\ held[i] # 0 /\ i \notin boot /\ ~Works(i)
            => algos[i] = "both"

\* A position is called protected only after the rest of its entry order is
\* proven gone: later fills would exceed the protected quantity.
RemainderGone ==
    \A i \in Intents : st[i] \in {"protected", "closing"} => order[i] # "open"

\* The quantity a protected record will close is the quantity that filled,
\* also when lots filled between the query and the cancel of the remainder.
QuantityExact ==
    \A i \in Intents : st[i] = "protected" => memo[i].qty = filled[i]

\* Both: what protection and close rest on is the whole fill, and stays it.
SettledExactly == RemainderGone /\ QuantityExact

\* A position of the V2 lane never becomes Main's to manage.
OwnerIsolation ==
    \A i \in Intents :
        held[i] # 0 /\ st[i] \in {"integrity_required", "protected", "closing"}
            => local[i] # "main"

\* When a final PnL is acknowledged its record has converged to closed_final.
AckedIsFinal == \A i \in Intents : pnl[i] = "acked" => st[i] = "closed_final"

\* A recoverable halt names a record some recovery path still visits: one
\* that holds a slot or one whose protection failed and whose final is due.
HaltHasRecovery ==
    \A i \in Intents :
        halt.why \in RecoveryHaltReasons /\ halt.who = i =>
            \/ st[i] \in SlotStates
            \/ st[i] = "exchange_closed_pending_pnl" /\ memo[i].failed

\* A freed record never becomes an entry again, whatever handler was under
\* way when it was freed.
TerminalNeverRetried ==
    [][\A i \in Intents : st[i] \in FreeStates =>
            st'[i] \notin EntryReconcileStates \cup {"none", "ready_for_quote"}]_vars

\* A halt raised for a contradiction is not traded for one that recovery
\* lifts by itself.
ManualHaltStays ==
    [][halt.why \in ManualHaltReasons => halt'.why \in ManualHaltReasons]_vars

\* A requested cancel is remembered: an order found open afterwards is
\* cancelled again and never goes back to an ordinary pending entry.
CancelRemembered ==
    [][\A i \in Intents :
            memo[i].canceled /\ st[i] # "pending_entry" => st'[i] # "pending_entry"]_vars

\* No intent is admitted while the ledger holds a halt, although the halt may
\* have been raised through an adapter whose governor was replaced.
AdmissionHeedsHalt ==
    [][\A i \in Intents : st[i] = "none" /\ st'[i] # "none" => halt = NoHalt]_vars

\* What is let in was never in before, and nothing is let in over a halt.
AdmissionSound == AdmissionHeedsHalt /\ TerminalNeverRetried

\* Every entry order is resolved: no record stays in an entry state forever
\* because its I/O claim, its deadline or its cancel got lost.
EntrySettles ==
    \A i \in Intents :
        st[i] \in EntryReconcileStates ~> st[i] \notin EntryReconcileStates

\* A close that was begun ends flat, with a rejected or unanswered close order
\* on the way.
ClosingSettles == \A i \in Intents : st[i] = "closing" ~> held[i] = 0

\* Neither an entry nor a close stays under way for ever.
IntentSettles == EntrySettles /\ ClosingSettles

\* A pending PnL of a flat position becomes final, is handled and acknowledged
\* although the process dies between those steps.
PnlDelivered == \A i \in Intents : pnl[i] = "pending" /\ held[i] = 0 ~> pnl[i] = "acked"

\* A closed position gets its final PnL, also when the process died between
\* the close on the exchange and the pending row in the trade ledger.
FinalPnlArrives ==
    \A i \in Intents : st[i] = "exchange_closed_pending_pnl" ~> pnl[i] = "acked"
=============================================================================
