----------------------------- MODULE MainPosition -----------------------------
(* The main lane's position in one symbol (executor.py): the local record, the *)
(* position and the stop orders the exchange really has, and the two threads   *)
(* of MultiExecutor that work on them.  The message loop opens, adds, reduces  *)
(* and closes; the tick loop syncs, checks the stop locally, takes partial     *)
(* profits and moves the stop.  Every call of the exchange is a step, so the   *)
(* two threads interleave at the calls, as the worker threads do.              *)
(*                                                                             *)
(* An amount is a number of units and a reduce takes any of them.  A dict that *)
(* was dropped from positions stays with who holds it: a record has a birth,   *)
(* and a write to a dict whose birth is over reaches no record.  One side      *)
(* only, no other owner of the symbol (TacticalLive is the other lane).        *)
EXTENDS Integers, FiniteSets

CONSTANTS
    Lot,        \* units an entry buys
    Cap,        \* units a position may be added to
    MaxActs,    \* bound: opens, adds, exits and moves of the stop
    MaxFaults   \* bound: failed calls, lost answers, restarts

Threads == {"message", "tick"}

VARIABLES
    held,       \* at the exchange: units of the position
    stops,      \* at the exchange: live stop orders, [id, qty]
    resting,    \* at the exchange: units of a limit entry not filled yet
    pos,        \* positions[symbol], as saved; NoPos for none
    births, placed,
    halt,       \* _halted_symbols[symbol]: "no", "lost" or "trade"
    lock,       \* _exit_locks[symbol]: the thread, or "free"
    cool,       \* the 60 s of _close_cooldown are not over
    pending,    \* _pending_resync[symbol]
    op,         \* what a thread is doing: [at, born, old, qty, sl, tp]
    sold,       \* history: exit orders filled since the birth of pos
    synced,     \* history: a migration has ended since the start
    acts, faults

exchange == <<held, stops, resting>>
record == <<pos, births, placed, halt, sold>>
control == <<lock, cool, pending, synced>>
bounds == <<acts, faults>>
vars == <<held, stops, resting, pos, births, placed, halt, lock, cool, pending, op, sold,
          synced, acts, faults>>

NoPos == [born |-> 0, qty |-> 0, sl |-> 0, prot |-> "none", tp |-> 0]
Idle == [at |-> "idle", born |-> 0, old |-> 0, qty |-> 0, sl |-> 0, tp |-> 0]
Has == pos # NoPos
Mine(t) == Has /\ pos.born = op[t].born

\* A process starts with the file of the last one: empty, or a protected position.
Init ==
    /\ resting = 0
    /\ \/ /\ held = 0 /\ stops = {} /\ pos = NoPos /\ births = 0 /\ placed = 0
       \/ /\ held = Lot /\ stops = {[id |-> 1, qty |-> Lot]}
          /\ pos = [born |-> 1, qty |-> Lot, sl |-> 1, prot |-> "protected", tp |-> 0]
          /\ births = 1 /\ placed = 1
    /\ halt = "no" /\ lock = "free" /\ cool = FALSE /\ pending = 0
    /\ op = [t \in Threads |-> Idle]
    /\ sold = 0 /\ synced = FALSE /\ acts = 0 /\ faults = 0

Fault == faults < MaxFaults /\ faults' = faults + 1
Act == acts < MaxActs /\ acts' = acts + 1
To(t, step) == op' = [op EXCEPT ![t].at = step]
Done(t) == op' = [op EXCEPT ![t] = Idle]
\* The finally of close_position and reduce_position.
Leave(t) == Done(t) /\ lock' = IF lock = t THEN "free" ELSE lock
Lower(x, y) == IF x < y THEN x ELSE y

\* Writes of a thread to the dict it holds; the last is what it saves.
Write(t, rec) == pos' = IF Mine(t) THEN rec ELSE pos
NoStop(prot) == [pos EXCEPT !.sl = 0, !.prot = prot]
\* Protection that is not known halts the symbol.
Alarm(t, rec) == Write(t, rec) /\ halt' = "trade"
Drop == pos' = NoPos /\ cool' = TRUE
Live(id) == \E s \in stops : s.id = id
NewStop(q) == [id |-> placed + 1, qty |-> q]
Place == placed' = placed + 1

-----------------------------------------------------------------------------
(* open_position_with_plan and _execute_limit_order.                           *)

BeginOpen ==
    /\ Act
    /\ op["message"].at = "idle"
    /\ ~Has /\ halt = "no"
    /\ \/ To("message", "open")
       \/ To("message", "limit")
    /\ UNCHANGED <<exchange, record, control, faults>>

\* A fill brings the stop that was attached to the order.
Fill(q) ==
    /\ Place
    /\ held' = held + q
    /\ stops' = stops \cup {NewStop(q)}

\* The market order, and the market order an unfilled limit order falls back to.
OpenOrder ==
    /\ op["message"].at = "open"
    /\ \/ /\ Done("message")                                \* refused
          /\ UNCHANGED <<exchange, placed, faults>>
       \/ /\ Fill(Lot)
          /\ op' = [op EXCEPT !["message"].at = "verify", !["message"].sl = placed + 1]
          /\ UNCHANGED <<resting, faults>>
       \/ Fill(Lot) /\ Fault /\ Done("message") /\ UNCHANGED resting  \* answer lost
    /\ UNCHANGED <<pos, births, halt, sold, control, acts>>

PlaceLimit ==
    /\ op["message"].at = "limit"
    /\ resting' = Lot
    /\ To("message", "poll")
    /\ UNCHANGED <<held, stops, record, control, bounds>>
LimitFills ==
    /\ resting > 0
    /\ resting' = 0
    /\ Fill(resting)
    /\ UNCHANGED <<pos, births, halt, sold, control, op, bounds>>
PollFilled ==
    /\ op["message"].at = "poll" /\ resting = 0
    /\ op' = [op EXCEPT !["message"].at = "verify", !["message"].sl = placed]
    /\ UNCHANGED <<exchange, record, control, bounds>>
\* The wait is over: an error of the cancel is passed over, a fill it raced too.
PollTimeout ==
    /\ op["message"].at = "poll"
    /\ \/ resting' = 0 /\ UNCHANGED faults
       \/ UNCHANGED resting /\ IF resting = 0 THEN UNCHANGED faults ELSE Fault
    /\ \/ Done("message")                                   \* limit_no_fallback
       \/ To("message", "open")
    /\ UNCHANGED <<held, stops, record, control, acts>>

\* The attached stop is looked up; the record replaces any other.
Verify ==
    /\ op["message"].at = "verify"
    /\ births' = births + 1
    /\ sold' = 0
    /\ \/ /\ Live(op["message"].sl)
          /\ pos' = [born |-> births + 1, qty |-> Lot, sl |-> op["message"].sl,
                     prot |-> "protected", tp |-> 0]
          /\ UNCHANGED <<halt, faults>>
       \/ /\ IF Live(op["message"].sl) THEN Fault ELSE UNCHANGED faults
          /\ pos' = [born |-> births + 1, qty |-> Lot, sl |-> 0, prot |-> "unknown", tp |-> 0]
          /\ halt' = "lost"
    /\ Done("message")
    /\ UNCHANGED <<exchange, placed, control, acts>>

-----------------------------------------------------------------------------
(* _replace_protective_sl: cancel the old stop, then place the new one.        *)

BeginSwap(t) ==
    op' = [op EXCEPT ![t].at = "cancel", ![t].born = pos.born, ![t].qty = pos.qty,
                     ![t].sl = pos.sl]
\* move_protective_sl and _move_sl of the tick loop, which take no lock.
MoveStop ==
    /\ Act
    /\ op["tick"].at = "idle" /\ Has
    /\ BeginSwap("tick")
    /\ UNCHANGED <<exchange, record, control, faults>>

OldStop(t) == IF Mine(t) THEN pos.sl ELSE op[t].sl
\* A stop that is not there cannot be cancelled either.
CancelFails(t) == OldStop(t) # 0 /\ ~Live(OldStop(t))
Cancelled(t) == stops' = {s \in stops : s.id # OldStop(t)}

SwapCancel(t) ==
    /\ op[t].at = "cancel"
    /\ \/ /\ ~CancelFails(t)
          /\ Cancelled(t)
          /\ To(t, "place")
          /\ UNCHANGED <<pos, halt, lock, faults>>
       \/ /\ OldStop(t) # 0
          /\ IF CancelFails(t) THEN UNCHANGED faults ELSE Fault
          /\ Alarm(t, [pos EXCEPT !.prot = "unknown"])
          /\ Leave(t)
          /\ UNCHANGED stops
    /\ UNCHANGED <<held, resting, births, placed, sold, cool, pending, synced, acts>>

SwapPlace(t) ==
    /\ op[t].at = "place"
    /\ \/ /\ Place
          /\ stops' = stops \cup {NewStop(op[t].qty)}
          /\ Write(t, [pos EXCEPT !.sl = placed + 1, !.prot = "protected"])
          /\ UNCHANGED <<halt, faults>>
       \/ /\ Fault
          /\ Alarm(t, NoStop("unknown"))
          /\ UNCHANGED <<stops, placed>>
    /\ Leave(t)
    /\ UNCHANGED <<held, resting, births, sold, cool, pending, synced, acts>>

-----------------------------------------------------------------------------
(* close_position and reduce_position, under the exit lock of the symbol.      *)

BeginExit(t) ==
    /\ Act
    /\ op[t].at = "idle" /\ Has /\ lock = "free"
    /\ lock' = t
    /\ \E step \in {"close.look", "reduce.look"}, tp \in {0, pos.tp + 1} :
        /\ tp <= 2 /\ (step = "close.look" => tp = 0)
        /\ op' = [op EXCEPT ![t] = [Idle EXCEPT !.at = step, !.born = pos.born,
                                                !.old = pos.qty, !.sl = pos.sl, !.tp = tp]]
    /\ UNCHANGED <<exchange, record, cool, pending, synced, faults>>

\* _fetch_okx_position_state answers None for a flat symbol and for a failed call.
LookFlat == IF held = 0 THEN UNCHANGED faults ELSE Fault
\* _mark_external_closed.
Closed == IF Has THEN Drop ELSE UNCHANGED <<pos, cool>>
Look(t) ==
    /\ op[t].at \in {"close.look", "reduce.look"}
    /\ \/ /\ held > 0
          /\ \E q \in 1..Lower(op[t].old, held) :
              /\ op[t].at = "close.look" => q = Lower(op[t].old, held)
              /\ op' = [op EXCEPT ![t].qty = q,
                    ![t].at = IF @ = "close.look" THEN "close.order" ELSE "reduce.cancel"]
          /\ UNCHANGED <<pos, cool, lock, faults>>
       \/ LookFlat /\ Closed /\ Leave(t)
    /\ UNCHANGED <<exchange, births, placed, halt, sold, pending, synced, acts>>

Sold(q) ==
    /\ held > 0
    /\ held' = held - Lower(q, held)
\* _handle_okx_close_reject: flat or not seen, the record goes; open, a halt.
Rejected ==
    \/ LookFlat /\ Closed /\ UNCHANGED halt
    \/ held > 0 /\ Fault /\ halt' = "trade" /\ UNCHANGED <<pos, cool>>

CloseOrder(t) ==
    /\ op[t].at = "close.order"
    /\ \/ /\ Sold(op[t].qty)
          /\ \/ /\ op' = [op EXCEPT ![t] = [Idle EXCEPT !.at = "close.clean"]]
                /\ UNCHANGED <<lock, faults>>
             \/ Fault /\ Leave(t)                           \* answer lost
          /\ sold' = sold + 1
          /\ UNCHANGED <<pos, cool, halt>>
       \/ Rejected /\ Leave(t) /\ UNCHANGED <<held, sold>>
    /\ UNCHANGED <<stops, resting, births, placed, pending, synced, acts>>

\* _cleanup_protective_orders_on_close: the known stop, then every stop of ours.
CloseClean(t) ==
    /\ op[t].at = "close.clean"
    /\ \/ stops' = {} /\ UNCHANGED faults
       \/ Fault /\ UNCHANGED stops
    /\ IF Has THEN Drop ELSE UNCHANGED <<pos, cool>>
    /\ Leave(t)
    /\ UNCHANGED <<held, resting, births, placed, halt, sold, pending, synced, acts>>

ReduceCancel(t) ==
    /\ op[t].at = "reduce.cancel"
    /\ \/ /\ ~CancelFails(t)
          /\ Cancelled(t)
          /\ Write(t, [pos EXCEPT !.sl = 0])
          /\ op' = [op EXCEPT ![t].at = "reduce.order", ![t].sl = 0]
          /\ UNCHANGED <<halt, lock, faults>>
       \/ /\ OldStop(t) # 0
          /\ IF CancelFails(t) THEN UNCHANGED faults ELSE Fault
          /\ Alarm(t, [pos EXCEPT !.prot = "unknown"])
          /\ Leave(t)
          /\ UNCHANGED stops
    /\ UNCHANGED <<held, resting, births, placed, sold, cool, pending, synced, acts>>

AdvancedLast(t) == IF op[t].tp = 0 THEN pos.tp ELSE 2
Advanced(t) == IF op[t].tp = 0 THEN pos.tp ELSE op[t].tp

\* Filled: the rest is what was read at the start less the order.  tp_filled
\* advances here and nowhere else.  Nothing left: the record goes, uncooled.
Reduced(t) ==
    LET rest == op[t].old - op[t].qty
    IN  IF rest = 0
        THEN /\ Write(t, NoPos)
             /\ Leave(t) /\ UNCHANGED faults
        ELSE \/ /\ Write(t, [pos EXCEPT !.qty = rest, !.tp = Advanced(t)])
                /\ op' = [op EXCEPT ![t] = [@ EXCEPT !.at = "cancel", !.qty = rest,
                                                     !.old = 0, !.tp = 0]]
                /\ UNCHANGED <<lock, faults>>
             \/ /\ Write(t, [pos EXCEPT !.qty = rest])      \* the outer except
                /\ Fault /\ Leave(t)

\* Not filled, or not known to be: the old stop is placed again.
ReduceOrder(t) ==
    /\ op[t].at = "reduce.order"
    /\ \/ Sold(op[t].qty) /\ sold' = sold + 1 /\ Reduced(t) /\ UNCHANGED <<halt, cool>>
       \/ /\ \/ Rejected /\ UNCHANGED <<held, sold>>
             \/ Sold(op[t].qty) /\ sold' = sold + 1 /\ Fault /\ UNCHANGED <<pos, cool, halt>>
          /\ op' = [op EXCEPT ![t] = [@ EXCEPT !.at = "cancel", !.qty = op[t].old,
                                               !.old = 0, !.tp = 0]]
          /\ UNCHANGED lock
    /\ UNCHANGED <<stops, resting, births, placed, pending, synced, acts>>

-----------------------------------------------------------------------------
(* add_to_position, which takes no lock.                                       *)

Add ==
    /\ Act
    /\ op["message"].at = "idle"
    /\ Has /\ halt = "no" /\ pos.prot = "protected" /\ pos.qty < Cap
    /\ held' = held + 1
    /\ \/ /\ pos' = [pos EXCEPT !.qty = @ + 1]
          /\ op' = [op EXCEPT !["message"].at = "cancel", !["message"].born = pos.born,
                              !["message"].qty = pos.qty + 1, !["message"].sl = pos.sl]
          /\ UNCHANGED faults
       \/ Fault /\ UNCHANGED <<pos, op>>                    \* answer lost
    /\ UNCHANGED <<stops, resting, births, placed, halt, sold, control>>

-----------------------------------------------------------------------------
(* sync_positions: what was fetched is applied later, then the migration.      *)

SyncFetch ==
    /\ op["tick"].at = "idle"
    /\ op' = [op EXCEPT !["tick"].at = "apply", !["tick"].qty = held]
    /\ UNCHANGED <<exchange, record, control, bounds>>

CorrectedNot(q) == pos
Corrected(q) == [pos EXCEPT !.qty = q]
Adopted(q) == [born |-> births + 1, qty |-> q, sl |-> 0, prot |-> "unprotected", tp |-> 0]
SyncApply ==
    LET seen == op["tick"].qty
    IN  /\ op["tick"].at = "apply"
        /\ op' = [op EXCEPT !["tick"] = [Idle EXCEPT !.at = "migrate"]]
        /\ \/ cool /\ UNCHANGED <<pos, births, sold, pending>>
           \/ /\ ~cool /\ seen = 0
              /\ pos' = NoPos /\ pending' = 0
              /\ UNCHANGED <<births, sold>>
           \/ /\ ~cool /\ seen > 0 /\ Has
              /\ pos' = Corrected(seen)
              /\ UNCHANGED <<births, sold, pending>>
           \/ /\ ~cool /\ seen > 0 /\ ~Has /\ pending = 0
              /\ pending' = 1
              /\ UNCHANGED <<pos, births, sold>>
           \/ /\ ~cool /\ seen > 0 /\ ~Has /\ pending = 1
              /\ pending' = 0
              /\ pos' = Adopted(seen) /\ births' = births + 1 /\ sold' = 0
        /\ UNCHANGED <<exchange, placed, halt, lock, cool, synced, bounds>>

\* A listing that fails lists nothing.
Listed(found) ==
    \/ found = stops /\ UNCHANGED faults
    \/ found = {} /\ stops # {} /\ Fault
Cleared == IF halt = "lost" THEN "no" ELSE halt

MigrateNone(found) ==
    /\ Has /\ found = {}
    /\ pos' = NoStop("unknown")
    /\ halt' = IF halt = "no" THEN "lost" ELSE halt
    /\ UNCHANGED stops
MigrateOne(found) ==
    /\ Has
    /\ \E s \in found :
        /\ found = {s}
        /\ pos' = [pos EXCEPT !.sl = s.id, !.prot = "protected"]
    /\ halt' = Cleared
    /\ UNCHANGED stops
MigrateMany(found) ==
    /\ Has /\ Cardinality(found) > 1
    /\ stops' = {}
    /\ pos' = NoStop("unknown")
    /\ halt' = "trade"
\* Without a record the stops are residue.
MigrateResidue(found) ==
    /\ ~Has
    /\ stops' = stops \ found
    /\ UNCHANGED <<pos, halt>>

Migrate ==
    /\ op["tick"].at = "migrate"
    /\ \E found \in SUBSET stops :
        /\ Listed(found)
        /\ \/ MigrateNone(found) \/ MigrateOne(found)
           \/ MigrateMany(found) \/ MigrateResidue(found)
    /\ synced' = TRUE
    /\ Done("tick")
    /\ UNCHANGED <<held, resting, births, placed, lock, cool, pending, sold, acts>>

-----------------------------------------------------------------------------
(* What happens by itself.                                                     *)

CoolEnds ==
    /\ cool
    /\ cool' = FALSE
    /\ UNCHANGED <<exchange, record, lock, pending, op, synced, bounds>>

\* A stop is hit: it sells what it covers and is gone.
StopHit ==
    \E s \in stops :
        /\ held > 0
        /\ held' = held - Lower(s.qty, held)
        /\ stops' = stops \ {s}
        /\ UNCHANGED <<resting, record, control, op, bounds>>

\* Only positions are in a file.
Restart ==
    /\ Fault
    /\ op' = [t \in Threads |-> Idle]
    /\ halt' = "no" /\ lock' = "free" /\ cool' = FALSE /\ pending' = 0 /\ synced' = FALSE
    /\ UNCHANGED <<exchange, pos, births, placed, sold, acts>>

Entry == BeginOpen \/ OpenOrder \/ PlaceLimit \/ PollFilled \/ PollTimeout \/ Verify
Exit(t) ==
    Look(t) \/ CloseOrder(t) \/ CloseClean(t) \/ ReduceCancel(t) \/ ReduceOrder(t)
        \/ SwapCancel(t) \/ SwapPlace(t)
Next ==
    \/ Entry \/ Add \/ MoveStop \/ SyncFetch \/ SyncApply \/ Migrate
    \/ \E t \in Threads : BeginExit(t) \/ Exit(t)
    \/ LimitFills \/ CoolEnds \/ StopHit \/ Restart

\* Calls return, and the tick loop goes on syncing.
Spec ==
    /\ Init /\ [][Next]_vars
    /\ WF_vars(SyncApply) /\ WF_vars(Migrate) /\ SF_vars(SyncFetch)
    /\ WF_vars(CoolEnds) /\ \A t \in Threads : WF_vars(Exit(t))

-----------------------------------------------------------------------------
Steps == {"idle", "open", "limit", "poll", "verify", "cancel", "place", "close.look",
          "close.order", "close.clean", "reduce.look", "reduce.cancel", "reduce.order",
          "apply", "migrate"}
TypeOK ==
    /\ {held, resting, births, placed, sold} \subseteq Nat
    /\ stops \subseteq [id : 1..placed, qty : Nat]
    /\ pos \in [born : 0..births, qty : Nat, sl : 0..placed, tp : 0..2,
                prot : {"none", "unprotected", "unknown", "protected"}]
    /\ halt \in {"no", "lost", "trade"} /\ lock \in Threads \cup {"free"}
    /\ {cool, synced} \subseteq BOOLEAN /\ pending \in 0..1
    /\ op \in [Threads -> [at : Steps, born : 0..births, old : Nat, qty : Nat,
                           sl : 0..placed, tp : 0..2]]
    /\ acts \in 0..MaxActs /\ faults \in 0..MaxFaults

\* tp_filled never runs ahead of the exit orders that filled: a reduce that was
\* refused, or whose record went meanwhile, leaves the level to be taken.
TpEarned == Has => pos.tp <= sold

\* A record whose protection was found unknown has its symbol halted, whichever
\* thread found it and whatever the other did, from the first sync of a process.
UnknownIsHalted == Has /\ pos.prot = "unknown" /\ synced => halt # "no"

\* A position with no stop at the exchange is not taken for protected for ever.
NakedBelievedSafe == Has /\ held > 0 /\ stops = {} /\ pos.prot = "protected"
NakedNoticed == NakedBelievedSafe ~> ~NakedBelievedSafe

\* The record and the exchange agree again after every race and every fault: what
\* was sold, bought or dropped behind the record's back is found by the sync.
Agree == pos.qty = held
RecordConverges == ~Agree ~> Agree

\* Stops that outlive their position, a failed cleanup's too, do not stay.
Orphans == ~Has /\ held = 0 /\ stops # {}
OrphansSwept == Orphans ~> ~Orphans

\* The migration "cannot attribute" a stop without a record and then halts the
\* symbol; so whenever it takes the last stop of a position the symbol is halted.
TakesLastStop == op["tick"].at = "migrate" /\ op'["tick"].at = "idle"
                 /\ held > 0 /\ stops # {} /\ stops' = {}
ResidueHalts == [][TakesLastStop => halt' # "no"]_vars

\* _mark_external_closed: "the exchange confirms no position".
DropsUnsold == Has /\ pos' = NoPos /\ cool' /\ ~cool /\ held' = held
DroppedMeansFlat == [][DropsUnsold => held = 0]_vars

\* What races and faults did to a position is repaired by the sync, in the end:
\* the record agrees with the exchange, a position without a stop is known to
\* be one, and stops without a position are gone.
SyncRepairs == RecordConverges /\ NakedNoticed /\ OrphansSwept

\* What the record claims is so: a level it counts as taken was sold, and a
\* protection it does not know stops the symbol.
RecordHonest == TpEarned /\ UnknownIsHalted
=============================================================================
