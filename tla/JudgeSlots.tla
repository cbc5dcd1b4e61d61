------------------------------ MODULE JudgeSlots ------------------------------
(* What the judge (agents/trading/judge.py) remembers between two signals of  *)
(* a symbol and what it dispatches from it: the slots that limit how many     *)
(* positions are open at once, the cooldown after a stop, the entry it        *)
(* deferred, and the candidates it holds for five seconds to rank them.       *)
(*                                                                            *)
(* The executor is what the judge sees of it: an order ends in one result,    *)
(* after any time; a position is reduced or closed and reported.  Results     *)
(* reach the judge in order, on its message loop; only the flush of the       *)
(* ranking runs beside that loop.  What the signal says is a choice among the *)
(* outcomes of _make_decision.  Two slot types stand for the five: each has   *)
(* its own cap and is counted alone.  The chase entry is left out: every      *)
(* entry the code defers has chase_eligible False.                            *)
EXTENDS Naturals, Sequences, FiniteSets

CONSTANTS
    Symbols,
    MainCap, ExtraCap,  \* max_concurrent_positions; the cap of another slot type
    MaxEntries,         \* bound: entries deferred or buffered
    MaxCloses,          \* bound: positions closed
    MaxQueue            \* bound: results under way to the judge

ASSUME SlotsAssumption == IsFiniteSet(Symbols) /\ MainCap \in Nat /\ ExtraCap \in Nat

Slots == {"main", "extra"}
Cap(t) == IF t = "main" THEN MainCap ELSE ExtraCap

VARIABLES
    open,      \* _open_positions with _position_slots: the slot of a symbol, or "none"
    pending,   \* _pending_open_symbols with their slots
    aged,      \* the pending symbols whose TTL is over
    state,     \* _symbol_state
    file,      \* data/judge_state.json
    buffer,    \* the ranker's candidates
    orders,    \* entries published and not answered: the executor's side
    held,      \* the executor's positions
    results,   \* execution results not yet handled, oldest first
    finals,    \* closes whose realised result is known and can be delivered
    processed, \* _processed_resolution_ids
    entries,   \* count of entries deferred or buffered
    used,      \* history: deferred entries that were dispatched
    stops,     \* history: strategy stops of each symbol
    closes,
    slipped    \* history: a reservation ended while its order stood

judge == <<open, pending, aged, state, file, buffer, processed>>
world == <<orders, held, finals, stops, closes>>
vars == <<judge, world, results, entries, used, slipped>>

NoEntry == [kind |-> "none"]
Deferral(kind, slot, n) == [kind |-> kind, slot |-> slot, id |-> n, late |-> FALSE]
Order(s, slot, id) == [symbol |-> s, slot |-> slot, deferral |-> id]

\* _get_state.  cool: since the last forced close, "hot" to half the escalating
\* cooldown, "warm" to all of it.  recent: the 300 s after an open.
Fresh == [cool |-> "off", hits |-> 0, recent |-> FALSE, deferred |-> NoEntry]

Init ==
    /\ open = [s \in Symbols |-> "none"] /\ pending = open /\ aged = {}
    /\ state = [s \in Symbols |-> Fresh] /\ file = state
    /\ buffer = {} /\ orders = {} /\ results = <<>> /\ processed = {}
    /\ held = [s \in Symbols |-> "none"]
    /\ finals = {} /\ entries = 0 /\ used = {} /\ closes = 0 /\ slipped = FALSE
    /\ stops = [s \in Symbols |-> 0]

-----------------------------------------------------------------------------
(* Slots.                                                                     *)

\* all_slots: a pending slot hides the slot of the position.
SlotOf(p, s) == IF p[s] # "none" THEN p[s] ELSE open[s]
Count(p, t) == Cardinality({s \in Symbols : SlotOf(p, s) = t})
UnansweredIn(q, s) ==
    \/ \E o \in orders : o.symbol = s
    \/ \E i \in DOMAIN q : q[i].symbol = s /\ q[i].kind = "opened"
Unanswered(s) == UnansweredIn(results, s)

\* _sweep_stale_pending.
SweptNone(p, old) == p
Swept(p, old) == [s \in Symbols |-> IF s \in old THEN "none" ELSE p[s]]
SweepSlips == \E s \in aged : Unanswered(s)

\* The slot gate of _gate_and_publish_open.
FreeOneMore(p, t) == Count(p, t) <= Cap(t)
Free(p, t) == Count(p, t) < Cap(t)

\* It reserves, marks the symbol and publishes a set of orders that pass.
Reserve(p, os) ==
    /\ pending' = [s \in Symbols |->
                     IF \E o \in os : o.symbol = s
                     THEN (CHOOSE o \in os : o.symbol = s).slot ELSE p[s]]
    /\ orders' = orders \cup os
    /\ used' = used \cup ({o.deferral : o \in os} \ {0})
    /\ slipped' = (slipped \/ SweepSlips
                     \/ \E o \in os : {open[o.symbol], p[o.symbol]} \ {"none", o.slot} # {})
Marked(st, os) ==
    [s \in Symbols |-> IF \E o \in os : o.symbol = s THEN [st[s] EXCEPT !.recent = TRUE]
                       ELSE st[s]]

-----------------------------------------------------------------------------
(* A signal: tech_analysis.                                                   *)

\* The early returns of on_message, and the one of _make_decision when a new
\* symbol finds no slot of the types it looks at.
Heard(s) == state[s].cool # "hot" /\ ~state[s].recent /\ s \notin {c.symbol : c \in buffer}
Crowded(p, s) == SlotOf(p, s) = "none" /\ \A t \in Slots : ~Free(p, t)

Persist == file' = state'
Forget(s) == state' = [state EXCEPT ![s].deferred = NoEntry]

Quiet(p) == pending' = p /\ slipped' = (slipped \/ SweepSlips) /\ UNCHANGED <<orders, used>>

DispatchKept(s, d, p) == Free(p, d.slot) /\ Reserve(p, {Order(s, d.slot, d.id)})
                         /\ state' = Marked(state, {Order(s, d.slot, d.id)})
\* The entry is dispatched, or the slot gate refuses it; it is gone either way.
Dispatch(s, d, p) ==
    IF Free(p, d.slot)
    THEN LET os == {Order(s, d.slot, d.id)} IN
         /\ Reserve(p, os)
         /\ state' = Marked([state EXCEPT ![s].deferred = NoEntry], os)
    ELSE /\ Forget(s) /\ Quiet(p)

\* deferred_15m_confirmation: over its time it goes; 15m against it keeps it;
\* a gate that fails drops it; else it is dispatched.
Confirm15m(s, p) ==
    LET d == state[s].deferred IN
    /\ d.kind = "confirm"
    /\ \/ Forget(s) /\ Quiet(p)
       \/ ~d.late /\ UNCHANGED state /\ Quiet(p)
       \/ ~d.late /\ Dispatch(s, d, p)

\* deferred_pullback and its kin: the target is looked at before the time.
Pullback(s, p) ==
    LET d == state[s].deferred IN
    /\ d.kind = "pullback"
    /\ \/ Forget(s) /\ Quiet(p)
       \/ UNCHANGED state /\ Quiet(p)
       \/ Dispatch(s, d, p)

\* The main path, the deferral included that a guard of it makes.  Which way the
\* signal points is not modelled, nor that a warm cooldown stops one of the two.
Decided(s, p) ==
    /\ state[s].deferred = NoEntry /\ Quiet(p)
    /\ \/ UNCHANGED <<state, buffer, entries>>
       \/ /\ entries < MaxEntries /\ entries' = entries + 1
          /\ \E t \in Slots :
                \/ /\ \E kind \in {"confirm", "pullback"} :
                         state' = [state EXCEPT ![s].deferred =
                                     Deferral(kind, t, entries + 1)]
                   /\ UNCHANGED buffer
                \/ /\ buffer' = buffer \cup {Order(s, t, 0)}
                   /\ UNCHANGED state

\* on_message of tech_analysis, _make_decision and the save after it.
Analyse(s) ==
    /\ Heard(s)
    /\ LET p == Swept(pending, aged) IN
       \/ Crowded(p, s) /\ Quiet(p) /\ UNCHANGED <<state, buffer, entries>>
       \/ ~Crowded(p, s) /\ (Confirm15m(s, p) \/ Pullback(s, p)) /\ UNCHANGED <<buffer, entries>>
       \/ ~Crowded(p, s) /\ Decided(s, p)
    /\ aged' = {} /\ Persist
    /\ UNCHANGED <<open, processed, held, finals, stops, closes, results>>

\* _flush_ranked_candidates: the best of each type go through the gate, as many
\* as its cap leaves; the others are held.
Flush ==
    /\ buffer # {}
    /\ LET p == Swept(pending, aged)
           left(t) == IF Free(p, t) THEN Cap(t) - Count(p, t) ELSE 0
           of(t) == {c \in buffer : c.slot = t}
       IN \E os \in SUBSET buffer :
            /\ \A t \in Slots : LET n == Cardinality(os \cap of(t)) IN
                 n <= left(t) /\ (n = left(t) \/ of(t) \subseteq os)
            /\ Reserve(p, os)
            /\ state' = Marked(state, os)
    /\ buffer' = {} /\ aged' = {}
    /\ UNCHANGED <<open, file, processed, held, finals, stops, closes, results, entries>>

-----------------------------------------------------------------------------
(* What comes back: execution_result and pnl_resolved.                        *)

Hit(st, s) == [st EXCEPT ![s].hits = @ + 1]
Cooling(st, s) == [st EXCEPT ![s].cool = "hot"]

\* Whatever it says, a result ends the reservation of its symbol.
ReleasedOnly(s, r) ==
    /\ pending' = [pending EXCEPT ![s] = "none"]
    /\ aged' = aged \ {s}
    /\ slipped' = (slipped \/ (pending[s] # "none" /\ UnansweredIn(Tail(results), s)))

OpenAfter(s, r) ==
    [open EXCEPT ![s] = CASE r.kind = "opened" -> r.slot
                          [] r.kind \in {"forced", "external", "closed"} -> "none"
                          [] OTHER -> @]

StateAfter(s, r) ==
    CASE r.kind = "forced" -> Cooling(IF r.stop THEN Hit(state, s) ELSE state, s)
      [] r.kind = "external" -> Cooling([state EXCEPT ![s].deferred = NoEntry], s)
      [] r.kind = "opened" -> [state EXCEPT ![s].recent = TRUE]
      [] OTHER -> state

HandleResult ==
    /\ results # <<>>
    /\ LET r == Head(results) IN
       /\ ReleasedOnly(r.symbol, r)
       /\ open' = OpenAfter(r.symbol, r)
       /\ state' = StateAfter(r.symbol, r)
    /\ results' = Tail(results)
    /\ Persist
    /\ UNCHANGED <<buffer, processed, world, entries, used>>

\* The final of an external close, which may come more than once.  It counts the
\* stop that the close itself could not be told to be.
FirstTime(f) == f.id \notin processed
HandleFinal(f) ==
    /\ f \in finals
    /\ IF FirstTime(f)
       THEN /\ state' = IF f.stop THEN Hit(state, f.symbol) ELSE state
            /\ processed' = processed \cup {f.id} /\ Persist
       ELSE UNCHANGED <<state, file, processed>>
    /\ UNCHANGED <<open, pending, aged, buffer, world, results, entries, used, slipped>>

\* symbol_update: what the judge knew of a removed symbol is dropped, unsaved.
RemoveSymbol(s) ==
    /\ state[s] # Fresh
    /\ state' = [state EXCEPT ![s] = Fresh]
    /\ UNCHANGED <<open, pending, aged, file, buffer, processed, world, results, entries,
                   used, slipped>>

-----------------------------------------------------------------------------
(* Time.  The TTL (120 s) is over before the cooldown of an open (300 s).     *)

AgePending(s) ==
    /\ pending[s] # "none" /\ s \notin aged
    /\ aged' = aged \cup {s}
    /\ UNCHANGED <<open, pending, state, file, buffer, processed, world, results, entries,
                   used, slipped>>

Cooled(c) == IF c = "hot" THEN "warm" ELSE "off"
Age(s) ==
    /\ \/ /\ state[s].cool # "off"
          /\ state' = [state EXCEPT ![s].cool = Cooled(@)]
          /\ file' = [file EXCEPT ![s].cool = Cooled(@)]
       \/ /\ state[s].recent /\ (pending[s] = "none" \/ s \in aged)
          /\ state' = [state EXCEPT ![s].recent = FALSE]
          /\ file' = [file EXCEPT ![s].recent = FALSE]
       \/ /\ state[s].deferred # NoEntry /\ ~state[s].deferred.late
          /\ state' = [state EXCEPT ![s].deferred.late = TRUE]
          /\ file' = IF file[s].deferred = NoEntry THEN file
                     ELSE [file EXCEPT ![s].deferred.late = TRUE]
    /\ UNCHANGED <<open, pending, aged, buffer, processed, world, results, entries, used,
                   slipped>>

-----------------------------------------------------------------------------
(* The executor.                                                              *)

Report(r) == Len(results) < MaxQueue /\ results' = Append(results, r)

\* _execute_decision: an order on a symbol that has a position is refused.
Execute(o) ==
    /\ o \in orders
    /\ orders' = orders \ {o}
    /\ \/ /\ held[o.symbol] = "none"
          /\ held' = [held EXCEPT ![o.symbol] = o.slot]
          /\ Report([kind |-> "opened", symbol |-> o.symbol, slot |-> o.slot])
       \/ /\ UNCHANGED held
          /\ Report([kind |-> "refused", symbol |-> o.symbol])
    /\ UNCHANGED <<judge, finals, stops, closes, entries, used, slipped>>

\* A partial exit, or the analyst's order to close that failed.
Other(s) ==
    /\ held[s] # "none" /\ results = <<>>
    /\ Report([kind |-> "reduced", symbol |-> s])
    /\ UNCHANGED <<judge, world, entries, used, slipped>>

\* The position ends: at a local stop, by a risk alert, by a decision, or at the
\* exchange, where what it was is known only with its final.
Close(s) ==
    /\ held[s] # "none" /\ closes < MaxCloses
    /\ closes' = closes + 1
    /\ held' = [held EXCEPT ![s] = "none"]
    /\ \E stop \in BOOLEAN :
         /\ stops' = [stops EXCEPT ![s] = IF stop THEN @ + 1 ELSE @]
         /\ \/ /\ Report([kind |-> "forced", symbol |-> s, stop |-> stop])
               /\ UNCHANGED finals
            \/ /\ Report([kind |-> "external", symbol |-> s])
               /\ finals' = finals \cup {[id |-> closes', symbol |-> s, stop |-> stop]}
            \/ /\ ~stop /\ UNCHANGED finals
               /\ Report([kind |-> "closed", symbol |-> s])
    /\ UNCHANGED <<judge, orders, entries, used, slipped>>

\* The process restarts, judge and executor alike: what was under way may have
\* become a position or not; positions.json has the positions and their slots,
\* judge_state.json what was saved.  Finals already delivered are not sent again.
StateRestored ==
    [s \in Symbols |-> IF file[s].deferred # NoEntry /\ file[s].deferred.late
                       THEN [file[s] EXCEPT !.deferred = NoEntry] ELSE file[s]]
Restart ==
    /\ \E done \in SUBSET orders :
         /\ \A o \in done : held[o.symbol] = "none"
         /\ held' = [s \in Symbols |-> IF \E o \in done : o.symbol = s
                                       THEN (CHOOSE o \in done : o.symbol = s).slot
                                       ELSE held[s]]
    /\ orders' = {} /\ results' = <<>> /\ buffer' = {}
    /\ pending' = [s \in Symbols |-> "none"] /\ aged' = {} /\ open' = held'
    /\ state' = StateRestored
    /\ finals' = {f \in finals : f.id \notin processed} /\ processed' = {}
    /\ UNCHANGED <<file, stops, closes, entries, used, slipped>>

Next ==
    \/ Flush \/ HandleResult \/ Restart
    \/ \E s \in Symbols : Analyse(s) \/ RemoveSymbol(s) \/ AgePending(s) \/ Age(s)
                          \/ Other(s) \/ Close(s)
    \/ \E f \in finals : HandleFinal(f)
    \/ \E o \in orders : Execute(o)

\* Time passes and signals of every symbol keep coming; the executor owes nothing.
Spec == Init /\ [][Next]_vars
             /\ \A s \in Symbols : WF_vars(AgePending(s)) /\ WF_vars(Age(s)) /\ WF_vars(Analyse(s))

-----------------------------------------------------------------------------
(* Properties.                                                                *)

\* Types; and the file holds what the running judge would need, but for a symbol
\* that was removed.
TypeOK ==
    /\ open \in [Symbols -> Slots \cup {"none"}] /\ pending \in [Symbols -> Slots \cup {"none"}]
    /\ \A s \in aged : pending[s] # "none"
    /\ \A s \in Symbols : state[s].cool = "hot" => file[s].cool = "hot"

\* P2-O: no more positions and orders of a slot type than its cap, as long as no
\* reservation was let go, or hidden behind another, while its order stood.
CapsHold ==
    ~slipped => \A t \in Slots :
        Cardinality({s \in Symbols : held[s] = t \/ \E o \in orders : o.symbol = s /\ o.slot = t})
          <= Cap(t)

\* When its results are handled, the judge counts exactly the positions there are.
HeldIsCounted ==
    \A s \in Symbols :
        (\A i \in DOMAIN results : results[i].symbol # s) => open[s] = held[s]

\* FR-3C: a stop is one hit, however its close became known and however often
\* its final was sent: a second hit would double the cooldown.
OneHitPerStop == \A s \in Symbols : state[s].hits <= stops[s]

\* A deferred entry that was dispatched is in no state a restart could take it
\* from: it is entered once.
EnteredOnce == \A s \in Symbols :
    \A d \in {state[s].deferred, file[s].deferred} : d # NoEntry => d.id \notin used

\* A reservation ends, even when the executor never answers.
ReservationEnds == \A s \in Symbols : pending[s] # "none" ~> pending[s] = "none"

\* A deferred entry past its timeout is not dispatched (docs/architecture.md).
NotLate ==
    [][\A s \in Symbols : state[s].deferred # NoEntry /\ state[s].deferred.late =>
          state[s].deferred.id \notin used' \ used]_vars
=============================================================================
