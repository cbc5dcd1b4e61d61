------------------------------ MODULE ExitLadder ------------------------------
(* The prices of a main position: the drift gate of its entry, the local      *)
(* ladder of its exit, and the stop the exchange holds for it (executor.py;   *)
(* the tick and the early review of agents/trading/executor.py).  A long      *)
(* position; a short one is its mirror image.  Ratios are in thousandths.     *)
EXTENDS Integers, Sequences

CONSTANTS
    Prices,     \* prices the symbol is seen at
    Plans,      \* [ref, sl, tps, floor, slot]: entry_ref, sl_pct, tp_pct, rr_floor in hundredths
    Atr,        \* atr_pct
    MaxAdds, MaxFaults      \* bounds: adds to a position; stops that cannot be replaced

VARIABLES
    pos,        \* the record in executor.positions, or Flat
    saved,      \* the same on disk
    exStop,     \* the stop the exchange holds, or NoStop
    recent,     \* _last_sl_update is less than 30 s ago
    young,      \* the position is 20 to 30 minutes old
    adds, faults

vars == <<pos, saved, exStop, recent, young, adds, faults>>

NoStop == -1
Flat == [entry |-> 0]
Held == pos # Flat
Higher(x, y) == IF x > y THEN x ELSE y
Distance(x, y) == IF x > y THEN x - y ELSE y - x
Of(x, permille) == (x * permille) \div 1000
\* 1R, in thousandths of the entry price.
RiskOf(p) == (Distance(p.entry, p.original) * 1000) \div p.entry
ProfitOf(p, price) == ((price - p.entry) * 1000) \div p.entry
AtLevel(p, level, price) == p.tp = level - 1 /\ level <= Len(p.tps) /\ price >= p.tps[level]

-----------------------------------------------------------------------------
(* The drift gate: what a plan is worth at the live price.                    *)

Band(ref, live) ==
    LET drift == Distance(live, ref) * 1000
    IN  CASE drift <= 5 * ref -> "accept"
          [] drift > 5 * ref /\ drift <= 20 * ref -> "small"
          [] drift > 20 * ref /\ drift <= 50 * ref -> "medium"
          [] drift > 50 * ref -> "abandon"

Passes(plan, band) ==
    plan.tps[1] * 100 >= (plan.floor + (IF band = "medium" THEN 20 ELSE 0)) * plan.sl

\* The price the levels hang from: the plan's own, the live one, or none.
Anchors(plan, live) ==
    LET band == Band(plan.ref, live)
    IN  CASE band = "accept" -> {plan.ref}
          [] band = "abandon" -> {}
          [] OTHER -> {a \in {live} : Passes(plan, band)}

PositionAt(plan, anchor, fill) ==
    LET stop == anchor - Of(anchor, plan.sl)
    IN  [entry |-> fill, original |-> stop, stop |-> stop, high |-> fill, tp |-> 0,
         tps |-> [i \in DOMAIN plan.tps |-> anchor + Of(anchor, plan.tps[i])],
         slot |-> plan.slot, thesis |-> "ok"]

-----------------------------------------------------------------------------
(* Replacing the stop at the exchange: the old one is cancelled, then the new *)
(* one placed.                                                                *)

\* (exStop, faults) after a replacement: done, not cancelled, or cancelled and not placed.
Replacements(old, new, f) ==
    {<<new, f>>} \cup (IF f < MaxFaults THEN {<<old, f + 1>>, <<NoStop, f + 1>>} ELSE {})

\* _move_sl, from state s = [stop, ex, recent, faults, kept]: the local stop always
\* moves, the exchange is told only of a wide enough move after a long enough pause.
Due(s, target) ==
    \/ s.ex = NoStop
    \/ Distance(target, s.stop) * 1000 >= 3 * s.stop /\ ~s.recent
MovesAny(s, target) ==
    IF ~Due(s, target) THEN {[s EXCEPT !.stop = target]}
    ELSE {[stop |-> target, ex |-> r[1], recent |-> TRUE, faults |-> r[2], kept |-> target] :
              r \in Replacements(s.ex, target, s.faults)}
Moves(s, target) ==
    IF target <= s.stop THEN {s}
    ELSE IF ~Due(s, target) THEN {[s EXCEPT !.stop = target]}
    ELSE {[stop |-> target, ex |-> r[1], recent |-> TRUE, faults |-> r[2], kept |-> target] :
              r \in Replacements(s.ex, target, s.faults)}

\* The stops _update_trailing moves to at a price, in its order.
Guarded(p, price) ==
    IF p.tp = 0 /\ ProfitOf(p, price) * 10 >= RiskOf(p) * 8 THEN <<p.entry + Of(p.entry, 2)>> ELSE <<>>
Locked(p, price) ==
    IF p.tp = 0 /\ ProfitOf(p, price) >= RiskOf(p) THEN <<p.entry + Of(p.entry, Of(RiskOf(p), 300))>> ELSE <<>>
TrailDistance(p) ==
    IF Atr > 30 THEN Higher(Of(Atr, 1200), Of(RiskOf(p), 700)) ELSE Higher(Atr, RiskOf(p) \div 2)
Trailed(p) == IF p.tp >= 1 THEN <<p.high - Of(p.high, TrailDistance(p))>> ELSE <<>>
EarlyTrail(p, price) ==
    IF ProfitOf(p, price) * 2 >= RiskOf(p) THEN <<p.high - Of(p.entry, Of(RiskOf(p), 300))>> ELSE <<>>

Targets(p, price) ==
    CASE p.slot = "tactical" -> <<>>
      [] p.slot = "low_rr_extra" /\ p.tp = 0 -> EarlyTrail(p, price)
      [] OTHER -> Guarded(p, price) \o Locked(p, price) \o Trailed(p)

AfterMoves(p, price) ==
    LET s0 == [stop |-> p.stop, ex |-> exStop, recent |-> recent, faults |-> faults, kept |-> NoStop]
        todo == Targets(p, price)
        first == IF Len(todo) >= 1 THEN Moves(s0, todo[1]) ELSE {s0}
    IN  IF Len(todo) >= 2 THEN UNION {Moves(s, todo[2]) : s \in first} ELSE first

-----------------------------------------------------------------------------
Init ==
    /\ pos = Flat /\ saved = Flat
    /\ exStop = NoStop /\ recent = FALSE /\ young = FALSE
    /\ adds = 0 /\ faults = 0

Gone ==
    /\ pos' = Flat /\ saved' = Flat /\ exStop' = NoStop
    /\ recent' = FALSE /\ young' = FALSE /\ adds' = 0 /\ UNCHANGED faults

Keep(p) == pos' = p /\ saved' = p

\* smart_open past its gate: an inverted stop halts the symbol instead.
Open(plan, live) ==
    /\ ~Held
    /\ \E anchor \in Anchors(plan, live) :
        LET fill == IF anchor = plan.ref THEN live ELSE anchor
            p == PositionAt(plan, anchor, fill)
        IN  p.stop < fill /\ Keep(p) /\ exStop' = p.stop
    /\ young' = TRUE
    /\ UNCHANGED <<recent, adds, faults>>

\* A partial take-profit: the part is sold, then the stop moves up to its level.
LevelsMirrored(p, tp) == p.entry - Of(p.entry, (RiskOf(p) * (IF tp = 1 THEN 500 ELSE 1500)) \div 1000)
Levels(p, tp) == p.entry + Of(p.entry, (RiskOf(p) * (IF tp = 1 THEN 500 ELSE 1500)) \div 1000)
Partial(p, tp) ==
    \E r \in Replacements(NoStop, Levels(p, tp), faults) :
        /\ Keep([p EXCEPT !.tp = tp, !.stop = IF r[1] = Levels(p, tp) THEN r[1] ELSE @])
        /\ exStop' = r[1] /\ faults' = r[2]
        /\ UNCHANGED <<recent, young, adds>>

\* check_stop_loss_take_profit at a price: the high is raised, then a level is taken, the
\* stop trailed, or the position closed.
LevelHit(p, price) == IF AtLevel(p, 1, price) THEN 1 ELSE IF AtLevel(p, 2, price) THEN 2 ELSE 0
Check(price) ==
    /\ Held
    /\ LET p == [pos EXCEPT !.high = Higher(@, price)]
           level == LevelHit(p, price)
       IN  CASE p.slot = "tactical" /\ p.thesis = "invalidated" -> Gone
             [] level > 0 /\ ~(p.slot = "tactical" /\ p.thesis = "invalidated") -> Partial(p, level)
             [] OTHER ->
                  \E s \in AfterMoves(p, price) :
                      IF price <= s.stop THEN Gone
                      ELSE /\ pos' = [p EXCEPT !.stop = s.stop]
                           /\ saved' = IF s.kept = NoStop THEN saved ELSE [p EXCEPT !.stop = s.kept]
                           /\ exStop' = s.ex /\ recent' = s.recent /\ faults' = s.faults
                           /\ UNCHANGED <<young, adds>>

\* A tactical position past its maximum hold.
MaxHold == Held /\ pos.slot = "tactical" /\ Gone

\* The price is lost three times, an analyst or an operator closes, or the exchange
\* fills its stop.
Close == Held /\ Gone

\* RQ-04: at half the stop distance under water the stop comes 30 % nearer.
EarlyReview(price) ==
    /\ Held /\ young
    /\ LET dist == Distance(pos.entry, pos.stop)
           target == pos.entry - Of(dist, 700)
       IN  /\ dist > 0 /\ (price - pos.entry) * 2 <= -dist /\ target > pos.stop
           /\ \E r \in Replacements(exStop, target, faults) :
                /\ Keep([pos EXCEPT !.stop = IF r[1] = target THEN target ELSE @])
                /\ exStop' = r[1] /\ faults' = r[2]
    /\ UNCHANGED <<recent, young, adds>>

\* add_to_position: the average entry carries the distances of the stop and the levels.
Add(price) ==
    /\ Held /\ adds < MaxAdds /\ exStop # NoStop
    /\ LET new == (2 * pos.entry + price) \div 3
           stop == new - (new * Distance(pos.stop, pos.entry)) \div pos.entry
       IN  \E r \in Replacements(exStop, stop, faults) :
            /\ Keep([pos EXCEPT !.entry = new, !.stop = stop, !.original = stop,
                        !.tps = [i \in DOMAIN @ |->
                                    new + (new * Distance(@[i], pos.entry)) \div pos.entry]])
            /\ exStop' = r[1] /\ faults' = r[2]
    /\ adds' = adds + 1
    /\ UNCHANGED <<recent, young>>

\* A tech report against the side: only kept in memory.
Invalidated ==
    /\ Held /\ pos.slot = "tactical" /\ pos.thesis = "ok"
    /\ pos' = [pos EXCEPT !.thesis = "invalidated"]
    /\ UNCHANGED <<saved, exStop, recent, young, adds, faults>>

\* Time goes by.
Pause == recent /\ recent' = FALSE /\ UNCHANGED <<pos, saved, exStop, young, adds, faults>>
Age == young /\ young' = FALSE /\ UNCHANGED <<pos, saved, exStop, recent, adds, faults>>

\* The process dies and comes back with what it had written.
Restart ==
    /\ Held /\ pos' = saved /\ recent' = FALSE
    /\ UNCHANGED <<saved, exStop, young, adds, faults>>

Next ==
    \/ \E plan \in Plans, price \in Prices : Open(plan, price)
    \/ \E price \in Prices : Check(price) \/ EarlyReview(price) \/ Add(price)
    \/ MaxHold \/ Close \/ Invalidated \/ Pause \/ Age \/ Restart

Spec == Init /\ [][Next]_vars

-----------------------------------------------------------------------------
(* The record of a position.                                                  *)
Records == [entry : Nat, original : Nat, stop : Nat, high : Nat, tp : 0..2, tps : Seq(Nat),
            slot : {"main", "low_rr_extra", "tactical"}, thesis : {"ok", "invalidated"}]
\* The state has its shape, and a position at a level it has reached once is above it.
TypeOK ==
    /\ pos \in Records \cup {Flat} /\ saved \in Records \cup {Flat}
    /\ exStop \in Nat \cup {NoStop} /\ recent \in BOOLEAN /\ young \in BOOLEAN
    /\ adds \in 0..MaxAdds /\ faults \in 0..MaxFaults
    /\ (pos = Flat) = (saved = Flat)
    /\ Held => pos.tp <= Len(pos.tps) /\ saved.tp = pos.tp

\* A position that has sold its first part keeps its stop above its entry, at the
\* exchange and in the record, unless it was added to or a stop could not be replaced.
ProfitLocked ==
    Held /\ pos.tp >= 1 /\ adds = 0 /\ faults = 0
        => pos.stop > pos.entry /\ exStop > pos.entry /\ saved.stop > pos.entry

\* The exchange may lag behind the record but never holds a tighter stop than it, nor
\* does a restart bring back a wider stop than the exchange holds.
ExchangeNeverAhead ==
    Held /\ adds = 0 => exStop <= pos.stop /\ (faults = 0 => exStop = saved.stop)

\* Between two levels, until the position is added to, its stop only rises; a restart
\* may only give back what the exchange was never told.
StopHolds ==
    [][Held /\ pos' # Flat /\ pos'.tp = pos.tp /\ adds' = 0
         => pos'.stop >= pos.stop \/ pos'.stop >= exStop]_vars

\* The ladder from break-even to the trailing stop is a ratchet: as long as nothing is
\* added and no restart intervenes, no step of it lowers the stop.
StopRatchets ==
    [][Held /\ pos' # Flat /\ pos' # saved /\ adds' = adds => pos'.stop >= pos.stop]_vars

\* Record, file and exchange hold the stop the ladder has earned.
StopsAgree == ProfitLocked /\ ExchangeNeverAhead
=============================================================================
