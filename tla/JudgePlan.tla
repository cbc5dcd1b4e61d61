------------------------------- MODULE JudgePlan -------------------------------
(* The plan of an entry (agents/trading/judge.py, from _build_plan to the      *)
(* expected-value gate): stop, targets, leverage from the loss budget, ladder  *)
(* risk/reward, the rewriting of a pullback entry, and the gate.  The money of *)
(* the plan is decided in several functions, and a later one replaces numbers  *)
(* an earlier one was sized by.                                                *)
(*                                                                             *)
(* Distances are in units of 1/100000 of the price, shares of the balance in   *)
(* 1/10000, ratios and probabilities in percent.  The display rounding of      *)
(* prices to four digits is left out.                                          *)
EXTENDS Integers, Sequences

CONSTANTS Atrs, StopLevels, TargetLevels, Walls, Margins, Scores \* the markets, as _build_plan reads them

VARIABLES market, plan

vars == <<market, plan>>

P == 100000
Types == {"rule_signal", "ma_aligned", "momentum_probe_long"}
Markets ==
    {m \in [side : {"long", "short"}, atr : Atrs, strength : {50, 65, 85},
            strong : BOOLEAN,        \* a strong trend of the plan's side, or an extreme RSI
            stop : StopLevels,       \* the nearest support or resistance behind, 0 for none
            targets : TargetLevels,  \* levels ahead, nearest first
            wall : Walls,            \* the order book's wall ahead, 0 for none
            margin : Margins,        \* 10 % of the balance, less under the trade cap
            score : Scores, type : Types] :
        m.type = "momentum_probe_long" => m.side = "long"}

NoPlan == [built |-> FALSE]
Most(a, b) == IF a >= b THEN a ELSE b
Least(a, b) == IF a <= b THEN a ELSE b

-----------------------------------------------------------------------------
(* Stop, leverage and targets.                                                *)

\* A price d behind or ahead, moved by mill/1000 of itself, as a distance.
Behind(m, d) == IF m.side = "long" THEN P - ((P - d) * 995) \div 1000 ELSE ((P + d) * 1005) \div 1000 - P
WallTarget(m) ==
    IF m.side = "long" THEN ((P + m.wall) * 998) \div 1000 - P ELSE P - ((P - m.wall) * 1002) \div 1000

\* _calc_stop_loss: a level between the least distance for the trend and the ATR
\* cap, half a percent beyond it; or the least distance.
MinStop(m) == IF m.strength >= 80 THEN 2500 ELSE IF m.strength >= 60 THEN 2000 ELSE 1500
StopDistance(m) ==
    LET widest == Most(MinStop(m) + 500, Least(5000, (m.atr * 5) \div 2)) IN
    IF m.stop > MinStop(m) /\ m.stop < widest THEN Behind(m, m.stop) ELSE MinStop(m)

\* _calc_risk_budget: the leverage the loss budget (5 % of the balance) allows on
\* the margin, whole, at most 20, at most 10 for a weak signal, and down to a step
\* the exchange takes.
Allowed == {1, 2, 3, 5, 10, 20}
LeverageUp(m, sl) ==
    LET whole == Most(1, Least(20, (500 * P) \div (m.margin * sl))) IN
    CHOOSE l \in Allowed : l >= whole /\ \A k \in Allowed : k >= whole => k >= l
Leverage(m, sl) ==
    LET whole == Most(1, Least(20, (500 * P) \div (m.margin * sl)))
        cap == IF m.score < 35 THEN Least(whole, 10) ELSE whole
    IN CHOOSE l \in Allowed : l <= cap /\ \A k \in Allowed : k <= cap => k <= l

\* The loop of _calc_take_profit over the first three levels: one within half a
\* percent is passed over, and the first at or past the wall ends it with a target
\* just before the wall.
Walled(m, i) == m.wall # 0 /\ m.targets[i] > 500 /\ m.targets[i] >= m.wall
Level(m, i) ==
    IF i > Len(m.targets) \/ m.targets[i] <= 500 \/ (\E j \in 1..(i - 1) : Walled(m, j)) THEN <<>>
    ELSE IF ~Walled(m, i) THEN <<m.targets[i]>>
    ELSE IF WallTarget(m) > 500 THEN <<WallTarget(m)>> ELSE <<>>
Levels(m) == Level(m, 1) \o Level(m, 2) \o Level(m, 3)

\* _calc_take_profit: by ATR in a strong trend, else by the levels, or 2/4/6 %;
\* then no nearer than one ATR, and no nearer than one and a half stops.
Steps(d) == <<d, 2 * d, 3 * d>>
Targets(m, sl) ==
    LET atr == Most(m.atr, 1000)
        least == (sl * 3) \div 2
        found == IF m.strong THEN <<(3 * atr) \div 2, (5 * atr) \div 2, (7 * atr) \div 2>>
                 ELSE LET ahead == IF Levels(m) = <<>> THEN Steps(2000) ELSE Levels(m)
                      IN IF ahead[1] < atr THEN Steps(atr) ELSE ahead
    IN IF found[1] < least THEN Steps(least) ELSE found

-----------------------------------------------------------------------------
(* Risk/reward and expected value.                                            *)

\* CostModel: both fees and the funding of the hold, in the units of distance.
Cost == 200

\* _compute_ladder_rr: half, a quarter and a quarter leave at the three targets,
\* the last credited with no more than the stop's distance.  In twelfths.
Shares(n) == IF n = 1 THEN <<12>> ELSE IF n = 2 THEN <<8, 4>> ELSE <<6, 3, 3>>
Ladder(targets, sl) ==
    LET n == Least(3, Len(targets))
        Gain(i) == IF i > n THEN 0
                   ELSE Shares(n)[i] * (IF i = 3 THEN Least(targets[3], sl) ELSE targets[i])
    IN ((Gain(1) + Gain(2) + Gain(3) - 12 * Cost) * 100) \div (12 * (sl + Cost))

\* _build_plan, and _route_to_probe_long after it: a probe is levered three times
\* at most.
Built(m) ==
    LET sl == StopDistance(m)
        tp == Targets(m, sl)
        budgeted == Leverage(m, sl)
    IN [built |-> TRUE, sl |-> sl, tp |-> tp,
        leverage |-> IF m.type = "momentum_probe_long" THEN Least(3, budgeted) ELSE budgeted,
        margin |-> m.margin,
        rr |-> Ladder(tp, sl), rewritten |-> FALSE, limit |-> m.score < 80]

\* _apply_pullback_atr_policy: entries on an aligned average or a momentum probe
\* wait for half a percent back, with a stop of two ATR and targets of 2, 3 and 4
\* stops.  Leverage and size stay as they were budgeted.
Rewrite(m, p) ==
    IF m.type = "rule_signal" \/ m.atr = 0 \/ 2 * m.atr >= 50000 THEN p
    ELSE [p EXCEPT !.sl = 2 * m.atr, !.tp = <<4 * m.atr, 6 * m.atr, 8 * m.atr>>,
                   !.rewritten = TRUE, !.limit = TRUE]

\* The loss of a plan at its stop, in 1/10000 of the balance times P.
Loss(p) == p.margin * p.leverage * p.sl
Budget == 500 * P

\* The plan's expected value in distance units, at a probability of winning in
\* percent: the first target against the stop.
Expected(p, win) ==
    win * Most(0, p.tp[1] - Cost) - (100 - win) * (p.sl + Cost)

\* _check_expected_value.  A bucket of too few trades cannot raise the
\* probability; a strong signal passes on one without the value being asked.
Buckets == [win : {30, 50, 70}, sparse : BOOLEAN]
Wins == {30, 45, 55}
Used(win, b) == IF b.sparse /\ b.win > win THEN win ELSE b.win
Value(p, win, strong) == Expected(p, win) >= 0 \/ (strong /\ Expected(p, win) >= -3000)
Decayed(recent, strong) == recent < 40 /\ ~strong
Passes(p, m, win) == ~Decayed(win, m.score >= 70) /\ Value(p, win, m.score >= 70)
PassesIn(p, m, win, b) ==
    \/ b.sparse /\ m.score >= 70
    \/ ~Decayed(win, m.score >= 70) /\ Value(p, Used(win, b), m.score >= 70)

-----------------------------------------------------------------------------
Init == market \in Markets /\ plan = NoPlan

Build == ~plan.built /\ plan' = Built(market) /\ UNCHANGED market
Pullback ==
    /\ plan.built /\ ~plan.rewritten
    /\ plan' = Rewrite(market, plan)
    /\ UNCHANGED market

Next == Build \/ Pullback
Spec == Init /\ [][Next]_vars

-----------------------------------------------------------------------------
(* Properties.                                                                *)

\* A stop is behind the entry and no wider than the policy's widest, levels and
\* their half percent included; three targets or fewer are ahead of it.
TypeOK ==
    /\ market \in Markets
    /\ plan.built =>
         /\ plan.sl \in 1..49999 /\ plan.leverage \in Allowed
         /\ Len(plan.tp) \in 1..3 /\ \A i \in DOMAIN plan.tp : plan.tp[i] > 0
         /\ ~plan.rewritten => plan.sl < 5550

\* A plan as built loses no more than 5 % of the balance at its stop, whatever
\* the level the stop stands behind and however small the margin is.
BudgetKept == (plan.built /\ ~plan.rewritten) => Loss(plan) <= Budget

\* Every plan's first target pays one and a half stops at least, whichever branch
\* found it and whether or not the pullback policy rewrote it.
FirstTargetPays == plan.built => 2 * (plan.tp[1] + 1) >= 3 * plan.sl

\* AC-LONGPOS-12: a bucket of too few trades admits no signal that the rolling
\* probability refuses; only a strong one passes on it.
SparseNeverHelps ==
    plan.built =>
        \A win \in Wins : \A b \in Buckets :
            (b.sparse /\ market.score < 70 /\ PassesIn(plan, market, win, b)) => Passes(plan, market, win)

\* The loss at the stop of every plan is inside the 5 % budget.
LossBounded == plan.built => Loss(plan) <= Budget

\* The targets of a plan are nearest first.
LadderAscends == plan.built => \A i \in 1..(Len(plan.tp) - 1) : plan.tp[i] <= plan.tp[i + 1]

\* A plan keeps its budget until the pullback policy rewrites it, and pays.
PlanPays == BudgetKept /\ FirstTargetPays
=============================================================================
