------------------------------ MODULE JudgeScore ------------------------------
(* The score of a symbol (agents/trading/judge.py: _compute_score and what     *)
(* _make_decision adds to it up to the entry threshold): weighted votes, a cap *)
(* by RSI, decays, and a streak kept from one analysis to the next.  Long and  *)
(* short are written out side by side in the code; the properties are that the *)
(* two sides agree.  In 1/1000 of a point.                                     *)
EXTENDS Integers

CONSTANTS
    Saturation,  \* config: phase2_trend_saturation_enabled
    Downweight,  \* config: pseudo_resonance_downweight_enabled
    Strengths, Rsis, Frames, Flows \* values of the inputs, on both sides of the thresholds

VARIABLES tech, streak

vars == <<tech, streak>>

Signs == {-1, 0, 1}   \* bearish, neutral, bullish
Techs ==
    [rule : {-2, -1, 0, 1, 2},  \* a cross at 2, an alignment at 1
     dir : Signs, htf : Signs, strength : Strengths, rsi : Rsis, rsi4h : Frames,
     div : Signs, flow : Flows, \* open interest, whales and takers together
     crowd : Signs]             \* the contrarian reading of retail

Abs(n) == IF n < 0 THEN -n ELSE n
Most(a, b) == IF a >= b THEN a ELSE b
Least(a, b) == IF a <= b THEN a ELSE b
Sign(n) == IF n < 0 THEN -1 ELSE IF n > 0 THEN 1 ELSE 0
\* n * k / 10, towards zero.
Tenths(n, k) == Sign(n) * ((Abs(n) * k) \div 10)

Rule(t) == CASE Abs(t.rule) = 2 -> Sign(t.rule) * 35000 [] Abs(t.rule) = 1 -> t.rule * 20000 [] OTHER -> 0

\* Strong trends are flattened at 90, or discounted past it.
Strength(t) == IF t.strength <= 90 THEN t.strength ELSE IF Saturation THEN 90 ELSE 90 - (t.strength - 90) * 2
Stretched(t) == (t.dir = 1 /\ t.rsi > 65) \/ (t.dir = -1 /\ t.rsi < 35)
Trend(t) ==
    IF Strength(t) <= 70 THEN 0
    ELSE Tenths(t.dir * 200 * Strength(t), IF Stretched(t) THEN 3 ELSE 10)

\* The three votes of the moving averages, capped together when configured.
MaBloc(t) ==
    LET raw == Rule(t) + Trend(t) + t.htf * 10000
    IN IF Downweight THEN Sign(raw) * Least(Abs(raw), 50000) ELSE raw

\* An RSI divergence: worth more in the extreme it reverses, little against the
\* higher frame unless it is there.
Extreme(t) == IF t.rsi <= 30 THEN 1 ELSE IF t.rsi >= 70 THEN -1 ELSE 0  \* the side it favours
Leaning(t) == IF t.rsi < 35 THEN 1 ELSE IF t.rsi > 65 THEN -1 ELSE 0
Divergence(t) ==
    LET full == IF Extreme(t) = t.div THEN 35000 ELSE IF Leaning(t) = t.div THEN 28000 ELSE 20000
        against == t.htf = -t.div /\ Extreme(t) # t.div
    IN IF t.div = 0 THEN 0 ELSE t.div * (IF against THEN Least(full, 15000) ELSE full)

\* Contrarians are not followed where RSI is extreme on the other side.
Crowd(t) == IF t.crowd = 0 \/ Extreme(t) = -t.crowd THEN 0 ELSE t.crowd * 8000

\* RSI at 30 or 70 caps the score, the further out the tighter, and looser with
\* the higher frame; a divergence there turns it.
Cap(t) ==
    LET far == IF t.rsi <= 50 THEN 30 - t.rsi ELSE t.rsi - 70   \* points past the extreme
        with == t.htf = -Extreme(t)
    IN IF far > 10 THEN 15000
       ELSE IF far > 5 THEN IF with THEN 20000 ELSE 15000
       ELSE IF with THEN 25000 ELSE 20000
Capped(t, s) ==
    LET side == Extreme(t)
        held == IF side = 1 THEN Most(s, -Cap(t)) ELSE IF side = -1 THEN Least(s, Cap(t)) ELSE s
    IN IF side # 0 /\ t.div = side
       THEN IF side = 1 THEN Most(held, 25000) ELSE Least(held, -25000)
       ELSE held

\* The four-hour RSI discounts a score that chases it.
FrameLongOnly(t, s) == IF t.rsi4h >= 70 /\ s > 0 THEN Tenths(s, 5) ELSE s
Frame(t, s) ==
    LET far == IF t.rsi4h <= 50 THEN 30 - t.rsi4h ELSE t.rsi4h - 70
        chases == (t.rsi4h >= 70 /\ s > 0) \/ (t.rsi4h <= 30 /\ s < 0)
    IN IF ~chases THEN s
       ELSE IF ~Saturation THEN Tenths(s, 5)
       ELSE Tenths(s, IF far > 10 THEN 3 ELSE IF far > 5 THEN 5 ELSE 7)

\* _compute_score.
Score(t) == Frame(t, Capped(t, MaBloc(t) + Divergence(t) + t.flow + Crowd(t)))

\* Near the daily level on side near a score towards it is discounted, by the
\* volume: not at all on a break, halved, or to three tenths when it is thin.
Daily(s, near, volume) ==
    IF s = 0 \/ near # Sign(s) \/ volume = "break" THEN s
    ELSE Tenths(s, IF volume = "normal" THEN 5 ELSE 3)

\* The streak of strong trends one way: a fifth analysis and later add ten.
NoStreak == [dir |-> 0, n |-> 0]
Streak(t, k) ==
    IF t.dir = 0 \/ t.strength < 75 THEN NoStreak
    ELSE [dir |-> t.dir, n |-> IF k.dir = t.dir THEN Least(5, k.n + 1) ELSE 1]

\* What _make_decision makes of the score in a round: a pullback that came back
\* adds fifteen, a streak ten; news that the price already made halves the rest.
Rounds == [bonus : Signs, near : Signs, volume : {"break", "normal", "thin"}, priced : BOOLEAN]
Final(t, k, c) ==
    LET s == Daily(Score(t) + c.bonus * 15000 + (IF k.n >= 5 THEN k.dir * 10000 ELSE 0), c.near, c.volume)
    IN IF c.priced /\ Abs(s) >= 30000 THEN Tenths(s, 5) ELSE s

\* The entry threshold, lower with a rule behind the signal.
Threshold(t) == IF t.rule # 0 THEN 25000 ELSE IF t.htf # 0 THEN 35000 ELSE 40000
Enters(t, s) == IF Abs(s) < Threshold(t) THEN 0 ELSE Sign(s)

Init == tech \in Techs /\ streak = NoStreak

\* The symbol is analysed again: the trend goes on, ends or turns.
Analyse ==
    /\ \E dir \in {tech.dir, 0, -tech.dir} : tech' = [tech EXCEPT !.dir = dir]
    /\ streak' = Streak(tech', streak)

Next == Analyse
Spec == Init /\ [][Next]_vars

-----------------------------------------------------------------------------
(* Properties.                                                                *)

\* A streak is of the trend that is there.
TypeOK == tech \in Techs /\ streak.n \in 0..5 /\ (streak.n > 0 => streak.dir = tech.dir /\ streak.dir # 0)

Mirror(t) ==
    [t EXCEPT !.rule = -t.rule, !.dir = -t.dir, !.htf = -t.htf, !.rsi = 100 - t.rsi,
              !.rsi4h = 100 - t.rsi4h, !.div = -t.div, !.flow = -t.flow, !.crowd = -t.crowd]

\* Long and short are judged alike: the mirrored market, streak and round have the
\* mirrored score and enter on the mirrored side, every cap and decay included.
SidesAgree ==
    /\ Score(Mirror(tech)) = -Score(tech)
    /\ \A c \in Rounds :
          LET other == [streak EXCEPT !.dir = -streak.dir]
              mirrored == [c EXCEPT !.bonus = -c.bonus, !.near = -c.near]
          IN Enters(Mirror(tech), Final(Mirror(tech), other, mirrored)) = -Enters(tech, Final(tech, streak, c))

\* One more bullish vote, all else equal, never lowers the score: no cap, decay
\* or exception turns a vote against its own side.
VotesCount ==
    LET t == tech IN
    /\ t.htf < 1 => Score([t EXCEPT !.htf = t.htf + 1]) >= Score(t)
    /\ t.rule < 2 => Score([t EXCEPT !.rule = t.rule + 1]) >= Score(t)
    /\ t.div < 1 => Score([t EXCEPT !.div = t.div + 1]) >= Score(t)
    /\ t.crowd < 1 => Score([t EXCEPT !.crowd = t.crowd + 1]) >= Score(t)

\* A trend that just turned has no streak behind it: the ten points of a streak
\* come after five analyses of the same side.
TurnStartsOver == [][tech'.dir # tech.dir => streak'.n <= 1]_vars
=============================================================================
