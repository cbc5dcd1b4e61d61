------------------------------ MODULE JudgeGates ------------------------------
(* The gates between a scored signal and an order (agents/trading/judge.py):  *)
(* the main path of _make_decision and the two paths a deferred entry comes   *)
(* back on.  The code keeps the gates of the three in step by hand; here each *)
(* path is written as the code orders its gates, and the properties are about *)
(* every order that leaves, whichever path it took.                           *)
(*                                                                            *)
(* A market is what more than one gate reads.  What a single gate reads (the  *)
(* language model's answer, the expected value, the quality of the signal,    *)
(* free slots) is a choice there.  Risk/reward is in the bands its floors     *)
(* tell apart: 0 under 1.2, 1 to 1.3, 2 to 1.5, 3 to 1.8, 4 above.            *)
EXTENDS Naturals

CONSTANT TacticalTrack  \* config: tactical_track_enabled

VARIABLES
    deferred, \* state['deferred_entry']: its direction and kind
    waiting,  \* state['pending_pullback']
    sent      \* the last order: its plan and the market it was judged in

vars == <<deferred, waiting, sent>>

Dirs == {"long", "short"}
Bands == 0..4
Markets ==
    {m \in [dir : Dirs, regime : {"bullish", "bearish", "flat"},
            dailyBear : BOOLEAN,  \* trend.daily_bias
            metrics : BOOLEAN,    \* range, pre-move, RSI over 40, score and votes a short needs
            rsi : {"low", "mid", "high"},
            heat : {"none", "target", "noTarget"}, \* overheated, with a pullback target or none
            thesis : {"none", "path", "aligned"},
            rr : Bands, tp1 : {2, 3},              \* of the plan; of its first target alone
            timing : {"missing", "block", "confirm", "neutral"}] :
        m.metrics => m.rsi # "low"}

NoEntry == [dir |-> "none", kind |-> "none"]
NoOrder == [path |-> "none"]
Plan == [slot |-> "main", probe |-> FALSE, track |-> "main", low |-> FALSE]
Probe(p, slot) == [p EXCEPT !.slot = slot, !.probe = TRUE]
Order(path, p, m) == [path |-> path, plan |-> p, market |-> m]

\* _is_live_tactical_plan: gates of the main track let such a plan pass.
Tactical(p) == p.track = "tactical"

-----------------------------------------------------------------------------
(* The gates.                                                                 *)

\* _classify_short_entry_risk: the reason to refuse a short, the daily bias first.
ShortReasonNoDaily(m, p) == IF m.dir = "long" \/ p.probe \/ Tactical(p) \/ m.metrics THEN "" ELSE "metrics"
ShortReason(m, p) ==
    IF m.dir = "long" \/ p.probe \/ Tactical(p) THEN ""
    ELSE IF ~m.dailyBear THEN "daily" ELSE IF ~m.metrics THEN "metrics" ELSE ""

\* _check_entry_position_policy for longs.  Of shorts it asks no more than
\* ShortReason does.
TooHot(m, p) == m.dir = "long" /\ ~p.probe /\ ~Tactical(p) /\ m.heat # "none"

\* _classify_regime_flat_gate.
Flat(m) == m.dir = "long" /\ m.regime = "flat" /\ m.thesis = "none"

\* _select_rr_floor: the floors there can be, path evidence behind a flag and more.
LowFloor(m, p) ==
    ~p.probe /\ m.dir = "long"
    /\ (m.regime = "bullish" \/ (m.regime = "flat" /\ m.thesis # "none"))
Floors(m, p) ==
    IF p.probe THEN {2}
    ELSE IF LowFloor(m, p) THEN IF m.regime = "flat" /\ m.thesis = "path" THEN {2, 3} ELSE {2}
    ELSE IF m.dir = "short" /\ m.regime = "bullish" THEN {4} ELSE {3}

\* _apply_low_rr_sizing, under one of the low floors.
Sized(m, p, floor) ==
    IF floor = 2 /\ LowFloor(m, p) /\ m.tp1 < 3
    THEN [p EXCEPT !.low = TRUE, !.slot = "low_rr_extra"] ELSE p

\* The short regime guard: in a bullish regime a short passes, becomes a probe or
\* is refused (is_short_allowed, _can_route_probe_short: a probe's floor is 1.3).
GuardedShorts(m, p) ==
    IF m.dir = "short" /\ m.regime = "bullish"
    THEN {p} \cup (IF m.rr >= 2 THEN {Probe(p, "probe_short")} ELSE {})
    ELSE {p}

\* _apply_regime_policy: what may be left of a plan on a deferred path.
RegimePolicy(m, p) ==
    LET guarded == GuardedShorts(m, p)
        gated == {g \in guarded : ShortReason(m, g) = ""}
                 \cup (IF m.rr >= 2 THEN {Probe(g, "probe_short") :
                                          g \in {h \in guarded : ShortReason(m, h) = "daily"}}
                       ELSE {})
    IN UNION {{Sized(m, g, floor) : floor \in {x \in Floors(m, g) : m.rr >= x}} : g \in gated}

\* _classify_track with _apply_tactical_profile: the plan goes on as main or as
\* tactical; otherwise it is a shadow or a V2 candidate, and no order.
Tracks(m, p) ==
    IF ~TacticalTrack THEN {p}
    ELSE IF m.timing = "block" THEN {}
    ELSE {p, [p EXCEPT !.track = "tactical", !.slot = "tactical"]}

\* _check_15m_entry_timing; a neutral bias lets a strong confirmed signal pass.
TimingPasses(m) == m.timing \in {"missing", "confirm", "neutral"}
TimingDefers(m) == m.timing \in {"block", "neutral"}

-----------------------------------------------------------------------------
(* The paths.  Each is one analysis of the symbol, in the market m; w is what  *)
(* that analysis leaves of a pending pullback before it goes on.               *)

\* A pending pullback ages, or ends when the RSI came back past 65 or 35, which
\* lie inside the middle band.
Waited(m) ==
    IF (waiting = "long" /\ m.rsi = "low") \/ (waiting = "short" /\ m.rsi = "high")
    THEN {"none"} ELSE {waiting, "none"}

Hold(w) == waiting' = w /\ UNCHANGED <<deferred, sent>>
Drop(w) == deferred' = NoEntry /\ waiting' = w /\ UNCHANGED sent
Send(path, p, m, w) == sent' = Order(path, p, m) /\ waiting' = w
Defer(m, kind, w) == deferred' = [dir |-> m.dir, kind |-> kind] /\ waiting' = w /\ UNCHANGED sent

\* The RSI bans; on the main path a long may become a probe instead.
Banned(m) == (m.dir = "long" /\ m.rsi = "high") \/ (m.dir = "short" /\ m.rsi = "low")
AfterRsi(m, p) ==
    IF ~Banned(m) THEN {p} ELSE IF m.dir = "long" THEN {Probe(p, "probe_long")} ELSE {}

\* The plans that reach the risk/reward floor of the main path, and what is left.
Ranked(m) == UNION {Tracks(m, p) : p \in UNION {AfterRsi(m, g) : g \in GuardedShorts(m, Plan)}}
Floored(m) ==
    UNION {IF Tactical(p) THEN {p}
           ELSE {Sized(m, p, floor) : floor \in {x \in Floors(m, p) : m.rr >= x}} : p \in Ranked(m)}

\* _make_decision from the score to the slots, in the code's order: each step may
\* end it, with a hold, a shadow, a deferral, or a mark to wait for the RSI.
Main(m, w) ==
    /\ deferred = NoEntry
    /\ \/ Hold(w)                                    \* score, quality, guard, floor, EV, slots
       \/ Defer(m, "pullback", w)                    \* the reversal veto
       \/ Banned(m) /\ Hold(m.dir)
       \/ \E p \in {q \in Floored(m) : ShortReason(m, q) = ""} :
             \/ TooHot(m, p) /\ m.heat = "target" /\ Defer(m, "pullback", w)
             \/ /\ ~TooHot(m, p) /\ ~Flat(m)
                /\ \/ TimingDefers(m) /\ Defer(m, "confirm", w)
                   \/ TimingPasses(m) /\ Send("main", p, m, w) /\ UNCHANGED deferred

\* What the two deferred paths share after their own checks.
Reentry(path, m, w) ==
    \/ Drop(w)                                       \* reconfirm, size, EV, quality
    \/ /\ m.rr >= 1
       /\ \E p \in RegimePolicy(m, Plan) :
            /\ ~Flat(m) /\ ~TooHot(m, p) /\ ShortReason(m, p) = ""
            /\ deferred' = NoEntry
            /\ \/ Send(path, p, m, w)
               \/ waiting' = w /\ UNCHANGED sent     \* the slot gate

\* deferred_15m_confirmation.
Confirmed(m, w) ==
    /\ deferred = [dir |-> m.dir, kind |-> "confirm"]
    /\ Hold(w) \/ Reentry("confirm", m, w)

\* deferred_pullback: once its target is reached the RSI bans apply here too.
Pulled(m, w) ==
    /\ deferred = [dir |-> m.dir, kind |-> "pullback"]
    /\ Hold(w) \/ Drop(w) \/ (~Banned(m) /\ Reentry("pullback", m, w))

Analyse ==
    /\ sent = NoOrder
    /\ \E m \in Markets : \E w \in Waited(m) : Main(m, w) \/ Confirmed(m, w) \/ Pulled(m, w)

\* The order is the executor's; the judge goes on.
Leaves == sent # NoOrder /\ sent' = NoOrder /\ UNCHANGED <<deferred, waiting>>

Init == deferred = NoEntry /\ waiting = "none" /\ sent = NoOrder
Next == Analyse \/ Leaves
Spec == Init /\ [][Next]_vars

-----------------------------------------------------------------------------
(* Properties: of every order, on every path.                                 *)

Ordered == sent # NoOrder
MainTrack == Ordered /\ sent.plan.track = "main"

\* Nothing but the first slots' own plans is reduced for a low risk/reward: a
\* probe is small already.
TypeOK ==
    /\ waiting \in Dirs \cup {"none"}
    /\ deferred = NoEntry \/ (deferred.dir \in Dirs /\ deferred.kind \in {"confirm", "pullback"})
    /\ Ordered => /\ sent.market \in Markets
                  /\ sent.plan.low => sent.plan.slot = "low_rr_extra" /\ ~sent.plan.probe

\* Short Main Path Risk Guard Parity: no full-size short against the daily bias
\* or without the metrics a short needs, whichever path sent it.
ShortsEarned ==
    MainTrack /\ sent.market.dir = "short" /\ ~sent.plan.probe
        => sent.market.dailyBear /\ sent.market.metrics

\* AC-LONGPOS-08/09: no long is sent overheated on any path, but as a probe.
LongsNotHot ==
    MainTrack /\ sent.market.dir = "long" /\ ~sent.plan.probe => sent.market.heat = "none"

\* The choppy flat gate: no long without a thesis in a flat regime, probes and
\* the tactical track included.
FlatStaysOut ==
    Ordered => ~(sent.market.dir = "long" /\ sent.market.regime = "flat" /\ sent.market.thesis = "none")

\* An order under 1.3 is none of the main track's; one under 1.5 that its first
\* target does not carry is a probe or a reduced one.
SizeEarned ==
    MainTrack => /\ sent.market.rr >= 2
                 /\ (sent.market.rr = 2 /\ sent.market.tp1 = 2) => sent.plan.slot # "main"
                 /\ (sent.plan.slot = "main" /\ sent.market.dir = "short"
                       /\ sent.market.regime = "bullish") => sent.market.rr = 4

\* The RSI bans hold on the deferred paths as on the main one.
RsiBanned == Ordered => ~Banned(sent.market) \/ sent.plan.slot = "probe_long" \/ Tactical(sent.plan)

\* No path to an order goes around a gate that another path has.
NoGateBypassed == ShortsEarned /\ LongsNotHot /\ FlatStaysOut /\ SizeEarned
=============================================================================
