------------------------------- MODULE MCJudge -------------------------------
(****************************************************************************)
(* Model checking of the judge: its slots and memory, the gates an order    *)
(* passes, the plan it carries and the score it starts from. The parts do   *)
(* not share state, so one run takes them one after the other.              *)
(****************************************************************************)
EXTENDS JudgeSlots, Integers

CONSTANTS
    s1, s2,
    TacticalTrack,                                      \* of the gates
    Atrs, StopLevels, TargetLevels, Walls, Margins, Scores, \* markets of the plans
    Saturation, Downweight, Strengths, Rsis, Frames, Flows  \* switches and markets of the score

\* Distances are whole and not negative; a margin is at most 10 % of the balance.
ASSUME PlanMarkets ==
    /\ Atrs \subseteq Nat /\ StopLevels \subseteq Nat /\ Walls \subseteq Nat
    /\ TargetLevels \subseteq Seq(Nat)
    /\ Margins \subseteq 1..1000
ASSUME ScoreMarkets ==
    /\ Saturation \in BOOLEAN /\ Downweight \in BOOLEAN
    /\ Strengths \subseteq Nat /\ Rsis \subseteq 0..100 /\ Frames \subseteq 0..100
    /\ Flows \subseteq Int

VARIABLES
    part,   \* the component that moves
    gatesDeferred, gatesWaiting, gatesSent,
    planMarket, planPlan,
    scoreTech, scoreStreak

\* Levels on both sides of every threshold, as are the values in the cfg.
PlanTargets == {<<>>, <<400, 3900>>, <<3900, 6000, 9000>>, <<300, 900, 2600, 8000>>}
NoMarket == <<>>
NoTech == [dir |-> 0]

\* The slots where the other slot type admits none: with its one position open
\* the judge has no slot at all.
Crowd == INSTANCE JudgeSlots WITH ExtraCap <- 0, MaxEntries <- 1

Gates == INSTANCE JudgeGates WITH
    deferred <- gatesDeferred, waiting <- gatesWaiting, sent <- gatesSent
gates == <<gatesDeferred, gatesWaiting, gatesSent>>

Plan == INSTANCE JudgePlan WITH market <- planMarket, plan <- planPlan
plan == <<planMarket, planPlan>>

\* The properties mirror the inputs to the other side.
Score == INSTANCE JudgeScore WITH tech <- scoreTech, streak <- scoreStreak
score == <<scoreTech, scoreStreak>>

all == <<part, vars, gates, plan, score>>

\* A behaviour is one of a component; the others stand where they begin.
MCInit ==
    /\ part \in {"slots", "crowd", "gates", "plan", "score"}
    /\ Init
    /\ Gates!Init
    /\ IF part = "plan" THEN Plan!Init ELSE planMarket = NoMarket /\ planPlan = Plan!NoPlan
    /\ IF part = "score" THEN Score!Init ELSE scoreTech = NoTech /\ scoreStreak = Score!NoStreak

MCNext ==
    \/ part = "slots" /\ Next /\ UNCHANGED <<part, gates, plan, score>>
    \/ part = "crowd" /\ Crowd!Next /\ UNCHANGED <<part, gates, plan, score>>
    \/ part = "gates" /\ Gates!Next /\ UNCHANGED <<part, vars, plan, score>>
    \/ part = "plan" /\ Plan!Next /\ UNCHANGED <<part, vars, gates, score>>
    \/ part = "score" /\ Score!Next /\ UNCHANGED <<part, vars, gates, plan>>

\* The fairness of each component while it moves.
MCSpec ==
    /\ MCInit /\ [][MCNext]_all
    /\ \A s \in {s1, s2} :
          /\ WF_vars(part \in {"slots", "crowd"} /\ AgePending(s))
          /\ WF_vars(part \in {"slots", "crowd"} /\ Age(s))
          /\ WF_vars(part = "slots" /\ Analyse(s))
          /\ WF_vars(part = "crowd" /\ Crowd!Analyse(s))

-----------------------------------------------------------------------------
(* What is checked, with CapsHold and EnteredOnce of the slots.             *)

\* A reservation ends, even when the executor never answers (ReservationEnds
\* of JudgeSlots, for one of two symbols that differ in name only).
OneReservationEnds == pending[s1] # "none" ~> pending[s1] = "none"

\* No path to an order goes around a gate that another path has.
NoGateBypassed == Gates!NoGateBypassed

\* A plan keeps its budget until the pullback policy rewrites it, and its
\* first target pays one and a half stops.
PlanPays == Plan!PlanPays

\* A market and its mirror get scores that mirror each other.
SidesAgree == part = "score" => Score!SidesAgree

\* The loss at the stop of every plan is inside the 5 % budget.
LossBounded == Plan!LossBounded
==============================================================================
