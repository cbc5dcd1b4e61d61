----------------------------- MODULE MCMainLane ------------------------------
(****************************************************************************)
(* Model checking of the main lane of one symbol: the position between      *)
(* record and exchange, and the ladder that moves its stop. The two do not  *)
(* share state, so one run takes them one after the other.                  *)
(****************************************************************************)
EXTENDS MainPosition, Sequences

CONSTANTS
    LadderPrices, LadderPlans, LadderAtr,   \* what the ladder meets
    MaxAdds, MaxSlips                       \* its adds, and stops it cannot replace

\* A price is a thousand units at least and a stop more than a percent away: the
\* thousandths the ladder counts in would round the levels of a nearer one, which a
\* plan rewritten in a market that hardly moves may have, to the entry.
ASSUME LadderAssumption ==
    /\ LadderPrices \subseteq Nat \ {0} /\ LadderAtr \in Nat
    /\ MaxAdds \in Nat /\ MaxSlips \in Nat
    /\ \A plan \in LadderPlans :
          plan.ref \in Nat /\ plan.ref >= 1000 /\ plan.sl \in 11..999 /\ plan.tps \in Seq(Nat)

VARIABLES
    part,   \* the component that moves
    ladderPos, ladderSaved, ladderExStop, ladderRecent, ladderYoung,
    ladderAdds, ladderFaults

\* Three kinds of position, of a plan that passes the drift gate up to 5 % and one
\* that passes it up to 2 %.
MCPlans ==
    {[ref |-> 1000, sl |-> 100, tps |-> <<150, 300>>, floor |-> 150, slot |-> s] :
        s \in {"main", "low_rr_extra", "tactical"}}
    \cup {[ref |-> 1000, sl |-> 70, tps |-> <<160>>, floor |-> 200, slot |-> "main"]}

Ladder == INSTANCE ExitLadder WITH
    Prices <- LadderPrices, Plans <- LadderPlans, Atr <- LadderAtr,
    MaxFaults <- MaxSlips, pos <- ladderPos, saved <- ladderSaved,
    exStop <- ladderExStop, recent <- ladderRecent, young <- ladderYoung,
    adds <- ladderAdds, faults <- ladderFaults
ladder == <<ladderPos, ladderSaved, ladderExStop, ladderRecent, ladderYoung,
            ladderAdds, ladderFaults>>

all == <<part, vars, ladder>>

\* A behaviour is one of a component; the others stand where they begin.
MCInit ==
    /\ part \in {"main", "ladder"}
    /\ Init
    /\ part # "main" => held = 0
    /\ Ladder!Init

MCNext ==
    \/ part = "main" /\ Next /\ UNCHANGED <<part, ladder>>
    \/ part = "ladder" /\ Ladder!Next /\ UNCHANGED <<part, vars>>

\* The fairness of each component while it moves.
MCSpec ==
    /\ MCInit /\ [][MCNext]_all
    /\ WF_vars(part = "main" /\ SyncApply)
    /\ WF_vars(part = "main" /\ Migrate)
    /\ SF_vars(part = "main" /\ SyncFetch)
    /\ WF_vars(part = "main" /\ CoolEnds)
    /\ \A t \in Threads : WF_vars(part = "main" /\ Exit(t))

-----------------------------------------------------------------------------
(* What is checked of the ladder.                                           *)

\* Record, file and exchange hold the stop the ladder has earned.
StopsAgree == Ladder!StopsAgree

\* Between two levels the stop of a position only rises.
StopHolds == Ladder!StopHolds
==============================================================================
