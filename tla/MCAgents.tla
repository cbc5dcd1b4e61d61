------------------------------ MODULE MCAgents -------------------------------
(****************************************************************************)
(* Model checking of what agents tell each other: the guard of all open     *)
(* positions and the research cycle. They do not share state, so one run    *)
(* takes them one after the other.                                          *)
(****************************************************************************)
EXTENDS RiskGuard

CONSTANT s1

VARIABLES
    part,   \* the component that moves
    researchStarted, researchWatch, researchRetries, researchAsked,
    researchLost, researchEmpty, researchMail, researchCurrent,
    researchBucket, researchBarrier, researchWaits, researchThinking,
    researchBusy, researchChosen, researchDeciding, researchPreliminaries,
    researchPublished, researchReports, researchFinal

\* Two cycles, one retry, two collectors that do not answer.
Research == INSTANCE ResearchCycle WITH
    MaxCycles <- 2, MaxRetries <- 1, MaxLost <- 2,
    started <- researchStarted, watch <- researchWatch,
    retries <- researchRetries, asked <- researchAsked,
    lost <- researchLost, empty <- researchEmpty, mail <- researchMail,
    current <- researchCurrent, bucket <- researchBucket,
    barrier <- researchBarrier, waits <- researchWaits,
    thinking <- researchThinking, busy <- researchBusy,
    chosen <- researchChosen, deciding <- researchDeciding,
    preliminaries <- researchPreliminaries, published <- researchPublished,
    reports <- researchReports, final <- researchFinal
research == <<researchStarted, researchWatch, researchRetries,
              researchAsked, researchLost, researchEmpty, researchMail,
              researchCurrent, researchBucket, researchBarrier,
              researchWaits, researchThinking, researchBusy, researchChosen,
              researchDeciding, researchPreliminaries, researchPublished,
              researchReports, researchFinal>>

all == <<part, vars, research>>

\* A behaviour is one of a component; the others stand where they begin.
MCInit ==
    /\ part \in {"guard", "research"}
    /\ Init
    /\ Research!Init

MCNext ==
    \/ part = "guard" /\ Next /\ UNCHANGED <<part, research>>
    \/ part = "research" /\ Research!Next /\ UNCHANGED <<part, vars>>

\* The fairness of each component while it moves.
MCSpec ==
    /\ MCInit /\ [][MCNext]_all
    /\ WF_vars(part = "guard" /\ TakeOrder)
    /\ WF_vars(part = "guard" /\ TakeCommand)
    /\ WF_vars(part = "guard" /\ TakeResult)
    /\ WF_vars(part = "guard" /\ TakeStop)
    /\ WF_vars(part = "guard" /\ Review)
    /\ WF_vars(part = "guard" /\ CloseOne(s1))
    /\ WF_vars(part = "guard" /\ Warn(s1))
    /\ \A k \in {s1, "drawdown"} : SF_vars(part = "guard" /\ CooldownEnds(k))
    /\ WF_research(part = "research" /\ Research!TakeData)
    /\ WF_research(part = "research" /\ Research!TakeChallenge)
    /\ WF_research(part = "research" /\ Research!Challenge)
    /\ WF_research(part = "research" /\ Research!Decide)
    /\ \A c \in Research!Cycles :
          /\ WF_research(part = "research" /\ Research!Expires(c))
          /\ WF_research(part = "research" /\ Research!Report(c))
    /\ \A c \in Research!Cycles :
          /\ WF_research(part = "research" /\ Research!Wake(c))
          /\ WF_research(part = "research" /\ Research!Unwind(c))
          /\ WF_research(part = "research" /\ Research!Choose(c))

-----------------------------------------------------------------------------
(* What is checked.                                                         *)

\* A research cycle selects, gives up aloud, or is overtaken by one that
\* does.
NothingSilent == Research!NothingSilent
==============================================================================
