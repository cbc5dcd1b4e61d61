-------------------------- MODULE TacticalExchange --------------------------
(* The exchange as the Tactical V2 lane sees it: one deterministic entry     *)
(* order, the position it fills into, the attached TP and SL algos and one   *)
(* deterministic close order per intent, and the primitives of               *)
(* ContractExecutor (executor.py 482-1069) that act on them.                 *)
(*                                                                           *)
(* A primitive is a relation P(i, .., tag): it moves the exchange and names  *)
(* the answer the caller will read.  Each runs in a worker thread            *)
(* (asyncio.to_thread), so its effect and the caller's reaction are separate *)
(* steps of TacticalLive.  An answer that hides or loses the truth (an       *)
(* exception, a lookup that misses the order, a cancel nobody confirms) is a *)
(* fault; MaxFaults bounds the faults of a behaviour.                        *)
(*                                                                           *)
(* Quantities are whole lots: Lots = 1 is an entry that fills entirely or    *)
(* not at all, Lots = 2 one that can fill in part.                           *)
EXTENDS Naturals

CONSTANTS
    Intents,    \* admitted Tactical intents, each on a symbol of its own
    Lots,       \* quantity of an entry order
    MaxFaults   \* bound: exchange answers that go wrong in one behaviour

ASSUME LotsAssumption == Lots \in Nat \ {0}
ASSUME FaultsAssumption == MaxFaults \in Nat

VARIABLES
    order,      \* the entry order: "none", "open" or "dead" (terminal)
    filled,     \* lots the entry order has filled
    held,       \* lots of the position now open
    algos,      \* the attached TP and SL: "both" legs, "one" or "none"
    closeOrder, \* TRUE once the deterministic close order exists
    submits,    \* how many times the entry was sent (observation only)
    faults      \* faults so far

exch == <<order, filled, held, algos, closeOrder, submits, faults>>

OrderStates == {"none", "open", "dead"}
AlgoStates == {"both", "one", "none"}

ExchangeTypeOK ==
    /\ order \in [Intents -> OrderStates]
    /\ filled \in [Intents -> 0..Lots]
    /\ held \in [Intents -> 0..Lots]
    /\ algos \in [Intents -> AlgoStates]
    /\ closeOrder \in [Intents -> BOOLEAN]
    /\ submits \in [Intents -> Nat]
    /\ faults \in 0..MaxFaults

ExchangeInit ==
    /\ order = [i \in Intents |-> "none"]
    /\ filled = [i \in Intents |-> 0]
    /\ held = [i \in Intents |-> 0]
    /\ algos = [i \in Intents |-> "none"]
    /\ closeOrder = [i \in Intents |-> FALSE]
    /\ submits = [i \in Intents |-> 0]
    /\ faults = 0

Faulty == faults < MaxFaults /\ faults' = faults + 1
Honest == UNCHANGED faults

-----------------------------------------------------------------------------
(* The primitives.                                                           *)

\* submit_tactical_entry: an exception from create_order is answered by a
\* lookup of the client id, so "ok" also covers a lost response that was found
\* again; "err" leaves the caller not knowing whether the order exists.  The
\* balance, leverage and quantity checks before create_order raise too; a
\* non-positive quantity never comes back (executor.py 516-521).
SubmitEntry(i, tag) ==
    /\ submits' = [submits EXCEPT ![i] = @ + 1]
    /\ \/ tag = "ok" /\ Honest /\ order' = [order EXCEPT ![i] = "open"]
       \/ tag = "err" /\ Faulty /\ order' = [order EXCEPT ![i] = "open"]
       \/ tag = "err" /\ Faulty /\ order' = order
    /\ UNCHANGED <<filled, held, algos, closeOrder>>

\* query_tactical_entry: found with the order's quantities, or not.  A lookup
\* error and an order not visible yet are one answer to every caller.
QueryEntry(i, tag) ==
    /\ \/ tag = "found" /\ Honest /\ order[i] # "none"
       \/ tag = "missing" /\ Honest /\ order[i] = "none"
       \/ tag = "missing" /\ Faulty /\ order[i] # "none"
    /\ UNCHANGED <<order, filled, held, algos, closeOrder, submits>>

\* cancel_tactical_entry: look up, cancel, look up again.  It proves the order
\* terminal and reports its final fill, or proves nothing.
CancelEntry(i, tag) ==
    /\ \/ /\ tag = "proven" /\ Honest /\ order[i] # "none"
          /\ order' = [order EXCEPT ![i] = "dead"]
       \/ tag = "unproven" /\ Honest /\ order[i] = "none" /\ order' = order
       \/ /\ tag = "unproven" /\ Faulty /\ order[i] # "none"
          /\ order' \in {order, [order EXCEPT ![i] = "dead"]}
    /\ UNCHANGED <<filled, held, algos, closeOrder, submits>>

\* verify_tactical_protection: complete only when both legs are there.  A
\* lookup that lists too few algos reports an incomplete proof; a malformed
\* row raises.
VerifyProtection(i, tag) ==
    /\ \/ tag = "complete" /\ Honest /\ algos[i] = "both"
       \/ tag = "incomplete" /\ Honest /\ algos[i] # "both"
       \/ tag \in {"incomplete", "err"} /\ Faulty
    /\ UNCHANGED <<order, filled, held, algos, closeOrder, submits>>

\* cancel_tactical_protection: cancels the algos that carry this intent's ids.
CancelProtection(i, tag) ==
    /\ \/ tag = "ok" /\ Honest /\ algos' = [algos EXCEPT ![i] = "none"]
       \/ tag = "err" /\ Faulty /\ algos' = algos
    /\ UNCHANGED <<order, filled, held, closeOrder, submits>>

\* _fetch_okx_position_state(raise_on_error=True), compared with the quantity
\* the caller expects.  Lots frozen by a foreign order are not available, so a
\* comparison may fail on the right position.
FetchPosition(i, expected, tag) ==
    /\ \/ tag = "flat" /\ Honest /\ held[i] = 0
       \/ tag = "match" /\ Honest /\ held[i] # 0 /\ held[i] = expected
       \/ tag = "mismatch" /\ Honest /\ held[i] # 0 /\ held[i] # expected
       \/ tag = "mismatch" /\ Faulty /\ held[i] # 0 /\ held[i] = expected
       \/ tag = "err" /\ Faulty
    /\ UNCHANGED <<order, filled, held, algos, closeOrder, submits>>

\* close_tactical_position: an existing close order is reported and never sent
\* again; otherwise the algos are cancelled and at most the expected quantity
\* is closed at market.  "locked" is the exit lock held by another exit, "err"
\* a failed lookup or a rejected order after the algos are gone.
ClosePosition(i, qty, tag) ==
    /\ \/ tag = "sent" /\ Honest /\ closeOrder[i]
          /\ UNCHANGED <<held, algos, closeOrder>>
       \/ /\ tag = "sent" /\ Honest /\ ~closeOrder[i] /\ held[i] # 0
          /\ held' = [held EXCEPT ![i] = IF @ > qty THEN @ - qty ELSE 0]
          /\ algos' = [algos EXCEPT ![i] = "none"]
          /\ closeOrder' = [closeOrder EXCEPT ![i] = TRUE]
       \/ /\ tag = "flat" /\ Honest /\ ~closeOrder[i] /\ held[i] = 0
          /\ algos' = [algos EXCEPT ![i] = "none"]
          /\ UNCHANGED <<held, closeOrder>>
       \/ /\ tag = "locked" /\ Faulty
          /\ UNCHANGED <<held, algos, closeOrder>>
       \/ /\ tag = "err" /\ Faulty /\ ~closeOrder[i]
          /\ algos' \in {algos, [algos EXCEPT ![i] = "none"]}
          /\ UNCHANGED <<held, closeOrder>>
    /\ UNCHANGED <<order, filled, submits>>

-----------------------------------------------------------------------------
(* What the exchange does by itself.                                         *)

\* The entry fills one more lot; the attached algos cover what is filled.
Fill(i) ==
    /\ order[i] = "open" /\ filled[i] < Lots
    /\ filled' = [filled EXCEPT ![i] = @ + 1]
    /\ held' = [held EXCEPT ![i] = @ + 1]
    /\ algos' = [algos EXCEPT ![i] = "both"]
    /\ order' = [order EXCEPT ![i] = IF filled[i] + 1 = Lots THEN "dead" ELSE @]
    /\ UNCHANGED <<closeOrder, submits, faults>>

\* TP or SL fires: the position is flat, the sibling leg may outlive it.
Trigger(i) ==
    /\ held[i] # 0 /\ algos[i] = "both"
    /\ held' = [held EXCEPT ![i] = 0]
    /\ algos' \in {[algos EXCEPT ![i] = g] : g \in {"one", "none"}}
    /\ UNCHANGED <<order, filled, closeOrder, submits, faults>>

\* The exchange itself ends the entry order (reject, expiry, manual cancel).
OrderEnds(i) ==
    /\ order[i] = "open"
    /\ order' = [order EXCEPT ![i] = "dead"]
    /\ UNCHANGED <<filled, held, algos, closeOrder, submits, faults>>

ExchangeMoves == \E i \in Intents : Fill(i) \/ Trigger(i) \/ OrderEnds(i)
=============================================================================
