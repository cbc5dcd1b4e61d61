--------------------------- MODULE MCTacticalLive ---------------------------
(* Small instances of TacticalLive for TLC. *)
EXTENDS TacticalLive, TLC

Interchangeable == Permutations(Intents)

\* Bound of live_episode: one intent goes on the exchange, the other is only
\* admitted, and with one wrong answer or crash at most.
OneUnderWay ==
    /\ Cardinality({i \in Intents : st[i] \notin {"none", "ready_for_quote"}}) <= 1
    /\ (\A i \in Intents : st[i] # "none") => faults + crashes <= 1

\* Bounds of live_capacity.  An intent alone fills lot by lot, with one wrong
\* answer or one crash; of two in competition one fills, its two lots in direct
\* succession, with one wrong answer.  The second comes while no remainder of the
\* first has outlived its slot: live_remainder shows that case.
Alone == \E i \in Intents : st[i] = "none"
OneFills == Cardinality({i \in Intents : filled[i] # 0}) <= 1
AloneOrOneFills == IF Alone THEN faults + crashes <= 1 ELSE crashes = 0 /\ OneFills
PairFillsWhole ==
    ~Alone' => /\ \A i \in Intents : filled[i] = 1 => filled'[i] = 2
               /\ Alone => SlotCoversExposure

\* Bound of live_settles: one wrong answer or one crash, not both.
OneTrouble == faults' + crashes' <= 1
TroubledSpec == Init /\ [][Next /\ OneTrouble]_vars /\ Fairness
=============================================================================
