----------------------------- MODULE OperationsProofs -----------------------------
(* Proofs about what runs beside the two lanes; its four parts share no state.*)
(* LossGuard, for every set of closes and results, every limit, streak        *)
(* length, pause and window: a complete streak is always paid for, and a      *)
(* pause is not taken back.  TradingHalts, for any symbols and bound: a halt  *)
(* of the main lane heals only when it is earned.  PnlLedger, for any number  *)
(* of closes of a symbol: a closing fill is counted once.  SidecarOwners, for *)
(* any plans and symbols: nothing opens once admission is off, and the drain  *)
(* report is true.                                                            *)
EXTENDS MCOperations, Sequences, FiniteSetTheorems, NaturalsInduction, WellFoundedInduction, TLAPS

-----------------------------------------------------------------------------
(* The loss guard.                                                            *)

\* The types the arithmetic of the pause and of the streak rests on, and that
\* only booked closes are ever consumed (governor.py: trigger_seq is the seq
\* of a final already in the ledger).
GuardInv ==
    /\ clock \in Nat /\ pause \in Nat
    /\ \A r \in issued : r.close \in Closes
    /\ DOMAIN book = Closes
    /\ \A k \in Closes : book[k].turn \in Nat
    /\ consumed \subseteq Booked(book)
    /\ StreakPaidFor

\* The streak counts closes of a finite set.
LEMMA StreakNat ==
    ASSUME NEW b, NEW used, DOMAIN b = Closes
    PROVE  Streak(b, used) \in Nat
<1> DEFINE open == Booked(b) \ used
           tail == {k \in open : \A j \in open : ~Before(b, j, k) => b[j].pnl < 0}
<1>1. tail \subseteq Closes
  BY DEF Booked
<1>2. IsFiniteSet(tail)
  BY <1>1, FS_Subset, GuardAssumption DEF GuardAssumption
<1>3. Cardinality(tail) \in Nat
  BY <1>2, FS_CardinalityType
<1> QED
  BY <1>3 DEF Streak

\* Once everything booked is consumed there is no streak left.
LEMMA ConsumedEndsStreak ==
    ASSUME NEW b
    PROVE  Streak(b, Booked(b)) = 0
<1>1. Booked(b) \ Booked(b) = {}
  OBVIOUS
<1>2. {k \in {} : \A j \in {} : ~Before(b, j, k) => b[j].pnl < 0} = {}
  OBVIOUS
<1> QED
  BY <1>1, <1>2, FS_EmptySet DEF Streak

\* Booking a final keeps every close that was booked, and its turn a number.
LEMMA BookingGrows ==
    ASSUME GuardInv, NEW r \in issued
    PROVE  /\ DOMAIN BookWith(r) = Closes
           /\ \A k \in Closes : BookWith(r)[k].turn \in Nat
           /\ Booked(book) \subseteq Booked(BookWith(r))
<1>1. r.close \in Closes
  BY DEF GuardInv
<1>2. IsFiniteSet(Booked(book)) /\ Cardinality(Booked(book)) \in Nat
  <2>1. Booked(book) \subseteq Closes
    BY DEF Booked
  <2> QED
    BY <2>1, FS_Subset, FS_CardinalityType, GuardAssumption DEF GuardAssumption
<1> DEFINE turn == IF book[r.close].turn > 0 THEN book[r.close].turn
                   ELSE Cardinality(Booked(book)) + 1
<1>3. turn \in Nat /\ turn > 0
  BY <1>1, <1>2 DEF GuardInv
<1>4. BookWith(r) = [book EXCEPT ![r.close] = [pnl |-> r.pnl, at |-> r.at, turn |-> turn]]
  BY DEF BookWith
<1> HIDE DEF turn
<1>5. DOMAIN BookWith(r) = Closes
  BY <1>4 DEF GuardInv
<1>6. \A k \in Closes : BookWith(r)[k].turn = IF k = r.close THEN turn ELSE book[k].turn
  BY <1>1, <1>4 DEF GuardInv
<1> QED
  BY <1>3, <1>5, <1>6 DEF GuardInv, Booked

\* The invariant holds initially.
LEMMA GuardInitially == GuardInit => GuardInv
<1> SUFFICES ASSUME GuardInit PROVE GuardInv
  OBVIOUS
<1>1. Booked(book) = {}
  BY DEF GuardInit, Booked, NoFinal
<1>2. Streak(book, consumed) = 0
  BY <1>1, ConsumedEndsStreak DEF GuardInit
<1>3. StreakPaidFor
  BY <1>2, GuardAssumption DEF StreakPaidFor, GuardAssumption
<1> QED
  BY <1>1, <1>3 DEF GuardInit, GuardInv, NoFinal

\* Accepting a final (apply_final) preserves it, whether or not the final
\* completes a streak, and ends no pause early.
LEMMA HearKeeps ==
    ASSUME GuardInv, NEW r \in issued, Hear(r)
    PROVE  GuardInv' /\ pause' >= pause /\ consumed \subseteq consumed'
<1>1. /\ DOMAIN book' = Closes
      /\ \A k \in Closes : book'[k].turn \in Nat
      /\ Booked(book) \subseteq Booked(book')
  BY BookingGrows DEF Hear
<1>2. clock' = clock /\ issued' = issued
  BY DEF Hear
<1>3. PauseEnd(r) \in Nat /\ PauseEnd(r) >= pause
  BY GuardAssumption DEF PauseEnd, GuardInv, GuardAssumption
<1>4. CASE Complete(book')
  <2>1. consumed' = Booked(book') /\ pause' = PauseEnd(r)
    BY <1>4 DEF Hear
  <2>2. StreakPaidFor'
    BY <2>1, ConsumedEndsStreak, GuardAssumption DEF StreakPaidFor, GuardAssumption
  <2>3. consumed \subseteq Booked(book')
    BY <1>1 DEF GuardInv
  <2> QED
    BY <1>1, <1>2, <1>3, <2>1, <2>2, <2>3 DEF GuardInv
<1>5. CASE ~Complete(book')
  <2>1. consumed' = consumed /\ pause' = pause
    BY <1>5 DEF Hear
  <2>2. Streak(book', consumed) \in Nat
    BY <1>1, StreakNat
  <2>3. StreakPaidFor'
    BY <1>5, <2>1, <2>2, GuardAssumption DEF StreakPaidFor, Complete, GuardAssumption
  <2> QED
    BY <1>1, <1>2, <2>1, <2>3 DEF GuardInv
<1> QED
  BY <1>4, <1>5

\* Every step preserves the invariant and takes no pause back.
LEMMA GuardStep ==
    ASSUME GuardInv, [GuardNext]_gvars
    PROVE  GuardInv' /\ pause' >= pause /\ consumed \subseteq consumed'
<1>1. CASE Pass
  BY <1>1 DEF Pass, GuardInv, StreakPaidFor, Streak, Booked, Before
<1>2. CASE Issue
  <2>1. PICK k \in Closes, p \in Outcomes :
          issued' = issued \cup
            {[id |-> Cardinality(issued) + 1, close |-> k, pnl |-> p, at |-> clock]}
    BY <1>2 DEF Issue
  <2> QED
    BY <1>2, <2>1 DEF Issue, GuardInv, StreakPaidFor, Streak, Booked, Before
<1>3. CASE SwitchHalt
  BY <1>3 DEF SwitchHalt, GuardInv, StreakPaidFor, Streak, Booked, Before
<1>4. CASE \E r \in issued : Hear(r)
  BY <1>4, HearKeeps
<1>5. CASE Ask
  BY <1>5 DEF Ask, GuardInv, StreakPaidFor, Streak, Booked, Before
<1>6. CASE UNCHANGED gvars
  BY <1>6 DEF gvars, GuardInv, StreakPaidFor, Streak, Booked, Before
<1> QED
  BY <1>1, <1>2, <1>3, <1>4, <1>5, <1>6 DEF GuardNext

\* A complete streak of losses is always paid for with a pause in the step
\* that completes it.
THEOREM StreakAlwaysPaid == GuardSpec => []StreakPaidFor
<1>1. GuardInv => StreakPaidFor
  BY DEF GuardInv
<1>2. GuardInv /\ [GuardNext]_gvars => GuardInv'
  BY GuardStep
<1> QED
  BY GuardInitially, <1>1, <1>2, PTL DEF GuardSpec

\* No step ends a pause early or frees a consumed loss to count again.
THEOREM PauseIsKept == GuardSpec => PauseStands
<1>1. GuardInv /\ [GuardNext]_gvars => GuardInv'
  BY GuardStep
<1>2. GuardInv /\ [GuardNext]_gvars => [pause' >= pause /\ consumed \subseteq consumed']_gvars
  BY GuardStep
<1> QED
  BY GuardInitially, <1>1, <1>2, PTL DEF GuardSpec, PauseStands

\* The guard keeps its promise whatever order finals and corrections arrive in.
THEOREM PromiseKept == GuardSpec => PausePromised
BY StreakAlwaysPaid, PauseIsKept, PTL DEF PausePromised

-----------------------------------------------------------------------------
(* The halts of the main lane.                                                *)

Reasons == {"none", "lost", "trade"}
Globals == [on : BOOLEAN, cause : Halts!Causes, pending : BOOLEAN]
States == {"flat", "protected", "open"}

Typed ==
    /\ haltsGlobal \in Globals
    /\ haltsSymbolHalt \in [Symbols -> Reasons] /\ haltsProtection \in [Symbols -> States]
    /\ haltsOpening \subseteq Symbols
    /\ haltsClearing \in [symbol : Symbols \cup {NoSymbol}, other : Symbols \cup {NoSymbol}]

\* A symbol that lost its stop and was halted for it.
Lost(s) == haltsSymbolHalt[s] = "lost" /\ haltsProtection[s] = "open"

\* What a clearing found may be old, but while the halt is still the one it
\* would lift, what matters of it holds.
StillTrue(s) ==
    /\ haltsSymbolHalt[s] # "trade" /\ haltsProtection[s] # "open"
    /\ haltsClearing.other = NoSymbol => \A o \in Symbols \ {s} : ~Lost(o)
ClearingSound ==
    \A s \in Symbols : haltsClearing.symbol = s =>
        s \notin haltsOpening /\ (Halts!Matches(s) => StillTrue(s))

OpeningIsFlat == \A s \in haltsOpening : haltsProtection[s] = "flat"

HaltInv == Typed /\ OpeningIsFlat /\ ClearingSound

-----------------------------------------------------------------------------
LEMMA CauseFacts ==
    /\ \A k1, k2, s1, s2 : Halts!Cause(k1, s1) = Halts!Cause(k2, s2) => k1 = k2 /\ s1 = s2
    /\ \A k \in {"lost", "trade"}, s \in Symbols : Halts!Cause(k, s) \in Halts!Causes
    /\ Halts!Cause("stop", NoSymbol) \in Halts!Causes
  BY DEF Halts!Cause, Halts!Causes

LEMMA HaltIsTyped == ASSUME NEW c \in Halts!Causes, Halts!Halt(c)  PROVE  haltsGlobal' \in Globals
  BY DEF Halts!Halt, Globals

LEMMA LiftIsTyped == ASSUME HaltInv, Halts!Lift  PROVE  haltsGlobal' \in Globals /\ ~haltsGlobal'.on
  <1>1. haltsGlobal \in Globals  BY DEF HaltInv, Typed
  <1>2. [haltsGlobal EXCEPT !.on = FALSE, !.pending = FALSE] \in Globals
    BY <1>1 DEF Globals
  <1>3. [haltsGlobal EXCEPT !.on = FALSE, !.pending = FALSE].on = FALSE
    BY <1>1 DEF Globals
  <1> QED  BY <1>2, <1>3 DEF Halts!Lift

\* A halt of a symbol: the clearing under way does not match it any more, unless
\* it is a loss of that very symbol.
LEMMA HaltSymbolKeeps ==
    ASSUME HaltInv, NEW s \in Symbols, NEW kind \in {"lost", "trade"}, Halts!HaltSymbol(s, kind),
           haltsProtection' \in {haltsProtection, [haltsProtection EXCEPT ![s] = "open"]},
           haltsOpening' \in SUBSET haltsOpening, s \notin haltsOpening', haltsClearing' = haltsClearing,
           kind = "lost" => haltsClearing.symbol # s
    PROVE  HaltInv'
  <1>1. /\ haltsGlobal' = [on |-> TRUE, cause |-> Halts!Cause(kind, s), pending |-> FALSE]
        /\ haltsSymbolHalt' = [haltsSymbolHalt EXCEPT ![s] = kind]
    BY DEF Halts!HaltSymbol, Halts!Halt
  <1>2. Typed'
    BY <1>1, CauseFacts DEF Globals, HaltInv, Typed, Reasons, States
  <1>3. OpeningIsFlat'
    BY DEF HaltInv, OpeningIsFlat, Typed
  <1>4. \A t \in Symbols : haltsClearing.symbol = t => ~Halts!Matches(t)'
    BY <1>1, CauseFacts DEF Halts!Matches
  <1>5. ClearingSound'
    BY <1>4 DEF HaltInv, ClearingSound
  <1> QED  BY <1>2, <1>3, <1>5 DEF HaltInv

\* A symbol is looked at: nothing is cleared yet.
LEMMA BeginClearKeeps ==
    ASSUME HaltInv, NEW s \in Symbols, s \notin haltsOpening, NEW p \in {"flat", "protected"},
           haltsProtection' = [haltsProtection EXCEPT ![s] = p], Halts!BeginClear(s, haltsProtection'),
           haltsClearing = Halts!NoClearing, NoSymbol \notin Symbols,
           UNCHANGED <<haltsGlobal, haltsSymbolHalt, haltsOpening>>
    PROVE  HaltInv'
  <1>1. \/ haltsClearing' = haltsClearing
        \/ /\ haltsSymbolHalt[s] = "lost" /\ haltsClearing'.symbol = s
           /\ haltsClearing' \in [symbol : Symbols \cup {NoSymbol}, other : Symbols \cup {NoSymbol}]
           /\ haltsClearing'.other = NoSymbol => Halts!OtherLost(s, haltsProtection') = {}
    BY DEF Halts!BeginClear, Halts!OtherLost
  <1>2. Typed'
    BY <1>1 DEF HaltInv, Typed, States
  <1>3. OpeningIsFlat'
    BY DEF HaltInv, OpeningIsFlat, Typed
  <1>4. ClearingSound'
    <2>1. CASE haltsClearing' = haltsClearing
      BY <2>1 DEF ClearingSound, Halts!NoClearing
    <2>2. CASE haltsClearing' # haltsClearing
      <3>1. haltsProtection'[s] = p  BY DEF HaltInv, Typed
      <3>2. haltsClearing'.other = NoSymbol => \A o \in Symbols \ {s} : ~Lost(o)'
        BY <1>1, <2>2 DEF Halts!OtherLost, Lost
      <3>3. haltsSymbolHalt'[s] # "trade" /\ haltsProtection'[s] # "open"
        BY <1>1, <2>2, <3>1
      <3> QED  BY <1>1, <2>2, <3>2, <3>3 DEF ClearingSound, StillTrue
    <2> QED  BY <2>1, <2>2
  <1> QED  BY <1>2, <1>3, <1>4 DEF HaltInv

-----------------------------------------------------------------------------
(* One lemma for each step.                                                   *)

LEMMA Starts == ASSUME NoSymbol \notin Symbols, Halts!Init  PROVE  HaltInv
  <1>1. Typed  BY CauseFacts DEF Globals, Halts!Init, Typed, Reasons, States, Halts!NoClearing
  <1>2. OpeningIsFlat /\ ClearingSound
    BY DEF Halts!Init, OpeningIsFlat, ClearingSound, Halts!NoClearing
  <1> QED  BY <1>1, <1>2 DEF HaltInv

LEMMA AdmitKeeps ==
    ASSUME NoSymbol \notin Symbols, HaltInv, NEW s \in Symbols, Halts!Admit(s)  PROVE  HaltInv'
  <1>1. /\ haltsClearing = Halts!NoClearing /\ haltsProtection[s] = "flat" /\ haltsOpening' = haltsOpening \cup {s}
        /\ UNCHANGED <<haltsGlobal, haltsSymbolHalt, haltsProtection, haltsClearing>>
    BY DEF Halts!Admit
  <1>2. Typed'  BY <1>1 DEF HaltInv, Typed
  <1>3. OpeningIsFlat'  BY <1>1 DEF HaltInv, OpeningIsFlat
  <1>4. ClearingSound'  BY <1>1 DEF ClearingSound, Halts!NoClearing
  <1> QED  BY <1>2, <1>3, <1>4 DEF HaltInv

LEMMA FilledKeeps == ASSUME HaltInv, NEW s \in Symbols, Halts!Filled(s)  PROVE  HaltInv'
  <1>1. s \in haltsOpening /\ haltsOpening' = haltsOpening \ {s} /\ haltsClearing' = haltsClearing
    BY DEF Halts!Filled
  <1>2. haltsClearing.symbol # s  BY <1>1 DEF HaltInv, ClearingSound
  <1>3. CASE Halts!HaltSymbol(s, "lost") /\ haltsProtection' = [haltsProtection EXCEPT ![s] = "open"]
    BY <1>1, <1>2, <1>3, HaltSymbolKeeps
  <1>4. CASE UNCHANGED <<haltsGlobal, haltsSymbolHalt>> /\ haltsProtection' = [haltsProtection EXCEPT ![s] = "protected"]
    <2>1. Typed'  BY <1>1, <1>4 DEF HaltInv, Typed, States
    <2>2. OpeningIsFlat'  BY <1>1, <1>4 DEF HaltInv, OpeningIsFlat, Typed
    <2>3. \A t \in Symbols : haltsProtection'[t] = "open" => haltsProtection[t] = "open"
      BY <1>4 DEF HaltInv, Typed
    <2>4. ClearingSound'
      BY <1>1, <1>4, <2>3 DEF HaltInv, ClearingSound, Halts!Matches, StillTrue, Lost
    <2> QED  BY <2>1, <2>2, <2>4 DEF HaltInv
  <1> QED  BY <1>3, <1>4 DEF Halts!Filled

LEMMA TradeHaltKeeps == ASSUME HaltInv, NEW s \in Symbols, Halts!TradeHalt(s)  PROVE  HaltInv'
  <1>1. s \notin haltsOpening  BY DEF HaltInv, OpeningIsFlat, Halts!TradeHalt
  <1> QED  BY <1>1, HaltSymbolKeeps DEF Halts!TradeHalt

LEMMA CloseKeeps == ASSUME HaltInv, NEW s \in Symbols, Halts!Close(s)  PROVE  HaltInv'
  <1>1. /\ haltsProtection' = [haltsProtection EXCEPT ![s] = "flat"]
        /\ UNCHANGED <<haltsGlobal, haltsSymbolHalt, haltsOpening, haltsClearing>>
    BY DEF Halts!Close
  <1>2. Typed'  BY <1>1 DEF HaltInv, Typed, States
  <1>3. OpeningIsFlat'  BY <1>1 DEF HaltInv, OpeningIsFlat, Typed
  <1>4. \A t \in Symbols : haltsProtection'[t] = "open" => haltsProtection[t] = "open"
    BY <1>1 DEF HaltInv, Typed
  <1>5. ClearingSound'
    BY <1>1, <1>4 DEF HaltInv, ClearingSound, Halts!Matches, StillTrue, Lost
  <1> QED  BY <1>2, <1>3, <1>5 DEF HaltInv

LEMMA MissingSLKeeps ==
    ASSUME NoSymbol \notin Symbols, HaltInv, NEW s \in Symbols, Halts!MissingSL(s)  PROVE  HaltInv'
  <1>1. /\ haltsClearing = Halts!NoClearing /\ s \notin haltsOpening /\ UNCHANGED <<haltsOpening, haltsClearing>>
        /\ haltsProtection' = [haltsProtection EXCEPT ![s] = "open"]
        /\ Halts!HaltSymbol(s, "lost") \/ UNCHANGED <<haltsGlobal, haltsSymbolHalt>>
    BY DEF Halts!MissingSL
  <1>2. haltsClearing.symbol # s  BY <1>1 DEF Halts!NoClearing
  <1>3. CASE Halts!HaltSymbol(s, "lost")  BY <1>1, <1>2, <1>3, HaltSymbolKeeps
  <1>4. CASE UNCHANGED <<haltsGlobal, haltsSymbolHalt>>
    <2>1. Typed'  BY <1>1, <1>4 DEF HaltInv, Typed, States
    <2>2. OpeningIsFlat'  BY <1>1 DEF HaltInv, OpeningIsFlat, Typed
    <2>3. ClearingSound'  BY <1>1 DEF ClearingSound, Halts!NoClearing
    <2> QED  BY <2>1, <2>2, <2>3 DEF HaltInv
  <1> QED  BY <1>1, <1>3, <1>4

LEMMA LooksKeep ==
    ASSUME NoSymbol \notin Symbols, HaltInv, NEW s \in Symbols, Halts!FoundSL(s) \/ Halts!Removed(s)
    PROVE  HaltInv'
  <1>1. CASE Halts!FoundSL(s)  BY <1>1, BeginClearKeeps DEF Halts!FoundSL
  <1>2. CASE Halts!Removed(s)
    <2>1. s \notin haltsOpening  BY <1>2 DEF HaltInv, OpeningIsFlat, Halts!Removed
    <2> QED  BY <1>2, <2>1, BeginClearKeeps DEF Halts!Removed
  <1> QED  BY <1>1, <1>2

LEMMA FinishClearKeeps ==
    ASSUME NoSymbol \notin Symbols, HaltInv, Halts!FinishClear  PROVE  HaltInv'
  <1> DEFINE s == haltsClearing.symbol
             o == haltsClearing.other
  <1>1. /\ s # NoSymbol /\ haltsClearing' = Halts!NoClearing /\ UNCHANGED <<haltsProtection, haltsOpening>>
        /\ \/ haltsSymbolHalt' = haltsSymbolHalt
           \/ haltsSymbolHalt' = [haltsSymbolHalt EXCEPT ![s] = "none"]
        /\ \/ haltsGlobal' = haltsGlobal
           \/ Halts!Lift
           \/ o # NoSymbol /\ Halts!Halt(Halts!Cause("lost", o))
    BY DEF Halts!FinishClear, Halts!ClearOwn
  <1>2. s \in Symbols /\ (o # NoSymbol => o \in Symbols)
    BY <1>1 DEF HaltInv, Typed
  <1> HIDE DEF s, o
  <1>3. haltsGlobal' \in Globals
    BY <1>1, <1>2, CauseFacts, HaltIsTyped, LiftIsTyped DEF HaltInv, Typed
  <1>4. Typed'  BY <1>1, <1>3 DEF HaltInv, Typed, Reasons, Halts!NoClearing
  <1>5. OpeningIsFlat'  BY <1>1 DEF HaltInv, OpeningIsFlat
  <1>6. ClearingSound'  BY <1>1 DEF ClearingSound, Halts!NoClearing
  <1> QED  BY <1>4, <1>5, <1>6 DEF HaltInv

\* A resume, and a stop: no halt of a symbol is left to be lifted.
LEMMA OperatorKeeps ==
    ASSUME NoSymbol \notin Symbols, HaltInv, Halts!Stop \/ Halts!HandleResume \/ Halts!ForceResume
    PROVE  HaltInv'
  <1>1. /\ UNCHANGED <<haltsProtection, haltsOpening, haltsClearing>>
        /\ haltsSymbolHalt' \in {haltsSymbolHalt, [s \in Symbols |-> "none"]}
        /\ Halts!Halt(Halts!Cause("stop", NoSymbol)) \/ Halts!Lift
    BY DEF Halts!Stop, Halts!HandleResume, Halts!ForceResume, Halts!Resumed, Halts!ClearAll
  <1>2. haltsGlobal' \in Globals
    BY <1>1, CauseFacts, HaltIsTyped, LiftIsTyped
  <1>3. Typed'  BY <1>1, <1>2 DEF HaltInv, Typed, Reasons
  <1>4. OpeningIsFlat'  BY <1>1 DEF HaltInv, OpeningIsFlat
  <1>5. \A s \in Symbols : ~Halts!Matches(s)'
    <2>1. CASE Halts!Halt(Halts!Cause("stop", NoSymbol))
      BY <2>1, CauseFacts DEF Halts!Halt, Halts!Matches
    <2>2. CASE Halts!Lift
      <3>1. ~haltsGlobal'.on  BY <2>2, LiftIsTyped
      <3> QED  BY <3>1 DEF Halts!Matches
    <2> QED  BY <1>1, <2>1, <2>2
  <1>6. ClearingSound'  BY <1>1, <1>5 DEF HaltInv, ClearingSound
  <1> QED  BY <1>3, <1>4, <1>6 DEF HaltInv

LEMMA AskResumeKeeps ==
    ASSUME HaltInv, Halts!AskResume \/ Halts!Reconciled  PROVE  HaltInv'
  <1>1. /\ UNCHANGED <<haltsSymbolHalt, haltsProtection, haltsOpening, haltsClearing>>
        /\ haltsGlobal' \in {haltsGlobal, [haltsGlobal EXCEPT !.pending = TRUE]}
    BY DEF Halts!AskResume, Halts!Reconciled
  <1>2. Typed' /\ haltsGlobal'.on = haltsGlobal.on /\ haltsGlobal'.cause = haltsGlobal.cause
    BY <1>1 DEF Globals, HaltInv, Typed
  <1>3. OpeningIsFlat'  BY <1>1 DEF HaltInv, OpeningIsFlat
  <1>4. ClearingSound'
    BY <1>1, <1>2 DEF HaltInv, ClearingSound, Halts!Matches, StillTrue, Lost
  <1> QED  BY <1>2, <1>3, <1>4 DEF HaltInv

LEMMA ResumeSymbolKeeps ==
    ASSUME HaltInv, NEW s \in Symbols, Halts!ResumeSymbol(s)  PROVE  HaltInv'
  <1>1. /\ haltsSymbolHalt' = [haltsSymbolHalt EXCEPT ![s] = "none"]
        /\ UNCHANGED <<haltsGlobal, haltsProtection, haltsOpening, haltsClearing>>
    BY DEF Halts!ResumeSymbol, Halts!ClearOwn
  <1>2. Typed'  BY <1>1 DEF HaltInv, Typed, Reasons
  <1>3. OpeningIsFlat'  BY <1>1 DEF HaltInv, OpeningIsFlat
  <1>4. \A t \in Symbols : haltsSymbolHalt'[t] \in {haltsSymbolHalt[t], "none"}
    BY <1>1 DEF HaltInv, Typed
  <1>5. ClearingSound'
    BY <1>1, <1>4 DEF HaltInv, ClearingSound, Halts!Matches, StillTrue, Lost
  <1> QED  BY <1>2, <1>3, <1>5 DEF HaltInv

LEMMA RestartKeeps == ASSUME NoSymbol \notin Symbols, HaltInv, Halts!Restart  PROVE  HaltInv'
  <1>1. /\ haltsOpening' = {} /\ haltsClearing' = Halts!NoClearing /\ UNCHANGED <<haltsGlobal, haltsProtection>>
        /\ haltsSymbolHalt' = [s \in Symbols |-> "none"]
    BY DEF Halts!Restart, Halts!ClearAll
  <1>2. Typed'  BY <1>1 DEF HaltInv, Typed, Reasons, Halts!NoClearing
  <1>3. OpeningIsFlat'  BY <1>1 DEF OpeningIsFlat
  <1>4. ClearingSound'  BY <1>1 DEF ClearingSound, Halts!NoClearing
  <1> QED  BY <1>2, <1>3, <1>4 DEF HaltInv

LEMMA HaltInvKept ==
    ASSUME NoSymbol \notin Symbols  PROVE  HaltInv /\ [Halts!Next]_(Halts!vars) => HaltInv'
  <1>1. SUFFICES ASSUME HaltInv, [Halts!Next]_(Halts!vars)  PROVE  HaltInv'
    OBVIOUS
  <1>2. CASE UNCHANGED Halts!vars
    BY <1>1, <1>2 DEF Halts!vars, HaltInv, Typed, OpeningIsFlat, ClearingSound, Halts!Matches,
                      StillTrue, Lost
  <1> QED
    BY <1>1, <1>2, AdmitKeeps, FilledKeeps, TradeHaltKeeps, CloseKeeps, MissingSLKeeps,
       LooksKeep, FinishClearKeeps, OperatorKeeps, AskResumeKeeps, ResumeSymbolKeeps,
       RestartKeeps DEF Halts!Next

LEMMA HaltInvHolds == ASSUME NoSymbol \notin Symbols  PROVE  Halts!Spec => []HaltInv
  <1>1. Halts!Init => HaltInv  BY Starts
  <1> QED  BY <1>1, HaltInvKept, PTL DEF Halts!Spec

-----------------------------------------------------------------------------
(* What a step without the operator does to the halts.                        *)

\* Only the end of a clearing lifts one, the global or that of a symbol.
LEMMA OnlyClearingHeals ==
    ASSUME HaltInv, [Halts!Next]_(Halts!vars), ~Halts!OperatorStep, ~Halts!FinishClear
    PROVE  /\ haltsGlobal.on => haltsGlobal'.on
           /\ \A s \in Symbols : haltsSymbolHalt[s] # "none" => haltsSymbolHalt'[s] # "none"
  <1>0. \A s \in Symbols, kind \in {"lost", "trade"} : Halts!HaltSymbol(s, kind) =>
            /\ haltsGlobal'.on
            /\ \A t \in Symbols : haltsSymbolHalt[t] # "none" => haltsSymbolHalt'[t] # "none"
    BY DEF Halts!HaltSymbol, Halts!Halt, HaltInv, Typed
  <1>1. CASE Halts!Stop  BY <1>1 DEF Halts!Stop, Halts!Halt
  <1>2. CASE Halts!AskResume \/ Halts!Reconciled
    BY <1>2 DEF Globals, Halts!AskResume, Halts!Reconciled, HaltInv, Typed
  <1>3. ASSUME NEW s \in Symbols,
               Halts!Admit(s) \/ Halts!Filled(s) \/ Halts!TradeHalt(s) \/ Halts!Close(s) \/ Halts!MissingSL(s) \/ Halts!FoundSL(s)
                 \/ Halts!Removed(s)
        PROVE  /\ haltsGlobal.on => haltsGlobal'.on
               /\ \A t \in Symbols : haltsSymbolHalt[t] # "none" => haltsSymbolHalt'[t] # "none"
    <2>1. \/ UNCHANGED <<haltsGlobal, haltsSymbolHalt>>
          \/ \E kind \in {"lost", "trade"} : Halts!HaltSymbol(s, kind)
      BY <1>3 DEF Halts!Admit, Halts!Filled, Halts!TradeHalt, Halts!Close, Halts!MissingSL, Halts!FoundSL, Halts!Removed
    <2> QED  BY <2>1, <1>0
  <1>4. CASE UNCHANGED Halts!vars  BY <1>4 DEF Halts!vars
  <1> QED  BY <1>1, <1>2, <1>3, <1>4 DEF Halts!Next, Halts!OperatorStep

LEMMA ClearingIsEarned ==
    ASSUME NoSymbol \notin Symbols, HaltInv, Halts!FinishClear
    PROVE  /\ haltsGlobal.on /\ ~haltsGlobal'.on => \A t \in Symbols : ~Lost(t)
           /\ \A t \in Symbols : haltsSymbolHalt[t] # "none" /\ haltsSymbolHalt'[t] = "none" =>
                  haltsSymbolHalt[t] = "lost" /\ haltsProtection[t] # "open"
  <1> DEFINE s == haltsClearing.symbol
             o == haltsClearing.other
  <1>1. s \in Symbols  BY DEF HaltInv, Typed, Halts!FinishClear
  <1>2. Halts!Matches(s) => StillTrue(s)  BY <1>1 DEF HaltInv, ClearingSound
  <1>3. \/ Halts!Matches(s) /\ o = NoSymbol /\ Halts!ClearOwn(s)
        \/ Halts!Matches(s) /\ haltsGlobal'.on /\ Halts!ClearOwn(s)
        \/ UNCHANGED <<haltsGlobal, haltsSymbolHalt>>
    BY DEF Halts!FinishClear, Halts!Halt
  <1>4. \A t \in Symbols : haltsSymbolHalt[t] \in Reasons
    BY DEF HaltInv, Typed
  <1>5. Halts!ClearOwn(s) => \A t \in Symbols \ {s} : haltsSymbolHalt'[t] = haltsSymbolHalt[t]
    BY <1>1 DEF Halts!ClearOwn, HaltInv, Typed
  <1> HIDE DEF s
  <1>6. haltsGlobal.on /\ ~haltsGlobal'.on => \A t \in Symbols : ~Lost(t)
    BY <1>2, <1>3 DEF StillTrue, Lost, s
  <1>7. ASSUME NEW t \in Symbols, haltsSymbolHalt[t] # "none", haltsSymbolHalt'[t] = "none"
        PROVE  haltsSymbolHalt[t] = "lost" /\ haltsProtection[t] # "open"
    BY <1>2, <1>3, <1>4, <1>5, <1>7 DEF StillTrue, Reasons
  <1> QED  BY <1>6, <1>7

\* Self-healing of one symbol never opens trading while another symbol that was
\* halted for a lost stop still has none, old as what the clearing found may be.
THEOREM LiftsAreSafe == ASSUME NoSymbol \notin Symbols  PROVE  Halts!Spec => Halts!LiftKeepsOthersSafe
  <1>1. HaltInv /\ [Halts!Next]_(Halts!vars) => [Halts!LiftsWithAllSafe]_(Halts!vars)
    BY OnlyClearingHeals, ClearingIsEarned DEF Halts!LiftsWithAllSafe, Lost, Halts!Unresolved
  <1> QED  BY <1>1, HaltInvHolds, PTL DEF Halts!Spec, Halts!LiftKeepsOthersSafe

\* Without the operator only the halt for a lost stop goes, and only when the
\* position is protected again or gone, whatever happens while it is cleared.
THEOREM HealsAreEarned == ASSUME NoSymbol \notin Symbols  PROVE  Halts!Spec => Halts!SelfHealEarned
  <1>1. HaltInv /\ [Halts!Next]_(Halts!vars) => [Halts!HealsProtected]_(Halts!vars)
    BY OnlyClearingHeals, ClearingIsEarned DEF Halts!HealsProtected, Halts!Unresolved
  <1> QED  BY <1>1, HaltInvHolds, PTL DEF Halts!Spec, Halts!SelfHealEarned

-----------------------------------------------------------------------------
(* The ledger of closes.                                                      *)

PnlAnswers == [close : PnlCloses, status : {"final", "pending", "mismatch"},
               counts : SUBSET Pnl!Fills, bills : BOOLEAN]
PnlKeys == {"id", "opened"} \X PnlCloses \X (SUBSET Pnl!Fills) \X BOOLEAN
PnlWritten == [close : PnlCloses, counts : SUBSET Pnl!Fills, key : PnlKeys, sup : PnlCloses \cup {0}]
Asking == [at : {"idle", "read"}, todo : SUBSET PnlCloses]
Answered == [at : {"apply"}, todo : SUBSET PnlCloses, res : PnlAnswers]

PnlTyped ==
    /\ pnlStage \in [PnlCloses -> Pnl!Stages]
    /\ pnlPend \in [PnlCloses -> {"none", "open", "manual"}]
    /\ pnlVisible \subseteq Pnl!Fills
    /\ pnlWork \in [Pnl!Resolvers -> Asking \cup Answered]
    /\ pnlCorrections \in Seq(PnlWritten)

\* Who is at work on a close, what was written of it, and when two finals of it
\* may be counted.
Holders(c) == {r \in Pnl!Resolvers : c \in pnlWork[r].todo}
Finals(c) == {i \in DOMAIN pnlCorrections : pnlCorrections[i].close = c}
Excused(c) ==
    \/ c \in pnlRaced
    \/ \E i \in Finals(c) : pnlCorrections[i].sup \notin {0, c}

\* Only of a close that was notified there is a pending event, and only of it
\* somebody asks the exchange or writes a final.
NoticedFirst ==
    \A c \in PnlCloses :
        /\ pnlStage[c] = "noticed" <=> pnlPend[c] # "none"
        /\ pnlStage[c] # "noticed" => Holders(c) = {} /\ Finals(c) = {}
\* A close the process booked by itself is closed, and is never notified.
BookedClosed ==
    \A c \in PnlCloses, l \in Pnl!Exit : <<c, l>> \in pnlBooked => pnlStage[c] = "closed"
\* An answer, and a correction, is of fills of its close.
AnswersOwn ==
    \A r \in Pnl!Resolvers : pnlWork[r].at = "apply" =>
        /\ pnlWork[r].res.close \in pnlWork[r].todo
        /\ pnlWork[r].res.counts \subseteq {pnlWork[r].res.close} \X Pnl!Legs
CorrectsOwn ==
    \A i \in DOMAIN pnlCorrections :
        pnlCorrections[i].counts \subseteq {pnlCorrections[i].close} \X Pnl!Legs
\* Without a race one resolver at most is at work on a close; once a final is
\* written its pending event is superseded, nobody is at work on it any more, and
\* there is no other.
OneHolder == \A c \in PnlCloses \ pnlRaced : \A q, r \in Holders(c) : q = r
OneFinal ==
    \A c \in PnlCloses : ~Excused(c) =>
        \A i \in Finals(c) :
            /\ \A j \in Finals(c) : i = j
            /\ c \in Pnl!Superseded
            /\ Holders(c) = {}

PnlInv ==
    /\ PnlTyped /\ NoticedFirst /\ BookedClosed /\ AnswersOwn /\ CorrectsOwn
    /\ OneHolder /\ OneFinal

\* A set of numbers up to a bound has a newest.
LEMMA Newest ==
    ASSUME NEW n \in Nat, NEW S \in SUBSET (1..n), S # {}
    PROVE  \E m \in S : \A k \in S : k <= m
<1> DEFINE Less == OpToRel(<, Nat)
           Above == {b \in Nat : \A k \in S : k <= b}
<1>1. IsWellFoundedOn(Less, Nat) BY NatLessThanWellFounded
<1>2. \A x, y \in Nat : x < y => <<x, y>> \in Less BY DEF OpToRel
<1>3. Above \subseteq Nat /\ n \in Above OBVIOUS
<1> HIDE DEF Less
<1>4. PICK m \in Above : \A b \in Above : ~ (<<b, m>> \in Less)
  BY <1>1, <1>3, WFMin
<1>5. m \in S
  <2>1. ASSUME m \notin S PROVE FALSE
    <3>1. \A k \in S : k < m BY <1>4, <2>1
    <3>2. PICK k \in S : k \in 1..n OBVIOUS
    <3>3. m \in Nat /\ m - 1 \in Nat /\ m - 1 < m BY <1>4, <3>1, <3>2
    <3>4. m - 1 \in Above BY <1>4, <3>1, <3>3
    <3>5. <<m - 1, m>> \in Less BY <1>2, <3>3
    <3> QED BY <1>4, <3>4, <3>5
  <2> QED BY <2>1
<1> QED BY <1>4, <1>5

\* What a resolution is written over waits, and there is something if the close
\* it is of waits: itself, or the newest that does.
LEMMA PendingWaits ==
    ASSUME NEW r \in Pnl!Resolvers, NEW c \in PnlCloses
    PROVE  /\ Pnl!Pending(r, c) \subseteq PnlCloses
           /\ \A d \in Pnl!Pending(r, c) : pnlPend[d] # "none"
           /\ Pnl!Waiting(c) => Pnl!Pending(r, c) # {}
<1> DEFINE W == {d \in PnlCloses : Pnl!Waiting(d)}
<1>1. PICK n \in Nat : PnlCloses = 1..n BY PnlAssumption, FS_CardinalityType
<1>2. Pnl!Waiting(c) => Pnl!NewestWaiting # {}
  <2> SUFFICES ASSUME Pnl!Waiting(c) PROVE Pnl!NewestWaiting # {} OBVIOUS
  <2>1. W \in SUBSET (1..n) /\ W # {} BY <1>1
  <2>2. PICK m \in W : \A k \in W : k <= m BY <2>1, Newest
  <2>3. m \in Pnl!NewestWaiting BY <2>2 DEF Pnl!NewestWaiting
  <2> QED BY <2>3
<1>3. Pnl!Pending(r, c) \in {{c} \cap W, Pnl!NewestWaiting}
  BY DEF Pnl!Pending
<1>4. Pnl!NewestWaiting \subseteq W BY DEF Pnl!NewestWaiting
<1>5. \A d \in W : d \in PnlCloses /\ pnlPend[d] # "none" BY DEF Pnl!Waiting
<1>6. c \in W <=> Pnl!Waiting(c) OBVIOUS
<1> HIDE DEF W
<1> QED BY <1>2, <1>3, <1>4, <1>5, <1>6

\* The steps that write no final and ask nobody.
LEMMA QuietKeeps ==
    ASSUME PnlInv, pnlStage' \in [PnlCloses -> Pnl!Stages], pnlVisible' \subseteq Pnl!Fills,
           \A c \in PnlCloses : pnlStage'[c] = "noticed" <=> pnlStage[c] = "noticed",
           BookedClosed',
           UNCHANGED <<pnlPend, pnlCorrections, pnlRaced>>,
           pnlWork' = pnlWork \/ pnlWork' = [r \in Pnl!Resolvers |-> Pnl!Idle]
    PROVE  PnlInv'
<1>1. pnlWork' \in [Pnl!Resolvers -> Asking \cup Answered] /\ AnswersOwn'
  <2>1. CASE pnlWork' = pnlWork BY <2>1 DEF PnlInv, PnlTyped, AnswersOwn
  <2>2. CASE pnlWork' = [r \in Pnl!Resolvers |-> Pnl!Idle]
    <3>1. Pnl!Idle \in Asking /\ Pnl!Idle.at = "idle" BY DEF Pnl!Idle, Asking
    <3> QED BY <2>2, <3>1 DEF AnswersOwn
  <2> QED BY <2>1, <2>2
<1>2. \A c : Holders(c)' \subseteq Holders(c)
  <2>1. Pnl!Idle.todo = {} BY DEF Pnl!Idle
  <2> QED BY <2>1 DEF Holders
<1>3. \A c : Finals(c)' = Finals(c) /\ (Excused(c)' <=> Excused(c)) BY DEF Finals, Excused
<1>4. Pnl!Superseded' = Pnl!Superseded BY DEF Pnl!Superseded
<1>5. PnlTyped' BY <1>1 DEF PnlInv, PnlTyped
<1>6. NoticedFirst' /\ CorrectsOwn' BY <1>2, <1>3 DEF PnlInv, NoticedFirst, CorrectsOwn
<1>7. OneHolder' /\ OneFinal' BY <1>2, <1>3, <1>4 DEF PnlInv, OneHolder, OneFinal
<1> QED BY <1>1, <1>5, <1>6, <1>7 DEF PnlInv

\* The position, the exchange, the delivery and the reviewer, and a crash.
LEMMA PositionKeeps ==
    ASSUME PnlInv, NEW c \in PnlCloses,
           Pnl!Open(c) \/ Pnl!Reduce(c) \/ Pnl!CloseOwn(c) \/ Pnl!ExchangeExit(c) \/ Pnl!SyncDrops(c)
    PROVE  PnlInv'
<1>1. PICK old \in Pnl!Stages \ {"noticed", "closed"}, new \in Pnl!Stages \ {"noticed"} :
        /\ pnlStage[c] = old /\ pnlStage' = [pnlStage EXCEPT ![c] = new]
        /\ (pnlBooked' = pnlBooked \/ pnlBooked' = pnlBooked \cup {<<c, "tp">>})
           \/ (new = "closed" /\ pnlBooked' = pnlBooked \cup ({c} \X Pnl!Exit))
        /\ pnlVisible' \in {pnlVisible, pnlVisible \cup {<<c, "tp">>}}
  BY DEF Pnl!Open, Pnl!Reduce, Pnl!CloseOwn, Pnl!ExchangeExit, Pnl!SyncDrops, Pnl!Stages,
         Pnl!market, Pnl!ledger
<1>2. UNCHANGED <<pnlPend, pnlCorrections, pnlRaced, pnlWork>>
  BY DEF Pnl!Open, Pnl!Reduce, Pnl!CloseOwn, Pnl!ExchangeExit, Pnl!SyncDrops, Pnl!ledger
<1>3. pnlStage \in [PnlCloses -> Pnl!Stages] /\ pnlVisible \subseteq Pnl!Fills BY DEF PnlInv, PnlTyped
<1>4. pnlStage' \in [PnlCloses -> Pnl!Stages] BY <1>1, <1>3
<1>5. pnlVisible' \subseteq Pnl!Fills
  <2>1. <<c, "tp">> \in Pnl!Fills BY DEF Pnl!Fills, Pnl!Legs
  <2> QED BY <1>1, <1>3, <2>1
<1>6. \A d \in PnlCloses : /\ pnlStage'[d] = "noticed" <=> pnlStage[d] = "noticed"
                           /\ pnlStage[d] = "closed" => pnlStage'[d] = "closed"
  BY <1>1, <1>3
<1>7. BookedClosed'
  <2> SUFFICES ASSUME NEW d \in PnlCloses, NEW l \in Pnl!Exit, <<d, l>> \in pnlBooked'
               PROVE  pnlStage'[d] = "closed"
    BY DEF BookedClosed
  <2>1. CASE <<d, l>> \in pnlBooked BY <1>6, <2>1 DEF PnlInv, BookedClosed
  <2>2. CASE <<d, l>> \notin pnlBooked
    <3>1. <<d, l>> # <<c, "tp">> BY DEF Pnl!Exit
    <3>2. <<d, l>> \notin pnlBooked \cup {<<c, "tp">>} BY <2>2, <3>1
    <3>3. new = "closed" /\ <<d, l>> \in pnlBooked \cup ({c} \X Pnl!Exit) BY <1>1, <3>2
    <3>4. d = c BY <2>2, <3>3
    <3> QED BY <1>1, <1>3, <3>3, <3>4
  <2> QED BY <2>1, <2>2
<1> QED BY <1>2, <1>4, <1>5, <1>6, <1>7, QuietKeeps

LEMMA MarketKeeps ==
    ASSUME PnlInv, NEW c \in PnlCloses, Pnl!FillShows(c) \/ Pnl!DayPasses(c)
    PROVE  PnlInv'
<1>1. UNCHANGED <<pnlStage, pnlPend, pnlCorrections, pnlRaced, pnlWork, pnlBooked>>
  BY DEF Pnl!FillShows, Pnl!DayPasses, Pnl!ledger
<1>2. pnlVisible' \subseteq Pnl!Fills
  <2>1. \A f \in {c} \X Pnl!Exit : f \in Pnl!Fills BY DEF Pnl!Exit, Pnl!Fills, Pnl!Legs
  <2>2. pnlVisible' = pnlVisible \/ \E f \in {c} \X Pnl!Exit : pnlVisible' = pnlVisible \cup {f}
    BY DEF Pnl!FillShows, Pnl!DayPasses
  <2> QED BY <2>1, <2>2 DEF PnlInv, PnlTyped
<1>3. BookedClosed' /\ pnlStage' \in [PnlCloses -> Pnl!Stages]
  BY <1>1 DEF PnlInv, PnlTyped, BookedClosed
<1> QED BY <1>1, <1>2, <1>3, QuietKeeps

LEMMA DeliveryKeeps ==
    ASSUME PnlInv,
           \/ \E i \in DOMAIN pnlCorrections : Pnl!Route(i)
           \/ Pnl!Acknowledge \/ Pnl!AcknowledgeLost \/ Pnl!Replay \/ Pnl!Review
    PROVE  PnlInv'
<1>1. UNCHANGED <<pnlStage, pnlVisible, pnlPend, pnlCorrections, pnlRaced, pnlWork, pnlBooked>>
  BY DEF Pnl!Route, Pnl!Acknowledge, Pnl!AcknowledgeLost, Pnl!Replay, Pnl!Review, Pnl!market, Pnl!ledger
<1>2. BookedClosed' BY <1>1 DEF PnlInv, BookedClosed
<1> QED BY <1>1, <1>2, QuietKeeps DEF PnlInv, PnlTyped

LEMMA PnlCrashKeeps == ASSUME PnlInv, Pnl!Crash PROVE PnlInv'
<1>1. /\ pnlWork' = [r \in Pnl!Resolvers |-> Pnl!Idle]
      /\ pnlStage' = [c \in PnlCloses |-> IF pnlStage[c] = "dropped" THEN "forgotten" ELSE pnlStage[c]]
      /\ UNCHANGED <<pnlVisible, pnlPend, pnlCorrections, pnlRaced, pnlBooked>>
  BY DEF Pnl!Crash, Pnl!market, Pnl!ledger
<1>2. pnlStage' \in [PnlCloses -> Pnl!Stages] BY <1>1 DEF PnlInv, PnlTyped, Pnl!Stages
<1>3. \A c \in PnlCloses : /\ pnlStage'[c] = "noticed" <=> pnlStage[c] = "noticed"
                           /\ pnlStage[c] = "closed" => pnlStage'[c] = "closed"
  BY <1>1
<1>4. BookedClosed' BY <1>1, <1>3 DEF PnlInv, BookedClosed
<1> QED BY <1>1, <1>2, <1>3, <1>4, QuietKeeps DEF PnlInv, PnlTyped

\* What the exchange answers about a close is of fills of the close.
LEMMA AnswerOwn ==
    ASSUME PnlInv, NEW c \in PnlCloses, NEW res \in Pnl!Answers(c)
    PROVE  /\ res \in PnlAnswers /\ res.close = c
           /\ res.counts \subseteq {c} \X Pnl!Legs
<1>1. Pnl!Shown(c) \subseteq {c} \X Pnl!Legs /\ Pnl!Shown(c) \subseteq Pnl!Fills
  BY DEF PnlInv, PnlTyped, Pnl!Shown, Pnl!Fills
<1>2. /\ \A counts \in SUBSET Pnl!Fills, bills \in BOOLEAN :
            /\ Pnl!Final(c, counts, bills) \in PnlAnswers
            /\ Pnl!Final(c, counts, bills).close = c /\ Pnl!Final(c, counts, bills).counts = counts
      /\ \A status \in {"pending", "mismatch"} :
            /\ Pnl!Unfinal(c, status) \in PnlAnswers
            /\ Pnl!Unfinal(c, status).close = c /\ Pnl!Unfinal(c, status).counts = {}
  BY DEF Pnl!Final, Pnl!Unfinal, PnlAnswers
<1>3. \/ \E status \in {"pending", "mismatch"} : res = Pnl!Unfinal(c, status)
      \/ \E bills \in BOOLEAN : res = Pnl!Final(c, Pnl!Shown(c), bills)
  BY DEF Pnl!Answers, Pnl!Billed
<1>4. CASE \E status \in {"pending", "mismatch"} : res = Pnl!Unfinal(c, status)
  BY <1>2, <1>4
<1>5. CASE \E bills \in BOOLEAN : res = Pnl!Final(c, Pnl!Shown(c), bills)
  BY <1>1, <1>2, <1>5
<1> QED BY <1>3, <1>4, <1>5

\* What asking somebody else, or being answered, leaves to show.
LEMMA AskedKeeps ==
    ASSUME PnlInv, NoticedFirst', BookedClosed', AnswersOwn', OneHolder',
           pnlStage' \in [PnlCloses -> Pnl!Stages],
           pnlPend' \in [PnlCloses -> {"none", "open", "manual"}],
           pnlWork' \in [Pnl!Resolvers -> Asking \cup Answered],
           UNCHANGED <<pnlVisible, pnlCorrections>>, pnlRaced \subseteq pnlRaced',
           \A c \in PnlCloses : ~Excused(c) /\ Holders(c) = {} /\ Finals(c) # {} /\ c \in Pnl!Superseded
                                    => Holders(c)' = {}
    PROVE  PnlInv'
<1>1. PnlTyped' /\ CorrectsOwn' BY DEF PnlInv, PnlTyped, CorrectsOwn
<1>2. \A c \in PnlCloses : Finals(c)' = Finals(c) /\ (Excused(c) => Excused(c)') BY DEF Finals, Excused
<1>3. Pnl!Superseded' = Pnl!Superseded BY DEF Pnl!Superseded
<1>4. OneFinal' BY <1>2, <1>3 DEF PnlInv, OneFinal
<1> QED BY <1>1, <1>4 DEF PnlInv

\* A close is notified once, and nobody is at work on it then.
LEMMA NotifyKeeps == ASSUME PnlInv, NEW c \in PnlCloses, Pnl!Notify(c) PROVE PnlInv'
<1>1. /\ pnlStage[c] = "dropped" /\ pnlStage' = [pnlStage EXCEPT ![c] = "noticed"]
      /\ pnlPend' = [pnlPend EXCEPT ![c] = Pnl!Recorded(@)]
      /\ pnlWork' = [pnlWork EXCEPT ![c] = Pnl!Reading({c})]
      /\ UNCHANGED <<pnlVisible, pnlBooked, pnlCorrections, pnlRaced>>
  BY DEF Pnl!Notify, Pnl!market
<1>2. c \in Pnl!Resolvers /\ Pnl!Reading({c}) \in Asking
      /\ Pnl!Reading({c}).at = "read" /\ Pnl!Reading({c}).todo = {c}
  BY DEF Pnl!Resolvers, Pnl!Reading, Asking
<1>3. pnlPend[c] = "none" /\ Holders(c) = {} /\ Finals(c) = {}
  BY <1>1 DEF PnlInv, NoticedFirst
<1>4. /\ pnlStage' \in [PnlCloses -> Pnl!Stages]
      /\ pnlPend' = [pnlPend EXCEPT ![c] = "open"]
      /\ pnlPend' \in [PnlCloses -> {"none", "open", "manual"}]
      /\ pnlWork' \in [Pnl!Resolvers -> Asking \cup Answered]
  BY <1>1, <1>2, <1>3 DEF PnlInv, PnlTyped, Pnl!Stages, Pnl!Recorded
<1>5. \A r \in Pnl!Resolvers : r # c => pnlWork'[r] = pnlWork[r]
  BY <1>1 DEF PnlInv, PnlTyped
<1>6. pnlWork'[c].at = "read" /\ pnlWork'[c].todo = {c}
  BY <1>1, <1>2 DEF PnlInv, PnlTyped
<1>7. Holders(c)' = {c} /\ \A d \in PnlCloses : d # c => Holders(d)' \subseteq Holders(d)
  <2>1. \A d \in PnlCloses, r \in Pnl!Resolvers :
            r \in Holders(d)' => r \in Holders(d) \/ (r = c /\ d = c)
    BY <1>5, <1>6 DEF Holders
  <2> QED BY <1>2, <1>3, <1>6, <2>1 DEF Holders
<1>8. NoticedFirst'
  <2>1. \A d \in PnlCloses : Finals(d)' = Finals(d) BY <1>1 DEF Finals
  <2> QED BY <1>1, <1>3, <1>4, <1>7, <2>1 DEF PnlInv, PnlTyped, NoticedFirst
<1>9. BookedClosed' BY <1>1 DEF PnlInv, PnlTyped, BookedClosed
<1>10. AnswersOwn' BY <1>5, <1>6 DEF PnlInv, AnswersOwn
<1>11. OneHolder' BY <1>1, <1>7 DEF PnlInv, OneHolder
<1> QED BY <1>1, <1>3, <1>4, <1>7, <1>8, <1>9, <1>10, <1>11, AskedKeeps

\* The reconciler takes what waits: a close somebody is at work on is raced.
LEMMA ScanKeeps == ASSUME PnlInv, Pnl!Scan PROVE PnlInv'
<1> DEFINE T == Pnl!Scanned
<1>1. /\ pnlWork[Pnl!Reconciler] = Pnl!Idle
      /\ pnlWork' = [pnlWork EXCEPT ![Pnl!Reconciler] = Pnl!Reading(T)]
      /\ pnlRaced' = pnlRaced \cup {c \in T : Pnl!Busy(c)}
      /\ UNCHANGED <<pnlStage, pnlPend, pnlVisible, pnlBooked, pnlCorrections>>
  BY DEF Pnl!Scan, Pnl!market, Pnl!ledger
<1>2. T \subseteq PnlCloses /\ \A c \in T : pnlPend[c] # "none" /\ c \notin Pnl!Superseded
  BY DEF Pnl!Scanned, Pnl!Waiting
<1> HIDE DEF T
<1>3. Pnl!Reconciler \in Pnl!Resolvers /\ Pnl!Reading(T) \in Asking
      /\ Pnl!Reading(T).at = "read" /\ Pnl!Reading(T).todo = T
  BY <1>2 DEF Pnl!Resolvers, Pnl!Reading, Asking
<1>4. pnlWork' \in [Pnl!Resolvers -> Asking \cup Answered]
  BY <1>1, <1>3 DEF PnlInv, PnlTyped
<1>5. \A r \in Pnl!Resolvers : r # Pnl!Reconciler => pnlWork'[r] = pnlWork[r]
  BY <1>1 DEF PnlInv, PnlTyped
<1>6. pnlWork'[Pnl!Reconciler].at = "read" /\ pnlWork'[Pnl!Reconciler].todo = T
  BY <1>1, <1>3 DEF PnlInv, PnlTyped
<1>7. \A c \in PnlCloses : /\ c \notin T => Holders(c)' \subseteq Holders(c)
                           /\ c \in T => Holders(c)' \subseteq Holders(c) \cup {Pnl!Reconciler}
                           /\ c \in T \ pnlRaced' => Holders(c) = {}
  <2>1. \A c \in T : ~Pnl!Busy(c) => Holders(c) = {} BY DEF Holders, Pnl!Busy
  <2>2. \A c \in PnlCloses, r \in Pnl!Resolvers :
            r \in Holders(c)' => r \in Holders(c) \/ (r = Pnl!Reconciler /\ c \in T)
    BY <1>5, <1>6 DEF Holders
  <2>3. \A c : Holders(c)' \subseteq Pnl!Resolvers BY DEF Holders
  <2> QED BY <1>1, <2>1, <2>2, <2>3
<1>8. NoticedFirst'
  <2>1. \A d \in PnlCloses : Finals(d)' = Finals(d) BY <1>1 DEF Finals
  <2> QED BY <1>1, <1>2, <1>7, <2>1 DEF PnlInv, NoticedFirst
<1>9. BookedClosed' /\ AnswersOwn' BY <1>1, <1>5, <1>6 DEF PnlInv, BookedClosed, AnswersOwn
<1>10. OneHolder'
  <2> SUFFICES ASSUME NEW c \in PnlCloses \ pnlRaced', NEW q \in Holders(c)', NEW r \in Holders(c)'
               PROVE  q = r
    BY DEF OneHolder
  <2>1. CASE c \in T
    <3>1. Holders(c)' \subseteq {Pnl!Reconciler} BY <1>7, <2>1
    <3> QED BY <3>1
  <2>2. CASE c \notin T
    <3>1. q \in Holders(c) /\ r \in Holders(c) BY <1>7, <2>2
    <3>2. c \in PnlCloses \ pnlRaced BY <1>1
    <3> QED BY <3>1, <3>2 DEF PnlInv, OneHolder
  <2> QED BY <2>1, <2>2
<1>11. \A c \in PnlCloses : Holders(c) = {} /\ c \in Pnl!Superseded => Holders(c)' = {}
  BY <1>2, <1>7
<1>12. pnlStage' \in [PnlCloses -> Pnl!Stages] /\ pnlPend' \in [PnlCloses -> {"none", "open", "manual"}]
  BY <1>1 DEF PnlInv, PnlTyped
<1> QED BY <1>1, <1>4, <1>8, <1>9, <1>10, <1>11, <1>12, AskedKeeps

LEMMA ResolveKeeps == ASSUME PnlInv, NEW r \in Pnl!Resolvers, Pnl!Resolve(r) PROVE PnlInv'
<1>0. PICK c \in pnlWork[r].todo : \E res \in Pnl!Answers(c) :
        pnlWork' = [pnlWork EXCEPT ![r] = [at |-> "apply", todo |-> @.todo, res |-> res]]
  BY DEF Pnl!Resolve
<1>1. PICK res \in Pnl!Answers(c) :
        pnlWork' = [pnlWork EXCEPT ![r] = [at |-> "apply", todo |-> @.todo, res |-> res]]
  BY <1>0
<1>2. UNCHANGED <<pnlStage, pnlPend, pnlVisible, pnlBooked, pnlCorrections, pnlRaced>>
  BY DEF Pnl!Resolve, Pnl!market, Pnl!ledger
<1>3. pnlWork[r].todo \subseteq PnlCloses /\ c \in PnlCloses
  BY DEF PnlInv, PnlTyped, Asking, Answered
<1>4. res \in PnlAnswers /\ res.close = c /\ res.counts \subseteq {c} \X Pnl!Legs
  BY <1>1, <1>3, AnswerOwn
<1> DEFINE todo == pnlWork[r].todo
           held == [at |-> "apply", todo |-> todo, res |-> res]
<1>5. held \in Answered /\ held.at = "apply" /\ held.todo = todo /\ held.res = res
  <2> HIDE DEF todo
  <2> QED BY <1>3, <1>4 DEF Answered, todo
<1>6. pnlWork' = [pnlWork EXCEPT ![r] = held] BY <1>1 DEF PnlInv, PnlTyped
<1> HIDE DEF held, todo
<1>7. /\ pnlWork' \in [Pnl!Resolvers -> Asking \cup Answered]
      /\ pnlWork'[r] = held /\ \A q \in Pnl!Resolvers : q # r => pnlWork'[q] = pnlWork[q]
  BY <1>5, <1>6 DEF PnlInv, PnlTyped
<1>8. \A d : Holders(d)' = Holders(d) BY <1>5, <1>7 DEF Holders, todo
<1>9. NoticedFirst' /\ OneHolder'
  <2>1. \A d \in PnlCloses : Finals(d)' = Finals(d) BY <1>2 DEF Finals
  <2> QED BY <1>2, <1>8, <2>1 DEF PnlInv, NoticedFirst, OneHolder
<1>10. BookedClosed' BY <1>2 DEF PnlInv, BookedClosed
<1>11. AnswersOwn' BY <1>0, <1>4, <1>5, <1>7 DEF PnlInv, AnswersOwn, todo
<1>12. pnlStage' \in [PnlCloses -> Pnl!Stages] /\ pnlPend' \in [PnlCloses -> {"none", "open", "manual"}]
  BY <1>2 DEF PnlInv, PnlTyped
<1> QED BY <1>2, <1>7, <1>8, <1>9, <1>10, <1>11, <1>12, AskedKeeps

\* What is written when nothing of the key is there: a final over what waits, or
\* over nothing when nothing does.
LEMMA CorrectionWritten ==
    ASSUME NEW r \in Pnl!Resolvers, NEW res \in PnlAnswers
    PROVE  LET w == Pnl!Correction(r, res) IN
           /\ w \in PnlWritten /\ w.close = res.close /\ w.counts = res.counts
           /\ w.sup \in PnlCloses \cup {0}
           /\ Pnl!Waiting(res.close) => w.sup \in PnlCloses
<1> DEFINE P == Pnl!Pending(r, res.close)
           sup == IF P = {} THEN 0 ELSE CHOOSE c \in P : TRUE
           key == Pnl!Key(r, res)
           w == Pnl!Correction(r, res)
<1>1. res.close \in PnlCloses /\ res.counts \in SUBSET Pnl!Fills /\ res.bills \in BOOLEAN
  BY DEF PnlAnswers
<1>2. P \subseteq PnlCloses /\ (Pnl!Waiting(res.close) => P # {}) BY <1>1, PendingWaits
<1> HIDE DEF P
<1>3. sup \in PnlCloses \cup {0} /\ (Pnl!Waiting(res.close) => sup \in PnlCloses) BY <1>2
<1>4. key \in PnlKeys BY <1>1 DEF Pnl!Key, PnlKeys
<1>5. w = [close |-> res.close, counts |-> res.counts, key |-> key, sup |-> sup]
  BY DEF Pnl!Correction, P
<1> HIDE DEF sup, key, w
<1>6. /\ w \in PnlWritten /\ w.close = res.close /\ w.counts = res.counts /\ w.sup = sup
  BY <1>1, <1>3, <1>4, <1>5 DEF PnlWritten
<1> QED BY <1>3, <1>6 DEF w

LEMMA ApplyKeeps == ASSUME PnlInv, NEW r \in Pnl!Resolvers, Pnl!ApplyAnswer(r) PROVE PnlInv'
<1> DEFINE res == pnlWork[r].res
<1>0. PICK c : c = res.close OBVIOUS
<1> DEFINE left == pnlWork[r].todo \ {c}
           w == Pnl!Correction(r, res)
<1>1. /\ pnlWork[r].at = "apply" /\ Pnl!Apply(r, res)
      /\ pnlWork' = [pnlWork EXCEPT ![r] = IF left = {} THEN Pnl!Idle ELSE Pnl!Reading(left)]
      /\ UNCHANGED <<pnlStage, pnlVisible, pnlBooked, pnlRaced>>
  BY <1>0 DEF Pnl!ApplyAnswer, Pnl!market
<1>2. /\ pnlWork[r] \in Answered /\ res \in PnlAnswers /\ c \in PnlCloses
      /\ c \in pnlWork[r].todo /\ pnlWork[r].todo \subseteq PnlCloses
      /\ res.counts \subseteq {c} \X Pnl!Legs
  <2>1. pnlWork[r] \in Answered BY <1>1 DEF PnlInv, PnlTyped, Asking
  <2>2. res \in PnlAnswers /\ pnlWork[r].todo \subseteq PnlCloses BY <2>1 DEF Answered
  <2> QED BY <1>0, <1>1, <2>1, <2>2 DEF PnlInv, AnswersOwn, PnlAnswers
<1>3. r \in Holders(c) /\ pnlStage[c] = "noticed" /\ pnlPend[c] # "none"
  <2>1. r \in Holders(c) BY <1>2 DEF Holders
  <2> QED BY <1>2, <2>1 DEF PnlInv, NoticedFirst
<1>4. /\ pnlWork' \in [Pnl!Resolvers -> Asking \cup Answered]
      /\ pnlWork'[r].at # "apply" /\ pnlWork'[r].todo = left
      /\ \A q \in Pnl!Resolvers : q # r => pnlWork'[q] = pnlWork[q]
  <2> DEFINE next == IF left = {} THEN Pnl!Idle ELSE Pnl!Reading(left)
  <2>1. left \subseteq PnlCloses BY <1>2
  <2>2. next \in Asking /\ next.at # "apply" /\ next.todo = left
    <3> HIDE DEF left
    <3> QED BY <2>1 DEF Pnl!Idle, Pnl!Reading, Asking
  <2>3. pnlWork' = [pnlWork EXCEPT ![r] = next] BY <1>1
  <2> HIDE DEF next, left
  <2> QED BY <2>2, <2>3 DEF PnlInv, PnlTyped
<1>5. \A d : Holders(d)' \subseteq Holders(d)
  <2>1. \A d : \A q \in Pnl!Resolvers : d \in pnlWork'[q].todo => d \in pnlWork[q].todo BY <1>4
  <2> QED BY <2>1 DEF Holders
<1>6. r \notin Holders(c)' BY <1>4 DEF Holders
<1>7. BookedClosed' /\ AnswersOwn' BY <1>1, <1>4 DEF PnlInv, BookedClosed, AnswersOwn
<1>8. OneHolder' BY <1>1, <1>5 DEF PnlInv, OneHolder
<1>9. pnlStage' \in [PnlCloses -> Pnl!Stages] BY <1>1 DEF PnlInv, PnlTyped
<1>10. \/ UNCHANGED pnlCorrections /\ \E s \in {"open", "manual"} :
              pnlPend' = [d \in PnlCloses |-> IF d \in Pnl!Pending(r, c) /\ Pnl!GivesUp(d) THEN "manual"
                                              ELSE pnlPend[d]]
       \/ UNCHANGED <<pnlCorrections, pnlPend>>
       \/ pnlCorrections' = Append(pnlCorrections, w) /\ UNCHANGED pnlPend
  <2>1. res.status \in {"final", "pending", "mismatch"} BY <1>2 DEF PnlAnswers
  <2> HIDE DEF w, res
  <2>2. CASE res.status = "final" BY <1>1, <2>2 DEF Pnl!Apply, w
  <2>3. CASE res.status = "pending" BY <1>0, <1>1, <2>3 DEF Pnl!Apply
  <2>4. CASE res.status = "mismatch" BY <1>1, <2>4 DEF Pnl!Apply
  <2> QED BY <2>1, <2>2, <2>3, <2>4
<1>11. /\ pnlPend' \in [PnlCloses -> {"none", "open", "manual"}]
       /\ \A d \in PnlCloses : pnlPend'[d] # "none" <=> pnlPend[d] # "none"
  <2>1. \A d \in Pnl!Pending(r, c) : pnlPend[d] # "none" BY <1>2, PendingWaits
  <2> HIDE DEF w
  <2> QED BY <1>10, <2>1 DEF PnlInv, PnlTyped
<1>12. CASE UNCHANGED pnlCorrections
  <2>1. NoticedFirst'
    <3>1. \A d \in PnlCloses : Finals(d)' = Finals(d) BY <1>12 DEF Finals
    <3> QED BY <1>1, <1>5, <1>11, <3>1 DEF PnlInv, NoticedFirst
  <2> QED BY <1>1, <1>4, <1>5, <1>7, <1>8, <1>9, <1>11, <1>12, <2>1, AskedKeeps
<1>13. CASE pnlCorrections' = Append(pnlCorrections, w)
  <2>1. /\ w \in PnlWritten /\ w.close = c /\ w.counts = res.counts
        /\ w.sup \in PnlCloses \cup {0} /\ (Pnl!Waiting(c) => w.sup \in PnlCloses)
    BY <1>0, <1>2, CorrectionWritten
  <2> DEFINE n == Len(pnlCorrections) + 1
  <2> HIDE DEF w
  <2>2. /\ pnlCorrections' \in Seq(PnlWritten) /\ pnlCorrections'[n] = w
        /\ n \notin DOMAIN pnlCorrections
        /\ DOMAIN pnlCorrections' = DOMAIN pnlCorrections \cup {n}
        /\ \A i \in DOMAIN pnlCorrections : pnlCorrections'[i] = pnlCorrections[i]
    BY <1>13, <2>1 DEF PnlInv, PnlTyped
  <2> HIDE DEF n
  <2>3. PnlTyped' BY <1>1, <1>4, <1>9, <1>11, <2>2 DEF PnlInv, PnlTyped
  <2>4. \A d \in PnlCloses : d # c => Finals(d)' = Finals(d)
    BY <2>1, <2>2 DEF Finals
  <2>5. Finals(c)' = Finals(c) \cup {n}
    BY <2>1, <2>2 DEF Finals
  <2>6. NoticedFirst'
    <3>1. pnlStage'[c] = "noticed" BY <1>1, <1>3
    <3> QED BY <1>1, <1>5, <1>11, <2>4, <3>1 DEF PnlInv, NoticedFirst
  <2>7. CorrectsOwn' BY <1>2, <2>1, <2>2 DEF PnlInv, CorrectsOwn
  <2>8. Pnl!Superseded' = Pnl!Superseded \cup {w.sup}
    BY <2>2 DEF Pnl!Superseded
  <2>9. \A d \in PnlCloses : Excused(d) => Excused(d)'
    BY <1>1, <2>2, <2>4, <2>5 DEF Excused, Finals
  <2>10. ASSUME NEW d \in PnlCloses, d # c, ~Excused(d)', NEW i \in Finals(d)'
         PROVE  (\A j \in Finals(d)' : i = j) /\ d \in Pnl!Superseded' /\ Holders(d)' = {}
    BY <1>5, <2>4, <2>8, <2>9, <2>10 DEF PnlInv, OneFinal
  <2>11. ASSUME ~Excused(c)', NEW i \in Finals(c)'
         PROVE  (\A j \in Finals(c)' : i = j) /\ c \in Pnl!Superseded' /\ Holders(c)' = {}
    <3>1. ~Excused(c) /\ c \notin pnlRaced BY <1>1, <1>2, <2>9, <2>11 DEF Excused
    <3>2. Finals(c) = {} BY <1>2, <1>3, <3>1 DEF PnlInv, OneFinal
    <3>3. \A j \in Finals(c)' : i = j BY <2>5, <2>11, <3>2
    <3>4. Holders(c)' = {}
      <4>1. \A q \in Holders(c)' : q = r BY <1>2, <1>3, <1>5, <3>1 DEF PnlInv, OneHolder
      <4> QED BY <1>6, <4>1
    <3>5. c \in Pnl!Superseded'
      <4>1. CASE c \in Pnl!Superseded BY <2>8, <4>1
      <4>2. CASE c \notin Pnl!Superseded
        <5>1. w.sup \in PnlCloses BY <1>3, <2>1, <4>2 DEF Pnl!Waiting
        <5>2. w.sup # 0 BY <5>1, PnlAssumption, FS_CardinalityType
        <5>3. n \in Finals(c)' BY <2>5
        <5>4. w.sup \in {0, c} BY <2>2, <2>11, <5>3 DEF Excused
        <5> QED BY <2>8, <5>2, <5>4
      <4> QED BY <4>1, <4>2
    <3> QED BY <3>3, <3>4, <3>5
  <2>12. OneFinal' BY <1>2, <2>10, <2>11 DEF OneFinal
  <2> QED BY <1>7, <1>8, <2>3, <2>6, <2>7, <2>12 DEF PnlInv
<1> QED BY <1>10, <1>12, <1>13

LEMMA PnlInvKept == PnlInv /\ [Pnl!Next]_(Pnl!vars) => PnlInv'
<1> SUFFICES ASSUME PnlInv, [Pnl!Next]_(Pnl!vars) PROVE PnlInv' OBVIOUS
<1>1. CASE UNCHANGED Pnl!vars
  <2>1. UNCHANGED <<pnlStage, pnlVisible, pnlPend, pnlCorrections, pnlRaced, pnlWork, pnlBooked>>
    BY <1>1 DEF Pnl!vars
  <2>2. BookedClosed' BY <2>1 DEF PnlInv, BookedClosed
  <2> QED BY <2>1, <2>2, QuietKeeps DEF PnlInv, PnlTyped
<1>2. CASE \E c \in PnlCloses : Pnl!Step(c)
  BY <1>2, PositionKeeps, MarketKeeps, NotifyKeeps DEF Pnl!Step
<1>3. CASE \E r \in Pnl!Resolvers : Pnl!Resolve(r) \/ Pnl!ApplyAnswer(r)
  BY <1>3, ResolveKeeps, ApplyKeeps
<1> QED BY <1>1, <1>2, <1>3, ScanKeeps, DeliveryKeeps, PnlCrashKeeps DEF Pnl!Next

LEMMA PnlInvHolds == Pnl!Spec => []PnlInv
<1>1. ASSUME Pnl!Init PROVE PnlInv
  <2>1. /\ pnlStage = [c \in PnlCloses |-> "none"] /\ pnlVisible = {} /\ pnlBooked = {}
        /\ pnlPend = [c \in PnlCloses |-> "none"] /\ pnlCorrections = <<>>
        /\ pnlWork = [r \in Pnl!Resolvers |-> Pnl!Idle]
    BY <1>1 DEF Pnl!Init
  <2>2. Pnl!Idle \in Asking /\ Pnl!Idle.at = "idle" /\ Pnl!Idle.todo = {} BY DEF Pnl!Idle, Asking
  <2>3. PnlTyped
    <3>1. pnlCorrections \in Seq(PnlWritten) BY <2>1
    <3> QED BY <2>1, <2>2, <3>1 DEF PnlTyped, Pnl!Stages
  <2>4. \A c : Holders(c) = {} /\ Finals(c) = {} BY <2>1, <2>2 DEF Holders, Finals
  <2>5. NoticedFirst /\ BookedClosed BY <2>1, <2>4 DEF NoticedFirst, BookedClosed
  <2>6. AnswersOwn /\ CorrectsOwn BY <2>1, <2>2 DEF AnswersOwn, CorrectsOwn
  <2>7. OneHolder /\ OneFinal BY <2>4 DEF OneHolder, OneFinal
  <2> QED BY <2>3, <2>5, <2>6, <2>7 DEF PnlInv
<1> QED BY <1>1, PnlInvKept, PTL DEF Pnl!Spec

LEMMA PnlCardinality == \A S : Pnl!Cardinality(S) = Cardinality(S)
BY DEF Pnl!Cardinality, Cardinality

\* For any number of closes and of restarts the day's profit counts a closing
\* fill at most once, unless the close was resolved twice at a time or a final of
\* it was written over the pending event of another.
THEOREM FillsCountedOnce == Pnl!Spec => []CountedOnce
<1>1. PnlInv => CountedOnce
  <2> SUFFICES ASSUME PnlInv, NEW c \in PnlCloses, NEW l \in Pnl!Exit, ~Excused(c)
               PROVE  ~(Pnl!Counted(<<c, l>>) > 1)
    BY DEF CountedOnce, Pnl!CountedOnce, Excused, Finals
  <2> DEFINE S == {i \in DOMAIN pnlCorrections : <<c, l>> \in pnlCorrections[i].counts}
             own == IF <<c, l>> \in pnlBooked THEN 1 ELSE 0
  <2>1. Pnl!Counted(<<c, l>>) = own + Cardinality(S)
    BY PnlCardinality DEF Pnl!Counted
  <2>2. S \subseteq Finals(c) BY DEF PnlInv, CorrectsOwn, Finals
  <2>3. CASE Finals(c) = {}
    <3>1. S = {} BY <2>2, <2>3
    <3> QED BY <2>1, <3>1, FS_EmptySet
  <2>4. CASE Finals(c) # {}
    <3>1. PICK i \in Finals(c) : Finals(c) = {i}
      <4>1. PICK i \in Finals(c) : TRUE BY <2>4
      <4>2. \A j \in Finals(c) : i = j BY <4>1 DEF PnlInv, OneFinal
      <4> QED BY <4>1, <4>2
    <3>2. own = 0
      <4>1. pnlStage[c] = "noticed" BY <2>4 DEF PnlInv, NoticedFirst
      <4> QED BY <4>1 DEF PnlInv, BookedClosed
    <3>3. S = {} \/ S = {i} BY <2>2, <3>1
    <3>4. Cardinality(S) \in {0, 1}
      <4> HIDE DEF S
      <4> QED BY <3>3, FS_EmptySet, FS_Singleton
    <3> QED BY <2>1, <3>2, <3>4
  <2> QED BY <2>3, <2>4
<1> QED BY <1>1, PnlInvHolds, PTL

-----------------------------------------------------------------------------
(* The sidecar on its way to retirement.                                      *)

RowStates == {"none", "open", "closed", "close_attempted"}
Owned == [PlanSymbols -> Plans \cup {NoPlan}]
Rows == [Plans -> RowStates]
Runs == [at : {"idle", "event", "ordered", "opened", "handled", "monitor"},
         plan : Plans \cup {NoPlan}, admit : BOOLEAN, rows : Rows,
         todo : SUBSET Plans, stacked : SUBSET PlanSymbols]
Commands == [on : BOOLEAN, rows : Rows, mem : Owned, todo : SUBSET Plans]

SidecarTyped ==
    /\ sidecarHeld \in Owned /\ sidecarMem \in Owned /\ sidecarFile \in Owned
    /\ sidecarRows \in Rows /\ sidecarRun \in Runs /\ sidecarStop \in Commands
    /\ sidecarAdmission \in BOOLEAN /\ sidecarStops \in Nat
    /\ Sidecar!Locked => sidecarRun.plan \in Plans

\* An event under way saw the admission flag as it is: the command that clears it
\* waits for the lock.  A pass of the monitor works on rows
\* that were written, and has no row of its own unless a stop command wrote over
\* them.
FlagSeen == Sidecar!Locked => sidecarRun.admit = sidecarAdmission
OrdersAdmitted == sidecarRun.at \in {"ordered", "opened"} => sidecarRun.admit
CopyExact ==
    sidecarRun.at = "monitor" =>
        /\ \A p \in sidecarRun.todo : sidecarRun.rows[p] # "none"
        /\ sidecarStops = 0 => \A p \in Plans : sidecarRun.rows[p] # "none" => sidecarRows[p] # "none"
StopsCounted == sidecarStop.on => sidecarStops # 0
RetiredClosed == sidecarRetired => ~sidecarAdmission

SidecarInv ==
    /\ SidecarTyped /\ FlagSeen /\ OrdersAdmitted /\ CopyExact /\ StopsCounted /\ RetiredClosed
    /\ Sidecar!DrainHonest

LEMMA IdleIsTyped ==
    /\ Sidecar!Idle \in Runs /\ Sidecar!Idle.at = "idle" /\ Sidecar!Nobody \in Owned
    /\ Sidecar!NotStopping \in Commands /\ ~Sidecar!NotStopping.on
    /\ Sidecar!Idle.rows = [p \in Plans |-> "none"] /\ Sidecar!Idle.rows \in Rows
<1>1. Sidecar!Idle.rows = [p \in Plans |-> "none"] /\ Sidecar!Idle.rows \in Rows
      /\ Sidecar!Idle.at = "idle"
  BY DEF Sidecar!Idle, Rows, RowStates
<1>2. Sidecar!Idle \in Runs
  <2>1. [p \in Plans |-> "none"] \in Rows BY DEF Rows, RowStates
  <2> QED BY <2>1 DEF Sidecar!Idle, Runs
<1>3. Sidecar!Nobody \in Owned BY DEF Sidecar!Nobody, Owned
<1>4. Sidecar!NotStopping \in Commands /\ ~Sidecar!NotStopping.on
  BY <1>1, <1>3 DEF Sidecar!NotStopping, Commands
<1> QED BY <1>1, <1>2, <1>3, <1>4

\* What a step that leaves admission and the retirement alone has to show.
LEMMA HeldOrLetGo ==
    ASSUME SidecarInv, SidecarTyped', FlagSeen', OrdersAdmitted', CopyExact', StopsCounted',
           sidecarAdmission' = sidecarAdmission, sidecarRetired' = sidecarRetired,
           sidecarStops' = 0 => sidecarStops = 0,
           ~sidecarAdmission =>
               /\ \A s \in PlanSymbols : sidecarHeld'[s] \in {sidecarHeld[s], NoPlan}
               /\ sidecarStops = 0 => \A p \in Plans : sidecarRows'[p] # "none" => sidecarRows[p] # "none"
    PROVE  SidecarInv'
<1>1. RetiredClosed' BY DEF SidecarInv, RetiredClosed
<1>2. Sidecar!DrainHonest'
  <2> SUFFICES ASSUME sidecarRetired', sidecarStops' = 0, NEW p \in Plans, sidecarRows'[p] # "none"
               PROVE  sidecarHeld'[SymbolOf[p]] = NoPlan
    BY DEF Sidecar!DrainHonest
  <2>1. ~sidecarAdmission /\ sidecarStops = 0 BY DEF SidecarInv, RetiredClosed
  <2>2. sidecarRows[p] # "none" BY <2>1
  <2>3. sidecarHeld[SymbolOf[p]] = NoPlan BY <2>1, <2>2 DEF SidecarInv, Sidecar!DrainHonest
  <2>4. SymbolOf[p] \in PlanSymbols BY SidecarAssumption
  <2> QED BY <2>1, <2>3, <2>4
<1> QED BY <1>1, <1>2 DEF SidecarInv

\* The run is at another place with the same plan, flag and rows.
LEMMA RunMoves ==
    ASSUME SidecarTyped,
           NEW to \in {"idle", "event", "ordered", "opened", "handled", "monitor"},
           sidecarRun' = [sidecarRun EXCEPT !.at = to]
    PROVE  /\ sidecarRun' \in Runs /\ sidecarRun'.at = to /\ sidecarRun'.plan = sidecarRun.plan
           /\ sidecarRun'.admit = sidecarRun.admit
<1>1. sidecarRun \in Runs BY DEF SidecarTyped
<1> QED BY <1>1 DEF Runs

\* The steps of an event, under the lock of the state file.
LEMMA EventKeeps ==
    ASSUME SidecarInv,
           Sidecar!Refuse \/ Sidecar!Order \/ Sidecar!Verified \/ Sidecar!Unverified \/ Sidecar!RecordOpen
    PROVE  SidecarInv'
<1>1. SidecarTyped /\ Sidecar!Locked /\ sidecarRun.plan \in Plans /\ sidecarRun.admit = sidecarAdmission
  BY DEF SidecarInv, SidecarTyped, FlagSeen, Sidecar!Locked, Sidecar!Refuse, Sidecar!Order,
         Sidecar!Verified, Sidecar!Unverified, Sidecar!RecordOpen
<1> DEFINE p == sidecarRun.plan
           s == SymbolOf[p]
<1>2. s \in PlanSymbols BY <1>1, SidecarAssumption
<1>3. /\ UNCHANGED <<sidecarAdmission, sidecarRetired, sidecarStops, sidecarStop>>
      /\ \E to \in {"ordered", "opened", "handled"} : sidecarRun' = [sidecarRun EXCEPT !.at = to]
  BY DEF Sidecar!Refuse, Sidecar!Order, Sidecar!Verified, Sidecar!Unverified, Sidecar!RecordOpen,
         Sidecar!files, Sidecar!counts
<1>4. PICK to \in {"ordered", "opened", "handled"} : sidecarRun' = [sidecarRun EXCEPT !.at = to] BY <1>3
<1>5. /\ sidecarRun' \in Runs /\ sidecarRun'.at = to /\ sidecarRun'.plan = p
      /\ sidecarRun'.admit = sidecarRun.admit
  BY <1>1, <1>4, RunMoves
<1>6. to \in {"ordered", "opened"} => sidecarRun.admit
  <2>1. CASE Sidecar!Order BY <2>1 DEF Sidecar!Order, Sidecar!Blocked
  <2>2. CASE Sidecar!Verified
    BY <2>2 DEF Sidecar!Verified, SidecarInv, OrdersAdmitted
  <2>3. CASE Sidecar!Refuse \/ Sidecar!Unverified \/ Sidecar!RecordOpen
    <3>1. sidecarRun' = [sidecarRun EXCEPT !.at = "handled"]
      BY <2>3 DEF Sidecar!Refuse, Sidecar!Unverified, Sidecar!RecordOpen
    <3>2. sidecarRun'.at = "handled" BY <1>1, <3>1, RunMoves
    <3> QED BY <1>5, <3>2
  <2> QED BY <2>1, <2>2, <2>3
<1>7. /\ sidecarHeld' \in Owned /\ sidecarRows' \in Rows
      /\ sidecarMem' \in Owned /\ sidecarFile' \in Owned
  <2> HIDE DEF p, s
  <2>1. CASE sidecarHeld' = [sidecarHeld EXCEPT ![s] = p] /\ UNCHANGED <<sidecarRows, sidecarMem, sidecarFile>>
    BY <1>1, <1>2, <2>1 DEF SidecarTyped, Owned, p
  <2>2. CASE sidecarMem' = [sidecarMem EXCEPT ![s] = p] /\ sidecarFile' = sidecarMem'
             /\ UNCHANGED <<sidecarRows, sidecarHeld>>
    BY <1>1, <1>2, <2>2 DEF SidecarTyped, Owned, p
  <2>3. CASE sidecarRows' = [sidecarRows EXCEPT ![p] = "open"] /\ UNCHANGED <<sidecarHeld, sidecarMem, sidecarFile>>
    BY <1>1, <2>3 DEF SidecarTyped, Rows, RowStates
  <2>4. CASE UNCHANGED <<sidecarHeld, sidecarRows, sidecarMem, sidecarFile>>
    BY <1>1, <2>4 DEF SidecarTyped
  <2> QED BY <2>1, <2>2, <2>3, <2>4
        DEF Sidecar!Refuse, Sidecar!Order, Sidecar!Verified, Sidecar!Unverified, Sidecar!RecordOpen,
            Sidecar!files, Sidecar!counts, p, s
<1>8. SidecarTyped' BY <1>1, <1>3, <1>5, <1>7 DEF SidecarTyped
<1>9. FlagSeen' /\ OrdersAdmitted' /\ CopyExact' /\ StopsCounted'
  BY <1>1, <1>3, <1>5, <1>6 DEF SidecarInv, FlagSeen, OrdersAdmitted, CopyExact, StopsCounted
<1>10. ~sidecarAdmission => UNCHANGED <<sidecarHeld, sidecarRows>>
  <2> SUFFICES ASSUME ~sidecarAdmission PROVE UNCHANGED <<sidecarHeld, sidecarRows>> OBVIOUS
  <2>1. ~sidecarRun.admit BY <1>1
  <2>2. ~Sidecar!Order BY <2>1 DEF Sidecar!Order, Sidecar!Blocked
  <2>3. ~Sidecar!RecordOpen BY <2>1 DEF Sidecar!RecordOpen, SidecarInv, OrdersAdmitted
  <2> QED BY <2>2, <2>3 DEF Sidecar!Refuse, Sidecar!Verified, Sidecar!Unverified, Sidecar!files
<1> QED BY <1>3, <1>8, <1>9, <1>10, HeldOrLetGo

\* An event begins with the flag of the file, and its end writes it back.
LEMMA BeginKeeps == ASSUME SidecarInv, Sidecar!Begin PROVE SidecarInv'
<1>1. PICK p \in Plans \ sidecarSeen :
          /\ sidecarRun' = [Sidecar!Idle EXCEPT !.at = "event", !.plan = p, !.admit = sidecarAdmission]
          /\ UNCHANGED <<sidecarHeld, sidecarAdmission, sidecarRows, sidecarFile, sidecarMem, sidecarStop,
                         sidecarRetired, sidecarStops>>
  BY DEF Sidecar!Begin, Sidecar!files, Sidecar!counts
<1>2. sidecarAdmission \in BOOLEAN BY DEF SidecarInv, SidecarTyped
<1>3. sidecarRun' \in Runs /\ sidecarRun'.at = "event" /\ sidecarRun'.plan = p /\ sidecarRun'.admit = sidecarAdmission
  BY <1>1, <1>2, IdleIsTyped DEF Runs
<1>4. SidecarTyped' BY <1>1, <1>3 DEF SidecarInv, SidecarTyped
<1>5. FlagSeen' /\ OrdersAdmitted' /\ CopyExact' /\ StopsCounted'
  BY <1>1, <1>3 DEF SidecarInv, FlagSeen, OrdersAdmitted, CopyExact, StopsCounted
<1> QED BY <1>1, <1>4, <1>5, HeldOrLetGo

LEMMA SaveKeeps == ASSUME SidecarInv, Sidecar!Save PROVE SidecarInv'
<1>1. /\ sidecarRun' = Sidecar!Idle /\ sidecarAdmission' = sidecarRun.admit
      /\ UNCHANGED <<sidecarHeld, sidecarRows, sidecarFile, sidecarMem, sidecarStop,
                     sidecarRetired, sidecarStops>>
  BY DEF Sidecar!Save, Sidecar!counts
<1>2. sidecarAdmission' = sidecarAdmission
  BY <1>1 DEF Sidecar!Save, Sidecar!Locked, SidecarInv, FlagSeen
<1>3. SidecarTyped' BY <1>1, <1>2, IdleIsTyped DEF SidecarInv, SidecarTyped, Sidecar!Locked
<1>4. FlagSeen' /\ OrdersAdmitted' /\ CopyExact' /\ StopsCounted'
  BY <1>1, <1>2, IdleIsTyped
     DEF SidecarInv, FlagSeen, OrdersAdmitted, CopyExact, StopsCounted, Sidecar!Locked
<1> QED BY <1>1, <1>2, <1>3, <1>4, HeldOrLetGo

\* The monitor works on a copy of the rows.
LEMMA MonitorBeginKeeps == ASSUME SidecarInv, Sidecar!MonitorBegin PROVE SidecarInv'
<1>1. /\ sidecarRun' = [Sidecar!Idle EXCEPT !.at = "monitor", !.rows = sidecarRows,
                            !.todo = Sidecar!Open(sidecarRows), !.stacked = Sidecar!Stacked(sidecarRows)]
      /\ UNCHANGED <<sidecarHeld, sidecarAdmission, sidecarRows, sidecarFile, sidecarMem, sidecarStop,
                     sidecarRetired, sidecarStops>>
  BY DEF Sidecar!MonitorBegin, Sidecar!files, Sidecar!counts
<1> DEFINE todo == Sidecar!Open(sidecarRows)
           stacked == Sidecar!Stacked(sidecarRows)
<1>2. todo \subseteq Plans BY DEF Sidecar!Open
<1>3. stacked \subseteq PlanSymbols BY DEF Sidecar!Stacked
<1> HIDE DEF todo, stacked
<1>4. sidecarRows \in Rows BY DEF SidecarInv, SidecarTyped
<1>5. sidecarRun' = [Sidecar!Idle EXCEPT !.at = "monitor", !.rows = sidecarRows, !.todo = todo, !.stacked = stacked]
  BY <1>1 DEF todo, stacked
<1>6. /\ sidecarRun' \in Runs /\ sidecarRun'.at = "monitor" /\ sidecarRun'.rows = sidecarRows
      /\ sidecarRun'.todo = todo
  BY <1>2, <1>3, <1>4, <1>5, IdleIsTyped DEF Runs
<1>9. \A p \in todo : sidecarRows[p] # "none" BY DEF todo, Sidecar!Open
<1>7. SidecarTyped' BY <1>1, <1>6 DEF SidecarInv, SidecarTyped, Sidecar!Locked
<1>8. FlagSeen' /\ OrdersAdmitted' /\ CopyExact' /\ StopsCounted'
  BY <1>1, <1>6, <1>9 DEF SidecarInv, FlagSeen, OrdersAdmitted, CopyExact, StopsCounted, Sidecar!Locked
<1> QED BY <1>1, <1>7, <1>8, HeldOrLetGo

LEMMA MonitorRowKeeps == ASSUME SidecarInv, Sidecar!MonitorRow PROVE SidecarInv'
<1>1. PICK p \in sidecarRun.todo :
          \/ Sidecar!MonitorFlat(p) \/ Sidecar!MonitorUnknown(p) \/ Sidecar!MonitorGhost(p)
          \/ Sidecar!MonitorKeeps(p) \/ Sidecar!MonitorCloses(p)
  BY DEF Sidecar!MonitorRow
<1>2. /\ sidecarRun.at = "monitor" /\ sidecarRun \in Runs /\ p \in Plans
      /\ UNCHANGED <<sidecarAdmission, sidecarRows, sidecarStop, sidecarRetired, sidecarStops>>
  BY DEF Sidecar!MonitorRow, SidecarInv, SidecarTyped, Runs
<1> DEFINE s == SymbolOf[p]
<1>3. s \in PlanSymbols BY <1>2, SidecarAssumption
<1>4. PICK row \in {"open", "closed"} : Sidecar!Looks(p, row)
  BY <1>1 DEF Sidecar!MonitorFlat, Sidecar!MonitorUnknown, Sidecar!MonitorGhost,
              Sidecar!MonitorKeeps, Sidecar!MonitorCloses
<1>5. /\ sidecarRun' \in Runs /\ sidecarRun'.at = "monitor"
      /\ sidecarRun'.rows = [sidecarRun.rows EXCEPT ![p] = row]
  <2> DEFINE left == sidecarRun.todo \ {p}
             copy == [sidecarRun.rows EXCEPT ![p] = row]
  <2>1. left \subseteq Plans BY <1>2 DEF Runs
  <2>2. copy \in Rows BY <1>2 DEF Runs, Rows, RowStates
  <2>3. sidecarRun' = [sidecarRun EXCEPT !.todo = left, !.rows = copy] BY <1>4 DEF Sidecar!Looks
  <2> HIDE DEF left, copy
  <2>4. sidecarRun' \in Runs /\ sidecarRun'.at = "monitor" /\ sidecarRun'.rows = copy
    BY <1>2, <2>1, <2>2, <2>3 DEF Runs
  <2> QED BY <2>4 DEF copy
<1>6. /\ sidecarHeld' \in {sidecarHeld, [sidecarHeld EXCEPT ![s] = NoPlan]}
      /\ sidecarMem' \in {sidecarMem, [sidecarMem EXCEPT ![s] = NoPlan]}
      /\ sidecarFile' \in {sidecarFile, sidecarMem'}
  BY <1>1 DEF Sidecar!MonitorFlat, Sidecar!MonitorUnknown, Sidecar!MonitorGhost,
              Sidecar!MonitorKeeps, Sidecar!MonitorCloses
<1>7. sidecarHeld' \in Owned /\ sidecarMem' \in Owned /\ sidecarFile' \in Owned
  <2> HIDE DEF s
  <2>1. sidecarHeld' \in Owned /\ sidecarMem' \in Owned
    BY <1>3, <1>6 DEF SidecarInv, SidecarTyped, Owned
  <2> QED BY <2>1, <1>6 DEF SidecarInv, SidecarTyped
<1>8. SidecarTyped' BY <1>2, <1>5, <1>7 DEF SidecarInv, SidecarTyped, Sidecar!Locked
<1>9. CopyExact'
  <2>1. sidecarRun.rows \in Rows BY <1>2 DEF Runs
  <2>2. \A q \in sidecarRun'.todo : q \in sidecarRun.todo /\ q # p /\ q \in Plans
    BY <1>2, <1>4 DEF Sidecar!Looks, Runs
  <2>3. \A q \in Plans : q # p => sidecarRun'.rows[q] = sidecarRun.rows[q] BY <1>5, <2>1 DEF Rows
  <2>4. \A q \in sidecarRun'.todo : sidecarRun'.rows[q] # "none"
    BY <1>2, <2>2, <2>3 DEF SidecarInv, CopyExact
  <2>5. sidecarRun.rows[p] # "none" BY <1>2 DEF SidecarInv, CopyExact
  <2>6. ASSUME sidecarStops = 0, NEW q \in Plans, sidecarRun'.rows[q] # "none"
        PROVE  sidecarRows[q] # "none"
    <3>1. sidecarRun.rows[q] # "none" BY <2>3, <2>5, <2>6
    <3> QED BY <1>2, <2>6, <3>1 DEF SidecarInv, CopyExact
  <2> QED BY <1>2, <2>4, <2>6 DEF CopyExact
<1>10. FlagSeen' /\ OrdersAdmitted' /\ StopsCounted'
  BY <1>2, <1>5 DEF SidecarInv, FlagSeen, OrdersAdmitted, StopsCounted, Sidecar!Locked
<1>11. \A t \in PlanSymbols : sidecarHeld'[t] \in {sidecarHeld[t], NoPlan}
  BY <1>3, <1>6 DEF SidecarInv, SidecarTyped, Owned
<1> QED BY <1>2, <1>8, <1>9, <1>10, <1>11, HeldOrLetGo

LEMMA MonitorSaveKeeps == ASSUME SidecarInv, Sidecar!MonitorSave PROVE SidecarInv'
<1>1. /\ sidecarRun.at = "monitor" /\ sidecarRows' = sidecarRun.rows /\ sidecarRun' = Sidecar!Idle
      /\ UNCHANGED <<sidecarHeld, sidecarAdmission, sidecarFile, sidecarMem, sidecarStop,
                     sidecarRetired, sidecarStops>>
  BY DEF Sidecar!MonitorSave, Sidecar!counts
<1>2. sidecarRows' \in Rows BY <1>1 DEF SidecarInv, SidecarTyped, Runs
<1>3. SidecarTyped' BY <1>1, <1>2, IdleIsTyped DEF SidecarInv, SidecarTyped, Sidecar!Locked
<1>4. FlagSeen' /\ OrdersAdmitted' /\ CopyExact' /\ StopsCounted'
  BY <1>1, IdleIsTyped DEF SidecarInv, FlagSeen, OrdersAdmitted, CopyExact, StopsCounted, Sidecar!Locked
<1>5. sidecarStops = 0 => \A p \in Plans : sidecarRows'[p] # "none" => sidecarRows[p] # "none"
  BY <1>1 DEF SidecarInv, CopyExact
<1> QED BY <1>1, <1>3, <1>4, <1>5, HeldOrLetGo

\* The commands.
LEMMA StopBeginKeeps == ASSUME SidecarInv, Sidecar!StopBegin PROVE SidecarInv'
<1>1. /\ sidecarStops' = sidecarStops + 1 /\ sidecarStops \in Nat
      /\ sidecarStop' = [on |-> TRUE, rows |-> sidecarRows, mem |-> sidecarFile, todo |-> Sidecar!Open(sidecarRows)]
      /\ UNCHANGED <<sidecarHeld, sidecarAdmission, sidecarRows, sidecarFile, sidecarMem, sidecarRun,
                     sidecarRetired>>
  BY DEF Sidecar!StopBegin, Sidecar!files, SidecarInv, SidecarTyped
<1>2. sidecarStops' \in Nat /\ sidecarStops' # 0 BY <1>1
<1>3. sidecarStop' \in Commands
  <2> DEFINE todo == Sidecar!Open(sidecarRows)
  <2>1. todo \subseteq Plans BY DEF Sidecar!Open
  <2> HIDE DEF todo
  <2>2. sidecarStop' = [on |-> TRUE, rows |-> sidecarRows, mem |-> sidecarFile, todo |-> todo]
    BY <1>1 DEF todo
  <2> QED BY <2>1, <2>2 DEF Commands, SidecarInv, SidecarTyped
<1>4. SidecarTyped' BY <1>1, <1>2, <1>3 DEF SidecarInv, SidecarTyped, Sidecar!Locked
<1>5. FlagSeen' /\ OrdersAdmitted' /\ CopyExact' /\ StopsCounted'
  BY <1>1, <1>2 DEF SidecarInv, FlagSeen, OrdersAdmitted, CopyExact, StopsCounted, Sidecar!Locked
<1> QED BY <1>1, <1>2, <1>4, <1>5, HeldOrLetGo

LEMMA StopRowKeeps == ASSUME SidecarInv, Sidecar!StopRow PROVE SidecarInv'
<1>1. /\ sidecarStop.on /\ sidecarStop \in Commands
      /\ UNCHANGED <<sidecarAdmission, sidecarRows, sidecarMem, sidecarRun, sidecarRetired, sidecarStops>>
  BY DEF Sidecar!StopRow, Sidecar!counts, SidecarInv, SidecarTyped
<1>2. PICK p \in sidecarStop.todo :
        LET s == SymbolOf[p]
            tried(row) == [sidecarStop EXCEPT !.todo = @ \ {p}, !.rows[p] = row]
        IN
        \/ /\ ~Sidecar!Proven(p, sidecarStop.mem)
           /\ sidecarStop' = tried("open") /\ UNCHANGED <<sidecarHeld, sidecarFile>>
        \/ /\ Sidecar!Proven(p, sidecarStop.mem)
           /\ sidecarStop' = [tried("closed") EXCEPT !.mem = [@ EXCEPT ![s] = NoPlan]]
           /\ sidecarFile' = sidecarStop'.mem
           /\ sidecarHeld' = IF sidecarHeld[s] = p THEN [sidecarHeld EXCEPT ![s] = NoPlan] ELSE sidecarHeld
        \/ /\ Sidecar!Proven(p, sidecarStop.mem)
           /\ sidecarStop' = tried("close_attempted") /\ UNCHANGED <<sidecarHeld, sidecarFile>>
  BY DEF Sidecar!StopRow
<1> DEFINE s == SymbolOf[p]
           tried(row) == [sidecarStop EXCEPT !.todo = @ \ {p}, !.rows[p] = row]
<1>3. p \in Plans /\ s \in PlanSymbols BY <1>1, SidecarAssumption DEF Commands
<1>4. \A row \in {"open", "closed", "close_attempted"} :
          tried(row) \in Commands /\ tried(row).on = sidecarStop.on /\ tried(row).mem = sidecarStop.mem
  <2> SUFFICES ASSUME NEW row \in {"open", "closed", "close_attempted"}
               PROVE  tried(row) \in Commands /\ tried(row).on = sidecarStop.on /\ tried(row).mem = sidecarStop.mem
    OBVIOUS
  <2> DEFINE left == sidecarStop.todo \ {p}
             copy == [sidecarStop.rows EXCEPT ![p] = row]
  <2>1. left \subseteq Plans BY <1>1 DEF Commands
  <2>2. copy \in Rows BY <1>1 DEF Commands, Rows, RowStates
  <2>3. tried(row) = [sidecarStop EXCEPT !.todo = left, !.rows = copy] BY <1>1 DEF Commands
  <2> HIDE DEF left, copy, tried
  <2> QED BY <1>1, <2>1, <2>2, <2>3 DEF Commands
<1>5. [sidecarStop.mem EXCEPT ![s] = NoPlan] \in Owned BY <1>1 DEF Commands, Owned
<1>6. /\ sidecarStop' \in Commands /\ sidecarStop'.on = sidecarStop.on
      /\ sidecarFile' \in Owned
      /\ sidecarHeld' \in {sidecarHeld, [sidecarHeld EXCEPT ![s] = NoPlan]}
  <2> DEFINE cleared == [sidecarStop.mem EXCEPT ![s] = NoPlan]
             done == tried("closed")
  <2>1. done \in Commands /\ done.on = sidecarStop.on /\ done.mem = sidecarStop.mem BY <1>4
  <2>2. CASE sidecarStop' = [done EXCEPT !.mem = [@ EXCEPT ![s] = NoPlan]] /\ sidecarFile' = sidecarStop'.mem
             /\ sidecarHeld' \in {sidecarHeld, [sidecarHeld EXCEPT ![s] = NoPlan]}
    <3> HIDE DEF done, s
    <3>1. [done EXCEPT !.mem = [@ EXCEPT ![s] = NoPlan]] = [done EXCEPT !.mem = cleared] BY <2>1 DEF Commands
    <3>2. cleared \in Owned BY <1>5
    <3> HIDE DEF cleared
    <3>3. sidecarStop' \in Commands /\ sidecarStop'.on = done.on /\ sidecarStop'.mem = cleared
      BY <2>1, <2>2, <3>1, <3>2 DEF Commands
    <3> QED BY <2>1, <2>2, <3>2, <3>3
  <2>3. CASE UNCHANGED <<sidecarHeld, sidecarFile>> /\ \E row \in {"open", "close_attempted"} : sidecarStop' = tried(row)
    <3> HIDE DEF done, s, tried, cleared
    <3> QED BY <1>4, <2>3 DEF SidecarInv, SidecarTyped
  <2> QED BY <1>2, <2>2, <2>3
<1>7. sidecarHeld' \in Owned /\ \A t \in PlanSymbols : sidecarHeld'[t] \in {sidecarHeld[t], NoPlan}
  <2> HIDE DEF s
  <2> QED BY <1>3, <1>6 DEF SidecarInv, SidecarTyped, Owned
<1>8. SidecarTyped' BY <1>1, <1>6, <1>7 DEF SidecarInv, SidecarTyped, Sidecar!Locked
<1>9. FlagSeen' /\ OrdersAdmitted' /\ CopyExact' /\ StopsCounted'
  BY <1>1, <1>6 DEF SidecarInv, FlagSeen, OrdersAdmitted, CopyExact, StopsCounted, Sidecar!Locked
<1> QED BY <1>1, <1>7, <1>8, <1>9, HeldOrLetGo

LEMMA StopSaveKeeps == ASSUME SidecarInv, Sidecar!StopSave PROVE SidecarInv'
<1>1. /\ sidecarStop.on /\ sidecarRows' = sidecarStop.rows /\ sidecarStop' = Sidecar!NotStopping
      /\ UNCHANGED <<sidecarHeld, sidecarAdmission, sidecarFile, sidecarMem, sidecarRun,
                     sidecarRetired, sidecarStops>>
  BY DEF Sidecar!StopSave, Sidecar!counts
<1>2. sidecarStops # 0 BY <1>1 DEF SidecarInv, StopsCounted
<1>3. sidecarRows' \in Rows BY <1>1 DEF SidecarInv, SidecarTyped, Commands
<1>4. SidecarTyped' BY <1>1, <1>3, IdleIsTyped DEF SidecarInv, SidecarTyped, Sidecar!Locked
<1>5. FlagSeen' /\ OrdersAdmitted' /\ CopyExact' /\ StopsCounted'
  BY <1>1, <1>2, IdleIsTyped DEF SidecarInv, FlagSeen, OrdersAdmitted, CopyExact, StopsCounted, Sidecar!Locked
<1> QED BY <1>1, <1>2, <1>4, <1>5, HeldOrLetGo

LEMMA StopAdmissionKeeps == ASSUME SidecarInv, Sidecar!StopAdmission PROVE SidecarInv'
<1>1. /\ ~Sidecar!Locked /\ sidecarAdmission /\ sidecarAdmission' = FALSE
      /\ UNCHANGED <<sidecarHeld, sidecarRows, sidecarFile, sidecarMem, sidecarRun, sidecarStop,
                     sidecarRetired, sidecarStops>>
  BY DEF Sidecar!StopAdmission, Sidecar!TakesLock, Sidecar!counts
<1>2. ~sidecarRetired BY <1>1 DEF SidecarInv, RetiredClosed
<1> QED BY <1>1, <1>2 DEF SidecarInv, SidecarTyped, FlagSeen, OrdersAdmitted, CopyExact, StopsCounted,
                         RetiredClosed, Sidecar!DrainHonest, Sidecar!Locked

\* The report is archived: it looked at every symbol with a row.
LEMMA ArchiveKeeps == ASSUME SidecarInv, Sidecar!Archive PROVE SidecarInv'
<1>1. /\ ~sidecarAdmission /\ sidecarRetired'
      /\ \A s \in Sidecar!Named : sidecarHeld[s] = NoPlan
      /\ UNCHANGED <<sidecarHeld, sidecarAdmission, sidecarRows, sidecarFile, sidecarMem, sidecarRun, sidecarStop,
                     sidecarStops>>
  BY DEF Sidecar!Archive, Sidecar!Drained, Sidecar!Flat, Sidecar!files, Sidecar!counts
<1>2. \A p \in Plans : sidecarRows[p] # "none" => SymbolOf[p] \in Sidecar!Named BY DEF Sidecar!Named
<1>3. Sidecar!DrainHonest' BY <1>1, <1>2 DEF Sidecar!DrainHonest
<1>4. RetiredClosed' BY <1>1 DEF RetiredClosed
<1> QED BY <1>1, <1>3, <1>4 DEF SidecarInv, SidecarTyped, FlagSeen, OrdersAdmitted, CopyExact, StopsCounted,
                               Sidecar!Locked

LEMMA OutsideKeeps == ASSUME SidecarInv, Sidecar!ClosedOutside PROVE SidecarInv'
<1>1. PICK s \in PlanSymbols : sidecarHeld' = [sidecarHeld EXCEPT ![s] = NoPlan]
  BY DEF Sidecar!ClosedOutside
<1>2. UNCHANGED <<sidecarAdmission, sidecarRows, sidecarFile, sidecarMem, sidecarRun, sidecarStop,
                  sidecarRetired, sidecarStops>>
  BY DEF Sidecar!ClosedOutside, Sidecar!files, Sidecar!counts
<1>3. sidecarHeld' \in Owned /\ \A t \in PlanSymbols : sidecarHeld'[t] \in {sidecarHeld[t], NoPlan}
  BY <1>1 DEF SidecarInv, SidecarTyped, Owned
<1>4. SidecarTyped' BY <1>2, <1>3 DEF SidecarInv, SidecarTyped, Sidecar!Locked
<1>5. FlagSeen' /\ OrdersAdmitted' /\ CopyExact' /\ StopsCounted'
  BY <1>2 DEF SidecarInv, FlagSeen, OrdersAdmitted, CopyExact, StopsCounted, Sidecar!Locked
<1> QED BY <1>2, <1>3, <1>4, <1>5, HeldOrLetGo

LEMMA SidecarCrashKeeps == ASSUME SidecarInv, Sidecar!Crash PROVE SidecarInv'
<1>1. /\ sidecarRun' = Sidecar!Idle /\ sidecarMem' = sidecarFile
      /\ UNCHANGED <<sidecarHeld, sidecarAdmission, sidecarRows, sidecarFile, sidecarStop,
                     sidecarRetired, sidecarStops>>
  BY DEF Sidecar!Crash, Sidecar!files
<1>2. SidecarTyped' BY <1>1, IdleIsTyped DEF SidecarInv, SidecarTyped, Sidecar!Locked
<1>3. FlagSeen' /\ OrdersAdmitted' /\ CopyExact' /\ StopsCounted'
  BY <1>1, IdleIsTyped DEF SidecarInv, FlagSeen, OrdersAdmitted, CopyExact, StopsCounted, Sidecar!Locked
<1> QED BY <1>1, <1>2, <1>3, HeldOrLetGo

LEMMA SidecarInvKept == SidecarInv /\ [Sidecar!Next]_(Sidecar!vars) => SidecarInv'
<1> SUFFICES ASSUME SidecarInv, [Sidecar!Next]_(Sidecar!vars) PROVE SidecarInv' OBVIOUS
<1>1. CASE UNCHANGED Sidecar!vars
  BY <1>1 DEF Sidecar!vars, SidecarInv, SidecarTyped, FlagSeen, OrdersAdmitted, CopyExact, StopsCounted,
              RetiredClosed, Sidecar!DrainHonest, Sidecar!Locked
<1> QED BY <1>1, EventKeeps, BeginKeeps, SaveKeeps, MonitorBeginKeeps, MonitorRowKeeps, MonitorSaveKeeps,
           StopBeginKeeps, StopRowKeeps, StopSaveKeeps, StopAdmissionKeeps, ArchiveKeeps, OutsideKeeps,
           SidecarCrashKeeps DEF Sidecar!Next, Sidecar!Run

LEMMA SidecarInvHolds == Sidecar!Spec => []SidecarInv
<1>1. ASSUME Sidecar!Init PROVE SidecarInv
  <2>1. /\ sidecarHeld \in Owned /\ sidecarMem \in Owned /\ sidecarFile \in Owned
        /\ sidecarRows = [p \in Plans |-> "none"] /\ sidecarRows \in Rows
        /\ sidecarRun \in Runs /\ sidecarRun.at = "idle"
        /\ sidecarStop \in Commands /\ ~sidecarStop.on
        /\ sidecarAdmission = TRUE /\ sidecarRetired = FALSE /\ sidecarStops = 0
    BY <1>1, IdleIsTyped DEF Sidecar!Init
  <2>2. SidecarTyped BY <2>1 DEF SidecarTyped, Sidecar!Locked
  <2>3. FlagSeen /\ OrdersAdmitted /\ CopyExact /\ StopsCounted /\ RetiredClosed
    BY <2>1 DEF FlagSeen, OrdersAdmitted, CopyExact, StopsCounted, RetiredClosed, Sidecar!Locked
  <2>4. Sidecar!DrainHonest BY <2>1 DEF Sidecar!DrainHonest
  <2> QED BY <2>2, <2>3, <2>4 DEF SidecarInv
<1> QED BY <1>1, SidecarInvKept, PTL DEF Sidecar!Spec

\* The drain report: when it is archived, and ever after, no symbol with an owner
\* row has a position unless a stop command ran; for any plans, symbols and
\* number of crashes, and whoever closes positions meanwhile.
THEOREM ReportIsHonest == Sidecar!Spec => []Sidecar!DrainHonest
<1>1. SidecarInv => Sidecar!DrainHonest BY DEF SidecarInv
<1> QED BY <1>1, SidecarInvHolds, PTL

\* Once admission is off no step opens a position, not that of an event which was
\* under way when the command came either.
THEOREM NothingOpensAfter == Sidecar!Spec => Sidecar!AdmissionStops
<1> DEFINE LetsGo == ~sidecarAdmission => \A s \in PlanSymbols : sidecarHeld'[s] \in {sidecarHeld[s], NoPlan}
<1>1. SidecarInv /\ [Sidecar!Next]_(Sidecar!vars) => [LetsGo]_(Sidecar!vars)
  <2> SUFFICES ASSUME SidecarInv, Sidecar!Next, ~sidecarAdmission,
                      NEW s \in PlanSymbols
               PROVE  sidecarHeld'[s] \in {sidecarHeld[s], NoPlan}
    OBVIOUS
  <2>1. sidecarHeld \in Owned BY DEF SidecarInv, SidecarTyped
  <2>2. ~Sidecar!Order
    BY DEF Sidecar!Order, Sidecar!Blocked, SidecarInv, FlagSeen, Sidecar!Locked
  <2>3. \/ sidecarHeld' = sidecarHeld
        \/ \E t : sidecarHeld' = [sidecarHeld EXCEPT ![t] = NoPlan]
    <3>1. CASE Sidecar!Run
      BY <2>2, <3>1 DEF Sidecar!Run, Sidecar!Begin, Sidecar!Refuse, Sidecar!Verified, Sidecar!Unverified,
            Sidecar!RecordOpen, Sidecar!Save, Sidecar!MonitorBegin, Sidecar!MonitorRow, Sidecar!MonitorSave,
            Sidecar!MonitorFlat, Sidecar!MonitorUnknown, Sidecar!MonitorGhost, Sidecar!MonitorKeeps,
            Sidecar!MonitorCloses
    <3>2. CASE Sidecar!StopRow BY <3>2 DEF Sidecar!StopRow
    <3>3. CASE Sidecar!ClosedOutside BY <3>3 DEF Sidecar!ClosedOutside
    <3>4. CASE Sidecar!StopBegin \/ Sidecar!StopSave \/ Sidecar!StopAdmission \/ Sidecar!Archive \/ Sidecar!Crash
      BY <3>4 DEF Sidecar!StopBegin, Sidecar!StopSave, Sidecar!StopAdmission, Sidecar!Archive, Sidecar!Crash
    <3> QED BY <3>1, <3>2, <3>3, <3>4 DEF Sidecar!Next
  <2> QED BY <2>1, <2>3 DEF Owned
<1> QED BY <1>1, SidecarInvHolds, PTL DEF Sidecar!Spec, Sidecar!AdmissionStops
=============================================================================
