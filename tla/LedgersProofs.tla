---------------------------- MODULE LedgersProofs ----------------------------
(* Proofs about what is kept in ledgers and queues; the five parts share no   *)
(* state.  EpisodeRegistry, for any number of bars, tokens, episodes, restarts*)
(* and renewals that are cut short.  PaperBooks, for any amounts: the equity  *)
(* is accounted for (BooksBalance).  MessageBus, for any limits: the urgent   *)
(* goes first (UrgencyRespected).  TacticalStore, for any stores, appends and *)
(* failures: a caller was told the truth (LedgerHonest).  CandidateReceipts,  *)
(* for any candidates and events: who asks again is answered as before, and   *)
(* acts once (ReceiptsHonest).                                                *)
EXTENDS MCLedgers, FiniteSetTheorems, SequenceTheorems, TLAPS

\* Episodes are numbered without gaps, the last one is the current one, and
\* the ledger folds to the memory (_persist appends first, 319-323).
Shape ==
    /\ current \in [Sides -> 0..MaxEpochs]
    /\ episodes \in [Sides -> Seq(EpisodeState)]
    /\ \A s \in Sides : Len(episodes[s]) = current[s]
    /\ ledger = [current |-> current, episodes |-> episodes]

\* Epochs beyond the current one were never granted.
Counted ==
    /\ grants \in [Sides -> [1..MaxEpochs -> Nat]]
    /\ \A s \in Sides, n \in 1..MaxEpochs :
         grants[s][n] <= 1 /\ (n > current[s] => grants[s][n] = 0)

\* What a side was shown is what its current episode has noted of it.
Noted ==
    /\ shown \in [Sides -> [opposed : BOOLEAN, neutral : BOOLEAN, newest : 0..MaxBar]]
    /\ \A s \in Sides :
         IF current[s] = 0 THEN shown[s].newest = 0
         ELSE /\ State(s).newest = shown[s].newest
              /\ State(s).pending => shown[s].opposed
              /\ State(s).neutral => shown[s].neutral

\* A renewal that was cut short can still be had.
CutOpen ==
    /\ cut \in [Sides -> Structures]
    /\ \A s \in Sides : cut[s] # Unavailable =>
         current[s] # 0 /\ Resets(s, State(s), cut[s])

RegInv == Shape /\ Counted /\ Noted /\ CutOpen /\ crashes \in 0..MaxCrashes

-----------------------------------------------------------------------------
(* Structures, episodes and the list of episodes.                             *)

LEMMA StructureFields ==
    ASSUME NEW x \in Structures
    PROVE  /\ x.available \in BOOLEAN /\ x.bar \in 0..MaxBar
           /\ x.available => x.bar > 0
           /\ x.token \in Tokens \cup {NoToken}
           /\ x.blocks \subseteq Sides
<1>1. CASE x = Unavailable
  BY <1>1, EpisodeBounds DEF EpisodeBounds, Unavailable
<1>2. CASE x # Unavailable
  <2>1. x \in [available : {TRUE}, bias : {"bullish", "neutral", "bearish"}, bar : 1..MaxBar,
               token : Tokens \cup {NoToken}, blocks : SUBSET Sides]
    BY <1>2 DEF Structures
  <2>2. /\ x.available = TRUE /\ x.bar \in 1..MaxBar /\ x.token \in Tokens \cup {NoToken}
        /\ x.blocks \in SUBSET Sides
    BY <2>1
  <2>3. x.bar \in 0..MaxBar /\ x.bar > 0
    BY <2>2, EpisodeBounds DEF EpisodeBounds
  <2> QED
    BY <2>2, <2>3, Zenon
<1> QED
  BY <1>1, <1>2

\* A state once stored is found again, and nothing else changes.
LEMMA StoredKeeps ==
    ASSUME NEW list \in Seq(EpisodeState), NEW e \in EpisodeState,
           NEW n \in 1..(Len(list) + 1)
    PROVE  /\ Stored(list, n, e) \in Seq(EpisodeState)
           /\ Len(Stored(list, n, e)) = Later(Len(list), n)
           /\ Stored(list, n, e)[n] = e
           /\ \A k \in 1..Len(list) : k # n => Stored(list, n, e)[k] = list[k]
<1>1. CASE n > Len(list)
  BY <1>1 DEF Stored, Later
<1>2. CASE n <= Len(list)
  BY <1>2 DEF Stored, Later
<1> QED
  BY <1>1, <1>2

\* _persist of one episode, current or not, in memory and ledger.
LEMMA PersistKeeps ==
    ASSUME Shape, NEW s \in Sides, NEW n \in 1..(current[s] + 1), n <= MaxEpochs,
           NEW e \in EpisodeState, NEW makeCurrent \in BOOLEAN,
           makeCurrent <=> n >= current[s], Persist(s, n, e, makeCurrent)
    PROVE  /\ Shape'
           /\ current'[s] = Later(current[s], n)
           /\ episodes'[s][n] = e
           /\ \A k \in 1..current[s] : k # n => episodes'[s][k] = episodes[s][k]
           /\ \A r \in Sides \ {s} :
                current'[r] = current[r] /\ episodes'[r] = episodes[r]
<1> DEFINE list == Stored(episodes[s], n, e)
<1>1. current[s] \in 0..MaxEpochs /\ Len(episodes[s]) = current[s]
  BY DEF Shape
<1>2. episodes[s] \in Seq(EpisodeState) /\ n \in 1..(Len(episodes[s]) + 1)
  BY <1>1 DEF Shape
<1>3. /\ list \in Seq(EpisodeState) /\ Len(list) = Later(current[s], n) /\ list[n] = e
      /\ \A k \in 1..current[s] : k # n => list[k] = episodes[s][k]
  <2>1. n \in 1..(Len(episodes[s]) + 1) /\ 1..Len(episodes[s]) = 1..current[s]
    BY <1>1
  <2> QED
    BY <1>1, <1>2, <2>1, StoredKeeps
<1>4. current' = [current EXCEPT ![s] = Later(current[s], n)]
  <2>1. CASE makeCurrent
    <3>1. current' = [current EXCEPT ![s] = n] /\ Later(current[s], n) = n
      BY <1>1, <2>1 DEF Persist, Later
    <3> QED
      BY <3>1
  <2>2. CASE ~makeCurrent
    BY <1>1, <2>2 DEF Persist, Later, Shape
  <2> QED
    BY <2>1, <2>2
<1>5. episodes' = [episodes EXCEPT ![s] = list]
  BY DEF Persist
<1>6. ledger' = [current |-> current', episodes |-> episodes']
  BY <1>4, <1>5 DEF Persist, Restored, Shape
<1>7. Later(current[s], n) \in 0..MaxEpochs
  BY <1>1, EpisodeBounds DEF EpisodeBounds, Later
<1> HIDE DEF list
<1>8. Shape'
  BY <1>3, <1>4, <1>5, <1>6, <1>7 DEF Shape
<1> QED
  BY <1>3, <1>4, <1>5, <1>8 DEF Shape

-----------------------------------------------------------------------------
(* The states the methods store.                                              *)

LEMMA StateFields ==
    ASSUME Shape, NEW s \in Sides, current[s] # 0
    PROVE  State(s) \in EpisodeState /\ current[s] \in 1..MaxEpochs
<1>1. current[s] \in 1..Len(episodes[s]) /\ episodes[s] \in Seq(EpisodeState)
  BY EpisodeBounds DEF EpisodeBounds, Shape
<1> QED
  BY <1>1 DEF Shape, State

LEMMA EpisodeFields ==
    ASSUME NEW s \in Sides, NEW x \in Structures
    PROVE  /\ Episode(s, x) \in EpisodeState
           /\ Episode(s, x).newest = x.bar
           /\ ~Episode(s, x).pending /\ ~Episode(s, x).neutral
  BY StructureFields DEF Episode, EpisodeState

LEMMA ObservedFields ==
    ASSUME NEW s \in Sides, NEW x \in Structures, NEW e \in EpisodeState
    PROVE  Observed(s, e, x) \in EpisodeState
<1>1. CASE ~x.available \/ Stale(e, x)
  BY <1>1 DEF Observed
<1>2. CASE ~(~x.available \/ Stale(e, x))
  <2>1. Later(e.newest, x.bar) \in 0..MaxBar
    BY StructureFields DEF EpisodeState, Later
  <2>2. /\ (s \in x.blocks) \in BOOLEAN
        /\ (e.pending \/ (s \in x.blocks /\ ~e.block)) \in BOOLEAN
        /\ (e.neutral \/ x.bias = "neutral") \in BOOLEAN
    OBVIOUS
  <2>3. e.terminal \in BOOLEAN /\ e.token \in Tokens \cup {NoToken} /\ e.bar \in 0..MaxBar
    BY DEF EpisodeState
  <2>4. Observed(s, e, x) =
          [terminal |-> e.terminal, neutral |-> e.neutral \/ x.bias = "neutral",
           block |-> s \in x.blocks, pending |-> e.pending \/ (s \in x.blocks /\ ~e.block),
           token |-> e.token, bar |-> e.bar, newest |-> Later(e.newest, x.bar)]
    BY <1>2 DEF Observed, EpisodeState
  <2> QED
    BY <2>1, <2>2, <2>3, <2>4 DEF EpisodeState
<1> QED
  BY <1>1, <1>2

LEMMA EvidenceFields ==
    ASSUME Shape, NEW s \in Sides, current[s] # 0, NEW x \in Structures
    PROVE  Evidence(s, x) \in EpisodeState
<1>1. State(s) \in EpisodeState
  BY StateFields
<1>2. Later(State(s).newest, x.bar) \in 0..MaxBar
  BY <1>1, StructureFields DEF EpisodeState, Later
<1> QED
  BY <1>1, <1>2 DEF Evidence, EpisodeState

\* A structure that resets is no older than anything the episode has seen.
LEMMA ResetIsFresh ==
    ASSUME NEW s \in Sides, NEW e \in EpisodeState, NEW x \in Structures, Resets(s, e, x)
    PROVE  x.bar >= e.newest /\ (e.terminal \/ e.pending \/ e.neutral)
<1>1. x.available /\ ~Stale(e, x) /\ x.bar \in Nat /\ x.bar > 0 /\ e.newest \in Nat
  BY StructureFields, EpisodeBounds DEF EpisodeBounds, Resets, EpisodeState
<1> QED
  BY <1>1 DEF Stale, Resets, NewStructure, Renewed

-----------------------------------------------------------------------------
(* A grant: the first of a side, or a renewal.                                *)

LEMMA GrantKeeps ==
    ASSUME RegInv, NEW s \in Sides, NEW x \in Structures, Grant(s, x),
           current[s] # 0 => Resets(s, State(s), x)
    PROVE  RegInv'
<1> DEFINE n == current[s] + 1
           e == Episode(s, x)
<1>1. /\ Shape /\ n \in 1..(current[s] + 1) /\ n \in 1..MaxEpochs /\ n > current[s]
      /\ current[s] \in Nat /\ Later(current[s], n) = n
  BY EpisodeBounds DEF EpisodeBounds, RegInv, Shape, Grant, NextEpoch, Later
<1>2. /\ Shape' /\ current'[s] = n /\ episodes'[s][n] = e
      /\ \A r \in Sides \ {s} : current'[r] = current[r] /\ episodes'[r] = episodes[r]
  <2>1. Persist(s, n, e, TRUE)
    BY Zenon DEF Grant, NextEpoch
  <2>2. e \in EpisodeState /\ n <= MaxEpochs /\ (TRUE <=> n >= current[s])
    BY <1>1, EpisodeFields
  <2> HIDE DEF n, e
  <2> QED
    BY <1>1, <2>1, <2>2, PersistKeeps, TRUE \in BOOLEAN
<1>3. Counted'
  <2>1. grants' = [grants EXCEPT ![s][n] = grants[s][n] + 1] /\ grants[s][n] = 0
    BY <1>1 DEF Grant, NextEpoch, RegInv, Counted
  <2>2. grants' \in [Sides -> [1..MaxEpochs -> Nat]]
    BY <1>1, <2>1 DEF RegInv, Counted
  <2>3. ASSUME NEW r \in Sides, NEW k \in 1..MaxEpochs
        PROVE  grants'[r][k] <= 1 /\ (k > current'[r] => grants'[r][k] = 0)
    <3>1. CASE r = s /\ k = n
      BY <1>1, <1>2, <2>1, <3>1 DEF RegInv, Counted
    <3>2. CASE r # s \/ k # n
      <4>1. grants'[r][k] = grants[r][k]
        BY <1>1, <2>1, <3>2 DEF RegInv, Counted
      <4>2. current[r] \in Nat
        BY <1>1, EpisodeBounds DEF EpisodeBounds, Shape
      <4>3. k > current'[r] => k > current[r]
        BY <1>1, <1>2, <4>2
      <4> QED
        BY <4>1, <4>3 DEF RegInv, Counted
    <3> QED
      BY <3>1, <3>2
  <2> QED
    BY <2>2, <2>3 DEF Counted
<1>4. Noted'
  <2> DEFINE h == Granted(s, x)
  <2>1. shown' = [shown EXCEPT ![s] = h]
    BY Zenon DEF Grant
  <2>2. Later(shown[s].newest, x.bar) = x.bar /\ x.bar \in 0..MaxBar
    <3>1. CASE current[s] = 0
      BY <3>1, StructureFields DEF RegInv, Noted, Later
    <3>2. CASE current[s] # 0
      BY <1>1, <3>2, ResetIsFresh, StateFields, StructureFields DEF RegInv, Noted, Later
    <3> QED
      BY <3>1, <3>2
  <2>3. h.newest = x.bar /\ h \in [opposed : BOOLEAN, neutral : BOOLEAN, newest : 0..MaxBar]
    BY <2>2 DEF Granted, NothingShown
  <2> HIDE DEF h
  <2>4. shown' \in [Sides -> [opposed : BOOLEAN, neutral : BOOLEAN, newest : 0..MaxBar]]
    BY <2>1, <2>3 DEF RegInv, Noted
  <2>5. /\ State(s)' = e /\ shown'[s].newest = e.newest /\ ~e.pending /\ ~e.neutral
        /\ current'[s] # 0
    BY <1>1, <1>2, <2>1, <2>3, EpisodeFields DEF State, RegInv, Noted
  <2>6. \A r \in Sides \ {s} :
           current'[r] = current[r] /\ State(r)' = State(r) /\ shown'[r] = shown[r]
    BY <1>2, <2>1 DEF State, RegInv, Noted
  <2> HIDE DEF e
  <2> QED
    BY <2>4, <2>5, <2>6 DEF RegInv, Noted
<1>5. CutOpen'
  <2>1. cut' = [cut EXCEPT ![s] = Unavailable] /\ cut'[s] = Unavailable
    BY DEF Grant, RegInv, CutOpen
  <2>2. \A r \in Sides \ {s} :
           current'[r] = current[r] /\ State(r)' = State(r) /\ cut'[r] = cut[r]
    BY <1>2, <2>1 DEF State, RegInv, CutOpen
  <2>3. Unavailable \in Structures
    BY DEF Structures
  <2> QED
    BY <2>1, <2>2, <2>3 DEF RegInv, CutOpen
<1> QED
  BY <1>2, <1>3, <1>4, <1>5 DEF RegInv, Grant

-----------------------------------------------------------------------------
(* The other steps store into an episode that exists already.                 *)

\* What storing into episode n of a side leaves of the four parts.
LEMMA StoreKeeps ==
    ASSUME RegInv, NEW s \in Sides, NEW n \in 1..current[s], NEW e \in EpisodeState,
           Persist(s, n, e, n = current[s])
    PROVE  /\ Shape' /\ current' = current
           /\ State(s)' = IF n = current[s] THEN e ELSE State(s)
           /\ \A r \in Sides \ {s} : State(r)' = State(r)
<1>1. Shape /\ current[s] \in 1..MaxEpochs /\ n \in 1..(current[s] + 1) /\ n <= MaxEpochs
  BY EpisodeBounds DEF EpisodeBounds, RegInv, Shape
<1>2. (n = current[s]) \in BOOLEAN /\ (n = current[s] <=> n >= current[s])
  BY <1>1
<1>3. /\ Shape' /\ current'[s] = Later(current[s], n) /\ episodes'[s][n] = e
      /\ \A k \in 1..current[s] : k # n => episodes'[s][k] = episodes[s][k]
      /\ \A r \in Sides \ {s} : current'[r] = current[r] /\ episodes'[r] = episodes[r]
  <2>1. PICK b : b = (n = current[s])
    OBVIOUS
  <2>2. b \in BOOLEAN /\ (b <=> n >= current[s]) /\ Persist(s, n, e, b)
    BY <1>2, <2>1
  <2> QED
    BY <1>1, <2>2, PersistKeeps
<1>4. current'[s] = current[s]
  BY <1>1, <1>3 DEF Later
<1>5. current' = current
  BY <1>1, <1>3, <1>4 DEF Shape
<1> QED
  BY <1>1, <1>3, <1>5 DEF State

LEMMA ObserveKeeps ==
    ASSUME RegInv, NEW s \in Sides, NEW x \in Structures, current[s] # 0, Observe(s, x)
    PROVE  RegInv'
<1> DEFINE e == Observed(s, State(s), x)
           h == Show(s, x)
<1>1. Shape /\ current[s] \in 1..MaxEpochs /\ State(s) \in EpisodeState
  BY StateFields DEF RegInv
<1>2. Persist(s, current[s], e, TRUE) /\ (current[s] = current[s]) = TRUE
  BY DEF Observe
<1>3. /\ Shape' /\ current' = current /\ State(s)' = e
      /\ \A r \in Sides \ {s} : State(r)' = State(r)
  <2>1. e \in EpisodeState /\ current[s] \in 1..current[s]
    BY <1>1, ObservedFields
  <2> HIDE DEF e
  <2> QED
    BY <1>2, <2>1, StoreKeeps
<1>4. Counted'
  BY <1>3 DEF Observe, RegInv, Counted
<1>5. /\ h \in [opposed : BOOLEAN, neutral : BOOLEAN, newest : 0..MaxBar]
      /\ e.newest = h.newest /\ (e.pending => h.opposed) /\ (e.neutral => h.neutral)
  <2>1. /\ State(s).newest = shown[s].newest /\ shown[s].newest \in 0..MaxBar
        /\ State(s).pending => shown[s].opposed
        /\ State(s).neutral => shown[s].neutral
        /\ shown[s] \in [opposed : BOOLEAN, neutral : BOOLEAN, newest : 0..MaxBar]
    BY <1>1 DEF RegInv, Noted
  <2>2. x.available => x.bar \in Nat /\ x.bar > 0 /\ x.bar \in 0..MaxBar
    BY StructureFields, EpisodeBounds DEF EpisodeBounds
  <2>3. shown[s].newest \in Nat
    BY <2>1, EpisodeBounds DEF EpisodeBounds
  <2>4. CASE ~x.available \/ x.bar < shown[s].newest
    <3>1. e = State(s) /\ h = shown[s]
      BY <2>1, <2>2, <2>3, <2>4 DEF Observed, Show, Stale
    <3> QED
      BY <2>1, <3>1
  <2>5. CASE x.available /\ ~(x.bar < shown[s].newest)
    <3>1. h = [opposed |-> shown[s].opposed \/ s \in x.blocks,
               neutral |-> shown[s].neutral \/ x.bias = "neutral", newest |-> x.bar]
      BY <2>5 DEF Show
    <3>2. e = [State(s) EXCEPT !.pending = State(s).pending \/ (s \in x.blocks /\ ~State(s).block),
                               !.neutral = State(s).neutral \/ x.bias = "neutral",
                               !.block = s \in x.blocks,
                               !.newest = Later(State(s).newest, x.bar)]
      BY <2>1, <2>5 DEF Observed, Stale
    <3>3. Later(State(s).newest, x.bar) = x.bar
      BY <2>1, <2>2, <2>3, <2>5 DEF Later
    <3>4. /\ e.newest = x.bar
          /\ e.pending <=> State(s).pending \/ (s \in x.blocks /\ ~State(s).block)
          /\ e.neutral <=> State(s).neutral \/ x.bias = "neutral"
      BY <1>1, <3>2, <3>3 DEF EpisodeState
    <3>5. (shown[s].opposed \/ s \in x.blocks) \in BOOLEAN
          /\ (shown[s].neutral \/ x.bias = "neutral") \in BOOLEAN
      OBVIOUS
    <3>6. h \in [opposed : BOOLEAN, neutral : BOOLEAN, newest : 0..MaxBar]
      BY <2>2, <2>5, <3>1, <3>5
    <3>7. /\ h.newest = x.bar
          /\ h.opposed = (shown[s].opposed \/ s \in x.blocks)
          /\ h.neutral = (shown[s].neutral \/ x.bias = "neutral")
      BY <3>1, <3>5
    <3> QED
      BY <2>1, <3>4, <3>6, <3>7, Zenon
  <2> QED
    BY <2>4, <2>5
<1>6. Noted'
  <2>1. shown' = [shown EXCEPT ![s] = h]
    BY Zenon DEF Observe
  <2> HIDE DEF e, h
  <2>2. shown' \in [Sides -> [opposed : BOOLEAN, neutral : BOOLEAN, newest : 0..MaxBar]]
    BY <1>5, <2>1 DEF RegInv, Noted
  <2>3. shown'[s] = h /\ \A r \in Sides \ {s} : shown'[r] = shown[r]
    BY <2>1 DEF RegInv, Noted
  <2> QED
    BY <1>1, <1>3, <1>5, <2>2, <2>3 DEF RegInv, Noted
<1>7. CutOpen'
  <2>1. cut' = [cut EXCEPT ![s] = Unavailable] /\ cut'[s] = Unavailable
    BY DEF Observe, RegInv, CutOpen
  <2>2. Unavailable \in Structures /\ \A r \in Sides \ {s} : cut'[r] = cut[r]
    BY <2>1 DEF Structures, RegInv, CutOpen
  <2> QED
    BY <1>3, <2>1, <2>2 DEF RegInv, CutOpen
<1> QED
  BY <1>3, <1>4, <1>6, <1>7 DEF RegInv, Observe

LEMMA MarkTerminalKeeps ==
    ASSUME RegInv, NEW s \in Sides, NEW n \in 1..MaxEpochs, MarkTerminal(s, n)
    PROVE  RegInv'
<1> DEFINE e == [episodes[s][n] EXCEPT !.terminal = TRUE]
<1>1. n \in 1..current[s] /\ episodes[s] \in Seq(EpisodeState)
  BY DEF MarkTerminal, RegInv, Shape
<1>2. episodes[s][n] \in EpisodeState
  BY <1>1 DEF RegInv, Shape
<1>3. e \in EpisodeState
  BY <1>2 DEF EpisodeState
<1>4. /\ Shape' /\ current' = current
      /\ State(s)' = IF n = current[s] THEN e ELSE State(s)
      /\ \A r \in Sides \ {s} : State(r)' = State(r)
  <2>1. Persist(s, n, e, n = current[s])
    BY Zenon DEF MarkTerminal
  <2> HIDE DEF e
  <2> QED
    BY <1>1, <1>3, <2>1, StoreKeeps
<1>5. \A r \in Sides : State(r)' = State(r) \/ State(r)' = [State(r) EXCEPT !.terminal = TRUE]
  BY <1>4 DEF State
<1>6. Counted'
  BY <1>4 DEF MarkTerminal, RegInv, Counted
<1>7. \A r \in Sides : current[r] # 0 => State(r) \in EpisodeState
  BY StateFields DEF RegInv
<1>8. Noted'
  BY <1>4, <1>5, <1>7 DEF MarkTerminal, RegInv, Noted, EpisodeState
<1>9. CutOpen'
  <2>1. ASSUME NEW r \in Sides, cut[r] # Unavailable
        PROVE  Resets(r, State(r), cut[r])'
    <3>1. current[r] # 0 /\ Resets(r, State(r), cut[r]) /\ State(r) \in EpisodeState
      BY <1>7, <2>1 DEF RegInv, CutOpen
    <3>2. cut'[r] = cut[r] /\ UNCHANGED cut
      BY DEF MarkTerminal
    <3>3. CASE State(r)' = State(r)
      BY <3>1, <3>2, <3>3 DEF Resets
    <3>4. CASE State(r)' = [State(r) EXCEPT !.terminal = TRUE]
      <4> DEFINE d == State(r)
                 f == State(r)'
      <4>1. /\ f.terminal /\ f.bar = d.bar /\ f.token = d.token /\ f.newest = d.newest
            /\ f.pending = d.pending /\ f.neutral = d.neutral
        BY <3>1, <3>4 DEF EpisodeState
      <4> HIDE DEF d, f
      <4>2. Resets(r, d, cut[r]) => Resets(r, f, cut[r])
        BY <4>1 DEF Resets, Stale, NewStructure, Renewed
      <4> QED
        BY <3>1, <3>2, <4>2 DEF d, f
    <3> QED
      BY <1>5, <3>3, <3>4
  <2> QED
    BY <1>4, <2>1 DEF MarkTerminal, RegInv, CutOpen
<1> QED
  BY <1>4, <1>6, <1>8, <1>9 DEF RegInv, MarkTerminal

LEMMA AssignCutKeeps ==
    ASSUME RegInv, NEW s \in Sides, NEW x \in Structures, AssignCut(s, x)
    PROVE  RegInv'
<1> DEFINE e == Evidence(s, x)
<1>1. /\ Shape /\ current[s] # 0 /\ current[s] \in 1..MaxEpochs
      /\ State(s) \in EpisodeState /\ e \in EpisodeState /\ Resets(s, State(s), x)
  BY StateFields, EvidenceFields DEF RegInv, AssignCut
<1>2. x.bar \in 0..MaxBar /\ x.bar \in Nat /\ x.bar >= State(s).newest
      /\ State(s).newest \in Nat /\ State(s).newest = shown[s].newest
  BY <1>1, StructureFields, ResetIsFresh, EpisodeBounds
     DEF EpisodeBounds, EpisodeState, RegInv, Noted
<1>3. /\ e.newest = x.bar /\ e.terminal = State(s).terminal /\ e.bar = State(s).bar
      /\ e.token = State(s).token /\ e.pending = State(s).pending
      /\ e.neutral = State(s).neutral
  BY <1>1, <1>2 DEF Evidence, EpisodeState, Later
<1>4. /\ Shape' /\ current' = current /\ State(s)' = e
      /\ \A r \in Sides \ {s} : State(r)' = State(r)
  <2>1. Persist(s, current[s], e, TRUE) /\ (current[s] = current[s]) = TRUE
    BY DEF AssignCut
  <2>2. current[s] \in 1..current[s] /\ e \in EpisodeState
    BY <1>1
  <2> HIDE DEF e
  <2> QED
    BY <2>1, <2>2, StoreKeeps
<1>5. Counted'
  BY <1>4 DEF AssignCut, RegInv, Counted
<1>6. Noted'
  <2>1. shown' = [shown EXCEPT ![s].newest = x.bar]
    <3>1. Later(shown[s].newest, x.bar) = x.bar
      BY <1>2 DEF Later
    <3> QED
      BY <3>1, Zenon DEF AssignCut
  <2>2. shown' \in [Sides -> [opposed : BOOLEAN, neutral : BOOLEAN, newest : 0..MaxBar]]
    BY <1>2, <2>1 DEF RegInv, Noted
  <2>3. /\ shown'[s].newest = x.bar /\ shown'[s].opposed = shown[s].opposed
        /\ shown'[s].neutral = shown[s].neutral
        /\ \A r \in Sides \ {s} : shown'[r] = shown[r]
    BY <2>1 DEF RegInv, Noted
  <2> HIDE DEF e
  <2> QED
    BY <1>1, <1>3, <1>4, <2>2, <2>3 DEF RegInv, Noted
<1>7. CutOpen'
  <2>1. Resets(s, e, x)
    BY <1>1, <1>2, <1>3 DEF Resets, Stale, NewStructure, Renewed
  <2>2. /\ cut' = [cut EXCEPT ![s] = x] /\ cut'[s] = x /\ cut' \in [Sides -> Structures]
        /\ \A r \in Sides \ {s} : cut'[r] = cut[r]
    BY DEF AssignCut, RegInv, CutOpen
  <2>3. Resets(s, State(s), cut[s])'
    BY <1>4, <2>1, <2>2
  <2>4. \A r \in Sides \ {s} :
           cut[r] # Unavailable => current[r] # 0 /\ Resets(r, State(r), cut[r])'
    BY <1>4, <2>2 DEF RegInv, CutOpen, Resets
  <2> QED
    BY <1>1, <1>4, <2>2, <2>3, <2>4 DEF CutOpen
<1>8. crashes' \in 0..MaxCrashes
  BY EpisodeBounds DEF EpisodeBounds, AssignCut, RegInv
<1> QED
  BY <1>4, <1>5, <1>6, <1>7, <1>8 DEF RegInv

\* A restart finds what the memory held.
LEMMA RestartKeeps == ASSUME RegInv, Restart PROVE RegInv' /\ UNCHANGED <<current, episodes>>
<1>1. current' = current /\ episodes' = episodes
  BY DEF Restart, RegInv, Shape
<1>2. crashes' \in 0..MaxCrashes
  BY EpisodeBounds DEF EpisodeBounds, Restart, RegInv
<1> QED
  BY <1>1, <1>2 DEF Restart, RegInv, Shape, Counted, Noted, CutOpen, State, Resets

-----------------------------------------------------------------------------
(* The invariant and the theorems.                                            *)

LEMMA RegInit == Init => RegInv
<1> SUFFICES ASSUME Init PROVE RegInv
  OBVIOUS
<1>1. Shape
  BY EpisodeBounds DEF EpisodeBounds, Init, Shape
<1>2. Counted /\ CutOpen
  BY DEF Init, Counted, CutOpen, Structures
<1>3. Noted
  BY EpisodeBounds DEF EpisodeBounds, Init, Noted, NothingShown
<1> QED
  BY <1>1, <1>2, <1>3, EpisodeBounds DEF EpisodeBounds, Init, RegInv

LEMMA RegStep == RegInv /\ [Next]_vars => RegInv'
<1> SUFFICES ASSUME RegInv, [Next]_vars PROVE RegInv'
  OBVIOUS
<1>1. ASSUME NEW s \in Sides, NEW x \in Structures, AssignFirst(s, x) PROVE RegInv'
  BY <1>1, GrantKeeps DEF AssignFirst
<1>2. ASSUME NEW s \in Sides, NEW x \in Structures, AssignRenewed(s, x) PROVE RegInv'
  BY <1>2, GrantKeeps DEF AssignRenewed
<1>3. ASSUME NEW s \in Sides, NEW x \in Structures, AssignDuplicate(s, x) PROVE RegInv'
  BY <1>3, ObserveKeeps DEF AssignDuplicate
<1>4. ASSUME NEW s \in Sides, NEW x \in Structures, ObserveStructure(s, x) PROVE RegInv'
  BY <1>4, ObserveKeeps DEF ObserveStructure
<1>5. ASSUME NEW s \in Sides, NEW x \in Structures, AssignCut(s, x) PROVE RegInv'
  BY <1>5, AssignCutKeeps
<1>6. ASSUME NEW s \in Sides, NEW n \in 1..MaxEpochs, MarkTerminal(s, n) PROVE RegInv'
  BY <1>6, MarkTerminalKeeps
<1>7. CASE Restart
  BY <1>7, RestartKeeps
<1>8. CASE UNCHANGED vars
  BY <1>8 DEF vars, RegInv, Shape, Counted, Noted, CutOpen, State, Resets
<1> QED
  BY <1>1, <1>2, <1>3, <1>4, <1>5, <1>6, <1>7, <1>8 DEF Next

LEMMA RegInvHolds == Spec => []RegInv
  BY RegInit, RegStep, PTL DEF Spec

\* assign (52-102) answers eligible at most once for an episode.
THEOREM OneGrantPerEpisode == Spec => []GrantedOnce
<1>1. RegInv => GrantedOnce
  BY DEF RegInv, Counted, GrantedOnce
<1> QED
  BY <1>1, RegInvHolds, PTL

\* _restore (325-361) folds the ledger to what the running registry decides on.
THEOREM LedgerIsMemory == Spec => []RegistryDurable
<1>1. RegInv => RegistryDurable
  BY DEF RegInv, Shape, RegistryDurable
<1> QED
  BY <1>1, RegInvHolds, PTL

\* A renewal cut between its two appends (74-86) can still be had.
THEOREM CutRenewalStays == Spec => []RenewalNotLost
<1>1. RegInv => RenewalNotLost
  BY DEF RegInv, CutOpen, RenewalNotLost
<1> QED
  BY <1>1, RegInvHolds, PTL

\* Only a grant makes another episode current.
LEMMA OnlyGrantsRenew ==
    ASSUME RegInv, [Next]_vars, NEW s \in Sides, current[s] # 0, current'[s] # current[s]
    PROVE  \E x \in Structures : AssignRenewed(s, x)
<1>1. PICK r \in Sides, x \in Structures : AssignRenewed(r, x) \/ AssignFirst(r, x)
  <2>1. ASSUME NEW r \in Sides, NEW x \in Structures, current[r] # 0, Observe(r, x)
        PROVE  current' = current
    BY <2>1 DEF Observe, Persist, RegInv, Shape
  <2>2. ASSUME NEW r \in Sides, NEW x \in Structures, AssignCut(r, x)
        PROVE  current' = current
    BY <2>2 DEF AssignCut, Persist, RegInv, Shape
  <2>3. ASSUME NEW r \in Sides, NEW n \in 1..MaxEpochs, MarkTerminal(r, n)
        PROVE  current' = current
    BY <2>3 DEF MarkTerminal, Persist, RegInv, Shape
  <2>4. ~Restart /\ ~UNCHANGED vars
    BY RestartKeeps DEF vars
  <2> QED
    BY <2>1, <2>2, <2>3, <2>4 DEF Next, AssignDuplicate, ObserveStructure
<1>2. r = s
  BY <1>1 DEF AssignRenewed, AssignFirst, Grant, Persist, RegInv, Shape
<1> QED
  BY <1>1, <1>2 DEF AssignFirst

\* A renewal needs evidence: the attempt is over, or an opposing block or a
\* neutral bias was shown (_reset_reason, 226-267).
THEOREM RenewalsAreEarned == Spec => RenewalEarned
<1>1. ASSUME RegInv, [Next]_vars, NEW s \in Sides, current[s] # 0, current'[s] # current[s]
      PROVE  State(s).terminal \/ shown[s].opposed \/ shown[s].neutral
  <2>1. PICK x \in Structures : AssignRenewed(s, x)
    BY <1>1, OnlyGrantsRenew
  <2>2. State(s) \in EpisodeState
    BY <1>1, StateFields DEF RegInv
  <2>3. State(s).terminal \/ State(s).pending \/ State(s).neutral
    BY <2>1, <2>2, ResetIsFresh DEF AssignRenewed
  <2> QED
    BY <1>1, <2>3 DEF RegInv, Noted
<1>2. RegInv /\ [Next]_vars =>
        [\A s \in Sides : current[s] # 0 /\ current'[s] # current[s] =>
            \/ State(s).terminal \/ shown[s].opposed \/ shown[s].neutral]_vars
  BY <1>1
<1> QED
  BY <1>2, RegInvHolds, PTL DEF Spec, RenewalEarned

\* No late structure renews an episode (_is_stale_bar, 416-427).
THEOREM RenewalsAreFresh == Spec => NoStaleRenewal
<1>1. ASSUME RegInv, [Next]_vars, NEW s \in Sides, current[s] # 0, current'[s] # current[s]
      PROVE  episodes'[s][current'[s]].bar >= shown[s].newest
  <2>1. PICK x \in Structures : AssignRenewed(s, x)
    BY <1>1, OnlyGrantsRenew
  <2>2. State(s) \in EpisodeState /\ current[s] \in 1..MaxEpochs /\ Shape
    BY <1>1, StateFields DEF RegInv
  <2>3. x.bar >= shown[s].newest
    BY <1>1, <2>1, <2>2, ResetIsFresh DEF AssignRenewed, RegInv, Noted
  <2>4. Persist(s, current[s] + 1, Episode(s, x), TRUE) /\ current[s] + 1 <= MaxEpochs
    BY <2>1 DEF AssignRenewed, Grant, NextEpoch
  <2>5. episodes'[s][current[s] + 1] = Episode(s, x) /\ current'[s] = current[s] + 1
    <3>1. /\ current[s] + 1 \in 1..(current[s] + 1) /\ TRUE \in BOOLEAN
          /\ (TRUE <=> current[s] + 1 >= current[s])
          /\ Later(current[s], current[s] + 1) = current[s] + 1
      BY <2>2 DEF Later
    <3>2. PICK n, e : n = current[s] + 1 /\ e = Episode(s, x)
      OBVIOUS
    <3>3. /\ n \in 1..(current[s] + 1) /\ n <= MaxEpochs /\ e \in EpisodeState
          /\ Persist(s, n, e, TRUE) /\ (TRUE <=> n >= current[s])
      BY <2>4, <3>1, <3>2, EpisodeFields
    <3>4. episodes'[s][n] = e /\ current'[s] = Later(current[s], n)
      BY <2>2, <3>3, PersistKeeps
    <3> QED
      BY <3>1, <3>2, <3>4
  <2> QED
    BY <2>3, <2>5 DEF Episode
<1>2. RegInv /\ [Next]_vars =>
        [\A s \in Sides : current[s] # 0 /\ current'[s] # current[s] =>
            episodes'[s][current'[s]].bar >= shown[s].newest]_vars
  BY <1>1
<1> QED
  BY <1>2, RegInvHolds, PTL DEF Spec, NoStaleRenewal

\* No episode begins unearned or on late evidence, and none that was earned is
\* lost to a crash.
THEOREM RenewalsAreJustified == Spec => RenewalJustified
BY RenewalsAreEarned, RenewalsAreFresh, CutRenewalStays, PTL DEF RenewalJustified

-----------------------------------------------------------------------------
(* The paper books.                                                           *)

PaperBook == [lots : [Paper!Prices -> Nat], sd : Int, td : Int, fee : Int,
              equity : Int, recorded : Int]

\* A book balances, and pays for no entry while it is flat.
Balanced(k) ==
    /\ k \in PaperBook
    /\ k.equity = Initial + k.recorded - k.fee
    /\ Paper!Flat(k) => k.fee = 0

\* A tick that is recent is a price, and a limit entry waits for a flat book:
\* whatever enters, enters a flat book.
PaperInv ==
    /\ paperPrice \in Paper!Prices \cup {Paper!NoPrice}
    /\ paperFresh => paperPrice \in Paper!Prices
    /\ paperWaiting \in [on : BOOLEAN, due : BOOLEAN, fallback : BOOLEAN]
    /\ paperWaiting.on => Paper!Flat(paperBook["realistic"])
    /\ DOMAIN paperBook = Paper!Books
    /\ \A b \in Paper!Books : Balanced(paperBook[b])

LEMMA ThreePrices == Paper!Prices = {1, 2, 3} /\ Paper!NoPrice = 0
BY DEF Paper!Prices, Paper!Stop, Paper!Target, Paper!NoPrice

LEMMA LotsOfBook ==
    ASSUME NEW k \in PaperBook
    PROVE  /\ k.lots \in [Paper!Prices -> Nat]
           /\ k.lots[1] \in Nat /\ k.lots[2] \in Nat /\ k.lots[3] \in Nat
           /\ k.fee \in Int /\ k.equity \in Int /\ k.recorded \in Int
           /\ k.sd \in Int /\ k.td \in Int
           /\ Paper!Units(k) = k.lots[1] + k.lots[2] + k.lots[3]
           /\ Paper!Units(k) \in Nat
           /\ Paper!Flat(k) <=> k.lots[1] = 0 /\ k.lots[2] = 0 /\ k.lots[3] = 0
<1>1. /\ k.lots \in [Paper!Prices -> Nat]
      /\ k.fee \in Int /\ k.equity \in Int /\ k.recorded \in Int
      /\ k.sd \in Int /\ k.td \in Int
  BY DEF PaperBook
<1>2. k.lots[1] \in Nat /\ k.lots[2] \in Nat /\ k.lots[3] \in Nat
  BY <1>1, ThreePrices
<1>3. Paper!Units(k) = k.lots[1] + k.lots[2] + k.lots[3]
  BY DEF Paper!Units, Paper!Stop, Paper!Zone, Paper!Target
<1>4. Paper!Units(k) \in Nat
  BY <1>2, <1>3
<1>5. Paper!Flat(k) <=> k.lots[1] = 0 /\ k.lots[2] = 0 /\ k.lots[3] = 0
  BY <1>1, ThreePrices DEF Paper!Flat, Paper!Nothing
<1> QED
  BY <1>1, <1>2, <1>3, <1>4, <1>5

LEMMA GainIsInt ==
    ASSUME NEW k \in PaperBook, NEW p \in Paper!Prices
    PROVE  Paper!Gain(k, p) \in Int
<1>1. k.lots[1] \in Nat /\ k.lots[2] \in Nat /\ k.lots[3] \in Nat
  BY LotsOfBook
<1>2. CASE p = 1
  BY <1>1, <1>2 DEF Paper!Gain, Paper!Stop, Paper!Zone, Paper!Target
<1>3. CASE p = 2
  BY <1>1, <1>3 DEF Paper!Gain, Paper!Stop, Paper!Zone, Paper!Target
<1>4. CASE p = 3
  BY <1>1, <1>4 DEF Paper!Gain, Paper!Stop, Paper!Zone, Paper!Target
<1> QED
  BY <1>2, <1>3, <1>4, ThreePrices

\* A flat book is entered: the fee it will owe leaves the equity at once.
LEMMA EnteredBalances ==
    ASSUME NEW k, Balanced(k), Paper!Flat(k), NEW at \in Paper!Prices
    PROVE  Balanced(Paper!Entered(k, at))
<1> DEFINE e == Paper!Entered(k, at)
<1>0. k \in PaperBook
  BY DEF Balanced
<1>1. CASE Paper!Free(k) < Margin
  BY <1>1 DEF Paper!Entered
<1>2. CASE ~(Paper!Free(k) < Margin)
  <2>1. /\ k \in PaperBook /\ k.fee = 0 /\ at \in Int /\ Margin \in Nat /\ Initial \in Int
        /\ k.equity = Initial + k.recorded - k.fee
        /\ k.lots \in [Paper!Prices -> Nat] /\ k.equity \in Int /\ k.recorded \in Int
    BY PaperAmounts, ThreePrices, LotsOfBook DEF Balanced
  <2>2. PICK l \in [Paper!Prices -> Nat] : l = [k.lots EXCEPT ![at] = Margin]
    BY <2>1
  <2>3. PICK sd \in Int, td \in Int, fee \in Int, equity \in Int :
            sd = at - 1 /\ td = 3 - at /\ fee = Margin /\ equity = k.equity - Margin
    BY <2>1
  <2>4. e = [k EXCEPT !.lots = l, !.sd = sd, !.td = td, !.fee = fee, !.equity = equity]
    BY <1>2, <2>1, <2>2, <2>3 DEF Paper!Entered, Paper!Stop, Paper!Target, PaperBook
  <2>5. e \in PaperBook
    BY <1>0, <2>4 DEF PaperBook
  <2>6. e.lots = l /\ e.fee = fee /\ e.equity = equity /\ e.recorded = k.recorded
    BY <1>0, <2>4 DEF PaperBook
  <2>7. Paper!Flat(e) => e.fee = 0
    <3>1. l[at] = Margin
      BY <2>1, <2>2
    <3> QED
      BY <3>1, <2>3, <2>5, <2>6, LotsOfBook, ThreePrices
  <2>8. e.equity = Initial + e.recorded - e.fee
    BY <2>1, <2>3, <2>6
  <2> QED
    BY <2>5, <2>7, <2>8 DEF Balanced
<1> QED
  BY <1>1, <1>2

\* An exit books its gross profit and gives back what was paid to enter.
LEMMA ExitedBalances ==
    ASSUME NEW k, Balanced(k), NEW gross \in Int
    PROVE  Balanced(Paper!Exited(k, gross))
<1> DEFINE e == Paper!Exited(k, gross)
<1>0. k \in PaperBook
  BY DEF Balanced
<1>1. /\ k \in PaperBook /\ Paper!Units(k) \in Nat /\ k.fee \in Int /\ k.equity \in Int
      /\ k.recorded \in Int /\ k.equity = Initial + k.recorded - k.fee /\ Initial \in Int
  BY LotsOfBook, PaperAmounts DEF Balanced
<1>2. PICK l \in [Paper!Prices -> Nat] : l = Paper!Nothing
  BY DEF Paper!Nothing
<1>3. PICK equity \in Int, recorded \in Int, zero \in Int :
          /\ equity = k.equity + gross - Paper!Units(k)
          /\ recorded = k.recorded + gross - k.fee - Paper!Units(k)
          /\ zero = 0
  BY <1>1
<1>4. e = [k EXCEPT !.lots = l, !.sd = zero, !.td = zero, !.fee = zero,
                    !.equity = equity, !.recorded = recorded]
  BY <1>1, <1>2, <1>3 DEF Paper!Exited, PaperBook
<1>5. e \in PaperBook
  BY <1>0, <1>4 DEF PaperBook
<1>6. e.fee = zero /\ e.equity = equity /\ e.recorded = recorded
  BY <1>0, <1>4 DEF PaperBook
<1>7. e.equity = Initial + e.recorded - e.fee
  BY <1>1, <1>3, <1>6
<1> QED
  BY <1>3, <1>5, <1>6, <1>7 DEF Balanced

\* An add pays its fee from the equity and keeps it with the position.
LEMMA AddedBalances ==
    ASSUME NEW k, Balanced(k), NEW p \in Paper!Prices
    PROVE  Balanced(Paper!Added(k, p))
<1> DEFINE e == Paper!Added(k, p)
           n == IF 2 * Paper!Units(k) <= 2 * Margin THEN Paper!Units(k)
                ELSE 2 * Margin - Paper!Units(k)
<1>0. k \in PaperBook
  BY DEF Balanced
<1>1. CASE Paper!Flat(k) \/ n <= 0 \/ 2 * n > Paper!Free(k)
  BY <1>1 DEF Paper!Added
<1>2. CASE ~(Paper!Flat(k) \/ n <= 0 \/ 2 * n > Paper!Free(k))
  <2>1. /\ k \in PaperBook /\ k.lots \in [Paper!Prices -> Nat] /\ k.fee \in Int
        /\ k.equity \in Int /\ k.recorded \in Int /\ Paper!Units(k) \in Nat
        /\ k.equity = Initial + k.recorded - k.fee /\ Initial \in Int
    BY LotsOfBook, PaperAmounts DEF Balanced
  <2>2. n \in Int /\ n > 0
    BY <1>2, <2>1, PaperAmounts
  <2> HIDE DEF n
  <2>3. PICK l \in [Paper!Prices -> Nat] : l = [k.lots EXCEPT ![p] = @ + n]
    <3>1. [k.lots EXCEPT ![p] = @ + n] \in [Paper!Prices -> Nat]
      BY <2>1, <2>2
    <3> QED
      BY <3>1, Zenon
  <2>4. PICK fee \in Int, equity \in Int : fee = k.fee + n /\ equity = k.equity - n
    <3>1. k.fee + n \in Int /\ k.equity - n \in Int
      BY <2>1, <2>2
    <3> QED
      BY <3>1, Zenon
  <2>5. e = [k EXCEPT !.lots = l, !.fee = fee, !.equity = equity]
    BY <1>2, <2>1, <2>3, <2>4 DEF Paper!Added, PaperBook, n
  <2>6. e \in PaperBook
    BY <1>0, <2>5 DEF PaperBook
  <2>7. e.lots = l /\ e.fee = fee /\ e.equity = equity /\ e.recorded = k.recorded
    BY <1>0, <2>5 DEF PaperBook
  <2>8. ~Paper!Flat(e)
    <3>1. l[p] > 0
      BY <2>1, <2>2, <2>3
    <3> QED
      BY <3>1, <2>6, <2>7, LotsOfBook, ThreePrices
  <2>9. e.equity = Initial + e.recorded - e.fee
    BY <2>1, <2>2, <2>4, <2>7
  <2> QED
    BY <2>6, <2>8, <2>9 DEF Balanced
<1> QED
  BY <1>1, <1>2

\* What half of a book gains goes to the equity and to the record alike, and
\* half of something is something.
LEMMA ReducedBalances ==
    ASSUME NEW k, Balanced(k), NEW p \in Paper!Prices
    PROVE  Balanced(Paper!Reduced(k, p))
<1> DEFINE e == Paper!Reduced(k, p)
           net == (Paper!Gain(k, p) - Paper!Units(k)) \div 2
<1>0. k \in PaperBook
  BY DEF Balanced
<1>1. CASE ~Paper!Halves(k)
  BY <1>1 DEF Paper!Reduced
<1>2. CASE Paper!Halves(k)
  <2>1. /\ k \in PaperBook /\ k.lots \in [Paper!Prices -> Nat] /\ k.fee \in Int
        /\ k.equity \in Int /\ k.recorded \in Int /\ Paper!Units(k) \in Nat
        /\ k.equity = Initial + k.recorded - k.fee /\ Initial \in Int
    BY LotsOfBook, PaperAmounts DEF Balanced
  <2>2. net \in Int
    BY <2>1, GainIsInt
  <2> HIDE DEF net
  <2>3. PICK l \in [Paper!Prices -> Nat] : l = [x \in Paper!Prices |-> k.lots[x] \div 2]
    <3>1. \A x \in Paper!Prices : k.lots[x] \div 2 \in Nat
      BY <2>1
    <3>2. [x \in Paper!Prices |-> k.lots[x] \div 2] \in [Paper!Prices -> Nat]
      BY <3>1
    <3> QED
      BY <3>2, Zenon
  <2>4. PICK equity \in Int, recorded \in Int :
            equity = k.equity + net /\ recorded = k.recorded + net
    <3>1. k.equity + net \in Int /\ k.recorded + net \in Int
      BY <2>1, <2>2
    <3> QED
      BY <3>1, Zenon
  <2>5. e = [k EXCEPT !.lots = l, !.equity = equity, !.recorded = recorded]
    BY <1>2, <2>1, <2>3, <2>4 DEF Paper!Reduced, PaperBook, net
  <2>6. e \in PaperBook
    BY <1>0, <2>5 DEF PaperBook
  <2>7. e.lots = l /\ e.fee = k.fee /\ e.equity = equity /\ e.recorded = recorded
    BY <1>0, <2>5 DEF PaperBook
  <2>8. ~Paper!Flat(e)
    <3>1. PICK x \in Paper!Prices : k.lots[x] # 0
      BY <1>2, <2>1, LotsOfBook, ThreePrices DEF Paper!Halves
    <3>2. k.lots[x] \in Nat /\ k.lots[x] % 2 = 0
      BY <1>2, <2>1 DEF Paper!Halves
    <3>3. l[x] # 0
      BY <2>3, <3>1, <3>2
    <3> QED
      BY <3>3, <2>6, <2>7, LotsOfBook, ThreePrices
  <2>9. e.equity = Initial + e.recorded - e.fee
    BY <2>1, <2>2, <2>4, <2>7
  <2> QED
    BY <2>6, <2>8, <2>9 DEF Balanced
<1> QED
  BY <1>1, <1>2

LEMMA CheckedBalances ==
    ASSUME NEW k, Balanced(k), NEW p \in Paper!Prices
    PROVE  Balanced(Paper!Checked(k, p))
<1>1. /\ k \in PaperBook /\ k.sd \in Int /\ k.td \in Int /\ Paper!Units(k) \in Nat
  BY LotsOfBook DEF Balanced
<1>2. -(k.sd * Paper!Units(k)) \in Int /\ k.td * Paper!Units(k) \in Int
  BY <1>1
<1>3. /\ Balanced(Paper!Exited(k, -(k.sd * Paper!Units(k))))
      /\ Balanced(Paper!Exited(k, k.td * Paper!Units(k)))
  BY <1>2, ExitedBalances
<1> QED
  BY <1>3 DEF Paper!Checked

-----------------------------------------------------------------------------

LEMMA PaperInit == Paper!Init => PaperInv
<1> SUFFICES ASSUME Paper!Init PROVE PaperInv
  OBVIOUS
<1> DEFINE k == [lots |-> Paper!Nothing, sd |-> 0, td |-> 0, fee |-> 0,
                 equity |-> Initial, recorded |-> 0]
<1>1. Balanced(k) /\ Paper!Flat(k)
  BY PaperAmounts DEF Balanced, PaperBook, Paper!Nothing, Paper!Flat
<1>2. /\ DOMAIN paperBook = Paper!Books
      /\ \A b \in Paper!Books : paperBook[b] = k
  BY DEF Paper!Init
<1> HIDE DEF k
<1>3. \A b \in Paper!Books : Balanced(paperBook[b])
  BY <1>1, <1>2
<1> QED
  BY <1>2, <1>3 DEF PaperInv, Paper!Init, Paper!NotWaiting

\* What a step does to one book.
Trades(k, m) ==
    \/ m = k
    \/ \E p \in Paper!Prices : m \in {Paper!Added(k, p), Paper!Reduced(k, p), Paper!Checked(k, p)}
    \/ \E gross \in Int : m = Paper!Exited(k, gross)
    \/ /\ Paper!Flat(k)
       /\ \E at \in Paper!Prices :
             \/ m = Paper!Entered(k, at)
             \/ \E p \in Paper!Prices : m = Paper!Checked(Paper!Entered(k, at), p)

LEMMA TradesBalance ==
    ASSUME NEW k, NEW m, Balanced(k), Trades(k, m)
    PROVE  Balanced(m)
<1>1. ASSUME NEW p \in Paper!Prices
      PROVE  Balanced(Paper!Added(k, p)) /\ Balanced(Paper!Reduced(k, p))
                 /\ Balanced(Paper!Checked(k, p))
  BY AddedBalances, ReducedBalances, CheckedBalances
<1>2. ASSUME NEW gross \in Int PROVE Balanced(Paper!Exited(k, gross))
  BY ExitedBalances
<1>3. ASSUME Paper!Flat(k), NEW at \in Paper!Prices
      PROVE  /\ Balanced(Paper!Entered(k, at))
             /\ \A p \in Paper!Prices : Balanced(Paper!Checked(Paper!Entered(k, at), p))
  BY <1>3, EnteredBalances, CheckedBalances
<1> QED
  BY <1>1, <1>2, <1>3, Zenon DEF Trades

\* What a step does to the two books and to what waits.
PaperMoves ==
    /\ paperPrice' \in Paper!Prices \cup {Paper!NoPrice}
    /\ paperFresh' => paperPrice' \in Paper!Prices
    /\ paperWaiting' \in [on : BOOLEAN, due : BOOLEAN, fallback : BOOLEAN]
    /\ paperWaiting'.on => Paper!Flat(paperBook'["realistic"])
    /\ DOMAIN paperBook' = Paper!Books
    /\ \A b \in Paper!Books : Trades(paperBook[b], paperBook'[b])

LEMMA MovesBalance == ASSUME PaperInv, PaperMoves PROVE PaperInv'
<1>1. \A b \in Paper!Books : Balanced(paperBook'[b])
  BY TradesBalance DEF PaperInv, PaperMoves
<1> QED
  BY <1>1 DEF PaperInv, PaperMoves

LEMMA NothingWaits ==
    /\ Paper!NotWaiting \in [on : BOOLEAN, due : BOOLEAN, fallback : BOOLEAN]
    /\ ~Paper!NotWaiting.on
BY DEF Paper!NotWaiting

LEMMA TheBooks == "realistic" \in Paper!Books /\ Paper!Zone \in Paper!Prices
BY ThreePrices DEF Paper!Books, Paper!Zone

\* A limit entry fills a flat book, and a flat book has nothing to check.
LEMMA TickMoves ==
    ASSUME PaperInv, NEW p \in Paper!Prices, Paper!Tick(p)
    PROVE  PaperMoves
<1>1. /\ DOMAIN paperBook' = Paper!Books /\ paperPrice' = p
      /\ paperWaiting' = IF Paper!Fills(p) THEN Paper!NotWaiting ELSE paperWaiting
      /\ \A b \in Paper!Books : paperBook'[b] =
            Paper!Checked(IF b = "realistic" /\ Paper!Fills(p)
                          THEN Paper!Entered(paperBook[b], Paper!Zone)
                          ELSE paperBook[b], p)
  BY DEF Paper!Tick
<1>2. ASSUME NEW b \in Paper!Books PROVE Trades(paperBook[b], paperBook'[b])
  <2>1. CASE b = "realistic" /\ Paper!Fills(p)
    BY <1>1, <2>1, TheBooks DEF Trades, PaperInv, Paper!Fills
  <2>2. CASE ~(b = "realistic" /\ Paper!Fills(p))
    BY <1>1, <2>2 DEF Trades
  <2> QED
    BY <2>1, <2>2
<1>3. paperWaiting'.on => Paper!Flat(paperBook'["realistic"])
  BY <1>1, NothingWaits, TheBooks DEF PaperInv, Paper!Checked
<1>4. paperWaiting' \in [on : BOOLEAN, due : BOOLEAN, fallback : BOOLEAN]
  BY <1>1, NothingWaits DEF PaperInv
<1> QED
  BY <1>1, <1>2, <1>3, <1>4 DEF PaperMoves

LEMMA DecideMoves ==
    ASSUME PaperInv, NEW limit \in BOOLEAN, NEW fallback \in BOOLEAN,
           Paper!Decide(limit, fallback)
    PROVE  PaperMoves
<1>1. /\ Paper!Flat(paperBook["realistic"])
      /\ paperWaiting' = IF Paper!Enters /\ limit
                         THEN [on |-> TRUE, due |-> FALSE, fallback |-> fallback]
                         ELSE paperWaiting
      /\ UNCHANGED <<paperPrice, paperFresh>>
  BY DEF Paper!Decide
<1>2. /\ DOMAIN paperBook' = Paper!Books
      /\ paperBook'["realistic"] =
            IF Paper!Enters /\ ~limit
            THEN Paper!Entered(paperBook["realistic"],
                               IF paperPrice = Paper!NoPrice THEN Paper!Zone ELSE paperPrice)
            ELSE paperBook["realistic"]
      /\ paperBook'["idealized"] = Paper!Follows(paperBook["idealized"])
  BY DEF Paper!Decide, PaperInv, Paper!Books
<1>3. Trades(paperBook["realistic"], paperBook'["realistic"])
  <2>1. (IF paperPrice = Paper!NoPrice THEN Paper!Zone ELSE paperPrice) \in Paper!Prices
    BY TheBooks DEF PaperInv
  <2> QED
    BY <1>1, <1>2, <2>1, Zenon DEF Trades
<1>4. Trades(paperBook["idealized"], paperBook'["idealized"])
  BY <1>2 DEF Trades, Paper!Follows, PaperInv
<1>5. paperWaiting'.on => Paper!Flat(paperBook'["realistic"])
  BY <1>1, <1>2 DEF Paper!Enters
<1>6. paperWaiting' \in [on : BOOLEAN, due : BOOLEAN, fallback : BOOLEAN]
  BY <1>1 DEF PaperInv
<1> QED
  BY <1>1, <1>2, <1>3, <1>4, <1>5, <1>6 DEF PaperMoves, PaperInv, Paper!Books

LEMMA AddMoves == ASSUME PaperInv, Paper!Add PROVE PaperMoves
<1>1. /\ ~Paper!Flat(paperBook["realistic"]) /\ paperPrice \in Paper!Prices
      /\ DOMAIN paperBook' = Paper!Books
      /\ \A b \in Paper!Books : paperBook'[b] = Paper!Added(paperBook[b], paperPrice)
      /\ UNCHANGED <<paperPrice, paperFresh, paperWaiting>>
  BY DEF Paper!Add, PaperInv
<1> QED
  BY <1>1 DEF PaperMoves, PaperInv, Trades

LEMMA CloseMoves == ASSUME PaperInv, Paper!Close PROVE PaperMoves
<1>1. /\ paperWaiting' = Paper!NotWaiting /\ UNCHANGED <<paperPrice, paperFresh>>
      /\ DOMAIN paperBook' = Paper!Books
      /\ \A b \in Paper!Books : paperBook'[b] =
            IF Paper!Flat(paperBook[b]) \/ (b = "realistic" /\ paperWaiting.on)
            THEN paperBook[b] ELSE Paper!Exited(paperBook[b], Paper!GainNow(paperBook[b]))
  BY DEF Paper!Close
<1>2. \A b \in Paper!Books : Paper!GainNow(paperBook[b]) \in Int
  BY GainIsInt DEF Paper!GainNow, PaperInv, Balanced
<1>3. \A b \in Paper!Books : Trades(paperBook[b], paperBook'[b])
  BY <1>1, <1>2, Zenon DEF Trades
<1> QED
  BY <1>1, <1>3, NothingWaits DEF PaperMoves, PaperInv

LEMMA ReduceMoves == ASSUME PaperInv, Paper!Reduce PROVE PaperMoves
<1>1. /\ paperPrice \in Paper!Prices
      /\ paperWaiting' = Paper!NotWaiting /\ UNCHANGED <<paperPrice, paperFresh>>
      /\ DOMAIN paperBook' = Paper!Books
      /\ \A b \in Paper!Books : paperBook'[b] =
            IF b = "realistic" /\ paperWaiting.on THEN paperBook[b]
            ELSE Paper!Reduced(paperBook[b], paperPrice)
  BY DEF Paper!Reduce, PaperInv
<1>2. \A b \in Paper!Books : Trades(paperBook[b], paperBook'[b])
  BY <1>1 DEF Trades
<1> QED
  BY <1>1, <1>2, NothingWaits DEF PaperMoves, PaperInv

LEMMA ScanMoves == ASSUME PaperInv, Paper!Scan PROVE PaperMoves
<1>1. /\ paperWaiting.on /\ paperWaiting' = Paper!NotWaiting
      /\ UNCHANGED <<paperPrice, paperFresh>>
      /\ Paper!Flat(paperBook["realistic"])
  BY DEF Paper!Scan, Paper!AfterScan, PaperInv
<1>2. CASE paperWaiting.fallback /\ paperFresh
  <2>1. /\ DOMAIN paperBook' = Paper!Books /\ paperPrice \in Paper!Prices
        /\ paperBook'["realistic"] = Paper!Entered(paperBook["realistic"], paperPrice)
        /\ \A b \in Paper!Books : b # "realistic" => paperBook'[b] = paperBook[b]
    BY <1>2, TheBooks DEF Paper!Scan, PaperInv
  <2>2. \A b \in Paper!Books : Trades(paperBook[b], paperBook'[b])
    BY <1>1, <2>1 DEF Trades
  <2> QED
    BY <1>1, <2>1, <2>2, NothingWaits DEF PaperMoves, PaperInv
<1>3. CASE ~(paperWaiting.fallback /\ paperFresh)
  <2>1. paperBook' = paperBook
    BY <1>3 DEF Paper!Scan
  <2> QED
    BY <1>1, <2>1, NothingWaits DEF PaperMoves, PaperInv, Trades
<1> QED
  BY <1>2, <1>3

LEMMA PaperStep == PaperInv /\ [Paper!Next]_(Paper!vars) => PaperInv'
<1> SUFFICES ASSUME PaperInv, [Paper!Next]_(Paper!vars) PROVE PaperMoves
  BY MovesBalance
<1>1. ASSUME paperBook' = paperBook, UNCHANGED <<paperPrice, paperFresh>>,
             paperWaiting' \in [on : BOOLEAN, due : BOOLEAN, fallback : BOOLEAN],
             paperWaiting'.on => paperWaiting.on
      PROVE  PaperMoves
  BY <1>1 DEF PaperMoves, PaperInv, Trades
<1>2. ASSUME Paper!Deadline PROVE PaperMoves
  <2>1. /\ paperWaiting' \in [on : BOOLEAN, due : BOOLEAN, fallback : BOOLEAN]
        /\ paperWaiting'.on = paperWaiting.on
    BY <1>2 DEF Paper!Deadline, PaperInv
  <2> QED
    BY <1>1, <1>2, <2>1 DEF Paper!Deadline
<1>3. ASSUME Paper!GoesStale PROVE PaperMoves
  BY <1>3 DEF Paper!GoesStale, PaperMoves, PaperInv, Trades
<1>4. ASSUME NEW c, Paper!Command(c) PROVE PaperMoves
  BY <1>1, <1>4 DEF Paper!Command, PaperInv
<1>5. ASSUME Paper!Restart PROVE PaperMoves
  BY <1>5, NothingWaits DEF Paper!Restart, PaperMoves, PaperInv, Trades
<1>6. ASSUME UNCHANGED Paper!vars PROVE PaperMoves
  BY <1>1, <1>6 DEF Paper!vars, PaperInv
<1> QED
  BY <1>2, <1>3, <1>4, <1>5, <1>6, TickMoves, DecideMoves, AddMoves, CloseMoves,
     ReduceMoves, ScanMoves DEF Paper!Next

\* The money of a paper book is accounted for, whatever it trades: its equity
\* is what it began with, what its closed trades left, and the fees its open
\* position still owes (paper_executor.py: the fee of an entry leaves the
\* equity at once, and enters the record of the trade at the close).
THEOREM EquityAccounted == Paper!Spec => []BooksBalance
<1>1. PaperInv => BooksBalance
  BY DEF PaperInv, Balanced, BooksBalance, Paper!BooksBalance
<1> QED
  BY <1>1, PaperInit, PaperStep, PTL DEF Paper!Spec

-----------------------------------------------------------------------------
(* The inbox of an agent.                                                     *)

\* What waits is no older than the last message taken of its priority, and
\* numbers are given in order.
BusInv ==
    /\ busSeq \in Nat
    /\ busInbox \subseteq [priority : Bus!Priorities, seq : Nat]
    /\ busTaken \in [Bus!Priorities -> Nat]
    /\ \A p \in Bus!Priorities : busTaken[p] <= busSeq
    /\ \A m \in busInbox : m.seq <= busSeq /\ busTaken[m.priority] <= m.seq
    /\ UrgencyRespected

LEMMA FourPriorities == Bus!Priorities = 0..3
BY DEF Bus!Priorities, Bus!Critical, Bus!Low

LEMMA PublishKeeps ==
    ASSUME BusInv, NEW p \in Bus!Priorities, Bus!Publish(p)
    PROVE  BusInv'
<1>1. /\ busSeq' = busSeq + 1 /\ UNCHANGED <<busTaken, busSkipped>>
      /\ busSeq \in Nat /\ busTaken \in [Bus!Priorities -> Nat]
  BY DEF Bus!Publish, BusInv
<1>2. \A m \in busInbox' : m \in busInbox \/ m = [priority |-> p, seq |-> busSeq + 1]
  BY DEF Bus!Publish
<1>3. busInbox' \subseteq [priority : Bus!Priorities, seq : Nat]
  BY <1>1, <1>2 DEF BusInv
<1>4. ASSUME NEW m \in busInbox'
      PROVE  m.seq <= busSeq' /\ busTaken'[m.priority] <= m.seq
  <2>1. CASE m \in busInbox
    <3>1. m.seq \in Nat /\ m.seq <= busSeq /\ busTaken[m.priority] <= m.seq
      BY <2>1 DEF BusInv
    <3> QED
      BY <1>1, <3>1
  <2>2. CASE m = [priority |-> p, seq |-> busSeq + 1]
    <3>1. m.priority = p /\ m.seq = busSeq + 1 /\ busTaken[p] \in Nat /\ busTaken[p] <= busSeq
      BY <1>1, <2>2 DEF BusInv
    <3> QED
      BY <1>1, <3>1
  <2> QED
    BY <1>2, <2>1, <2>2
<1>5. \A q \in Bus!Priorities : busTaken'[q] <= busSeq'
  <2>1. \A q \in Bus!Priorities : busTaken[q] \in Nat /\ busTaken[q] <= busSeq
    BY <1>1 DEF BusInv
  <2> QED
    BY <1>1, <2>1
<1>6. UrgencyRespected'
  <2>1. p \in {0, 1} => ~Bus!Dropped(p)
    BY DEF Bus!Dropped, Bus!Normal, Bus!Low
  <2>2. busLost' \subseteq busLost \cup ({p} \ {0, 1})
    BY <2>1 DEF Bus!Publish
  <2> QED
    BY <1>1, <2>2 DEF BusInv, UrgencyRespected, Bus!UrgencyRespected, Bus!Ordered,
       Bus!UrgentKept, Bus!Critical, Bus!High
<1> QED
  BY <1>1, <1>3, <1>4, <1>5, <1>6 DEF BusInv

LEMMA ReceiveKeeps ==
    ASSUME BusInv, NEW m \in busInbox, Bus!Receive(m)
    PROVE  BusInv'
<1>1. /\ m.priority \in Bus!Priorities /\ m.seq \in Nat /\ m.seq <= busSeq
      /\ busTaken[m.priority] \in Nat /\ busTaken[m.priority] <= m.seq
      /\ busSeq' = busSeq /\ busSeq \in Nat /\ busLost' = busLost
      /\ busInbox' \subseteq busInbox
      /\ busTaken \in [Bus!Priorities -> Nat]
      /\ busTaken' = [busTaken EXCEPT ![m.priority] = m.seq]
  BY DEF Bus!Receive, BusInv
<1>2. ASSUME NEW n \in busInbox' PROVE n.seq <= busSeq /\ busTaken'[n.priority] <= n.seq
  <2>1. /\ n.priority \in Bus!Priorities /\ n.seq <= busSeq /\ n.seq \in Nat
        /\ busTaken[n.priority] <= n.seq
    BY <1>1, <1>2 DEF BusInv
  <2>2. n.priority = m.priority => m.seq <= n.seq
    BY <1>1, <1>2, <2>1, FourPriorities DEF Bus!Receive, Bus!First
  <2> QED
    BY <1>1, <2>1, <2>2
<1>3. /\ busTaken' \in [Bus!Priorities -> Nat]
      /\ \A q \in Bus!Priorities : busTaken'[q] <= busSeq
  BY <1>1 DEF BusInv
<1>4. UrgencyRespected'
  <2>1. ~(busTaken[m.priority] > m.seq)
    BY <1>1
  <2>2. ~busSkipped'
    BY <2>1 DEF BusInv, UrgencyRespected, Bus!UrgencyRespected, Bus!Ordered, Bus!Receive
  <2> QED
    BY <1>1, <2>2 DEF BusInv, UrgencyRespected, Bus!UrgencyRespected, Bus!Ordered,
       Bus!UrgentKept
<1> QED
  BY <1>1, <1>2, <1>3, <1>4 DEF BusInv

LEMMA BusInit == Bus!Init => BusInv
BY FourPriorities DEF Bus!Init, BusInv, UrgencyRespected, Bus!UrgencyRespected,
   Bus!Ordered, Bus!UrgentKept

LEMMA BusStep == BusInv /\ [Bus!Next]_(Bus!vars) => BusInv'
<1> SUFFICES ASSUME BusInv, [Bus!Next]_(Bus!vars) PROVE BusInv'
  OBVIOUS
<1>1. ASSUME UNCHANGED <<busInbox, busSeq, busTaken, busSkipped, busLost>> PROVE BusInv'
  BY <1>1 DEF BusInv, UrgencyRespected, Bus!UrgencyRespected, Bus!Ordered, Bus!UrgentKept
<1>2. CASE Bus!Handled \/ Bus!Dies \/ Bus!Health \/ UNCHANGED Bus!vars
  BY <1>1, <1>2 DEF Bus!Handled, Bus!Dies, Bus!Health, Bus!vars
<1> QED
  BY <1>2, PublishKeeps, ReceiveKeeps DEF Bus!Next

\* Whatever the limits of an inbox, of two messages that wait the more urgent,
\* then the older, is handled first, and back-pressure drops none of the two
\* urgent priorities (message_bus.py: publish and receive of the inbox).
THEOREM UrgencyAlwaysRespected == Bus!Spec => []UrgencyRespected
<1>1. BusInv => UrgencyRespected
  BY DEF BusInv
<1> QED
  BY <1>1, BusInit, BusStep, PTL DEF Bus!Spec

-----------------------------------------------------------------------------
(* The ledger file.  The invariant describes every content a loss of power    *)
(* may leave, and how far the file is in every phase of an append.            *)

Events == 1..MaxAppends
Answers == {"none", "asked", "acked", "failed", "doubt", "lost"}
FileRow == [event : Events, seq : Nat, end : {"whole", "bare", "torn"}]

\* Rows in their places, each event once, and only the last without its
\* newline.
Consecutive(f) ==
    /\ f \in Seq(FileRow)
    /\ \A n \in 1..Len(f) : f[n].seq = n /\ (n < Len(f) => f[n].end = "whole")
    /\ \A m, n \in 1..Len(f) : f[m].event = f[n].event => m = n

Has(f, e) == \E n \in 1..Len(f) : f[n].event = e
HasValid(f, e) == \E n \in 1..Len(f) : f[n].event = e /\ f[n].end # "torn"
Ended(f) == Len(f) > 0 => f[Len(f)].end = "whole"

\* A content agrees with what the callers were told.
Truthful(f, answers) ==
    /\ Consecutive(f)
    /\ \A e \in Events :
         /\ answers[e] = "acked" => HasValid(f, e)
         /\ answers[e] \in {"none", "failed"} => ~Has(f, e)

\* The file without the row under way, and with it at its end.
Before(f, r) == Ended(f) /\ Len(f) + 1 = r.seq /\ ~Has(f, r.event)
With(f, r) == Len(f) = r.seq /\ Len(f) > 0 /\ f[Len(f)].event = r.event

PhaseInv ==
    /\ storePhase \in {"locked", "marked", "fenced", "undone", "withdrawn"} =>
         Before(storeFile, storeRow)
    /\ storePhase \in {"written", "synced", "committed"} =>
         With(storeFile, storeRow) /\ Ended(storeFile)
    /\ storePhase = "undo" => Before(storeFile, storeRow) \/ With(storeFile, storeRow)
    /\ storePhase = "locked" => \A f \in storeMayFind : ~Has(f, storeRow.event)
    /\ storePhase \in {"marked", "fenced", "synced", "committed", "withdrawn"} =>
         storeMayFind = {storeFile}
    /\ storePhase = "marked" => storeMarker = TRUE
    /\ storePhase \in {"committed", "withdrawn"} => storeMarker = FALSE
    /\ storePhase \in {"fenced", "written", "synced", "undo", "undone"} =>
         storeMayMark = {TRUE}

\* A file that a loss of power could still change has its marker for good.
FenceInv == storeMayMark = {TRUE} \/ (storeMayFind = {storeFile} /\ Ended(storeFile))

\* Appends are begun in order, and the one under way is asked.
AskedInv ==
    /\ storeTold \in [Events -> Answers]
    /\ \E k \in 0..MaxAppends : \A e \in Events : storeTold[e] # "none" <=> e <= k
    /\ storeHolder = NoStore <=> storePhase = "idle"
    /\ storePhase # "idle" =>
         /\ storeRow \in FileRow /\ storeRow.end = "whole"
         /\ storeTold[storeRow.event] = "asked"

StoreInv ==
    /\ storeFile \in storeMayFind
    /\ storeMayMark \subseteq BOOLEAN
    /\ \A f \in storeMayFind : Truthful(f, storeTold)
    /\ PhaseInv /\ FenceInv /\ AskedInv

\* The rows of a content.
LEMMA RowsOfContent ==
    ASSUME NEW f, Consecutive(f)
    PROVE  /\ f \in Seq(FileRow) /\ Len(f) \in Nat /\ DOMAIN f = 1..Len(f)
           /\ f = <<>> <=> Len(f) = 0
           /\ Len(f) > 0 => Len(f) \in 1..Len(f)
           /\ \A n \in 1..Len(f) :
                /\ f[n] \in FileRow /\ f[n].event \in Events /\ f[n].seq = n
                /\ f[n].end \in {"whole", "bare", "torn"}
                /\ n # Len(f) => f[n].end = "whole"
<1>1. f \in Seq(FileRow)
  BY DEF Consecutive
<1>2. Len(f) \in Nat /\ DOMAIN f = 1..Len(f) /\ f \in [1..Len(f) -> FileRow]
  BY <1>1, LenProperties
<1>n. Len(f) \in Nat
  BY <1>2
<1>3. f = <<>> <=> Len(f) = 0
  BY <1>1, <1>2, EmptySeq
<1>4. Len(f) > 0 => Len(f) \in 1..Len(f)
  BY <1>2
<1>5. ASSUME NEW n \in 1..Len(f)
      PROVE  /\ f[n] \in FileRow /\ f[n].event \in Events /\ f[n].seq = n
             /\ f[n].end \in {"whole", "bare", "torn"}
             /\ n # Len(f) => f[n].end = "whole"
  <2>1. f[n] \in FileRow
    BY <1>2
  <2>2. n # Len(f) => n < Len(f)
    BY <1>n
  <2>3. f[n].seq = n /\ (n < Len(f) => f[n].end = "whole")
    BY DEF Consecutive
  <2>4. f[n].event \in Events /\ f[n].end \in {"whole", "bare", "torn"}
    BY <2>1 DEF FileRow
  <2> QED
    BY <2>1, <2>2, <2>3, <2>4
<1> QED
  BY <1>1, <1>2, <1>3, <1>4, <1>5

LEMMA RowEnding ==
    ASSUME NEW r \in FileRow, NEW e \in {"torn", "bare", "whole"}, NEW x,
           x = [r EXCEPT !.end = e]
    PROVE  x \in FileRow /\ x.event = r.event /\ x.seq = r.seq /\ x.end = e
BY DEF FileRow

\* What a reader makes of a content: it is never malformed, and its valid rows
\* are those that are not torn.
LEMMA ReadContent ==
    ASSUME NEW f, Consecutive(f)
    PROVE  /\ ~Store!Malformed(f)
           /\ \A n \in 1..Len(f) : Store!Valid(f, n) <=> f[n].end # "torn"
           /\ Store!Terminated(f) <=> Ended(f)
           /\ Store!PartialTail(f) <=> Len(f) > 0 /\ f[Len(f)].end = "torn"
<1>1. \A n \in 1..Len(f) : Store!Valid(f, n) <=> f[n].end # "torn"
  BY RowsOfContent DEF Store!Valid
<1>2. Store!Terminated(f) <=> Ended(f)
  BY RowsOfContent DEF Store!Terminated, Ended
<1>3. Store!PartialTail(f) <=> Len(f) > 0 /\ f[Len(f)].end = "torn"
  BY <1>1, <1>2, RowsOfContent DEF Store!PartialTail, Ended
<1>4. ~Store!Malformed(f)
  BY <1>1, <1>3, RowsOfContent DEF Store!Malformed
<1> QED
  BY <1>1, <1>2, <1>3, <1>4

\* Without its last row, whose append nobody was told has succeeded, a content
\* is as truthful.
LEMMA CutTruthful ==
    ASSUME NEW f, NEW answers, Truthful(f, answers), Len(f) > 0,
           answers[f[Len(f)].event] # "acked"
    PROVE  LET g == SubSeq(f, 1, Len(f) - 1) IN
             /\ Truthful(g, answers) /\ Ended(g) /\ Len(g) = Len(f) - 1
             /\ ~Has(g, f[Len(f)].event)
             /\ \A e \in Events : Has(g, e) => Has(f, e)
<1> DEFINE g == SubSeq(f, 1, Len(f) - 1)
           last == Len(f)
<1>0. last \in Nat
  BY RowsOfContent DEF Truthful
<1>1. /\ f \in Seq(FileRow) /\ last \in Nat /\ last \in 1..last /\ Consecutive(f)
      /\ \A n \in 1..last : /\ f[n] \in FileRow /\ f[n].seq = n
                            /\ n # last => f[n].end = "whole"
  BY RowsOfContent DEF Truthful
<1>2. /\ last - 1 \in Nat /\ \A n \in 1..(last - 1) : n \in 1..last /\ n # last
      /\ \A n \in 1..last : n # last => n \in 1..(last - 1)
  BY <1>1
<1>3. /\ g \in Seq(FileRow)
      /\ Len(g) = last - 1
      /\ \A n \in 1..(last - 1) : g[n] = f[n]
  <2>1. \A n \in 1..(last - 1) : f[n] \in FileRow
    BY <1>1, <1>2
  <2>2. /\ g \in Seq(FileRow)
        /\ Len(g) = (IF 1 <= last - 1 THEN last - 1 - 1 + 1 ELSE 0)
        /\ \A n \in 1..(last - 1 - 1 + 1) : g[n] = f[1 + n - 1]
    BY <1>2, <2>1, SubSeqProperties
  <2>3. Len(g) = last - 1
    <3>1. last \in Nat /\ last # 0
      BY <1>0
    <3>2. ASSUME NEW k \in Nat, k # 0
          PROVE  (IF 1 <= k - 1 THEN k - 1 - 1 + 1 ELSE 0) = k - 1
      BY <3>2
    <3> QED
      BY <2>2, <3>1, <3>2
  <2>4. ASSUME NEW n \in 1..(last - 1) PROVE g[n] = f[n]
    <3>1. n \in 1..(last - 1 - 1 + 1) /\ 1 + n - 1 = n
      BY <1>2
    <3> QED
      BY <2>2, <3>1
  <2> QED
    BY <2>2, <2>3, <2>4
<1> HIDE DEF g, last
<1>4. Consecutive(g)
  <2>1. ASSUME NEW n \in 1..Len(g) PROVE g[n].seq = n /\ g[n].end = "whole"
    BY <1>1, <1>2, <1>3
  <2>2. ASSUME NEW m \in 1..Len(g), NEW n \in 1..Len(g), g[m].event = g[n].event
        PROVE  m = n
    <3>1. /\ m \in 1..last /\ n \in 1..last /\ f[m].event = f[n].event
      BY <1>2, <1>3, <2>2
    <3> QED
      BY <1>1, <3>1 DEF Consecutive, last
  <2> QED
    BY <1>3, <2>1, <2>2 DEF Consecutive
<1>5. Ended(g)
  <2>1. ASSUME Len(g) > 0 PROVE g[Len(g)].end = "whole"
    <3>1. Len(g) \in 1..(last - 1)
      BY <1>2, <1>3, <2>1
    <3> QED
      BY <1>1, <1>2, <1>3, <3>1
  <2> QED
    BY <2>1 DEF Ended
<1>6. ~Has(g, f[last].event)
  BY <1>1, <1>2, <1>3 DEF Has, Consecutive, last
<1>7. \A e \in Events : Has(g, e) => Has(f, e)
  BY <1>1, <1>2, <1>3 DEF Has, last
<1>8. ASSUME NEW e \in Events, answers[e] = "acked" PROVE HasValid(g, e)
  <2>1. PICK n \in 1..last : f[n].event = e /\ f[n].end # "torn"
    BY <1>8 DEF Truthful, HasValid, last
  <2>2. n # last
    BY <1>8, <2>1 DEF last
  <2> QED
    BY <1>2, <1>3, <2>1, <2>2 DEF HasValid
<1>9. Truthful(g, answers)
  BY <1>4, <1>7, <1>8 DEF Truthful
<1> QED
  BY <1>3, <1>5, <1>6, <1>7, <1>9 DEF g, last

\* Mending takes no answered row away and leaves a file that is ended.
LEMMA MendedTruthful ==
    ASSUME NEW f, NEW answers, Truthful(f, answers)
    PROVE  LET g == Store!Mended(f) IN
             /\ Truthful(g, answers) /\ Ended(g)
             /\ \A e \in Events : Has(g, e) => Has(f, e)
             /\ Ended(f) => g = f
<1> DEFINE g == Store!Mended(f)
           last == Len(f)
<1>1. /\ Consecutive(f) /\ last \in Nat
      /\ \A n \in 1..last : f[n] \in FileRow /\ f[n].end \in {"whole", "bare", "torn"}
      /\ last > 0 => last \in 1..last
      /\ Store!Terminated(f) <=> Ended(f)
      /\ Store!PartialTail(f) <=> last > 0 /\ f[last].end = "torn"
  BY RowsOfContent, ReadContent DEF Truthful
<1>2. CASE Ended(f)
  <2>1. g = f
    BY <1>1, <1>2 DEF Store!Mended, Ended
  <2> QED
    BY <1>2, <2>1
<1>3. CASE ~Ended(f) /\ f[last].end = "torn"
  <2>1. last > 0 /\ g = SubSeq(f, 1, last - 1)
    BY <1>1, <1>3 DEF Store!Mended, Ended
  <2>2. answers[f[last].event] # "acked"
    <3>1. SUFFICES ASSUME answers[f[last].event] = "acked" PROVE FALSE
      OBVIOUS
    <3>2. f[last].event \in Events
      BY <1>1, <2>1, RowsOfContent
    <3>3. PICK n \in 1..last : f[n].event = f[last].event /\ f[n].end # "torn"
      BY <3>1, <3>2 DEF Truthful, HasValid
    <3>4. n = last
      BY <1>1, <2>1, <3>3 DEF Consecutive
    <3> QED
      BY <1>3, <3>3, <3>4
  <2> QED
    BY <1>3, <2>1, <2>2, CutTruthful
<1>4. CASE ~Ended(f) /\ f[last].end # "torn"
  <2>1. /\ last \in 1..last /\ last > 0
        /\ g = [f EXCEPT ![last] = [f[last] EXCEPT !.end = "whole"]]
    BY <1>1, <1>4 DEF Store!Mended, Ended
  <2>2. PICK r \in FileRow : /\ r = [f[last] EXCEPT !.end = "whole"]
                             /\ r.event = f[last].event /\ r.seq = f[last].seq
                             /\ r.end = "whole"
    <3>1. f[last] \in FileRow
      BY <1>1, <2>1
    <3>2. PICK x : x = [f[last] EXCEPT !.end = "whole"]
      OBVIOUS
    <3> QED
      BY <3>1, <3>2, RowEnding
  <2>3. /\ g \in Seq(FileRow) /\ Len(g) = last
        /\ \A n \in 1..last : g[n] = IF n = last THEN r ELSE f[n]
    <3>1. f \in Seq(FileRow)
      BY <1>1 DEF Consecutive
    <3> QED
      BY <2>1, <2>2, <3>1, ExceptSeq
  <2>4. ASSUME NEW n \in 1..last
        PROVE  /\ g[n].event = f[n].event /\ g[n].seq = f[n].seq /\ g[n].end # "torn"
               /\ f[n].end = "whole" => g[n].end = "whole"
    <3>1. CASE n = last
      BY <2>2, <2>3, <3>1
    <3>2. CASE n # last
      BY <1>1, <2>3, <3>2, RowsOfContent
    <3> QED
      BY <3>1, <3>2
  <2>5. Consecutive(g)
    BY <1>1, <2>3, <2>4 DEF Consecutive
  <2>6. Ended(g)
    BY <2>1, <2>2, <2>3 DEF Ended
  <2>7. \A e \in Events : Has(g, e) => Has(f, e)
    BY <2>3, <2>4 DEF Has
  <2>8. \A e \in Events : HasValid(f, e) => HasValid(g, e)
    BY <2>3, <2>4 DEF HasValid
  <2>9. Truthful(g, answers)
    BY <2>5, <2>7, <2>8 DEF Truthful
  <2> QED
    BY <1>4, <2>6, <2>7, <2>9
<1> QED
  BY <1>2, <1>3, <1>4

\* What a write of the next row may have reached.
LEMMA WrittenTruthful ==
    ASSUME NEW f, NEW answers, Truthful(f, answers), NEW r \in FileRow,
           Before(f, r), answers[r.event] = "asked", NEW g \in Store!WrittenInPart(f, r)
    PROVE  Truthful(g, answers) /\ With(g, r)
<1>1. PICK e \in {"torn", "bare", "whole"} : g = Store!Written(f, [r EXCEPT !.end = e])
  BY DEF Store!WrittenInPart
<1>2. PICK x \in FileRow : /\ x = [r EXCEPT !.end = e]
                           /\ x.event = r.event /\ x.seq = r.seq
  <2>1. PICK x : x = [r EXCEPT !.end = e]
    OBVIOUS
  <2> QED
    BY <2>1, RowEnding
<1>3. /\ Consecutive(f) /\ f \in Seq(FileRow) /\ Len(f) \in Nat /\ Len(f) + 1 = r.seq
      /\ Ended(f) /\ ~Has(f, r.event)
      /\ \A n \in 1..Len(f) : f[n].seq = n /\ f[n].end = "whole"
  BY RowsOfContent DEF Truthful, Before, Ended
<1>4. g = Append(f, x)
  BY <1>1, <1>2, <1>3, ReadContent DEF Store!Written
<1>5. /\ g \in Seq(FileRow) /\ Len(g) = Len(f) + 1
      /\ \A n \in 1..Len(f) : g[n] = f[n]
      /\ g[Len(f) + 1] = x
  BY <1>3, <1>4, AppendProperties
<1>l. Len(f) \in Nat /\ Len(g) = Len(f) + 1
  BY <1>3, <1>5
<1>6. \A n \in 1..Len(g) : n \in 1..Len(f) \/ n = Len(f) + 1
  BY <1>l
<1>7. Consecutive(g)
  <2>1. ASSUME NEW n \in 1..Len(g)
        PROVE  g[n].seq = n /\ (n < Len(g) => g[n].end = "whole")
    <3>1. CASE n \in 1..Len(f)
      <4>1. g[n] = f[n] /\ f[n].seq = n /\ f[n].end = "whole"
        BY <1>3, <1>5, <3>1
      <4> QED
        BY <4>1
    <3>2. CASE n = Len(f) + 1
      <4>1. g[n] = x
        BY <1>5, <3>2
      <4>2. x.seq = n
        BY <1>2, <1>3, <3>2
      <4>3. ~(n < Len(g))
        BY <1>l, <3>2
      <4> QED
        BY <4>1, <4>2, <4>3
    <3> QED
      BY <1>6, <3>1, <3>2
  <2>2. ASSUME NEW m \in 1..Len(g), NEW n \in 1..Len(g), g[m].event = g[n].event
        PROVE  m = n
    <3>1. CASE m \in 1..Len(f) /\ n \in 1..Len(f)
      <4>1. g[m] = f[m] /\ g[n] = f[n]
        BY <1>5, <3>1
      <4> QED
        BY <1>3, <2>2, <3>1, <4>1 DEF Consecutive
    <3>2. \A k \in 1..Len(f) : g[k].event # g[Len(f) + 1].event
      BY <1>2, <1>3, <1>5 DEF Has
    <3> QED
      BY <1>6, <2>2, <3>1, <3>2
  <2> QED
    BY <1>5, <2>1, <2>2 DEF Consecutive
<1>8. With(g, r)
  BY <1>2, <1>3, <1>5 DEF With
<1>9. ASSUME NEW ev \in Events
      PROVE  /\ HasValid(f, ev) => HasValid(g, ev)
             /\ ev # r.event => (Has(g, ev) => Has(f, ev))
  <2>1. 1..Len(f) \subseteq 1..Len(g)
    BY <1>3, <1>5
  <2>2. HasValid(f, ev) => HasValid(g, ev)
    BY <1>5, <2>1 DEF HasValid
  <2>3. ev # r.event => (Has(g, ev) => Has(f, ev))
    BY <1>2, <1>5, <1>6 DEF Has
  <2> QED
    BY <2>2, <2>3
<1>10. Truthful(g, answers)
  <2>1. ASSUME NEW ev \in Events
        PROVE  /\ answers[ev] = "acked" => HasValid(g, ev)
               /\ answers[ev] \in {"none", "failed"} => ~Has(g, ev)
    BY <1>9 DEF Truthful
  <2> QED
    BY <1>7, <2>1 DEF Truthful
<1> QED
  BY <1>8, <1>10

\* An answer may be given when every content bears it out.
LEMMA AnswerTruthful ==
    ASSUME NEW f, NEW answers \in [Events -> Answers], Truthful(f, answers),
           NEW e \in Events, NEW t \in Answers,
           answers[e] = "none" \/ answers[e] = "asked",
           t = "acked" => HasValid(f, e), t \in {"none", "failed"} => ~Has(f, e)
    PROVE  Truthful(f, [answers EXCEPT ![e] = t])
<1> DEFINE b == [answers EXCEPT ![e] = t]
<1>1. ASSUME NEW d \in Events
      PROVE  /\ b[d] = "acked" => HasValid(f, d)
             /\ b[d] \in {"none", "failed"} => ~Has(f, d)
  <2>1. CASE d = e
    BY <2>1
  <2>2. CASE d # e
    BY <2>2 DEF Truthful
  <2> QED
    BY <2>1, <2>2
<1> QED
  BY <1>1 DEF Truthful

LEMMA OneCardinality == \A S : Store!Cardinality(S) = Cardinality(S)
BY DEF Store!Cardinality, Cardinality

\* The next append is one that nobody has begun.
LEMMA NextAppend ==
    ASSUME AskedInv, Cardinality(Store!Begun) + 1 \in Events
    PROVE  /\ storeTold[Cardinality(Store!Begun) + 1] = "none"
           /\ \A b : b = [storeTold EXCEPT ![Cardinality(Store!Begun) + 1] = "asked"] =>
                \E k \in 0..MaxAppends : \A e \in Events : b[e] # "none" <=> e <= k
<1>1. PICK k \in 0..MaxAppends : \A e \in Events : storeTold[e] # "none" <=> e <= k
  BY DEF AskedInv
<1>2. k \in Nat /\ k <= MaxAppends /\ MaxAppends \in Nat
  BY StoreBounds
<1>3. Store!Begun = 1..k
  BY <1>1, <1>2 DEF Store!Begun, Events
<1>4. Cardinality(Store!Begun) = k
  <2>1. Cardinality(1..k) = IF 1 > k THEN 0 ELSE k - 1 + 1
    BY <1>2, FS_Interval
  <2>2. (IF 1 > k THEN 0 ELSE k - 1 + 1) = k
    BY <1>2
  <2> QED
    BY <1>3, <2>1, <2>2
<1>5. k + 1 \in Events /\ k + 1 \in 0..MaxAppends
  BY <1>2, <1>4 DEF Events
<1>6. storeTold[k + 1] = "none"
  BY <1>1, <1>2, <1>5
<1>7. ASSUME NEW b, b = [storeTold EXCEPT ![k + 1] = "asked"]
      PROVE  \A e \in Events : b[e] # "none" <=> e <= k + 1
  <2>1. ASSUME NEW e \in Events PROVE b[e] # "none" <=> e <= k + 1
    <3>1. CASE e = k + 1
      BY <1>2, <1>5, <1>7, <3>1 DEF AskedInv
    <3>2. CASE e # k + 1
      <4>1. b[e] = storeTold[e] /\ e \in Nat
        BY <1>7, <3>2 DEF AskedInv, Events
      <4>2. e <= k <=> e <= k + 1
        BY <1>2, <3>2, <4>1
      <4> QED
        BY <1>1, <4>1, <4>2
    <3> QED
      BY <3>1, <3>2
  <2> QED
    BY <2>1
<1> QED
  BY <1>4, <1>5, <1>6, <1>7

-----------------------------------------------------------------------------
(* The steps of an append.                                                    *)

LEMMA LockKeeps ==
    ASSUME StoreInv, NEW s \in Stores, Store!Lock(s)
    PROVE  StoreInv'
<1> DEFINE g == Store!Mended(storeFile)
           e == Cardinality(Store!Begun) + 1
<1>1. /\ storePhase = "idle" /\ storePhase' = "locked" /\ storeHolder' = s
      /\ s # NoStore
      /\ e \in Events
      /\ storeRow' = [event |-> e, seq |-> Len(g) + 1, end |-> "whole"]
      /\ storeTold' = [storeTold EXCEPT ![e] = "asked"]
      /\ storeFile' = g /\ storeMayFind' = storeMayFind \cup {g}
      /\ storeMayMark' = storeMayMark
  <2>1. storePhase = "idle" /\ s # NoStore
    BY StoreBounds DEF Store!Lock, StoreInv, AskedInv
  <2>2. PICK d \in Events :
            /\ d = e
            /\ storeRow' = [event |-> d, seq |-> Len(g) + 1, end |-> "whole"]
            /\ storeTold' = [storeTold EXCEPT ![d] = "asked"]
    BY OneCardinality DEF Store!Lock, Events
  <2>3. /\ storePhase' = "locked" /\ storeHolder' = s /\ storeMayMark' = storeMayMark
        /\ storeFile' = g /\ storeMayFind' = storeMayFind \cup {g}
    BY DEF Store!Lock, Store!Write
  <2> QED
    BY <2>1, <2>2, <2>3
<1>2. /\ Truthful(g, storeTold) /\ Ended(g)
      /\ \A d \in Events : Has(g, d) => Has(storeFile, d)
      /\ Ended(storeFile) => g = storeFile
  BY MendedTruthful DEF StoreInv
<1>3. /\ storeTold[e] = "none"
      /\ \E k \in 0..MaxAppends : \A d \in Events : storeTold'[d] # "none" <=> d <= k
  BY <1>1, NextAppend DEF StoreInv
<1> HIDE DEF g, e
<1>4. \A f \in storeMayFind' : Truthful(f, storeTold) /\ ~Has(f, e)
  BY <1>1, <1>2, <1>3 DEF StoreInv, Truthful
<1>5. \A f \in storeMayFind' : Truthful(f, storeTold')
  BY <1>1, <1>3, <1>4, AnswerTruthful DEF StoreInv, AskedInv, Answers
<1>6. Len(g) \in Nat
  BY <1>2, RowsOfContent DEF Truthful
<1>7. /\ storeRow' \in FileRow /\ storeRow'.end = "whole" /\ storeRow'.event = e
      /\ storeRow'.seq = Len(g) + 1
  BY <1>1, <1>6 DEF FileRow
<1>8. AskedInv'
  <2>1. storeTold' \in [Events -> Answers] /\ storeTold'[e] = "asked"
    BY <1>1 DEF StoreInv, AskedInv, Answers
  <2> QED
    BY <1>1, <1>3, <1>7, <2>1 DEF AskedInv
<1>9. PhaseInv'
  BY <1>1, <1>2, <1>4, <1>7 DEF PhaseInv, Before
<1>10. FenceInv'
  <2>1. CASE storeMayMark = {TRUE}
    BY <1>1, <2>1 DEF FenceInv
  <2>2. CASE storeMayFind = {storeFile} /\ Ended(storeFile)
    BY <1>1, <1>2, <2>2 DEF FenceInv
  <2> QED
    BY <2>1, <2>2 DEF StoreInv, FenceInv
<1> QED
  BY <1>1, <1>5, <1>8, <1>9, <1>10 DEF StoreInv

\* While the row, the answers and the holder stand and a phase follows.
LEMMA AskedStays ==
    ASSUME AskedInv, storePhase # "idle", storePhase' # "idle",
           UNCHANGED <<storeHolder, storeRow, storeTold>>
    PROVE  AskedInv'
BY DEF AskedInv

LEMMA MarkKeeps == ASSUME StoreInv, Store!Mark PROVE StoreInv'
<1>1. /\ storePhase = "locked" /\ storePhase' = "marked"
      /\ UNCHANGED <<storeHolder, storeRow, storeTold, storeFile>>
      /\ storeMayFind' = {storeFile} /\ storeMarker' = TRUE
      /\ storeMayMark' = storeMayMark \cup {TRUE}
  BY DEF Store!Mark, Store!FsyncLedger, Store!SetMarker, Store!Goes
<1>2. PhaseInv' /\ FenceInv'
  BY <1>1 DEF StoreInv, PhaseInv, FenceInv, Before
<1>3. AskedInv'
  BY <1>1, AskedStays DEF StoreInv
<1> QED
  BY <1>1, <1>2, <1>3 DEF StoreInv

LEMMA FenceKeeps == ASSUME StoreInv, Store!Fence PROVE StoreInv'
<1>1. /\ storePhase = "marked" /\ storePhase' = "fenced"
      /\ UNCHANGED <<storeHolder, storeRow, storeTold, storeFile, storeMayFind>>
      /\ storeMayMark' = {storeMarker} /\ storeMarker = TRUE
  BY DEF Store!Fence, Store!FsyncDirectory, Store!Goes, StoreInv, PhaseInv
<1>2. PhaseInv' /\ FenceInv'
  BY <1>1 DEF StoreInv, PhaseInv, FenceInv
<1>3. AskedInv'
  BY <1>1, AskedStays DEF StoreInv
<1> QED
  BY <1>1, <1>2, <1>3 DEF StoreInv

\* What a store may leave that writes its row, however far it comes.
LEMMA Writing ==
    ASSUME StoreInv, storePhase = "fenced", NEW g,
           g \in Store!WrittenInPart(storeFile, storeRow)
    PROVE  Truthful(g, storeTold) /\ With(g, storeRow)
<1>1. /\ Truthful(storeFile, storeTold) /\ storeRow \in FileRow
      /\ Before(storeFile, storeRow) /\ storeTold[storeRow.event] = "asked"
  BY DEF StoreInv, PhaseInv, AskedInv
<1> QED
  BY <1>1, WrittenTruthful

LEMMA WriteRowKeeps == ASSUME StoreInv, Store!WriteRow PROVE StoreInv'
<1>1. /\ storePhase = "fenced" /\ storePhase' = "written"
      /\ UNCHANGED <<storeHolder, storeRow, storeTold, storeMayMark>>
      /\ storeFile' = Store!Written(storeFile, storeRow)
      /\ storeMayFind' = storeMayFind \cup Store!WrittenInPart(storeFile, storeRow)
      /\ storeMayMark = {TRUE}
  BY DEF Store!WriteRow, Store!Goes, StoreInv, PhaseInv
<1>2. storeRow \in FileRow /\ storeRow.end = "whole"
  BY <1>1 DEF StoreInv, AskedInv
<1>3. storeFile' \in Store!WrittenInPart(storeFile, storeRow)
  <2>1. [storeRow EXCEPT !.end = "whole"] = storeRow
    BY <1>2 DEF FileRow
  <2> QED
    BY <1>1, <2>1 DEF Store!WrittenInPart
<1>4. Ended(storeFile')
  <2>1. Truthful(storeFile, storeTold) /\ Before(storeFile, storeRow)
    BY <1>1 DEF StoreInv, PhaseInv
  <2>2. storeFile' = Append(storeFile, storeRow) /\ storeFile \in Seq(FileRow)
    BY <1>1, <2>1, ReadContent DEF Store!Written, Before, Truthful, Consecutive
  <2> QED
    BY <1>2, <2>2, AppendProperties DEF Ended
<1>5. /\ \A f \in storeMayFind' : Truthful(f, storeTold)
      /\ With(storeFile', storeRow)
  BY <1>1, <1>3, Writing DEF StoreInv
<1>6. PhaseInv' /\ FenceInv'
  BY <1>1, <1>4, <1>5 DEF StoreInv, PhaseInv, FenceInv
<1>7. AskedInv'
  BY <1>1, AskedStays DEF StoreInv
<1> QED
  BY <1>1, <1>3, <1>5, <1>6, <1>7 DEF StoreInv

LEMMA SyncRowKeeps == ASSUME StoreInv, Store!SyncRow PROVE StoreInv'
<1>1. /\ storePhase = "written" /\ storePhase' = "synced"
      /\ UNCHANGED <<storeHolder, storeRow, storeTold, storeFile, storeMayMark>>
      /\ storeMayFind' = {storeFile} /\ storeMayMark = {TRUE}
  BY DEF Store!SyncRow, Store!FsyncLedger, Store!Goes, StoreInv, PhaseInv
<1>2. PhaseInv' /\ FenceInv'
  BY <1>1 DEF StoreInv, PhaseInv, FenceInv
<1>3. AskedInv'
  BY <1>1, AskedStays DEF StoreInv
<1> QED
  BY <1>1, <1>2, <1>3 DEF StoreInv

LEMMA WriteFailsKeeps == ASSUME StoreInv, Store!WriteFails PROVE StoreInv'
<1>1. /\ storePhase' = "undo"
      /\ UNCHANGED <<storeHolder, storeRow, storeTold, storeMayMark>>
      /\ storePhase \in {"fenced", "written"} /\ storeMayMark = {TRUE}
  BY DEF Store!WriteFails, Store!Goes, StoreInv, PhaseInv
<1>2. /\ storeFile' \in storeMayFind'
      /\ \A f \in storeMayFind' : Truthful(f, storeTold)
      /\ Before(storeFile', storeRow) \/ With(storeFile', storeRow)
  <2>1. CASE /\ storePhase = "fenced"
             /\ storeFile' \in Store!WrittenInPart(storeFile, storeRow) \cup {storeFile}
             /\ storeMayFind' = storeMayFind \cup Store!WrittenInPart(storeFile, storeRow)
    BY <2>1, Writing DEF StoreInv, PhaseInv
  <2>2. CASE storePhase = "written" /\ UNCHANGED <<storeFile, storeMayFind>>
    BY <2>2 DEF StoreInv, PhaseInv
  <2> QED
    BY <2>1, <2>2 DEF Store!WriteFails
<1>3. PhaseInv' /\ FenceInv'
  BY <1>1, <1>2 DEF StoreInv, PhaseInv, FenceInv
<1>4. AskedInv'
  BY <1>1, AskedStays DEF StoreInv
<1> QED
  BY <1>1, <1>2, <1>3, <1>4 DEF StoreInv

\* Whatever of the row reached the file, the rollback leaves the file that
\* was mended.
LEMMA UndoKeeps == ASSUME StoreInv, Store!Undo PROVE StoreInv'
<1> DEFINE g == SubSeq(storeFile, 1, storeRow.seq - 1)
<1>1. /\ storePhase = "undo" /\ storePhase' = "undone"
      /\ UNCHANGED <<storeHolder, storeRow, storeTold, storeMayMark>>
      /\ storeFile' = g /\ storeMayFind' = storeMayFind \cup {g}
      /\ storeMayMark = {TRUE}
  BY DEF Store!Undo, Store!Write, Store!Goes, StoreInv, PhaseInv
<1>2. /\ Truthful(storeFile, storeTold) /\ storeRow \in FileRow
      /\ storeFile \in Seq(FileRow) /\ Len(storeFile) \in Nat
      /\ storeTold[storeRow.event] = "asked"
      /\ Before(storeFile, storeRow) \/ With(storeFile, storeRow)
  BY <1>1, RowsOfContent DEF StoreInv, PhaseInv, AskedInv, Truthful
<1>3. Truthful(g, storeTold) /\ Before(g, storeRow)
  <2>1. CASE Before(storeFile, storeRow)
    <3>1. storeRow.seq - 1 = Len(storeFile)
      BY <1>2, <2>1 DEF Before
    <3>2. SubSeq(storeFile, 1, Len(storeFile)) = storeFile
      BY <1>2, SubSeqFull
    <3> QED
      BY <1>2, <2>1, <3>1, <3>2
  <2>2. CASE With(storeFile, storeRow)
    <3>1. /\ Len(storeFile) = storeRow.seq /\ Len(storeFile) > 0
          /\ storeFile[Len(storeFile)].event = storeRow.event
      BY <2>2 DEF With
    <3>2. /\ Truthful(g, storeTold) /\ Ended(g) /\ Len(g) = Len(storeFile) - 1
          /\ ~Has(g, storeRow.event)
      BY <1>2, <3>1, CutTruthful
    <3>3. Len(g) + 1 = storeRow.seq
      BY <1>2, <3>1, <3>2
    <3> QED
      BY <3>2, <3>3 DEF Before
  <2> QED
    BY <1>2, <2>1, <2>2
<1> HIDE DEF g
<1>4. PhaseInv' /\ FenceInv'
  BY <1>1, <1>3 DEF StoreInv, PhaseInv, FenceInv
<1>5. AskedInv'
  BY <1>1, AskedStays DEF StoreInv
<1> QED
  BY <1>1, <1>3, <1>4, <1>5 DEF StoreInv

LEMMA UnmarkKeeps == ASSUME StoreInv, Store!Unmark PROVE StoreInv'
<1>1. /\ UNCHANGED <<storeHolder, storeRow, storeTold, storeFile>>
      /\ storeMayMark' = storeMayMark \cup {FALSE} /\ storeMarker' = FALSE
      /\ \/ storePhase = "synced" /\ storePhase' = "committed"
            /\ storeMayFind' = storeMayFind
         \/ storePhase = "undone" /\ storePhase' = "withdrawn"
            /\ storeMayFind' = {storeFile}
  BY DEF Store!Unmark, Store!SetMarker, Store!FsyncLedger, Store!Goes
<1>2. storeMayFind' = {storeFile} /\ Ended(storeFile)
  BY <1>1 DEF StoreInv, PhaseInv, Before
<1>3. PhaseInv' /\ FenceInv'
  BY <1>1, <1>2 DEF StoreInv, PhaseInv, FenceInv
<1>4. AskedInv'
  BY <1>1, AskedStays DEF StoreInv
<1> QED
  BY <1>1, <1>2, <1>3, <1>4 DEF StoreInv

\* An append ends with an answer that every content bears out.
LEMMA EndKeeps ==
    ASSUME StoreInv, storePhase # "idle", NEW t \in Answers \ {"none"}, Store!End(t),
           storeFile' \in storeMayFind', storeMayMark' \subseteq BOOLEAN, FenceInv',
           \A f \in storeMayFind' :
              /\ Truthful(f, storeTold)
              /\ t = "acked" => HasValid(f, storeRow.event)
              /\ t = "failed" => ~Has(f, storeRow.event)
    PROVE  StoreInv'
<1> DEFINE e == storeRow.event
<1>1. /\ storeTold' = [storeTold EXCEPT ![e] = t]
      /\ storeHolder' = NoStore /\ storePhase' = "idle"
  BY DEF Store!End
<1>2. /\ e \in Events /\ storeTold[e] = "asked" /\ storeTold \in [Events -> Answers]
  BY DEF StoreInv, AskedInv, FileRow
<1> HIDE DEF e
<1>3. \A f \in storeMayFind' : Truthful(f, storeTold')
  BY <1>1, <1>2, AnswerTruthful DEF e
<1>4. AskedInv'
  <2>1. storeTold' \in [Events -> Answers]
    BY <1>1, <1>2
  <2>2. \A d \in Events : storeTold'[d] # "none" <=> storeTold[d] # "none"
    BY <1>1, <1>2
  <2>3. \E k \in 0..MaxAppends : \A d \in Events : storeTold'[d] # "none" <=> d <= k
    BY <2>2 DEF StoreInv, AskedInv
  <2> QED
    BY <1>1, <2>1, <2>3 DEF AskedInv
<1>5. PhaseInv'
  BY <1>1 DEF PhaseInv
<1> QED
  BY <1>3, <1>4, <1>5 DEF StoreInv

\* A row that is alone at the end of an ended file is a valid one.
LEMMA FinishKeeps == ASSUME StoreInv, Store!Finish PROVE StoreInv'
<1>1. /\ UNCHANGED <<storeFile, storeMayFind>> /\ storeMayMark' = {storeMarker}
      /\ storePhase \in {"committed", "withdrawn"}
      /\ storePhase = "committed" => Store!End("acked")
      /\ storePhase = "withdrawn" => Store!End("failed")
  BY DEF Store!Finish, Store!FsyncDirectory
<1>2. storeMayFind = {storeFile} /\ Ended(storeFile)
  BY <1>1 DEF StoreInv, PhaseInv, Before
<1>3. Truthful(storeFile, storeTold) /\ FenceInv' /\ storeMayMark' \subseteq BOOLEAN
  BY <1>1, <1>2 DEF StoreInv, PhaseInv, FenceInv
<1>4. CASE storePhase = "committed"
  <2>1. HasValid(storeFile, storeRow.event)
    <3>1. With(storeFile, storeRow)
      BY <1>4 DEF StoreInv, PhaseInv
    <3>2. Len(storeFile) \in 1..Len(storeFile)
      BY <1>3, <3>1, RowsOfContent DEF Truthful, With
    <3> QED
      BY <1>2, <3>1, <3>2 DEF HasValid, With, Ended
  <2> QED
    BY <1>1, <1>2, <1>3, <1>4, <2>1, EndKeeps DEF Answers
<1>5. CASE storePhase = "withdrawn"
  <2>1. ~Has(storeFile, storeRow.event)
    BY <1>5 DEF StoreInv, PhaseInv, Before
  <2> QED
    BY <1>1, <1>2, <1>3, <1>5, <2>1, EndKeeps DEF Answers
<1> QED
  BY <1>1, <1>4, <1>5

LEMMA RefuseEarlyKeeps == ASSUME StoreInv, Store!RefuseEarly PROVE StoreInv'
<1>1. /\ storePhase = "locked" /\ Store!End("failed")
      /\ UNCHANGED <<storeFile, storeMayFind, storeMayMark>>
  BY DEF Store!RefuseEarly, Store!disk
<1>2. /\ FenceInv' /\ storeMayMark' \subseteq BOOLEAN /\ storeFile' \in storeMayFind'
      /\ \A f \in storeMayFind' : Truthful(f, storeTold) /\ ~Has(f, storeRow.event)
  BY <1>1 DEF StoreInv, PhaseInv, FenceInv
<1> QED
  BY <1>1, <1>2, EndKeeps DEF Answers

LEMMA EndInDoubtKeeps == ASSUME StoreInv, Store!EndInDoubt PROVE StoreInv'
<1>1. /\ storePhase # "idle" /\ Store!End("doubt")
      /\ UNCHANGED <<storeFile, storeMayFind, storeMayMark>>
  BY DEF Store!EndInDoubt, Store!disk
<1>2. /\ FenceInv' /\ storeMayMark' \subseteq BOOLEAN /\ storeFile' \in storeMayFind'
      /\ \A f \in storeMayFind' : Truthful(f, storeTold)
  BY <1>1 DEF StoreInv, FenceInv
<1> QED
  BY <1>1, <1>2, EndKeeps DEF Answers

\* A crash with no append under way.
LEMMA QuietKeeps ==
    ASSUME StoreInv, UNCHANGED <<storeHolder, storePhase, storeTold>>, storePhase = "idle",
           storeFile' \in storeMayFind', storeMayFind' \subseteq storeMayFind,
           storeMayMark' \subseteq BOOLEAN, FenceInv'
    PROVE  StoreInv'
BY DEF StoreInv, PhaseInv, AskedInv

LEMMA StoreUnchanged ==
    ASSUME StoreInv, UNCHANGED <<storeFile, storeMayFind, storeMarker, storeMayMark,
                                 storeHolder, storePhase, storeRow, storeTold>>
    PROVE  StoreInv'
BY DEF StoreInv, PhaseInv, FenceInv, AskedInv

LEMMA DieKeeps ==
    ASSUME StoreInv, NEW s \in Stores, Store!Die(s)
    PROVE  StoreInv'
<1>1. CASE storeHolder # s
  BY <1>1, StoreUnchanged DEF Store!Die
<1>2. CASE storeHolder = s
  <2>1. /\ storeHolder # NoStore /\ storePhase # "idle" /\ Store!End("lost")
        /\ storeMayMark' = storeMayMark
    BY <1>2, StoreBounds DEF Store!Die, Store!Lost, StoreInv, AskedInv
  <2>2. CASE storePhase = "fenced"
    <3>1. /\ storeFile' \in Store!WrittenInPart(storeFile, storeRow) \cup {storeFile}
          /\ storeMayFind' = storeMayFind \cup Store!WrittenInPart(storeFile, storeRow)
      BY <1>2, <2>2 DEF Store!Die
    <3>2. storeMayMark = {TRUE}
      BY <2>2 DEF StoreInv, PhaseInv
    <3>3. /\ FenceInv' /\ storeMayMark' \subseteq BOOLEAN /\ storeFile' \in storeMayFind'
          /\ \A f \in storeMayFind' : Truthful(f, storeTold)
      BY <2>1, <2>2, <3>1, <3>2, Writing DEF StoreInv, FenceInv
    <3> QED
      BY <2>1, <3>3, EndKeeps DEF Answers
  <2>3. CASE storePhase # "fenced"
    <3>1. UNCHANGED <<storeFile, storeMayFind>>
      BY <1>2, <2>3 DEF Store!Die
    <3>2. /\ FenceInv' /\ storeMayMark' \subseteq BOOLEAN /\ storeFile' \in storeMayFind'
          /\ \A f \in storeMayFind' : Truthful(f, storeTold)
      BY <2>1, <3>1 DEF StoreInv, FenceInv
    <3> QED
      BY <2>1, <3>2, EndKeeps DEF Answers
  <2> QED
    BY <2>2, <2>3
<1> QED
  BY <1>1, <1>2

\* What is found after a loss of power without the marker was confirmed.
LEMMA PowerLossKeeps == ASSUME StoreInv, Store!PowerLoss PROVE StoreInv'
<1>1. /\ storeFile' \in storeMayFind /\ storeMayFind' = {storeFile'}
      /\ storeMarker' \in storeMayMark /\ storeMayMark' = {storeMarker'}
      /\ Store!Lost
  BY DEF Store!PowerLoss
<1>2. FenceInv' /\ storeMayMark' \subseteq BOOLEAN
  BY <1>1 DEF StoreInv, FenceInv
<1>3. \A f \in storeMayFind' : Truthful(f, storeTold)
  BY <1>1 DEF StoreInv
<1>4. CASE storeHolder = NoStore
  BY <1>1, <1>2, <1>4, QuietKeeps DEF Store!Lost, StoreInv, AskedInv
<1>5. CASE storeHolder # NoStore
  <2>1. storePhase # "idle" /\ Store!End("lost")
    BY <1>1, <1>5 DEF Store!Lost, StoreInv, AskedInv
  <2> QED
    BY <1>1, <1>2, <1>3, <2>1, EndKeeps DEF Answers
<1> QED
  BY <1>4, <1>5

-----------------------------------------------------------------------------

LEMMA StoreInit == Store!Init => StoreInv
<1> SUFFICES ASSUME Store!Init PROVE StoreInv
  OBVIOUS
<1>1. /\ storeFile = <<>> /\ storeMayFind = {<<>>} /\ storeMayMark = {FALSE}
      /\ storeHolder = NoStore /\ storePhase = "idle"
      /\ storeTold = [e \in Events |-> "none"]
  BY DEF Store!Init, Events
<1>2. Len(<<>>) = 0 /\ <<>> \in Seq(FileRow)
  BY EmptySeq
<1>3. Truthful(<<>>, storeTold) /\ Ended(<<>>)
  BY <1>1, <1>2 DEF Truthful, Consecutive, Has, HasValid, Ended
<1>4. AskedInv
  <2>1. 0 \in 0..MaxAppends /\ \A e \in Events : ~(e <= 0)
    BY StoreBounds DEF Events
  <2>2. \A e \in Events : storeTold[e] # "none" <=> e <= 0
    BY <1>1, <2>1
  <2> QED
    BY <1>1, <2>1, <2>2 DEF AskedInv, Answers
<1> QED
  BY <1>1, <1>3, <1>4 DEF StoreInv, PhaseInv, FenceInv

LEMMA StoreStep == StoreInv /\ [Store!Next]_(Store!vars) => StoreInv'
<1> SUFFICES ASSUME StoreInv, [Store!Next]_(Store!vars) PROVE StoreInv'
  OBVIOUS
<1>1. CASE UNCHANGED Store!vars
  BY <1>1, StoreUnchanged DEF Store!vars
<1>2. ASSUME NEW s \in Stores, Store!Open(s) PROVE StoreInv'
  BY <1>2, StoreUnchanged DEF Store!Open, Store!disk
<1> QED
  BY <1>1, <1>2, LockKeeps, DieKeeps, MarkKeeps, FenceKeeps, WriteRowKeeps, SyncRowKeeps,
     UnmarkKeeps, FinishKeeps, WriteFailsKeeps, UndoKeeps, RefuseEarlyKeeps,
     EndInDoubtKeeps, PowerLossKeeps DEF Store!Next

LEMMA AckedIsThere ==
    ASSUME NEW f, Consecutive(f), NEW e, HasValid(f, e)
    PROVE  /\ Cardinality(Store!Holds(f, e)) = 1
           /\ \A n \in Store!Holds(f, e) : Store!Valid(f, n)
<1>1. PICK n \in 1..Len(f) : f[n].event = e /\ f[n].end # "torn"
  BY DEF HasValid
<1>2. Store!Holds(f, e) = {n}
  BY <1>1, RowsOfContent DEF Store!Holds, Consecutive
<1> QED
  BY <1>1, <1>2, FS_Singleton, ReadContent

LEMMA StoreHonest == StoreInv => LedgerHonest
<1> SUFFICES ASSUME StoreInv PROVE LedgerHonest
  OBVIOUS
<1>1. Store!AckedStays
  <2>1. ASSUME NEW e \in Events, NEW f \in storeMayFind, storeTold[e] = "acked"
        PROVE  /\ Cardinality(Store!Holds(f, e)) = 1
               /\ \A n \in Store!Holds(f, e) : Store!Valid(f, n)
    <3>1. Consecutive(f) /\ HasValid(f, e)
      BY <2>1 DEF StoreInv, Truthful
    <3> QED
      BY <3>1, AckedIsThere
  <2> QED
    BY <2>1, OneCardinality DEF Store!AckedStays, Events
<1>2. Store!FailedLeavesNothing
  <2>1. ASSUME NEW e \in Events, NEW f \in storeMayFind, storeTold[e] = "failed"
        PROVE  Store!Holds(f, e) = {}
    <3>1. Consecutive(f) /\ ~Has(f, e)
      BY <2>1 DEF StoreInv, Truthful
    <3> QED
      BY <3>1, RowsOfContent DEF Store!Holds, Has
  <2> QED
    BY <2>1 DEF Store!FailedLeavesNothing, Events
<1>3. Store!NeverMalformed
  BY ReadContent DEF StoreInv, Truthful, Store!NeverMalformed
<1>4. Store!UnconfirmedFenced
  BY DEF StoreInv, FenceInv, Store!UnconfirmedFenced
<1> QED
  BY <1>1, <1>2, <1>3, <1>4 DEF LedgerHonest, Store!LedgerHonest

\* What a caller was told of its append is what any later reader of the file
\* finds, for any number of stores, appends, system calls that fail, deaths of
\* processes and losses of power between any two steps of an append
\* (store.py: append, its rollback and the append-pending marker).
THEOREM LedgerIsHonest == Store!Spec => []LedgerHonest
BY StoreInit, StoreStep, StoreHonest, PTL DEF Store!Spec

-----------------------------------------------------------------------------
(* The receipts of candidates.  The read model is a fold of the ledger.       *)

\* A non-empty set of natural numbers has a least one.
LEMMA LeastOne ==
    ASSUME NEW T \in SUBSET Nat, T # {}
    PROVE  \E x \in T : \A y \in T : x <= y
<1> DEFINE U == {0..x : x \in T}
<1>1. IsWellFoundedOn(StrictSubsetOrdering(Nat), FiniteSubsetsOf(Nat))
  BY FS_StrictSubsetOrderingWellFounded
<1>2. U \subseteq FiniteSubsetsOf(Nat) /\ U # {}
  <2>1. ASSUME NEW x \in T PROVE 0..x \in FiniteSubsetsOf(Nat)
    BY FS_Interval DEF FiniteSubsetsOf
  <2> QED BY <2>1
<1>3. PICK u \in U : \A v \in U : ~(<<v, u>> \in StrictSubsetOrdering(Nat))
  <2> HIDE DEF U
  <2> QED BY <1>1, <1>2, WFMin
<1>4. PICK x \in T : u = 0..x
  OBVIOUS
<1>5. ASSUME NEW y \in T, y < x PROVE FALSE
  <2>1. 0..y \in U /\ 0..y \subseteq 0..x /\ x \in 0..x /\ x \notin 0..y
    BY <1>5
  <2>2. <<0..y, 0..x>> \in StrictSubsetOrdering(Nat)
    BY <2>1 DEF StrictSubsetOrdering
  <2> QED BY <1>3, <1>4, <2>1, <2>2
<1> QED BY <1>5

\* g is what the fold passes through, from M at event k to event n.
Through(g, M, lg, k, n) ==
    g = [i \in k..n |-> IF i = k THEN M ELSE Receipts!Apply(g[i - 1], lg[i], i)]

LEMMA ThroughOne ==
    ASSUME NEW k \in Nat, NEW n \in Nat, NEW M, NEW lg, NEW f, NEW g,
           Through(f, M, lg, k, n), Through(g, M, lg, k, n)
    PROVE  f = g
<1> DEFINE T == {i \in k..n : f[i] # g[i]}
<1>1. ASSUME T # {} PROVE FALSE
  <2>1. T \in SUBSET Nat
    OBVIOUS
  <2>2. PICK x \in T : \A y \in T : x <= y
    BY <1>1, <2>1, LeastOne
  <2>3. x # k
    BY <2>2 DEF Through
  <2>4. x - 1 \in k..n /\ x - 1 \notin T
    BY <2>2, <2>3
  <2>5. f[x - 1] = g[x - 1]
    BY <2>4
  <2>6. /\ f[x] = Receipts!Apply(f[x - 1], lg[x], x)
        /\ g[x] = Receipts!Apply(g[x - 1], lg[x], x)
    BY <2>2, <2>3 DEF Through
  <2> QED BY <2>2, <2>5, <2>6
<1>2. \A i \in k..n : f[i] = g[i]
  BY <1>1
<1>3. f = [i \in k..n |-> f[i]] /\ g = [i \in k..n |-> g[i]]
  BY DEF Through
<1> QED BY <1>2, <1>3

LEMMA ApplyFromIs ==
    ASSUME NEW lg, Len(lg) \in Nat, NEW k \in Nat, NEW M, NEW g, Through(g, M, lg, k, Len(lg))
    PROVE  Receipts!ApplyFrom(M, lg, k) = g[Len(lg)]
<1> DEFINE fold == CHOOSE f : f = [i \in k..Len(lg) |->
                       IF i = k THEN M ELSE Receipts!Apply(f[i - 1], lg[i], i)]
<1>1. Receipts!ApplyFrom(M, lg, k) = fold[Len(lg)]
  BY DEF Receipts!ApplyFrom
<1>2. Through(fold, M, lg, k, Len(lg))
  BY DEF Through
<1> HIDE DEF fold
<1> QED BY <1>1, <1>2, ThroughOne

LEMMA ThroughIsThere ==
    ASSUME NEW k \in Nat, NEW M, NEW lg
    PROVE  \A n \in Nat : n >= k => \E g : Through(g, M, lg, k, n)
<1> DEFINE T == {n \in Nat : n >= k /\ ~\E g : Through(g, M, lg, k, n)}
<1>1. ASSUME T # {} PROVE FALSE
  <2>1. T \in SUBSET Nat
    OBVIOUS
  <2>2. PICK x \in T : \A y \in T : x <= y
    BY <1>1, <2>1, LeastOne
  <2>3. CASE x = k
    <3> DEFINE g == [i \in k..x |-> IF i = k THEN M ELSE M]
    <3>1. g = [i \in k..x |-> IF i = k THEN M ELSE Receipts!Apply(g[i - 1], lg[i], i)]
      BY <2>3
    <3> HIDE DEF g
    <3>2. Through(g, M, lg, k, x)
      BY <3>1 DEF Through
    <3> QED BY <2>2, <3>2
  <2>4. CASE x # k
    <3>1. x - 1 \in Nat /\ x - 1 >= k /\ x - 1 \notin T
      BY <2>2, <2>4
    <3>2. PICK g : Through(g, M, lg, k, x - 1)
      BY <3>1
    <3> DEFINE h == [i \in k..x |->
                       IF i = x THEN Receipts!Apply(g[x - 1], lg[x], x) ELSE g[i]]
    <3>3. ASSUME NEW i \in k..x
          PROVE  h[i] = IF i = k THEN M ELSE Receipts!Apply(h[i - 1], lg[i], i)
      <4>1. CASE i = x
        <5>1. h[x - 1] = g[x - 1] /\ h[x] = Receipts!Apply(g[x - 1], lg[x], x)
          BY <2>4, <3>1
        <5> HIDE DEF h
        <5> QED BY <4>1, <5>1, <2>4
      <4>2. CASE i # x /\ i # k
        <5>1. i - 1 \in k..(x - 1) /\ i \in k..(x - 1) /\ i - 1 # x /\ i - 1 \in k..x
          BY <4>2
        <5>2. h[i - 1] = g[i - 1] /\ h[i] = g[i]
          BY <5>1, <4>2
        <5>3. g[i] = Receipts!Apply(g[i - 1], lg[i], i)
          BY <3>2, <5>1, <4>2 DEF Through
        <5> HIDE DEF h
        <5> QED BY <5>2, <5>3, <4>2
      <4>3. CASE i = k
        <5>1. i \in k..(x - 1) /\ i # x
          BY <4>3, <2>4, <3>1
        <5>2. h[i] = g[i] /\ g[i] = M
          BY <5>1, <4>3, <3>2 DEF Through
        <5> HIDE DEF h
        <5> QED BY <5>2, <4>3
      <4> QED BY <4>1, <4>2, <4>3
    <3>4. Through(h, M, lg, k, x)
      <4>1. h = [i \in k..x |-> h[i]]
        OBVIOUS
      <4> HIDE DEF h
      <4> QED BY <3>3, <4>1 DEF Through
    <3> HIDE DEF h
    <3> QED BY <2>2, <3>4
  <2> QED BY <2>3, <2>4
<1> QED BY <1>1

\* Nothing is applied from the end of a ledger.
LEMMA ApplyNothing ==
    ASSUME NEW M, NEW lg, Len(lg) \in Nat
    PROVE  Receipts!ApplyFrom(M, lg, Len(lg)) = M
<1>1. PICK g : Through(g, M, lg, Len(lg), Len(lg))
  BY ThroughIsThere
<1>2. g[Len(lg)] = M
  BY <1>1 DEF Through
<1> QED BY <1>1, <1>2, ApplyFromIs

\* An event that was appended is applied last.
LEMMA ApplyOneMore ==
    ASSUME NEW S, NEW M, NEW lg \in Seq(S), NEW e \in S, NEW k \in 0..Len(lg)
    PROVE  Receipts!ApplyFrom(M, Append(lg, e), k)
             = Receipts!Apply(Receipts!ApplyFrom(M, lg, k), e, Len(lg) + 1)
<1> DEFINE n == Len(lg)
           longer == Append(lg, e)
<1>1. /\ n \in Nat /\ k \in Nat /\ k <= n /\ Len(longer) = n + 1 /\ longer[n + 1] = e
      /\ \A i \in 1..n : longer[i] = lg[i]
  <2>1. n \in Nat
    OBVIOUS
  <2>2. k \in Nat /\ k <= n
    BY <2>1
  <2>3. Len(longer) = n + 1 /\ longer[n + 1] = e /\ \A i \in 1..n : longer[i] = lg[i]
    OBVIOUS
  <2> QED BY <2>1, <2>2, <2>3
<1>2. PICK g : Through(g, M, longer, k, n + 1)
  <2>1. n + 1 \in Nat /\ n + 1 >= k
    BY <1>1
  <2> HIDE DEF longer, n
  <2> QED BY <1>1, <2>1, ThroughIsThere
<1>3. Receipts!ApplyFrom(M, longer, k) = g[n + 1]
  <2>1. Len(longer) = n + 1 /\ n + 1 \in Nat
    BY <1>1
  <2>2. Through(g, M, longer, k, Len(longer))
    BY <1>2, <2>1
  <2> HIDE DEF longer, n
  <2> QED BY <1>1, <2>1, <2>2, ApplyFromIs
<1> DEFINE f == [i \in k..n |-> g[i]]
<1>4. Through(f, M, lg, k, n)
  <2>1. ASSUME NEW i \in k..n
        PROVE  f[i] = IF i = k THEN M ELSE Receipts!Apply(f[i - 1], lg[i], i)
    <3>1. i \in k..(n + 1) /\ f[i] = g[i] /\ (i # k => f[i - 1] = g[i - 1] /\ i \in 1..n)
      BY <1>1
    <3>2. g[i] = IF i = k THEN M ELSE Receipts!Apply(g[i - 1], longer[i], i)
      BY <1>2, <3>1 DEF Through
    <3> HIDE DEF f, longer
    <3> QED BY <3>1, <3>2, <1>1
  <2>2. f = [i \in k..n |-> f[i]]
    OBVIOUS
  <2> HIDE DEF f
  <2> QED BY <2>1, <2>2 DEF Through
<1>5. Receipts!ApplyFrom(M, lg, k) = f[n]
  <2> HIDE DEF f
  <2> QED BY <1>1, <1>4, ApplyFromIs
<1>6. f[n] = g[n] /\ g[n + 1] = Receipts!Apply(g[n], longer[n + 1], n + 1)
  <2>1. n \in k..n /\ n + 1 \in k..(n + 1) /\ n + 1 # k /\ (n + 1) - 1 = n
    BY <1>1
  <2>2. g[n + 1] = IF n + 1 = k THEN M ELSE Receipts!Apply(g[n + 1 - 1], longer[n + 1], n + 1)
    <3>1. \A i \in k..(n + 1) : g[i] = IF i = k THEN M ELSE Receipts!Apply(g[i - 1], longer[i], i)
      BY <1>2 DEF Through
    <3> HIDE DEF longer, n
    <3> QED BY <2>1, <3>1
  <2> HIDE DEF longer
  <2> QED BY <2>1, <2>2
<1> QED BY <1>1, <1>3, <1>5, <1>6

LEMMA RestoredOneMore ==
    ASSUME NEW S, NEW lg \in Seq(S), NEW e \in S
    PROVE  Receipts!Restored(Append(lg, e)) = Receipts!Apply(Receipts!Restored(lg), e, Len(lg) + 1)
<1>1. 0 \in 0..Len(lg)
  OBVIOUS
<1> QED BY <1>1, ApplyOneMore DEF Receipts!Restored

LEMMA RestoredNothing == Receipts!Restored(<<>>) = Receipts!Blank
<1>1. Len(<<>>) = 0
  OBVIOUS
<1> QED BY <1>1, ApplyNothing DEF Receipts!Restored

-----------------------------------------------------------------------------
(* The read model, and what an event changes of it.                           *)

Msgs == Messages \cup {NoMessage}
Pays == Payloads \cup {BadPayload}
Ids == Messages \cup Pays
Outcomes == {"expired", "duplicate", "refused", "accepted"}
Words == Pays \cup Outcomes \cup {""}
Rows == [kind : {"handled"}, msg : Msgs, pay : Payloads, reason : Outcomes, n : Nat]
LogEvents == [kind : Receipts!Kinds, msg : Msgs, pay : Pays, reason : Words, n : Nat]

ReadModels ==
    [receipts : SUBSET Rows, intents : SUBSET [pay : Pays, n : Nat], episodes : Nat,
     gaps : SUBSET [id : Ids, pay : Pays], rejected : SUBSET Ids, badMsgs : SUBSET Msgs,
     badPays : SUBSET Pays, quarantined : SUBSET Ids, ambiguous : [Payloads -> Nat],
     queue : Seq(Nat), seen : SUBSET Nat, acked : SUBSET Nat,
     conflicts : SUBSET (Msgs \X Words \X Pays), governor : BOOLEAN]

\* What an answer rests on.  The queue of the incidents is not among it: a delivery
\* may raise one in memory only.
Same(M, N) ==
    /\ M.receipts = N.receipts /\ M.intents = N.intents /\ M.episodes = N.episodes
    /\ M.badMsgs = N.badMsgs /\ M.badPays = N.badPays
    /\ M.quarantined = N.quarantined /\ M.ambiguous = N.ambiguous

LEMMA ReadModelFields ==
    ASSUME NEW M \in ReadModels
    PROVE  /\ M.receipts \in SUBSET Rows /\ M.intents \in SUBSET [pay : Pays, n : Nat]
           /\ M.episodes \in Nat /\ M.gaps \in SUBSET [id : Ids, pay : Pays]
           /\ M.rejected \in SUBSET Ids /\ M.badMsgs \in SUBSET Msgs /\ M.badPays \in SUBSET Pays
           /\ M.quarantined \in SUBSET Ids /\ M.ambiguous \in [Payloads -> Nat]
           /\ M.queue \in Seq(Nat) /\ M.seen \in SUBSET Nat /\ M.acked \in SUBSET Nat
           /\ M.conflicts \in SUBSET (Msgs \X Words \X Pays) /\ M.governor \in BOOLEAN
BY DEF ReadModels

LEMMA IncidentAside ==
    ASSUME NEW M \in ReadModels, NEW i \in Nat
    PROVE  Receipts!Incident(M, i) \in ReadModels /\ Same(Receipts!Incident(M, i), M)
<1>1. CASE i \in M.acked \cup M.seen
  BY <1>1 DEF Receipts!Incident, Same
<1>2. CASE i \notin M.acked \cup M.seen
  <2> DEFINE q == Append(M.queue, i)
             ks == M.seen \cup {i}
  <2>1. q \in Seq(Nat) /\ ks \in SUBSET Nat
    BY ReadModelFields
  <2>2. Receipts!Incident(M, i) = [M EXCEPT !.queue = q, !.seen = ks]
    BY <1>2 DEF Receipts!Incident
  <2> HIDE DEF q, ks
  <2> QED BY <2>1, <2>2 DEF ReadModels, Same
<1> QED BY <1>1, <1>2

LEMMA QuarantineTakes ==
    ASSUME NEW M \in ReadModels, NEW rs \in SUBSET Rows
    PROVE  LET N == Receipts!Quarantine(M, rs)
           IN  /\ N \in ReadModels
               /\ N.receipts = M.receipts \ rs
               /\ N.quarantined = M.quarantined
                      \cup {Receipts!Identity(r.msg, r.pay) : r \in rs} \cup {r.pay : r \in rs}
               /\ N.intents = M.intents /\ N.episodes = M.episodes /\ N.badMsgs = M.badMsgs
               /\ N.badPays = M.badPays /\ N.ambiguous = M.ambiguous
<1> DEFINE ids == {Receipts!Identity(r.msg, r.pay) : r \in rs} \cup {r.pay : r \in rs}
<1>1. \A r \in rs : r.pay \in Ids /\ Receipts!Identity(r.msg, r.pay) \in Ids
  BY DEF Rows, Ids, Pays, Msgs, Receipts!Identity
<1> DEFINE qs == M.quarantined \cup ids
           left == M.receipts \ rs
<1>2. qs \in SUBSET Ids /\ left \in SUBSET Rows
  BY <1>1, ReadModelFields
<1>3. Receipts!Quarantine(M, rs) = [M EXCEPT !.quarantined = qs, !.receipts = left]
  BY DEF Receipts!Quarantine
<1> HIDE DEF ids, qs, left
<1>4. LET N == [M EXCEPT !.quarantined = qs, !.receipts = left]
      IN  /\ N \in ReadModels /\ N.receipts = left /\ N.quarantined = qs
          /\ N.intents = M.intents /\ N.episodes = M.episodes /\ N.badMsgs = M.badMsgs
          /\ N.badPays = M.badPays /\ N.ambiguous = M.ambiguous
  BY <1>2 DEF ReadModels
<1> QED BY <1>3, <1>4 DEF ids, qs, left

LEMMA Distrusts ==
    ASSUME NEW M \in ReadModels, NEW p \in Pays, NEW m \in Msgs
    PROVE  /\ LET N == [M EXCEPT !.badPays = @ \cup {p}]
              IN  /\ N \in ReadModels /\ N.badPays = M.badPays \cup {p}
                  /\ N.receipts = M.receipts /\ N.intents = M.intents /\ N.episodes = M.episodes
                  /\ N.badMsgs = M.badMsgs /\ N.quarantined = M.quarantined
                  /\ N.ambiguous = M.ambiguous
           /\ LET N == [M EXCEPT !.badMsgs = @ \cup {m}]
              IN  /\ N \in ReadModels /\ N.badMsgs = M.badMsgs \cup {m}
                  /\ N.receipts = M.receipts /\ N.intents = M.intents /\ N.episodes = M.episodes
                  /\ N.badPays = M.badPays /\ N.quarantined = M.quarantined
                  /\ N.ambiguous = M.ambiguous
BY DEF ReadModels

LEMMA AmbiguitySets ==
    ASSUME NEW M \in ReadModels, NEW p \in Payloads, NEW i \in Nat
    PROVE  LET N == [M EXCEPT !.ambiguous[p] = i]
           IN  /\ N \in ReadModels /\ N.ambiguous = [M.ambiguous EXCEPT ![p] = i]
               /\ N.receipts = M.receipts /\ N.intents = M.intents /\ N.episodes = M.episodes
               /\ N.badMsgs = M.badMsgs /\ N.badPays = M.badPays /\ N.quarantined = M.quarantined
BY DEF ReadModels

LEMMA AddReceiptAdds ==
    ASSUME NEW M \in ReadModels, NEW r \in Rows
    PROVE  LET N == Receipts!AddReceipt(M, r)
           IN  /\ N \in ReadModels /\ N.receipts = M.receipts \cup {r}
               /\ N.intents = M.intents /\ N.episodes = M.episodes
               /\ N.badMsgs = M.badMsgs /\ N.badPays = M.badPays /\ N.quarantined = M.quarantined
               /\ N.ambiguous = M.ambiguous
<1> DEFINE rs == M.receipts \cup {r}
           gs == {g \in M.gaps : g.id # Receipts!Identity(r.msg, r.pay)}
<1>1. rs \in SUBSET Rows /\ gs \in SUBSET [id : Ids, pay : Pays]
  BY ReadModelFields
<1>2. Receipts!AddReceipt(M, r) = [M EXCEPT !.receipts = rs, !.gaps = gs]
  BY DEF Receipts!AddReceipt
<1> HIDE DEF rs, gs
<1>3. LET N == [M EXCEPT !.receipts = rs, !.gaps = gs]
      IN  /\ N \in ReadModels /\ N.receipts = rs
          /\ N.intents = M.intents /\ N.episodes = M.episodes
          /\ N.badMsgs = M.badMsgs /\ N.badPays = M.badPays /\ N.quarantined = M.quarantined
          /\ N.ambiguous = M.ambiguous
  BY <1>1 DEF ReadModels
<1> QED BY <1>2, <1>3 DEF rs

\* The kinds of events an answer does not rest on.
LEMMA OthersAside ==
    ASSUME NEW M \in ReadModels, NEW e \in LogEvents, NEW i \in Nat,
           e.kind \in {"gap", "terminal", "rejected", "ack", "conflict", "governor_clear"}
    PROVE  Receipts!Apply(M, e, i) \in ReadModels /\ Same(Receipts!Apply(M, e, i), M)
<1>1. e.msg \in Msgs /\ e.pay \in Pays /\ e.reason \in Words /\ e.n \in Nat
  BY DEF LogEvents
<1>2. Receipts!Identity(e.msg, e.pay) \in Ids
  BY <1>1 DEF Ids, Msgs, Receipts!Identity
<1>3. CASE e.kind \in {"gap", "terminal"}
  <2> DEFINE gs == {g \in M.gaps : g.id # Receipts!Identity(e.msg, e.pay)}
                     \cup {[id |-> Receipts!Identity(e.msg, e.pay), pay |-> e.pay]}
  <2>1. Receipts!Apply(M, e, i) = [M EXCEPT !.gaps = gs]
    BY <1>3 DEF Receipts!Apply, Receipts!RememberGap
  <2>2. gs \in SUBSET [id : Ids, pay : Pays]
    BY <1>1, <1>2, ReadModelFields
  <2> HIDE DEF gs
  <2> QED BY <2>1, <2>2 DEF ReadModels, Same
<1>4. CASE e.kind = "rejected"
  <2> DEFINE rs == M.rejected \cup {Receipts!Identity(e.msg, e.pay)}
  <2>1. Receipts!Apply(M, e, i) = [M EXCEPT !.rejected = rs]
    BY <1>4 DEF Receipts!Apply
  <2>2. rs \in SUBSET Ids
    BY <1>2, ReadModelFields
  <2> HIDE DEF rs
  <2> QED BY <2>1, <2>2 DEF ReadModels, Same
<1>5. CASE e.kind = "ack"
  <2>1. Receipts!Apply(M, e, i) = Receipts!Acknowledged(M, e.n)
    BY <1>5 DEF Receipts!Apply
  <2>2. CASE M.queue = <<>> \/ Head(M.queue) # e.n
    BY <2>1, <2>2 DEF Receipts!Acknowledged, Same
  <2>3. CASE ~(M.queue = <<>> \/ Head(M.queue) # e.n)
    <3>1. Tail(M.queue) \in Seq(Nat) /\ M.acked \cup {e.n} \in SUBSET Nat
      BY <1>1, <2>3, ReadModelFields
    <3>2. Receipts!Apply(M, e, i)
            = [M EXCEPT !.acked = M.acked \cup {e.n}, !.queue = Tail(M.queue)]
      BY <2>1, <2>3 DEF Receipts!Acknowledged
    <3> QED BY <3>1, <3>2 DEF ReadModels, Same
  <2> QED BY <2>2, <2>3
<1>6. CASE e.kind = "conflict"
  <2> DEFINE cs == M.conflicts \cup {<<e.msg, e.reason, e.pay>>}
  <2>1. cs \in SUBSET (Msgs \X Words \X Pays)
    BY <1>1, ReadModelFields
  <2>2. Receipts!Apply(M, e, i) = [M EXCEPT !.conflicts = cs, !.governor = TRUE]
    BY <1>6 DEF Receipts!Apply
  <2> HIDE DEF cs
  <2> DEFINE N == [M EXCEPT !.conflicts = cs, !.governor = TRUE]
  <2>3. N \in ReadModels
    BY <2>1 DEF ReadModels
  <2>4. Same(N, M)
    BY DEF ReadModels, Same
  <2> QED BY <2>2, <2>3, <2>4
<1>7. CASE e.kind = "governor_clear"
  <2>1. Receipts!Apply(M, e, i) = [M EXCEPT !.governor = FALSE]
    BY <1>7 DEF Receipts!Apply
  <2> QED BY <2>1 DEF ReadModels, Same
<1> QED BY <1>3, <1>4, <1>5, <1>6, <1>7

\* An intent and an episode are noted.
LEMMA IntentNoted ==
    ASSUME NEW M \in ReadModels, NEW e \in LogEvents, NEW i \in Nat, e.kind = "intent"
    PROVE  LET N == Receipts!Apply(M, e, i)
           IN  /\ N \in ReadModels /\ N.intents = M.intents \cup {[pay |-> e.pay, n |-> e.n]}
               /\ N.receipts = M.receipts /\ N.episodes = M.episodes
               /\ N.badMsgs = M.badMsgs /\ N.badPays = M.badPays /\ N.quarantined = M.quarantined
               /\ N.ambiguous = M.ambiguous
<1> DEFINE xs == M.intents \cup {[pay |-> e.pay, n |-> e.n]}
<1>1. xs \in SUBSET [pay : Pays, n : Nat]
  BY ReadModelFields DEF LogEvents
<1>2. Receipts!Apply(M, e, i) = [M EXCEPT !.intents = xs]
  BY DEF Receipts!Apply
<1> HIDE DEF xs
<1>3. LET N == [M EXCEPT !.intents = xs]
      IN  /\ N \in ReadModels /\ N.intents = xs
          /\ N.receipts = M.receipts /\ N.episodes = M.episodes
          /\ N.badMsgs = M.badMsgs /\ N.badPays = M.badPays /\ N.quarantined = M.quarantined
          /\ N.ambiguous = M.ambiguous
  BY <1>1 DEF ReadModels
<1> QED BY <1>2, <1>3 DEF xs

LEMMA EpisodeNoted ==
    ASSUME NEW M \in ReadModels, NEW e \in LogEvents, NEW i \in Nat, e.kind = "assigned"
    PROVE  LET N == Receipts!Apply(M, e, i)
           IN  /\ N \in ReadModels /\ N.episodes = e.n
               /\ N.receipts = M.receipts /\ N.intents = M.intents
               /\ N.badMsgs = M.badMsgs /\ N.badPays = M.badPays /\ N.quarantined = M.quarantined
               /\ N.ambiguous = M.ambiguous
<1>1. e.n \in Nat
  BY DEF LogEvents
<1>2. Receipts!Apply(M, e, i) = [M EXCEPT !.episodes = e.n]
  BY DEF Receipts!Apply
<1> QED BY <1>1, <1>2 DEF ReadModels

\* What a receipt changes: it takes rs out of the receipts for good, adds some, and
\* distrusts messages, payloads or answers by payload.
Names(rs) == {Receipts!Identity(r.msg, r.pay) : r \in rs} \cup {r.pay : r \in rs}
Effect(M, N, rs, add, ms, ps, marks) ==
    /\ N \in ReadModels
    /\ N.receipts = (M.receipts \ rs) \cup add
    /\ N.quarantined = M.quarantined \cup Names(rs)
    /\ N.badMsgs = M.badMsgs \cup ms /\ N.badPays = M.badPays \cup ps
    /\ N.ambiguous = marks
    /\ N.intents = M.intents /\ N.episodes = M.episodes

LEMMA SameEffect ==
    ASSUME NEW M, NEW N, NEW rs, NEW add, NEW ms, NEW ps, NEW marks, NEW P \in ReadModels,
           Effect(M, N, rs, add, ms, ps, marks), Same(P, N)
    PROVE  Effect(M, P, rs, add, ms, ps, marks)
BY DEF Effect, Same

LEMMA TakenOut ==
    ASSUME NEW M \in ReadModels, NEW rs \in SUBSET Rows, NEW i \in Nat
    PROVE  Effect(M, Receipts!Incident(Receipts!Quarantine(M, rs), i), rs, {}, {}, {}, M.ambiguous)
<1> DEFINE N == Receipts!Quarantine(M, rs)
<1>1. Effect(M, N, rs, {}, {}, {}, M.ambiguous)
  BY QuarantineTakes DEF Effect, Names
<1>2. N \in ReadModels
  BY <1>1 DEF Effect
<1> HIDE DEF N
<1>3. Receipts!Incident(N, i) \in ReadModels /\ Same(Receipts!Incident(N, i), N)
  BY <1>2, IncidentAside
<1>4. Effect(M, Receipts!Incident(N, i), rs, {}, {}, {}, M.ambiguous)
  BY <1>1, <1>3, SameEffect
<1> QED BY <1>4 DEF N

LEMMA TakenWithMessage ==
    ASSUME NEW M \in ReadModels, NEW rs \in SUBSET Rows, NEW m \in Msgs, NEW i \in Nat
    PROVE  Effect(M, Receipts!Incident([Receipts!Quarantine(M, rs) EXCEPT !.badMsgs = @ \cup {m}], i),
                  rs, {}, {m}, {}, M.ambiguous)
<1> DEFINE Q == Receipts!Quarantine(M, rs)
           N == [Q EXCEPT !.badMsgs = @ \cup {m}]
<1>1. Effect(M, Q, rs, {}, {}, {}, M.ambiguous)
  BY QuarantineTakes DEF Effect, Names
<1>2. Q \in ReadModels
  BY <1>1 DEF Effect
<1>3. /\ N \in ReadModels /\ N.badMsgs = Q.badMsgs \cup {m}
      /\ N.receipts = Q.receipts /\ N.intents = Q.intents /\ N.episodes = Q.episodes
      /\ N.badPays = Q.badPays /\ N.quarantined = Q.quarantined /\ N.ambiguous = Q.ambiguous
  <2> HIDE DEF Q
  <2>1. BadPayload \in Pays
    BY DEF Pays
  <2> QED BY <1>2, <2>1, Distrusts
<1> HIDE DEF N, Q
<1>4. Effect(M, N, rs, {}, {m}, {}, M.ambiguous)
  BY <1>1, <1>3 DEF Effect
<1>5. Receipts!Incident(N, i) \in ReadModels /\ Same(Receipts!Incident(N, i), N)
  BY <1>3, IncidentAside
<1>6. Effect(M, Receipts!Incident(N, i), rs, {}, {m}, {}, M.ambiguous)
  BY <1>4, <1>5, SameEffect
<1> QED BY <1>6 DEF N, Q

LEMMA TakenWithPayload ==
    ASSUME NEW M \in ReadModels, NEW rs \in SUBSET Rows, NEW p \in Pays, NEW i \in Nat
    PROVE  Effect(M, Receipts!Incident([Receipts!Quarantine(M, rs) EXCEPT !.badPays = @ \cup {p}], i),
                  rs, {}, {}, {p}, M.ambiguous)
<1> DEFINE Q == Receipts!Quarantine(M, rs)
           N == [Q EXCEPT !.badPays = @ \cup {p}]
<1>1. Effect(M, Q, rs, {}, {}, {}, M.ambiguous)
  BY QuarantineTakes DEF Effect, Names
<1>2. Q \in ReadModels
  BY <1>1 DEF Effect
<1>3. /\ N \in ReadModels /\ N.badPays = Q.badPays \cup {p}
      /\ N.receipts = Q.receipts /\ N.intents = Q.intents /\ N.episodes = Q.episodes
      /\ N.badMsgs = Q.badMsgs /\ N.quarantined = Q.quarantined /\ N.ambiguous = Q.ambiguous
  <2> HIDE DEF Q
  <2>1. NoMessage \in Msgs
    BY DEF Msgs
  <2> QED BY <1>2, <2>1, Distrusts
<1> HIDE DEF N, Q
<1>4. Effect(M, N, rs, {}, {}, {p}, M.ambiguous)
  BY <1>1, <1>3 DEF Effect
<1>5. Receipts!Incident(N, i) \in ReadModels /\ Same(Receipts!Incident(N, i), N)
  BY <1>3, IncidentAside
<1>6. Effect(M, Receipts!Incident(N, i), rs, {}, {}, {p}, M.ambiguous)
  BY <1>4, <1>5, SameEffect
<1> QED BY <1>6 DEF N, Q

\* The conditions a receipt meets, as RememberReceipt asks for them.
Refuted(M, r) ==
    \/ ~Receipts!ValidReceipt(M, r)
    \/ IF r.msg # NoMessage THEN r.msg \in M.badMsgs ELSE r.pay \in M.badPays
Others(M, r) == Receipts!ByMessage(M, r.msg) \ {r}
Rivals(M, r) == {q \in Receipts!ByPayload(M, r.pay) : ~Receipts!SameDecision(q, r)}
Dropped(M, r) ==
    IF \A q \in Receipts!Fallback(M, r.pay) : Receipts!SameDecision(q, r) THEN {}
    ELSE Receipts!Fallback(M, r.pay)
Doubtful(M, r) ==
    M.ambiguous[r.pay] = 0 /\ \E q \in Rivals(M, r) : q.msg # NoMessage
Marks(M, r, i) == IF Doubtful(M, r) THEN [M.ambiguous EXCEPT ![r.pay] = i] ELSE M.ambiguous

LEMMA MessageAdds ==
    ASSUME NEW M \in ReadModels, NEW r \in Rows, NEW i \in Nat
    PROVE  Effect(M, Receipts!AddReceipt(Receipts!Ambiguity(Receipts!DropFallback(M, r, i), r, i), r),
                  Dropped(M, r), {r}, {}, IF Dropped(M, r) = {} THEN {} ELSE {r.pay}, Marks(M, r, i))
<1> DEFINE F == Receipts!Fallback(M, r.pay)
           D == Receipts!DropFallback(M, r, i)
           A == Receipts!Ambiguity(D, r, i)
           ps == IF Dropped(M, r) = {} THEN {} ELSE {r.pay}
<1>1. r.pay \in Payloads /\ r.pay \in Pays /\ M.receipts \in SUBSET Rows
  BY ReadModelFields DEF Rows, Pays
<1>2. F \in SUBSET Rows /\ \A q \in F : q.msg = NoMessage
  BY <1>1 DEF Receipts!Fallback, Receipts!ByPayload
<1>3. Effect(M, D, Dropped(M, r), {}, {}, ps, M.ambiguous)
  <2>1. CASE \A q \in F : Receipts!SameDecision(q, r)
    <3>1. D = M /\ Dropped(M, r) = {}
      BY <2>1 DEF Receipts!DropFallback, Dropped
    <3> QED BY <3>1 DEF Effect, Names
  <2>2. CASE ~\A q \in F : Receipts!SameDecision(q, r)
    <3>1. /\ D = Receipts!Incident([Receipts!Quarantine(M, F) EXCEPT !.badPays = @ \cup {r.pay}], i)
          /\ Dropped(M, r) = F /\ F # {}
      BY <2>2 DEF Receipts!DropFallback, Dropped
    <3> HIDE DEF F, D
    <3> QED BY <1>1, <1>2, <3>1, TakenWithPayload
  <2> QED BY <2>1, <2>2
<1>4. \A q \in Dropped(M, r) : q.msg = NoMessage
  BY <1>2 DEF Dropped
<1>5. Effect(M, A, Dropped(M, r), {}, {}, ps, Marks(M, r, i))
  <2>1. D \in ReadModels /\ D.ambiguous = M.ambiguous /\ D.receipts = M.receipts \ Dropped(M, r)
    BY <1>3 DEF Effect
  <2> HIDE DEF D
  <2>2. (D.ambiguous[r.pay] = 0 /\ \E q \in Receipts!ByPayload(D, r.pay) :
            q.msg # NoMessage /\ ~Receipts!SameDecision(q, r)) <=> Doubtful(M, r)
    BY <1>4, <2>1 DEF Doubtful, Rivals, Receipts!ByPayload
  <2>3. CASE Doubtful(M, r)
    <3>1. A = [D EXCEPT !.ambiguous[r.pay] = i]
      BY <2>2, <2>3 DEF Receipts!Ambiguity
    <3>2. /\ A \in ReadModels /\ A.ambiguous = [D.ambiguous EXCEPT ![r.pay] = i]
          /\ A.receipts = D.receipts /\ A.intents = D.intents /\ A.episodes = D.episodes
          /\ A.badMsgs = D.badMsgs /\ A.badPays = D.badPays /\ A.quarantined = D.quarantined
      BY <1>1, <2>1, <3>1, AmbiguitySets
    <3> HIDE DEF A, ps
    <3> QED BY <1>3, <2>1, <2>3, <3>2 DEF Effect, Marks
  <2>4. CASE ~Doubtful(M, r)
    <3>1. A = D
      BY <2>2, <2>4 DEF Receipts!Ambiguity
    <3> QED BY <1>3, <2>4, <3>1 DEF Marks
  <2> QED BY <2>3, <2>4
<1>6. A \in ReadModels
  BY <1>5 DEF Effect
<1> HIDE DEF A, ps
<1>7. LET N == Receipts!AddReceipt(A, r)
      IN  /\ N \in ReadModels /\ N.receipts = A.receipts \cup {r}
          /\ N.intents = A.intents /\ N.episodes = A.episodes
          /\ N.badMsgs = A.badMsgs /\ N.badPays = A.badPays /\ N.quarantined = A.quarantined
          /\ N.ambiguous = A.ambiguous
  BY <1>6, AddReceiptAdds
<1>8. Effect(M, Receipts!AddReceipt(A, r), Dropped(M, r), {r}, {}, ps, Marks(M, r, i))
  BY <1>5, <1>7 DEF Effect
<1> QED BY <1>8 DEF A, ps

\* What a receipt does is one of six effects.
Remembered(M, N, r, i) ==
    \/ Refuted(M, r) /\ Effect(M, N, {r}, {}, {}, {}, M.ambiguous)
    \/ ~Refuted(M, r) /\ r \in M.receipts /\ Effect(M, N, {}, {}, {}, {}, M.ambiguous)
    \/ /\ ~Refuted(M, r) /\ r \notin M.receipts /\ Others(M, r) # {}
       /\ Effect(M, N, Others(M, r) \cup {r}, {}, {r.msg}, {}, M.ambiguous)
    \/ /\ ~Refuted(M, r) /\ r \notin M.receipts
       /\ r.msg = NoMessage /\ Rivals(M, r) # {}
       /\ Effect(M, N, Receipts!Fallback(M, r.pay) \cup {r}, {}, {}, {r.pay}, M.ambiguous)
    \/ /\ ~Refuted(M, r) /\ r \notin M.receipts
       /\ r.msg = NoMessage /\ Rivals(M, r) = {}
       /\ Effect(M, N, {}, {r}, {}, {}, M.ambiguous)
    \/ /\ ~Refuted(M, r) /\ r \notin M.receipts
       /\ r.msg # NoMessage /\ Others(M, r) = {}
       /\ Effect(M, N, Dropped(M, r), {r}, {},
                 IF Dropped(M, r) = {} THEN {} ELSE {r.pay}, Marks(M, r, i))

LEMMA ReceiptRemembered ==
    ASSUME NEW M \in ReadModels, NEW r \in Rows, NEW i \in Nat
    PROVE  Remembered(M, Receipts!RememberReceipt(M, r, i), r, i)
<1> DEFINE R == Receipts!RememberReceipt(M, r, i)
           B == Receipts!Fallback(M, r.pay)
<1>1. r.msg \in Msgs /\ r.pay \in Pays /\ M.receipts \in SUBSET Rows
  BY ReadModelFields DEF Rows, Pays
<1>2. B \cup {r} \in SUBSET Rows /\ Others(M, r) \cup {r} \in SUBSET Rows /\ {r} \in SUBSET Rows
  BY <1>1 DEF Others, Receipts!Fallback, Receipts!ByPayload, Receipts!ByMessage
<1>3. R = IF Refuted(M, r) THEN Receipts!Incident(Receipts!Quarantine(M, {r}), i)
          ELSE IF r \in M.receipts THEN M
          ELSE IF Others(M, r) # {}
          THEN Receipts!Incident([Receipts!Quarantine(M, Others(M, r) \cup {r})
                                     EXCEPT !.badMsgs = @ \cup {r.msg}], i)
          ELSE IF r.msg = NoMessage /\ Rivals(M, r) # {}
          THEN Receipts!Incident([Receipts!Quarantine(M, B \cup {r})
                                     EXCEPT !.badPays = @ \cup {r.pay}], i)
          ELSE IF r.msg = NoMessage THEN Receipts!AddReceipt(M, r)
          ELSE Receipts!AddReceipt(
                   Receipts!Ambiguity(Receipts!DropFallback(M, r, i), r, i), r)
  BY DEF Receipts!RememberReceipt, Refuted, Others, Rivals
<1> HIDE DEF R, B
<1>4. CASE Refuted(M, r)
  <2>1. R = Receipts!Incident(Receipts!Quarantine(M, {r}), i)
    BY <1>3, <1>4
  <2>2. Effect(M, R, {r}, {}, {}, {}, M.ambiguous)
    BY <1>2, <2>1, TakenOut
  <2> QED BY <1>4, <2>2 DEF Remembered, R
<1>5. CASE ~Refuted(M, r) /\ r \in M.receipts
  <2>1. R = M
    BY <1>3, <1>5
  <2>2. Effect(M, M, {}, {}, {}, {}, M.ambiguous)
    BY DEF Effect, Names
  <2> QED BY <1>5, <2>1, <2>2 DEF Remembered, R
<1>6. CASE ~Refuted(M, r) /\ r \notin M.receipts /\ Others(M, r) # {}
  <2>1. R = Receipts!Incident([Receipts!Quarantine(M, Others(M, r) \cup {r})
                                     EXCEPT !.badMsgs = @ \cup {r.msg}], i)
    BY <1>3, <1>6
  <2>2. Effect(M, R, Others(M, r) \cup {r}, {}, {r.msg}, {}, M.ambiguous)
    BY <1>1, <1>2, <2>1, TakenWithMessage
  <2> QED BY <1>6, <2>2 DEF Remembered, R
<1>7. CASE /\ ~Refuted(M, r) /\ r \notin M.receipts /\ Others(M, r) = {}
           /\ r.msg = NoMessage /\ Rivals(M, r) # {}
  <2>1. R = Receipts!Incident([Receipts!Quarantine(M, B \cup {r})
                                     EXCEPT !.badPays = @ \cup {r.pay}], i)
    BY <1>3, <1>7
  <2>2. Effect(M, R, B \cup {r}, {}, {}, {r.pay}, M.ambiguous)
    BY <1>1, <1>2, <2>1, TakenWithPayload
  <2> QED BY <1>7, <2>2 DEF Remembered, R, B
<1>8. CASE /\ ~Refuted(M, r) /\ r \notin M.receipts /\ Others(M, r) = {}
           /\ r.msg = NoMessage /\ Rivals(M, r) = {}
  <2>1. R = Receipts!AddReceipt(M, r)
    BY <1>3, <1>8
  <2>2. Effect(M, R, {}, {r}, {}, {}, M.ambiguous)
    BY <2>1, AddReceiptAdds DEF Effect, Names
  <2> QED BY <1>8, <2>2 DEF Remembered, R
<1>9. CASE /\ ~Refuted(M, r) /\ r \notin M.receipts /\ Others(M, r) = {} /\ r.msg # NoMessage
  <2>1. R = Receipts!AddReceipt(Receipts!Ambiguity(Receipts!DropFallback(M, r, i), r, i), r)
    BY <1>3, <1>9
  <2>2. Effect(M, R, Dropped(M, r), {r}, {}, IF Dropped(M, r) = {} THEN {} ELSE {r.pay},
               Marks(M, r, i))
    BY <2>1, MessageAdds
  <2> QED BY <1>9, <2>2 DEF Remembered, R
<1>10. Refuted(M, r) \/ ~Refuted(M, r)
  OBVIOUS
<1> QED BY <1>4, <1>5, <1>6, <1>7, <1>8, <1>9

\* Read models that are the same to an answer stay so.
LEMMA SameRemembered ==
    ASSUME NEW M \in ReadModels, NEW N \in ReadModels, NEW r \in Rows, NEW i \in Nat, Same(M, N)
    PROVE  Same(Receipts!RememberReceipt(M, r, i), Receipts!RememberReceipt(N, r, i))
<1> DEFINE A == Receipts!RememberReceipt(M, r, i)
           B == Receipts!RememberReceipt(N, r, i)
<1>1. Remembered(M, A, r, i) /\ Remembered(N, B, r, i)
  BY ReceiptRemembered
<1>2. /\ Refuted(M, r) <=> Refuted(N, r)
      /\ Others(M, r) = Others(N, r) /\ Rivals(M, r) = Rivals(N, r)
      /\ Receipts!Fallback(M, r.pay) = Receipts!Fallback(N, r.pay)
      /\ Dropped(M, r) = Dropped(N, r) /\ Marks(M, r, i) = Marks(N, r, i)
      /\ M.receipts = N.receipts /\ M.ambiguous = N.ambiguous
  BY DEF Same, Refuted, Others, Rivals, Dropped, Marks, Doubtful, Receipts!ValidReceipt,
         Receipts!Fallback, Receipts!ByPayload, Receipts!ByMessage
<1> HIDE DEF A, B
<1>3. ASSUME NEW rs, NEW add, NEW ms, NEW ps, NEW marks,
             Effect(M, A, rs, add, ms, ps, marks), Effect(N, B, rs, add, ms, ps, marks)
      PROVE  Same(A, B)
  BY <1>3 DEF Same, Effect
<1>4. CASE Refuted(M, r)
  <2>1. Effect(M, A, {r}, {}, {}, {}, M.ambiguous) /\ Effect(N, B, {r}, {}, {}, {}, M.ambiguous)
    BY <1>1, <1>2, <1>4 DEF Remembered
  <2> QED BY <2>1, <1>3 DEF A, B
<1>5. CASE ~Refuted(M, r) /\ r \in M.receipts
  <2>1. Effect(M, A, {}, {}, {}, {}, M.ambiguous) /\ Effect(N, B, {}, {}, {}, {}, M.ambiguous)
    BY <1>1, <1>2, <1>5 DEF Remembered
  <2> QED BY <2>1, <1>3 DEF A, B
<1>6. CASE ~Refuted(M, r) /\ r \notin M.receipts /\ r.msg # NoMessage /\ Others(M, r) # {}
  <2>1. /\ Effect(M, A, Others(M, r) \cup {r}, {}, {r.msg}, {}, M.ambiguous)
        /\ Effect(N, B, Others(M, r) \cup {r}, {}, {r.msg}, {}, M.ambiguous)
    BY <1>1, <1>2, <1>6 DEF Remembered
  <2> QED BY <2>1, <1>3 DEF A, B
<1>7. CASE ~Refuted(M, r) /\ r \notin M.receipts /\ r.msg = NoMessage
  <2>1. Others(M, r) = {} /\ Others(N, r) = {}
    BY <1>7 DEF Others, Receipts!ByMessage
  <2>2. CASE Rivals(M, r) # {}
    <3>1. /\ Effect(M, A, Receipts!Fallback(M, r.pay) \cup {r}, {}, {}, {r.pay}, M.ambiguous)
          /\ Effect(N, B, Receipts!Fallback(M, r.pay) \cup {r}, {}, {}, {r.pay}, M.ambiguous)
      BY <1>1, <1>2, <1>7, <2>1, <2>2 DEF Remembered
    <3> QED BY <3>1, <1>3 DEF A, B
  <2>3. CASE Rivals(M, r) = {}
    <3>1. Effect(M, A, {}, {r}, {}, {}, M.ambiguous) /\ Effect(N, B, {}, {r}, {}, {}, M.ambiguous)
      BY <1>1, <1>2, <1>7, <2>1, <2>3 DEF Remembered
    <3> QED BY <3>1, <1>3 DEF A, B
  <2> QED BY <2>2, <2>3
<1>8. CASE ~Refuted(M, r) /\ r \notin M.receipts /\ r.msg # NoMessage /\ Others(M, r) = {}
  <2> DEFINE ps == IF Dropped(M, r) = {} THEN {} ELSE {r.pay}
  <2>1. /\ Effect(M, A, Dropped(M, r), {r}, {}, ps, Marks(M, r, i))
        /\ Effect(N, B, Dropped(M, r), {r}, {}, ps, Marks(M, r, i))
    BY <1>1, <1>2, <1>8 DEF Remembered
  <2> HIDE DEF ps
  <2> QED BY <2>1, <1>3 DEF A, B
<1> QED BY <1>4, <1>5, <1>6, <1>7, <1>8

\* What a ledger holds.
Recorded == {e \in LogEvents : e.kind = "handled" => e \in Rows}

LEMMA ApplyKeepsSame ==
    ASSUME NEW M \in ReadModels, NEW N \in ReadModels, NEW e \in Recorded, NEW i \in Nat, Same(M, N)
    PROVE  /\ Receipts!Apply(M, e, i) \in ReadModels
           /\ Same(Receipts!Apply(M, e, i), Receipts!Apply(N, e, i))
<1>1. e \in LogEvents /\ e.kind \in Receipts!Kinds
  BY DEF Recorded, LogEvents
<1>2. CASE e.kind = "handled"
  <2>1. e \in Rows
    BY <1>2 DEF Recorded
  <2>2. \A P : Receipts!Apply(P, e, i) = Receipts!RememberReceipt(P, e, i)
    BY <1>2 DEF Receipts!Apply
  <2>3. Remembered(M, Receipts!RememberReceipt(M, e, i), e, i)
    BY <2>1, ReceiptRemembered
  <2>4. Receipts!RememberReceipt(M, e, i) \in ReadModels
    BY <2>3 DEF Remembered, Effect
  <2> QED BY <2>1, <2>2, <2>4, SameRemembered
<1>3. CASE e.kind \in {"gap", "terminal", "rejected", "ack", "conflict", "governor_clear"}
  <2>1. Receipts!Apply(M, e, i) \in ReadModels /\ Same(Receipts!Apply(M, e, i), M)
    BY <1>1, <1>3, OthersAside
  <2>2. Same(Receipts!Apply(N, e, i), N)
    BY <1>1, <1>3, OthersAside
  <2> QED BY <2>1, <2>2 DEF Same
<1>4. CASE e.kind = "intent"
  <2>1. ASSUME NEW P \in ReadModels
        PROVE  LET A == Receipts!Apply(P, e, i)
               IN  /\ A \in ReadModels /\ A.receipts = P.receipts
                   /\ A.intents = P.intents \cup {[pay |-> e.pay, n |-> e.n]} /\ A.episodes = P.episodes
                   /\ A.badMsgs = P.badMsgs /\ A.badPays = P.badPays
                   /\ A.quarantined = P.quarantined /\ A.ambiguous = P.ambiguous
    BY <1>1, <1>4, IntentNoted
  <2> QED BY <2>1 DEF Same
<1>5. CASE e.kind = "assigned"
  <2>1. ASSUME NEW P \in ReadModels
        PROVE  LET A == Receipts!Apply(P, e, i)
               IN  /\ A \in ReadModels /\ A.receipts = P.receipts
                   /\ A.intents = P.intents /\ A.episodes = e.n
                   /\ A.badMsgs = P.badMsgs /\ A.badPays = P.badPays
                   /\ A.quarantined = P.quarantined /\ A.ambiguous = P.ambiguous
    BY <1>1, <1>5, EpisodeNoted
  <2> QED BY <2>1 DEF Same
<1> QED BY <1>1, <1>2, <1>3, <1>4, <1>5 DEF Receipts!Kinds

-----------------------------------------------------------------------------
(* What the receipts keep.                                                    *)

\* A message, a payload of which nothing contradicts the answer.
Trusted(M, m) == m \notin M.badMsgs \cup M.quarantined
Settled(M, p) == p \notin M.badPays \cup M.quarantined /\ M.ambiguous[p] = 0

\* A message has one receipt; the receipts of a settled payload agree.
OneReceiptEach(M) == \A q, r \in M.receipts : q.msg = r.msg /\ q.msg # NoMessage => q = r
Agreed(M) ==
    \A p \in Payloads : Settled(M, p) =>
        \A q, r \in M.receipts : q.pay = p /\ r.pay = p => q.reason = r.reason /\ q.n = r.n
\* An answer has its receipt, as long as it could be given again.
AnswersKept(M, T) ==
    \A t \in T :
        /\ t.id \in Messages /\ Trusted(M, t.id) =>
               \E r \in M.receipts : r.msg = t.id /\ r.reason = t.reason /\ r.n = t.n
        /\ t.id \in Payloads /\ Settled(M, t.id) =>
               \E r \in M.receipts : r.pay = t.id /\ r.reason = t.reason /\ r.n = t.n

\* A receipt that is taken out takes the answer with it.
LEMMA EffectKeepsAnswers ==
    ASSUME NEW M \in ReadModels, NEW N, NEW rs \in SUBSET Rows, NEW add, NEW ms, NEW ps, NEW marks,
           Effect(M, N, rs, add, ms, ps, marks),
           \A p \in Payloads : M.ambiguous[p] # 0 => marks[p] # 0,
           NEW T, AnswersKept(M, T)
    PROVE  AnswersKept(N, T)
<1>1. /\ N.receipts = (M.receipts \ rs) \cup add /\ N.quarantined = M.quarantined \cup Names(rs)
      /\ N.badMsgs = M.badMsgs \cup ms /\ N.badPays = M.badPays \cup ps /\ N.ambiguous = marks
  BY DEF Effect
<1>2. ASSUME NEW t \in T, t.id \in Messages, Trusted(N, t.id)
      PROVE  \E r \in N.receipts : r.msg = t.id /\ r.reason = t.reason /\ r.n = t.n
  <2>1. Trusted(M, t.id)
    BY <1>1, <1>2 DEF Trusted
  <2>2. PICK r \in M.receipts : r.msg = t.id /\ r.reason = t.reason /\ r.n = t.n
    BY <1>2, <2>1 DEF AnswersKept
  <2>3. r \notin rs
    <3>1. r \in rs => t.id \in Names(rs)
      BY <1>2, <2>2, ReceiptNames DEF Names, Receipts!Identity
    <3> QED BY <3>1, <1>1, <1>2 DEF Trusted
  <2> QED BY <2>2, <2>3, <1>1
<1>3. ASSUME NEW t \in T, t.id \in Payloads, Settled(N, t.id)
      PROVE  \E r \in N.receipts : r.pay = t.id /\ r.reason = t.reason /\ r.n = t.n
  <2>1. Settled(M, t.id)
    BY <1>1, <1>3 DEF Settled
  <2>2. PICK r \in M.receipts : r.pay = t.id /\ r.reason = t.reason /\ r.n = t.n
    BY <1>3, <2>1 DEF AnswersKept
  <2>3. r \notin rs
    <3>1. r \in rs => t.id \in Names(rs)
      BY <2>2 DEF Names
    <3> QED BY <3>1, <1>1, <1>3 DEF Settled
  <2> QED BY <2>2, <2>3, <1>1
<1> QED BY <1>2, <1>3 DEF AnswersKept

\* So does one that stays alone of its message, or with those it agrees with.
LEMMA EffectKeepsReceipts ==
    ASSUME NEW M \in ReadModels, NEW N, NEW rs \in SUBSET Rows, NEW add, NEW ms, NEW ps, NEW marks,
           Effect(M, N, rs, add, ms, ps, marks),
           \A p \in Payloads : M.ambiguous[p] # 0 => marks[p] # 0,
           OneReceiptEach(M), Agreed(M),
           \A r, q \in add : r = q,
           \A r \in add : r.msg = NoMessage \/ \A q \in M.receipts : q.msg = r.msg => q = r,
           \A r \in add : Settled(N, r.pay) =>
               \A q \in M.receipts : q.pay = r.pay => q.reason = r.reason /\ q.n = r.n
    PROVE  OneReceiptEach(N) /\ Agreed(N)
<1>1. /\ N.receipts = (M.receipts \ rs) \cup add /\ N.quarantined = M.quarantined \cup Names(rs)
      /\ N.badMsgs = M.badMsgs \cup ms /\ N.badPays = M.badPays \cup ps /\ N.ambiguous = marks
  BY DEF Effect
<1>2. OneReceiptEach(N)
  BY <1>1 DEF OneReceiptEach
<1>3. ASSUME NEW p \in Payloads, Settled(N, p), NEW q \in N.receipts, NEW r \in N.receipts,
             q.pay = p, r.pay = p
      PROVE  q.reason = r.reason /\ q.n = r.n
  <2>1. Settled(M, p)
    BY <1>1, <1>3 DEF Settled
  <2>2. \A x, y \in M.receipts : x.pay = p /\ y.pay = p => x.reason = y.reason /\ x.n = y.n
    BY <2>1 DEF Agreed
  <2>3. (q \in M.receipts \/ q \in add) /\ (r \in M.receipts \/ r \in add)
    BY <1>1
  <2> QED BY <1>3, <2>2, <2>3
<1> QED BY <1>2, <1>3 DEF Agreed

LEMMA ReceiptKeeps ==
    ASSUME NEW M \in ReadModels, NEW r \in Rows, NEW i \in Nat, i # 0,
           OneReceiptEach(M), Agreed(M)
    PROVE  LET N == Receipts!RememberReceipt(M, r, i)
           IN  /\ N \in ReadModels /\ OneReceiptEach(N) /\ Agreed(N)
               /\ \A q \in N.receipts : q \in M.receipts \/ (q = r /\ Receipts!ValidReceipt(M, r))
               /\ N.intents = M.intents /\ N.episodes = M.episodes
               /\ \/ r \in N.receipts
                  \/ {Receipts!Identity(r.msg, r.pay), r.pay} \subseteq N.quarantined
               /\ \A T : AnswersKept(M, T) => AnswersKept(N, T)
<1> DEFINE N == Receipts!RememberReceipt(M, r, i)
           B == Receipts!Fallback(M, r.pay)
           Result ==
               /\ N \in ReadModels /\ OneReceiptEach(N) /\ Agreed(N)
               /\ \A q \in N.receipts : q \in M.receipts \/ (q = r /\ Receipts!ValidReceipt(M, r))
               /\ N.intents = M.intents /\ N.episodes = M.episodes
               /\ \/ r \in N.receipts
                  \/ {Receipts!Identity(r.msg, r.pay), r.pay} \subseteq N.quarantined
               /\ \A T : AnswersKept(M, T) => AnswersKept(N, T)
<1>1. Remembered(M, N, r, i)
  BY ReceiptRemembered
<1>2. r.pay \in Payloads /\ M.receipts \in SUBSET Rows /\ M.ambiguous \in [Payloads -> Nat]
  BY ReadModelFields DEF Rows
<1>3. B \in SUBSET Rows /\ Others(M, r) \in SUBSET Rows /\ {r} \in SUBSET Rows /\ {} \in SUBSET Rows
  BY <1>2 DEF Others, Receipts!Fallback, Receipts!ByPayload, Receipts!ByMessage
<1> HIDE DEF N, B
<1>4. ASSUME NEW rs \in SUBSET Rows, NEW ms, NEW ps, Effect(M, N, rs, {}, ms, ps, M.ambiguous),
             r \in rs \/ (rs = {} /\ r \in M.receipts)
      PROVE  Result
  <2>1. OneReceiptEach(N) /\ Agreed(N)
    BY <1>4, EffectKeepsReceipts
  <2>2. \A T : AnswersKept(M, T) => AnswersKept(N, T)
    BY <1>4, EffectKeepsAnswers
  <2>3. /\ N \in ReadModels /\ N.receipts = M.receipts \ rs
        /\ N.intents = M.intents /\ N.episodes = M.episodes
        /\ N.quarantined = M.quarantined \cup Names(rs)
    BY <1>4 DEF Effect
  <2>4. r \in N.receipts \/ {Receipts!Identity(r.msg, r.pay), r.pay} \subseteq N.quarantined
    BY <1>4, <2>3 DEF Names
  <2> QED BY <2>1, <2>2, <2>3, <2>4
<1>5. ASSUME NEW rs \in SUBSET Rows, NEW ps, NEW marks,
             Effect(M, N, rs, {r}, {}, ps, marks),
             \A p \in Payloads : M.ambiguous[p] # 0 => marks[p] # 0,
             ~Refuted(M, r),
             r.msg = NoMessage \/ \A q \in M.receipts : q.msg = r.msg => q = r,
             Settled(N, r.pay) =>
                 \A q \in M.receipts : q.pay = r.pay => q.reason = r.reason /\ q.n = r.n
      PROVE  Result
  <2>1. OneReceiptEach(N) /\ Agreed(N)
    <3> DEFINE add == {r}
    <3>1. /\ \A x, y \in add : x = y
          /\ \A x \in add : x.msg = NoMessage \/ \A q \in M.receipts : q.msg = x.msg => q = x
          /\ \A x \in add : Settled(N, x.pay) =>
                 \A q \in M.receipts : q.pay = x.pay => q.reason = x.reason /\ q.n = x.n
          /\ Effect(M, N, rs, add, {}, ps, marks)
      BY <1>5
    <3> HIDE DEF add
    <3> QED BY <1>5, <3>1, EffectKeepsReceipts
  <2>2. \A T : AnswersKept(M, T) => AnswersKept(N, T)
    BY <1>5, EffectKeepsAnswers
  <2>3. /\ N \in ReadModels /\ N.receipts = (M.receipts \ rs) \cup {r}
        /\ N.intents = M.intents /\ N.episodes = M.episodes
    BY <1>5 DEF Effect
  <2>4. Receipts!ValidReceipt(M, r)
    BY <1>5 DEF Refuted
  <2> QED BY <2>1, <2>2, <2>3, <2>4
<1> HIDE DEF Result
<1>6. ASSUME Effect(M, N, {r}, {}, {}, {}, M.ambiguous) PROVE Result
  BY <1>3, <1>4, <1>6
<1>7. ASSUME r \in M.receipts /\ Effect(M, N, {}, {}, {}, {}, M.ambiguous) PROVE Result
  BY <1>3, <1>4, <1>7
<1>8. ASSUME Effect(M, N, Others(M, r) \cup {r}, {}, {r.msg}, {}, M.ambiguous) PROVE Result
  <2>1. Others(M, r) \cup {r} \in SUBSET Rows
    BY <1>3
  <2> QED BY <2>1, <1>4, <1>8
<1>9. ASSUME Effect(M, N, B \cup {r}, {}, {}, {r.pay}, M.ambiguous) PROVE Result
  <2>1. B \cup {r} \in SUBSET Rows
    BY <1>3
  <2> QED BY <2>1, <1>4, <1>9
<1>10. ASSUME ~Refuted(M, r), r.msg = NoMessage, Rivals(M, r) = {},
              Effect(M, N, {}, {r}, {}, {}, M.ambiguous)
       PROVE  Result
  <2>1. \A q \in M.receipts : q.pay = r.pay => q.reason = r.reason /\ q.n = r.n
    BY <1>10 DEF Rivals, Receipts!ByPayload, Receipts!SameDecision
  <2> QED BY <1>3, <1>5, <1>10, <2>1
<1>11. ASSUME ~Refuted(M, r), r.msg # NoMessage, Others(M, r) = {},
              Effect(M, N, Dropped(M, r), {r}, {},
                     IF Dropped(M, r) = {} THEN {} ELSE {r.pay}, Marks(M, r, i))
       PROVE  Result
  <2> DEFINE ps == IF Dropped(M, r) = {} THEN {} ELSE {r.pay}
  <2>1. \A q \in M.receipts : q.msg = r.msg => q = r
    BY <1>11 DEF Others, Receipts!ByMessage
  <2>2. \A p \in Payloads : M.ambiguous[p] # 0 => Marks(M, r, i)[p] # 0
    BY <1>2 DEF Marks
  <2>3. ASSUME Settled(N, r.pay), NEW q \in M.receipts, q.pay = r.pay
        PROVE  q.reason = r.reason /\ q.n = r.n
    <3>1. N.badPays = M.badPays \cup ps /\ N.ambiguous = Marks(M, r, i)
      BY <1>11 DEF Effect
    <3>2. Dropped(M, r) = {} /\ Marks(M, r, i)[r.pay] = 0
      BY <2>3, <3>1 DEF Settled
    <3>3. ~Doubtful(M, r) /\ M.ambiguous[r.pay] = 0
      BY <3>2, <1>2 DEF Marks
    <3>4. CASE q.msg = NoMessage
      BY <2>3, <3>2, <3>4 DEF Dropped, Receipts!Fallback, Receipts!ByPayload, Receipts!SameDecision
    <3>5. CASE q.msg # NoMessage
      BY <2>3, <3>3, <3>5 DEF Doubtful, Rivals, Receipts!ByPayload, Receipts!SameDecision
    <3> QED BY <3>4, <3>5
  <2>4. Dropped(M, r) \in SUBSET Rows
    BY <1>3 DEF Dropped, B
  <2> HIDE DEF ps
  <2>5. Effect(M, N, Dropped(M, r), {r}, {}, ps, Marks(M, r, i))
    BY <1>11 DEF ps
  <2> QED BY <1>5, <1>11, <2>1, <2>2, <2>3, <2>4, <2>5
<1>12. Result
  BY <1>1, <1>6, <1>7, <1>8, <1>9, <1>10, <1>11 DEF Remembered, B
<1> QED BY <1>12 DEF Result, N

-----------------------------------------------------------------------------
(* What the ledger keeps.                                                     *)

IntentAt(lg, i) == lg[i].kind = "intent"
\* An intent is in the read model, of an episode that was assigned; no two are of one
\* episode or of one delivery; an accepted receipt has the intent of its delivery.
IntentsNoted(M, lg) ==
    \A i \in 1..Len(lg) : IntentAt(lg, i) =>
        [pay |-> lg[i].pay, n |-> lg[i].n] \in M.intents /\ lg[i].n <= M.episodes
IntentsApart(lg) ==
    \A i, j \in 1..Len(lg) : IntentAt(lg, i) /\ IntentAt(lg, j) /\ i # j =>
        lg[i].n # lg[j].n /\ <<lg[i].msg, lg[i].pay>> # <<lg[j].msg, lg[j].pay>>
Backed(lg, r) ==
    \E i \in 1..Len(lg) :
        IntentAt(lg, i) /\ lg[i].msg = r.msg /\ lg[i].pay = r.pay /\ lg[i].n = r.n
AcceptedBacked(M, lg) == \A r \in M.receipts : r.reason = "accepted" => Backed(lg, r)

\* A definite answer.
Told == [id : Messages \cup Payloads, reason : Outcomes, n : Nat]

\* The inductive invariant of the receipts, of a read model, a ledger and the answers.
Good(M, lg, T) ==
    /\ lg \in Seq(Recorded) /\ M \in ReadModels /\ Receipts!Restored(lg) \in ReadModels
    /\ Same(M, Receipts!Restored(lg))
    /\ OneReceiptEach(M) /\ Agreed(M) /\ AnswersKept(M, T)
    /\ T \in SUBSET Told /\ \A s, t \in T : s.id = t.id => s = t
    /\ IntentsNoted(M, lg) /\ IntentsApart(lg) /\ AcceptedBacked(M, lg)

\* What the handler appends to a ledger.
Fits(M, lg, e) ==
    /\ e \in Recorded
    /\ e.kind = "assigned" => M.episodes <= e.n
    /\ e.kind = "intent" =>
           /\ e.n <= M.episodes
           /\ \A i \in 1..Len(lg) : IntentAt(lg, i) =>
                  lg[i].n < e.n /\ <<lg[i].msg, lg[i].pay>> # <<e.msg, e.pay>>
    /\ e.kind = "handled" /\ e.reason = "accepted" /\ Receipts!ValidReceipt(M, e) => Backed(lg, e)

\* The restored read model serves as well as the one in memory.
LEMMA GoodRestored ==
    ASSUME NEW M, NEW lg, NEW T, Good(M, lg, T), NEW N \in ReadModels, Same(N, Receipts!Restored(lg))
    PROVE  Good(N, lg, T)
<1>1. Same(N, M)
  BY DEF Good, Same
<1>2. OneReceiptEach(N) /\ Agreed(N) /\ AnswersKept(N, T) /\ IntentsNoted(N, lg)
      /\ AcceptedBacked(N, lg)
  BY <1>1 DEF Good, Same, OneReceiptEach, Agreed, AnswersKept, IntentsNoted, AcceptedBacked,
              Trusted, Settled
<1> QED BY <1>2 DEF Good

\* What a longer ledger holds.
LEMMA Longer ==
    ASSUME NEW lg \in Seq(Recorded), NEW e \in Recorded
    PROVE  /\ Append(lg, e) \in Seq(Recorded) /\ Len(lg) \in Nat /\ Len(Append(lg, e)) = Len(lg) + 1
           /\ Append(lg, e)[Len(lg) + 1] = e
           /\ \A i \in 1..Len(lg) : Append(lg, e)[i] = lg[i] /\ lg[i] \in Recorded
           /\ 1..(Len(lg) + 1) = 1..Len(lg) \cup {Len(lg) + 1}
           /\ \A r : Backed(lg, r) => Backed(Append(lg, e), r)
<1>1. /\ Append(lg, e) \in Seq(Recorded) /\ Len(lg) \in Nat /\ Len(Append(lg, e)) = Len(lg) + 1
      /\ Append(lg, e)[Len(lg) + 1] = e
      /\ \A i \in 1..Len(lg) : Append(lg, e)[i] = lg[i] /\ lg[i] \in Recorded
  OBVIOUS
<1>2. 1..(Len(lg) + 1) = 1..Len(lg) \cup {Len(lg) + 1}
  BY <1>1
<1> DEFINE longer == Append(lg, e)
<1>3. ASSUME NEW r, Backed(lg, r) PROVE Backed(longer, r)
  <2>1. PICK i \in 1..Len(lg) :
            IntentAt(lg, i) /\ lg[i].msg = r.msg /\ lg[i].pay = r.pay /\ lg[i].n = r.n
    BY <1>3 DEF Backed
  <2>2. i \in 1..Len(longer) /\ longer[i] = lg[i]
    BY <1>1
  <2> HIDE DEF longer
  <2> QED BY <2>1, <2>2 DEF Backed, IntentAt
<1> QED BY <1>1, <1>2, <1>3

LEMMA LedgerGrows ==
    ASSUME NEW M, NEW lg, NEW T, Good(M, lg, T), NEW e, Fits(M, lg, e)
    PROVE  Good(Receipts!Apply(M, e, Len(lg) + 1), Append(lg, e), T)
<1> DEFINE longer == Append(lg, e)
           i == Len(lg) + 1
           N == Receipts!Apply(M, e, i)
           R == Receipts!Restored(lg)
<1>1. lg \in Seq(Recorded) /\ M \in ReadModels /\ R \in ReadModels /\ Same(M, R) /\ e \in Recorded
  BY DEF Good, Fits
<1>2. /\ longer \in Seq(Recorded) /\ Len(lg) \in Nat /\ Len(longer) = Len(lg) + 1
      /\ longer[Len(lg) + 1] = e
      /\ \A k \in 1..Len(lg) : longer[k] = lg[k] /\ lg[k] \in Recorded
      /\ 1..(Len(lg) + 1) = 1..Len(lg) \cup {Len(lg) + 1}
      /\ \A r : Backed(lg, r) => Backed(longer, r)
  BY <1>1, Longer
<1>3. i \in Nat /\ i # 0
  BY <1>2
<1>4. Receipts!Restored(longer) = Receipts!Apply(R, e, i)
  BY <1>1, RestoredOneMore
<1>5. e \in LogEvents /\ e.kind \in Receipts!Kinds /\ e.n \in Nat
  BY <1>1 DEF Recorded, LogEvents
<1> HIDE DEF longer, i, R
<1>6. N \in ReadModels /\ Same(N, Receipts!Restored(longer)) /\ Receipts!Restored(longer) \in ReadModels
  <2>1. N \in ReadModels /\ Same(N, Receipts!Apply(R, e, i))
    BY <1>1, <1>3, ApplyKeepsSame
  <2>2. Receipts!Apply(R, e, i) \in ReadModels
    <3>1. Same(R, R)
      BY DEF Same
    <3> QED BY <1>1, <1>3, <3>1, ApplyKeepsSame
  <2> QED BY <1>4, <2>1, <2>2
<1>7. OneReceiptEach(N) /\ Agreed(N) /\ AnswersKept(N, T)
  <2>0. OneReceiptEach(M) /\ Agreed(M) /\ AnswersKept(M, T)
    BY DEF Good
  <2>1. CASE e.kind = "handled"
    <3>1. e \in Rows
      BY <1>1, <2>1 DEF Recorded
    <3>2. N = Receipts!RememberReceipt(M, e, i)
      BY <2>1 DEF Receipts!Apply
    <3> QED BY <1>1, <1>3, <2>0, <3>1, <3>2, ReceiptKeeps
  <2>2. CASE e.kind # "handled"
    <3>1. /\ N.receipts = M.receipts /\ N.badMsgs = M.badMsgs /\ N.badPays = M.badPays
          /\ N.quarantined = M.quarantined /\ N.ambiguous = M.ambiguous
      <4>1. CASE e.kind \in {"gap", "terminal", "rejected", "ack", "conflict", "governor_clear"}
        BY <1>1, <1>3, <1>5, <4>1, OthersAside DEF Same
      <4>2. CASE e.kind = "intent"
        BY <1>1, <1>3, <1>5, <4>2, IntentNoted
      <4>3. CASE e.kind = "assigned"
        BY <1>1, <1>3, <1>5, <4>3, EpisodeNoted
      <4> QED BY <1>5, <2>2, <4>1, <4>2, <4>3 DEF Receipts!Kinds
    <3> HIDE DEF N
    <3> QED BY <2>0, <3>1 DEF OneReceiptEach, Agreed, AnswersKept, Trusted, Settled
  <2> QED BY <2>1, <2>2
<1>8. /\ \A x \in M.intents : x \in N.intents
      /\ M.episodes <= N.episodes
      /\ e.kind = "intent" => [pay |-> e.pay, n |-> e.n] \in N.intents /\ N.episodes = M.episodes
      /\ \A q \in N.receipts : \/ q \in M.receipts
                               \/ q = e /\ e.kind = "handled" /\ Receipts!ValidReceipt(M, e)
  <2>0. M.episodes \in Nat
    BY <1>1, ReadModelFields
  <2>1. CASE e.kind = "handled"
    <3>1. e \in Rows
      BY <1>1, <2>1 DEF Recorded
    <3>2. N = Receipts!RememberReceipt(M, e, i)
      BY <2>1 DEF Receipts!Apply
    <3>3. OneReceiptEach(M) /\ Agreed(M)
      BY DEF Good
    <3>4. /\ N.intents = M.intents /\ N.episodes = M.episodes
          /\ \A q \in N.receipts : q \in M.receipts \/ (q = e /\ Receipts!ValidReceipt(M, e))
      BY <1>1, <1>3, <3>1, <3>2, <3>3, ReceiptKeeps
    <3> HIDE DEF N
    <3> QED BY <2>0, <2>1, <3>4
  <2>2. CASE e.kind \in {"gap", "terminal", "rejected", "ack", "conflict", "governor_clear"}
    <3>1. N.intents = M.intents /\ N.episodes = M.episodes /\ N.receipts = M.receipts
      BY <1>1, <1>3, <1>5, <2>2, OthersAside DEF Same
    <3> HIDE DEF N
    <3> QED BY <2>0, <2>2, <3>1
  <2>3. CASE e.kind = "intent"
    <3>1. /\ N.intents = M.intents \cup {[pay |-> e.pay, n |-> e.n]}
          /\ N.episodes = M.episodes /\ N.receipts = M.receipts
      BY <1>1, <1>3, <1>5, <2>3, IntentNoted
    <3> HIDE DEF N
    <3> QED BY <2>0, <2>3, <3>1
  <2>4. CASE e.kind = "assigned"
    <3>1. N.intents = M.intents /\ N.episodes = e.n /\ N.receipts = M.receipts
      BY <1>1, <1>3, <1>5, <2>4, EpisodeNoted
    <3>2. M.episodes <= e.n
      BY <2>4 DEF Fits
    <3> HIDE DEF N
    <3> QED BY <2>0, <2>4, <3>1, <3>2
  <2> QED BY <1>5, <2>1, <2>2, <2>3, <2>4 DEF Receipts!Kinds
<1> HIDE DEF N
<1>9. IntentsNoted(N, longer)
  <2>1. ASSUME NEW k \in 1..Len(longer), IntentAt(longer, k)
        PROVE  [pay |-> longer[k].pay, n |-> longer[k].n] \in N.intents
               /\ longer[k].n <= N.episodes
    <3>1. CASE k \in 1..Len(lg)
      <4>1. longer[k] = lg[k] /\ lg[k].n \in Nat
        BY <1>2, <3>1 DEF Recorded, LogEvents
      <4>2. [pay |-> lg[k].pay, n |-> lg[k].n] \in M.intents /\ lg[k].n <= M.episodes
        BY <2>1, <3>1, <4>1 DEF Good, IntentsNoted, IntentAt
      <4>3. M.episodes \in Nat /\ N.episodes \in Nat
        BY <1>1, <1>6, ReadModelFields
      <4> QED BY <1>8, <4>1, <4>2, <4>3
    <3>2. CASE k = Len(lg) + 1
      <4>1. longer[k] = e /\ e.kind = "intent"
        BY <1>2, <2>1, <3>2 DEF IntentAt
      <4>2. e.n <= M.episodes
        BY <4>1 DEF Fits
      <4> QED BY <1>8, <4>1, <4>2
    <3> QED BY <1>2, <3>1, <3>2
  <2> QED BY <2>1 DEF IntentsNoted
<1>10. IntentsApart(longer)
  <2>1. ASSUME NEW k \in 1..Len(longer), NEW j \in 1..Len(longer),
               IntentAt(longer, k), IntentAt(longer, j), k # j
        PROVE  /\ longer[k].n # longer[j].n
               /\ <<longer[k].msg, longer[k].pay>> # <<longer[j].msg, longer[j].pay>>
    <3>1. CASE k \in 1..Len(lg) /\ j \in 1..Len(lg)
      BY <1>2, <2>1, <3>1 DEF Good, IntentsApart, IntentAt
    <3>2. ASSUME NEW x \in 1..Len(lg), IntentAt(longer, x), e.kind = "intent"
          PROVE  longer[x].n # e.n /\ <<longer[x].msg, longer[x].pay>> # <<e.msg, e.pay>>
      <4>1. longer[x] = lg[x] /\ lg[x].n \in Nat
        BY <1>2 DEF Recorded, LogEvents
      <4>2. lg[x].n < e.n /\ <<lg[x].msg, lg[x].pay>> # <<e.msg, e.pay>>
        BY <3>2, <4>1 DEF Fits, IntentAt
      <4> QED BY <1>5, <4>1, <4>2
    <3>3. CASE k = Len(lg) + 1 /\ j \in 1..Len(lg)
      BY <1>2, <2>1, <3>2, <3>3 DEF IntentAt
    <3>4. CASE j = Len(lg) + 1 /\ k \in 1..Len(lg)
      BY <1>2, <2>1, <3>2, <3>4 DEF IntentAt
    <3> QED BY <1>2, <2>1, <3>1, <3>3, <3>4
  <2> QED BY <2>1 DEF IntentsApart
<1>11. AcceptedBacked(N, longer)
  BY <1>2, <1>8 DEF AcceptedBacked, Good, Fits
<1>12. T \in SUBSET Told /\ \A s, t \in T : s.id = t.id => s = t
  BY DEF Good
<1> QED BY <1>2, <1>6, <1>7, <1>9, <1>10, <1>11, <1>12 DEF Good, N, longer, i

\* Events an answer does not rest on may be appended whenever the lane likes.
LEMMA OthersFit ==
    ASSUME NEW M, NEW lg, NEW e \in LogEvents,
           e.kind \in {"gap", "terminal", "rejected", "ack", "conflict", "governor_clear"}
    PROVE  Fits(M, lg, e)
BY DEF Fits, Recorded

\* An answer is told that its receipt gives.
Represented(M, t) ==
    /\ t.id \in Messages /\ Trusted(M, t.id) =>
           \E r \in M.receipts : r.msg = t.id /\ r.reason = t.reason /\ r.n = t.n
    /\ t.id \in Payloads /\ Settled(M, t.id) =>
           \E r \in M.receipts : r.pay = t.id /\ r.reason = t.reason /\ r.n = t.n

LEMMA AnswerTold ==
    ASSUME NEW M, NEW lg, NEW T, Good(M, lg, T), NEW t \in Told, Represented(M, t),
           \A s \in T : s.id = t.id => s = t
    PROVE  Good(M, lg, T \cup {t})
<1>1. AnswersKept(M, T \cup {t})
  BY DEF Good, AnswersKept, Represented
<1>2. \A x, y \in T \cup {t} : x.id = y.id => x = y
  BY DEF Good
<1> QED BY <1>1, <1>2 DEF Good

\* What the fold of a delivery does: it applies what was appended to the ledger lg.
LEMMA FoldGrows ==
    ASSUME NEW M, NEW lg \in Seq(Recorded), NEW longer \in Seq(Recorded), Len(lg) <= Len(longer),
           NEW P, P = Receipts!ApplyFrom(M, longer, Len(lg)), NEW T, NEW e,
           Good(P, longer, T), Fits(P, longer, e)
    PROVE  /\ Append(longer, e) \in Seq(Recorded) /\ Len(lg) <= Len(Append(longer, e))
           /\ Receipts!ApplyFrom(M, Append(longer, e), Len(lg))
                = Receipts!Apply(P, e, Len(longer) + 1)
           /\ Good(Receipts!Apply(P, e, Len(longer) + 1), Append(longer, e), T)
<1>1. e \in Recorded
  BY DEF Fits
<1>2. Append(longer, e) \in Seq(Recorded) /\ Len(longer) \in Nat /\ Len(lg) \in Nat
      /\ Len(Append(longer, e)) = Len(longer) + 1
  BY <1>1, Longer
<1>3. Len(lg) \in 0..Len(longer)
  BY <1>2
<1>4. Receipts!ApplyFrom(M, Append(longer, e), Len(lg)) = Receipts!Apply(P, e, Len(longer) + 1)
  BY <1>1, <1>3, ApplyOneMore
<1>5. Good(Receipts!Apply(P, e, Len(longer) + 1), Append(longer, e), T)
  BY LedgerGrows
<1>6. Len(lg) <= Len(Append(longer, e))
  BY <1>2
<1> QED BY <1>2, <1>4, <1>5, <1>6

LEMMA FoldStarts ==
    ASSUME NEW M, NEW lg \in Seq(Recorded), NEW T, Good(M, lg, T)
    PROVE  Receipts!ApplyFrom(M, lg, Len(lg)) = M /\ Len(lg) <= Len(lg) /\ Len(lg) \in Nat
<1>1. Len(lg) \in Nat
  OBVIOUS
<1> QED BY <1>1, ApplyNothing

\* The prefixes of one and of three appended events.
LEMMA OneAppended ==
    ASSUME NEW lg \in Seq(Recorded), NEW a \in Recorded
    PROVE  /\ lg \o <<a>> = Append(lg, a) /\ Len(<<a>>) = 1 /\ <<a>>[1] = a
           /\ lg \o SubSeq(<<a>>, 1, 0) = lg
OBVIOUS

LEMMA ThreeAppended ==
    ASSUME NEW lg \in Seq(Recorded), NEW a \in Recorded, NEW b \in Recorded, NEW c \in Recorded
    PROVE  LET d == <<a, b, c>>
           IN  /\ lg \o d = Append(Append(Append(lg, a), b), c) /\ Len(d) = 3
               /\ d[1] = a /\ d[2] = b /\ d[3] = c
               /\ lg \o SubSeq(d, 1, 0) = lg
               /\ lg \o SubSeq(d, 1, 1) = Append(lg, a)
               /\ lg \o SubSeq(d, 1, 2) = Append(Append(lg, a), b)
<1> DEFINE d == <<a, b, c>>
<1>1. Len(d) = 3 /\ d[1] = a /\ d[2] = b /\ d[3] = c /\ d \in Seq(Recorded)
  OBVIOUS
<1>2. lg \o d = Append(Append(Append(lg, a), b), c)
  OBVIOUS
<1>3. SubSeq(d, 1, 0) = <<>>
  OBVIOUS
<1>4. ASSUME NEW n \in 1..2, NEW t \in Seq(Recorded), Len(t) = n, \A i \in 1..n : t[i] = d[i]
      PROVE  SubSeq(d, 1, n) = t
  <2> HIDE DEF d
  <2>1. \A i \in 1..n : d[i] \in Recorded
    BY <1>1
  <2>2. /\ SubSeq(d, 1, n) \in Seq(Recorded) /\ Len(SubSeq(d, 1, n)) = n
        /\ \A i \in 1..n : SubSeq(d, 1, n)[i] = d[i]
    BY <2>1, SubSeqProperties
  <2> QED BY <1>4, <2>2, SeqEqual
<1>5. SubSeq(d, 1, 1) = <<a>> /\ SubSeq(d, 1, 2) = <<a, b>>
  <2>1. <<a>> \in Seq(Recorded) /\ Len(<<a>>) = 1 /\ \A i \in 1..1 : <<a>>[i] = d[i]
    OBVIOUS
  <2>2. <<a, b>> \in Seq(Recorded) /\ Len(<<a, b>>) = 2 /\ \A i \in 1..2 : <<a, b>>[i] = d[i]
    OBVIOUS
  <2>3. 1 \in 1..2 /\ 2 \in 1..2
    OBVIOUS
  <2> HIDE DEF d
  <2>4. SubSeq(d, 1, 1) = <<a>>
    BY <1>4, <2>1, <2>3
  <2>5. SubSeq(d, 1, 2) = <<a, b>>
    BY <1>4, <2>2, <2>3
  <2> QED BY <2>4, <2>5
<1>6. lg \o <<>> = lg /\ lg \o <<a>> = Append(lg, a) /\ lg \o <<a, b>> = Append(Append(lg, a), b)
  OBVIOUS
<1> QED BY <1>1, <1>2, <1>3, <1>4, <1>5, <1>6

-----------------------------------------------------------------------------
(* A decision.                                                                *)

\* A delivery of which nothing is decided yet.
Unanswered(M, m, p) ==
    /\ m \in Msgs /\ p \in Payloads
    /\ Receipts!Unreceipted(M, p) = {}
    /\ m # NoMessage => Trusted(M, m) /\ \A r \in M.receipts : r.msg # m
    /\ m = NoMessage => Settled(M, p) /\ \A r \in M.receipts : r.pay # p

LEMMA NotTold ==
    ASSUME NEW M, NEW lg, NEW T, Good(M, lg, T), NEW m, NEW p, Unanswered(M, m, p), NEW t \in T
    PROVE  t.id # Receipts!Identity(m, p)
<1>1. CASE m # NoMessage
  BY <1>1 DEF Unanswered, Msgs, Good, AnswersKept, Receipts!Identity
<1>2. CASE m = NoMessage
  BY <1>2 DEF Unanswered, Good, AnswersKept, Receipts!Identity
<1> QED BY <1>1, <1>2

LEMMA NoIntentYet ==
    ASSUME NEW M, NEW lg, NEW T, Good(M, lg, T), NEW m, NEW p, Unanswered(M, m, p),
           NEW i \in 1..Len(lg), IntentAt(lg, i)
    PROVE  lg[i].n < M.episodes + 1 /\ <<lg[i].msg, lg[i].pay>> # <<m, p>>
<1>1. lg[i] \in Recorded /\ lg[i].n \in Nat /\ M.episodes \in Nat
  BY ReadModelFields DEF Good, Recorded, LogEvents
<1>2. [pay |-> lg[i].pay, n |-> lg[i].n] \in M.intents /\ lg[i].n <= M.episodes
  BY DEF Good, IntentsNoted
<1>3. ASSUME lg[i].msg = m, lg[i].pay = p PROVE FALSE
  <2> DEFINE x == [pay |-> lg[i].pay, n |-> lg[i].n]
  <2>1. x \in M.intents /\ x.pay = p /\ x.n = lg[i].n
    BY <1>2, <1>3
  <2>2. x \notin Receipts!Unreceipted(M, p)
    BY DEF Unanswered
  <2> HIDE DEF x
  <2>3. PICK r \in M.receipts : r.reason = "accepted" /\ r.pay = x.pay /\ r.n = x.n
    BY <2>1, <2>2 DEF Receipts!Unreceipted
  <2>4. PICK j \in 1..Len(lg) :
            IntentAt(lg, j) /\ lg[j].msg = r.msg /\ lg[j].pay = r.pay /\ lg[j].n = r.n
    BY <2>3 DEF Good, AcceptedBacked, Backed
  <2>5. i = j
    BY <2>1, <2>3, <2>4 DEF Good, IntentsApart
  <2>6. r.msg = m /\ r.pay = p
    BY <1>3, <2>1, <2>3, <2>4, <2>5
  <2> QED BY <2>6 DEF Unanswered
<1> QED BY <1>1, <1>2, <1>3

\* The answer that is given last of a decision is the one its receipt gives.
LEMMA DecisionTold ==
    ASSUME NEW M, NEW lg, NEW T, Good(M, lg, T), NEW e \in Rows, Fits(M, lg, e),
           \A t \in T : t.id # Receipts!Identity(e.msg, e.pay)
    PROVE  Good(Receipts!Apply(M, e, Len(lg) + 1), Append(lg, e),
                T \cup {[id |-> Receipts!Identity(e.msg, e.pay), reason |-> e.reason, n |-> e.n]})
<1> DEFINE i == Len(lg) + 1
           N == Receipts!Apply(M, e, i)
           t == [id |-> Receipts!Identity(e.msg, e.pay), reason |-> e.reason, n |-> e.n]
<1>1. M \in ReadModels /\ OneReceiptEach(M) /\ Agreed(M) /\ lg \in Seq(Recorded)
  BY DEF Good
<1>2. i \in Nat /\ i # 0
  BY <1>1
<1>3. N = Receipts!RememberReceipt(M, e, i)
  BY DEF Receipts!Apply, Rows
<1> HIDE DEF i
<1>4. e \in N.receipts \/ {Receipts!Identity(e.msg, e.pay), e.pay} \subseteq N.quarantined
  BY <1>1, <1>2, <1>3, ReceiptKeeps
<1>5. Good(N, Append(lg, e), T)
  BY LedgerGrows DEF i
<1> HIDE DEF N
<1>6. e.msg \in Msgs /\ e.pay \in Payloads
  BY DEF Rows
<1>7. Represented(N, t)
  <2>1. t.id = Receipts!Identity(e.msg, e.pay) /\ t.reason = e.reason /\ t.n = e.n
    OBVIOUS
  <2> HIDE DEF t
  <2>2. CASE {Receipts!Identity(e.msg, e.pay), e.pay} \subseteq N.quarantined
    BY <2>1, <2>2 DEF Represented, Trusted, Settled
  <2>3. CASE e \in N.receipts
    <3>1. (t.id \in Messages => e.msg = t.id) /\ (t.id \in Payloads => e.pay = t.id)
      BY <1>6, <2>1, ReceiptNames DEF Receipts!Identity, Msgs
    <3> QED BY <2>1, <2>3, <3>1 DEF Represented
  <2> QED BY <1>4, <2>2, <2>3
<1>8. \A s \in T : s.id # t.id
  OBVIOUS
<1>10. t \in Told
  BY <1>6 DEF Told, Rows, Msgs, Receipts!Identity
<1> HIDE DEF t
<1>9. Good(N, Append(lg, e), T \cup {t})
  BY <1>5, <1>7, <1>8, <1>10, AnswerTold
<1> QED BY <1>9 DEF N, t, i

\* A receipt, as the ledger holds it.
LEMMA HandledRecorded ==
    ASSUME NEW m \in Msgs, NEW p \in Payloads, NEW reason \in Outcomes, NEW n \in Nat
    PROVE  LET e == Receipts!Event("handled", m, p, reason, n)
           IN  /\ e \in Recorded /\ e \in Rows /\ e.kind = "handled" /\ e.msg = m /\ e.pay = p
               /\ e.reason = reason /\ e.n = n
BY DEF Receipts!Event, Receipts!Kinds, Recorded, LogEvents, Rows, Pays, Words

\* A decision is one event, or three.
LEMMA OneOrThree ==
    ASSUME NEW M, NEW m, NEW p, NEW d \in Receipts!Decisions(M, m, p)
    PROVE  \/ d = <<Receipts!Event("handled", m, p, "expired", 0)>>
           \/ d = <<Receipts!Event("handled", m, p, "duplicate", M.episodes)>>
           \/ \E kind, reason :
                 /\ \/ kind = "terminal" /\ reason = "refused"
                    \/ kind = "intent" /\ reason = "accepted"
                 /\ d = <<Receipts!Event("assigned", m, p, "", M.episodes + 1),
                          Receipts!Event(kind, m, p, "", M.episodes + 1),
                          Receipts!Event("handled", m, p, reason, M.episodes + 1)>>
BY DEF Receipts!Decisions

\* Each prefix of a decision leaves the receipts good, and so does its answer.
DecisionGood(M, lg, T, m, p, d) ==
    /\ Len(d) \in Nat
    /\ \A k \in 0..(Len(d) - 1) :
          Good(Receipts!ApplyFrom(M, lg \o SubSeq(d, 1, k), Len(lg)), lg \o SubSeq(d, 1, k), T)
    /\ Good(Receipts!ApplyFrom(M, lg \o d, Len(lg)), lg \o d,
            T \cup {[id |-> Receipts!Identity(m, p), reason |-> d[Len(d)].reason, n |-> d[Len(d)].n]})

LEMMA OneEventGood ==
    ASSUME NEW M, NEW lg, NEW T, Good(M, lg, T), NEW m, NEW p, Unanswered(M, m, p),
           NEW reason \in {"expired", "duplicate"}, NEW n \in Nat
    PROVE  DecisionGood(M, lg, T, m, p, <<Receipts!Event("handled", m, p, reason, n)>>)
<1> DEFINE e == Receipts!Event("handled", m, p, reason, n)
           d == <<e>>
<1>1. m \in Msgs /\ p \in Payloads /\ lg \in Seq(Recorded) /\ M \in ReadModels
  BY DEF Unanswered, Good
<1>2. /\ e \in Recorded /\ e \in Rows /\ e.kind = "handled" /\ e.msg = m /\ e.pay = p
      /\ e.reason = reason /\ e.n = n
  BY <1>1, HandledRecorded DEF Outcomes
<1> HIDE DEF e
<1>3. /\ lg \o d = Append(lg, e) /\ Len(d) = 1 /\ d[1] = e
      /\ lg \o SubSeq(d, 1, 0) = lg
  BY <1>1, <1>2, OneAppended
<1>4. Receipts!ApplyFrom(M, lg, Len(lg)) = M /\ Len(lg) <= Len(lg) /\ Len(lg) \in Nat
  BY <1>1, FoldStarts
<1>5. Fits(M, lg, e)
  BY <1>2 DEF Fits
<1>6. Receipts!ApplyFrom(M, Append(lg, e), Len(lg)) = Receipts!Apply(M, e, Len(lg) + 1)
  <2>1. M = Receipts!ApplyFrom(M, lg, Len(lg)) /\ Len(lg) <= Len(lg)
    BY <1>4
  <2>2. /\ Append(lg, e) \in Seq(Recorded) /\ Len(lg) <= Len(Append(lg, e))
        /\ Receipts!ApplyFrom(M, Append(lg, e), Len(lg)) = Receipts!Apply(M, e, Len(lg) + 1)
        /\ Good(Receipts!Apply(M, e, Len(lg) + 1), Append(lg, e), T)
    BY <1>1, <1>5, <2>1, FoldGrows
  <2> QED BY <2>2
<1>7. \A t \in T : t.id # Receipts!Identity(e.msg, e.pay)
  BY <1>2, NotTold
<1>8. Good(Receipts!Apply(M, e, Len(lg) + 1), Append(lg, e),
           T \cup {[id |-> Receipts!Identity(e.msg, e.pay), reason |-> e.reason, n |-> e.n]})
  BY <1>2, <1>5, <1>7, DecisionTold
<1> HIDE DEF d
<1>9. ASSUME NEW k \in 0..(Len(d) - 1)
      PROVE  Good(Receipts!ApplyFrom(M, lg \o SubSeq(d, 1, k), Len(lg)), lg \o SubSeq(d, 1, k), T)
  <2>1. k = 0
    BY <1>3
  <2> QED BY <1>3, <1>4, <2>1
<1>10. Good(Receipts!ApplyFrom(M, lg \o d, Len(lg)), lg \o d,
            T \cup {[id |-> Receipts!Identity(m, p), reason |-> d[Len(d)].reason,
                     n |-> d[Len(d)].n]})
  <2>1. d[Len(d)] = e
    BY <1>3
  <2> QED BY <1>2, <1>3, <1>6, <1>8, <2>1
<1>11. Len(d) \in Nat
  BY <1>3
<1>12. DecisionGood(M, lg, T, m, p, d)
  BY <1>9, <1>10, <1>11 DEF DecisionGood
<1> QED BY <1>12 DEF d, e

LEMMA ThreeEventsGood ==
    ASSUME NEW M, NEW lg, NEW T, Good(M, lg, T), NEW m, NEW p, Unanswered(M, m, p),
           NEW kind, NEW reason,
           \/ kind = "terminal" /\ reason = "refused"
           \/ kind = "intent" /\ reason = "accepted"
    PROVE  DecisionGood(M, lg, T, m, p,
                        <<Receipts!Event("assigned", m, p, "", M.episodes + 1),
                          Receipts!Event(kind, m, p, "", M.episodes + 1),
                          Receipts!Event("handled", m, p, reason, M.episodes + 1)>>)
<1> DEFINE n == M.episodes + 1
           a == Receipts!Event("assigned", m, p, "", n)
           b == Receipts!Event(kind, m, p, "", n)
           c == Receipts!Event("handled", m, p, reason, n)
           d == <<a, b, c>>
           l1 == Append(lg, a)
           l2 == Append(l1, b)
           l3 == Append(l2, c)
           P1 == Receipts!ApplyFrom(M, l1, Len(lg))
           P2 == Receipts!ApplyFrom(M, l2, Len(lg))
           P3 == Receipts!ApplyFrom(M, l3, Len(lg))
<1>1. /\ m \in Msgs /\ p \in Payloads /\ p \in Pays /\ lg \in Seq(Recorded) /\ M \in ReadModels
      /\ M.episodes \in Nat /\ n \in Nat /\ M.episodes <= n
  BY ReadModelFields DEF Unanswered, Good, Pays
<1> HIDE DEF n
<1>2. /\ a \in Recorded /\ a \in LogEvents /\ a.kind = "assigned" /\ a.n = n
      /\ b \in Recorded /\ b \in LogEvents /\ b.kind = kind /\ b.msg = m /\ b.pay = p /\ b.n = n
  <2>1. /\ kind \in Receipts!Kinds \ {"handled"}
        /\ "assigned" \in Receipts!Kinds \ {"handled"}
    BY DEF Receipts!Kinds
  <2>2. /\ a \in Recorded /\ a \in LogEvents /\ a.kind = "assigned" /\ a.n = n
    BY <1>1, <2>1 DEF Receipts!Event, Recorded, LogEvents, Words
  <2>3. /\ b \in Recorded /\ b \in LogEvents /\ b.kind = kind /\ b.msg = m /\ b.pay = p
        /\ b.n = n
    BY <1>1, <2>1 DEF Receipts!Event, Recorded, LogEvents, Words
  <2> HIDE DEF a, b
  <2> QED BY <2>2, <2>3
<1>3. /\ c \in Recorded /\ c \in Rows /\ c.kind = "handled" /\ c.msg = m /\ c.pay = p
      /\ c.reason = reason /\ c.n = n
  <2>1. reason \in Outcomes
    BY DEF Outcomes
  <2> QED BY <1>1, <2>1, HandledRecorded
<1> HIDE DEF a, b, c
<1>4. /\ lg \o d = l3 /\ Len(d) = 3 /\ d[3] = c
      /\ lg \o SubSeq(d, 1, 0) = lg /\ lg \o SubSeq(d, 1, 1) = l1 /\ lg \o SubSeq(d, 1, 2) = l2
  BY <1>1, <1>2, <1>3, ThreeAppended
<1> HIDE DEF d
<1>5. Receipts!ApplyFrom(M, lg, Len(lg)) = M /\ Len(lg) <= Len(lg) /\ Len(lg) \in Nat
  BY <1>1, FoldStarts
<1>6. Fits(M, lg, a)
  BY <1>1, <1>2 DEF Fits
<1>7. l1 \in Seq(Recorded) /\ Len(lg) <= Len(l1) /\ Good(P1, l1, T) /\ P1.episodes = n
  <2>2. /\ l1 \in Seq(Recorded) /\ Len(lg) <= Len(l1)
        /\ P1 = Receipts!Apply(M, a, Len(lg) + 1)
        /\ Good(Receipts!Apply(M, a, Len(lg) + 1), l1, T)
    BY <1>1, <1>5, <1>6, FoldGrows
  <2>3. Receipts!Apply(M, a, Len(lg) + 1).episodes = n
    <3>1. Len(lg) + 1 \in Nat
      BY <1>5
    <3> QED BY <1>1, <1>2, <3>1, EpisodeNoted
  <2> HIDE DEF P1, l1
  <2> QED BY <2>2, <2>3
<1>8. /\ Len(lg) \in Nat /\ Len(l1) = Len(lg) + 1 /\ l1[Len(lg) + 1] = a
      /\ \A i \in 1..Len(lg) : l1[i] = lg[i]
      /\ 1..(Len(lg) + 1) = 1..Len(lg) \cup {Len(lg) + 1}
  BY <1>1, <1>2, Longer
<1> HIDE DEF P1, l1
<1>9. Fits(P1, l1, b)
  <2>1. ASSUME NEW i \in 1..Len(l1), IntentAt(l1, i)
        PROVE  l1[i].n < n /\ <<l1[i].msg, l1[i].pay>> # <<m, p>>
    <3>1. i \in 1..Len(lg)
      BY <1>2, <1>8, <2>1 DEF IntentAt
    <3>2. IntentAt(lg, i) /\ l1[i] = lg[i]
      BY <1>8, <2>1, <3>1 DEF IntentAt
    <3> QED BY <3>1, <3>2, NoIntentYet DEF n
  <2>2. n <= P1.episodes
    BY <1>1, <1>7
  <2> QED BY <1>2, <2>1, <2>2 DEF Fits
<1>10. l2 \in Seq(Recorded) /\ Len(lg) <= Len(l2) /\ Good(P2, l2, T)
  <2>1. P1 = Receipts!ApplyFrom(M, l1, Len(lg))
    BY DEF P1
  <2>2. /\ l2 \in Seq(Recorded) /\ Len(lg) <= Len(l2)
        /\ P2 = Receipts!Apply(P1, b, Len(l1) + 1)
        /\ Good(Receipts!Apply(P1, b, Len(l1) + 1), l2, T)
    BY <1>1, <1>7, <1>9, <2>1, FoldGrows
  <2> HIDE DEF P2, l2
  <2> QED BY <2>2
<1>11. Len(l1) \in Nat /\ Len(l2) = Len(l1) + 1 /\ l2[Len(l1) + 1] = b
  BY <1>2, <1>7, Longer
<1> HIDE DEF P2, l2
<1>12. Fits(P2, l2, c)
  <2>1. kind = "intent" => Backed(l2, c)
    <3>1. Len(l2) \in 1..Len(l2) /\ l2[Len(l2)] = b
      BY <1>11
    <3> QED BY <1>2, <1>3, <3>1 DEF Backed, IntentAt
  <2> QED BY <1>3, <2>1 DEF Fits
<1>13. P3 = Receipts!Apply(P2, c, Len(l2) + 1)
  <2>1. P2 = Receipts!ApplyFrom(M, l2, Len(lg))
    BY DEF P2
  <2>2. /\ l3 \in Seq(Recorded) /\ Len(lg) <= Len(l3)
        /\ P3 = Receipts!Apply(P2, c, Len(l2) + 1)
        /\ Good(Receipts!Apply(P2, c, Len(l2) + 1), l3, T)
    BY <1>1, <1>10, <1>12, <2>1, FoldGrows
  <2> QED BY <2>2
<1>14. \A t \in T : t.id # Receipts!Identity(c.msg, c.pay)
  BY <1>3, NotTold
<1>15. Good(P3, l3, T \cup {[id |-> Receipts!Identity(m, p), reason |-> c.reason, n |-> c.n]})
  BY <1>3, <1>10, <1>12, <1>13, <1>14, DecisionTold
<1> HIDE DEF P3, l3
<1>16. ASSUME NEW k \in 0..(Len(d) - 1)
       PROVE  Good(Receipts!ApplyFrom(M, lg \o SubSeq(d, 1, k), Len(lg)), lg \o SubSeq(d, 1, k), T)
  <2>1. k = 0 \/ k = 1 \/ k = 2
    BY <1>4
  <2>2. CASE k = 0
    BY <1>4, <1>5, <2>2
  <2>3. CASE k = 1
    BY <1>4, <1>7, <2>3 DEF P1
  <2>4. CASE k = 2
    BY <1>4, <1>10, <2>4 DEF P2
  <2> QED BY <2>1, <2>2, <2>3, <2>4
<1>17. DecisionGood(M, lg, T, m, p, d)
  BY <1>4, <1>15, <1>16 DEF DecisionGood, P3
<1> QED BY <1>17 DEF d, a, b, c, n

LEMMA DecisionKeeps ==
    ASSUME NEW M, NEW lg, NEW T, Good(M, lg, T), NEW m, NEW p, Unanswered(M, m, p),
           NEW d \in Receipts!Decisions(M, m, p)
    PROVE  DecisionGood(M, lg, T, m, p, d)
<1>1. M.episodes \in Nat
  BY ReadModelFields DEF Good
<1>2. CASE d = <<Receipts!Event("handled", m, p, "expired", 0)>>
  BY <1>2, OneEventGood
<1>3. CASE d = <<Receipts!Event("handled", m, p, "duplicate", M.episodes)>>
  BY <1>1, <1>3, OneEventGood
<1>4. ASSUME NEW kind, NEW reason,
             \/ kind = "terminal" /\ reason = "refused"
             \/ kind = "intent" /\ reason = "accepted",
             d = <<Receipts!Event("assigned", m, p, "", M.episodes + 1),
                   Receipts!Event(kind, m, p, "", M.episodes + 1),
                   Receipts!Event("handled", m, p, reason, M.episodes + 1)>>
      PROVE  DecisionGood(M, lg, T, m, p, d)
  BY <1>4, ThreeEventsGood
<1>5. \/ d = <<Receipts!Event("handled", m, p, "expired", 0)>>
      \/ d = <<Receipts!Event("handled", m, p, "duplicate", M.episodes)>>
      \/ \E kind, reason :
            /\ \/ kind = "terminal" /\ reason = "refused"
               \/ kind = "intent" /\ reason = "accepted"
            /\ d = <<Receipts!Event("assigned", m, p, "", M.episodes + 1),
                     Receipts!Event(kind, m, p, "", M.episodes + 1),
                     Receipts!Event("handled", m, p, reason, M.episodes + 1)>>
  BY OneOrThree
<1> QED BY <1>2, <1>3, <1>4, <1>5

-----------------------------------------------------------------------------
(* A delivery.                                                                *)

\* Evidence whose append failed.
Evidenced == {e \in LogEvents : e.kind \in {"gap", "rejected"}}
\* What the inductive invariant says of the next state.
After ==
    Good(receiptsMemory', receiptsLog', receiptsTold') /\ receiptsPending' \in SUBSET Evidenced

LEMMA AsideAppended ==
    ASSUME NEW M, NEW lg, NEW T, Good(M, lg, T), NEW e \in LogEvents,
           e.kind \in {"gap", "terminal", "rejected", "ack", "conflict", "governor_clear"}
    PROVE  /\ Append(lg, e) = lg \o <<e>> /\ Len(Append(lg, e)) = Len(lg) + 1
           /\ Receipts!ApplyFrom(M, lg \o <<e>>, Len(lg)) = Receipts!Apply(M, e, Len(lg) + 1)
           /\ Good(Receipts!Apply(M, e, Len(lg) + 1), Append(lg, e), T)
<1>1. Fits(M, lg, e)
  BY OthersFit
<1>2. Good(Receipts!Apply(M, e, Len(lg) + 1), Append(lg, e), T)
  BY <1>1, LedgerGrows
<1>3. e \in Recorded /\ lg \in Seq(Recorded)
  BY <1>1 DEF Fits, Good
<1>4. Append(lg, e) = lg \o <<e>> /\ Len(Append(lg, e)) = Len(lg) + 1
  BY <1>3, OneAppended, Longer
<1>5. Len(lg) \in Nat /\ Len(lg) \in 0..Len(lg)
  BY <1>3
<1>6. Receipts!ApplyFrom(M, Append(lg, e), Len(lg)) = Receipts!Apply(M, e, Len(lg) + 1)
  BY <1>3, <1>5, ApplyOneMore, ApplyNothing
<1> QED BY <1>2, <1>4, <1>6

LEMMA EvidenceKeeps ==
    ASSUME NEW M, NEW lg, NEW pend \in SUBSET Evidenced, NEW e \in Evidenced,
           Good(M, lg, receiptsTold), Receipts!Evidence(M, lg, pend, e), Receipts!NoAnswer
    PROVE  After
<1>1. receiptsTold' = receiptsTold
  BY DEF Receipts!NoAnswer
<1>2. e \in LogEvents /\ e.kind \in {"gap", "rejected"}
  BY DEF Evidenced
<1>3. CASE Receipts!Commit(M, lg, <<e>>) /\ receiptsPending' = pend
  <2>1. /\ receiptsLog' = lg \o <<e>>
        /\ receiptsMemory' = Receipts!ApplyFrom(M, lg \o <<e>>, Len(lg))
    BY <1>3 DEF Receipts!Commit, Receipts!Keep
  <2>2. /\ Append(lg, e) = lg \o <<e>>
        /\ Receipts!ApplyFrom(M, lg \o <<e>>, Len(lg)) = Receipts!Apply(M, e, Len(lg) + 1)
        /\ Good(Receipts!Apply(M, e, Len(lg) + 1), Append(lg, e), receiptsTold)
    BY <1>2, AsideAppended
  <2> QED BY <1>1, <1>3, <2>1, <2>2 DEF After
<1>4. CASE Receipts!Keep(lg, M) /\ receiptsPending' = pend \cup {e}
  BY <1>1, <1>4 DEF After, Receipts!Keep
<1> QED BY <1>3, <1>4 DEF Receipts!Evidence

LEMMA ContradictedKeeps ==
    ASSUME NEW M, NEW lg, NEW m \in Msgs, NEW p \in Pays, NEW stored \in Pays,
           Good(M, lg, receiptsTold), Receipts!Contradicted(M, lg, m, p, stored)
    PROVE  Good(receiptsMemory', receiptsLog', receiptsTold')
<1> DEFINE e == Receipts!Event("conflict", m, p, stored, 0)
<1>1. receiptsTold' = receiptsTold
  BY DEF Receipts!Contradicted, Receipts!NoAnswer
<1>2. Receipts!Keep(lg, M) \/ Receipts!Commit(M, lg, <<e>>)
  BY DEF Receipts!Contradicted
<1>3. e \in LogEvents /\ e.kind = "conflict"
  BY DEF Receipts!Event, LogEvents, Receipts!Kinds, Words
<1> HIDE DEF e
<1>4. CASE Receipts!Keep(lg, M)
  BY <1>1, <1>4 DEF Receipts!Keep
<1>5. CASE Receipts!Commit(M, lg, <<e>>)
  <2>1. /\ receiptsLog' = lg \o <<e>>
        /\ receiptsMemory' = Receipts!ApplyFrom(M, lg \o <<e>>, Len(lg))
    BY <1>5 DEF Receipts!Commit, Receipts!Keep
  <2>2. /\ Append(lg, e) = lg \o <<e>>
        /\ Receipts!ApplyFrom(M, lg \o <<e>>, Len(lg)) = Receipts!Apply(M, e, Len(lg) + 1)
        /\ Good(Receipts!Apply(M, e, Len(lg) + 1), Append(lg, e), receiptsTold)
    BY <1>3, AsideAppended
  <2> QED BY <1>1, <2>1, <2>2
<1> QED BY <1>2, <1>4, <1>5

\* The appends of a decision, the answer or what a failure leaves.
LEMMA DecideKeeps ==
    ASSUME NEW M, NEW lg, NEW pend \in SUBSET Evidenced, NEW m, NEW p,
           Good(M, lg, receiptsTold), Unanswered(M, m, p), Receipts!Decide(M, lg, pend, m, p)
    PROVE  After
<1>1. PICK d \in Receipts!Decisions(M, m, p) :
        \/ /\ Receipts!Commit(M, lg, d)
           /\ Receipts!Answered(Receipts!Identity(m, p), d[Len(d)])
           /\ receiptsPending' = pend
        \/ \E k \in 1..Len(d) :
            LET lgk == lg \o SubSeq(d, 1, k - 1)
                Mk == Receipts!ApplyFrom(M, lgk, Len(lg))
                gap == Receipts!Event("gap", m, p, "", 0)
            IN  /\ Receipts!NoAnswer
                /\ \/ Receipts!Keep(lgk, Mk) /\ receiptsPending' = pend
                   \/ Receipts!Commit(Mk, lgk, <<gap>>) /\ receiptsPending' = pend
                   \/ Receipts!Keep(lgk, Mk) /\ receiptsPending' = pend \cup {gap}
        \/ \E k \in 1..(Len(d) - 1) :
            /\ receiptsLog' = lg \o SubSeq(d, 1, k)
            /\ receiptsMemory' = Receipts!Restored(receiptsLog')
            /\ receiptsPending' = {} /\ Receipts!NoAnswer
  BY DEF Receipts!Decide
<1>2. DecisionGood(M, lg, receiptsTold, m, p, d)
  BY DecisionKeeps
<1>3. CASE /\ Receipts!Commit(M, lg, d)
           /\ Receipts!Answered(Receipts!Identity(m, p), d[Len(d)])
           /\ receiptsPending' = pend
  <2>1. /\ receiptsLog' = lg \o d /\ receiptsMemory' = Receipts!ApplyFrom(M, lg \o d, Len(lg))
        /\ receiptsTold' = receiptsTold \cup {[id |-> Receipts!Identity(m, p),
                               reason |-> d[Len(d)].reason, n |-> d[Len(d)].n]}
    BY <1>3 DEF Receipts!Commit, Receipts!Keep, Receipts!Answered
  <2>2. Good(Receipts!ApplyFrom(M, lg \o d, Len(lg)), lg \o d,
             receiptsTold \cup {[id |-> Receipts!Identity(m, p),
                                 reason |-> d[Len(d)].reason, n |-> d[Len(d)].n]})
    BY <1>2 DEF DecisionGood
  <2> QED BY <1>3, <2>1, <2>2 DEF After
<1>4. ASSUME NEW k \in 1..Len(d), NEW lgk, NEW Mk, NEW gap,
             lgk = lg \o SubSeq(d, 1, k - 1), Mk = Receipts!ApplyFrom(M, lgk, Len(lg)),
             gap = Receipts!Event("gap", m, p, "", 0),
             Receipts!NoAnswer,
             \/ Receipts!Keep(lgk, Mk) /\ receiptsPending' = pend
             \/ Receipts!Commit(Mk, lgk, <<gap>>) /\ receiptsPending' = pend
             \/ Receipts!Keep(lgk, Mk) /\ receiptsPending' = pend \cup {gap}
      PROVE  After
  <2>1. k - 1 \in 0..(Len(d) - 1)
    BY <1>2 DEF DecisionGood
  <2>2. Good(Mk, lgk, receiptsTold)
    BY <1>2, <1>4, <2>1 DEF DecisionGood
  <2>3. gap \in Evidenced
    BY <1>4 DEF Unanswered, Receipts!Event, Evidenced, LogEvents, Receipts!Kinds, Pays, Words
  <2>4. receiptsTold' = receiptsTold
    BY <1>4 DEF Receipts!NoAnswer
  <2>5. CASE Receipts!Keep(lgk, Mk)
    BY <1>4, <2>2, <2>3, <2>4, <2>5 DEF After, Receipts!Keep
  <2>6. CASE Receipts!Commit(Mk, lgk, <<gap>>) /\ receiptsPending' = pend
    <3>1. /\ receiptsLog' = lgk \o <<gap>>
          /\ receiptsMemory' = Receipts!ApplyFrom(Mk, lgk \o <<gap>>, Len(lgk))
      BY <2>6 DEF Receipts!Commit, Receipts!Keep
    <3>2. gap \in LogEvents /\ gap.kind \in {"gap", "rejected"}
      BY <2>3 DEF Evidenced
    <3>3. /\ Append(lgk, gap) = lgk \o <<gap>>
          /\ Receipts!ApplyFrom(Mk, lgk \o <<gap>>, Len(lgk)) = Receipts!Apply(Mk, gap, Len(lgk) + 1)
          /\ Good(Receipts!Apply(Mk, gap, Len(lgk) + 1), Append(lgk, gap), receiptsTold)
      BY <2>2, <3>2, AsideAppended
    <3> QED BY <2>4, <2>6, <3>1, <3>3 DEF After
  <2> QED BY <1>4, <2>5, <2>6
<1>5. ASSUME NEW k \in 1..(Len(d) - 1),
             receiptsLog' = lg \o SubSeq(d, 1, k),
             receiptsMemory' = Receipts!Restored(receiptsLog'),
             receiptsPending' = {}, Receipts!NoAnswer
      PROVE  After
  <2> DEFINE lgk == lg \o SubSeq(d, 1, k)
             Mk == Receipts!ApplyFrom(M, lgk, Len(lg))
  <2>1. k \in 0..(Len(d) - 1)
    BY <1>2 DEF DecisionGood
  <2>2. Good(Mk, lgk, receiptsTold)
    BY <1>2, <2>1 DEF DecisionGood
  <2> HIDE DEF Mk
  <2>3. receiptsLog' = lgk /\ receiptsMemory' = Receipts!Restored(lgk) /\ receiptsTold' = receiptsTold
    BY <1>5 DEF Receipts!NoAnswer
  <2> HIDE DEF lgk
  <2>4. Receipts!Restored(lgk) \in ReadModels /\ Same(Receipts!Restored(lgk), Receipts!Restored(lgk))
    BY <2>2 DEF Good, Same
  <2>5. Good(Receipts!Restored(lgk), lgk, receiptsTold)
    BY <2>2, <2>4, GoodRestored
  <2> QED BY <1>5, <2>3, <2>5 DEF After
<1> QED BY <1>1, <1>3, <1>4, <1>5

\* A receipt is given again to whoever it is of.
LEMMA ReceiptTold ==
    ASSUME NEW M, NEW lg, NEW T, Good(M, lg, T), NEW m \in Msgs, NEW p \in Payloads,
           NEW r \in M.receipts, r.pay = p,
           m # NoMessage => r.msg = m /\ Trusted(M, m),
           m = NoMessage => Settled(M, p)
    PROVE  Good(M, lg, T \cup {[id |-> Receipts!Identity(m, p), reason |-> r.reason, n |-> r.n]})
<1> DEFINE t == [id |-> Receipts!Identity(m, p), reason |-> r.reason, n |-> r.n]
<1>1. r \in Rows /\ r.reason \in Outcomes /\ r.n \in Nat
  BY ReadModelFields DEF Good, Rows
<1>2. t \in Told
  BY <1>1 DEF Told, Msgs, Receipts!Identity
<1>3. t.id = Receipts!Identity(m, p) /\ t.reason = r.reason /\ t.n = r.n
  OBVIOUS
<1>4. ASSUME NEW s \in T, s.id = t.id PROVE s = t
  <2>1. s \in Told
    BY DEF Good
  <2>2. s.reason = t.reason /\ s.n = t.n
    <3> HIDE DEF t
    <3>1. CASE m # NoMessage
      <4>1. s.id = m /\ m \in Messages
        BY <1>3, <1>4, <3>1 DEF Receipts!Identity, Msgs
      <4>2. PICK q \in M.receipts : q.msg = m /\ q.reason = s.reason /\ q.n = s.n
        BY <3>1, <4>1 DEF Good, AnswersKept
      <4>3. q = r
        BY <3>1, <4>2 DEF Good, OneReceiptEach
      <4> QED BY <1>3, <4>2, <4>3
    <3>2. CASE m = NoMessage
      <4>1. s.id = p
        BY <1>3, <1>4, <3>2 DEF Receipts!Identity
      <4>2. PICK q \in M.receipts : q.pay = p /\ q.reason = s.reason /\ q.n = s.n
        BY <3>2, <4>1 DEF Good, AnswersKept
      <4>3. q.reason = r.reason /\ q.n = r.n
        BY <3>2, <4>2 DEF Good, Agreed
      <4> QED BY <1>3, <4>2, <4>3
    <3> QED BY <3>1, <3>2
  <2> HIDE DEF t
  <2>3. s = [id |-> s.id, reason |-> s.reason, n |-> s.n]
    BY <2>1 DEF Told
  <2>4. t = [id |-> t.id, reason |-> t.reason, n |-> t.n]
    BY <1>2 DEF Told
  <2> QED BY <1>4, <2>2, <2>3, <2>4
<1>5. Represented(M, t)
  <2> HIDE DEF t
  <2>1. CASE m # NoMessage
    <3>1. t.id = m /\ m \in Messages /\ m \notin Payloads
      BY <1>3, <2>1, ReceiptNames DEF Receipts!Identity, Msgs
    <3> QED BY <1>3, <2>1, <3>1 DEF Represented
  <2>2. CASE m = NoMessage
    <3>1. t.id = p /\ p \notin Messages
      BY <1>3, <2>2, ReceiptNames DEF Receipts!Identity
    <3> QED BY <1>3, <2>2, <3>1 DEF Represented
  <2> QED BY <2>1, <2>2
<1> HIDE DEF t
<1>6. Good(M, lg, T \cup {t})
  BY <1>2, <1>4, <1>5, AnswerTold
<1> QED BY <1>6 DEF t

\* A delivery is answered as before, or its decision is recorded.
LEMMA AnswerKeeps ==
    ASSUME NEW M, NEW lg, NEW pend \in SUBSET Evidenced, NEW m \in Msgs, NEW p \in Pays,
           NEW replayed, Good(M, lg, receiptsTold),
           Receipts!Answer(M, lg, pend, m, p, replayed)
    PROVE  After
<1> DEFINE id == Receipts!Identity(m, p)
           mine == IF m # NoMessage THEN Receipts!ByMessage(M, m)
                   ELSE IF p \in M.badPays THEN {} ELSE Receipts!ByPayload(M, p)
           ambiguous == m = NoMessage /\ M.ambiguous[p] # 0
<1>1. M \in ReadModels /\ M.receipts \in SUBSET Rows /\ M.ambiguous \in [Payloads -> Nat]
  BY ReadModelFields DEF Good
<1>2. ASSUME NEW N, Good(N, lg, receiptsTold), Receipts!Keep(lg, N), Receipts!NoAnswer,
             receiptsPending' = pend
      PROVE  After
  BY <1>2 DEF After, Receipts!Keep, Receipts!NoAnswer
<1>3. CASE Receipts!Rejected(M, m, p) \/ Receipts!Quarantined(M, m, p)
  <2>1. Receipts!Same(M, lg, pend) /\ Receipts!NoAnswer
    BY <1>3 DEF Receipts!Answer
  <2> QED BY <1>2, <2>1 DEF Receipts!Same
<1>4. CASE ~(Receipts!Rejected(M, m, p) \/ Receipts!Quarantined(M, m, p)) /\ p = BadPayload
  <2> DEFINE e == Receipts!Event("rejected", m, BadPayload, "", 0)
  <2>1. Receipts!RejectPayload(M, lg, pend, m)
    BY <1>4 DEF Receipts!Answer
  <2>2. Receipts!Evidence(M, lg, pend, e) /\ Receipts!NoAnswer
    BY <2>1 DEF Receipts!RejectPayload
  <2>3. e \in Evidenced
    BY DEF Receipts!Event, Evidenced, LogEvents, Receipts!Kinds, Pays, Words
  <2> HIDE DEF e
  <2> QED BY <2>2, <2>3, EvidenceKeeps
<1>5. CASE ~(Receipts!Rejected(M, m, p) \/ Receipts!Quarantined(M, m, p)) /\ p # BadPayload
  <2>1. p \in Payloads
    BY <1>5 DEF Pays
  <2>2. /\ m # NoMessage => m \in Messages /\ Trusted(M, m)
        /\ m = NoMessage => p \notin M.quarantined \cup M.badPays
    BY <1>5 DEF Receipts!Quarantined, Trusted, Msgs
  <2>3. CASE ambiguous
    <3> DEFINE N == Receipts!Incident(M, M.ambiguous[p])
    <3>1. Receipts!Same(N, lg, pend) /\ Receipts!NoAnswer
      BY <1>5, <2>3 DEF Receipts!Answer
    <3>2. M.ambiguous[p] \in Nat
      BY <1>1, <2>1
    <3>3. N \in ReadModels /\ Same(N, M)
      BY <1>1, <3>2, IncidentAside
    <3> HIDE DEF N
    <3>4. Same(N, Receipts!Restored(lg))
      BY <3>3 DEF Good, Same
    <3>5. Good(N, lg, receiptsTold)
      BY <3>3, <3>4, GoodRestored
    <3> QED BY <1>2, <3>1, <3>5 DEF Receipts!Same
  <2>4. CASE ~ambiguous /\ mine # {}
    <3>1. PICK r \in mine :
              IF r.pay # p THEN Receipts!Contradicted(M, lg, m, p, r.pay) /\ receiptsPending' = pend
              ELSE Receipts!Same(M, lg, pend) /\ Receipts!Answered(id, r)
      BY <1>5, <2>4 DEF Receipts!Answer
    <3>2. /\ r \in M.receipts /\ (m # NoMessage => r.msg = m)
          /\ m = NoMessage => p \notin M.badPays
      BY <3>1 DEF Receipts!ByMessage, Receipts!ByPayload
    <3>3. r.pay \in Pays
      BY <1>1, <3>2 DEF Rows, Pays
    <3>4. CASE r.pay # p
      <4>1. Receipts!Contradicted(M, lg, m, p, r.pay) /\ receiptsPending' = pend
        BY <3>1, <3>4
      <4> QED BY <3>3, <4>1, ContradictedKeeps DEF After
    <3>5. CASE r.pay = p
      <4>1. m = NoMessage => Settled(M, p)
        BY <2>2, <2>4 DEF Settled
      <4>2. Good(M, lg, receiptsTold \cup {[id |-> id, reason |-> r.reason, n |-> r.n]})
        BY <2>1, <2>2, <3>2, <3>5, <4>1, ReceiptTold
      <4>3. Receipts!Same(M, lg, pend) /\ Receipts!Answered(id, r)
        BY <3>1, <3>5
      <4>4. /\ receiptsLog' = lg /\ receiptsMemory' = M /\ receiptsPending' = pend
            /\ receiptsTold' = receiptsTold \cup {[id |-> id, reason |-> r.reason, n |-> r.n]}
        BY <4>3 DEF Receipts!Same, Receipts!Keep, Receipts!Answered
      <4> QED BY <4>2, <4>4 DEF After
    <3> QED BY <3>4, <3>5
  <2>5. CASE ~ambiguous /\ mine = {} /\ Receipts!Gap(M, id) # {}
    <3>1. PICK g \in Receipts!Gap(M, id) :
              IF g.pay # p THEN Receipts!Contradicted(M, lg, m, p, g.pay) /\ receiptsPending' = pend
              ELSE Receipts!Same(M, lg, pend) /\ Receipts!NoAnswer
      BY <1>5, <2>5 DEF Receipts!Answer
    <3>2. g.pay \in Pays
      BY <1>1, ReadModelFields DEF Receipts!Gap
    <3>3. CASE g.pay # p
      <4>1. Receipts!Contradicted(M, lg, m, p, g.pay) /\ receiptsPending' = pend
        BY <3>1, <3>3
      <4> QED BY <3>2, <4>1, ContradictedKeeps DEF After
    <3>4. CASE g.pay = p
      BY <1>2, <3>1, <3>4 DEF Receipts!Same
    <3> QED BY <3>3, <3>4
  <2>6. CASE /\ ~ambiguous /\ mine = {} /\ Receipts!Gap(M, id) = {}
             /\ Receipts!Unreceipted(M, p) # {}
    <3>1. Receipts!Same(M, lg, pend) /\ Receipts!NoAnswer
      BY <1>5, <2>6 DEF Receipts!Answer
    <3> QED BY <1>2, <3>1 DEF Receipts!Same
  <2>7. CASE /\ ~ambiguous /\ mine = {} /\ Receipts!Gap(M, id) = {}
             /\ Receipts!Unreceipted(M, p) = {} /\ replayed
    <3> DEFINE e == Receipts!Event("gap", m, p, "", 0)
    <3>1. Receipts!Evidence(M, lg, pend, e) /\ Receipts!NoAnswer
      BY <1>5, <2>7 DEF Receipts!Answer
    <3>2. e \in Evidenced
      BY DEF Receipts!Event, Evidenced, LogEvents, Receipts!Kinds, Words
    <3> HIDE DEF e
    <3> QED BY <3>1, <3>2, EvidenceKeeps
  <2>8. CASE /\ ~ambiguous /\ mine = {} /\ Receipts!Gap(M, id) = {}
             /\ Receipts!Unreceipted(M, p) = {} /\ ~replayed
    <3>1. Receipts!Decide(M, lg, pend, m, p)
      BY <1>5, <2>8 DEF Receipts!Answer
    <3>2. m # NoMessage => \A r \in M.receipts : r.msg # m
      BY <2>8 DEF Receipts!ByMessage
    <3>3. m = NoMessage => Settled(M, p) /\ \A r \in M.receipts : r.pay # p
      BY <2>2, <2>8 DEF Receipts!ByPayload, Settled
    <3>4. Unanswered(M, m, p)
      BY <2>1, <2>2, <2>8, <3>2, <3>3 DEF Unanswered
    <3> QED BY <3>1, <3>4, DecideKeeps
  <2> QED BY <2>3, <2>4, <2>5, <2>6, <2>7, <2>8
<1> QED BY <1>3, <1>4, <1>5

\* The restored read model of the same ledger.
LEMMA RestoredGood ==
    ASSUME NEW M, NEW lg, NEW T, Good(M, lg, T)
    PROVE  Good(Receipts!Restored(lg), lg, T)
<1>1. Receipts!Restored(lg) \in ReadModels /\ Same(Receipts!Restored(lg), Receipts!Restored(lg))
  BY DEF Good, Same
<1> QED BY <1>1, GoodRestored

LEMMA HandleKeeps ==
    ASSUME NEW m \in Msgs, NEW p \in Pays, NEW replayed,
           Good(receiptsMemory, receiptsLog, receiptsTold), receiptsPending \in SUBSET Evidenced,
           Receipts!HandleCandidate(m, p, replayed)
    PROVE  After
<1>1. PICK base : base = IF receiptsStale THEN Receipts!Restored(receiptsLog) ELSE receiptsMemory
  OBVIOUS
<1>2. PICK lg : lg = receiptsLog
  OBVIOUS
<1>3. PICK pend : pend = receiptsPending
  OBVIOUS
<1>4. Good(base, lg, receiptsTold) /\ pend \in SUBSET Evidenced
  BY <1>1, <1>2, <1>3, RestoredGood
<1>5. \/ Receipts!Answer(base, lg, pend, m, p, replayed)
      \/ \E e \in pend :
            \/ Receipts!Answer(Receipts!Apply(base, e, Len(Append(lg, e))), Append(lg, e),
                               pend \ {e}, m, p, replayed)
            \/ Receipts!Raised(base, lg) /\ receiptsPending' = pend
  BY <1>1, <1>2, <1>3 DEF Receipts!HandleCandidate
<1>6. CASE Receipts!Answer(base, lg, pend, m, p, replayed)
  BY <1>4, <1>6, AnswerKeeps
<1>7. ASSUME NEW e \in pend,
             Receipts!Answer(Receipts!Apply(base, e, Len(Append(lg, e))), Append(lg, e),
                             pend \ {e}, m, p, replayed)
      PROVE  After
  <2>1. e \in LogEvents /\ e.kind \in {"gap", "rejected"}
    BY <1>4 DEF Evidenced
  <2> DEFINE N == Receipts!Apply(base, e, Len(Append(lg, e)))
             longer == Append(lg, e)
             left == pend \ {e}
  <2>2. Len(longer) = Len(lg) + 1 /\ Good(Receipts!Apply(base, e, Len(lg) + 1), longer, receiptsTold)
    BY <1>4, <2>1, AsideAppended
  <2>3. Good(N, longer, receiptsTold)
    BY <2>2
  <2>4. left \in SUBSET Evidenced /\ Receipts!Answer(N, longer, left, m, p, replayed)
    BY <1>4, <1>7
  <2> HIDE DEF N, longer, left
  <2> QED BY <2>3, <2>4, AnswerKeeps
<1>8. CASE Receipts!Raised(base, lg) /\ receiptsPending' = pend
  BY <1>4, <1>8 DEF After, Receipts!Raised, Receipts!Keep, Receipts!NoAnswer
<1> QED BY <1>5, <1>6, <1>7, <1>8

\* The operators acknowledge an incident or reconcile the governor.
LEMMA AsideKeeps ==
    ASSUME NEW e \in LogEvents, e.kind \in {"ack", "governor_clear"},
           Good(receiptsMemory, receiptsLog, receiptsTold), receiptsPending \in SUBSET Evidenced,
           receiptsLog' = Append(receiptsLog, e),
           receiptsMemory' = Receipts!Apply(receiptsMemory, e, Len(receiptsLog')),
           UNCHANGED <<receiptsPending, receiptsTold>>
    PROVE  After
<1>1. PICK M : M = receiptsMemory
  OBVIOUS
<1>2. PICK lg : lg = receiptsLog
  OBVIOUS
<1>3. PICK T : T = receiptsTold
  OBVIOUS
<1>4. Len(Append(lg, e)) = Len(lg) + 1 /\ Good(Receipts!Apply(M, e, Len(lg) + 1), Append(lg, e), T)
  BY <1>1, <1>2, <1>3, AsideAppended
<1>5. receiptsMemory' = Receipts!Apply(M, e, Len(lg) + 1) /\ receiptsLog' = Append(lg, e)
      /\ receiptsTold' = T
  BY <1>1, <1>2, <1>3, <1>4
<1> QED BY <1>4, <1>5 DEF After

\* The ledger of another version.
LEMMA OldReceiptGood ==
    ASSUME NEW M, NEW lg, Good(M, lg, {}), M.intents = {}, NEW e \in Receipts!OldReceipts
    PROVE  LET N == Receipts!Apply(M, e, Len(lg) + 1)
           IN  Good(N, Append(lg, e), {}) /\ N.intents = {}
<1>1. e \in Rows /\ e \in Recorded /\ e.kind = "handled"
  <2>1. PICK reason \in {"expired", "accepted"}, n \in {0, 1}, m \in Messages, p \in Payloads :
            e = [kind |-> "handled", msg |-> m, pay |-> p, reason |-> reason, n |-> n]
    BY DEF Receipts!OldReceipts
  <2>2. e \in Rows /\ e.kind = "handled"
    BY <2>1 DEF Rows, Msgs, Outcomes
  <2>3. e \in LogEvents
    <3>1. m \in Msgs /\ p \in Pays /\ n \in Nat
      BY DEF Msgs, Pays
    <3>3. reason \in Words
      <4>1. reason \in Outcomes
        BY DEF Outcomes
      <4> QED BY <4>1 DEF Words
    <3>2. "handled" \in Receipts!Kinds
      BY DEF Receipts!Kinds
    <3> QED BY <2>1, <3>1, <3>2, <3>3 DEF LogEvents
  <2> QED BY <2>2, <2>3 DEF Recorded
<1>2. e.reason = "accepted" => ~Receipts!ValidReceipt(M, e)
  BY DEF Receipts!ValidReceipt
<1>3. Fits(M, lg, e)
  BY <1>1, <1>2 DEF Fits
<1>4. Good(Receipts!Apply(M, e, Len(lg) + 1), Append(lg, e), {})
  BY <1>3, LedgerGrows
<1>5. Receipts!Apply(M, e, Len(lg) + 1).intents = {}
  <2> DEFINE i == Len(lg) + 1
  <2>1. i \in Nat /\ i # 0 /\ M \in ReadModels /\ OneReceiptEach(M) /\ Agreed(M)
    BY DEF Good
  <2> HIDE DEF i
  <2>2. Receipts!Apply(M, e, i) = Receipts!RememberReceipt(M, e, i)
    BY <1>1 DEF Receipts!Apply
  <2>3. Receipts!RememberReceipt(M, e, i).intents = M.intents
    BY <1>1, <2>1, ReceiptKeeps
  <2>4. Receipts!Apply(M, e, i).intents = {}
    BY <2>2, <2>3
  <2> QED BY <2>4 DEF i
<1> QED BY <1>4, <1>5

LEMMA BlankGood == Good(Receipts!Blank, <<>>, {}) /\ Receipts!Blank.intents = {}
<1>1. Receipts!Blank \in ReadModels
  BY DEF Receipts!Blank, ReadModels
<1>2. <<>> \in Seq(Recorded) /\ Len(<<>>) = 0
  OBVIOUS
<1>3. Receipts!Blank.receipts = {} /\ Receipts!Blank.intents = {}
  BY DEF Receipts!Blank
<1>4. Same(Receipts!Blank, Receipts!Restored(<<>>)) /\ Receipts!Restored(<<>>) \in ReadModels
  BY <1>1, RestoredNothing DEF Same
<1>5. 1..Len(<<>>) = {}
  BY <1>2
<1>6. IntentsNoted(Receipts!Blank, <<>>) /\ IntentsApart(<<>>) /\ AcceptedBacked(Receipts!Blank, <<>>)
  BY <1>3, <1>5 DEF IntentsNoted, IntentsApart, AcceptedBacked
<1>7. OneReceiptEach(Receipts!Blank) /\ Agreed(Receipts!Blank) /\ AnswersKept(Receipts!Blank, {})
  BY <1>3 DEF OneReceiptEach, Agreed, AnswersKept
<1> QED BY <1>1, <1>2, <1>3, <1>4, <1>6, <1>7 DEF Good

LEMMA OldLedgerGood ==
    ASSUME NEW k \in 0..2, NEW old \in [1..k -> Receipts!OldReceipts]
    PROVE  Good(Receipts!Restored(old), old, {})
<1>1. CASE k = 0
  <2>1. old = <<>>
    BY <1>1
  <2> QED BY <2>1, BlankGood, RestoredGood
<1>2. CASE k = 1
  <2>1. old[1] \in Receipts!OldReceipts /\ old = Append(<<>>, old[1])
    BY <1>2
  <2>2. PICK N : Good(N, Append(<<>>, old[1]), {})
    BY <2>1, BlankGood, OldReceiptGood
  <2> QED BY <2>1, <2>2, RestoredGood
<1>3. CASE k = 2
  <2> DEFINE a == old[1]
             b == old[2]
             one == Append(<<>>, a)
  <2>1. a \in Receipts!OldReceipts /\ b \in Receipts!OldReceipts /\ old = Append(one, b)
    BY <1>3
  <2> HIDE DEF a, b, one
  <2>2. PICK N : Good(N, one, {}) /\ N.intents = {}
    BY <2>1, BlankGood, OldReceiptGood DEF one
  <2>3. Good(Receipts!Apply(N, b, Len(one) + 1), Append(one, b), {})
    BY <2>1, <2>2, OldReceiptGood
  <2> QED BY <2>1, <2>3, RestoredGood
<1> QED BY <1>1, <1>2, <1>3

\* The inductive invariant of the receipts.
AnswersInv ==
    Good(receiptsMemory, receiptsLog, receiptsTold) /\ receiptsPending \in SUBSET Evidenced

LEMMA AnswersInvStep == AnswersInv /\ [Receipts!Next]_(Receipts!vars) => AnswersInv'
<1> SUFFICES ASSUME AnswersInv, [Receipts!Next]_(Receipts!vars) PROVE AnswersInv'
  OBVIOUS
<1> USE DEF AnswersInv
<1>1. ASSUME After PROVE AnswersInv'
  BY <1>1 DEF After
<1>2. CASE UNCHANGED Receipts!vars
  BY <1>2 DEF Receipts!vars
<1>3. ASSUME NEW m \in Messages \cup {NoMessage}, NEW p \in Payloads \cup {BadPayload},
             NEW replayed \in BOOLEAN, Receipts!HandleCandidate(m, p, replayed)
      PROVE  AnswersInv'
  <2>1. m \in Msgs /\ p \in Pays
    BY DEF Msgs, Pays
  <2> QED BY <1>1, <1>3, <2>1, HandleKeeps
<1>4. CASE Receipts!Acknowledge
  <2> DEFINE e == Receipts!Event("ack", NoMessage, BadPayload, "", Head(receiptsMemory.queue))
  <2>1. Head(receiptsMemory.queue) \in Nat
    <3>1. receiptsMemory.queue \in Seq(Nat) /\ receiptsMemory.queue # <<>>
      BY <1>4, ReadModelFields DEF Good, Receipts!Acknowledge
    <3> QED BY <3>1
  <2>2. e \in LogEvents /\ e.kind \in {"ack", "governor_clear"}
    BY <2>1 DEF Receipts!Event, LogEvents, Receipts!Kinds, Words, Msgs, Pays
  <2>3. /\ receiptsLog' = Append(receiptsLog, e)
        /\ receiptsMemory' = Receipts!Apply(receiptsMemory, e, Len(receiptsLog'))
        /\ UNCHANGED <<receiptsPending, receiptsTold>>
    BY <1>4 DEF Receipts!Acknowledge
  <2>4. PICK x : x = e
    OBVIOUS
  <2> HIDE DEF e
  <2>5. After
    BY <2>2, <2>3, <2>4, AsideKeeps
  <2> QED BY <1>1, <2>5
<1>5. CASE Receipts!GovernorCleared
  <2> DEFINE e == Receipts!Event("governor_clear", NoMessage, BadPayload, "", 0)
  <2>1. e \in LogEvents /\ e.kind \in {"ack", "governor_clear"}
    BY DEF Receipts!Event, LogEvents, Receipts!Kinds, Words, Msgs, Pays
  <2>2. /\ receiptsLog' = Append(receiptsLog, e)
        /\ receiptsMemory' = Receipts!Apply(receiptsMemory, e, Len(receiptsLog'))
        /\ UNCHANGED <<receiptsPending, receiptsTold>>
    BY <1>5 DEF Receipts!GovernorCleared
  <2> HIDE DEF e
  <2>3. After
    BY <2>1, <2>2, AsideKeeps
  <2> QED BY <1>1, <2>3
<1>6. CASE Receipts!OtherAppend
  BY <1>6 DEF Receipts!OtherAppend
<1>7. CASE Receipts!Restart
  <2>1. PICK lg : lg = receiptsLog
    OBVIOUS
  <2>2. Good(Receipts!Restored(lg), lg, receiptsTold)
    BY <2>1, RestoredGood
  <2>3. /\ receiptsMemory' = Receipts!Restored(lg) /\ receiptsLog' = lg
        /\ receiptsTold' = receiptsTold /\ receiptsPending' = {}
    BY <1>7, <2>1 DEF Receipts!Restart
  <2> QED BY <2>2, <2>3
<1> QED BY <1>2, <1>3, <1>4, <1>5, <1>6, <1>7 DEF Receipts!Next

\* Asked again about a candidate, by its message or by its payload, the lane answers as
\* before, and no delivery opens two intents: for every number of candidates and
\* whatever append failed, wherever the process died (handle_candidate).
THEOREM AnswersAreHonest == Receipts!Spec => []ReceiptsHonest
<1>1. Receipts!Init => AnswersInv
  <2> SUFFICES ASSUME Receipts!Init PROVE AnswersInv
    OBVIOUS
  <2>1. PICK old \in UNION {[1..k -> Receipts!OldReceipts] : k \in 0..2} : receiptsLog = old
    BY DEF Receipts!Init
  <2>2. PICK k \in 0..2 : old \in [1..k -> Receipts!OldReceipts]
    OBVIOUS
  <2>3. Good(Receipts!Restored(old), old, {})
    BY <2>2, OldLedgerGood
  <2>4. receiptsMemory = Receipts!Restored(old) /\ receiptsTold = {} /\ receiptsPending = {}
    BY <2>1 DEF Receipts!Init
  <2> QED BY <2>1, <2>3, <2>4 DEF AnswersInv
<1>2. AnswersInv => ReceiptsHonest
  <2> SUFFICES ASSUME AnswersInv PROVE ReceiptsHonest
    OBVIOUS
  <2>1. DOMAIN receiptsLog = 1..Len(receiptsLog)
    BY DEF AnswersInv, Good
  <2>2. IntentsApart(receiptsLog)
    BY DEF AnswersInv, Good
  <2>3. Receipts!OneIntentEach
    BY <2>1, <2>2 DEF Receipts!OneIntentEach, IntentsApart, IntentAt
  <2>4. Receipts!AnswersStable
    BY DEF AnswersInv, Good, Receipts!AnswersStable
  <2> QED BY <2>3, <2>4 DEF ReceiptsHonest, Receipts!ReceiptsHonest
<1> QED BY <1>1, <1>2, AnswersInvStep, PTL DEF Receipts!Spec
==============================================================================
