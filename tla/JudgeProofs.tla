--------------------------- MODULE JudgeProofs -------------------------------
(* Proofs about the judge.  JudgeSlots, for any symbols, caps and bounds and    *)
(* any number of restarts: a deferred entry is dispatched once (EnteredOnce),  *)
(* and the caps of the slot types hold (CapsHold).  JudgeGates: no order went  *)
(* around a gate (NoGateBypassed).  JudgePlan: a plan pays (PlanPays).         *)
(* JudgeScore: long and short are judged alike (SidesAgree).                   *)
EXTENDS MCJudge, FiniteSetTheorems, SequenceTheorems, TLAPS

-----------------------------------------------------------------------------
(* The slots: the invariant of the deferred entries.                          *)

Entries == {NoEntry} \cup
    [kind : {"confirm", "pullback"}, slot : Slots, id : Nat, late : BOOLEAN]
Memories == [cool : {"off", "warm", "hot"}, hits : Nat, recent : BOOLEAN, deferred : Entries]

\* The entry a symbol has deferred in a memory, by its number.
Deferred(memory, s) == IF memory[s].deferred = NoEntry THEN {} ELSE {memory[s].deferred.id}

\* What a symbol could be entered by, now or after a restart.
Known == [s \in Symbols |-> Deferred(state, s) \cup Deferred(file, s)]

MemoryOK ==
    /\ state \in [Symbols -> Memories] /\ file \in [Symbols -> Memories]
    /\ entries \in Nat
    /\ \A c \in buffer : c.deferral = 0

\* Every number was given out, to one symbol, and is gone once it was used.
Numbered ==
    /\ used \subseteq 1..entries
    /\ \A s \in Symbols : Known[s] \subseteq (1..entries) \ used
    /\ \A s, t \in Symbols : s # t => Known[s] \cap Known[t] = {}

SlotsInv == MemoryOK /\ Numbered

-----------------------------------------------------------------------------
(* What a step may do to the numbers.                                         *)

\* Nothing, or forget some.
LEMMA ForgettingIsFine ==
    ASSUME SlotsInv, MemoryOK', used' = used, entries' = entries,
           \A s \in Symbols : Known'[s] \subseteq Known[s]
    PROVE  SlotsInv'
BY DEF SlotsInv, Numbered

\* Use the one of a symbol, which then has none.
LEMMA UsingIsFine ==
    ASSUME SlotsInv, MemoryOK', entries' = entries,
           NEW s \in Symbols, NEW n \in Known[s], used' = used \cup {n}, Known'[s] = {},
           \A t \in Symbols : Known'[t] \subseteq Known[t]
    PROVE  SlotsInv'
<1> n \in 1..entries /\ used \subseteq 1..entries
  BY DEF SlotsInv, Numbered
<1>1. used' \subseteq 1..entries'
  OBVIOUS
<1>2. ASSUME NEW t \in Symbols PROVE Known'[t] \subseteq (1..entries') \ used'
  <2>1. CASE t = s BY <2>1
  <2>2. CASE t # s
    <3>1. n \notin Known[t] BY <2>2 DEF SlotsInv, Numbered
    <3> QED BY <3>1 DEF SlotsInv, Numbered
  <2> QED BY <2>1, <2>2
<1>3. \A t, u \in Symbols : t # u => Known'[t] \cap Known'[u] = {}
  BY DEF SlotsInv, Numbered
<1> QED BY <1>1, <1>2, <1>3 DEF SlotsInv, Numbered

\* Give the next one to a symbol, in both memories.
LEMMA GivingIsFine ==
    ASSUME SlotsInv, MemoryOK', entries' = entries + 1, used' = used,
           NEW s \in Symbols, Known'[s] \subseteq {entries + 1},
           \A t \in Symbols \ {s} : Known'[t] \subseteq Known[t]
    PROVE  SlotsInv'
<1>1. /\ entries \in Nat /\ used \subseteq 1..entries
      /\ \A t \in Symbols : Known[t] \subseteq (1..entries) \ used
      /\ \A t, u \in Symbols : t # u => Known[t] \cap Known[u] = {}
  BY DEF SlotsInv, Numbered, MemoryOK
<1>2. 1..entries \subseteq 1..entries' /\ entries + 1 \in 1..entries' /\ entries + 1 \notin 1..entries
  BY <1>1
<1>3. used' \subseteq 1..entries' BY <1>1, <1>2
<1>4. ASSUME NEW t \in Symbols PROVE Known'[t] \subseteq (1..entries') \ used'
  <2>1. CASE t = s BY <2>1, <1>1, <1>2
  <2>2. CASE t # s BY <2>2, <1>1, <1>2
  <2> QED BY <2>1, <2>2
<1>5. ASSUME NEW t \in Symbols, NEW u \in Symbols, t # u PROVE Known'[t] \cap Known'[u] = {}
  <2>1. CASE t = s BY <2>1, <1>1, <1>2, <1>5
  <2>2. CASE u = s BY <2>2, <1>1, <1>2, <1>5
  <2>3. CASE t # s /\ u # s BY <2>3, <1>1, <1>5
  <2> QED BY <2>1, <2>2, <2>3
<1> QED BY <1>3, <1>4, <1>5 DEF SlotsInv, Numbered

-----------------------------------------------------------------------------
(* The steps.                                                                 *)

LEMMA InitNumbers == Init => SlotsInv
<1> SUFFICES ASSUME Init PROVE SlotsInv OBVIOUS
<1>1. Fresh \in Memories BY DEF Fresh, Memories, Entries
<1>2. MemoryOK BY <1>1 DEF Init, MemoryOK
<1>3. \A s \in Symbols : Known[s] = {} BY DEF Init, Known, Deferred, Fresh
<1>4. Numbered BY <1>3 DEF Init, Numbered
<1> QED BY <1>2, <1>4 DEF SlotsInv

\* A step that uses none and gives none: both memories hold what was known.
LEMMA KeepingIsFine ==
    ASSUME SlotsInv, used' = used, entries' = entries, \A c \in buffer' : c.deferral = 0,
           state' \in [Symbols -> Memories], file' \in [Symbols -> Memories],
           \A s \in Symbols : Deferred(state', s) \subseteq Known[s] /\ Deferred(file', s) \subseteq Known[s]
    PROVE  SlotsInv'
<1>1. MemoryOK' BY DEF SlotsInv, MemoryOK
<1>2. \A s \in Symbols : Known'[s] \subseteq Known[s]
  BY DEF Known, Deferred
<1> QED BY <1>1, <1>2, ForgettingIsFine

\* A symbol may lose its entry, and keeps the rest.
LEMMA NoMoreEntry ==
    ASSUME NEW m \in [Symbols -> Memories], NEW s \in Symbols
    PROVE  /\ [m EXCEPT ![s].deferred = NoEntry] \in [Symbols -> Memories]
           /\ Deferred([m EXCEPT ![s].deferred = NoEntry], s) = {}
           /\ \A t \in Symbols :
                Deferred([m EXCEPT ![s].deferred = NoEntry], t) \subseteq Deferred(m, t)
BY DEF Memories, Entries, Deferred

LEMMA HitSame ==
    ASSUME NEW m \in [Symbols -> Memories], NEW s
    PROVE  /\ Hit(m, s) \in [Symbols -> Memories]
           /\ \A t \in Symbols : Deferred(Hit(m, s), t) = Deferred(m, t)
<1>1. CASE s \in Symbols
  <2> DEFINE k == [m[s] EXCEPT !.hits = m[s].hits + 1]
  <2>1. Hit(m, s) = [m EXCEPT ![s] = k] BY <1>1 DEF Hit
  <2>2. k \in Memories /\ k.deferred = m[s].deferred BY <1>1 DEF Memories
  <2> HIDE DEF k
  <2> QED BY <1>1, <2>1, <2>2 DEF Deferred
<1>2. CASE s \notin Symbols
  <2>1. Hit(m, s) = m BY <1>2 DEF Hit
  <2> QED BY <2>1
<1> QED BY <1>1, <1>2

LEMMA MarkedSame ==
    ASSUME NEW m \in [Symbols -> Memories], NEW os
    PROVE  /\ Marked(m, os) \in [Symbols -> Memories]
           /\ \A t \in Symbols : Deferred(Marked(m, os), t) = Deferred(m, t)
BY DEF Marked, Memories, Deferred

\* What an analysis saves: the state it leaves, whichever it is.
LEMMA AnalyseNumbers ==
    ASSUME SlotsInv, NEW s \in Symbols, Analyse(s)
    PROVE  SlotsInv'
<1> DEFINE p == Swept(pending, aged)
           d == state[s].deferred
<1>1. /\ state \in [Symbols -> Memories] /\ file \in [Symbols -> Memories]
      /\ \A c \in buffer : c.deferral = 0
  BY DEF SlotsInv, MemoryOK
<1>2. file' = state' BY DEF Analyse, Persist
<1>3. \A t \in Symbols : Deferred(state, t) \subseteq Known[t]
  BY DEF Known
<1>4. ASSUME Quiet(p), state' = state \/ Forget(s), UNCHANGED <<buffer, entries>>
      PROVE  SlotsInv'
  <2>1. state' \in [Symbols -> Memories] /\ \A t \in Symbols : Deferred(state', t) \subseteq Known[t]
    BY <1>1, <1>3, <1>4, NoMoreEntry DEF Forget
  <2> QED BY <1>1, <1>2, <1>4, <2>1, KeepingIsFine DEF Quiet
<1>5. ASSUME Dispatch(s, d, p), d # NoEntry, UNCHANGED <<buffer, entries>>
      PROVE  SlotsInv'
  <2>1. CASE ~Free(p, d.slot) BY <2>1, <1>4, <1>5 DEF Dispatch
  <2>2. CASE Free(p, d.slot)
    <3> DEFINE os == {Order(s, d.slot, d.id)}
               m == [state EXCEPT ![s].deferred = NoEntry]
    <3>1. d.id \in Known[s] /\ d.id \in Nat /\ d.id # 0
      BY <1>1, <1>5 DEF Known, Deferred, SlotsInv, Numbered, MemoryOK, Memories, Entries
    <3>2. used' = used \cup {d.id}
      BY <1>5, <2>2, <3>1 DEF Dispatch, Reserve, Order
    <3>3. state' = Marked(m, os) BY <1>5, <2>2 DEF Dispatch
    <3>4. /\ m \in [Symbols -> Memories] /\ Deferred(m, s) = {}
          /\ \A t \in Symbols : Deferred(m, t) \subseteq Deferred(state, t)
      BY <1>1, NoMoreEntry
    <3> HIDE DEF m, os
    <3>6. /\ state' \in [Symbols -> Memories]
          /\ \A t \in Symbols : Deferred(state', t) = Deferred(m, t)
      BY <3>3, <3>4, MarkedSame
    <3>7. \A t \in Symbols : Known'[t] = Deferred(state', t)
      BY <1>2 DEF Known, Deferred
    <3>8. MemoryOK' BY <1>1, <1>2, <1>5, <3>6 DEF MemoryOK, SlotsInv
    <3> QED BY <1>3, <1>5, <3>1, <3>2, <3>4, <3>6, <3>7, <3>8, UsingIsFine
  <2> QED BY <2>1, <2>2
<1>6. CASE Crowded(p, s) /\ Quiet(p) /\ UNCHANGED <<state, buffer, entries>> BY <1>4, <1>6
<1>7. CASE (Confirm15m(s, p) \/ Pullback(s, p)) /\ UNCHANGED <<buffer, entries>>
  <2>1. d # NoEntry BY <1>7 DEF Confirm15m, Pullback, NoEntry
  <2> QED BY <1>4, <1>5, <1>7, <2>1 DEF Confirm15m, Pullback
<1>8. CASE Decided(s, p)
  <2>1. CASE UNCHANGED <<state, buffer, entries>> BY <1>4, <1>8, <2>1 DEF Decided
  <2>2. CASE \E t \in Slots : buffer' = buffer \cup {Order(s, t, 0)} /\ UNCHANGED state /\ entries' = entries + 1
    <3>1. used' = used BY <1>8 DEF Decided, Quiet
    <3>2. MemoryOK'
      BY <1>1, <1>2, <2>2 DEF MemoryOK, SlotsInv, Order
    <3>3. \A t \in Symbols : Known'[t] \subseteq Known[t] BY <1>2, <2>2 DEF Known, Deferred
    <3>4. Known'[s] = {} BY <1>2, <1>8, <2>2 DEF Known, Deferred, Decided
    <3> QED BY <2>2, <3>1, <3>2, <3>3, <3>4, GivingIsFine
  <2>3. CASE \E t \in Slots, kind \in {"confirm", "pullback"} :
               /\ state' = [state EXCEPT ![s].deferred = Deferral(kind, t, entries + 1)]
               /\ UNCHANGED buffer /\ entries' = entries + 1
    <3>1. PICK t \in Slots, kind \in {"confirm", "pullback"} :
            state' = [state EXCEPT ![s].deferred = Deferral(kind, t, entries + 1)]
      BY <2>3
    <3> DEFINE e == Deferral(kind, t, entries + 1)
    <3>2. used' = used BY <1>8 DEF Decided, Quiet
    <3>3. entries \in Nat BY DEF SlotsInv, MemoryOK
    <3>4. e \in Entries /\ e # NoEntry /\ e.id = entries + 1
      BY <3>3 DEF Deferral, Entries, NoEntry
    <3> HIDE DEF e
    <3>5. /\ state' = [state EXCEPT ![s] = [state[s] EXCEPT !.deferred = e]]
          /\ [state[s] EXCEPT !.deferred = e] \in Memories
          /\ [state[s] EXCEPT !.deferred = e].deferred = e
      BY <1>1, <3>1, <3>4 DEF Memories, e
    <3>6. /\ state' \in [Symbols -> Memories] /\ state'[s].deferred = e
          /\ \A u \in Symbols \ {s} : state'[u] = state[u]
      BY <1>1, <3>5
    <3>7. MemoryOK' BY <1>1, <1>2, <2>3, <3>3, <3>6 DEF MemoryOK, SlotsInv
    <3>8. \A u \in Symbols \ {s} : Known'[u] \subseteq Known[u]
      BY <1>2, <3>6 DEF Known, Deferred
    <3>9. Known'[s] = {entries + 1}
      BY <1>2, <3>4, <3>6 DEF Known, Deferred
    <3> QED BY <2>3, <3>2, <3>7, <3>8, <3>9, GivingIsFine
  <2> QED BY <1>8, <2>1, <2>2, <2>3 DEF Decided
<1> QED BY <1>6, <1>7, <1>8 DEF Analyse

\* Ranked candidates are no deferred entries.
LEMMA FlushNumbers == SlotsInv /\ Flush => SlotsInv'
<1> SUFFICES ASSUME SlotsInv, Flush PROVE SlotsInv' OBVIOUS
<1>1. PICK os \in SUBSET buffer : Reserve(Swept(pending, aged), os) /\ state' = Marked(state, os)
  BY DEF Flush
<1>2. /\ state \in [Symbols -> Memories] /\ file \in [Symbols -> Memories]
      /\ \A c \in buffer : c.deferral = 0
  BY DEF SlotsInv, MemoryOK
<1>3. used' = used BY <1>1, <1>2 DEF Reserve
<1>4. /\ state' \in [Symbols -> Memories]
      /\ \A t \in Symbols : Deferred(state', t) = Deferred(state, t)
  BY <1>1, <1>2, MarkedSame
<1>5. file' = file /\ entries' = entries /\ buffer' = {} BY DEF Flush
<1> QED BY <1>2, <1>3, <1>4, <1>5, KeepingIsFine DEF Known

\* A result leaves the entries, or takes one with the position.
LEMMA ResultNumbers == SlotsInv /\ HandleResult => SlotsInv'
<1> SUFFICES ASSUME SlotsInv, HandleResult PROVE SlotsInv' OBVIOUS
<1> DEFINE r == Head(results)
           s == r.symbol
<1>1. /\ state \in [Symbols -> Memories] /\ \A c \in buffer : c.deferral = 0
  BY DEF SlotsInv, MemoryOK
<1>2. /\ state' = StateAfter(s, r) /\ file' = state'
      /\ used' = used /\ entries' = entries /\ buffer' = buffer
  BY DEF HandleResult, Persist
<1> HIDE DEF s, r
<1>3. \A t \in Symbols : Deferred(state, t) \subseteq Known[t] BY DEF Known
<1>4. CASE s \in Symbols
  <2>2. ASSUME NEW m \in [Symbols -> Memories]
        PROVE  /\ Cooling(m, s) \in [Symbols -> Memories]
               /\ \A t \in Symbols : Deferred(Cooling(m, s), t) = Deferred(m, t)
    BY <1>4 DEF Cooling, Memories, Deferred
  <2>3. /\ state' \in [Symbols -> Memories]
        /\ \A t \in Symbols : Deferred(state', t) \subseteq Deferred(state, t)
    <3>1. CASE r.kind = "forced" BY <1>1, <1>2, <2>2, <3>1, HitSame DEF StateAfter
    <3>2. CASE r.kind = "external"
      <4> DEFINE m == [state EXCEPT ![s].deferred = NoEntry]
      <4>1. state' = Cooling(m, s) BY <1>2, <3>2 DEF StateAfter
      <4>2. m \in [Symbols -> Memories] /\ \A t \in Symbols : Deferred(m, t) \subseteq Deferred(state, t)
        BY <1>1, <1>4, NoMoreEntry
      <4> HIDE DEF m
      <4> QED BY <2>2, <4>1, <4>2
    <3>3. CASE r.kind = "opened"
      <4>1. state' = [state EXCEPT ![s].recent = TRUE] BY <1>2, <3>3 DEF StateAfter
      <4>2. state' \in [Symbols -> Memories] BY <1>1, <1>4, <4>1 DEF Memories
      <4>3. \A t \in Symbols : Deferred(state', t) = Deferred(state, t)
        BY <1>1, <1>4, <4>1 DEF Memories, Deferred
      <4> QED BY <4>2, <4>3
    <3>4. CASE r.kind \notin {"forced", "external", "opened"}
      <4>1. state' = state BY <1>2, <3>4 DEF StateAfter
      <4> QED BY <1>1, <4>1 DEF Deferred
    <3> QED BY <3>1, <3>2, <3>3, <3>4
  <2> QED BY <1>1, <1>2, <1>3, <2>3, KeepingIsFine
<1>5. CASE s \notin Symbols
  <2>1. state' = state BY <1>1, <1>2, <1>5 DEF StateAfter, Hit, Cooling
  <2> QED BY <1>1, <1>2, <1>3, <2>1, KeepingIsFine
<1> QED BY <1>4, <1>5

\* A final adds a hit, once.
LEMMA FinalNumbers == ASSUME SlotsInv, NEW f \in finals, HandleFinal(f) PROVE SlotsInv'
<1>1. /\ state \in [Symbols -> Memories] /\ file \in [Symbols -> Memories]
      /\ \A c \in buffer : c.deferral = 0
  BY DEF SlotsInv, MemoryOK
<1>2. /\ used' = used /\ entries' = entries /\ buffer' = buffer
      /\ state' \in {state, Hit(state, f.symbol)} /\ file' \in {file, state'}
  BY DEF HandleFinal, Persist
<1>3. /\ state' \in [Symbols -> Memories]
      /\ \A t \in Symbols : Deferred(state', t) = Deferred(state, t)
  BY <1>1, <1>2, HitSame
<1> QED BY <1>1, <1>2, <1>3, KeepingIsFine DEF Known

\* What was known of a removed symbol may come back from the file.
LEMMA RemovalNumbers == ASSUME SlotsInv, NEW s \in Symbols, RemoveSymbol(s) PROVE SlotsInv'
<1>1. /\ state \in [Symbols -> Memories] /\ file \in [Symbols -> Memories]
      /\ \A c \in buffer : c.deferral = 0
  BY DEF SlotsInv, MemoryOK
<1>2. Fresh \in Memories /\ Fresh.deferred = NoEntry BY DEF Fresh, Memories, Entries
<1>3. state' = [state EXCEPT ![s] = Fresh] /\ UNCHANGED <<file, buffer, used, entries>>
  BY DEF RemoveSymbol
<1>4. /\ state' \in [Symbols -> Memories]
      /\ \A t \in Symbols : Deferred(state', t) \subseteq Deferred(state, t)
  BY <1>1, <1>2, <1>3 DEF Deferred
<1> QED BY <1>1, <1>3, <1>4, KeepingIsFine DEF Known

\* Time makes an entry late; it keeps its number.
Late(m, s) == [m EXCEPT ![s].deferred.late = TRUE]
LEMMA LateSame ==
    ASSUME NEW m \in [Symbols -> Memories], NEW s \in Symbols, m[s].deferred # NoEntry
    PROVE  /\ Late(m, s) \in [Symbols -> Memories]
           /\ \A t \in Symbols : Deferred(Late(m, s), t) = Deferred(m, t)
<1> DEFINE e == [m[s].deferred EXCEPT !.late = TRUE]
<1>1. m[s].deferred \in [kind : {"confirm", "pullback"}, slot : Slots, id : Nat, late : BOOLEAN]
  BY DEF Memories, Entries
<1>2. e \in Entries /\ e.id = m[s].deferred.id /\ e.kind # "none"
  BY <1>1 DEF Entries
<1>3. e # NoEntry BY <1>2 DEF NoEntry
<1>4. Late(m, s) = [m EXCEPT ![s] = [m[s] EXCEPT !.deferred = e]]
  BY DEF Late
<1> HIDE DEF e
<1>5. [m[s] EXCEPT !.deferred = e] \in Memories /\ [m[s] EXCEPT !.deferred = e].deferred = e
  BY <1>2 DEF Memories
<1> QED BY <1>2, <1>3, <1>4, <1>5 DEF Deferred

LEMMA AgeNumbers == ASSUME SlotsInv, NEW s \in Symbols, Age(s) PROVE SlotsInv'
<1>1. /\ state \in [Symbols -> Memories] /\ file \in [Symbols -> Memories]
      /\ \A c \in buffer : c.deferral = 0
  BY DEF SlotsInv, MemoryOK
<1>2. UNCHANGED <<buffer, used, entries>> BY DEF Age
<1>3. /\ state' \in [Symbols -> Memories] /\ file' \in [Symbols -> Memories]
      /\ \A t \in Symbols : /\ Deferred(state', t) = Deferred(state, t)
                            /\ Deferred(file', t) = Deferred(file, t)
  <2>1. CASE /\ state' = [state EXCEPT ![s].cool = Cooled(@)]
             /\ file' = [file EXCEPT ![s].cool = Cooled(@)]
    <3>1. \A x : Cooled(x) \in {"off", "warm", "hot"} BY DEF Cooled
    <3>2. /\ state' = [state EXCEPT ![s].cool = Cooled(state[s].cool)]
          /\ file' = [file EXCEPT ![s].cool = Cooled(file[s].cool)]
      BY <1>1, <2>1
    <3>3. ASSUME NEW m \in [Symbols -> Memories], NEW n, n = [m EXCEPT ![s].cool = Cooled(m[s].cool)]
          PROVE  /\ n \in [Symbols -> Memories]
                 /\ \A t \in Symbols : Deferred(n, t) = Deferred(m, t)
      <4>1. PICK v : v = [m[s] EXCEPT !.cool = Cooled(m[s].cool)]
        OBVIOUS
      <4>2. v \in Memories /\ v.deferred = m[s].deferred
        BY <3>1, <4>1 DEF Memories
      <4>3. n = [m EXCEPT ![s] = v]
        BY <3>3, <4>1
      <4> QED BY <4>2, <4>3 DEF Deferred
    <3> QED BY <1>1, <3>2, <3>3
  <2>2. CASE /\ state' = [state EXCEPT ![s].recent = FALSE]
             /\ file' = [file EXCEPT ![s].recent = FALSE]
    <3>1. ASSUME NEW m \in [Symbols -> Memories], NEW n, n = [m EXCEPT ![s].recent = FALSE]
          PROVE  /\ n \in [Symbols -> Memories]
                 /\ \A t \in Symbols : Deferred(n, t) = Deferred(m, t)
      <4>1. PICK v : v = [m[s] EXCEPT !.recent = FALSE]
        OBVIOUS
      <4>2. v \in Memories /\ v.deferred = m[s].deferred
        BY <4>1 DEF Memories
      <4>3. n = [m EXCEPT ![s] = v]
        BY <3>1, <4>1
      <4> QED BY <4>2, <4>3 DEF Deferred
    <3> QED BY <1>1, <2>2, <3>1
  <2>3. CASE /\ state[s].deferred # NoEntry
             /\ state' = Late(state, s)
             /\ file' = IF file[s].deferred = NoEntry THEN file ELSE Late(file, s)
    <3>1. /\ state' \in [Symbols -> Memories]
          /\ \A t \in Symbols : Deferred(state', t) = Deferred(state, t)
      BY <1>1, <2>3, LateSame
    <3>2. /\ file' \in [Symbols -> Memories]
          /\ \A t \in Symbols : Deferred(file', t) = Deferred(file, t)
      BY <1>1, <2>3, LateSame
    <3> QED BY <3>1, <3>2
  <2> QED BY <2>1, <2>2, <2>3 DEF Age, Late
<1> QED BY <1>1, <1>2, <1>3, KeepingIsFine DEF Known

\* A restart knows what the file has.
LEMMA RestartNumbers == SlotsInv /\ Restart => SlotsInv'
<1> SUFFICES ASSUME SlotsInv, Restart PROVE SlotsInv' OBVIOUS
<1>1. file \in [Symbols -> Memories] BY DEF SlotsInv, MemoryOK
<1>2. state' = StateRestored /\ buffer' = {} /\ UNCHANGED <<file, used, entries>> BY DEF Restart
<1>3. \A t \in Symbols : [file[t] EXCEPT !.deferred = NoEntry] \in Memories
                           /\ [file[t] EXCEPT !.deferred = NoEntry].deferred = NoEntry
  BY <1>1 DEF Memories, Entries
<1>4. /\ state' \in [Symbols -> Memories]
      /\ \A t \in Symbols : Deferred(state', t) \subseteq Deferred(file, t)
  BY <1>1, <1>2, <1>3 DEF StateRestored, Deferred
<1> QED BY <1>1, <1>2, <1>4, KeepingIsFine DEF Known

-----------------------------------------------------------------------------
(* The theorem.                                                               *)

LEMMA NumbersKept == SlotsInv /\ [Next]_vars => SlotsInv'
<1> SUFFICES ASSUME SlotsInv, [Next]_vars PROVE SlotsInv' OBVIOUS
<1>1. CASE UNCHANGED <<judge, entries, used>>
  <2>1. UNCHANGED <<state, file, buffer, entries, used>>
    BY <1>1 DEF judge
  <2>2. Known' = Known
    BY <2>1 DEF Known, Deferred
  <2> QED BY <2>1, <2>2 DEF SlotsInv, MemoryOK, Numbered
<1>2. ASSUME NEW s \in Symbols, AgePending(s) PROVE SlotsInv'
  <2>1. UNCHANGED <<state, file, buffer, entries, used>>
    BY <1>2 DEF AgePending
  <2>2. Known' = Known
    BY <2>1 DEF Known, Deferred
  <2> QED BY <2>1, <2>2 DEF SlotsInv, MemoryOK, Numbered
<1>3. ASSUME NEW s \in Symbols, Other(s) \/ Close(s) PROVE SlotsInv'
  BY <1>1, <1>3 DEF Other, Close
<1>4. ASSUME NEW o \in orders, Execute(o) PROVE SlotsInv'
  BY <1>1, <1>4 DEF Execute
<1> QED BY <1>1, <1>2, <1>3, <1>4, FlushNumbers, ResultNumbers, RestartNumbers, AnalyseNumbers,
           RemovalNumbers, AgeNumbers, FinalNumbers DEF Next, vars

\* No deferred entry is dispatched twice: one that was is in neither the judge's
\* memory nor its file, with any number of symbols, orders, results and restarts.
THEOREM DispatchedOnce == Spec => []EnteredOnce
<1>1. SlotsInv => EnteredOnce
  BY DEF SlotsInv, MemoryOK, Numbered, EnteredOnce, Known, Deferred
<1> QED BY <1>1, InitNumbers, NumbersKept, PTL DEF Spec

-----------------------------------------------------------------------------
(* The caps.  What the judge counts covers what is ordered and held, and what *)
(* it counts is within the caps: each of the two needs the other, and both    *)
(* need to know in which order the results of a symbol will be heard.         *)

Maybe == Slots \cup {"none"}
Orders == [symbol : Symbols, slot : Slots, deferral : Nat]
Ends == {"forced", "external", "closed"}
Neutral == {"refused", "reduced"}
Results ==
    [kind : {"opened"}, symbol : Symbols, slot : Slots]
    \cup [kind : {"forced"}, symbol : Symbols, stop : BOOLEAN]
    \cup [kind : {"external", "closed"} \cup Neutral, symbol : Symbols]

BufferOK ==
    /\ buffer \subseteq Orders /\ IsFiniteSet(buffer)
    /\ \A c, d \in buffer : c.symbol = d.symbol => c = d

TypesOK ==
    /\ open \in [Symbols -> Maybe] /\ pending \in [Symbols -> Maybe]
    /\ held \in [Symbols -> Maybe] /\ aged \subseteq Symbols
    /\ orders \subseteq Orders /\ results \in Seq(Results)
    /\ BufferOK

\* Place i of a queue tells that s was opened.
Opens(q, i, s) == q[i].symbol = s /\ q[i].kind = "opened"

\* Of one symbol the judge has o open and p reserved, the executor h: what was
\* ordered or opened and not heard of is reserved, what is held is known, or
\* known to be coming, and no close will be heard after the last opening.
Agreed(s, o, p, h, os, q) ==
    /\ \A x \in os : x.symbol = s => p = x.slot
    /\ \A i \in DOMAIN q : Opens(q, i, s) => p = q[i].slot
    /\ p # "none" => o \in {"none", p}
    /\ h # "none" => \/ o = h
                     \/ p = h /\ \E i \in DOMAIN q : Opens(q, i, s)
    /\ \A i \in DOMAIN q :
          q[i].symbol = s /\ q[i].kind \in Ends /\ h # "none"
            => \E j \in DOMAIN q : j > i /\ Opens(q, j, s)

Faithful == \A s \in Symbols : Agreed(s, open[s], pending[s], held[s], orders, results)
Counted == \A t \in Slots : Count(pending, t) <= Cap(t)

CapsInv == TypesOK /\ (~slipped => Faithful /\ Counted)

LEMMA QueueFacts ==
    ASSUME NEW q \in Seq(Results), NEW r \in Results
    PROVE  /\ Append(q, r) \in Seq(Results)
           /\ Len(q) \in Nat /\ DOMAIN q = 1..Len(q)
           /\ DOMAIN Append(q, r) = 1..(Len(q) + 1)
           /\ \A i \in DOMAIN q : Append(q, r)[i] = q[i]
           /\ Append(q, r)[Len(q) + 1] = r
  OBVIOUS

LEMMA TailFacts ==
    ASSUME NEW q \in Seq(Results), q # <<>>
    PROVE  /\ Tail(q) \in Seq(Results) /\ Head(q) \in Results /\ Head(q) = q[1]
           /\ Len(q) \in Nat /\ Len(q) > 0 /\ DOMAIN q = 1..Len(q)
           /\ DOMAIN Tail(q) = 1..(Len(q) - 1)
           /\ \A i \in DOMAIN Tail(q) : Tail(q)[i] = q[i + 1]
  OBVIOUS

\* A result that opens or ends nothing of s.
LEMMA NeutralIsFine ==
    ASSUME NEW s, NEW o, NEW p, NEW h, NEW os, NEW some \in SUBSET os, NEW q \in Seq(Results),
           NEW r \in Results, r.symbol # s \/ r.kind \in Neutral,
           Agreed(s, o, p, h, os, q)
    PROVE  Agreed(s, o, p, h, some, Append(q, r))
<1> DEFINE n == Append(q, r)
<1>1. /\ Len(q) \in Nat /\ DOMAIN q = 1..Len(q) /\ DOMAIN n = 1..(Len(q) + 1)
      /\ \A i \in DOMAIN q : n[i] = q[i]
      /\ n[Len(q) + 1] = r
  BY QueueFacts
<1> HIDE DEF n
<1>2. DOMAIN q \subseteq DOMAIN n /\ \A i \in DOMAIN n : i \in DOMAIN q \/ i = Len(q) + 1
  BY <1>1
<1>3. \A i \in DOMAIN n : n[i].symbol = s /\ n[i].kind \notin Neutral => i \in DOMAIN q /\ n[i] = q[i]
  BY <1>1, <1>2
<1>4. \A i \in DOMAIN n : Opens(n, i, s) => i \in DOMAIN q /\ Opens(q, i, s) /\ n[i] = q[i]
  BY <1>3 DEF Opens, Neutral
<1>5. \A i \in DOMAIN q : Opens(q, i, s) => Opens(n, i, s)
  BY <1>1 DEF Opens
<1>6. ASSUME NEW i \in DOMAIN n, n[i].symbol = s, n[i].kind \in Ends, h # "none"
      PROVE  \E j \in DOMAIN n : j > i /\ Opens(n, j, s)
  <2>1. i \in DOMAIN q /\ n[i] = q[i] BY <1>3, <1>6 DEF Ends, Neutral
  <2> QED BY <1>2, <1>5, <1>6, <2>1 DEF Agreed
<1>7. Agreed(s, o, p, h, some, n)
  BY <1>2, <1>4, <1>5, <1>6 DEF Agreed
<1> QED BY <1>7 DEF n

\* The position of s ends.
LEMMA EndIsFine ==
    ASSUME NEW s, NEW o, NEW p, NEW h, NEW os, NEW q \in Seq(Results),
           NEW r \in Results, r.kind \in Ends, Agreed(s, o, p, h, os, q)
    PROVE  Agreed(s, o, p, "none", os, Append(q, r))
<1> DEFINE n == Append(q, r)
<1>1. /\ Len(q) \in Nat /\ DOMAIN q = 1..Len(q) /\ DOMAIN n = 1..(Len(q) + 1)
      /\ \A i \in DOMAIN q : n[i] = q[i]
      /\ n[Len(q) + 1] = r
  BY QueueFacts
<1> HIDE DEF n
<1>2. \A i \in DOMAIN n : i \in DOMAIN q \/ i = Len(q) + 1
  BY <1>1
<1>3. \A i \in DOMAIN n : Opens(n, i, s) => i \in DOMAIN q /\ Opens(q, i, s) /\ n[i] = q[i]
  BY <1>1, <1>2 DEF Opens, Ends
<1>4. Agreed(s, o, p, "none", os, n)
  BY <1>3 DEF Agreed
<1> QED BY <1>4 DEF n

\* An order for s becomes its position.
LEMMA OpeningIsFine ==
    ASSUME NEW s, NEW o, NEW p, NEW os, NEW x \in os, x.symbol = s, NEW q \in Seq(Results),
           NEW r \in Results, r.symbol = s, r.kind = "opened", r.slot = x.slot,
           Agreed(s, o, p, "none", os, q)
    PROVE  Agreed(s, o, p, x.slot, os \ {x}, Append(q, r))
<1> DEFINE n == Append(q, r)
<1>1. /\ Len(q) \in Nat /\ DOMAIN q = 1..Len(q) /\ DOMAIN n = 1..(Len(q) + 1)
      /\ \A i \in DOMAIN q : n[i] = q[i]
      /\ n[Len(q) + 1] = r
  BY QueueFacts
<1> HIDE DEF n
<1>2. \A i \in DOMAIN n : i \in DOMAIN q \/ i = Len(q) + 1
  BY <1>1
<1>3. Opens(n, Len(q) + 1, s) /\ Len(q) + 1 \in DOMAIN n
  BY <1>1 DEF Opens
<1>4. \A i \in DOMAIN n : Opens(n, i, s) => n[i] = r \/ (i \in DOMAIN q /\ Opens(q, i, s) /\ n[i] = q[i])
  BY <1>1, <1>2 DEF Opens
<1>5. ASSUME NEW i \in DOMAIN n, n[i].kind \in Ends
      PROVE  Len(q) + 1 > i
  <2>1. i # Len(q) + 1 BY <1>1, <1>5 DEF Ends
  <2> QED BY <1>1, <2>1
<1>6. p = x.slot BY DEF Agreed
<1>7. Agreed(s, o, p, x.slot, os \ {x}, n)
  BY <1>3, <1>4, <1>5, <1>6 DEF Agreed
<1> QED BY <1>7 DEF n

\* A result is read that is not of s.
LEMMA ReadingIsFine ==
    ASSUME NEW s, NEW o, NEW p, NEW h, NEW os, NEW q \in Seq(Results), q # <<>>,
           Head(q).symbol # s, Agreed(s, o, p, h, os, q)
    PROVE  Agreed(s, o, p, h, os, Tail(q))
<1> DEFINE n == Tail(q)
<1>1. /\ Head(q) = q[1] /\ Len(q) \in Nat /\ Len(q) > 0 /\ DOMAIN q = 1..Len(q)
      /\ DOMAIN n = 1..(Len(q) - 1)
      /\ \A i \in DOMAIN n : n[i] = q[i + 1]
  BY TailFacts
<1> HIDE DEF n
<1>2. \A i \in DOMAIN n : i \in Int /\ i + 1 \in DOMAIN q /\ (Opens(n, i, s) <=> Opens(q, i + 1, s))
  BY <1>1 DEF Opens
<1>3. ASSUME NEW i \in DOMAIN q, Opens(q, i, s)
      PROVE  i \in Int /\ i - 1 \in DOMAIN n /\ Opens(n, i - 1, s)
  <2>1. i # 1 BY <1>1, <1>3 DEF Opens
  <2>2. i - 1 \in DOMAIN n /\ n[i - 1] = q[(i - 1) + 1] /\ (i - 1) + 1 = i BY <1>1, <2>1
  <2> QED BY <1>1, <1>3, <2>2 DEF Opens
<1>4. ASSUME NEW i \in DOMAIN n, n[i].symbol = s, n[i].kind \in Ends, h # "none"
      PROVE  \E j \in DOMAIN n : j > i /\ Opens(n, j, s)
  <2>1. i + 1 \in DOMAIN q /\ n[i] = q[i + 1] BY <1>1, <1>2
  <2>2. PICK j \in DOMAIN q : j > i + 1 /\ Opens(q, j, s) BY <1>4, <2>1 DEF Agreed
  <2>3. j - 1 > i BY <1>1, <1>2, <1>3, <2>2
  <2> QED BY <1>3, <2>2, <2>3
<1>5. \A i \in DOMAIN n : Opens(n, i, s) => n[i] = q[i + 1] BY <1>1
<1>6. Agreed(s, o, p, h, os, n)
  BY <1>2, <1>3, <1>4, <1>5 DEF Agreed
<1> QED BY <1>6 DEF n

\* The result of s is read, and nothing else of s is left to be answered.
LEMMA AnswerIsFine ==
    ASSUME TypesOK, Faithful, results # <<>>, NEW r, r = Head(results), NEW s, s = r.symbol,
           ~UnansweredIn(Tail(results), s)
    PROVE  /\ Agreed(s, OpenAfter(s, r)[s], "none", held[s], orders, Tail(results))
           /\ OpenAfter(s, r)[s] \in {SlotOf(pending, s), "none"}
<1> DEFINE n == Tail(results)
           o == OpenAfter(s, r)[s]
<1>1. /\ r \in Results /\ r = results[1] /\ 1 \in DOMAIN results
      /\ \A i \in DOMAIN n : i + 1 \in DOMAIN results /\ n[i] = results[i + 1]
      /\ DOMAIN results = 1..Len(results) /\ Len(results) \in Nat /\ DOMAIN n = 1..(Len(results) - 1)
  BY TailFacts DEF TypesOK
<1>2. s \in Symbols /\ open[s] \in Maybe /\ pending[s] \in Maybe /\ held[s] \in Maybe
  BY <1>1 DEF Results, TypesOK
<1>3. Agreed(s, open[s], pending[s], held[s], orders, results) BY <1>2 DEF Faithful
<1>4. /\ \A x \in orders : x.symbol # s
      /\ \A i \in DOMAIN n : ~Opens(n, i, s)
  BY DEF UnansweredIn, Opens
<1>5. \A i \in DOMAIN results : Opens(results, i, s) => i = 1
  <2> SUFFICES ASSUME NEW i \in DOMAIN results, i # 1, Opens(results, i, s) PROVE FALSE OBVIOUS
  <2>1. i - 1 \in DOMAIN n /\ n[i - 1] = results[(i - 1) + 1] /\ (i - 1) + 1 = i BY <1>1
  <2> QED BY <1>4, <2>1 DEF Opens
<1> HIDE DEF n
<1>6. open \in [Symbols -> Maybe] BY DEF TypesOK
<1>7. /\ r.kind = "opened" => o = r.slot
      /\ r.kind \in Ends => o = "none"
      /\ r.kind \notin Ends \cup {"opened"} => o = open[s]
  BY <1>2, <1>6 DEF OpenAfter, Ends
<1> HIDE DEF o
<1>8. CASE r.kind = "opened"
  <2>1. Opens(results, 1, s) BY <1>1, <1>8 DEF Opens
  <2>2. pending[s] = r.slot BY <1>1, <1>3, <2>1 DEF Agreed
  <2>3. r.slot # "none" BY <1>1, <1>8 DEF Results, Ends, Neutral, Slots
  <2>4. o = r.slot BY <1>7, <1>8
  <2>5. open[s] \in {"none", r.slot} BY <1>3, <2>2, <2>3 DEF Agreed
  <2>6. held[s] # "none" => o = held[s]
    BY <1>3, <2>2, <2>3, <2>4, <2>5 DEF Agreed
  <2>7. ASSUME NEW i \in DOMAIN n, n[i].symbol = s, n[i].kind \in Ends, held[s] # "none"
        PROVE  FALSE
    <3>1. PICK j \in DOMAIN results : j > i + 1 /\ Opens(results, j, s)
      BY <1>1, <1>3, <2>7 DEF Agreed
    <3> QED BY <1>1, <1>5, <3>1
  <2>8. Agreed(s, o, "none", held[s], orders, n)
    BY <1>4, <2>6, <2>7 DEF Agreed
  <2>9. o \in {SlotOf(pending, s), "none"} BY <2>2, <2>3, <2>4 DEF SlotOf
  <2> QED BY <2>8, <2>9 DEF n, o
<1>9. CASE r.kind # "opened"
  <2>1. \A i \in DOMAIN results : ~Opens(results, i, s)
    BY <1>1, <1>5, <1>9 DEF Opens
  <2>2. \A i \in DOMAIN results : results[i].symbol = s /\ results[i].kind \in Ends => held[s] = "none"
    BY <1>3, <2>1 DEF Agreed
  <2>3. held[s] # "none" => open[s] = held[s]
    BY <1>3, <2>1 DEF Agreed
  <2>4. held[s] # "none" => r.kind \notin Ends BY <1>1, <2>2
  <2>5. \A i \in DOMAIN n : n[i].symbol = s /\ n[i].kind \in Ends => held[s] = "none"
    BY <1>1, <2>2
  <2>6. held[s] # "none" => o = held[s] BY <1>7, <1>9, <2>3, <2>4
  <2>7. Agreed(s, o, "none", held[s], orders, n)
    BY <1>4, <2>5, <2>6 DEF Agreed
  <2>8. o \in {open[s], "none"} BY <1>7, <1>9
  <2>9. o \in {SlotOf(pending, s), "none"}
    BY <1>3, <2>8 DEF Agreed, SlotOf
  <2> QED BY <2>7, <2>9 DEF n, o
<1> QED BY <1>8, <1>9

\* Sets of symbols are finite.
LEMMA FewerSymbols ==
    ASSUME NEW S \in SUBSET Symbols, NEW T \in SUBSET S
    PROVE  /\ IsFiniteSet(S) /\ IsFiniteSet(T)
           /\ Cardinality(S) \in Nat /\ Cardinality(T) \in Nat
           /\ Cardinality(T) <= Cardinality(S)
<1>1. IsFiniteSet(S) BY SlotsAssumption, FS_Subset
<1> QED BY <1>1, FS_Subset, FS_CardinalityType

LEMMA CapType == \A t : Cap(t) \in Nat
BY SlotsAssumption DEF Cap

LEMMA CountType == \A p, t : Count(p, t) \in Nat
<1> TAKE p, t
<1> {s \in Symbols : SlotOf(p, s) = t} \in SUBSET Symbols OBVIOUS
<1> QED BY FewerSymbols DEF Count

\* A reservation ends that nothing is left to come of.
LEMMA DroppedIsFine ==
    ASSUME NEW s, NEW o, NEW p, NEW h, NEW os, NEW q, Agreed(s, o, p, h, os, q),
           \A x \in os : x.symbol # s, \A i \in DOMAIN q : ~Opens(q, i, s)
    PROVE  Agreed(s, o, "none", h, os, q)
BY DEF Agreed

\* One is made, with orders that agree with it and hide nothing.
LEMMA ReservedIsFine ==
    ASSUME TypesOK, NEW s, NEW o, NEW p, NEW h, Agreed(s, o, p, h, orders, results),
           NEW slot \in Slots, {o, p} \subseteq {"none", slot},
           NEW more, \A x \in more : x.symbol = s => x.slot = slot
    PROVE  Agreed(s, o, slot, h, orders \cup more, results)
<1>1. \A x \in orders : x.slot # "none" BY DEF TypesOK, Orders, Slots
<1>2. \A i \in DOMAIN results : results[i] \in Results BY DEF TypesOK
<1>3. \A i \in DOMAIN results : Opens(results, i, s) => results[i].slot # "none"
  BY <1>2 DEF Opens, Results, Slots, Ends, Neutral
<1>4. slot # "none" BY DEF Slots
<1> QED BY <1>1, <1>3, <1>4 DEF Agreed

\* The sweep of a judge that let nothing go too early.
LEMMA SweepIsFine ==
    ASSUME TypesOK, Faithful, Counted, ~SweepSlips
    PROVE  /\ \A s \in Symbols :
                Agreed(s, open[s], Swept(pending, aged)[s], held[s], orders, results)
           /\ \A t \in Slots : Count(Swept(pending, aged), t) <= Cap(t)
<1> DEFINE p == Swept(pending, aged)
<1>1. \A s \in Symbols : p[s] = IF s \in aged THEN "none" ELSE pending[s] BY DEF Swept
<1> HIDE DEF p
<1>2. ASSUME NEW s \in Symbols
      PROVE  Agreed(s, open[s], p[s], held[s], orders, results)
  <2>1. Agreed(s, open[s], pending[s], held[s], orders, results) BY DEF Faithful
  <2>2. CASE s \in aged
    <3>1. ~Unanswered(s) BY <2>2 DEF SweepSlips
    <3>2. (\A x \in orders : x.symbol # s) /\ (\A i \in DOMAIN results : ~Opens(results, i, s))
      BY <3>1 DEF Unanswered, UnansweredIn, Opens
    <3> QED BY <1>1, <2>1, <2>2, <3>2, DroppedIsFine
  <2> QED BY <1>1, <2>1, <2>2
<1>3. ASSUME NEW t \in Slots PROVE Count(p, t) <= Cap(t)
  <2>1. ASSUME NEW s \in Symbols, SlotOf(p, s) = t PROVE SlotOf(pending, s) = t
    <3>1. t # "none" BY DEF Slots
    <3>2. pending[s] # "none" => open[s] \in {"none", pending[s]} BY DEF Faithful, Agreed
    <3> QED BY <1>1, <2>1, <3>1, <3>2 DEF SlotOf
  <2> DEFINE S == {s \in Symbols : SlotOf(pending, s) = t}
             T == {s \in Symbols : SlotOf(p, s) = t}
  <2>2. S \in SUBSET Symbols /\ T \in SUBSET S BY <2>1
  <2>3. Cardinality(T) <= Cardinality(S) /\ Cardinality(S) \in Nat /\ Cardinality(T) \in Nat
    BY <2>2, FewerSymbols
  <2>4. Cardinality(S) <= Cap(t) BY DEF Counted, Count
  <2> QED BY <2>3, <2>4, CapType DEF Count
<1> QED BY <1>2, <1>3 DEF p

\* Fresh orders, one for a symbol, that a gate let through.
Gated(p, os) ==
    /\ os \subseteq Orders /\ IsFiniteSet(os)
    /\ \A x, y \in os : x.symbol = y.symbol => x = y
    /\ (\A t \in Slots : Count(p, t) <= Cap(t)) =>
       \A t \in Slots : Count(p, t) + Cardinality({x \in os : x.slot = t}) <= Cap(t)

LEMMA SweptType == TypesOK => Swept(pending, aged) \in [Symbols -> Maybe]
BY DEF TypesOK, Swept, Maybe

LEMMA ReserveTypes ==
    ASSUME TypesOK, NEW os, Gated(Swept(pending, aged), os), Reserve(Swept(pending, aged), os)
    PROVE  /\ pending' \in [Symbols -> Maybe] /\ orders' \subseteq Orders
           /\ \A x \in os : x.symbol \in Symbols /\ pending'[x.symbol] = x.slot
           /\ \A s \in Symbols : (\A x \in os : x.symbol # s) => pending'[s] = Swept(pending, aged)[s]
<1> DEFINE p == Swept(pending, aged)
<1>1. p \in [Symbols -> Maybe] BY SweptType
<1> HIDE DEF p
<1>2. pending' = [s \in Symbols |-> IF \E o \in os : o.symbol = s
                                    THEN (CHOOSE o \in os : o.symbol = s).slot ELSE p[s]]
  BY DEF Reserve, p
<1>3. \A x \in os : x.symbol \in Symbols /\ x.slot \in Maybe BY DEF Gated, Orders, Maybe
<1>4. ASSUME NEW x \in os PROVE (CHOOSE o \in os : o.symbol = x.symbol) = x
  <2>1. (CHOOSE o \in os : o.symbol = x.symbol) \in os
        /\ (CHOOSE o \in os : o.symbol = x.symbol).symbol = x.symbol
    OBVIOUS
  <2> QED BY <2>1 DEF Gated
<1>5. \A x \in os : pending'[x.symbol] = x.slot BY <1>2, <1>3, <1>4
<1>6. \A s \in Symbols : (\A x \in os : x.symbol # s) => pending'[s] = p[s] BY <1>2
<1>7. \A s \in Symbols : pending'[s] \in Maybe BY <1>1, <1>3, <1>5, <1>6
<1>8. pending' \in [Symbols -> Maybe] BY <1>2, <1>7
<1> QED BY <1>3, <1>5, <1>6, <1>8 DEF Reserve, TypesOK, Gated, p

LEMMA ReserveIsFine ==
    ASSUME TypesOK, Faithful, Counted, NEW os, Gated(Swept(pending, aged), os),
           Reserve(Swept(pending, aged), os), ~slipped', UNCHANGED <<open, held, results>>
    PROVE  Faithful' /\ Counted'
<1> DEFINE p == Swept(pending, aged)
<1>1. /\ \A s \in Symbols : Agreed(s, open[s], p[s], held[s], orders, results)
      /\ \A t \in Slots : Count(p, t) <= Cap(t)
  BY SweepIsFine DEF Reserve
<1>2. /\ \A x \in os : x.symbol \in Symbols /\ x.slot \in Slots /\ pending'[x.symbol] = x.slot
      /\ \A s \in Symbols : (\A x \in os : x.symbol # s) => pending'[s] = p[s]
  BY ReserveTypes DEF Gated, Orders
<1>3. /\ \A x \in os : {open[x.symbol], p[x.symbol]} \subseteq {"none", x.slot}
      /\ orders' = orders \cup os
  BY DEF Reserve
<1>0. /\ \A t \in Slots : Count(p, t) + Cardinality({x \in os : x.slot = t}) <= Cap(t)
      /\ IsFiniteSet(os) /\ \A x, y \in os : x.symbol = y.symbol => x = y
  BY <1>1 DEF Gated
<1> HIDE DEF p
<1>4. ASSUME NEW s \in Symbols
      PROVE  Agreed(s, open[s], pending'[s], held[s], orders \cup os, results)
  <2>1. CASE \E x \in os : x.symbol = s
    <3>1. PICK x \in os : x.symbol = s BY <2>1
    <3>2. \A y \in os : y.symbol = s => y.slot = x.slot BY <1>0, <3>1
    <3>3. pending'[s] = x.slot /\ x.slot \in Slots /\ {open[s], p[s]} \subseteq {"none", x.slot}
      BY <1>2, <1>3, <3>1
    <3> QED BY <1>1, <3>2, <3>3, ReservedIsFine
  <2>2. CASE \A x \in os : x.symbol # s
    <3>1. pending'[s] = p[s] BY <1>2, <2>2
    <3> QED BY <1>1, <2>2, <3>1 DEF Agreed
  <2> QED BY <2>1, <2>2
<1>5. Faithful' BY <1>3, <1>4 DEF Faithful
<1>6. ASSUME NEW t \in Slots PROVE Count(pending, t)' <= Cap(t)
  <2> DEFINE A == {s \in Symbols : SlotOf(p, s) = t}
             X == {x \in os : x.slot = t}
             B == {x.symbol : x \in X}
             f == [x \in X |-> x.symbol]
             N == {s \in Symbols : SlotOf(pending, s)' = t}
  <2>1. N \subseteq A \cup B
    <3> SUFFICES ASSUME NEW s \in Symbols, SlotOf(pending, s)' = t, s \notin B PROVE s \in A OBVIOUS
    <3>1. CASE \E x \in os : x.symbol = s
      <4>1. PICK x \in os : x.symbol = s BY <3>1
      <4>2. pending'[s] = x.slot /\ x.slot # "none" BY <1>2, <4>1 DEF Slots
      <4> QED BY <4>1, <4>2 DEF SlotOf
    <3>2. CASE \A x \in os : x.symbol # s
      BY <1>2, <3>2 DEF SlotOf
    <3> QED BY <3>1, <3>2
  <2>2. IsFiniteSet(X) /\ Cardinality(X) \in Nat BY <1>0, FS_Subset, FS_CardinalityType
  <2>3. f \in Surjection(X, B) BY DEF Surjection
  <2>4. IsFiniteSet(B) /\ Cardinality(B) <= Cardinality(X) /\ Cardinality(B) \in Nat
    BY <2>2, <2>3, FS_Surjection, FS_CardinalityType
  <2>5. A \in SUBSET Symbols /\ B \in SUBSET Symbols BY <1>2
  <2> HIDE DEF A, B, X, N, f
  <2>6. IsFiniteSet(A) /\ Cardinality(A) \in Nat BY <2>5, FewerSymbols
  <2>7. Cardinality(A \cup B) <= Cardinality(A) + Cardinality(B)
    <3>1. Cardinality(A \cup B) = Cardinality(A) + Cardinality(B) - Cardinality(A \cap B)
      BY <2>4, <2>6, FS_Union
    <3>2. Cardinality(A \cap B) \in Nat BY <2>6, FS_Subset, FS_CardinalityType
    <3> QED BY <2>4, <2>6, <3>1, <3>2
  <2>8. (A \cup B) \in SUBSET Symbols /\ N \in SUBSET (A \cup B) BY <2>1, <2>5
  <2>9. Cardinality(N) <= Cardinality(A \cup B) /\ Cardinality(N) \in Nat /\ Cardinality(A \cup B) \in Nat
    BY <2>8, FewerSymbols
  <2>10. Cardinality(A) + Cardinality(X) <= Cap(t) BY <1>0 DEF A, X, Count
  <2>11. Count(pending, t)' = Cardinality(N) BY DEF N, Count
  <2> QED BY <2>2, <2>4, <2>6, <2>7, <2>9, <2>10, <2>11, CapType
<1>7. Counted' BY <1>6 DEF Counted, Cap
<1> QED BY <1>5, <1>7
-----------------------------------------------------------------------------
(* The steps and the caps.                                                    *)

\* Who has nothing more to answer, has fewer that count.
LEMMA FewerCounted ==
    ASSUME Counted, \A s \in Symbols : SlotOf(pending, s)' \in {SlotOf(pending, s), "none"}
    PROVE  Counted'
<1> SUFFICES ASSUME NEW t \in Slots PROVE Count(pending, t)' <= Cap(t)
  BY DEF Counted, Cap
<1> DEFINE S == {s \in Symbols : SlotOf(pending, s) = t}
           T == {s \in Symbols : SlotOf(pending, s)' = t}
<1>1. t # "none" BY DEF Slots
<1>2. S \in SUBSET Symbols /\ T \in SUBSET S BY <1>1
<1>3. Cardinality(T) <= Cardinality(S) /\ Cardinality(S) \in Nat /\ Cardinality(T) \in Nat
  BY <1>2, FewerSymbols
<1>4. Cardinality(S) <= Cap(t) BY DEF Counted, Count
<1> QED BY <1>3, <1>4, CapType DEF Count

LEMMA InitCaps == Init => CapsInv
<1> SUFFICES ASSUME Init PROVE CapsInv OBVIOUS
<1>1. TypesOK BY FS_EmptySet DEF Init, TypesOK, BufferOK, Maybe
<1>2. Faithful BY DEF Init, Faithful, Agreed
<1>3. ASSUME NEW t \in Slots PROVE Count(pending, t) <= Cap(t)
  <2>1. {s \in Symbols : SlotOf(pending, s) = t} = {} BY DEF Init, SlotOf, Slots
  <2> QED BY <2>1, FS_EmptySet, CapType DEF Count
<1> QED BY <1>1, <1>2, <1>3 DEF CapsInv, Counted

\* A step of the judge that sweeps and dispatches nothing.
LEMMA QuietCaps ==
    ASSUME CapsInv, Quiet(Swept(pending, aged)), aged' = {}, BufferOK',
           UNCHANGED <<open, held, results>>
    PROVE  CapsInv'
<1>1. TypesOK' BY SweptType DEF CapsInv, TypesOK, Quiet
<1>2. ASSUME ~slipped' PROVE Faithful' /\ Counted'
  <2>1. TypesOK /\ Faithful /\ Counted /\ ~SweepSlips BY <1>2 DEF CapsInv, Quiet
  <2>2. Faithful' BY <2>1, SweepIsFine DEF Faithful, Quiet
  <2>3. \A t \in Slots : Count(Swept(pending, aged), t) <= Cap(t) BY <2>1, SweepIsFine
  <2>4. \A t : Count(pending, t)' = Count(Swept(pending, aged), t)
    BY DEF Quiet, Count, SlotOf
  <2> QED BY <2>2, <2>3, <2>4 DEF Counted, Cap
<1> QED BY <1>1, <1>2 DEF CapsInv

\* One that dispatches what the gate lets through.
LEMMA ReserveCaps ==
    ASSUME CapsInv, NEW os, Gated(Swept(pending, aged), os),
           Reserve(Swept(pending, aged), os), aged' = {}, BufferOK',
           UNCHANGED <<open, held, results>>
    PROVE  CapsInv'
<1>1. TypesOK' BY ReserveTypes DEF CapsInv, TypesOK
<1>2. ~slipped' => ~slipped BY DEF Reserve
<1> QED BY <1>1, <1>2, ReserveIsFine DEF CapsInv

LEMMA DispatchIsGated ==
    ASSUME NEW p, NEW s \in Symbols, NEW slot \in Slots, NEW id \in Nat, Free(p, slot)
    PROVE  Gated(p, {Order(s, slot, id)})
<1> DEFINE o == Order(s, slot, id)
<1>1. o \in Orders /\ o.slot = slot BY DEF Order, Orders
<1> HIDE DEF o
<1>2. ASSUME \A t \in Slots : Count(p, t) <= Cap(t), NEW t \in Slots
      PROVE  Count(p, t) + Cardinality({x \in {o} : x.slot = t}) <= Cap(t)
  <2> DEFINE T == {x \in {o} : x.slot = t}
  <2> Count(p, t) \in Nat /\ Cap(t) \in Nat BY CountType, CapType
  <2>1. CASE t = slot
    <3>1. T = {o} BY <1>1, <2>1
    <3>2. Cardinality(T) = 1 BY <3>1, FS_Singleton
    <3>3. Count(p, t) < Cap(t) BY <2>1 DEF Free
    <3> QED BY <3>2, <3>3
  <2>2. CASE t # slot
    <3>1. T = {} BY <1>1, <2>2
    <3>2. Cardinality(T) = 0 BY <3>1, FS_EmptySet
    <3> QED BY <1>2, <3>2
  <2> QED BY <2>1, <2>2
<1>3. Gated(p, {o}) BY <1>1, <1>2, FS_Singleton DEF Gated
<1> QED BY <1>3 DEF o

LEMMA AnalyseCaps == ASSUME SlotsInv, CapsInv, NEW s \in Symbols, Analyse(s) PROVE CapsInv'
<1> DEFINE p == Swept(pending, aged)
           d == state[s].deferred
<1>1. aged' = {} /\ UNCHANGED <<open, held, results>> BY DEF Analyse
<1>2. BufferOK BY DEF CapsInv, TypesOK
<1>3. ASSUME Quiet(p), UNCHANGED buffer PROVE CapsInv'
  BY <1>1, <1>2, <1>3, QuietCaps DEF BufferOK
<1>4. ASSUME Dispatch(s, d, p), d # NoEntry, UNCHANGED buffer PROVE CapsInv'
  <2>1. CASE ~Free(p, d.slot) BY <1>3, <1>4, <2>1 DEF Dispatch
  <2>2. CASE Free(p, d.slot)
    <3>1. state[s] \in Memories BY DEF SlotsInv, MemoryOK
    <3>2. d.slot \in Slots /\ d.id \in Nat BY <1>4, <3>1 DEF Memories, Entries
    <3>3. Reserve(p, {Order(s, d.slot, d.id)}) BY <1>4, <2>2 DEF Dispatch
    <3>4. Gated(p, {Order(s, d.slot, d.id)}) BY <2>2, <3>2, DispatchIsGated
    <3>5. BufferOK' BY <1>2, <1>4 DEF BufferOK
    <3> QED BY <1>1, <3>3, <3>4, <3>5, ReserveCaps
  <2> QED BY <2>1, <2>2
<1>5. CASE Crowded(p, s) /\ Quiet(p) /\ UNCHANGED <<state, buffer, entries>> BY <1>3, <1>5
<1>6. CASE (Confirm15m(s, p) \/ Pullback(s, p)) /\ UNCHANGED <<buffer, entries>>
  <2>1. d # NoEntry BY <1>6 DEF Confirm15m, Pullback, NoEntry
  <2> QED BY <1>3, <1>4, <1>6, <2>1 DEF Confirm15m, Pullback
<1>7. CASE Decided(s, p)
  <2>1. CASE UNCHANGED buffer BY <1>3, <1>7, <2>1 DEF Decided
  <2>2. CASE \E t \in Slots : buffer' = buffer \cup {Order(s, t, 0)}
    <3>1. PICK t \in Slots : buffer' = buffer \cup {Order(s, t, 0)} BY <2>2
    <3> DEFINE o == Order(s, t, 0)
    <3>2. o \in Orders /\ o.symbol = s BY DEF Order, Orders
    <3>3. \A c \in buffer : c.symbol # s BY DEF Analyse, Heard
    <3> HIDE DEF o
    <3>4. buffer' = buffer \cup {o} BY <3>1 DEF o
    <3>5. IsFiniteSet(buffer') BY <1>2, <3>4, FS_AddElement DEF BufferOK
    <3>6. BufferOK' BY <1>2, <3>2, <3>3, <3>4, <3>5 DEF BufferOK
    <3> QED BY <1>1, <1>7, <3>6, QuietCaps DEF Decided
  <2> QED BY <1>7, <2>1, <2>2 DEF Decided
<1> QED BY <1>5, <1>6, <1>7 DEF Analyse

\* The flush takes as many of a type as its cap leaves.
LEMMA FlushCaps == CapsInv /\ Flush => CapsInv'
<1> SUFFICES ASSUME CapsInv, Flush PROVE CapsInv' OBVIOUS
<1> DEFINE p == Swept(pending, aged)
           left(t) == IF Free(p, t) THEN Cap(t) - Count(p, t) ELSE 0
<1>1. PICK os \in SUBSET buffer :
        /\ Reserve(p, os)
        /\ \A t \in Slots : Cardinality(os \cap {c \in buffer : c.slot = t}) <= left(t)
  BY DEF Flush
<1>2. os \subseteq Orders /\ IsFiniteSet(os) /\ \A x, y \in os : x.symbol = y.symbol => x = y
  BY FS_Subset DEF CapsInv, TypesOK, BufferOK
<1>3. ASSUME \A t \in Slots : Count(p, t) <= Cap(t), NEW t \in Slots
      PROVE  Count(p, t) + Cardinality({x \in os : x.slot = t}) <= Cap(t)
  <2> DEFINE T == {x \in os : x.slot = t}
  <2>1. T = os \cap {c \in buffer : c.slot = t} OBVIOUS
  <2>2. Cardinality(T) \in Nat BY <1>2, FS_Subset, FS_CardinalityType
  <2>3. Cardinality(T) <= left(t) BY <1>1, <2>1
  <2>4. Count(p, t) \in Nat /\ Cap(t) \in Nat BY CountType, CapType
  <2>5. Count(p, t) <= Cap(t) BY <1>3
  <2>6. left(t) \in {Cap(t) - Count(p, t), 0} OBVIOUS
  <2> HIDE DEF T, p, left
  <2>7. Count(p, t) + Cardinality(T) <= Cap(t) BY <2>2, <2>3, <2>4, <2>5, <2>6
  <2> QED BY <2>7 DEF T, p
<1>4. Gated(p, os) BY <1>2, <1>3 DEF Gated
<1>5. BufferOK' BY FS_EmptySet DEF Flush, BufferOK
<1>6. aged' = {} /\ UNCHANGED <<open, held, results>> BY DEF Flush
<1> QED BY <1>1, <1>4, <1>5, <1>6, ReserveCaps

LEMMA ResultCaps == CapsInv /\ HandleResult => CapsInv'
<1> SUFFICES ASSUME CapsInv, HandleResult PROVE CapsInv' OBVIOUS
<1> DEFINE r == Head(results)
           s == r.symbol
<1>1. /\ results # <<>> /\ results' = Tail(results) /\ UNCHANGED <<buffer, held, orders>>
      /\ ReleasedOnly(s, r) /\ open' = OpenAfter(s, r)
  BY DEF HandleResult, world
<1>2. TypesOK BY DEF CapsInv
<1>3. r \in Results /\ Tail(results) \in Seq(Results)
  BY <1>1, <1>2, TailFacts DEF TypesOK
<1> HIDE DEF r
<1>4. s \in Symbols /\ OpenAfter(s, r) \in [Symbols -> Maybe]
      /\ \A u \in Symbols : u # s => OpenAfter(s, r)[u] = open[u]
  <2>1. s \in Symbols /\ (r.kind = "opened" => r.slot \in Maybe)
    BY <1>3 DEF Results, Ends, Neutral, Maybe
  <2>2. open \in [Symbols -> Maybe] BY <1>2 DEF TypesOK
  <2> QED BY <2>1, <2>2 DEF OpenAfter, Maybe
<1>5. TypesOK' BY <1>1, <1>2, <1>3, <1>4 DEF TypesOK, BufferOK, ReleasedOnly, Maybe
<1>6. ASSUME ~slipped' PROVE Faithful' /\ Counted'
  <2>1. Faithful /\ Counted BY <1>1, <1>6 DEF CapsInv, ReleasedOnly
  <2>2. Agreed(s, open[s], pending[s], held[s], orders, results) BY <1>4, <2>1 DEF Faithful
  <2>3. ~UnansweredIn(Tail(results), s)
    <3>1. CASE pending[s] # "none" BY <1>1, <1>6, <3>1 DEF ReleasedOnly
    <3>2. CASE pending[s] = "none"
      <4>1. \A x \in orders : x.symbol = s => FALSE
        BY <1>2, <2>2, <3>2 DEF Agreed, TypesOK, Orders, Slots
      <4>2. \A i \in DOMAIN results : results[i] \in Results BY <1>2 DEF TypesOK
      <4>3. \A i \in DOMAIN results : Opens(results, i, s) => FALSE
        BY <2>2, <3>2, <4>2 DEF Agreed, Opens, Results, Slots, Ends, Neutral
      <4>4. \A i \in DOMAIN Tail(results) : i + 1 \in DOMAIN results /\ Tail(results)[i] = results[i + 1]
        BY <1>1, <1>2, TailFacts DEF TypesOK
      <4> QED BY <4>1, <4>3, <4>4 DEF UnansweredIn, Opens
    <3> QED BY <3>1, <3>2
  <2>4. /\ Agreed(s, OpenAfter(s, r)[s], "none", held[s], orders, Tail(results))
        /\ OpenAfter(s, r)[s] \in {SlotOf(pending, s), "none"}
    BY <1>1, <1>2, <2>1, <2>3, AnswerIsFine DEF r
  <2>5. /\ pending'[s] = "none"
        /\ \A u \in Symbols : u # s => pending'[u] = pending[u] /\ open'[u] = open[u]
    BY <1>1, <1>2, <1>4 DEF ReleasedOnly, TypesOK
  <2>6. ASSUME NEW u \in Symbols, u # s
        PROVE  Agreed(u, open[u], pending[u], held[u], orders, Tail(results))
    <3>1. Agreed(u, open[u], pending[u], held[u], orders, results) BY <2>1 DEF Faithful
    <3> QED BY <1>1, <1>2, <2>6, <3>1, ReadingIsFine DEF r, TypesOK
  <2>7. Faithful' BY <1>1, <2>4, <2>5, <2>6 DEF Faithful
  <2>8. \A u \in Symbols : SlotOf(pending, u)' \in {SlotOf(pending, u), "none"}
    BY <1>1, <2>4, <2>5 DEF SlotOf
  <2> QED BY <2>1, <2>7, <2>8, FewerCounted
<1> QED BY <1>5, <1>6 DEF CapsInv

\* What the executor does: the judge counts as before.
LEMMA ExecutorCaps ==
    ASSUME CapsInv, UNCHANGED <<judge, slipped>>, NEW r \in Results,
           results' = Append(results, r), orders' \subseteq orders,
           held' \in [Symbols -> Maybe],
           Faithful => \A s \in Symbols :
               Agreed(s, open[s], pending[s], held'[s], orders', Append(results, r))
    PROVE  CapsInv'
<1>1. TypesOK' BY QueueFacts DEF CapsInv, TypesOK, BufferOK, judge
<1>2. Faithful => Faithful' BY DEF Faithful, judge
<1>3. Counted => Counted' BY FewerCounted DEF SlotOf, judge
<1> QED BY <1>1, <1>2, <1>3 DEF CapsInv

LEMMA ExecuteCaps == ASSUME CapsInv, NEW o \in orders, Execute(o) PROVE CapsInv'
<1>1. /\ o \in Orders /\ held \in [Symbols -> Maybe] /\ results \in Seq(Results)
  BY DEF CapsInv, TypesOK
<1>2. o.symbol \in Symbols /\ o.slot \in Slots /\ o.slot \in Maybe BY <1>1 DEF Orders, Maybe
<1>3. orders' = orders \ {o} /\ UNCHANGED <<judge, slipped>> BY DEF Execute
<1>4. CASE /\ held[o.symbol] = "none"
           /\ held' = [held EXCEPT ![o.symbol] = o.slot]
           /\ Report([kind |-> "opened", symbol |-> o.symbol, slot |-> o.slot])
  <2> DEFINE r == [kind |-> "opened", symbol |-> o.symbol, slot |-> o.slot]
  <2>1. r \in Results /\ r.kind = "opened" /\ r.symbol = o.symbol /\ r.slot = o.slot
    BY <1>2 DEF Results
  <2> HIDE DEF r
  <2>2. results' = Append(results, r) BY <1>4 DEF Report, r
  <2>3. ASSUME Faithful, NEW s \in Symbols
        PROVE  Agreed(s, open[s], pending[s], held'[s], orders', Append(results, r))
    <3>1. Agreed(s, open[s], pending[s], held[s], orders, results) BY <2>3 DEF Faithful
    <3>2. CASE s = o.symbol
      <4>1. held[s] = "none" /\ held'[s] = o.slot BY <1>1, <1>2, <1>4, <3>2
      <4> QED BY <1>1, <1>3, <2>1, <3>1, <3>2, <4>1, OpeningIsFine
    <3>3. CASE s # o.symbol
      <4>1. held'[s] = held[s] BY <1>1, <1>4, <3>3
      <4> QED BY <1>1, <1>3, <2>1, <3>1, <3>3, <4>1, NeutralIsFine
    <3> QED BY <3>2, <3>3
  <2> QED BY <1>1, <1>2, <1>3, <1>4, <2>1, <2>2, <2>3, ExecutorCaps
<1>5. CASE UNCHANGED held /\ Report([kind |-> "refused", symbol |-> o.symbol])
  <2> DEFINE r == [kind |-> "refused", symbol |-> o.symbol]
  <2>1. r \in Results /\ r.kind \in Neutral BY <1>2 DEF Results, Neutral
  <2> HIDE DEF r
  <2>2. results' = Append(results, r) BY <1>5 DEF Report, r
  <2>3. ASSUME Faithful, NEW s \in Symbols
        PROVE  Agreed(s, open[s], pending[s], held'[s], orders', Append(results, r))
    <3>1. Agreed(s, open[s], pending[s], held[s], orders, results) BY <2>3 DEF Faithful
    <3> QED BY <1>1, <1>3, <1>5, <2>1, <3>1, NeutralIsFine
  <2> QED BY <1>1, <1>3, <1>5, <2>1, <2>2, <2>3, ExecutorCaps
<1> QED BY <1>4, <1>5 DEF Execute

LEMMA OtherCaps == ASSUME CapsInv, NEW s \in Symbols, Other(s) PROVE CapsInv'
<1> DEFINE r == [kind |-> "reduced", symbol |-> s]
<1>1. r \in Results /\ r.kind \in Neutral BY DEF Results, Neutral
<1> HIDE DEF r
<1>2. results' = Append(results, r) /\ UNCHANGED <<judge, world, slipped>> BY DEF Other, Report, r
<1>3. held \in [Symbols -> Maybe] /\ results \in Seq(Results) /\ UNCHANGED <<held, orders>>
  BY <1>2 DEF CapsInv, TypesOK, world
<1>4. ASSUME Faithful, NEW u \in Symbols
      PROVE  Agreed(u, open[u], pending[u], held'[u], orders', Append(results, r))
  <2>1. Agreed(u, open[u], pending[u], held[u], orders, results) BY <1>4 DEF Faithful
  <2> QED BY <1>1, <1>3, <2>1, NeutralIsFine
<1> QED BY <1>1, <1>2, <1>3, <1>4, ExecutorCaps

LEMMA CloseCaps == ASSUME CapsInv, NEW s \in Symbols, Close(s) PROVE CapsInv'
<1>1. /\ held' = [held EXCEPT ![s] = "none"] /\ UNCHANGED <<judge, orders, slipped>>
      /\ held \in [Symbols -> Maybe] /\ results \in Seq(Results)
  BY DEF Close, CapsInv, TypesOK
<1>2. PICK r \in Results : r.symbol = s /\ r.kind \in Ends /\ results' = Append(results, r)
  <2>1. PICK stop \in BOOLEAN : \/ Report([kind |-> "forced", symbol |-> s, stop |-> stop])
                                \/ Report([kind |-> "external", symbol |-> s])
                                \/ Report([kind |-> "closed", symbol |-> s])
    BY DEF Close
  <2> QED BY <2>1 DEF Report, Results, Ends
<1>3. held' \in [Symbols -> Maybe] /\ held'[s] = "none" /\ \A u \in Symbols : u # s => held'[u] = held[u]
  BY <1>1 DEF Maybe
<1>4. ASSUME Faithful, NEW u \in Symbols
      PROVE  Agreed(u, open[u], pending[u], held'[u], orders', Append(results, r))
  <2>1. Agreed(u, open[u], pending[u], held[u], orders, results) BY <1>4 DEF Faithful
  <2>2. CASE u = s BY <1>1, <1>2, <1>3, <2>1, <2>2, EndIsFine
  <2>3. CASE u # s BY <1>1, <1>2, <1>3, <2>1, <2>3, NeutralIsFine
  <2> QED BY <2>2, <2>3
<1> QED BY <1>1, <1>2, <1>3, <1>4, ExecutorCaps

\* The judge counts what is ordered and what is held.
LEMMA LoadIsCounted ==
    ASSUME TypesOK, Faithful, NEW s \in Symbols, NEW t \in Slots,
           held[s] = t \/ \E o \in orders : o.symbol = s /\ o.slot = t
    PROVE  SlotOf(pending, s) = t
<1>1. Agreed(s, open[s], pending[s], held[s], orders, results) BY DEF Faithful
<1>2. t # "none" BY DEF Slots
<1> QED BY <1>1, <1>2 DEF Agreed, SlotOf

LEMMA RestartCaps == CapsInv /\ Restart => CapsInv'
<1> SUFFICES ASSUME CapsInv, Restart PROVE CapsInv' OBVIOUS
<1>1. PICK done \in SUBSET orders :
        held' = [s \in Symbols |-> IF \E o \in done : o.symbol = s
                                   THEN (CHOOSE o \in done : o.symbol = s).slot ELSE held[s]]
  BY DEF Restart
<1>2. /\ orders' = {} /\ results' = <<>> /\ buffer' = {} /\ aged' = {} /\ open' = held'
      /\ pending' = [s \in Symbols |-> "none"] /\ slipped' = slipped
  BY DEF Restart
<1>3. TypesOK BY DEF CapsInv
<1>4. ASSUME NEW s \in Symbols
      PROVE  held'[s] = held[s] \/ \E o \in orders : o.symbol = s /\ o.slot = held'[s]
  <2>1. CASE \E o \in done : o.symbol = s
    <3>1. (CHOOSE o \in done : o.symbol = s) \in done /\ (CHOOSE o \in done : o.symbol = s).symbol = s
      BY <2>1
    <3> QED BY <1>1, <2>1, <3>1
  <2>2. CASE ~\E o \in done : o.symbol = s BY <1>1, <2>2
  <2> QED BY <2>1, <2>2
<1>5. held' \in [Symbols -> Maybe]
  <2>1. \A s \in Symbols : held'[s] \in Maybe BY <1>3, <1>4 DEF TypesOK, Orders, Maybe
  <2> QED BY <1>1, <2>1
<1>6. TypesOK'
  <2>1. <<>> \in Seq(Results) OBVIOUS
  <2> QED BY <1>2, <1>5, <2>1, FS_EmptySet DEF TypesOK, BufferOK, Maybe
<1>7. ASSUME Faithful, Counted PROVE Faithful' /\ Counted'
  <2>1. Faithful' BY <1>2 DEF Faithful, Agreed
  <2>2. ASSUME NEW s \in Symbols PROVE SlotOf(pending, s)' \in {SlotOf(pending, s), "none"}
    <3>1. SlotOf(pending, s)' = held'[s] BY <1>2 DEF SlotOf
    <3>2. held'[s] = "none" \/ held'[s] \in Slots BY <1>5 DEF Maybe
    <3> QED BY <1>3, <1>4, <1>7, <3>1, <3>2, LoadIsCounted
  <2> QED BY <1>7, <2>1, <2>2, FewerCounted
<1> QED BY <1>2, <1>6, <1>7 DEF CapsInv

LEMMA CapsKept == SlotsInv /\ CapsInv /\ [Next]_vars => CapsInv'
<1> SUFFICES ASSUME SlotsInv, CapsInv, [Next]_vars PROVE CapsInv' OBVIOUS
<1>1. ASSUME UNCHANGED <<open, pending, held, orders, results, slipped, buffer>>, aged' \subseteq Symbols
      PROVE  CapsInv'
  <2>1. TypesOK' BY <1>1 DEF CapsInv, TypesOK, BufferOK
  <2>2. Faithful => Faithful' BY <1>1 DEF Faithful
  <2>3. Counted => Counted' BY <1>1, FewerCounted DEF SlotOf
  <2> QED BY <1>1, <2>1, <2>2, <2>3 DEF CapsInv
<1>2. aged \subseteq Symbols BY DEF CapsInv, TypesOK
<1>3. CASE UNCHANGED vars BY <1>1, <1>2, <1>3 DEF vars, judge, world
<1>4. ASSUME NEW s \in Symbols, RemoveSymbol(s) \/ AgePending(s) \/ Age(s) PROVE CapsInv'
  BY <1>1, <1>2, <1>4 DEF RemoveSymbol, AgePending, Age, world
<1>5. ASSUME NEW f \in finals, HandleFinal(f) PROVE CapsInv'
  BY <1>1, <1>2, <1>5 DEF HandleFinal, world
<1> QED BY <1>3, <1>4, <1>5, AnalyseCaps, FlushCaps, ResultCaps, RestartCaps, ExecuteCaps,
           OtherCaps, CloseCaps DEF Next

\* P2-O: of no slot type are there more positions and orders under way than its
\* cap, unless a reservation was let go or hidden while its order stood; for any
\* symbols, caps, results under way and restarts.
THEOREM CapsAreKept == Spec => []CapsHold
<1>1. CapsInv => CapsHold
  <2> SUFFICES ASSUME CapsInv, ~slipped, NEW t \in Slots
               PROVE  Cardinality({s \in Symbols :
                          held[s] = t \/ \E o \in orders : o.symbol = s /\ o.slot = t}) <= Cap(t)
    BY DEF CapsHold
  <2> DEFINE S == {s \in Symbols : SlotOf(pending, s) = t}
             T == {s \in Symbols : held[s] = t \/ \E o \in orders : o.symbol = s /\ o.slot = t}
  <2>1. T \in SUBSET S BY LoadIsCounted DEF CapsInv
  <2>2. Cardinality(T) <= Cardinality(S) /\ Cardinality(S) \in Nat /\ Cardinality(T) \in Nat
    BY <2>1, FewerSymbols
  <2>3. Cardinality(S) <= Cap(t) BY DEF CapsInv, Counted, Count
  <2> QED BY <2>2, <2>3, CapType
<1> QED BY <1>1, InitNumbers, NumbersKept, InitCaps, CapsKept, PTL DEF Spec

-----------------------------------------------------------------------------
(* The gates: no way to an order goes around one (JudgeGates).                *)

\* A plan on its way to an order, before its size: a probe holds a slot of its
\* own, and so does a plan of the tactical track.
GatePlans == [slot : {"main", "probe_short", "probe_long", "tactical", "low_rr_extra"},
              probe : BOOLEAN, track : {"main", "tactical"}, low : BOOLEAN]
OnItsWay(q) ==
    /\ q \in GatePlans
    /\ q.probe /\ q.track = "main" => q.slot # "main"
    /\ q.track = "tactical" => q.slot = "tactical"

\* What SizeEarned says of an order on the main track.
Earned(m, p) ==
    /\ m.rr >= 2
    /\ (m.rr = 2 /\ m.tp1 = 2) => p.slot # "main"
    /\ (p.slot = "main" /\ m.dir = "short" /\ m.regime = "bullish") => m.rr = 4

\* An order that passed the gates of its path.
Passed(m, p) ==
    /\ m \in Gates!Markets /\ p \in GatePlans
    /\ Gates!ShortReason(m, p) = "" /\ ~Gates!TooHot(m, p) /\ ~Gates!Flat(m)
    /\ p.track = "main" => Earned(m, p)
GatedOrder == gatesSent # Gates!NoOrder => \E path \in {"main", "confirm", "pullback"} : \E m, p :
    gatesSent = Gates!Order(path, p, m) /\ Passed(m, p)

LEMMA PlanOnItsWay == OnItsWay(Gates!Plan) /\ Gates!Plan.track = "main"
BY DEF OnItsWay, GatePlans, Gates!Plan

LEMMA ProbeOnItsWay ==
    ASSUME NEW q, OnItsWay(q), q.track = "main", NEW slot \in {"probe_short", "probe_long"}
    PROVE  OnItsWay(Gates!Probe(q, slot)) /\ Gates!Probe(q, slot).track = "main"
BY DEF OnItsWay, GatePlans, Gates!Probe

LEMMA GuardOnItsWay ==
    ASSUME NEW m, NEW q, OnItsWay(q), q.track = "main", NEW g \in Gates!GuardedShorts(m, q)
    PROVE  OnItsWay(g) /\ g.track = "main"
<1>1. g = q \/ g = Gates!Probe(q, "probe_short") BY DEF Gates!GuardedShorts
<1> QED BY <1>1, ProbeOnItsWay

LEMMA RsiOnItsWay ==
    ASSUME NEW m, NEW q, OnItsWay(q), q.track = "main", NEW g \in Gates!AfterRsi(m, q)
    PROVE  OnItsWay(g) /\ g.track = "main"
<1>1. g = q \/ g = Gates!Probe(q, "probe_long") BY DEF Gates!AfterRsi
<1> QED BY <1>1, ProbeOnItsWay

LEMMA TrackOnItsWay ==
    ASSUME NEW m, NEW q, OnItsWay(q), q.track = "main", NEW g \in Gates!Tracks(m, q)
    PROVE  OnItsWay(g)
<1>1. g = q \/ g = [q EXCEPT !.track = "tactical", !.slot = "tactical"] BY DEF Gates!Tracks
<1>2. OnItsWay([q EXCEPT !.track = "tactical", !.slot = "tactical"]) BY DEF OnItsWay, GatePlans
<1> QED BY <1>1, <1>2

\* Whatever floor a plan of the main track reached, its size is earned.
LEMMA SizeIsEarned ==
    ASSUME NEW m \in Gates!Markets, NEW q, OnItsWay(q), q.track = "main",
           NEW floor \in Gates!Floors(m, q), m.rr >= floor
    PROVE  LET p == Gates!Sized(m, q, floor) IN
           /\ p \in GatePlans /\ p.track = "main" /\ p.probe = q.probe
           /\ Earned(m, p)
<1> DEFINE p == Gates!Sized(m, q, floor)
           less == [q EXCEPT !.low = TRUE, !.slot = "low_rr_extra"]
<1>1. m.rr \in 0..4 /\ m.tp1 \in {2, 3} /\ m.dir \in {"long", "short"}
  BY DEF Gates!Markets, Gates!Bands, Gates!Dirs
<1>2. floor \in {2, 3, 4} BY DEF Gates!Floors
<1>3. q \in GatePlans /\ (q.probe => q.slot # "main") BY DEF OnItsWay
<1>4. CASE p = less
  <2>1. less \in GatePlans /\ less.track = "main" /\ less.probe = q.probe /\ less.slot = "low_rr_extra"
    BY <1>3 DEF GatePlans
  <2>2. m.rr >= 2 BY <1>1, <1>2
  <2>3. p \in GatePlans /\ p.track = "main" /\ p.probe = q.probe /\ p.slot = "low_rr_extra"
    <3> HIDE DEF less, p
    <3> QED BY <1>4, <2>1
  <2>4. Earned(m, p)
    <3> HIDE DEF less, p
    <3>1. p.slot # "main" BY <2>3
    <3> QED BY <2>2, <3>1 DEF Earned
  <2> QED BY <2>3, <2>4
<1>5. CASE p = q /\ ~(floor = 2 /\ Gates!LowFloor(m, q) /\ m.tp1 < 3)
  <2>1. m.rr >= 2 BY <1>1, <1>2
  <2>2. (m.rr = 2 /\ m.tp1 = 2) => q.slot # "main"
    <3> SUFFICES ASSUME m.rr = 2, m.tp1 = 2, ~q.probe PROVE FALSE BY <1>3
    <3>1. floor = 2 BY <1>1, <1>2
    <3>2. ~Gates!LowFloor(m, q) BY <3>1, <1>5
    <3> QED BY <3>1, <3>2 DEF Gates!Floors
  <2>3. (q.slot = "main" /\ m.dir = "short" /\ m.regime = "bullish") => m.rr = 4
    <3> SUFFICES ASSUME ~q.probe, m.dir = "short", m.regime = "bullish" PROVE m.rr = 4 BY <1>3
    <3>1. ~Gates!LowFloor(m, q) BY DEF Gates!LowFloor
    <3>2. floor = 4 BY <3>1 DEF Gates!Floors
    <3> QED BY <1>1, <3>2
  <2>4. Earned(m, q)
    <3> HIDE DEF p
    <3> QED BY <2>1, <2>2, <2>3 DEF Earned
  <2>5. p = q BY <1>5
  <2>6. p \in GatePlans /\ p.track = "main" /\ p.probe = q.probe /\ Earned(m, p)
    <3> HIDE DEF p
    <3> QED BY <1>3, <2>4, <2>5
  <2> QED BY <2>6
<1> HIDE DEF less
<1>6. p = less \/ (p = q /\ ~(floor = 2 /\ Gates!LowFloor(m, q) /\ m.tp1 < 3)) BY DEF Gates!Sized, less
<1> QED BY <1>4, <1>5, <1>6

\* A plan of the main path that reached its floor.
LEMMA FlooredIsEarned ==
    ASSUME NEW m \in Gates!Markets, NEW p \in Gates!Floored(m)
    PROVE  p \in GatePlans /\ (p.track = "main" => Earned(m, p))
<1>1. PICK q \in Gates!Ranked(m) :
          p \in IF Gates!Tactical(q) THEN {q}
                ELSE {Gates!Sized(m, q, floor) : floor \in {x \in Gates!Floors(m, q) : m.rr >= x}}
  BY DEF Gates!Floored
<1>2. PICK g \in Gates!GuardedShorts(m, Gates!Plan) : \E r \in Gates!AfterRsi(m, g) : q \in Gates!Tracks(m, r)
  BY <1>1 DEF Gates!Ranked
<1>3. PICK r \in Gates!AfterRsi(m, g) : q \in Gates!Tracks(m, r) BY <1>2
<1>4. OnItsWay(g) /\ g.track = "main" BY PlanOnItsWay, GuardOnItsWay
<1>5. OnItsWay(r) /\ r.track = "main" BY <1>4, RsiOnItsWay
<1>6. OnItsWay(q) BY <1>3, <1>5, TrackOnItsWay
<1>7. CASE q.track = "tactical"
  <2>1. p = q BY <1>1, <1>7 DEF Gates!Tactical
  <2> QED BY <2>1, <1>6, <1>7 DEF OnItsWay
<1>8. CASE q.track = "main"
  <2>1. PICK floor \in Gates!Floors(m, q) : m.rr >= floor /\ p = Gates!Sized(m, q, floor)
    BY <1>1, <1>8 DEF Gates!Tactical
  <2> QED BY <2>1, <1>6, <1>8, SizeIsEarned
<1> QED BY <1>6, <1>7, <1>8 DEF OnItsWay, GatePlans

\* What the regime policy leaves of a plan on a deferred path.
LEMMA PolicyIsEarned ==
    ASSUME NEW m \in Gates!Markets, NEW p \in Gates!RegimePolicy(m, Gates!Plan)
    PROVE  p \in GatePlans /\ Earned(m, p)
<1> DEFINE guarded == Gates!GuardedShorts(m, Gates!Plan)
           routed == {Gates!Probe(g, "probe_short") : g \in {h \in guarded : Gates!ShortReason(m, h) = "daily"}}
<1>1. PICK q \in guarded \cup routed :
          p \in {Gates!Sized(m, q, floor) : floor \in {x \in Gates!Floors(m, q) : m.rr >= x}}
  <2> DEFINE gated == {g \in guarded : Gates!ShortReason(m, g) = ""}
                      \cup (IF m.rr >= 2 THEN routed ELSE {})
  <2>1. Gates!RegimePolicy(m, Gates!Plan) =
          UNION {{Gates!Sized(m, g, floor) : floor \in {x \in Gates!Floors(m, g) : m.rr >= x}} : g \in gated}
    BY DEF Gates!RegimePolicy
  <2>2. PICK q \in gated : p \in {Gates!Sized(m, q, floor) : floor \in {x \in Gates!Floors(m, q) : m.rr >= x}}
    <3> HIDE DEF gated
    <3> QED BY <2>1
  <2>3. q \in guarded \cup routed OBVIOUS
  <2> QED BY <2>2, <2>3
<1>2. OnItsWay(q) /\ q.track = "main"
  <2>1. \A g \in guarded : OnItsWay(g) /\ g.track = "main" BY PlanOnItsWay, GuardOnItsWay
  <2>2. \A r \in routed : OnItsWay(r) /\ r.track = "main" BY <2>1, ProbeOnItsWay
  <2> HIDE DEF guarded, routed
  <2> QED BY <1>1, <2>1, <2>2
<1>3. PICK floor \in Gates!Floors(m, q) : m.rr >= floor /\ p = Gates!Sized(m, q, floor)
  <2> HIDE DEF guarded, routed
  <2> QED BY <1>1
<1> QED BY <1>2, <1>3, SizeIsEarned

\* A path sends a gated order or none.
LEMMA MainIsGated ==
    ASSUME GatedOrder, NEW m \in Gates!Markets, NEW w, Gates!Main(m, w) PROVE GatedOrder'
<1>1. CASE gatesSent' = gatesSent BY <1>1 DEF GatedOrder
<1>2. ASSUME NEW p \in Gates!Floored(m), Gates!ShortReason(m, p) = "", ~Gates!TooHot(m, p), ~Gates!Flat(m),
             gatesSent' = Gates!Order("main", p, m)
      PROVE  GatedOrder'
  <2>1. Passed(m, p) BY <1>2, FlooredIsEarned DEF Passed
  <2> QED BY <1>2, <2>1 DEF GatedOrder
<1> QED BY <1>1, <1>2 DEF Gates!Main, Gates!Hold, Gates!Defer, Gates!Send

LEMMA ReentryIsGated ==
    ASSUME GatedOrder, NEW m \in Gates!Markets, NEW w, NEW path \in {"confirm", "pullback"},
           Gates!Reentry(path, m, w)
    PROVE  GatedOrder'
<1>1. CASE gatesSent' = gatesSent BY <1>1 DEF GatedOrder
<1>2. ASSUME NEW p \in Gates!RegimePolicy(m, Gates!Plan), Gates!ShortReason(m, p) = "",
             ~Gates!TooHot(m, p), ~Gates!Flat(m), gatesSent' = Gates!Order(path, p, m)
      PROVE  GatedOrder'
  <2>1. Passed(m, p) BY <1>2, PolicyIsEarned DEF Passed
  <2> QED BY <1>2, <2>1 DEF GatedOrder
<1> QED BY <1>1, <1>2 DEF Gates!Reentry, Gates!Drop, Gates!Send

LEMMA OrdersAreGated == Gates!Spec => []GatedOrder
<1>1. Gates!Init => GatedOrder BY DEF Gates!Init, GatedOrder
<1>2. GatedOrder /\ [Gates!Next]_(Gates!vars) => GatedOrder'
  <2> SUFFICES ASSUME GatedOrder, [Gates!Next]_(Gates!vars) PROVE GatedOrder' OBVIOUS
  <2>1. CASE gatesSent' = gatesSent BY <2>1 DEF GatedOrder
  <2>2. CASE gatesSent' = Gates!NoOrder BY <2>2 DEF GatedOrder
  <2>3. ASSUME NEW m \in Gates!Markets, NEW w \in Gates!Waited(m), Gates!Confirmed(m, w) \/ Gates!Pulled(m, w)
        PROVE  GatedOrder'
    <3>1. CASE gatesSent' = gatesSent BY <3>1, <2>1
    <3>2. Gates!Reentry("confirm", m, w) \/ Gates!Reentry("pullback", m, w) \/ gatesSent' = gatesSent
      BY <2>3 DEF Gates!Confirmed, Gates!Pulled, Gates!Hold, Gates!Drop
    <3> QED BY <3>1, <3>2, ReentryIsGated
  <2> QED BY <2>1, <2>2, <2>3, MainIsGated DEF Gates!Next, Gates!Analyse, Gates!Leaves, Gates!vars
<1> QED BY <1>1, <1>2, PTL DEF Gates!Spec

\* Short Main Path Risk Guard Parity, AC-LONGPOS-08/09, the choppy flat gate and
\* the floors: no order that is sent went around a gate that another path to an
\* order has; with and without the tactical track, in every market.
THEOREM GatesHold == Gates!Spec => []NoGateBypassed
<1>1. GatedOrder => NoGateBypassed
  <2> SUFFICES ASSUME GatedOrder, gatesSent # Gates!NoOrder PROVE NoGateBypassed
    BY DEF NoGateBypassed, Gates!NoGateBypassed, Gates!ShortsEarned, Gates!LongsNotHot,
           Gates!FlatStaysOut, Gates!SizeEarned, Gates!MainTrack, Gates!Ordered
  <2>1. PICK path, m, p : path \in {"main", "confirm", "pullback"} /\ gatesSent = Gates!Order(path, p, m) /\ Passed(m, p)
    BY DEF GatedOrder
  <2>2. gatesSent.plan = p /\ gatesSent.market = m BY <2>1 DEF Gates!Order
  <2>3. m \in Gates!Markets /\ p \in GatePlans /\ m.dir \in {"long", "short"}
    BY <2>1 DEF Passed, Gates!Markets, Gates!Dirs
  <2>4. Gates!ShortsEarned
    BY <2>1, <2>2, <2>3 DEF Passed, Gates!ShortsEarned, Gates!MainTrack, Gates!ShortReason, Gates!Tactical
  <2>5. Gates!LongsNotHot
    BY <2>1, <2>2, <2>3 DEF Passed, Gates!LongsNotHot, Gates!MainTrack, Gates!TooHot, Gates!Tactical
  <2>6. Gates!FlatStaysOut BY <2>1, <2>2 DEF Passed, Gates!FlatStaysOut, Gates!Flat
  <2>7. Gates!SizeEarned BY <2>1, <2>2 DEF Passed, Earned, Gates!SizeEarned, Gates!MainTrack
  <2> QED BY <2>4, <2>5, <2>6, <2>7 DEF NoGateBypassed, Gates!NoGateBypassed
<1> QED BY <1>1, OrdersAreGated, PTL

-----------------------------------------------------------------------------
(* The plan: its loss and its first target (JudgePlan).                       *)

\* How far a stop may be, and what a market has.
Stops == 1..5549
LevelStops == 1501..4999

LEMMA MarketType ==
    ASSUME NEW m \in Plan!Markets
    PROVE  /\ m.atr \in Nat /\ m.stop \in Nat /\ m.wall \in Nat /\ m.margin \in 1..1000
           /\ m.targets \in Seq(Nat) /\ m.strength \in {50, 65, 85} /\ m.side \in {"long", "short"}
           /\ m.strong \in BOOLEAN
<1>1. m.atr \in Atrs /\ m.stop \in StopLevels /\ m.targets \in TargetLevels BY DEF Plan!Markets
<1>2. m.wall \in Walls /\ m.margin \in Margins BY DEF Plan!Markets
<1>3. m.strength \in {50, 65, 85} /\ m.side \in {"long", "short"} /\ m.strong \in BOOLEAN BY DEF Plan!Markets
<1>4. m.atr \in Nat /\ m.stop \in Nat
  <2>1. Atrs \subseteq Nat /\ StopLevels \subseteq Nat BY PlanMarkets, Zenon
  <2> QED BY <1>1, <2>1
<1>5. m.targets \in Seq(Nat)
  <2>1. TargetLevels \subseteq Seq(Nat) BY PlanMarkets, Zenon
  <2> QED BY <1>1, <2>1
<1>6. m.wall \in Nat /\ m.margin \in 1..1000
  <2>1. Walls \subseteq Nat BY PlanMarkets, Zenon
  <2>2. m.wall \in Nat BY <1>2, <2>1, Zenon
  <2> DEFINE margins == 1..1000
  <2>3. Margins \subseteq margins BY PlanMarkets
  <2> HIDE DEF margins
  <2>4. m.margin \in margins BY <1>2, <2>3, Zenon
  <2> QED BY <2>2, <2>4 DEF margins
<1> QED BY <1>3, <1>4, <1>5, <1>6

LEMMA HalfPercent ==
    ASSUME NEW m, NEW d \in LevelStops
    PROVE  Plan!Behind(m, d) \in Stops
<1>1. \A x \in Nat : x >= 94451000 => x \div 1000 >= 94451 BY SMT
<1>2. \A x \in Nat : x <= 99999999 => x \div 1000 <= 99999 BY SMT
<1>3. \A x \in Nat : x >= 100001000 => x \div 1000 >= 100001 BY SMT
<1>4. \A x \in Nat : x <= 105549999 => x \div 1000 <= 105549 BY SMT
<1>5. \A x \in Nat : x \div 1000 \in Int BY SMT
<1>6. (100000 - d) * 995 \in Nat /\ (100000 - d) * 995 >= 94451000 /\ (100000 - d) * 995 <= 99999999 BY SMT DEF LevelStops
<1>7. (100000 + d) * 1005 \in Nat /\ (100000 + d) * 1005 >= 100001000 /\ (100000 + d) * 1005 <= 105549999 BY SMT DEF LevelStops
<1> DEFINE x == ((100000 - d) * 995) \div 1000
           y == ((100000 + d) * 1005) \div 1000
<1>8. x \in Int /\ x >= 94451 /\ x <= 99999 BY <1>1, <1>2, <1>5, <1>6, SMT
<1>9. y \in Int /\ y >= 100001 /\ y <= 105549 BY <1>3, <1>4, <1>5, <1>7, SMT
<1> HIDE DEF x, y
<1> DEFINE below == 100000 - x
           above == y - 100000
<1>10. below \in Stops /\ above \in Stops BY <1>8, <1>9, SMT DEF Stops
<1>11. CASE m.side = "long"
  <2>1. Plan!Behind(m, d) = below BY <1>11, SMT DEF Plan!Behind, Plan!P, x
  <2> HIDE DEF below, above
  <2> QED BY <2>1, <1>10
<1>12. CASE m.side # "long"
  <2>1. Plan!Behind(m, d) = above BY <1>12, SMT DEF Plan!Behind, Plan!P, y
  <2> HIDE DEF below, above
  <2> QED BY <2>1, <1>10
<1> QED BY <1>11, <1>12

\* A stop is behind the entry, and no further than the widest level with its half
\* percent.
LEMMA StopBounds ==
    ASSUME NEW m \in Plan!Markets
    PROVE  Plan!StopDistance(m) \in Stops
<1> DEFINE least == Plan!MinStop(m)
           widest == Plan!Most(least + 500, Plan!Least(5000, (m.atr * 5) \div 2))
<1>1. m.atr \in Nat /\ m.stop \in Nat /\ m.side \in {"long", "short"} BY MarketType
<1>2. least \in 1500..2500 BY DEF Plan!MinStop
<1>3. Plan!StopDistance(m) =
          IF m.stop > least /\ m.stop < widest THEN Plan!Behind(m, m.stop) ELSE least
  BY DEF Plan!StopDistance
<1>4. widest \in Int /\ widest <= 5000
  <2> HIDE DEF least
  <2>1. (m.atr * 5) \div 2 \in Int BY <1>1
  <2>2. Plan!Least(5000, (m.atr * 5) \div 2) \in Int /\ Plan!Least(5000, (m.atr * 5) \div 2) <= 5000
    BY <2>1 DEF Plan!Least
  <2> QED BY <1>2, <2>2 DEF Plan!Most
<1> HIDE DEF least, widest
<1>5. ASSUME m.stop \in LevelStops PROVE Plan!Behind(m, m.stop) \in Stops
  BY <1>5, HalfPercent
<1>6. CASE m.stop > least /\ m.stop < widest
  <2> DEFINE d == m.stop
  <2> HIDE DEF d
  <2>2. d \in Nat /\ d > least /\ d < widest BY <1>1, <1>6 DEF d
  <2>3. d \in LevelStops BY <2>2, <1>2, <1>4, SMT DEF LevelStops
  <2>1. m.stop \in LevelStops BY <2>3 DEF d
  <2>4. Plan!StopDistance(m) = Plan!Behind(m, m.stop) BY <1>3, <1>6
  <2>5. Plan!Behind(m, m.stop) \in Stops BY <1>5, <2>1
  <2> QED BY <2>4, <2>5
<1>7. CASE ~(m.stop > least /\ m.stop < widest)
  <2>1. Plan!StopDistance(m) = least BY <1>3, <1>7
  <2> QED BY <1>2, <2>1, SMT DEF Stops
<1> QED BY <1>6, <1>7

\* The leverage is a step of the exchange within what was allowed.
LEMMA SomeStep ==
    ASSUME NEW cap \in 1..20
    PROVE  \E l \in Plan!Allowed : l <= cap /\ \A k \in Plan!Allowed : k <= cap => k <= l
<1> DEFINE Best(l) == l \in Plan!Allowed /\ l <= cap /\ \A k \in Plan!Allowed : k <= cap => k <= l
<1>1. CASE cap = 1 
  <2>1. Best(1) BY <1>1 DEF Plan!Allowed
  <2> QED BY <2>1
<1>2. CASE cap = 2 
  <2>1. Best(2) BY <1>2 DEF Plan!Allowed
  <2> QED BY <2>1
<1>3. CASE cap \in 3..4 
  <2>1. Best(3) BY <1>3 DEF Plan!Allowed
  <2> QED BY <2>1
<1>4. CASE cap \in 5..9 
  <2>1. Best(5) BY <1>4 DEF Plan!Allowed
  <2> QED BY <2>1
<1>5. CASE cap \in 10..19 
  <2>1. Best(10) BY <1>5 DEF Plan!Allowed
  <2> QED BY <2>1
<1>6. CASE cap = 20 
  <2>1. Best(20) BY <1>6 DEF Plan!Allowed
  <2> QED BY <2>1
<1> QED BY <1>1, <1>2, <1>3, <1>4, <1>5, <1>6

LEMMA TimesMonotone ==
    ASSUME NEW a \in Nat, NEW b \in Nat, NEW c \in Nat, a <= b
    PROVE  a * c \in Nat /\ b * c \in Nat /\ a * c <= b * c
<1>1. a * c \in Nat /\ b * c \in Nat OBVIOUS
<1>2. (b - a) \in Nat /\ (b - a) * c >= 0 OBVIOUS
<1>3. (b - a) * c = b * c - a * c OBVIOUS
<1> QED BY <1>1, <1>2, <1>3

\* The leverage of a plan keeps the loss at its stop inside the budget.
LEMMA LeverageKeepsBudget ==
    ASSUME NEW m \in Plan!Markets, NEW sl \in Stops
    PROVE  /\ Plan!Leverage(m, sl) \in 1..20
           /\ m.margin * Plan!Leverage(m, sl) * sl <= 500 * Plan!P
<1> DEFINE risk == m.margin * sl
           q == (500 * Plan!P) \div risk
           whole == Plan!Most(1, Plan!Least(20, q))
           cap == IF m.score < 35 THEN Plan!Least(whole, 10) ELSE whole
<1>1. m.margin \in 1..1000 BY MarketType
<1>2. risk \in Nat /\ risk >= 1 /\ risk <= 50000000
  <2> DEFINE k == m.margin
  <2> HIDE DEF k
  <2>1. k \in 1..1000 BY <1>1 DEF k
  <2>5. sl \in Nat /\ sl >= 1 BY SMT DEF Stops
  <2>6. \A x, y \in Nat : x >= 1 /\ y >= 1 => x * y \in Nat /\ x * y >= 1 BY SMT
  <2>7. \A x, y, z \in Nat : x <= z => x * y <= z * y BY SMT
  <2>2. k * sl \in Nat /\ k * sl >= 1 /\ k * sl <= 1000 * sl BY <2>1, <2>5, <2>6, <2>7
  <2>3. 1000 * sl \in Nat /\ 1000 * sl <= 50000000 BY SMT DEF Stops
  <2>4. k * sl <= 50000000 BY <2>2, <2>3, SMT
  <2> QED BY <2>2, <2>4 DEF k
<1>3. q \in Nat /\ q * risk <= 500 * Plan!P
  <2> HIDE DEF risk
  <2>1. \A n \in Nat : (n \div risk) \in Nat /\ (n \div risk) * risk <= n BY <1>2, SMT
  <2>2. 500 * Plan!P \in Nat BY SMT DEF Plan!P
  <2> QED BY <2>1, <2>2
<1>4. whole \in 1..20 /\ (whole = 1 \/ whole <= q)
  <2> HIDE DEF q
  <2> QED BY <1>3 DEF Plan!Most, Plan!Least
<1>5. cap \in 1..20 /\ cap <= whole
  <2> HIDE DEF whole
  <2> QED BY <1>4 DEF Plan!Least
<1> DEFINE l == Plan!Leverage(m, sl)
<1>6. l = CHOOSE k \in Plan!Allowed : k <= cap /\ \A j \in Plan!Allowed : j <= cap => j <= k
  BY DEF Plan!Leverage
<1>7. l \in Plan!Allowed /\ l <= cap
  <2> HIDE DEF cap, l
  <2> QED BY <1>5, <1>6, SomeStep
<1>8. l \in 1..20 /\ l <= whole
  <2> HIDE DEF cap, l, whole
  <2> QED BY <1>4, <1>5, <1>7 DEF Plan!Allowed
<1>9. l * risk <= 500 * Plan!P
  <2> HIDE DEF l, whole, q, risk
  <2>1. CASE l = 1 BY <2>1, <1>2, SMT DEF Plan!P
  <2>2. CASE l <= q
    <3>1. l * risk <= q * risk BY <2>2, <1>2, <1>3, <1>8
    <3>2. l * risk \in Int /\ q * risk \in Int BY <1>2, <1>3, <1>8
    <3> QED BY <3>1, <3>2, <1>3, SMT DEF Plan!P
  <2> QED BY <2>1, <2>2, <1>3, <1>4, <1>8
<1>10. m.margin * l * sl = l * risk
  <2> DEFINE k == m.margin
  <2> HIDE DEF l, k
  <2>1. k \in 1..1000 /\ l \in 1..20 BY <1>1, <1>8 DEF k
  <2>2. k * l * sl = l * (k * sl) BY <2>1, SMT DEF Stops
  <2> QED BY <2>2 DEF k
<1> QED BY <1>8, <1>9, <1>10

\* The targets begin with a distance of one and a half stops or more.
LEMMA LevelType ==
    ASSUME NEW m \in Plan!Markets, NEW i \in {1, 2, 3}
    PROVE  Plan!Level(m, i) \in Seq(Int)
<1>1. m.targets \in Seq(Nat) /\ m.wall \in Nat BY MarketType
<1>2. Plan!WallTarget(m) \in Int BY <1>1 DEF Plan!WallTarget, Plan!P
<1>3. CASE i > Len(m.targets) BY <1>3 DEF Plan!Level
<1>4. CASE ~(i > Len(m.targets))
  <2>1. i \in 1..Len(m.targets) BY <1>1, <1>4
  <2>2. m.targets[i] \in Int BY <1>1, <2>1
  <2> QED BY <1>2, <2>2 DEF Plan!Level
<1> QED BY <1>3, <1>4

LEMMA LevelsType ==
    ASSUME NEW m \in Plan!Markets
    PROVE  Plan!Levels(m) = <<>> \/ Plan!Levels(m)[1] \in Int
<1> DEFINE s == Plan!Levels(m)
<1>1. s \in Seq(Int)
  <2>1. Plan!Level(m, 1) \in Seq(Int) /\ Plan!Level(m, 2) \in Seq(Int) /\ Plan!Level(m, 3) \in Seq(Int)
    BY LevelType
  <2> QED BY <2>1 DEF Plan!Levels
<1> HIDE DEF s
<1>2. s = <<>> \/ s[1] \in Int BY <1>1
<1> QED BY <1>2 DEF s

LEMMA TargetPays ==
    ASSUME NEW m \in Plan!Markets, NEW sl \in Stops
    PROVE  Plan!Targets(m, sl)[1] \in Int /\ 2 * (Plan!Targets(m, sl)[1] + 1) >= 3 * sl
<1> DEFINE atr == Plan!Most(m.atr, 1000)
           least == (sl * 3) \div 2
           ahead == IF Plan!Levels(m) = <<>> THEN Plan!Steps(2000) ELSE Plan!Levels(m)
           found == IF m.strong THEN <<(3 * atr) \div 2, (5 * atr) \div 2, (7 * atr) \div 2>>
                    ELSE IF ahead[1] < atr THEN Plan!Steps(atr) ELSE ahead
<1>1. m.atr \in Nat /\ atr \in Nat BY MarketType DEF Plan!Most
<1>2. least \in Nat /\ 2 * (least + 1) >= 3 * sl BY DEF Stops
<1>3. Plan!Targets(m, sl) = IF found[1] < least THEN Plan!Steps(least) ELSE found
  BY DEF Plan!Targets
<1>4. found[1] \in Int
  <2>1. Plan!Steps(2000)[1] = 2000 /\ Plan!Steps(atr)[1] = atr BY DEF Plan!Steps
  <2>2. ahead[1] \in Int
    <3>1. CASE Plan!Levels(m) = <<>> BY <3>1, <2>1
    <3>2. CASE Plan!Levels(m) # <<>> BY <3>2, LevelsType
    <3> QED BY <3>1, <3>2
  <2> HIDE DEF atr, ahead
  <2>3. CASE m.strong
    <3>1. found[1] = (3 * atr) \div 2 BY <2>3
    <3> QED BY <3>1, <1>1
  <2>4. CASE ~m.strong BY <2>4, <1>1, <2>1, <2>2
  <2> QED BY <2>3, <2>4
<1> HIDE DEF found, least
<1>5. CASE found[1] < least
  <2>1. Plan!Targets(m, sl)[1] = least BY <1>3, <1>5 DEF Plan!Steps
  <2> QED BY <2>1, <1>2
<1>6. CASE ~(found[1] < least)
  <2>1. Plan!Targets(m, sl)[1] = found[1] BY <1>3, <1>6
  <2> QED BY <2>1, <1>2, <1>4, <1>6 DEF Stops
<1> QED BY <1>5, <1>6

\* A plan is none, or one whose fields are all there.
PlanShape == planPlan = Plan!NoPlan \/ \E sl, tp, leverage, margin, rr, rewritten, limit :
    planPlan = [built |-> TRUE, sl |-> sl, tp |-> tp, leverage |-> leverage, margin |-> margin,
                rr |-> rr, rewritten |-> rewritten, limit |-> limit]
PlanInv == planMarket \in Plan!Markets /\ PlanShape /\ PlanPays

LEMMA BuildPays == PlanInv /\ Plan!Build => PlanInv'
<1> SUFFICES ASSUME PlanInv, Plan!Build PROVE PlanInv' OBVIOUS
<1> DEFINE m == planMarket
           sl == Plan!StopDistance(m)
           tp == Plan!Targets(m, sl)
           budgeted == Plan!Leverage(m, sl)
           leverage == IF m.type = "momentum_probe_long" THEN Plan!Least(3, budgeted) ELSE budgeted
<1>1. m \in Plan!Markets /\ planMarket' = m BY DEF PlanInv, Plan!Build
<1>2. sl \in Stops BY <1>1, StopBounds
<1>3. m.margin \in 1..1000
  <2>1. \A n \in Plan!Markets : n.margin \in 1..1000 BY MarketType
  <2> HIDE DEF m
  <2> QED BY <1>1, <2>1
<1>4. budgeted \in 1..20 /\ m.margin * budgeted * sl <= 500 * Plan!P
  <2>1. \A n \in Plan!Markets, d \in Stops :
           Plan!Leverage(n, d) \in 1..20 /\ n.margin * Plan!Leverage(n, d) * d <= 500 * Plan!P
    BY LeverageKeepsBudget
  <2> HIDE DEF m, sl
  <2> QED BY <2>1, <1>1, <1>2, Zenon
<1>5. leverage \in 1..20 /\ leverage <= budgeted
  <2> HIDE DEF budgeted, m
  <2> QED BY <1>4 DEF Plan!Least
<1>6. m.margin * leverage * sl <= 500 * Plan!P
  <2> HIDE DEF budgeted, leverage, sl, m
  <2> DEFINE k == m.margin
  <2> HIDE DEF k
  <2>1. k \in 1..1000 /\ k * budgeted * sl <= 500 * Plan!P BY <1>3, <1>4 DEF k
  <2>2. k * leverage <= k * budgeted /\ k * leverage \in Nat /\ k * budgeted \in Nat
    BY <2>1, <1>4, <1>5, SMT
  <2> DEFINE a == k * leverage
             b == k * budgeted
  <2> HIDE DEF a, b
  <2>6. sl \in Nat BY <1>2 DEF Stops
  <2>7. a \in Nat /\ b \in Nat /\ a <= b BY <2>2 DEF a, b
  <2>3. a * sl \in Nat /\ b * sl \in Nat /\ a * sl <= b * sl BY <2>6, <2>7, TimesMonotone
  <2>4. a * sl = k * leverage * sl /\ b * sl = k * budgeted * sl BY DEF a, b
  <2>5. k * leverage * sl <= 500 * Plan!P BY <2>1, <2>3, <2>4, SMT DEF Plan!P
  <2> QED BY <2>5 DEF k
<1>7. tp[1] \in Int /\ 2 * (tp[1] + 1) >= 3 * sl
  <2>1. \A n \in Plan!Markets, d \in Stops :
           Plan!Targets(n, d)[1] \in Int /\ 2 * (Plan!Targets(n, d)[1] + 1) >= 3 * d
    BY TargetPays
  <2> HIDE DEF m, sl
  <2> QED BY <2>1, <1>1, <1>2, Zenon
<1>8. planPlan' = [built |-> TRUE, sl |-> sl, tp |-> tp, leverage |-> leverage, margin |-> m.margin,
                   rr |-> Plan!Ladder(tp, sl), rewritten |-> FALSE, limit |-> m.score < 80]
  <2>1. planPlan' = Plan!Built(m) BY DEF Plan!Build
  <2> QED BY <2>1 DEF Plan!Built
<1> HIDE DEF budgeted, leverage, sl, m, tp
<1>9. PlanShape'
  <2> DEFINE rr == Plan!Ladder(tp, sl)
             limit == m.score < 80
             margin == m.margin
  <2> HIDE DEF rr, limit, margin
  <2>1. planPlan' = [built |-> TRUE, sl |-> sl, tp |-> tp, leverage |-> leverage, margin |-> margin,
                     rr |-> rr, rewritten |-> FALSE, limit |-> limit]
    BY <1>8 DEF rr, limit, margin
  <2> QED BY <2>1, Zenon DEF PlanShape
<1>10. planPlan'.sl = sl /\ planPlan'.tp = tp /\ planPlan'.leverage = leverage /\ planPlan'.margin = m.margin
  BY <1>8
<1>11. PlanPays' BY <1>6, <1>7, <1>10
         DEF PlanPays, Plan!PlanPays, Plan!BudgetKept, Plan!FirstTargetPays, Plan!Loss, Plan!Budget
<1> QED BY <1>1, <1>9, <1>11 DEF PlanInv

LEMMA PullbackPays == PlanInv /\ Plan!Pullback => PlanInv'
<1> SUFFICES ASSUME PlanInv, Plan!Pullback PROVE PlanInv' OBVIOUS
<1>1. planMarket \in Plan!Markets /\ planMarket' = planMarket BY DEF PlanInv, Plan!Pullback
<1>2. planMarket.atr \in Nat BY <1>1, MarketType
<1>3. CASE planPlan' = planPlan
  BY <1>1, <1>3 DEF PlanInv, PlanShape, PlanPays, Plan!PlanPays, Plan!BudgetKept, Plan!FirstTargetPays
<1>4. CASE planPlan' # planPlan
  <2> DEFINE a == planMarket.atr
  <2>1. planPlan' = [planPlan EXCEPT !.sl = 2 * a, !.tp = <<4 * a, 6 * a, 8 * a>>,
                                     !.rewritten = TRUE, !.limit = TRUE]
    BY <1>4 DEF Plan!Pullback, Plan!Rewrite
  <2>2. PICK sl, tp, leverage, margin, rr, rewritten, limit :
          planPlan = [built |-> TRUE, sl |-> sl, tp |-> tp, leverage |-> leverage, margin |-> margin,
                      rr |-> rr, rewritten |-> rewritten, limit |-> limit]
    BY DEF PlanInv, PlanShape, Plan!Pullback, Plan!NoPlan
  <2> HIDE DEF a
  <2>3. planPlan' = [built |-> TRUE, sl |-> 2 * a, tp |-> <<4 * a, 6 * a, 8 * a>>, leverage |-> leverage,
                     margin |-> margin, rr |-> rr, rewritten |-> TRUE, limit |-> TRUE]
    BY <2>1, <2>2
  <2>4. PlanShape' BY <2>3 DEF PlanShape
  <2>5. planPlan'.rewritten /\ planPlan'.sl = 2 * a /\ planPlan'.tp[1] = 4 * a BY <2>3
  <2>6. 2 * (4 * a + 1) >= 3 * (2 * a) BY <1>2 DEF a
  <2>7. PlanPays' BY <2>5, <2>6 DEF PlanPays, Plan!PlanPays, Plan!BudgetKept, Plan!FirstTargetPays
  <2> QED BY <1>1, <2>4, <2>7 DEF PlanInv
<1> QED BY <1>3, <1>4

\* _calc_risk_budget and _calc_take_profit: a plan as built loses at most 5 % of
\* the balance at its stop, and the first target of every plan pays one and a half
\* stops; for any levels, walls, volatility and margins of at most 10 %.
THEOREM PlansPay == Plan!Spec => []PlanPays
<1>1. Plan!Init => PlanInv
  BY DEF Plan!Init, Plan!NoPlan, PlanInv, PlanShape, PlanPays, Plan!PlanPays, Plan!BudgetKept,
         Plan!FirstTargetPays
<1>2. PlanInv /\ UNCHANGED Plan!vars => PlanInv'
  BY DEF Plan!vars, PlanInv, PlanShape, PlanPays, Plan!PlanPays, Plan!BudgetKept, Plan!FirstTargetPays
<1>3. PlanInv /\ [Plan!Next]_(Plan!vars) => PlanInv' BY <1>2, BuildPays, PullbackPays DEF Plan!Next
<1>4. PlanInv => PlanPays BY DEF PlanInv
<1> QED BY <1>1, <1>3, <1>4, PTL DEF Plan!Spec

-----------------------------------------------------------------------------
(* The score: long and short are judged alike (JudgeScore).  Every operator   *)
(* the score is made of is odd or even under the mirror of its market.        *)

Three == {-1, 0, 1}
Halves == 0..100

\* What the operators read of a market, and of its mirror.
Market(t) ==
    /\ t.rule \in {-2, -1, 0, 1, 2} /\ t.dir \in Three /\ t.htf \in Three
    /\ t.div \in Three /\ t.crowd \in Three
    /\ t.strength \in Nat /\ t.flow \in Int
    /\ t.rsi \in Halves /\ t.rsi4h \in Halves
Mirrors(t, u) ==
    /\ Market(t) /\ Market(u)
    /\ u.rule = -t.rule /\ u.dir = -t.dir /\ u.htf = -t.htf /\ u.div = -t.div /\ u.crowd = -t.crowd
    /\ u.strength = t.strength /\ u.flow = -t.flow
    /\ u.rsi = 100 - t.rsi /\ u.rsi4h = 100 - t.rsi4h

LEMMA TechIsMarket == ASSUME NEW t \in Score!Techs PROVE Market(t)
<1>1. t.rule \in {-2, -1, 0, 1, 2} /\ t.dir \in Score!Signs /\ t.htf \in Score!Signs BY DEF Score!Techs
<1>2. t.div \in Score!Signs /\ t.crowd \in Score!Signs BY DEF Score!Techs
<1>3. t.strength \in Strengths /\ t.flow \in Flows BY DEF Score!Techs
<1>4. t.rsi \in Rsis /\ t.rsi4h \in Frames BY DEF Score!Techs
<1>5. t.strength \in Nat /\ t.flow \in Int /\ t.rsi \in Halves /\ t.rsi4h \in Halves
  BY <1>3, <1>4, ScoreMarkets DEF Halves
<1> QED BY <1>1, <1>2, <1>5 DEF Market, Score!Signs, Three

LEMMA MirrorMirrors == ASSUME NEW t \in Score!Techs PROVE Mirrors(t, Score!Mirror(t))
<1> DEFINE u == Score!Mirror(t)
<1>1. /\ u.rule = -t.rule /\ u.dir = -t.dir /\ u.htf = -t.htf /\ u.div = -t.div /\ u.crowd = -t.crowd
      /\ u.strength = t.strength /\ u.flow = -t.flow
  BY DEF Score!Mirror, Score!Techs
<1>2. u.rsi = 100 - t.rsi /\ u.rsi4h = 100 - t.rsi4h
  BY SMT DEF Score!Mirror, Score!Techs
<1>3. Market(t) BY TechIsMarket
<1> HIDE DEF u
<1>4. Market(u)
  <2>1. u.rule \in {-2, -1, 0, 1, 2} BY <1>1, <1>3, SMT DEF Market
  <2>2. u.dir \in Three /\ u.htf \in Three /\ u.div \in Three /\ u.crowd \in Three
    BY <1>1, <1>3, SMT DEF Market, Three
  <2>3. u.strength \in Nat /\ u.flow \in Int BY <1>1, <1>3, SMT DEF Market
  <2>4. u.rsi \in Halves /\ u.rsi4h \in Halves BY <1>2, <1>3, SMT DEF Market, Halves
  <2> QED BY <2>1, <2>2, <2>3, <2>4 DEF Market
<1> QED BY <1>1, <1>2, <1>3, <1>4 DEF Mirrors, u

\* The arithmetic: signs, and tenths towards zero.
LEMMA SignIsOdd ==
    ASSUME NEW n \in Int
    PROVE  /\ Score!Sign(n) \in Three /\ Score!Sign(-n) = -Score!Sign(n)
           /\ Score!Abs(n) \in Nat /\ Score!Abs(-n) = Score!Abs(n)
BY SMT DEF Score!Sign, Score!Abs, Three

LEMMA SignTimes ==
    ASSUME NEW i \in Three, NEW n \in Int
    PROVE  i * n \in Int /\ (-i) * n = -(i * n) /\ -i \in Three /\ -(-i) = i
BY SMT DEF Three

LEMMA TenthsAreOdd ==
    ASSUME NEW n \in Int, NEW k \in Nat
    PROVE  Score!Tenths(n, k) \in Int /\ Score!Tenths(-n, k) = -Score!Tenths(n, k)
<1> DEFINE q == (Score!Abs(n) * k) \div 10
<1>1. q \in Int
  <2>1. Score!Abs(n) * k \in Nat BY SignIsOdd
  <2> QED BY <2>1, SMT
<1>2. Score!Tenths(n, k) = Score!Sign(n) * q /\ Score!Tenths(-n, k) = (-Score!Sign(n)) * q
  BY SignIsOdd DEF Score!Tenths
<1> HIDE DEF q
<1> QED BY <1>1, <1>2, SignTimes, SignIsOdd

\* The votes.
LEMMA RuleIsOdd ==
    ASSUME NEW t, NEW u, Mirrors(t, u)
    PROVE  Score!Rule(t) \in Int /\ Score!Rule(u) = -Score!Rule(t)
<1>1. t.rule \in {-2, -1, 0, 1, 2} /\ u.rule = -t.rule BY DEF Mirrors, Market
<1> DEFINE r == t.rule
           o == u.rule
<1> HIDE DEF r, o
<1>2. r \in {-2, -1, 0, 1, 2} /\ o = -r BY <1>1 DEF r, o
<1>3. \A x \in {-2, -1, 0, 1, 2} : Score!Abs(x) = (IF x < 0 THEN -x ELSE x) /\ Score!Sign(x) = (IF x < 0 THEN -1 ELSE IF x > 0 THEN 1 ELSE 0)
  BY SMT DEF Score!Abs, Score!Sign
<1>4. Score!Rule(t) = IF r = 2 THEN 35000 ELSE IF r = -2 THEN -35000 ELSE r * 20000
  BY <1>2, <1>3, SMT DEF Score!Rule, r
<1>5. Score!Rule(u) = IF o = 2 THEN 35000 ELSE IF o = -2 THEN -35000 ELSE o * 20000
  BY <1>2, <1>3, SMT DEF Score!Rule, o
<1> QED BY <1>2, <1>4, <1>5, SMT

LEMMA TrendIsOdd ==
    ASSUME NEW t, NEW u, Mirrors(t, u)
    PROVE  Score!Trend(t) \in Int /\ Score!Trend(u) = -Score!Trend(t)
<1>1. t.strength \in Nat /\ u.strength = t.strength BY DEF Mirrors, Market
<1>2. Score!Strength(t) \in Int /\ Score!Strength(u) = Score!Strength(t) BY <1>1, SMT DEF Score!Strength
<1>3. t.dir \in Three /\ u.dir = -t.dir /\ t.rsi \in Halves /\ u.rsi = 100 - t.rsi BY DEF Mirrors, Market
<1>4. Score!Stretched(u) <=> Score!Stretched(t) BY <1>3, SMT DEF Score!Stretched, Three, Halves
<1> DEFINE d == t.dir
           g == Score!Strength(t)
           n == d * 200 * g
           k == IF Score!Stretched(t) THEN 3 ELSE 10
<1>5. n \in Int /\ (-d) * 200 * g = -n
  <2> HIDE DEF d, g
  <2>1. d \in Three /\ g \in Int BY <1>2, <1>3 DEF d, g
  <2>2. CASE d = 0 BY <2>1, <2>2, SMT
  <2>3. CASE d = 1 BY <2>1, <2>3, SMT
  <2>4. CASE d = -1 BY <2>1, <2>4, SMT
  <2> QED BY <2>1, <2>2, <2>3, <2>4 DEF Three
<1>6. k \in Nat OBVIOUS
<1>7. Score!Trend(t) = IF g <= 70 THEN 0 ELSE Score!Tenths(n, k) BY DEF Score!Trend
<1>8. Score!Trend(u) = IF g <= 70 THEN 0 ELSE Score!Tenths((-d) * 200 * g, k)
  BY <1>2, <1>3, <1>4 DEF Score!Trend
<1> HIDE DEF n, k, g, d
<1>9. Score!Tenths(n, k) \in Int /\ Score!Tenths((-d) * 200 * g, k) = -Score!Tenths(n, k)
  BY <1>5, <1>6, TenthsAreOdd
<1> QED BY <1>7, <1>8, <1>9, SMT

LEMMA MaBlocIsOdd ==
    ASSUME NEW t, NEW u, Mirrors(t, u)
    PROVE  Score!MaBloc(t) \in Int /\ Score!MaBloc(u) = -Score!MaBloc(t)
<1> DEFINE raw == Score!Rule(t) + Score!Trend(t) + t.htf * 10000
           other == Score!Rule(u) + Score!Trend(u) + u.htf * 10000
<1>1. t.htf \in Three /\ u.htf = -t.htf BY DEF Mirrors, Market
<1>2. raw \in Int /\ other = -raw
  <2> DEFINE h == t.htf
  <2> HIDE DEF h
  <2>1. h \in Three BY <1>1 DEF h
  <2>2. h * 10000 \in Int /\ (-h) * 10000 = -(h * 10000) BY <2>1, SMT DEF Three
  <2>3. u.htf = -h /\ t.htf = h BY <1>1 DEF h
  <2> QED BY <2>2, <2>3, RuleIsOdd, TrendIsOdd, SMT
<1>3. Score!MaBloc(t) = IF Downweight THEN Score!Sign(raw) * Score!Least(Score!Abs(raw), 50000) ELSE raw
  BY SMT DEF Score!MaBloc
<1>4. Score!MaBloc(u) = IF Downweight THEN Score!Sign(other) * Score!Least(Score!Abs(other), 50000) ELSE other
  BY SMT DEF Score!MaBloc
<1> HIDE DEF raw, other
<1> DEFINE b == Score!Least(Score!Abs(raw), 50000)
<1>5. b \in Int BY <1>2, SignIsOdd, SMT DEF Score!Least
<1>6. Score!Least(Score!Abs(other), 50000) = b BY <1>2, SignIsOdd, SMT
<1> HIDE DEF b
<1>7. Score!MaBloc(t) = IF Downweight THEN Score!Sign(raw) * b ELSE raw BY <1>3, SMT DEF b
<1>8. Score!MaBloc(u) = IF Downweight THEN (-Score!Sign(raw)) * b ELSE -raw BY <1>2, <1>4, <1>6, SignIsOdd, SMT
<1>9. Score!Sign(raw) * b \in Int /\ (-Score!Sign(raw)) * b = -(Score!Sign(raw) * b)
  BY <1>2, <1>5, SignIsOdd, SignTimes
<1> QED BY <1>2, <1>7, <1>8, <1>9, SMT

LEMMA ExtremesAreOdd ==
    ASSUME NEW t, NEW u, Mirrors(t, u)
    PROVE  /\ Score!Extreme(t) \in Three /\ Score!Extreme(u) = -Score!Extreme(t)
           /\ Score!Leaning(t) \in Three /\ Score!Leaning(u) = -Score!Leaning(t)
<1>1. t.rsi \in Halves /\ u.rsi = 100 - t.rsi BY DEF Mirrors, Market
<1> QED BY <1>1, SMT DEF Halves, Three, Score!Extreme, Score!Leaning

LEMMA DivergenceIsOdd ==
    ASSUME NEW t, NEW u, Mirrors(t, u)
    PROVE  Score!Divergence(t) \in Int /\ Score!Divergence(u) = -Score!Divergence(t)
<1>1. t.div \in Three /\ u.div = -t.div /\ t.htf \in Three /\ u.htf = -t.htf BY DEF Mirrors, Market
<1> QED BY <1>1, ExtremesAreOdd, SMT DEF Score!Divergence, Score!Least, Three

LEMMA CrowdIsOdd ==
    ASSUME NEW t, NEW u, Mirrors(t, u)
    PROVE  Score!Crowd(t) \in Int /\ Score!Crowd(u) = -Score!Crowd(t)
<1>1. t.crowd \in Three /\ u.crowd = -t.crowd BY DEF Mirrors, Market
<1> QED BY <1>1, ExtremesAreOdd, SMT DEF Score!Crowd, Three

\* The cap and the discounts, for any score they are asked about.
LEMMA CapIsEven ==
    ASSUME NEW t, NEW u, Mirrors(t, u)
    PROVE  Score!Cap(t) \in Int /\ Score!Cap(u) = Score!Cap(t)
<1>1. t.rsi \in Halves /\ u.rsi = 100 - t.rsi /\ t.htf \in Three /\ u.htf = -t.htf BY DEF Mirrors, Market
<1>2. (u.htf = -Score!Extreme(u)) <=> (t.htf = -Score!Extreme(t)) BY <1>1, ExtremesAreOdd, SMT DEF Three
<1>3. (IF u.rsi <= 50 THEN 30 - u.rsi ELSE u.rsi - 70) = (IF t.rsi <= 50 THEN 30 - t.rsi ELSE t.rsi - 70)
  BY <1>1, SMT DEF Halves
<1> QED BY <1>2, <1>3, SMT DEF Score!Cap

LEMMA CappedIsOdd ==
    ASSUME NEW t, NEW u, Mirrors(t, u), NEW n \in Int
    PROVE  Score!Capped(t, n) \in Int /\ Score!Capped(u, -n) = -Score!Capped(t, n)
<1>1. t.div \in Three /\ u.div = -t.div BY DEF Mirrors, Market
<1>2. (u.div = Score!Extreme(u)) <=> (t.div = Score!Extreme(t)) BY <1>1, ExtremesAreOdd, SMT DEF Three
<1> DEFINE e == Score!Extreme(t)
           c == Score!Cap(t)
<1>3. e \in Three /\ Score!Extreme(u) = -e /\ c \in Int /\ Score!Cap(u) = c BY ExtremesAreOdd, CapIsEven
<1> HIDE DEF e, c
<1> QED BY <1>2, <1>3, SMT DEF Score!Capped, Score!Most, Score!Least, Three, e, c

LEMMA FrameIsOdd ==
    ASSUME NEW t, NEW u, Mirrors(t, u), NEW n \in Int
    PROVE  Score!Frame(t, n) \in Int /\ Score!Frame(u, -n) = -Score!Frame(t, n)
<1>1. t.rsi4h \in Halves /\ u.rsi4h = 100 - t.rsi4h BY DEF Mirrors, Market
<1>2. (IF u.rsi4h <= 50 THEN 30 - u.rsi4h ELSE u.rsi4h - 70) = (IF t.rsi4h <= 50 THEN 30 - t.rsi4h ELSE t.rsi4h - 70)
  BY <1>1, SMT DEF Halves
<1>3. ((u.rsi4h >= 70 /\ -n > 0) \/ (u.rsi4h <= 30 /\ -n < 0)) <=> ((t.rsi4h >= 70 /\ n > 0) \/ (t.rsi4h <= 30 /\ n < 0))
  BY <1>1, SMT DEF Halves
<1>4. \A k \in {3, 5, 7} : Score!Tenths(n, k) \in Int /\ Score!Tenths(-n, k) = -Score!Tenths(n, k)
  BY TenthsAreOdd
<1> QED BY <1>2, <1>3, <1>4, SMT DEF Score!Frame

LEMMA ScoreIsOdd ==
    ASSUME NEW t, NEW u, Mirrors(t, u)
    PROVE  Score!Score(t) \in Int /\ Score!Score(u) = -Score!Score(t)
<1> DEFINE n == Score!MaBloc(t) + Score!Divergence(t) + t.flow + Score!Crowd(t)
           m == Score!MaBloc(u) + Score!Divergence(u) + u.flow + Score!Crowd(u)
<1>1. t.flow \in Int /\ u.flow = -t.flow BY DEF Mirrors, Market
<1>2. n \in Int /\ m = -n BY <1>1, MaBlocIsOdd, DivergenceIsOdd, CrowdIsOdd
<1>3. Score!Score(t) = Score!Frame(t, Score!Capped(t, n)) /\ Score!Score(u) = Score!Frame(u, Score!Capped(u, m))
  BY DEF Score!Score
<1> HIDE DEF n, m
<1>4. Score!Capped(t, n) \in Int /\ Score!Capped(u, m) = -Score!Capped(t, n) BY <1>2, CappedIsOdd
<1> QED BY <1>3, <1>4, FrameIsOdd

\* What a round makes of the score.
LEMMA DailyIsOdd ==
    ASSUME NEW n \in Int, NEW near \in Three, NEW volume
    PROVE  Score!Daily(n, near, volume) \in Int /\ Score!Daily(-n, -near, volume) = -Score!Daily(n, near, volume)
<1>1. \A k \in {3, 5} : Score!Tenths(n, k) \in Int /\ Score!Tenths(-n, k) = -Score!Tenths(n, k)
  BY TenthsAreOdd
<1>2. (-n = 0) <=> (n = 0) OBVIOUS
<1>3. (-near # Score!Sign(-n)) <=> (near # Score!Sign(n)) BY SignIsOdd DEF Three
<1> QED BY <1>1, <1>2, <1>3 DEF Score!Daily

LEMMA FinalIsOdd ==
    ASSUME NEW t, NEW u, Mirrors(t, u), NEW k, NEW j, NEW c, NEW d,
           k.dir \in Three, k.n \in Nat, j.dir = -k.dir, j.n = k.n,
           c.bonus \in Three, c.near \in Three, c.priced \in BOOLEAN,
           d.bonus = -c.bonus, d.near = -c.near, d.volume = c.volume, d.priced = c.priced
    PROVE  Score!Final(t, k, c) \in Int /\ Score!Final(u, j, d) = -Score!Final(t, k, c)
<1> DEFINE n == Score!Score(t) + c.bonus * 15000 + (IF k.n >= 5 THEN k.dir * 10000 ELSE 0)
           m == Score!Score(u) + d.bonus * 15000 + (IF j.n >= 5 THEN j.dir * 10000 ELSE 0)
           s == Score!Daily(n, c.near, c.volume)
           r == Score!Daily(m, d.near, d.volume)
<1>1. n \in Int /\ m = -n
  <2> DEFINE a == c.bonus
             b == k.dir
  <2> HIDE DEF a, b
  <2>1. a \in Three /\ b \in Three BY DEF a, b
  <2>2. a * 15000 \in Int /\ (-a) * 15000 = -(a * 15000) BY <2>1, SMT DEF Three
  <2>3. b * 10000 \in Int /\ (-b) * 10000 = -(b * 10000) BY <2>1, SMT DEF Three
  <2>4. c.bonus = a /\ d.bonus = -a /\ k.dir = b /\ j.dir = -b BY DEF a, b
  <2> QED BY <2>2, <2>3, <2>4, ScoreIsOdd, SMT
<1>2. Score!Final(t, k, c) = IF c.priced /\ Score!Abs(s) >= 30000 THEN Score!Tenths(s, 5) ELSE s
  BY SMT DEF Score!Final
<1>3. Score!Final(u, j, d) = IF d.priced /\ Score!Abs(r) >= 30000 THEN Score!Tenths(r, 5) ELSE r
  BY SMT DEF Score!Final
<1> HIDE DEF n, m
<1>4. s \in Int /\ r = -s BY <1>1, DailyIsOdd
<1> HIDE DEF s, r
<1>5. Score!Tenths(s, 5) \in Int /\ Score!Tenths(-s, 5) = -Score!Tenths(s, 5) BY <1>4, TenthsAreOdd
<1>6. Score!Abs(-s) = Score!Abs(s) BY <1>4, SignIsOdd
<1> QED BY <1>2, <1>3, <1>4, <1>5, <1>6, SMT

LEMMA EntersIsOdd ==
    ASSUME NEW t, NEW u, Mirrors(t, u), NEW n \in Int
    PROVE  Score!Enters(u, -n) = -Score!Enters(t, n)
<1>1. t.rule \in {-2, -1, 0, 1, 2} /\ u.rule = -t.rule /\ t.htf \in Three /\ u.htf = -t.htf BY DEF Mirrors, Market
<1>2. (u.rule # 0 <=> t.rule # 0) /\ (u.htf # 0 <=> t.htf # 0) BY <1>1, SMT DEF Three
<1>3. Score!Threshold(u) = Score!Threshold(t) BY <1>2, SMT DEF Score!Threshold
<1>4. Score!Abs(-n) = Score!Abs(n) /\ Score!Sign(-n) = -Score!Sign(n) /\ Score!Sign(n) \in Three BY SignIsOdd
<1> QED BY <1>3, <1>4, SMT DEF Score!Enters, Three

\* The markets of a behaviour, and its streak.
ScoreInv == scoreTech \in Score!Techs /\ scoreStreak.dir \in Three /\ scoreStreak.n \in Nat
            /\ scoreStreak \in [dir : Three, n : Nat]

LEMMA ScoreSteps == ScoreInv /\ [Score!Next]_(Score!vars) => ScoreInv'
<1> SUFFICES ASSUME ScoreInv, [Score!Next]_(Score!vars) PROVE ScoreInv' OBVIOUS
<1>1. CASE UNCHANGED Score!vars BY <1>1 DEF ScoreInv, Score!vars
<1>2. CASE Score!Next
  <2>1. PICK dir \in {scoreTech.dir, 0, -scoreTech.dir} : scoreTech' = [scoreTech EXCEPT !.dir = dir]
    BY <1>2 DEF Score!Next, Score!Analyse
  <2>2. scoreTech.dir \in Three /\ scoreTech \in Score!Techs BY TechIsMarket DEF ScoreInv, Market
  <2>3. dir \in Score!Signs BY <2>2 DEF Three, Score!Signs
  <2>4. scoreTech' \in Score!Techs BY <2>1, <2>2, <2>3 DEF Score!Techs
  <2>5. scoreTech'.dir \in Three BY <2>4, TechIsMarket DEF Market
  <2>6. scoreStreak' = Score!Streak(scoreTech', scoreStreak) BY <1>2 DEF Score!Next, Score!Analyse
  <2>7. scoreStreak' \in [dir : Three, n : Nat]
    BY <2>5, <2>6 DEF Score!Streak, Score!NoStreak, Score!Least, ScoreInv, Three
  <2> QED BY <2>4, <2>7 DEF ScoreInv
<1> QED BY <1>1, <1>2

\* Caps, decays and exceptions are written out for long and short by hand in
\* _compute_score and _make_decision: a market and its mirror get scores that
\* mirror each other, and enter on mirrored sides, for every value of the inputs,
\* every streak and both settings of both switches.
THEOREM BothSidesAlike == Score!Spec => []SidesAgree
<1>1. Score!Init => ScoreInv
  <2>1. Score!NoStreak \in [dir : Three, n : Nat] BY DEF Score!NoStreak, Three
  <2> QED BY <2>1 DEF Score!Init, ScoreInv
<1>2. ScoreInv => SidesAgree
  <2> SUFFICES ASSUME ScoreInv PROVE Score!SidesAgree BY DEF SidesAgree
  <2> DEFINE t == scoreTech
             u == Score!Mirror(scoreTech)
             k == scoreStreak
             j == [k EXCEPT !.dir = -k.dir]
  <2>1. Mirrors(t, u) BY MirrorMirrors DEF ScoreInv
  <2>2. Score!Score(u) = -Score!Score(t) BY <2>1, ScoreIsOdd
  <2>3. ASSUME NEW c \in Score!Rounds
        PROVE  LET d == [c EXCEPT !.bonus = -c.bonus, !.near = -c.near]
               IN Score!Enters(u, Score!Final(u, j, d)) = -Score!Enters(t, Score!Final(t, k, c))
    <3> DEFINE d == [c EXCEPT !.bonus = -c.bonus, !.near = -c.near]
    <3>1. /\ c.bonus \in Three /\ c.near \in Three /\ c.priced \in BOOLEAN
          /\ d.bonus = -c.bonus /\ d.near = -c.near /\ d.volume = c.volume /\ d.priced = c.priced
      BY DEF Score!Rounds, Score!Signs, Three
    <3>2. k.dir \in Three /\ k.n \in Nat /\ j.dir = -k.dir /\ j.n = k.n BY DEF ScoreInv
    <3> HIDE DEF t, u, k, j, d
    <3>3. Score!Final(t, k, c) \in Int /\ Score!Final(u, j, d) = -Score!Final(t, k, c)
      BY <2>1, <3>1, <3>2, FinalIsOdd
    <3>4. Score!Enters(u, Score!Final(u, j, d)) = -Score!Enters(t, Score!Final(t, k, c))
      BY <2>1, <3>3, EntersIsOdd
    <3> QED BY <3>4 DEF d
  <2> QED BY <2>2, <2>3 DEF Score!SidesAgree
<1> QED BY <1>1, <1>2, ScoreSteps, PTL DEF Score!Spec
=============================================================================
