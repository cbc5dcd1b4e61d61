------------------------ MODULE TacticalGovernorProofs ------------------------
(* Proofs about the governor: its memory is what its ledger folds to, an      *)
(* admission overlooks nothing the ledger says, each pause is paid for by     *)
(* losses of its own, and together with its ledger and its restarts it        *)
(* implements LossGuard.                                                      *)
EXTENDS TacticalGovernor, FiniteSetTheorems, TLAPS

-----------------------------------------------------------------------------
(* Types.                                                                     *)

Finals == [id : Nat, close : Closes, pnl : Outcomes, at : Nat]
Bookings == [pnl : Int, at : Nat, first : Nat]
Memories == [seen : SUBSET Nat, book : [Closes -> Bookings], trigger : Nat,
             pause : Nat, halt : BOOLEAN]
Events ==
    {FinalEvent(r) : r \in Finals} \cup {CooldownEvent(t, u) : t \in Nat, u \in Nat}
       \cup {HaltEvent, ClearEvent}

\* The finals issued are numbered, and no final is from the future.
IssuedType ==
    /\ clock \in Nat
    /\ IsFiniteSet(issued) /\ issued \subseteq Finals
    /\ \A r \in issued : r.id \in 1..Cardinality(issued) /\ r.at <= clock
    /\ \A r, s \in issued : r.id = s.id => r = s
-----------------------------------------------------------------------------
(* What a memory says of a ledger.                                            *)

FinalsOf(log, k) == {n \in DOMAIN log : log[n].kind = "final" /\ log[n].res.close = k}

\* The book of a close: when it was first booked, and the result of its latest
\* final.
BookTold(log, b, k) ==
    IF FinalsOf(log, k) = {} THEN b = NoFinal
    ELSE /\ b.first \in FinalsOf(log, k)
         /\ \A n \in FinalsOf(log, k) : b.first <= n
         /\ \E n \in FinalsOf(log, k) : /\ \A l \in FinalsOf(log, k) : l <= n
                                        /\ b.pnl = log[n].res.pnl /\ b.at = log[n].res.at
CooldownsIn(log) == {n \in DOMAIN log : log[n].kind = "cooldown"}
Told(log, m) ==
    /\ \A i \in Nat : i \in m.seen <=> \E n \in DOMAIN log : log[n].kind = "final" /\ log[n].res.id = i
    /\ \A k \in Closes : BookTold(log, m.book[k], k)
    /\ m.trigger = 0 \/ \E n \in CooldownsIn(log) : m.trigger = log[n].trigger
    /\ \A n \in CooldownsIn(log) : log[n].trigger <= m.trigger /\ log[n].until <= m.pause
    /\ ~m.halt => \A n \in DOMAIN log : log[n].kind = "halted" =>
                    \E l \in DOMAIN log : l > n /\ log[l].kind = "cleared"


\* A ledger of well-typed events, and the memory that goes with it.
LedgerType(log) ==
    /\ log \in Seq(Events)
    /\ \A n \in DOMAIN log : /\ log[n].kind = "final" => log[n].res \in issued
                             /\ log[n].kind = "cooldown" => log[n].trigger < n
Sound(log, m) ==
    LedgerType(log) /\ m \in Memories /\ m = Restore(log) /\ Told(log, m)
GovernorInv == IssuedType /\ Sound(events, mem)

-----------------------------------------------------------------------------
(* The fold of a ledger.  _restore is a recursive function; that it folds one *)
(* event after another is shown from the least place where it would not.      *)

\* A set of naturals that is not empty has a least member.
LEMMA LeastOne ==
  ASSUME NEW T \in SUBSET Nat, T # {}
  PROVE  \E x \in T : \A y \in T : x <= y
  <1> DEFINE U == {0..x : x \in T}
  <1>1. IsWellFoundedOn(StrictSubsetOrdering(Nat), FiniteSubsetsOf(Nat))
    BY FS_StrictSubsetOrderingWellFounded
  <1>2. U \subseteq FiniteSubsetsOf(Nat) /\ U # {}
    <2>1. ASSUME NEW x \in T PROVE 0..x \in FiniteSubsetsOf(Nat)
      BY FS_Interval DEF FiniteSubsetsOf
    <2> QED BY <2>1
  <1>3. PICK u \in U : \A v \in U : ~ (<<v, u>> \in StrictSubsetOrdering(Nat))
    <2> HIDE DEF U
    <2> QED BY <1>1, <1>2, WFMin
  <1>4. PICK x \in T : u = 0..x
    OBVIOUS
  <1>5. ASSUME NEW y \in T, y < x PROVE FALSE
    <2>1. 0..y \in U /\ 0..y \subseteq 0..x /\ x \in 0..x /\ x \notin 0..y
      BY <1>5
    <2>2. <<0..y, 0..x>> \in StrictSubsetOrdering(Nat)
      BY <2>1 DEF StrictSubsetOrdering
    <2> QED BY <1>3, <1>4, <2>1, <2>2
  <1> QED BY <1>5

Folded(g, log, n) ==
  g = [m \in 0..n |-> IF m = 0 THEN Blank ELSE Absorb(g[m - 1], log[m], m)]

LEMMA FoldUnique ==
  ASSUME NEW n \in Nat, NEW log, NEW f, NEW g, Folded(f, log, n), Folded(g, log, n)
  PROVE  f = g
  <1> DEFINE T == {m \in 0..n : f[m] # g[m]}
  <1>1. ASSUME T # {} PROVE FALSE
    <2>1. T \in SUBSET Nat
      OBVIOUS
    <2>2. PICK x \in T : \A y \in T : x <= y
      BY <1>1, <2>1, LeastOne
    <2>3. x # 0
      BY <2>2 DEF Folded
    <2>4. x - 1 \in 0..n /\ x-1 \notin T
      BY <2>2, <2>3
    <2>5. f[x-1] = g[x-1]
      BY <2>4
    <2> QED BY <2>5, <2>2, <2>3 DEF Folded
  <1> QED BY <1>1 DEF Folded

LEMMA FoldExists ==
  ASSUME NEW n \in Nat, NEW log
  PROVE  \E g : Folded(g, log, n)
  <1> DEFINE T == {m \in Nat : ~\E g : Folded(g, log, m)}
  <1>1. ASSUME T # {} PROVE FALSE
    <2>1. T \in SUBSET Nat
      OBVIOUS
    <2>2. PICK x \in T : \A y \in T : x <= y
      BY <1>1, <2>1, LeastOne
    <2>3. CASE x = 0
      <3> DEFINE g == [m \in 0..0 |-> Blank]
      <3>1. Folded(g, log, 0)
        BY DEF Folded
      <3> QED BY <3>1, <2>2, <2>3
    <2>4. CASE x # 0
      <3>1. x - 1 \in Nat /\ x - 1 \notin T
        BY <2>2, <2>4
      <3>2. PICK g : Folded(g, log, x - 1)
        BY <3>1
      <3> DEFINE h == [m \in 0..x |-> IF m = x THEN Absorb(g[x - 1], log[x], x) ELSE g[m]]
      <3>3. ASSUME NEW m \in 0..x
            PROVE  h[m] = IF m = 0 THEN Blank ELSE Absorb(h[m - 1], log[m], m)
        <4>1. CASE m = x
          <5>1. h[x-1] = g[x-1] /\ h[x] = Absorb(g[x - 1], log[x], x)
            BY <2>4
          <5> HIDE DEF h
          <5> QED BY <4>1, <5>1, <2>4
        <4>2. CASE m # x /\ m # 0
          <5>1. m - 1 \in 0..(x-1) /\ m \in 0..(x-1)
            BY <4>2
          <5>2. h[m-1] = g[m-1] /\ h[m] = g[m]
            BY <5>1, <4>2
          <5>3. g[m] = Absorb(g[m - 1], log[m], m)
            BY <3>2, <5>1, <4>2 DEF Folded
          <5> HIDE DEF h
          <5> QED BY <5>2, <5>3, <4>2
        <4>3. CASE m = 0 
          BY <4>3, <2>4, <3>2 DEF Folded
        <4> QED BY <4>1, <4>2, <4>3
      <3>4. Folded(h, log, x)
        <4>1. h = [m \in 0..x |-> h[m]]
          OBVIOUS
        <4> HIDE DEF h
        <4> QED BY <3>3, <4>1 DEF Folded
      <3> HIDE DEF h
      <3> QED BY <2>2, <3>4
    <2> QED BY <2>3, <2>4
  <1> QED BY <1>1

LEMMA RestoreFolds ==
  ASSUME NEW log, Len(log) \in Nat, NEW g, Folded(g, log, Len(log))
  PROVE  Restore(log) = g[Len(log)]
  <1> DEFINE fold == CHOOSE f : f = [m \in 0..Len(log) |-> IF m = 0 THEN Blank ELSE Absorb(f[m - 1], log[m], m)]
  <1>1. Restore(log) = fold[Len(log)]
    BY DEF Restore
  <1>2. Folded(fold, log, Len(log))
    BY DEF Folded
  <1> HIDE DEF fold
  <1> QED BY <1>1, <1>2, FoldUnique

\* Nothing is remembered of an empty ledger.
LEMMA RestoreEmpty == Restore(<<>>) = Blank
  <1>1. PICK g : Folded(g, <<>>, 0)
    BY FoldExists
  <1>2. Len(<<>>) = 0
    OBVIOUS
  <1>3. Restore(<<>>) = g[0]
    BY <1>1, <1>2, RestoreFolds
  <1> QED BY <1>1, <1>3 DEF Folded

\* An event that is appended is absorbed last.
LEMMA RestoreAppend ==
  ASSUME NEW log \in Seq(Events), NEW e \in Events
  PROVE  Restore(Append(log, e)) = Absorb(Restore(log), e, Len(log) + 1)
  <1> DEFINE n == Len(log)  longer == Append(log, e)
  <1>1. /\ n \in Nat /\ Len(longer) = n + 1 /\ longer[n + 1] = e
        /\ \A m \in 1..n : longer[m] = log[m]
    OBVIOUS
  <1>2. PICK g : Folded(g, longer, n + 1)
    BY <1>1, FoldExists
  <1>3. Restore(longer) = g[n + 1]
    <2>1. Len(longer) = n + 1 /\ n + 1 \in Nat
      BY <1>1
    <2>2. Folded(g, longer, Len(longer))
      BY <1>2, <2>1
    <2> HIDE DEF longer, n
    <2> QED BY <2>1, <2>2, RestoreFolds
  <1> DEFINE f == [m \in 0..n |-> g[m]]
  <1>4. Folded(f, log, n)
    <2>1. ASSUME NEW m \in 0..n
          PROVE  f[m] = IF m = 0 THEN Blank ELSE Absorb(f[m - 1], log[m], m)
      <3>1. m \in 0..(n + 1) /\ f[m] = g[m] /\ (m # 0 => f[m - 1] = g[m - 1] /\ m \in 1..n)
        BY <1>1
      <3>2. g[m] = IF m = 0 THEN Blank ELSE Absorb(g[m - 1], longer[m], m)
        BY <1>2, <3>1 DEF Folded
      <3> HIDE DEF f, longer
      <3> QED BY <3>1, <3>2, <1>1
    <2>2. f = [m \in 0..n |-> f[m]]
      OBVIOUS
    <2> HIDE DEF f
    <2> QED BY <2>1, <2>2 DEF Folded
  <1>5. Restore(log) = f[n]
    BY <1>1, <1>4, RestoreFolds
  <1>6. f[n] = g[n] /\ g[n + 1] = Absorb(g[n], longer[n + 1], n + 1)
    <2>1. n \in 0..n /\ n + 1 \in 0..(n + 1) /\ n + 1 # 0 /\ (n + 1) - 1 = n
      BY <1>1
    <2>2. g[n + 1] = IF n + 1 = 0 THEN Blank ELSE Absorb(g[n + 1 - 1], longer[n + 1], n + 1)
      <3> HIDE DEF longer
      <3> QED BY <1>2, <2>1 DEF Folded
    <2> HIDE DEF longer
    <2> QED BY <2>1, <2>2
  <1> QED BY <1>1, <1>3, <1>5, <1>6

-----------------------------------------------------------------------------
(* One event more.                                                            *)

LEMMA EventKinds ==
  /\ \A r \in Finals : /\ FinalEvent(r) \in Events /\ FinalEvent(r).kind = "final"
                        /\ FinalEvent(r).res = r
  /\ \A t, u \in Nat : /\ CooldownEvent(t, u) \in Events /\ CooldownEvent(t, u).kind = "cooldown"
                       /\ CooldownEvent(t, u).trigger = t /\ CooldownEvent(t, u).until = u
  /\ HaltEvent \in Events /\ HaltEvent.kind = "halted"
  /\ ClearEvent \in Events /\ ClearEvent.kind = "cleared"
  BY DEF Events, Event, FinalEvent, CooldownEvent, HaltEvent, ClearEvent

\* What a memory becomes of each event.
FinalAbsorbed(m, r, n, w) ==
    /\ w \in Memories
    /\ w.seen = m.seen \cup {r.id}
    /\ \A k \in Closes : w.book[k] =
         IF k = r.close
         THEN [pnl |-> r.pnl, at |-> r.at,
               first |-> IF m.book[k].first > 0 THEN m.book[k].first ELSE n]
         ELSE m.book[k]
    /\ w.trigger = m.trigger /\ w.pause = m.pause /\ w.halt = m.halt

LEMMA AbsorbsFinal ==
  ASSUME NEW m \in Memories, NEW r \in Finals, NEW n \in Nat
  PROVE  FinalAbsorbed(m, r, n, Absorb(m, FinalEvent(r), n))
  <1>1. Absorb(m, FinalEvent(r), n) = AbsorbFinal(m, r, n)
    BY EventKinds DEF Absorb
  <1> DEFINE f == IF m.book[r.close].first > 0 THEN m.book[r.close].first ELSE n
             c == [pnl |-> r.pnl, at |-> r.at, first |-> f]
  <1>2. c \in Bookings /\ r.close \in Closes /\ r.id \in Nat
    BY GovernorAssumption DEF Bookings, Finals, Memories, GovernorAssumption
  <1>3. AbsorbFinal(m, r, n) = [m EXCEPT !.seen = m.seen \cup {r.id},
                                        !.book = [m.book EXCEPT ![r.close] = c]]
    BY <1>2 DEF AbsorbFinal, Memories
  <1> HIDE DEF c
  <1> DEFINE seen == m.seen \cup {r.id}  book == [m.book EXCEPT ![r.close] = c]
  <1>t. seen \in SUBSET Nat /\ book \in [Closes -> Bookings]
    BY <1>2 DEF Memories
  <1>u. AbsorbFinal(m, r, n) = [m EXCEPT !.seen = seen, !.book = book]
    BY <1>3
  <1> HIDE DEF seen, book
  <1>v. /\ AbsorbFinal(m, r, n) \in Memories
        /\ AbsorbFinal(m, r, n).seen = seen
        /\ AbsorbFinal(m, r, n).book = book
        /\ AbsorbFinal(m, r, n).trigger = m.trigger
        /\ AbsorbFinal(m, r, n).pause = m.pause
        /\ AbsorbFinal(m, r, n).halt = m.halt
    BY <1>t, <1>u DEF Memories
  <1>4. /\ AbsorbFinal(m, r, n) \in Memories
        /\ AbsorbFinal(m, r, n).seen = m.seen \cup {r.id}
        /\ AbsorbFinal(m, r, n).book = [m.book EXCEPT ![r.close] = c]
        /\ AbsorbFinal(m, r, n).trigger = m.trigger
        /\ AbsorbFinal(m, r, n).pause = m.pause
        /\ AbsorbFinal(m, r, n).halt = m.halt
    BY <1>v DEF seen, book
  <1>5. \A k \in Closes : AbsorbFinal(m, r, n).book[k] = IF k = r.close THEN c ELSE m.book[k]
    BY <1>2, <1>4 DEF Memories
  <1> QED BY <1>1, <1>4, <1>5 DEF c, FinalAbsorbed

CooldownAbsorbed(m, t, u, w) ==
    /\ w \in Memories
    /\ w.seen = m.seen /\ w.book = m.book /\ w.halt = m.halt
    /\ w.trigger = Larger(m.trigger, t) /\ w.pause = Larger(m.pause, u)

LEMMA AbsorbsCooldown ==
  ASSUME NEW m \in Memories, NEW n \in Nat, NEW t \in Nat, NEW u \in Nat
  PROVE  CooldownAbsorbed(m, t, u, Absorb(m, CooldownEvent(t, u), n))
  <1>1. Larger(m.trigger, t) \in Nat /\ Larger(m.pause, u) \in Nat
    BY DEF Larger, Memories
  <1>2. Absorb(m, CooldownEvent(t, u), n) =
          [m EXCEPT !.trigger = Larger(m.trigger, t), !.pause = Larger(m.pause, u)]
    BY DEF Absorb, CooldownEvent, Event
  <1> QED BY <1>1, <1>2 DEF Memories, CooldownAbsorbed

HaltAbsorbed(m, e, w) ==
    /\ w \in Memories
    /\ w.seen = m.seen /\ w.book = m.book /\ w.halt = (e.kind = "halted")
    /\ w.trigger = m.trigger /\ w.pause = m.pause

LEMMA AbsorbsHalts ==
  ASSUME NEW m \in Memories, NEW n \in Nat, NEW e \in {HaltEvent, ClearEvent}
  PROVE  HaltAbsorbed(m, e, Absorb(m, e, n))
  <1>1. CASE e = HaltEvent
    <2>1. Absorb(m, e, n) = [m EXCEPT !.halt = TRUE] /\ e.kind = "halted"
      BY <1>1, EventKinds DEF Absorb
    <2> QED BY <2>1 DEF Memories, HaltAbsorbed
  <1>2. CASE e = ClearEvent
    <2>1. Absorb(m, e, n) = [m EXCEPT !.halt = FALSE] /\ e.kind = "cleared"
      BY <1>2, EventKinds DEF Absorb
    <2> QED BY <2>1 DEF Memories, HaltAbsorbed
  <1> QED BY <1>1, <1>2

\* One event more in the ledger.
LEMMA OneMore ==
  ASSUME NEW log \in Seq(Events), NEW e \in Events
  PROVE  LET longer == Append(log, e)  n == Len(log) + 1 IN
         /\ longer \in Seq(Events) /\ Len(longer) = n /\ n \in Nat \ {0}
         /\ DOMAIN log = 1..Len(log) /\ DOMAIN longer = DOMAIN log \cup {n}
         /\ \A l \in DOMAIN log : l \in Nat /\ l < n /\ longer[l] = log[l] /\ log[l] \in Events
         /\ longer[n] = e
  OBVIOUS

\* A memory that is told what the ledger holds and absorbs one event more is
\* told what the longer ledger holds.
LEMMA ToldFinal ==
  ASSUME NEW log \in Seq(Events), NEW m \in Memories, Told(log, m), NEW r \in Finals
  PROVE  Told(Append(log, FinalEvent(r)), Absorb(m, FinalEvent(r), Len(log) + 1))
  <1> DEFINE e == FinalEvent(r)  longer == Append(log, e)  n == Len(log) + 1
             w == Absorb(m, e, n)
  <1>1. /\ n \in Nat \ {0} /\ DOMAIN longer = DOMAIN log \cup {n}
        /\ \A l \in DOMAIN log : l \in Nat /\ l < n /\ longer[l] = log[l] /\ log[l] \in Events
        /\ longer[n] = e
    BY OneMore, EventKinds
  <1>2. e.kind = "final" /\ e.res = r /\ r.id \in Nat /\ r.close \in Closes
    BY EventKinds DEF Finals
  <1>3. /\ w \in Memories /\ w.seen = m.seen \cup {r.id}
        /\ \A k \in Closes : w.book[k] =
              IF k = r.close
              THEN [pnl |-> r.pnl, at |-> r.at,
                    first |-> IF m.book[k].first > 0 THEN m.book[k].first ELSE n]
              ELSE m.book[k]
        /\ w.trigger = m.trigger /\ w.pause = m.pause /\ w.halt = m.halt
    <2>1. FinalAbsorbed(m, r, n, w)
      BY <1>1, AbsorbsFinal
    <2> HIDE DEF w
    <2> QED BY <2>1 DEF FinalAbsorbed
  <1> HIDE DEF longer, n, w, e
  <1>4. ASSUME NEW i \in Nat
        PROVE  i \in w.seen <=> \E l \in DOMAIN longer : longer[l].kind = "final" /\ longer[l].res.id = i
    <2>1. i \in m.seen <=> \E l \in DOMAIN log : log[l].kind = "final" /\ log[l].res.id = i
      BY DEF Told
    <2> QED BY <1>1, <1>2, <1>3, <2>1
  <1>5. ASSUME NEW k \in Closes
        PROVE  BookTold(longer, w.book[k], k)
    <2>1. BookTold(log, m.book[k], k)
      BY DEF Told
    <2>2. CASE k # r.close
      <3>1. FinalsOf(longer, k) = FinalsOf(log, k)
        BY <1>1, <1>2, <2>2 DEF FinalsOf
      <3>2. \A l \in FinalsOf(log, k) : longer[l] = log[l]
        BY <1>1 DEF FinalsOf
      <3> QED BY <1>3, <2>1, <2>2, <3>1, <3>2 DEF BookTold
    <2>3. CASE k = r.close
      <3>1. FinalsOf(longer, k) = FinalsOf(log, k) \cup {n}
        BY <1>1, <1>2, <2>3 DEF FinalsOf
      <3>2. \A l \in FinalsOf(log, k) : l \in Nat /\ l < n /\ l > 0
        BY <1>1, OneMore, EventKinds DEF FinalsOf
      <3>3. /\ w.book[k].pnl = r.pnl /\ w.book[k].at = r.at
            /\ w.book[k].first = IF m.book[k].first > 0 THEN m.book[k].first ELSE n
        <4>1. w.book[k] = [pnl |-> r.pnl, at |-> r.at,
                           first |-> IF m.book[k].first > 0 THEN m.book[k].first ELSE n]
          BY <1>3, <2>3
        <4> QED BY <4>1
      <3>4. CASE FinalsOf(log, k) = {}
        <4>1. m.book[k].first = 0
          BY <2>1, <3>4 DEF BookTold, NoFinal
        <4> QED BY <1>1, <1>2, <3>1, <3>3, <3>4, <4>1 DEF BookTold
      <3>5. CASE FinalsOf(log, k) # {}
        <4>1. /\ m.book[k].first \in FinalsOf(log, k)
              /\ \A l \in FinalsOf(log, k) : m.book[k].first <= l
          BY <2>1, <3>5 DEF BookTold
        <4>2. w.book[k].first = m.book[k].first
          BY <3>2, <3>3, <4>1
        <4> QED BY <1>1, <1>2, <3>1, <3>2, <3>3, <4>1, <4>2 DEF BookTold
      <3> QED BY <3>4, <3>5
    <2> QED BY <2>2, <2>3
  <1>6. CooldownsIn(longer) = CooldownsIn(log)
    BY <1>1, <1>2 DEF CooldownsIn
  <1>7. \A l \in CooldownsIn(log) : longer[l] = log[l]
    BY <1>1 DEF CooldownsIn
  <1>8. ~w.halt => \A l \in DOMAIN longer : longer[l].kind = "halted" =>
                    \E j \in DOMAIN longer : j > l /\ longer[j].kind = "cleared"
    BY <1>1, <1>2, <1>3 DEF Told
  <1>9. Told(longer, w)
    BY <1>3, <1>4, <1>5, <1>6, <1>7, <1>8 DEF Told
  <1> QED BY <1>9 DEF longer, w, e, n

\* The finals of a ledger stand when another event is appended.
LEMMA OtherKeepsFinals ==
  ASSUME NEW log \in Seq(Events), NEW m \in Memories, Told(log, m),
         NEW e \in Events, e.kind # "final", NEW w, w.seen = m.seen, w.book = m.book
  PROVE  LET longer == Append(log, e) IN
         /\ \A i \in Nat : i \in w.seen <=>
              \E l \in DOMAIN longer : longer[l].kind = "final" /\ longer[l].res.id = i
         /\ \A k \in Closes : BookTold(longer, w.book[k], k)
  <1> DEFINE longer == Append(log, e)  n == Len(log) + 1
  <1>1. /\ DOMAIN longer = DOMAIN log \cup {n}
        /\ \A l \in DOMAIN log : longer[l] = log[l]
        /\ longer[n] = e
    BY OneMore
  <1> HIDE DEF longer, n
  <1>2. ASSUME NEW k \in Closes
        PROVE  BookTold(longer, w.book[k], k)
    <2>1. FinalsOf(longer, k) = FinalsOf(log, k)
      BY <1>1 DEF FinalsOf
    <2>2. \A l \in FinalsOf(log, k) : longer[l] = log[l]
      BY <1>1 DEF FinalsOf
    <2>3. BookTold(log, m.book[k], k)
      BY DEF Told
    <2> QED BY <2>1, <2>2, <2>3 DEF BookTold
  <1>3. ASSUME NEW i \in Nat
        PROVE  i \in w.seen <=> \E l \in DOMAIN longer : longer[l].kind = "final" /\ longer[l].res.id = i
    <2>1. i \in m.seen <=> \E l \in DOMAIN log : log[l].kind = "final" /\ log[l].res.id = i
      BY DEF Told
    <2> QED BY <1>1, <2>1
  <1> QED BY <1>2, <1>3 DEF longer

LEMMA ToldCooldown ==
  ASSUME NEW log \in Seq(Events), NEW m \in Memories, Told(log, m), NEW t \in Nat, NEW u \in Nat
  PROVE  Told(Append(log, CooldownEvent(t, u)), Absorb(m, CooldownEvent(t, u), Len(log) + 1))
  <1> DEFINE e == CooldownEvent(t, u)  longer == Append(log, e)  n == Len(log) + 1
             w == Absorb(m, e, n)
  <1>1. /\ n \in Nat \ {0} /\ DOMAIN longer = DOMAIN log \cup {n}
        /\ \A l \in DOMAIN log : l \in Nat /\ l < n /\ longer[l] = log[l] /\ log[l] \in Events
        /\ longer[n] = e
    BY OneMore, EventKinds
  <1>2. e \in Events /\ e.kind = "cooldown" /\ e.trigger = t /\ e.until = u
    BY EventKinds
  <1>3. /\ w.seen = m.seen /\ w.book = m.book /\ w.halt = m.halt
        /\ w.trigger = Larger(m.trigger, t) /\ w.pause = Larger(m.pause, u)
    <2>1. CooldownAbsorbed(m, t, u, w)
      BY <1>1, AbsorbsCooldown
    <2> HIDE DEF w
    <2> QED BY <2>1 DEF CooldownAbsorbed
  <1>4. m.trigger \in Nat /\ m.pause \in Nat
    BY DEF Memories
  <1>5. \A l \in CooldownsIn(log) : log[l].trigger \in Nat /\ log[l].until \in Nat
    BY <1>1 DEF CooldownsIn, Events, Event, FinalEvent, CooldownEvent, HaltEvent, ClearEvent
  <1>6. /\ \A i \in Nat : i \in w.seen <=>
             \E l \in DOMAIN longer : longer[l].kind = "final" /\ longer[l].res.id = i
        /\ \A k \in Closes : BookTold(longer, w.book[k], k)
    <2>1. e.kind # "final"
      BY <1>2
    <2> HIDE DEF w, e
    <2> QED BY <1>2, <1>3, <2>1, OtherKeepsFinals
  <1> HIDE DEF longer, n, w, e
  <1>7. CooldownsIn(longer) = CooldownsIn(log) \cup {n}
    BY <1>1, <1>2 DEF CooldownsIn
  <1>8. \A l \in CooldownsIn(log) : longer[l] = log[l]
    BY <1>1 DEF CooldownsIn
  <1>9. w.trigger = 0 \/ \E l \in CooldownsIn(longer) : w.trigger = longer[l].trigger
    <2>1. w.trigger = t \/ w.trigger = m.trigger
      BY <1>3 DEF Larger
    <2> QED BY <1>1, <1>2, <1>7, <1>8, <2>1 DEF Told
  <1>10. \A l \in CooldownsIn(longer) : longer[l].trigger <= w.trigger /\ longer[l].until <= w.pause
    <2>1. w.trigger \in Nat /\ w.trigger >= m.trigger /\ w.trigger >= t
      BY <1>3, <1>4 DEF Larger
    <2>2. w.pause \in Nat /\ w.pause >= m.pause /\ w.pause >= u
      BY <1>3, <1>4 DEF Larger
    <2>3. \A l \in CooldownsIn(log) : log[l].trigger <= m.trigger /\ log[l].until <= m.pause
      BY DEF Told
    <2> QED BY <1>1, <1>2, <1>4, <1>5, <1>7, <1>8, <2>1, <2>2, <2>3
  <1>11. ~w.halt => \A l \in DOMAIN longer : longer[l].kind = "halted" =>
                    \E j \in DOMAIN longer : j > l /\ longer[j].kind = "cleared"
    BY <1>1, <1>2, <1>3 DEF Told
  <1>12. Told(longer, w)
    BY <1>6, <1>9, <1>10, <1>11 DEF Told
  <1> QED BY <1>12 DEF longer, w, e, n

LEMMA ToldHalts ==
  ASSUME NEW log \in Seq(Events), NEW m \in Memories, Told(log, m),
         NEW e \in {HaltEvent, ClearEvent}
  PROVE  Told(Append(log, e), Absorb(m, e, Len(log) + 1))
  <1> DEFINE longer == Append(log, e)  n == Len(log) + 1  w == Absorb(m, e, n)
  <1>0. e \in Events /\ e.kind = (IF e = HaltEvent THEN "halted" ELSE "cleared")
    BY EventKinds
  <1>1. /\ n \in Nat \ {0} /\ DOMAIN longer = DOMAIN log \cup {n}
        /\ \A l \in DOMAIN log : l \in Nat /\ l < n /\ longer[l] = log[l]
        /\ longer[n] = e
    BY <1>0, OneMore
  <1>2. /\ w.seen = m.seen /\ w.book = m.book /\ w.halt = (e.kind = "halted")
        /\ w.trigger = m.trigger /\ w.pause = m.pause
    <2>1. HaltAbsorbed(m, e, w)
      BY <1>1, AbsorbsHalts
    <2> HIDE DEF w
    <2> QED BY <2>1 DEF HaltAbsorbed
  <1>3. /\ \A i \in Nat : i \in w.seen <=>
             \E l \in DOMAIN longer : longer[l].kind = "final" /\ longer[l].res.id = i
        /\ \A k \in Closes : BookTold(longer, w.book[k], k)
    <2>1. e.kind # "final"
      BY <1>0
    <2> HIDE DEF w
    <2> QED BY <1>0, <1>2, <2>1, OtherKeepsFinals
  <1> HIDE DEF longer, n, w
  <1>4. CooldownsIn(longer) = CooldownsIn(log) /\ \A l \in CooldownsIn(log) : longer[l] = log[l]
    BY <1>0, <1>1 DEF CooldownsIn
  <1>5. ~w.halt => \A l \in DOMAIN longer : longer[l].kind = "halted" =>
                    \E j \in DOMAIN longer : j > l /\ longer[j].kind = "cleared"
    BY <1>0, <1>1, <1>2
  <1>6. Told(longer, w)
    BY <1>2, <1>3, <1>4, <1>5 DEF Told
  <1> QED BY <1>6 DEF longer, w, n

-----------------------------------------------------------------------------
(* The invariant.                                                             *)

LEMMA SoundFinal ==
  ASSUME NEW log, NEW m, Sound(log, m), NEW r \in issued, issued \subseteq Finals
  PROVE  Sound(Append(log, FinalEvent(r)), Absorb(m, FinalEvent(r), Len(log) + 1))
  <1> DEFINE e == FinalEvent(r)
  <1>1. r \in Finals /\ e \in Events /\ e.kind = "final" /\ e.res = r
    BY EventKinds
  <1>2. log \in Seq(Events) /\ m \in Memories /\ m = Restore(log) /\ Told(log, m)
    BY DEF Sound, LedgerType
  <1>3. Told(Append(log, e), Absorb(m, e, Len(log) + 1))
    BY <1>1, <1>2, ToldFinal
  <1>4. Absorb(m, e, Len(log) + 1) \in Memories
    BY <1>1, <1>2, AbsorbsFinal DEF FinalAbsorbed
  <1> HIDE DEF e
  <1>5. Absorb(m, e, Len(log) + 1) = Restore(Append(log, e))
    BY <1>1, <1>2, RestoreAppend
  <1>6. LedgerType(Append(log, e))
    BY <1>1, <1>2, OneMore DEF Sound, LedgerType
  <1> QED BY <1>3, <1>4, <1>5, <1>6 DEF Sound, e

LEMMA SoundCooldown ==
  ASSUME NEW log, NEW m, Sound(log, m), NEW t \in Nat, t <= Len(log), NEW u \in Nat
  PROVE  Sound(Append(log, CooldownEvent(t, u)), Absorb(m, CooldownEvent(t, u), Len(log) + 1))
  <1> DEFINE e == CooldownEvent(t, u)
  <1>1. e \in Events /\ e.kind = "cooldown" /\ e.trigger = t
    BY EventKinds
  <1>2. log \in Seq(Events) /\ m \in Memories /\ m = Restore(log) /\ Told(log, m)
    BY DEF Sound, LedgerType
  <1>3. Told(Append(log, e), Absorb(m, e, Len(log) + 1))
    BY <1>1, <1>2, ToldCooldown
  <1>4. Absorb(m, e, Len(log) + 1) \in Memories
    BY <1>1, <1>2, AbsorbsCooldown DEF CooldownAbsorbed
  <1> HIDE DEF e
  <1>5. Absorb(m, e, Len(log) + 1) = Restore(Append(log, e))
    BY <1>1, <1>2, RestoreAppend
  <1>6. LedgerType(Append(log, e))
    BY <1>1, <1>2, OneMore DEF Sound, LedgerType
  <1> QED BY <1>3, <1>4, <1>5, <1>6 DEF Sound, e

LEMMA SoundHalts ==
  ASSUME NEW log, NEW m, Sound(log, m), NEW e \in {HaltEvent, ClearEvent}
  PROVE  Sound(Append(log, e), Absorb(m, e, Len(log) + 1))
  <1>1. e \in Events /\ e.kind \in {"halted", "cleared"}
    BY EventKinds
  <1>2. log \in Seq(Events) /\ m \in Memories /\ m = Restore(log) /\ Told(log, m)
    BY DEF Sound, LedgerType
  <1>3. Told(Append(log, e), Absorb(m, e, Len(log) + 1))
    BY <1>2, ToldHalts
  <1>4. Absorb(m, e, Len(log) + 1) \in Memories
    <2>1. Len(log) + 1 \in Nat
      BY <1>2
    <2> QED BY <1>2, <2>1, AbsorbsHalts DEF HaltAbsorbed
  <1>5. Absorb(m, e, Len(log) + 1) = Restore(Append(log, e))
    BY <1>1, <1>2, RestoreAppend
  <1>6. LedgerType(Append(log, e))
    BY <1>1, <1>2, OneMore DEF Sound, LedgerType
  <1> QED BY <1>3, <1>4, <1>5, <1>6 DEF Sound

LEMMA GovernorInit == Init => GovernorInv
  <1> SUFFICES ASSUME Init
               PROVE  GovernorInv
    OBVIOUS
  <1>1. IssuedType
    BY FS_EmptySet DEF Init, IssuedType
  <1>2. Blank \in Memories
    BY DEF Blank, NoFinal, Memories, Bookings
  <1>3. LedgerType(<<>>)
    BY DEF LedgerType
  <1>4. Told(<<>>, Blank)
    BY DEF Told, Blank, BookTold, FinalsOf, CooldownsIn
  <1> QED BY <1>1, <1>2, <1>3, <1>4, RestoreEmpty DEF Init, GovernorInv, Sound

\* What a final makes of ledger and memory: with the pause of a complete streak
\* (apply_final), or without it.
Booking(r, log, m) ==
    LET one == Append(log, FinalEvent(r))
        then == Absorb(m, FinalEvent(r), Len(one)) IN
    \/ events' = one /\ mem' = then
    \/ Due(then) /\ StartCooldown(one, then)

\* A step leaves ledger and memory alone, or appends and absorbs.
LedgerStep ==
    \/ UNCHANGED <<events, mem>>
    \/ \E r \in issued : New(r) /\ Booking(r, events, mem)
    \/ \E e \in {HaltEvent, ClearEvent} : /\ events' = Append(events, e)
                                         /\ mem' = Absorb(mem, e, Len(events) + 1)

LEMMA StepsOfTheLedger ==
  ASSUME GovernorInv, [Next]_vars
  PROVE  LedgerStep /\ (UNCHANGED <<clock, issued>> \/ UNCHANGED <<events, mem>>)
  <1>1. mem = Restore(events) /\ events \in Seq(Events) /\ issued \subseteq Finals
    BY DEF GovernorInv, Sound, LedgerType, IssuedType
  <1>2. CASE Pass \/ Issue \/ (\E q \in Questions : CanOpen(q)) \/ Crash \/ UNCHANGED vars
    BY <1>1, <1>2 DEF Pass, Issue, CanOpen, Crash, Restart, vars, LedgerStep
  <1>3. ASSUME NEW r \in issued, ApplyFinal(r)
        PROVE  LedgerStep /\ UNCHANGED <<clock, issued>>
    BY <1>3 DEF ApplyFinal, LedgerStep, Booking
  <1>4. ASSUME NEW r \in issued, ApplyFinalCut(r)
        PROVE  LedgerStep /\ UNCHANGED <<clock, issued>>
    <2>1. FinalEvent(r) \in Events /\ Len(Append(events, FinalEvent(r))) = Len(events) + 1
      BY <1>1, EventKinds, OneMore
    <2>2. mem' = Absorb(mem, FinalEvent(r), Len(Append(events, FinalEvent(r))))
      BY <1>1, <1>4, <2>1, RestoreAppend DEF ApplyFinalCut, Restart
    <2> QED BY <1>4, <2>2 DEF ApplyFinalCut, Restart, LedgerStep, Booking
  <1>5. CASE ActivateHalt \/ ActivateHaltIfClear
             \/ \E proof \in {ProofKeys, ProofKeys \ {"protection"}} : ClearHalt(proof)
    BY <1>5 DEF ActivateHalt, ActivateHaltIfClear, ClearHalt, Record, LedgerStep
  <1> QED BY <1>2, <1>3, <1>4, <1>5 DEF Next

LEMMA GovernorStep == GovernorInv /\ [Next]_vars => GovernorInv'
  <1> SUFFICES ASSUME GovernorInv, [Next]_vars
               PROVE  GovernorInv'
    OBVIOUS
  <1>1. IssuedType'
    <2>1. CASE UNCHANGED <<clock, issued>>
      BY <2>1 DEF GovernorInv, IssuedType
    <2>2. CASE Pass
      BY <2>2 DEF GovernorInv, IssuedType, Pass, Finals
    <2>3. CASE Issue
      <3>1. PICK k \in Closes, p \in Outcomes :
              issued' = issued \cup
                {[id |-> Cardinality(issued) + 1, close |-> k, pnl |-> p, at |-> clock]}
        BY <2>3 DEF Issue
      <3> DEFINE r == [id |-> Cardinality(issued) + 1, close |-> k, pnl |-> p, at |-> clock]
      <3>2. Cardinality(issued) \in Nat /\ clock \in Nat /\ clock' = clock
        BY <2>3, FS_CardinalityType DEF Issue, GovernorInv, IssuedType
      <3>3. r \in Finals /\ r \notin issued /\ r.id = Cardinality(issued) + 1 /\ r.at = clock
        BY <3>2 DEF GovernorInv, IssuedType, Finals
      <3>4. IsFiniteSet(issued') /\ Cardinality(issued') = Cardinality(issued) + 1
        BY <3>1, <3>3, FS_AddElement DEF GovernorInv, IssuedType
      <3> HIDE DEF r
      <3>5. issued' = issued \cup {r}
        BY <3>1 DEF r
      <3>6. \A x \in issued : x.id \in 1..Cardinality(issued) /\ x.at <= clock
        BY DEF GovernorInv, IssuedType
      <3>7. \A x \in issued' : x.id \in 1..Cardinality(issued') /\ x.at <= clock'
        BY <3>2, <3>3, <3>4, <3>5, <3>6
      <3>8. \A x, y \in issued' : x.id = y.id => x = y
        BY <3>2, <3>3, <3>5, <3>6 DEF GovernorInv, IssuedType
      <3>9. issued' \subseteq Finals
        BY <3>3, <3>5 DEF GovernorInv, IssuedType
      <3> QED BY <3>2, <3>4, <3>7, <3>8, <3>9 DEF IssuedType
    <2> QED BY <2>1, <2>2, <2>3 DEF Next, ApplyFinal, ApplyFinalCut, CanOpen, ActivateHalt,
              ActivateHaltIfClear, ClearHalt, Record, Crash, Restart, vars
  <1>2. Sound(events, mem)'
    <2>1. issued \subseteq issued'
      BY DEF Next, Pass, Issue, ApplyFinal, ApplyFinalCut, CanOpen, ActivateHalt,
             ActivateHaltIfClear, ClearHalt, Record, Crash, Restart, vars
    <2>2. Sound(events', mem')
      <3>1. Sound(events, mem) /\ issued \subseteq Finals
        BY DEF GovernorInv, IssuedType
      <3>2. CASE UNCHANGED <<events, mem>>
        BY <3>1, <3>2
      <3>3. ASSUME NEW r \in issued, Booking(r, events, mem)
            PROVE  Sound(events', mem')
        <4> DEFINE one == Append(events, FinalEvent(r))
                   then == Absorb(mem, FinalEvent(r), Len(one))
        <4>1. Len(one) = Len(events) + 1 /\ Len(one) \in Nat
          BY <3>1, OneMore, EventKinds DEF Sound, LedgerType
        <4>2. Sound(one, then)
          BY <3>1, <4>1, SoundFinal
        <4>3. Larger(then.pause, clock + PauseLen) \in Nat
          BY <4>2, GovernorAssumption DEF Sound, Memories, Larger, GovernorInv, IssuedType,
             GovernorAssumption
        <4> HIDE DEF one, then
        <4>4. CASE StartCooldown(one, then)
          BY <4>1, <4>2, <4>3, <4>4, SoundCooldown DEF StartCooldown
        <4> QED BY <3>3, <4>2, <4>4 DEF Booking, one, then
      <3>4. ASSUME NEW e \in {HaltEvent, ClearEvent}, events' = Append(events, e),
                   mem' = Absorb(mem, e, Len(events) + 1)
            PROVE  Sound(events', mem')
        BY <3>1, <3>4, SoundHalts
      <3> QED BY <3>2, <3>3, <3>4, StepsOfTheLedger DEF LedgerStep
    <2> QED BY <2>1, <2>2 DEF Sound, LedgerType
  <1> QED BY <1>1, <1>2 DEF GovernorInv

\* A restart reconstructs exactly what the running governor knew, wherever the
\* process died, also between the two appends of apply_final (_restore).
THEOREM RestartsAreExact == Spec => []RestoreExact
  <1>1. GovernorInv => RestoreExact
    BY DEF GovernorInv, Sound, RestoreExact
  <1> QED BY <1>1, GovernorInit, GovernorStep, PTL DEF Spec

-----------------------------------------------------------------------------
(* The sum of a function.  It is a recursive function too, over the subsets   *)
(* of the domain; that it is an integer is shown in the same way.             *)

Picked(s) == CHOOSE x \in s : TRUE
Summed(g, f, D) == g = [s \in D |-> IF s = {} THEN 0 ELSE f[Picked(s)] + g[s \ {Picked(s)}]]
Layer(f, n) == {s \in SUBSET DOMAIN f : Cardinality(s) <= n}

\* A set that is not empty is one larger than without its picked element.
LEMMA PickedLess ==
  ASSUME NEW s, IsFiniteSet(s)
  PROVE  /\ Cardinality(s) \in Nat /\ (s = {} <=> Cardinality(s) = 0)
         /\ s # {} => /\ Picked(s) \in s /\ IsFiniteSet(s \ {Picked(s)})
                      /\ Cardinality(s \ {Picked(s)}) = Cardinality(s) - 1
  <1>1. s # {} => Picked(s) \in s
    BY DEF Picked
  <1>2. Cardinality(s) \in Nat /\ (s = {} <=> Cardinality(s) = 0)
    BY FS_CardinalityType, FS_EmptySet
  <1> QED BY <1>1, <1>2, FS_RemoveElement

LEMMA SumExists ==
  ASSUME NEW f, IsFiniteSet(DOMAIN f), NEW n \in Nat
  PROVE  \E g : Summed(g, f, Layer(f, n))
  <1> DEFINE T == {m \in Nat : ~\E g : Summed(g, f, Layer(f, m))}
  <1>0. \A s \in SUBSET DOMAIN f : IsFiniteSet(s)
    BY FS_Subset
  <1>1. ASSUME T # {} PROVE FALSE
    <2>1. PICK x \in T : \A y \in T : x <= y
      <3>1. T \in SUBSET Nat
        OBVIOUS
      <3> HIDE DEF T
      <3> QED BY <1>1, <3>1, LeastOne
    <2>2. CASE x = 0
      <3> DEFINE g == [s \in Layer(f, 0) |-> 0]
      <3>1. \A s \in Layer(f, 0) : s = {}
        <4>1. ASSUME NEW s \in Layer(f, 0) PROVE s = {}
          <5>1. IsFiniteSet(s) /\ Cardinality(s) <= 0
            BY <1>0 DEF Layer
          <5>2. Cardinality(s) \in Nat /\ (s = {} <=> Cardinality(s) = 0)
            BY <5>1, PickedLess
          <5> QED BY <5>1, <5>2
        <4> QED BY <4>1
      <3>2. Summed(g, f, Layer(f, 0))
        BY <3>1 DEF Summed
      <3> QED BY <2>1, <2>2, <3>2
    <2>3. CASE x # 0
      <3>1. x - 1 \in Nat /\ x - 1 \notin T
        BY <2>1, <2>3
      <3>2. PICK g : Summed(g, f, Layer(f, x - 1))
        BY <3>1
      <3> DEFINE add(s) == f[Picked(s)] + g[s \ {Picked(s)}]
                 h == [s \in Layer(f, x) |-> IF s \in Layer(f, x - 1) THEN g[s] ELSE add(s)]
      <3>3. ASSUME NEW s \in Layer(f, x)
            PROVE  h[s] = IF s = {} THEN 0 ELSE f[Picked(s)] + h[s \ {Picked(s)}]
        <4>1. /\ Cardinality(s) \in Nat /\ (s = {} <=> Cardinality(s) = 0)
              /\ s # {} => /\ Picked(s) \in s
                           /\ Cardinality(s \ {Picked(s)}) = Cardinality(s) - 1
          BY <1>0, PickedLess DEF Layer
        <4>2. s = {} => s \in Layer(f, x - 1)
          BY <3>1, <4>1 DEF Layer
        <4>3. s # {} => s \ {Picked(s)} \in Layer(f, x - 1) /\ s \ {Picked(s)} \in Layer(f, x)
          BY <3>1, <4>1 DEF Layer
        <4>4. s # {} => h[s \ {Picked(s)}] = g[s \ {Picked(s)}]
          BY <4>3
        <4>5. s \in Layer(f, x - 1) =>
                h[s] = IF s = {} THEN 0 ELSE f[Picked(s)] + g[s \ {Picked(s)}]
          BY <3>2 DEF Summed
        <4>6. s \notin Layer(f, x - 1) => h[s] = f[Picked(s)] + g[s \ {Picked(s)}]
          OBVIOUS
        <4> HIDE DEF h
        <4> QED BY <4>2, <4>4, <4>5, <4>6
      <3>4. Summed(h, f, Layer(f, x))
        <4>1. h = [s \in Layer(f, x) |-> h[s]]
          OBVIOUS
        <4> HIDE DEF h
        <4> QED BY <3>3, <4>1 DEF Summed
      <3> HIDE DEF h
      <3> QED BY <2>1, <3>4
    <2> QED BY <2>2, <2>3
  <1> QED BY <1>1

\* The sum of finitely many integers is an integer.
LEMMA TotalInt ==
  ASSUME NEW f, IsFiniteSet(DOMAIN f), \A k \in DOMAIN f : f[k] \in Int
  PROVE  Total(f) \in Int
  <1> DEFINE D == SUBSET DOMAIN f
             sum == CHOOSE g : g = [s \in D |->
                       IF s = {} THEN 0
                       ELSE f[CHOOSE x \in s : TRUE] + g[s \ {CHOOSE x \in s : TRUE}]]
  <1>1. Total(f) = sum[DOMAIN f]
    BY DEF Total, MapThenSumSet, MapThenFoldSet
  <1>2. \A s \in D : IsFiniteSet(s)
    BY FS_Subset
  <1>3. Summed(sum, f, D)
    <2>1. Layer(f, Cardinality(DOMAIN f)) = D
      <3>1. \A s \in D : Cardinality(s) <= Cardinality(DOMAIN f)
        BY FS_Subset
      <3> QED BY <3>1 DEF Layer
    <2>2. PICK g : Summed(g, f, D)
      <3>1. Cardinality(DOMAIN f) \in Nat
        BY FS_CardinalityType
      <3>2. \E g : Summed(g, f, Layer(f, Cardinality(DOMAIN f)))
        BY <3>1, SumExists
      <3> QED BY <2>1, <3>2
    <2>3. g = [s \in D |-> IF s = {} THEN 0
                 ELSE f[CHOOSE x \in s : TRUE] + g[s \ {CHOOSE x \in s : TRUE}]]
      BY <2>2 DEF Summed, Picked
    <2> HIDE DEF D
    <2>4. sum = [s \in D |-> IF s = {} THEN 0
                 ELSE f[CHOOSE x \in s : TRUE] + sum[s \ {CHOOSE x \in s : TRUE}]]
      BY <2>3
    <2> HIDE DEF sum
    <2> QED BY <2>4 DEF Summed, Picked
  <1> HIDE DEF sum
  <1> DEFINE T == {n \in Nat : \E s \in D : Cardinality(s) = n /\ sum[s] \notin Int}
  <1>4. ASSUME T # {} PROVE FALSE
    <2>1. PICK x \in T : \A y \in T : x <= y
      <3>1. T \in SUBSET Nat
        OBVIOUS
      <3> HIDE DEF T
      <3> QED BY <1>4, <3>1, LeastOne
    <2>2. PICK s \in D : Cardinality(s) = x /\ sum[s] \notin Int
      BY <2>1
    <2>3. sum[s] = IF s = {} THEN 0 ELSE f[Picked(s)] + sum[s \ {Picked(s)}]
      BY <1>3 DEF Summed
    <2>4. s # {}
      BY <2>2, <2>3
    <2>5. /\ Picked(s) \in s /\ Cardinality(s) \in Nat
          /\ Cardinality(s \ {Picked(s)}) = Cardinality(s) - 1 /\ Cardinality(s) # 0
      BY <1>2, <2>4, PickedLess
    <2>6. s \ {Picked(s)} \in D /\ x - 1 \in Nat /\ x - 1 \notin T
      BY <2>1, <2>2, <2>5
    <2>7. sum[s \ {Picked(s)}] \in Int
      BY <2>2, <2>5, <2>6
    <2>8. f[Picked(s)] \in Int
      BY <2>5
    <2> QED BY <2>2, <2>3, <2>4, <2>7, <2>8
  <1>5. DOMAIN f \in D /\ Cardinality(DOMAIN f) \in Nat
    BY FS_CardinalityType
  <1> QED BY <1>1, <1>4, <1>5

-----------------------------------------------------------------------------
(* Admission.                                                                 *)

\* The largest and the smallest of a set of numbers.
LEMMA MaxIs ==
  ASSUME NEW S \in SUBSET Nat, NEW x \in S, \A y \in S : y <= x
  PROVE  Max(S) = x
  <1>1. x \in S /\ \A y \in S : x >= y
    OBVIOUS
  <1>2. Max(S) \in S /\ \A y \in S : Max(S) >= y
    BY <1>1 DEF Max
  <1>3. Max(S) \in Nat /\ x \in Nat /\ x >= Max(S) /\ Max(S) >= x
    BY <1>1, <1>2
  <1> QED BY <1>3

LEMMA MinIs ==
  ASSUME NEW S \in SUBSET Nat, NEW x \in S, \A y \in S : x <= y
  PROVE  Min(S) = x
  <1>1. Min(S) \in S /\ \A y \in S : Min(S) =< y
    BY DEF Min
  <1>2. Min(S) \in Nat /\ x \in Nat /\ x <= Min(S) /\ Min(S) <= x
    BY <1>1
  <1> QED BY <1>2

\* The book has the result of the latest final of each close, and the turn of
\* its first.
LEMMA BooksOfTheLedger ==
  ASSUME GovernorInv, NEW k \in Closes
  PROVE  /\ mem.book[k] \in Bookings
         /\ FinalsOf(events, k) \in SUBSET (Nat \ {0})
         /\ mem.book[k].first > 0 <=> FinalsOf(events, k) # {}
         /\ FinalsOf(events, k) # {} =>
              /\ FirstBooked(k) = mem.book[k].first
              /\ mem.book[k].first \in FinalsOf(events, k)
              /\ LatestFinal(k) \in issued
              /\ mem.book[k].pnl = LatestFinal(k).pnl /\ mem.book[k].at = LatestFinal(k).at
  <1>1. /\ events \in Seq(Events) /\ mem.book[k] \in Bookings
        /\ BookTold(events, mem.book[k], k)
        /\ \A n \in DOMAIN events : events[n].kind = "final" => events[n].res \in issued
    BY DEF GovernorInv, Sound, LedgerType, Memories, Told
  <1>2. FinalsOf(events, k) \in SUBSET (Nat \ {0})
    BY <1>1 DEF FinalsOf
  <1>3. CASE FinalsOf(events, k) = {}
    BY <1>1, <1>2, <1>3 DEF BookTold, NoFinal
  <1>4. CASE FinalsOf(events, k) # {}
    <2>1. FinalsOf(events, k) =
            {n \in DOMAIN events : events[n].kind = "final" /\ events[n].res.close = k}
      BY DEF FinalsOf
    <2>2. /\ mem.book[k].first \in FinalsOf(events, k)
          /\ \A n \in FinalsOf(events, k) : mem.book[k].first <= n
      BY <1>1, <1>4 DEF BookTold
    <2>3. FirstBooked(k) = mem.book[k].first
      <3>1. Min(FinalsOf(events, k)) = mem.book[k].first
        BY <1>2, <2>2, MinIs
      <3> QED BY <2>1, <3>1 DEF FirstBooked
    <2>4. PICK n \in FinalsOf(events, k) :
            /\ \A l \in FinalsOf(events, k) : l <= n
            /\ mem.book[k].pnl = events[n].res.pnl /\ mem.book[k].at = events[n].res.at
      BY <1>1, <1>4 DEF BookTold
    <2>5. LatestFinal(k) = events[n].res
      <3>1. Max(FinalsOf(events, k)) = n
        BY <1>2, <2>4, MaxIs
      <3> QED BY <2>1, <3>1 DEF LatestFinal
    <2>6. events[n].res \in issued
      BY <1>1 DEF FinalsOf
    <2> QED BY <1>1, <1>2, <1>4, <2>2, <2>3, <2>4, <2>5, <2>6
  <1> QED BY <1>3, <1>4

\* What an admission says of a ledger at a time.
LatestIn(log, k) ==
    log[Max({n \in DOMAIN log : log[n].kind = "final" /\ log[n].res.close = k})].res
Heeded(log, now) ==
    /\ \A n \in CooldownsIn(log) : now >= log[n].until
    /\ \A n \in DOMAIN log : log[n].kind = "halted" =>
         \E m \in DOMAIN log : m > n /\ log[m].kind = "cleared"
    /\ LET known == {e.res.close : e \in {log[n] : n \in
                        {n \in DOMAIN log : log[n].kind = "final"}}}
           recent == {k \in known : LatestIn(log, k).at > now - Window} IN
       Total([k \in recent |-> LatestIn(log, k).pnl]) > Limit

\* What an admission says of the ledger, at the time of the question.
LEMMA AnsweredFromTheLedger ==
  ASSUME GovernorInv, NEW q \in Questions, Answers(Rolling(mem, clock), q) = "admitted"
  PROVE  Heeded(events, clock)
  <1>1. ~mem.halt /\ ~(clock < mem.pause) /\ ~(Rolling(mem, clock) <= Limit)
    BY DEF Answers
  <1>2. /\ mem \in Memories /\ Told(events, mem) /\ clock \in Nat
        /\ \A n \in DOMAIN events : events[n].kind = "final" => events[n].res \in issued
        /\ issued \subseteq Finals /\ \A r \in issued : r.at <= clock
        /\ \A n \in Cooldowns : events[n].until \in Nat
    <2>1. \A n \in Cooldowns : events[n] \in Events /\ events[n].kind = "cooldown"
      BY DEF GovernorInv, Sound, LedgerType, Cooldowns
    <2>2. \A n \in Cooldowns : events[n].until \in Nat
      BY <2>1 DEF Events, Event, FinalEvent, CooldownEvent, HaltEvent, ClearEvent
    <2> QED BY <2>2 DEF GovernorInv, Sound, LedgerType, IssuedType
  <1>3. \A n \in Cooldowns : clock >= events[n].until
    BY <1>1, <1>2 DEF Told, Cooldowns, CooldownsIn, Memories
  <1>4. \A n \in DOMAIN events : events[n].kind = "halted" =>
          \E m \in DOMAIN events : m > n /\ events[m].kind = "cleared"
    BY <1>1, <1>2 DEF Told
  <1> DEFINE known == {e.res.close : e \in {events[n] : n \in
                         {n \in DOMAIN events : events[n].kind = "final"}}}
             recent == {k \in known : LatestFinal(k).at > clock - Window}
             counted == {k \in Closes : /\ mem.book[k].first > 0
                                        /\ clock - Window < mem.book[k].at
                                        /\ mem.book[k].at <= clock}
  <1>5. \A k : k \in known <=> k \in Closes /\ FinalsOf(events, k) # {}
    <2>1. ASSUME NEW k \in known PROVE k \in Closes /\ FinalsOf(events, k) # {}
      <3>1. PICK n \in DOMAIN events : events[n].kind = "final" /\ events[n].res.close = k
        OBVIOUS
      <3>2. events[n].res.close \in Closes
        BY <1>2, <3>1 DEF Finals
      <3> QED BY <3>1, <3>2 DEF FinalsOf
    <2>2. ASSUME NEW k \in Closes, FinalsOf(events, k) # {} PROVE k \in known
      BY <2>2 DEF FinalsOf
    <2> QED BY <2>1, <2>2
  <1> HIDE DEF known
  <1>6. recent = counted
    <2>1. ASSUME NEW k \in known, LatestFinal(k).at > clock - Window
          PROVE  k \in counted
      <3>1. LatestFinal(k) \in issued /\ mem.book[k].at = LatestFinal(k).at /\ mem.book[k].first > 0
        BY <1>5, BooksOfTheLedger
      <3>2. LatestFinal(k).at \in Nat /\ LatestFinal(k).at <= clock
        BY <1>2, <3>1 DEF Finals
      <3> QED BY <1>2, <1>5, <2>1, <3>1, <3>2, GovernorAssumption DEF GovernorAssumption
    <2>2. ASSUME NEW k \in counted
          PROVE  k \in known /\ LatestFinal(k).at > clock - Window
      <3>1. FinalsOf(events, k) # {} /\ mem.book[k].at = LatestFinal(k).at
            /\ mem.book[k] \in Bookings
        BY BooksOfTheLedger
      <3>2. mem.book[k].at \in Nat /\ clock - Window \in Int
        BY <1>2, <3>1, GovernorAssumption DEF GovernorAssumption, Bookings
      <3> QED BY <1>5, <3>1, <3>2
    <2> QED BY <2>1, <2>2
  <1>7. \A k \in recent : LatestFinal(k).pnl = mem.book[k].pnl /\ mem.book[k].pnl \in Int
    BY <1>5, BooksOfTheLedger DEF Bookings
  <1>8. Rolling(mem, clock) = Total([k \in counted |-> mem.book[k].pnl])
    BY DEF Rolling
  <1>9. [k \in recent |-> LatestFinal(k).pnl] = [k \in counted |-> mem.book[k].pnl]
    <2> HIDE DEF recent, counted
    <2> QED BY <1>6, <1>7
  <1>10. Total([k \in counted |-> mem.book[k].pnl]) \in Int
    <2> DEFINE f == [k \in counted |-> mem.book[k].pnl]
    <2>1. IsFiniteSet(DOMAIN f)
      <3>1. counted \subseteq Closes
        OBVIOUS
      <3> QED BY <3>1, FS_Subset, GovernorAssumption DEF GovernorAssumption
    <2>2. \A k \in DOMAIN f : f[k] \in Int
      BY <1>6, <1>7
    <2> HIDE DEF f
    <2>3. Total(f) \in Int
      BY <2>1, <2>2, TotalInt
    <2> QED BY <2>3 DEF f
  <1> HIDE DEF recent, counted
  <1>11. Total([k \in recent |-> LatestFinal(k).pnl]) > Limit
    BY <1>1, <1>8, <1>9, <1>10, GovernorAssumption DEF GovernorAssumption
  <1> QED BY <1>3, <1>4, <1>11 DEF recent, known, Heeded, Cooldowns, CooldownsIn, LatestFinal, LatestIn

\* An admission never overlooks what the ledger says: no halt, no cooldown, and
\* the closes of the window lost less than the limit (can_open).
THEOREM AdmissionsAreWithinLimits == Spec => []AdmissionWithinLimits
  <1>1. Init => AdmissionWithinLimits
    BY DEF Init, AdmissionWithinLimits
  <1>2. ASSUME GovernorInv, AdmissionWithinLimits, [Next]_vars
        PROVE  AdmissionWithinLimits'
    <2>0. /\ AdmissionWithinLimits <=> (verdict = "admitted" => Heeded(events, clock))
          /\ AdmissionWithinLimits' <=> (verdict' = "admitted" => Heeded(events', clock'))
      BY DEF AdmissionWithinLimits, Heeded, Cooldowns, CooldownsIn, LatestFinal, LatestIn
    <2>1. ASSUME NEW q \in Questions, CanOpen(q)
          PROVE  AdmissionWithinLimits'
      <3>1. verdict' = Answers(Rolling(mem, clock), q) /\ clock' = clock /\ events' = events
        BY <2>1 DEF CanOpen
      <3> QED BY <1>2, <2>0, <3>1, AnsweredFromTheLedger
    <2>2. CASE UNCHANGED vars
      <3>1. verdict' = verdict /\ clock' = clock /\ events' = events
        BY <2>2 DEF vars
      <3> QED BY <1>2, <2>0, <3>1
    <2>3. CASE Next /\ ~\E q \in Questions : CanOpen(q)
      <3>1. verdict' = "none"
        BY <2>3 DEF Next, Pass, Issue, ApplyFinal, ApplyFinalCut, ActivateHalt,
           ActivateHaltIfClear, ClearHalt, Record, Crash, Restart
      <3> QED BY <3>1 DEF AdmissionWithinLimits
    <2> QED BY <1>2, <2>1, <2>2, <2>3
  <1> QED BY <1>1, <1>2, GovernorInit, GovernorStep, PTL DEF Spec

-----------------------------------------------------------------------------
(* Pauses are paid for.                                                       *)

Earlier(log, n) == {log[m].trigger : m \in {m \in CooldownsIn(log) : m < n}}
NewIn(m, from, to) == {k \in Closes : m.book[k].first > 0 /\ m.book[k].first \in from..to}
Paid(log, m) ==
    \A n \in CooldownsIn(log) :
        Cardinality(NewIn(m, Max(Earlier(log, n) \cup {0}) + 1, log[n].trigger)) >= LossStreak

\* CooldownsDisjoint asks the ledger when a close was new; the book knows.
LEMMA PaidByTheLedger ==
  ASSUME GovernorInv
  PROVE  CooldownsDisjoint <=> Paid(events, mem)
  <1>1. ASSUME NEW x, NEW y
        PROVE  BookedIn(x, y) = NewIn(mem, x, y)
    <2>1. \A k \in Closes : mem.book[k].first > 0 => FirstBooked(k) = mem.book[k].first
      BY BooksOfTheLedger
    <2> QED BY <2>1 DEF BookedIn, NewIn
  <1>2. Cooldowns = CooldownsIn(events)
    BY DEF Cooldowns, CooldownsIn
  <1>3. ASSUME NEW n \in Cooldowns
        PROVE  {events[m].trigger : m \in {m \in Cooldowns : m < n}} = Earlier(events, n)
    BY <1>2 DEF Earlier
  <1> QED BY <1>1, <1>2, <1>3 DEF CooldownsDisjoint, Paid

\* A sound memory knows first bookings within its ledger.
LEMMA FirstsInLedger ==
  ASSUME NEW log, NEW m, Sound(log, m), NEW k \in Closes
  PROVE  m.book[k].first \in 0..Len(log)
  <1>1. log \in Seq(Events) /\ BookTold(log, m.book[k], k)
    BY DEF Sound, LedgerType, Told
  <1>2. CASE FinalsOf(log, k) = {}
    BY <1>1, <1>2 DEF BookTold, NoFinal
  <1>3. CASE FinalsOf(log, k) # {}
    BY <1>1, <1>3 DEF BookTold, FinalsOf
  <1> QED BY <1>2, <1>3

\* What was paid stays paid when an event is appended that is no cooldown.
LEMMA PaidStands ==
  ASSUME NEW log, NEW m, Sound(log, m), Paid(log, m),
         NEW e \in Events, e.kind # "cooldown", NEW w,
         \A k \in Closes : \/ w.book[k].first = m.book[k].first
                           \/ m.book[k].first = 0 /\ w.book[k].first = Len(log) + 1
  PROVE  Paid(Append(log, e), w)
  <1> DEFINE longer == Append(log, e)
  <1>1. /\ log \in Seq(Events) /\ Len(log) \in Nat
        /\ \A n \in CooldownsIn(log) : /\ n \in 1..Len(log) /\ log[n].trigger < n
                                       /\ log[n].trigger \in Nat
    <2>1. log \in Seq(Events) /\ \A n \in CooldownsIn(log) : log[n].trigger < n
      BY DEF Sound, LedgerType, CooldownsIn
    <2>2. \A n \in CooldownsIn(log) : n \in 1..Len(log) /\ log[n] \in Events
      BY <2>1 DEF CooldownsIn
    <2>3. \A n \in CooldownsIn(log) : log[n].trigger \in Nat
      BY <2>2 DEF CooldownsIn, Events, Event, FinalEvent, CooldownEvent, HaltEvent, ClearEvent
    <2> QED BY <2>1, <2>2, <2>3
  <1>2. CooldownsIn(longer) = CooldownsIn(log) /\ \A n \in CooldownsIn(log) : longer[n] = log[n]
    BY <1>1, OneMore DEF CooldownsIn
  <1> HIDE DEF longer
  <1>3. ASSUME NEW n \in CooldownsIn(log)
        PROVE  Earlier(longer, n) = Earlier(log, n)
    BY <1>2 DEF Earlier
  <1>4. ASSUME NEW n \in CooldownsIn(log), NEW x
        PROVE  NewIn(w, x, log[n].trigger) = NewIn(m, x, log[n].trigger)
    <2>1. ASSUME NEW k \in Closes
          PROVE  k \in NewIn(w, x, log[n].trigger) <=> k \in NewIn(m, x, log[n].trigger)
      <3>1. m.book[k].first \in 0..Len(log) /\ log[n].trigger <= Len(log) /\ log[n].trigger \in Nat
        BY <1>1, FirstsInLedger
      <3>2. CASE w.book[k].first = m.book[k].first
        BY <3>2 DEF NewIn
      <3>3. CASE m.book[k].first = 0 /\ w.book[k].first = Len(log) + 1
        <4>1. Len(log) + 1 \notin x..log[n].trigger
          BY <1>1, <3>1
        <4> QED BY <3>3, <4>1 DEF NewIn
      <3> QED BY <3>2, <3>3
    <2> QED BY <2>1 DEF NewIn
  <1>5. Paid(longer, w)
    BY <1>2, <1>3, <1>4 DEF Paid
  <1> QED BY <1>5 DEF longer

StreakIn(b, t) ==
    LET open == {k \in Closes : b[k].first > t}
        before(j, k) == b[j].at < b[k].at \/ (b[j].at = b[k].at /\ b[j].first < b[k].first) IN
    {k \in open : \A j \in open : ~before(j, k) => b[j].pnl < 0}

LEMMA StreakCounts ==
  ASSUME NEW m
  PROVE  /\ Streak(m) = Cardinality(StreakIn(m.book, m.trigger)) /\ Streak(m) \in Nat
         /\ \A k \in StreakIn(m.book, m.trigger) : k \in Closes /\ m.book[k].first > m.trigger
  <1>1. Streak(m) = Cardinality(StreakIn(m.book, m.trigger))
    BY DEF Streak, StreakIn
  <1>2. StreakIn(m.book, m.trigger) \subseteq Closes
    BY DEF StreakIn
  <1>3. Cardinality(StreakIn(m.book, m.trigger)) \in Nat
    BY <1>2, FS_Subset, FS_CardinalityType, GovernorAssumption DEF GovernorAssumption
  <1> QED BY <1>1, <1>3 DEF StreakIn

\* A cooldown is appended for a complete streak: its closes are new since the
\* last one.
LEMMA PaidAnew ==
  ASSUME NEW log, NEW m, Sound(log, m), Paid(log, m), Due(m), NEW u \in Nat
  PROVE  LET e == CooldownEvent(Len(log), u) IN
         Paid(Append(log, e), Absorb(m, e, Len(log) + 1))
  <1> DEFINE e == CooldownEvent(Len(log), u)  longer == Append(log, e)  n == Len(log) + 1
             w == Absorb(m, e, n)
  <1>1. log \in Seq(Events) /\ m \in Memories /\ Told(log, m) /\ Len(log) \in Nat
    BY DEF Sound, LedgerType
  <1>2. e \in Events /\ e.kind = "cooldown" /\ e.trigger = Len(log)
    BY <1>1, EventKinds
  <1>3. w.book = m.book
    <2>1. n \in Nat
      BY <1>1
    <2>2. CooldownAbsorbed(m, Len(log), u, w)
      BY <1>1, <2>1, AbsorbsCooldown
    <2> QED BY <2>2 DEF CooldownAbsorbed
  <1>4. /\ CooldownsIn(longer) = CooldownsIn(log) \cup {n}
        /\ \A l \in CooldownsIn(log) : longer[l] = log[l] /\ l \in Nat /\ l < n
        /\ longer[n] = e
    <2> HIDE DEF e
    <2> QED BY <1>1, <1>2, OneMore DEF CooldownsIn
  <1>5. \A l \in CooldownsIn(log) : log[l].trigger \in Nat /\ log[l].trigger <= m.trigger
    <2>1. \A l \in CooldownsIn(log) : log[l] \in Events /\ log[l].kind = "cooldown"
      BY <1>1 DEF CooldownsIn
    <2>2. \A l \in CooldownsIn(log) : log[l].trigger \in Nat
      BY <2>1 DEF Events, Event, FinalEvent, CooldownEvent, HaltEvent, ClearEvent
    <2> QED BY <1>1, <2>2 DEF Told
  <1>n. n = Len(log) + 1
    OBVIOUS
  <1> HIDE DEF longer, w, e, n
  <1>6. ASSUME NEW l \in CooldownsIn(log)
        PROVE  Cardinality(NewIn(w, Max(Earlier(longer, l) \cup {0}) + 1, longer[l].trigger)) >= LossStreak
    <2>1. Earlier(longer, l) = Earlier(log, l)
      <3>1. {j \in CooldownsIn(longer) : j < l} = {j \in CooldownsIn(log) : j < l}
        BY <1>1, <1>4, <1>n
      <3> QED BY <1>4, <3>1 DEF Earlier
    <2>2. \A x, y : NewIn(w, x, y) = NewIn(m, x, y)
      BY <1>3 DEF NewIn
    <2> QED BY <1>4, <2>1, <2>2 DEF Paid
  <1>7. Max(Earlier(longer, n) \cup {0}) = m.trigger
    <2>1. Earlier(longer, n) = {log[j].trigger : j \in CooldownsIn(log)}
      <3>1. {j \in CooldownsIn(longer) : j < n} = CooldownsIn(log)
        BY <1>1, <1>4, <1>n
      <3> QED BY <1>4, <3>1 DEF Earlier
    <2>2. Earlier(longer, n) \cup {0} \in SUBSET Nat
      BY <1>5, <2>1
    <2>3. m.trigger \in Earlier(longer, n) \cup {0}
      BY <1>1, <2>1 DEF Told
    <2>4. \A y \in Earlier(longer, n) \cup {0} : y <= m.trigger
      BY <1>1, <1>5, <2>1 DEF Memories
    <2> QED BY <2>2, <2>3, <2>4, MaxIs
  <1>8. Cardinality(NewIn(w, m.trigger + 1, Len(log))) >= LossStreak
    <2>1. StreakIn(m.book, m.trigger) \subseteq NewIn(w, m.trigger + 1, Len(log))
      <3>1. ASSUME NEW k \in StreakIn(m.book, m.trigger)
            PROVE  k \in NewIn(w, m.trigger + 1, Len(log))
        <4>1. k \in Closes /\ m.book[k].first > m.trigger
          BY StreakCounts
        <4>2. m.book[k].first \in 0..Len(log) /\ m.trigger \in Nat
          BY <1>1, <4>1, FirstsInLedger DEF Memories
        <4> QED BY <1>1, <1>3, <4>1, <4>2 DEF NewIn
      <3> QED BY <3>1
    <2>2. IsFiniteSet(NewIn(w, m.trigger + 1, Len(log)))
      <3>1. NewIn(w, m.trigger + 1, Len(log)) \subseteq Closes
        BY DEF NewIn
      <3> QED BY <3>1, FS_Subset, GovernorAssumption DEF GovernorAssumption
    <2>3. /\ Streak(m) <= Cardinality(NewIn(w, m.trigger + 1, Len(log)))
          /\ Cardinality(NewIn(w, m.trigger + 1, Len(log))) \in Nat
      BY <2>1, <2>2, FS_Subset, FS_CardinalityType, StreakCounts
    <2> QED BY <2>3, StreakCounts, GovernorAssumption DEF Due, GovernorAssumption
  <1>9. Paid(longer, w)
    BY <1>2, <1>4, <1>6, <1>7, <1>8 DEF Paid
  <1> QED BY <1>9 DEF longer, w, e, n

LEMMA PaidStep == GovernorInv /\ Paid(events, mem) /\ [Next]_vars => Paid(events, mem)'
  <1> SUFFICES ASSUME GovernorInv, Paid(events, mem), [Next]_vars
               PROVE  Paid(events', mem')
    BY DEF Paid, CooldownsIn, Earlier, NewIn
  <1>1. /\ Sound(events, mem) /\ issued \subseteq Finals /\ events \in Seq(Events)
        /\ Len(events) \in Nat /\ mem \in Memories
    BY DEF GovernorInv, IssuedType, Sound, LedgerType
  <1>2. CASE UNCHANGED <<events, mem>>
    BY <1>2
  <1>3. ASSUME NEW r \in issued, Booking(r, events, mem)
        PROVE  Paid(events', mem')
    <2> DEFINE f == FinalEvent(r)
               one == Append(events, f)
               then == Absorb(mem, f, Len(one))
    <2>1. /\ Len(one) = Len(events) + 1 /\ Len(one) \in Nat
          /\ f \in Events /\ f.kind = "final" /\ r \in Finals
      BY <1>1, OneMore, EventKinds
    <2>2. Sound(one, then)
      BY <1>1, <2>1, SoundFinal
    <2>3. ASSUME NEW k \in Closes
          PROVE  \/ then.book[k].first = mem.book[k].first
                 \/ mem.book[k].first = 0 /\ then.book[k].first = Len(events) + 1
      <3>1. then.book[k] =
              IF k = r.close
              THEN [pnl |-> r.pnl, at |-> r.at,
                    first |-> IF mem.book[k].first > 0 THEN mem.book[k].first ELSE Len(events) + 1]
              ELSE mem.book[k]
        <4>1. FinalAbsorbed(mem, r, Len(events) + 1, then)
          BY <1>1, <2>1, AbsorbsFinal
        <4> HIDE DEF then
        <4> QED BY <4>1 DEF FinalAbsorbed
      <3>2. mem.book[k].first \in Nat
        BY <1>1 DEF Memories, Bookings
      <3> HIDE DEF then
      <3> QED BY <3>1, <3>2
    <2>4. Paid(one, then)
      <3> HIDE DEF then, f
      <3> QED BY <1>1, <2>1, <2>3, PaidStands
    <2>5. Larger(then.pause, clock + PauseLen) \in Nat
      BY <2>2, GovernorAssumption DEF Sound, Memories, Larger, GovernorInv, IssuedType,
         GovernorAssumption
    <2> HIDE DEF one, then
    <2>6. CASE Due(then) /\ StartCooldown(one, then)
      BY <2>2, <2>4, <2>5, <2>6, PaidAnew DEF StartCooldown
    <2> QED BY <1>3, <2>4, <2>6 DEF Booking, one, then
  <1>4. ASSUME NEW e \in {HaltEvent, ClearEvent}, events' = Append(events, e),
               mem' = Absorb(mem, e, Len(events) + 1)
        PROVE  Paid(events', mem')
    <2>1. e \in Events /\ e.kind # "cooldown"
      BY EventKinds
    <2>2. mem'.book = mem.book
      <3>1. Len(events) + 1 \in Nat
        BY <1>1
      <3>2. HaltAbsorbed(mem, e, mem')
        BY <1>1, <1>4, <3>1, AbsorbsHalts
      <3> QED BY <3>2 DEF HaltAbsorbed
    <2> QED BY <1>1, <1>4, <2>1, <2>2, PaidStands
  <1> QED BY <1>2, <1>3, <1>4, StepsOfTheLedger DEF LedgerStep

LEMMA PaidInit == Init => Paid(events, mem)
  BY DEF Init, Paid, CooldownsIn

\* Each cooldown of the ledger is paid for by closes that were new since the one
\* before it: no correction, no restart and no cut makes old losses pay twice.
THEOREM CooldownsPaidOnce == Spec => []CooldownsDisjoint
  <1>1. GovernorInv /\ Paid(events, mem) => CooldownsDisjoint
    BY PaidByTheLedger
  <1> QED BY <1>1, PaidInit, PaidStep, GovernorInit, GovernorStep, PTL DEF Spec

-----------------------------------------------------------------------------
(* No streak goes unpaid, unless apply_final is cut between its two appends.  *)

StreakPaid == cuts = 0 /\ Streak(mem) < LossStreak

\* A pause consumes every close booked so far.
LEMMA PauseEndsStreak ==
  ASSUME NEW log, NEW m, Sound(log, m), NEW u \in Nat
  PROVE  Streak(Absorb(m, CooldownEvent(Len(log), u), Len(log) + 1)) = 0
  <1> DEFINE n == Len(log) + 1  w == Absorb(m, CooldownEvent(Len(log), u), n)
  <1>1. m \in Memories /\ Len(log) \in Nat /\ n \in Nat
    BY DEF Sound, LedgerType
  <1>a. CooldownAbsorbed(m, Len(log), u, w)
    BY <1>1, AbsorbsCooldown
  <1> HIDE DEF w
  <1>2. w.book = m.book
    BY <1>a DEF CooldownAbsorbed
  <1>3. w.trigger = Larger(m.trigger, Len(log))
    BY <1>a DEF CooldownAbsorbed
  <1>4. StreakIn(w.book, w.trigger) = {}
    <2>1. ASSUME NEW k \in StreakIn(w.book, w.trigger)
          PROVE  FALSE
      <3>1. k \in Closes /\ w.book[k].first > w.trigger
        BY StreakCounts
      <3>2. m.book[k].first \in 0..Len(log)
        BY <3>1, FirstsInLedger
      <3> QED BY <1>1, <1>2, <1>3, <3>1, <3>2 DEF Larger, Memories
    <2> QED BY <2>1
  <1> QED BY <1>4, StreakCounts, FS_EmptySet DEF w

\* The parts of a final that is accepted.
LEMMA Accepted ==
  ASSUME GovernorInv, NEW r \in issued, ApplyFinal(r)
  PROVE  LET one == Append(events, FinalEvent(r))
             then == Absorb(mem, FinalEvent(r), Len(one)) IN
         /\ Len(one) = Len(events) + 1 /\ Len(one) \in Nat
         /\ Sound(one, then)
         /\ Larger(then.pause, clock + PauseLen) \in Nat
         /\ IF Due(then) THEN StartCooldown(one, then) ELSE events' = one /\ mem' = then
  <1> DEFINE one == Append(events, FinalEvent(r))
             then == Absorb(mem, FinalEvent(r), Len(one))
  <1>1. Sound(events, mem) /\ issued \subseteq Finals /\ clock \in Nat
    BY DEF GovernorInv, IssuedType
  <1>2. Len(one) = Len(events) + 1 /\ Len(one) \in Nat
    BY <1>1, OneMore, EventKinds DEF Sound, LedgerType
  <1>3. Sound(one, then)
    BY <1>1, <1>2, SoundFinal
  <1>4. Larger(then.pause, clock + PauseLen) \in Nat
    <2> HIDE DEF then
    <2> QED BY <1>1, <1>3, GovernorAssumption DEF Sound, Memories, Larger, GovernorAssumption
  <1>5. IF Due(then) THEN StartCooldown(one, then) ELSE events' = one /\ mem' = then
    BY DEF ApplyFinal
  <1> QED BY <1>2, <1>3, <1>4, <1>5

LEMMA StreakPaidStep ==
  ASSUME MaxCuts = 0
  PROVE  GovernorInv /\ StreakPaid /\ [Next]_vars => StreakPaid'
  <1> SUFFICES ASSUME GovernorInv, StreakPaid, [Next]_vars
               PROVE  StreakPaid'
    OBVIOUS
  <1>1. CASE Pass \/ Issue \/ (\E q \in Questions : CanOpen(q)) \/ UNCHANGED vars
    BY <1>1 DEF Pass, Issue, CanOpen, vars, StreakPaid, Streak
  <1>2. CASE Crash
    <2>1. mem' = mem /\ cuts' = cuts
      BY <1>2 DEF Crash, Restart, GovernorInv, Sound
    <2> QED BY <2>1 DEF StreakPaid, Streak
  <1>3. ASSUME NEW r \in issued, ApplyFinal(r)
        PROVE  StreakPaid'
    <2> DEFINE one == Append(events, FinalEvent(r))
               then == Absorb(mem, FinalEvent(r), Len(one))
    <2>1. /\ Sound(one, then) /\ Larger(then.pause, clock + PauseLen) \in Nat
          /\ IF Due(then) THEN StartCooldown(one, then) ELSE events' = one /\ mem' = then
      BY <1>3, Accepted
    <2> HIDE DEF one, then
    <2>2. Streak(mem') < LossStreak
      <3>1. CASE Due(then)
        <4>1. Streak(mem') = 0
          BY <2>1, <3>1, PauseEndsStreak DEF StartCooldown
        <4> QED BY <4>1, GovernorAssumption DEF GovernorAssumption
      <3>2. CASE ~Due(then)
        <4>1. mem' = then /\ Streak(then) \in Nat /\ ~(Streak(then) >= LossStreak)
          BY <2>1, <3>2, StreakCounts DEF Due
        <4> QED BY <4>1, GovernorAssumption DEF GovernorAssumption
      <3> QED BY <3>1, <3>2
    <2> QED BY <1>3, <2>2 DEF StreakPaid, ApplyFinal, Streak
  <1>4. ASSUME NEW r \in issued, ApplyFinalCut(r)
        PROVE  FALSE
    BY <1>4 DEF ApplyFinalCut, StreakPaid
  <1>5. CASE ActivateHalt \/ ActivateHaltIfClear
             \/ \E proof \in {ProofKeys, ProofKeys \ {"protection"}} : ClearHalt(proof)
    <2>1. PICK e \in {HaltEvent, ClearEvent} : mem' = Absorb(mem, e, Len(events) + 1) /\ cuts' = cuts
      BY <1>5 DEF ActivateHalt, ActivateHaltIfClear, ClearHalt, Record
    <2>2. mem \in Memories /\ Len(events) + 1 \in Nat
      BY DEF GovernorInv, Sound, LedgerType
    <2>3. mem'.book = mem.book /\ mem'.trigger = mem.trigger
      <3>1. HaltAbsorbed(mem, e, mem')
        BY <2>1, <2>2, AbsorbsHalts
      <3> QED BY <3>1 DEF HaltAbsorbed
    <2>4. Streak(mem') = Streak(mem)
      BY <2>3, StreakCounts
    <2> QED BY <2>1, <2>4 DEF StreakPaid, Streak
  <1> QED BY <1>1, <1>2, <1>3, <1>4, <1>5 DEF Next

LEMMA StreakPaidInit == Init => StreakPaid
  <1> SUFFICES ASSUME Init
               PROVE  StreakPaid
    OBVIOUS
  <1>1. StreakIn(Blank.book, Blank.trigger) = {}
    BY DEF StreakIn, Blank, NoFinal
  <1>2. Streak(Blank) = 0
    BY <1>1, StreakCounts, FS_EmptySet
  <1> QED BY <1>2, GovernorAssumption DEF Init, StreakPaid, GovernorAssumption

\* Losses are paid for by a pause, and by one only, as long as apply_final is
\* not cut between its two appends.
THEOREM LossesArePaidOnce ==
  ASSUME MaxCuts = 0
  PROVE  Spec => []LossesPaidOnce
  <1>1. GovernorInv /\ StreakPaid /\ Paid(events, mem) => LossesPaidOnce
    BY PaidByTheLedger DEF StreakPaid, LossesPaidOnce, NoUnpaidStreak
  <1> QED BY <1>1, PaidInit, PaidStep, GovernorInit, GovernorStep, StreakPaidInit,
             StreakPaidStep, PTL DEF Spec

-----------------------------------------------------------------------------
(* The governor implements LossGuard.                                         *)

TurnIn(b, k) == Cardinality({j \in Closes : b[j].first > 0 /\ b[j].first <= b[k].first})
GuardBook(b) == [k \in Closes |-> [pnl |-> b[k].pnl, at |-> b[k].at,
                                   turn |-> IF b[k].first = 0 THEN 0 ELSE TurnIn(b, k)]]
Used(b, t) == {k \in Closes : b[k].first \in 1..t}
Distinct(b) ==
    \A j, k \in Closes : b[j].first > 0 /\ b[j].first = b[k].first => j = k

LEMMA SoundDistinct ==
  ASSUME NEW log, NEW m, Sound(log, m)
  PROVE  Distinct(m.book)
  <1> SUFFICES ASSUME NEW j \in Closes, NEW k \in Closes,
                      m.book[j].first > 0, m.book[j].first = m.book[k].first
               PROVE  j = k
    BY DEF Distinct
  <1>1. BookTold(log, m.book[j], j) /\ BookTold(log, m.book[k], k)
    BY DEF Sound, Told
  <1>2. m.book[j].first \in FinalsOf(log, j)
    BY <1>1 DEF BookTold, NoFinal
  <1>3. m.book[k].first \in FinalsOf(log, k)
    BY <1>1 DEF BookTold, NoFinal
  <1> QED BY <1>2, <1>3 DEF FinalsOf

\* Turns are in the order of the first bookings.
LEMMA TurnsInOrder ==
  ASSUME NEW b \in [Closes -> Bookings], Distinct(b)
  PROVE  /\ \A k \in Closes : TurnIn(b, k) \in Nat
         /\ \A k \in Closes : b[k].first > 0 => TurnIn(b, k) > 0
         /\ \A j, k \in Closes : b[j].first > 0 /\ b[k].first > 0 =>
              (TurnIn(b, j) < TurnIn(b, k) <=> b[j].first < b[k].first)
  <1> DEFINE upto(k) == {j \in Closes : b[j].first > 0 /\ b[j].first <= b[k].first}
  <1>0. \A k \in Closes : b[k].first \in Nat
    BY DEF Bookings
  <1>1. ASSUME NEW k \in Closes
        PROVE  IsFiniteSet(upto(k)) /\ Cardinality(upto(k)) \in Nat /\ TurnIn(b, k) = Cardinality(upto(k))
    <2>1. upto(k) \subseteq Closes
      OBVIOUS
    <2> QED BY <2>1, FS_Subset, FS_CardinalityType, GovernorAssumption DEF GovernorAssumption, TurnIn
  <1>2. ASSUME NEW k \in Closes, b[k].first > 0
        PROVE  Cardinality(upto(k)) > 0
    <2>1. k \in upto(k)
      BY <1>0, <1>2
    <2> HIDE DEF upto
    <2>2. Cardinality(upto(k)) # 0
      BY <1>1, <2>1, FS_EmptySet
    <2> QED BY <1>1, <2>2
  <1>3. ASSUME NEW j \in Closes, NEW k \in Closes, b[j].first <= b[k].first
        PROVE  Cardinality(upto(j)) <= Cardinality(upto(k))
    <2>1. upto(j) \subseteq upto(k)
      BY <1>0, <1>3
    <2> HIDE DEF upto
    <2> QED BY <1>1, <2>1, FS_Subset
  <1>4. ASSUME NEW j \in Closes, NEW k \in Closes, b[k].first > 0, b[j].first < b[k].first
        PROVE  Cardinality(upto(j)) < Cardinality(upto(k))
    <2>1. upto(j) \subseteq upto(k) /\ k \in upto(k) /\ k \notin upto(j)
      BY <1>0, <1>4
    <2> HIDE DEF upto
    <2>2. Cardinality(upto(j)) <= Cardinality(upto(k)) /\ Cardinality(upto(j)) # Cardinality(upto(k))
      BY <1>1, <2>1, FS_Subset
    <2> QED BY <1>1, <2>2
  <1>5. ASSUME NEW j \in Closes, NEW k \in Closes, b[j].first > 0, b[k].first > 0
        PROVE  TurnIn(b, j) < TurnIn(b, k) <=> b[j].first < b[k].first
    <2>1. CASE b[j].first < b[k].first
      BY <1>1, <1>4, <1>5, <2>1
    <2>2. CASE ~(b[j].first < b[k].first)
      <3>1. b[k].first <= b[j].first
        BY <1>0, <2>2
      <3>2. Cardinality(upto(k)) <= Cardinality(upto(j))
        BY <1>3, <3>1
      <3> HIDE DEF upto
      <3> QED BY <1>1, <2>2, <3>2
    <2> QED BY <2>1, <2>2
  <1> QED BY <1>1, <1>2, <1>5

\* The instance counts as everybody does.
LEMMA CardinalitySame ==
  ASSUME NEW S
  PROVE  Cardinality(S) = Guard!Cardinality(S)
  <1> DEFINE count == CHOOSE c : c = [T \in SUBSET S |->
                         IF T = {} THEN 0 ELSE 1 + c[T \ {CHOOSE x : x \in T}]]
  <1>1. Cardinality(S) = count[S]
    BY DEF Cardinality
  <1>2. Guard!Cardinality(S) = count[S]
    BY DEF Guard!Cardinality
  <1> QED BY <1>1, <1>2

\* Streak and rolling sum are the abstract ones.
LEMMA GuardReads ==
  ASSUME NEW b \in [Closes -> Bookings], Distinct(b), NEW t \in Nat
  PROVE  /\ Guard!Booked(GuardBook(b)) = {k \in Closes : b[k].first > 0}
         /\ Guard!Streak(GuardBook(b), Used(b, t)) = Cardinality(StreakIn(b, t))
  <1>1. \A k \in Closes : /\ b[k].first \in Nat /\ b[k].at \in Nat
                          /\ TurnIn(b, k) \in Nat
                          /\ b[k].first > 0 => TurnIn(b, k) > 0
    BY TurnsInOrder DEF Bookings
  <1>2. \A k \in Closes : /\ GuardBook(b)[k].pnl = b[k].pnl /\ GuardBook(b)[k].at = b[k].at
                          /\ GuardBook(b)[k].turn = IF b[k].first = 0 THEN 0 ELSE TurnIn(b, k)
    BY DEF GuardBook
  <1>3. Guard!Booked(GuardBook(b)) = {k \in Closes : b[k].first > 0}
    BY <1>1, <1>2 DEF Guard!Booked
  <1> DEFINE open == {k \in Closes : b[k].first > t}
             before(j, k) == b[j].at < b[k].at \/ (b[j].at = b[k].at /\ b[j].first < b[k].first)
  <1>4. Guard!Booked(GuardBook(b)) \ Used(b, t) = open
    BY <1>1, <1>3 DEF Used
  <1>5. ASSUME NEW j \in open, NEW k \in open
        PROVE  Guard!Before(GuardBook(b), j, k) <=> before(j, k)
    <2>1. b[j].first > 0 /\ b[k].first > 0
      BY <1>1
    <2>2. GuardBook(b)[j].turn = TurnIn(b, j) /\ GuardBook(b)[k].turn = TurnIn(b, k)
      BY <1>2, <2>1
    <2>3. TurnIn(b, j) < TurnIn(b, k) <=> b[j].first < b[k].first
      BY <2>1, TurnsInOrder
    <2> QED BY <1>2, <2>2, <2>3 DEF Guard!Before
  <1>6. {k \in open : \A j \in open : ~Guard!Before(GuardBook(b), j, k) => GuardBook(b)[j].pnl < 0}
          = StreakIn(b, t)
    <2>1. StreakIn(b, t) = {k \in open : \A j \in open : ~before(j, k) => b[j].pnl < 0}
      BY DEF StreakIn
    <2>2. \A j \in open : GuardBook(b)[j].pnl = b[j].pnl
      BY <1>2
    <2> HIDE DEF open, before
    <2> QED BY <1>5, <2>1, <2>2
  <1>7. Guard!Streak(GuardBook(b), Used(b, t)) = Cardinality(StreakIn(b, t))
    BY <1>4, <1>6, CardinalitySame DEF Guard!Streak
  <1> QED BY <1>3, <1>7

LEMMA TotalSame ==
  ASSUME NEW f
  PROVE  Total(f) = Guard!Total(f)
  <1> DEFINE sum == CHOOSE g : g = [s \in SUBSET DOMAIN f |->
                       IF s = {} THEN 0
                       ELSE f[CHOOSE x \in s : TRUE] + g[s \ {CHOOSE x \in s : TRUE}]]
  <1>1. Total(f) = sum[DOMAIN f]
    BY DEF Total, MapThenSumSet, MapThenFoldSet
  <1>2. Guard!Total(f) = sum[DOMAIN f]
    BY DEF Guard!Total, Guard!MapThenSumSet, Guard!MapThenFoldSet
  <1> QED BY <1>1, <1>2

LEMMA GuardSums ==
  ASSUME NEW m \in Memories, Distinct(m.book), NEW now
  PROVE  Guard!Rolling(GuardBook(m.book), now) = Rolling(m, now)
  <1> DEFINE b == m.book
             counted == {k \in Closes : m.book[k].first > 0 /\ now - Window < m.book[k].at
                                        /\ m.book[k].at <= now}
             counts == {k \in Guard!Booked(GuardBook(b)) : /\ now - Window < GuardBook(b)[k].at
                                                           /\ GuardBook(b)[k].at <= now}
  <1>1. \A k \in Closes : GuardBook(b)[k].pnl = b[k].pnl /\ GuardBook(b)[k].at = b[k].at
    BY DEF GuardBook
  <1>2. Guard!Booked(GuardBook(b)) = {k \in Closes : b[k].first > 0}
    <2>1. b \in [Closes -> Bookings]
      BY DEF Memories
    <2> QED BY <2>1, GuardReads
  <1>3. counts = counted
    BY <1>1, <1>2
  <1>4. [k \in counts |-> GuardBook(b)[k].pnl] = [k \in counted |-> m.book[k].pnl]
    BY <1>1, <1>3
  <1>5. Guard!Rolling(GuardBook(b), now) = Guard!Total([k \in counts |-> GuardBook(b)[k].pnl])
    BY DEF Guard!Rolling
  <1>6. Rolling(m, now) = Total([k \in counted |-> m.book[k].pnl])
    BY DEF Rolling
  <1> HIDE DEF counts, counted
  <1> QED BY <1>4, <1>5, <1>6, TotalSame

\* What the book becomes of a final, and what has paid by then: the abstract
\* booking.
LEMMA BooksWith ==
  ASSUME GovernorInv, NEW r \in issued,
         NEW b \in [Closes -> Bookings], Distinct(b),
         \A k \in Closes : b[k] =
            IF k = r.close
            THEN [pnl |-> r.pnl, at |-> r.at,
                  first |-> IF mem.book[k].first > 0 THEN mem.book[k].first ELSE Len(events) + 1]
            ELSE mem.book[k]
  PROVE  /\ GuardBook(b) = Guard!BookWith(r)
         /\ Used(b, mem.trigger) = Used(mem.book, mem.trigger)
         /\ Guard!Booked(GuardBook(b)) = Used(b, Len(events) + 1)
  <1> DEFINE n == Len(events) + 1  c == r.close
  <1>1. /\ mem.book \in [Closes -> Bookings] /\ Distinct(mem.book) /\ mem.trigger \in Nat
        /\ n \in Nat \ {0} /\ c \in Closes
        /\ \A k \in Closes : mem.book[k].first \in Nat /\ mem.book[k].first < n
    <2>1. Sound(events, mem) /\ mem \in Memories /\ Len(events) \in Nat
      BY DEF GovernorInv, Sound, LedgerType
    <2>2. \A k \in Closes : mem.book[k].first \in 0..Len(events)
      BY <2>1, FirstsInLedger
    <2>3. Distinct(mem.book)
      BY <2>1, SoundDistinct
    <2> QED BY <2>1, <2>2, <2>3 DEF Memories, GovernorInv, IssuedType, Finals
  <1>2. mem.trigger < n
    <2>1. /\ mem.trigger = 0 \/ \E l \in CooldownsIn(events) : mem.trigger = events[l].trigger
          /\ events \in Seq(Events)
          /\ \A l \in CooldownsIn(events) : events[l].trigger < l
      BY DEF GovernorInv, Sound, LedgerType, Told, CooldownsIn
    <2>2. \A l \in CooldownsIn(events) : l \in Nat /\ l < n
      BY <2>1 DEF CooldownsIn
    <2> QED BY <1>1, <2>1, <2>2
  <1>3. \A k \in Closes : /\ b[k].first = IF k = c /\ mem.book[k].first = 0 THEN n ELSE mem.book[k].first
                          /\ b[k].pnl = IF k = c THEN r.pnl ELSE mem.book[k].pnl
                          /\ b[k].at = IF k = c THEN r.at ELSE mem.book[k].at
    <2>1. ASSUME NEW k \in Closes
          PROVE  /\ b[k].first = IF k = c /\ mem.book[k].first = 0 THEN n ELSE mem.book[k].first
                 /\ b[k].pnl = IF k = c THEN r.pnl ELSE mem.book[k].pnl
                 /\ b[k].at = IF k = c THEN r.at ELSE mem.book[k].at
      <3>1. CASE k = c
        <4>1. b[k] = [pnl |-> r.pnl, at |-> r.at,
                      first |-> IF mem.book[k].first > 0 THEN mem.book[k].first ELSE n]
          BY <3>1
        <4> HIDE DEF n, c
        <4> QED BY <1>1, <3>1, <4>1
      <3>2. CASE k # c
        <4>1. b[k] = mem.book[k]
          BY <3>2
        <4> QED BY <3>2, <4>1
      <3> QED BY <3>1, <3>2
    <2> QED BY <2>1
  <1> HIDE DEF n
  <1>4. Used(b, mem.trigger) = Used(mem.book, mem.trigger)
    BY <1>1, <1>2, <1>3 DEF Used
  <1>5. Guard!Booked(GuardBook(b)) = Used(b, n)
    <2>1. Guard!Booked(GuardBook(b)) = {k \in Closes : b[k].first > 0}
      BY GuardReads
    <2>2. \A k \in Closes : b[k].first \in 0..n
      BY <1>1, <1>3
    <2> QED BY <1>1, <2>1, <2>2 DEF Used
  <1> DEFINE before == {j \in Closes : mem.book[j].first > 0}
             turn == IF GuardBook(mem.book)[c].turn > 0 THEN GuardBook(mem.book)[c].turn
                     ELSE Guard!Cardinality(Guard!Booked(GuardBook(mem.book))) + 1
  <1>6. Guard!Booked(GuardBook(mem.book)) = before
    BY <1>1, GuardReads
  <1>7. ASSUME NEW k \in Closes, k # c \/ mem.book[c].first > 0
        PROVE  GuardBook(b)[k].turn = GuardBook(mem.book)[k].turn
    <2>1. b[k].first = mem.book[k].first
      BY <1>1, <1>3, <1>7
    <2>2. {j \in Closes : b[j].first > 0 /\ b[j].first <= b[k].first}
            = {j \in Closes : mem.book[j].first > 0 /\ mem.book[j].first <= mem.book[k].first}
      BY <1>1, <1>3, <2>1
    <2>3. TurnIn(b, k) = TurnIn(mem.book, k)
      BY <2>2 DEF TurnIn
    <2> QED BY <2>1, <2>3 DEF GuardBook
  <1>8. mem.book[c].first = 0 => GuardBook(b)[c].turn = Cardinality(before) + 1
    <2>1. SUFFICES ASSUME mem.book[c].first = 0
                   PROVE  GuardBook(b)[c].turn = Cardinality(before) + 1
      OBVIOUS
    <2>2. b[c].first = n
      BY <1>1, <1>3, <2>1
    <2>3. {j \in Closes : b[j].first > 0 /\ b[j].first <= b[c].first} = before \cup {c}
      BY <1>1, <1>3, <2>2
    <2>4. c \notin before /\ before \subseteq Closes
      BY <2>1
    <2>5. IsFiniteSet(before)
      BY <2>4, FS_Subset, GovernorAssumption DEF GovernorAssumption
    <2> HIDE DEF before
    <2>6. Cardinality(before \cup {c}) = Cardinality(before) + 1
      BY <2>4, <2>5, FS_AddElement
    <2> QED BY <1>1, <2>2, <2>3, <2>6 DEF GuardBook, TurnIn
  <1>9. GuardBook(b)[c].turn = turn
    <2>1. CASE mem.book[c].first = 0
      <3>1. GuardBook(mem.book)[c].turn = 0
        BY <1>1, <2>1 DEF GuardBook
      <3> QED BY <1>6, <1>8, <2>1, <3>1, CardinalitySame
    <2>2. CASE mem.book[c].first > 0
      <3>1. GuardBook(mem.book)[c].turn = TurnIn(mem.book, c) /\ TurnIn(mem.book, c) > 0
        BY <1>1, <2>2, TurnsInOrder DEF GuardBook
      <3> QED BY <1>1, <1>7, <2>2, <3>1
    <2> QED BY <1>1, <2>1, <2>2
  <1> HIDE DEF turn
  <1>10. GuardBook(b) = [GuardBook(mem.book) EXCEPT ![c] = [pnl |-> r.pnl, at |-> r.at, turn |-> turn]]
    <2> DEFINE g == GuardBook(mem.book)
               h == [g EXCEPT ![c] = [pnl |-> r.pnl, at |-> r.at, turn |-> turn]]
    <2>1. /\ GuardBook(b) = [k \in Closes |-> GuardBook(b)[k]]
          /\ \A k \in Closes : GuardBook(b)[k] = [pnl |-> b[k].pnl, at |-> b[k].at,
                                                  turn |-> GuardBook(b)[k].turn]
      BY DEF GuardBook
    <2>2. /\ g = [k \in Closes |-> g[k]]
          /\ \A k \in Closes : g[k] = [pnl |-> mem.book[k].pnl, at |-> mem.book[k].at,
                                       turn |-> g[k].turn]
      BY DEF GuardBook
    <2>3. h = [k \in Closes |-> h[k]]
      BY <2>2
    <2>4. ASSUME NEW k \in Closes
          PROVE  GuardBook(b)[k] = h[k]
      <3>1. CASE k = c
        BY <1>1, <1>3, <1>9, <2>1, <2>2, <3>1
      <3>2. CASE k # c
        BY <1>3, <1>7, <2>1, <2>2, <3>2
      <3> QED BY <3>1, <3>2
    <2> HIDE DEF g, h
    <2>5. GuardBook(b) = h
      BY <2>1, <2>3, <2>4
    <2> QED BY <2>5 DEF h, g
  <1>11. GuardBook(mem.book) = [k \in Closes |-> [pnl |-> mem.book[k].pnl, at |-> mem.book[k].at,
                                     turn |-> IF mem.book[k].first = 0 THEN 0 ELSE Turn(k)]]
    BY DEF GuardBook, TurnIn, Turn
  <1>12. GuardBook(b) = Guard!BookWith(r)
    BY <1>10, <1>11 DEF Guard!BookWith, turn
  <1> QED BY <1>4, <1>5, <1>12 DEF n

\* The variables of LossGuard, as the governor has them.
Heard == {r \in issued : r.id \in mem.seen}
Book == [k \in Closes |-> [pnl |-> mem.book[k].pnl, at |-> mem.book[k].at,
                           turn |-> IF mem.book[k].first = 0 THEN 0 ELSE Turn(k)]]
Consumed == {k \in Closes : mem.book[k].first \in 1..mem.trigger}
Answer == IF verdict \in Reasons THEN "refused" ELSE verdict

LEMMA AsTheGuardHasThem ==
  /\ Book = GuardBook(mem.book) /\ Book' = GuardBook(mem'.book)
  /\ Consumed = Used(mem.book, mem.trigger) /\ Consumed' = Used(mem'.book, mem'.trigger)
  BY DEF Book, GuardBook, Turn, TurnIn, Consumed, Used

LEMMA GuardsStand ==
  ASSUME mem'.book = mem.book, mem'.trigger = mem.trigger
  PROVE  Book' = Book /\ Consumed' = Consumed
  BY AsTheGuardHasThem

\* Every id that was accepted is that of a final issued.
LEMMA SeenIssued ==
  ASSUME GovernorInv, NEW i \in mem.seen
  PROVE  \E r \in issued : r.id = i
  <1>1. /\ i \in Nat
        /\ i \in mem.seen <=> \E n \in DOMAIN events : events[n].kind = "final" /\ events[n].res.id = i
    BY DEF GovernorInv, Sound, Memories, Told
  <1>2. \A n \in DOMAIN events : events[n].kind = "final" => events[n].res \in issued
    BY DEF GovernorInv, Sound, LedgerType
  <1> QED BY <1>1, <1>2

\* A final that is accepted is heard, booked and, if it makes the streak
\* complete, paid for.
LEMMA AcceptedIsHeard ==
  ASSUME GovernorInv, NEW r \in issued, ApplyFinal(r)
  PROVE  Guard!Hear(r) /\ Answer' = "none"
  <1> DEFINE one == Append(events, FinalEvent(r))
             then == Absorb(mem, FinalEvent(r), Len(one))
  <1>1. /\ Len(one) = Len(events) + 1 /\ Len(one) \in Nat
        /\ Sound(one, then)
        /\ Larger(then.pause, clock + PauseLen) \in Nat
        /\ IF Due(then) THEN StartCooldown(one, then) ELSE events' = one /\ mem' = then
    BY Accepted
  <1>2. New(r) /\ UNCHANGED <<clock, issued>> /\ verdict' = "none"
    BY DEF ApplyFinal
  <1>3. /\ mem \in Memories /\ then \in Memories /\ Distinct(then.book) /\ r \in Finals /\ clock \in Nat
        /\ \A x, y \in issued : x.id = y.id => x = y
    BY <1>1, SoundDistinct DEF GovernorInv, Sound, IssuedType
  <1>a. FinalAbsorbed(mem, r, Len(one), then)
    BY <1>1, <1>3, AbsorbsFinal
  <1>4. /\ then.seen = mem.seen \cup {r.id} /\ then.trigger = mem.trigger
        /\ then.pause = mem.pause /\ then.halt = mem.halt
    <2> HIDE DEF then
    <2> QED BY <1>a DEF FinalAbsorbed
  <1>5. /\ GuardBook(then.book) = Guard!BookWith(r)
        /\ Used(then.book, mem.trigger) = Used(mem.book, mem.trigger)
        /\ Guard!Booked(GuardBook(then.book)) = Used(then.book, Len(one))
    <2>1. \A k \in Closes : then.book[k] =
            IF k = r.close
            THEN [pnl |-> r.pnl, at |-> r.at,
                  first |-> IF mem.book[k].first > 0 THEN mem.book[k].first ELSE Len(events) + 1]
            ELSE mem.book[k]
      <3> HIDE DEF one, then
      <3> QED BY <1>1, <1>a DEF FinalAbsorbed
    <2>2. then.book \in [Closes -> Bookings]
      BY <1>3 DEF Memories
    <2> HIDE DEF then
    <2>3. /\ GuardBook(then.book) = Guard!BookWith(r)
          /\ Used(then.book, mem.trigger) = Used(mem.book, mem.trigger)
          /\ Guard!Booked(GuardBook(then.book)) = Used(then.book, Len(events) + 1)
      BY <1>3, <2>1, <2>2, BooksWith
    <2> QED BY <1>1, <2>3
  <1> HIDE DEF one, then
  \* Ledger and memory afterwards.
  <1>6. /\ mem'.seen = then.seen /\ mem'.book = then.book /\ mem'.halt = then.halt
        /\ mem'.trigger = IF Due(then) THEN Len(one) ELSE mem.trigger
        /\ mem'.pause = IF Due(then) THEN Larger(then.pause, clock + PauseLen) ELSE then.pause
    <2>1. CASE ~Due(then)
      BY <1>1, <1>4, <2>1
    <2>2. CASE Due(then)
      <3> DEFINE u == Larger(then.pause, clock + PauseLen)  n == Len(one) + 1
                 w == Absorb(then, CooldownEvent(Len(one), u), n)
      <3>1. mem' = w
        BY <1>1, <2>2 DEF StartCooldown
      <3>u. u \in Nat /\ n \in Nat /\ Len(one) \in Nat /\ then \in Memories
        BY <1>1, <1>3
      <3> HIDE DEF u, n
      <3>w. /\ w.seen = then.seen /\ w.book = then.book /\ w.halt = then.halt
            /\ w.trigger = Larger(then.trigger, Len(one)) /\ w.pause = Larger(then.pause, u)
        <4>1. CooldownAbsorbed(then, Len(one), u, w)
          BY <3>u, AbsorbsCooldown
        <4> HIDE DEF w
        <4> QED BY <4>1 DEF CooldownAbsorbed
      <3> HIDE DEF w
      <3>2. /\ mem'.trigger = Larger(then.trigger, Len(one))
            /\ mem'.pause = Larger(then.pause, u)
            /\ mem'.halt = then.halt
        BY <3>1, <3>w
      <3>3. mem'.seen = then.seen /\ mem'.book = then.book
        BY <3>1, <3>w
      <3>4. then.trigger <= Len(one) /\ then.trigger \in Nat /\ then.pause \in Nat
        <4>1. /\ then.trigger = 0 \/ \E l \in CooldownsIn(one) : then.trigger = one[l].trigger
              /\ one \in Seq(Events) /\ \A l \in CooldownsIn(one) : one[l].trigger < l
          BY <1>1 DEF Sound, LedgerType, Told, CooldownsIn
        <4>2. \A l \in CooldownsIn(one) : l \in Nat /\ l <= Len(one)
          BY <4>1 DEF CooldownsIn
        <4>3. then.trigger \in Nat /\ then.pause \in Nat
          BY <1>3 DEF Memories
        <4> QED BY <1>1, <4>1, <4>2, <4>3
      <3>5. mem'.trigger = Len(one)
        BY <1>1, <3>2, <3>4 DEF Larger
      <3>6. mem'.pause = Larger(then.pause, clock + PauseLen)
        <4>1. clock + PauseLen \in Nat
          BY <1>3, GovernorAssumption DEF GovernorAssumption
        <4> QED BY <3>2, <3>4, <4>1 DEF Larger, u
      <3> QED BY <2>2, <3>2, <3>3, <3>5, <3>6
    <2> QED BY <2>1, <2>2
  <1>7. r \in issued /\ r.id \notin {x.id : x \in Heard}
    BY <1>2 DEF New, Heard
  <1>8. Heard' = Heard \cup {r}
    BY <1>2, <1>3, <1>4, <1>6 DEF Heard
  <1>9. Book' = Guard!BookWith(r)
    BY <1>5, <1>6, AsTheGuardHasThem
  <1>10. Guard!Complete(Book') <=> Due(then)
    <2>1. Book' = GuardBook(then.book) /\ Consumed = Used(then.book, mem.trigger)
      BY <1>5, <1>6, AsTheGuardHasThem
    <2>2. Guard!Streak(Book', Consumed) = Streak(then)
      <3>1. then.book \in [Closes -> Bookings] /\ mem.trigger \in Nat
        BY <1>3 DEF Memories
      <3>2. Guard!Streak(GuardBook(then.book), Used(then.book, mem.trigger))
              = Cardinality(StreakIn(then.book, mem.trigger))
        BY <1>3, <3>1, GuardReads
      <3>3. Streak(then) = Cardinality(StreakIn(then.book, mem.trigger))
        BY <1>4, StreakCounts
      <3> QED BY <2>1, <3>2, <3>3
    <2>3. Guard!Complete(Book') <=> Guard!Streak(Book', Consumed) >= LossStreak
      BY DEF Guard!Complete, Consumed
    <2> QED BY <2>2, <2>3 DEF Due
  <1>11. Consumed' = IF Guard!Complete(Book') THEN Guard!Booked(Book') ELSE Consumed
    BY <1>5, <1>6, <1>10, AsTheGuardHasThem
  <1>12. mem'.pause = IF Guard!Complete(Book') THEN Guard!PauseEnd(r) ELSE mem.pause
    <2>1. mem.pause \in Nat /\ clock + PauseLen \in Nat
      BY <1>3, GovernorAssumption DEF Memories, GovernorAssumption
    <2>2. Larger(then.pause, clock + PauseLen) = Guard!PauseEnd(r)
      BY <1>4, <2>1 DEF Larger, Guard!PauseEnd
    <2> QED BY <1>4, <1>6, <1>10, <2>2
  <1>13. mem'.halt = mem.halt
    BY <1>4, <1>6
  <1>14. Guard!Hear(r)
    BY <1>2, <1>7, <1>8, <1>9, <1>11, <1>12, <1>13 DEF Guard!Hear, Heard, Book, Consumed
  <1> QED BY <1>2, <1>14 DEF Answer, Reasons

\* The rolling sum is an integer.
LEMMA RollingInt ==
  ASSUME GovernorInv
  PROVE  Rolling(mem, clock) \in Int
  <1> DEFINE counted == {k \in Closes : /\ mem.book[k].first > 0
                                        /\ clock - Window < mem.book[k].at
                                        /\ mem.book[k].at <= clock}
             f == [k \in counted |-> mem.book[k].pnl]
  <1>1. IsFiniteSet(DOMAIN f)
    <2>1. counted \subseteq Closes
      OBVIOUS
    <2> QED BY <2>1, FS_Subset, GovernorAssumption DEF GovernorAssumption
  <1>2. \A k \in DOMAIN f : f[k] \in Int
    BY DEF GovernorInv, Sound, Memories, Bookings
  <1>3. Rolling(mem, clock) = Total(f)
    BY DEF Rolling
  <1> HIDE DEF f
  <1> QED BY <1>1, <1>2, <1>3, TotalInt

\* An answer of can_open is one the guard allows.
LEMMA AnsweredAsAsked ==
  ASSUME GovernorInv, NEW q \in Questions, CanOpen(q)
  PROVE  Guard!Ask
  <1>1. /\ verdict' = Answers(Rolling(mem, clock), q)
        /\ UNCHANGED <<clock, issued, mem>>
    BY DEF CanOpen
  <1>2. Answer' \in {"admitted", "refused"} /\ (Answer' = "admitted" => verdict' = "admitted")
    BY <1>1 DEF Answer, Answers, Reasons
  <1>3. verdict' = "admitted" => /\ ~mem.halt /\ clock >= mem.pause
                                 /\ Guard!Rolling(Book, clock) > Limit
    <2>1. /\ mem \in Memories /\ Distinct(mem.book) /\ clock \in Nat
      BY SoundDistinct DEF GovernorInv, Sound, IssuedType
    <2>2. Guard!Rolling(Book, clock) = Rolling(mem, clock)
      BY <2>1, GuardSums, AsTheGuardHasThem
    <2>3. verdict' = "admitted" => /\ ~mem.halt /\ ~(clock < mem.pause)
                                   /\ ~(Rolling(mem, clock) <= Limit)
      BY <1>1 DEF Answers
    <2>4. mem.pause \in Nat
      BY <2>1 DEF Memories
    <2> QED BY <2>1, <2>2, <2>3, <2>4, RollingInt, GovernorAssumption DEF GovernorAssumption
  <1>4. Heard' = Heard /\ Book' = Book /\ Consumed' = Consumed
    BY <1>1, GuardsStand DEF Heard
  <1> QED BY <1>1, <1>2, <1>3, <1>4 DEF Guard!Ask, Heard, Book, Consumed, Answer

LEMMA GuardInitially == Init => Guard!GuardInit
  <1> SUFFICES ASSUME Init
               PROVE  Guard!GuardInit
    OBVIOUS
  <1>1. Heard = {}
    BY DEF Init, Heard
  <1>2. Book = [k \in Closes |-> Guard!NoFinal]
    BY DEF Init, Book, Blank, NoFinal, Guard!NoFinal
  <1>3. Consumed = {}
    BY DEF Init, Consumed, Blank, NoFinal
  <1>4. Answer = "none" /\ mem.pause = 0 /\ mem.halt = FALSE
    BY DEF Init, Answer, Reasons, Blank
  <1> QED BY <1>1, <1>2, <1>3, <1>4 DEF Init, Guard!GuardInit, Heard, Book, Consumed, Answer

\* Every step of the governor is one of the guard, or none.
LEMMA GuardSteps ==
  ASSUME MaxCuts = 0, GovernorInv, StreakPaid, [Next]_vars
  PROVE  [Guard!GuardNext]_(Guard!gvars)
  <1>0. /\ mem \in Memories /\ Len(events) + 1 \in Nat
        /\ mem = Restore(events)
    BY DEF GovernorInv, Sound, LedgerType
  <1>1. CASE Pass
    <2>1. Heard' = Heard /\ Book' = Book /\ Consumed' = Consumed /\ Answer' = "none"
      BY <1>1, GuardsStand DEF Pass, Heard, Answer, Reasons
    <2> QED BY <1>1, <2>1 DEF Pass, Guard!GuardNext, Guard!Pass, Heard, Book, Consumed, Answer
  <1>2. CASE Issue
    <2>1. PICK k \in Closes, p \in Outcomes :
            issued' = issued \cup
              {[id |-> Cardinality(issued) + 1, close |-> k, pnl |-> p, at |-> clock]}
      BY <1>2 DEF Issue
    <2>2. Heard' = Heard
      <3>1. Cardinality(issued) \in Nat /\ \A r \in issued : r.id \in 1..Cardinality(issued)
        BY FS_CardinalityType DEF GovernorInv, IssuedType
      <3>2. Cardinality(issued) + 1 \notin mem.seen
        BY <3>1, SeenIssued
      <3>3. mem' = mem
        BY <1>2 DEF Issue
      <3> QED BY <2>1, <3>2, <3>3 DEF Heard
    <2>3. Book' = Book /\ Consumed' = Consumed /\ Answer' = "none"
      BY <1>2, GuardsStand DEF Issue, Answer, Reasons
    <2>4. UNCHANGED <<clock, mem>> /\ Guard!Cardinality(issued) = Cardinality(issued)
      BY <1>2, CardinalitySame DEF Issue
    <2>5. Guard!Issue
      BY <2>1, <2>2, <2>3, <2>4 DEF Guard!Issue, Heard, Book, Consumed
    <2> QED BY <2>3, <2>5 DEF Guard!GuardNext, Answer
  <1>3. ASSUME NEW r \in issued, ApplyFinal(r)
        PROVE  Guard!GuardNext
    BY <1>3, AcceptedIsHeard DEF Guard!GuardNext, Answer
  <1>4. ASSUME NEW r \in issued, ApplyFinalCut(r)
        PROVE  FALSE
    BY <1>4 DEF ApplyFinalCut, StreakPaid
  <1>5. ASSUME NEW q \in Questions, CanOpen(q)
        PROVE  Guard!GuardNext
    BY <1>5, AnsweredAsAsked DEF Guard!GuardNext
  <1>6. ASSUME verdict' = "none", UNCHANGED <<clock, issued>>, mem'.halt \in BOOLEAN,
               mem'.seen = mem.seen, mem'.book = mem.book, mem'.trigger = mem.trigger,
               mem'.pause = mem.pause
        PROVE  Guard!GuardNext
    <2>1. Heard' = Heard /\ Book' = Book /\ Consumed' = Consumed /\ Answer' = "none"
      BY <1>6, GuardsStand DEF Heard, Answer, Reasons
    <2> QED BY <1>6, <2>1 DEF Guard!GuardNext, Guard!SwitchHalt, Heard, Book, Consumed, Answer
  <1>7. CASE ActivateHalt \/ ActivateHaltIfClear
             \/ \E proof \in {ProofKeys, ProofKeys \ {"protection"}} : ClearHalt(proof)
    <2>1. PICK e \in {HaltEvent, ClearEvent} : Record(e)
      BY <1>7 DEF ActivateHalt, ActivateHaltIfClear, ClearHalt
    <2>2. mem' = Absorb(mem, e, Len(events) + 1) /\ verdict' = "none" /\ UNCHANGED <<clock, issued>>
      BY <2>1 DEF Record
    <2>3. /\ mem'.seen = mem.seen /\ mem'.book = mem.book /\ mem'.trigger = mem.trigger
          /\ mem'.pause = mem.pause /\ mem' \in Memories
      <3>1. HaltAbsorbed(mem, e, mem')
        BY <1>0, <2>2, AbsorbsHalts
      <3> QED BY <3>1 DEF HaltAbsorbed
    <2> QED BY <1>6, <2>2, <2>3 DEF Memories
  <1>8. CASE Crash
    BY <1>0, <1>6, <1>8 DEF Crash, Restart, Memories
  <1>9. CASE UNCHANGED vars
    <2>1. Heard' = Heard /\ Book' = Book /\ Consumed' = Consumed /\ Answer' = Answer
      BY <1>9, GuardsStand DEF vars, Heard, Answer
    <2>2. UNCHANGED <<clock, issued, mem>>
      BY <1>9 DEF vars
    <2> QED BY <2>1, <2>2 DEF Guard!gvars, Heard, Book, Consumed, Answer
  <1> QED BY <1>1, <1>2, <1>3, <1>4, <1>5, <1>7, <1>8, <1>9 DEF Next

\* The governor implements the loss guard: with its ledger, its folding and its
\* restarts each close counts once with its latest result and each loss pays for
\* one pause, as long as apply_final is not cut between its two appends.
THEOREM GovernorImplementsGuard ==
  ASSUME MaxCuts = 0
  PROVE  Spec => ImplementsLossGuard
  <1>1. GovernorInv /\ StreakPaid /\ [Next]_vars => [Guard!GuardNext]_(Guard!gvars)
    BY GuardSteps
  <1> QED BY <1>1, GuardInitially, GovernorInit, GovernorStep, StreakPaidInit, StreakPaidStep,
             PTL DEF Spec, ImplementsLossGuard, Guard!GuardSpec
=============================================================================
