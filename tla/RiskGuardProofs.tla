---------------------------- MODULE RiskGuardProofs ----------------------------
(* The guard of the portfolio watches what the executor holds:                 *)
(* PositionsTracked of RiskGuard, for any symbols, thresholds and bounds.      *)
EXTENDS RiskGuard, FiniteSetTheorems, TLAPS

-----------------------------------------------------------------------------
(* The invariant.                                                             *)

Messages == [kind : {"opened", "closed"}, of : Symbols] \cup [kind : Commands, of : {"all"}]
Orders == [kind : {"close", "close_all", "stop"}, of : Symbols \cup {"all"}]

TypesOK ==
    /\ held \subseteq Symbols /\ tracked \subseteq Symbols
    /\ IsFiniteSet(held) /\ IsFiniteSet(tracked)
    /\ results \in Seq(Messages) /\ orders \in Seq(Orders)
    /\ closing \subseteq Symbols /\ commands \in Seq(Messages)

\* After place i of the queue, q has m too.
Later(q, i, m) == \E j \in DOMAIN q : j > i /\ q[j] = m

\* The last message of a symbol in the queue tells whether it is present, and
\* who reads the queue to its end has seen what is present and nothing else.
Consistent(q, present, seen, lost) ==
    /\ \A s \in Symbols : \A i \in DOMAIN q :
          q[i] = Closed(s) /\ s \in present => Later(q, i, Opened(s))
    /\ \A s \in Symbols : \A i \in DOMAIN q :
          q[i] = Opened(s) /\ s \notin present => Later(q, i, Closed(s))
    /\ \A s \in present \ seen : Has(q, Opened(s))
    /\ \A s \in seen \ present : s \in lost \/ Has(q, Closed(s))

Consistency == Consistent(results, held, tracked, stranded)
GuardInv == TypesOK /\ Consistency

-----------------------------------------------------------------------------
(* What the messages do to it.                                                *)

LEMMA MessageKinds ==
    /\ \A s \in Symbols : Opened(s) \in Messages /\ Closed(s) \in Messages
    /\ \A s \in Symbols : Opened(s) # Closed(s)
    /\ \A s, t : Opened(s) = Opened(t) => s = t
    /\ \A s, t : Closed(s) = Closed(t) => s = t
    /\ \A c \in Commands : Command(c) \in Messages
    /\ \A c \in Commands : \A s : Command(c) # Opened(s) /\ Command(c) # Closed(s)
    /\ \A s, t : Opened(s) # Closed(t)
  <1>1. \A c \in Commands : c # "opened" /\ c # "closed"  BY DEF Commands
  <1> QED  BY <1>1 DEF Messages, Opened, Closed, Command

\* What is behind in a queue stays when a message is appended.
LEMMA AppendFacts ==
    ASSUME NEW q \in Seq(Messages), NEW m \in Messages, NEW r, r = Append(q, m)
    PROVE  /\ r \in Seq(Messages) /\ DOMAIN q = 1 .. Len(q) /\ Len(q) \in Nat
           /\ DOMAIN r = 1 .. (Len(q) + 1)
           /\ \A i \in DOMAIN q : r[i] = q[i]
           /\ r[Len(q) + 1] = m
  OBVIOUS

\* A message of a symbol appended to the queue, with what it tells.
LEMMA OpeningIsTold ==
    ASSUME NEW q \in Seq(Messages), NEW present \in SUBSET Symbols, NEW seen, NEW lost,
           NEW s \in Symbols \ present, Consistent(q, present, seen, lost)
    PROVE  Consistent(Append(q, Opened(s)), present \cup {s}, seen, lost)
  <1> DEFINE r == Append(q, Opened(s))
             here == present \cup {s}
  <1>0. Opened(s) \in Messages  BY MessageKinds
  <1>1. /\ DOMAIN q = 1 .. Len(q) /\ Len(q) \in Nat /\ DOMAIN r = 1 .. (Len(q) + 1)
        /\ \A i \in DOMAIN q : r[i] = q[i]
        /\ r[Len(q) + 1] = Opened(s)
    BY <1>0, AppendFacts
  <1> HIDE DEF r
  <1>2. ASSUME NEW t \in Symbols, NEW i \in DOMAIN r, r[i] = Closed(t), t \in here
        PROVE  Later(r, i, Opened(t))
    <2>1. i \in DOMAIN q  BY <1>1, <1>2, MessageKinds
    <2>2. CASE t = s  BY <2>1, <2>2, <1>1 DEF Later
    <2>3. CASE t # s
      <3>1. Later(q, i, Opened(t))  BY <2>1, <2>3, <1>1, <1>2 DEF Consistent
      <3> QED  BY <3>1, <1>1 DEF Later
    <2> QED  BY <2>2, <2>3
  <1>3. ASSUME NEW t \in Symbols, NEW i \in DOMAIN r, r[i] = Opened(t), t \notin here
        PROVE  Later(r, i, Closed(t))
    <2>1. i \in DOMAIN q  BY <1>1, <1>3, MessageKinds
    <2>2. Later(q, i, Closed(t))  BY <2>1, <1>1, <1>3 DEF Consistent
    <2> QED  BY <2>2, <1>1 DEF Later
  <1>4. ASSUME NEW t \in here \ seen  PROVE  Has(r, Opened(t))
    <2>1. CASE t = s  BY <2>1, <1>1 DEF Has
    <2>2. CASE t # s
      <3>1. Has(q, Opened(t))  BY <2>2 DEF Consistent
      <3> QED  BY <3>1, <1>1 DEF Has
    <2> QED  BY <2>1, <2>2
  <1>5. ASSUME NEW t \in seen \ here, t \notin lost  PROVE  Has(r, Closed(t))
    <2>1. Has(q, Closed(t))  BY <1>5 DEF Consistent
    <2> QED  BY <2>1, <1>1 DEF Has
  <1> QED  BY <1>2, <1>3, <1>4, <1>5 DEF Consistent, r

LEMMA ClosingIsTold ==
    ASSUME NEW q \in Seq(Messages), NEW present \in SUBSET Symbols, NEW seen, NEW lost,
           NEW s \in present, Consistent(q, present, seen, lost)
    PROVE  Consistent(Append(q, Closed(s)), present \ {s}, seen, lost)
  <1> DEFINE r == Append(q, Closed(s))
             here == present \ {s}
  <1>0. Closed(s) \in Messages  BY MessageKinds
  <1>1. /\ DOMAIN q = 1 .. Len(q) /\ Len(q) \in Nat /\ DOMAIN r = 1 .. (Len(q) + 1)
        /\ \A i \in DOMAIN q : r[i] = q[i]
        /\ r[Len(q) + 1] = Closed(s)
    BY <1>0, AppendFacts
  <1> HIDE DEF r
  <1>2. ASSUME NEW t \in Symbols, NEW i \in DOMAIN r, r[i] = Closed(t), t \in here
        PROVE  Later(r, i, Opened(t))
    <2>1. i \in DOMAIN q  BY <1>1, <1>2, MessageKinds
    <2>2. Later(q, i, Opened(t))  BY <2>1, <1>1, <1>2 DEF Consistent
    <2> QED  BY <2>2, <1>1 DEF Later
  <1>3. ASSUME NEW t \in Symbols, NEW i \in DOMAIN r, r[i] = Opened(t), t \notin here
        PROVE  Later(r, i, Closed(t))
    <2>1. i \in DOMAIN q  BY <1>1, <1>3, MessageKinds
    <2>2. CASE t = s  BY <2>1, <2>2, <1>1 DEF Later
    <2>3. CASE t # s
      <3>1. Later(q, i, Closed(t))  BY <2>1, <2>3, <1>1, <1>3 DEF Consistent
      <3> QED  BY <3>1, <1>1 DEF Later
    <2> QED  BY <2>2, <2>3
  <1>4. ASSUME NEW t \in here \ seen  PROVE  Has(r, Opened(t))
    <2>1. Has(q, Opened(t))  BY DEF Consistent
    <2> QED  BY <2>1, <1>1 DEF Has
  <1>5. ASSUME NEW t \in seen \ here, t \notin lost  PROVE  Has(r, Closed(t))
    <2>1. CASE t = s  BY <2>1, <1>1 DEF Has
    <2>2. CASE t # s
      <3>1. Has(q, Closed(t))  BY <2>2, <1>5 DEF Consistent
      <3> QED  BY <3>1, <1>1 DEF Has
    <2> QED  BY <2>1, <2>2
  <1> QED  BY <1>2, <1>3, <1>4, <1>5 DEF Consistent, r

\* A command between them changes nothing of it.
LEMMA CommandsAreNeutral ==
    ASSUME NEW q \in Seq(Messages), NEW present, NEW seen, NEW lost,
           NEW c \in Commands, Consistent(q, present, seen, lost)
    PROVE  Consistent(Append(q, Command(c)), present, seen, lost)
  <1> DEFINE r == Append(q, Command(c))
  <1>0. Command(c) \in Messages  BY MessageKinds
  <1>1. /\ DOMAIN q = 1 .. Len(q) /\ Len(q) \in Nat /\ DOMAIN r = 1 .. (Len(q) + 1)
        /\ \A i \in DOMAIN q : r[i] = q[i]
        /\ r[Len(q) + 1] = Command(c)
    BY <1>0, AppendFacts
  <1> HIDE DEF r
  <1>2. \A m : Has(q, m) => Has(r, m)  BY <1>1 DEF Has
  <1>3. \A i \in DOMAIN q : \A m : Later(q, i, m) => Later(r, i, m)  BY <1>1 DEF Later
  <1>4. \A t \in Symbols : \A i \in DOMAIN r :
            r[i] \in {Opened(t), Closed(t)} => i \in DOMAIN q /\ r[i] = q[i]
    BY <1>1, MessageKinds
  <1> QED  BY <1>2, <1>3, <1>4 DEF Consistent, r

\* The guard reads the first message: what it has seen then is what it had,
\* with what the message told.
Told(m, seen) == CASE m.kind = "opened" -> seen \cup {m.of}
                   [] m.kind = "closed" -> seen \ {m.of}
                   [] OTHER -> seen

LEMMA ReadingIsKnowing ==
    ASSUME NEW q \in Seq(Messages), q # <<>>, NEW present \in SUBSET Symbols,
           NEW seen \in SUBSET Symbols, NEW lost, Consistent(q, present, seen, lost)
    PROVE  Consistent(Tail(q), present, Told(Head(q), seen), lost)
  <1> DEFINE r == Tail(q)
             now == Told(Head(q), seen)
  <1>1. /\ DOMAIN q = 1 .. Len(q) /\ Len(q) \in Nat /\ Len(q) > 0
        /\ DOMAIN r = 1 .. (Len(q) - 1)
        /\ \A i \in DOMAIN r : r[i] = q[i + 1]
        /\ Head(q) = q[1] /\ Head(q) \in Messages
    OBVIOUS
  <1> HIDE DEF r
  <1>2. \A i \in DOMAIN r : \A m : Later(q, i + 1, m) => Later(r, i, m)
    <2>1. SUFFICES ASSUME NEW i \in DOMAIN r, NEW m, Later(q, i + 1, m)  PROVE  Later(r, i, m)
      OBVIOUS
    <2>2. PICK j \in DOMAIN q : j > i + 1 /\ q[j] = m  BY <2>1 DEF Later
    <2>3. j - 1 \in DOMAIN r /\ j - 1 > i /\ r[j - 1] = m  BY <1>1, <2>2
    <2> QED  BY <2>3 DEF Later
  <1>3. \A m : Later(q, 1, m) => Has(r, m)
    <2>1. SUFFICES ASSUME NEW m, Later(q, 1, m)  PROVE  Has(r, m)  OBVIOUS
    <2>2. PICK j \in DOMAIN q : j > 1 /\ q[j] = m  BY <2>1 DEF Later
    <2>3. j - 1 \in DOMAIN r /\ r[j - 1] = m  BY <1>1, <2>2
    <2> QED  BY <2>3 DEF Has
  <1>4. \A m : Has(q, m) /\ m # Head(q) => Has(r, m)
    <2>1. SUFFICES ASSUME NEW m, Has(q, m), m # Head(q)  PROVE  Has(r, m)  OBVIOUS
    <2>2. PICK j \in DOMAIN q : q[j] = m  BY <2>1 DEF Has
    <2>3. j - 1 \in DOMAIN r /\ r[j - 1] = m  BY <1>1, <2>1, <2>2
    <2> QED  BY <2>3 DEF Has
  <1>5. ASSUME NEW t \in Symbols, NEW i \in DOMAIN r, r[i] = Closed(t), t \in present
        PROVE  Later(r, i, Opened(t))
    <2>1. i + 1 \in DOMAIN q /\ q[i + 1] = Closed(t)  BY <1>1, <1>5
    <2>2. Later(q, i + 1, Opened(t))  BY <2>1, <1>5 DEF Consistent
    <2> QED  BY <2>2, <1>2
  <1>6. ASSUME NEW t \in Symbols, NEW i \in DOMAIN r, r[i] = Opened(t), t \notin present
        PROVE  Later(r, i, Closed(t))
    <2>1. i + 1 \in DOMAIN q /\ q[i + 1] = Opened(t)  BY <1>1, <1>6
    <2>2. Later(q, i + 1, Closed(t))  BY <2>1, <1>6 DEF Consistent
    <2> QED  BY <2>2, <1>2
  <1>7. \/ \E s \in Symbols : Head(q) = Opened(s) /\ now = seen \cup {s}
        \/ \E s \in Symbols : Head(q) = Closed(s) /\ now = seen \ {s}
        \/ \E c \in Commands : Head(q) = Command(c) /\ now = seen
    BY <1>1 DEF Messages, Commands, Opened, Closed, Command, Told
  <1> HIDE DEF now
  <1>8. /\ \A t \in present \ now : Has(r, Opened(t))
        /\ \A t \in now \ present : t \in lost \/ Has(r, Closed(t))
    <2>0. /\ \A t \in present \ seen : Has(q, Opened(t))
          /\ \A t \in seen \ present : t \in lost \/ Has(q, Closed(t))
      BY DEF Consistent
    <2>1. ASSUME NEW s \in Symbols, Head(q) = Opened(s), now = seen \cup {s}  PROVE  <1>8!1 /\ <1>8!2
      <3>1. s \notin present => Has(r, Closed(s))
        BY <2>1, <1>1, <1>3 DEF Consistent
      <3>2. \A t \in Symbols : t # s => Opened(t) # Head(q)  BY <2>1, MessageKinds
      <3>3. \A t \in Symbols : Closed(t) # Head(q)  BY <2>1, MessageKinds
      <3> QED  BY <2>0, <2>1, <3>1, <3>2, <3>3, <1>4
    <2>2. ASSUME NEW s \in Symbols, Head(q) = Closed(s), now = seen \ {s}  PROVE  <1>8!1 /\ <1>8!2
      <3>1. s \in present => Has(r, Opened(s))
        BY <2>2, <1>1, <1>3 DEF Consistent
      <3>2. \A t \in Symbols : t # s => Closed(t) # Head(q)  BY <2>2, MessageKinds
      <3>3. \A t \in Symbols : Opened(t) # Head(q)  BY <2>2, MessageKinds
      <3> QED  BY <2>0, <2>2, <3>1, <3>2, <3>3, <1>4
    <2>3. ASSUME NEW c \in Commands, Head(q) = Command(c), now = seen  PROVE  <1>8!1 /\ <1>8!2
      <3>1. \A t \in Symbols : Opened(t) # Head(q) /\ Closed(t) # Head(q)
        BY <2>3, MessageKinds
      <3> QED  BY <2>0, <2>3, <3>1, <1>4
    <2> QED  BY <1>7, <2>1, <2>2, <2>3
  <1> QED  BY <1>5, <1>6, <1>8 DEF Consistent, r, now

\* Closing everything the guard tracks, one by one.
LEMMA StopOrders ==
    ASSUME NEW q \in Seq(Orders), NEW S \in SUBSET Symbols, IsFiniteSet(S)
    PROVE  q \o [i \in DOMAIN SetToSeq(S) |-> Close(SetToSeq(S)[i])] \in Seq(Orders)
  <1> DEFINE each == SetToSeq(S)
  <1>1. Cardinality(S) \in Nat /\ ExistsBijection(1 .. Cardinality(S), S)
    BY FS_CardinalityType
  <1>2. \E f \in [1 .. Cardinality(S) -> S] : IsInjective(f)
    BY <1>1 DEF ExistsBijection, Bijection, Injection
  <1>3. each \in [1 .. Cardinality(S) -> S]
    BY <1>2 DEF SetToSeq
  <1> HIDE DEF each
  <1>4. \A i \in DOMAIN each : Close(each[i]) \in Orders
    BY <1>3 DEF Close, Orders
  <1>5. [i \in DOMAIN each |-> Close(each[i])] \in Seq(Orders)
    <2> DEFINE r == [i \in DOMAIN each |-> Close(each[i])]
    <2>1. r \in [1 .. Cardinality(S) -> Orders]  BY <1>3, <1>4
    <2> QED  BY <2>1, <1>1
  <1>6. \A r \in Seq(Orders) : q \o r \in Seq(Orders)  OBVIOUS
  <1> QED  BY <1>5, <1>6 DEF each

LEMMA OrderKinds ==
    /\ \A s \in Symbols : Close(s) \in Orders
    /\ CloseAll \in Orders /\ Stop \in Orders
  BY DEF Close, CloseAll, Stop, Orders

-----------------------------------------------------------------------------
(* Every step keeps it.                                                       *)

LEMMA InvAtStart == Init => GuardInv
  <1>1. IsFiniteSet({})  BY FS_EmptySet
  <1> QED  BY <1>1 DEF Init, GuardInv, TypesOK, Consistency, Consistent

LEMMA OpenKeeps == ASSUME GuardInv, NEW s \in Symbols, Open(s)  PROVE  GuardInv'
  <1>1. results \in Seq(Messages) /\ held \in SUBSET Symbols /\ Opened(s) \in Messages
    BY MessageKinds DEF GuardInv, TypesOK
  <1>2. s \in Symbols \ held /\ held' = held \cup {s} /\ results' = Append(results, Opened(s))
        /\ UNCHANGED <<tracked, orders, closing, commands, stranded>>
    BY DEF Open
  <1>3. Consistency'
    BY <1>1, <1>2, OpeningIsTold DEF GuardInv, Consistency
  <1>4. IsFiniteSet(held')  BY <1>2, FS_AddElement DEF GuardInv, TypesOK
  <1>5. results' \in Seq(Messages)  BY <1>1, <1>2
  <1> QED  BY <1>2, <1>3, <1>4, <1>5 DEF GuardInv, TypesOK

\* Whatever else a step does, a close that is told is kept track of.
LEMMA GoneKeeps ==
    ASSUME GuardInv, NEW s \in held, Gone(s), UNCHANGED <<tracked, commands, stranded>>,
           orders' \in Seq(Orders), closing' \subseteq Symbols
    PROVE  GuardInv'
  <1>1. results \in Seq(Messages) /\ held \in SUBSET Symbols /\ Closed(s) \in Messages
    BY MessageKinds DEF GuardInv, TypesOK
  <1>2. held' = held \ {s} /\ results' = Append(results, Closed(s))
    BY DEF Gone
  <1>3. Consistency'
    BY <1>1, <1>2, ClosingIsTold DEF GuardInv, Consistency
  <1>4. IsFiniteSet(held')  BY <1>2, FS_RemoveElement DEF GuardInv, TypesOK
  <1>5. results' \in Seq(Messages)  BY <1>1, <1>2
  <1> QED  BY <1>2, <1>3, <1>4, <1>5 DEF GuardInv, TypesOK

\* Nor does a step matter that leaves alone what the guard reads and knows.
LEMMA AsideKeeps ==
    ASSUME GuardInv, UNCHANGED <<held, tracked, results, stranded>>,
           orders' \in Seq(Orders), closing' \subseteq Symbols, commands' \in Seq(Messages)
    PROVE  GuardInv'
  BY DEF GuardInv, TypesOK, Consistency

LEMMA ExternalCloseKeeps ==
    ASSUME GuardInv, NEW s \in Symbols, ExternalClose(s)  PROVE  GuardInv'
  BY GoneKeeps DEF ExternalClose, GuardInv, TypesOK

LEMMA TakeOrderKeeps == ASSUME GuardInv, TakeOrder  PROVE  GuardInv'
  <1> DEFINE o == Head(orders)
  <1>1. /\ orders \in Seq(Orders) /\ held \subseteq Symbols /\ closing \subseteq Symbols
        /\ commands \in Seq(Messages)
    BY DEF GuardInv, TypesOK
  <1>2. orders # <<>> /\ orders' = Tail(orders) /\ UNCHANGED <<tracked, commands, stranded>>
    BY DEF TakeOrder
  <1>3. o \in Orders /\ orders' \in Seq(Orders)  BY <1>1, <1>2
  <1>4. \/ o.of \in held /\ Attempt(o.of) /\ UNCHANGED closing
        \/ UNCHANGED <<held, results, closing>>
        \/ UNCHANGED <<held, results>> /\ closing' = held
    BY <1>3 DEF TakeOrder, Orders
  <1> HIDE DEF o
  <1>5. ASSUME o.of \in held, Attempt(o.of), UNCHANGED closing  PROVE  GuardInv'
    <2>1. CASE Gone(o.of)  BY <2>1, <1>5, <1>1, <1>2, <1>3, GoneKeeps
    <2>2. CASE UNCHANGED <<held, results>>  BY <2>2, <1>5, <1>1, <1>2, <1>3, AsideKeeps
    <2> QED  BY <2>1, <2>2, <1>5 DEF Attempt
  <1>6. ASSUME UNCHANGED <<held, results>>, closing' \in {closing, held}  PROVE  GuardInv'
    BY <1>6, <1>1, <1>2, <1>3, AsideKeeps
  <1> QED  BY <1>4, <1>5, <1>6

LEMMA CloseOneKeeps == ASSUME GuardInv, NEW s \in Symbols, CloseOne(s)  PROVE  GuardInv'
  <1>1. /\ orders' \in Seq(Orders) /\ closing' \subseteq Symbols /\ commands' \in Seq(Messages)
        /\ UNCHANGED <<tracked, commands, stranded>>
    BY DEF CloseOne, GuardInv, TypesOK
  <1>2. \/ s \in held /\ Gone(s)
        \/ UNCHANGED <<held, results>>
    BY DEF CloseOne, Attempt
  <1> QED  BY <1>1, <1>2, GoneKeeps, AsideKeeps

LEMMA TakeCommandKeeps == ASSUME GuardInv, TakeCommand  PROVE  GuardInv'
  <1>1. /\ orders \in Seq(Orders) /\ closing \subseteq Symbols /\ commands \in Seq(Messages)
    BY DEF GuardInv, TypesOK
  <1>2. /\ commands # <<>> /\ commands' = Tail(commands)
        /\ UNCHANGED <<held, tracked, orders, closing, results, stranded>>
    BY DEF TakeCommand
  <1>3. commands' \in Seq(Messages)  BY <1>1, <1>2
  <1> QED  BY <1>1, <1>2, <1>3, AsideKeeps

LEMMA TakeResultKeeps == ASSUME GuardInv, TakeResult  PROVE  GuardInv'
  <1>1. /\ results \in Seq(Messages) /\ held \in SUBSET Symbols /\ tracked \in SUBSET Symbols
        /\ IsFiniteSet(tracked)
    BY DEF GuardInv, TypesOK
  <1>2. /\ results # <<>> /\ results' = Tail(results)
        /\ UNCHANGED <<held, orders, closing, commands, stranded>>
    BY DEF TakeResult, executor
  <1>3. tracked' = Told(Head(results), tracked)
    BY DEF TakeResult, Told, Tracks, Forgets
  <1>4. Head(results) \in Messages /\ results' \in Seq(Messages)  BY <1>1, <1>2
  <1>5. Consistency'
    BY <1>1, <1>2, <1>3, ReadingIsKnowing DEF GuardInv, Consistency
  <1>6. \/ tracked' = tracked
        \/ \E s \in Symbols : tracked' = tracked \cup {s}
        \/ \E s \in Symbols : tracked' = tracked \ {s}
    BY <1>3, <1>4 DEF Told, Messages, Commands
  <1>7. IsFiniteSet(tracked') /\ tracked' \subseteq Symbols
    BY <1>1, <1>6, FS_AddElement, FS_RemoveElement
  <1> QED  BY <1>2, <1>4, <1>5, <1>7 DEF GuardInv, TypesOK

LEMMA AlertsKeep ==
    ASSUME GuardInv, TakeStop \/ Drawdown \/ Review \/ (\E s \in Symbols : Warn(s))
    PROVE  GuardInv'
  <1>1. /\ orders \in Seq(Orders) /\ closing \subseteq Symbols /\ commands \in Seq(Messages)
        /\ tracked \in SUBSET Symbols /\ IsFiniteSet(tracked)
    BY DEF GuardInv, TypesOK
  <1>2. UNCHANGED <<held, tracked, results, stranded, closing, commands>>
    BY DEF TakeStop, Drawdown, Review, Warn
  <1>3. orders' \in Seq(Orders)
    <2>1. CASE TakeStop  BY <2>1, <1>1, StopOrders DEF TakeStop
    <2>2. CASE Drawdown
      <3>1. orders' \in {orders \o <<CloseAll, Stop>>, Append(orders, CloseAll)}
        BY <2>2 DEF Drawdown
      <3>2. orders \o <<CloseAll, Stop>> \in Seq(Orders)
        <4>1. <<CloseAll, Stop>> \in Seq(Orders)  BY OrderKinds
        <4>2. \A q, r \in Seq(Orders) : q \o r \in Seq(Orders)  OBVIOUS
        <4> QED  BY <4>1, <4>2, <1>1
      <3>3. Append(orders, CloseAll) \in Seq(Orders)  BY <1>1, OrderKinds
      <3> QED  BY <3>1, <3>2, <3>3
    <2>3. CASE Review
      <3>1. orders' \in {orders, Append(orders, Stop)}  BY <2>3 DEF Review
      <3> QED  BY <3>1, <1>1, OrderKinds
    <2>4. ASSUME NEW s \in Symbols, Warn(s)  PROVE  orders' \in Seq(Orders)
      BY <2>4, <1>1, OrderKinds DEF Warn
    <2> QED  BY <2>1, <2>2, <2>3, <2>4
  <1> QED  BY <1>1, <1>2, <1>3, AsideKeeps

LEMMA OperatorKeeps == ASSUME GuardInv, NEW c \in Commands, Operator(c)  PROVE  GuardInv'
  <1>1. results \in Seq(Messages) /\ commands \in Seq(Messages) /\ Command(c) \in Messages
    BY MessageKinds DEF GuardInv, TypesOK
  <1>2. /\ results' = Append(results, Command(c)) /\ commands' = Append(commands, Command(c))
        /\ UNCHANGED <<held, tracked, orders, closing, stranded>>
    BY DEF Operator
  <1>3. Consistency'
    BY <1>1, <1>2, CommandsAreNeutral DEF GuardInv, Consistency
  <1>4. results' \in Seq(Messages) /\ commands' \in Seq(Messages)  BY <1>1, <1>2
  <1> QED  BY <1>2, <1>3, <1>4 DEF GuardInv, TypesOK

\* After a restart the guard tracks what is held, and the files say so.
LEMMA CrashKeeps == ASSUME GuardInv, Crash  PROVE  GuardInv'
  <1>1. /\ tracked' = tracked \cup held /\ stranded' = tracked \ held /\ held' = held
        /\ results' = <<>> /\ orders' = <<>> /\ closing' = {} /\ commands' = <<>>
    BY DEF Crash, Restored
  <1>2. IsFiniteSet(tracked')  BY <1>1, FS_Union DEF GuardInv, TypesOK
  <1>3. Consistency'  BY <1>1 DEF Consistency, Consistent
  <1> QED  BY <1>1, <1>2, <1>3 DEF GuardInv, TypesOK

LEMMA GuardInvKept == GuardInv /\ [Next]_vars => GuardInv'
  <1>1. SUFFICES ASSUME GuardInv, [Next]_vars  PROVE  GuardInv'
    OBVIOUS
  <1>2. ASSUME NEW s \in Symbols, PriceMoves(s)  PROVE  GuardInv'
    BY <1>1, <1>2, AsideKeeps DEF PriceMoves, executor, guard, GuardInv, TypesOK
  <1>3. ASSUME NEW k, CooldownEnds(k)  PROVE  GuardInv'
    BY <1>1, <1>3, AsideKeeps DEF CooldownEnds, executor, GuardInv, TypesOK
  <1>4. CASE NewDay
    BY <1>1, <1>4, AsideKeeps DEF NewDay, executor, guard, GuardInv, TypesOK
  <1>5. CASE UNCHANGED vars
    BY <1>1, <1>5, AsideKeeps DEF vars, GuardInv, TypesOK
  <1> QED
    BY <1>1, <1>2, <1>3, <1>4, <1>5, OpenKeeps, ExternalCloseKeeps, CloseOneKeeps,
       TakeOrderKeeps, TakeCommandKeeps, TakeResultKeeps, AlertsKeep, OperatorKeeps,
       CrashKeeps DEF Next

\* The guard watches what is held and nothing else: whatever it does not yet
\* track, or no longer should, is what a message on its way tells it, restarts
\* included.
THEOREM GuardTracksPositions == Spec => []PositionsTracked
  <1>1. GuardInv => PositionsTracked
    BY DEF GuardInv, Consistency, Consistent, PositionsTracked, Watched, NoGhosts
  <1> QED  BY <1>1, InvAtStart, GuardInvKept, PTL DEF Spec
=============================================================================
