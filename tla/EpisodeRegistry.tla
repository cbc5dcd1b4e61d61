--------------------------- MODULE EpisodeRegistry ---------------------------
(* The registry of structural episodes (src/utils/tactical_v2/episodes.py):   *)
(* one attempt per episode of a symbol and side, renewed only on fresh        *)
(* evidence of a change of structure, all of it kept in the event ledger.     *)
(*                                                                            *)
(* Symbols do not interact, so there is one.  A method runs under one lock.   *)
(* The ledger is kept as what _restore folds from it: the fold takes one      *)
(* event after the other, so folding each event as it is appended is the same *)
(* (TacticalStore is the ledger itself).  0 stands for a missing bar.         *)
EXTENDS Integers, Sequences, FiniteSets

CONSTANTS
    Sides,      \* sides in use, of "long" and "short"
    Tokens,     \* tokens of confirmed 15m structures
    NoToken,    \* no confirmed structure
    MaxBar,     \* bound: 15m bars that close
    MaxEpochs,  \* bound: episodes of a side
    MaxCrashes  \* bound: restarts, and renewals cut between their two appends

ASSUME SidesAssumption == Sides \subseteq {"long", "short"} /\ NoToken \notin Tokens
ASSUME EpisodeBounds == MaxBar \in Nat /\ MaxEpochs \in Nat /\ MaxCrashes \in Nat

VARIABLES
    current,    \* _states: the episode a side is in, by its epoch; 0 for none
    episodes,   \* _episode_states: the episodes of a side, by epoch
    ledger,     \* what a restart would restore of the two
    grants,     \* history: eligible answers per episode
    shown,      \* history: what a side was shown since its last grant
    cut,        \* history: the renewal of a side that was cut short, if any
    crashes

registry == <<current, episodes>>
vars == <<current, episodes, ledger, grants, shown, cut, crashes>>

\* A 15m structure as the analyst reports it: unavailable, or with the bar
\* that closed, a bias, a token if one is confirmed, and the sides it blocks.
Unavailable == [available |-> FALSE, bias |-> "unavailable", bar |-> 0,
                token |-> NoToken, blocks |-> {}]
Structures ==
    {Unavailable} \cup
    [available : {TRUE}, bias : {"bullish", "neutral", "bearish"}, bar : 1..MaxBar,
     token : Tokens \cup {NoToken}, blocks : SUBSET Sides]

Desired(s) == IF s = "long" THEN "bullish" ELSE "bearish"
Later(x, y) == IF x >= y THEN x ELSE y

\* A state of an episode.  token and bar are those it was assigned with,
\* newest the latest bar it has seen.
Episode(s, x) ==
    [terminal |-> FALSE, neutral |-> FALSE, block |-> s \in x.blocks, pending |-> FALSE,
     token |-> x.token, bar |-> x.bar, newest |-> x.bar]
NothingShown == [opposed |-> FALSE, neutral |-> FALSE, newest |-> 0]

Init ==
    /\ current = [s \in Sides |-> 0]
    /\ episodes = [s \in Sides |-> <<>>]
    /\ ledger = [current |-> current, episodes |-> episodes]
    /\ grants = [s \in Sides |-> [n \in 1..MaxEpochs |-> 0]]
    /\ shown = [s \in Sides |-> NothingShown]
    /\ cut = [s \in Sides |-> Unavailable]
    /\ crashes = 0

State(s) == episodes[s][current[s]]

-----------------------------------------------------------------------------
(* What a structure says to an episode.                                       *)

Stale(e, x) == x.bar # 0 /\ e.newest # 0 /\ x.bar < e.newest

\* After the attempt is over, a newer bar or another token is a new structure.
NewStructure(e, x) ==
    /\ e.terminal
    /\ \/ e.bar # 0 /\ x.bar > e.bar
       \/ x.token # NoToken /\ x.token # e.token
Renewed(s, e, x) == x.bias = Desired(s) /\ (e.pending \/ e.neutral)

\* _reset_reason is one.
Resets(s, e, x) ==
    /\ x.available /\ ~Stale(e, x) /\ s \notin x.blocks
    /\ x.bias \in {Desired(s), "neutral"}
    /\ NewStructure(e, x) \/ Renewed(s, e, x)

\* _observe_locked: the next state of the episode.
ObservedAny(s, e, x) ==
    IF ~x.available THEN e
    ELSE [e EXCEPT !.pending = @ \/ (s \in x.blocks /\ ~e.block),
                   !.neutral = @ \/ x.bias # Desired(s),
                   !.block = s \in x.blocks,
                   !.newest = Later(@, x.bar)]
Observed(s, e, x) ==
    IF ~x.available \/ Stale(e, x) THEN e
    ELSE [e EXCEPT !.pending = @ \/ (s \in x.blocks /\ ~e.block),
                   !.neutral = @ \/ x.bias = "neutral",
                   !.block = s \in x.blocks,
                   !.newest = Later(@, x.bar)]

\* The history of what a side was shown.
Show(s, x) ==
    LET h == shown[s] IN
    IF ~x.available \/ x.bar < h.newest THEN h
    ELSE [opposed |-> h.opposed \/ s \in x.blocks, neutral |-> h.neutral \/ x.bias = "neutral",
          newest |-> x.bar]
Granted(s, x) == [NothingShown EXCEPT !.newest = Later(shown[s].newest, x.bar)]

-----------------------------------------------------------------------------
(* _persist: the event is appended first, then the memory takes the state.    *)

Stored(list, n, e) == IF n > Len(list) THEN Append(list, e) ELSE [list EXCEPT ![n] = e]

\* _restore of one event: a historical episode does not become current again.
RestoredLast(s, n, e) ==
    [current |-> [ledger.current EXCEPT ![s] = n],
     episodes |-> [ledger.episodes EXCEPT ![s] = Stored(@, n, e)]]
Restored(s, n, e) ==
    [current |-> [ledger.current EXCEPT ![s] = Later(@, n)],
     episodes |-> [ledger.episodes EXCEPT ![s] = Stored(@, n, e)]]

PersistMemoryOnly(s, n, e, makeCurrent) ==
    /\ ledger' = IF n > Len(episodes[s]) \/ e.terminal THEN Restored(s, n, e) ELSE ledger
    /\ episodes' = [episodes EXCEPT ![s] = Stored(@, n, e)]
    /\ current' = IF makeCurrent THEN [current EXCEPT ![s] = n] ELSE current
Persist(s, n, e, makeCurrent) ==
    /\ ledger' = Restored(s, n, e)
    /\ episodes' = [episodes EXCEPT ![s] = Stored(@, n, e)]
    /\ current' = IF makeCurrent THEN [current EXCEPT ![s] = n] ELSE current

-----------------------------------------------------------------------------
(* assign, observe and mark_terminal.                                         *)

NextEpoch(s) == current[s] + 1
Grant(s, x) ==
    /\ NextEpoch(s) <= MaxEpochs
    /\ Persist(s, NextEpoch(s), Episode(s, x), TRUE)
    /\ grants' = [grants EXCEPT ![s][NextEpoch(s)] = @ + 1]
    /\ shown' = [shown EXCEPT ![s] = Granted(s, x)]
    /\ cut' = [cut EXCEPT ![s] = Unavailable]
    /\ UNCHANGED crashes

\* The first candidate of a side, whatever its structure; a renewal, which
\* appends its evidence and then the new episode; a duplicate, which is
\* observed and refused.
AssignFirst(s, x) == current[s] = 0 /\ Grant(s, x)
AssignRenewed(s, x) == current[s] # 0 /\ Resets(s, State(s), x) /\ Grant(s, x)
Observe(s, x) ==
    /\ Persist(s, current[s], Observed(s, State(s), x), TRUE)
    /\ shown' = [shown EXCEPT ![s] = Show(s, x)]
    /\ cut' = [cut EXCEPT ![s] = Unavailable]
    /\ UNCHANGED <<grants, crashes>>
AssignDuplicate(s, x) == current[s] # 0 /\ ~Resets(s, State(s), x) /\ Observe(s, x)

\* A candidate or the tech analyst shows a structure to a side.
ObserveStructure(s, x) == current[s] # 0 /\ Observe(s, x)

\* An attempt of any episode ends, also of one that is not current any more.
MarkTerminal(s, n) ==
    /\ n \in DOMAIN episodes[s] /\ ~episodes[s][n].terminal
    /\ Persist(s, n, [episodes[s][n] EXCEPT !.terminal = TRUE], n = current[s])
    /\ UNCHANGED <<grants, shown, cut, crashes>>

-----------------------------------------------------------------------------
(* Crashes and failing appends.                                               *)

\* The evidence of a renewal is in the ledger, the new episode is not: the
\* process died or the second append raised.
Evidence(s, x) == [State(s) EXCEPT !.newest = Later(@, x.bar)]
AssignCut(s, x) ==
    /\ crashes < MaxCrashes /\ crashes' = crashes + 1
    /\ current[s] # 0 /\ Resets(s, State(s), x)
    /\ Persist(s, current[s], Evidence(s, x), TRUE)
    /\ shown' = [shown EXCEPT ![s].newest = Later(@, x.bar)]
    /\ cut' = [cut EXCEPT ![s] = x]
    /\ UNCHANGED grants

Restart ==
    /\ crashes < MaxCrashes /\ crashes' = crashes + 1
    /\ current' = ledger.current /\ episodes' = ledger.episodes
    /\ UNCHANGED <<ledger, grants, shown, cut>>

Next ==
    \/ \E s \in Sides, x \in Structures :
         \/ AssignFirst(s, x) \/ AssignRenewed(s, x) \/ AssignDuplicate(s, x)
         \/ ObserveStructure(s, x) \/ AssignCut(s, x)
    \/ \E s \in Sides, n \in 1..MaxEpochs : MarkTerminal(s, n)
    \/ Restart

Spec == Init /\ [][Next]_vars

-----------------------------------------------------------------------------
(* Properties.                                                                *)

EpisodeState ==
    [terminal : BOOLEAN, neutral : BOOLEAN, block : BOOLEAN, pending : BOOLEAN,
     token : Tokens \cup {NoToken}, bar : 0..MaxBar, newest : 0..MaxBar]

TypeOK ==
    /\ current \in [Sides -> 0..MaxEpochs]
    /\ episodes \in [Sides -> Seq(EpisodeState)]
    /\ \A s \in Sides : Len(episodes[s]) <= MaxEpochs /\ current[s] <= Len(episodes[s])
    /\ ledger \in [current : [Sides -> 0..MaxEpochs], episodes : [Sides -> Seq(EpisodeState)]]
    /\ grants \in [Sides -> [1..MaxEpochs -> Nat]]
    /\ shown \in [Sides -> [opposed : BOOLEAN, neutral : BOOLEAN, newest : 0..MaxBar]]
    /\ cut \in [Sides -> Structures]
    /\ crashes \in 0..MaxCrashes

\* One attempt per episode: no episode is answered eligible twice, whatever
\* restarts and late ends of older episodes come between.
GrantedOnce == \A s \in Sides : \A n \in 1..MaxEpochs : grants[s][n] <= 1

\* What the registry decides on is in the ledger: a restart restores it.
RegistryDurable == ledger = [current |-> current, episodes |-> episodes]

\* An episode gives way to a new one only on evidence: its attempt is over, or
\* it was shown an opposing block or a neutral bias since it was assigned.
RenewalEarned ==
    [][\A s \in Sides : current[s] # 0 /\ current'[s] # current[s] =>
          \/ State(s).terminal \/ shown[s].opposed \/ shown[s].neutral]_vars

\* No late structure renews an episode: the bar of a new one is at least as
\* new as every bar its side was ever shown.
NoStaleRenewal ==
    [][\A s \in Sides : current[s] # 0 /\ current'[s] # current[s] =>
          episodes'[s][current'[s]].bar >= shown[s].newest]_vars

\* A renewal that was cut between its two appends is not lost: the same
\* structure, shown again after the restart, still renews.
RenewalNotLost ==
    \A s \in Sides : cut[s] # Unavailable => Resets(s, State(s), cut[s])

\* A new episode is both earned and fresh, and one that is earned can be had
\* although the process dies on the way.
RenewalJustified == RenewalEarned /\ NoStaleRenewal /\ []RenewalNotLost
=============================================================================
