------------------------------ MODULE MCL2History ------------------------------
(***************************************************************************)
(* L2Bank with two history variables: the blocks that have been cached so   *)
(* far, and how many blocks each set has given up.                          *)
(***************************************************************************)
EXTENDS L2Bank

VARIABLES everCached, evictions

Cached == {m_cache[s][w] : s \in Sets, w \in Ways} \ {NULL}

Leaving(s) == {w \in Ways : m_cache[s][w] # NULL /\ m_cache'[s][w] = NULL}

historyVars == <<allVars, everCached, evictions>>

HistoryInit == BankInit /\ everCached = {} /\ evictions = [s \in Sets |-> 0]

HistoryNext ==
    /\ BankNext
    /\ everCached' = everCached \union Cached'
    /\ evictions' = [s \in Sets |-> evictions[s] + Cardinality(Leaving(s))]

HistorySpec == HistoryInit /\ [][HistoryNext]_historyVars

(* "1 = T1 (new), 2 = T2 (frequent)" (arc_rp.hh:22): reset() files a block  *)
(* that was never cached before, and so cannot have left a ghost, in T1.    *)
NewBlockEntersT1 ==
    [][\A s \in Sets, w \in Ways :
          (m_cache'[s][w] # NULL /\ m_cache'[s][w] \notin everCached)
              => replData'[s][w].listId = 1]_historyVars

(* "Per-set ghost lists (recently evicted from T1 and T2)" (arc_rp.hh of the*)
(* gem5 tree, line 47): apart from the eviction a probe is about to make,   *)
(* a set has no more ghosts than it has evicted blocks.                     *)
GhostsAreEvictions ==
    \A s \in Sets : Len(ghostB1[s]) + Len(ghostB2[s]) <= evictions[s] + 1
================================================================================
