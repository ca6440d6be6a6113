-------------------------- MODULE UniverseTargets --------------------------
(***************************************************************************)
(* universe_resolver: what a TOP N strategy aims at on a day, of the day's *)
(* ranking of its market (codes from rank 1 on).                           *)
(***************************************************************************)
LOCAL INSTANCE Integers
LOCAL INSTANCE SequencesExt

CONSTANTS RankStart, RankEnd   \* params

First == IF RankStart < 1 THEN 1 ELSE RankStart
Latest == IF RankEnd < First THEN First ELSE RankEnd

Upto(seq, n) == SubSeq(seq, 1, IF n <= Len(seq) THEN n ELSE Len(seq))

\* A basket of one's own, in the order of the ranking, or the ranks asked for, where those
\* after them take the places of what is excluded.
Resolve(custom, excluded, ranking) ==
    LET from == SubSeq(ranking, First, Len(ranking))
    IN  IF custom # {} THEN SelectSeq(ranking, LAMBDA code : code \in custom \ excluded)
        ELSE Upto(SelectSeq(from, LAMBDA code : code \notin excluded), Latest - First + 1)

=============================================================================
