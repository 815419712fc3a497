-------------------------- MODULE MCLongTermMemory --------------------------
EXTENDS LongTermMemory, TLC

CONSTANTS c1, c2

\* Two contents are enough to tell a memory again and to contradict it; the one
\* that scores lower can be the newer.
MCScores == (c1 :> {1}) @@ (c2 :> {0})

MCSymmetry == Permutations(Requests) \cup Permutations(Sessions) \cup Permutations(Keys)

=============================================================================
