------------------------------- MODULE Walks -------------------------------
(***************************************************************************)
(* Loops that go on while they find something new, over what is known.     *)
(***************************************************************************)
EXTENDS Naturals, FiniteSets

\* What a start has become after as many rounds as there are things known, when
\* nothing can be new any more.
Rounds(start, Round, known) ==
  LET visited[k \in 0 .. Cardinality(known)] == IF k = 0 THEN start ELSE Round[visited[k - 1]]
  IN  visited[Cardinality(known)]

\* A queue that pulls in what is adjacent to what it has visited.
Reach(from, Adjacent, known) ==
  Rounds(from, [S \in SUBSET known |-> S \cup UNION {Adjacent[b] : b \in S}], known)
=============================================================================
