---------------------------- MODULE ChangedLines ----------------------------
(***************************************************************************)
(* reconstructChangedLines: which lines of a file a commit changed, found  *)
(* with the table of longest common subsequences. A text is a sequence of  *)
(* lines.                                                                  *)
(***************************************************************************)
EXTENDS Integers, Sequences, FiniteSets

CONSTANTS
  MaxDiffLines, \* lines a text may have
  Ineligible,   \* lines that are no code: blank, or a comment
  ContextLines, \* lines shown around a change
  MaxExcerpt    \* lines an excerpt may have

Larger(m, n) == IF m > n THEN m ELSE n
Smallest(numbers) == CHOOSE n \in numbers : \A m \in numbers : n <= m
Largest(numbers) == CHOOSE n \in numbers : \A m \in numbers : m <= n

\* Places in both texts, a place after the last line included.
Places(parent, child) == (1..(Len(parent) + 1)) \X (1..(Len(child) + 1))

\* How many lines the texts from two places on have in common.
Lengths(parent, child) ==
  LET lengths[at \in Places(parent, child)] ==
        LET i == at[1]
            j == at[2]
        IN IF i > Len(parent) \/ j > Len(child) THEN 0
           ELSE IF parent[i] = child[j] THEN 1 + lengths[<<i + 1, j + 1>>]
           ELSE Larger(lengths[<<i + 1, j>>], lengths[<<i, j + 1>>])
  IN lengths

ChangedChildIndexes(parent, child) ==
  LET lengths == Lengths(parent, child)
      changed[at \in Places(parent, child)] ==
        LET i == at[1]
            j == at[2]
        IN IF j > Len(child) THEN {}
           ELSE IF i > Len(parent) THEN {j} \cup changed[<<i, j + 1>>]
           ELSE IF parent[i] = child[j] THEN changed[<<i + 1, j + 1>>]
           ELSE IF lengths[<<i + 1, j>>] >= lengths[<<i, j + 1>>] THEN changed[<<i + 1, j>>]
           ELSE {j} \cup changed[<<i, j + 1>>]
  IN changed[<<1, 1>>]

EligibleIndexes(parent, child) ==
  {j \in ChangedChildIndexes(parent, child) : child[j] \notin Ineligible}

Excerpt(parent, child) ==
  LET eligible == EligibleIndexes(parent, child)
  IN Larger(1, Smallest(eligible) - ContextLines)
       .. -Larger(-Len(child), -(Largest(eligible) + ContextLines))

\* The texts that reconstructChangedLines answers for.
Reconstructs(parent, child) ==
  /\ parent # child
  /\ Len(parent) <= MaxDiffLines /\ Len(child) <= MaxDiffLines
  /\ EligibleIndexes(parent, child) # {}
  /\ Cardinality(Excerpt(parent, child)) <= MaxExcerpt
-----------------------------------------------------------------------------
(* What is meant: the lines that are kept are lines of the parent, in      *)
(* their order, and no more could be kept.                                 *)

OccursIn(kept, parent, child) ==
  \E place \in [kept -> DOMAIN parent] :
    /\ \A j \in kept : parent[place[j]] = child[j]
    /\ \A j, k \in kept : j < k => place[j] < place[k]

ChangesLeast(parent, child) ==
  LET changed == ChangedChildIndexes(parent, child)
  IN /\ OccursIn(DOMAIN child \ changed, parent, child)
     /\ \A kept \in SUBSET DOMAIN child :
          OccursIn(kept, parent, child) =>
            Cardinality(kept) <= Len(child) - Cardinality(changed)
=============================================================================
