-------------------------------- MODULE Lists --------------------------------
(* What the stores of the process do to their lists in order of use.          *)
EXTENDS Naturals, Sequences, SequencesExt

\* The elements of s that are in S, in the order they have in s.
Kept(s, S) ==
  LET f[n \in 0 .. Len(s)] ==
        IF n = 0 THEN <<>>
        ELSE IF s[n] \in S THEN Append(f[n - 1], s[n])
        ELSE f[n - 1]
  IN f[Len(s)]

\* s without the elements that are in S.
Dropped(s, S) == Kept(s, ToSet(s) \ S)

\* What becomes of s when each of ts in turn takes its step: Step[t] is a
\* function of what it finds.
After(Step, s, ts) == FoldLeft(LAMBDA r, t : Step[t][r], s, ts)
==============================================================================
