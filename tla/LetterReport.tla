---------------------------- MODULE LetterReport ----------------------------
(***************************************************************************)
(* What the MapReduce program of as2 promises: it reports how often each   *)
(* letter is in the text, letter by letter in alphabetical order, and      *)
(* never a number that is not yet final.                                   *)
(***************************************************************************)
EXTENDS Naturals, Sequences, FiniteSets

CONSTANTS
  Texts,     \* the texts, as sequences of lines of characters
  Letters    \* letters there are; they are the characters 0 .. Letters - 1

VARIABLES
  text,      \* the text of this run
  printed    \* the numbers printed, that of letter n at position n + 1

vars == <<text, printed>>

Occurrences(letter) ==
  Cardinality(UNION {{k} \X {j \in DOMAIN text[k] : text[k][j] = letter} : k \in DOMAIN text})

Init == text \in Texts /\ printed = <<>>

PrintLetter ==
  /\ Len(printed) < Letters
  /\ printed' = Append(printed, Occurrences(Len(printed)))
  /\ UNCHANGED text

Spec == Init /\ [][PrintLetter]_vars

=============================================================================
