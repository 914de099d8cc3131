---------------------------------- MODULE Text ----------------------------------
(***************************************************************************)
(* Text as users write it in requests and in the configuration: a word and *)
(* whether spaces surround it.  Two texts are the same string only if both *)
(* agree; str::trim leaves the word.  The word "" is the empty string.     *)
(***************************************************************************)

Plain(word) == [word |-> word, padded |-> FALSE]
Padded(word) == [word |-> word, padded |-> TRUE]

\* A text is nothing else.
IsText(text) == text \in {Plain(text.word), Padded(text.word)}

\* str::trim.
Trim(text) == text.word

\* text.trim().is_empty().
IsBlank(text) == Trim(text) = ""

================================================================================
