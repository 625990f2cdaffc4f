------------------------------ MODULE Truncate ------------------------------
(***************************************************************************)
(* truncate, in crates/tds-agent/src/lib.rs:289-298 and in the same words  *)
(* in crates/tds-host/src/llm.rs:181-190: cut a text to a number of bytes  *)
(* without cutting through a character.  Slicing off a boundary panics; in *)
(* the agent that would be the end of the run, and of its record.          *)
(***************************************************************************)
EXTENDS Naturals

CONSTANTS
  Texts,    \* texts that are truncated
  CutLimits    \* the lengths they are truncated to: 512 in both places

\* A text by its length, and the offsets at which a character starts or the
\* text ends.  A character has four bytes at most.
Text == [len : Nat, boundaries : SUBSET Nat]
Utf8(text) ==
  /\ text.boundaries \subseteq 0..text.len
  /\ {0, text.len} \subseteq text.boundaries
  /\ \A i \in 0..text.len : \E b \in text.boundaries : b <= i /\ i <= b + 3

ASSUME TextAssumption ==
  /\ Texts \subseteq Text /\ \A text \in Texts : Utf8(text)
  /\ CutLimits \subseteq Nat

VARIABLES
  s, max,   \* the arguments
  end,      \* where to cut
  stage        \* "start", "back", then "whole" or "cut"

truncateVars == <<s, max, end, stage>>

is_char_boundary(i) == i \in s.boundaries

TruncateInit ==
  /\ s \in Texts /\ max \in CutLimits
  /\ end = 0 /\ stage = "start"

ReturnWhole ==
  /\ stage = "start" /\ s.len <= max
  /\ stage' = "whole"
  /\ UNCHANGED <<s, max, end>>

TooLong ==
  /\ stage = "start" /\ s.len > max
  /\ end' = max /\ stage' = "back"
  /\ UNCHANGED <<s, max>>

\* Mutant: a step of two bytes.
StepBackTwice ==
  /\ stage = "back" /\ end > 0 /\ ~is_char_boundary(end)
  /\ end' = IF end = 1 THEN 0 ELSE end - 2
  /\ UNCHANGED <<s, max, stage>>

StepBack ==
  /\ stage = "back" /\ end > 0 /\ ~is_char_boundary(end)
  /\ end' = end - 1
  /\ UNCHANGED <<s, max, stage>>

Cut ==
  /\ stage = "back" /\ (end = 0 \/ is_char_boundary(end))
  /\ stage' = "cut"
  /\ UNCHANGED <<s, max, end>>

TruncateNext == ReturnWhole \/ TooLong \/ StepBack \/ Cut

TruncateSpec == TruncateInit /\ [][TruncateNext]_truncateVars

-----------------------------------------------------------------------------
(***************************************************************************)
(* The text is sliced at a boundary, so that truncate never panics, and    *)
(* what is kept is as much as fits: no character that ends within the      *)
(* limit is lost, and so never more than three bytes of it.                *)
(***************************************************************************)
KeepsWhatFits ==
  stage = "cut" =>
    /\ end \in s.boundaries
    /\ end <= max /\ max <= end + 3
    /\ \A b \in s.boundaries : b <= max => b <= end

=============================================================================
