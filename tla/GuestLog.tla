------------------------------ MODULE GuestLog ------------------------------
(***************************************************************************)
(* The log host function (crates/tds-host/src/runtime.rs:310-335): a line  *)
(* is cut, decoded, traced by the host, and kept for the run's report      *)
(* while there is room.                                                    *)
(***************************************************************************)
EXTENDS Integers, SequencesExt

CONSTANTS
  MaxLines,       \* 512
  MaxLineBytes,   \* 8 * 1024
  Messages        \* what guests pass: sequences of Unit

(***************************************************************************)
(* Bytes the guest passes come in units: a character by its width in       *)
(* UTF-8, or a byte that belongs to none.  In a decoded text Invalid is    *)
(* the replacement character in its place, three bytes wide.               *)
(***************************************************************************)
Invalid == 0
Unit == {Invalid, 1, 2, 3, 4}

ASSUME LogAssumption ==
  /\ MaxLines \in Nat \ {0} /\ MaxLineBytes \in Nat \ {0}
  /\ Messages \subseteq Seq(Unit)

VARIABLES
  logs,     \* the lines of the run's report
  traced    \* the lines the host has traced

logVars == <<logs, traced>>

Sum(message, widthOfInvalid) ==
  FoldLeft(LAMBDA sum, unit : sum + (IF unit = Invalid THEN widthOfInvalid ELSE unit),
           0, message)
Bytes(message) == Sum(message, 1)
Size(text) == Sum(text, 3)

\* Mutant: no part of the message is cut off.
DecodedUncut(message) == message

(***************************************************************************)
(* from_utf8_lossy of the first MaxLineBytes: a character that is cut      *)
(* through becomes one replacement character.                              *)
(***************************************************************************)
Decoded(message) ==
  LET fits  == {k \in 0..Len(message) : Bytes(SubSeq(message, 1, k)) <= MaxLineBytes}
      whole == SubSeq(message, 1, Max(fits))
  IN  IF Bytes(whole) < MaxLineBytes /\ Len(whole) < Len(message)
      THEN Append(whole, Invalid) ELSE whole

\* LogLevel::from_i32; a level that is none of the four is Info.
Level(v) == CASE v = 0 -> "debug" [] v = 2 -> "warn" [] v = 3 -> "error" [] OTHER -> "info"

Emit(lines) ==
  /\ traced' = traced \o lines
  /\ logs' = SubSeq(logs \o lines, 1, Min({MaxLines, Len(logs \o lines)}))

LogInit == logs = <<>> /\ traced = <<>>

-----------------------------------------------------------------------------
\* Of a longer line only the part that is kept has to be in the guest's memory;
\* a line that is not there changes nothing.
Log(level, message) == Emit(<<[level |-> Level(level), text |-> Decoded(message)]>>)

\* bound: a guest's lines, up to two more than the report has room for.
LogNext ==
  /\ Len(traced) < MaxLines + 2
  /\ \E level \in -1..4, message \in Messages : Log(level, message)

LogSpec == LogInit /\ [][LogNext]_logVars

-----------------------------------------------------------------------------
(***************************************************************************)
(* The report has the lines the host traced, from the first on, until it   *)
(* is full (runtime.rs:327-333).                                           *)
(***************************************************************************)
LogIsBeginning ==
  IsPrefix(logs, traced) /\ (Len(logs) < MaxLines => logs = traced)

(***************************************************************************)
(* "A log line is bounded so a chatty guest cannot exhaust host memory"    *)
(* (runtime.rs:314).  Bytes that are no characters treble when decoded, so *)
(* what a run can make the host keep is three times what the limits say.   *)
(***************************************************************************)
LogBounded ==
  /\ Len(logs) <= MaxLines
  /\ \A i \in DOMAIN logs : Size(logs[i].text) <= 3 * MaxLineBytes

\* The report's log is the beginning of what was said, and bounded.
LogKeepsLimits == LogIsBeginning /\ LogBounded

=============================================================================
