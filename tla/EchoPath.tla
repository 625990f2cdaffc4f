------------------------------ MODULE EchoPath ------------------------------
(***************************************************************************)
(* The way of the model's content blocks: from the API through the host    *)
(* into the guest, and in every later request of the run back again        *)
(* (crates/tds-host/src/llm.rs 69-102, 192-221, crates/tds-agent/src/      *)
(* lib.rs 199-249, the types in crates/tds-abi/src/lib.rs 265-386).        *)
(*                                                                         *)
(* Every hop decodes JSON to Content and encodes it again.  Content is an  *)
(* untagged choice: a block that fits KnownContent becomes the fields of   *)
(* its type, anything else is kept as the JSON it is.                      *)
(***************************************************************************)
EXTENDS Naturals, Sequences

CONSTANTS
  Blocks,     \* the JSON blocks the API may put into an answer
  MaxBlocks,  \* bound: blocks in one answer
  MaxSteps    \* turns of the run

KnownTypes == {"text", "thinking", "redacted_thinking", "tool_use", "tool_result"}

(***************************************************************************)
(* A JSON block.  `fits`: its fields have the names and types KnownContent *)
(* wants; `body` stands for those it must have.  `signature` is that of a  *)
(* thinking block, which may be absent or null; `extra` is every field     *)
(* KnownContent does not name.                                             *)
(***************************************************************************)
Block == [type : KnownTypes \cup {"other"}, fits : BOOLEAN, body : STRING,
          signature : STRING, extra : STRING]

ASSUME EchoAssumption ==
  /\ Blocks \subseteq Block
  /\ MaxBlocks \in Nat /\ MaxSteps \in Nat \ {0}

VARIABLES
  hop,        \* where the turn is: "guest", "host", "api", "answer", "done"
  wire,       \* the JSON in transit: a conversation, or one answer's blocks
  messages,   \* the guest's conversation, decoded
  answers,    \* history: the JSON of each answer, as the API gave it
  sent        \* history: the JSON of each request, as the API got it

echoVars == <<hop, wire, messages, answers, sent>>

\* Mutant: without the Raw arm, what is unknown is taken for text.
DecodeTagged(json) ==
  [arm |-> "known", type |-> IF json.type \in KnownTypes THEN json.type ELSE "text",
   body |-> json.body,
   signature |-> IF json.signature = "null" THEN "absent" ELSE json.signature]

Decode(json) ==
  IF json.type \in KnownTypes /\ json.fits
  THEN [arm |-> "known", type |-> json.type, body |-> json.body,
        signature |-> IF json.signature = "null" THEN "absent" ELSE json.signature]
  ELSE [arm |-> "raw", json |-> json]

Encode(content) ==
  IF content.arm = "known"
  THEN [type |-> content.type, fits |-> TRUE, body |-> content.body,
        signature |-> content.signature, extra |-> "none"]
  ELSE content.json

DecodeAll(blocks) == [i \in DOMAIN blocks |-> Decode(blocks[i])]
EncodeAll(contents) == [i \in DOMAIN contents |-> Encode(contents[i])]

Results == [arm |-> "known", type |-> "tool_result", body |-> "results",
            signature |-> "absent"]
IsToolUse(content) == content.arm = "known" /\ content.type = "tool_use"

EchoInit ==
  /\ hop = "guest"
  /\ wire = <<>>
  /\ messages = <<<<Decode([type |-> "text", fits |-> TRUE, body |-> "task",
                            signature |-> "absent", extra |-> "none"])>>>>
  /\ answers = <<>> /\ sent = <<>>

-----------------------------------------------------------------------------
\* The guest encodes its whole conversation into each LlmRequest.
Ask ==
  /\ hop = "guest"
  /\ Len(sent) < MaxSteps
  /\ wire' = [i \in DOMAIN messages |-> EncodeAll(messages[i])]
  /\ hop' = "host"
  /\ UNCHANGED <<messages, answers, sent>>

\* The host decodes it, and body encodes it for the API.
Forward ==
  /\ hop = "host"
  /\ sent' = Append(sent, [i \in DOMAIN wire |-> EncodeAll(DecodeAll(wire[i]))])
  /\ hop' = "api"
  /\ UNCHANGED <<wire, messages, answers>>

\* The API's JSON is decoded to an ApiResponse, and encoded as LlmResponse.
Answer(blocks) ==
  /\ hop = "api"
  /\ answers' = Append(answers, blocks)
  /\ wire' = EncodeAll(DecodeAll(blocks))
  /\ hop' = "answer"
  /\ UNCHANGED <<messages, sent>>

\* The guest decodes the answer and appends it, with the results of its tool
\* uses; without any the run is over.
Read ==
  /\ hop = "answer"
  /\ LET content == DecodeAll(wire)
         uses == SelectSeq(content, IsToolUse)
     IN  IF uses = <<>>
         THEN hop' = "done" /\ messages' = Append(messages, content)
         ELSE hop' = "guest" /\ messages' = messages \o <<content, <<Results>>>>
  /\ UNCHANGED <<wire, answers, sent>>

EchoNext ==
  \/ Ask \/ Forward \/ Read
  \/ \E n \in 0..MaxBlocks : \E blocks \in [1..n -> Blocks] : Answer(blocks)

EchoSpec == EchoInit /\ [][EchoNext]_echoVars

-----------------------------------------------------------------------------
\* What becomes of the blocks of each answer in each later request: answer k
\* is message 2k of every request after the k-th.
Echoes(P(_, _)) ==
  \A n \in DOMAIN sent : \A k \in 1..(n - 1) :
    /\ Len(sent[n][2 * k]) = Len(answers[k])
    /\ \A i \in DOMAIN answers[k] : P(answers[k][i], sent[n][2 * k][i])

KeptIn(block, echo) ==
  /\ echo.type = block.type /\ echo.body = block.body
  /\ block.signature # "null" => echo.signature = block.signature
  /\ block.type = "other" \/ ~block.fits => echo = block

(***************************************************************************)
(* "Thinking blocks in particular must survive unedited or the next turn   *)
(* is rejected" (crates/tds-agent/src/lib.rs:230-231), and a block type    *)
(* unknown to the crate "is still carried through losslessly" (crates/     *)
(* tds-abi/src/lib.rs:276-277): in every later request each block of each  *)
(* answer is in its place, with its type, its contents and its signature,  *)
(* and whole if its type is unknown.                                       *)
(***************************************************************************)
EchoKeepsBlocks == Echoes(KeptIn)

(***************************************************************************)
(* Each request of a run repeats the one before it to the letter and goes  *)
(* on from there, although all of it is decoded and encoded every time.    *)
(***************************************************************************)
EchoIsStable ==
  \A n \in 2..Len(sent) :
    /\ Len(sent[n]) >= Len(sent[n - 1])
    /\ \A i \in DOMAIN sent[n - 1] : sent[n][i] = sent[n - 1][i]

Same(block, echo) == echo = block

(***************************************************************************)
(* "Mirrors the Messages API block shapes so blocks the host receives can  *)
(* be echoed back verbatim on the next turn" (crates/tds-abi/src/          *)
(* lib.rs:272-273), of every block.                                        *)
(***************************************************************************)
EchoedVerbatim == Echoes(Same)

\* What the model said comes back to it whole, and the same in every request.
EchoFaithful == EchoKeepsBlocks /\ EchoIsStable

=============================================================================
