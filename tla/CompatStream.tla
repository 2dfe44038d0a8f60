---------------------------- MODULE CompatStream ----------------------------
(***************************************************************************)
(* One streamed request to the OpenAI-compatible API                       *)
(* (src/openai/compat.ts) and what the Anthropic-compatible API            *)
(* (src/anthropic/compat.ts) makes of its chunks.  Without tools the       *)
(* answer of the model is passed on (streamChatCompletionChunks,           *)
(* streamResponsesChunks); with tools there are up to three rounds         *)
(* (streamLiveToolRounds), which are those of ToolRounds.                  *)
(*                                                                         *)
(* The model's stream is external: any events, then an end or an error.  A *)
(* token is shown when the text so far has a content field that grew, as   *)
(* in an answer in JSON, and hidden when not, as in plain text.  Chat and  *)
(* Responses differ in the names of their chunks, and in that Responses    *)
(* has no chunk for a piece of a call without arguments; the Anthropic     *)
(* layer reads those of chat.  The reader may leave at any chunk.          *)
(***************************************************************************)
EXTENDS Naturals, Sequences, FiniteSets, SequencesExt

CONSTANTS
  Offered, Executable, Skills, ExecutesCalls,   \* as in ToolRounds
  MaxHeard,        \* bound: events of the model in a request
  CallIndices      \* indices of the tool calls in an answer

ASSUME StreamAssumption ==
  /\ Executable \subseteq Offered /\ Skills \cap Offered = {} /\ ExecutesCalls \in BOOLEAN
  /\ MaxHeard \in Nat /\ CallIndices \subseteq Nat /\ 0 \in CallIndices

VARIABLES
  chat,            \* the protocol: chat completions, or Responses
  direct,          \* no tools: the answer is passed on
  round, stage, intent, traces, conversation, reasoned, finalText, finishReason, saved,
  out,             \* chunks given to the reader
  message,         \* what the Anthropic layer has made of them
  heard,           \* events of the model so far
  rawOutput,       \* there were tokens in this round
  shown,           \* content given to the reader in this round
  sawToolDelta,
  silent,          \* rounds with a piece of a call that was not passed on
  readerLeft

roundPart  == <<round, stage, intent, traces, conversation, reasoned, finalText, finishReason, saved>>
outcome2   == <<finalText, finishReason, saved>>
eventPart  == <<heard, rawOutput, shown, sawToolDelta, silent>>
givenPart  == <<out, message>>
compatVars == <<chat, direct, roundPart, givenPart, eventPart, readerLeft>>

Rounds  == 3
Texts   == {"", "text"}
Intents == [kind : {"answer"}, text : Texts] \cup [kind : {"call"}, of : Offered \cup Skills]

(* A call is named by its round and its place in the answer.               *)
Chunks ==
  [kind : {"preamble", "reasoning", "content", "output"}]
  \cup [kind : {"call"}, round : 1..Rounds, index : CallIndices]
  \cup [kind : {"finish"}, reason : {"stop", "tool_calls"}]

CompatTypeOK ==
  /\ chat \in BOOLEAN /\ direct \in BOOLEAN /\ round \in 0..Rounds
  /\ stage \in {"next", "asking", "decided", "announced", "executing", "done", "failed"}
  /\ intent \in Intents
  /\ traces \in Seq([of : Offered \cup Skills, was : {"begun", "done", "failed", "handed out"}])
  /\ conversation \in Seq({"answer", "call", "result"})
  /\ reasoned \in BOOLEAN /\ saved \in BOOLEAN /\ rawOutput \in BOOLEAN
  /\ sawToolDelta \in BOOLEAN /\ readerLeft \in BOOLEAN
  /\ finalText \in Texts \cup {"reasoning"} /\ finishReason \in {"stop", "tool_calls"}
  /\ out \in Seq(Chunks)
  /\ message.gathered \in [CallIndices -> SUBSET Chunks]
  /\ message.blocks \in Seq([kind : {"reasoning", "content", "tool_use"}, calls : SUBSET Chunks])
  /\ heard \in 0..MaxHeard /\ shown \in 0..MaxHeard /\ silent \subseteq 1..Rounds

NothingGathered == [i \in CallIndices |-> {}]

CompatInit ==
  /\ chat \in BOOLEAN /\ direct \in BOOLEAN
  /\ round = 0 /\ stage = "next" /\ intent = [kind |-> "answer", text |-> ""]
  /\ traces = <<>> /\ conversation = <<>>
  /\ reasoned = FALSE /\ finalText = "" /\ finishReason = "stop" /\ saved = FALSE
  /\ out = <<>> /\ message = [gathered |-> NothingGathered, blocks |-> <<>>]
  /\ heard = 0 /\ rawOutput = FALSE /\ shown = 0
  /\ sawToolDelta = FALSE /\ silent = {} /\ readerLeft = FALSE

-----------------------------------------------------------------------------
(* The Anthropic layer (streamAnthropicMessagesJsonLines): pieces of calls *)
(* are gathered by their index and become tool_use blocks before the first *)
(* text or thinking block that follows, or at the end.  Blocks are         *)
(* numbered as they start; no block is ever stopped.                       *)

(* What if the gathered calls stayed?                                      *)
StillGathered(m) == m.gathered

AfterFlush(m) == NothingGathered

(* In the order of their indices.                                          *)
ToolBlocks(m) ==
  LET used   == {i \in CallIndices : m.gathered[i] # {}}
      places == 1..Cardinality(used)
      sorted == CHOOSE s \in [places -> used] : \A j, k \in places : j < k => s[j] < s[k]
  IN  [k \in places |-> [kind |-> "tool_use", calls |-> m.gathered[sorted[k]]]]

Flush(m) == [gathered |-> AfterFlush(m), blocks |-> m.blocks \o ToolBlocks(m)]

Gather(m, chunk) ==
  [gathered |-> [m.gathered EXCEPT ![chunk.index] = @ \cup {chunk}], blocks |-> m.blocks]

BlockIn(m, kind) == \E k \in DOMAIN m.blocks : m.blocks[k].kind = kind

Opened(m, kind) ==
  IF BlockIn(m, kind) THEN m
  ELSE [gathered |-> AfterFlush(m),
        blocks   |-> Append(Flush(m).blocks, [kind |-> kind, calls |-> {}])]

AfterChunk(m, chunk) ==
  CASE chunk.kind = "call"                     -> Gather(m, chunk)
    [] chunk.kind \in {"reasoning", "content"} -> Opened(m, chunk.kind)
    [] chunk.kind = "finish"                   -> Flush(m)
    [] OTHER                                   -> m

(* No step gives more than two chunks beside the preamble.                 *)
AfterChunks(m, chunks) ==
  CASE Len(chunks) = 0 -> m
    [] Len(chunks) = 1 -> AfterChunk(m, chunks[1])
    [] OTHER           -> AfterChunk(AfterChunk(m, chunks[1]), chunks[2])

-----------------------------------------------------------------------------
(* What if the flag of the preamble were the round's?                      *)
PreambleOfRound == IF ~rawOutput THEN <<[kind |-> "preamble"]>> ELSE <<>>

(* emitPreamble.                                                           *)
Preamble == IF out = <<>> THEN <<[kind |-> "preamble"]>> ELSE <<>>

Yields(chunks) ==
  /\ out' = out \o Preamble \o chunks
  /\ message' = IF chat THEN AfterChunks(message, chunks) ELSE message

(* The chunks of Responses have no index.                                  *)
Call(index) == [kind |-> "call", round |-> round, index |-> IF chat THEN index ELSE 0]

-----------------------------------------------------------------------------
(* What if sawToolDelta were the request's and not the round's?            *)
SawForAll == sawToolDelta

SawInNewRound == FALSE

(* The round begins and the model is asked.                                *)
RoundOpens ==
  /\ stage = "next" /\ round < (IF direct THEN 1 ELSE Rounds)
  /\ round' = round + 1
  /\ stage' = "asking"
  /\ rawOutput' = FALSE /\ shown' = 0 /\ sawToolDelta' = SawInNewRound
  /\ UNCHANGED <<chat, direct, intent, traces, conversation, reasoned, outcome2, givenPart, heard, silent,
                 readerLeft>>

Hears ==
  /\ stage = "asking" /\ heard < MaxHeard
  /\ heard' = heard + 1
  /\ UNCHANGED <<chat, direct, roundPart, readerLeft>>

HearsStarted == Hears /\ Yields(<<>>) /\ UNCHANGED <<rawOutput, shown, sawToolDelta, silent>>

HearsToken(channel) ==
  /\ Hears
  /\ rawOutput' = TRUE
  /\ shown' = IF channel = "content" THEN shown + 1 ELSE shown
  /\ Yields(IF channel = "hidden" THEN <<>> ELSE <<[kind |-> channel]>>)
  /\ UNCHANGED <<sawToolDelta, silent>>

(* A piece of a tool call, where tools were offered.  It counts as told    *)
(* although the Responses API passes on only those with arguments.         *)
HearsToolDelta(index, hasArguments) ==
  /\ Hears /\ ~direct
  /\ sawToolDelta' = TRUE
  /\ IF chat \/ hasArguments
     THEN Yields(<<Call(index)>>) /\ UNCHANGED silent
     ELSE Yields(<<>>) /\ silent' = silent \cup {round}
  /\ UNCHANGED <<rawOutput, shown>>

(* The context, the prompt or the model throws, and so does the stream.    *)
StreamThrows ==
  /\ stage = "asking"
  /\ stage' = "failed"
  /\ UNCHANGED <<chat, direct, round, intent, traces, conversation, reasoned, outcome2, givenPart, eventPart,
                 readerLeft>>

-----------------------------------------------------------------------------
(* The response is stored, then the last chunk is given out.               *)
Finishes(text, reason, thought, chunks) ==
  /\ finishReason' = reason
  /\ finalText' = IF text = "" /\ reason = "stop" /\ thought THEN "reasoning" ELSE text
  /\ saved' = TRUE
  /\ stage' = "done"
  /\ Yields(Append(chunks, [kind |-> "finish", reason |-> reason]))

(* What if what was not shown of the text were left out?                   *)
NothingTrails(more) == <<>>

(* The rest of the text, which the reader has not got.                     *)
Trailing(more) == IF more THEN <<[kind |-> "content"]>> ELSE <<>>

(* The end of a stream without tools: the text has more than was shown, or *)
(* not.  A call that the model asks for anyway is text.                    *)
DirectEnds(i, more) ==
  /\ direct /\ stage = "asking"
  /\ i.kind = "answer" /\ (shown > 0 => i.text # "") /\ (shown = 0 => (more <=> i.text # ""))
  /\ intent' = i
  /\ conversation' = Append(conversation, "answer")
  /\ Finishes(i.text, "stop", FALSE, Trailing(more))
  /\ UNCHANGED <<chat, direct, round, traces, reasoned, eventPart, readerLeft>>

(* The end of the model's stream in a round with tools.                    *)
RoundEnds(i, reasons) ==
  /\ ~direct /\ stage = "asking"
  /\ intent' = i
  /\ reasoned' = (reasoned \/ reasons)
  /\ stage' = "decided"
  /\ Yields(<<>>)
  /\ UNCHANGED <<chat, direct, round, traces, conversation, outcome2, eventPart, readerLeft>>

Stops ==
  /\ stage = "decided" /\ intent.kind = "answer"
  /\ conversation' = Append(conversation, "answer")
  /\ Finishes(intent.text, "stop", reasoned, <<>>)
  /\ UNCHANGED <<chat, direct, round, intent, traces, reasoned, eventPart, readerLeft>>

(* runTool: the call is traced and told, unless the model's own chunks     *)
(* told it.                                                                *)
Announces ==
  /\ stage = "decided" /\ intent.kind = "call"
  /\ traces' = Append(traces, [of |-> intent.of, was |-> "begun"])
  /\ stage' = "announced"
  /\ Yields(IF sawToolDelta THEN <<>> ELSE <<Call(0)>>)
  /\ UNCHANGED <<chat, direct, round, intent, conversation, reasoned, outcome2, eventPart, readerLeft>>

(* What if only the capability were asked?                                 *)
OnlyCapability(name) == ExecutesCalls

CanRun(name) == ExecutesCalls /\ name \in Executable \cup Skills

TraceBecomes(what) == traces' = [traces EXCEPT ![Len(traces)] = [of |-> @.of, was |-> what]]

Executes ==
  /\ stage = "announced" /\ CanRun(intent.of)
  /\ stage' = "executing"
  /\ UNCHANGED <<chat, direct, round, intent, traces, conversation, reasoned, outcome2, givenPart, eventPart,
                 readerLeft>>

(* The client is to execute the call: the gate is "stop".                  *)
HandsOut ==
  /\ stage = "announced" /\ ~CanRun(intent.of)
  /\ TraceBecomes("handed out")
  /\ conversation' = Append(conversation, "call")
  /\ Finishes("", "tool_calls", reasoned, <<>>)
  /\ UNCHANGED <<chat, direct, round, intent, reasoned, eventPart, readerLeft>>

ToolReturns ==
  /\ stage = "executing"
  /\ TraceBecomes("done")
  /\ conversation' = conversation \o <<"call", "result">>
  /\ Yields(<<[kind |-> "output"]>>)
  /\ stage' = "next"
  /\ UNCHANGED <<chat, direct, round, intent, reasoned, outcome2, eventPart, readerLeft>>

(* What if a failed tool were followed by another round?                   *)
TriesAnother ==
  /\ stage' = "next"
  /\ UNCHANGED <<outcome2, givenPart>>

GivesUp == Finishes("", "tool_calls", reasoned, <<>>)

ToolBreaks ==
  /\ stage = "executing"
  /\ TraceBecomes("failed")
  /\ GivesUp
  /\ UNCHANGED <<chat, direct, round, intent, conversation, reasoned, eventPart, readerLeft>>

RoundsOver ==
  /\ stage = "next" /\ ~direct /\ round = Rounds
  /\ Finishes("", "stop", reasoned, <<>>)
  /\ UNCHANGED <<chat, direct, round, intent, traces, conversation, reasoned, eventPart, readerLeft>>

(* The reader is not there for the next chunk: the generator is closed     *)
(* where it yielded.                                                       *)
ReaderLeaves ==
  /\ out # <<>> /\ stage \in {"next", "asking", "announced"}
  /\ readerLeft' = TRUE
  /\ UNCHANGED <<chat, direct, roundPart, givenPart, eventPart>>

StreamGoes ==
  /\ ~readerLeft
  /\ \/ RoundOpens \/ HearsStarted \/ StreamThrows
     \/ \E c \in {"content", "reasoning", "hidden"} : HearsToken(c)
     \/ \E i \in CallIndices, b \in BOOLEAN : HearsToolDelta(i, b)
     \/ \E i \in Intents, b \in BOOLEAN : DirectEnds(i, b) \/ RoundEnds(i, b)
     \/ Stops \/ Announces \/ Executes \/ HandsOut \/ ToolReturns \/ ToolBreaks \/ RoundsOver

CompatNext == StreamGoes \/ (~readerLeft /\ ReaderLeaves)

CompatSpec == CompatInit /\ [][CompatNext]_compatVars


-----------------------------------------------------------------------------
Positions(kind) == {k \in DOMAIN out : out[k].kind = kind}

(* The reader sees one preamble, first, and one end, last, which comes if  *)
(* and only if the run is done; an error has no end.                       *)
BeginsAndEndsOnce ==
  /\ out # <<>> => Positions("preamble") = {1}
  /\ Positions("finish") = IF stage = "done" THEN {Len(out)} ELSE {}

(* The output of a call comes after the call (the nth output is that of    *)
(* the nth round), always for a reader of chat; for one of Responses,      *)
(* except in rounds where the model gave a piece without arguments: that   *)
(* one is not told, and the call not announced.                            *)
ToldBeforeOutput ==
  /\ chat => silent = {}
  /\ \A k \in Positions("output") :
       LET nth == Cardinality({o \in Positions("output") : o <= k})
       IN  nth \in silent \/ \E j \in Positions("call") : j < k /\ out[j].round = nth

(* Without tools, the reader gets the text that is stored.                 *)
TextIsGiven == direct /\ stage = "done" /\ finalText = "text" => Positions("content") # {}

(* The chunks that open a text or a thinking block.                        *)
Openers == {k \in DOMAIN out : /\ out[k].kind \in {"reasoning", "content"}
                               /\ \A n \in 1..(k - 1) : out[n].kind # out[k].kind}

(* Each call that was told is gathered or in a tool_use block that comes   *)
(* before the blocks opened after it, and in a block once the message      *)
(* ends; in one block only, unless another was opened between its pieces.  *)
(* There is one text and one thinking block at most.  It is the chunks of  *)
(* chat that become blocks.                                                *)
CallsBecomeBlocks ==
  LET m == message
      In(k) == {b \in DOMAIN m.blocks : out[k] \in m.blocks[b].calls}
  IN
    /\ chat => \A k \in Positions("call") :
         /\ out[k] \in m.gathered[out[k].index] \/ In(k) # {}
         /\ stage = "done" => In(k) # {} /\ m.gathered = NothingGathered
         /\ \A t \in Openers : t > k =>
              \E b, c \in DOMAIN m.blocks : c \in In(k) /\ m.blocks[b].kind = out[t].kind /\ c < b
         /\ \/ Cardinality(In(k)) <= 1
            \/ \E t \in Openers, l \in Positions("call") :
                 out[l] = out[k] /\ ((k < t /\ t < l) \/ (l < t /\ t < k))
    /\ \A a, b \in DOMAIN m.blocks :
         m.blocks[a].kind = m.blocks[b].kind /\ a # b => m.blocks[a].kind = "tool_use"

(* What the readers of the APIs get is well-formed, and complete but for   *)
(* the calls that Responses does not tell.                                 *)
CompatSound ==
  CompatTypeOK /\ BeginsAndEndsOnce /\ ToldBeforeOutput /\ TextIsGiven /\ CallsBecomeBlocks

Plain == INSTANCE ToolRounds WITH
  stage  <- IF stage = "announced" THEN "decided" ELSE stage,
  traces <- IF stage = "announced" THEN Front(traces) ELSE traces

(* A request with tools, streamed, goes through the rounds of one that is  *)
(* not: the same calls are executed, and what is stored is the same.       *)
ImplementsRounds == Plain!RoundsInit /\ [][direct \/ Plain!RoundsNext]_(Plain!roundVars)

(* The model's stream and the tools end; the reader goes on or leaves.     *)
CompatFairness == WF_compatVars(StreamGoes)

(* What is owed: the end of the stream, to a reader who stays.             *)
StreamOpenEnded == stage \notin {"done", "failed"} /\ ~readerLeft
=============================================================================
