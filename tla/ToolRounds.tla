----------------------------- MODULE ToolRounds -----------------------------
(***************************************************************************)
(* One request to the OpenAI-compatible API that is not streamed           *)
(* (executeCompatibilityRun of src/openai/compat.ts): up to three rounds,  *)
(* in each of which the model answers or asks for one tool or skill.       *)
(*                                                                         *)
(* The model and the tools are external.  A text is empty or not; of a     *)
(* conversation the entries that were added are kept, the results of tools *)
(* are those of the executed traces.                                       *)
(***************************************************************************)
EXTENDS Naturals, Sequences

CONSTANTS
  Offered,        \* effectiveTools
  Executable,     \* those of them that the tool registry has
  Skills,         \* of the skill runtime, if there is one
  ExecutesCalls   \* kgm.capabilities.executeToolCalls

VARIABLES
  round, stage,
  intent,        \* what the completion of the round amounts to
  traces,        \* the calls, and what became of each
  conversation,  \* entries added to it
  reasoned,      \* reasoningText is not empty
  finalText, finishReason,
  saved          \* the response store has the response

roundVars ==
  <<round, stage, intent, traces, conversation, reasoned, finalText, finishReason, saved>>

Rounds == 3

(* A final answer or a completion taken as one, empty or not; a call.      *)
Texts   == {"", "text"}
Callees == Offered \cup Skills
Intents == [kind : {"answer"}, text : Texts] \cup [kind : {"call"}, of : Callees]

Silence == [kind |-> "answer", text |-> ""]

CanExecute(name) == ExecutesCalls /\ name \in Executable \cup Skills

RoundsInit ==
  /\ round = 0 /\ stage = "next" /\ intent = Silence
  /\ traces = <<>> /\ conversation = <<>>
  /\ reasoned = FALSE /\ finalText = "" /\ finishReason = "stop" /\ saved = FALSE

RoundBegins ==
  /\ stage = "next" /\ round < Rounds
  /\ round' = round + 1
  /\ stage' = "asking"
  /\ UNCHANGED <<intent, traces, conversation, reasoned, finalText, finishReason, saved>>

(* The context, the prompt or the model fails, and the request with it.    *)
ModelFails ==
  /\ stage = "asking"
  /\ stage' = "failed"
  /\ UNCHANGED <<round, intent, traces, conversation, reasoned, finalText, finishReason, saved>>

ModelCompletes(i, reasons) ==
  /\ stage = "asking"
  /\ intent' = i
  /\ reasoned' = (reasoned \/ reasons)
  /\ stage' = "decided"
  /\ UNCHANGED <<round, traces, conversation, finalText, finishReason, saved>>

(* The end of the run: a text that is missing is replaced by the model's   *)
(* reasoning, and the response is stored.                                  *)
Closes(text, reason) ==
  /\ finishReason' = reason
  /\ finalText' = IF text = "" /\ reason = "stop" /\ reasoned THEN "reasoning" ELSE text
  /\ saved' = TRUE
  /\ stage' = "done"

AnswerIsFinal ==
  /\ stage = "decided" /\ intent.kind = "answer"
  /\ conversation' = Append(conversation, "answer")
  /\ Closes(intent.text, "stop")
  /\ UNCHANGED <<round, intent, traces, reasoned>>

CallIsExecuted ==
  /\ stage = "decided" /\ intent.kind = "call" /\ CanExecute(intent.of)
  /\ traces' = Append(traces, [of |-> intent.of, was |-> "begun"])
  /\ stage' = "executing"
  /\ UNCHANGED <<round, intent, conversation, reasoned, finalText, finishReason, saved>>

(* A call that the client is to execute.                                   *)
CallIsHandedOut ==
  /\ stage = "decided" /\ intent.kind = "call" /\ ~CanExecute(intent.of)
  /\ traces' = Append(traces, [of |-> intent.of, was |-> "handed out"])
  /\ conversation' = Append(conversation, "call")
  /\ Closes("", "tool_calls")
  /\ UNCHANGED <<round, intent, reasoned>>

LastTraceIs(what) == traces' = [traces EXCEPT ![Len(traces)] = [of |-> @.of, was |-> what]]

ToolSucceeds ==
  /\ stage = "executing"
  /\ LastTraceIs("done")
  /\ conversation' = conversation \o <<"call", "result">>
  /\ stage' = "next"
  /\ UNCHANGED <<round, intent, reasoned, finalText, finishReason, saved>>

ToolThrows ==
  /\ stage = "executing"
  /\ LastTraceIs("failed")
  /\ Closes("", "tool_calls")
  /\ UNCHANGED <<round, intent, conversation, reasoned>>

RoundsUsedUp ==
  /\ stage = "next" /\ round = Rounds
  /\ Closes("", "stop")
  /\ UNCHANGED <<round, intent, traces, conversation, reasoned>>

RoundsNext ==
  \/ RoundBegins \/ ModelFails
  \/ \E i \in Intents, reasons \in BOOLEAN : ModelCompletes(i, reasons)
  \/ AnswerIsFinal \/ CallIsExecuted \/ CallIsHandedOut
  \/ ToolSucceeds \/ ToolThrows \/ RoundsUsedUp

RoundsSpec == RoundsInit /\ [][RoundsNext]_roundVars
=============================================================================
