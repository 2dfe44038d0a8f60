------------------------------ MODULE RustCore ------------------------------
(***************************************************************************)
(* The manager of an inference core in a process of its own                *)
(* (src/native/rustIntegration.ts): started, asked for completions and     *)
(* streams over its pipes, told to switch models, stopped, and free to die *)
(* at any time.                                                            *)
(*                                                                         *)
(* The core is external: it says that it listens, answers and dies when it *)
(* likes, and what it wrote may be read after its exit is heard, until its *)
(* pipes close.  A token is one of TokensOf each stream, the last marked.  *)
(* Nobody listens for "error", so a spawn that fails ends the gateway; it  *)
(* is left out.                                                            *)
(***************************************************************************)
EXTENDS Naturals, FiniteSets

CONSTANTS
  Cores,          \* processes it may spawn, each once
  Inferring,      \* calls of inference
  Streaming,      \* calls of streamInference
  Switching,      \* calls of switchModel
  Stopping,       \* calls of stop
  StreamTokens,   \* tokens of a stream
  NoCore

ASSUME CoreAssumption ==
  /\ IsFiniteSet(Cores) /\ NoCore \notin Cores
  /\ StreamTokens \in Nat \ {0}

VARIABLES
  process,       \* this.process
  isReady,
  core,          \* what each process is really doing
  pipes,         \* processes whose output may still be read
  startCall,     \* the promise of the start that spawned each
  startTimer,    \* starts whose timer is pending
  requestQueue,  \* keys of it
  request,       \* the promise of each inference
  stream,        \* where each stream stands
  made, buffered, \* tokens of each stream: read from the pipe, waiting in tokens
  sawLast,       \* streams whose done is TRUE
  switch, stopCall,
  asked,         \* the process each call was written to
  late,          \* history: processes whose ready line was read after their exit
  overheard      \* history: starts that met the ready line of another process

coreVars == <<process, isReady, core, pipes, startCall, startTimer, requestQueue, request,
              stream, made, buffered, sawLast, switch, stopCall, asked, late, overheard>>

processPart == <<process, isReady, core, pipes, startCall, startTimer, late, overheard>>
streamPart  == <<stream, made, buffered, sawLast>>
askPart     == <<requestQueue, request>>

Users   == Inferring \cup Streaming \cup Switching \cup Stopping
Promise == {"none", "open", "resolved", "rejected"}

CoreTypeOK ==
  /\ process \in Cores \cup {NoCore} /\ isReady \in BOOLEAN
  /\ core \in [Cores -> {"none", "up", "dead", "gone"}]
  /\ pipes \subseteq Cores /\ startTimer \subseteq Cores /\ overheard \subseteq Cores
  /\ late \subseteq Cores
  /\ startCall \in [Cores -> Promise]
  /\ requestQueue \subseteq Inferring
  /\ request \in [Inferring -> Promise]
  /\ stream \in [Streaming -> {"none", "refused", "open", "yielding", "left", "ended"}]
  /\ made \in [Streaming -> 0..StreamTokens] /\ buffered \in [Streaming -> 0..StreamTokens]
  /\ sawLast \subseteq Streaming
  /\ switch \in [Switching -> Promise] /\ stopCall \in [Stopping -> Promise]
  /\ asked \in [Users -> Cores \cup {NoCore}]

CoreInit ==
  /\ process = NoCore /\ isReady = FALSE
  /\ core = [c \in Cores |-> "none"]
  /\ pipes = {} /\ startTimer = {} /\ overheard = {} /\ late = {}
  /\ startCall = [c \in Cores |-> "none"]
  /\ requestQueue = {}
  /\ request = [r \in Inferring |-> "none"]
  /\ stream = [s \in Streaming |-> "none"]
  /\ made = [s \in Streaming |-> 0] /\ buffered = [s \in Streaming |-> 0]
  /\ sawLast = {}
  /\ switch = [w \in Switching |-> "none"]
  /\ stopCall = [k \in Stopping |-> "none"]
  /\ asked = [u \in Users |-> NoCore]

Asks(u) == asked' = [asked EXCEPT ![u] = process]

(* The first resolve or reject of a promise counts.                        *)
Settles(promise, end) == IF promise = "open" THEN end ELSE promise

-----------------------------------------------------------------------------
(* What if start looked at isReady instead of the process?                 *)
ReadyForbids == ~isReady

MayStart == process = NoCore

(* start; when there is a process already it throws and changes nothing.   *)
StartCore(c) ==
  /\ MayStart
  /\ core[c] = "none"
  /\ \A d \in Cores : d < c => core[d] # "none"
  /\ process' = c
  /\ core' = [core EXCEPT ![c] = "up"]
  /\ pipes' = pipes \cup {c}
  /\ startCall' = [startCall EXCEPT ![c] = "open"]
  /\ startTimer' = startTimer \cup {c}
  /\ overheard' = IF isReady THEN overheard \cup {c} ELSE overheard
  /\ UNCHANGED <<isReady, late, askPart, streamPart, switch, stopCall, asked>>

(* The stderr of c says that it listens: the core is ready, its start is   *)
(* resolved, and so are the switches that wait for "ready".                *)
ReadyLine(c) ==
  /\ c \in pipes
  /\ isReady' = TRUE
  /\ startCall' = [startCall EXCEPT ![c] = Settles(@, "resolved")]
  /\ switch' = [w \in Switching |-> Settles(switch[w], "resolved")]
  /\ overheard' = overheard \cup {d \in Cores \ {c} : startCall[d] = "open"}
  /\ late' = IF core[c] = "gone" THEN late \cup {c} ELSE late
  /\ UNCHANGED <<process, core, pipes, startTimer, askPart, streamPart, stopCall, asked>>

(* The timer of start rejects, unless a core is ready.                     *)
StartTimeout(c) ==
  /\ c \in startTimer
  /\ startTimer' = startTimer \ {c}
  /\ startCall' = [startCall EXCEPT ![c] = IF isReady THEN @ ELSE Settles(@, "rejected")]
  /\ UNCHANGED <<process, isReady, core, pipes, late, overheard, askPart, streamPart, switch, stopCall, asked>>

Dies(c) ==
  /\ core[c] = "up"
  /\ core' = [core EXCEPT ![c] = "dead"]
  /\ UNCHANGED <<process, isReady, pipes, startCall, startTimer, late, overheard, askPart, streamPart,
                 switch, stopCall, asked>>

(* What if the exit left the flag?                                         *)
FlagStays == isReady

ReadyAfterExit == FALSE

(* The exit event: the listener of start, then those of the stops that     *)
(* wait, which write the same.  Inferences and streams hear nothing of it. *)
CoreExitHeard(c) ==
  /\ core[c] = "dead"
  /\ core' = [core EXCEPT ![c] = "gone"]
  /\ isReady' = ReadyAfterExit
  /\ process' = NoCore
  /\ stopCall' = [k \in Stopping |->
       IF asked[k] = c THEN Settles(stopCall[k], "resolved") ELSE stopCall[k]]
  /\ UNCHANGED <<pipes, startCall, startTimer, late, overheard, askPart, streamPart, switch, asked>>

PipesClose(c) ==
  /\ c \in pipes /\ core[c] # "up"
  /\ pipes' = pipes \ {c}
  /\ UNCHANGED <<process, isReady, core, startCall, startTimer, late, overheard, askPart, streamPart,
                 switch, stopCall, asked>>

-----------------------------------------------------------------------------
Infer(r) ==
  /\ request[r] = "none"
  /\ \/ ~isReady /\ request' = [request EXCEPT ![r] = "rejected"] /\ UNCHANGED <<requestQueue, asked>>
     \/ /\ isReady
        /\ request' = [request EXCEPT ![r] = "open"]
        /\ requestQueue' = requestQueue \cup {r}
        /\ Asks(r)
  /\ UNCHANGED <<processPart, streamPart, switch, stopCall>>

(* What if an answer left its handler in the queue?                        *)
HandlerKept(r) == requestQueue

HandlerGone(r) == requestQueue \ {r}

(* handleMessage, for an answer or an error of the core that was asked.    *)
InferenceAnswered(r, end) ==
  /\ asked[r] \in pipes /\ r \in requestQueue
  /\ request' = [request EXCEPT ![r] = Settles(@, end)]
  /\ requestQueue' = HandlerGone(r)
  /\ UNCHANGED <<processPart, streamPart, switch, stopCall, asked>>

(* What if the timer only rejected?                                        *)
RejectOnly(r) == requestQueue

Forgotten(r) == requestQueue \ {r}

InferenceTimeout(r) ==
  /\ request[r] = "open"
  /\ request' = [request EXCEPT ![r] = "rejected"]
  /\ requestQueue' = Forgotten(r)
  /\ UNCHANGED <<processPart, streamPart, switch, stopCall, asked>>

-----------------------------------------------------------------------------
OpenStream(s) ==
  /\ stream[s] = "none"
  /\ \/ ~isReady /\ stream' = [stream EXCEPT ![s] = "refused"] /\ UNCHANGED asked
     \/ isReady /\ stream' = [stream EXCEPT ![s] = "open"] /\ Asks(s)
  /\ UNCHANGED <<processPart, askPart, made, buffered, sawLast, switch, stopCall>>

(* A token event; the handler of a stream its consumer left still listens. *)
TokenArrives(s) ==
  /\ stream[s] \in {"open", "yielding", "left"} /\ asked[s] \in pipes /\ made[s] < StreamTokens
  /\ made' = [made EXCEPT ![s] = @ + 1]
  /\ buffered' = [buffered EXCEPT ![s] = @ + 1]
  /\ sawLast' = IF made[s] + 1 = StreamTokens THEN sawLast \cup {s} ELSE sawLast
  /\ UNCHANGED <<processPart, askPart, stream, switch, stopCall, asked>>

(* The pause of 10 ms is over.  A stream that is done ends, whatever is in *)
(* its buffer; else the first token goes to the consumer.                  *)
PollPauseOver(s) ==
  /\ stream[s] = "open"
  /\ \/ s \in sawLast /\ stream' = [stream EXCEPT ![s] = "ended"] /\ UNCHANGED buffered
     \/ /\ s \notin sawLast /\ buffered[s] > 0
        /\ buffered' = [buffered EXCEPT ![s] = @ - 1]
        /\ stream' = [stream EXCEPT ![s] = "yielding"]
  /\ UNCHANGED <<processPart, askPart, made, sawLast, switch, stopCall, asked>>

(* The consumer wants the next token, which is in the buffer or comes      *)
(* after another pause, or leaves.                                         *)
ConsumerGoesOn(s) ==
  /\ stream[s] = "yielding"
  /\ \/ /\ buffered[s] > 0
        /\ buffered' = [buffered EXCEPT ![s] = @ - 1]
        /\ UNCHANGED stream
     \/ /\ buffered[s] = 0
        /\ stream' = [stream EXCEPT ![s] = "open"]
        /\ UNCHANGED buffered
     \/ stream' = [stream EXCEPT ![s] = "left"] /\ UNCHANGED buffered
  /\ UNCHANGED <<processPart, askPart, made, sawLast, switch, stopCall, asked>>

StreamGoesOn(s) == TokenArrives(s) \/ PollPauseOver(s) \/ ConsumerGoesOn(s)

-----------------------------------------------------------------------------
SwitchModel(w) ==
  /\ switch[w] = "none"
  /\ \/ process = NoCore /\ switch' = [switch EXCEPT ![w] = "rejected"] /\ UNCHANGED asked
     \/ process # NoCore /\ switch' = [switch EXCEPT ![w] = "open"] /\ Asks(w)
  /\ UNCHANGED <<processPart, askPart, streamPart, stopCall>>

SwitchTimeout(w) ==
  /\ switch[w] = "open"
  /\ switch' = [switch EXCEPT ![w] = "rejected"]
  /\ UNCHANGED <<processPart, askPart, streamPart, stopCall, asked>>

StopCore(k) ==
  /\ stopCall[k] = "none"
  /\ \/ process = NoCore /\ stopCall' = [stopCall EXCEPT ![k] = "resolved"] /\ UNCHANGED asked
     \/ process # NoCore /\ stopCall' = [stopCall EXCEPT ![k] = "open"] /\ Asks(k)
  /\ UNCHANGED <<processPart, askPart, streamPart, switch>>

(* After 5 s stop is content with a SIGTERM.                               *)
StopTimeout(k) ==
  /\ stopCall[k] = "open"
  /\ stopCall' = [stopCall EXCEPT ![k] = "resolved"]
  /\ UNCHANGED <<processPart, askPart, streamPart, switch, asked>>

CoreTimer ==
  \/ \E c \in Cores : StartTimeout(c)
  \/ \E r \in Inferring : InferenceTimeout(r)
  \/ \E w \in Switching : SwitchTimeout(w)
  \/ \E k \in Stopping : StopTimeout(k)

CoreNext ==
  \/ \E c \in Cores : StartCore(c) \/ ReadyLine(c) \/ Dies(c) \/ CoreExitHeard(c) \/ PipesClose(c)
  \/ \E r \in Inferring : Infer(r) \/ \E end \in {"resolved", "rejected"} : InferenceAnswered(r, end)
  \/ \E s \in Streaming : OpenStream(s) \/ StreamGoesOn(s)
  \/ \E w \in Switching : SwitchModel(w)
  \/ \E k \in Stopping : StopCore(k)
  \/ CoreTimer

CoreSpec == CoreInit /\ [][CoreNext]_coreVars

-----------------------------------------------------------------------------
(* One process runs at a time, and it is the one the manager knows: none   *)
(* is orphaned, whoever stops, dies or times out during a start.           *)
OneCore == \A c \in Cores : core[c] \in {"up", "dead"} <=> process = c

(* A manager without a process says that it is not ready, except on the    *)
(* word of one that is gone.                                               *)
ReadyHasProcess == isReady /\ process = NoCore => late # {}

(* The queue holds the handlers of the inferences that are open: no answer *)
(* finds a settled one, and none stays behind.                             *)
QueueIsOpen == requestQueue = {r \in Inferring : request[r] = "open"}

(* A start whose timer is gone is settled, unless the ready line of        *)
(* another process came in between: its timer found a ready core and said  *)
(* nothing.                                                                *)
StartIsSettled ==
  \A c \in Cores : startCall[c] = "open" /\ c \notin startTimer => c \in overheard

(* The manager knows its process and what it owes to whom.                 *)
CoreSound == CoreTypeOK /\ OneCore /\ ReadyHasProcess /\ QueueIsOpen /\ StartIsSettled

(* Timers fire, consumers go on or leave, and a core goes on with its      *)
(* streams as long as its output is read: while any of this can happen,    *)
(* some does.                                                              *)
CoreFairness == WF_coreVars(CoreTimer \/ \E s \in Streaming : StreamGoesOn(s))

(* What is owed: the ends of the calls, by answer, timer or last token.    *)
(* Streams whose core died, and starts that met another core's line, may   *)
(* hang.                                                                   *)
Owed ==
  {r \in Inferring : request[r] = "open"} \cup {w \in Switching : switch[w] = "open"}
  \cup {k \in Stopping : stopCall[k] = "open"}
  \cup {s \in Streaming : stream[s] \in {"open", "yielding"} /\ asked[s] \in pipes}
  \cup {c \in Cores : startCall[c] = "open" /\ c \notin overheard}
=============================================================================
