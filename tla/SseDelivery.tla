---------------------------- MODULE SseDelivery ----------------------------
(***************************************************************************)
(* One answer delivered as server-sent events: by sendSse                  *)
(* (src/server/http.ts) from a generator of the gateway, or by             *)
(* relayUpstreamSseNormalized (src/openai/sseStreamNormalize.ts) from the  *)
(* body of an upstream.                                                    *)
(*                                                                         *)
(* The source is external: it goes on, ends, throws or says nothing, and   *)
(* an upstream may say [DONE] itself and leave an unfinished line at its   *)
(* end.  Frames are data, error and DONE, or done when [DONE] is the       *)
(* upstream's own; a frame written to a connection that is gone is lost,   *)
(* and so is not on the wire.                                              *)
(***************************************************************************)
EXTENDS Naturals, Sequences, SequencesExt

CONSTANT MaxFrames      \* bound: frames from the source

ASSUME DeliveryAssumption == MaxFrames \in Nat

VARIABLES
  relay,           \* the upstream's body; a generator otherwise
  appendDone,      \* the protocol ends with [DONE]
  idleOn,          \* KGM_STREAM_IDLE_MS is set
  delivery,        \* "waiting" for the source, "over", or "refused" as JSON
  wire,
  headersOpened,
  reason,          \* of the abort of sendSse, the first one
  sawDone,
  clientGone,
  read             \* frames from the source

sseOptions == <<relay, appendDone, idleOn>>
sseVars    == <<sseOptions, delivery, wire, headersOpened, reason, sawDone, clientGone, read>>

DeliveryTypeOK ==
  /\ relay \in BOOLEAN /\ appendDone \in BOOLEAN /\ idleOn \in BOOLEAN
  /\ delivery \in {"waiting", "over", "refused"}
  /\ wire \in Seq({"data", "error", "done", "DONE"})
  /\ headersOpened \in BOOLEAN /\ sawDone \in BOOLEAN /\ clientGone \in BOOLEAN
  /\ reason \in {"", "client", "timeout", "idle"}
  /\ read \in 0..MaxFrames

(* The relay opens its headers at once, the other with its first frame.    *)
DeliveryInit ==
  /\ relay \in BOOLEAN /\ appendDone \in BOOLEAN /\ idleOn \in BOOLEAN
  /\ delivery = "waiting" /\ wire = <<>> /\ headersOpened = relay
  /\ reason = "" /\ sawDone = FALSE /\ clientGone = FALSE /\ read = 0

Writes(frames) == wire' = IF clientGone THEN wire ELSE wire \o frames

(* writeSseStructuredError.                                                *)
ErrorFrames == IF appendDone THEN <<"error", "DONE">> ELSE <<"error">>

Waits(mode) == delivery = "waiting" /\ relay = mode

-----------------------------------------------------------------------------
(* sendSse: the signal is looked at when an event has come; what came then *)
(* is dropped.                                                             *)
EventComes ==
  /\ Waits(FALSE) /\ read < MaxFrames
  /\ read' = read + 1
  /\ \/ /\ reason = ""
        /\ headersOpened' = TRUE
        /\ Writes(<<"data">>)
        /\ UNCHANGED delivery
     \/ /\ reason = "client"
        /\ delivery' = "over"
        /\ UNCHANGED <<wire, headersOpened>>
     \/ /\ reason \in {"timeout", "idle"}
        /\ headersOpened' = TRUE
        /\ Writes(ErrorFrames)
        /\ delivery' = "over"
  /\ UNCHANGED <<sseOptions, reason, sawDone, clientGone>>

(* What if an end were an end, whatever came before?                       *)
DoneAnyway == appendDone

DoneIsDue == appendDone /\ headersOpened /\ reason = ""

EventsEnd ==
  /\ Waits(FALSE)
  /\ delivery' = "over"
  /\ Writes(IF DoneIsDue THEN <<"DONE">> ELSE <<>>)
  /\ UNCHANGED <<sseOptions, headersOpened, reason, sawDone, clientGone, read>>

(* An error before the first frame is the caller's, who answers in JSON.   *)
EventsThrow ==
  /\ Waits(FALSE)
  /\ \/ /\ reason = "client"
        /\ delivery' = "over"
        /\ UNCHANGED <<wire, headersOpened>>
     \/ /\ reason # "client" /\ ~headersOpened
        /\ delivery' = "refused"
        /\ UNCHANGED <<wire, headersOpened>>
     \/ /\ reason # "client" /\ headersOpened
        /\ Writes(ErrorFrames)
        /\ delivery' = "over"
        /\ UNCHANGED headersOpened
  /\ UNCHANGED <<sseOptions, reason, sawDone, clientGone, read>>

Aborts(why) == reason' = IF reason = "" THEN why ELSE reason

(* The timer of the whole, and the interval that watches for silence.      *)
SendTimeout ==
  /\ Waits(FALSE)
  /\ \/ Aborts("timeout")
     \/ idleOn /\ Aborts("idle")
  /\ UNCHANGED <<sseOptions, delivery, wire, headersOpened, sawDone, clientGone, read>>

-----------------------------------------------------------------------------
(* relayUpstreamSseNormalized: a line of the upstream, passed on.          *)
RelayReads(frame) ==
  /\ Waits(TRUE) /\ ~clientGone /\ read < MaxFrames
  /\ read' = read + 1
  /\ sawDone' = (sawDone \/ frame = "done")
  /\ Writes(<<frame>>)
  /\ UNCHANGED <<sseOptions, delivery, headersOpened, reason, clientGone>>

(* What if [DONE] were added whenever the body ends?                       *)
AlwaysDone == appendDone

DoneIsMissing == appendDone /\ ~sawDone

(* The body ends, as it does when it was cancelled for a client that left; *)
(* a line it had not finished is written as it is, and not looked into.    *)
RelayEnds ==
  /\ Waits(TRUE)
  /\ delivery' = "over"
  /\ \E tail \in {<<>>, <<"data">>, <<"done">>} :
       Writes(tail \o (IF DoneIsMissing THEN <<"DONE">> ELSE <<>>))
  /\ UNCHANGED <<sseOptions, headersOpened, reason, sawDone, clientGone, read>>

(* A read throws, or nothing is read for the time allowed, or there is no  *)
(* body.                                                                   *)
RelayFails ==
  /\ Waits(TRUE) /\ ~clientGone
  /\ Writes(ErrorFrames)
  /\ delivery' = "over"
  /\ UNCHANGED <<sseOptions, headersOpened, reason, sawDone, clientGone, read>>

RelayIdle == idleOn /\ RelayFails

-----------------------------------------------------------------------------
(* The client disconnects: sendSse is told by its signal, the relay        *)
(* cancels its reader.                                                     *)
ClientCloses ==
  /\ delivery = "waiting" /\ ~clientGone
  /\ clientGone' = TRUE
  /\ IF relay THEN UNCHANGED reason ELSE Aborts("client")
  /\ UNCHANGED <<sseOptions, delivery, wire, headersOpened, sawDone, read>>

DeliveryNext ==
  \/ EventComes \/ EventsEnd \/ EventsThrow \/ SendTimeout
  \/ \E frame \in {"data", "done"} : RelayReads(frame)
  \/ RelayEnds \/ RelayFails
  \/ ClientCloses

DeliverySpec == DeliveryInit /\ [][DeliveryNext]_sseVars

-----------------------------------------------------------------------------
Dones == {k \in DOMAIN wire : wire[k] = "DONE"}
Cut   == ~relay /\ reason # ""

(* [DONE] ends what a client gets that stayed, where the protocol has it,  *)
(* and nowhere else: except that sendSse, aborted by a timer, ends without *)
(* a word when its source ends on its own.                                 *)
EndsWithDone ==
  /\ delivery = "over" /\ ~clientGone /\ appendDone /\ headersOpened
     => (wire # <<>> /\ Last(wire) = "DONE") \/ Cut \/ sawDone
  /\ ~appendDone => Dones = {}

(* Nothing comes after a [DONE] of the gateway's; it is added to one of    *)
(* the upstream's that the relay saw only when the upstream went on and    *)
(* failed (one in a line that the upstream did not finish is not seen, and *)
(* a second follows it); and an answer that was cut is never ended as a    *)
(* complete one is.                                                        *)
NothingAfterDone ==
  \A k \in Dones :
    /\ k = Len(wire)
    /\ sawDone \/ Cut => k > 1 /\ wire[k - 1] = "error"

(* An error frame is the last but for [DONE], and a clean end has none.    *)
ErrorsEnd == \A k \in DOMAIN wire : wire[k] = "error" => delivery = "over" /\ k + 1 >= Len(wire)

(* What a client gets is one answer with one end.                          *)
DeliverySound == DeliveryTypeOK /\ EndsWithDone /\ NothingAfterDone /\ ErrorsEnd

(* A cancelled reader is done; timers fire.                                *)
DeliveryFairness == WF_sseVars((clientGone /\ RelayEnds) \/ RelayIdle)

(* What is owed: the end of a relay that watches for silence, or whose     *)
(* client left.  sendSse waits for its source.                             *)
DeliveryOwed == Waits(TRUE) /\ (idleOn \/ clientGone)
=============================================================================
