-------------------------- MODULE SchedulersProofs --------------------------
(***************************************************************************)
(* What the streamed answers promise, for every tool, skill, index of a    *)
(* call and number of events, and what the batchers of inferences promise, *)
(* for every job, request, id, priority and limit.  The invariants of a    *)
(* part are those of its own module and what its steps rest on; a          *)
(* behaviour of the sum runs one part and leaves the others alone.         *)
(***************************************************************************)
EXTENDS MCSchedulers, SequenceFacts


Frames == {"data", "error", "done", "DONE"}

(* What is on the wire is what the source said, while more may come.       *)
DeliveryInv ==
  /\ DeliverySound
  /\ sawDone => relay
  /\ delivery = "waiting" => \A k \in 1..Len(wire) : wire[k] \in {"data", "done"}

LEMMA WireIs == wire \in Seq(Frames) => Len(wire) \in Nat /\ DOMAIN wire = 1..Len(wire)
  BY LenProperties

LEMMA WireGrows ==
  ASSUME wire \in Seq(Frames), NEW f \in Seq(Frames), Writes(f)
  PROVE  /\ wire' \in Seq(Frames) /\ Len(wire) \in Nat /\ Len(f) \in Nat /\ Len(wire') \in Nat
         /\ DOMAIN wire' = 1..Len(wire')
         /\ clientGone => wire' = wire
         /\ ~clientGone => /\ Len(wire') = Len(wire) + Len(f)
                           /\ \A k \in 1..Len(wire) : wire'[k] = wire[k]
                           /\ \A k \in 1..Len(f) : wire'[Len(wire) + k] = f[k]
                           /\ \A k \in (Len(wire) + 1)..Len(wire') : k - Len(wire) \in 1..Len(f) /\ wire'[k] = f[k - Len(wire)]
<1>1. PICK w : w = wire \o f  OBVIOUS
<1>2. Len(wire) \in Nat /\ Len(f) \in Nat  BY LenProperties
<1>3. /\ w \in Seq(Frames) /\ Len(w) = Len(wire) + Len(f)
      /\ \A i \in 1..(Len(wire) + Len(f)) : w[i] = IF i <= Len(wire) THEN wire[i] ELSE f[i - Len(wire)]
  BY <1>1, ConcatProperties
<1>4. \A k \in 1..Len(wire) : w[k] = wire[k]  BY <1>2, <1>3
<1>5. \A k \in (Len(wire) + 1)..Len(w) : k - Len(wire) \in 1..Len(f) /\ w[k] = f[k - Len(wire)]  BY <1>2, <1>3
<1>6. \A k \in 1..Len(f) : w[Len(wire) + k] = f[k]  BY <1>2, <1>3
<1>7. wire' = IF clientGone THEN wire ELSE w  BY <1>1 DEF Writes
<1>8. wire' \in Seq(Frames)  BY <1>3, <1>7
<1>9. Len(wire') \in Nat /\ DOMAIN wire' = 1..Len(wire')  BY <1>8, LenProperties
<1> QED  BY <1>2, <1>3, <1>4, <1>5, <1>6, <1>7, <1>8, <1>9

(* Frames of the source, while it is read.                                 *)
LEMMA MoreFrames ==
  ASSUME DeliveryInv, delivery = "waiting", delivery' = "waiting", UNCHANGED <<relay, appendDone, idleOn, clientGone>>,
         NEW f \in Seq(Frames), \A k \in 1..Len(f) : f[k] \in {"data", "done"},
         Writes(f), DeliveryTypeOK', sawDone' => relay'
  PROVE  DeliveryInv'
<1>1. wire \in Seq(Frames)  BY DEF DeliveryInv, DeliverySound, DeliveryTypeOK, Frames
<1>2. \A k \in 1..Len(wire') : wire'[k] \in {"data", "done"}
  <2>1. CASE clientGone  BY <1>1, <2>1, WireGrows DEF DeliveryInv
  <2>2. CASE ~clientGone
    <3> SUFFICES ASSUME NEW k \in 1..Len(wire') PROVE wire'[k] \in {"data", "done"}  OBVIOUS
    <3>1. CASE k \in 1..Len(wire)  BY <1>1, <2>2, <3>1, WireGrows DEF DeliveryInv
    <3>2. CASE k \in (Len(wire) + 1)..Len(wire')  BY <1>1, <2>2, <3>2, WireGrows
    <3>3. Len(wire) \in Nat /\ Len(wire') \in Nat  BY <1>1, WireGrows
    <3> QED  BY <3>1, <3>2, <3>3
  <2> QED  BY <2>1, <2>2
<1>3. DOMAIN wire' = 1..Len(wire')  BY <1>1, WireGrows
<1>4. Dones' = {}  BY <1>2, <1>3 DEF Dones
<1> QED  BY <1>2, <1>3, <1>4 DEF DeliveryInv, DeliverySound, EndsWithDone, NothingAfterDone, ErrorsEnd

(* How an answer may end.                                                  *)
EndsWell(f) ==
  /\ \A k \in 1..Len(f) :
       /\ f[k] = "DONE" => k = Len(f) /\ appendDone /\ (sawDone \/ Cut => k > 1 /\ f[k - 1] = "error")
       /\ f[k] = "error" => k + 1 >= Len(f)
  /\ appendDone => (f # <<>> /\ f[Len(f)] = "DONE") \/ Cut \/ sawDone \/ ~headersOpened'

LEMMA LastFrames ==
  ASSUME DeliveryInv, delivery = "waiting", delivery' # "waiting",
         UNCHANGED <<relay, appendDone, idleOn, clientGone, reason, sawDone>>,
         NEW f \in Seq(Frames), EndsWell(f), Writes(f), DeliveryTypeOK', sawDone' => relay',
         delivery' = "over" \/ (f = <<>>)
  PROVE  DeliveryInv'
<1>1. wire \in Seq(Frames)  BY DEF DeliveryInv, DeliverySound, DeliveryTypeOK, Frames
<1>2. \A k \in 1..Len(wire) : wire[k] \notin {"DONE", "error"}  BY DEF DeliveryInv
<1>3. Len(wire) \in Nat /\ Len(f) \in Nat /\ Len(wire') \in Nat /\ DOMAIN wire' = 1..Len(wire')
  BY <1>1, WireGrows
<1>4. Cut' = Cut  BY DEF Cut
<1>5. CASE clientGone
  <2>1. wire' = wire  BY <1>1, <1>5, WireGrows
  <2>2. Dones' = {}  BY <1>2, <1>3, <2>1 DEF Dones
  <2> QED  BY <1>2, <1>3, <1>5, <2>1, <2>2 DEF DeliveryInv, DeliverySound, EndsWithDone, NothingAfterDone, ErrorsEnd
<1>6. CASE ~clientGone
  <2>1. /\ Len(wire') = Len(wire) + Len(f)
        /\ \A k \in 1..Len(wire) : wire'[k] = wire[k]
        /\ \A k \in 1..Len(f) : wire'[Len(wire) + k] = f[k]
        /\ \A k \in (Len(wire) + 1)..Len(wire') : k - Len(wire) \in 1..Len(f) /\ wire'[k] = f[k - Len(wire)]
    BY <1>1, <1>6, WireGrows
  <2>2. \A k \in 1..Len(wire') : wire'[k] \in {"DONE", "error"} => k \in (Len(wire) + 1)..Len(wire')
    BY <1>2, <1>3, <2>1
  <2>3. NothingAfterDone'
    <3> SUFFICES ASSUME NEW k \in Dones'
                 PROVE  k = Len(wire') /\ (sawDone \/ Cut => k > 1 /\ wire'[k - 1] = "error")
      BY <1>4 DEF NothingAfterDone
    <3>1. k \in (Len(wire) + 1)..Len(wire') /\ wire'[k] = "DONE"  BY <1>3, <2>2 DEF Dones
    <3>2. PICK j \in 1..Len(f) : j = k - Len(wire)  BY <2>1, <3>1
    <3>3. f[j] = "DONE"  BY <2>1, <3>1, <3>2
    <3>4. j = Len(f) /\ (sawDone \/ Cut => j > 1 /\ f[j - 1] = "error")  BY <3>3 DEF EndsWell
    <3>5. k \in Nat /\ k = Len(wire) + j  BY <1>3, <3>1, <3>2
    <3>6. k = Len(wire')  BY <1>3, <2>1, <3>4, <3>5
    <3>7. ASSUME sawDone \/ Cut PROVE k > 1 /\ wire'[k - 1] = "error"
      <4>1. j > 1 /\ f[j - 1] = "error"  BY <3>4, <3>7
      <4>2. j - 1 \in 1..Len(f) /\ k - 1 = Len(wire) + (j - 1)  BY <1>3, <3>2, <3>5, <4>1
      <4>3. wire'[Len(wire) + (j - 1)] = f[j - 1]  BY <2>1, <4>2
      <4> QED  BY <1>3, <3>5, <4>1, <4>2, <4>3
    <3> QED  BY <3>6, <3>7
  <2>4. ErrorsEnd'
    <3> SUFFICES ASSUME NEW k \in 1..Len(wire'), wire'[k] = "error"
                 PROVE  delivery' = "over" /\ k + 1 >= Len(wire')
      BY <1>3 DEF ErrorsEnd
    <3>1. k \in (Len(wire) + 1)..Len(wire')  BY <2>2
    <3>2. PICK j \in 1..Len(f) : j = k - Len(wire)  BY <2>1, <3>1
    <3>3. f[j] = "error"  BY <2>1, <3>1, <3>2
    <3>4. j + 1 >= Len(f)  BY <3>3 DEF EndsWell
    <3>5. f # <<>>  BY <3>2
    <3> QED  BY <1>3, <2>1, <3>2, <3>4, <3>5
  <2>5. EndsWithDone'
    <3>1. ~appendDone => Dones' = {}
      <4> SUFFICES ASSUME NEW k \in Dones' PROVE appendDone  BY DEF Dones
      <4>1. k \in (Len(wire) + 1)..Len(wire') /\ wire'[k] = "DONE"  BY <1>3, <2>2 DEF Dones
      <4>2. k - Len(wire) \in 1..Len(f) /\ f[k - Len(wire)] = "DONE"  BY <2>1, <4>1
      <4> QED  BY <4>2 DEF EndsWell
    <3>2. ASSUME f # <<>>, f[Len(f)] = "DONE" PROVE wire' # <<>> /\ Last(wire') = "DONE"
      <4>1. Len(f) \in 1..Len(f)  BY <1>3, <3>2, LenProperties, EmptySeq
      <4>2. wire'[Len(wire) + Len(f)] = "DONE" /\ Len(wire') > 0  BY <1>3, <2>1, <3>2, <4>1
      <4>3. wire' # <<>>  BY <4>2
      <4> QED  BY <2>1, <4>2, <4>3 DEF Last
    <3> QED  BY <1>4, <3>1, <3>2 DEF EndsWithDone, EndsWell
  <2> QED  BY <2>3, <2>4, <2>5 DEF DeliveryInv, DeliverySound
<1> QED  BY <1>5, <1>6

LEMMA FramesAre ==
  /\ <<>> \in Seq(Frames) /\ <<"data">> \in Seq(Frames) /\ <<"done">> \in Seq(Frames) /\ <<"DONE">> \in Seq(Frames)
  /\ <<"error">> \in Seq(Frames) /\ <<"error", "DONE">> \in Seq(Frames)
  /\ <<"data", "DONE">> \in Seq(Frames) /\ <<"done", "DONE">> \in Seq(Frames)
<1>1. PICK S : S = Frames  OBVIOUS
<1>2. "data" \in S /\ "error" \in S /\ "done" \in S /\ "DONE" \in S  BY <1>1 DEF Frames
<1>3. /\ <<>> \in Seq(S) /\ <<"data">> \in Seq(S) /\ <<"done">> \in Seq(S) /\ <<"DONE">> \in Seq(S)
      /\ <<"error">> \in Seq(S) /\ <<"error", "DONE">> \in Seq(S)
      /\ <<"data", "DONE">> \in Seq(S) /\ <<"done", "DONE">> \in Seq(S)
  BY <1>2
<1> QED  BY <1>1, <1>3

LEMMA OneAlone ==
  ASSUME NEW S, NEW x \in S
  PROVE  <<x>> \o <<>> = <<x>>
<1>1. PICK s : s = <<x>>  OBVIOUS
<1>2. s \in Seq(S)  BY <1>1
<1>3. s \o <<>> = s  BY <1>2, ConcatEmptySeq
<1> QED  BY <1>1, <1>3

LEMMA TwoAlone ==
  ASSUME NEW S, NEW x \in S, NEW y \in S
  PROVE  <<x>> \o <<y>> = <<x, y>>
<1>1. PICK s, t, u : s = <<x>> /\ t = <<y>> /\ u = <<x, y>>  OBVIOUS
<1>2. s \in Seq(S) /\ t \in Seq(S) /\ u \in Seq(S) /\ Len(s) = 1 /\ Len(t) = 1 /\ Len(u) = 2  BY <1>1
<1>3. s[1] = x /\ t[1] = y /\ u[1] = x /\ u[2] = y  BY <1>1
<1>4. PICK c : c = s \o t  OBVIOUS
<1>5. c \in Seq(S) /\ Len(c) = 2 /\ \A i \in 1..2 : c[i] = IF i <= 1 THEN s[i] ELSE t[i - 1]
  BY <1>2, <1>4, ConcatProperties
<1>6. c[1] = u[1] /\ c[2] = u[2]  BY <1>3, <1>5
<1>7. \A i \in 1..Len(c) : c[i] = u[i]  BY <1>5, <1>6
<1>8. c = u  BY <1>2, <1>5, <1>7, SeqEqual
<1> QED  BY <1>1, <1>4, <1>8

LEMMA NothingWritten ==
  ASSUME wire \in Seq(Frames), wire' = wire
  PROVE  Writes(<<>>)
<1>1. PICK w : w = wire \o <<>>  OBVIOUS
<1>2. <<>> \in Seq(Frames) /\ Len(<<>>) = 0  BY FramesAre
<1>3. w = wire  BY <1>1, <1>2, ConcatProperties, ConcatEmptySeq
<1> QED  BY <1>1, <1>3 DEF Writes

LEMMA ErrorEnds ==
  ASSUME DeliveryTypeOK
  PROVE  ErrorFrames \in Seq(Frames) /\ EndsWell(ErrorFrames)
<1>1. CASE appendDone
  <2>1. ErrorFrames = <<"error", "DONE">>  BY <1>1 DEF ErrorFrames
  <2>2. EndsWell(<<"error", "DONE">>)  BY <1>1 DEF EndsWell
  <2> QED  BY <2>1, <2>2, FramesAre
<1>2. CASE ~appendDone
  <2>1. ErrorFrames = <<"error">>  BY <1>2 DEF ErrorFrames
  <2>2. EndsWell(<<"error">>)  BY <1>2 DEF EndsWell
  <2> QED  BY <2>1, <2>2, FramesAre
<1> QED  BY <1>1, <1>2

LEMMA DeliveryTypes ==
  ASSUME DeliveryTypeOK, DeliveryNext
  PROVE  DeliveryTypeOK'
<1>1. ASSUME NEW f \in Seq(Frames), Writes(f) PROVE wire' \in Seq({"data", "error", "done", "DONE"})
  BY <1>1, WireGrows DEF DeliveryTypeOK, Frames
<1>2. ErrorFrames \in Seq(Frames)  BY FramesAre DEF ErrorFrames
<1>3. read \in 0..MaxFrames /\ MaxFrames \in Nat  BY DeliveryAssumption DEF DeliveryTypeOK
<1>4. ASSUME read < MaxFrames, read' = read + 1 PROVE read' \in 0..MaxFrames  BY <1>3, <1>4
<1>5. CASE EventComes
  BY <1>1, <1>2, <1>4, <1>5, FramesAre DEF EventComes, DeliveryTypeOK, sseOptions
<1>6. CASE EventsEnd
  <2>1. (IF DoneIsDue THEN <<"DONE">> ELSE <<>>) \in Seq(Frames)  BY FramesAre
  <2>2. wire' \in Seq({"data", "error", "done", "DONE"})  BY <1>1, <1>6, <2>1 DEF EventsEnd
  <2> QED  BY <1>6, <2>2 DEF EventsEnd, DeliveryTypeOK, sseOptions
<1>7. CASE EventsThrow
  BY <1>1, <1>2, <1>7 DEF EventsThrow, DeliveryTypeOK, sseOptions
<1>8. CASE SendTimeout
  BY <1>8 DEF SendTimeout, Aborts, DeliveryTypeOK, sseOptions
<1>9. ASSUME NEW frame \in {"data", "done"}, RelayReads(frame) PROVE DeliveryTypeOK'
  <2>1. <<frame>> \in Seq(Frames)  BY FramesAre
  <2>2. wire' \in Seq({"data", "error", "done", "DONE"})  BY <1>1, <1>9, <2>1 DEF RelayReads
  <2>3. read' \in 0..MaxFrames  BY <1>4, <1>9 DEF RelayReads
  <2>4. sawDone' \in BOOLEAN  BY <1>9 DEF RelayReads, DeliveryTypeOK
  <2> QED  BY <1>9, <2>2, <2>3, <2>4 DEF RelayReads, DeliveryTypeOK, sseOptions
<1>10. CASE RelayEnds
  <2>1. PICK tail \in {<<>>, <<"data">>, <<"done">>} : Writes(tail \o (IF DoneIsMissing THEN <<"DONE">> ELSE <<>>))
    BY <1>10 DEF RelayEnds
  <2>2. tail \in Seq(Frames) /\ (IF DoneIsMissing THEN <<"DONE">> ELSE <<>>) \in Seq(Frames)  BY FramesAre
  <2>3. PICK f : f = tail \o (IF DoneIsMissing THEN <<"DONE">> ELSE <<>>)  OBVIOUS
  <2>4. f \in Seq(Frames)  BY <2>2, <2>3, ConcatProperties
  <2>5. wire' \in Seq({"data", "error", "done", "DONE"})  BY <1>1, <2>1, <2>3, <2>4
  <2> QED  BY <1>10, <2>5 DEF RelayEnds, DeliveryTypeOK, sseOptions
<1>11. CASE RelayFails
  <2>1. wire' \in Seq({"data", "error", "done", "DONE"})  BY <1>1, <1>2, <1>11 DEF RelayFails
  <2> QED  BY <1>11, <2>1 DEF RelayFails, DeliveryTypeOK, sseOptions
<1>12. CASE ClientCloses
  BY <1>12 DEF ClientCloses, Aborts, DeliveryTypeOK, sseOptions
<1> QED  BY <1>5, <1>6, <1>7, <1>8, <1>9, <1>10, <1>11, <1>12 DEF DeliveryNext

(* What each step writes keeps the answer one with one end.                *)
LEMMA DeliveryStep ==
  ASSUME DeliveryInv, [DeliveryNext]_sseVars
  PROVE  DeliveryInv'
<1>1. CASE UNCHANGED sseVars
  <2>1. UNCHANGED <<relay, appendDone, idleOn, delivery, wire, headersOpened, reason, sawDone, clientGone, read>>
    BY <1>1 DEF sseVars, sseOptions
  <2>2. UNCHANGED <<Dones, Cut>>  BY <2>1 DEF Dones, Cut
  <2> QED  BY <2>1, <2>2 DEF DeliveryInv, DeliverySound, DeliveryTypeOK, EndsWithDone, NothingAfterDone, ErrorsEnd
<1> SUFFICES ASSUME DeliveryNext PROVE DeliveryInv'  BY <1>1
<1>2. DeliveryTypeOK /\ DeliveryTypeOK'  BY DeliveryTypes DEF DeliveryInv, DeliverySound
<1>3. wire \in Seq(Frames)  BY <1>2 DEF DeliveryTypeOK, Frames
<1>4. sawDone => relay  BY DEF DeliveryInv
<1>5. CASE EventComes
  <2>1. delivery = "waiting" /\ ~relay /\ UNCHANGED <<relay, appendDone, idleOn, reason, sawDone, clientGone>>
    BY <1>5 DEF EventComes, Waits, sseOptions
  <2>2. CASE reason = ""
    <3>1. delivery' = "waiting" /\ Writes(<<"data">>)  BY <1>5, <2>1, <2>2 DEF EventComes
    <3>2. \A k \in 1..Len(<<"data">>) : <<"data">>[k] \in {"data", "done"}  OBVIOUS
    <3> QED  BY <1>2, <1>4, <2>1, <3>1, <3>2, FramesAre, MoreFrames
  <2>3. CASE reason = "client"
    <3>1. delivery' = "over" /\ Writes(<<>>)  BY <1>3, <1>5, <2>3, NothingWritten DEF EventComes
    <3>2. EndsWell(<<>>)  BY <2>1, <2>3 DEF EndsWell, Cut
    <3> QED  BY <1>2, <1>4, <2>1, <3>1, <3>2, FramesAre, LastFrames
  <2>4. CASE reason \in {"timeout", "idle"}
    <3>1. delivery' = "over" /\ Writes(ErrorFrames)  BY <1>5, <2>4 DEF EventComes
    <3> QED  BY <1>2, <1>4, <2>1, <3>1, ErrorEnds, LastFrames
  <2> QED  BY <1>2, <2>2, <2>3, <2>4 DEF DeliveryTypeOK
<1>6. CASE EventsEnd
  <2>1. delivery = "waiting" /\ ~relay /\ UNCHANGED <<relay, appendDone, idleOn, headersOpened, reason, sawDone, clientGone>>
    BY <1>6 DEF EventsEnd, Waits, sseOptions
  <2>2. CASE DoneIsDue
    <3>1. delivery' = "over" /\ Writes(<<"DONE">>)  BY <1>6, <2>2 DEF EventsEnd
    <3>2. ~sawDone /\ ~Cut /\ appendDone  BY <1>4, <2>1, <2>2 DEF DoneIsDue, Cut
    <3>3. EndsWell(<<"DONE">>)  BY <3>2 DEF EndsWell
    <3> QED  BY <1>2, <1>4, <2>1, <3>1, <3>3, FramesAre, LastFrames
  <2>3. CASE ~DoneIsDue
    <3>1. delivery' = "over" /\ Writes(<<>>)  BY <1>6, <2>3 DEF EventsEnd
    <3>2. appendDone => Cut \/ ~headersOpened'  BY <2>1, <2>3 DEF Cut, DoneIsDue
    <3>3. EndsWell(<<>>)  BY <3>2 DEF EndsWell
    <3> QED  BY <1>2, <1>4, <2>1, <3>1, <3>3, FramesAre, LastFrames
  <2> QED  BY <2>2, <2>3
<1>7. CASE EventsThrow
  <2>1. delivery = "waiting" /\ ~relay /\ UNCHANGED <<relay, appendDone, idleOn, reason, sawDone, clientGone>>
    BY <1>7 DEF EventsThrow, Waits, sseOptions
  <2>2. CASE reason = "client"
    <3>1. delivery' = "over" /\ Writes(<<>>)  BY <1>3, <1>7, <2>2, NothingWritten DEF EventsThrow
    <3>2. EndsWell(<<>>)  BY <2>1, <2>2 DEF EndsWell, Cut
    <3> QED  BY <1>2, <1>4, <2>1, <3>1, <3>2, FramesAre, LastFrames
  <2>3. CASE reason # "client" /\ ~headersOpened
    <3>1. delivery' = "refused" /\ Writes(<<>>) /\ ~headersOpened'  BY <1>3, <1>7, <2>3, NothingWritten DEF EventsThrow
    <3>2. EndsWell(<<>>)  BY <3>1 DEF EndsWell
    <3> QED  BY <1>2, <1>4, <2>1, <3>1, <3>2, FramesAre, LastFrames
  <2>4. CASE reason # "client" /\ headersOpened
    <3>1. delivery' = "over" /\ Writes(ErrorFrames)  BY <1>7, <2>4 DEF EventsThrow
    <3> QED  BY <1>2, <1>4, <2>1, <3>1, ErrorEnds, LastFrames
  <2> QED  BY <2>2, <2>3, <2>4, <1>2 DEF DeliveryTypeOK
<1>8. CASE SendTimeout
  <2>1. delivery = "waiting" /\ UNCHANGED <<relay, appendDone, idleOn, delivery, wire, sawDone, clientGone>>
    BY <1>8 DEF SendTimeout, Waits, sseOptions
  <2>2. Writes(<<>>)  BY <1>3, <2>1, NothingWritten
  <2>3. \A k \in 1..Len(<<>>) : <<>>[k] \in {"data", "done"}  OBVIOUS
  <2> QED  BY <1>2, <1>4, <2>1, <2>2, <2>3, FramesAre, MoreFrames
<1>9. ASSUME NEW frame \in {"data", "done"}, RelayReads(frame) PROVE DeliveryInv'
  <2>1. delivery = "waiting" /\ relay /\ UNCHANGED <<relay, appendDone, idleOn, delivery, clientGone>>
    BY <1>9 DEF RelayReads, Waits, sseOptions
  <2>2. Writes(<<frame>>)  BY <1>9 DEF RelayReads
  <2>3. <<frame>> \in Seq(Frames) /\ \A k \in 1..Len(<<frame>>) : <<frame>>[k] \in {"data", "done"}  BY FramesAre
  <2> QED  BY <1>2, <2>1, <2>2, <2>3, MoreFrames
<1>10. CASE RelayEnds
  <2>1. delivery = "waiting" /\ relay /\ UNCHANGED <<relay, appendDone, idleOn, headersOpened, reason, sawDone, clientGone>>
        /\ delivery' = "over"
    BY <1>10 DEF RelayEnds, Waits, sseOptions
  <2>2. PICK tail \in {<<>>, <<"data">>, <<"done">>} : Writes(tail \o (IF DoneIsMissing THEN <<"DONE">> ELSE <<>>))
    BY <1>10 DEF RelayEnds
  <2>3. ~Cut  BY <2>1 DEF Cut
  <2>4. CASE DoneIsMissing
    <3>1. appendDone /\ ~sawDone  BY <2>4 DEF DoneIsMissing
    <3>2. PICK f \in {<<"DONE">>, <<"data", "DONE">>, <<"done", "DONE">>} : f = tail \o <<"DONE">>
      <4>1. <<>> \o <<"DONE">> = <<"DONE">>  BY FramesAre, ConcatEmptySeq
      <4>2. PICK data, done, D \in Frames : data = "data" /\ done = "done" /\ D = "DONE"  BY DEF Frames
      <4>3. <<data>> \o <<D>> = <<data, D>> /\ <<done>> \o <<D>> = <<done, D>>  BY TwoAlone
      <4> QED  BY <4>1, <4>2, <4>3
    <3>3. Writes(f)  BY <2>2, <2>4, <3>2
    <3>4. EndsWell(<<"DONE">>)  BY <2>3, <3>1 DEF EndsWell
    <3>5. EndsWell(<<"data", "DONE">>)  BY <2>3, <3>1 DEF EndsWell
    <3>6. EndsWell(<<"done", "DONE">>)  BY <2>3, <3>1 DEF EndsWell
    <3>7. f \in Seq(Frames) /\ EndsWell(f)  BY <3>2, <3>4, <3>5, <3>6, FramesAre
    <3> QED  BY <1>2, <2>1, <3>3, <3>7, LastFrames
  <2>5. CASE ~DoneIsMissing
    <3>1. ~appendDone \/ sawDone  BY <2>5 DEF DoneIsMissing
    <3>2. PICK f \in {<<>>, <<"data">>, <<"done">>} : f = tail \o <<>>
      <4>0. "data" \in Frames /\ "done" \in Frames  BY DEF Frames
      <4>1. <<>> \o <<>> = <<>>  BY FramesAre, ConcatEmptySeq
      <4>2. PICK data, done \in Frames : data = "data" /\ done = "done"  BY <4>0
      <4>3. <<data>> \o <<>> = <<data>> /\ <<done>> \o <<>> = <<done>>  BY OneAlone
      <4>4. tail \in {<<>>, <<data>>, <<done>>}  BY <4>2
      <4>5. tail \o <<>> = tail  BY <4>1, <4>3, <4>4
      <4> QED  BY <4>5
    <3>3. Writes(f)  BY <2>2, <2>5, <3>2
    <3>4. EndsWell(<<>>)  BY <3>1 DEF EndsWell
    <3>5. EndsWell(<<"data">>)  BY <3>1 DEF EndsWell
    <3>6. EndsWell(<<"done">>)  BY <3>1 DEF EndsWell
    <3>7. f \in Seq(Frames) /\ EndsWell(f)  BY <3>2, <3>4, <3>5, <3>6, FramesAre
    <3> QED  BY <1>2, <2>1, <3>3, <3>7, LastFrames
  <2> QED  BY <2>4, <2>5
<1>11. CASE RelayFails
  <2>1. delivery = "waiting" /\ relay /\ UNCHANGED <<relay, appendDone, idleOn, reason, sawDone, clientGone>>
        /\ delivery' = "over" /\ Writes(ErrorFrames)
    BY <1>11 DEF RelayFails, Waits, sseOptions
  <2> QED  BY <1>2, <2>1, ErrorEnds, LastFrames
<1>12. CASE ClientCloses
  <2>1. delivery = "waiting" /\ UNCHANGED <<relay, appendDone, idleOn, delivery, wire, sawDone, headersOpened>>
    BY <1>12 DEF ClientCloses, sseOptions
  <2>2. \A k \in 1..Len(wire) : wire[k] \in {"data", "done"}  BY <2>1 DEF DeliveryInv
  <2>3. DOMAIN wire = 1..Len(wire)  BY <1>3, WireIs
  <2>4. Dones' = {}  BY <2>1, <2>2, <2>3 DEF Dones
  <2> QED  BY <1>2, <2>1, <2>2, <2>3, <2>4 DEF DeliveryInv, DeliverySound, EndsWithDone, NothingAfterDone, ErrorsEnd
<1> QED  BY <1>5, <1>6, <1>7, <1>8, <1>9, <1>10, <1>11, <1>12 DEF DeliveryNext

LEMMA DeliveryStart == DeliveryInit => DeliveryInv
<1> SUFFICES ASSUME DeliveryInit PROVE DeliveryInv  OBVIOUS
<1>1. wire = <<>>  BY DEF DeliveryInit
<1>0. \A S : Len(<<>>) = 0  BY EmptySeq
<1>2. wire \in Seq(Frames) /\ Len(wire) = 0  BY <1>0, <1>1, FramesAre
<1>3. DOMAIN wire = {}  BY <1>2, WireIs
<1>4. MaxFrames \in Nat  BY DeliveryAssumption
<1>5. DeliveryTypeOK
  <2>0. read = 0  BY DEF DeliveryInit
  <2>1. read \in 0..MaxFrames  BY <1>4, <2>0
  <2>2. wire \in Seq({"data", "error", "done", "DONE"})  BY <1>2 DEF Frames
  <2> QED  BY <2>1, <2>2 DEF DeliveryInit, DeliveryTypeOK
<1>6. Dones = {}  BY <1>3 DEF Dones
<1>7. EndsWithDone  BY <1>6 DEF EndsWithDone, DeliveryInit
<1>8. NothingAfterDone  BY <1>6 DEF NothingAfterDone
<1>9. ErrorsEnd  BY <1>3 DEF ErrorsEnd
<1>10. \A k \in 1..Len(wire) : wire[k] \in {"data", "done"}  BY <1>2
<1>11. ~sawDone  BY DEF DeliveryInit
<1> QED  BY <1>5, <1>7, <1>8, <1>9, <1>10, <1>11 DEF DeliveryInv, DeliverySound

Traces == [of : Offered \cup Skills, was : {"begun", "done", "failed", "handed out"}]

(* The last call of the traces is the one that is announced or executed.   *)
RoundsInv ==
  /\ intent \in Intents
  /\ traces \in Seq(Traces)
  /\ stage \in {"announced", "executing"} =>
       /\ intent.kind = "call" /\ traces # <<>>
       /\ traces[Len(traces)] = [of |-> intent.of, was |-> "begun"]

LEMMA CalleesOf == ASSUME NEW i \in Intents, i.kind = "call" PROVE i.of \in Offered \cup Skills
  BY DEF Intents, Texts

LEMMA IntentKinds == ASSUME NEW i \in Intents PROVE i.kind \in {"answer", "call"}
  BY DEF Intents

LEMMA LastReplaced ==
  ASSUME NEW T, NEW s \in Seq(T), NEW e \in T, NEW n \in T
  PROVE  [Append(s, e) EXCEPT ![Len(Append(s, e))] = n] = Append(s, n)
<1>1. PICK t : t = Append(s, e)  OBVIOUS
<1>2. t \in Seq(T) /\ Len(s) \in Nat /\ Len(t) = Len(s) + 1 /\ \A i \in 1..Len(s) : t[i] = s[i]
  BY <1>1, AppendIs
<1>3. PICK k : k = Len(t)  OBVIOUS
<1>4. k \in 1..Len(t)  BY <1>2, <1>3
<1>5. PICK r : r = [t EXCEPT ![k] = n]  OBVIOUS
<1>6. r \in Seq(T) /\ Len(r) = Len(t) /\ \A j \in 1..Len(t) : r[j] = IF j = k THEN n ELSE t[j]
  BY <1>2, <1>4, <1>5, ExceptSeq
<1>7. PICK a : a = Append(s, n)  OBVIOUS
<1>8. a \in Seq(T) /\ Len(a) = Len(s) + 1 /\ a[Len(s) + 1] = n /\ \A i \in 1..Len(s) : a[i] = s[i]
  BY <1>7, AppendIs
<1>9. \A j \in 1..Len(r) : r[j] = a[j]  BY <1>2, <1>3, <1>6, <1>8
<1>10. r = a  BY <1>2, <1>6, <1>8, <1>9, SeqEqual
<1> QED  BY <1>1, <1>3, <1>5, <1>7, <1>10

LEMMA FrontOfAppend ==
  ASSUME NEW T, NEW s \in Seq(T), NEW e \in T
  PROVE  /\ Append(s, e) \in Seq(T) /\ Append(s, e) # <<>>
         /\ Front(Append(s, e)) = s /\ Append(s, e)[Len(Append(s, e))] = e
<1>1. PICK t : t = Append(s, e)  OBVIOUS
<1>2. /\ t \in Seq(T) /\ t # <<>> /\ Len(t) = Len(s) + 1 /\ \A i \in 1..Len(s) : t[i] = s[i]
      /\ t[Len(s) + 1] = e /\ Len(s) \in Nat
  BY <1>1, AppendProperties, LenProperties
<1>3. SubSeq(t, 1, Len(s)) \in Seq(T) /\ Len(SubSeq(t, 1, Len(s))) = Len(s)
      /\ \A i \in 1..Len(s) : SubSeq(t, 1, Len(s))[i] = t[i]
  BY <1>2
<1>4. SubSeq(t, 1, Len(s)) = s  BY <1>2, <1>3, SeqEqual
<1>5. Len(t) - 1 = Len(s)  BY <1>2
<1> QED  BY <1>1, <1>2, <1>4, <1>5 DEF Front

LEMMA FrontAgain == ASSUME NEW T, NEW s \in Seq(T), s # <<>> PROVE Append(Front(s), s[Len(s)]) = s /\ Front(s) \in Seq(T)
<1>1. PICK f \in Seq(T), e \in T : s = Append(f, e)  BY SequenceEmptyOrAppend
<1> QED  BY <1>1, FrontOfAppend

LastReplacedBy(last, s, n) == last = [s EXCEPT ![Len(s)] = n]

LEMMA OnlyLastChanges ==
  ASSUME NEW T, NEW s \in Seq(T), s # <<>>, NEW n \in T, NEW last, LastReplacedBy(last, s, n)
  PROVE  last \in Seq(T) /\ last # <<>> /\ last = Append(Front(s), n)
<1>1. PICK f \in Seq(T), e \in T : s = Append(f, e)  BY SequenceEmptyOrAppend
<1>2. Front(s) = f  BY <1>1, FrontOfAppend
<1>3. last = [Append(f, e) EXCEPT ![Len(Append(f, e))] = n]  BY <1>1 DEF LastReplacedBy
<1>4. [Append(f, e) EXCEPT ![Len(Append(f, e))] = n] = Append(f, n)  BY LastReplaced
<1>5. Append(f, n) \in Seq(T) /\ Append(f, n) # <<>>  BY AppendProperties
<1> QED  BY <1>2, <1>3, <1>4, <1>5

LEMMA TraceBecomesIt ==
  ASSUME traces \in Seq(Traces), traces # <<>>, NEW w \in {"begun", "done", "failed", "handed out"},
         TraceBecomes(w)
  PROVE  /\ traces' \in Seq(Traces)
         /\ traces' = Append(Front(traces), [of |-> traces[Len(traces)].of, was |-> w])
<1>1. PICK T : T = Traces  OBVIOUS
<1>2. PICK s \in Seq(T) : s = traces  BY <1>1
<1>3. PICK n : n = [of |-> s[Len(s)].of, was |-> w]  OBVIOUS
<1>4. s[Len(s)] \in T
  <2>1. PICK f \in Seq(T), e \in T : s = Append(f, e)  BY <1>2, SequenceEmptyOrAppend
  <2> QED  BY <2>1, FrontOfAppend
<1>5. n \in T  BY <1>1, <1>3, <1>4 DEF Traces
<1>6. PICK last : last = traces'  OBVIOUS
<1>7. LastReplacedBy(last, s, n)  BY <1>2, <1>3, <1>6 DEF LastReplacedBy, TraceBecomes
<1>8. s # <<>>  BY <1>2
<1>9. last \in Seq(T) /\ last = Append(Front(s), n)  BY <1>5, <1>7, <1>8, OnlyLastChanges
<1> QED  BY <1>1, <1>2, <1>3, <1>6, <1>9

LEMMA RoundsStep == RoundsInv /\ [CompatNext]_compatVars => RoundsInv'
<1> SUFFICES ASSUME RoundsInv, [CompatNext]_compatVars PROVE RoundsInv'  OBVIOUS
<1>1. CASE UNCHANGED <<stage, intent, traces>>  BY <1>1 DEF RoundsInv
<1>2. CASE stage' \notin {"announced", "executing"} /\ UNCHANGED traces /\ intent' \in Intents
  BY <1>2 DEF RoundsInv
<1>3. ASSUME NEW w \in {"done", "failed", "handed out"}, stage \in {"announced", "executing"}, TraceBecomes(w),
             UNCHANGED intent, stage' \notin {"announced", "executing"}
      PROVE  RoundsInv'
  <2>1. traces' \in Seq(Traces)  BY <1>3, TraceBecomesIt DEF RoundsInv
  <2> QED  BY <1>3, <2>1 DEF RoundsInv
<1>4. CASE Announces
  <2>1. [of |-> intent.of, was |-> "begun"] \in Traces  BY <1>4, CalleesOf DEF Announces, RoundsInv, Traces
  <2>2. traces' = Append(traces, [of |-> intent.of, was |-> "begun"]) /\ intent' = intent /\ intent.kind = "call"
    BY <1>4 DEF Announces
  <2> QED  BY <2>1, <2>2, FrontOfAppend DEF RoundsInv
<1>5. CASE Executes  BY <1>5 DEF Executes, RoundsInv
<1>6. CASE UNCHANGED compatVars  BY <1>1, <1>6 DEF compatVars, roundPart
<1>7. CASE ReaderLeaves  BY <1>1, <1>7 DEF ReaderLeaves, roundPart
<1>8. CASE RoundOpens  BY <1>8 DEF RoundOpens, RoundsInv
<1>9. ASSUME Hears PROVE RoundsInv'  BY <1>1, <1>9 DEF Hears, roundPart
<1>10. CASE StreamThrows  BY <1>10 DEF StreamThrows, RoundsInv
<1>11. ASSUME NEW i \in Intents, NEW b \in BOOLEAN, DirectEnds(i, b) \/ RoundEnds(i, b) PROVE RoundsInv'
  BY <1>2, <1>11 DEF DirectEnds, RoundEnds, Finishes
<1>12. CASE Stops  BY <1>12 DEF Stops, Finishes, RoundsInv
<1>13. CASE HandsOut  BY <1>3, <1>13 DEF HandsOut, Finishes
<1>14. CASE ToolReturns  BY <1>3, <1>14 DEF ToolReturns
<1>15. CASE ToolBreaks  BY <1>3, <1>15 DEF ToolBreaks, GivesUp, Finishes
<1>16. CASE RoundsOver  BY <1>16 DEF RoundsOver, Finishes, RoundsInv
<1> QED  BY <1>4, <1>5, <1>6, <1>7, <1>8, <1>9, <1>10, <1>11, <1>12, <1>13, <1>14, <1>15, <1>16
         DEF CompatNext, StreamGoes, HearsStarted, HearsToken, HearsToolDelta

LEMMA RoundsStart == CompatInit => RoundsInv /\ Plain!RoundsInit
<1> SUFFICES ASSUME CompatInit PROVE RoundsInv /\ Plain!RoundsInit  OBVIOUS
<1>1. intent \in Intents  BY DEF CompatInit, Intents, Texts
<1>2. traces \in Seq(Traces)
  <2>1. PICK T : T = Traces  OBVIOUS
  <2>2. <<>> \in Seq(T)  BY EmptySeq
  <2> QED  BY <2>1, <2>2 DEF CompatInit
<1>3. RoundsInv  BY <1>1, <1>2 DEF CompatInit, RoundsInv
<1> QED  BY <1>3 DEF CompatInit, Plain!RoundsInit, Plain!Silence

LEMMA RoundsRefine ==
  ASSUME RoundsInv, [CompatNext]_compatVars
  PROVE  [direct \/ Plain!RoundsNext]_(Plain!roundVars)
<1> USE DEF Plain!roundVars
<1>1. ASSUME stage' = stage, UNCHANGED <<round, intent, traces, conversation, reasoned, finalText, finishReason, saved>>
      PROVE  UNCHANGED Plain!roundVars
  BY <1>1
<1> HIDE DEF Plain!roundVars
<1>2. CASE UNCHANGED compatVars  BY <1>1, <1>2 DEF compatVars, roundPart
<1>3. CASE ReaderLeaves  BY <1>1, <1>3 DEF ReaderLeaves, roundPart
<1>4. ASSUME Hears PROVE [direct \/ Plain!RoundsNext]_(Plain!roundVars)
  BY <1>1, <1>4 DEF Hears, roundPart
<1>5. ASSUME ~direct, RoundOpens PROVE Plain!RoundBegins
  BY <1>5 DEF RoundOpens, outcome2, Plain!RoundBegins, Rounds, Plain!Rounds
<1>6. ASSUME StreamThrows PROVE Plain!ModelFails
  BY <1>6 DEF StreamThrows, outcome2, Plain!ModelFails
<1>7. ASSUME NEW i \in Intents, NEW b \in BOOLEAN, DirectEnds(i, b) \/ RoundEnds(i, b)
      PROVE  direct \/ Plain!RoundsNext
  <2>1. i \in Plain!Intents  BY DEF Intents, Texts, Plain!Intents, Plain!Texts, Plain!Callees
  <2>2. RoundEnds(i, b) => Plain!ModelCompletes(i, b)  BY DEF RoundEnds, outcome2, Plain!ModelCompletes
  <2> QED  BY <1>7, <2>1, <2>2 DEF DirectEnds, Plain!RoundsNext
<1>8. ASSUME Stops PROVE Plain!AnswerIsFinal
  BY <1>8 DEF Stops, Finishes, Plain!AnswerIsFinal, Plain!Closes
<1>9. ASSUME Announces PROVE UNCHANGED Plain!roundVars
  <2>1. [of |-> intent.of, was |-> "begun"] \in Traces  BY <1>9, CalleesOf DEF Announces, RoundsInv, Traces
  <2>2. PICK T : T = Traces  OBVIOUS
  <2>3. PICK e \in T : e = [of |-> intent.of, was |-> "begun"]  BY <2>1, <2>2
  <2>4. traces \in Seq(T)  BY <2>2 DEF RoundsInv
  <2>5. Front(Append(traces, e)) = traces  BY <2>4, FrontOfAppend
  <2>6. Front(traces') = traces /\ stage' = "announced" /\ stage = "decided"
    BY <1>9, <2>3, <2>5 DEF Announces
  <2> QED  BY <1>9, <2>6 DEF Announces, outcome2, Plain!roundVars
<1>10. CanRun(intent.of) <=> Plain!CanExecute(intent.of)  BY DEF CanRun, Plain!CanExecute
<1>11. stage \in {"announced", "executing"} =>
         /\ intent.kind = "call" /\ traces # <<>> /\ traces[Len(traces)] = [of |-> intent.of, was |-> "begun"]
         /\ Front(traces) \in Seq(Traces) /\ Append(Front(traces), [of |-> intent.of, was |-> "begun"]) = traces
  BY FrontAgain DEF RoundsInv
<1>12. ASSUME Executes PROVE Plain!CallIsExecuted
  BY <1>10, <1>11, <1>12 DEF Executes, outcome2, Plain!CallIsExecuted
<1>13. ASSUME NEW w \in {"done", "failed", "handed out"}, stage \in {"announced", "executing"}, TraceBecomes(w)
       PROVE  traces' = Append(Front(traces), [of |-> intent.of, was |-> w])
  <2>1. traces \in Seq(Traces) /\ traces # <<>>  BY <1>11, <1>13 DEF RoundsInv
  <2>2. traces' = Append(Front(traces), [of |-> traces[Len(traces)].of, was |-> w])
    BY <1>13, <2>1, TraceBecomesIt
  <2>3. PICK e : e = [of |-> intent.of, was |-> "begun"]  OBVIOUS
  <2>4. traces[Len(traces)] = e /\ e.of = intent.of  BY <1>11, <1>13, <2>3
  <2> QED  BY <2>2, <2>4
<1>14. ASSUME HandsOut PROVE Plain!CallIsHandedOut
  BY <1>10, <1>11, <1>13, <1>14 DEF HandsOut, Finishes, Plain!CallIsHandedOut, Plain!Closes
<1>15. ASSUME ToolReturns PROVE Plain!ToolSucceeds
  BY <1>15 DEF ToolReturns, TraceBecomes, outcome2, Plain!ToolSucceeds, Plain!LastTraceIs
<1>16. ASSUME ToolBreaks PROVE Plain!ToolThrows
  BY <1>16 DEF ToolBreaks, TraceBecomes, GivesUp, Finishes, Plain!ToolThrows, Plain!LastTraceIs, Plain!Closes
<1>17. ASSUME RoundsOver PROVE Plain!RoundsUsedUp
  BY <1>17 DEF RoundsOver, Finishes, Plain!RoundsUsedUp, Plain!Closes, Rounds, Plain!Rounds
<1>18. CASE StreamGoes
  <2>1. direct \/ Plain!RoundsNext \/ UNCHANGED Plain!roundVars
    BY <1>4, <1>5, <1>6, <1>7, <1>8, <1>9, <1>12, <1>14, <1>15, <1>16, <1>17, <1>18
       DEF StreamGoes, HearsStarted, HearsToken, HearsToolDelta, Plain!RoundsNext
  <2> QED  BY <2>1
<1> QED  BY <1>2, <1>3, <1>18 DEF CompatNext

(* A behaviour of the sum runs the chat or leaves it alone.                *)
LEMMA ChatPart ==
  ASSUME [SchedulersNext]_parts
  PROVE  [CompatNext]_compatVars
  BY DEF SchedulersNext, parts, answeringVars

(* The streamed run goes through the rounds of the one that is not.        *)
THEOREM RoundsRefined == SchedulersSpec => ImplementsRounds
<1>1. SchedulersInit => RoundsInv /\ Plain!RoundsInit  BY RoundsStart DEF SchedulersInit
<1>2. RoundsInv /\ [SchedulersNext]_parts => RoundsInv'  BY ChatPart, RoundsStep
<1>3. RoundsInv /\ [SchedulersNext]_parts => [direct \/ Plain!RoundsNext]_(Plain!roundVars)
  BY ChatPart, RoundsRefine
<1> QED  BY <1>1, <1>2, <1>3, PTL DEF SchedulersSpec, ImplementsRounds

(***************************************************************************)
(* The blocks of the Anthropic layer.                                      *)
(***************************************************************************)
Kinds  == {"reasoning", "content", "tool_use"}
Blocks == [kind : Kinds, calls : SUBSET Chunks]
UsedIn(g) == {i \in CallIndices : g[i] # {}}

(* The blocks made of gathered calls: one of each index that has any.      *)
BlocksOf(T, g) ==
  /\ T \in Seq(Blocks)
  /\ \A k \in 1..Len(T) : T[k].kind = "tool_use" /\ \E i \in UsedIn(g) : T[k].calls = g[i]
  /\ \A i \in UsedIn(g) : \E k \in 1..Len(T) : T[k].calls = g[i]
  /\ \A j, k \in 1..Len(T) : j # k =>
       \E h, i \in UsedIn(g) : h # i /\ T[j].calls = g[h] /\ T[k].calls = g[i]

LEMMA ToolBlocksAre ==
  ASSUME NEW m, m.gathered \in [CallIndices -> SUBSET Chunks], IsFiniteSet(UsedIn(m.gathered))
  PROVE  BlocksOf(ToolBlocks(m), m.gathered)
<1>1. PICK S : S = UsedIn(m.gathered)  OBVIOUS
<1>2. (\A i \in S : i \in Nat) /\ IsFiniteSet(S) /\ S \subseteq CallIndices  BY <1>1, StreamAssumption DEF UsedIn
<1>3. PICK n \in Nat : n = Cardinality(S)  BY <1>2, FS_CardinalityType
<1>4. PICK s : s = CHOOSE t \in [1..n -> S] : \A j, k \in 1..n : j < k => t[j] < t[k]  OBVIOUS
<1>5. \E t \in [1..n -> S] : \A j, k \in 1..n : j < k => t[j] < t[k]
  BY <1>2, <1>3, SortedExists DEF Increases
<1>6. s \in [1..n -> S] /\ Increases(s, n)  BY <1>4, <1>5 DEF Increases
<1>7. /\ \A j, k \in 1..n : j # k => s[j] # s[k]
      /\ \A i \in S : \E k \in 1..n : s[k] = i
  <2>1. \A i \in S : i \in Nat  BY <1>2
  <2>2. Enumerates(s, n, S)  BY <1>2, <1>3, <1>6, <2>1 DEF Enumerates
  <2>3. HasEach(s, n, S)  BY <2>2, SortedHasAll
  <2> QED  BY <2>3 DEF HasEach
<1>8. PICK T : T = [k \in 1..n |-> [kind |-> "tool_use", calls |-> m.gathered[s[k]]]]  OBVIOUS
<1>9. ToolBlocks(m) = T  BY <1>1, <1>3, <1>4, <1>8 DEF ToolBlocks, UsedIn
<1>10. PICK g : g = m.gathered /\ g \in [CallIndices -> SUBSET Chunks]  OBVIOUS
<1>11. \A k \in 1..n : s[k] \in S /\ m.gathered[s[k]] \in SUBSET Chunks
  <2> SUFFICES ASSUME NEW k \in 1..n PROVE s[k] \in S /\ g[s[k]] \in SUBSET Chunks  BY <1>10
  <2> QED  BY <1>2, <1>6, <1>10
<1>12. \A k \in 1..n : T[k] \in Blocks /\ T[k].kind = "tool_use" /\ T[k].calls = m.gathered[s[k]]
  <2> SUFFICES ASSUME NEW k \in 1..n
               PROVE  T[k] \in Blocks /\ T[k].kind = "tool_use" /\ T[k].calls = m.gathered[s[k]]
    OBVIOUS
  <2>1. PICK c \in SUBSET Chunks : c = m.gathered[s[k]]  BY <1>11
  <2>2. T[k] = [kind |-> "tool_use", calls |-> c]  BY <1>8, <2>1
  <2> QED  BY <2>1, <2>2 DEF Blocks, Kinds
<1>13. PICK B : B = Blocks  OBVIOUS
<1>14. T \in Seq(B) /\ Len(T) = n
  <2>1. T \in [1..n -> B]  BY <1>8, <1>12, <1>13
  <2> QED  BY <1>3, <2>1
<1>15. \A k \in 1..n : T[k].kind = "tool_use" /\ T[k].calls = m.gathered[s[k]]  BY <1>12
<1>16. \A j, k \in 1..n : j # k => \E h, i \in S : h # i /\ T[j].calls = m.gathered[h] /\ T[k].calls = m.gathered[i]
  BY <1>7, <1>11, <1>15
<1>17. \A k \in 1..n : T[k].kind = "tool_use" /\ \E i \in S : T[k].calls = m.gathered[i]  BY <1>11, <1>15
<1>18. \A i \in S : \E k \in 1..n : T[k].calls = m.gathered[i]  BY <1>7, <1>15
<1>19. BlocksOf(T, g)
  <2>1. T \in Seq(Blocks) /\ Len(T) = n  BY <1>13, <1>14
  <2>2. UsedIn(g) = S /\ g = m.gathered  BY <1>1, <1>10
  <2>3. \A k \in 1..Len(T) : T[k].kind = "tool_use" /\ \E i \in UsedIn(g) : T[k].calls = g[i]
    BY <1>17, <2>1, <2>2
  <2>4. \A i \in UsedIn(g) : \E k \in 1..Len(T) : T[k].calls = g[i]  BY <1>18, <2>1, <2>2
  <2>5. \A j, k \in 1..Len(T) : j # k =>
          \E h, i \in UsedIn(g) : h # i /\ T[j].calls = g[h] /\ T[k].calls = g[i]
    BY <1>16, <2>1, <2>2
  <2> QED  BY <2>1, <2>3, <2>4, <2>5 DEF BlocksOf
<1> QED  BY <1>9, <1>10, <1>19

(***************************************************************************)
(* What the layer has made of the chunks o.                                *)
(***************************************************************************)
At(o, kind)  == {k \in 1..Len(o) : o[k].kind = kind}
Opens(o)     == {k \in 1..Len(o) : /\ o[k].kind \in {"reasoning", "content"}
                                   /\ \A n \in 1..(k - 1) : o[n].kind # o[k].kind}
Holding(bs, x) == {b \in 1..Len(bs) : x \in bs[b].calls}
Came(o, x)   == \E l \in 1..Len(o) : o[l] = x

(* A piece that came on both sides of a block that was opened.             *)
Again(o, x)  == \E t \in Opens(o), j, l \in 1..Len(o) : o[j] = x /\ o[l] = x /\ j < t /\ t < l

(* A call that is in a block came before another block was opened.         *)
Shut(o, bs) == \A b \in 1..Len(bs) : \A x \in bs[b].calls :
                 \E t \in Opens(o), l \in 1..Len(o) : o[l] = x /\ l < t

GatherOK(o, g) ==
  /\ g \in [CallIndices -> SUBSET Chunks] /\ IsFiniteSet(UsedIn(g))
  /\ \A i \in CallIndices : \A x \in g[i] : x.kind = "call" /\ x.index = i /\ Came(o, x)
BlocksOK(o, bs) ==
  /\ bs \in Seq(Blocks)
  /\ \A b \in 1..Len(bs) : \A x \in bs[b].calls : x.kind = "call" /\ Came(o, x)
  /\ \A a, b \in 1..Len(bs) : bs[a].kind = bs[b].kind /\ a # b => bs[a].kind = "tool_use"
  /\ \A kd \in {"reasoning", "content"} : At(o, kd) # {} <=> \E b \in 1..Len(bs) : bs[b].kind = kd
  /\ \A b, c \in 1..Len(bs) : \A x \in bs[b].calls : b # c /\ x \in bs[c].calls => Again(o, x)
KeptOK(o, g, bs) == \A k \in At(o, "call") : o[k] \in g[o[k].index] \/ Holding(bs, o[k]) # {}
BothOK(o, g, bs) == \A i \in CallIndices : \A x \in g[i] : Holding(bs, x) # {} => Again(o, x)
BeforeOK(o, bs) ==
  \A k \in At(o, "call") : \A t \in Opens(o) : t > k =>
    \E b, c \in 1..Len(bs) : c \in Holding(bs, o[k]) /\ bs[b].kind = o[t].kind /\ c < b

LayerOK(o, g, bs) ==
  GatherOK(o, g) /\ BlocksOK(o, bs) /\ KeptOK(o, g, bs) /\ BothOK(o, g, bs) /\ BeforeOK(o, bs)

(* p is o and one chunk y more.                                            *)
OneMore(o, p, y) ==
  /\ o \in Seq(Chunks) /\ y \in Chunks /\ p \in Seq(Chunks)
  /\ Len(o) \in Nat /\ Len(p) = Len(o) + 1
  /\ p[Len(o) + 1] = y /\ \A k \in 1..Len(o) : p[k] = o[k]

LEMMA AppendIsMore ==
  ASSUME NEW o \in Seq(Chunks), NEW y \in Chunks
  PROVE  OneMore(o, Append(o, y), y)
<1>1. PICK S : S = Chunks  OBVIOUS
<1>2. PICK p : p = Append(o, y)  OBVIOUS
<1>3. p \in Seq(S) /\ Len(p) = Len(o) + 1 /\ p[Len(o) + 1] = y /\ \A k \in 1..Len(o) : p[k] = o[k]
  BY <1>1, <1>2, AppendProperties
<1>4. Len(o) \in Nat  BY LenProperties
<1> QED  BY <1>1, <1>2, <1>3, <1>4 DEF OneMore

LEMMA ChunkKinds ==
  ASSUME NEW y \in Chunks
  PROVE  /\ y.kind \in {"preamble", "reasoning", "content", "output", "call", "finish"}
         /\ y.kind = "call" => y.index \in CallIndices /\ y.round \in 1..Rounds
  BY DEF Chunks

LEMMA MoreOpens ==
  ASSUME NEW o, NEW p, NEW y, OneMore(o, p, y)
  PROVE  /\ Opens(o) \subseteq Opens(p) /\ Opens(p) \subseteq Opens(o) \cup {Len(p)}
         /\ y.kind \notin {"reasoning", "content"} => Opens(p) = Opens(o)
         /\ y.kind \in {"reasoning", "content"} => (Len(p) \in Opens(p) <=> At(o, y.kind) = {})
         /\ \A x : Came(o, x) => Came(p, x)
         /\ \A x : Again(o, x) => Again(p, x)
         /\ \A t \in Opens(o) : t \in 1..Len(o)
         /\ \A kind : At(o, kind) \subseteq At(p, kind) /\ At(p, kind) \subseteq At(o, kind) \cup {Len(p)}
         /\ \A kind : Len(p) \in At(p, kind) <=> y.kind = kind
<1> USE DEF OneMore
<1>1. Len(o) \in Nat /\ Len(p) = Len(o) + 1 /\ 1..Len(o) \subseteq 1..Len(p)
      /\ \A k \in 1..Len(p) : k \in 1..Len(o) \/ k = Len(p)
  OBVIOUS
<1>2. \A t \in Opens(o) : t \in 1..Len(o)  BY DEF Opens
<1>3. ASSUME NEW k \in 1..Len(o) PROVE k \in Opens(o) <=> k \in Opens(p)
  <2>1. \A n \in 1..(k - 1) : n \in 1..Len(o)  BY <1>1
  <2> QED  BY <1>1, <2>1 DEF Opens
<1>4. Len(p) \in 1..Len(p) /\ p[Len(p)] = y /\ Len(p) - 1 = Len(o)  BY <1>1
<1>5. Len(p) \in Opens(p) <=> y.kind \in {"reasoning", "content"} /\ \A n \in 1..Len(o) : o[n].kind # y.kind
  <2>1. Len(p) \in Opens(p) <=> y.kind \in {"reasoning", "content"} /\ \A n \in 1..Len(o) : p[n].kind # y.kind
    BY <1>4 DEF Opens
  <2> QED  BY <2>1
<1>6. Opens(p) \subseteq 1..Len(p)  BY DEF Opens
<1>7. Opens(o) \subseteq Opens(p) /\ Opens(p) \subseteq Opens(o) \cup {Len(p)}  BY <1>1, <1>2, <1>3, <1>6
<1>8. ASSUME y.kind \notin {"reasoning", "content"} PROVE Opens(p) = Opens(o)  BY <1>5, <1>7, <1>8
<1>9. y.kind \in {"reasoning", "content"} => (Len(p) \in Opens(p) <=> At(o, y.kind) = {})  BY <1>5 DEF At
<1>10. \A x : Came(o, x) => Came(p, x)  BY <1>1 DEF Came
<1>11. ASSUME NEW x, Again(o, x) PROVE Again(p, x)
  <2>1. PICK t \in Opens(o), j, l \in 1..Len(o) : o[j] = x /\ o[l] = x /\ j < t /\ t < l  BY <1>11 DEF Again
  <2>2. j \in 1..Len(p) /\ l \in 1..Len(p) /\ p[j] = x /\ p[l] = x /\ t \in Opens(p)  BY <1>1, <1>7, <2>1
  <2> QED  BY <2>1, <2>2 DEF Again
<1>12. \A kind : At(o, kind) \subseteq At(p, kind) /\ At(p, kind) \subseteq At(o, kind) \cup {Len(p)}  BY <1>1 DEF At
<1>13. \A kind : Len(p) \in At(p, kind) <=> y.kind = kind  BY <1>4 DEF At
<1> QED  BY <1>2, <1>7, <1>8, <1>9, <1>10, <1>11, <1>12, <1>13

LEMMA SameAt ==
  ASSUME NEW o, NEW p, NEW y, OneMore(o, p, y)
  PROVE  \A kind : y.kind # kind => At(p, kind) = At(o, kind)
<1> SUFFICES ASSUME NEW kind, y.kind # kind PROVE At(p, kind) = At(o, kind)  OBVIOUS
<1>1. At(o, kind) \subseteq At(p, kind) /\ At(p, kind) \subseteq At(o, kind) \cup {Len(p)}  BY MoreOpens
<1>2. Len(p) \notin At(p, kind)  BY MoreOpens
<1> QED  BY <1>1, <1>2

OpensNothing(o, y) == y.kind # "call" /\ (y.kind \in {"reasoning", "content"} => At(o, y.kind) # {})

(* A chunk that opens nothing and gathers nothing changes nothing.         *)
LEMMA OtherChunk ==
  ASSUME NEW o, NEW p, NEW y, OneMore(o, p, y), OpensNothing(o, y),
         NEW g, NEW bs, LayerOK(o, g, bs), Shut(o, bs)
  PROVE  LayerOK(p, g, bs) /\ Shut(p, bs)
<1>0. Opens(p) = Opens(o)
  <2>1. CASE y.kind \notin {"reasoning", "content"}  BY <2>1, MoreOpens
  <2>2. CASE y.kind \in {"reasoning", "content"}
    <3>1. At(o, y.kind) # {}  BY <2>2 DEF OpensNothing
    <3>2. Len(p) \notin Opens(p)  BY <2>2, <3>1, MoreOpens
    <3>3. Opens(o) \subseteq Opens(p) /\ Opens(p) \subseteq Opens(o) \cup {Len(p)}  BY MoreOpens
    <3> QED  BY <3>2, <3>3
  <2> QED  BY <2>1, <2>2
<1>1. Opens(p) = Opens(o) /\ (\A x : Came(o, x) => Came(p, x)) /\ (\A x : Again(o, x) => Again(p, x))
  BY <1>0, MoreOpens
<1>2. At(p, "call") = At(o, "call") /\ \A kd \in {"reasoning", "content"} : At(p, kd) # {} <=> At(o, kd) # {}
  <2>1. At(p, "call") = At(o, "call")  BY SameAt DEF OpensNothing
  <2>2. ASSUME NEW kd \in {"reasoning", "content"} PROVE At(p, kd) # {} <=> At(o, kd) # {}
    <3>1. CASE y.kind # kd  BY <3>1, SameAt
    <3>2. CASE y.kind = kd
      <4>1. At(o, kd) # {}  BY <3>2 DEF OpensNothing
      <4>2. At(o, kd) \subseteq At(p, kd)  BY MoreOpens
      <4> QED  BY <4>1, <4>2
    <3> QED  BY <3>1, <3>2
  <2> QED  BY <2>1, <2>2
<1>3. \A k \in 1..Len(o) : p[k] = o[k] /\ k \in 1..Len(p)  BY DEF OneMore
<1>4. GatherOK(p, g)  BY <1>1 DEF LayerOK, GatherOK
<1>5. BlocksOK(p, bs)  BY <1>1, <1>2 DEF LayerOK, BlocksOK
<1>6. \A k \in At(p, "call") : k \in At(o, "call") /\ p[k] = o[k]  BY <1>2, <1>3 DEF At
<1>7. KeptOK(p, g, bs)  BY <1>6 DEF LayerOK, KeptOK
<1>8. BothOK(p, g, bs)  BY <1>1 DEF LayerOK, BothOK
<1>9. BeforeOK(p, bs)
  <2>1. \A t \in Opens(p) : t \in Opens(o) /\ p[t] = o[t]  BY <1>1, <1>3 DEF Opens
  <2> QED  BY <1>6, <2>1 DEF LayerOK, BeforeOK
<1>10. Shut(p, bs)
  <2> SUFFICES ASSUME NEW b \in 1..Len(bs), NEW x \in bs[b].calls
               PROVE  \E t \in Opens(p), l \in 1..Len(p) : p[l] = x /\ l < t
    BY DEF Shut
  <2>1. PICK t \in Opens(o), l \in 1..Len(o) : o[l] = x /\ l < t  BY DEF Shut
  <2> QED  BY <1>1, <1>3, <2>1
<1> QED  BY <1>4, <1>5, <1>7, <1>8, <1>9, <1>10 DEF LayerOK

(* A piece of a call is gathered.                                          *)
LEMMA CallChunk ==
  ASSUME NEW o, NEW p, NEW y, OneMore(o, p, y), y.kind = "call",
         NEW g, NEW bs, LayerOK(o, g, bs), Shut(o, bs),
         NEW h, h = [g EXCEPT ![y.index] = @ \cup {y}]
  PROVE  LayerOK(p, h, bs) /\ Shut(p, bs)
<1>1. Opens(p) = Opens(o) /\ (\A x : Came(o, x) => Came(p, x)) /\ (\A x : Again(o, x) => Again(p, x))
  BY MoreOpens
<1>2. \A kd \in {"reasoning", "content"} : At(p, kd) = At(o, kd)  BY MoreOpens
<1>3. \A k \in 1..Len(o) : p[k] = o[k] /\ k \in 1..Len(p)  BY DEF OneMore
<1>4. PICK i \in CallIndices : i = y.index /\ y \in Chunks  BY ChunkKinds DEF OneMore
<1>5. Len(p) \in 1..Len(p) /\ p[Len(p)] = y /\ Len(o) \in Nat /\ Len(p) = Len(o) + 1  BY DEF OneMore
<1>6. g \in [CallIndices -> SUBSET Chunks]  BY DEF LayerOK, GatherOK
<1>7. h \in [CallIndices -> SUBSET Chunks] /\ \A n \in CallIndices : h[n] = IF n = i THEN g[n] \cup {y} ELSE g[n]
  BY <1>4, <1>6
<1>8. GatherOK(p, h)
  <2>1. PICK U : U = UsedIn(g) /\ IsFiniteSet(U)  BY DEF LayerOK, GatherOK
  <2>2. UsedIn(h) \subseteq U \cup {i}  BY <1>7, <2>1 DEF UsedIn
  <2>3. IsFiniteSet(U \cup {i})  BY <2>1, FS_AddElement
  <2>4. IsFiniteSet(UsedIn(h))  BY <2>2, <2>3, FS_Subset
  <2>5. Came(p, y)  BY <1>5 DEF Came
  <2>6. ASSUME NEW n \in CallIndices, NEW x \in h[n] PROVE x.kind = "call" /\ x.index = n /\ Came(p, x)
    <3>1. CASE x \in g[n]  BY <1>1, <3>1 DEF LayerOK, GatherOK
    <3>2. CASE x = y /\ n = i  BY <1>4, <2>5, <3>2
    <3> QED  BY <1>7, <3>1, <3>2
  <2> QED  BY <1>7, <2>4, <2>6 DEF GatherOK
<1>9. BlocksOK(p, bs)  BY <1>1, <1>2 DEF LayerOK, BlocksOK
<1>10. KeptOK(p, h, bs)
  <2> SUFFICES ASSUME NEW k \in At(p, "call") PROVE p[k] \in h[p[k].index] \/ Holding(bs, p[k]) # {}  BY DEF KeptOK
  <2>1. CASE k = Len(p)  BY <1>4, <1>5, <1>7, <2>1
  <2>2. CASE k \in At(o, "call")
    <3>1. o[k] \in g[o[k].index] \/ Holding(bs, o[k]) # {}  BY <2>2 DEF LayerOK, KeptOK
    <3>2. p[k] = o[k] /\ o[k] \in Chunks /\ o[k].kind = "call"  BY <1>3, <2>2 DEF At, OneMore
    <3>3. o[k].index \in CallIndices  BY <3>2, ChunkKinds
    <3> QED  BY <1>7, <3>1, <3>2, <3>3
  <2> QED  BY <2>1, <2>2, MoreOpens
<1>11. BothOK(p, h, bs)
  <2> SUFFICES ASSUME NEW n \in CallIndices, NEW x \in h[n], Holding(bs, x) # {} PROVE Again(p, x)  BY DEF BothOK
  <2>1. CASE x \in g[n]  BY <1>1, <2>1 DEF LayerOK, BothOK
  <2>2. CASE x = y
    <3>1. PICK b \in 1..Len(bs) : x \in bs[b].calls  BY DEF Holding
    <3>2. PICK t \in Opens(o), l \in 1..Len(o) : o[l] = x /\ l < t  BY <3>1 DEF Shut
    <3>3. t < Len(p) /\ t \in Opens(p)  BY <1>1, <1>5, <3>2, MoreOpens
    <3> QED  BY <1>3, <1>5, <2>2, <3>2, <3>3 DEF Again
  <2> QED  BY <1>7, <2>1, <2>2
<1>12. BeforeOK(p, bs)
  <2> SUFFICES ASSUME NEW k \in At(p, "call"), NEW t \in Opens(p), t > k
               PROVE  \E b, c \in 1..Len(bs) : c \in Holding(bs, p[k]) /\ bs[b].kind = p[t].kind /\ c < b
    BY DEF BeforeOK
  <2>1. t \in Opens(o) /\ t \in 1..Len(o) /\ p[t] = o[t]  BY <1>1, <1>3, MoreOpens
  <2>2. k # Len(p)  BY <1>5, <2>1
  <2>3. k \in At(o, "call")  BY <2>2, MoreOpens
  <2>4. p[k] = o[k]  BY <1>3, <2>3 DEF At
  <2> QED  BY <2>1, <2>3, <2>4 DEF LayerOK, BeforeOK
<1>13. Shut(p, bs)
  <2> SUFFICES ASSUME NEW b \in 1..Len(bs), NEW x \in bs[b].calls
               PROVE  \E t \in Opens(p), l \in 1..Len(p) : p[l] = x /\ l < t
    BY DEF Shut
  <2>1. PICK t \in Opens(o), l \in 1..Len(o) : o[l] = x /\ l < t  BY DEF Shut
  <2> QED  BY <1>1, <1>3, <2>1
<1> QED  BY <1>8, <1>9, <1>10, <1>11, <1>12, <1>13 DEF LayerOK

(* What is gathered is put behind the blocks there are.                    *)
FlushedIs(o, bs, cs) ==
  /\ cs \in Seq(Blocks) /\ Len(bs) \in Nat /\ Len(cs) \in Nat /\ Len(bs) <= Len(cs)
  /\ \A b \in 1..Len(bs) : cs[b] = bs[b]
  /\ \A b \in 1..Len(cs) : b \in 1..Len(bs) \/ cs[b].kind = "tool_use"
  /\ \A b \in 1..Len(cs) : \A x \in cs[b].calls : x.kind = "call" /\ Came(o, x)
  /\ \A k \in At(o, "call") : Holding(cs, o[k]) # {}
  /\ \A b, c \in 1..Len(cs) : \A x \in cs[b].calls : b # c /\ x \in cs[c].calls => Again(o, x)

LEMMA Flushed ==
  ASSUME NEW o, NEW g, NEW bs, LayerOK(o, g, bs), o \in Seq(Chunks),
         NEW T, BlocksOf(T, g), NEW cs, cs = bs \o T
  PROVE  FlushedIs(o, bs, cs)
<1> USE DEF LayerOK
<1>1. PICK B : B = Blocks  OBVIOUS
<1>2. bs \in Seq(B) /\ T \in Seq(B)  BY <1>1 DEF BlocksOK, BlocksOf
<1>3. Len(bs) \in Nat /\ Len(T) \in Nat  BY <1>2, LenProperties
<1>4. /\ cs \in Seq(B) /\ Len(cs) = Len(bs) + Len(T)
      /\ \A b \in 1..(Len(bs) + Len(T)) : cs[b] = IF b <= Len(bs) THEN bs[b] ELSE T[b - Len(bs)]
  BY <1>2, ConcatProperties
<1>5. \A b \in 1..Len(bs) : cs[b] = bs[b]  BY <1>3, <1>4
<1>6. \A b \in 1..Len(cs) : b \in 1..Len(bs) \/ (b - Len(bs) \in 1..Len(T) /\ cs[b] = T[b - Len(bs)])
  BY <1>3, <1>4
<1>7. \A k \in 1..Len(T) : k + Len(bs) \in 1..Len(cs) /\ cs[k + Len(bs)] = T[k]  BY <1>3, <1>4
<1>8. \A k \in 1..Len(T) : T[k].kind = "tool_use" /\ \E i \in UsedIn(g) : T[k].calls = g[i]  BY DEF BlocksOf
<1>9. \A b \in 1..Len(cs) : b \in 1..Len(bs) \/ cs[b].kind = "tool_use"  BY <1>6, <1>8
<1>10. \A i \in UsedIn(g) : i \in CallIndices  BY DEF UsedIn
<1>11. ASSUME NEW b \in 1..Len(cs), NEW x \in cs[b].calls PROVE x.kind = "call" /\ Came(o, x)
  <2>1. CASE b \in 1..Len(bs)  BY <1>5, <2>1 DEF BlocksOK
  <2>2. CASE b - Len(bs) \in 1..Len(T) /\ cs[b] = T[b - Len(bs)]
    <3>1. PICK i \in CallIndices : cs[b].calls = g[i]  BY <1>8, <1>10, <2>2
    <3> QED  BY <3>1 DEF GatherOK
  <2> QED  BY <1>6, <2>1, <2>2
<1>12. ASSUME NEW k \in At(o, "call") PROVE Holding(cs, o[k]) # {}
  <2>1. o[k] \in Chunks /\ o[k].kind = "call"  BY DEF At
  <2>2. o[k].index \in CallIndices  BY <2>1, ChunkKinds
  <2>3. CASE Holding(bs, o[k]) # {}
    <3>1. PICK b \in 1..Len(bs) : o[k] \in bs[b].calls  BY <2>3 DEF Holding
    <3>2. b \in 1..Len(cs) /\ o[k] \in cs[b].calls  BY <1>3, <1>4, <1>5, <3>1
    <3> QED  BY <3>2 DEF Holding
  <2>4. CASE o[k] \in g[o[k].index]
    <3>1. o[k].index \in UsedIn(g)  BY <2>2, <2>4 DEF UsedIn
    <3>2. PICK j \in 1..Len(T) : T[j].calls = g[o[k].index]  BY <3>1 DEF BlocksOf
    <3>3. j + Len(bs) \in 1..Len(cs) /\ o[k] \in cs[j + Len(bs)].calls  BY <1>7, <2>4, <3>2
    <3> QED  BY <3>3 DEF Holding
  <2> QED  BY <2>3, <2>4 DEF KeptOK
<1>13. ASSUME NEW b \in 1..Len(bs), NEW j \in 1..Len(T), NEW x \in bs[b].calls, x \in T[j].calls PROVE Again(o, x)
  <2>1. PICK i \in CallIndices : T[j].calls = g[i]  BY <1>8, <1>10
  <2>2. Holding(bs, x) # {}  BY DEF Holding
  <2> QED  BY <1>13, <2>1, <2>2 DEF BothOK
<1>14. ASSUME NEW b \in 1..Len(cs), NEW c \in 1..Len(cs), NEW x \in cs[b].calls, b # c, x \in cs[c].calls
       PROVE  Again(o, x)
  <2>1. CASE b \in 1..Len(bs) /\ c \in 1..Len(bs)  BY <1>5, <1>14, <2>1 DEF BlocksOK
  <2>2. CASE b \in 1..Len(bs) /\ c \notin 1..Len(bs)  BY <1>5, <1>6, <1>13, <1>14, <2>2
  <2>3. CASE b \notin 1..Len(bs) /\ c \in 1..Len(bs)  BY <1>5, <1>6, <1>13, <1>14, <2>3
  <2>4. CASE b \notin 1..Len(bs) /\ c \notin 1..Len(bs)
    <3>1. PICK j, k \in 1..Len(T) : j = b - Len(bs) /\ k = c - Len(bs) /\ cs[b] = T[j] /\ cs[c] = T[k]
      BY <1>6, <2>4
    <3>2. j # k  BY <1>3, <1>14, <3>1
    <3>3. PICK h, i \in UsedIn(g) : h # i /\ T[j].calls = g[h] /\ T[k].calls = g[i]  BY <3>2 DEF BlocksOf
    <3>4. x \in g[h] /\ x \in g[i]  BY <1>14, <3>1, <3>3
    <3>5. x.index = h /\ x.index = i  BY <1>10, <3>4 DEF GatherOK
    <3> QED  BY <3>3, <3>5
  <2> QED  BY <2>1, <2>2, <2>3, <2>4
<1>15. Len(cs) \in Nat /\ Len(bs) <= Len(cs)  BY <1>3, <1>4
<1> QED  BY <1>1, <1>3, <1>4, <1>5, <1>9, <1>11, <1>12, <1>14, <1>15 DEF FlushedIs

LEMMA NothingIsGathered ==
  ASSUME NEW o
  PROVE  /\ GatherOK(o, NothingGathered) /\ \A i \in CallIndices : NothingGathered[i] = {}
         /\ \A bs : BothOK(o, NothingGathered, bs)
<1>1. UsedIn(NothingGathered) = {} /\ \A i \in CallIndices : NothingGathered[i] = {}
  BY DEF UsedIn, NothingGathered
<1>2. IsFiniteSet({})  BY FS_EmptySet
<1>3. NothingGathered \in [CallIndices -> SUBSET Chunks]  BY DEF NothingGathered
<1> QED  BY <1>1, <1>2, <1>3 DEF GatherOK, BothOK

(* The message ends.                                                       *)
LEMMA FinishChunk ==
  ASSUME NEW o, NEW p, NEW y, OneMore(o, p, y), y.kind = "finish",
         NEW g, NEW bs, LayerOK(o, g, bs),
         NEW T, BlocksOf(T, g), NEW cs, cs = bs \o T
  PROVE  LayerOK(p, NothingGathered, cs) /\ \A k \in At(p, "call") : Holding(cs, p[k]) # {}
<1>0. o \in Seq(Chunks)  BY DEF OneMore
<1>1. Opens(p) = Opens(o) /\ (\A x : Came(o, x) => Came(p, x)) /\ (\A x : Again(o, x) => Again(p, x))
  BY MoreOpens
<1>2. \A kd \in {"call", "reasoning", "content"} : At(p, kd) = At(o, kd)  BY SameAt
<1>3. \A k \in 1..Len(o) : p[k] = o[k] /\ k \in 1..Len(p)  BY DEF OneMore
<1>4. /\ cs \in Seq(Blocks) /\ Len(bs) \in Nat /\ Len(cs) \in Nat /\ Len(bs) <= Len(cs)
      /\ \A b \in 1..Len(bs) : cs[b] = bs[b]
      /\ \A b \in 1..Len(cs) : b \in 1..Len(bs) \/ cs[b].kind = "tool_use"
      /\ \A b \in 1..Len(cs) : \A x \in cs[b].calls : x.kind = "call" /\ Came(o, x)
      /\ \A k \in At(o, "call") : Holding(cs, o[k]) # {}
      /\ \A b, c \in 1..Len(cs) : \A x \in cs[b].calls : b # c /\ x \in cs[c].calls => Again(o, x)
  <2>1. FlushedIs(o, bs, cs)  BY <1>0, Flushed
  <2> QED  BY <2>1 DEF FlushedIs
<1>5. \A b \in 1..Len(bs) : b \in 1..Len(cs)  BY <1>4
<1>6. BlocksOK(p, cs)
  <2>0. \A a, b \in 1..Len(bs) : bs[a].kind = bs[b].kind /\ a # b => bs[a].kind = "tool_use"
    BY DEF LayerOK, BlocksOK
  <2>1. \A a, b \in 1..Len(cs) : cs[a].kind = cs[b].kind /\ a # b => cs[a].kind = "tool_use"
    BY <1>4, <2>0
  <2>2. \A kd \in {"reasoning", "content"} : At(p, kd) # {} <=> \E b \in 1..Len(cs) : cs[b].kind = kd
    BY <1>2, <1>4, <1>5 DEF LayerOK, BlocksOK
  <2>3. \A b \in 1..Len(cs) : \A x \in cs[b].calls : x.kind = "call" /\ Came(p, x)  BY <1>1, <1>4
  <2>4. \A b, c \in 1..Len(cs) : \A x \in cs[b].calls : b # c /\ x \in cs[c].calls => Again(p, x)
    BY <1>1, <1>4
  <2>5. cs \in Seq(Blocks)  BY <1>4
  <2> QED  BY <2>1, <2>2, <2>3, <2>4, <2>5 DEF BlocksOK
<1>7. \A k \in At(p, "call") : k \in At(o, "call") /\ p[k] = o[k]  BY <1>2, <1>3 DEF At
<1>8. \A k \in At(p, "call") : Holding(cs, p[k]) # {}  BY <1>4, <1>7
<1>9. KeptOK(p, NothingGathered, cs)  BY <1>8 DEF KeptOK
<1>10. BeforeOK(p, cs)
  <2> SUFFICES ASSUME NEW k \in At(p, "call"), NEW t \in Opens(p), t > k
               PROVE  \E b, c \in 1..Len(cs) : c \in Holding(cs, p[k]) /\ cs[b].kind = p[t].kind /\ c < b
    BY DEF BeforeOK
  <2>1. t \in Opens(o) /\ p[t] = o[t] /\ k \in At(o, "call") /\ p[k] = o[k]  BY <1>1, <1>3, <1>7 DEF Opens
  <2>2. PICK b, c \in 1..Len(bs) : c \in Holding(bs, o[k]) /\ bs[b].kind = o[t].kind /\ c < b
    BY <2>1 DEF LayerOK, BeforeOK
  <2>3. c \in Holding(cs, o[k]) /\ cs[b].kind = o[t].kind  BY <1>4, <1>5, <2>2 DEF Holding
  <2> QED  BY <1>5, <2>1, <2>2, <2>3
<1> QED  BY <1>6, <1>8, <1>9, <1>10, NothingIsGathered DEF LayerOK

(* A text or a thinking block is opened behind what was gathered.          *)
LEMMA OpenChunk ==
  ASSUME NEW o, NEW p, NEW y, OneMore(o, p, y), y.kind \in {"reasoning", "content"}, At(o, y.kind) = {},
         NEW g, NEW bs, LayerOK(o, g, bs),
         NEW T, BlocksOf(T, g), NEW ds, ds = Append(bs \o T, [kind |-> y.kind, calls |-> {}])
  PROVE  LayerOK(p, NothingGathered, ds) /\ Shut(p, ds)
<1>0. o \in Seq(Chunks)  BY DEF OneMore
<1>1. Opens(o) \subseteq Opens(p) /\ Opens(p) \subseteq Opens(o) \cup {Len(p)} /\ Len(p) \in Opens(p)
      /\ (\A x : Came(o, x) => Came(p, x)) /\ (\A x : Again(o, x) => Again(p, x))
  BY MoreOpens
<1>2. At(p, "call") = At(o, "call") /\ Len(p) \in At(p, y.kind)
      /\ \A kd \in {"reasoning", "content"} : kd # y.kind => At(p, kd) = At(o, kd)
  BY SameAt, MoreOpens
<1>3. \A k \in 1..Len(o) : p[k] = o[k] /\ k \in 1..Len(p) /\ k < Len(p)  BY DEF OneMore
<1>4. PICK cs : cs = bs \o T  OBVIOUS
<1>5. /\ cs \in Seq(Blocks) /\ Len(bs) \in Nat /\ Len(cs) \in Nat /\ Len(bs) <= Len(cs)
      /\ \A b \in 1..Len(bs) : cs[b] = bs[b]
      /\ \A b \in 1..Len(cs) : b \in 1..Len(bs) \/ cs[b].kind = "tool_use"
      /\ \A b \in 1..Len(cs) : \A x \in cs[b].calls : x.kind = "call" /\ Came(o, x)
      /\ \A k \in At(o, "call") : Holding(cs, o[k]) # {}
      /\ \A b, c \in 1..Len(cs) : \A x \in cs[b].calls : b # c /\ x \in cs[c].calls => Again(o, x)
  <2>1. FlushedIs(o, bs, cs)  BY <1>0, <1>4, Flushed
  <2> QED  BY <2>1 DEF FlushedIs
<1>6. PICK B, e : B = Blocks /\ e = [kind |-> y.kind, calls |-> {}]  OBVIOUS
<1>7. e \in B /\ e.kind = y.kind /\ e.calls = {}  BY <1>6 DEF Blocks, Kinds
<1>8. /\ ds \in Seq(B) /\ Len(ds) = Len(cs) + 1 /\ ds[Len(cs) + 1] = e
      /\ \A b \in 1..Len(cs) : ds[b] = cs[b]
  BY <1>4, <1>5, <1>6, <1>7, AppendProperties
<1>9. PICK d \in 1..Len(ds) : d = Len(ds) /\ ds[d].kind = y.kind /\ ds[d].calls = {}
  BY <1>5, <1>7, <1>8
<1>10. \A b \in 1..Len(ds) : b = d \/ (b \in 1..Len(cs) /\ ds[b] = cs[b] /\ b < d)  BY <1>5, <1>8, <1>9
<1>11. \A b \in 1..Len(bs) : b \in 1..Len(ds) /\ b \in 1..Len(cs) /\ ds[b] = bs[b]  BY <1>5, <1>8
<1>12. \A b \in 1..Len(cs) : b \in 1..Len(ds) /\ b < d /\ ds[b] = cs[b]  BY <1>5, <1>8, <1>9
<1>13. \A b \in 1..Len(bs) : bs[b].kind # y.kind  BY DEF LayerOK, BlocksOK
<1>14. BlocksOK(p, ds)
  <2>1. ASSUME NEW b \in 1..Len(ds), NEW x \in ds[b].calls PROVE x.kind = "call" /\ Came(p, x)
    <3>1. b \in 1..Len(cs) /\ ds[b] = cs[b]  BY <1>9, <1>10
    <3> QED  BY <1>1, <1>5, <3>1
  <2>2. \A b \in 1..Len(cs) : cs[b].kind # y.kind  BY <1>5, <1>13
  <2>0. \A a, b \in 1..Len(bs) : bs[a].kind = bs[b].kind /\ a # b => bs[a].kind = "tool_use"
    BY DEF LayerOK, BlocksOK
  <2>3. \A a, b \in 1..Len(cs) : cs[a].kind = cs[b].kind /\ a # b => cs[a].kind = "tool_use"
    BY <1>5, <2>0
  <2>4. ASSUME NEW a \in 1..Len(ds), NEW b \in 1..Len(ds), ds[a].kind = ds[b].kind, a # b
        PROVE  ds[a].kind = "tool_use"
    <3>1. CASE a \in 1..Len(cs) /\ b \in 1..Len(cs)  BY <1>12, <2>3, <2>4, <3>1
    <3>2. CASE a = d /\ b \in 1..Len(cs)  BY <1>9, <1>12, <2>2, <2>4, <3>2
    <3>3. CASE b = d /\ a \in 1..Len(cs)  BY <1>9, <1>12, <2>2, <2>4, <3>3
    <3> QED  BY <1>10, <2>4, <3>1, <3>2, <3>3
  <2>5. ASSUME NEW kd \in {"reasoning", "content"}
        PROVE  At(p, kd) # {} <=> \E b \in 1..Len(ds) : ds[b].kind = kd
    <3>1. CASE kd = y.kind  BY <1>2, <1>9, <3>1
    <3>2. CASE kd # y.kind
      <4>1. At(p, kd) # {} <=> \E b \in 1..Len(bs) : bs[b].kind = kd  BY <1>2, <3>2 DEF LayerOK, BlocksOK
      <4>2. ASSUME NEW b \in 1..Len(ds), ds[b].kind = kd PROVE b \in 1..Len(bs) /\ bs[b].kind = kd
        <5>1. b \in 1..Len(cs) /\ ds[b] = cs[b]  BY <1>9, <1>10, <3>2, <4>2
        <5> QED  BY <1>5, <4>2, <5>1
      <4>3. \A b \in 1..Len(bs) : b \in 1..Len(ds) /\ ds[b].kind = bs[b].kind  BY <1>11
      <4> QED  BY <4>1, <4>2, <4>3
    <3> QED  BY <3>1, <3>2
  <2>6. ASSUME NEW b \in 1..Len(ds), NEW c \in 1..Len(ds), NEW x \in ds[b].calls, b # c, x \in ds[c].calls
        PROVE  Again(p, x)
    <3>1. /\ b \in 1..Len(cs) /\ ds[b] = cs[b]
          /\ c \in 1..Len(cs) /\ ds[c] = cs[c]
      BY <1>9, <1>10, <2>6
    <3>2. x \in cs[b].calls /\ x \in cs[c].calls  BY <2>6, <3>1
    <3>3. Again(o, x)  BY <1>5, <2>6, <3>1, <3>2
    <3> QED  BY <1>1, <3>3
  <2> QED  BY <1>6, <1>8, <2>1, <2>4, <2>5, <2>6 DEF BlocksOK
<1>15. \A k \in At(p, "call") : k \in At(o, "call") /\ p[k] = o[k]  BY <1>2, <1>3 DEF At
<1>16. ASSUME NEW k \in At(p, "call") PROVE \E c \in 1..Len(cs) : c \in Holding(ds, p[k])
  <2>1. Holding(cs, p[k]) # {}  BY <1>5, <1>15
  <2>2. PICK c \in 1..Len(cs) : p[k] \in cs[c].calls  BY <2>1 DEF Holding
  <2>3. c \in 1..Len(ds) /\ p[k] \in ds[c].calls  BY <1>12, <2>2
  <2> QED  BY <2>3 DEF Holding
<1>17. KeptOK(p, NothingGathered, ds)  BY <1>16 DEF KeptOK
<1>18. BeforeOK(p, ds)
  <2> SUFFICES ASSUME NEW k \in At(p, "call"), NEW t \in Opens(p), t > k
               PROVE  \E b, c \in 1..Len(ds) : c \in Holding(ds, p[k]) /\ ds[b].kind = p[t].kind /\ c < b
    BY DEF BeforeOK
  <2>1. CASE t = Len(p)
    <3>1. PICK c \in 1..Len(cs) : c \in Holding(ds, p[k])  BY <1>16
    <3>2. c \in 1..Len(ds) /\ c < d  BY <1>12
    <3>3. p[t].kind = y.kind  BY <2>1 DEF OneMore
    <3> QED  BY <1>9, <3>1, <3>2, <3>3
  <2>2. CASE t \in Opens(o)
    <3>1. p[t] = o[t] /\ k \in At(o, "call") /\ p[k] = o[k]  BY <1>3, <1>15, <2>2 DEF Opens
    <3>2. PICK b, c \in 1..Len(bs) : c \in Holding(bs, o[k]) /\ bs[b].kind = o[t].kind /\ c < b
      BY <2>2, <3>1 DEF LayerOK, BeforeOK
    <3>3. c \in Holding(ds, o[k]) /\ ds[b].kind = o[t].kind  BY <1>11, <3>2 DEF Holding
    <3> QED  BY <1>11, <3>1, <3>2, <3>3
  <2> QED  BY <1>1, <2>1, <2>2
<1>19. Shut(p, ds)
  <2> SUFFICES ASSUME NEW b \in 1..Len(ds), NEW x \in ds[b].calls
               PROVE  \E t \in Opens(p), l \in 1..Len(p) : p[l] = x /\ l < t
    BY DEF Shut
  <2>1. b \in 1..Len(cs) /\ ds[b] = cs[b]  BY <1>9, <1>10
  <2>2. PICK l \in 1..Len(o) : o[l] = x  BY <1>5, <2>1 DEF Came
  <2> QED  BY <1>1, <1>3, <2>2
<1> QED  BY <1>14, <1>17, <1>18, <1>19, NothingIsGathered DEF LayerOK

(***************************************************************************)
(* A chunk more, as the reader and the layer see it.                       *)
(***************************************************************************)
Well(o, m) ==
  /\ o \in Seq(Chunks) /\ LayerOK(o, m.gathered, m.blocks) /\ Shut(o, m.blocks)
  /\ At(o, "finish") = {} /\ (Len(o) # 0 => At(o, "preamble") = {1})
EndsRight(o, m) ==
  /\ o \in Seq(Chunks) /\ LayerOK(o, m.gathered, m.blocks) /\ m.gathered = NothingGathered
  /\ \A k \in At(o, "call") : Holding(m.blocks, o[k]) # {}
  /\ Len(o) # 0 /\ At(o, "finish") = {Len(o)} /\ At(o, "preamble") = {1}

(* With c the chunks are those of chat, and the layer has read them.       *)
Reads(c, o, m)    == \E n : (c => n = m) /\ Well(o, n)
ReadsAll(c, o, m) == \E n : (c => n = m) /\ EndsRight(o, n)

(* There were n outputs, each after a call of its round, unless the round  *)
(* is one of s.                                                            *)
UpTo(o, k) == {j \in At(o, "output") : j <= k}
Told(o, s, k) ==
  \/ Cardinality(UpTo(o, k)) \in s
  \/ \E j \in At(o, "call") : j < k /\ o[j].round = Cardinality(UpTo(o, k))
Counted(o, s, n) ==
  /\ IsFiniteSet(At(o, "output")) /\ Cardinality(At(o, "output")) = n
  /\ \A k \in At(o, "output") : Told(o, s, k)
CalledIn(o, s, r) == r \in s \/ \E j \in At(o, "call") : o[j].round = r

Follows(o, p) ==
  /\ \A s, r : CalledIn(o, s, r) => CalledIn(p, s, r)
  /\ At(o, "content") # {} => At(p, "content") # {}
  /\ \A s, n : Counted(o, s, n) => Counted(p, s, n)

LEMMA MoreSilent ==
  ASSUME NEW o, NEW s, NEW t, s \subseteq t
  PROVE  /\ \A n : Counted(o, s, n) => Counted(o, t, n)
         /\ \A r : CalledIn(o, s, r) => CalledIn(o, t, r)
BY DEF Counted, Told, CalledIn

LEMMA AddsOne ==
  ASSUME NEW o, NEW p, NEW y, OneMore(o, p, y), y.kind # "finish",
         NEW m, LayerOK(o, m.gathered, m.blocks), Shut(o, m.blocks)
  PROVE  /\ LayerOK(p, AfterChunk(m, y).gathered, AfterChunk(m, y).blocks)
         /\ Shut(p, AfterChunk(m, y).blocks)
<1>1. PICK g, bs : g = m.gathered /\ bs = m.blocks  OBVIOUS
<1>2. g \in [CallIndices -> SUBSET Chunks] /\ IsFiniteSet(UsedIn(g))  BY <1>1 DEF LayerOK, GatherOK
<1>3. BlocksOf(ToolBlocks(m), g)  BY <1>1, <1>2, ToolBlocksAre
<1>4. CASE y.kind = "call"
  <2>1. AfterChunk(m, y) = Gather(m, y)  BY <1>4 DEF AfterChunk
  <2>2. AfterChunk(m, y).gathered = [g EXCEPT ![y.index] = @ \cup {y}] /\ AfterChunk(m, y).blocks = bs
    BY <1>1, <2>1 DEF Gather
  <2> QED  BY <1>1, <1>4, <2>2, CallChunk
<1>5. CASE y.kind \in {"reasoning", "content"} /\ At(o, y.kind) = {}
  <2>1. AfterChunk(m, y) = Opened(m, y.kind)  BY <1>5 DEF AfterChunk
  <2>2. ~BlockIn(m, y.kind)
    <3>1. \A b \in 1..Len(bs) : bs[b].kind # y.kind  BY <1>1, <1>5 DEF LayerOK, BlocksOK
    <3>2. bs \in Seq(Blocks)  BY <1>1 DEF LayerOK, BlocksOK
    <3>3. DOMAIN bs = 1..Len(bs)
      <4>1. PICK B : B = Blocks  OBVIOUS
      <4> QED  BY <3>2, <4>1, LenProperties
    <3> QED  BY <1>1, <3>1, <3>3 DEF BlockIn
  <2>3. AfterChunk(m, y) = [gathered |-> NothingGathered,
                            blocks |-> Append(bs \o ToolBlocks(m), [kind |-> y.kind, calls |-> {}])]
    BY <1>1, <2>1, <2>2 DEF Opened, Flush, AfterFlush
  <2>4. /\ AfterChunk(m, y).gathered = NothingGathered
        /\ AfterChunk(m, y).blocks = Append(bs \o ToolBlocks(m), [kind |-> y.kind, calls |-> {}])
    BY <2>3
  <2>5. PICK T, ds : T = ToolBlocks(m) /\ ds = Append(bs \o T, [kind |-> y.kind, calls |-> {}])  OBVIOUS
  <2>6. LayerOK(p, NothingGathered, ds) /\ Shut(p, ds)  BY <1>1, <1>3, <1>5, <2>5, OpenChunk
  <2> QED  BY <2>4, <2>5, <2>6
<1>6. CASE y.kind # "call" /\ (y.kind \in {"reasoning", "content"} => At(o, y.kind) # {})
  <2>1. OpensNothing(o, y)  BY <1>6 DEF OpensNothing
  <2>2. AfterChunk(m, y) = m
    <3>1. CASE y.kind \in {"reasoning", "content"}
      <4>1. AfterChunk(m, y) = Opened(m, y.kind)  BY <3>1 DEF AfterChunk
      <4>2. \E b \in 1..Len(bs) : bs[b].kind = y.kind  BY <1>1, <1>6, <3>1 DEF LayerOK, BlocksOK
      <4>3. bs \in Seq(Blocks)  BY <1>1 DEF LayerOK, BlocksOK
      <4>4. DOMAIN bs = 1..Len(bs)
        <5>1. PICK B : B = Blocks  OBVIOUS
        <5> QED  BY <4>3, <5>1, LenProperties
      <4>5. BlockIn(m, y.kind)  BY <1>1, <4>2, <4>4 DEF BlockIn
      <4> QED  BY <4>1, <4>5 DEF Opened
    <3>2. CASE y.kind \notin {"reasoning", "content"}  BY <1>6, <3>2 DEF AfterChunk
    <3> QED  BY <3>1, <3>2
  <2> QED  BY <2>1, <2>2, OtherChunk
<1> QED  BY <1>4, <1>5, <1>6

LEMMA AddsLast ==
  ASSUME NEW o, NEW p, NEW y, OneMore(o, p, y), y.kind = "finish",
         NEW m, LayerOK(o, m.gathered, m.blocks)
  PROVE  /\ LayerOK(p, AfterChunk(m, y).gathered, AfterChunk(m, y).blocks)
         /\ AfterChunk(m, y).gathered = NothingGathered
         /\ \A k \in At(p, "call") : Holding(AfterChunk(m, y).blocks, p[k]) # {}
<1>1. PICK g, bs : g = m.gathered /\ bs = m.blocks  OBVIOUS
<1>2. g \in [CallIndices -> SUBSET Chunks] /\ IsFiniteSet(UsedIn(g))  BY <1>1 DEF LayerOK, GatherOK
<1>3. PICK T, cs : T = ToolBlocks(m) /\ cs = bs \o T  OBVIOUS
<1>4. BlocksOf(T, g)  BY <1>1, <1>2, <1>3, ToolBlocksAre
<1>5. AfterChunk(m, y) = Flush(m)  BY DEF AfterChunk
<1>6. AfterChunk(m, y).gathered = NothingGathered /\ AfterChunk(m, y).blocks = cs
  BY <1>1, <1>3, <1>5 DEF Flush, AfterFlush
<1>7. LayerOK(p, NothingGathered, cs) /\ \A k \in At(p, "call") : Holding(cs, p[k]) # {}
  BY <1>1, <1>3, <1>4, FinishChunk
<1> QED  BY <1>6, <1>7

LEMMA CountsOn ==
  ASSUME NEW o, NEW p, NEW y, OneMore(o, p, y), NEW n \in Nat, NEW s, Counted(o, s, n)
  PROVE  /\ y.kind # "output" => Counted(p, s, n)
         /\ y.kind = "output" /\ CalledIn(o, s, n + 1) => Counted(p, s, n + 1)
<1>1. \A k \in 1..Len(o) : p[k] = o[k] /\ k \in 1..Len(p) /\ k < Len(p)  BY DEF OneMore
<1>2. \A kind : At(o, kind) \subseteq 1..Len(o)  BY DEF At
<1>3. \A k \in At(o, "call") : k \in At(p, "call") /\ p[k] = o[k] /\ k < Len(p)  BY <1>1, <1>2, MoreOpens
<1>4. At(o, "output") \subseteq At(p, "output") /\ At(p, "output") \subseteq At(o, "output") \cup {Len(p)}
      /\ (Len(p) \in At(p, "output") <=> y.kind = "output")
  BY MoreOpens
<1>5. ASSUME NEW k \in At(o, "output") PROVE Told(p, s, k)
  <2>1. k < Len(p) /\ k \in Nat /\ Len(p) \in Nat  BY <1>1, <1>2 DEF OneMore
  <2>2. UpTo(p, k) = UpTo(o, k)  BY <1>4, <2>1 DEF UpTo
  <2>3. Told(o, s, k)  BY DEF Counted
  <2> QED  BY <1>3, <2>2, <2>3 DEF Told
<1>6. ASSUME y.kind # "output" PROVE Counted(p, s, n)
  <2>1. At(p, "output") = At(o, "output")  BY <1>4, <1>6
  <2> QED  BY <1>5, <2>1 DEF Counted
<1>7. ASSUME y.kind = "output", CalledIn(o, s, n + 1) PROVE Counted(p, s, n + 1)
  <2>1. PICK A, B, l : A = At(o, "output") /\ B = At(p, "output") /\ l = Len(p)  OBVIOUS
  <2>2. B = A \cup {l}  BY <1>4, <1>7, <2>1
  <2>3. l \notin A
    <3>1. \A k \in A : k < l /\ k \in Nat  BY <1>1, <1>2, <2>1
    <3>2. l \in Nat  BY <2>1 DEF OneMore
    <3> QED  BY <3>1, <3>2
  <2>4. IsFiniteSet(A) /\ Cardinality(A) = n  BY <2>1 DEF Counted
  <2>5. IsFiniteSet(B) /\ Cardinality(B) = n + 1  BY <2>2, <2>3, <2>4, FS_AddElement
  <2>6. UpTo(p, l) = B
    <3>1. \A k \in B : k <= l
      <4>1. \A k \in A : k < l /\ k \in Nat  BY <1>1, <1>2, <2>1
      <4>2. l \in Nat  BY <2>1 DEF OneMore
      <4> QED  BY <2>2, <4>1, <4>2
    <3> QED  BY <2>1, <3>1 DEF UpTo
  <2>7. Cardinality(UpTo(p, l)) = n + 1  BY <2>5, <2>6
  <2>8. Told(p, s, l)
    <3>1. CASE n + 1 \in s  BY <2>7, <3>1 DEF Told
    <3>2. CASE n + 1 \notin s
      <4>1. PICK j \in At(o, "call") : o[j].round = n + 1  BY <1>7, <3>2 DEF CalledIn
      <4>2. j \in At(p, "call") /\ j < l /\ p[j].round = Cardinality(UpTo(p, l))  BY <1>3, <2>1, <2>7, <4>1
      <4> QED  BY <4>2 DEF Told
    <3> QED  BY <3>1, <3>2
  <2>9. \A k \in B : Told(p, s, k)  BY <1>5, <2>1, <2>2, <2>8
  <2> QED  BY <2>1, <2>5, <2>9 DEF Counted
<1> QED  BY <1>6, <1>7

LEMMA Continues ==
  ASSUME NEW o, NEW p, NEW y, OneMore(o, p, y)
  PROVE  /\ \A s, r : CalledIn(o, s, r) => CalledIn(p, s, r)
         /\ At(o, "content") # {} => At(p, "content") # {}
         /\ y.kind # "output" => Follows(o, p)
         /\ y.kind = "call" => \A s : CalledIn(p, s, y.round)
         /\ y.kind = "content" => At(p, "content") # {}
<1>1. \A k \in 1..Len(o) : p[k] = o[k]  BY DEF OneMore
<1>2. \A kind : At(o, kind) \subseteq At(p, kind)  BY MoreOpens
<1>3. \A k \in At(o, "call") : k \in At(p, "call") /\ p[k] = o[k]  BY <1>1, <1>2 DEF At
<1>4. \A s, r : CalledIn(o, s, r) => CalledIn(p, s, r)  BY <1>3 DEF CalledIn
<1>5. At(o, "content") # {} => At(p, "content") # {}  BY <1>2
<1>6. ASSUME y.kind # "output" PROVE Follows(o, p)
  <2>1. ASSUME NEW s, NEW n, Counted(o, s, n) PROVE Counted(p, s, n)
    <3>1. n \in Nat  BY <2>1, FS_CardinalityType DEF Counted
    <3> QED  BY <1>6, <2>1, <3>1, CountsOn
  <2> QED  BY <1>4, <1>5, <2>1 DEF Follows
<1>7. Len(p) \in 1..Len(p) /\ p[Len(p)] = y  BY DEF OneMore
<1>8. \A kind : Len(p) \in At(p, kind) <=> y.kind = kind  BY MoreOpens
<1>9. y.kind = "call" => \A s : CalledIn(p, s, y.round)  BY <1>7, <1>8 DEF CalledIn
<1> QED  BY <1>4, <1>5, <1>6, <1>8, <1>9

LEMMA WellOn ==
  ASSUME NEW o, NEW p, NEW y, OneMore(o, p, y), NEW m, Well(o, m), y.kind = "preamble" <=> Len(o) = 0
  PROVE  /\ y.kind # "finish" => Well(p, AfterChunk(m, y))
         /\ y.kind = "finish" => EndsRight(p, AfterChunk(m, y))
<1> DEFINE n == AfterChunk(m, y)
<1>1. p \in Seq(Chunks) /\ Len(p) # 0 /\ Len(p) = Len(o) + 1 /\ Len(o) \in Nat  BY DEF OneMore
<1>2. At(p, "preamble") = {1}
  <2>0. At(o, "preamble") \subseteq At(p, "preamble") /\ At(p, "preamble") \subseteq At(o, "preamble") \cup {Len(p)}
        /\ (Len(p) \in At(p, "preamble") <=> y.kind = "preamble")
    BY MoreOpens
  <2>1. CASE Len(o) = 0
    <3>1. At(o, "preamble") = {}  BY <2>1 DEF At
    <3> QED  BY <1>1, <2>0, <2>1, <3>1
  <2>2. CASE Len(o) # 0
    <3>1. At(o, "preamble") = {1}  BY <2>2 DEF Well
    <3> QED  BY <2>0, <2>2, <3>1
  <2> QED  BY <2>1, <2>2
<1>3. ASSUME y.kind # "finish" PROVE Well(p, n)
  <2>1. At(p, "finish") = {}  BY <1>3, SameAt DEF Well
  <2>2. LayerOK(p, n.gathered, n.blocks) /\ Shut(p, n.blocks)  BY <1>3, AddsOne DEF Well
  <2> QED  BY <1>1, <1>2, <2>1, <2>2 DEF Well
<1>4. ASSUME y.kind = "finish" PROVE EndsRight(p, n)
  <2>0. At(p, "finish") \subseteq At(o, "finish") \cup {Len(p)} /\ Len(p) \in At(p, "finish")  BY <1>4, MoreOpens
  <2>1. At(p, "finish") = {Len(p)}  BY <2>0 DEF Well
  <2>2. /\ LayerOK(p, n.gathered, n.blocks) /\ n.gathered = NothingGathered
        /\ \A k \in At(p, "call") : Holding(n.blocks, p[k]) # {}
    BY <1>4, AddsLast DEF Well
  <2> QED  BY <1>1, <1>2, <2>1, <2>2 DEF EndsRight
<1> QED  BY <1>3, <1>4

(* Once the preamble is out.                                               *)
LEMMA Opens1 ==
  ASSUME NEW chunks, NEW o, o = out, NEW m, chat => m = message, Well(o, m), Yields(chunks)
  PROVE  \E q : /\ Well(q, m) /\ Follows(o, q) /\ Len(q) \in Nat \ {0} /\ q \in Seq(Chunks)
                /\ out' = q \o chunks /\ (chat => message' = AfterChunks(m, chunks))
<1>1. PICK S : S = Chunks  OBVIOUS
<1>2. o \in Seq(S)  BY <1>1 DEF Well
<1>3. PICK y : y = [kind |-> "preamble"]  OBVIOUS
<1>4. y \in S /\ y.kind = "preamble"  BY <1>1, <1>3 DEF Chunks
<1>5. out' = o \o Preamble \o chunks /\ (chat => message' = AfterChunks(m, chunks))  BY DEF Yields
<1>6. Len(o) \in Nat /\ (o = <<>> <=> Len(o) = 0)  BY <1>2, EmptySeq, LenProperties
<1>7. CASE o # <<>>
  <2>1. Preamble = <<>>  BY <1>7 DEF Preamble
  <2>2. o \o Preamble = o  BY <1>2, <2>1, ConcatEmptySeq
  <2>3. Follows(o, o)  BY DEF Follows
  <2> QED  BY <1>1, <1>2, <1>5, <1>6, <1>7, <2>2, <2>3
<1>8. CASE o = <<>>
  <2>1. Preamble = <<y>>  BY <1>3, <1>8 DEF Preamble
  <2>2. PICK q : q = Append(o, y)  OBVIOUS
  <2>3. o \o Preamble = q  BY <1>2, <1>4, <2>1, <2>2, AppendIsConcat
  <2>4. OneMore(o, q, y)  BY <1>1, <1>2, <1>4, <2>2, AppendIsMore
  <2>5. Well(q, AfterChunk(m, y))  BY <1>4, <1>6, <1>8, <2>4, WellOn
  <2>6. AfterChunk(m, y) = m  BY <1>4 DEF AfterChunk
  <2>7. Follows(o, q)  BY <1>4, <2>4, Continues
  <2>8. Len(q) \in Nat \ {0} /\ q \in Seq(Chunks)  BY <2>4 DEF OneMore
  <2> QED  BY <1>5, <2>3, <2>5, <2>6, <2>7, <2>8
<1> QED  BY <1>7, <1>8

LEMMA Transitive ==
  ASSUME NEW o, NEW p, NEW q, Follows(o, p), Follows(p, q)
  PROVE  Follows(o, q)
BY DEF Follows

LEMMA YieldsNone ==
  ASSUME NEW c, c = chat, NEW o, o = out, NEW r, r = message, NEW p, p = out', NEW n, n = message',
         Reads(c, o, r), Yields(<<>>)
  PROVE  Reads(c, p, n) /\ Follows(o, p)
<1>0. PICK m : (c => m = r) /\ Well(o, m)  BY DEF Reads
<1>1. PICK q : /\ Well(q, m) /\ Follows(o, q) /\ q \in Seq(Chunks)
               /\ p = q \o <<>> /\ (c => n = AfterChunks(m, <<>>))
  BY <1>0, Opens1
<1>2. PICK S : S = Chunks  OBVIOUS
<1>3. p = q  BY <1>1, <1>2, ConcatEmptySeq
<1>4. Len(<<>>) = 0
  <2>1. \A T : Len(<<>>) = 0  BY EmptySeq
  <2> QED  BY <2>1
<1>5. c => n = m  BY <1>1, <1>4 DEF AfterChunks
<1> QED  BY <1>1, <1>3, <1>5 DEF Reads

LEMMA AfterIs ==
  ASSUME NEW m, NEW y, NEW z, NEW chunks
  PROVE  /\ chunks = <<y>> => AfterChunks(m, chunks) = AfterChunk(m, y)
         /\ chunks = <<y, z>> => AfterChunks(m, chunks) = AfterChunk(AfterChunk(m, y), z)
<1>1. ASSUME chunks = <<y>> PROVE Len(chunks) = 1 /\ chunks[1] = y  BY <1>1
<1>2. ASSUME chunks = <<y, z>> PROVE Len(chunks) = 2 /\ chunks[1] = y /\ chunks[2] = z  BY <1>2
<1> QED  BY <1>1, <1>2 DEF AfterChunks

LEMMA YieldsOne ==
  ASSUME NEW c, c = chat, NEW o, o = out, NEW r, r = message, NEW p, p = out', NEW n, n = message',
         Reads(c, o, r), NEW y \in Chunks, y.kind # "preamble", Yields(<<y>>)
  PROVE  /\ y.kind # "finish" => Reads(c, p, n)
         /\ y.kind = "finish" => ReadsAll(c, p, n)
         /\ y.kind # "output" => Follows(o, p)
         /\ y.kind = "call" => \A s : CalledIn(p, s, y.round)
         /\ y.kind = "content" => At(p, "content") # {}
         /\ \A s : \A k \in Nat : y.kind = "output" /\ Counted(o, s, k) /\ CalledIn(o, s, k + 1) => Counted(p, s, k + 1)
<1>0. PICK m : (c => m = r) /\ Well(o, m)  BY DEF Reads
<1>1. PICK q : /\ Well(q, m) /\ Follows(o, q) /\ Len(q) \in Nat \ {0} /\ q \in Seq(Chunks)
               /\ p = q \o <<y>> /\ (c => n = AfterChunks(m, <<y>>))
  BY <1>0, Opens1
<1>2. PICK S : S = Chunks  OBVIOUS
<1>3. p = Append(q, y)  BY <1>1, <1>2, AppendIsConcat
<1>4. OneMore(q, p, y)  BY <1>1, <1>3, AppendIsMore
<1>5. c => n = AfterChunk(m, y)
  <2>1. PICK a : a = <<y>>  OBVIOUS
  <2>2. AfterChunks(m, a) = AfterChunk(m, y)  BY <2>1, AfterIs
  <2> QED  BY <1>1, <2>1, <2>2
<1>6. (y.kind # "finish" => Reads(c, p, n)) /\ (y.kind = "finish" => ReadsAll(c, p, n))
  <2>1. /\ y.kind # "finish" => Well(p, AfterChunk(m, y))
        /\ y.kind = "finish" => EndsRight(p, AfterChunk(m, y))
    BY <1>1, <1>4, WellOn
  <2> QED  BY <1>5, <2>1 DEF Reads, ReadsAll
<1>7. y.kind # "output" => Follows(q, p)  BY <1>4, Continues
<1>8. y.kind # "output" => Follows(o, p)  BY <1>1, <1>7, Transitive
<1>9. \A s : \A k \in Nat : y.kind = "output" /\ Counted(o, s, k) /\ CalledIn(o, s, k + 1) => Counted(p, s, k + 1)
  <2> SUFFICES ASSUME NEW s, NEW k \in Nat, y.kind = "output", Counted(o, s, k), CalledIn(o, s, k + 1)
               PROVE  Counted(p, s, k + 1)
    OBVIOUS
  <2>1. Counted(q, s, k) /\ CalledIn(q, s, k + 1)  BY <1>1 DEF Follows
  <2> QED  BY <1>4, <2>1, CountsOn
<1>10. (y.kind = "call" => \A s : CalledIn(p, s, y.round)) /\ (y.kind = "content" => At(p, "content") # {})
  BY <1>4, Continues
<1> QED  BY <1>6, <1>8, <1>9, <1>10

LEMMA YieldsTwo ==
  ASSUME NEW c, c = chat, NEW o, o = out, NEW r, r = message, NEW p, p = out', NEW n, n = message',
         Reads(c, o, r), NEW y \in Chunks, y.kind = "content", NEW z \in Chunks, z.kind = "finish",
         Yields(<<y, z>>)
  PROVE  ReadsAll(c, p, n) /\ Follows(o, p) /\ At(p, "content") # {}
<1>0. PICK m : (c => m = r) /\ Well(o, m)  BY DEF Reads
<1>1. PICK q : /\ Well(q, m) /\ Follows(o, q) /\ Len(q) \in Nat \ {0} /\ q \in Seq(Chunks)
               /\ p = q \o <<y, z>> /\ (c => n = AfterChunks(m, <<y, z>>))
  BY <1>0, Opens1
<1>2. PICK S : S = Chunks  OBVIOUS
<1>3. PICK a, b : a = <<y>> /\ b = <<z>>  OBVIOUS
<1>4. a \in Seq(S) /\ b \in Seq(S) /\ q \in Seq(S)  BY <1>1, <1>2, <1>3
<1>5. a \o b = <<y, z>>  BY <1>2, <1>3, TwoAlone
<1>6. p = (q \o a) \o b
  <2>1. (q \o a) \o b = q \o (a \o b)  BY <1>4, ConcatAssociative
  <2> QED  BY <1>1, <1>5, <2>1
<1>7. PICK s : s = Append(q, y)  OBVIOUS
<1>8. q \o a = s  BY <1>2, <1>3, <1>4, <1>7, AppendIsConcat
<1>9. OneMore(q, s, y)  BY <1>1, <1>7, AppendIsMore
<1>10. s \in Seq(S) /\ Len(s) \in Nat \ {0}  BY <1>2, <1>9 DEF OneMore
<1>11. p = Append(s, z)  BY <1>2, <1>3, <1>6, <1>8, <1>10, AppendIsConcat
<1>12. OneMore(s, p, z)  BY <1>2, <1>10, <1>11, AppendIsMore
<1>13. c => n = AfterChunk(AfterChunk(m, y), z)
  <2>1. PICK d : d = <<y, z>>  OBVIOUS
  <2>2. AfterChunks(m, d) = AfterChunk(AfterChunk(m, y), z)  BY <2>1, AfterIs
  <2> QED  BY <1>1, <2>1, <2>2
<1>14. Well(s, AfterChunk(m, y))  BY <1>1, <1>9, WellOn
<1>15. ReadsAll(c, p, n)
  <2>1. EndsRight(p, AfterChunk(AfterChunk(m, y), z))  BY <1>10, <1>12, <1>14, WellOn
  <2> QED  BY <1>13, <2>1 DEF ReadsAll
<1>16. At(s, "content") # {}  BY <1>9, Continues
<1>17. Follows(q, s) /\ Follows(s, p) /\ At(p, "content") # {}  BY <1>9, <1>12, <1>16, Continues
<1>18. Follows(o, p)  BY <1>1, <1>17, Transitive
<1> QED  BY <1>15, <1>17, <1>18

Stages == {"next", "asking", "decided", "announced", "executing", "done", "failed"}
Turns  == {"answer", "call", "result"}

ChatTypes ==
  /\ chat \in BOOLEAN /\ silent \subseteq 1..Rounds /\ (chat => silent = {})
  /\ direct \in BOOLEAN /\ round \in 0..Rounds /\ stage \in Stages
  /\ conversation \in Seq(Turns)
  /\ reasoned \in BOOLEAN /\ saved \in BOOLEAN /\ rawOutput \in BOOLEAN
  /\ sawToolDelta \in BOOLEAN /\ readerLeft \in BOOLEAN
  /\ finalText \in Texts \cup {"reasoning"} /\ finishReason \in {"stop", "tool_calls"}
  /\ heard \in 0..MaxHeard /\ shown \in 0..heard

(* What was told of this round, in each of its stages.                     *)
RoundTold(o, s) ==
  /\ \E n \in Nat : Counted(o, s, n)
  /\ stage = "next" => Counted(o, s, round)
  /\ stage \in {"asking", "decided", "announced", "executing"} => round \in 1..Rounds /\ Counted(o, s, round - 1)
  /\ stage \in {"announced", "executing"} => CalledIn(o, s, round)
  /\ stage \in {"asking", "decided"} /\ sawToolDelta => CalledIn(o, s, round)
  /\ stage \in {"decided", "announced", "executing"} => ~direct
  /\ stage = "asking" /\ shown # 0 => At(o, "content") # {}
  /\ stage = "done" /\ direct /\ finalText = "text" => At(o, "content") # {}

Given(c, o, m) == IF stage = "done" THEN ReadsAll(c, o, m) ELSE Reads(c, o, m)

(* The layer reads the chunks of chat only.                                *)
Unread == ~chat => message.gathered = NothingGathered /\ message.blocks = <<>>

ChatInv == ChatTypes /\ Unread /\ Given(chat, out, message) /\ RoundTold(out, silent)

LEMMA FinishChunkIs ==
  ASSUME NEW cause \in {"stop", "tool_calls"}
  PROVE  [kind |-> "finish", reason |-> cause] \in Chunks
BY DEF Chunks

LEMMA AppendToNothing == ASSUME NEW y PROVE Append(<<>>, y) = <<y>>
  OBVIOUS

LEMMA FinishesSo ==
  ASSUME NEW c, c = chat, NEW o, o = out, NEW m, m = message, NEW p, p = out', NEW n, n = message',
         Reads(c, o, m), NEW text, NEW cause \in {"stop", "tool_calls"}, NEW thought, Finishes(text, cause, thought, <<>>)
  PROVE  ReadsAll(c, p, n) /\ Follows(o, p)
<1>1. PICK f \in Chunks : f = [kind |-> "finish", reason |-> cause]  BY FinishChunkIs
<1>2. f.kind = "finish"  BY <1>1
<1>3. Yields(<<f>>)  BY <1>1, AppendToNothing DEF Finishes
<1> QED  BY <1>2, <1>3, YieldsOne

LEMMA DirectEndsSo ==
  ASSUME NEW c, c = chat, NEW o, o = out, NEW m, m = message, NEW p, p = out', NEW n, n = message',
         Reads(c, o, m), NEW text, NEW more \in BOOLEAN, Finishes(text, "stop", FALSE, Trailing(more))
  PROVE  ReadsAll(c, p, n) /\ Follows(o, p) /\ (more => At(p, "content") # {})
<1>1. PICK f \in Chunks : f = [kind |-> "finish", reason |-> "stop"]  BY FinishChunkIs
<1>2. f.kind = "finish"  BY <1>1
<1>3. CASE ~more
  <2>1. Yields(<<f>>)  BY <1>1, <1>3, AppendToNothing DEF Finishes, Trailing
  <2> QED  BY <1>2, <1>3, <2>1, YieldsOne
<1>4. CASE more
  <2>1. PICK d \in Chunks : d = [kind |-> "content"]  BY DEF Chunks
  <2>2. d.kind = "content"  BY <2>1
  <2>3. Append(<<d>>, f) = <<d, f>>
    <3>1. PICK S, a : S = Chunks /\ a = <<d>>  OBVIOUS
    <3>2. a \in Seq(S)  BY <3>1
    <3>3. Append(a, f) = a \o <<f>>  BY <3>1, <3>2, AppendIsConcat
    <3> QED  BY <3>1, <3>3, TwoAlone
  <2>4. Yields(<<d, f>>)  BY <1>1, <1>4, <2>1, <2>3 DEF Finishes, Trailing
  <2>5. ReadsAll(c, p, n) /\ Follows(o, p) /\ At(p, "content") # {}  BY <1>2, <2>2, <2>4, YieldsTwo
  <2> QED  BY <2>5
<1> QED  BY <1>3, <1>4

LEMMA BelowRounds ==
  ASSUME round \in 0..Rounds, RoundOpens
  PROVE  round < Rounds /\ round' = round + 1 /\ round' \in 0..Rounds
<1>1. PICK b : b = IF direct THEN 1 ELSE Rounds  OBVIOUS
<1>2. b \in {1, 3} /\ round < b /\ round' = round + 1  BY <1>1 DEF RoundOpens, Rounds
<1>3. round \in Nat /\ Rounds = 3  BY DEF Rounds
<1>4. round < 3  BY <1>2, <1>3
<1> QED  BY <1>2, <1>3, <1>4

(* The protocol is that of the request.                                    *)
LEMMA ChatStays ==
  ASSUME [CompatNext]_compatVars
  PROVE  chat' = chat /\ (~chat => message' = message)
<1> USE DEF outcome2, roundPart, eventPart, givenPart, Hears, Yields, Finishes
<1>1. CASE UNCHANGED compatVars  BY <1>1 DEF compatVars
<1>2. CASE ReaderLeaves  BY <1>2 DEF ReaderLeaves
<1>3. CASE RoundOpens  BY <1>3 DEF RoundOpens
<1>4. CASE HearsStarted  BY <1>4 DEF HearsStarted
<1>5. ASSUME NEW ch, HearsToken(ch) PROVE chat' = chat /\ (~chat => message' = message)
  BY <1>5 DEF HearsToken
<1>6. ASSUME NEW i, NEW b, HearsToolDelta(i, b) PROVE chat' = chat /\ (~chat => message' = message)
  BY <1>6 DEF HearsToolDelta
<1>7. CASE StreamThrows  BY <1>7 DEF StreamThrows
<1>8. ASSUME NEW i, NEW b, DirectEnds(i, b) \/ RoundEnds(i, b) PROVE chat' = chat /\ (~chat => message' = message)
  BY <1>8 DEF DirectEnds, RoundEnds
<1>9. CASE Stops \/ Announces \/ Executes  BY <1>9 DEF Stops, Announces, Executes
<1>10. CASE HandsOut \/ ToolReturns  BY <1>10 DEF HandsOut, ToolReturns
<1>11. CASE ToolBreaks \/ RoundsOver  BY <1>11 DEF ToolBreaks, GivesUp, RoundsOver
<1> QED  BY <1>1, <1>2, <1>3, <1>4, <1>5, <1>6, <1>7, <1>8, <1>9, <1>10, <1>11 DEF CompatNext, StreamGoes

LEMMA TypesStep == ChatTypes /\ RoundTold(out, silent) /\ RoundsInv /\ [CompatNext]_compatVars => ChatTypes'
<1> SUFFICES ASSUME ChatTypes, RoundTold(out, silent), RoundsInv, [CompatNext]_compatVars PROVE ChatTypes'  OBVIOUS
<1> USE DEF ChatTypes, Stages
<1>0. MaxHeard \in Nat /\ Rounds = 3  BY StreamAssumption DEF Rounds
<1>1. PICK C : C = Turns  OBVIOUS
<1>2. /\ Append(conversation, "answer") \in Seq(Turns) /\ Append(conversation, "call") \in Seq(Turns)
      /\ conversation \o <<"call", "result">> \in Seq(Turns)
  <2>1. "answer" \in C /\ "call" \in C /\ "result" \in C  BY <1>1 DEF Turns
  <2>2. conversation \in Seq(C)  BY <1>1
  <2>3. PICK a, b : a = "call" /\ b = "result"  OBVIOUS
  <2>4. <<a, b>> \in Seq(C)  BY <2>1, <2>3
  <2>5. conversation \o <<a, b>> \in Seq(C)  BY <2>2, <2>4, ConcatProperties
  <2>6. Append(conversation, "answer") \in Seq(C) /\ Append(conversation, "call") \in Seq(C)
    BY <2>1, <2>2, AppendProperties
  <2> QED  BY <1>1, <2>3, <2>5, <2>6
<1>3. ASSUME NEW text \in Texts, NEW cause \in {"stop", "tool_calls"}, NEW thought \in BOOLEAN,
             NEW chunks, Finishes(text, cause, thought, chunks)
      PROVE  /\ stage' = "done" /\ finalText' \in Texts \cup {"reasoning"} /\ saved' \in BOOLEAN
             /\ finishReason' \in {"stop", "tool_calls"}
  BY <1>3 DEF Finishes
<1>4. "" \in Texts /\ \A i \in Intents : i.kind = "answer" => i.text \in Texts  BY DEF Intents, Texts
<1>5. CASE UNCHANGED compatVars  BY <1>5 DEF compatVars, roundPart, eventPart
<1>6. CASE ReaderLeaves  BY <1>6 DEF ReaderLeaves, roundPart, eventPart
<1>7. CASE RoundOpens
  <2>1. round' \in 0..Rounds  BY <1>0, <1>7, BelowRounds
  <2>2. stage' = "asking" /\ rawOutput' = FALSE /\ shown' = 0 /\ sawToolDelta' = FALSE
        /\ UNCHANGED <<chat, silent, direct, conversation, reasoned, finalText, finishReason, saved, heard, readerLeft>>
    BY <1>7 DEF RoundOpens, SawInNewRound, outcome2
  <2>3. 0 \in 0..heard  BY <1>0
  <2> QED  BY <2>1, <2>2, <2>3
<1>8. CASE HearsStarted  BY <1>0, <1>8 DEF HearsStarted, Hears, roundPart
<1>9. ASSUME NEW c \in {"content", "reasoning", "hidden"}, HearsToken(c) PROVE ChatTypes'
  BY <1>0, <1>9 DEF HearsToken, Hears, roundPart
<1>10. ASSUME NEW i \in CallIndices, NEW b \in BOOLEAN, HearsToolDelta(i, b), RoundTold(out, silent) PROVE ChatTypes'
  <2>1. round \in 1..Rounds  BY <1>10 DEF HearsToolDelta, Hears, RoundTold
  <2>2. silent' \subseteq 1..Rounds /\ (chat => silent' = {}) /\ chat' = chat
    BY <1>10, <2>1 DEF HearsToolDelta, Hears
  <2>3. heard' \in 0..MaxHeard /\ shown' \in 0..heard' /\ sawToolDelta' \in BOOLEAN /\ rawOutput' \in BOOLEAN
        /\ readerLeft' \in BOOLEAN /\ UNCHANGED <<direct, roundPart>>
    BY <1>0, <1>10 DEF HearsToolDelta, Hears
  <2> QED  BY <2>2, <2>3 DEF roundPart
<1>11. CASE StreamThrows  BY <1>11 DEF StreamThrows, outcome2, eventPart
<1>12. ASSUME NEW i \in Intents, NEW b \in BOOLEAN, DirectEnds(i, b) PROVE ChatTypes'
  BY <1>2, <1>3, <1>4, <1>12 DEF DirectEnds, eventPart
<1>13. ASSUME NEW i \in Intents, NEW b \in BOOLEAN, RoundEnds(i, b) PROVE ChatTypes'
  BY <1>13 DEF RoundEnds, eventPart, outcome2
<1>14. CASE Stops
  <2>1. intent.text \in Texts  BY <1>4, <1>14 DEF Stops, RoundsInv
  <2> QED  BY <1>2, <1>3, <1>14, <2>1 DEF Stops, eventPart
<1>15. CASE Announces  BY <1>15 DEF Announces, eventPart, outcome2
<1>16. CASE Executes  BY <1>16 DEF Executes, eventPart, outcome2
<1>17. CASE HandsOut  BY <1>2, <1>3, <1>4, <1>17 DEF HandsOut, eventPart
<1>18. CASE ToolReturns  BY <1>2, <1>18 DEF ToolReturns, eventPart, outcome2
<1>19. CASE ToolBreaks  BY <1>3, <1>4, <1>19 DEF ToolBreaks, GivesUp, eventPart
<1>20. CASE RoundsOver  BY <1>3, <1>4, <1>20 DEF RoundsOver, eventPart
<1> QED  BY <1>5, <1>6, <1>7, <1>8, <1>9, <1>10, <1>11, <1>12, <1>13, <1>14, <1>15, <1>16, <1>17, <1>18,
            <1>19, <1>20 DEF CompatNext, StreamGoes

LEMMA ToldStep ==
  ASSUME ChatInv, RoundsInv, [CompatNext]_compatVars
  PROVE  Given(chat, out, message)' /\ RoundTold(out, silent)'
<1>1. PICK c, s, o, m, p, n : c = chat /\ s = silent /\ o = out /\ m = message /\ p = out' /\ n = message'  OBVIOUS
<1>01. chat' = c  BY <1>1, ChatStays
<1> DEFINE Goal == Given(chat, out, message)' /\ RoundTold(out, silent)'
<1>2. ChatTypes /\ Given(c, o, m) /\ RoundTold(o, s)  BY <1>1 DEF ChatInv
<1>3. ASSUME UNCHANGED <<stage, out, message, round, direct, finalText, shown, sawToolDelta, silent>> PROVE Goal
  BY <1>1, <1>01, <1>2, <1>3 DEF Given, RoundTold
<1>4. ASSUME stage # "done" PROVE Reads(c, o, m)  BY <1>2, <1>4 DEF Given
<1>0. round \in Nat  BY <1>2 DEF ChatTypes
<1>5. ASSUME stage # "done", NEW text, NEW cause \in {"stop", "tool_calls"}, NEW thought,
             Finishes(text, cause, thought, <<>>), direct' => finalText' # "text", silent' = silent
      PROVE  Goal
  <2>1. ReadsAll(c, p, n) /\ Follows(o, p)  BY <1>1, <1>4, <1>5, FinishesSo
  <2>2. stage' = "done"  BY <1>5 DEF Finishes
  <2>3. \E k \in Nat : Counted(p, s, k)  BY <1>2, <2>1 DEF RoundTold, Follows
  <2> QED  BY <1>1, <1>01, <1>5, <2>1, <2>2, <2>3 DEF Given, RoundTold
<1>6. CASE UNCHANGED compatVars  BY <1>3, <1>6 DEF compatVars, roundPart, givenPart, eventPart
<1>7. CASE ReaderLeaves  BY <1>3, <1>7 DEF ReaderLeaves, roundPart, givenPart, eventPart
<1>8. CASE RoundOpens
  <2>0. round < Rounds /\ round' = round + 1  BY <1>2, <1>8, BelowRounds DEF ChatTypes
  <2>1. /\ stage = "next" /\ round < Rounds /\ round' = round + 1 /\ stage' = "asking" /\ shown' = 0
        /\ ~sawToolDelta' /\ p = o /\ n = m /\ silent' = silent
    BY <1>1, <1>8, <2>0 DEF RoundOpens, SawInNewRound, givenPart
  <2>2. Reads(c, p, n) /\ Counted(p, s, round) /\ round' \in 1..Rounds /\ round' - 1 = round
    BY <1>0, <1>2, <1>4, <2>1 DEF RoundTold, Rounds
  <2> QED  BY <1>1, <1>01, <2>1, <2>2, <1>0 DEF Given, RoundTold
<1>9. CASE HearsStarted
  <2>1. stage = "asking" /\ Yields(<<>>) /\ UNCHANGED <<stage, round, direct, finalText, shown, sawToolDelta, silent>>
    BY <1>9 DEF HearsStarted, Hears, roundPart
  <2>2. Reads(c, p, n) /\ Follows(o, p)  BY <1>1, <1>4, <2>1, YieldsNone
  <2> QED  BY <1>1, <1>01, <1>2, <2>1, <2>2 DEF Given, RoundTold, Follows
<1>10. ASSUME NEW ch \in {"content", "reasoning", "hidden"}, HearsToken(ch) PROVE Goal
  <2>1. stage = "asking" /\ UNCHANGED <<stage, round, direct, finalText, sawToolDelta, silent>>
    BY <1>10 DEF HearsToken, Hears, roundPart
  <2>2. CASE ch = "hidden"
    <3>1. Yields(<<>>) /\ shown' = shown  BY <1>10, <2>2 DEF HearsToken
    <3>2. Reads(c, p, n) /\ Follows(o, p)  BY <1>1, <1>4, <2>1, <3>1, YieldsNone
    <3> QED  BY <1>1, <1>01, <1>2, <2>1, <3>1, <3>2 DEF Given, RoundTold, Follows
  <2>3. CASE ch # "hidden"
    <3>1. PICK y \in Chunks : y = [kind |-> ch]  BY <1>10, <2>3 DEF Chunks
    <3>2. y.kind = ch /\ ch \in {"content", "reasoning"}  BY <1>10, <2>3, <3>1
    <3>3. Yields(<<y>>) /\ (ch # "content" => shown' = shown)  BY <1>10, <2>3, <3>1 DEF HearsToken
    <3>4. Reads(c, p, n) /\ Follows(o, p) /\ (ch = "content" => At(p, "content") # {})
      BY <1>1, <1>4, <2>1, <3>2, <3>3, YieldsOne
    <3> QED  BY <1>1, <1>01, <1>2, <2>1, <3>2, <3>3, <3>4 DEF Given, RoundTold, Follows
  <2> QED  BY <2>2, <2>3
<1>11. ASSUME stage \in {"asking", "decided"}, NEW i \in CallIndices, Yields(<<Call(i)>>)
       PROVE  Reads(c, p, n) /\ Follows(o, p) /\ CalledIn(p, s, round)
  <2>1. round \in 1..Rounds  BY <1>2, <1>11 DEF RoundTold
  <2>2. PICK y : y = Call(i)  OBVIOUS
  <2>3. y \in Chunks /\ y.kind = "call" /\ y.round = round
    <3>1. PICK k \in CallIndices : y = [kind |-> "call", round |-> round, index |-> k]
      BY <2>2, StreamAssumption DEF Call
    <3> QED  BY <2>1, <3>1 DEF Chunks
  <2>4. Yields(<<y>>)  BY <1>11, <2>2
  <2>5. Reads(c, o, m)  BY <1>4, <1>11
  <2> QED  BY <1>1, <2>3, <2>4, <2>5, YieldsOne
<1>12. ASSUME NEW i \in CallIndices, NEW b \in BOOLEAN, HearsToolDelta(i, b) PROVE Goal
  <2>1. stage = "asking" /\ UNCHANGED <<stage, round, direct, finalText, shown>>
    BY <1>12 DEF HearsToolDelta, Hears, roundPart
  <2>2. CASE chat \/ b
    <3>1. Yields(<<Call(i)>>) /\ silent' = s  BY <1>1, <1>12, <2>2 DEF HearsToolDelta
    <3>2. Reads(c, p, n) /\ Follows(o, p) /\ CalledIn(p, s, round)  BY <1>11, <2>1, <3>1
    <3> QED  BY <1>1, <1>01, <1>2, <2>1, <3>1, <3>2 DEF Given, RoundTold, Follows
  <2>3. CASE ~(chat \/ b)
    <3>1. Yields(<<>>) /\ silent' = s \cup {round}  BY <1>1, <1>12, <2>3 DEF HearsToolDelta
    <3>2. Reads(c, p, n) /\ Follows(o, p)  BY <1>1, <1>4, <2>1, <3>1, YieldsNone
    <3>3. PICK u : u = silent' /\ u = s \cup {round}  BY <3>1
    <3>4. (\A k : Counted(p, s, k) => Counted(p, u, k)) /\ CalledIn(p, u, round)
      <4>1. s \subseteq u /\ round \in u  BY <3>3
      <4> QED  BY <4>1, MoreSilent DEF CalledIn
    <3>5. \A k : Counted(o, s, k) => Counted(p, u, k)  BY <3>2, <3>4 DEF Follows
    <3> QED  BY <1>1, <1>01, <1>2, <2>1, <3>2, <3>3, <3>4, <3>5 DEF Given, RoundTold, Follows
  <2> QED  BY <2>2, <2>3
<1>13. CASE StreamThrows
  <2>1. stage # "done" /\ stage' = "failed" /\ UNCHANGED <<out, message, silent>>
    BY <1>13 DEF StreamThrows, givenPart, eventPart
  <2> QED  BY <1>1, <1>01, <1>2, <1>4, <2>1 DEF Given, RoundTold
<1>14. ASSUME NEW i \in Intents, NEW b \in BOOLEAN, DirectEnds(i, b) PROVE Goal
  <2>1. /\ stage = "asking" /\ (shown # 0 \/ b \/ i.text = "") /\ Finishes(i.text, "stop", FALSE, Trailing(b))
        /\ silent' = s
    <3>1. shown \in Nat  BY <1>2, StreamAssumption DEF ChatTypes
    <3> QED  BY <1>1, <1>14, <3>1 DEF DirectEnds, eventPart
  <2>2. ReadsAll(c, p, n) /\ Follows(o, p) /\ (b => At(p, "content") # {})  BY <1>1, <1>4, <2>1, DirectEndsSo
  <2>3. stage' = "done" /\ finalText' = i.text  BY <2>1 DEF Finishes
  <2>4. shown # 0 => At(p, "content") # {}  BY <1>2, <2>1, <2>2 DEF RoundTold, Follows
  <2>5. finalText' = "text" => At(p, "content") # {}  BY <2>1, <2>2, <2>3, <2>4
  <2>6. \E k \in Nat : Counted(p, s, k)  BY <1>2, <2>2 DEF RoundTold, Follows
  <2> QED  BY <1>1, <1>01, <2>1, <2>2, <2>3, <2>5, <2>6 DEF Given, RoundTold
<1>15. ASSUME NEW i \in Intents, NEW b \in BOOLEAN, RoundEnds(i, b) PROVE Goal
  <2>1. /\ ~direct /\ stage = "asking" /\ stage' = "decided" /\ Yields(<<>>)
        /\ UNCHANGED <<round, direct, finalText, shown, sawToolDelta, silent>>
    BY <1>15 DEF RoundEnds, outcome2, eventPart
  <2>2. Reads(c, p, n) /\ Follows(o, p)  BY <1>1, <1>4, <2>1, YieldsNone
  <2> QED  BY <1>1, <1>01, <1>2, <2>1, <2>2 DEF Given, RoundTold, Follows
<1>16. CASE Stops
  <2>1. stage = "decided" /\ Finishes(intent.text, "stop", reasoned, <<>>) /\ direct' = direct /\ silent' = silent
    BY <1>16 DEF Stops, eventPart
  <2>2. ~direct  BY <1>2, <2>1 DEF RoundTold
  <2> QED  BY <1>5, <2>1, <2>2
<1>17. CASE Announces
  <2>1. /\ stage = "decided" /\ stage' = "announced"
        /\ UNCHANGED <<round, direct, finalText, shown, sawToolDelta, silent>>
    BY <1>17 DEF Announces, outcome2, eventPart
  <2>2. CASE sawToolDelta
    <3>1. Yields(<<>>)  BY <1>17, <2>2 DEF Announces
    <3>2. Reads(c, p, n) /\ Follows(o, p)  BY <1>1, <1>4, <2>1, <3>1, YieldsNone
    <3> QED  BY <1>1, <1>01, <1>2, <2>1, <2>2, <3>2 DEF Given, RoundTold, Follows
  <2>3. CASE ~sawToolDelta
    <3>1. Yields(<<Call(0)>>) /\ 0 \in CallIndices  BY <1>17, <2>3, StreamAssumption DEF Announces
    <3>2. Reads(c, p, n) /\ Follows(o, p) /\ CalledIn(p, s, round)  BY <1>11, <2>1, <3>1
    <3> QED  BY <1>1, <1>01, <1>2, <2>1, <3>2 DEF Given, RoundTold, Follows
  <2> QED  BY <2>2, <2>3
<1>18. CASE Executes
  <2>1. /\ stage = "announced" /\ stage' = "executing"
        /\ UNCHANGED <<out, message, round, direct, finalText, shown, sawToolDelta, silent>>
    BY <1>18 DEF Executes, outcome2, eventPart, givenPart
  <2> QED  BY <1>1, <1>01, <1>2, <1>4, <2>1 DEF Given, RoundTold
<1>19. CASE HandsOut
  <2>1. stage = "announced" /\ Finishes("", "tool_calls", reasoned, <<>>) /\ silent' = silent
    BY <1>19 DEF HandsOut, eventPart
  <2>2. finalText' # "text"  BY <2>1 DEF Finishes
  <2> QED  BY <1>5, <2>1, <2>2
<1>20. CASE ToolReturns
  <2>1. /\ stage = "executing" /\ stage' = "next" /\ Yields(<<[kind |-> "output"]>>)
        /\ UNCHANGED <<round, direct, finalText, silent>>
    BY <1>20 DEF ToolReturns, outcome2, eventPart
  <2>2. PICK y \in Chunks : y = [kind |-> "output"]  BY DEF Chunks
  <2>3. y.kind = "output" /\ Yields(<<y>>)  BY <2>1, <2>2
  <2>4. round \in 1..Rounds /\ Counted(o, s, round - 1) /\ CalledIn(o, s, round)  BY <1>2, <2>1 DEF RoundTold
  <2>5. PICK r \in Nat : r = round - 1 /\ r + 1 = round  BY <1>0, <2>4
  <2>6. Reads(c, p, n) /\ Counted(p, s, r + 1)  BY <1>1, <1>4, <2>1, <2>3, <2>4, <2>5, YieldsOne
  <2> QED  BY <1>0, <1>1, <1>01, <2>1, <2>5, <2>6 DEF Given, RoundTold
<1>21. CASE ToolBreaks
  <2>1. stage = "executing" /\ Finishes("", "tool_calls", reasoned, <<>>) /\ silent' = silent
    BY <1>21 DEF ToolBreaks, GivesUp, eventPart
  <2>2. finalText' # "text"  BY <2>1 DEF Finishes
  <2> QED  BY <1>5, <2>1, <2>2
<1>22. CASE RoundsOver
  <2>1. stage = "next" /\ Finishes("", "stop", reasoned, <<>>) /\ silent' = silent
    BY <1>22 DEF RoundsOver, eventPart
  <2>2. finalText' # "text"  BY <2>1 DEF Finishes
  <2> QED  BY <1>5, <2>1, <2>2
<1> QED  BY <1>6, <1>7, <1>8, <1>9, <1>10, <1>12, <1>13, <1>14, <1>15, <1>16, <1>17, <1>18, <1>19, <1>20,
            <1>21, <1>22 DEF CompatNext, StreamGoes

LEMMA NothingGiven == ASSUME NEW o, o = <<>> PROVE o \in Seq(Chunks) /\ Len(o) = 0 /\ \A kind : At(o, kind) = {}
<1>1. PICK S : S = Chunks  OBVIOUS
<1>2. o \in Seq(S) /\ Len(o) = 0  BY EmptySeq
<1> QED  BY <1>1, <1>2 DEF At

LEMMA ChatStart == CompatInit => ChatInv
<1> SUFFICES ASSUME CompatInit PROVE ChatInv  OBVIOUS
<1>1. PICK o, b : o = <<>> /\ b = <<>>  OBVIOUS
<1>2. o \in Seq(Chunks) /\ Len(o) = 0 /\ \A kind : At(o, kind) = {}  BY <1>1, NothingGiven
<1>3. b \in Seq(Blocks) /\ Len(b) = 0
  <2>1. PICK S : S = Blocks  OBVIOUS
  <2>2. b \in Seq(S) /\ Len(b) = 0  BY <1>1, EmptySeq
  <2> QED  BY <2>1, <2>2
<1>4. PICK m : m = message /\ m.gathered = NothingGathered /\ m.blocks = b /\ out = o
  <2>1. message = [gathered |-> NothingGathered, blocks |-> b] /\ out = o  BY <1>1 DEF CompatInit
  <2>2. message.gathered = NothingGathered /\ message.blocks = b  BY <2>1
  <2> QED  BY <2>1, <2>2
<1>5. \A k : k \notin 1..Len(b)  BY <1>3
<1>6. LayerOK(o, m.gathered, m.blocks)
  <2>1. GatherOK(o, m.gathered) /\ BothOK(o, m.gathered, m.blocks)  BY <1>4, NothingIsGathered
  <2>2. BlocksOK(o, m.blocks)  BY <1>2, <1>3, <1>4, <1>5 DEF BlocksOK
  <2>3. KeptOK(o, m.gathered, m.blocks) /\ BeforeOK(o, m.blocks)  BY <1>2 DEF KeptOK, BeforeOK
  <2> QED  BY <2>1, <2>2, <2>3 DEF LayerOK
<1>7. Well(o, m)  BY <1>2, <1>4, <1>5, <1>6 DEF Well, Shut
<1>8. Counted(o, {}, 0)  BY <1>2, FS_EmptySet DEF Counted
<1>9. ChatTypes
  <2>1. PICK S, c : S = Turns /\ c = <<>>  OBVIOUS
  <2>2. c \in Seq(S)  BY <2>1, EmptySeq
  <2>3. conversation \in Seq(Turns)  BY <2>1, <2>2 DEF CompatInit
  <2>4. MaxHeard \in Nat  BY StreamAssumption
  <2>8. heard = 0 /\ shown = 0 /\ round = 0 /\ stage = "next"  BY DEF CompatInit
  <2>5. heard = 0 /\ heard \in 0..MaxHeard /\ shown \in 0..heard  BY <2>4, <2>8
  <2>6. round \in 0..Rounds /\ stage \in Stages  BY <2>8 DEF Stages, Rounds
  <2>7. /\ direct \in BOOLEAN /\ reasoned \in BOOLEAN /\ saved \in BOOLEAN /\ rawOutput \in BOOLEAN
        /\ sawToolDelta \in BOOLEAN /\ readerLeft \in BOOLEAN
        /\ finalText \in Texts \cup {"reasoning"} /\ finishReason \in {"stop", "tool_calls"}
        /\ chat \in BOOLEAN /\ silent = {}
    BY DEF CompatInit, Texts
  <2> QED  BY <2>3, <2>5, <2>6, <2>7 DEF ChatTypes
<1>10. Given(chat, out, message)  BY <1>4, <1>7 DEF Given, Reads, CompatInit
<1>11. RoundTold(out, silent)  BY <1>4, <1>8 DEF RoundTold, CompatInit
<1>12. Unread  BY <1>1, <1>4 DEF Unread
<1> QED  BY <1>9, <1>10, <1>11, <1>12 DEF ChatInv

LEMMA ChatStep == ChatInv /\ RoundsInv /\ [CompatNext]_compatVars => ChatInv'
<1> SUFFICES ASSUME ChatInv, RoundsInv, [CompatNext]_compatVars PROVE ChatInv'  OBVIOUS
<1>1. ChatTypes'  BY TypesStep DEF ChatInv
<1>2. Given(chat, out, message)' /\ RoundTold(out, silent)'  BY ToldStep
<1>3. Unread'  BY ChatStays DEF ChatInv, Unread
<1> QED  BY <1>1, <1>2, <1>3 DEF ChatInv

(* Two blocks have it only if one was opened between two of its pieces.    *)
LEMMA OneBlock ==
  ASSUME NEW o \in Seq(Chunks), NEW bs, BlocksOK(o, bs), NEW k \in At(o, "call"),
         NEW H, H = Holding(bs, o[k])
  PROVE  \/ Cardinality(H) <= 1
         \/ \E t \in Opens(o), l \in At(o, "call") : o[l] = o[k] /\ ((k < t /\ t < l) \/ (l < t /\ t < k))
<1>1. CASE \A a, b \in H : a = b
  <2>1. CASE H = {}  BY <2>1, FS_EmptySet
  <2>2. CASE H # {}
    <3>1. PICK a : a \in H  BY <2>2
    <3>2. H = {a}  BY <1>1, <3>1
    <3>3. Cardinality({a}) = 1  BY FS_Singleton
    <3> QED  BY <3>2, <3>3
  <2> QED  BY <2>1, <2>2
<1>2. CASE \E a, b \in H : a # b
  <2>1. PICK a, b \in H : a # b  BY <1>2
  <2>2. a \in 1..Len(bs) /\ b \in 1..Len(bs) /\ o[k] \in bs[a].calls /\ o[k] \in bs[b].calls  BY DEF Holding
  <2>3. Again(o, o[k])  BY <2>1, <2>2 DEF BlocksOK
  <2>4. PICK t \in Opens(o), j, l \in 1..Len(o) : o[j] = o[k] /\ o[l] = o[k] /\ j < t /\ t < l
    BY <2>3 DEF Again
  <2>5. j \in At(o, "call") /\ l \in At(o, "call")  BY <2>4 DEF At
  <2>6. k \in Nat /\ t \in Nat /\ o[t].kind # o[k].kind  BY DEF At, Opens
  <2>7. k # t  BY <2>6
  <2>8. k < t \/ t < k  BY <2>6, <2>7
  <2> QED  BY <2>4, <2>5, <2>8
<1> QED  BY <1>1, <1>2

LEMMA ChatIsSound == ChatInv /\ RoundsInv => CompatSound
<1> SUFFICES ASSUME ChatInv, RoundsInv PROVE CompatSound  OBVIOUS
<1>0. PICK m : /\ chat => m = message
               /\ IF stage = "done" THEN EndsRight(out, m) ELSE Well(out, m)
  BY DEF ChatInv, Given, Reads, ReadsAll
<1>1. PICK o, g, bs : o = out /\ g = m.gathered /\ bs = m.blocks  OBVIOUS
<1>2. o \in Seq(Chunks) /\ LayerOK(o, g, bs)  BY <1>0, <1>1 DEF Well, EndsRight
<1>3. bs \in Seq(Blocks) /\ g \in [CallIndices -> SUBSET Chunks]
  BY <1>2 DEF LayerOK, BlocksOK, GatherOK
<1>4. DOMAIN o = 1..Len(o) /\ DOMAIN bs = 1..Len(bs) /\ Len(o) \in Nat
  <2>1. PICK S, B : S = Chunks /\ B = Blocks  OBVIOUS
  <2> QED  BY <1>2, <1>3, <2>1, LenProperties
<1>5. (\A kind : Positions(kind) = At(o, kind)) /\ Openers = Opens(o)
  BY <1>1, <1>4 DEF Positions, At, Openers, Opens
<1>6. CompatTypeOK
  <2>1. MaxHeard \in Nat  BY StreamAssumption
  <2>2. shown \in 0..MaxHeard /\ heard \in 0..MaxHeard  BY <2>1 DEF ChatInv, ChatTypes
  <2>3. message.gathered \in [CallIndices -> SUBSET Chunks] /\ message.blocks \in Seq(Blocks)
    <3>1. CASE chat  BY <1>0, <1>1, <1>3, <3>1
    <3>2. CASE ~chat
      <4>1. message.gathered = NothingGathered /\ message.blocks = <<>>  BY <3>2 DEF ChatInv, Unread
      <4>2. NothingGathered \in [CallIndices -> SUBSET Chunks]  BY DEF NothingGathered
      <4>3. PICK S, b : S = Blocks /\ b = <<>>  OBVIOUS
      <4>4. b \in Seq(S)  BY <4>3, EmptySeq
      <4> QED  BY <4>1, <4>2, <4>3, <4>4
    <3> QED  BY <3>1, <3>2
  <2>4. message.blocks \in Seq([kind : {"reasoning", "content", "tool_use"}, calls : SUBSET Chunks])
    BY <2>3 DEF Blocks, Kinds
  <2>5. traces \in Seq([of : Offered \cup Skills, was : {"begun", "done", "failed", "handed out"}])
    BY DEF RoundsInv, Traces
  <2> QED  BY <1>1, <1>2, <2>2, <2>3, <2>4, <2>5 DEF ChatInv, ChatTypes, Stages, Turns, CompatTypeOK, RoundsInv
<1>7. BeginsAndEndsOnce
  <2>1. CASE stage = "done"  BY <1>0, <1>1, <1>5, <2>1 DEF EndsRight, BeginsAndEndsOnce
  <2>2. CASE stage # "done"
    <3>1. At(o, "finish") = {} /\ (Len(o) # 0 => At(o, "preamble") = {1})
      BY <1>0, <1>1, <2>2 DEF Well
    <3>2. PICK S : S = Chunks  OBVIOUS
    <3>3. o # <<>> => Len(o) # 0  BY <1>2, <3>2, EmptySeq
    <3> QED  BY <1>1, <1>5, <2>2, <3>1, <3>3 DEF BeginsAndEndsOnce
  <2> QED  BY <2>1, <2>2
<1>8. ToldBeforeOutput
  <2>1. PICK n \in Nat : Counted(o, silent, n)  BY <1>1 DEF ChatInv, RoundTold
  <2>2. chat => silent = {}  BY DEF ChatInv, ChatTypes
  <2> QED  BY <1>1, <1>5, <2>1, <2>2 DEF Counted, Told, UpTo, ToldBeforeOutput
<1>9. TextIsGiven  BY <1>1, <1>5 DEF ChatInv, RoundTold, TextIsGiven
<1>10. ASSUME NEW k \in At(o, "call"), NEW H, H = {b \in DOMAIN bs : o[k] \in bs[b].calls}
       PROVE  /\ o[k] \in g[o[k].index] \/ H # {}
              /\ stage = "done" => H # {} /\ g = NothingGathered
              /\ \A t \in Opens(o) : t > k =>
                   \E b, c \in DOMAIN bs : c \in H /\ bs[b].kind = o[t].kind /\ c < b
              /\ \/ Cardinality(H) <= 1
                 \/ \E t \in Opens(o), l \in At(o, "call") :
                      o[l] = o[k] /\ ((k < t /\ t < l) \/ (l < t /\ t < k))
  <2>1. H = Holding(bs, o[k])  BY <1>4, <1>10 DEF Holding
  <2>2. o[k] \in g[o[k].index] \/ H # {}  BY <1>2, <2>1 DEF LayerOK, KeptOK
  <2>3. stage = "done" => H # {} /\ g = NothingGathered  BY <1>0, <1>1, <2>1 DEF EndsRight
  <2>4. \A t \in Opens(o) : t > k => \E b, c \in DOMAIN bs : c \in H /\ bs[b].kind = o[t].kind /\ c < b
    BY <1>2, <1>4, <2>1 DEF LayerOK, BeforeOK
  <2>5. \/ Cardinality(H) <= 1
        \/ \E t \in Opens(o), l \in At(o, "call") : o[l] = o[k] /\ ((k < t /\ t < l) \/ (l < t /\ t < k))
    BY <1>2, <2>1, OneBlock DEF LayerOK
  <2> QED  BY <2>2, <2>3, <2>4, <2>5
<1>11. CallsBecomeBlocks
  <2>1. CASE chat
    <3>1. \A a, b \in DOMAIN bs : bs[a].kind = bs[b].kind /\ a # b => bs[a].kind = "tool_use"
      BY <1>2, <1>4 DEF LayerOK, BlocksOK
    <3>2. m = message  BY <1>0, <2>1
    <3> QED  BY <1>1, <1>5, <1>10, <3>1, <3>2 DEF CallsBecomeBlocks
  <2>2. CASE ~chat
    <3>1. PICK b : b = message.blocks /\ b = <<>>  BY <2>2 DEF ChatInv, Unread
    <3>2. DOMAIN b = {}
      <4>1. PICK S : S = Blocks  OBVIOUS
      <4>2. b \in Seq(S) /\ Len(b) = 0  BY <3>1, EmptySeq
      <4>3. DOMAIN b = 1..Len(b)  BY <4>2, LenProperties
      <4> QED  BY <4>2, <4>3
    <3> QED  BY <2>2, <3>1, <3>2 DEF CallsBecomeBlocks
  <2> QED  BY <2>1, <2>2
<1> QED  BY <1>6, <1>7, <1>8, <1>9, <1>11 DEF CompatSound

(***************************************************************************)
(* Continuous batching.  The queue holds the jobs that wait, each once and *)
(* by priority; an entry of the map is of jobs of its id that run, and as  *)
(* long as no two jobs shared an id every job that runs has its entry.     *)
(***************************************************************************)
Ordered(s) == \A a, b \in 1..Len(s) : a < b => PriorityOf[s[b]] <= PriorityOf[s[a]]

QueueInv ==
  /\ Distinct(waiting) /\ Ordered(waiting)
  /\ \A j \in BatchJobs : job[j] = "waiting" <=> In(j, waiting)

HasItsEntry == \A j \in BatchJobs : job[j] = "running" => active[IdOf[j]] = {j}

BatchInv ==
  /\ BatchTypeOK /\ QueueInv /\ EntriesRun /\ DrainPending
  /\ \E n \in Concurrencies : ActiveSize(active) <= n
  /\ Clash \/ HasItsEntry

(* A map of entries: each of jobs of its own id.                           *)
Keyed(map) == /\ map \in [BatchIds -> SUBSET BatchJobs]
              /\ \A i \in BatchIds : \A j \in map[i] : IdOf[j] = i

LEMMA EntriesFinite ==
  ASSUME NEW map, Keyed(map)
  PROVE  IsFiniteSet(Entries(map)) /\ ActiveSize(map) \in Nat
<1>1. PICK f : f = [j \in BatchJobs |-> IdOf[j]]  OBVIOUS
<1>2. PICK T : T = {IdOf[j] : j \in BatchJobs}  OBVIOUS
<1>3. f \in Surjection(BatchJobs, T)  BY <1>1, <1>2 DEF Surjection
<1>4. IsFiniteSet(T)  BY <1>3, BatchAssumption, FS_Surjection
<1>5. Entries(map) \subseteq T  BY <1>2 DEF Entries, Keyed
<1>6. PICK E : E = Entries(map)  OBVIOUS
<1>7. IsFiniteSet(E)  BY <1>4, <1>5, <1>6, FS_Subset
<1> QED  BY <1>6, <1>7, FS_CardinalityType DEF ActiveSize

LEMMA FewerEntries ==
  ASSUME NEW map, NEW more, Keyed(map), Keyed(more), NEW i, Entries(more) \subseteq Entries(map) \cup {i}
  PROVE  ActiveSize(more) <= ActiveSize(map) + 1
<1>1. PICK E, F : E = Entries(map) /\ F = Entries(more)  OBVIOUS
<1>2. IsFiniteSet(E) /\ Cardinality(E) \in Nat /\ Cardinality(F) \in Nat
  BY <1>1, EntriesFinite DEF ActiveSize
<1>3. PICK G : G = E \cup {i}  OBVIOUS
<1>4. IsFiniteSet(G) /\ Cardinality(G) <= Cardinality(E) + 1 /\ Cardinality(G) \in Nat
  <2>1. IsFiniteSet(G) /\ Cardinality(G) = IF i \in E THEN Cardinality(E) ELSE Cardinality(E) + 1
    BY <1>2, <1>3, FS_AddElement
  <2>2. Cardinality(E) \in Nat  BY <1>2
  <2> QED  BY <2>1, <2>2
<1>5. F \in SUBSET G  BY <1>1, <1>3
<1>6. Cardinality(F) <= Cardinality(G)  BY <1>4, <1>5, FS_Subset
<1> QED  BY <1>1, <1>2, <1>4, <1>6 DEF ActiveSize

(* The map after n jobs were started: each of their ids has one of them.   *)
Started(n) == {waiting[k] : k \in 1..n}

LEMMA MapIs ==
  ASSUME BatchTypeOK, EntriesRun, NEW n \in 0..Len(waiting)
  PROVE  /\ Keyed(MapAfter(n))
         /\ \A i \in BatchIds :
              \/ \E k \in 1..n : IdOf[waiting[k]] = i /\ MapAfter(n)[i] = {waiting[k]}
              \/ (\A k \in 1..n : IdOf[waiting[k]] # i) /\ MapAfter(n)[i] = active[i]
<1>1. Len(waiting) \in Nat /\ n \in Nat /\ \A k \in 1..n : waiting[k] \in BatchJobs
  <2>1. waiting \in Seq(BatchJobs)  BY DEF BatchTypeOK
  <2>2. Len(waiting) \in Nat /\ \A k \in 1..Len(waiting) : waiting[k] \in BatchJobs  BY <2>1, LenProperties
  <2>3. n \in Nat /\ \A k \in 1..n : k \in 1..Len(waiting)  BY <2>2
  <2> QED  BY <2>2, <2>3
<1>2. PICK map : map = MapAfter(n)  OBVIOUS
<1>3. ASSUME NEW i \in BatchIds
      PROVE  \/ \E k \in 1..n : IdOf[waiting[k]] = i /\ map[i] = {waiting[k]}
             \/ (\A k \in 1..n : IdOf[waiting[k]] # i) /\ map[i] = active[i]
  <2>1. PICK mine : mine = {k \in 1..n : IdOf[waiting[k]] = i}  OBVIOUS
  <2>2. map[i] = IF mine = {} THEN active[i] ELSE {waiting[Max(mine)]}  BY <1>2, <2>1 DEF MapAfter
  <2>3. CASE mine = {}  BY <2>1, <2>2, <2>3
  <2>4. CASE mine # {}
    <3>1. mine \subseteq 1..n /\ 1 \in Nat  BY <2>1
    <3>2. Max(mine) \in mine  BY <1>1, <2>4, <3>1, ExtremesAre
    <3> QED  BY <2>1, <2>2, <2>4, <3>2
  <2> QED  BY <2>3, <2>4
<1>4. map \in [BatchIds -> SUBSET BatchJobs]
  <2>1. map = [i \in BatchIds |-> map[i]]  BY <1>2 DEF MapAfter
  <2>2. active \in [BatchIds -> SUBSET BatchJobs]  BY DEF BatchTypeOK
  <2>3. \A i \in BatchIds : map[i] \in SUBSET BatchJobs  BY <1>1, <1>3, <2>2
  <2> QED  BY <2>1, <2>3
<1>5. \A i \in BatchIds : \A j \in map[i] : IdOf[j] = i  BY <1>3 DEF EntriesRun
<1> QED  BY <1>2, <1>3, <1>4, <1>5 DEF Keyed

LEMMA CountIs ==
  ASSUME BatchTypeOK
  PROVE  /\ StartCount \in 0..Len(waiting) /\ DrainStops(StartCount)
         /\ \A n \in 0..Len(waiting) : n < StartCount => ~DrainStops(n)
<1>1. PICK m \in Nat : m = Len(waiting)
  <2>1. waiting \in Seq(BatchJobs)  BY DEF BatchTypeOK
  <2> QED  BY <2>1, LenProperties
<1>2. PICK S : S = {n \in 0..Len(waiting) : DrainStops(n)}  OBVIOUS
<1>3. S \subseteq 0..m /\ 0 \in Nat  BY <1>1, <1>2
<1>4. S # {}  BY <1>1, <1>2 DEF DrainStops
<1>5. Min(S) \in S /\ \A i \in S : Min(S) <= i  BY <1>1, <1>3, <1>4, ExtremesAre
<1>6. PICK c : c = StartCount  OBVIOUS
<1>7. c \in S /\ \A i \in S : c <= i  BY <1>2, <1>5, <1>6 DEF StartCount
<1>8. \A i \in 0..Len(waiting) : i < c => i \notin S
  <2> SUFFICES ASSUME NEW i \in 0..Len(waiting), i < c, i \in S PROVE FALSE  OBVIOUS
  <2>1. c <= i /\ c \in Nat /\ i \in Nat  BY <1>1, <1>2, <1>7
  <2> QED  BY <2>1
<1> QED  BY <1>2, <1>6, <1>7, <1>8

(* The limit is compared before each start, over the map as it is then.    *)
LEMMA StartsKeepLimit ==
  ASSUME BatchTypeOK, EntriesRun, \E n \in Concurrencies : ActiveSize(active) <= n
  PROVE  \E n \in Concurrencies : ActiveSize(MapAfter(StartCount)) <= n
<1>0. Len(waiting) \in Nat /\ \A k \in 1..Len(waiting) : waiting[k] \in BatchJobs
  <2>1. waiting \in Seq(BatchJobs)  BY DEF BatchTypeOK
  <2> QED  BY <2>1, LenProperties
<1>1. PICK m \in 0..Len(waiting) : m = StartCount  BY CountIs
<1>2. CASE m = 0
  <2>1. PICK map : map = MapAfter(0)  OBVIOUS
  <2>2. 0 \in 0..Len(waiting)  BY <1>0
  <2>3. /\ Keyed(map)
        /\ \A i \in BatchIds :
              \/ \E k \in 1..0 : IdOf[waiting[k]] = i /\ map[i] = {waiting[k]}
              \/ (\A k \in 1..0 : IdOf[waiting[k]] # i) /\ map[i] = active[i]
    BY <2>1, <2>2, MapIs
  <2>4. \A i \in BatchIds : map[i] = active[i]  BY <2>3
  <2>5. Entries(map) = Entries(active)  BY <2>4 DEF Entries
  <2> QED  BY <1>1, <1>2, <2>1, <2>5 DEF ActiveSize
<1>3. CASE m # 0
  <2>1. PICK l \in 0..Len(waiting) : l = m - 1 /\ l < m  BY <1>0, <1>1, <1>3
  <2>2. ~DrainStops(l)  BY <1>1, <2>1, CountIs
  <2>3. PICK old, new : old = MapAfter(l) /\ new = MapAfter(m)  OBVIOUS
  <2>4. ~(ActiveSize(old) >= concurrency)  BY <2>2, <2>3 DEF DrainStops
  <2>5. /\ Keyed(old)
        /\ \A i \in BatchIds :
              \/ \E k \in 1..l : IdOf[waiting[k]] = i /\ old[i] = {waiting[k]}
              \/ (\A k \in 1..l : IdOf[waiting[k]] # i) /\ old[i] = active[i]
    BY <2>3, MapIs
  <2>6. /\ Keyed(new)
        /\ \A i \in BatchIds :
              \/ \E k \in 1..m : IdOf[waiting[k]] = i /\ new[i] = {waiting[k]}
              \/ (\A k \in 1..m : IdOf[waiting[k]] # i) /\ new[i] = active[i]
    BY <2>3, MapIs
  <2>7. \A k \in 1..m : k \in 1..l \/ k = m  BY <1>0, <1>1, <2>1
  <2>8. Entries(new) \subseteq Entries(old) \cup {IdOf[waiting[m]]}
    <3> SUFFICES ASSUME NEW i \in BatchIds, new[i] # {}, i # IdOf[waiting[m]] PROVE old[i] # {}  BY DEF Entries
    <3>1. CASE \E k \in 1..l : IdOf[waiting[k]] = i /\ old[i] = {waiting[k]}  BY <3>1
    <3>2. CASE (\A k \in 1..l : IdOf[waiting[k]] # i) /\ old[i] = active[i]  BY <2>6, <2>7, <3>2
    <3> QED  BY <2>5, <3>1, <3>2
  <2>9. ActiveSize(new) <= ActiveSize(old) + 1  BY <2>5, <2>6, <2>8, FewerEntries
  <2>10. ActiveSize(new) \in Nat /\ ActiveSize(old) \in Nat  BY <2>5, <2>6, EntriesFinite
  <2>11. concurrency \in Concurrencies /\ concurrency \in Nat  BY BatchAssumption DEF BatchTypeOK
  <2>12. ActiveSize(new) <= concurrency  BY <2>4, <2>9, <2>10, <2>11
  <2> QED  BY <1>1, <2>3, <2>11, <2>12
<1> QED  BY <1>2, <1>3

LEMMA WaitingIs ==
  ASSUME BatchTypeOK
  PROVE  Len(waiting) \in Nat /\ \A k \in 1..Len(waiting) : waiting[k] \in BatchJobs
<1>1. waiting \in Seq(BatchJobs)  BY DEF BatchTypeOK
<1> QED  BY <1>1, LenProperties

(* Where submit puts a job: behind those of its priority or a higher one.  *)
LEMMA PlaceIs ==
  ASSUME BatchTypeOK, Ordered(waiting), NEW j \in BatchJobs
  PROVE  /\ Place(j) \in 1..Len(waiting) + 1
         /\ \A k \in 1..Len(waiting) : k < Place(j) => PriorityOf[j] <= PriorityOf[waiting[k]]
         /\ \A k \in 1..Len(waiting) : k >= Place(j) => PriorityOf[waiting[k]] <= PriorityOf[j]
<1>1. PICK m \in Nat : m = Len(waiting) /\ \A k \in 1..m : waiting[k] \in BatchJobs  BY WaitingIs
<1>2. PICK I : I = {k \in 1..m : PriorityOf[waiting[k]] < PriorityOf[j]}  OBVIOUS
<1>3. PICK b : b = IF I # {} THEN Min(I) ELSE 0  OBVIOUS
<1>4. PICK p : p = Place(j)  OBVIOUS
<1>5. p = IF b = 0 THEN m + 1 ELSE b  BY <1>1, <1>2, <1>3, <1>4 DEF Place, SelectInSeq
<1>6. PriorityOf[j] \in Nat /\ \A k \in 1..m : PriorityOf[waiting[k]] \in Nat  BY <1>1, BatchAssumption
<1>7. CASE I = {}
  <2>1. p = m + 1  BY <1>3, <1>5, <1>7
  <2>2. \A k \in 1..m : PriorityOf[j] <= PriorityOf[waiting[k]]  BY <1>2, <1>6, <1>7
  <2> QED  BY <1>1, <1>4, <2>1, <2>2
<1>8. CASE I # {}
  <2>1. I \subseteq 1..m /\ 1 \in Nat  BY <1>2
  <2>2. Min(I) \in I /\ \A i \in I : Min(I) <= i  BY <1>1, <1>8, <2>1, ExtremesAre
  <2>7. b = Min(I) /\ b \in 1..m  BY <1>3, <1>8, <2>1, <2>2
  <2>8. b # 0 /\ p = b  BY <1>5, <2>7
  <2>3. p = b /\ p \in I /\ \A i \in I : p <= i  BY <2>2, <2>7, <2>8
  <2>4. p \in 1..m /\ PriorityOf[waiting[p]] < PriorityOf[j]  BY <1>2, <2>3
  <2>5. ASSUME NEW k \in 1..m, k < p PROVE PriorityOf[j] <= PriorityOf[waiting[k]]
    <3>1. k \notin I  BY <2>3, <2>4, <2>5
    <3> QED  BY <1>2, <1>6, <3>1
  <2>6. ASSUME NEW k \in 1..m, k >= p PROVE PriorityOf[waiting[k]] <= PriorityOf[j]
    <3>1. k = p \/ p < k  BY <2>4, <2>6
    <3>2. k = p \/ PriorityOf[waiting[k]] <= PriorityOf[waiting[p]]  BY <1>1, <2>4, <3>1 DEF Ordered
    <3> QED  BY <1>6, <2>4, <3>2
  <2> QED  BY <1>1, <1>4, <2>4, <2>5, <2>6
<1> QED  BY <1>7, <1>8

LEMMA InsertKeeps ==
  ASSUME NEW s \in Seq(BatchJobs), Distinct(s), Ordered(s), NEW j \in BatchJobs, ~In(j, s),
         NEW p \in 1..Len(s) + 1,
         \A k \in 1..Len(s) : k < p => PriorityOf[j] <= PriorityOf[s[k]],
         \A k \in 1..Len(s) : k >= p => PriorityOf[s[k]] <= PriorityOf[j],
         NEW t, t = InsertAt(s, p, j)
  PROVE  /\ t \in Seq(BatchJobs) /\ Distinct(t) /\ Ordered(t)
         /\ \A x : In(x, t) <=> x = j \/ In(x, s)
<1>1. PICK m \in Nat : m = Len(s)  BY LenProperties
<1>9. /\ t \in Seq(BatchJobs) /\ Len(t) = m + 1 /\ HasInserted(s, p, j, t) /\ Distinct(t)
      /\ \A x : In(x, t) <=> x = j \/ In(x, s)
  <2>1. t \in Seq(BatchJobs) /\ Len(t) = Len(s) + 1 /\ HasInserted(s, p, j, t) /\ Distinct(t)  BY InsertedHas
  <2>2. \A x : In(x, t) <=> x = j \/ In(x, s)  BY InsertedHas
  <2> QED  BY <1>1, <2>1, <2>2
<1>2. /\ t \in Seq(BatchJobs) /\ Len(t) = m + 1
      /\ \A k \in 1..m + 1 : t[k] = IF k < p THEN s[k] ELSE IF k = p THEN j ELSE s[k - 1]
  BY <1>1, <1>9 DEF HasInserted
<1>3. p \in Nat /\ p \in 1..m + 1  BY <1>1
<1> DEFINE Was(k) == IF k < p THEN k ELSE k - 1
<1>4. ASSUME NEW k \in 1..m + 1, k # p PROVE Was(k) \in 1..m /\ t[k] = s[Was(k)]
  <2>1. CASE k < p  BY <1>2, <1>3, <2>1
  <2>2. CASE k > p  BY <1>2, <1>3, <2>2
  <2> QED  BY <1>3, <1>4, <2>1, <2>2
<1>5. t[p] = j  BY <1>2, <1>3
<1>7. Ordered(t)
  <2> SUFFICES ASSUME NEW a \in 1..m + 1, NEW b \in 1..m + 1, a < b PROVE PriorityOf[t[b]] <= PriorityOf[t[a]]
    BY <1>2 DEF Ordered
  <2>1. CASE a # p /\ b # p
    <3>1. Was(a) \in 1..m /\ Was(b) \in 1..m /\ t[a] = s[Was(a)] /\ t[b] = s[Was(b)]  BY <1>4, <2>1
    <3>2. Was(a) < Was(b)  BY <1>3, <2>1
    <3> QED  BY <1>1, <3>1, <3>2 DEF Ordered
  <2>2. CASE a = p
    <3>1. b # p /\ Was(b) \in 1..m /\ t[b] = s[Was(b)]  BY <1>4, <2>2
    <3>2. Was(b) >= p  BY <1>3, <2>2
    <3> QED  BY <1>1, <1>5, <2>2, <3>1, <3>2
  <2>3. CASE b = p
    <3>1. a # p /\ Was(a) \in 1..m /\ t[a] = s[Was(a)]  BY <1>4, <2>3
    <3>2. Was(a) < p  BY <1>3, <2>3
    <3> QED  BY <1>1, <1>5, <2>3, <3>1, <3>2
  <2> QED  BY <2>1, <2>2, <2>3
<1> QED  BY <1>2, <1>7, <1>9

LEMMA RemoveKeeps ==
  ASSUME NEW s \in Seq(BatchJobs), Distinct(s), Ordered(s), NEW p \in 1..Len(s), NEW t, t = RemoveAt(s, p)
  PROVE  /\ t \in Seq(BatchJobs) /\ Distinct(t) /\ Ordered(t)
         /\ \A x : In(x, t) <=> x # s[p] /\ In(x, s)
<1>1. PICK m \in Nat : m = Len(s)  BY LenProperties
<1>2. /\ t \in Seq(BatchJobs) /\ Len(t) = m - 1
      /\ \A k \in 1..m - 1 : t[k] = IF k < p THEN s[k] ELSE s[k + 1]
  BY <1>1, RemovedIs
<1>3. p \in Nat /\ p \in 1..m  BY <1>1
<1> DEFINE Was(k) == IF k < p THEN k ELSE k + 1
<1>4. ASSUME NEW k \in 1..m - 1 PROVE Was(k) \in 1..m /\ Was(k) # p /\ t[k] = s[Was(k)]  BY <1>2, <1>3
<1>5. \A a, b \in 1..m - 1 : (Was(a) = Was(b) => a = b) /\ (a < b => Was(a) < Was(b))  BY <1>3
<1> HIDE DEF Was
<1>6. Distinct(t) /\ \A x : In(x, t) <=> x # s[p] /\ In(x, s)  BY RemovedHas
<1>7. Ordered(t)  BY <1>1, <1>2, <1>4, <1>5 DEF Ordered
<1> QED  BY <1>2, <1>6, <1>7

(* t has what is in s but not among its first n.                           *)
HasTheRest(s, n, t) == \A x : In(x, t) <=> In(x, s) /\ \A k \in 1..n : s[k] # x

LEMMA DropKeeps ==
  ASSUME NEW s \in Seq(BatchJobs), Distinct(s), Ordered(s), NEW n \in 0..Len(s),
         NEW t, t = SubSeq(s, n + 1, Len(s))
  PROVE  /\ t \in Seq(BatchJobs) /\ Distinct(t) /\ Ordered(t) /\ Len(t) = Len(s) - n
         /\ HasTheRest(s, n, t)
<1>1. PICK m \in Nat : m = Len(s)  BY LenProperties
<1>2. t \in Seq(BatchJobs) /\ Len(t) = m - n /\ \A k \in 1..m - n : t[k] = s[n + k]
  BY <1>1, DroppedIs
<1>3. n \in Nat /\ n \in 0..m /\ \A k \in 1..m - n : n + k \in 1..m /\ n + k > n  BY <1>1
<1>4. Distinct(t) /\ \A x : In(x, t) <=> In(x, s) /\ x \notin First(s, n)  BY DroppedHas
<1>5. Ordered(t)
  <2> SUFFICES ASSUME NEW a \in 1..m - n, NEW b \in 1..m - n, a < b PROVE PriorityOf[t[b]] <= PriorityOf[t[a]]
    BY <1>2 DEF Ordered
  <2>1. n + a < n + b  BY <1>3
  <2> QED  BY <1>1, <1>2, <1>3, <2>1 DEF Ordered
<1> QED  BY <1>1, <1>2, <1>4, <1>5 DEF HasTheRest, First

(***************************************************************************)
(* Every step of the batcher keeps what it has.                            *)
(***************************************************************************)
Taken(j) == job[j] \notin {"new", "waiting", "refused"}

LEMMA ClashIs ==
  Clash <=> \E j, k \in BatchJobs : j # k /\ IdOf[j] = IdOf[k] /\ Taken(j) /\ Taken(k)
  BY DEF Clash, Taken

LEMMA ClashNextIs ==
  Clash' <=> \E j, k \in BatchJobs : j # k /\ IdOf[j] = IdOf[k] /\ Taken(j)' /\ Taken(k)'
  BY DEF Clash, Taken

(* A job that was taken in stays so, and no entry is touched but those of  *)
(* jobs that stop running.                                                 *)
LEMMA SameMap ==
  ASSUME BatchInv, UNCHANGED active,
         \A j \in BatchJobs : Taken(j) => job'[j] = job[j],
         \A j \in BatchJobs : job'[j] = "running" => job[j] = "running"
  PROVE  /\ EntriesRun' /\ (Clash' \/ HasItsEntry')
         /\ \E n \in Concurrencies : ActiveSize(active') <= n
<1>1. \A i \in BatchIds : \A j \in active[i] : j \in BatchJobs /\ Taken(j)
  BY DEF BatchInv, BatchTypeOK, EntriesRun, Taken
<1>2. EntriesRun'  BY <1>1 DEF BatchInv, EntriesRun
<1>3. ASSUME NEW j \in BatchJobs, Taken(j) PROVE Taken(j)'  BY <1>3 DEF Taken
<1>4. Clash => Clash'  BY <1>3, ClashIs, ClashNextIs
<1>5. HasItsEntry => HasItsEntry'  BY DEF HasItsEntry
<1> QED  BY <1>2, <1>4, <1>5 DEF BatchInv

LEMMA BatchStarts ==
  ASSUME BatchInit
  PROVE  BatchInv
<1>1. waiting = <<>> /\ Len(waiting) = 0
  <2>1. \A S : Len(<<>>) = 0  BY EmptySeq
  <2> QED  BY <2>1 DEF BatchInit
<1>2. BatchTypeOK
  <2>1. <<>> \in Seq(BatchJobs)  BY EmptySeq
  <2>2. /\ active \in [BatchIds -> SUBSET BatchJobs] /\ fresh \subseteq BatchJobs
        /\ aborted \subseteq BatchJobs /\ revoked \subseteq BatchJobs
    BY DEF BatchInit
  <2>3. job \in [BatchJobs -> {"new", "waiting", "running"} \cup BatchSettled]  BY DEF BatchInit, BatchSettled
  <2>4. drainTimer \in BOOLEAN /\ concurrency \in Concurrencies  BY DEF BatchInit
  <2> QED  BY <1>1, <2>1, <2>2, <2>3, <2>4 DEF BatchTypeOK
<1>3. \A j \in BatchJobs : job[j] = "new"  BY DEF BatchInit
<1>4. Distinct(waiting) /\ Ordered(waiting) /\ \A x : ~In(x, waiting)  BY <1>1 DEF Distinct, Ordered, In
<1>5. QueueInv  BY <1>3, <1>4 DEF QueueInv
<1>6. \A i \in BatchIds : active[i] = {}  BY DEF BatchInit
<1>7. Entries(active) = {} /\ EntriesRun  BY <1>6 DEF Entries, EntriesRun
<1>8. ActiveSize(active) = 0  BY <1>7, FS_EmptySet DEF ActiveSize
<1>9. \E n \in Concurrencies : ActiveSize(active) <= n
  <2>1. PICK n \in Concurrencies : n \in Nat  BY BatchAssumption
  <2> QED  BY <1>8, <2>1
<1>10. HasItsEntry  BY <1>3 DEF HasItsEntry
<1>11. DrainPending  BY <1>1 DEF DrainPending
<1> QED  BY <1>2, <1>5, <1>7, <1>9, <1>10, <1>11 DEF BatchInv

LEMMA SubmitKeeps ==
  ASSUME BatchInv, NEW j \in BatchJobs, Submit(j)
  PROVE  BatchInv'
<1>1. BatchTypeOK /\ QueueInv /\ job[j] = "new"  BY DEF BatchInv, Submit
<1>2. \A k \in BatchJobs : k # j => job'[k] = job[k]  BY <1>1 DEF Submit, BatchTypeOK
<1>3. job'[j] \in {"refused", "waiting"}  BY <1>1 DEF Submit, BatchTypeOK
<1>4. /\ EntriesRun' /\ (Clash' \/ HasItsEntry')
      /\ \E n \in Concurrencies : ActiveSize(active') <= n
  <2>1. UNCHANGED active  BY DEF Submit
  <2>2. \A k \in BatchJobs : Taken(k) => job'[k] = job[k]  BY <1>1, <1>2 DEF Taken
  <2>3. \A k \in BatchJobs : job'[k] = "running" => job[k] = "running"  BY <1>2, <1>3
  <2> QED  BY <2>1, <2>2, <2>3, SameMap
<1>5. CASE Len(waiting) >= MaxQueueLength
  <2>1. UNCHANGED <<waiting, drainTimer, fresh, active, aborted, revoked, concurrency>> /\ job'[j] = "refused"
    BY <1>1, <1>5 DEF Submit, BatchTypeOK
  <2>2. job' \in [BatchJobs -> {"new", "waiting", "running"} \cup BatchSettled]
    BY <1>1, <1>5 DEF Submit, BatchTypeOK, BatchSettled
  <2>3. BatchTypeOK'  BY <1>1, <2>1, <2>2 DEF BatchTypeOK
  <2>4. QueueInv'  BY <1>1, <1>2, <2>1 DEF QueueInv
  <2>5. DrainPending'  BY <2>1 DEF BatchInv, DrainPending
  <2> QED  BY <1>4, <2>3, <2>4, <2>5 DEF BatchInv
<1>6. CASE ~(Len(waiting) >= MaxQueueLength)
  <2>1. PICK p : p = Place(j)  OBVIOUS
  <2>2. PICK s, t : s = waiting /\ t = waiting'  OBVIOUS
  <2>3. /\ p \in 1..Len(s) + 1
        /\ \A k \in 1..Len(s) : k < p => PriorityOf[j] <= PriorityOf[s[k]]
        /\ \A k \in 1..Len(s) : k >= p => PriorityOf[s[k]] <= PriorityOf[j]
    BY <1>1, <2>1, <2>2, PlaceIs DEF QueueInv
  <2>4. s \in Seq(BatchJobs) /\ Distinct(s) /\ Ordered(s) /\ ~In(j, s)
    BY <1>1, <2>2 DEF QueueInv, BatchTypeOK
  <2>5. t = InsertAt(s, p, j)  BY <1>6, <2>1, <2>2 DEF Submit
  <2>6. t \in Seq(BatchJobs) /\ Distinct(t) /\ Ordered(t) /\ \A x : In(x, t) <=> x = j \/ In(x, s)
    BY <2>3, <2>4, <2>5, InsertKeeps
  <2>7. job'[j] = "waiting" /\ drainTimer' = TRUE /\ UNCHANGED <<active, aborted, revoked, concurrency>>
    BY <1>1, <1>6 DEF Submit, BatchTypeOK
  <2>8. job' \in [BatchJobs -> {"new", "waiting", "running"} \cup BatchSettled]
    BY <1>1, <1>6 DEF Submit, BatchTypeOK
  <2>9. fresh' \subseteq BatchJobs  BY <1>1, <1>6 DEF Submit, BatchTypeOK
  <2>10. BatchTypeOK'  BY <1>1, <2>2, <2>6, <2>7, <2>8, <2>9 DEF BatchTypeOK
  <2>11. QueueInv'  BY <1>1, <1>2, <2>2, <2>6, <2>7 DEF QueueInv
  <2>12. DrainPending'  BY <2>7 DEF DrainPending
  <2> QED  BY <1>4, <2>10, <2>11, <2>12 DEF BatchInv
<1> QED  BY <1>5, <1>6

LEMMA AgesKeeps ==
  ASSUME BatchInv, NEW j \in BatchJobs, Ages(j)
  PROVE  BatchInv'
<1>1. UNCHANGED <<waiting, active, aborted, revoked, drainTimer, concurrency, job>>  BY DEF Ages
<1>2. fresh' \subseteq BatchJobs  BY DEF BatchInv, BatchTypeOK, Ages
<1>3. BatchTypeOK' /\ QueueInv' /\ DrainPending'
  BY <1>1, <1>2 DEF BatchInv, BatchTypeOK, QueueInv, DrainPending
<1>4. /\ EntriesRun' /\ (Clash' \/ HasItsEntry')
      /\ \E n \in Concurrencies : ActiveSize(active') <= n
  BY <1>1, SameMap
<1> QED  BY <1>3, <1>4 DEF BatchInv

LEMMA CancelWaitingKeeps ==
  ASSUME BatchInv, NEW i \in BatchIds, CancelWaiting(i)
  PROVE  BatchInv'
<1>1. BatchTypeOK /\ QueueInv  BY DEF BatchInv
<1>2. PICK m \in Nat : m = Len(waiting) /\ \A k \in 1..m : waiting[k] \in BatchJobs  BY <1>1, WaitingIs
<1>3. PICK I : I = {k \in 1..m : IdOf[waiting[k]] = i}  OBVIOUS
<1>4. PICK p : p = SelectInSeq(waiting, LAMBDA k : IdOf[k] = i)  OBVIOUS
<1>5. p = IF I # {} THEN Min(I) ELSE 0  BY <1>2, <1>3, <1>4 DEF SelectInSeq
<1>6. /\ p # 0
      /\ job' = [job EXCEPT ![waiting[p]] = "cancelled"]
      /\ waiting' = RemoveAt(waiting, p)
      /\ fresh' = fresh \ {waiting[p]}
      /\ UNCHANGED <<active, aborted, revoked, drainTimer, concurrency>>
  BY <1>4 DEF CancelWaiting
<1>7. p \in 1..m
  <2>1. I # {} /\ I \subseteq 1..m /\ 1 \in Nat  BY <1>3, <1>5, <1>6
  <2>2. Min(I) \in I  BY <1>2, <2>1, ExtremesAre
  <2> QED  BY <1>5, <2>1, <2>2
<1>8. PICK s, t : s = waiting /\ t = waiting'  OBVIOUS
<1>9. PICK j \in BatchJobs : j = waiting[p]  BY <1>2, <1>7
<1>10. t \in Seq(BatchJobs) /\ Distinct(t) /\ Ordered(t) /\ \A x : In(x, t) <=> x # j /\ In(x, s)
  <2>1. s \in Seq(BatchJobs) /\ Distinct(s) /\ Ordered(s) /\ p \in 1..Len(s)
    BY <1>1, <1>2, <1>7, <1>8 DEF QueueInv, BatchTypeOK
  <2>2. t = RemoveAt(s, p) /\ s[p] = j  BY <1>6, <1>8, <1>9
  <2> QED  BY <2>1, <2>2, RemoveKeeps
<1>11. job[j] = "waiting" /\ In(j, waiting)  BY <1>1, <1>2, <1>7, <1>9 DEF QueueInv, In
<1>12. job'[j] = "cancelled" /\ \A k \in BatchJobs : k # j => job'[k] = job[k]
  BY <1>1, <1>6, <1>9 DEF BatchTypeOK
<1>13. BatchTypeOK'
  <2>1. job' \in [BatchJobs -> {"new", "waiting", "running"} \cup BatchSettled]
    BY <1>1, <1>6, <1>9 DEF BatchTypeOK, BatchSettled
  <2>2. fresh' \subseteq BatchJobs  BY <1>1, <1>6 DEF BatchTypeOK
  <2> QED  BY <1>1, <1>6, <1>8, <1>10, <2>1, <2>2 DEF BatchTypeOK
<1>14. QueueInv'  BY <1>1, <1>8, <1>10, <1>12 DEF QueueInv
<1>15. waiting # <<>>
  <2>1. \A S : Len(<<>>) = 0  BY EmptySeq
  <2> QED  BY <1>2, <1>7, <2>1
<1>16. DrainPending'  BY <1>6, <1>15 DEF BatchInv, DrainPending
<1>17. /\ EntriesRun' /\ (Clash' \/ HasItsEntry')
       /\ \E n \in Concurrencies : ActiveSize(active') <= n
  <2>1. \A k \in BatchJobs : Taken(k) => job'[k] = job[k]  BY <1>11, <1>12 DEF Taken
  <2>2. \A k \in BatchJobs : job'[k] = "running" => job[k] = "running"  BY <1>12
  <2> QED  BY <1>6, <2>1, <2>2, SameMap
<1> QED  BY <1>13, <1>14, <1>16, <1>17 DEF BatchInv

LEMMA CancelActiveKeeps ==
  ASSUME BatchInv, NEW i \in BatchIds, CancelActive(i)
  PROVE  BatchInv'
<1>1. UNCHANGED <<waiting, active, drainTimer, concurrency, fresh, job>>  BY DEF CancelActive
<1>2. aborted' \subseteq BatchJobs /\ revoked' \subseteq BatchJobs  BY DEF BatchInv, BatchTypeOK, CancelActive
<1>3. BatchTypeOK' /\ QueueInv' /\ DrainPending'
  BY <1>1, <1>2 DEF BatchInv, BatchTypeOK, QueueInv, DrainPending
<1>4. /\ EntriesRun' /\ (Clash' \/ HasItsEntry')
      /\ \E n \in Concurrencies : ActiveSize(active') <= n
  BY <1>1, SameMap
<1> QED  BY <1>3, <1>4 DEF BatchInv

LEMMA UpdateConfigKeeps ==
  ASSUME BatchInv, NEW n \in Concurrencies, UpdateConfig(n)
  PROVE  BatchInv'
<1>1. UNCHANGED <<waiting, active, aborted, revoked, fresh, job>> /\ drainTimer' = TRUE /\ concurrency' = n
  BY DEF UpdateConfig
<1>2. BatchTypeOK' /\ QueueInv'  BY <1>1 DEF BatchInv, BatchTypeOK, QueueInv
<1>3. DrainPending'  BY <1>1 DEF DrainPending
<1>4. /\ EntriesRun' /\ (Clash' \/ HasItsEntry')
      /\ \E k \in Concurrencies : ActiveSize(active') <= k
  BY <1>1, SameMap
<1> QED  BY <1>2, <1>3, <1>4 DEF BatchInv

LEMMA StopKeeps ==
  ASSUME BatchInv, Stop
  PROVE  BatchInv'
<1>1. BatchTypeOK /\ QueueInv  BY DEF BatchInv
<1>2. UNCHANGED <<active, revoked, concurrency>> /\ drainTimer' = FALSE /\ waiting' = <<>> /\ fresh' = {}  BY DEF Stop
<1>3. \A j \in BatchJobs : job'[j] = IF job[j] = "waiting" THEN "cancelled" ELSE job[j]
  <2>1. waiting \in Seq(BatchJobs)  BY <1>1 DEF BatchTypeOK
  <2>2. \A j \in BatchJobs : j \in ToSet(waiting) <=> job[j] = "waiting"  BY <1>1, <2>1, InIsToSet DEF QueueInv
  <2> QED  BY <2>2 DEF Stop
<1>4. BatchTypeOK'
  <2>1. aborted' \subseteq BatchJobs
    <3>1. \A i \in BatchIds : active[i] \subseteq BatchJobs  BY <1>1 DEF BatchTypeOK
    <3>2. UNION {active[i] : i \in BatchIds} \subseteq BatchJobs  BY <3>1
    <3> QED  BY <1>1, <3>2 DEF Stop, BatchTypeOK
  <2>2. \A j \in BatchJobs : job'[j] \in {"new", "waiting", "running"} \cup BatchSettled
    BY <1>1, <1>3 DEF BatchTypeOK, BatchSettled
  <2>3. job' \in [BatchJobs -> {"new", "waiting", "running"} \cup BatchSettled]
    <3>1. job' = [j \in BatchJobs |-> job'[j]]  BY DEF Stop
    <3> QED  BY <2>2, <3>1
  <2>4. <<>> \in Seq(BatchJobs)  BY EmptySeq
  <2> QED  BY <1>1, <1>2, <2>1, <2>3, <2>4 DEF BatchTypeOK
<1>5. QueueInv'
  <2>1. Len(waiting') = 0
    <3>1. \A S : Len(<<>>) = 0  BY EmptySeq
    <3> QED  BY <1>2, <3>1
  <2>2. PICK t : t = waiting' /\ Len(t) = 0  BY <2>1
  <2>3. Distinct(t) /\ Ordered(t) /\ \A x : ~In(x, t)  BY <2>2 DEF Distinct, Ordered, In
  <2>4. \A j \in BatchJobs : job'[j] # "waiting"  BY <1>3
  <2> QED  BY <2>2, <2>3, <2>4 DEF QueueInv
<1>6. DrainPending'  BY <1>2 DEF DrainPending
<1>7. /\ EntriesRun' /\ (Clash' \/ HasItsEntry')
      /\ \E n \in Concurrencies : ActiveSize(active') <= n
  <2>1. \A j \in BatchJobs : Taken(j) => job'[j] = job[j]  BY <1>3 DEF Taken
  <2>2. \A j \in BatchJobs : job'[j] = "running" => job[j] = "running"  BY <1>3
  <2> QED  BY <1>2, <2>1, <2>2, SameMap
<1> QED  BY <1>4, <1>5, <1>6, <1>7 DEF BatchInv

LEMMA RunEndsKeeps ==
  ASSUME BatchInv, NEW j \in BatchJobs, NEW end \in {"completed", "failed", "cancelled"}, RunEnds(j, end)
  PROVE  BatchInv'
<1>1. BatchTypeOK /\ QueueInv /\ EntriesRun  BY DEF BatchInv
<1>2. /\ UNCHANGED <<waiting, concurrency, fresh>> /\ drainTimer' = TRUE
      /\ aborted' \subseteq aborted /\ revoked' \subseteq revoked
  BY DEF RunEnds, DrainAfterRun
<1>3. job[j] = "running" /\ job'[j] = end /\ \A k \in BatchJobs : k # j => job'[k] = job[k]
  BY <1>1 DEF RunEnds, BatchTypeOK
<1>4. PICK id \in BatchIds : id = IdOf[j]  BY BatchAssumption
<1>5. /\ active' \in [BatchIds -> SUBSET BatchJobs] /\ active'[id] = {}
      /\ \A i \in BatchIds : i # id => active'[i] = active[i]
  BY <1>1, <1>4 DEF RunEnds, EntryDeleted, BatchTypeOK
<1>6. BatchTypeOK'
  <2>1. job' \in [BatchJobs -> {"new", "waiting", "running"} \cup BatchSettled]
    BY <1>1 DEF RunEnds, BatchTypeOK, BatchSettled
  <2> QED  BY <1>1, <1>2, <1>5, <2>1 DEF BatchTypeOK
<1>7. QueueInv'
  <2>1. \A k \in BatchJobs : job'[k] = "waiting" <=> job[k] = "waiting"  BY <1>3
  <2> QED  BY <1>1, <1>2, <2>1 DEF QueueInv
<1>8. DrainPending'  BY <1>2 DEF DrainPending
<1>9. EntriesRun'
  <2> SUFFICES ASSUME NEW i \in BatchIds, NEW k \in active'[i] PROVE job'[k] = "running" /\ IdOf[k] = i
    BY DEF EntriesRun
  <2>1. i # id /\ k \in active[i] /\ k \in BatchJobs  BY <1>5
  <2>2. job[k] = "running" /\ IdOf[k] = i  BY <1>1, <2>1 DEF EntriesRun
  <2> QED  BY <1>3, <1>4, <2>1, <2>2
<1>10. \E n \in Concurrencies : ActiveSize(active') <= n
  <2>1. PICK old, new : old = active /\ new = active'  OBVIOUS
  <2>2. Keyed(old) /\ Keyed(new)  BY <1>1, <1>5, <1>9, <2>1 DEF Keyed, EntriesRun, BatchTypeOK
  <2>3. PICK E, F : E = Entries(old) /\ F = Entries(new)  OBVIOUS
  <2>4. F \in SUBSET E  BY <1>5, <2>1, <2>3 DEF Entries
  <2>5. IsFiniteSet(E)  BY <2>2, <2>3, EntriesFinite
  <2>6. Cardinality(F) <= Cardinality(E) /\ Cardinality(F) \in Nat /\ Cardinality(E) \in Nat
    BY <2>2, <2>3, <2>4, <2>5, FS_Subset, FS_CardinalityType
  <2>7. PICK n \in Concurrencies : Cardinality(E) <= n  BY <2>1, <2>3 DEF BatchInv, ActiveSize
  <2>8. n \in Nat  BY BatchAssumption
  <2>9. Cardinality(F) <= n  BY <2>6, <2>7, <2>8
  <2> QED  BY <2>1, <2>3, <2>9 DEF ActiveSize
<1>11. Clash' \/ HasItsEntry'
  <2>1. \A k \in BatchJobs : Taken(k) => Taken(k)'  BY <1>3 DEF Taken
  <2>2. CASE Clash  BY <2>1, <2>2, ClashIs, ClashNextIs
  <2>3. CASE ~Clash
    <3>1. HasItsEntry  BY <2>3 DEF BatchInv
    <3>2. ASSUME NEW k \in BatchJobs, job'[k] = "running" PROVE active'[IdOf[k]] = {k}
      <4>1. k # j /\ job[k] = "running"  BY <1>3, <3>2
      <4>2. Taken(k) /\ Taken(j)  BY <1>3, <4>1 DEF Taken
      <4>3. IdOf[k] # id  BY <1>4, <2>3, <4>1, <4>2, ClashIs
      <4>4. IdOf[k] \in BatchIds  BY BatchAssumption
      <4> QED  BY <1>5, <3>1, <4>1, <4>3, <4>4 DEF HasItsEntry
    <3> QED  BY <3>2 DEF HasItsEntry
  <2> QED  BY <2>2, <2>3
<1> QED  BY <1>6, <1>7, <1>8, <1>9, <1>10, <1>11 DEF BatchInv

(* What a drain does: the first n jobs run, and the rest waits.            *)
Drained(n) ==
  /\ waiting' = SubSeq(waiting, n + 1, Len(waiting))
  /\ active' = MapAfter(n)
  /\ job' = [j \in BatchJobs |-> IF j \in Started(n) THEN "running" ELSE job[j]]
  /\ fresh' = fresh \ Started(n)
  /\ drainTimer' = (n < Len(waiting) /\ ActiveSize(MapAfter(n)) < concurrency)
  /\ UNCHANGED <<aborted, revoked, concurrency>>

LEMMA DrainIs ==
  ASSUME BatchTypeOK, Drain
  PROVE  StartCount \in 0..Len(waiting) /\ Drained(StartCount)
<1>1. StartCount \in 0..Len(waiting)  BY CountIs
<1>2. \E n \in {StartCount} : Drained(n)  BY DEF Drain, Drained, Started
<1> QED  BY <1>1, <1>2

LEMMA DrainKeeps ==
  ASSUME BatchInv, Drain
  PROVE  BatchInv'
<1>1. BatchTypeOK /\ QueueInv /\ EntriesRun  BY DEF BatchInv
<1>2. PICK m \in Nat : m = Len(waiting) /\ \A k \in 1..m : waiting[k] \in BatchJobs  BY <1>1, WaitingIs
<1>3. PICK n \in 0..m : n = StartCount /\ Drained(n)  BY <1>1, <1>2, DrainIs
<1>4. PICK s, t : s = waiting /\ t = waiting'  OBVIOUS
<1>5. /\ t \in Seq(BatchJobs) /\ Distinct(t) /\ Ordered(t) /\ Len(t) = m - n
      /\ \A x : In(x, t) <=> In(x, s) /\ \A k \in 1..n : s[k] # x
  <2>1. s \in Seq(BatchJobs) /\ Distinct(s) /\ Ordered(s) /\ n \in 0..Len(s)
    BY <1>1, <1>2, <1>4 DEF QueueInv, BatchTypeOK
  <2>2. t = SubSeq(s, n + 1, Len(s))  BY <1>3, <1>4 DEF Drained
  <2>3. Len(s) = m  BY <1>2, <1>4
  <2>4. t \in Seq(BatchJobs) /\ Distinct(t) /\ Ordered(t) /\ Len(t) = Len(s) - n
    BY <2>1, <2>2, DropKeeps
  <2>5. HasTheRest(s, n, t)  BY <2>1, <2>2, DropKeeps
  <2> QED  BY <2>3, <2>4, <2>5 DEF HasTheRest
<1>6. \A k \in 1..n : waiting[k] \in BatchJobs /\ job[waiting[k]] = "waiting"
  <2> SUFFICES ASSUME NEW k \in 1..n PROVE waiting[k] \in BatchJobs /\ job[waiting[k]] = "waiting"  OBVIOUS
  <2>1. k \in 1..m  OBVIOUS
  <2>2. In(waiting[k], waiting)  BY <1>2, <2>1 DEF In
  <2> QED  BY <1>1, <1>2, <2>1, <2>2 DEF QueueInv
<1>7. \A j \in BatchJobs : job'[j] = IF j \in Started(n) THEN "running" ELSE job[j]  BY <1>3 DEF Drained
<1>8. \A j \in Started(n) : j \in BatchJobs /\ job[j] = "waiting" /\ \E k \in 1..n : waiting[k] = j
  BY <1>6 DEF Started
<1>9. PICK new : new = active' /\ new = MapAfter(n)  BY <1>3 DEF Drained
<1>10. /\ Keyed(new)
       /\ \A i \in BatchIds :
            \/ \E k \in 1..n : IdOf[waiting[k]] = i /\ new[i] = {waiting[k]}
            \/ (\A k \in 1..n : IdOf[waiting[k]] # i) /\ new[i] = active[i]
  BY <1>1, <1>2, <1>9, MapIs
<1>11. BatchTypeOK'
  <2>1. \A j \in BatchJobs : job'[j] \in {"new", "waiting", "running"} \cup BatchSettled
    BY <1>1, <1>7 DEF BatchTypeOK
  <2>2. job' \in [BatchJobs -> {"new", "waiting", "running"} \cup BatchSettled]
    <3>1. job' = [j \in BatchJobs |-> job'[j]]  BY <1>3 DEF Drained
    <3> QED  BY <2>1, <3>1
  <2>3. waiting' \in Seq(BatchJobs)  BY <1>4, <1>5
  <2>4. active' \in [BatchIds -> SUBSET BatchJobs]  BY <1>9, <1>10 DEF Keyed
  <2>5. fresh' \subseteq BatchJobs /\ drainTimer' \in BOOLEAN /\ UNCHANGED <<aborted, revoked, concurrency>>
    BY <1>1, <1>3 DEF Drained, BatchTypeOK
  <2> QED  BY <1>1, <2>2, <2>3, <2>4, <2>5 DEF BatchTypeOK
<1>12. QueueInv'
  <2>1. ASSUME NEW j \in BatchJobs PROVE job'[j] = "waiting" <=> In(j, t)
    <3>1. j \in Started(n) <=> \E k \in 1..n : waiting[k] = j  BY DEF Started
    <3>2. In(j, t) <=> In(j, waiting) /\ j \notin Started(n)  BY <1>4, <1>5, <3>1
    <3>3. job[j] = "waiting" <=> In(j, waiting)  BY <1>1 DEF QueueInv
    <3> QED  BY <1>7, <3>2, <3>3
  <2> QED  BY <1>4, <1>5, <2>1 DEF QueueInv
<1>13. EntriesRun'
  <2> SUFFICES ASSUME NEW i \in BatchIds, NEW j \in new[i] PROVE job'[j] = "running" /\ IdOf[j] = i
    BY <1>9 DEF EntriesRun
  <2>1. j \in BatchJobs /\ IdOf[j] = i  BY <1>10 DEF Keyed
  <2>2. j \in Started(n) \/ j \in active[i]  BY <1>10 DEF Started
  <2>3. j \in active[i] => job[j] = "running"  BY <1>1 DEF EntriesRun
  <2> QED  BY <1>7, <2>1, <2>2, <2>3
<1>14. DrainPending'
  <2> SUFFICES ASSUME t # <<>> PROVE drainTimer' \/ ActiveSize(new) >= concurrency'
    BY <1>4, <1>9 DEF DrainPending
  <2>1. n < m
    <3>1. Len(t) \in Nat \ {0}  BY <1>5, EmptySeq
    <3> QED  BY <1>5, <3>1
  <2>2. drainTimer' = (ActiveSize(new) < concurrency) /\ concurrency' = concurrency
    BY <1>2, <1>3, <1>9, <2>1 DEF Drained
  <2>3. concurrency \in Nat /\ ActiveSize(new) \in Nat  BY <1>1, <1>10, EntriesFinite, BatchAssumption DEF BatchTypeOK
  <2>4. CASE ActiveSize(new) < concurrency
    <3>1. (ActiveSize(new) < concurrency) = TRUE  BY <2>4
    <3> QED  BY <2>2, <3>1
  <2>5. CASE ~(ActiveSize(new) < concurrency)
    <3>1. ActiveSize(new) >= concurrency  BY <2>3, <2>5
    <3> QED  BY <2>2, <3>1
  <2> QED  BY <2>4, <2>5
<1>15. \E k \in Concurrencies : ActiveSize(active') <= k
  <2>1. \E k \in Concurrencies : ActiveSize(active) <= k  BY DEF BatchInv
  <2> QED  BY <1>1, <1>3, <1>9, <2>1, StartsKeepLimit
<1>16. Clash' \/ HasItsEntry'
  <2>1. \A k \in BatchJobs : Taken(k) => Taken(k)'  BY <1>7 DEF Taken
  <2>2. CASE Clash  BY <2>1, <2>2, ClashIs, ClashNextIs
  <2>3. CASE ~Clash /\ ~Clash'
    <3>1. HasItsEntry  BY <2>3 DEF BatchInv
    <3>2. ASSUME NEW j \in BatchJobs, job'[j] = "running" PROVE new[IdOf[j]] = {j}
      <4>1. IdOf[j] \in BatchIds /\ Taken(j)'  BY <3>2, BatchAssumption DEF Taken
      <4>2. ASSUME NEW k \in 1..n, IdOf[waiting[k]] = IdOf[j] PROVE waiting[k] = j
        <5>1. PICK x \in BatchJobs : x = waiting[k] /\ x \in Started(n)  BY <1>6 DEF Started
        <5>2. job'[x] = "running"  BY <1>7, <5>1
        <5>3. Taken(x)'  BY <5>2 DEF Taken
        <5> QED  BY <2>3, <4>1, <4>2, <5>1, <5>3, ClashNextIs
      <4>3. CASE \E k \in 1..n : IdOf[waiting[k]] = IdOf[j] /\ new[IdOf[j]] = {waiting[k]}  BY <4>2, <4>3
      <4>4. CASE (\A k \in 1..n : IdOf[waiting[k]] # IdOf[j]) /\ new[IdOf[j]] = active[IdOf[j]]
        <5>1. j \notin Started(n)  BY <1>8, <4>4
        <5>2. job[j] = "running"  BY <1>7, <3>2, <5>1
        <5> QED  BY <3>1, <4>4, <5>2 DEF HasItsEntry
      <4> QED  BY <1>10, <4>1, <4>3, <4>4
    <3> QED  BY <1>9, <3>2 DEF HasItsEntry
  <2> QED  BY <2>2, <2>3
<1> QED  BY <1>11, <1>12, <1>13, <1>14, <1>15, <1>16 DEF BatchInv

LEMMA BatchStays ==
  ASSUME BatchInv, UNCHANGED batchVars
  PROVE  BatchInv'
<1>1. UNCHANGED <<waiting, active, aborted, revoked, drainTimer, concurrency, fresh, job>>  BY DEF batchVars
<1>2. BatchTypeOK' /\ QueueInv' /\ DrainPending'  BY <1>1 DEF BatchInv, BatchTypeOK, QueueInv, DrainPending
<1>3. /\ EntriesRun' /\ (Clash' \/ HasItsEntry')
      /\ \E n \in Concurrencies : ActiveSize(active') <= n
  BY <1>1, SameMap
<1> QED  BY <1>2, <1>3 DEF BatchInv

LEMMA BatchSteps ==
  ASSUME BatchInv, BatchNext
  PROVE  BatchInv'
<1>1. ASSUME NEW j \in BatchJobs, Submit(j) PROVE BatchInv'  BY <1>1, SubmitKeeps
<1>2. ASSUME NEW j \in BatchJobs, Ages(j) PROVE BatchInv'  BY <1>2, AgesKeeps
<1>3. ASSUME NEW j \in BatchJobs, Executor(j) PROVE BatchInv'
  <2>1. \E end \in {"completed", "failed", "cancelled"} : RunEnds(j, end)
    BY <1>3 DEF Executor, ExecutorAnswers, ExecutorThrows
  <2> QED  BY <2>1, RunEndsKeeps
<1>4. ASSUME NEW i \in BatchIds, CancelWaiting(i) PROVE BatchInv'  BY <1>4, CancelWaitingKeeps
<1>5. ASSUME NEW i \in BatchIds, CancelActive(i) PROVE BatchInv'  BY <1>5, CancelActiveKeeps
<1>6. ASSUME NEW n \in Concurrencies, UpdateConfig(n) PROVE BatchInv'  BY <1>6, UpdateConfigKeeps
<1>7. ASSUME Drain PROVE BatchInv'  BY <1>7, DrainKeeps
<1>8. ASSUME Stop PROVE BatchInv'  BY <1>8, StopKeeps
<1> QED  BY <1>1, <1>2, <1>3, <1>4, <1>5, <1>6, <1>7, <1>8 DEF BatchNext

(* Without a clash the entries count the jobs that run.                    *)
LEMMA BatchIsSound ==
  ASSUME BatchInv
  PROVE  BatchingSound
<1>1. ASSUME ~Clash PROVE \E n \in Concurrencies : Cardinality(RunningJobs) <= n
  <2>1. PICK R, E : R = RunningJobs /\ E = Entries(active)  OBVIOUS
  <2>2. PICK f : f = [j \in R |-> IdOf[j]]  OBVIOUS
  <2>3. \A j \in R : j \in BatchJobs /\ active[IdOf[j]] = {j} /\ IdOf[j] \in BatchIds
    BY <1>1, <2>1, BatchAssumption DEF BatchInv, HasItsEntry, RunningJobs
  <2>4. f \in Injection(R, E)
    <3>1. \A j \in R : IdOf[j] \in E  BY <2>1, <2>3 DEF Entries
    <3>2. \A j, k \in R : IdOf[j] = IdOf[k] => j = k
      <4> SUFFICES ASSUME NEW j \in R, NEW k \in R, IdOf[j] = IdOf[k] PROVE j = k  OBVIOUS
      <4>1. {j} = {k}  BY <2>3
      <4> QED  BY <4>1
    <3> QED  BY <2>2, <3>1, <3>2 DEF Injection, IsInjective
  <2>5. Keyed(active)  BY DEF BatchInv, BatchTypeOK, EntriesRun, Keyed
  <2>6. IsFiniteSet(E) /\ Cardinality(E) \in Nat  BY <2>1, <2>5, EntriesFinite DEF ActiveSize
  <2>7. IsFiniteSet(R) /\ Cardinality(R) <= Cardinality(E)  BY <2>4, <2>6, FS_Injection
  <2>8. Cardinality(R) \in Nat  BY <2>7, FS_CardinalityType
  <2>9. PICK n \in Concurrencies : Cardinality(E) <= n  BY <2>1 DEF BatchInv, ActiveSize
  <2>10. n \in Nat  BY BatchAssumption
  <2>11. Cardinality(R) <= n  BY <2>6, <2>7, <2>8, <2>9, <2>10
  <2> QED  BY <2>1, <2>11
<1>2. BatchBounded  BY <1>1 DEF BatchBounded
<1> QED  BY <1>2 DEF BatchInv, BatchingSound

(* Nobody starts before a job of higher priority that waits.               *)
LEMMA BatchStartsInOrder ==
  ASSUME BatchInv, BatchNext, NEW j \in BatchJobs, NEW k \in BatchJobs,
         job[j] = "waiting" /\ job'[j] = "running", job'[k] = "waiting"
  PROVE  PriorityOf[k] <= PriorityOf[j]
<1>1. BatchTypeOK /\ QueueInv  BY DEF BatchInv
<1>2. Drain
  <2>1. ASSUME NEW x \in BatchJobs, Submit(x) PROVE FALSE
    <3>1. job[x] = "new" /\ job' \in {[job EXCEPT ![x] = "refused"], [job EXCEPT ![x] = "waiting"]}
      BY <2>1 DEF Submit
    <3>2. job'[j] = job[j] \/ job'[j] \in {"refused", "waiting"}  BY <1>1, <3>1 DEF BatchTypeOK
    <3> QED  BY <3>2
  <2>2. ASSUME NEW x \in BatchJobs, Ages(x) PROVE FALSE  BY <2>2 DEF Ages
  <2>3. ASSUME NEW x \in BatchJobs, Executor(x) PROVE FALSE
    <3>1. PICK end \in {"completed", "failed", "cancelled"} : RunEnds(x, end)
      BY <2>3 DEF Executor, ExecutorAnswers, ExecutorThrows
    <3>2. job'[j] = job[j] \/ job'[j] = end  BY <1>1, <3>1 DEF RunEnds, BatchTypeOK
    <3> QED  BY <3>2
  <2>4. ASSUME NEW i \in BatchIds, CancelWaiting(i) PROVE FALSE
    <3>1. \E x : job' = [job EXCEPT ![x] = "cancelled"]  BY <2>4 DEF CancelWaiting
    <3>2. job'[j] = job[j] \/ job'[j] = "cancelled"  BY <1>1, <3>1 DEF BatchTypeOK
    <3> QED  BY <3>2
  <2>5. ASSUME NEW i \in BatchIds, CancelActive(i) PROVE FALSE  BY <2>5 DEF CancelActive
  <2>6. ASSUME NEW n \in Concurrencies, UpdateConfig(n) PROVE FALSE  BY <2>6 DEF UpdateConfig
  <2>7. ASSUME Stop PROVE FALSE
    <3>1. job'[j] = job[j] \/ job'[j] = "cancelled"  BY <2>7 DEF Stop
    <3> QED  BY <3>1
  <2> QED  BY <2>1, <2>2, <2>3, <2>4, <2>5, <2>6, <2>7 DEF BatchNext
<1>3. PICK m \in Nat : m = Len(waiting)  BY <1>1, WaitingIs
<1>4. PICK n \in 0..m : Drained(n)  BY <1>1, <1>2, <1>3, DrainIs
<1>5. \A x \in BatchJobs : job'[x] = IF x \in Started(n) THEN "running" ELSE job[x]  BY <1>4 DEF Drained
<1>6. j \in Started(n)  BY <1>5
<1>7. k \notin Started(n) /\ job[k] = "waiting"  BY <1>5
<1>8. PICK a \in 1..n : waiting[a] = j  BY <1>6 DEF Started
<1>9. PICK b \in 1..m : waiting[b] = k  BY <1>1, <1>3, <1>7 DEF QueueInv, In
<1>10. a \in 1..m /\ a < b
  <2>1. b \notin 1..n  BY <1>7, <1>9 DEF Started
  <2> QED  BY <2>1
<1> QED  BY <1>1, <1>3, <1>8, <1>9, <1>10 DEF QueueInv, Ordered

(***************************************************************************)
(* The prefill/decode scheduler.  A request waits in the line, is worked   *)
(* on in the batch, or is over and answered; and while no two loops were   *)
(* alive together, the one loop awaits a step of requests that are in the  *)
(* state this step is for.                                                 *)
(***************************************************************************)
InWork == {"PREFILLING", "DECODING", "COMPLETED", "ERROR"}
OverStates == {"COMPLETED", "ERROR", "REFUSED"}
LoopPlaces == {"none", "delay", "prefill", "decode", "returned", "ended"}

LineInv ==
  /\ Distinct(line)
  /\ \A r \in Inferences : state[r] = "PENDING" <=> In(r, line)
  /\ \A r \in Inferences : state[r] \in OverStates => outcome[r] # "none"
  /\ \A r \in Inferences : state[r] \in {"PREFILLING", "DECODING"} /\ outcome[r] = "none" => r \in batch
  /\ \A r \in batch : state[r] \in InWork

AnswersAre ==
  \A r \in Inferences :
    /\ outcome[r] = "resolved" <=> state[r] = "COMPLETED"
    /\ outcome[r] = "rejected" <=> state[r] \in {"ERROR", "REFUSED"}

RightStates ==
  /\ \A k, l \in AliveLoops(pc) : k = l
  /\ \A l \in Loops : pc[l] = "prefill" => \A r \in work[l] : state[r] = "PREFILLING"
  /\ \A l \in Loops : pc[l] = "decode"  => \A r \in work[l] : state[r] = "DECODING"

LoopsInv ==
  /\ IsFiniteSet(AliveLoops(pc))
  /\ \A l \in Loops : \A r \in work[l] : state[r] \in InWork
  /\ overlapped \/ RightStates

InferInv == SchedulerTypeOK /\ LineInv /\ LoopsInv /\ (overlapped \/ AnswersAre)

LoopsTyped ==
  /\ pc \in [Loops -> LoopPlaces] /\ work \in [Loops -> SUBSET Inferences] /\ overlapped \in BOOLEAN

LEMMA TypedLoops == SchedulerTypeOK => LoopsTyped
  BY DEF SchedulerTypeOK, LoopsTyped, LoopPlaces

(* A loop that goes on to await something.                                 *)
LEMMA AwaitsKeeps ==
  ASSUME LoopsTyped, LoopsInv, NEW l \in Loops, NEW what \in LoopPlaces, NEW R \in SUBSET Inferences,
         Awaits(l, what, R), what \in {"none", "ended"} => l \in AliveLoops(pc),
         \A r \in R : state'[r] \in InWork,
         \A k \in Loops : \A r \in work[k] : state'[r] \in InWork,
         what = "prefill" => \A r \in R : state'[r] = "PREFILLING",
         what = "decode" => \A r \in R : state'[r] = "DECODING"
  PROVE  LoopsTyped' /\ LoopsInv' /\ (overlapped => overlapped')
<1>1. /\ pc' = [pc EXCEPT ![l] = what] /\ work' = [work EXCEPT ![l] = R]
      /\ overlapped' = (overlapped \/ Cardinality(AliveLoops(pc')) > 1)
  BY DEF Awaits
<1>2. LoopsTyped'  BY <1>1 DEF LoopsTyped
<1>3. pc'[l] = what /\ work'[l] = R /\ \A k \in Loops : k # l => pc'[k] = pc[k] /\ work'[k] = work[k]
  BY <1>1 DEF LoopsTyped
<1>4. PICK A, B : A = AliveLoops(pc) /\ B = AliveLoops(pc')  OBVIOUS
<1>5. IsFiniteSet(B)
  <2>1. IsFiniteSet(A)  BY <1>4 DEF LoopsInv
  <2>2. PICK C : C = A \cup {l}  OBVIOUS
  <2>3. IsFiniteSet(C)  BY <2>1, <2>2, FS_AddElement
  <2>4. B \in SUBSET C  BY <1>3, <1>4, <2>2 DEF AliveLoops
  <2> QED  BY <2>3, <2>4, FS_Subset
<1>6. \A k \in Loops : \A r \in work'[k] : state'[r] \in InWork  BY <1>3
<1>7. ASSUME ~overlapped' PROVE RightStates'
  <2>1. ~(Cardinality(B) > 1)  BY <1>1, <1>4, <1>7
  <2>2. \A k, m \in B : k = m
    <3> SUFFICES ASSUME NEW k \in B, NEW m \in B, k # m PROVE FALSE  OBVIOUS
    <3>1. PICK P : P = {k, m}  OBVIOUS
    <3>2. PICK Q : Q = {k}  OBVIOUS
    <3>3. IsFiniteSet(Q) /\ Cardinality(Q) = 1  BY <3>2, FS_Singleton
    <3>4. P = Q \cup {m} /\ m \notin Q  BY <3>1, <3>2
    <3>5. Cardinality(P) = Cardinality(Q) + 1  BY <3>3, <3>4, FS_AddElement
    <3>6. P \in SUBSET B  BY <3>1
    <3>7. Cardinality(P) <= Cardinality(B) /\ Cardinality(B) \in Nat  BY <1>5, <3>6, FS_Subset, FS_CardinalityType
    <3> QED  BY <2>1, <3>3, <3>5, <3>7
  <2>3. ASSUME NEW k \in Loops, pc'[k] \in {"prefill", "decode"} PROVE k = l
    <3>1. k \in B  BY <1>4, <2>3 DEF AliveLoops
    <3>2. CASE what \in {"prefill", "decode", "delay", "returned"}
      <4>1. l \in B  BY <1>3, <1>4, <3>2 DEF AliveLoops
      <4> QED  BY <2>2, <3>1, <4>1
    <3>3. CASE what \in {"none", "ended"}
      <4> SUFFICES ASSUME k # l PROVE FALSE  OBVIOUS
      <4>1. RightStates  BY <1>1, <1>7 DEF LoopsInv
      <4>2. k \in AliveLoops(pc) /\ l \in AliveLoops(pc)  BY <1>3, <2>3, <3>3 DEF AliveLoops
      <4> QED  BY <4>1, <4>2 DEF RightStates
    <3> QED  BY <3>2, <3>3 DEF LoopPlaces
  <2> QED  BY <1>3, <1>4, <2>2, <2>3 DEF RightStates
<1>8. overlapped => overlapped'  BY <1>1
<1> QED  BY <1>2, <1>4, <1>5, <1>6, <1>7, <1>8 DEF LoopsInv

LEMMA LesserOfTwo ==
  ASSUME NEW a \in Int, NEW b \in Int
  PROVE  Min({a, b}) = IF a <= b THEN a ELSE b
<1>1. \A m \in {a, b} : (\A i \in {a, b} : m <= i) => m = IF a <= b THEN a ELSE b  OBVIOUS
<1>2. \E m \in {a, b} : \A i \in {a, b} : m <= i  OBVIOUS
<1>3. Min({a, b}) \in {a, b} /\ \A i \in {a, b} : Min({a, b}) <= i  BY <1>2 DEF Min
<1> QED  BY <1>1, <1>3

(* What a tick takes from the line: as many as there is room for.          *)
TakenBy(kept) == {line[k] : k \in 1..Min({MaxBatchSize - Cardinality(kept), Len(line)})}

LEMMA TakenIs ==
  ASSUME line \in Seq(Inferences), Distinct(line), NEW kept \in SUBSET Inferences
  PROVE  \E n \in 0..Len(line) : TakenBy(kept) = First(line, n) /\ Cardinality(TakenBy(kept)) = n
<1>1. PICK s \in Seq(Inferences) : s = line  OBVIOUS
<1>2. PICK m \in Nat : m = Len(s)  BY LenProperties
<1>3. PICK room \in Int : room = MaxBatchSize - Cardinality(kept)
  <2>1. IsFiniteSet(kept)  BY SchedulerAssumption, FS_Subset
  <2>2. Cardinality(kept) \in Nat /\ MaxBatchSize \in Nat  BY <2>1, SchedulerAssumption, FS_CardinalityType
  <2> QED  BY <2>2
<1>4. PICK c : c = Min({room, m})  OBVIOUS
<1>5. c = IF room <= m THEN room ELSE m  BY <1>2, <1>3, <1>4, LesserOfTwo
<1>6. TakenBy(kept) = {s[k] : k \in 1..c}  BY <1>1, <1>2, <1>3, <1>4 DEF TakenBy
<1>7. PICK n \in 0..m : 1..n = 1..c
  <2>1. CASE c < 0
    <3>1. 1..c = 1..0 /\ 0 \in 0..m  BY <1>2, <1>3, <1>5, <2>1
    <3> QED  BY <3>1
  <2>2. CASE c >= 0
    <3>1. c \in 0..m  BY <1>2, <1>3, <1>5, <2>2
    <3> QED  BY <3>1
  <2> QED  BY <1>3, <1>5, <2>1, <2>2
<1>8. TakenBy(kept) = First(s, n)  BY <1>6, <1>7 DEF First
<1>9. Cardinality(First(s, n)) = n
  <2>1. Distinct(s) /\ n \in 0..Len(s)  BY <1>1, <1>2
  <2> QED  BY <2>1, FirstCount
<1> QED  BY <1>1, <1>2, <1>8, <1>9

(* A tick of loop l takes the first n of the line and awaits a step.       *)
Ticked(l, kept, n) ==
  /\ line' = SubSeq(line, n + 1, Len(line))
  /\ state' = [r \in Inferences |-> IF r \in First(line, n) THEN "PREFILLING" ELSE state[r]]
  /\ batch' = kept \cup First(line, n)
  /\ \E b \in BOOLEAN : mixed' = [mixed EXCEPT ![l] = b]
  /\ UNCHANGED <<outcome, tokens, backend, steps>>
  /\ \E what \in {"delay", "prefill", "decode", "returned"}, R \in SUBSET batch' :
       /\ Awaits(l, what, R)
       /\ what = "prefill" => \A r \in R : state'[r] = "PREFILLING"
       /\ what = "decode" => \A r \in R : state'[r] = "DECODING"

LEMMA TickIs ==
  ASSUME line \in Seq(Inferences), Distinct(line), NEW l \in Loops, NEW kept \in SUBSET Inferences, Tick(l, kept)
  PROVE  \E n \in 0..Len(line) : Ticked(l, kept, n)
<1>1. PICK n \in 0..Len(line) : TakenBy(kept) = First(line, n) /\ Cardinality(TakenBy(kept)) = n  BY TakenIs
<1>2. PICK taken : taken = First(line, n) /\ taken = TakenBy(kept) /\ Cardinality(taken) = n  BY <1>1
<1>3. PICK st : st = [r \in Inferences |-> IF r \in taken THEN "PREFILLING" ELSE state[r]]  OBVIOUS
<1>4. PICK full : full = kept \cup taken  OBVIOUS
<1>5. PICK prefills, decodes : /\ prefills = {r \in full : st[r] = "PREFILLING"}
                               /\ decodes = {r \in full : st[r] = "DECODING"}
  OBVIOUS
<1>6. /\ line' = SubSeq(line, n + 1, Len(line))
      /\ state' = st /\ batch' = full
      /\ mixed' = [mixed EXCEPT ![l] = decodes # {}]
      /\ \/ (full = {} \/ ~backend)                   /\ Awaits(l, "delay", {})
         \/ full # {} /\ backend /\ prefills # {}     /\ Awaits(l, "prefill", prefills)
         \/ backend /\ prefills = {} /\ decodes # {}  /\ Awaits(l, "decode", decodes)
         \/ full # {} /\ backend /\ prefills = {} /\ decodes = {} /\ Awaits(l, "returned", {})
      /\ UNCHANGED <<outcome, tokens, backend, steps>>
  BY <1>2, <1>3, <1>4, <1>5 DEF Tick, TakenBy
<1>7. \E b \in BOOLEAN : mixed' = [mixed EXCEPT ![l] = b]
  <2>1. PICK b \in BOOLEAN : b = (decodes # {})  OBVIOUS
  <2> QED  BY <1>6, <2>1
<1>8. \E what \in {"delay", "prefill", "decode", "returned"}, R \in SUBSET batch' :
        /\ Awaits(l, what, R)
        /\ what = "prefill" => \A r \in R : state'[r] = "PREFILLING"
        /\ what = "decode" => \A r \in R : state'[r] = "DECODING"
  <2>1. {} \in SUBSET batch' /\ prefills \in SUBSET batch' /\ decodes \in SUBSET batch'  BY <1>5, <1>6
  <2>2. (\A r \in prefills : state'[r] = "PREFILLING") /\ (\A r \in decodes : state'[r] = "DECODING")  BY <1>5, <1>6
  <2>3. Awaits(l, "delay", {}) \/ Awaits(l, "prefill", prefills) \/ Awaits(l, "decode", decodes)
        \/ Awaits(l, "returned", {})
    BY <1>6
  <2> QED  BY <2>1, <2>2, <2>3
<1> QED  BY <1>2, <1>3, <1>4, <1>6, <1>7, <1>8 DEF Ticked

(* The types a step of a request's own or of a loop leaves alone.          *)
RequestsTyped ==
  /\ line \in Seq(Inferences) /\ batch \subseteq Inferences
  /\ state \in [Inferences ->
       {"none", "PENDING", "PREFILLING", "DECODING", "COMPLETED", "ERROR", "REFUSED"}]
  /\ outcome \in [Inferences -> {"none", "resolved", "rejected"}]

RestTyped ==
  /\ tokens \in [Inferences -> 0..MaxTokens]
  /\ {isRunning, backend} \subseteq BOOLEAN
  /\ mixed \in [Loops -> BOOLEAN]
  /\ steps \in [Loops -> 0..MaxDecodeSteps - 1]

LEMMA TypesAre == SchedulerTypeOK <=> RequestsTyped /\ RestTyped /\ LoopsTyped
  BY DEF SchedulerTypeOK, RequestsTyped, RestTyped, LoopsTyped, LoopPlaces

LEMMA TypesNext == RequestsTyped' /\ RestTyped' /\ LoopsTyped' => SchedulerTypeOK'
  BY DEF SchedulerTypeOK, RequestsTyped, RestTyped, LoopsTyped, LoopPlaces

(* The loops do not move.                                                  *)
LEMMA LoopsStay ==
  ASSUME LoopsTyped, LoopsInv, UNCHANGED loopVars,
         \A r \in Inferences : state[r] \in InWork => state'[r] = state[r]
  PROVE  LoopsTyped' /\ LoopsInv' /\ overlapped' = overlapped
<1>1. UNCHANGED <<pc, work, mixed, steps, overlapped>>  BY DEF loopVars
<1>2. \A l \in Loops : \A r \in work[l] : r \in Inferences /\ state'[r] = state[r]
  BY DEF LoopsTyped, LoopsInv
<1>3. LoopsTyped'  BY <1>1 DEF LoopsTyped
<1>4. RightStates => RightStates'
  <2>1. AliveLoops(pc') = AliveLoops(pc)  BY <1>1
  <2> QED  BY <1>1, <1>2, <2>1 DEF RightStates
<1>5. LoopsInv'  BY <1>1, <1>2, <1>4 DEF LoopsInv
<1> QED  BY <1>1, <1>3, <1>5

LEMMA InferStarts ==
  ASSUME SchedulerInit
  PROVE  InferInv
<1>1. line = <<>> /\ Len(line) = 0
  <2>1. \A S : Len(<<>>) = 0  BY EmptySeq
  <2> QED  BY <2>1 DEF SchedulerInit
<1>2. SchedulerTypeOK
  <2>1. <<>> \in Seq(Inferences)  BY EmptySeq
  <2>2. MaxTokens \in Nat \ {0} /\ MaxDecodeSteps \in Nat \ {0}  BY SchedulerAssumption
  <2>3. 0 \in 0..MaxTokens /\ 0 \in 0..MaxDecodeSteps - 1  BY <2>2
  <2>4. RequestsTyped  BY <1>1, <2>1 DEF SchedulerInit, RequestsTyped
  <2>5. RestTyped  BY <2>3 DEF SchedulerInit, RestTyped
  <2>6. LoopsTyped  BY DEF SchedulerInit, LoopsTyped, LoopPlaces
  <2> QED  BY <2>4, <2>5, <2>6, TypesAre
<1>3. \A r \in Inferences : state[r] = "none" /\ outcome[r] = "none"  BY DEF SchedulerInit
<1>4. Distinct(line) /\ \A x : ~In(x, line)  BY <1>1 DEF Distinct, In
<1>5. batch = {}  BY DEF SchedulerInit
<1>6. LineInv  BY <1>3, <1>4, <1>5 DEF LineInv, OverStates
<1>7. AnswersAre  BY <1>3 DEF AnswersAre
<1>8. LoopsInv
  <2>1. \A l \in Loops : pc[l] = "none" /\ work[l] = {}  BY DEF SchedulerInit
  <2>2. AliveLoops(pc) = {}  BY <2>1 DEF AliveLoops
  <2> QED  BY <2>1, <2>2, FS_EmptySet DEF LoopsInv, RightStates
<1> QED  BY <1>2, <1>6, <1>7, <1>8 DEF InferInv

(* submit puts a request into the line once.                               *)
LEMMA SortedInIs ==
  ASSUME line \in Seq(Inferences), Distinct(line), NEW r \in Inferences, ~In(r, line)
  PROVE  /\ SortedIn(r) \in Seq(Inferences) /\ Distinct(SortedIn(r))
         /\ \A x : In(x, SortedIn(r)) <=> x = r \/ In(x, line)
<1>1. PICK s \in Seq(Inferences) : s = line  OBVIOUS
<1>2. PICK m \in Nat : m = Len(s)  BY LenProperties
<1>3. PICK I : I = {k \in 1..m : LengthOf[s[k]] > LengthOf[r]}  OBVIOUS
<1>4. PICK b : b = IF I # {} THEN Min(I) ELSE 0  OBVIOUS
<1>5. PICK p : p = IF b = 0 THEN m + 1 ELSE b  OBVIOUS
<1>6. PICK t : t = InsertAt(s, p, r)  OBVIOUS
<1>7. SortedIn(r) = t  BY <1>1, <1>2, <1>3, <1>4, <1>5, <1>6 DEF SortedIn, SelectInSeq
<1>8. p \in 1..m + 1
  <2>1. CASE I = {}  BY <1>4, <1>5, <2>1
  <2>2. CASE I # {}
    <3>1. I \subseteq 1..m /\ 1 \in Nat  BY <1>3
    <3>2. Min(I) \in I  BY <1>2, <2>2, <3>1, ExtremesAre
    <3>3. b \in 1..m  BY <1>4, <2>2, <3>1, <3>2
    <3> QED  BY <1>5, <3>3
  <2> QED  BY <2>1, <2>2
<1>9. t \in Seq(Inferences) /\ Distinct(t) /\ \A x : In(x, t) <=> x = r \/ In(x, s)
  <2>1. Distinct(s) /\ ~In(r, s) /\ p \in 1..Len(s) + 1  BY <1>1, <1>2, <1>8
  <2> QED  BY <1>6, <2>1, InsertedHas
<1> QED  BY <1>1, <1>7, <1>9

LEMMA SubmitInferenceKeeps ==
  ASSUME InferInv, NEW r \in Inferences, SubmitInference(r)
  PROVE  InferInv'
<1>1. SchedulerTypeOK /\ LineInv /\ RequestsTyped /\ RestTyped /\ LoopsTyped /\ state[r] = "none"
  BY TypesAre DEF InferInv, SubmitInference
<1>2. UNCHANGED <<batch, tokens, isRunning, backend, loopVars>>  BY DEF SubmitInference
<1>3. RestTyped'  BY <1>1, <1>2 DEF RestTyped, loopVars
<1>4. \A k \in Inferences : k # r => state'[k] = state[k] /\ outcome'[k] = outcome[k]
  BY <1>1 DEF SubmitInference, RequestsTyped
<1>5. LoopsTyped' /\ LoopsInv' /\ overlapped' = overlapped
  <2>1. \A k \in Inferences : state[k] \in InWork => state'[k] = state[k]  BY <1>1, <1>4 DEF InWork
  <2> QED  BY <1>1, <1>2, <2>1, LoopsStay DEF InferInv
<1>6. r \notin batch  BY <1>1 DEF LineInv, InWork
<1>7. CASE Len(line) >= MaxQueueSize
  <2>1. UNCHANGED line /\ state' = [state EXCEPT ![r] = "REFUSED"] /\ outcome' = [outcome EXCEPT ![r] = "rejected"]
    BY <1>7 DEF SubmitInference
  <2>2. state'[r] = "REFUSED" /\ outcome'[r] = "rejected"  BY <1>1, <2>1 DEF RequestsTyped
  <2>3. RequestsTyped'  BY <1>1, <1>2, <2>1 DEF RequestsTyped
  <2>4. LineInv'  BY <1>1, <1>2, <1>4, <1>6, <2>1, <2>2 DEF LineInv, OverStates, RequestsTyped
  <2>5. AnswersAre => AnswersAre'  BY <1>4, <2>2 DEF AnswersAre
  <2> QED  BY <1>3, <1>5, <2>3, <2>4, <2>5, TypesNext DEF InferInv
<1>8. CASE ~(Len(line) >= MaxQueueSize)
  <2>1. line' = SortedIn(r) /\ state' = [state EXCEPT ![r] = "PENDING"] /\ UNCHANGED outcome
    BY <1>8 DEF SubmitInference
  <2>2. state'[r] = "PENDING" /\ outcome' = outcome  BY <1>1, <2>1 DEF RequestsTyped
  <2>3. ~In(r, line)  BY <1>1 DEF LineInv
  <2>4. PICK t : t = SortedIn(r)  OBVIOUS
  <2>5. t \in Seq(Inferences) /\ Distinct(t) /\ \A x : In(x, t) <=> x = r \/ In(x, line)
    BY <1>1, <2>3, <2>4, SortedInIs DEF LineInv, RequestsTyped
  <2>6. RequestsTyped'  BY <1>1, <1>2, <2>1, <2>4, <2>5 DEF RequestsTyped
  <2>7. LineInv'  BY <1>1, <1>2, <1>4, <1>6, <2>1, <2>2, <2>4, <2>5 DEF LineInv, OverStates, RequestsTyped
  <2>8. AnswersAre => AnswersAre'  BY <1>1, <1>4, <2>2 DEF AnswersAre
  <2> QED  BY <1>3, <1>5, <2>6, <2>7, <2>8, TypesNext DEF InferInv
<1> QED  BY <1>7, <1>8

(* The switches: a backend is set, the loop is told to stop.               *)
LEMMA SwitchKeeps ==
  ASSUME InferInv, SetExecutionBackend \/ StopLoop \/ UNCHANGED schedulerVars
  PROVE  InferInv'
<1>1. UNCHANGED <<line, batch, requestVars, loopVars>> /\ isRunning' \in BOOLEAN /\ backend' \in BOOLEAN
  BY DEF InferInv, SchedulerTypeOK, SetExecutionBackend, StopLoop, schedulerVars
<1>2. UNCHANGED <<line, batch, state, outcome, tokens, mixed, steps>>  BY <1>1 DEF requestVars, loopVars
<1>3. RequestsTyped /\ RestTyped /\ LoopsTyped  BY TypesAre DEF InferInv
<1>4. RequestsTyped' /\ RestTyped'  BY <1>1, <1>2, <1>3 DEF RequestsTyped, RestTyped
<1>5. LoopsTyped' /\ LoopsInv' /\ overlapped' = overlapped  BY <1>1, <1>2, <1>3, LoopsStay DEF InferInv
<1>6. LineInv' /\ (AnswersAre => AnswersAre')  BY <1>2 DEF InferInv, LineInv, AnswersAre
<1> QED  BY <1>4, <1>5, <1>6, TypesNext DEF InferInv

(* A tick, over a batch that only those left who were answered.            *)
LEMMA TickKeeps ==
  ASSUME InferInv, NEW l \in Loops, NEW kept \in SUBSET batch,
         \A r \in batch : outcome[r] = "none" => r \in kept,
         Tick(l, kept), isRunning' \in BOOLEAN
  PROVE  InferInv'
<1>1. RequestsTyped /\ RestTyped /\ LoopsTyped /\ LineInv /\ LoopsInv  BY TypesAre DEF InferInv
<1>2. PICK n \in 0..Len(line) : Ticked(l, kept, n)
  <2>1. line \in Seq(Inferences) /\ Distinct(line) /\ kept \in SUBSET Inferences
    BY <1>1 DEF RequestsTyped, LineInv
  <2> QED  BY <2>1, TickIs
<1>3. PICK s, t, F : s = line /\ t = line' /\ F = First(line, n)  OBVIOUS
<1>4. t \in Seq(Inferences) /\ Distinct(t) /\ \A x : In(x, t) <=> In(x, s) /\ x \notin F
  <2>1. s \in Seq(Inferences) /\ Distinct(s) /\ n \in 0..Len(s) /\ F = First(s, n)
    BY <1>1, <1>3 DEF RequestsTyped, LineInv
  <2>2. t = SubSeq(s, n + 1, Len(s))  BY <1>2, <1>3 DEF Ticked
  <2> QED  BY <2>1, <2>2, DroppedHas
<1>5. \A r \in F : r \in Inferences /\ In(r, s) /\ state[r] = "PENDING" /\ r \notin batch
  <2> SUFFICES ASSUME NEW r \in F PROVE r \in Inferences /\ In(r, s) /\ state[r] = "PENDING" /\ r \notin batch
    OBVIOUS
  <2>1. PICK m \in Nat : m = Len(s) /\ \A k \in 1..m : s[k] \in Inferences
    BY <1>1, <1>3, LenProperties DEF RequestsTyped
  <2>2. PICK k \in 1..n : s[k] = r  BY <1>3 DEF First
  <2>3. k \in 1..m  BY <1>3, <2>1
  <2>4. r \in Inferences /\ In(r, s)  BY <2>1, <2>2, <2>3 DEF In
  <2>5. state[r] = "PENDING"  BY <1>1, <1>3, <2>4 DEF LineInv
  <2> QED  BY <1>1, <2>4, <2>5 DEF LineInv, InWork
<1>6. /\ \A r \in Inferences : state'[r] = IF r \in F THEN "PREFILLING" ELSE state[r]
      /\ batch' = kept \cup F /\ UNCHANGED <<outcome, tokens, backend, steps>>
  BY <1>2, <1>3 DEF Ticked
<1>7. RequestsTyped'
  <2>1. state' \in [Inferences ->
          {"none", "PENDING", "PREFILLING", "DECODING", "COMPLETED", "ERROR", "REFUSED"}]
    BY <1>1, <1>2 DEF Ticked, RequestsTyped
  <2>2. batch' \subseteq Inferences  BY <1>1, <1>5, <1>6 DEF RequestsTyped
  <2> QED  BY <1>1, <1>3, <1>4, <1>6, <2>1, <2>2 DEF RequestsTyped
<1>8. RestTyped'
  <2>1. mixed' \in [Loops -> BOOLEAN]  BY <1>1, <1>2 DEF Ticked, RestTyped
  <2> QED  BY <1>1, <1>6, <2>1 DEF RestTyped
<1>9. \A r \in kept : r \in batch  OBVIOUS
<1>10. LineInv'
  <2>1. \A r \in Inferences : state'[r] = "PENDING" <=> In(r, t)
    <3> SUFFICES ASSUME NEW r \in Inferences PROVE state'[r] = "PENDING" <=> In(r, t)  OBVIOUS
    <3>1. state[r] = "PENDING" <=> In(r, s)  BY <1>1, <1>3 DEF LineInv
    <3> QED  BY <1>4, <1>6, <3>1
  <2>2. \A r \in Inferences : state'[r] \in OverStates => outcome'[r] # "none"
    BY <1>1, <1>6 DEF LineInv, OverStates
  <2>3. \A r \in Inferences :
          state'[r] \in {"PREFILLING", "DECODING"} /\ outcome'[r] = "none" => r \in batch'
    BY <1>1, <1>6 DEF LineInv
  <2>4. \A r \in batch' : state'[r] \in InWork
    <3> SUFFICES ASSUME NEW r \in batch' PROVE state'[r] \in InWork  OBVIOUS
    <3>1. r \in Inferences /\ (r \in F \/ state[r] \in InWork)  BY <1>1, <1>5, <1>6, <1>9 DEF LineInv, RequestsTyped
    <3> QED  BY <1>6, <3>1 DEF InWork
  <2> QED  BY <1>3, <1>4, <2>1, <2>2, <2>3, <2>4 DEF LineInv
<1>11. LoopsTyped' /\ LoopsInv' /\ (overlapped => overlapped')
  <2>1. PICK what \in {"delay", "prefill", "decode", "returned"}, R \in SUBSET batch' :
          /\ Awaits(l, what, R)
          /\ what = "prefill" => \A r \in R : state'[r] = "PREFILLING"
          /\ what = "decode" => \A r \in R : state'[r] = "DECODING"
    BY <1>2 DEF Ticked
  <2>2. what \in LoopPlaces /\ R \in SUBSET Inferences /\ (what \in {"none", "ended"} => l \in AliveLoops(pc))
    BY <1>7 DEF LoopPlaces, RequestsTyped
  <2>3. \A r \in R : state'[r] \in InWork  BY <1>10 DEF LineInv
  <2>4. \A k \in Loops : \A r \in work[k] : state'[r] \in InWork
    BY <1>1, <1>6 DEF LoopsInv, LoopsTyped, InWork
  <2> QED  BY <1>1, <2>1, <2>2, <2>3, <2>4, AwaitsKeeps
<1>12. AnswersAre => AnswersAre'  BY <1>5, <1>6 DEF AnswersAre
<1> QED  BY <1>7, <1>8, <1>10, <1>11, <1>12, TypesNext DEF InferInv

LEMMA LoopOnKeeps ==
  ASSUME InferInv, NEW l \in Loops, l \in AliveLoops(pc), NEW kept \in SUBSET batch,
         \A r \in batch : outcome[r] = "none" => r \in kept,
         LoopOn(l, kept)
  PROVE  InferInv'
<1>1. UNCHANGED isRunning /\ isRunning \in BOOLEAN  BY DEF LoopOn, InferInv, SchedulerTypeOK
<1>2. CASE isRunning /\ Tick(l, kept)  BY <1>1, <1>2, TickKeeps
<1>3. CASE /\ ~isRunning
           /\ batch' = kept
           /\ Awaits(l, "ended", {})
           /\ UNCHANGED <<line, requestVars, backend, mixed, steps>>
  <2>1. RequestsTyped /\ RestTyped /\ LoopsTyped /\ LineInv /\ LoopsInv  BY TypesAre DEF InferInv
  <2>2. UNCHANGED <<line, state, outcome, tokens, backend, mixed, steps, isRunning>>  BY <1>1, <1>3 DEF requestVars
  <2>3. RequestsTyped' /\ RestTyped'  BY <1>3, <2>1, <2>2 DEF RequestsTyped, RestTyped
  <2>4. LineInv'  BY <1>3, <2>1, <2>2 DEF LineInv, RequestsTyped
  <2>5. LoopsTyped' /\ LoopsInv' /\ (overlapped => overlapped')
    <3>1. "ended" \in LoopPlaces /\ {} \in SUBSET Inferences  BY DEF LoopPlaces
    <3>2. \A k \in Loops : \A r \in work[k] : state'[r] \in InWork  BY <2>1, <2>2 DEF LoopsInv
    <3> QED  BY <1>3, <2>1, <3>1, <3>2, AwaitsKeeps
  <2>6. AnswersAre => AnswersAre'  BY <2>2 DEF AnswersAre
  <2> QED  BY <2>3, <2>4, <2>5, <2>6, TypesNext DEF InferInv
<1> QED  BY <1>2, <1>3 DEF LoopOn

LEMMA DecodeStepIs ==
  ASSUME NEW l \in Loops, batch \subseteq Inferences, NEW count \in 0..MaxDecodeSteps, steps \in [Loops -> 0..MaxDecodeSteps - 1],
         DecodeStep(l, state', count)
  PROVE  /\ steps' \in [Loops -> 0..MaxDecodeSteps - 1]
         /\ \E what \in {"decode", "returned"}, R \in SUBSET batch :
              Awaits(l, what, R) /\ (what = "decode" => \A r \in R : state'[r] = "DECODING")
<1>1. PICK D : D = {r \in batch : state'[r] = "DECODING"}  OBVIOUS
<1>2. D \in SUBSET batch /\ {} \in SUBSET batch /\ MaxDecodeSteps \in Nat \ {0}  BY <1>1, SchedulerAssumption
<1>3. CASE D = {} \/ count = MaxDecodeSteps
  <2>1. Awaits(l, "returned", {}) /\ steps' = [steps EXCEPT ![l] = 0]  BY <1>1, <1>3 DEF DecodeStep
  <2>2. 0 \in 0..MaxDecodeSteps - 1  BY <1>2
  <2> QED  BY <1>2, <2>1, <2>2
<1>4. CASE ~(D = {} \/ count = MaxDecodeSteps)
  <2>1. Awaits(l, "decode", D) /\ steps' = [steps EXCEPT ![l] = count]  BY <1>1, <1>4 DEF DecodeStep
  <2>2. count \in 0..MaxDecodeSteps - 1  BY <1>2, <1>4
  <2> QED  BY <1>1, <1>2, <2>1, <2>2
<1> QED  BY <1>3, <1>4

(* A step of the backend is over: the requests E of those that loop l      *)
(* awaited it for are in state st now and answered o, or decode on.        *)
LEMMA StepOverKeeps ==
  ASSUME InferInv, NEW l \in Loops, pc[l] \in {"prefill", "decode"},
         UNCHANGED <<line, batch>>, RestTyped',
         NEW E \in SUBSET work[l],
         \/ (\A r \in Inferences : state'[r] = IF r \in E THEN "DECODING" ELSE state[r]) /\ UNCHANGED outcome
            /\ pc[l] = "prefill" /\ E = work[l]
         \/ /\ \A r \in Inferences : state'[r] = IF r \in E THEN "ERROR" ELSE state[r]
            /\ outcome' = SettledTo(E, "rejected")
         \/ /\ \A r \in Inferences : state'[r] = IF r \in E THEN "COMPLETED" ELSE state[r]
            /\ outcome' = SettledTo(E, "resolved"),
         state' \in [Inferences ->
           {"none", "PENDING", "PREFILLING", "DECODING", "COMPLETED", "ERROR", "REFUSED"}],
         NEW what \in {"decode", "returned"}, NEW R \in SUBSET batch, Awaits(l, what, R),
         what = "decode" => \A r \in R : state'[r] = "DECODING"
  PROVE  InferInv'
<1>1. RequestsTyped /\ LoopsTyped /\ LineInv /\ LoopsInv  BY TypesAre DEF InferInv
<1>2. \A r \in E : r \in Inferences /\ state[r] \in InWork  BY <1>1 DEF LoopsTyped, LoopsInv
<1>3. outcome' \in [Inferences -> {"none", "resolved", "rejected"}]  BY <1>1 DEF RequestsTyped, SettledTo
<1>4. RequestsTyped'  BY <1>1, <1>3 DEF RequestsTyped
<1>5. /\ \A r \in Inferences : r \notin E => state'[r] = state[r] /\ outcome'[r] = outcome[r]
      /\ \A r \in E : state'[r] \in InWork
  BY <1>1, <1>2 DEF RequestsTyped, SettledTo, InWork
<1>6. \A r \in E : \/ state'[r] = "DECODING" /\ outcome'[r] = outcome[r]
                   \/ state'[r] = "ERROR" /\ outcome'[r] = (IF outcome[r] = "none" THEN "rejected" ELSE outcome[r])
                   \/ state'[r] = "COMPLETED" /\ outcome'[r] = (IF outcome[r] = "none" THEN "resolved" ELSE outcome[r])
  BY <1>2 DEF SettledTo
<1>7. LineInv'
  <2>1. ASSUME NEW r \in Inferences PROVE state'[r] = "PENDING" <=> In(r, line)
    BY <1>1, <1>2, <1>5 DEF LineInv, InWork
  <2>2. ASSUME NEW r \in Inferences, state'[r] \in OverStates PROVE outcome'[r] # "none"
    BY <1>1, <1>5, <1>6, <2>2 DEF LineInv, OverStates
  <2>3. ASSUME NEW r \in Inferences, state'[r] \in {"PREFILLING", "DECODING"}, outcome'[r] = "none" PROVE r \in batch
    <3>1. CASE r \notin E  BY <1>1, <1>5, <2>3, <3>1 DEF LineInv
    <3>2. CASE r \in E
      <4>1. outcome[r] = "none" /\ state[r] \in InWork  BY <1>2, <1>6, <2>3, <3>2
      <4> QED  BY <1>1, <4>1 DEF LineInv, InWork, OverStates
    <3> QED  BY <3>1, <3>2
  <2>4. ASSUME NEW r \in batch PROVE state'[r] \in InWork  BY <1>1, <1>5 DEF LineInv, RequestsTyped
  <2> QED  BY <1>1, <2>1, <2>2, <2>3, <2>4 DEF LineInv
<1>8. LoopsTyped' /\ LoopsInv' /\ (overlapped => overlapped')
  <2>1. what \in LoopPlaces /\ R \in SUBSET Inferences /\ (what \in {"none", "ended"} => l \in AliveLoops(pc))
    BY <1>1 DEF LoopPlaces, RequestsTyped
  <2>2. \A r \in R : state'[r] \in InWork  BY <1>7 DEF LineInv
  <2>3. \A k \in Loops : \A r \in work[k] : state'[r] \in InWork  BY <1>1, <1>5 DEF LoopsInv, LoopsTyped
  <2>4. what # "prefill"  OBVIOUS
  <2> QED  BY <1>1, <2>1, <2>2, <2>3, <2>4, AwaitsKeeps
<1>9. ASSUME ~overlapped, AnswersAre PROVE AnswersAre'
  <2>1. RightStates  BY <1>1, <1>9 DEF LoopsInv
  <2>2. \A r \in E : state[r] \in {"PREFILLING", "DECODING"}  BY <2>1 DEF RightStates
  <2>3. \A r \in E : outcome[r] = "none"  BY <1>1, <1>2, <1>9, <2>2 DEF AnswersAre, RequestsTyped
  <2> QED  BY <1>2, <1>5, <1>6, <1>9, <2>3 DEF AnswersAre
<1> QED  BY <1>4, <1>7, <1>8, <1>9, TypesNext DEF InferInv

LEMMA StartLoopKeeps ==
  ASSUME InferInv, NEW l \in Loops, StartLoop(l)
  PROVE  InferInv'
<1>1. Tick(l, batch) /\ isRunning' \in BOOLEAN /\ batch \in SUBSET batch  BY DEF StartLoop
<1> QED  BY <1>1, TickKeeps

LEMMA DelayOverKeeps ==
  ASSUME InferInv, NEW l \in Loops, DelayOver(l)
  PROVE  InferInv'
<1>1. l \in AliveLoops(pc) /\ LoopOn(l, batch) /\ batch \in SUBSET batch  BY DEF DelayOver, AliveLoops
<1> QED  BY <1>1, LoopOnKeeps

LEMMA CleanUpKeeps ==
  ASSUME InferInv, NEW l \in Loops, CleanUp(l)
  PROVE  InferInv'
<1>1. l \in AliveLoops(pc) /\ LoopOn(l, KeptInBatch)  BY DEF CleanUp, AliveLoops
<1>2. KeptInBatch \in SUBSET batch  BY DEF KeptInBatch
<1>3. \A r \in batch : outcome[r] = "none" => r \in KeptInBatch
  BY DEF KeptInBatch, InferInv, LineInv, SchedulerTypeOK, OverStates
<1> QED  BY <1>1, <1>2, <1>3, LoopOnKeeps

LEMMA PrefillDoneKeeps ==
  ASSUME InferInv, NEW l \in Loops, PrefillDone(l)
  PROVE  InferInv'
<1>1. RequestsTyped /\ RestTyped /\ LoopsTyped  BY TypesAre DEF InferInv
<1>2. /\ pc[l] = "prefill" /\ UNCHANGED <<line, batch, outcome, tokens, isRunning, backend, mixed>>
      /\ state' = [r \in Inferences |-> IF r \in work[l] THEN "DECODING" ELSE state[r]]
  BY DEF PrefillDone
<1>3. state' \in [Inferences ->
        {"none", "PENDING", "PREFILLING", "DECODING", "COMPLETED", "ERROR", "REFUSED"}]
  BY <1>1, <1>2 DEF RequestsTyped
<1>4. /\ steps' \in [Loops -> 0..MaxDecodeSteps - 1]
      /\ \E what \in {"decode", "returned"}, R \in SUBSET batch :
           Awaits(l, what, R) /\ (what = "decode" => \A r \in R : state'[r] = "DECODING")
  <2>1. CASE mixed[l]
    <3>1. DecodeStep(l, state', 0)  BY <2>1 DEF PrefillDone
    <3>2. 0 \in 0..MaxDecodeSteps /\ batch \subseteq Inferences /\ steps \in [Loops -> 0..MaxDecodeSteps - 1]
      BY <1>1, SchedulerAssumption DEF RequestsTyped, RestTyped
    <3> QED  BY <3>1, <3>2, DecodeStepIs
  <2>2. CASE ~mixed[l]
    <3>1. Awaits(l, "returned", {}) /\ UNCHANGED steps /\ {} \in SUBSET batch  BY <2>2 DEF PrefillDone
    <3> QED  BY <1>1, <3>1 DEF RestTyped
  <2> QED  BY <2>1, <2>2
<1>5. RestTyped'  BY <1>1, <1>2, <1>4 DEF RestTyped
<1>6. \A r \in Inferences : state'[r] = IF r \in work[l] THEN "DECODING" ELSE state[r]  BY <1>2
<1>7. PICK what \in {"decode", "returned"}, R \in SUBSET batch :
        Awaits(l, what, R) /\ (what = "decode" => \A r \in R : state'[r] = "DECODING")
  BY <1>4
<1>8. PICK E \in SUBSET work[l] : E = work[l]  OBVIOUS
<1>9. (\A r \in Inferences : state'[r] = IF r \in E THEN "DECODING" ELSE state[r]) /\ UNCHANGED outcome
  BY <1>2, <1>6, <1>8
<1> QED  BY <1>2, <1>3, <1>5, <1>7, <1>8, <1>9, StepOverKeeps

LEMMA BackendThrowsKeeps ==
  ASSUME InferInv, NEW l \in Loops, BackendThrows(l)
  PROVE  InferInv'
<1>1. RequestsTyped /\ RestTyped /\ LoopsTyped  BY TypesAre DEF InferInv
<1>2. PICK E \in SUBSET work[l] : E = work[l]  OBVIOUS
<1>3. /\ pc[l] \in {"prefill", "decode"} /\ UNCHANGED <<line, batch, tokens, isRunning, backend, mixed>>
      /\ state' = [r \in Inferences |-> IF r \in E THEN "ERROR" ELSE state[r]]
      /\ outcome' = SettledTo(E, "rejected")
      /\ Awaits(l, "returned", {}) /\ steps' = [steps EXCEPT ![l] = 0]
  BY <1>2 DEF BackendThrows, Blamed
<1>4. state' \in [Inferences ->
        {"none", "PENDING", "PREFILLING", "DECODING", "COMPLETED", "ERROR", "REFUSED"}]
  BY <1>1, <1>3 DEF RequestsTyped
<1>5. RestTyped'
  <2>1. MaxDecodeSteps \in Nat \ {0}  BY SchedulerAssumption
  <2>2. 0 \in 0..MaxDecodeSteps - 1  BY <2>1
  <2>3. steps' \in [Loops -> 0..MaxDecodeSteps - 1]  BY <1>1, <1>3, <2>2 DEF RestTyped
  <2> QED  BY <1>1, <1>3, <2>3 DEF RestTyped
<1>6. \A r \in Inferences : state'[r] = IF r \in E THEN "ERROR" ELSE state[r]  BY <1>3
<1>7. PICK what \in {"decode", "returned"}, R \in SUBSET batch :
        Awaits(l, what, R) /\ (what = "decode" => \A r \in R : state'[r] = "DECODING")
  <2>1. {} \in SUBSET batch  OBVIOUS
  <2> QED  BY <1>3, <2>1
<1> QED  BY <1>3, <1>4, <1>5, <1>6, <1>7, StepOverKeeps

LEMMA DecodeDoneKeeps ==
  ASSUME InferInv, NEW l \in Loops, NEW F \in SUBSET work[l], DecodeDone(l, F)
  PROVE  InferInv'
<1>1. RequestsTyped /\ RestTyped /\ LoopsTyped  BY TypesAre DEF InferInv
<1>2. PICK E \in SUBSET work[l] : E = F \cup {r \in work[l] : tokens'[r] = MaxTokens}  OBVIOUS
<1>3. /\ pc[l] = "decode" /\ UNCHANGED <<line, batch, isRunning, backend, mixed>>
      /\ state' = [r \in Inferences |-> IF r \in E THEN "COMPLETED" ELSE state[r]]
      /\ outcome' = SettledTo(E, "resolved")
      /\ DecodeStep(l, state', steps[l] + 1)
      /\ tokens' = [r \in Inferences |-> IF r \in work[l] THEN Min({tokens[r] + 1, MaxTokens}) ELSE tokens[r]]
  BY <1>2 DEF DecodeDone
<1>4. state' \in [Inferences ->
        {"none", "PENDING", "PREFILLING", "DECODING", "COMPLETED", "ERROR", "REFUSED"}]
  BY <1>1, <1>3 DEF RequestsTyped
<1>5. tokens' \in [Inferences -> 0..MaxTokens]
  <2>1. MaxTokens \in Nat  BY SchedulerAssumption
  <2>2. ASSUME NEW r \in Inferences PROVE Min({tokens[r] + 1, MaxTokens}) \in 0..MaxTokens
    <3>1. PICK a \in 0..MaxTokens : a = tokens[r]  BY <1>1 DEF RestTyped
    <3>2. a + 1 \in Int /\ MaxTokens \in Int /\ a + 1 \in Nat  BY <2>1
    <3>3. Min({a + 1, MaxTokens}) = IF a + 1 <= MaxTokens THEN a + 1 ELSE MaxTokens  BY <3>2, LesserOfTwo
    <3> QED  BY <2>1, <3>1, <3>2, <3>3
  <2>3. \A r \in Inferences : tokens[r] \in 0..MaxTokens  BY <1>1 DEF RestTyped
  <2> QED  BY <1>3, <2>2, <2>3
<1>6. /\ steps' \in [Loops -> 0..MaxDecodeSteps - 1]
      /\ \E what \in {"decode", "returned"}, R \in SUBSET batch :
           Awaits(l, what, R) /\ (what = "decode" => \A r \in R : state'[r] = "DECODING")
  <2>1. MaxDecodeSteps \in Nat \ {0} /\ batch \subseteq Inferences /\ steps \in [Loops -> 0..MaxDecodeSteps - 1]
    BY <1>1, SchedulerAssumption DEF RequestsTyped, RestTyped
  <2>2. PICK c \in 0..MaxDecodeSteps : c = steps[l] + 1
    <3>1. steps[l] \in 0..MaxDecodeSteps - 1  BY <2>1
    <3> QED  BY <2>1, <3>1
  <2>3. DecodeStep(l, state', c)  BY <1>3, <2>2
  <2> QED  BY <2>1, <2>3, DecodeStepIs
<1>7. RestTyped'  BY <1>1, <1>3, <1>5, <1>6 DEF RestTyped
<1>8. \A r \in Inferences : state'[r] = IF r \in E THEN "COMPLETED" ELSE state[r]  BY <1>3
<1>9. PICK what \in {"decode", "returned"}, R \in SUBSET batch :
        Awaits(l, what, R) /\ (what = "decode" => \A r \in R : state'[r] = "DECODING")
  BY <1>6
<1> QED  BY <1>3, <1>4, <1>7, <1>8, <1>9, StepOverKeeps

LEMMA InferSteps ==
  ASSUME InferInv, SchedulerNext \/ UNCHANGED schedulerVars
  PROVE  InferInv'
<1>1. ASSUME NEW r \in Inferences, SubmitInference(r) PROVE InferInv'  BY <1>1, SubmitInferenceKeeps
<1>2. ASSUME SetExecutionBackend \/ StopLoop \/ UNCHANGED schedulerVars PROVE InferInv'  BY <1>2, SwitchKeeps
<1>3. ASSUME NEW l \in Loops, StartLoop(l) PROVE InferInv'  BY <1>3, StartLoopKeeps
<1>4. ASSUME NEW l \in Loops, LoopStep(l) PROVE InferInv'
  BY <1>4, DelayOverKeeps, PrefillDoneKeeps, BackendThrowsKeeps, CleanUpKeeps, DecodeDoneKeeps DEF LoopStep
<1> QED  BY <1>1, <1>2, <1>3, <1>4 DEF SchedulerNext

LEMMA InferencesAreSound ==
  ASSUME InferInv
  PROVE  InferencesSound
<1>1. SchedulerTypeOK /\ LineInv  BY DEF InferInv
<1>2. NobodyLost
  <2> SUFFICES ASSUME NEW r \in Inferences, state[r] # "none", outcome[r] = "none"
               PROVE  (r \in ToSet(line)) # (r \in batch)
    BY DEF NobodyLost
  <2>1. r \in ToSet(line) <=> state[r] = "PENDING"
    <3>1. line \in Seq(Inferences)  BY <1>1 DEF SchedulerTypeOK
    <3> QED  BY <1>1, <3>1, InIsToSet DEF LineInv
  <2>2. state[r] \in {"PENDING", "PREFILLING", "DECODING"}  BY <1>1 DEF SchedulerTypeOK, LineInv, OverStates
  <2>3. r \in batch <=> state[r] # "PENDING"  BY <1>1, <2>2 DEF LineInv, InWork
  <2> QED  BY <2>1, <2>3
<1>3. StateIsTheAnswer  BY DEF InferInv, AnswersAre, StateIsTheAnswer
<1> QED  BY <1>1, <1>2, <1>3 DEF InferencesSound

(***************************************************************************)
(* The native engine.  What waits and what is active is each once, and as  *)
(* long as no id was there twice the order has the ids of the active       *)
(* requests, each once; the room for what this turn may still admit is     *)
(* there.                                                                  *)
(***************************************************************************)
(* Each of the ids loses its first place; with each once, all it has.      *)
LEMMA OrderWithoutIs ==
  ASSUME NEW s \in Seq(RequestIds), NEW ids, NEW t, t = OrderWithout(s, ids)
  PROVE  /\ t \in Seq(RequestIds) /\ Len(t) \in Nat /\ Len(t) <= Len(s)
         /\ Distinct(s) => Distinct(t) /\ \A x : In(x, t) <=> In(x, s) /\ x \notin ids
<1>1. PICK m \in Nat : m = Len(s) /\ DOMAIN s = 1..m  BY LenProperties
<1>2. PICK K : K = {k \in 1..m : s[k] \in ids => \E n \in 1..k - 1 : s[n] = s[k]}  OBVIOUS
<1>3. t = AtPlaces(s, K)  BY <1>1, <1>2 DEF OrderWithout
<1>4. t \in Seq(RequestIds) /\ SiftedTo(s, K, t)
  <2>1. ArePlaces(K, s)  BY <1>1, <1>2 DEF ArePlaces
  <2> QED  BY <1>3, <2>1, AtPlacesIs
<1>5. Len(t) \in Nat  BY <1>4, LenProperties
<1>6. ASSUME Distinct(s), NEW x PROVE In(x, t) <=> In(x, s) /\ x \notin ids
  <2>1. ASSUME NEW k \in 1..m PROVE k \in K <=> s[k] \notin ids
    <3>1. \A n \in 1..k - 1 : n \in 1..m /\ n # k  BY <1>1
    <3>2. \A n \in 1..k - 1 : s[n] # s[k]  BY <1>1, <1>6, <3>1 DEF Distinct
    <3> QED  BY <1>2, <3>2
  <2>2. In(x, t) <=> \E k \in K : s[k] = x  BY <1>4 DEF SiftedTo
  <2>3. K \subseteq 1..m  BY <1>2
  <2> QED  BY <1>1, <2>1, <2>2, <2>3 DEF In
<1>7. Len(t) <= Len(s) /\ (Distinct(s) => Distinct(t))  BY <1>4 DEF SiftedTo
<1> QED  BY <1>4, <1>5, <1>6, <1>7

PendingInv ==
  /\ Distinct(pendingRequests)
  /\ \A r \in Completions : life[r] = "pending" <=> In(r, pendingRequests)

RoomInv ==
  /\ BatchWithinSize /\ LoopAwake
  /\ turn = "admit" => budget <= Len(pendingRequests) /\ Len(activeOrder) + budget <= SchedulerBatch

(* While no id is shared.                                                  *)
IdsInv ==
  /\ \A r, k \in Completions :
       life[r] \in {"pending", "active"} /\ life[k] \in {"pending", "active"} /\ requestId[r] = requestId[k] => r = k
  /\ \A i \in RequestIds : \A r \in activeRequests[i] : life[r] = "active" /\ requestId[r] = i
  /\ \A r \in Completions : life[r] = "active" => activeRequests[requestId[r]] = {r}
  /\ Distinct(activeOrder)
  /\ \A i \in RequestIds : In(i, activeOrder) <=> \E r \in Completions : life[r] = "active" /\ requestId[r] = i

NativeInv == NativeTypeOK /\ PendingInv /\ RoomInv /\ (idShared \/ IdsInv)

LEMMA IdsAre ==
  ASSUME NativeTypeOK
  PROVE  \A r \in Completions : requestId[r] \in RequestIds
  BY NativeAssumption DEF NativeTypeOK

LEMMA NativeIsSound ==
  ASSUME NativeInv
  PROVE  NativeSound
<1>1. NativeTypeOK /\ BatchWithinSize /\ LoopAwake  BY DEF NativeInv, RoomInv
<1>2. ASSUME ~idShared
      PROVE  /\ \A i \in RequestIds : \A r \in activeRequests[i] : life[r] = "active"
             /\ Len(activeOrder) = Cardinality({r \in Completions : life[r] = "active"})
             /\ \A r \in Completions : life[r] = "active" =>
                  requestId[r] \in ToSet(activeOrder) /\ activeRequests[requestId[r]] = {r}
  <2>1. IdsInv  BY <1>2 DEF NativeInv
  <2>2. PICK s \in Seq(RequestIds) : s = activeOrder  BY <1>1 DEF NativeTypeOK
  <2>3. PICK m \in Nat : m = Len(s) /\ \A k \in 1..m : s[k] \in RequestIds  BY LenProperties
  <2>4. PICK A : A = {r \in Completions : life[r] = "active"}  OBVIOUS
  <2>5. PICK f : f = [k \in 1..m |-> CHOOSE r \in A : requestId[r] = s[k]]  OBVIOUS
  <2>6. \A k \in 1..m : \E r \in A : requestId[r] = s[k]  BY <2>1, <2>2, <2>3, <2>4 DEF IdsInv, In
  <2>7. \A k \in 1..m : f[k] \in A /\ requestId[f[k]] = s[k]  BY <2>5, <2>6
  <2>8. \A j, k \in 1..m : f[j] = f[k] => j = k
    <3> SUFFICES ASSUME NEW j \in 1..m, NEW k \in 1..m, f[j] = f[k] PROVE j = k  OBVIOUS
    <3>1. s[j] = s[k]  BY <2>7
    <3> QED  BY <2>1, <2>2, <2>3, <3>1 DEF IdsInv, Distinct
  <2>9. \A r \in A : \E k \in 1..m : f[k] = r
    <3> SUFFICES ASSUME NEW r \in A PROVE \E k \in 1..m : f[k] = r  OBVIOUS
    <3>1. r \in Completions /\ life[r] = "active"  BY <2>4
    <3>2. requestId[r] \in RequestIds  BY <1>1, <3>1, IdsAre
    <3>3. In(requestId[r], s)  BY <2>1, <2>2, <3>1, <3>2 DEF IdsInv
    <3>4. PICK k \in 1..m : s[k] = requestId[r]  BY <2>3, <3>3 DEF In
    <3>5. f[k] \in Completions /\ life[f[k]] = "active" /\ requestId[f[k]] = requestId[r]  BY <2>4, <2>7, <3>4
    <3>6. f[k] = r  BY <2>1, <3>1, <3>5 DEF IdsInv
    <3> QED  BY <3>6
  <2>10. PICK I : I = 1..m  OBVIOUS
  <2>11. IsFiniteSet(I) /\ Cardinality(I) = m  BY <2>10, FS_Interval
  <2>12. f \in Surjection(I, A) /\ f \in Injection(I, A)
    <3>1. f \in [I -> A]  BY <2>5, <2>7, <2>10
    <3> QED  BY <2>8, <2>9, <2>10, <3>1 DEF Surjection, Injection, IsInjective
  <2>13. Cardinality(A) = m  BY <2>11, <2>12, FS_Surjection
  <2>14. \A r \in Completions : life[r] = "active" => requestId[r] \in ToSet(activeOrder)
    <3>1. \A x : x \in ToSet(s) <=> In(x, s)  BY InIsToSet
    <3> QED  BY <1>1, <2>1, <2>2, <3>1, IdsAre DEF IdsInv
  <2> QED  BY <2>1, <2>2, <2>3, <2>4, <2>13, <2>14 DEF IdsInv
<1>3. OrderIsTheBatch  BY <1>2 DEF OrderIsTheBatch
<1> QED  BY <1>1, <1>3 DEF NativeSound

LEMMA NativeStarts ==
  ASSUME NativeInit
  PROVE  NativeInv
<1>1. \A S : <<>> \in Seq(S) /\ Len(<<>>) = 0  BY EmptySeq
<1>2. /\ pendingRequests = <<>> /\ activeOrder = <<>> /\ todo = <<>> /\ turn = "off" /\ budget = 0
      /\ requestId \in RequestIdChoices /\ idShared = FALSE /\ marked = {} /\ signalled = {}
  BY DEF NativeInit
<1>3. /\ \A r \in Completions : life[r] = "new"
      /\ \A i \in RequestIds : activeRequests[i] = {}
  BY DEF NativeInit
<1>4. SchedulerBatch \in Nat \ {0} /\ PrefillsPerTick \in Nat \ {0} /\ TokenLimit \in Nat \ {0}
  BY NativeAssumption
<1>5. NativeTypeOK
  <2>1. life \in [Completions -> {"new", "pending", "active"} \cup Ended]  BY DEF NativeInit
  <2>2. activeRequests \in [RequestIds -> SUBSET Completions]  BY DEF NativeInit
  <2>3. 0 \in 0..TokenLimit /\ 0 \in 0..PrefillsPerTick  BY <1>4
  <2>4. generated \in [Completions -> 0..TokenLimit]  BY <2>3 DEF NativeInit
  <2>5. pendingRequests \in Seq(Completions) /\ activeOrder \in Seq(RequestIds) /\ todo \in Seq(Completions)
    BY <1>1, <1>2
  <2>6. budget \in 0..PrefillsPerTick /\ idShared \in BOOLEAN  BY <1>2, <2>3
  <2>7. turn \in {"off", "queued", "waiting", "admit", "decode"}  BY <1>2
  <2> QED  BY <1>2, <2>1, <2>2, <2>4, <2>5, <2>6, <2>7 DEF NativeTypeOK
<1>6. Len(pendingRequests) = 0 /\ Len(activeOrder) = 0  BY <1>1, <1>2
<1>7. PendingInv  BY <1>3, <1>6 DEF PendingInv, Distinct, In
<1>8. RoomInv  BY <1>2, <1>4, <1>6 DEF RoomInv, BatchWithinSize, LoopAwake
<1>9. IdsInv  BY <1>3, <1>6 DEF IdsInv, Distinct, In
<1> QED  BY <1>5, <1>7, <1>8, <1>9 DEF NativeInv

LEMMA LengthsAre ==
  ASSUME NativeTypeOK
  PROVE  /\ Len(pendingRequests) \in Nat /\ Len(activeOrder) \in Nat /\ budget \in Nat
         /\ SchedulerBatch \in Nat \ {0} /\ PrefillsPerTick \in Nat \ {0} /\ TokenLimit \in Nat \ {0}
<1>1. pendingRequests \in Seq(Completions) /\ activeOrder \in Seq(RequestIds) /\ budget \in 0..PrefillsPerTick
  BY DEF NativeTypeOK
<1>2. Len(pendingRequests) \in Nat /\ Len(activeOrder) \in Nat  BY <1>1, LenProperties
<1> QED  BY <1>1, <1>2, NativeAssumption

LEMMA EmptyOrNot ==
  ASSUME NEW T, NEW s \in Seq(T)
  PROVE  s # <<>> <=> Len(s) > 0
<1>1. \A S : Len(<<>>) = 0  BY EmptySeq
<1>2. s # <<>> => Len(s) \in Nat \ {0}  BY EmptySeq
<1> QED  BY <1>1, <1>2

(* The batch, the order and the room are left alone, and the loop stays    *)
(* outside of a turn.                                                      *)
LEMMA EnqueueKeeps ==
  ASSUME NativeInv, NEW r \in Completions, EnqueueRequest(r)
  PROVE  NativeInv'
<1>1. NativeTypeOK /\ PendingInv /\ RoomInv  BY DEF NativeInv
<1>2. /\ turn \in {"off", "queued", "waiting"} /\ life[r] = "new"
      /\ life' = [life EXCEPT ![r] = "pending"]
      /\ pendingRequests' = Append(pendingRequests, r)
      /\ turn' = Ensured
      /\ UNCHANGED <<activeRequests, activeOrder, budget, todo, generated, marked, signalled, requestId>>
  BY DEF EnqueueRequest, Outside
<1>3. turn' \in {"queued", "waiting"}  BY <1>2 DEF Ensured
<1>4. life'[r] = "pending" /\ \A k \in Completions : k # r => life'[k] = life[k]  BY <1>1, <1>2 DEF NativeTypeOK
<1>5. PICK s, t : s = pendingRequests /\ t = pendingRequests'  OBVIOUS
<1>6. s \in Seq(Completions) /\ Distinct(s) /\ ~In(r, s)  BY <1>1, <1>2, <1>5 DEF NativeTypeOK, PendingInv
<1>7. /\ t \in Seq(Completions) /\ Len(t) = Len(s) + 1 /\ Len(s) \in Nat
      /\ t[Len(s) + 1] = r /\ \A k \in 1..Len(s) : t[k] = s[k]
  BY <1>2, <1>5, <1>6, AppendProperties, LenProperties
<1>8. Distinct(t) /\ \A x : In(x, t) <=> x = r \/ In(x, s)
  <2>1. PICK m \in Nat : m = Len(s)  BY <1>7
  <2>2. \A k \in 1..m + 1 : k \in 1..m \/ k = m + 1  OBVIOUS
  <2>3. \A k \in 1..m : k \in 1..m + 1 /\ s[k] # r  BY <1>6, <2>1 DEF In
  <2>4. Distinct(t)  BY <1>6, <1>7, <2>1, <2>2, <2>3 DEF Distinct
  <2>5. m + 1 \in 1..m + 1  OBVIOUS
  <2> QED  BY <1>7, <2>1, <2>2, <2>3, <2>4, <2>5 DEF In
<1>9. NativeTypeOK'
  <2>1. life' \in [Completions -> {"new", "pending", "active"} \cup Ended]  BY <1>1, <1>2 DEF NativeTypeOK
  <2>2. turn' \in {"off", "queued", "waiting", "admit", "decode"}  BY <1>3
  <2>3. idShared' \in BOOLEAN  BY <1>1 DEF EnqueueRequest, NativeTypeOK
  <2> QED  BY <1>1, <1>2, <1>5, <1>7, <2>1, <2>2, <2>3 DEF NativeTypeOK
<1>10. PendingInv'  BY <1>1, <1>4, <1>5, <1>8 DEF PendingInv
<1>11. RoomInv'  BY <1>1, <1>2, <1>3 DEF RoomInv, BatchWithinSize, LoopAwake
<1>12. ASSUME ~idShared' PROVE IdsInv'
  <2>1. ~idShared /\ \A k \in Completions : life[k] \in {"pending", "active"} => requestId[k] # requestId[r]
    BY <1>1, <1>12 DEF EnqueueRequest, NativeTypeOK
  <2>2. IdsInv  BY <2>1 DEF NativeInv
  <2>3. \A k \in Completions : life'[k] = "active" <=> life[k] = "active"  BY <1>2, <1>4
  <2>4. \A k \in Completions : life'[k] \in {"pending", "active"} => k = r \/ life[k] \in {"pending", "active"}
    BY <1>4
  <2>5. \A j, k \in Completions :
          life'[j] \in {"pending", "active"} /\ life'[k] \in {"pending", "active"} /\ requestId[j] = requestId[k]
            => j = k
    BY <2>1, <2>2, <2>4 DEF IdsInv
  <2>6. \A i \in RequestIds : \A k \in activeRequests[i] : k \in Completions  BY <1>1 DEF NativeTypeOK
  <2> QED  BY <1>2, <2>2, <2>3, <2>5, <2>6 DEF IdsInv
<1> QED  BY <1>9, <1>10, <1>11, <1>12 DEF NativeInv

LEMMA CallerLeavesKeeps ==
  ASSUME NativeInv, NEW r \in Completions, NEW bySignal \in BOOLEAN, CallerLeaves(r, bySignal)
  PROVE  NativeInv'
<1>1. NativeTypeOK /\ PendingInv /\ RoomInv  BY DEF NativeInv
<1>2. PICK i \in RequestIds : i = requestId[r]  BY <1>1, IdsAre
<1>3. /\ turn \in {"off", "queued", "waiting"} /\ CancelRequest(i)
      /\ signalled' \subseteq Completions
      /\ UNCHANGED <<activeRequests, activeOrder, budget, todo, generated, requestId, idShared>>
  BY <1>1, <1>2 DEF CallerLeaves, Outside, NativeTypeOK, idPart
<1>4. PICK s, t : s = pendingRequests /\ t = pendingRequests'  OBVIOUS
<1>5. PICK m \in Nat : m = Len(s) /\ \A k \in 1..m : s[k] \in Completions
  BY <1>1, <1>4, LenProperties DEF NativeTypeOK
<1>6. PICK I : I = {k \in 1..m : requestId[s[k]] = i}  OBVIOUS
<1>7. PICK at : at = IF I # {} THEN Min(I) ELSE 0  OBVIOUS
<1>8. \/ /\ at # 0
         /\ life' = [life EXCEPT ![s[at]] = "cancelled"]
         /\ pendingRequests' = RemoveAt(s, at)
         /\ UNCHANGED <<marked, turn>>
      \/ /\ at = 0
         /\ marked' = marked \cup activeRequests[i]
         /\ turn' = IF activeRequests[i] = {} THEN turn ELSE Ensured
         /\ UNCHANGED <<life, pendingRequests>>
  BY <1>3, <1>4, <1>5, <1>6, <1>7 DEF CancelRequest, SelectInSeq
<1>9. CASE at # 0
  <2>1. at \in 1..m
    <3>1. I # {} /\ I \subseteq 1..m /\ 1 \in Nat  BY <1>6, <1>7, <1>9
    <3>2. Min(I) \in I  BY <1>5, <3>1, ExtremesAre
    <3> QED  BY <1>7, <3>1, <3>2
  <2>2. PICK c \in Completions : c = s[at]  BY <1>5, <2>1
  <2>3. life' = [life EXCEPT ![c] = "cancelled"] /\ t = RemoveAt(s, at) /\ UNCHANGED <<marked, turn>>
    BY <1>4, <1>8, <1>9, <2>2
  <2>4. s \in Seq(Completions) /\ Distinct(s) /\ at \in 1..Len(s)
    BY <1>1, <1>4, <1>5, <2>1 DEF NativeTypeOK, PendingInv
  <2>5. t \in Seq(Completions) /\ Distinct(t) /\ \A x : In(x, t) <=> x # c /\ In(x, s)
    BY <2>2, <2>3, <2>4, RemovedHas
  <2>6. life[c] = "pending" /\ life'[c] = "cancelled" /\ \A k \in Completions : k # c => life'[k] = life[k]
    <3>1. In(c, s)  BY <1>5, <2>1, <2>2 DEF In
    <3> QED  BY <1>1, <1>4, <2>3, <3>1 DEF PendingInv, NativeTypeOK
  <2>7. NativeTypeOK'
    <3>1. life' \in [Completions -> {"new", "pending", "active"} \cup Ended]
      BY <1>1, <2>3 DEF NativeTypeOK, Ended
    <3> QED  BY <1>1, <1>3, <1>4, <2>3, <2>5, <3>1 DEF NativeTypeOK
  <2>8. PendingInv'  BY <1>1, <1>4, <2>5, <2>6 DEF PendingInv
  <2>9. s # <<>>
    <3>1. \A S : Len(<<>>) = 0  BY EmptySeq
    <3> QED  BY <1>5, <2>1, <3>1
  <2>10. RoomInv'  BY <1>1, <1>3, <1>4, <2>3, <2>9 DEF RoomInv, BatchWithinSize, LoopAwake
  <2>11. IdsInv => IdsInv'
    <3>1. \A i_1 \in RequestIds : \A k \in activeRequests[i_1] : k \in Completions  BY <1>1 DEF NativeTypeOK
    <3>2. \A k \in Completions : /\ life'[k] = "active" <=> life[k] = "active"
                                 /\ life'[k] \in {"pending", "active"} => life[k] \in {"pending", "active"}
      BY <2>6
    <3> QED  BY <1>3, <3>1, <3>2 DEF IdsInv
  <2> QED  BY <1>3, <2>7, <2>8, <2>10, <2>11 DEF NativeInv
<1>10. CASE at = 0
  <2>1. /\ marked' = marked \cup activeRequests[i] /\ turn' \in {turn, Ensured}
        /\ UNCHANGED <<life, pendingRequests>>
    BY <1>8, <1>10
  <2>2. turn' \in {"off", "queued", "waiting"} /\ (turn' = "off" => turn = "off")  BY <1>3, <2>1 DEF Ensured
  <2>3. NativeTypeOK'
    <3>1. marked' \subseteq Completions  BY <1>1, <2>1 DEF NativeTypeOK
    <3>2. turn' \in {"off", "queued", "waiting", "admit", "decode"}  BY <2>2
    <3> QED  BY <1>1, <1>3, <2>1, <3>1, <3>2 DEF NativeTypeOK
  <2>4. PendingInv' /\ (IdsInv => IdsInv')  BY <1>1, <1>3, <2>1 DEF PendingInv, IdsInv
  <2>5. RoomInv'  BY <1>1, <1>3, <2>1, <2>2 DEF RoomInv, BatchWithinSize, LoopAwake
  <2> QED  BY <1>3, <2>3, <2>4, <2>5 DEF NativeInv
<1> QED  BY <1>9, <1>10

(* The limit of a turn leaves the batch within its size.                   *)
LEMMA AdmitLimitIs ==
  ASSUME NativeTypeOK, BatchWithinSize
  PROVE  AdmitLimit \in 0..PrefillsPerTick /\ AdmitLimit <= Len(pendingRequests)
         /\ Len(activeOrder) + AdmitLimit <= SchedulerBatch
<1>1. PICK p, o, b, f \in Nat : /\ p = Len(pendingRequests) /\ o = Len(activeOrder)
                                /\ b = SchedulerBatch /\ f = PrefillsPerTick
  BY LengthsAre
<1>2. CASE o >= b  BY <1>1, <1>2 DEF AdmitLimit, BatchWithinSize
<1>3. CASE ~(o >= b)
  <2>1. PICK S : S = {f, p, b - o}  OBVIOUS
  <2>2. AdmitLimit = Min(S)  BY <1>1, <1>3, <2>1 DEF AdmitLimit
  <2>3. S \subseteq 0..f + p + b /\ S # {} /\ f + p + b \in Nat /\ 0 \in Nat  BY <1>1, <1>3, <2>1
  <2>4. Min(S) \in S /\ \A i \in S : Min(S) <= i  BY <2>3, ExtremesAre
  <2>5. Min(S) <= f /\ Min(S) <= p /\ Min(S) <= b - o /\ Min(S) \in Nat  BY <2>1, <2>3, <2>4
  <2>6. PICK n \in Nat : n = AdmitLimit /\ n <= f /\ n <= p /\ n <= b - o  BY <2>2, <2>5
  <2>7. n \in 0..f /\ o + n <= b  BY <1>1, <2>6
  <2> QED  BY <1>1, <2>6, <2>7
<1> QED  BY <1>1, <1>2, <1>3

LEMMA TurnBeginsKeeps ==
  ASSUME NativeInv, TurnBegins
  PROVE  NativeInv'
<1>1. NativeTypeOK /\ PendingInv /\ RoomInv  BY DEF NativeInv
<1>2. UNCHANGED <<pendingRequests, activeRequests, activeOrder, todo, life, generated,
                  marked, signalled, requestId, idShared>>
  BY DEF TurnBegins, idPart
<1>3. PendingInv' /\ (IdsInv => IdsInv')  BY <1>1, <1>2 DEF PendingInv, IdsInv
<1>4. CASE pendingRequests = <<>> /\ activeOrder = <<>>
  <2>1. turn' = "off" /\ UNCHANGED budget  BY <1>4 DEF TurnBegins
  <2>2. NativeTypeOK'  BY <1>1, <1>2, <2>1 DEF NativeTypeOK
  <2>3. RoomInv'  BY <1>1, <1>2, <1>4, <2>1 DEF RoomInv, BatchWithinSize, LoopAwake
  <2> QED  BY <1>2, <1>3, <2>2, <2>3 DEF NativeInv
<1>5. CASE ~(pendingRequests = <<>> /\ activeOrder = <<>>)
  <2>1. turn' = "admit" /\ budget' = AdmitLimit  BY <1>5 DEF TurnBegins
  <2>2. budget' \in 0..PrefillsPerTick /\ budget' <= Len(pendingRequests)
        /\ Len(activeOrder) + budget' <= SchedulerBatch
    BY <1>1, <2>1, AdmitLimitIs DEF RoomInv
  <2>3. NativeTypeOK'  BY <1>1, <1>2, <2>1, <2>2 DEF NativeTypeOK
  <2>4. RoomInv'  BY <1>1, <1>2, <2>1, <2>2 DEF RoomInv, BatchWithinSize, LoopAwake
  <2> QED  BY <1>2, <1>3, <2>3, <2>4 DEF NativeInv
<1> QED  BY <1>4, <1>5

LEMMA CycleEndsKeeps ==
  ASSUME NativeInv, CycleEnds \/ SkipOne \/ UNCHANGED nativeVars
  PROVE  NativeInv'
<1>1. NativeTypeOK /\ PendingInv /\ RoomInv  BY DEF NativeInv
<1>2. UNCHANGED <<pendingRequests, activeRequests, activeOrder, budget, life, generated,
                  marked, signalled, requestId, idShared>>
  BY DEF CycleEnds, SkipOne, nativeVars, loopPart, idPart
<1>3. turn' = turn \/ turn' = "waiting"  BY DEF CycleEnds, SkipOne, nativeVars, loopPart
<1>4. todo' \in Seq(Completions)
  <2>1. todo \in Seq(Completions)  BY <1>1 DEF NativeTypeOK
  <2>2. todo' = todo \/ (todo # <<>> /\ todo' = Tail(todo))  BY DEF CycleEnds, SkipOne, nativeVars, loopPart
  <2> QED  BY <2>1, <2>2, HeadTailProperties
<1>5. NativeTypeOK'
  <2>1. turn' \in {"off", "queued", "waiting", "admit", "decode"}  BY <1>1, <1>3 DEF NativeTypeOK
  <2> QED  BY <1>1, <1>2, <1>4, <2>1 DEF NativeTypeOK
<1>6. PendingInv' /\ (IdsInv => IdsInv')  BY <1>1, <1>2 DEF PendingInv, IdsInv
<1>7. RoomInv'  BY <1>1, <1>2, <1>3 DEF RoomInv, BatchWithinSize, LoopAwake
<1> QED  BY <1>2, <1>5, <1>6, <1>7 DEF NativeInv

LEMMA AppendedHas ==
  ASSUME NEW T, NEW s \in Seq(T), NEW e \in T, NEW t, t = Append(s, e)
  PROVE  /\ t \in Seq(T) /\ Len(t) \in Nat /\ Len(t) = Len(s) + 1 /\ \A x : In(x, t) <=> x = e \/ In(x, s)
         /\ Distinct(s) /\ ~In(e, s) => Distinct(t)
<1>1. PICK m \in Nat : m = Len(s)  BY LenProperties
<1>2. /\ t \in Seq(T) /\ Len(t) = m + 1 /\ t[m + 1] = e /\ \A k \in 1..m : t[k] = s[k]
  BY <1>1, AppendProperties
<1>3. (\A k \in 1..m + 1 : k \in 1..m \/ k = m + 1) /\ m + 1 \in 1..m + 1 /\ \A k \in 1..m : k \in 1..m + 1
  OBVIOUS
<1>4. ASSUME NEW x PROVE In(x, t) <=> x = e \/ In(x, s)  BY <1>1, <1>2, <1>3 DEF In
<1>5. ASSUME Distinct(s), ~In(e, s) PROVE Distinct(t)
  <2>1. \A k \in 1..m : s[k] # e  BY <1>1, <1>5 DEF In
  <2> QED  BY <1>1, <1>2, <1>3, <1>5, <2>1 DEF Distinct
<1> QED  BY <1>1, <1>2, <1>4, <1>5

LEMMA TailHas ==
  ASSUME NEW T, NEW s \in Seq(T), s # <<>>, Distinct(s), NEW t, t = Tail(s), NEW e, e = Head(s)
  PROVE  /\ t \in Seq(T) /\ e \in T /\ Len(s) \in Nat /\ Len(t) = Len(s) - 1 /\ Distinct(t)
         /\ In(e, s) /\ \A x : In(x, t) <=> x # e /\ In(x, s)
<1>1. PICK m \in Nat : m = Len(s)  BY LenProperties
<1>2. m > 0  BY <1>1, EmptyOrNot
<1>3. t \in Seq(T) /\ e \in T /\ e = s[1] /\ Len(t) = m - 1 /\ \A k \in 1..m - 1 : t[k] = s[k + 1]
  BY <1>1, HeadTailProperties
<1>4. (\A k \in 1..m - 1 : k + 1 \in 1..m /\ k + 1 # 1) /\ 1 \in 1..m  BY <1>2
<1>5. Distinct(t)
  <2> SUFFICES ASSUME NEW a \in 1..m - 1, NEW b \in 1..m - 1, t[a] = t[b] PROVE a = b  BY <1>3 DEF Distinct
  <2>1. a + 1 = b + 1  BY <1>1, <1>3, <1>4 DEF Distinct
  <2> QED  BY <2>1
<1>6. ASSUME NEW x PROVE In(x, t) <=> x # e /\ In(x, s)
  <2>1. ASSUME In(x, t) PROVE x # e /\ In(x, s)
    <3>1. PICK k \in 1..m - 1 : t[k] = x  BY <1>3, <2>1 DEF In
    <3> QED  BY <1>1, <1>3, <1>4, <3>1 DEF In, Distinct
  <2>2. ASSUME x # e, In(x, s) PROVE In(x, t)
    <3>1. PICK k \in 1..m : s[k] = x /\ k # 1  BY <1>1, <1>3, <2>2 DEF In
    <3>2. k - 1 \in 1..m - 1 /\ (k - 1) + 1 = k  BY <3>1
    <3> QED  BY <1>3, <3>1, <3>2 DEF In
  <2> QED  BY <2>1, <2>2
<1>7. In(e, s)  BY <1>1, <1>3, <1>4 DEF In
<1> QED  BY <1>1, <1>3, <1>5, <1>6, <1>7

LEMMA MapWithoutIs ==
  ASSUME NEW map \in [RequestIds -> SUBSET Completions], NEW ids, NEW m, m = MapWithout(map, ids)
  PROVE  /\ m \in [RequestIds -> SUBSET Completions]
         /\ \A i \in RequestIds : m[i] = IF i \in ids THEN {} ELSE map[i]
  BY DEF MapWithout

(* While no id is shared an admission takes an id that is not there, and a *)
(* failure takes it out again.                                             *)
LEMMA AdmitOneKeeps ==
  ASSUME NativeInv, AdmitOne
  PROVE  NativeInv'
<1>1. NativeTypeOK /\ PendingInv /\ RoomInv  BY DEF NativeInv
<1>2. PICK s, t, r : s = pendingRequests /\ t = pendingRequests' /\ r = Head(pendingRequests)  OBVIOUS
<1>3. PICK i : i = requestId[r]  OBVIOUS
<1>4. PICK map : map = [activeRequests EXCEPT ![i] = {r}]  OBVIOUS
<1>5. PICK o, p, q : o = activeOrder /\ p = Append(activeOrder, i) /\ q = activeOrder'  OBVIOUS
<1>6. PICK end : end = IF r \in signalled THEN "cancelled" ELSE "failed"  OBVIOUS
<1>7. /\ turn = "admit" /\ budget > 0 /\ budget' = budget - 1 /\ t = Tail(s)
      /\ \/ life' = [life EXCEPT ![r] = "active"] /\ activeRequests' = map /\ q = p
         \/ /\ life' = [life EXCEPT ![r] = end] /\ activeRequests' = MapWithout(map, {i})
            /\ q = OrderWithout(p, {i})
      /\ UNCHANGED <<turn, todo, generated, marked, signalled, requestId, idShared>>
  BY <1>2, <1>3, <1>4, <1>5, <1>6 DEF AdmitOne, Over, idPart
<1>8. s \in Seq(Completions) /\ Distinct(s) /\ o \in Seq(RequestIds)
  BY <1>1, <1>2, <1>5 DEF NativeTypeOK, PendingInv
<1>9. budget \in Nat /\ Len(s) \in Nat /\ Len(o) \in Nat /\ SchedulerBatch \in Nat /\ budget \in 0..PrefillsPerTick
      /\ budget <= Len(s) /\ Len(o) + budget <= SchedulerBatch
  BY <1>1, <1>2, <1>5, <1>7, LengthsAre DEF RoomInv, NativeTypeOK
<1>10. s # <<>>
  <2>1. Len(s) > 0  BY <1>7, <1>9
  <2> QED  BY <1>8, <2>1, EmptyOrNot
<1>11. /\ t \in Seq(Completions) /\ r \in Completions /\ Len(t) = Len(s) - 1 /\ Distinct(t)
       /\ In(r, s) /\ \A x : In(x, t) <=> x # r /\ In(x, s)
  <2>1. s \in Seq(Completions) /\ s # <<>> /\ Distinct(s) /\ t = Tail(s) /\ r = Head(s)
    BY <1>2, <1>7, <1>8, <1>10
  <2>2. /\ t \in Seq(Completions) /\ r \in Completions /\ Len(s) \in Nat /\ Len(t) = Len(s) - 1 /\ Distinct(t)
        /\ In(r, s) /\ \A x : In(x, t) <=> x # r /\ In(x, s)
    BY <2>1, TailHas
  <2> QED  BY <2>2
<1>12. i \in RequestIds /\ life[r] = "pending"  BY <1>1, <1>2, <1>3, <1>11, IdsAre DEF PendingInv
<1>13. /\ p \in Seq(RequestIds) /\ Len(p) \in Nat /\ Len(p) = Len(o) + 1 /\ \A x : In(x, p) <=> x = i \/ In(x, o)
       /\ Distinct(o) /\ ~In(i, o) => Distinct(p)
  BY <1>5, <1>8, <1>12, AppendedHas
<1>14. map \in [RequestIds -> SUBSET Completions] /\ map[i] = {r} /\ \A j \in RequestIds : j # i => map[j] = activeRequests[j]
  BY <1>1, <1>4, <1>11, <1>12 DEF NativeTypeOK
<1>15. /\ q \in Seq(RequestIds) /\ Len(q) \in Nat /\ Len(q) <= Len(o) + 1
       /\ activeRequests' \in [RequestIds -> SUBSET Completions]
       /\ \A j \in RequestIds : j # i => activeRequests'[j] = activeRequests[j]
  <2>1. CASE activeRequests' = map /\ q = p  BY <1>13, <1>14, <2>1
  <2>2. CASE activeRequests' = MapWithout(map, {i}) /\ q = OrderWithout(p, {i})
    <3>1. q \in Seq(RequestIds) /\ Len(q) \in Nat /\ Len(q) <= Len(p)  BY <1>13, <2>2, OrderWithoutIs
    <3>2. PICK m : m = activeRequests' /\ m = MapWithout(map, {i})  BY <2>2
    <3>3. m \in [RequestIds -> SUBSET Completions] /\ \A j \in RequestIds : m[j] = IF j \in {i} THEN {} ELSE map[j]
      BY <1>14, <3>2, MapWithoutIs
    <3> QED  BY <1>13, <1>14, <3>1, <3>2, <3>3
  <2> QED  BY <1>7, <2>1, <2>2
<1>16. /\ life' \in [Completions -> {"new", "pending", "active"} \cup Ended]
       /\ life'[r] \in {"active"} \cup Ended /\ \A k \in Completions : k # r => life'[k] = life[k]
  <2>1. end \in Ended  BY <1>6 DEF Ended
  <2> QED  BY <1>1, <1>7, <1>11, <2>1 DEF NativeTypeOK
<1>17. NativeTypeOK'
  <2>1. budget' \in 0..PrefillsPerTick
    <3>0. PrefillsPerTick \in Nat  BY NativeAssumption
    <3>1. PICK b, f \in Nat : b = budget /\ f = PrefillsPerTick /\ b > 0 /\ b <= f  BY <1>7, <1>9, <3>0
    <3>2. budget' = b - 1 /\ b - 1 \in 0..f  BY <1>7, <3>1
    <3> QED  BY <3>1, <3>2
  <2> QED  BY <1>1, <1>2, <1>5, <1>7, <1>11, <1>15, <1>16, <2>1 DEF NativeTypeOK
<1>18. PendingInv'  BY <1>1, <1>2, <1>11, <1>16 DEF PendingInv, Ended
<1>19. RoomInv'
  <2>1. /\ budget' <= Len(t) /\ Len(q) + budget' <= SchedulerBatch /\ Len(q) <= SchedulerBatch
    BY <1>7, <1>9, <1>11, <1>15
  <2> QED  BY <1>2, <1>5, <1>7, <2>1 DEF RoomInv, BatchWithinSize, LoopAwake
<1>20. ASSUME ~idShared PROVE IdsInv'
  <2>1. IdsInv  BY <1>20 DEF NativeInv
  <2>2. \A k \in Completions : life[k] \in {"pending", "active"} /\ requestId[k] = i => k = r
    BY <1>3, <1>11, <1>12, <2>1 DEF IdsInv
  <2>3. activeRequests[i] = {} /\ ~In(i, o)
    <3>1. \A k \in activeRequests[i] : k \in Completions /\ life[k] = "active" /\ requestId[k] = i
      BY <1>1, <1>12, <2>1 DEF IdsInv, NativeTypeOK
    <3>2. activeRequests[i] = {}  BY <1>12, <2>2, <3>1
    <3>3. ~In(i, o)  BY <1>5, <1>12, <2>1, <2>2 DEF IdsInv
    <3> QED  BY <3>2, <3>3
  <2>4. Distinct(o) /\ Distinct(p)  BY <1>5, <1>13, <2>1, <2>3 DEF IdsInv
  <2>5. \A j, k \in Completions :
          life'[j] \in {"pending", "active"} /\ life'[k] \in {"pending", "active"} /\ requestId[j] = requestId[k]
            => j = k
    <3>1. \A k \in Completions : life'[k] \in {"pending", "active"} => life[k] \in {"pending", "active"}
      BY <1>12, <1>16
    <3> QED  BY <2>1, <3>1 DEF IdsInv
  <2>6. \A j \in RequestIds : j # i =>
          /\ In(j, o) <=> \E k \in Completions : life'[k] = "active" /\ requestId[k] = j
          /\ \A k \in activeRequests'[j] : life'[k] = "active" /\ requestId[k] = j
    <3>1. \A k \in Completions : requestId[k] # i => k # r /\ life'[k] = life[k]  BY <1>3, <1>16
    <3>2. \A j \in RequestIds : \A k \in activeRequests[j] : k \in Completions  BY <1>1 DEF NativeTypeOK
    <3>3. \A j \in RequestIds : j # i => activeRequests'[j] = activeRequests[j]  BY <1>15
    <3>4. o = activeOrder /\ r \in Completions /\ requestId[r] = i  BY <1>3, <1>5, <1>11
    <3> QED  BY <2>1, <3>1, <3>2, <3>3, <3>4 DEF IdsInv
  <2>7. \A k \in Completions : k # r /\ life'[k] = "active" =>
          requestId[k] # i /\ activeRequests'[requestId[k]] = {k}
    <3> SUFFICES ASSUME NEW k \in Completions, k # r, life'[k] = "active"
                 PROVE  requestId[k] # i /\ activeRequests'[requestId[k]] = {k}
      OBVIOUS
    <3>1. life[k] = "active" /\ requestId[k] \in RequestIds  BY <1>1, <1>16, IdsAre
    <3>2. requestId[k] # i  BY <2>2, <3>1
    <3>3. activeRequests[requestId[k]] = {k}  BY <2>1, <3>1 DEF IdsInv
    <3> QED  BY <1>15, <3>1, <3>2, <3>3
  <2>8. CASE life' = [life EXCEPT ![r] = "active"] /\ activeRequests' = map /\ q = p
    <3>1. life'[r] = "active"  BY <1>1, <1>11, <2>8 DEF NativeTypeOK
    <3>2. activeRequests'[i] = {r} /\ requestId[r] = i  BY <1>3, <1>14, <2>8
    <3>3. \A k \in Completions : life'[k] = "active" => activeRequests'[requestId[k]] = {k}
      BY <2>7, <3>2
    <3>4. \A j \in RequestIds : \A k \in activeRequests'[j] : life'[k] = "active" /\ requestId[k] = j
      BY <2>6, <3>1, <3>2
    <3>5. \A j \in RequestIds : In(j, q) <=> \E k \in Completions : life'[k] = "active" /\ requestId[k] = j
      BY <1>11, <1>13, <2>6, <2>8, <3>1, <3>2
    <3>6. Distinct(q)  BY <2>4, <2>8
    <3> QED  BY <1>5, <1>7, <2>5, <3>3, <3>4, <3>5, <3>6 DEF IdsInv
  <2>9. CASE /\ life' = [life EXCEPT ![r] = end] /\ activeRequests' = MapWithout(map, {i})
             /\ q = OrderWithout(p, {i})
    <3>1. life'[r] # "active"  BY <1>1, <1>6, <1>11, <2>9 DEF NativeTypeOK
    <3>2. activeRequests'[i] = {}
      <4>1. PICK m : m = activeRequests' /\ m = MapWithout(map, {i})  BY <2>9
      <4>2. \A j \in RequestIds : m[j] = IF j \in {i} THEN {} ELSE map[j]  BY <1>14, <4>1, MapWithoutIs
      <4> QED  BY <1>12, <4>1, <4>2
    <3>3. Distinct(q) /\ \A x : In(x, q) <=> In(x, p) /\ x \notin {i}
      BY <1>13, <2>4, <2>9, OrderWithoutIs
    <3>4. \A k \in Completions : life'[k] = "active" => activeRequests'[requestId[k]] = {k} /\ requestId[k] # i
      BY <2>7, <3>1
    <3>5. \A j \in RequestIds : \A k \in activeRequests'[j] : life'[k] = "active" /\ requestId[k] = j
      BY <2>6, <3>2
    <3>6. \A j \in RequestIds : In(j, q) <=> \E k \in Completions : life'[k] = "active" /\ requestId[k] = j
      BY <1>13, <2>6, <3>3, <3>4
    <3> QED  BY <1>5, <1>7, <2>5, <3>3, <3>4, <3>5, <3>6 DEF IdsInv
  <2> QED  BY <1>7, <2>8, <2>9
<1> QED  BY <1>7, <1>17, <1>18, <1>19, <1>20 DEF NativeInv

(* A set of active requests is over: their ids leave the map and the order.*)
LEMMA WithoutKeepsIds ==
  ASSUME NativeTypeOK, IdsInv, NEW S \in SUBSET Completions, \A r \in S : life[r] = "active",
         NEW ids, ids = {requestId[r] : r \in S},
         requestId' = requestId,
         \A r \in S : life'[r] \in Ended,
         \A r \in Completions : r \notin S => life'[r] = life[r],
         activeRequests' = MapWithout(activeRequests, ids),
         activeOrder' = OrderWithout(activeOrder, ids)
  PROVE  IdsInv'
<1>1. PICK o, q, m, n : o = activeOrder /\ q = activeOrder' /\ m = activeRequests /\ n = activeRequests'  OBVIOUS
<1>2. o \in Seq(RequestIds) /\ Distinct(o) /\ m \in [RequestIds -> SUBSET Completions]
  BY <1>1 DEF NativeTypeOK, IdsInv
<1>3. Distinct(q) /\ \A x : In(x, q) <=> In(x, o) /\ x \notin ids
  <2>1. q = OrderWithout(o, ids)  BY <1>1
  <2> QED  BY <1>2, <2>1, OrderWithoutIs
<1>4. \A i \in RequestIds : n[i] = IF i \in ids THEN {} ELSE m[i]
  <2>1. n = MapWithout(m, ids)  BY <1>1
  <2> QED  BY <1>2, <2>1, MapWithoutIs
<1>5. \A r \in S : life'[r] # "active" /\ life'[r] # "pending"  BY DEF Ended
<1>6. \A r \in Completions : life'[r] \in {"pending", "active"} => r \notin S /\ life'[r] = life[r]  BY <1>5
<1>7. \A r \in Completions : r \notin S /\ life[r] = "active" => requestId[r] \notin ids
  <2> SUFFICES ASSUME NEW r \in Completions, r \notin S, life[r] = "active", requestId[r] \in ids PROVE FALSE
    OBVIOUS
  <2>1. PICK k \in S : requestId[k] = requestId[r]  OBVIOUS
  <2>2. k \in Completions /\ life[k] = "active"  OBVIOUS
  <2>3. k = r  BY <2>1, <2>2 DEF IdsInv
  <2> QED  BY <2>3
<1>8. \A r \in Completions : life'[r] = "active" <=> life[r] = "active" /\ requestId[r] \notin ids
  <2> SUFFICES ASSUME NEW r \in Completions
               PROVE  life'[r] = "active" <=> life[r] = "active" /\ requestId[r] \notin ids
    OBVIOUS
  <2>1. CASE r \in S  BY <1>5, <2>1
  <2>2. CASE r \notin S  BY <1>7, <2>2
  <2> QED  BY <2>1, <2>2
<1>9. \A j, k \in Completions :
        life'[j] \in {"pending", "active"} /\ life'[k] \in {"pending", "active"} /\ requestId[j] = requestId[k]
          => j = k
  <2>1. \A k \in Completions : life'[k] \in {"pending", "active"} => life[k] \in {"pending", "active"}  BY <1>6
  <2> QED  BY <2>1 DEF IdsInv
<1>10. \A i \in RequestIds : \A k \in n[i] : life'[k] = "active" /\ requestId[k] = i
  <2> SUFFICES ASSUME NEW i \in RequestIds, NEW k \in n[i] PROVE life'[k] = "active" /\ requestId[k] = i  OBVIOUS
  <2>1. i \notin ids /\ k \in m[i]  BY <1>4
  <2>2. k \in Completions /\ life[k] = "active" /\ requestId[k] = i  BY <1>1, <1>2, <2>1 DEF IdsInv
  <2> QED  BY <1>8, <2>1, <2>2
<1>11. \A r \in Completions : life'[r] = "active" => n[requestId[r]] = {r}
  <2> SUFFICES ASSUME NEW r \in Completions, life'[r] = "active" PROVE n[requestId[r]] = {r}  OBVIOUS
  <2>1. life[r] = "active" /\ requestId[r] \notin ids /\ requestId[r] \in RequestIds  BY <1>8, IdsAre
  <2>2. m[requestId[r]] = {r}  BY <1>1, <2>1 DEF IdsInv
  <2> QED  BY <1>4, <2>1, <2>2
<1>12. \A i \in RequestIds : In(i, q) <=> \E r \in Completions : life'[r] = "active" /\ requestId[r] = i
  <2> SUFFICES ASSUME NEW i \in RequestIds
               PROVE  In(i, q) <=> \E r \in Completions : life'[r] = "active" /\ requestId[r] = i
    OBVIOUS
  <2>1. In(i, o) <=> \E r \in Completions : life[r] = "active" /\ requestId[r] = i  BY <1>1 DEF IdsInv
  <2> QED  BY <1>3, <1>8, <2>1
<1> QED  BY <1>1, <1>3, <1>9, <1>10, <1>11, <1>12 DEF IdsInv

LEMMA EntriesAre ==
  ASSUME NEW map \in [RequestIds -> SUBSET Completions], NEW found \in Seq(RequestIds),
         NEW n, n = Len(found), \A k \in 1..n : map[found[k]] # {},
         NEW t, t = [k \in DOMAIN found |-> EntryOf(map, found[k])]
  PROVE  t \in Seq(Completions)
<1>1. n \in Nat /\ DOMAIN found = 1..n /\ \A k \in 1..n : found[k] \in RequestIds  BY LenProperties
<1>2. t = [k \in 1..n |-> EntryOf(map, found[k])]  BY <1>1
<1>3. \A k \in 1..n : t[k] \in Completions
  <2> SUFFICES ASSUME NEW k \in 1..n PROVE t[k] \in Completions  OBVIOUS
  <2>1. t[k] = EntryOf(map, found[k])  BY <1>2
  <2>2. t[k] \in map[found[k]]  BY <2>1 DEF EntryOf
  <2> QED  BY <1>1, <2>2
<1>4. t \in [1..n -> Completions]  BY <1>2, <1>3
<1> QED  BY <1>1, <1>4, SeqDef

(* What is decoded in this cycle is of the requests there are.             *)
LEMMA BatchIsOfRequests ==
  ASSUME NEW map \in [RequestIds -> SUBSET Completions], NEW order \in Seq(RequestIds),
         NEW found, found = AtPlaces(order, {k \in DOMAIN order : map[order[k]] # {}}),
         NEW t, t = [k \in DOMAIN found |-> EntryOf(map, found[k])]
  PROVE  t \in Seq(Completions)
<1>1. PICK m \in Nat : m = Len(order) /\ DOMAIN order = 1..m  BY LenProperties
<1>2. PICK K : K = {k \in 1..m : map[order[k]] # {}}  OBVIOUS
<1>3. found = AtPlaces(order, K)  BY <1>1, <1>2
<1>4. ArePlaces(K, order)  BY <1>1, <1>2 DEF ArePlaces
<1>5. found \in Seq(RequestIds) /\ SiftedTo(order, K, found)  BY <1>3, <1>4, AtPlacesIs
<1>6. PICK n : n = Len(found)  OBVIOUS
<1>7. \A k \in 1..n : map[found[k]] # {}
  <2> SUFFICES ASSUME NEW k \in 1..n PROVE map[found[k]] # {}  OBVIOUS
  <2>1. In(found[k], found)  BY <1>6 DEF In
  <2>2. PICK j \in K : order[j] = found[k]  BY <1>5, <2>1 DEF SiftedTo
  <2> QED  BY <1>2, <2>2
<1> QED  BY <1>5, <1>6, <1>7, EntriesAre

LEMMA BatchSelectedKeeps ==
  ASSUME NativeInv, BatchSelected
  PROVE  NativeInv'
<1>1. NativeTypeOK /\ PendingInv /\ RoomInv  BY DEF NativeInv
<1>2. PICK S : S = {r \in marked : life[r] = "active" /\ activeRequests[requestId[r]] = {r}}  OBVIOUS
<1>3. PICK ids : ids = {requestId[r] : r \in S}  OBVIOUS
<1>4. PICK m, n : m = activeRequests /\ n = MapWithout(activeRequests, ids)  OBVIOUS
<1>5. PICK o, q : o = activeOrder /\ q = OrderWithout(activeOrder, ids)  OBVIOUS
<1>6. PICK found : found = AtPlaces(q, {k \in DOMAIN q : n[q[k]] # {}})  OBVIOUS
<1>7. /\ turn = "admit" /\ budget = 0
      /\ life' = [r \in Completions |-> IF r \in S THEN "cancelled" ELSE life[r]]
      /\ activeRequests' = n /\ activeOrder' = q
      /\ todo' = [k \in DOMAIN found |-> EntryOf(n, found[k])]
      /\ turn' = TurnGoesOn(q)
      /\ UNCHANGED <<pendingRequests, budget, generated, marked, signalled, requestId, idShared>>
  BY <1>2, <1>3, <1>4, <1>5, <1>6 DEF BatchSelected, idPart
<1>8. S \in SUBSET Completions /\ \A r \in S : life[r] = "active"  BY <1>1, <1>2 DEF NativeTypeOK
<1>9. /\ \A r \in S : life'[r] = "cancelled"
      /\ \A r \in Completions : r \notin S => life'[r] = life[r]
      /\ life' \in [Completions -> {"new", "pending", "active"} \cup Ended]
  BY <1>1, <1>7, <1>8 DEF NativeTypeOK, Ended
<1>10. n \in [RequestIds -> SUBSET Completions]
  <2>1. m \in [RequestIds -> SUBSET Completions] /\ n = MapWithout(m, ids)  BY <1>1, <1>4 DEF NativeTypeOK
  <2> QED  BY <2>1, MapWithoutIs
<1>11. q \in Seq(RequestIds) /\ Len(q) \in Nat /\ Len(q) <= Len(o)
  <2>1. o \in Seq(RequestIds) /\ q = OrderWithout(o, ids)  BY <1>1, <1>5 DEF NativeTypeOK
  <2> QED  BY <2>1, OrderWithoutIs
<1>12. PICK t : t = todo'  OBVIOUS
<1>13. t \in Seq(Completions)
  <2>1. t = [k \in DOMAIN found |-> EntryOf(n, found[k])]  BY <1>7, <1>12
  <2> QED  BY <1>6, <1>10, <1>11, <2>1, BatchIsOfRequests
<1>14. turn' \in {"decode", "waiting", "off"} /\ (turn' = "off" => q = <<>> /\ pendingRequests = <<>>)
  BY <1>7 DEF TurnGoesOn
<1>15. NativeTypeOK'
  <2>1. turn' \in {"off", "queued", "waiting", "admit", "decode"}  BY <1>14
  <2> QED  BY <1>1, <1>7, <1>9, <1>10, <1>11, <1>12, <1>13, <2>1 DEF NativeTypeOK
<1>16. PendingInv'
  <2>1. \A r \in Completions : life'[r] = "pending" <=> life[r] = "pending"  BY <1>8, <1>9
  <2> QED  BY <1>1, <1>7, <2>1 DEF PendingInv
<1>17. RoomInv'
  <2>1. Len(q) <= SchedulerBatch
    <3>1. Len(o) \in Nat /\ SchedulerBatch \in Nat /\ Len(o) <= SchedulerBatch
      BY <1>1, <1>5, LengthsAre DEF RoomInv, BatchWithinSize
    <3> QED  BY <1>11, <3>1
  <2> QED  BY <1>1, <1>7, <1>14, <2>1 DEF RoomInv, BatchWithinSize, LoopAwake
<1>18. ASSUME ~idShared PROVE IdsInv'
  <2>1. IdsInv  BY <1>18 DEF NativeInv
  <2>2. \A r \in S : life'[r] \in Ended  BY <1>9 DEF Ended
  <2>3. activeRequests' = MapWithout(activeRequests, ids) /\ activeOrder' = OrderWithout(activeOrder, ids)
        /\ requestId' = requestId
    BY <1>4, <1>5, <1>7
  <2>4. \A r \in Completions : r \notin S => life'[r] = life[r]  BY <1>9
  <2> QED  BY <1>1, <1>3, <1>8, <2>1, <2>2, <2>3, <2>4, WithoutKeepsIds
<1> QED  BY <1>7, <1>15, <1>16, <1>17, <1>18 DEF NativeInv

LEMMA DecodeOneKeeps ==
  ASSUME NativeInv, DecodeOne
  PROVE  NativeInv'
<1>1. NativeTypeOK /\ PendingInv /\ RoomInv  BY DEF NativeInv
<1>2. PICK r, s, t : r = Head(todo) /\ s = todo /\ t = todo'  OBVIOUS
<1>3. /\ turn = "decode" /\ s # <<>> /\ life[r] = "active" /\ t = Tail(s)
      /\ UNCHANGED <<pendingRequests, turn, budget, marked, signalled, requestId, idShared>>
  BY <1>2 DEF DecodeOne, idPart
<1>4. t \in Seq(Completions) /\ r \in Completions
  <2>1. s \in Seq(Completions)  BY <1>1, <1>2 DEF NativeTypeOK
  <2> QED  BY <1>2, <1>3, <2>1, HeadTailProperties
<1>5. CASE /\ generated[r] + 1 < TokenLimit /\ generated' = [generated EXCEPT ![r] = @ + 1]
           /\ UNCHANGED <<life, activeRequests, activeOrder>>
  <2>1. generated' \in [Completions -> 0..TokenLimit]
    <3>1. TokenLimit \in Nat /\ generated \in [Completions -> 0..TokenLimit]  BY <1>1, NativeAssumption DEF NativeTypeOK
    <3>2. generated[r] + 1 \in 0..TokenLimit  BY <1>4, <1>5, <3>1
    <3> QED  BY <1>4, <1>5, <3>1, <3>2
  <2>2. NativeTypeOK'  BY <1>1, <1>2, <1>3, <1>4, <1>5, <2>1 DEF NativeTypeOK
  <2>3. PendingInv' /\ (IdsInv => IdsInv')  BY <1>1, <1>3, <1>5 DEF PendingInv, IdsInv
  <2>4. RoomInv'  BY <1>1, <1>3, <1>5 DEF RoomInv, BatchWithinSize, LoopAwake
  <2> QED  BY <1>3, <2>2, <2>3, <2>4 DEF NativeInv
<1>6. CASE UNCHANGED generated /\ \E end \in Ended : Over(r, end, activeRequests, activeOrder)
  <2>1. PICK end \in Ended : Over(r, end, activeRequests, activeOrder)  BY <1>6
  <2>2. PICK i \in RequestIds : i = requestId[r]  BY <1>1, <1>4, IdsAre
  <2>3. PICK ids : ids = {i}  OBVIOUS
  <2>4. PICK m, n, o, q : m = activeRequests /\ n = activeRequests' /\ o = activeOrder /\ q = activeOrder'  OBVIOUS
  <2>5. life' = [life EXCEPT ![r] = end] /\ n = MapWithout(m, ids) /\ q = OrderWithout(o, ids)
    BY <2>1, <2>2, <2>3, <2>4 DEF Over
  <2>6. /\ life'[r] \in Ended /\ \A k \in Completions : k # r => life'[k] = life[k]
        /\ life' \in [Completions -> {"new", "pending", "active"} \cup Ended]
    BY <1>1, <1>4, <2>1, <2>5 DEF NativeTypeOK
  <2>7. m \in [RequestIds -> SUBSET Completions] /\ o \in Seq(RequestIds)  BY <1>1, <2>4 DEF NativeTypeOK
  <2>8. n \in [RequestIds -> SUBSET Completions]  BY <2>5, <2>7, MapWithoutIs
  <2>9. q \in Seq(RequestIds) /\ Len(q) \in Nat /\ Len(q) <= Len(o)  BY <2>5, <2>7, OrderWithoutIs
  <2>10. NativeTypeOK'  BY <1>1, <1>2, <1>3, <1>4, <1>6, <2>4, <2>6, <2>8, <2>9 DEF NativeTypeOK
  <2>11. PendingInv'
    <3>1. \A k \in Completions : life'[k] = "pending" <=> life[k] = "pending"  BY <1>3, <2>6 DEF Ended
    <3> QED  BY <1>1, <1>3, <3>1 DEF PendingInv
  <2>12. RoomInv'
    <3>1. Len(o) \in Nat /\ SchedulerBatch \in Nat /\ Len(o) <= SchedulerBatch
      BY <1>1, <2>4, LengthsAre DEF RoomInv, BatchWithinSize
    <3>2. Len(q) <= SchedulerBatch  BY <2>9, <3>1
    <3> QED  BY <1>1, <1>3, <2>4, <3>2 DEF RoomInv, BatchWithinSize, LoopAwake
  <2>13. ASSUME ~idShared PROVE IdsInv'
    <3>1. IdsInv  BY <2>13 DEF NativeInv
    <3>2. PICK S : S = {r}  OBVIOUS
    <3>3. S \in SUBSET Completions /\ \A k \in S : life[k] = "active" /\ life'[k] \in Ended  BY <1>3, <1>4, <2>6, <3>2
    <3>4. ids = {requestId[k] : k \in S}  BY <2>2, <2>3, <3>2
    <3>5. \A k \in Completions : k \notin S => life'[k] = life[k]  BY <2>6, <3>2
    <3>6. activeRequests' = MapWithout(activeRequests, ids) /\ activeOrder' = OrderWithout(activeOrder, ids)
          /\ requestId' = requestId
      BY <1>3, <2>4, <2>5
    <3> QED  BY <1>1, <3>1, <3>3, <3>4, <3>5, <3>6, WithoutKeepsIds
  <2> QED  BY <1>3, <2>10, <2>11, <2>12, <2>13 DEF NativeInv
<1>8. \/ /\ generated[r] + 1 < TokenLimit /\ generated' = [generated EXCEPT ![r] = @ + 1]
         /\ UNCHANGED <<life, activeRequests, activeOrder>>
      \/ UNCHANGED generated /\ \E end \in Ended : Over(r, end, activeRequests, activeOrder)
  <2>1. PICK end : end = IF r \in signalled THEN "cancelled" ELSE "failed"  OBVIOUS
  <2>2. end \in Ended /\ "finished" \in Ended  BY <2>1 DEF Ended
  <2>3. \/ /\ generated[r] + 1 < TokenLimit /\ generated' = [generated EXCEPT ![r] = @ + 1]
           /\ UNCHANGED <<life, activeRequests, activeOrder>>
        \/ Over(r, "finished", activeRequests, activeOrder) /\ UNCHANGED generated
        \/ Over(r, end, activeRequests, activeOrder) /\ UNCHANGED generated
    BY <1>2, <2>1 DEF DecodeOne
  <2> QED  BY <2>2, <2>3
<1> QED  BY <1>5, <1>6, <1>8

LEMMA NativeSteps ==
  ASSUME NativeInv, NativeNext \/ UNCHANGED nativeVars
  PROVE  NativeInv'
<1>1. CASE \E r \in Completions : EnqueueRequest(r)  BY <1>1, EnqueueKeeps
<1>2. CASE \E r \in Completions : \E b \in BOOLEAN : CallerLeaves(r, b)  BY <1>2, CallerLeavesKeeps
<1>3. CASE TurnBegins  BY <1>3, TurnBeginsKeeps
<1>4. CASE AdmitOne  BY <1>4, AdmitOneKeeps
<1>5. CASE BatchSelected  BY <1>5, BatchSelectedKeeps
<1>6. CASE DecodeOne  BY <1>6, DecodeOneKeeps
<1>7. CASE CycleEnds \/ SkipOne \/ UNCHANGED nativeVars  BY <1>7, CycleEndsKeeps
<1> QED  BY <1>1, <1>2, <1>3, <1>4, <1>5, <1>6, <1>7 DEF NativeNext, LoopTurn

(* So does the delivery over a connection.                                 *)
LEMMA SsePart ==
  ASSUME [SchedulersNext]_parts
  PROVE  [DeliveryNext]_sseVars
BY DEF SchedulersNext, parts, answeringVars

(* What the readers of streamed answers get, chunks, blocks and frames on  *)
(* the wire, is well-formed, and complete but for the calls without        *)
(* arguments that Responses does not tell.                                 *)
THEOREM StreamsCorrect == SchedulersSpec => []StreamsSound
<1>1. SchedulersInit => ChatInv /\ RoundsInv /\ DeliveryInv
  BY ChatStart, RoundsStart, DeliveryStart DEF SchedulersInit
<1>2. ChatInv /\ RoundsInv /\ DeliveryInv /\ [SchedulersNext]_parts => (ChatInv /\ RoundsInv /\ DeliveryInv)'
  BY ChatPart, SsePart, ChatStep, RoundsStep, DeliveryStep
<1>3. ChatInv /\ RoundsInv /\ DeliveryInv => StreamsSound
  BY ChatIsSound DEF StreamsSound, DeliveryInv
<1> QED  BY <1>1, <1>2, <1>3, PTL DEF SchedulersSpec

LEMMA PartsBatchStep ==
  ASSUME [SchedulersNext]_parts
  PROVE  BatchNext \/ UNCHANGED batchVars
  BY DEF SchedulersNext, parts

LEMMA PartsSchedulerStep ==
  ASSUME [SchedulersNext]_parts
  PROVE  SchedulerNext \/ UNCHANGED schedulerVars
  BY DEF SchedulersNext, parts

LEMMA PartsNativeStep ==
  ASSUME [SchedulersNext]_parts
  PROVE  NativeNext \/ UNCHANGED nativeVars
  BY DEF SchedulersNext, parts

(* A job that starts leaves nobody behind who was to go first, for any     *)
(* jobs, ids, priorities and limits: drain takes the jobs from the head of *)
(* the queue, which submit and cancel keep in order.                       *)
THEOREM StartsInOrder == SchedulersSpec => StartsByPriority
<1>1. SchedulersInit => BatchInv  BY BatchStarts DEF SchedulersInit
<1>2. BatchInv /\ [SchedulersNext]_parts => BatchInv'  BY PartsBatchStep, BatchSteps, BatchStays
<1>3. BatchInv /\ [SchedulersNext]_parts =>
        [\A j, k \in BatchJobs :
           /\ job[j] = "waiting" /\ job'[j] = "running"
           /\ job'[k] = "waiting"
           => PriorityOf[k] <= PriorityOf[j]]_batchVars
  BY PartsBatchStep, BatchStartsInOrder
<1> QED  BY <1>1, <1>2, <1>3, PTL DEF SchedulersSpec, StartsByPriority

(* The queues, batches and maps of the three batchers agree with each      *)
(* other and with what became of the requests, for any requests, ids,      *)
(* priorities and limits.                                                  *)
THEOREM BatchersCorrect == SchedulersSpec => []BatchersSound
<1>1. SchedulersInit => BatchInv /\ InferInv /\ NativeInv
  BY BatchStarts, InferStarts, NativeStarts DEF SchedulersInit
<1>2. BatchInv /\ [SchedulersNext]_parts => BatchInv'  BY PartsBatchStep, BatchSteps, BatchStays
<1>3. InferInv /\ [SchedulersNext]_parts => InferInv'  BY PartsSchedulerStep, InferSteps
<1>4. NativeInv /\ [SchedulersNext]_parts => NativeInv'  BY PartsNativeStep, NativeSteps
<1>5. BatchInv /\ InferInv /\ NativeInv => BatchersSound
  BY BatchIsSound, InferencesAreSound, NativeIsSound DEF BatchersSound
<1> QED  BY <1>1, <1>2, <1>3, <1>4, <1>5, PTL DEF SchedulersSpec
=============================================================================
