-------------------------- MODULE BodyAdmissionProofs --------------------------
(* Proofs about BodyAdmission, for every cap, every Content-Length, every size of *)
(* a chunk and every number of events on the channel.                             *)
EXTENDS BodyAdmission, SequenceTheorems, WellFoundedInduction, TLAPS

-----------------------------------------------------------------------------
(* Type correctness.                                                            *)

LEMMA MessageTypes ==
    /\ Disconnected \in Messages /\ Unexpected \in Messages /\ NoMessage \in Messages
    /\ \A size \in Nat, more \in BOOLEAN : Request(size, more) \in Messages
  BY DEF Disconnected, Unexpected, NoMessage, Request, Messages

(* What is kept still fits, because the cap less what is held is what may come. *)
LEMMA JudgementFits ==
    ASSUME NEW message \in Messages, NEW held \in 0..Cap
    PROVE  /\ Judgement(message, held) \in {"hand_over", "fail", "too_large", "keep", "complete"}
           /\ Judgement(message, held) = "hand_over" <=> message.type = "http.disconnect"
           /\ Judgement(message, held) = "too_large" =>
                 message.type = "http.request" /\ held + message.size > Cap
           /\ Judgement(message, held) = "keep" =>
                 /\ message.type = "http.request" /\ message.more
                 /\ held + message.size \in 0..Cap
           /\ Judgement(message, held) = "complete" =>
                 /\ message.type = "http.request" /\ ~message.more
                 /\ held + message.size \in 0..Cap
  BY BodyAssumption DEF Judgement, Messages

LEMMA TypeInit == Init => TypeOK
  BY BodyAssumption, MessageTypes DEF Init, TypeOK

(* Every step keeps every variable in its type; the buffer stays within the cap. *)
LEMMA TypeStep == TypeOK /\ [Next]_vars => TypeOK'
<1> SUFFICES ASSUME TypeOK, [Next]_vars PROVE TypeOK'
  OBVIOUS
<1> USE DEF TypeOK, client, End
<1>1. CASE SendChunk
  <2> PICK size \in ChunkSizes, more \in BOOLEAN :
         /\ channel' = Append(channel, Request(size, more))
         /\ sent' = sent + size
         /\ upload' = IF more THEN "open" ELSE "complete"
    BY <1>1 DEF SendChunk
  <2>1. size \in Nat /\ Request(size, more) \in Messages
    BY BodyAssumption, MessageTypes
  <2> QED
    BY <1>1, <2>1, BodyAssumption DEF SendChunk
<1>2. CASE Disconnect
  BY <1>2, BodyAssumption, MessageTypes DEF Disconnect
<1>3. CASE Misbehave
  BY <1>3, BodyAssumption, MessageTypes DEF Misbehave
<1>4. CASE LimitIp
  BY <1>4 DEF LimitIp
<1>5. CASE MeasureDeclared
  <2>1. DeclaredVerdict(fields, Cap) \in {"accepted", "invalid_request", "payload_too_large"}
    BY DEF DeclaredVerdict
  <2> QED
    BY <1>5, <2>1 DEF MeasureDeclared
<1>6. CASE ReadEvent
  <2> DEFINE message == Head(channel)
             judgement == Judgement(message, buffered)
  <2>1. message \in Messages /\ Tail(channel) \in Seq(Messages)
    BY <1>6 DEF ReadEvent
  <2>2. channel' \in Seq(Messages)
    BY <1>6, <2>1 DEF ReadEvent, TakeEvent
  <2>3. buffered' \in 0..Cap
    BY <1>6, <2>1, JudgementFits, BodyAssumption DEF ReadEvent
  <2>4. admitted' \in Messages
    <3>1. CASE judgement = "complete"
      <4>1. buffered + message.size \in Nat
        BY <2>1, <3>1, JudgementFits, BodyAssumption
      <4> QED
        BY <1>6, <3>1, <4>1, MessageTypes DEF ReadEvent
    <3>2. CASE judgement = "hand_over"
      BY <1>6, <2>1, <3>2 DEF ReadEvent
    <3>3. CASE judgement \notin {"complete", "hand_over"}
      BY <1>6, <3>3 DEF ReadEvent
    <3> QED
      BY <3>1, <3>2, <3>3
  <2>5. /\ phase' \in {"reading", "application", "ended"}
        /\ answer' \in {answer, "payload_too_large", "aborted"}
    BY <1>6, <2>1, JudgementFits DEF ReadEvent
  <2> QED
    BY <1>6, <2>2, <2>3, <2>4, <2>5 DEF ReadEvent
<1>7. CASE ReceiveAdmitted
  <2>1. channel # <<>> => Head(channel) \in Messages /\ Tail(channel) \in Seq(Messages)
    OBVIOUS
  <2>2. channel' \in Seq(Messages) /\ delivered' \in Seq(Messages) /\ admitted' \in Messages
    <3>1. CASE admitted # NoMessage
      BY <1>7, <3>1, MessageTypes DEF ReceiveAdmitted
    <3>2. CASE admitted = NoMessage
      <4>1. channel # <<>> /\ delivered' = Append(delivered, Head(channel))
            /\ channel' \in {channel, Tail(channel)} /\ admitted' = admitted
        BY <1>7, <3>2 DEF ReceiveAdmitted, TakeEvent
      <4> QED
        BY <2>1, <4>1
    <3> QED
      BY <3>1, <3>2
  <2> QED
    BY <1>7, <2>2 DEF ReceiveAdmitted
<1>8. CASE Respond
  BY <1>8 DEF Respond
<1>9. CASE Cancel
  BY <1>9, BodyAssumption DEF Cancel
<1>10. CASE UNCHANGED vars
  BY <1>10 DEF vars
<1> QED
  BY <1>1, <1>2, <1>3, <1>4, <1>5, <1>6, <1>7, <1>8, <1>9, <1>10
     DEF Next, Handle, Finished, Stalled

(* The types of the middleware's state and of the channel it reads.              *)
THEOREM TypeCorrect == Spec => []TypeOK
  BY TypeInit, TypeStep, PTL DEF Spec

(* The buffer never exceeds max_request_body_bytes, and is empty before the loop *)
(* and after every way out of it, cancellation included.                         *)
THEOREM BufferReleased == Spec => []BufferBoundedAndReleased
<1> DEFINE Released == phase # "reading" => buffered = 0
<1>1. Init => Released
  BY DEF Init
<1>2. TypeOK /\ Released /\ [Next]_vars => Released'
  <2> SUFFICES ASSUME TypeOK, Released, [Next]_vars PROVE Released'
    OBVIOUS
  <2>1. CASE ReadEvent
    <3>1. Head(channel) \in Messages
      BY <2>1 DEF ReadEvent, TypeOK
    <3>2. Judgement(Head(channel), buffered)
            \in {"hand_over", "fail", "too_large", "keep", "complete"}
      BY <3>1, JudgementFits DEF TypeOK
    <3> QED
      BY <2>1, <3>2 DEF ReadEvent, End
  <2>2. CASE ~ReadEvent
    BY <2>2 DEF Next, Handle, SendChunk, Disconnect, Misbehave, LimitIp, MeasureDeclared,
            ReceiveAdmitted, Respond, Cancel, Finished, Stalled, End, vars, client
  <2> QED
    BY <2>1, <2>2
<1>3. TypeOK /\ Released => BufferBoundedAndReleased
  BY BodyAssumption DEF TypeOK, BufferBoundedAndReleased
<1> QED
  BY <1>1, <1>2, <1>3, TypeCorrect, PTL DEF Spec

-----------------------------------------------------------------------------
(* The body the application is given.                                           *)

Before == phase \in {"limiting", "measuring", "reading"}

IsBody(m) == m.type = "http.request"
IsLast(m) == IsBody(m) /\ ~m.more

(* The channel as the client filled it: nothing of a body follows its last      *)
(* chunk, and the server has one disconnect message.                            *)
Ordered ==
    \A i \in 1..Len(channel) :
        /\ channel[i].type = "http.disconnect" => channel[i] = Disconnected
        /\ IsLast(channel[i]) =>
             upload = "complete" /\ \A j \in i + 1..Len(channel) : ~IsBody(channel[j])

(* offset[i] bytes of the body were sent before the i-th event of the channel.   *)
Offsets(offset) ==
    /\ offset[1] = buffered
    /\ offset[Len(channel) + 1] = sent
    /\ \A i \in 1..Len(channel) : /\ offset[i + 1] = offset[i] + channel[i].size
                                  /\ offset[i + 1] <= sent
                                  /\ IsLast(channel[i]) => offset[i + 1] = sent

(* Until the loop ends, what is held and what is queued is what was sent.        *)
Accounted == Before => \E offset \in [1..Len(channel) + 1 -> Nat] : Offsets(offset)

Whole(m) == m = Request(sent, FALSE) /\ upload = "complete" /\ sent <= Cap

NoMoreBody == \A i \in 1..Len(channel) : ~IsBody(channel[i])

(* The application is handed the whole body or the disconnect, and after it      *)
(* nothing of a body.                                                            *)
Handed ==
    /\ Before => delivered = <<>> /\ admitted = NoMessage
    /\ phase = "application" =>
         \/ admitted = Disconnected /\ delivered = <<>>
         \/ admitted = NoMessage /\ delivered = <<Disconnected>>
         \/ Whole(admitted) /\ delivered = <<>> /\ NoMoreBody
         \/ admitted = NoMessage /\ delivered # <<>> /\ Whole(delivered[1]) /\ NoMoreBody

BodyInv == Ordered /\ Accounted /\ Handed /\ ParserSeesWholeBody

LEMMA BodyInit == Init => BodyInv
<1> SUFFICES ASSUME Init PROVE BodyInv
  OBVIOUS
<1>1. Offsets([i \in 1..1 |-> 0])
  BY DEF Init, Offsets
<1>2. Accounted
  BY <1>1 DEF Init, Accounted
<1> QED
  BY <1>2 DEF Init, BodyInv, Ordered, Handed, Before, ParserSeesWholeBody, Bodies

(* An event the client or the server adds to the channel.                        *)
LEMMA ArrivalStep ==
    ASSUME TypeOK, BodyInv, NEW m \in Messages, channel' = Append(channel, m),
           m.type = "http.disconnect" => m = Disconnected,
           IF IsBody(m) THEN upload = "open" ELSE m.size = 0,
           sent' = sent + m.size,
           upload = "complete" \/ IsLast(m) => upload' = "complete",
           UNCHANGED <<phase, buffered, admitted, delivered>>
    PROVE  BodyInv'
<1>1. /\ Len(channel) \in Nat /\ Len(channel') = Len(channel) + 1
      /\ \A i \in 1..Len(channel) : channel'[i] = channel[i] /\ channel[i] \in Messages
      /\ channel'[Len(channel) + 1] = m
  BY DEF TypeOK
<1>2. upload = "complete" => sent' = sent /\ ~IsBody(m)
  BY DEF TypeOK
<1>3. Ordered'
  <2> SUFFICES ASSUME NEW i \in 1..Len(channel) + 1
               PROVE  /\ channel'[i].type = "http.disconnect" => channel'[i] = Disconnected
                      /\ IsLast(channel'[i]) =>
                           /\ upload' = "complete"
                           /\ \A j \in i + 1..Len(channel) + 1 : ~IsBody(channel'[j])
    BY <1>1 DEF Ordered, IsLast, IsBody
  <2>1. CASE i = Len(channel) + 1
    BY <1>1, <2>1
  <2>2. CASE i \in 1..Len(channel)
    BY <1>1, <1>2, <2>2 DEF BodyInv, Ordered
  <2> QED
    BY <1>1, <2>1, <2>2
<1>4. Accounted'
  <2> SUFFICES ASSUME Before
               PROVE  \E offset \in [1..Len(channel') + 1 -> Nat] : Offsets(offset)'
    BY DEF Accounted, Before
  <2> PICK offset \in [1..Len(channel) + 1 -> Nat] : Offsets(offset)
    BY DEF BodyInv, Accounted
  <2> DEFINE n == Len(channel)
  <2>1. m.size \in Nat /\ sent \in Nat
    BY DEF Messages, TypeOK
  <2>2. PICK extended \in [1..n + 2 -> Nat] :
          \A i \in 1..n + 2 : extended[i] = IF i <= n + 1 THEN offset[i] ELSE sent + m.size
    <3> DEFINE f == [i \in 1..n + 2 |-> IF i <= n + 1 THEN offset[i] ELSE sent + m.size]
    <3>1. f \in [1..n + 2 -> Nat]
      BY <1>1, <2>1
    <3> QED
      BY <3>1
  <2>3. ASSUME NEW i \in 1..n + 1
        PROVE  /\ extended[i + 1] = extended[i] + channel'[i].size
               /\ extended[i + 1] <= sent'
               /\ IsLast(channel'[i]) => extended[i + 1] = sent'
    <3>1. CASE i = n + 1
      BY <1>1, <2>1, <2>2, <3>1 DEF Offsets
    <3>2. CASE i \in 1..n
      <4>1. /\ offset[i + 1] = offset[i] + channel[i].size /\ offset[i + 1] <= sent
            /\ IsLast(channel[i]) => offset[i + 1] = sent /\ upload = "complete"
        BY <3>2 DEF Offsets, BodyInv, Ordered
      <4>2. extended[i + 1] = offset[i + 1] /\ extended[i] = offset[i] /\ offset[i + 1] \in Nat
        BY <1>1, <2>2, <3>2
      <4> QED
        BY <1>1, <1>2, <2>1, <3>2, <4>1, <4>2
    <3> QED
      BY <1>1, <3>1, <3>2
  <2>4. extended[1] = buffered' /\ extended[n + 2] = sent'
    BY <1>1, <2>1, <2>2 DEF Offsets
  <2>5. /\ Len(channel') = n + 1
        /\ extended[1] = buffered' /\ extended[Len(channel') + 1] = sent'
        /\ \A i \in 1..Len(channel') : /\ extended[i + 1] = extended[i] + channel'[i].size
                                       /\ extended[i + 1] <= sent'
                                       /\ IsLast(channel'[i]) => extended[i + 1] = sent'
    BY <1>1, <2>3, <2>4
  <2>6. Offsets(extended)'
    BY <2>5 DEF Offsets, IsLast, IsBody
  <2> QED
    BY <1>1, <2>6
<1>5. Handed'
  <2>1. NoMoreBody /\ upload = "complete" => NoMoreBody'
    BY <1>1, <1>2 DEF NoMoreBody, IsBody
  <2>2. ASSUME NEW x, Whole(x) PROVE upload = "complete" /\ Whole(x)'
    BY <1>2, <2>2 DEF Whole
  <2> QED
    BY <2>1, <2>2 DEF BodyInv, Handed, Before, Whole
<1>6. ParserSeesWholeBody'
  BY <1>2 DEF BodyInv, ParserSeesWholeBody, Bodies
<1> QED
  BY <1>3, <1>4, <1>5, <1>6 DEF BodyInv

(* One turn of the loop: what is held grows by what it read, and a body is       *)
(* complete only when everything sent is held.                                   *)
LEMMA ReadStep == TypeOK /\ BodyInv /\ ReadEvent => BodyInv'
<1> SUFFICES ASSUME TypeOK, BodyInv, ReadEvent PROVE BodyInv'
  OBVIOUS
<1> DEFINE message == Head(channel)
           judgement == Judgement(message, buffered)
           n == Len(channel)
<1>1. /\ phase = "reading" /\ n \in Nat /\ n >= 1
      /\ message \in Messages /\ message = channel[1]
      /\ Tail(channel) \in Seq(Messages) /\ Len(Tail(channel)) = n - 1
      /\ \A i \in 1..n - 1 : Tail(channel)[i] = channel[i + 1]
      /\ channel' \in {channel, Tail(channel)}
      /\ UNCHANGED <<sent, upload, delivered>>
      /\ delivered = <<>> /\ admitted = NoMessage
  BY DEF ReadEvent, TypeOK, TakeEvent, BodyInv, Handed, Before
<1>2. buffered \in 0..Cap /\ Cap \in Nat /\ sent \in Nat
  BY BodyAssumption DEF TypeOK
<1>3. Ordered'
  <2>1. CASE channel' = channel
    BY <1>1, <2>1 DEF BodyInv, Ordered
  <2>2. CASE channel' = Tail(channel)
    <3> SUFFICES ASSUME NEW i \in 1..n - 1
                 PROVE  /\ channel'[i].type = "http.disconnect" => channel'[i] = Disconnected
                        /\ IsLast(channel'[i]) =>
                             /\ upload' = "complete"
                             /\ \A j \in i + 1..n - 1 : ~IsBody(channel'[j])
      BY <1>1, <2>2 DEF Ordered, IsLast, IsBody
    <3>1. i + 1 \in 1..n /\ channel'[i] = channel[i + 1]
          /\ \A j \in i + 1..n - 1 : j + 1 \in (i + 1) + 1..n /\ channel'[j] = channel[j + 1]
      BY <1>1, <2>2
    <3> QED
      BY <1>1, <3>1 DEF BodyInv, Ordered
  <2> QED
    BY <1>1, <2>1, <2>2
<1>4. PICK offset \in [1..n + 1 -> Nat] : Offsets(offset)
  BY <1>1 DEF BodyInv, Accounted, Before
<1>5. /\ offset[2] = buffered + message.size /\ offset[2] <= sent
      /\ IsLast(message) => offset[2] = sent
  BY <1>1, <1>4 DEF Offsets
<1>6. CASE judgement = "keep"
  <2>1. /\ message.type = "http.request" /\ message.more
        /\ phase' = phase /\ buffered' = buffered + message.size
        /\ admitted' = admitted /\ channel' = Tail(channel)
    BY <1>1, <1>2, <1>6, JudgementFits DEF ReadEvent, TakeEvent, Disconnected
  <2>2. Accounted'
    <3>1. PICK rest \in [1..n -> Nat] : \A i \in 1..n : rest[i] = offset[i + 1]
      <4> DEFINE f == [i \in 1..n |-> offset[i + 1]]
      <4>1. f \in [1..n -> Nat]
        BY <1>1
      <4> QED
        BY <4>1
    <3>2. rest[1] = buffered' /\ rest[n] = sent'
      BY <1>1, <1>4, <1>5, <2>1, <3>1 DEF Offsets
    <3>3. ASSUME NEW i \in 1..n - 1
          PROVE  /\ rest[i + 1] = rest[i] + channel'[i].size /\ rest[i + 1] <= sent'
                 /\ IsLast(channel'[i]) => rest[i + 1] = sent'
      <4>1. i + 1 \in 1..n /\ channel'[i] = channel[i + 1]
            /\ rest[i + 1] = offset[(i + 1) + 1] /\ rest[i] = offset[i + 1]
        BY <1>1, <2>1, <3>1
      <4> QED
        BY <1>1, <1>4, <4>1 DEF Offsets
    <3>4. Len(channel') + 1 = n /\ Len(channel') = n - 1
      BY <1>1, <2>1
    <3>5. Offsets(rest)'
      BY <3>2, <3>3, <3>4 DEF Offsets, IsLast, IsBody
    <3> QED
      BY <3>4, <3>5 DEF Accounted
  <2> QED
    BY <1>1, <1>3, <2>1, <2>2 DEF BodyInv, Handed, Before, ParserSeesWholeBody, Bodies
<1>7. CASE judgement = "complete"
  <2>1. /\ IsLast(message) /\ buffered + message.size <= Cap
        /\ phase' = "application" /\ admitted' = Request(buffered + message.size, FALSE)
        /\ channel' = Tail(channel)
    <3>1. /\ message.type = "http.request" /\ ~message.more
          /\ buffered + message.size \in 0..Cap
      BY <1>1, <1>2, <1>7, JudgementFits
    <3>2. channel' = Tail(channel)
      BY <3>1 DEF ReadEvent, TakeEvent, Disconnected
    <3> QED
      BY <1>2, <1>7, <3>1, <3>2 DEF ReadEvent, IsLast, IsBody
  <2>2. Whole(admitted)'
    <3>1. upload = "complete"
      BY <1>1, <2>1 DEF BodyInv, Ordered
    <3>2. sent = buffered + message.size
      BY <1>5, <2>1
    <3> QED
      BY <1>1, <2>1, <3>1, <3>2 DEF Whole
  <2>3. NoMoreBody'
    <3>1. \A j \in 1 + 1..n : ~IsBody(channel[j])
      BY <1>1, <2>1 DEF BodyInv, Ordered
    <3>2. \A i \in 1..n - 1 : i + 1 \in 1 + 1..n /\ channel'[i] = channel[i + 1]
      BY <1>1, <2>1
    <3> QED
      BY <1>1, <2>1, <3>1, <3>2 DEF NoMoreBody, IsBody
  <2> QED
    BY <1>1, <1>3, <2>1, <2>2, <2>3
       DEF BodyInv, Handed, Accounted, Before, ParserSeesWholeBody, Bodies
<1>8. CASE judgement = "hand_over"
  <2>1. message = Disconnected
    BY <1>1, <1>2, <1>8, JudgementFits DEF BodyInv, Ordered
  <2>2. phase' = "application" /\ admitted' = Disconnected
    BY <1>8, <2>1 DEF ReadEvent
  <2> QED
    BY <1>1, <1>3, <2>2 DEF BodyInv, Handed, Accounted, Before, ParserSeesWholeBody, Bodies
<1>9. CASE judgement \in {"too_large", "fail"}
  <2>1. phase' = "ended"
    BY <1>9 DEF ReadEvent, End
  <2> QED
    BY <1>1, <1>3, <2>1 DEF BodyInv, Handed, Accounted, Before, ParserSeesWholeBody, Bodies
<1> QED
  BY <1>1, <1>2, <1>6, <1>7, <1>8, <1>9, JudgementFits

(* receive_admitted: once the message, then the rest of the channel.             *)
LEMMA ReceiveStep == TypeOK /\ BodyInv /\ ReceiveAdmitted => BodyInv'
<1> SUFFICES ASSUME TypeOK, BodyInv, ReceiveAdmitted PROVE BodyInv'
  OBVIOUS
<1> DEFINE n == Len(channel)
<1>1. phase = "application" /\ UNCHANGED <<phase, sent, upload, buffered>>
      /\ n \in Nat /\ Len(delivered) \in Nat
  BY DEF ReceiveAdmitted, TypeOK
<1>2. CASE admitted # NoMessage
  <2>1. delivered' = Append(delivered, admitted) /\ admitted' = NoMessage /\ channel' = channel
    BY <1>2 DEF ReceiveAdmitted
  <2>2. delivered = <<>> /\ delivered' = <<admitted>>
    <3>1. delivered = <<>>
      BY <1>1, <1>2 DEF BodyInv, Handed
    <3> QED
      BY <2>1, <3>1
  <2>3. Ordered' /\ Accounted'
    BY <1>1, <2>1 DEF BodyInv, Ordered, Accounted, Before
  <2>4. CASE admitted = Disconnected
    <3>1. Handed'
      BY <1>1, <2>1, <2>2, <2>4 DEF Handed, Before
    <3>2. Bodies' = {}
      BY <2>2, <2>4 DEF Bodies, Disconnected
    <3> QED
      BY <2>3, <3>1, <3>2 DEF BodyInv, ParserSeesWholeBody
  <2>5. CASE Whole(admitted) /\ NoMoreBody
    <3>1. NoMoreBody' /\ delivered' # <<>> /\ delivered'[1] = admitted
      BY <2>1, <2>2, <2>5 DEF NoMoreBody, IsBody
    <3>2. Handed'
      BY <1>1, <2>1, <2>5, <3>1 DEF Handed, Before, Whole
    <3>3. \A i \in Bodies' : i = 1
      BY <2>2 DEF Bodies
    <3> QED
      BY <1>1, <2>3, <2>5, <3>1, <3>2, <3>3 DEF BodyInv, ParserSeesWholeBody, Whole
  <2> QED
    BY <1>1, <1>2, <2>4, <2>5 DEF BodyInv, Handed
<1>3. CASE admitted = NoMessage
  <2> DEFINE m == Head(channel)
  <2>1. /\ channel # <<>> /\ delivered' = Append(delivered, m) /\ admitted' = admitted
        /\ channel' \in {channel, Tail(channel)}
        /\ delivered[Len(delivered)] # Disconnected
    BY <1>3 DEF ReceiveAdmitted, TakeEvent
  <2>2. NoMoreBody /\ delivered # <<>> /\ Whole(delivered[1])
    <3>1. Disconnected # NoMessage /\ ~Whole(NoMessage)
      BY DEF Disconnected, NoMessage, Whole, Request
    <3>2. delivered = <<Disconnected>> => delivered[Len(delivered)] = Disconnected
      OBVIOUS
    <3> QED
      BY <1>1, <1>3, <2>1, <3>1, <3>2 DEF BodyInv, Handed
  <2>3. /\ n >= 1 /\ m = channel[1] /\ ~IsBody(m)
        /\ Tail(channel) \in Seq(Messages) /\ Len(Tail(channel)) = n - 1
        /\ \A i \in 1..n - 1 : Tail(channel)[i] = channel[i + 1]
    BY <1>1, <2>1, <2>2 DEF NoMoreBody, TypeOK
  <2>4. NoMoreBody'
    <3>1. CASE channel' = channel
      BY <2>2, <3>1 DEF NoMoreBody, IsBody
    <3>2. CASE channel' = Tail(channel)
      <4>1. \A i \in 1..n - 1 : i + 1 \in 1..n /\ channel'[i] = channel[i + 1]
        BY <1>1, <2>3, <3>2
      <4> QED
        BY <2>2, <2>3, <3>2, <4>1 DEF NoMoreBody, IsBody
    <3> QED
      BY <2>1, <3>1, <3>2
  <2>5. Ordered'
    <3>1. CASE channel' = channel
      BY <1>1, <3>1 DEF BodyInv, Ordered
    <3>2. CASE channel' = Tail(channel)
      <4>1. \A i \in 1..n - 1 : i + 1 \in 1..n /\ channel'[i] = channel[i + 1]
        BY <1>1, <2>3, <3>2
      <4>2. \A i \in 1..Len(channel') : ~IsLast(channel'[i])
        BY <2>4 DEF NoMoreBody, IsLast, IsBody
      <4>3. \A i \in 1..Len(channel') :
              channel'[i].type = "http.disconnect" => channel'[i] = Disconnected
        BY <2>3, <3>2, <4>1 DEF BodyInv, Ordered
      <4> QED
        BY <4>2, <4>3 DEF Ordered, IsLast, IsBody
    <3> QED
      BY <2>1, <3>1, <3>2
  <2>6. /\ Len(delivered') = Len(delivered) + 1 /\ delivered' # <<>>
        /\ delivered'[1] = delivered[1] /\ Len(delivered) >= 1
        /\ \A i \in 1..Len(delivered) : delivered'[i] = delivered[i]
        /\ delivered'[Len(delivered) + 1] = m
    BY <1>1, <2>1, <2>2, <2>3 DEF TypeOK
  <2>7. ParserSeesWholeBody'
    <3>1. Bodies' = Bodies
      BY <1>1, <2>3, <2>6 DEF Bodies, IsBody
    <3> QED
      BY <1>1, <2>6, <3>1 DEF BodyInv, ParserSeesWholeBody, Bodies
  <2>8. Handed'
    BY <1>1, <1>3, <2>1, <2>2, <2>4, <2>6 DEF Handed, Before, Whole
  <2>9. Accounted'
    BY <1>1 DEF Accounted, Before
  <2> QED
    BY <2>5, <2>7, <2>8, <2>9 DEF BodyInv
<1> QED
  BY <1>2, <1>3

LEMMA BodyStep == TypeOK /\ BodyInv /\ [Next]_vars => BodyInv'
<1> SUFFICES ASSUME TypeOK, BodyInv, [Next]_vars PROVE BodyInv'
  OBVIOUS
<1>1. CASE SendChunk
  <2> PICK size \in ChunkSizes, more \in BOOLEAN :
         /\ channel' = Append(channel, Request(size, more))
         /\ sent' = sent + size
         /\ upload' = IF more THEN "open" ELSE "complete"
    BY <1>1 DEF SendChunk
  <2> DEFINE m == Request(size, more)
  <2>1. m \in Messages /\ m.size = size /\ IsBody(m) /\ m.type # "http.disconnect"
        /\ (IsLast(m) <=> ~more)
    BY BodyAssumption DEF Request, Messages, IsBody, IsLast
  <2>2. upload = "open" /\ UNCHANGED <<phase, buffered, admitted, delivered>>
    BY <1>1 DEF SendChunk
  <2> HIDE DEF m
  <2> QED
    BY <2>1, <2>2, ArrivalStep DEF m
<1>2. CASE Disconnect
  <2>1. Disconnected.size = 0 /\ ~IsBody(Disconnected) /\ ~IsLast(Disconnected)
    BY DEF Disconnected, IsBody, IsLast
  <2>2. sent' = sent + 0
    BY <1>2 DEF Disconnect, TypeOK
  <2> QED
    BY <1>2, <2>1, <2>2, MessageTypes, ArrivalStep DEF Disconnect
<1>3. CASE Misbehave
  <2>1. Unexpected.size = 0 /\ ~IsBody(Unexpected) /\ ~IsLast(Unexpected)
        /\ Unexpected.type # "http.disconnect"
    BY DEF Unexpected, IsBody, IsLast
  <2>2. sent' = sent + 0
    BY <1>3 DEF Misbehave, TypeOK
  <2> QED
    BY <1>3, <2>1, <2>2, MessageTypes, ArrivalStep DEF Misbehave
<1>4. CASE ReadEvent
  BY <1>4, ReadStep
<1>5. CASE ReceiveAdmitted
  BY <1>5, ReceiveStep
<1>6. CASE LimitIp \/ MeasureDeclared \/ Respond \/ Cancel \/ UNCHANGED vars
  <2>1. UNCHANGED <<channel, sent, upload, admitted, delivered>>
    BY <1>6 DEF LimitIp, MeasureDeclared, Respond, Cancel, vars, client
  <2>2. CASE UNCHANGED <<phase, buffered>>
    BY <2>1, <2>2 DEF BodyInv, Ordered, Accounted, Offsets, Handed, Before, Whole, NoMoreBody,
                      ParserSeesWholeBody, Bodies
  <2>3. CASE phase' = "ended"
    BY <2>1, <2>3 DEF BodyInv, Ordered, Accounted, Handed, Before, ParserSeesWholeBody, Bodies
  <2>4. CASE Before /\ Before' /\ UNCHANGED buffered
    BY <2>1, <2>4 DEF BodyInv, Ordered, Accounted, Offsets, Handed, Before,
                      ParserSeesWholeBody, Bodies
  <2> QED
    BY <1>6, <2>2, <2>3, <2>4
       DEF LimitIp, MeasureDeclared, Respond, Cancel, vars, client, End, Before
<1> QED
  BY <1>1, <1>2, <1>3, <1>4, <1>5, <1>6 DEF Next, Handle, Finished, Stalled

LEMMA BodyInvariant == Spec => []BodyInv
  BY BodyInit, BodyStep, TypeCorrect, PTL DEF Spec

(* The parser sees the client's whole body once, or nothing: for every cap and   *)
(* every interleaving of chunks, disconnects and cancellations with the loop of  *)
(* _BodySizeAndIpRateLimitMiddleware.                                            *)
THEOREM ParserGetsWholeBody == Spec => []ParserSeesWholeBody
<1>1. BodyInv => ParserSeesWholeBody
  BY DEF BodyInv
<1> QED
  BY <1>1, BodyInvariant, PTL

-----------------------------------------------------------------------------
(* Induction.                                                                   *)

(* The induction theorems of the library take an operator; here a set stands for  *)
(* it, and the order of the naturals is well founded by NatLessThanWellFounded.   *)
LEMMA LeastElement ==
    ASSUME NEW S \in SUBSET Nat, S # {}
    PROVE  \E m \in S : \A n \in S : m <= n
<1> DEFINE R == OpToRel(<, Nat)
<1>1. IsWellFoundedOn(R, Nat)
  BY NatLessThanWellFounded
<1>2. \A x, y \in Nat : <<y, x>> \in R <=> y < x
  BY DEF OpToRel
<1> HIDE DEF R
<1>3. PICK m \in S : \A n \in S : ~(<<n, m>> \in R)
  BY <1>1, WFMin
<1>4. m \in Nat /\ \A n \in S : n \in Nat
  OBVIOUS
<1>5. \A n \in S : ~(n < m)
  BY <1>2, <1>3, <1>4, Zenon
<1> QED
  BY <1>4, <1>5

(* Complete induction: S holds every number whose predecessors it holds.          *)
LEMMA Induction ==
    ASSUME NEW S, \A n \in Nat : (\A m \in 0..n - 1 : m \in S) => n \in S
    PROVE  Nat \subseteq S
<1> SUFFICES ASSUME Nat \ S # {} PROVE FALSE
  OBVIOUS
<1>1. Nat \ S \in SUBSET Nat
  OBVIOUS
<1>2. PICK n \in Nat \ S : \A m \in Nat \ S : n <= m
  BY <1>1, LeastElement
<1>3. \A m \in 0..n - 1 : m \in S
  BY <1>2
<1> QED
  BY <1>2, <1>3

-----------------------------------------------------------------------------
(* The digits of a number.                                                      *)

(* The numbers that the beginnings of a sequence of digits denote.               *)
Digits == 0..9

Numbers(v, p) ==
    /\ p \in [0..Len(v) -> Nat]
    /\ p[0] = 0
    /\ \A i \in 1..Len(v) : p[i] = 10 * p[i - 1] + v[i]

LEMMA DigitAt ==
    ASSUME NEW v \in Seq(Digits), NEW i \in 1..Len(v)
    PROVE  v[i] \in 0..9
  BY DEF Digits

LEMMA NextNumber ==
    ASSUME NEW x \in Nat, NEW d \in 0..9
    PROVE  10 * x + d \in Nat
  OBVIOUS

LEMMA NumbersExist ==
    ASSUME NEW v \in Seq(Digits)
    PROVE  \E p : Numbers(v, p)
<1> PICK n \in Nat : n = Len(v)
  OBVIOUS
<1>0. \A i \in 1..n : v[i] \in 0..9
  BY DigitAt
<1> DEFINE Upto(k) == \E p \in [0..k -> Nat] :
                         p[0] = 0 /\ \A i \in 1..k : p[i] = 10 * p[i - 1] + v[i]
           S == {k \in Nat : k <= n => Upto(k)}
<1>1. ASSUME NEW k \in Nat, \A m \in 0..k - 1 : m \in S PROVE k \in S
  <2> SUFFICES ASSUME k <= n PROVE Upto(k)
    OBVIOUS
  <2>1. CASE k = 0
    <3> DEFINE p == [i \in 0..0 |-> 0]
    <3>1. p \in [0..k -> Nat] /\ p[0] = 0 /\ \A i \in 1..k : p[i] = 10 * p[i - 1] + v[i]
      BY <2>1
    <3> QED
      BY <3>1
  <2>2. CASE k # 0
    <3>1. k - 1 \in 0..k - 1 /\ k - 1 <= n
      BY <2>2
    <3>2. Upto(k - 1)
      BY <1>1, <3>1
    <3>3. PICK p \in [0..k - 1 -> Nat] :
             p[0] = 0 /\ \A i \in 1..k - 1 : p[i] = 10 * p[i - 1] + v[i]
      BY <3>2
    <3> DEFINE q == [i \in 0..k |-> IF i = k THEN 10 * p[k - 1] + v[k] ELSE p[i]]
    <3>4. p[k - 1] \in Nat /\ v[k] \in 0..9
      BY <1>0, <2>2, <3>1
    <3>5. q \in [0..k -> Nat]
      <4>1. 10 * p[k - 1] + v[k] \in Nat
        BY <3>4, NextNumber
      <4> QED
        BY <4>1
    <3>6. q[0] = 0
      BY <2>2, <3>3
    <3>7. ASSUME NEW i \in 1..k PROVE q[i] = 10 * q[i - 1] + v[i]
      <4>1. CASE i = k
        BY <2>2, <4>1
      <4>2. CASE i # k
        BY <3>3, <4>2
      <4> QED
        BY <4>1, <4>2
    <3> QED
      BY <3>5, <3>6, <3>7
  <2> QED
    BY <2>1, <2>2
<1> HIDE DEF S
<1>2. Nat \subseteq S
  BY <1>1, Induction
<1>3. n \in S
  BY <1>2
<1>4. Upto(n)
  BY <1>3 DEF S
<1> QED
  BY <1>4 DEF Numbers

(* The equation of NumberOf's recursive function has a solution.                  *)
LEMMA NumberOfIs ==
    ASSUME NEW v \in Seq(Digits)
    PROVE  \E p : Numbers(v, p) /\ NumberOf(v) = p[Len(v)]
<1> PICK n \in Nat : n = Len(v)
  OBVIOUS
<1> DEFINE Solves(f) == f = [i \in 0..n |-> IF i = 0 THEN 0 ELSE 10 * f[i - 1] + v[i]]
           f == CHOOSE g : Solves(g)
<1>1. PICK p : Numbers(v, p)
  BY NumbersExist
<1>2. p = [i \in 0..n |-> IF i = 0 THEN 0 ELSE 10 * p[i - 1] + v[i]]
  <2>1. \A i \in 0..n : p[i] = IF i = 0 THEN 0 ELSE 10 * p[i - 1] + v[i]
    BY <1>1 DEF Numbers
  <2> QED
    BY <1>1, <2>1 DEF Numbers
<1>3. Solves(f)
  BY <1>2, Zenon
<1>4. NumberOf(v) = f[n]
  <2>1. n = Len(v)
    OBVIOUS
  <2> QED
    BY <2>1, Zenon DEF NumberOf
<1> HIDE DEF f
<1>0. \A i \in 1..n : v[i] \in 0..9
  BY DigitAt
<1> DEFINE S == {k \in Nat : k <= n => f[k] \in Nat}
<1>5. ASSUME NEW k \in Nat, \A m \in 0..k - 1 : m \in S PROVE k \in S
  <2> SUFFICES ASSUME k <= n PROVE f[k] \in Nat
    OBVIOUS
  <2>1. f[k] = IF k = 0 THEN 0 ELSE 10 * f[k - 1] + v[k]
    BY <1>3
  <2>2. CASE k # 0
    <3>1. k - 1 \in 0..k - 1 /\ k - 1 <= n
      BY <2>2
    <3>2. f[k - 1] \in Nat
      BY <1>5, <3>1
    <3>3. v[k] \in 0..9
      BY <1>0, <2>2
    <3>4. f[k] = 10 * f[k - 1] + v[k]
      BY <2>1, <2>2, Zenon
    <3> HIDE DEF S
    <3> QED
      BY <3>2, <3>3, <3>4, NextNumber
  <2> QED
    BY <2>1, <2>2
<1> HIDE DEF S
<1>6. Nat \subseteq S
  BY <1>5, Induction
<1>7. \A k \in 0..n : f[k] \in Nat
  BY <1>6 DEF S
<1>8. Numbers(v, f)
  <2>1. \A k \in 0..n : f[k] = IF k = 0 THEN 0 ELSE 10 * f[k - 1] + v[k]
    BY <1>3
  <2>2. f = [k \in 0..n |-> f[k]]
    BY <1>3
  <2>3. f \in [0..n -> Nat]
    BY <1>7, <2>2
  <2> QED
    BY <2>1, <2>3 DEF Numbers
<1> QED
  BY <1>4, <1>8

(* The digits of v after the a-th, up to the c-th, are those of w after the b-th.  *)
SameDigits(v, a, c, w, b) == \A i \in 1..c - a : v[a + i] = w[b + i]

(* From equal numbers, the same digits lead to equal numbers.                     *)
LEMMA SameDigitsSameNumber ==
    ASSUME NEW v \in Seq(Digits), NEW w \in Seq(Digits), NEW p, NEW q,
           Numbers(v, p), Numbers(w, q), NEW a \in Nat, NEW b \in Nat,
           NEW c \in a..Len(v), NEW d \in b..Len(w), c - a = d - b, p[a] = q[b],
           SameDigits(v, a, c, w, b)
    PROVE  p[c] = q[d]
<1> DEFINE S == {i \in Nat : i <= c - a => p[a + i] = q[b + i]}
<1>1. ASSUME NEW i \in Nat, \A m \in 0..i - 1 : m \in S PROVE i \in S
  <2> SUFFICES ASSUME i <= c - a PROVE p[a + i] = q[b + i]
    OBVIOUS
  <2>1. CASE i = 0
    BY <2>1
  <2>2. CASE i # 0
    <3>1. i - 1 \in 0..i - 1 /\ i - 1 <= c - a
      BY <2>2
    <3> HIDE DEF S
    <3>0. i - 1 \in S
      BY <1>1, <3>1
    <3> USE DEF S
    <3>2. p[a + (i - 1)] = q[b + (i - 1)]
      BY <3>0, <3>1
    <3>3. a + i \in 1..Len(v) /\ b + i \in 1..Len(w) /\ i \in 1..c - a
      BY <2>2
    <3>4. p[a + i] = 10 * p[(a + i) - 1] + v[a + i] /\ q[b + i] = 10 * q[(b + i) - 1] + w[b + i]
      BY <3>3 DEF Numbers
    <3>5. (a + i) - 1 = a + (i - 1) /\ (b + i) - 1 = b + (i - 1) /\ v[a + i] = w[b + i]
      BY <3>3 DEF SameDigits
    <3> QED
      BY <3>2, <3>4, <3>5
  <2> QED
    BY <2>1, <2>2
<1> HIDE DEF S
<1>2. c - a \in S
  BY <1>1, Induction
<1>3. p[a + (c - a)] = q[b + (c - a)]
  BY <1>2 DEF S
<1>4. a + (c - a) = c /\ b + (c - a) = d
  OBVIOUS
<1> QED
  BY <1>3, <1>4

(* A greater number stays greater, whatever digits follow.                        *)
LEMMA GreaterStaysGreater ==
    ASSUME NEW v \in Seq(Digits), NEW w \in Seq(Digits), NEW p, NEW q,
           Numbers(v, p), Numbers(w, q), NEW a \in Nat, NEW b \in Nat,
           NEW c \in a..Len(v), NEW d \in b..Len(w), c - a = d - b, p[a] > q[b]
    PROVE  p[c] > q[d]
<1>0. (\A i \in 1..Len(v) : v[i] \in 0..9) /\ (\A i \in 1..Len(w) : w[i] \in 0..9)
  BY DigitAt
<1> DEFINE S == {i \in Nat : i <= c - a => p[a + i] > q[b + i]}
<1>1. ASSUME NEW i \in Nat, \A m \in 0..i - 1 : m \in S PROVE i \in S
  <2> SUFFICES ASSUME i <= c - a PROVE p[a + i] > q[b + i]
    OBVIOUS
  <2>1. CASE i = 0
    BY <2>1
  <2>2. CASE i # 0
    <3>1. i - 1 \in 0..i - 1 /\ i - 1 <= c - a
      BY <2>2
    <3> HIDE DEF S
    <3>0. i - 1 \in S
      BY <1>1, <3>1
    <3> USE DEF S
    <3>2. p[a + (i - 1)] > q[b + (i - 1)]
      BY <3>0, <3>1
    <3>3. a + i \in 1..Len(v) /\ b + i \in 1..Len(w)
          /\ a + (i - 1) \in 0..Len(v) /\ b + (i - 1) \in 0..Len(w)
      BY <2>2
    <3>4. p[a + i] = 10 * p[(a + i) - 1] + v[a + i] /\ q[b + i] = 10 * q[(b + i) - 1] + w[b + i]
      BY <3>3 DEF Numbers
    <3>5. (a + i) - 1 = a + (i - 1) /\ (b + i) - 1 = b + (i - 1)
      OBVIOUS
    <3>6. p[a + (i - 1)] \in Nat /\ q[b + (i - 1)] \in Nat
      BY <3>3 DEF Numbers
    <3> HIDE DEF S
    <3>7. v[a + i] \in 0..9 /\ w[b + i] \in 0..9
      BY <1>0, <3>3
    <3>8. \A x, y \in Nat, f, g \in 0..9 : x > y => 10 * x + f > 10 * y + g
      OBVIOUS
    <3> QED
      BY <3>2, <3>4, <3>5, <3>6, <3>7, <3>8
  <2> QED
    BY <2>1, <2>2
<1> HIDE DEF S
<1>2. c - a \in S
  BY <1>1, Induction
<1>3. p[a + (c - a)] > q[b + (c - a)]
  BY <1>2 DEF S
<1>4. a + (c - a) = c /\ b + (c - a) = d
  OBVIOUS
<1> QED
  BY <1>3, <1>4

LEMMA NumberOfType ==
    ASSUME NEW v \in Seq(Digits)
    PROVE  NumberOf(v) \in Nat
  BY NumberOfIs DEF Numbers

LEMMA NumberOfDigit ==
    ASSUME NEW d \in Digits
    PROVE  NumberOf(<<d>>) = d
<1>1. PICK p : Numbers(<<d>>, p) /\ NumberOf(<<d>>) = p[Len(<<d>>)]
  <2>1. <<d>> \in Seq(Digits)
    OBVIOUS
  <2> QED
    BY <2>1, NumberOfIs
<1>2. p[1] = 10 * p[0] + <<d>>[1] /\ p[0] = 0
  BY <1>1 DEF Numbers
<1> QED
  BY <1>1, <1>2 DEF Digits

LEMMA NumberOfAppend ==
    ASSUME NEW v \in Seq(Digits), NEW d \in Digits
    PROVE  NumberOf(Append(v, d)) = 10 * NumberOf(v) + d
<1> DEFINE w == Append(v, d)
<1>1. w \in Seq(Digits) /\ Len(w) = Len(v) + 1 /\ w[Len(w)] = d
      /\ \A i \in 1..Len(v) : w[i] = v[i]
  OBVIOUS
<1>2. PICK p : Numbers(v, p) /\ NumberOf(v) = p[Len(v)]
  BY NumberOfIs
<1> HIDE DEF w
<1>3. PICK q : Numbers(w, q) /\ NumberOf(w) = q[Len(w)]
  BY <1>1, NumberOfIs
<1>4. p[0] = q[0]
  BY <1>2, <1>3 DEF Numbers
<1>5. p[Len(v)] = q[Len(v)]
  <2>1. Len(v) \in 0..Len(v) /\ Len(v) \in 0..Len(w)
    BY <1>1
  <2>2. SameDigits(v, 0, Len(v), w, 0)
    BY <1>1 DEF SameDigits
  <2> QED
    BY <1>1, <1>2, <1>3, <1>4, <2>1, <2>2, SameDigitsSameNumber
<1>6. q[Len(w)] = 10 * q[Len(w) - 1] + w[Len(w)]
  BY <1>1, <1>3 DEF Numbers
<1> QED
  BY <1>1, <1>2, <1>3, <1>5, <1>6 DEF w

(* A number written without leading zeros.                                        *)
Canonical(v) == v \in Seq(Digits) /\ Len(v) >= 1 /\ (Len(v) = 1 \/ v[1] # 0)

LEMMA LongerIsGreater ==
    ASSUME NEW v, Canonical(v), NEW w \in Seq(Digits), Len(v) > Len(w), Len(w) >= 1
    PROVE  NumberOf(v) > NumberOf(w)
<1> DEFINE a == Len(v) - Len(w)
           zeros == [i \in 1..a - 1 |-> 0]
<1>1. v \in Seq(Digits) /\ a \in Nat /\ a >= 1 /\ v[1] \in Digits /\ v[1] # 0
      /\ Len(v) \in Nat /\ Len(w) \in Nat
  BY DEF Canonical
<1>2. zeros \in Seq(Digits) /\ Len(zeros) = a - 1
  BY <1>1 DEF Digits
<1>3. PICK p : Numbers(v, p) /\ NumberOf(v) = p[Len(v)]
  BY <1>1, NumberOfIs
<1>4. PICK q : Numbers(w, q) /\ NumberOf(w) = q[Len(w)]
  BY NumberOfIs
<1>5. PICK z : Numbers(zeros, z)
  BY <1>2, NumbersExist
<1> HIDE DEF zeros
<1>6. p[1] > z[0]
  BY <1>1, <1>2, <1>3, <1>5 DEF Numbers, Digits
<1>7. p[a] > z[a - 1]
  <2> DEFINE c == a
             d == a - 1
  <2>1. c \in 1..Len(v) /\ d \in 0..Len(zeros) /\ c - 1 = d - 0
    BY <1>1, <1>2
  <2>2. v \in Seq(Digits) /\ zeros \in Seq(Digits) /\ Numbers(v, p) /\ Numbers(zeros, z)
    BY <1>1, <1>2, <1>3, <1>5
  <2> HIDE DEF a, c, d
  <2>3. p[c] > z[d]
    BY <1>6, <2>1, <2>2, GreaterStaysGreater
  <2> QED
    BY <2>3 DEF c, d
<1>8. p[a] > q[0]
  <2>1. q[0] = 0
    BY <1>4 DEF Numbers
  <2>2. a - 1 \in 0..Len(zeros) /\ a \in 0..Len(v)
    BY <1>1, <1>2
  <2>3. z[a - 1] \in Nat
    BY <1>5, <2>2 DEF Numbers
  <2>4. p[a] \in Nat
    BY <1>3, <2>2 DEF Numbers
  <2> QED
    BY <1>7, <2>1, <2>3, <2>4
<1>9. p[Len(v)] > q[Len(w)]
  <2>1. Len(v) \in a..Len(v) /\ Len(w) \in 0..Len(w) /\ Len(v) - a = Len(w) - 0
    BY <1>1
  <2> QED
    BY <1>1, <1>3, <1>4, <1>8, <2>1, GreaterStaysGreater
<1> QED
  BY <1>1, <1>3, <1>4, <1>9

LEMMA BytesGreaterIsGreater ==
    ASSUME NEW v \in Seq(Digits), NEW w \in Seq(Digits), Len(v) = Len(w), BytesGreater(v, w)
    PROVE  NumberOf(v) > NumberOf(w)
<1>1. PICK i \in 1..Len(v) : (\A j \in 1..i - 1 : v[j] = w[j]) /\ v[i] > w[i]
  BY DEF BytesGreater
<1>2. PICK p : Numbers(v, p) /\ NumberOf(v) = p[Len(v)]
  BY NumberOfIs
<1>3. PICK q : Numbers(w, q) /\ NumberOf(w) = q[Len(w)]
  BY NumberOfIs
<1>4. p[0] = q[0]
  BY <1>2, <1>3 DEF Numbers
<1>5. p[i - 1] = q[i - 1]
  <2>1. SameDigits(v, 0, i - 1, w, 0)
    BY <1>1 DEF SameDigits
  <2> QED
    BY <1>1, <1>2, <1>3, <1>4, <2>1, SameDigitsSameNumber
<1>6. p[i] = 10 * p[i - 1] + v[i] /\ q[i] = 10 * q[i - 1] + w[i] /\ p[i - 1] \in Nat
      /\ v[i] \in 0..9 /\ w[i] \in 0..9
  BY <1>2, <1>3 DEF Numbers, Digits
<1>7. p[i] > q[i]
  <2>1. \A x \in Nat, f, g \in 0..9 : f > g => 10 * x + f > 10 * x + g
    OBVIOUS
  <2> QED
    BY <1>1, <1>5, <1>6, <2>1
<1>8. p[Len(v)] > q[Len(w)]
  BY <1>2, <1>3, <1>7, GreaterStaysGreater
<1> QED
  BY <1>2, <1>3, <1>8

(* The order of byte strings of one length is total.                              *)
LEMMA BytesTrichotomy ==
    ASSUME NEW v \in Seq(Digits), NEW w \in Seq(Digits), Len(v) = Len(w), v # w,
           ~BytesGreater(v, w)
    PROVE  BytesGreater(w, v)
<1> DEFINE D == {i \in 1..Len(v) : v[i] # w[i]}
<1>1. D # {} /\ D \in SUBSET Nat
  OBVIOUS
<1>2. PICK i \in D : \A j \in D : i <= j
  BY <1>1, LeastElement
<1>3. i \in 1..Len(v) /\ v[i] \in 0..9 /\ w[i] \in 0..9 /\ v[i] # w[i]
  BY DEF Digits
<1>4. \A j \in 1..i - 1 : j <= Len(v) /\ v[j] = w[j]
  BY <1>2, <1>3
<1> QED
  BY <1>3, <1>4 DEF BytesGreater

(* Two numbers without leading zeros compare as their digits do.                  *)
LEMMA CanonicalOrder ==
    ASSUME NEW v, NEW w, Canonical(v), Canonical(w)
    PROVE  /\ NumberOf(v) > NumberOf(w) <=>
                Len(v) > Len(w) \/ (Len(v) = Len(w) /\ BytesGreater(v, w))
           /\ NumberOf(v) = NumberOf(w) => v = w
<1>1. v \in Seq(Digits) /\ w \in Seq(Digits) /\ Len(v) \in Nat /\ Len(w) \in Nat
      /\ Len(v) >= 1 /\ Len(w) >= 1
  BY DEF Canonical
<1>2. NumberOf(v) \in Nat /\ NumberOf(w) \in Nat
  BY <1>1, NumberOfType
<1>3. CASE Len(v) > Len(w)
  BY <1>1, <1>2, <1>3, LongerIsGreater
<1>4. CASE Len(w) > Len(v)
  <2>1. NumberOf(w) > NumberOf(v)
    BY <1>1, <1>4, LongerIsGreater
  <2> QED
    BY <1>1, <1>2, <1>4, <2>1
<1>5. CASE Len(v) = Len(w)
  <2>1. BytesGreater(v, w) => NumberOf(v) > NumberOf(w)
    BY <1>1, <1>5, BytesGreaterIsGreater
  <2>2. BytesGreater(w, v) => NumberOf(w) > NumberOf(v)
    BY <1>1, <1>5, BytesGreaterIsGreater
  <2>3. v = w \/ BytesGreater(v, w) \/ BytesGreater(w, v)
    BY <1>1, <1>5, BytesTrichotomy
  <2>4. v = w => NumberOf(v) = NumberOf(w)
    OBVIOUS
  <2> QED
    BY <1>1, <1>2, <1>5, <2>1, <2>2, <2>3, <2>4
<1> QED
  BY <1>1, <1>3, <1>4, <1>5

(* Stripping the zeros keeps the number.                                          *)
LEMMA NormalizedIs ==
    ASSUME NEW v \in Seq(Digits), Len(v) > 0
    PROVE  Canonical(Normalized(v)) /\ NumberOf(Normalized(v)) = NumberOf(v)
<1> DEFINE significant == {i \in 1..Len(v) : v[i] # 0}
           zeros == [i \in 1..Len(v) |-> 0]
<1>1. PICK p : Numbers(v, p) /\ NumberOf(v) = p[Len(v)]
  BY NumberOfIs
<1>2. zeros \in Seq(Digits) /\ Len(zeros) = Len(v)
  BY DEF Digits
<1>3. PICK z : z = [i \in 0..Len(v) |-> 0]
  OBVIOUS
<1>4. Numbers(zeros, z)
  BY <1>2, <1>3 DEF Numbers
<1>5. ASSUME NEW k \in 0..Len(v), \A i \in 1..k : v[i] = 0 PROVE p[k] = 0
  <2>1. p[0] = z[0]
    BY <1>1, <1>3 DEF Numbers
  <2>2. SameDigits(v, 0, k, zeros, 0)
    BY <1>5 DEF SameDigits
  <2> HIDE DEF zeros
  <2>3. p[k] = z[k]
    BY <1>1, <1>2, <1>4, <2>1, <2>2, SameDigitsSameNumber
  <2> QED
    BY <1>3, <2>3
<1> HIDE DEF zeros
<1>6. CASE significant = {}
  <2>1. Normalized(v) = <<0>>
    BY <1>6 DEF Normalized
  <2>2. p[Len(v)] = 0
    BY <1>5, <1>6
  <2> QED
    BY <1>1, <2>1, <2>2, NumberOfDigit DEF Canonical, Digits
<1>7. CASE significant # {}
  <2> DEFINE k == CHOOSE i \in significant : \A j \in significant : i <= j
  <2>1. \E i \in significant : \A j \in significant : i <= j
    <3>1. significant \in SUBSET Nat
      OBVIOUS
    <3> QED
      BY <1>7, <3>1, LeastElement
  <2>2. k \in significant /\ \A j \in significant : k <= j
    BY <2>1, Zenon
  <2>3. Normalized(v) = SubSeq(v, k, Len(v))
    BY <1>7, Zenon DEF Normalized
  <2> HIDE DEF k
  <2> DEFINE w == SubSeq(v, k, Len(v))
  <2>4. k \in 1..Len(v) /\ v[k] # 0 /\ \A i \in 1..k - 1 : v[i] = 0
    BY <2>2
  <2>5. /\ w \in Seq(Digits) /\ Len(w) = Len(v) - k + 1
        /\ \A i \in 1..Len(v) - k + 1 : w[i] = v[(k - 1) + i]
    BY <2>4
  <2> HIDE DEF w
  <2>6. Canonical(w)
    BY <2>4, <2>5 DEF Canonical
  <2>7. PICK q : Numbers(w, q) /\ NumberOf(w) = q[Len(w)]
    BY <2>5, NumberOfIs
  <2>8. p[k - 1] = q[0]
    BY <1>5, <2>4, <2>7 DEF Numbers
  <2>9. p[Len(v)] = q[Len(w)]
    <3>1. /\ k - 1 \in Nat /\ Len(v) \in k - 1..Len(v) /\ Len(w) \in 0..Len(w)
          /\ Len(v) - (k - 1) = Len(w) - 0
          /\ SameDigits(v, k - 1, Len(v), w, 0)
      BY <2>4, <2>5 DEF SameDigits
    <3> QED
      BY <1>1, <2>5, <2>7, <2>8, <3>1, SameDigitsSameNumber
  <2> QED
    BY <1>1, <2>3, <2>4, <2>5, <2>6, <2>7, <2>9 DEF w
<1> QED
  BY <1>6, <1>7

LEMMA CanonicalAppend ==
    ASSUME NEW v, Canonical(v), NumberOf(v) # 0, NEW d \in Digits
    PROVE  Canonical(Append(v, d)) /\ NumberOf(Append(v, d)) = 10 * NumberOf(v) + d
<1>1. v \in Seq(Digits) /\ Len(v) \in Nat /\ Len(v) >= 1
  BY DEF Canonical
<1>2. v[1] # 0
  <2> SUFFICES ASSUME v[1] = 0 PROVE FALSE
    OBVIOUS
  <2>1. v = <<0>>
    BY <1>1 DEF Canonical
  <2> QED
    BY <2>1, NumberOfDigit DEF Digits
<1>3. Append(v, d) \in Seq(Digits) /\ Len(Append(v, d)) >= 1 /\ Append(v, d)[1] = v[1]
  BY <1>1
<1> QED
  BY <1>1, <1>2, <1>3, NumberOfAppend DEF Canonical

LEMMA LastDigit ==
    ASSUME NEW n \in Nat
    PROVE  /\ n \div 10 \in Nat /\ n % 10 \in Digits /\ n = 10 * (n \div 10) + (n % 10)
           /\ n >= 10 => n \div 10 < n /\ n \div 10 # 0
<1>1. n % 10 \in Digits
  BY DEF Digits
<1>2. n \div 10 \in Nat
  OBVIOUS
<1>3. n = 10 * (n \div 10) + (n % 10)
  OBVIOUS
<1>4. n >= 10 => n \div 10 < n
  OBVIOUS
<1>5. n >= 10 => n \div 10 # 0
  OBVIOUS
<1> QED
  BY <1>1, <1>2, <1>3, <1>4, <1>5

(* Every number is written in one way without leading zeros.                      *)
Representation(n) == CHOOSE v : Canonical(v) /\ NumberOf(v) = n

LEMMA Represented ==
    ASSUME NEW n \in Nat
    PROVE  Canonical(Representation(n)) /\ NumberOf(Representation(n)) = n
<1> DEFINE S == {k \in Nat : \E v : Canonical(v) /\ NumberOf(v) = k}
<1>1. ASSUME NEW k \in Nat, \A m \in 0..k - 1 : m \in S PROVE k \in S
  <2>1. CASE k < 10
    <3>1. k \in Digits
      BY <2>1 DEF Digits
    <3>2. Canonical(<<k>>) /\ NumberOf(<<k>>) = k
      BY <3>1, NumberOfDigit DEF Canonical
    <3> QED
      BY <3>2
  <2>2. CASE k >= 10
    <3>1. k \div 10 \in S /\ k \div 10 # 0 /\ k % 10 \in Digits
          /\ k = 10 * (k \div 10) + (k % 10)
      BY <1>1, <2>2, LastDigit
    <3>2. PICK v : Canonical(v) /\ NumberOf(v) = k \div 10
      BY <3>1
    <3>3. Canonical(Append(v, k % 10)) /\ NumberOf(Append(v, k % 10)) = k
      BY <3>1, <3>2, CanonicalAppend
    <3> QED
      BY <3>3
  <2> QED
    BY <2>1, <2>2
<1> HIDE DEF S
<1>2. n \in S
  BY <1>1, Induction
<1>3. \E v : Canonical(v) /\ NumberOf(v) = n
  BY <1>2 DEF S
<1> QED
  BY <1>3, Zenon DEF Representation

(* The recursion of DecimalDigits has a solution.                                 *)
LEMMA DecimalDigitsEquation ==
    ASSUME NEW n \in Nat
    PROVE  DecimalDigits[n] =
             IF n < 10 THEN <<n>> ELSE Append(DecimalDigits[n \div 10], n % 10)
<1> DEFINE F == [k \in Nat |-> Representation(k)]
<1>1. \A k \in Nat : F[k] = IF k < 10 THEN <<k>> ELSE Append(F[k \div 10], k % 10)
  <2> TAKE k \in Nat
  <2>1. F[k] = Representation(k) /\ Canonical(F[k]) /\ NumberOf(F[k]) = k
    BY Represented
  <2>2. CASE k < 10
    <3>1. k \in Digits
      BY <2>2 DEF Digits
    <3>2. Canonical(<<k>>) /\ NumberOf(<<k>>) = k
      BY <3>1, NumberOfDigit DEF Canonical
    <3> QED
      BY <2>1, <2>2, <3>2, CanonicalOrder
  <2>3. CASE k >= 10
    <3>1. k \div 10 \in Nat /\ k \div 10 # 0 /\ k % 10 \in Digits
          /\ k = 10 * (k \div 10) + (k % 10)
      BY <2>3, LastDigit
    <3>2. F[k \div 10] = Representation(k \div 10)
      BY <3>1
    <3>3. Canonical(F[k \div 10]) /\ NumberOf(F[k \div 10]) = k \div 10
      BY <3>1, <3>2, Represented
    <3> HIDE DEF F
    <3>4. Canonical(Append(F[k \div 10], k % 10)) /\ NumberOf(Append(F[k \div 10], k % 10)) = k
      BY <3>1, <3>3, CanonicalAppend
    <3>5. F[k] = Append(F[k \div 10], k % 10)
      BY <2>1, <3>4, CanonicalOrder
    <3> QED
      BY <2>3, <3>5
  <2> HIDE DEF F
  <2> QED
    BY <2>2, <2>3
<1>2. F = [k \in Nat |-> IF k < 10 THEN <<k>> ELSE Append(F[k \div 10], k % 10)]
  BY <1>1, Zenon
<1> HIDE DEF F
<1>3. DecimalDigits = [k \in Nat |-> IF k < 10 THEN <<k>>
                                     ELSE Append(DecimalDigits[k \div 10], k % 10)]
  BY <1>2, Zenon DEF DecimalDigits
<1> QED
  BY <1>3, Zenon

(* str(n) denotes n and has no leading zero.                                      *)
LEMMA DecimalDigitsDenote ==
    ASSUME NEW n \in Nat
    PROVE  Canonical(DecimalDigits[n]) /\ NumberOf(DecimalDigits[n]) = n
<1> DEFINE S == {k \in Nat : Canonical(DecimalDigits[k]) /\ NumberOf(DecimalDigits[k]) = k}
<1>1. ASSUME NEW k \in Nat, \A m \in 0..k - 1 : m \in S PROVE k \in S
  <2>1. CASE k < 10
    <3> HIDE DEF S
    <3>1. DecimalDigits[k] = <<k>>
      BY <2>1, DecimalDigitsEquation
    <3>2. k \in Digits
      BY <2>1 DEF Digits
    <3>3. Canonical(<<k>>) /\ NumberOf(<<k>>) = k
      BY <3>2, NumberOfDigit DEF Canonical
    <3> QED
      BY <3>1, <3>3 DEF S
  <2>2. CASE k >= 10
    <3>1. k \div 10 \in S /\ k \div 10 # 0 /\ k % 10 \in Digits
          /\ k = 10 * (k \div 10) + (k % 10)
      BY <1>1, <2>2, LastDigit
    <3> HIDE DEF S
    <3>2. DecimalDigits[k] = Append(DecimalDigits[k \div 10], k % 10)
      <4>1. ~(k < 10)
        BY <2>2
      <4> QED
        BY <4>1, DecimalDigitsEquation, Zenon
    <3>3. Canonical(DecimalDigits[k \div 10]) /\ NumberOf(DecimalDigits[k \div 10]) = k \div 10
      BY <3>1 DEF S
    <3> QED
      BY <3>1, <3>2, <3>3, CanonicalAppend DEF S
  <2> QED
    BY <2>1, <2>2
<1> HIDE DEF S
<1>2. n \in S
  BY <1>1, Induction
<1> QED
  BY <1>2 DEF S

(* _declared_body_size_error compares numbers of any length without converting    *)
(* them: a field is refused exactly if the number it denotes exceeds the cap.     *)
THEOREM DeclaredSizeIsCompared ==
    ASSUME NEW v \in Seq(Digits), Len(v) > 0, NEW cap \in Nat
    PROVE  ExceedsCap(v, cap) <=> NumberOf(v) > cap
<1>1. Canonical(Normalized(v)) /\ NumberOf(Normalized(v)) = NumberOf(v)
  BY NormalizedIs
<1>2. Canonical(DecimalDigits[cap]) /\ NumberOf(DecimalDigits[cap]) = cap
  BY DecimalDigitsDenote
<1> QED
  BY <1>1, <1>2, CanonicalOrder, Zenon DEF ExceedsCap
-----------------------------------------------------------------------------
(* The cause of a 413.                                                          *)

DeclarationRefused == DeclaredVerdict(fields, Cap) = "payload_too_large"

CausedTooLarge ==
    /\ answer = "payload_too_large" => sent > Cap \/ DeclarationRefused
    /\ DeclarationRefused => phase # "reading" /\ delivered = <<>>

(* A declaration that is refused never lets the loop begin.                      *)
CauseInv ==
    /\ answer = "payload_too_large" => sent > Cap \/ DeclarationRefused
    /\ DeclarationRefused => phase \notin {"reading", "application"} /\ delivered = <<>>

(* A chunk that does not fit next to what is held means that more was sent.      *)
LEMMA OverflowWasSent ==
    ASSUME TypeOK, BodyInv, ReadEvent, Judgement(Head(channel), buffered) = "too_large"
    PROVE  sent > Cap
<1>1. /\ Len(channel) \in Nat /\ Len(channel) >= 1
      /\ Head(channel) \in Messages /\ Head(channel) = channel[1] /\ Before
  BY DEF ReadEvent, TypeOK, Before
<1>2. PICK offset \in [1..Len(channel) + 1 -> Nat] : Offsets(offset)
  BY <1>1 DEF BodyInv, Accounted
<1>3. offset[1] = buffered /\ offset[2] = offset[1] + Head(channel).size /\ offset[2] <= sent
  BY <1>1, <1>2 DEF Offsets
<1>4. buffered + Head(channel).size > Cap
  BY <1>1, JudgementFits DEF TypeOK
<1>5. Head(channel).size \in Nat /\ buffered \in Nat /\ sent \in Nat /\ Cap \in Nat
  BY <1>1, BodyAssumption DEF TypeOK, Messages
<1> QED
  BY <1>3, <1>4, <1>5

LEMMA CauseStep == TypeOK /\ BodyInv /\ CauseInv /\ [Next]_vars => CauseInv'
<1> SUFFICES ASSUME TypeOK, BodyInv, CauseInv, [Next]_vars PROVE CauseInv'
  OBVIOUS
<1>1. fields' = fields /\ (DeclarationRefused' <=> DeclarationRefused)
  BY DEF DeclarationRefused, Next, Handle, SendChunk, Disconnect, Misbehave, LimitIp,
         MeasureDeclared, ReadEvent, ReceiveAdmitted, Respond, Cancel, Finished, Stalled, vars
<1>2. CASE SendChunk
  <2>1. PICK size \in ChunkSizes : sent' = sent + size
    BY <1>2 DEF SendChunk
  <2>2. size \in Nat /\ sent \in Nat /\ Cap \in Nat
    BY BodyAssumption DEF TypeOK
  <2> QED
    BY <1>1, <1>2, <2>1, <2>2 DEF CauseInv, SendChunk
<1>3. CASE MeasureDeclared
  BY <1>1, <1>3 DEF CauseInv, MeasureDeclared, DeclarationRefused, End, client
<1>4. CASE ReadEvent
  <2>1. Judgement(Head(channel), buffered) # "too_large" => answer' \in {answer, "aborted"}
    BY <1>4 DEF ReadEvent, End
  <2>2. phase' \in {"reading", "application", "ended"} /\ UNCHANGED <<sent, delivered>>
    BY <1>4 DEF ReadEvent, End
  <2>3. ~DeclarationRefused
    BY <1>4 DEF ReadEvent, CauseInv
  <2>4. Judgement(Head(channel), buffered) = "too_large" => sent > Cap
    BY <1>4, OverflowWasSent
  <2> QED
    BY <1>1, <2>1, <2>2, <2>3, <2>4 DEF CauseInv
<1>5. CASE ~SendChunk /\ ~MeasureDeclared /\ ~ReadEvent
  BY <1>1, <1>5 DEF CauseInv, Next, Handle, Disconnect, Misbehave, LimitIp, ReceiveAdmitted,
                    Respond, Cancel, Finished, Stalled, End, client, vars
<1> QED
  BY <1>2, <1>3, <1>4, <1>5

(* 413 is answered only to a request that sent more than max_request_body_bytes, *)
(* or whose Content-Length _declared_body_size_error found to be greater; and of *)
(* a request it refuses no byte is read, and nothing reaches the parser.         *)
LEMMA TooLargeIsCaused == Spec => []CausedTooLarge
<1>1. Init => CauseInv
  BY DEF Init, CauseInv
<1>2. CauseInv => CausedTooLarge
  BY DEF CauseInv, CausedTooLarge
<1> QED
  BY <1>1, <1>2, CauseStep, TypeCorrect, BodyInvariant, PTL DEF Spec

(* What is refused is what denotes a number above the cap.                       *)
LEMMA RefusedDeclaresTooMuch ==
    ASSUME TypeOK
    PROVE  DeclarationRefused <=> DeclaresTooMuch
<1> DEFINE bytes == 0..9 \cup {Other}
<1> HIDE DEF bytes
<1>1. fields \in Seq(Seq(bytes)) /\ Len(fields) \in Nat /\ Cap \in Nat
  BY BodyAssumption DEF TypeOK, bytes
<1>2. DeclarationRefused <=>
        Len(fields) = 1 /\ IsDigits(fields[1]) /\ ExceedsCap(fields[1], Cap)
  <2> DEFINE n == Len(fields)
  <2>1. n \in Nat
    BY <1>1
  <2> HIDE DEF n
  <2>2. n = 1 <=> ~(n = 0) /\ ~(n > 1)
    BY <2>1
  <2> USE DEF n
  <2> QED
    BY <2>2, Zenon DEF DeclarationRefused, DeclaredVerdict
<1>3. ASSUME Len(fields) = 1, IsDigits(fields[1])
      PROVE  ExceedsCap(fields[1], Cap) <=> NumberOf(fields[1]) > Cap
  <2> DEFINE value == fields[1]
  <2>1. value \in Seq(bytes)
    BY <1>1, <1>3
  <2>2. IsDigits(value)
    BY <1>3
  <2> HIDE DEF value
  <2>3. value \in Seq(Digits) /\ Len(value) > 0
    <3>1. Len(value) > 0 /\ \A i \in 1..Len(value) : value[i] \in bytes /\ value[i] # Other
      BY <2>1, <2>2 DEF IsDigits
    <3>2. \A i \in 1..Len(value) : value[i] \in Digits
      BY <3>1 DEF bytes, Digits
    <3> QED
      BY <2>1, <3>1, <3>2
  <2> QED
    BY <1>1, <2>3, DeclaredSizeIsCompared DEF value
<1> QED
  BY <1>2, <1>3 DEF DeclaresTooMuch

(* 413 is answered only to a request that sent more than max_request_body_bytes  *)
(* or declared a number above it, of however many digits; of a body so declared  *)
(* not a byte is read (_declared_body_size_error and the loop after it).         *)
THEOREM TooLargeWasSentOrDeclared == Spec => []TooLargeHasCause
<1>1. TypeOK /\ CausedTooLarge => TooLargeHasCause
  BY RefusedDeclaresTooMuch DEF CausedTooLarge, TooLargeHasCause
<1> QED
  BY <1>1, TooLargeIsCaused, TypeCorrect, PTL
===============================================================================
