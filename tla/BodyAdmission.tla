---------------------------- MODULE BodyAdmission -----------------------------
(* _BodySizeAndIpRateLimitMiddleware of entrypoints/http.py on one POST /route   *)
(* request (ADR-0017): the IP limiter, the declared length, the loop that reads  *)
(* the body from the ASGI channel, and the channel it hands to the application.  *)
(* The client and the server fill the channel while the middleware reads it; the *)
(* server may cancel the handler at any await.                                   *)
EXTENDS ContentLength

CONSTANTS
    Cap,        \* max_request_body_bytes
    Declared,   \* Content-Length fields a request may carry
    ChunkSizes, \* bytes of a body chunk
    MaxEvents   \* bound: events the client causes

ASSUME BodyAssumption ==
    /\ Cap \in Nat \ {0}
    /\ Declared \subseteq Seq(Seq(0..9 \cup {Other}))
    /\ ChunkSizes \subseteq Nat
    /\ MaxEvents \in Nat

Disconnected == [type |-> "http.disconnect", size |-> 0, more |-> FALSE]
Request(size, more) == [type |-> "http.request", size |-> size, more |-> more]
Unexpected == [type |-> "websocket.receive", size |-> 0, more |-> FALSE]
NoMessage == [type |-> "none", size |-> 0, more |-> FALSE]
Messages == [type : {"http.request", "http.disconnect", "websocket.receive", "none"},
             size : Nat, more : BOOLEAN]

VARIABLES
    fields,    \* the Content-Length fields
    channel,   \* events the server has queued and nobody has received
    events,    \* bound: events so far
    phase,     \* limiting, measuring, reading, application or ended
    buffered,  \* len(body)
    admitted,  \* admitted_message
    answer,    \* none, an error code, routed, or aborted when no answer is sent
    delivered, \* what the application received
    \* History, read by the properties only:
    sent,      \* bytes of body the client has sent
    upload     \* open, complete (the last chunk was sent) or broken

client == <<channel, events, sent, upload>>
vars == <<fields, client, phase, buffered, admitted, answer, delivered>>

TypeOK ==
    /\ fields \in Declared
    /\ channel \in Seq(Messages)
    /\ events \in 0..MaxEvents
    /\ phase \in {"limiting", "measuring", "reading", "application", "ended"}
    /\ buffered \in 0..Cap
    /\ admitted \in Messages
    /\ answer \in {"none", "rate_limit_exceeded", "invalid_request",
                   "payload_too_large", "routed", "aborted"}
    /\ delivered \in Seq(Messages)
    /\ sent \in Nat
    /\ upload \in {"open", "complete", "broken"}

Init ==
    /\ fields \in Declared
    /\ channel = <<>> /\ events = 0
    /\ phase = "limiting"
    /\ buffered = 0
    /\ admitted = NoMessage
    /\ answer = "none"
    /\ delivered = <<>>
    /\ sent = 0 /\ upload = "open"

-------------------------------------------------------------------------------
(* The client and the server.                                                    *)

(* The next chunk of the body; the declared length binds nobody here.            *)
SendChunk ==
    /\ upload = "open" /\ events < MaxEvents
    /\ \E size \in ChunkSizes, more \in BOOLEAN :
         /\ channel' = Append(channel, Request(size, more))
         /\ sent' = sent + size
         /\ upload' = IF more THEN "open" ELSE "complete"
    /\ events' = events + 1
    /\ UNCHANGED <<fields, phase, buffered, admitted, answer, delivered>>

(* The connection is lost, during the upload or after it.                        *)
Disconnect ==
    /\ \A i \in 1..Len(channel) : channel[i] # Disconnected
    /\ events < MaxEvents
    /\ channel' = Append(channel, Disconnected)
    /\ events' = events + 1
    /\ upload' = IF upload = "open" THEN "broken" ELSE upload
    /\ UNCHANGED <<fields, phase, buffered, admitted, answer, delivered, sent>>

(* A server that breaks the protocol.                                            *)
Misbehave ==
    /\ upload = "open" /\ events < MaxEvents
    /\ channel' = Append(channel, Unexpected)
    /\ events' = events + 1
    /\ UNCHANGED <<fields, phase, buffered, admitted, answer, delivered, sent, upload>>

-------------------------------------------------------------------------------
(* The middleware.                                                               *)

End(code) ==
    /\ phase' = "ended"
    /\ answer' = code

(* ip_rate_limiter.allow, before any header or body is looked at.                *)
LimitIp ==
    /\ phase = "limiting"
    /\ \/ End("rate_limit_exceeded")
       \/ phase' = "measuring" /\ UNCHANGED answer
    /\ UNCHANGED <<fields, client, buffered, admitted, delivered>>

MeasureDeclared ==
    /\ phase = "measuring"
    /\ LET verdict == DeclaredVerdict(fields, Cap)
       IN IF verdict = "accepted"
          THEN phase' = "reading" /\ UNCHANGED answer
          ELSE End(verdict)
    /\ UNCHANGED <<fields, client, buffered, admitted, delivered>>

(* Definitions named Slip_... are faults the code does not have: each is the     *)
(* next definition of the code with one plausible mistake, and substituting it   *)
(* must break a property.                                                        *)

(* A body of exactly the cap is refused.                                         *)
Slip_CapExclusive(message, held) ==
    IF message.type = "http.disconnect"   THEN "hand_over"
    ELSE IF message.type # "http.request" THEN "fail"
    ELSE IF message.size >= Cap - held    THEN "too_large"
    ELSE IF message.more                  THEN "keep"
    ELSE "complete"

(* A disconnect is taken for the end of the body.                                *)
Slip_DisconnectCompletes(message, held) ==
    IF message.type = "http.disconnect"   THEN "complete"
    ELSE IF message.type # "http.request" THEN "fail"
    ELSE IF message.size > Cap - held     THEN "too_large"
    ELSE IF message.more                  THEN "keep"
    ELSE "complete"

(* A disconnect in the middle of a body is ignored.                              *)
Slip_IgnoreDisconnect(message, held) ==
    IF message.type = "http.disconnect"   THEN "keep"
    ELSE IF message.type # "http.request" THEN "fail"
    ELSE IF message.size > Cap - held     THEN "too_large"
    ELSE IF message.more                  THEN "keep"
    ELSE "complete"

(* What the loop makes of one event, with held bytes read before it.             *)
Judgement(message, held) ==
    IF message.type = "http.disconnect"   THEN "hand_over"
    ELSE IF message.type # "http.request" THEN "fail"
    ELSE IF message.size > Cap - held     THEN "too_large"
    ELSE IF message.more                  THEN "keep"
    ELSE "complete"

(* receive(): a disconnect stays at the head of the channel for ever.            *)
TakeEvent == channel' = IF Head(channel) = Disconnected THEN channel ELSE Tail(channel)

(* One turn of the loop.  Every way out of it clears the body.                   *)
ReadEvent ==
    /\ phase = "reading" /\ channel # <<>>
    /\ TakeEvent
    /\ LET message == Head(channel)
           judgement == Judgement(message, buffered)
       IN /\ buffered' = IF judgement = "keep" THEN buffered + message.size ELSE 0
          /\ admitted' = CASE judgement = "hand_over" -> message
                           [] judgement = "complete" -> Request(buffered + message.size, FALSE)
                           [] OTHER -> admitted
          /\ CASE judgement = "keep"      -> UNCHANGED <<phase, answer>>
               [] judgement = "too_large" -> End("payload_too_large")
               [] judgement = "fail"      -> End("aborted")
               [] OTHER                   -> phase' = "application" /\ UNCHANGED answer
    /\ UNCHANGED <<fields, events, sent, upload, delivered>>

(* The admitted message is kept after it was handed out.                         *)
Slip_DeliverAgain ==
    /\ phase = "application" /\ answer = "none"
    /\ Len(delivered) < 3
    /\ delivered' = Append(delivered, admitted)
    /\ UNCHANGED <<fields, client, phase, buffered, admitted, answer>>

(* receive_admitted: the admitted message once, then the server's channel.       *)
ReceiveAdmitted ==
    /\ phase = "application"
    /\ \/ /\ admitted # NoMessage
          /\ delivered' = Append(delivered, admitted)
          /\ admitted' = NoMessage
          /\ UNCHANGED channel
       \/ /\ admitted = NoMessage /\ channel # <<>>
          /\ delivered[Len(delivered)] # Disconnected
          /\ delivered' = Append(delivered, Head(channel))
          /\ TakeEvent
          /\ UNCHANGED admitted
    /\ UNCHANGED <<fields, events, sent, upload, phase, buffered, answer>>

(* The application parses a complete body and answers it; a disconnect instead   *)
(* of a body ends the request without an answer.                                 *)
Respond ==
    /\ phase = "application" /\ delivered # <<>>
    /\ End(IF delivered[1].type = "http.request" THEN "routed" ELSE "aborted")
    /\ UNCHANGED <<fields, client, buffered, admitted, delivered>>

(* No clear on the way out.                                                      *)
Slip_CancelKeepsBody ==
    /\ phase \in {"limiting", "reading", "application"}
    /\ End("aborted")
    /\ UNCHANGED <<fields, client, admitted, delivered, buffered>>

(* The handler is cancelled, or the channel fails, at one of its awaits.         *)
Cancel ==
    /\ phase \in {"limiting", "reading", "application"}
    /\ End("aborted")
    /\ buffered' = 0
    /\ UNCHANGED <<fields, client, admitted, delivered>>

Finished == phase = "ended" /\ UNCHANGED vars

(* The upload stalls for good: nothing bounds the wait in receive().             *)
Stalled ==
    /\ phase = "reading" /\ channel = <<>> /\ events = MaxEvents
    /\ UNCHANGED vars

Handle == LimitIp \/ MeasureDeclared \/ ReadEvent \/ ReceiveAdmitted \/ Respond

Next ==
    \/ SendChunk \/ Disconnect \/ Misbehave
    \/ Handle \/ Cancel
    \/ Finished \/ Stalled

Spec == Init /\ [][Next]_vars

(* The event loop runs the middleware and the application; nothing is assumed of *)
(* the client.                                                                   *)
FairSpec == Spec /\ WF_vars(Handle) /\ WF_vars(Respond)

-------------------------------------------------------------------------------
(* Properties.                                                                   *)

Bodies == {i \in 1..Len(delivered) : delivered[i].type = "http.request"}

(* The parser is given the client's whole body, within the cap, in one piece and *)
(* once, or no body at all: never a prefix cut by a disconnect, by a             *)
(* cancellation or by the cap, whatever length was declared; and a second        *)
(* receive can only bring the disconnect.                                        *)
ParserSeesWholeBody ==
    \A i \in Bodies :
        /\ i = 1
        /\ upload = "complete"
        /\ delivered[i] = Request(sent, FALSE)
        /\ sent <= Cap

(* The middleware never holds more than the cap, and holds nothing once it has   *)
(* left the loop, whichever way it left.                                         *)
BufferBoundedAndReleased ==
    buffered <= Cap /\ (phase # "reading" => buffered = 0)

DeclaresTooMuch == Len(fields) = 1 /\ IsDigits(fields[1]) /\ NumberOf(fields[1]) > Cap

(* 413 is answered only to a request that declared a number above the cap, or    *)
(* really sent more: a body of exactly the cap passes.  Of a body declared above *)
(* it not a byte is read, however the number is written.                         *)
TooLargeHasCause ==
    /\ answer = "payload_too_large" => sent > Cap \/ DeclaresTooMuch
    /\ DeclaresTooMuch => phase # "reading" /\ delivered = <<>>

(* A request whose client finished the upload or went away is not held: the      *)
(* middleware and the application end it.                                        *)
EndsOnceClientIsDone == (upload # "open") ~> (phase = "ended")
===============================================================================
