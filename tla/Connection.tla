----------------------------- MODULE Connection -----------------------------
(***************************************************************************)
(* server::Connection after its handshake: run() reads, parses, handles    *)
(* and answers one request after the other, on one worker.  The client has *)
(* decided what it will send; how much of it each read() returns, and when *)
(* the client ends its stream or resets it, is up to the network.          *)
(*                                                                         *)
(* close() and the destructor's close() leave the same state: it is the    *)
(* last step of the runs that end in "closed", "rejected" and "threw".     *)
(***************************************************************************)
EXTENDS HttpParser, SequencesExt

CONSTANTS Scripts,            \* what clients may send: sequences of messages, each with
                              \* its bytes and the request it means
          BufferSize,         \* the buffer of read_request()
          KeepAliveSeconds,   \* keep_alive_timeout_seconds_
          SplitHeads          \* may a read end between the first unit of a request's
                              \* head and its last?

ASSUME ConnectionAssumption == /\ \A script \in Scripts :
                                    script \in Seq([bytes : Seq(Units), request : Requests])
                               /\ BufferSize \in Nat \ {0}
                               /\ KeepAliveSeconds \in Nat
                               /\ SplitHeads \in BOOLEAN

VARIABLES
  messages,      \* all the client sends
  stream,        \* the same, as bytes
  received,      \* how much of it has been read
  peer,          \* "sending", or how the client left
  read_buffer_,  \* Connection::read_buffer_
  at,            \* where run() is
  request,       \* the request in hand
  served,        \* history: the requests the handler was called for
  answered       \* history: how many responses were sent

network == <<messages, stream, received, peer>>
vars == <<network, read_buffer_, at, request, served, answered>>

Places == {"parsing", "reading", "handling", "sending", "deciding",
           "closed", "rejected", "threw"}

\* Messages as they follow each other on the wire.
Bytes(script) == FlattenSeq([i \in DOMAIN script |-> script[i].bytes])

Init == /\ messages \in Scripts
        /\ stream = Bytes(messages)
        /\ received = 0
        /\ peer = "sending"
        /\ read_buffer_ = <<>>
        /\ at = "parsing"
        /\ request = NoRequest
        /\ served = <<>>
        /\ answered = 0

Goes(a, b) == at = a /\ at' = b

-----------------------------------------------------------------------------
(* read_request().                                                         *)

\* Variant: what was consumed is what is kept.
ExtractTail == LET result == Parse(read_buffer_)
               IN  /\ Goes("parsing", "handling")
                   /\ result.error = "None"
                   /\ read_buffer_' = SubSeq(read_buffer_, 1, result.consumed)
                   /\ request' = result.request
                   /\ UNCHANGED <<network, served, answered>>

\* Variant: the whole buffer is taken for the request.
ExtractAll == /\ Parse(read_buffer_).error = "None"
              /\ Goes("parsing", "handling")
              /\ read_buffer_' = <<>>
              /\ request' = Parse(read_buffer_).request
              /\ UNCHANGED <<network, served, answered>>

Extract == LET result == Parse(read_buffer_)
           IN  /\ Goes("parsing", "handling")
               /\ result.error = "None"
               /\ read_buffer_' = SubSeq(read_buffer_, result.consumed + 1, Len(read_buffer_))
               /\ request' = result.request
               /\ UNCHANGED <<network, served, answered>>

\* The exception leaves run(): no response is sent.
Reject == /\ Goes("parsing", "rejected")
          /\ Parse(read_buffer_).error \notin {"None", "IncompleteRequest"}
          /\ UNCHANGED <<network, read_buffer_, request, served, answered>>

NeedMore == /\ Goes("parsing", "reading")
            /\ Parse(read_buffer_).error = "IncompleteRequest"
            /\ UNCHANGED <<network, read_buffer_, request, served, answered>>

\* Is the client's stream cut inside a request's head after n units?
InsideHead(n) ==
  \E i \in 1..n : /\ stream[i].kind \in RequestLines
                  /\ \A j \in i..n - 3 : SubSeq(stream, j, j + 3) # CRLF \o CRLF

Read(n) == /\ Goes("reading", "parsing")
           /\ peer # "reset"
           /\ n <= Len(stream) - received
           /\ SplitHeads \/ ~InsideHead(received + n)
           /\ read_buffer_' = read_buffer_ \o SubSeq(stream, received + 1, received + n)
           /\ received' = received + n
           /\ UNCHANGED <<messages, stream, peer, request, served, answered>>

\* Variant: only a negative count ends the connection.
ReadAgain == /\ at = "reading"
             /\ peer = "ended" /\ received = Len(stream)
             /\ UNCHANGED vars

\* read() returns 0, or -1 from SSL_read().
EndOfStream == /\ Goes("reading", "closed")
               /\ peer = "ended" /\ received = Len(stream)
               /\ UNCHANGED <<network, read_buffer_, request, served, answered>>

ReadFails == /\ Goes("reading", "closed")
             /\ peer = "reset"
             /\ UNCHANGED <<network, read_buffer_, request, served, answered>>

-----------------------------------------------------------------------------
(* run(): the handler, the response, and whether to go on.                 *)

Handle == /\ Goes("handling", "sending")
          /\ served' = Append(served, request)
          /\ UNCHANGED <<network, read_buffer_, request, answered>>

HandlerThrows == /\ Goes("handling", "threw")
                 /\ served' = Append(served, request)
                 /\ UNCHANGED <<network, read_buffer_, request, answered>>

\* Variant: a loop around send() that takes no bytes sent for progress.
SendAgain == at = "sending" /\ UNCHANGED vars

\* A blocking send() takes the whole payload.
SendResponse == /\ Goes("sending", "deciding")
                /\ answered' = answered + 1
                /\ UNCHANGED <<network, read_buffer_, request, served>>

SendFails == /\ Goes("sending", "closed")
             /\ peer = "reset"
             /\ UNCHANGED <<network, read_buffer_, request, served, answered>>

\* Variant: after a response the connection waits for bytes, whatever it has buffered.
WaitForBytes == /\ Goes("deciding", IF request.keep /\ KeepAliveSeconds > 0 THEN "reading"
                                    ELSE "closed")
                /\ UNCHANGED <<network, read_buffer_, request, served, answered>>

\* Variant: every connection is kept.
DecideToKeep == /\ Goes("deciding", "parsing")
                /\ UNCHANGED <<network, read_buffer_, request, served, answered>>

Decide == /\ Goes("deciding", IF request.keep /\ KeepAliveSeconds > 0 THEN "parsing" ELSE "closed")
          /\ UNCHANGED <<network, read_buffer_, request, served, answered>>

-----------------------------------------------------------------------------
(* The client.                                                             *)

PeerLeaves(how) == /\ peer = "sending"
                   /\ peer' = how
                   /\ UNCHANGED <<messages, stream, received, read_buffer_, at, request, served, answered>>

\* run() has ended.
Ended == at \in {"closed", "rejected", "threw"} /\ UNCHANGED vars

-----------------------------------------------------------------------------

ReadStep == (\E n \in 1..BufferSize : Read(n)) \/ EndOfStream \/ ReadFails

Serve == Handle \/ HandlerThrows \/ SendResponse \/ SendFails \/ Decide

Next == \/ Extract \/ Reject \/ NeedMore \/ ReadStep \/ Serve
        \/ \E how \in {"ended", "reset"} : PeerLeaves(how)
        \/ Ended

SafeSpec == Init /\ [][Next]_vars

\* Parse() returns, so one of Extract, Reject and NeedMore takes the thread on.
Parsing == at = "parsing" /\ at' \in Places

\* The worker runs, and what was sent arrives; nothing makes the client leave.
Spec == SafeSpec /\ WF_at(Parsing) /\ WF_vars(ReadStep) /\ WF_vars(Serve)

-----------------------------------------------------------------------------
(* Properties.                                                             *)

\* The types; and the bytes read are those consumed, followed by those buffered.
TypeOK == /\ received \in 0..Len(stream)
          /\ peer \in {"sending", "ended", "reset"}
          /\ at \in Places
          /\ answered \in Len(served) - 1..Len(served)
          /\ Len(read_buffer_) <= received
          /\ read_buffer_ = SubSeq(stream, received - Len(read_buffer_) + 1, received)

\* The messages read() has returned to the last byte.
Complete == {i \in DOMAIN messages : Len(Bytes(SubSeq(messages, 1, i))) <= received}

\* Neither of the first n messages has a body that begins with a line end.
PlainBodies(n) == \A i \in 1..n : ~IsPrefix(CRLF, messages[i].request.body)

(***************************************************************************)
(* The handler is called with the requests the client means, each once, in *)
(* their order and with their own fields and bodies, whether they arrive   *)
(* one by one, several in a read or a body in pieces.  The one exception:  *)
(* a body that begins with a CRLF loses it, and what follows is shifted.   *)
(***************************************************************************)
FramingExact ==
  \A i \in DOMAIN served :
    PlainBodies(Min({i, Len(messages)})) => i <= Len(messages) /\ served[i] = messages[i].request

\* run() waits in read() only when each message that has come in whole is answered:
\* client and server never wait for each other over a pipelined request.
NoAnswerOwedWhileReading ==
  at = "reading" /\ PlainBodies(Cardinality(Complete)) => answered = Cardinality(Complete)

\* Nothing is served after a request that asked for the connection to be closed, or that
\* the version closes, however much of the next ones is buffered.
NothingServedAfterClose ==
  \A i \in 1..Len(served) - 1 :
    PlainBodies(Min({i, Len(messages)})) => messages[i].request.keep /\ KeepAliveSeconds > 0

\* However little a client cares for the syntax, and however its bytes are cut, the
\* connection waits for more only while read_buffer_ holds less than one request within
\* the limits: its memory is bounded by them and by one more read().
BufferBounded ==
  at = "reading" => Len(read_buffer_) < MaxRequestLine + 2 + MaxHeader + 4 + MaxBody

\* No bytes make run() parse for ever: it comes to its end once the client has gone.
EndsAfterClient == (peer # "sending") ~> (at \in {"closed", "rejected", "threw"})

\* The requests the server is to answer: up to the first that ends the connection.
Due == LET last == {i \in DOMAIN messages : ~messages[i].request.keep \/ KeepAliveSeconds = 0}
       IN  IF last = {} THEN Len(messages) ELSE Min(last)

(***************************************************************************)
(* A client whose requests are within the limits is not turned away, and   *)
(* when run() has ended and no handler threw it has had every response due *)
(* to it, no more and no less, unless it reset the connection.             *)
(***************************************************************************)
AllDueAnswered ==
  /\ PlainBodies(Len(messages)) /\ peer # "reset"
  /\ \A i \in DOMAIN messages : WithinLimits(messages[i])
  /\ at \in {"closed", "rejected"}
  => answered = Due

\* A client that has sent its requests and ended its stream gets all the responses due to
\* it, unless a handler throws.
EveryRequestAnswered ==
  (peer = "ended" /\ PlainBodies(Len(messages)))
    ~> (at = "threw" \/ (at = "closed" /\ answered = Due))

-----------------------------------------------------------------------------
(* What the connection implements.                                         *)

Over == {"closed", "rejected", "threw"}

Abstract == INSTANCE Session WITH Lasting <- KeepAliveSeconds > 0,
                                  over    <- at \in Over

\* run() behaves as a session: whatever the bytes, what is pipelined and when the client
\* leaves, requests are served one at a time, the next only when the one before is
\* answered and allows it.
ImplementsSessionSafety == Abstract!SafeSpec

\* And a request in hand is answered or given up, and the last one ends the connection,
\* even if the client stays.
ImplementsSession == Abstract!Spec

=============================================================================
