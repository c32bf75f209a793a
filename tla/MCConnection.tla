---------------------------- MODULE MCConnection ----------------------------
(* Messages and bounds for model-checking Connection.                      *)
EXTENDS Connection

U(kind, n) == [kind |-> kind, n |-> n]

Request11 == U("line11", 1)
Request10 == U("line10", 2)
AField    == Unit("field")
Close     == Unit("close")
Word      == Unit("word")
Length(n) == U("length", n)

\* A message as a client writes it, and what it means.
Message(line, fields, body, keep) ==
  [bytes   |-> <<line>> \o CRLF \o FlattenSeq([i \in DOMAIN fields |-> <<fields[i]>> \o CRLF])
               \o CRLF \o body,
   request |-> [line |-> line, fields |-> {<<fields[i]>> : i \in DOMAIN fields},
                body |-> body, keep |-> keep]]

Bare       == Message(Request11, <<>>, <<>>, TRUE)
Old        == Message(Request10, <<AField>>, <<>>, FALSE)
Closing    == Message(Request11, <<Close>>, <<>>, FALSE)
Posted     == Message(Request11, <<AField, Length(2)>>, <<Word, Word>>, TRUE)
PostedText == Message(Request11, <<Length(4)>>, <<Word>> \o CRLF \o <<Word>>, TRUE)
LineFirst  == Message(Request11, <<Length(3)>>, CRLF \o <<Word>>, TRUE)

\* Up to three requests in a row, pipelined or not, closing ones anywhere.
ThreeMessages == [1..3 -> {Bare, Old, Closing, Posted, PostedText, LineFirst}]

\* They are messages as the theorems about framing take them.
ASSUME MessagesAssumption ==
  \A m \in {Bare, Old, Closing, Posted, PostedText, LineFirst} : WellWritten(m)

Split == {<<Posted>>}

\* Any bytes: pieces of requests, of fields and of nothing in particular, in any order,
\* most often after a request line, one of which ends the connection.
Pieces == {<<Request11>> \o CRLF, <<AField>> \o CRLF, <<Length(1)>> \o CRLF, <<Length(9)>> \o CRLF,
           <<Unit("badlength")>> \o CRLF, <<Unit("colon")>> \o CRLF, CRLF, <<Word>>}

Starts == {<<>>, <<Request11>> \o CRLF, <<Request11>> \o CRLF \o <<Length(1)>> \o CRLF,
           <<U("line10", 1)>> \o CRLF}

AnyBytes == {<<[bytes |-> start \o FlattenSeq(s), request |-> NoRequest]>> :
               start \in Starts, s \in [1..3 -> Pieces]}

=============================================================================
