----------------------------- MODULE HttpParser -----------------------------
(***************************************************************************)
(* http::HttpParser::parse(): what it makes of the bytes a connection has  *)
(* buffered.  The bytes are a sequence of units, the pieces the parser     *)
(* tells apart, each of which counts as one byte:                          *)
(*   line11, line10   a well-formed request line of HTTP/1.1, HTTP/1.0     *)
(*   field            a header field without a meaning of its own          *)
(*   colon            a header field with an empty name                    *)
(*   close            Connection: close                                    *)
(*   length           Content-Length: n, n what stoull() makes of the text *)
(*   badlength        Content-Length: something stoull() rejects           *)
(*   word             text without a colon, or a piece of a body           *)
(*   CR, LF                                                                *)
(* Where the code scans for line ends one after the other, the definitions *)
(* below name the set of them.                                             *)
(***************************************************************************)
EXTENDS Naturals, Sequences, FiniteSetsExt

CONSTANTS MaxRequestLine, MaxHeader, MaxBody      \* ParseLimits

ASSUME LimitsAssumption ==
  MaxRequestLine \in Nat /\ MaxHeader \in Nat /\ MaxBody \in Nat

RequestLines == {"line11", "line10"}
Fields == {"field", "colon", "close", "length", "badlength"}
Kinds  == RequestLines \cup Fields \cup {"word", "CR", "LF"}
Units  == [kind : Kinds, n : Nat]

Unit(kind) == [kind |-> kind, n |-> 0]
CRLF == <<Unit("CR"), Unit("LF")>>

-----------------------------------------------------------------------------

\* Where the "\r\n" in the data are.
LineEnds(data) == {e \in 1..Len(data) - 1 : SubSeq(data, e, e + 1) = CRLF}

\* The parts of trim() that matter: a line may still begin or end in single CRs and LFs.
Break(unit) == unit.kind \in {"CR", "LF"}

Trim(line) ==
  LET solid == {i \in 1..Len(line) : ~Break(line[i])}
  IN  IF solid = {} THEN <<>> ELSE SubSeq(line, Min(solid), Max(solid))

\* The header lines: the end of each one the loop visits, up to the first empty line.
\* An empty line is a CRLF right after another.
HeaderEnds(data) ==
  LET ends == LineEnds(data)
      eol  == Min(ends)
  IN  {e \in ends : e > eol /\ \A blank \in ends : blank < e /\ blank > eol => blank - 2 \notin ends}

Blank(data, e) == e - 2 \in LineEnds(data)

HeaderLine(data, e) ==
  LET previous == Max({p \in LineEnds(data) : p < e})
  IN  Trim(SubSeq(data, previous + 2, e - 1))

\* No colon, or no name before it.
Malformed(header) ==
  \/ \A i \in DOMAIN header : header[i].kind \notin Fields
  \/ header[1].kind = "colon"

\* Where the scan stops; an unfinished header line stops it as an empty line does.
HeaderStop(data) == Max({Min(LineEnds(data))} \cup HeaderEnds(data)) + 2

\* One more CRLF after the empty line is skipped.
BodyStart(data) ==
  IF HeaderStop(data) \in LineEnds(data) THEN HeaderStop(data) + 2 ELSE HeaderStop(data)

\* The last field of some kinds, if there is one: Headers::set() overwrites.
LastField(data, kinds) ==
  LET ends == {e \in HeaderEnds(data) : ~Blank(data, e) /\ HeaderLine(data, e)[1].kind \in kinds}
  IN  IF ends = {} THEN <<>> ELSE HeaderLine(data, Max(ends))

\* Variant: HTTP/1.0 is kept alive like HTTP/1.1.
KeepOldAlive(data) == LastField(data, {"close"}) # <<Unit("close")>>

\* HttpRequest::keep_alive(): whatever Connection says, unless it is just "close".
KeepAlive(data) ==
  LET connection == LastField(data, {"close"})
  IN  IF connection = <<>> THEN data[1].kind = "line11" ELSE connection # <<Unit("close")>>

-----------------------------------------------------------------------------

Requests == [line : Units, fields : SUBSET Seq(Units), body : Seq(Units), keep : BOOLEAN]

NoRequest == [line |-> Unit("word"), fields |-> {}, body |-> <<>>, keep |-> FALSE]

Fail(error) == [error |-> error, consumed |-> 0, request |-> NoRequest]

Request(data, size) ==
  [line   |-> data[1],
   fields |-> {HeaderLine(data, e) : e \in {h \in HeaderEnds(data) : ~Blank(data, h)}},
   body   |-> SubSeq(data, BodyStart(data), BodyStart(data) + size - 1),
   keep   |-> KeepAlive(data)]

\* Variant: the body is left in the buffer.
DeliverHead(data, size) ==
  [error |-> "None", consumed |-> BodyStart(data) - 1, request |-> Request(data, size)]

Deliver(data, size) ==
  [error |-> "None", consumed |-> BodyStart(data) - 1 + size, request |-> Request(data, size)]

\* Variant: a body larger than the limit is waited for.
UnlimitedBody(data) ==
  LET field == LastField(data, {"length", "badlength"})
      size  == IF field = <<>> THEN 0 ELSE field[1].n
  IN  IF field # <<>> /\ field[1].kind = "badlength" THEN Fail("InvalidContentLength")
      ELSE IF Len(data) - (BodyStart(data) - 1) < size THEN Fail("IncompleteRequest")
      ELSE Deliver(data, size)

\* The end of parse(): Content-Length, if the last one says anything.
ParseBody(data) ==
  LET field == LastField(data, {"length", "badlength"})
      size  == IF field = <<>> THEN 0 ELSE field[1].n
  IN  IF field # <<>> /\ field[1].kind = "badlength" THEN Fail("InvalidContentLength")
      ELSE IF size > MaxBody THEN Fail("BodyTooLarge")
      ELSE IF Len(data) - (BodyStart(data) - 1) < size THEN Fail("IncompleteRequest")
      ELSE Deliver(data, size)

\* The header loop: the first line that is malformed, or that takes the sum of the lines'
\* sizes beyond the limit, decides.
ParseHeaders(data) ==
  LET eol == Min(LineEnds(data))
      malformed == {e \in HeaderEnds(data) : ~Blank(data, e) /\ Malformed(HeaderLine(data, e))}
      large     == {e \in HeaderEnds(data) : ~Blank(data, e) /\ e - eol > MaxHeader}
  IN  IF malformed \cup large = {} THEN ParseBody(data)
      ELSE IF Min(malformed \cup large) \in malformed THEN Fail("InvalidHeader")
      ELSE Fail("HeaderTooLarge")

\* The errors of a request line that ended are told apart by nobody: they are one.
Parse(data) ==
  IF LineEnds(data) = {}
  THEN Fail(IF Len(data) > MaxRequestLine THEN "RequestLineTooLarge" ELSE "IncompleteRequest")
  ELSE LET size == Min(LineEnds(data)) - 1
       IN  IF size > MaxRequestLine THEN Fail("RequestLineTooLarge")
           ELSE IF size # 1 \/ data[1].kind \notin RequestLines THEN Fail("InvalidRequestLine")
           ELSE ParseHeaders(data)

-----------------------------------------------------------------------------

\* Reference: a message a client writes with n header fields, and the request it means.
Writes(m, n) ==
  LET field(j) == m.bytes[3 * j + 1]
      head     == 3 * n + 5
      body     == SubSeq(m.bytes, head + 1, Len(m.bytes))
  IN  /\ head <= Len(m.bytes)
      /\ m.bytes[1].kind \in RequestLines
      /\ \A j \in 0..n : SubSeq(m.bytes, 3 * j + 2, 3 * j + 3) = CRLF
      /\ SubSeq(m.bytes, 3 * n + 4, head) = CRLF
      /\ \A j \in 1..n : \/ field(j).kind = "field" \/ field(j) = Unit("close")
                         \/ field(j).kind = "length" /\ field(j).n = Len(body)
      /\ body = <<>> \/ \E j \in 1..n : field(j).kind = "length"
      /\ m.request = [line |-> m.bytes[1], fields |-> {<<field(j)>> : j \in 1..n}, body |-> body,
                      keep |-> m.bytes[1].kind = "line11" /\ \A j \in 1..n : field(j).kind # "close"]

WellWritten(m) == \E n \in 0..Len(m.bytes) : Writes(m, n)

\* Of such a message: its request line, header fields and body are within the limits.
WithinLimits(m) == /\ MaxRequestLine >= 1
                   /\ Len(m.bytes) - Len(m.request.body) - 5 <= MaxHeader
                   /\ Len(m.request.body) <= MaxBody

=============================================================================
