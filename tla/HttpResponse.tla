---------------------------- MODULE HttpResponse ----------------------------
(***************************************************************************)
(* http::HttpResponse: what its constructor, factories and setters do, and *)
(* what serialize() puts on the wire.  A body is its size; a header is a   *)
(* name, case folded as Headers::set() does, and a number for its value,   *)
(* which is a size where the name is Content-Length.                       *)
(***************************************************************************)
EXTENDS Naturals, Sequences, SequencesExt

Names == {"content-type", "content-length", "connection", "other"}

Header(name, value) == [name |-> name, value |-> value]

\* Headers::set(): the name's earlier value is overwritten.
Set(headers, h) == {g \in headers : g.name # h.name} \cup {h}

\* HttpResponse(status), with Content-Type: text/plain, here 1.
New(status) == [status |-> status, body |-> 0, keep_alive |-> TRUE,
                headers |-> {Header("content-type", 1)}]

\* HttpResponse(), which stores no header at all.
Default == [status |-> 200, body |-> 0, keep_alive |-> TRUE, headers |-> {}]

SetHeader(r, h)   == [r EXCEPT !.headers = Set(@, h)]
SetBody(r, size)  == [r EXCEPT !.body = size]
SetKeepAlive(r, b) == [r EXCEPT !.keep_alive = b]

\* Variant: the length is taken before the body is set.
FactoryLengthFirst(status, size) ==
  SetBody(SetHeader(New(status), Header("content-length", 0)), size)

\* ok(), created(), no_content(), bad_request(), not_found() and the others.
Factory(status, size) ==
  SetHeader(SetBody(New(status), size), Header("content-length", size))

\* The headers serialize() writes itself, and skips when it writes the stored ones.
Written == {"content-length", "content-type", "connection"}

\* Variant: a Connection header set by the handler is written besides serialize()'s own.
OthersAndConnection(r) == {h \in r.headers : h.name \notin Written \ {"connection"}}

Others(r) == {h \in r.headers : h.name \notin Written}

\* The values stored under a name, or the one written when there is none.
ValuesOr(r, name, default) ==
  LET stored == {h \in r.headers : h.name = name}
  IN  IF stored = {} THEN <<Header(name, default)>> ELSE SetToSeq(stored)

\* The header fields on the wire, in order.  A Content-Type nobody stored is written empty,
\* here 0.
Serialize(r) ==
  ValuesOr(r, "content-length", r.body)
  \o <<Header("connection", IF r.keep_alive THEN 1 ELSE 0)>>
  \o SetToSeq(Others(r))
  \o ValuesOr(r, "content-type", 0)

=============================================================================
