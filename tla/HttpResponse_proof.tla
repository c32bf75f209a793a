-------------------------- MODULE HttpResponse_proof --------------------------
(***************************************************************************)
(* Lemmas about the operators of HttpResponse: what Headers::set() keeps,  *)
(* and which header fields serialize() puts on the wire, for any finite    *)
(* set of headers and any sizes.                                           *)
(***************************************************************************)
EXTENDS HttpResponse, FiniteSetTheorems, SequenceTheorems, TLAPS

HeaderFields == [name : Names, value : Nat]

\* Headers as Headers::set() leaves them: one of a name.
WellFormed(headers) == /\ headers \in SUBSET HeaderFields
                       /\ IsFiniteSet(headers)
                       /\ \A g, h \in headers : g.name = h.name => g = h

\* The headers of a name.
Stored(headers, name) == {h \in headers : h.name = name}

\* What is set is stored, alone of its name, and the other names keep what they had.
LEMMA SetStores ==
  ASSUME NEW headers, WellFormed(headers), NEW h \in HeaderFields
  PROVE  /\ WellFormed(Set(headers, h))
         /\ Stored(Set(headers, h), h.name) = {h}
         /\ \A name : name # h.name => Stored(Set(headers, h), name) = Stored(headers, name)
<1> DEFINE kept == {g \in headers : g.name # h.name}
<1>1. Set(headers, h) = kept \cup {h}
  BY DEF Set
<1>2. IsFiniteSet(kept \cup {h})
  BY FS_Subset, FS_AddElement DEF WellFormed
<1>3. WellFormed(Set(headers, h))
  BY <1>1, <1>2 DEF WellFormed
<1>4. Stored(Set(headers, h), h.name) = {h}
  BY <1>1 DEF Stored
<1>5. ASSUME NEW name, name # h.name PROVE Stored(Set(headers, h), name) = Stored(headers, name)
  BY <1>1, <1>5 DEF Stored
<1> QED
  BY <1>3, <1>4, <1>5

\* A finite set has a sequence of its elements.
LEMMA SetToSeqType ==
  ASSUME NEW S, IsFiniteSet(S)
  PROVE  SetToSeq(S) \in Seq(S) /\ Len(SetToSeq(S)) = Cardinality(S)
<1>1. Cardinality(S) \in Nat /\ ExistsBijection(1..Cardinality(S), S)
  BY FS_CardinalityType
<1>2. \E f \in [1..Cardinality(S) -> S] : IsInjective(f)
  BY <1>1 DEF ExistsBijection, Bijection, Injection
<1>3. SetToSeq(S) \in [1..Cardinality(S) -> S]
  BY <1>2 DEF SetToSeq
<1> QED
  BY <1>1, <1>3

\* A set of one gives a sequence of one.
LEMMA SetToSeqOne == ASSUME NEW h PROVE SetToSeq({h}) = <<h>>
<1>1. IsFiniteSet({h}) /\ Cardinality({h}) = 1
  BY FS_Singleton
<1>2. SetToSeq({h}) \in Seq({h}) /\ Len(SetToSeq({h})) = 1
  BY <1>1, SetToSeqType
<1> QED
  BY <1>2

\* Where the elements of two sequences stand in their concatenation.
LEMMA JoinedParts ==
  ASSUME NEW T, NEW s \in Seq(T), NEW t \in Seq(T), NEW k \in Nat, NEW m \in Nat,
         Len(s) = k, Len(t) = m
  PROVE  /\ s \o t \in Seq(T) /\ Len(s \o t) = k + m
         /\ \A i \in 1..k : (s \o t)[i] = s[i]
         /\ \A i \in 1..m : (s \o t)[k + i] = t[i]
         /\ \A i \in k + 1..m + k : (s \o t)[i] = t[i - k]
<1>1. /\ s \o t \in Seq(T) /\ Len(s \o t) = k + m
      /\ \A i \in 1..k + m : (s \o t)[i] = IF i <= k THEN s[i] ELSE t[i - k]
  BY ConcatProperties
<1>2. ASSUME NEW i \in 1..m PROVE (s \o t)[k + i] = t[i]
  <2>1. k + i \in 1..k + m /\ ~(k + i <= k) /\ (k + i) - k = i
    OBVIOUS
  <2> QED
    BY <1>1, <2>1
<1> QED
  BY <1>1, <1>2

(***************************************************************************)
(* serialize() writes Content-Length first, then Connection, Content-Type  *)
(* last, and between them no field of these names.  The first field is the *)
(* stored one, or the size of the body.                                    *)
(***************************************************************************)
LEMMA OnTheWire ==
  ASSUME NEW r, WellFormed(r.headers)
  PROVE  \E n \in Nat :
           /\ DOMAIN Serialize(r) = 1..n + 3
           /\ Serialize(r)[1].name = "content-length"
           /\ Serialize(r)[2].name = "connection"
           /\ Serialize(r)[n + 3].name = "content-type"
           /\ \A i \in 3..n + 2 : Serialize(r)[i].name \notin Written
           /\ \/ Stored(r.headers, "content-length") = {Serialize(r)[1]}
              \/ /\ Stored(r.headers, "content-length") = {}
                 /\ Serialize(r)[1].value = r.body
<1>1. ASSUME NEW name, NEW default
      PROVE  \E h : /\ ValuesOr(r, name, default) = <<h>> /\ h.name = name
                    /\ \/ Stored(r.headers, name) = {h}
                       \/ Stored(r.headers, name) = {} /\ h = Header(name, default)
  <2>1. CASE Stored(r.headers, name) = {}
    <3>1. ValuesOr(r, name, default) = <<Header(name, default)>>
      BY <2>1 DEF ValuesOr, Stored
    <3> QED
      BY <2>1, <3>1 DEF Header
  <2>2. CASE Stored(r.headers, name) # {}
    <3>1. PICK h \in r.headers : h.name = name
      BY <2>2 DEF Stored
    <3>2. Stored(r.headers, name) = {h}
      BY <3>1 DEF Stored, WellFormed
    <3>3. ValuesOr(r, name, default) = SetToSeq({h})
      BY <3>2 DEF ValuesOr, Stored
    <3> QED
      BY <3>1, <3>2, <3>3, SetToSeqOne
  <2> QED
    BY <2>1, <2>2
<1>2. PICK first : /\ ValuesOr(r, "content-length", r.body) = <<first>>
                   /\ first.name = "content-length"
                   /\ \/ Stored(r.headers, "content-length") = {first}
                      \/ /\ Stored(r.headers, "content-length") = {}
                         /\ first = Header("content-length", r.body)
  BY <1>1
<1>3. PICK last : ValuesOr(r, "content-type", 0) = <<last>> /\ last.name = "content-type"
  BY <1>1
<1> DEFINE second == Header("connection", IF r.keep_alive THEN 1 ELSE 0)
<1>4. second.name = "connection"
  BY DEF Header
<1> DEFINE others == SetToSeq(Others(r))
<1>5. IsFiniteSet(Others(r))
  BY FS_Subset DEF Others, WellFormed
<1>6. others \in Seq(Others(r))
  BY <1>5, SetToSeqType
<1>o. \A h \in Others(r) : h.name \notin Written
  BY DEF Others
<1>7. PICK n \in Nat : n = Len(others) /\ \A i \in 1..n : others[i] \in Others(r)
  <2> HIDE DEF others
  <2> QED
    BY <1>6
<1>8. Serialize(r) = <<first>> \o <<second>> \o others \o <<last>>
  BY <1>2, <1>3 DEF Serialize
<1> HIDE DEF others, second
<1> DEFINE T == Others(r) \cup {first, second, last}
<1>9. /\ <<first>> \in Seq(T) /\ <<second>> \in Seq(T) /\ <<last>> \in Seq(T)
      /\ others \in Seq(T)
  <2>1. Others(r) \subseteq T /\ first \in T /\ second \in T /\ last \in T
    OBVIOUS
  <2> HIDE DEF T
  <2> QED
    BY <1>6, <2>1, SeqMonotonic
<1> HIDE DEF T
<1>10. /\ <<first>> \o <<second>> \in Seq(T) /\ Len(<<first>> \o <<second>>) = 2
       /\ (<<first>> \o <<second>>)[1] = first /\ (<<first>> \o <<second>>)[2] = second
  BY <1>9
<1>11. PICK two \in Seq(T) : two = <<first>> \o <<second>> /\ Len(two) = 2
                             /\ two[1] = first /\ two[2] = second
  BY <1>10
<1>12. PICK tail \in Seq(T) : tail = <<last>> /\ Len(tail) = 1 /\ tail[1] = last
  BY <1>9
<1> DEFINE most == two \o others
           wire == most \o tail
<1>13. /\ most \in Seq(T) /\ Len(most) = 2 + n
       /\ \A i \in 1..2 : most[i] = two[i]
       /\ \A i \in 2 + 1..n + 2 : most[i] = others[i - 2]
  BY <1>7, <1>9, <1>11, JoinedParts
<1> HIDE DEF most
<1>m. PICK k \in Nat : k = n + 2 /\ Len(most) = k
  BY <1>13
<1>w. /\ wire \in Seq(T) /\ Len(wire) = k + 1
      /\ \A i \in 1..k : wire[i] = most[i]
      /\ wire[k + 1] = tail[1]
  <2>1. most \in Seq(T) /\ tail \in Seq(T) /\ Len(most) = k /\ Len(tail) = 1
    BY <1>m, <1>12, <1>13
  <2>2. /\ wire \in Seq(T) /\ Len(wire) = Len(most) + Len(tail)
        /\ \A i \in 1..Len(most) + Len(tail) :
             wire[i] = IF i <= Len(most) THEN most[i] ELSE tail[i - Len(most)]
    BY <2>1, ConcatProperties
  <2>3. \A i \in 1..k + 1 : wire[i] = IF i <= k THEN most[i] ELSE tail[i - k]
    BY <2>1, <2>2
  <2> QED
    BY <2>1, <2>2, <2>3
<1>14. Serialize(r) = wire
  BY <1>8, <1>11, <1>12 DEF most
<1> HIDE DEF wire
<1>15. /\ DOMAIN wire = 1..n + 3
       /\ wire[1] = first /\ wire[2] = second /\ wire[n + 3] = last
       /\ \A i \in 3..n + 2 : wire[i] = others[i - 2] /\ i - 2 \in 1..n
  BY <1>11, <1>12, <1>13, <1>m, <1>w
<1>16. \A i \in 3..n + 2 : wire[i].name \notin Written
  BY <1>o, <1>7, <1>15
<1>17. first.value = r.body \/ Stored(r.headers, "content-length") = {first}
  BY <1>2 DEF Header
<1> QED
  BY <1>2, <1>3, <1>4, <1>14, <1>15, <1>16, <1>17

-----------------------------------------------------------------------------

\* A response under construction: its fields, and its headers as Headers::set() leaves them.
Response(r) == /\ r = [status |-> r.status, body |-> r.body, keep_alive |-> r.keep_alive,
                       headers |-> r.headers]
               /\ r.body \in Nat
               /\ WellFormed(r.headers)

StoredLength(r) == Stored(r.headers, "content-length")

\* Neither constructor stores a Content-Length.
LEMMA NewResponse ==
  ASSUME NEW status
  PROVE  /\ Response(New(status)) /\ New(status).body = 0 /\ StoredLength(New(status)) = {}
         /\ Response(Default) /\ StoredLength(Default) = {}
<1>1. Header("content-type", 1) \in HeaderFields /\ Header("content-type", 1).name = "content-type"
  BY DEF Header, HeaderFields, Names
<1>2. WellFormed({Header("content-type", 1)})
  BY <1>1, FS_Singleton DEF WellFormed
<1>3. WellFormed({})
  BY FS_EmptySet DEF WellFormed
<1> QED
  BY <1>1, <1>2, <1>3 DEF New, Default, Response, StoredLength, Stored

\* A header is set and nothing else.
LEMMA HeaderResponse ==
  ASSUME NEW r, Response(r), NEW h \in HeaderFields
  PROVE  /\ Response(SetHeader(r, h)) /\ SetHeader(r, h).body = r.body
         /\ h.name = "content-length" => StoredLength(SetHeader(r, h)) = {h}
         /\ h.name # "content-length" => StoredLength(SetHeader(r, h)) = StoredLength(r)
<1>1. SetHeader(r, h) = [status |-> r.status, body |-> r.body, keep_alive |-> r.keep_alive,
                         headers |-> Set(r.headers, h)]
  BY DEF SetHeader, Response
<1>2. WellFormed(Set(r.headers, h))
  BY SetStores DEF Response
<1> QED
  BY <1>1, <1>2, SetStores DEF Response, StoredLength

\* So are the body, and whether to keep the connection.
LEMMA BodyResponse ==
  ASSUME NEW r, Response(r), NEW size \in Nat, NEW b
  PROVE  /\ Response(SetBody(r, size)) /\ SetBody(r, size).body = size
         /\ StoredLength(SetBody(r, size)) = StoredLength(r)
         /\ Response(SetKeepAlive(r, b)) /\ SetKeepAlive(r, b).body = r.body
         /\ StoredLength(SetKeepAlive(r, b)) = StoredLength(r)
<1>1. SetBody(r, size) = [status |-> r.status, body |-> size, keep_alive |-> r.keep_alive,
                          headers |-> r.headers]
  BY DEF SetBody, Response
<1>2. SetKeepAlive(r, b) = [status |-> r.status, body |-> r.body, keep_alive |-> b,
                            headers |-> r.headers]
  BY DEF SetKeepAlive, Response
<1> QED
  BY <1>1, <1>2 DEF Response, StoredLength

\* A factory stores the length of its body.
LEMMA FactoryResponse ==
  ASSUME NEW status, NEW size \in Nat
  PROVE  /\ Response(Factory(status, size)) /\ Factory(status, size).body = size
         /\ StoredLength(Factory(status, size)) = {Header("content-length", size)}
<1> DEFINE h == Header("content-length", size)
           r == SetBody(New(status), size)
<1>1. h \in HeaderFields /\ h.name = "content-length"
  BY DEF Header, HeaderFields, Names
<1>2. Response(r) /\ r.body = size
  BY NewResponse, BodyResponse
<1> HIDE DEF h, r
<1>3. Factory(status, size) = SetHeader(r, h)
  BY DEF Factory, h, r
<1>4. /\ Response(SetHeader(r, h)) /\ SetHeader(r, h).body = size
      /\ StoredLength(SetHeader(r, h)) = {h}
  BY <1>1, <1>2, HeaderResponse
<1> QED
  BY <1>3, <1>4 DEF h

=============================================================================
