-------------------------- MODULE Connection_proof --------------------------
(***************************************************************************)
(* Proofs about Connection for every set of scripts, every buffer size,    *)
(* limit and keep-alive time: whatever the parser makes of the bytes, a    *)
(* connection is a session, what it buffers is what it has read and not    *)
(* consumed, and is bounded; and of clients whose requests are written as  *)
(* they should be it serves each once, whole, in order, and none too many. *)
(***************************************************************************)
EXTENDS Connection, NumberSets, SequenceTheorems, FiniteSetTheorems, TLAPS

KeepsOpen(r) == r.keep /\ KeepAliveSeconds > 0

(***************************************************************************)
(* Where run() is says what is owed.  Before the handler is called all is  *)
(* answered, and the request served last left the connection open; then    *)
(* one answer is owed, for the request in hand; after it none.             *)
(***************************************************************************)
SessionInv ==
  /\ at \in Places
  /\ served \in Seq(Range(served))
  /\ answered \in Nat
  /\ at \in {"parsing", "reading", "handling"} =>
       answered = Len(served) /\ (served # <<>> => KeepsOpen(served[Len(served)]))
  /\ at = "sending" => answered + 1 = Len(served) /\ served[Len(served)] = request
  /\ at = "deciding" => /\ answered = Len(served)
                        /\ served # <<>>
                        /\ served[Len(served)] = request

\* What is served is a sequence of what was served, also when one more request is.
LEMMA AppendServed ==
  ASSUME NEW s, s \in Seq(Range(s)), NEW r
  PROVE  /\ Append(s, r) \in Seq(Range(Append(s, r)))
         /\ Len(Append(s, r)) = Len(s) + 1
         /\ Append(s, r)[Len(s) + 1] = r
         /\ Append(s, r) # <<>>
         /\ SubSeq(Append(s, r), 1, Len(s)) = s
<1> DEFINE S == Range(s) \cup {r}
           t == Append(s, r)
<1>1. s \in Seq(S) /\ r \in S
  OBVIOUS
<1>2. /\ t \in Seq(S)
      /\ Len(t) = Len(s) + 1
      /\ t[Len(s) + 1] = r
      /\ t # <<>>
      /\ SubSeq(t, 1, Len(s)) = s
      /\ \A i \in 1 .. Len(s) : t[i] = s[i]
  BY <1>1
<1>3. \A i \in 1 .. Len(t) : t[i] \in Range(t)
  BY <1>2 DEF Range
<1>4. t \in Seq(Range(t))
  BY <1>2, <1>3
<1> QED
  BY <1>2, <1>4

\* A new connection has served and answered nothing.
LEMMA SessionInit == Init => SessionInv /\ Abstract!Init
<1> SUFFICES ASSUME Init PROVE SessionInv /\ Abstract!Init
  OBVIOUS
<1>1. served = <<>> /\ answered = 0 /\ at = "parsing"
  BY DEF Init
<1> QED
  BY <1>1 DEF SessionInv, Places, Abstract!Init, Over

(***************************************************************************)
(* Every step of the connection keeps the invariant and is a step of the   *)
(* session, or none: one step of the proof for each action.                *)
(***************************************************************************)
LEMMA SessionStep == SessionInv /\ [Next]_vars => SessionInv' /\ [Abstract!Next]_(Abstract!vars)
<1> SUFFICES ASSUME SessionInv, [Next]_vars
             PROVE  SessionInv' /\ [Abstract!Next]_(Abstract!vars)
  OBVIOUS
<1>len. Len(served) \in Nat
  BY DEF SessionInv
<1> USE DEF SessionInv, Goes, Places, Over, network, KeepsOpen
<1>1. CASE UNCHANGED vars
  BY <1>1 DEF vars, Abstract!vars
<1>2. CASE Extract
  BY <1>2 DEF Extract, Abstract!vars
<1>3. CASE Reject
  BY <1>3 DEF Reject, Abstract!Next, Abstract!End
<1>4. CASE NeedMore
  BY <1>4 DEF NeedMore, Abstract!vars
<1>5. CASE ReadStep
  <2>1. CASE \E n \in 1 .. BufferSize : Read(n)
    BY <2>1 DEF Read, Abstract!vars
  <2>2. CASE EndOfStream
    BY <2>2 DEF EndOfStream, Abstract!Next, Abstract!End
  <2>3. CASE ReadFails
    BY <2>3 DEF ReadFails, Abstract!Next, Abstract!End
  <2> QED
    BY <1>5, <2>1, <2>2, <2>3 DEF ReadStep
<1>6. CASE Handle \/ HandlerThrows
  <2>1. /\ at = "handling" /\ at' \in {"sending", "threw"}
        /\ served' = Append(served, request)
        /\ UNCHANGED <<request, answered>>
    BY <1>6 DEF Handle, HandlerThrows
  <2>2. /\ served' \in Seq(Range(served)')
        /\ Len(served') = Len(served) + 1
        /\ served'[Len(served')] = request
        /\ SubSeq(served', 1, Len(served)) = served
    BY <2>1, AppendServed
  <2>3. SessionInv'
    BY <2>1, <2>2
  <2>4. Abstract!Serve
    BY <2>1, <2>2 DEF Abstract!Serve, Abstract!Continues
  <2> QED
    BY <2>3, <2>4 DEF Abstract!Next
<1>7. CASE SendResponse
  <2>1. served # <<>>
    BY <1>7, <1>len DEF SendResponse
  <2>2. SessionInv'
    BY <1>7, <2>1, <1>len DEF SendResponse
  <2>3. Abstract!Answer
    BY <1>7 DEF SendResponse, Abstract!Answer
  <2> QED
    BY <2>2, <2>3 DEF Abstract!Next
<1>8. CASE SendFails
  BY <1>8 DEF SendFails, Abstract!Next, Abstract!End
<1>9. CASE Decide
  <2>1. CASE request.keep /\ KeepAliveSeconds > 0
    BY <1>9, <2>1 DEF Decide, Abstract!vars
  <2>2. CASE ~(request.keep /\ KeepAliveSeconds > 0)
    BY <1>9, <2>2 DEF Decide, Abstract!Next, Abstract!End
  <2> QED
    BY <2>1, <2>2
<1>10. CASE \E how \in {"ended", "reset"} : PeerLeaves(how)
  BY <1>10 DEF PeerLeaves, Abstract!vars
<1> QED
  BY <1>1, <1>2, <1>3, <1>4, <1>5, <1>6, <1>7, <1>8, <1>9, <1>10 DEF Next, Serve, Ended

(***************************************************************************)
(* Connection::run() serves requests as a session does: one at a time, the *)
(* next only when the one before was answered and allows it, none after    *)
(* the last, whatever bytes arrive and whatever the parser makes of them.  *)
(***************************************************************************)
THEOREM ConnectionIsSession == SafeSpec => ImplementsSessionSafety
  BY SessionInit, SessionStep, PTL DEF SafeSpec, ImplementsSessionSafety, Abstract!SafeSpec

-----------------------------------------------------------------------------
(* Sequences of sequences.                                                 *)

\* The pieces of a flattened sequence, one after the other.
Joins(seqs, f) ==
  f = [i \in 1..Len(seqs) |-> IF i = 1 THEN seqs[i] ELSE f[i - 1] \o seqs[i]]

\* The function FlattenSeq chooses is there, and there is only one.
LEMMA JoinsExists ==
  ASSUME NEW T, NEW seqs \in Seq(Seq(T))
  PROVE  /\ \E f : Joins(seqs, f)
         /\ \A f : Joins(seqs, f) => \A i \in 1..Len(seqs) : f[i] \in Seq(T)
<1>1. PICK n \in Nat : n = Len(seqs)
  OBVIOUS
<1>e. \A i \in 1..n : seqs[i] \in Seq(T)
  BY <1>1
<1> DEFINE Part(k, f) == f = [i \in 1..k |-> IF i = 1 THEN seqs[i] ELSE f[i - 1] \o seqs[i]]
           S == {k \in Nat : \E f : Part(k, f)}
<1>2. 0 \in S
  <2> DEFINE f == [i \in 1..0 |-> <<>>]
  <2>1. Part(0, f)
    OBVIOUS
  <2> QED
    BY <2>1
<1>3. ASSUME NEW k \in Nat, k \in S PROVE k + 1 \in S
  <2>1. PICK f : Part(k, f)
    BY <1>3
  <2> DEFINE g == [i \in 1..k + 1 |-> IF i = k + 1 THEN IF i = 1 THEN seqs[i] ELSE f[k] \o seqs[i]
                                      ELSE f[i]]
  <2>2. ASSUME NEW i \in 1..k + 1
        PROVE  g[i] = IF i = 1 THEN seqs[i] ELSE g[i - 1] \o seqs[i]
    <3>1. CASE i = k + 1
      BY <3>1
    <3>2. CASE i # k + 1
      <4>1. i \in 1..k /\ g[i] = f[i] /\ (i # 1 => i - 1 \in 1..k /\ g[i - 1] = f[i - 1])
        BY <3>2
      <4> QED
        BY <2>1, <4>1
    <3> QED
      BY <3>1, <3>2
  <2>3. Part(k + 1, g)
    BY <2>2
  <2>4. k + 1 \in Nat
    OBVIOUS
  <2> HIDE DEF g
  <2>5. \E h : Part(k + 1, h)
    BY <2>3
  <2> HIDE DEF Part
  <2> QED
    BY <2>4, <2>5
<1>4. n \in S
  <2> HIDE DEF S
  <2> QED
    BY <1>2, <1>3, Inductive
<1>5. ASSUME NEW f, Joins(seqs, f) PROVE \A i \in 1..n : f[i] \in Seq(T)
  <2> DEFINE U == {k \in Nat : k \in 1..n => f[k] \in Seq(T)}
  <2>1. 0 \in U
    OBVIOUS
  <2>2. ASSUME NEW k \in Nat, k \in U PROVE k + 1 \in U
    <3>1. SUFFICES ASSUME k + 1 \in 1..n PROVE f[k + 1] \in Seq(T)
      OBVIOUS
    <3>2. f[k + 1] = IF k + 1 = 1 THEN seqs[k + 1] ELSE f[(k + 1) - 1] \o seqs[k + 1]
      BY <1>1, <1>5, <3>1 DEF Joins
    <3>3. seqs[k + 1] \in Seq(T)
      BY <1>e, <3>1
    <3>4. CASE k = 0
      BY <3>2, <3>3, <3>4
    <3>5. CASE k # 0
      <4>1. f[k] \in Seq(T) /\ (k + 1) - 1 = k /\ k + 1 # 1
        BY <2>2, <3>1, <3>5
      <4>2. f[k + 1] = f[k] \o seqs[k + 1]
        BY <3>2, <4>1
      <4> QED
        BY <3>3, <4>1, <4>2
    <3> QED
      BY <3>4, <3>5
  <2>3. \A k \in Nat : k \in U
    <3> HIDE DEF U
    <3> QED
      BY <2>1, <2>2, Inductive
  <2> QED
    BY <2>3
<1> QED
  BY <1>1, <1>4, <1>5 DEF Joins

LEMMA JoinsAt ==
  ASSUME NEW seqs, NEW f, Joins(seqs, f), NEW i \in 1..Len(seqs)
  PROVE  f[i] = IF i = 1 THEN seqs[i] ELSE f[i - 1] \o seqs[i]
<1>1. f[i] = [j \in 1..Len(seqs) |-> IF j = 1 THEN seqs[j] ELSE f[j - 1] \o seqs[j]][i]
  BY DEF Joins
<1> QED
  BY <1>1

\* FlattenSeq() of some sequences is what there was without the last, and the last.
LEMMA FlattenLast ==
  ASSUME NEW T, NEW seqs \in Seq(Seq(T)), NEW n \in Nat, Len(seqs) = n + 1
  PROVE  FlattenSeq(seqs) = FlattenSeq(SubSeq(seqs, 1, n)) \o seqs[n + 1]
<1> DEFINE F(f) == f = [i \in 1..Len(seqs) |-> IF i = 1 THEN seqs[i] ELSE f[i - 1] \o seqs[i]]
<1>1. FlattenSeq(seqs) = (CHOOSE f : F(f))[Len(seqs)]
  BY DEF FlattenSeq
<1>2. PICK f : f = (CHOOSE g : F(g)) /\ Joins(seqs, f)
  BY JoinsExists DEF Joins
<1>3. FlattenSeq(seqs) = f[n + 1]
  BY <1>1, <1>2
<1>j. Joins(seqs, f)
  BY <1>2
<1> HIDE DEF F
<1>4. f[n + 1] = IF n + 1 = 1 THEN seqs[n + 1] ELSE f[(n + 1) - 1] \o seqs[n + 1]
  <2>1. n + 1 \in 1..Len(seqs)
    OBVIOUS
  <2> QED
    BY <1>j, <2>1, JoinsAt
<1> DEFINE first == SubSeq(seqs, 1, n)
<1>5. first \in Seq(Seq(T)) /\ Len(first) = n /\ \A i \in 1..n : first[i] = seqs[i]
  OBVIOUS
<1>6. seqs[n + 1] \in Seq(T)
  OBVIOUS
<1>7. CASE n = 0
  <2>1. first = <<>>
    BY <1>5, <1>7
  <2>2. FlattenSeq(first) = <<>>
    BY <2>1 DEF FlattenSeq
  <2>3. FlattenSeq(seqs) = seqs[n + 1]
    BY <1>3, <1>4, <1>7
  <2>4. <<>> \o seqs[n + 1] = seqs[n + 1]
    BY <1>6, ConcatEmptySeq
  <2> HIDE DEF first
  <2> QED
    BY <2>2, <2>3, <2>4 DEF first
<1>8. CASE n # 0
  <2> HIDE DEF first
  <2> DEFINE G(g) == g = [i \in 1..Len(first) |-> IF i = 1 THEN first[i] ELSE g[i - 1] \o first[i]]
  <2>1. FlattenSeq(first) = (CHOOSE g : G(g))[Len(first)]
    BY <1>5, <1>8 DEF FlattenSeq
  <2>e. \E g : G(g)
    BY <1>5, JoinsExists DEF Joins
  <2>2. PICK g : g = (CHOOSE h : G(h))
    OBVIOUS
  <2>j. Joins(first, g)
    <3> HIDE DEF G
    <3>1. G(g)
      BY <2>e, <2>2
    <3> QED
      BY <3>1 DEF G, Joins
  <2> HIDE DEF G
  <2>3. FlattenSeq(first) = g[n]
    BY <1>5, <2>1, <2>2
  <2> DEFINE U == {k \in Nat : k \in 1..n => f[k] = g[k]}
  <2>4. 0 \in U
    OBVIOUS
  <2>5. ASSUME NEW k \in Nat, k \in U PROVE k + 1 \in U
    <3>1. SUFFICES ASSUME k + 1 \in 1..n PROVE f[k + 1] = g[k + 1]
      OBVIOUS
    <3>2. f[k + 1] = IF k + 1 = 1 THEN seqs[k + 1] ELSE f[(k + 1) - 1] \o seqs[k + 1]
      <4>1. k + 1 \in 1..Len(seqs)
        BY <3>1
      <4> QED
        BY <1>j, <4>1, JoinsAt
    <3>3. g[k + 1] = IF k + 1 = 1 THEN first[k + 1] ELSE g[(k + 1) - 1] \o first[k + 1]
      <4>1. k + 1 \in 1..Len(first)
        BY <1>5, <3>1
      <4> QED
        BY <2>j, <4>1, JoinsAt
    <3>4. first[k + 1] = seqs[k + 1] /\ (k + 1) - 1 = k
      BY <1>5, <3>1
    <3>5. CASE k = 0
      BY <3>2, <3>3, <3>4, <3>5
    <3>6. CASE k # 0
      <4>1. f[k] = g[k]
        BY <2>5, <3>1, <3>6
      <4> QED
        BY <3>2, <3>3, <3>4, <3>6, <4>1
    <3> QED
      BY <3>5, <3>6
  <2>6. \A k \in Nat : k \in U
    <3> HIDE DEF U
    <3> QED
      BY <2>4, <2>5, Inductive
  <2>7. f[n] = g[n]
    BY <1>8, <2>6
  <2>8. (n + 1) - 1 = n /\ n + 1 # 1
    BY <1>8
  <2> QED
    BY <1>3, <1>4, <2>3, <2>7, <2>8 DEF first
<1> QED
  BY <1>7, <1>8

\* What is flattened is a sequence of the same elements.
LEMMA FlattenType ==
  ASSUME NEW T, NEW seqs \in Seq(Seq(T))
  PROVE  FlattenSeq(seqs) \in Seq(T)
<1>1. CASE seqs = <<>>
  BY <1>1 DEF FlattenSeq
<1>2. CASE seqs # <<>>
  <2> DEFINE F(f) == f = [i \in 1..Len(seqs) |-> IF i = 1 THEN seqs[i] ELSE f[i - 1] \o seqs[i]]
  <2>1. Len(seqs) \in 1..Len(seqs) /\ Len(seqs) # 0
    BY <1>2
  <2>2. FlattenSeq(seqs) = (CHOOSE f : F(f))[Len(seqs)]
    BY <2>1 DEF FlattenSeq
  <2>3. PICK f : f = (CHOOSE g : F(g)) /\ Joins(seqs, f)
    BY JoinsExists DEF Joins
  <2> QED
    BY <2>1, <2>2, <2>3, JoinsExists
<1> QED
  BY <1>1, <1>2

-----------------------------------------------------------------------------
(* The parser.                                                             *)

\* A piece of a sequence, in bounds.
LEMMA PieceOf ==
  ASSUME NEW T, NEW s \in Seq(T), NEW m \in Nat \ {0}, NEW n \in Nat, n <= Len(s), m <= n + 1
  PROVE  /\ SubSeq(s, m, n) \in Seq(T)
         /\ Len(SubSeq(s, m, n)) = (n - m) + 1
         /\ \A i \in 1..(n - m) + 1 : SubSeq(s, m, n)[i] = s[(m + i) - 1]
<1>1. PICK k \in Nat : k = Len(s)
  OBVIOUS
<1>2. \A i \in m..n : s[i] \in T
  BY <1>1
<1> QED
  BY <1>2, SubSeqProperties

\* trim() leaves a piece of the line.
LEMMA TrimType ==
  ASSUME NEW line \in Seq(Units)
  PROVE  Trim(line) \in Seq(Units)
<1> DEFINE solid == {i \in 1..Len(line) : ~Break(line[i])}
<1>1. CASE solid = {}
  BY <1>1 DEF Trim
<1>2. CASE solid # {}
  <2>1. PICK n \in Nat : n = Len(line)
    OBVIOUS
  <2>2. solid \subseteq Nat /\ solid \subseteq 0..n
    BY <2>1
  <2>3. PICK a \in 1..n, b \in 1..n : a = Min(solid) /\ b = Max(solid) /\ a <= b
    <3> HIDE DEF solid
    <3>1. Min(solid) \in solid /\ Max(solid) \in solid /\ Max(solid) >= Min(solid)
      BY <1>2, <2>2, MinProperty, MaxProperty
    <3>2. Min(solid) \in 1..n /\ Max(solid) \in 1..n
      BY <2>1, <3>1 DEF solid
    <3> QED
      BY <3>1, <3>2
  <2>4. SubSeq(line, a, b) \in Seq(Units)
    <3>1. a \in Nat \ {0} /\ b \in Nat /\ b <= Len(line) /\ a <= b + 1
      BY <2>1, <2>3
    <3> QED
      BY <3>1, PieceOf
  <2> QED
    BY <1>2, <2>3, <2>4 DEF Trim
<1> QED
  BY <1>1, <1>2

\* The line ends, the first of which ends the request line.
LEMMA FirstLineEnd ==
  ASSUME NEW data \in Seq(Units), LineEnds(data) # {}
  PROVE  /\ LineEnds(data) \subseteq 1..Len(data) - 1
         /\ Min(LineEnds(data)) \in LineEnds(data)
         /\ \A e \in LineEnds(data) : e \in Nat /\ Min(LineEnds(data)) <= e
         /\ \A e \in HeaderEnds(data) : e \in LineEnds(data) /\ Min(LineEnds(data)) < e
<1>1. PICK n \in Nat : n = Len(data)
  OBVIOUS
<1>2. LineEnds(data) \subseteq 1..n - 1 /\ LineEnds(data) \subseteq Nat
  BY <1>1 DEF LineEnds
<1>3. Min(LineEnds(data)) \in LineEnds(data) /\ \A e \in LineEnds(data) : Min(LineEnds(data)) <= e
  BY <1>2, MinProperty
<1>4. \A e \in HeaderEnds(data) : e \in LineEnds(data) /\ e > Min(LineEnds(data))
  BY DEF HeaderEnds
<1>5. \A e \in HeaderEnds(data) : Min(LineEnds(data)) < e
  BY <1>2, <1>3, <1>4
<1> QED
  BY <1>1, <1>2, <1>3, <1>4, <1>5

\* The line end before a header's.
LEMMA LineBefore ==
  ASSUME NEW data \in Seq(Units), LineEnds(data) # {}, NEW e \in HeaderEnds(data)
  PROVE  LET previous == Max({p \in LineEnds(data) : p < e})
         IN  /\ previous \in LineEnds(data) /\ previous < e
             /\ \A p \in LineEnds(data) : p < e => p <= previous
<1> DEFINE before == {p \in LineEnds(data) : p < e}
<1>1. PICK n \in Nat : n = Len(data)
  OBVIOUS
<1>2. before \subseteq 0..n /\ before # {}
  BY <1>1, FirstLineEnd
<1>3. Max(before) \in before /\ \A p \in before : Max(before) >= p
  <2> HIDE DEF before
  <2> QED
    BY <1>2, MaxProperty
<1>4. PICK previous : previous = Max(before)
  OBVIOUS
<1>5. previous \in LineEnds(data) /\ previous < e
  BY <1>3, <1>4
<1>6. ASSUME NEW p \in LineEnds(data), p < e PROVE p <= previous
  <2>1. p \in before
    BY <1>6
  <2>2. p \in Nat /\ previous \in Nat
    BY <1>5, FirstLineEnd
  <2>3. previous >= p
    BY <1>3, <1>4, <2>1
  <2> QED
    BY <2>2, <2>3
<1> QED
  BY <1>4, <1>5, <1>6

\* A header line is made of the data's units.
LEMMA HeaderLineType ==
  ASSUME NEW data \in Seq(Units), LineEnds(data) # {}, NEW e \in HeaderEnds(data)
  PROVE  HeaderLine(data, e) \in Seq(Units)
<1>1. PICK n \in Nat : n = Len(data)
  OBVIOUS
<1>2. PICK previous \in LineEnds(data) : previous = Max({p \in LineEnds(data) : p < e}) /\ previous < e
  BY LineBefore
<1>3. e \in 1..n - 1 /\ previous \in 1..n - 1
  BY <1>1, FirstLineEnd
<1>4. \A i \in previous + 2..e - 1 : data[i] \in Units
  BY <1>1, <1>3
<1>5. SubSeq(data, previous + 2, e - 1) \in Seq(Units)
  BY <1>3, <1>4, SubSeqProperties
<1> QED
  BY <1>2, <1>5, TrimType DEF HeaderLine

\* The header loop has found nothing wrong.
Sound(data) ==
  \A e \in HeaderEnds(data) :
    ~Blank(data, e) => ~Malformed(HeaderLine(data, e)) /\ ~(e - Min(LineEnds(data)) > MaxHeader)

\* What the Content-Length fields say.
Size(data) == LET field == LastField(data, {"length", "badlength"})
              IN  IF field = <<>> THEN 0 ELSE field[1].n

\* A field that is found has a name.
LEMMA LastFieldType ==
  ASSUME NEW data \in Seq(Units), LineEnds(data) # {}, Sound(data), NEW kinds
  PROVE  \/ LastField(data, kinds) = <<>>
         \/ LastField(data, kinds)[1] \in Units
<1> DEFINE ends == {e \in HeaderEnds(data) : ~Blank(data, e) /\ HeaderLine(data, e)[1].kind \in kinds}
<1>1. CASE ends = {}
  BY <1>1 DEF LastField
<1>2. CASE ends # {}
  <2>1. PICK n \in Nat : n = Len(data)
    OBVIOUS
  <2>2. ends \subseteq 0..n
    BY <2>1, FirstLineEnd
  <2>3. PICK e \in ends : e = Max(ends)
    <3> HIDE DEF ends
    <3> QED
      BY <1>2, <2>2, MaxProperty
  <2>4. LastField(data, kinds) = HeaderLine(data, e)
    BY <1>2, <2>3 DEF LastField
  <2>5. ~Malformed(HeaderLine(data, e))
    BY DEF Sound
  <2>6. HeaderLine(data, e) \in Seq(Units) /\ HeaderLine(data, e) # <<>>
    BY <2>5, HeaderLineType DEF Malformed
  <2> QED
    BY <2>4, <2>6
<1> QED
  BY <1>1, <1>2

\* The header scan ends within the data, and where the headers it has read may reach.
LEMMA HeaderScan ==
  ASSUME NEW data \in Seq(Units), LineEnds(data) # {}, Sound(data)
  PROVE  /\ HeaderStop(data) \in Nat
         /\ HeaderStop(data) <= Len(data) + 1
         /\ HeaderStop(data) <= Min(LineEnds(data)) + MaxHeader + 4
         /\ BodyStart(data) \in {HeaderStop(data), HeaderStop(data) + 2}
         /\ BodyStart(data) <= Len(data) + 1
<1>1. PICK n \in Nat : n = Len(data)
  OBVIOUS
<1>2. PICK eol \in Nat : /\ eol = Min(LineEnds(data)) /\ eol \in LineEnds(data)
                         /\ \A e \in LineEnds(data) : e \in 1..n - 1 /\ eol <= e
  BY <1>1, FirstLineEnd
<1>3. MaxHeader \in Nat
  BY LimitsAssumption
<1>4. ASSUME NEW e \in HeaderEnds(data) PROVE e \in 1..n - 1 /\ e <= eol + MaxHeader + 2
  <2>1. e \in LineEnds(data) /\ e \in 1..n - 1
    BY <1>2, FirstLineEnd
  <2>2. CASE ~Blank(data, e)
    <3>1. ~(e - eol > MaxHeader)
      BY <1>2, <2>2 DEF Sound
    <3> QED
      BY <1>2, <1>3, <2>1, <3>1
  <2>3. CASE Blank(data, e)
    <3>1. PICK p \in LineEnds(data) : p = e - 2
      BY <2>3 DEF Blank
    <3>2. p \in 1..n - 1 /\ eol <= p /\ p < e
      BY <1>2, <2>1, <3>1
    <3>3. CASE p = eol
      BY <1>2, <1>3, <2>1, <3>1, <3>3
    <3>4. CASE p # eol
      <4>1. p > eol
        BY <1>2, <3>2, <3>4
      <4>2. \A blank \in LineEnds(data) : blank < e /\ blank > eol => blank - 2 \notin LineEnds(data)
        BY <1>2 DEF HeaderEnds
      <4>3. \A blank \in LineEnds(data) : blank < p => blank < e
        BY <1>2, <2>1, <3>2
      <4>4. p \in HeaderEnds(data)
        BY <1>2, <4>1, <4>2, <4>3 DEF HeaderEnds
      <4>5. ~Blank(data, p)
        BY <3>2, <4>1, <4>2 DEF Blank
      <4>6. ~(p - eol > MaxHeader)
        BY <1>2, <4>4, <4>5 DEF Sound
      <4> QED
        BY <1>2, <1>3, <2>1, <3>1, <3>2, <4>6
    <3> QED
      BY <3>3, <3>4
  <2> QED
    BY <2>2, <2>3
<1> DEFINE S == {eol} \cup HeaderEnds(data)
<1>5. S \subseteq 0..n /\ S # {}
  BY <1>2, <1>4
<1>6. PICK last \in S : last = Max(S)
  <2> HIDE DEF S
  <2> QED
    BY <1>5, MaxProperty
<1>7. last \in 1..n - 1 /\ last <= eol + MaxHeader + 2
  BY <1>2, <1>3, <1>4
<1>8. HeaderStop(data) = last + 2
  BY <1>2, <1>6 DEF HeaderStop
<1>9. PICK stop \in Nat : stop = HeaderStop(data) /\ stop = last + 2
  BY <1>7, <1>8
<1>10. stop <= n + 1 /\ stop <= eol + MaxHeader + 4
  BY <1>2, <1>3, <1>7, <1>9
<1>11. CASE stop \in LineEnds(data)
  <2>1. BodyStart(data) = stop + 2 /\ stop \in 1..n - 1
    BY <1>2, <1>9, <1>11 DEF BodyStart
  <2>2. stop + 2 <= n + 1
    BY <1>1, <2>1
  <2> QED
    BY <1>1, <1>2, <1>9, <1>10, <2>1, <2>2
<1>12. CASE stop \notin LineEnds(data)
  <2>1. BodyStart(data) = stop
    BY <1>9, <1>12 DEF BodyStart
  <2> QED
    BY <1>1, <1>2, <1>9, <1>10, <2>1
<1> QED
  BY <1>11, <1>12

\* A request line that ended, and headers the loop accepts.
Proper(data) ==
  /\ LineEnds(data) # {} /\ Min(LineEnds(data)) = 2
  /\ data[1].kind \in RequestLines
  /\ MaxRequestLine >= 1
  /\ Sound(data)

(***************************************************************************)
(* What parse() returns: an error; or, for a request line and headers it   *)
(* accepts and a Content-Length within the limit, the request, if the body *)
(* has come in, and otherwise IncompleteRequest.                           *)
(***************************************************************************)
Refused(data) == \E error : Parse(data) = Fail(error) /\ error \notin {"None", "IncompleteRequest"}

LineCut(data) == /\ Parse(data) = Fail("IncompleteRequest")
                 /\ LineEnds(data) = {}
                 /\ Len(data) <= MaxRequestLine

BodyCut(data) == /\ Parse(data) = Fail("IncompleteRequest")
                 /\ Proper(data) /\ Size(data) \in 0..MaxBody
                 /\ Len(data) < (BodyStart(data) - 1) + Size(data)

Delivered(data) == /\ Parse(data) = Deliver(data, Size(data))
                   /\ Proper(data) /\ Size(data) \in 0..MaxBody
                   /\ (BodyStart(data) - 1) + Size(data) <= Len(data)

LEMMA ParseOutcome ==
  ASSUME NEW data \in Seq(Units)
  PROVE  Refused(data) \/ LineCut(data) \/ BodyCut(data) \/ Delivered(data)
<1>l. MaxRequestLine \in Nat /\ MaxHeader \in Nat /\ MaxBody \in Nat
  BY LimitsAssumption
<1>n. PICK n \in Nat : n = Len(data)
  OBVIOUS
<1>1. CASE LineEnds(data) = {}
  BY <1>1, <1>l, <1>n DEF Parse, Refused, LineCut
<1>2. CASE LineEnds(data) # {}
  <2>1. PICK eol \in 1..n - 1 : eol = Min(LineEnds(data))
    BY <1>2, <1>n, FirstLineEnd
  <2>2. CASE eol - 1 > MaxRequestLine
    <3>1. Parse(data) = Fail("RequestLineTooLarge")
      BY <1>2, <2>1, <2>2 DEF Parse
    <3> QED
      BY <3>1 DEF Refused
  <2>3. CASE ~(eol - 1 > MaxRequestLine) /\ (eol - 1 # 1 \/ data[1].kind \notin RequestLines)
    <3>1. Parse(data) = Fail("InvalidRequestLine")
      BY <1>2, <2>1, <2>3 DEF Parse
    <3> QED
      BY <3>1 DEF Refused
  <2>4. CASE ~(eol - 1 > MaxRequestLine) /\ eol - 1 = 1 /\ data[1].kind \in RequestLines
    <3>1. eol = 2 /\ MaxRequestLine >= 1
      BY <1>l, <2>1, <2>4
    <3>2. Parse(data) = ParseHeaders(data)
      BY <1>2, <2>1, <2>4 DEF Parse
    <3> DEFINE malformed == {e \in HeaderEnds(data) : ~Blank(data, e) /\ Malformed(HeaderLine(data, e))}
               large     == {e \in HeaderEnds(data) : ~Blank(data, e) /\ e - eol > MaxHeader}
    <3>3. CASE malformed \cup large # {}
      <4>1. \E error \in {"InvalidHeader", "HeaderTooLarge"} : ParseHeaders(data) = Fail(error)
        BY <2>1, <3>3 DEF ParseHeaders
      <4> QED
        BY <3>2, <4>1 DEF Refused
    <3>4. CASE malformed \cup large = {}
      <4>1. Sound(data)
        BY <2>1, <3>4 DEF Sound
      <4>2. Proper(data)
        BY <1>2, <2>1, <2>4, <3>1, <4>1 DEF Proper
      <4>3. Parse(data) = ParseBody(data)
        BY <2>1, <3>2, <3>4 DEF ParseHeaders
      <4> DEFINE field == LastField(data, {"length", "badlength"})
      <4>4. Size(data) \in Nat
        <5>1. field = <<>> \/ field[1] \in Units
          BY <1>2, <4>1, LastFieldType
        <5>2. CASE field = <<>>
          BY <5>2 DEF Size
        <5>3. CASE field # <<>>
          <6>1. field[1].n \in Nat
            BY <5>1, <5>3 DEF Units
          <6> QED
            BY <5>3, <6>1 DEF Size
        <5> QED
          BY <5>2, <5>3
      <4>5. PICK size \in Nat : size = Size(data)
        BY <4>4
      <4>6. PICK start \in Nat : start = BodyStart(data)
        BY <1>2, <1>n, <4>1, HeaderScan
      <4>7. ParseBody(data) =
              IF field # <<>> /\ field[1].kind = "badlength" THEN Fail("InvalidContentLength")
              ELSE IF size > MaxBody THEN Fail("BodyTooLarge")
              ELSE IF n - (start - 1) < size THEN Fail("IncompleteRequest")
              ELSE Deliver(data, size)
        BY <1>n, <4>5, <4>6 DEF ParseBody, Size
      <4> HIDE DEF field
      <4>8. CASE (field # <<>> /\ field[1].kind = "badlength") \/ size > MaxBody
        BY <4>3, <4>7, <4>8 DEF Refused
      <4>9. CASE ~(field # <<>> /\ field[1].kind = "badlength") /\ ~(size > MaxBody)
        <5>1. size \in 0..MaxBody
          BY <1>l, <4>9
        <5>2. CASE n - (start - 1) < size
          <6>1. n < (start - 1) + size /\ Parse(data) = Fail("IncompleteRequest")
            BY <4>3, <4>7, <4>9, <5>2
          <6> QED
            BY <1>n, <4>2, <4>5, <4>6, <5>1, <6>1 DEF BodyCut
        <5>3. CASE ~(n - (start - 1) < size)
          <6>1. (start - 1) + size <= n /\ Parse(data) = Deliver(data, size)
            BY <4>3, <4>7, <4>9, <5>3
          <6> QED
            BY <1>n, <4>2, <4>5, <4>6, <5>1, <6>1 DEF Delivered
        <5> QED
          BY <5>2, <5>3
      <4> QED
        BY <4>8, <4>9
    <3> QED
      BY <3>3, <3>4
  <2> QED
    BY <2>2, <2>3, <2>4
<1> QED
  BY <1>1, <1>2

\* A parser that asks for more has less than a request within the limits before it.
LEMMA IncompleteIsBounded ==
  ASSUME NEW data \in Seq(Units), Parse(data).error = "IncompleteRequest"
  PROVE  /\ LineCut(data) \/ BodyCut(data)
         /\ Len(data) < MaxRequestLine + 2 + MaxHeader + 4 + MaxBody
<1>l. MaxRequestLine \in Nat /\ MaxHeader \in Nat /\ MaxBody \in Nat
  BY LimitsAssumption
<1>n. PICK n \in Nat : n = Len(data)
  OBVIOUS
<1>1. LineCut(data) \/ BodyCut(data)
  BY ParseOutcome DEF Refused, Delivered, Deliver, Fail
<1>2. CASE LineCut(data)
  BY <1>l, <1>n, <1>1, <1>2 DEF LineCut
<1>3. CASE BodyCut(data)
  <2>1. MaxRequestLine >= 1 /\ Min(LineEnds(data)) = 2 /\ LineEnds(data) # {} /\ Sound(data)
    BY <1>3 DEF BodyCut, Proper
  <2>2. PICK stop \in Nat, start \in Nat, size \in 0..MaxBody :
          stop = HeaderStop(data) /\ start = BodyStart(data) /\ size = Size(data)
    BY <1>3, <2>1, HeaderScan DEF BodyCut
  <2>3. stop <= 2 + MaxHeader + 4 /\ start <= stop + 2
    BY <2>1, <2>2, HeaderScan
  <2>4. n < (start - 1) + size
    BY <1>3, <1>n, <2>2 DEF BodyCut
  <2> QED
    BY <1>l, <1>n, <1>1, <2>1, <2>2, <2>3, <2>4
<1> QED
  BY <1>1, <1>2, <1>3

\* A request is taken out of what is there.
LEMMA ConsumesSome ==
  ASSUME NEW data \in Seq(Units), Parse(data).error = "None"
  PROVE  /\ Delivered(data)
         /\ Parse(data).consumed = (BodyStart(data) - 1) + Size(data)
         /\ Parse(data).consumed \in 0..Len(data)
<1>n. PICK n \in Nat : n = Len(data)
  OBVIOUS
<1>1. Delivered(data)
  BY ParseOutcome DEF Refused, LineCut, BodyCut, Fail
<1>2. PICK start \in Nat, stop \in Nat :
        start = BodyStart(data) /\ stop = HeaderStop(data) /\ start >= stop
  BY <1>1, HeaderScan DEF Delivered, Proper
<1>3. stop >= 1
  <2>1. stop = Max({Min(LineEnds(data))} \cup HeaderEnds(data)) + 2
    BY <1>2 DEF HeaderStop
  <2>2. {Min(LineEnds(data))} \cup HeaderEnds(data) \subseteq 0..n
    BY <1>1, <1>n, FirstLineEnd DEF Delivered, Proper
  <2>3. Max({Min(LineEnds(data))} \cup HeaderEnds(data)) \in 0..n
    BY <2>2, MaxProperty
  <2> QED
    BY <2>1, <2>3
<1>4. PICK size \in Nat : size = Size(data) /\ (start - 1) + size <= n
  BY <1>1, <1>2, <1>n DEF Delivered
<1>5. Parse(data).consumed = (start - 1) + size
  BY <1>1, <1>2, <1>4 DEF Delivered, Deliver
<1> QED
  BY <1>1, <1>2, <1>3, <1>4, <1>5, <1>n

-----------------------------------------------------------------------------
(* The buffer.                                                             *)

\* Messages, with their bytes and the request they mean.
ClientMessages == [bytes : Seq(Units), request : Requests]

\* The bytes of the messages, one sequence for each.
LEMMA BytesApart ==
  ASSUME NEW script \in Seq(ClientMessages), NEW n \in Nat, n = Len(script)
  PROVE  /\ Bytes(script) = FlattenSeq([i \in 1..n |-> script[i].bytes])
         /\ [i \in 1..n |-> script[i].bytes] \in Seq(Seq(Units))
         /\ Len([i \in 1..n |-> script[i].bytes]) = n
         /\ \A i \in 1..n : script[i] \in ClientMessages /\ script[i].bytes \in Seq(Units)
<1>1. DOMAIN script = 1..n /\ \A i \in 1..n : script[i] \in ClientMessages
  OBVIOUS
<1>2. \A i \in 1..n : script[i].bytes \in Seq(Units)
  BY <1>1 DEF ClientMessages
<1> DEFINE T == Seq(Units)
<1>3. \A i \in 1..n : script[i].bytes \in T
  BY <1>2
<1> HIDE DEF T
<1>4. [i \in 1..n |-> script[i].bytes] \in Seq(T) /\ Len([i \in 1..n |-> script[i].bytes]) = n
  BY <1>3
<1>5. Bytes(script) = FlattenSeq([i \in 1..n |-> script[i].bytes])
  BY <1>1 DEF Bytes
<1> QED
  BY <1>1, <1>2, <1>4, <1>5 DEF T

\* Messages flattened are units.
LEMMA BytesType ==
  ASSUME NEW script \in Seq(ClientMessages)
  PROVE  Bytes(script) \in Seq(Units)
<1>1. PICK n \in Nat : n = Len(script)
  OBVIOUS
<1> DEFINE all == [i \in 1..n |-> script[i].bytes]
<1>2. Bytes(script) = FlattenSeq(all) /\ all \in Seq(Seq(Units))
  BY <1>1, BytesApart
<1> HIDE DEF all
<1> QED
  BY <1>2, FlattenType

\* How much of the stream parse() has taken.
Consumed == received - Len(read_buffer_)

(***************************************************************************)
(* The bytes received are those consumed, followed by those in             *)
(* read_buffer_; and run() waits for more only after the parser has found  *)
(* the buffer incomplete.                                                  *)
(***************************************************************************)
BufferInv ==
  /\ messages \in Scripts /\ stream = Bytes(messages)
  /\ received \in 0..Len(stream)
  /\ peer \in {"sending", "ended", "reset"}
  /\ Len(read_buffer_) \in 0..received
  /\ read_buffer_ = SubSeq(stream, Consumed + 1, received)
  /\ at = "reading" => Parse(read_buffer_).error = "IncompleteRequest"

\* At most the last of the requests served is without an answer.
AnsweredInv == answered \in Len(served) - 1..Len(served)

\* A piece of a piece.
LEMMA PieceOfPiece ==
  ASSUME NEW T, NEW s \in Seq(T), NEW c \in Nat, NEW r \in Nat, c <= r, r <= Len(s),
         NEW k \in Nat, k <= r - c
  PROVE  SubSeq(SubSeq(s, c + 1, r), k + 1, r - c) = SubSeq(s, (c + k) + 1, r)
<1> DEFINE t == SubSeq(s, c + 1, r)
           u == SubSeq(t, k + 1, r - c)
           v == SubSeq(s, (c + k) + 1, r)
<1>1. t \in Seq(T) /\ Len(t) = r - c /\ \A i \in 1..r - c : t[i] = s[((c + 1) + i) - 1]
  <2>1. c + 1 \in Nat \ {0} /\ c + 1 <= r + 1 /\ (r - (c + 1)) + 1 = r - c
    OBVIOUS
  <2> QED
    BY <2>1, PieceOf
<1> HIDE DEF t
<1>2. u \in Seq(T) /\ Len(u) = (r - c) - k /\ \A i \in 1..(r - c) - k : u[i] = t[((k + 1) + i) - 1]
  <2>1. PICK first \in Nat \ {0}, size \in Nat : first = k + 1 /\ size = r - c
    OBVIOUS
  <2>2. first <= size + 1 /\ size <= Len(t) /\ (size - first) + 1 = (r - c) - k
    BY <1>1, <2>1
  <2>3. /\ SubSeq(t, first, size) \in Seq(T) /\ Len(SubSeq(t, first, size)) = (size - first) + 1
        /\ \A i \in 1..(size - first) + 1 : SubSeq(t, first, size)[i] = t[(first + i) - 1]
    BY <1>1, <2>2, PieceOf
  <2> QED
    BY <2>1, <2>2, <2>3
<1>3. v \in Seq(T) /\ Len(v) = (r - c) - k /\ \A i \in 1..(r - c) - k : v[i] = s[(((c + k) + 1) + i) - 1]
  <2>1. /\ (c + k) + 1 \in Nat \ {0} /\ (c + k) + 1 <= r + 1
        /\ (r - ((c + k) + 1)) + 1 = (r - c) - k
    OBVIOUS
  <2> QED
    BY <2>1, PieceOf
<1>4. ASSUME NEW i \in 1..(r - c) - k PROVE u[i] = v[i]
  <2>1. k + i \in 1..r - c /\ ((k + 1) + i) - 1 = k + i
    OBVIOUS
  <2>2. u[i] = t[k + i] /\ t[k + i] = s[((c + 1) + (k + i)) - 1]
    BY <1>1, <1>2, <2>1
  <2>3. ((c + 1) + (k + i)) - 1 = (((c + k) + 1) + i) - 1
    OBVIOUS
  <2> QED
    BY <1>3, <2>2, <2>3
<1> HIDE DEF u, v
<1>5. u = v
  BY <1>2, <1>3, <1>4, SeqEqual
<1> QED
  BY <1>5 DEF t, u, v

\* Nothing is received at first.
LEMMA BufferInit == Init => BufferInv /\ AnsweredInv
<1> SUFFICES ASSUME Init PROVE BufferInv /\ AnsweredInv
  OBVIOUS
<1>1. stream \in Seq(Units)
  BY BytesType, ConnectionAssumption DEF Init, ClientMessages
<1>2. /\ messages \in Scripts /\ stream = Bytes(messages) /\ received = 0 /\ peer = "sending"
      /\ read_buffer_ = <<>> /\ at = "parsing" /\ served = <<>> /\ answered = 0
  BY DEF Init
<1>3. Len(stream) \in Nat
  BY <1>1
<1>4. SubSeq(stream, Consumed + 1, received) = <<>>
  <2>1. Consumed + 1 = 1
    BY <1>2 DEF Consumed
  <2> QED
    BY <1>2, <2>1, SubSeqEmpty
<1>5. received \in 0..Len(stream) /\ Len(read_buffer_) \in 0..received
  BY <1>2, <1>3
<1>6. BufferInv
  BY <1>2, <1>4, <1>5 DEF BufferInv
<1>7. AnsweredInv
  BY <1>2 DEF AnsweredInv
<1> QED
  BY <1>6, <1>7

\* The stream and the buffer are units.
LEMMA BufferType ==
  ASSUME BufferInv
  PROVE  /\ stream \in Seq(Units) /\ Len(stream) \in Nat
         /\ read_buffer_ \in Seq(Units) /\ Len(read_buffer_) \in Nat
         /\ Consumed \in Nat /\ Consumed <= received /\ received \in Nat /\ received <= Len(stream)
         /\ received - Consumed = Len(read_buffer_)
<1>1. stream \in Seq(Units)
  BY BytesType, ConnectionAssumption DEF BufferInv, ClientMessages
<1>2. PICK n \in Nat, r \in Nat : n = Len(stream) /\ r = received /\ r <= n
  BY <1>1 DEF BufferInv
<1>b. PICK b \in 0..r : b = Len(read_buffer_)
  BY <1>2 DEF BufferInv
<1>3. PICK c \in Nat : c = Consumed /\ c <= r /\ Len(read_buffer_) = r - c
  <2>1. Consumed = r - b /\ r - b \in Nat /\ r - b <= r /\ b = r - (r - b)
    BY <1>2, <1>b DEF Consumed
  <2> QED
    BY <1>b, <2>1
<1>4. c + 1 \in Nat \ {0} /\ c + 1 <= r + 1
  BY <1>3
<1>5. read_buffer_ \in Seq(Units)
  BY <1>1, <1>2, <1>3, <1>4, PieceOf DEF BufferInv
<1> QED
  BY <1>1, <1>2, <1>3, <1>5

\* A request that is extracted is taken from the front of the buffer.
LEMMA ExtractTakes ==
  ASSUME BufferInv, Extract
  PROVE  /\ Delivered(read_buffer_)
         /\ request' = Parse(read_buffer_).request
         /\ Consumed' = Consumed + Parse(read_buffer_).consumed
         /\ BufferInv'
<1>1. Delivered(read_buffer_) /\ Parse(read_buffer_).consumed \in 0..Len(read_buffer_)
  BY BufferType, ConsumesSome DEF Extract
<1>2. PICK n \in Nat, r \in Nat, c \in Nat, k \in Nat :
        /\ n = Len(stream) /\ r = received /\ c = Consumed /\ k = Parse(read_buffer_).consumed
        /\ r <= n /\ c <= r /\ k <= r - c /\ Len(read_buffer_) = r - c
  <2>1. PICK n \in Nat, r \in Nat, c \in Nat, b \in Nat :
          /\ n = Len(stream) /\ r = received /\ c = Consumed /\ b = Len(read_buffer_)
          /\ r <= n /\ c <= r /\ b = r - c
    BY BufferType
  <2>2. PICK k \in Nat : k = Parse(read_buffer_).consumed /\ k <= b
    BY <1>1, <2>1
  <2> QED
    BY <2>1, <2>2
<1>3. stream \in Seq(Units) /\ read_buffer_ = SubSeq(stream, c + 1, r)
  BY <1>2, BufferType DEF BufferInv
<1>4. read_buffer_' = SubSeq(stream, (c + k) + 1, r)
  <2>1. read_buffer_' = SubSeq(read_buffer_, k + 1, r - c)
    BY <1>2 DEF Extract
  <2>2. SubSeq(SubSeq(stream, c + 1, r), k + 1, r - c) = SubSeq(stream, (c + k) + 1, r)
    <3>1. stream \in Seq(Units) /\ r <= Len(stream) /\ c <= r /\ k <= r - c
      BY <1>2, <1>3
    <3> QED
      BY <3>1, PieceOfPiece
  <2> QED
    BY <1>3, <2>1, <2>2
<1>5. Len(read_buffer_') = r - (c + k)
  <2>1. PICK first \in Nat \ {0} : first = (c + k) + 1
    OBVIOUS
  <2>2. first <= r + 1 /\ r <= Len(stream) /\ (r - first) + 1 = r - (c + k)
    BY <1>2, <2>1
  <2>3. Len(SubSeq(stream, first, r)) = (r - first) + 1
    BY <1>3, <2>2, PieceOf
  <2> QED
    BY <1>4, <2>1, <2>2, <2>3
<1>6. UNCHANGED <<messages, stream, received, peer>> /\ at' = "handling"
  BY DEF Extract, Goes, network
<1>7. Consumed' = c + k
  BY <1>2, <1>5, <1>6 DEF Consumed
<1>8. Len(read_buffer_') \in 0..r
  BY <1>2, <1>5
<1>9. BufferInv'
  BY <1>2, <1>4, <1>6, <1>7, <1>8 DEF BufferInv
<1> QED
  BY <1>1, <1>2, <1>7, <1>9 DEF Extract

\* What is read is put behind what is buffered.
LEMMA ReadAppends ==
  ASSUME BufferInv, NEW m \in Nat \ {0}, Read(m)
  PROVE  Consumed' = Consumed /\ BufferInv'
<1>1. PICK n \in Nat, r \in Nat, c \in Nat :
        /\ n = Len(stream) /\ r = received /\ c = Consumed
        /\ r + m <= n /\ c <= r /\ Len(read_buffer_) = r - c
  <2>1. m <= Len(stream) - received
    BY DEF Read
  <2>2. PICK n \in Nat, r \in Nat, c \in Nat :
          /\ n = Len(stream) /\ r = received /\ c = Consumed
          /\ c <= r /\ Len(read_buffer_) = r - c
    BY BufferType
  <2>3. r + m <= n
    BY <2>1, <2>2
  <2> QED
    BY <2>2, <2>3
<1>2. stream \in Seq(Units) /\ read_buffer_ \in Seq(Units) /\ read_buffer_ = SubSeq(stream, c + 1, r)
  BY <1>1, BufferType DEF BufferInv
<1>3. read_buffer_' = read_buffer_ \o SubSeq(stream, r + 1, r + m)
  BY <1>1 DEF Read
<1>4. read_buffer_' = SubSeq(stream, c + 1, r + m)
  <2>1. c + 1 \in 1..n + 1 /\ r \in (c + 1) - 1..n /\ r + m \in r..n
    BY <1>1
  <2>2. SubSeq(stream, c + 1, r) \o SubSeq(stream, r + 1, r + m) = SubSeq(stream, c + 1, r + m)
    <3>1. stream \in Seq(Units) /\ n = Len(stream)
      BY <1>1, <1>2
    <3> QED
      BY <2>1, <3>1, ConcatAdjacentSubSeq
  <2> QED
    BY <1>2, <1>3, <2>2
<1>5. Len(read_buffer_') = (r + m) - c
  <2>1. c + 1 \in Nat \ {0} /\ c + 1 <= (r + m) + 1 /\ ((r + m) - (c + 1)) + 1 = (r + m) - c
    BY <1>1
  <2> QED
    BY <1>1, <1>2, <1>4, <2>1, PieceOf
<1>6. UNCHANGED <<messages, stream, peer>> /\ received' = r + m /\ at' = "parsing"
  BY <1>1 DEF Read, Goes
<1>7. Consumed' = c
  BY <1>1, <1>5, <1>6 DEF Consumed
<1>8. Len(read_buffer_') \in 0..r + m /\ r + m \in 0..n
  BY <1>1, <1>5
<1> QED
  BY <1>1, <1>4, <1>6, <1>7, <1>8 DEF BufferInv

\* No other step touches the buffer or the stream.
LEMMA BufferStep == BufferInv /\ [Next]_vars => BufferInv'
<1> SUFFICES ASSUME BufferInv, [Next]_vars PROVE BufferInv'
  OBVIOUS
<1>1. CASE Extract
  BY <1>1, ExtractTakes
<1>2. ASSUME NEW m \in 1..BufferSize, Read(m) PROVE BufferInv'
  BY <1>2, ReadAppends, ConnectionAssumption
<1>3. ASSUME UNCHANGED <<messages, stream, received, read_buffer_>>,
             peer' \in {"sending", "ended", "reset"},
             at' = "reading" => at = "reading" \/ NeedMore
      PROVE  BufferInv'
  <2>1. at' = "reading" => Parse(read_buffer_).error = "IncompleteRequest"
    BY <1>3 DEF BufferInv, NeedMore
  <2> QED
    BY <1>3, <2>1 DEF BufferInv, Consumed
<1>4. CASE Reject \/ NeedMore \/ EndOfStream \/ ReadFails \/ Serve \/ UNCHANGED vars
  <2>1. UNCHANGED <<messages, stream, received, read_buffer_, peer>>
    BY <1>4 DEF Reject, NeedMore, EndOfStream, ReadFails, Serve, Handle, HandlerThrows,
                SendResponse, SendFails, Decide, network, vars
  <2>2. at' = "reading" => at = "reading" \/ NeedMore
    BY <1>4 DEF Reject, EndOfStream, ReadFails, Serve, Handle, HandlerThrows,
                SendResponse, SendFails, Decide, Goes, vars
  <2> QED
    BY <1>3, <2>1, <2>2 DEF BufferInv
<1>5. CASE \E how \in {"ended", "reset"} : PeerLeaves(how)
  BY <1>3, <1>5 DEF PeerLeaves
<1> QED
  BY <1>1, <1>2, <1>4, <1>5 DEF Next, ReadStep, Ended

\* A request is served before it is answered, and the next only after that.
LEMMA AnsweredStep == SessionInv /\ AnsweredInv /\ [Next]_vars => AnsweredInv'
<1> SUFFICES ASSUME SessionInv, AnsweredInv, [Next]_vars PROVE AnsweredInv'
  OBVIOUS
<1>1. PICK n \in Nat, a \in Nat : n = Len(served) /\ a = answered /\ a \in n - 1..n
  BY DEF SessionInv, AnsweredInv
<1>2. CASE UNCHANGED <<served, answered>>
  BY <1>2 DEF AnsweredInv
<1>3. CASE Handle \/ HandlerThrows
  <2>1. a = n /\ served' = Append(served, request) /\ answered' = a
    BY <1>1, <1>3 DEF Handle, HandlerThrows, Goes, SessionInv
  <2>2. Len(served') = n + 1
    BY <1>1, <2>1, AppendServed DEF SessionInv
  <2> QED
    BY <1>1, <2>1, <2>2 DEF AnsweredInv
<1>4. CASE SendResponse
  <2>1. a + 1 = n /\ answered' = a + 1 /\ served' = served
    BY <1>1, <1>4 DEF SendResponse, Goes, SessionInv
  <2> QED
    BY <1>1, <2>1 DEF AnsweredInv
<1> QED
  BY <1>2, <1>3, <1>4
     DEF Next, ReadStep, Serve, Ended, Extract, Reject, NeedMore, Read, EndOfStream, ReadFails,
         SendFails, Decide, PeerLeaves, vars

\* The three parts together, whatever the client sends.
ConnectionInv == SessionInv /\ BufferInv /\ AnsweredInv

THEOREM ConnectionInvariant == SafeSpec => []ConnectionInv
BY SessionInit, SessionStep, BufferInit, BufferStep, AnsweredStep, PTL DEF SafeSpec, ConnectionInv

(***************************************************************************)
(* For every client: the bytes read are those consumed, followed by those  *)
(* buffered, none lost, doubled or reordered; and no answer is sent that   *)
(* no request asked for.                                                   *)
(***************************************************************************)
THEOREM ConnectionTypeCorrect == SafeSpec => []TypeOK
<1>1. ConnectionInv => TypeOK
  <2> SUFFICES ASSUME ConnectionInv PROVE TypeOK
    OBVIOUS
  <2>1. BufferInv
    BY DEF ConnectionInv
  <2>2. Len(read_buffer_) \in Nat /\ received \in Nat /\ Len(read_buffer_) \in 0..received
    BY <2>1, BufferType DEF BufferInv
  <2>3. read_buffer_ = SubSeq(stream, received - Len(read_buffer_) + 1, received)
    BY DEF ConnectionInv, BufferInv, Consumed
  <2>4. Len(read_buffer_) <= received
    BY <2>2
  <2>5. answered \in Len(served) - 1..Len(served)
    BY DEF ConnectionInv, AnsweredInv
  <2>6. /\ received \in 0..Len(stream) /\ peer \in {"sending", "ended", "reset"}
        /\ at \in Places
    BY DEF ConnectionInv, SessionInv, BufferInv
  <2> QED
    BY <2>3, <2>4, <2>5, <2>6 DEF TypeOK
<1> QED
  BY <1>1, ConnectionInvariant, PTL

(***************************************************************************)
(* Whatever bytes arrive, and however they are cut, the connection waits   *)
(* for more only while its buffer holds less than one request within the   *)
(* limits.                                                                 *)
(***************************************************************************)
THEOREM BufferIsBounded == SafeSpec => []BufferBounded
<1>1. ConnectionInv => BufferBounded
  BY BufferType, IncompleteIsBounded DEF ConnectionInv, BufferInv, BufferBounded
<1> QED
  BY <1>1, ConnectionInvariant, PTL

-----------------------------------------------------------------------------
(* The parser, on data that begins with the head of a message.             *)

FieldKinds == {"field", "close", "length"}

\* The request line, n fields and the empty line, at their places.
Head3(data, n) ==
  /\ data \in Seq(Units)
  /\ 3 * n + 5 <= Len(data)
  /\ data[1].kind \in RequestLines
  /\ \A j \in 0..n : data[3 * j + 2] = Unit("CR") /\ data[3 * j + 3] = Unit("LF")
  /\ data[3 * n + 4] = Unit("CR") /\ data[3 * n + 5] = Unit("LF")
  /\ \A j \in 1..n : data[3 * j + 1].kind \in FieldKinds

\* Where a line ends.
LEMMA LineEndAt ==
  ASSUME NEW data \in Seq(Units), NEW e \in Nat
  PROVE  e \in LineEnds(data) <=> /\ e >= 1 /\ e + 1 <= Len(data)
                                  /\ data[e] = Unit("CR") /\ data[e + 1] = Unit("LF")
<1>1. PICK n \in Nat : n = Len(data)
  OBVIOUS
<1>2. CASE e \in 1..n - 1
  <2> DEFINE t == SubSeq(data, e, e + 1)
  <2>1. t \in Seq(Units) /\ Len(t) = 2 /\ t[1] = data[e] /\ t[2] = data[e + 1]
    <3>1. e \in Nat \ {0} /\ e + 1 \in Nat /\ e + 1 <= Len(data) /\ e <= (e + 1) + 1
      BY <1>1, <1>2
    <3>2. t \in Seq(Units) /\ Len(t) = ((e + 1) - e) + 1
          /\ \A i \in 1..((e + 1) - e) + 1 : t[i] = data[(e + i) - 1]
      BY <3>1, PieceOf
    <3>3. ((e + 1) - e) + 1 = 2 /\ (e + 1) - 1 = e /\ (e + 2) - 1 = e + 1
      BY <1>2
    <3> HIDE DEF t
    <3> QED
      BY <3>2, <3>3
  <2>2. e \in LineEnds(data) <=> t = CRLF
    BY <1>1, <1>2 DEF LineEnds
  <2> HIDE DEF t
  <2>3. t = CRLF <=> t[1] = Unit("CR") /\ t[2] = Unit("LF")
    BY <2>1 DEF CRLF
  <2> QED
    BY <1>1, <1>2, <2>1, <2>2, <2>3
<1>3. CASE e \notin 1..n - 1
  BY <1>1, <1>3 DEF LineEnds
<1> QED
  BY <1>2, <1>3

\* A place in a head is that of a field or the line, of a CR or of an LF.
LEMMA ThreeOf ==
  ASSUME NEW i \in Nat \ {0}
  PROVE  \E j \in Nat : i = 3 * j + 1 \/ i = 3 * j + 2 \/ i = 3 * j + 3
<1> DEFINE S == {k \in Nat : k # 0 => \E j \in Nat : k = 3 * j + 1 \/ k = 3 * j + 2 \/ k = 3 * j + 3}
<1>1. 0 \in S
  OBVIOUS
<1>2. ASSUME NEW k \in Nat, k \in S PROVE k + 1 \in S
  <2>1. CASE k = 0
    <3>1. k + 1 = 3 * 0 + 1
      BY <2>1
    <3> QED
      BY <3>1
  <2>2. CASE k # 0
    <3>1. PICK j \in Nat : k = 3 * j + 1 \/ k = 3 * j + 2 \/ k = 3 * j + 3
      BY <1>2, <2>2
    <3>2. CASE k = 3 * j + 3
      <4>1. PICK l \in Nat : l = j + 1
        OBVIOUS
      <4>2. k + 1 = 3 * l + 1
        BY <3>2, <4>1
      <4> QED
        BY <4>2
    <3>3. CASE k # 3 * j + 3
      <4>1. k + 1 = 3 * j + 2 \/ k + 1 = 3 * j + 3
        BY <3>1, <3>3
      <4> QED
        BY <4>1
    <3> QED
      BY <3>2, <3>3
  <2> QED
    BY <2>1, <2>2
<1>3. \A k \in Nat : k \in S
  <2> HIDE DEF S
  <2> QED
    BY <1>1, <1>2, Inductive
<1> QED
  BY <1>3

\* The line ends in a head: the request line's, the fields' and the empty line's.
LEMMA HeadEnds ==
  ASSUME NEW data, NEW n \in Nat, Head3(data, n), NEW e \in Nat, e >= 1, e <= 3 * n + 4
  PROVE  e \in LineEnds(data) <=> e = 3 * n + 4 \/ \E j \in 0..n : e = 3 * j + 2
<1>1. PICK len \in Nat : len = Len(data) /\ 3 * n + 5 <= len
  BY DEF Head3
<1>2. data \in Seq(Units)
  BY DEF Head3
<1>c. Unit("CR").kind = "CR" /\ Unit("LF").kind = "LF"
  BY DEF Unit
<1>3. PICK j \in Nat : e = 3 * j + 1 \/ e = 3 * j + 2 \/ e = 3 * j + 3
  <2>1. e \in Nat \ {0}
    OBVIOUS
  <2> QED
    BY <2>1, ThreeOf
<1>4. CASE e = 3 * j + 1
  <2>1. j \in 0..n + 1
    BY <1>4
  <2>2. CASE j = n + 1
    <3>1. e = 3 * n + 4 /\ e + 1 = 3 * n + 5
      BY <1>4, <2>2
    <3>2. e \in LineEnds(data)
      BY <1>1, <1>2, <3>1, LineEndAt DEF Head3
    <3> QED
      BY <3>1, <3>2
  <2>3. CASE j # n + 1
    <3>1. data[e].kind \in RequestLines \cup FieldKinds
      <4>1. CASE j = 0
        BY <1>4, <4>1 DEF Head3
      <4>2. CASE j # 0
        <5>1. j \in 1..n
          BY <2>1, <2>3, <4>2
        <5> QED
          BY <1>4, <5>1 DEF Head3
      <4> QED
        BY <4>1, <4>2
    <3>2. data[e] # Unit("CR")
      BY <1>c, <3>1 DEF RequestLines, FieldKinds
    <3>3. e # 3 * n + 4 /\ \A k \in 0..n : e # 3 * k + 2
      BY <1>4, <2>3
    <3> QED
      BY <1>2, <3>2, <3>3, LineEndAt
  <2> QED
    BY <2>2, <2>3
<1>5. CASE e = 3 * j + 2
  <2>1. j \in 0..n /\ e + 1 = 3 * j + 3
    BY <1>5
  <2>2. data[3 * j + 2] = Unit("CR") /\ data[3 * j + 3] = Unit("LF")
    BY <2>1 DEF Head3
  <2>3. e + 1 <= Len(data)
    BY <1>1
  <2>4. e \in LineEnds(data)
    BY <1>2, <1>5, <2>1, <2>2, <2>3, LineEndAt
  <2> QED
    BY <1>5, <2>1, <2>4
<1>6. CASE e = 3 * j + 3
  <2>1. j \in 0..n
    BY <1>6
  <2>2. data[e] = Unit("LF")
    BY <1>6, <2>1 DEF Head3
  <2>3. data[e] # Unit("CR")
    BY <1>c, <2>2
  <2>4. e # 3 * n + 4 /\ \A k \in 0..n : e # 3 * k + 2
    BY <1>6
  <2> QED
    BY <1>2, <2>3, <2>4, LineEndAt
<1> QED
  BY <1>3, <1>4, <1>5, <1>6

\* The headers in a head are its fields, and the empty line.
LEMMA HeadHeaders ==
  ASSUME NEW data, NEW n \in Nat, Head3(data, n)
  PROVE  /\ LineEnds(data) # {} /\ Min(LineEnds(data)) = 2
         /\ HeaderEnds(data) = {3 * j + 2 : j \in 1..n} \cup {3 * n + 4}
         /\ \A j \in 1..n : ~Blank(data, 3 * j + 2)
         /\ Blank(data, 3 * n + 4)
<1>1. PICK len \in Nat : len = Len(data) /\ 3 * n + 5 <= len
  BY DEF Head3
<1>2. data \in Seq(Units)
  BY DEF Head3
<1> DEFINE E == LineEnds(data)
<1>3. /\ \A e \in E : e \in Nat /\ e >= 1
      /\ \A e \in 1..3 * n + 4 : e \in E <=> e = 3 * n + 4 \/ \E j \in 0..n : e = 3 * j + 2
  <2>1. \A e \in E : e \in 1..len - 1
    BY <1>1, <1>2, FirstLineEnd
  <2>2. \A e \in E : e \in Nat /\ e >= 1
    <3> HIDE DEF E
    <3> QED
      BY <1>1, <2>1
  <2>3. ASSUME NEW e \in 1..3 * n + 4
        PROVE  e \in E <=> e = 3 * n + 4 \/ \E j \in 0..n : e = 3 * j + 2
    <3>1. e \in Nat /\ e >= 1 /\ e <= 3 * n + 4
      OBVIOUS
    <3> QED
      BY <3>1, HeadEnds
  <2> QED
    BY <2>2, <2>3
<1> HIDE DEF E
<1>4. 3 * n + 4 \in E /\ \A j \in 0..n : 3 * j + 2 \in E
  <2>1. 3 * n + 4 \in 1..3 * n + 4 /\ \A j \in 0..n : 3 * j + 2 \in 1..3 * n + 4
    OBVIOUS
  <2> QED
    BY <1>3, <2>1
<1>5. 2 \in E /\ \A e \in E : 2 <= e
  <2>1. 3 * 0 + 2 = 2 /\ 0 \in 0..n
    OBVIOUS
  <2>2. 1 \notin E
    BY <1>3
  <2>3. 2 \in E
    BY <1>4, <2>1
  <2>4. \A e \in E : e # 1
    BY <2>2
  <2> QED
    BY <1>3, <2>3, <2>4
<1>6. Min(E) = 2
  <2>1. Min(E) \in E /\ \A e \in E : Min(E) <= e
    BY <1>3, <1>5, MinProperty
  <2>2. Min(E) <= 2 /\ 2 <= Min(E) /\ Min(E) \in Nat
    BY <1>3, <1>5, <2>1
  <2> QED
    BY <2>2
<1>7. HeaderEnds(data) = {e \in E : e > 2 /\ \A blank \in E : blank < e /\ blank > 2 => blank - 2 \notin E}
  BY <1>6 DEF HeaderEnds, E
<1>8. \A j \in 1..n : 3 * j \notin E
  <2> SUFFICES ASSUME NEW j \in 1..n PROVE 3 * j \notin E
    OBVIOUS
  <2>1. PICK i \in 1..3 * n + 4 : i = 3 * j
    OBVIOUS
  <2>2. i # 3 * n + 4 /\ \A k \in 0..n : i # 3 * k + 2
    BY <2>1
  <2> QED
    BY <1>3, <2>1, <2>2
<1>9. ASSUME NEW e \in E, e > 2, e < 3 * n + 4
      PROVE  \E j \in 1..n : e = 3 * j + 2
  <2>1. e \in 1..3 * n + 4 /\ e # 3 * n + 4 /\ e # 2
    BY <1>3, <1>9
  <2>2. PICK j \in 0..n : e = 3 * j + 2
    BY <1>3, <2>1
  <2>3. j # 0
    BY <2>1, <2>2
  <2> QED
    BY <2>2, <2>3
<1>10. ASSUME NEW e \in E, e > 2, e < 3 * n + 4 PROVE e - 2 \notin E
  <2>1. PICK j \in 1..n : e = 3 * j + 2
    BY <1>9, <1>10
  <2>2. e - 2 = 3 * j
    BY <2>1
  <2> QED
    BY <1>8, <2>2
<1>11. (3 * n + 4) - 2 \in E
  <2>1. (3 * n + 4) - 2 = 3 * n + 2 /\ n \in 0..n
    OBVIOUS
  <2> QED
    BY <1>4, <2>1
<1>12. ASSUME NEW e \in HeaderEnds(data) PROVE e = 3 * n + 4 \/ \E j \in 1..n : e = 3 * j + 2
  <2>1. e \in E /\ e > 2 /\ \A blank \in E : blank < e /\ blank > 2 => blank - 2 \notin E
    BY <1>7
  <2>2. e \in Nat /\ 3 * n + 4 > 2
    BY <1>3, <2>1
  <2>3. ~(3 * n + 4 < e)
    BY <1>4, <1>11, <2>1, <2>2
  <2>4. CASE e = 3 * n + 4
    BY <2>4
  <2>5. CASE e # 3 * n + 4
    <3>1. e < 3 * n + 4
      BY <2>2, <2>3, <2>5
    <3> QED
      BY <1>9, <2>1, <3>1
  <2> QED
    BY <2>4, <2>5
<1>13. ASSUME NEW e \in E, e > 2, e <= 3 * n + 4 PROVE e \in HeaderEnds(data)
  <2>1. ASSUME NEW blank \in E, blank < e, blank > 2 PROVE blank - 2 \notin E
    <3>1. blank < 3 * n + 4
      BY <1>3, <1>13, <2>1
    <3> QED
      BY <1>10, <2>1, <3>1
  <2> QED
    BY <1>7, <1>13, <2>1
<1>14. 3 * n + 4 \in HeaderEnds(data) /\ \A j \in 1..n : 3 * j + 2 \in HeaderEnds(data)
  <2>1. 3 * n + 4 > 2 /\ 3 * n + 4 <= 3 * n + 4
    OBVIOUS
  <2>2. 3 * n + 4 \in HeaderEnds(data)
    BY <1>4, <1>13, <2>1
  <2>3. ASSUME NEW j \in 1..n PROVE 3 * j + 2 \in HeaderEnds(data)
    <3>1. 3 * j + 2 \in E
      BY <1>4
    <3>2. 3 * j + 2 > 2 /\ 3 * j + 2 <= 3 * n + 4
      OBVIOUS
    <3> QED
      BY <1>13, <3>1, <3>2
  <2> QED
    BY <2>2, <2>3
<1>15. \A j \in 1..n : ~Blank(data, 3 * j + 2)
  <2> SUFFICES ASSUME NEW j \in 1..n PROVE (3 * j + 2) - 2 \notin E
    BY DEF Blank, E
  <2>1. (3 * j + 2) - 2 = 3 * j
    OBVIOUS
  <2> QED
    BY <1>8, <2>1
<1>16. Blank(data, 3 * n + 4)
  BY <1>11 DEF Blank, E
<1>17. HeaderEnds(data) = {3 * j + 2 : j \in 1..n} \cup {3 * n + 4}
  BY <1>12, <1>14
<1>18. LineEnds(data) # {} /\ Min(LineEnds(data)) = 2
  BY <1>5, <1>6 DEF E
<1> QED
  BY <1>15, <1>16, <1>17, <1>18

\* A header line that is one unit.
LEMMA HeadLine ==
  ASSUME NEW data, NEW n \in Nat, Head3(data, n), NEW j \in 1..n
  PROVE  HeaderLine(data, 3 * j + 2) = <<data[3 * j + 1]>>
<1>1. PICK len \in Nat : len = Len(data) /\ 3 * n + 5 <= len
  BY DEF Head3
<1>2. data \in Seq(Units)
  BY DEF Head3
<1>3. PICK e \in Nat, p \in Nat, f \in Nat :
        e = 3 * j + 2 /\ f = 3 * j + 1 /\ p = 3 * (j - 1) + 2 /\ f = p + 2 /\ f = e - 1 /\ p < e
        /\ p >= 1 /\ e <= 3 * n + 4 /\ f <= len /\ f >= 1
  <2>1. 3 * j + 2 \in Nat /\ 3 * (j - 1) + 2 \in Nat /\ 3 * j + 1 \in Nat
    OBVIOUS
  <2> QED
    BY <1>1, <2>1
<1>4. e \in HeaderEnds(data) /\ LineEnds(data) # {}
  BY <1>3, HeadHeaders
<1>5. PICK previous \in LineEnds(data) :
        /\ previous = Max({q \in LineEnds(data) : q < e}) /\ previous < e
        /\ \A q \in LineEnds(data) : q < e => q <= previous
  BY <1>2, <1>4, LineBefore
<1>6. p \in LineEnds(data)
  <2>1. j - 1 \in 0..n /\ p <= 3 * n + 4
    BY <1>3
  <2> QED
    BY <1>3, <2>1, HeadEnds
<1>7. previous = p
  <2>1. previous \in Nat /\ previous >= 1 /\ p <= previous /\ previous <= 3 * n + 4
    <3>1. previous \in 1..len - 1
      BY <1>1, <1>2, <1>4, FirstLineEnd
    <3> QED
      BY <1>3, <1>5, <1>6, <3>1
  <2>2. previous = 3 * n + 4 \/ \E k \in 0..n : previous = 3 * k + 2
    BY <2>1, HeadEnds
  <2>3. previous # 3 * n + 4
    BY <1>3, <1>5
  <2>4. PICK k \in 0..n : previous = 3 * k + 2
    BY <2>2, <2>3
  <2> QED
    BY <1>3, <1>5, <2>1, <2>4
<1> DEFINE unit == data[f]
           line == SubSeq(data, f, f)
<1>8. line = <<unit>> /\ unit \in Units
  <2>1. unit \in Units
    BY <1>1, <1>2, <1>3
  <2>2. line \in Seq(Units) /\ Len(line) = 1 /\ line[1] = data[f]
    <3>1. f \in Nat \ {0} /\ f <= Len(data) /\ f <= f + 1 /\ (f - f) + 1 = 1 /\ (f + 1) - 1 = f
      BY <1>1, <1>3
    <3>2. /\ line \in Seq(Units) /\ Len(line) = (f - f) + 1
          /\ \A i \in 1..(f - f) + 1 : line[i] = data[(f + i) - 1]
      BY <1>2, <3>1, PieceOf
    <3> HIDE DEF line
    <3> QED
      BY <3>1, <3>2
  <2> HIDE DEF line
  <2> QED
    BY <2>1, <2>2
<1>9. unit.kind \in FieldKinds
  BY <1>3 DEF Head3
<1> HIDE DEF unit, line
<1>10. Trim(<<unit>>) = <<unit>>
  <2> DEFINE solid == {i \in 1..Len(<<unit>>) : ~Break((<<unit>>)[i])}
  <2>1. ~Break(unit)
    BY <1>9 DEF Break, FieldKinds
  <2>2. solid = {1}
    BY <2>1
  <2>3. Min({1}) = 1 /\ Max({1}) = 1
    <3>1. {1} \subseteq Nat /\ {1} \subseteq 0..1
      OBVIOUS
    <3> QED
      BY <3>1, MinProperty, MaxProperty
  <2>4. Trim(<<unit>>) = SubSeq(<<unit>>, Min(solid), Max(solid))
    BY <2>2 DEF Trim
  <2> HIDE DEF solid
  <2>5. Trim(<<unit>>) = SubSeq(<<unit>>, 1, 1)
    BY <2>2, <2>3, <2>4
  <2>6. <<unit>> \in Seq(Units) /\ Len(<<unit>>) = 1
    BY <1>8
  <2> QED
    BY <2>5, <2>6, SubSeqFull
<1>11. HeaderLine(data, e) = Trim(line)
  BY <1>3, <1>5, <1>7 DEF HeaderLine, line
<1> QED
  BY <1>3, <1>8, <1>10, <1>11 DEF unit

\* The header scan of a head ends behind its empty line.
LEMMA HeadStop ==
  ASSUME NEW data, NEW n \in Nat, Head3(data, n)
  PROVE  /\ 3 * n + 6 \in LineEnds(data) => BodyStart(data) = 3 * n + 8
         /\ 3 * n + 6 \notin LineEnds(data) => BodyStart(data) = 3 * n + 6
<1> DEFINE S == {Min(LineEnds(data))} \cup HeaderEnds(data)
<1>1. \A e \in S : e \in Nat /\ e <= 3 * n + 4
  BY HeadHeaders
<1>2. 3 * n + 4 \in S
  BY HeadHeaders
<1>3. PICK top \in Nat : top = 3 * n + 4
  OBVIOUS
<1>4. Max(S) = top
  <2>1. S \subseteq 0..top /\ S # {}
    BY <1>1, <1>2, <1>3
  <2> HIDE DEF S
  <2>2. Max(S) \in S /\ \A e \in S : Max(S) >= e
    BY <2>1, MaxProperty
  <2>3. Max(S) \in 0..top /\ Max(S) >= top
    BY <1>2, <1>3, <2>1, <2>2
  <2> QED
    BY <2>3
<1>5. HeaderStop(data) = top + 2
  BY <1>4 DEF HeaderStop
<1>6. top + 2 = 3 * n + 6 /\ (3 * n + 6) + 2 = 3 * n + 8
  BY <1>3
<1> QED
  BY <1>5, <1>6 DEF BodyStart

\* The last of some fields of a head.
LEMMA HeadField ==
  ASSUME NEW data, NEW n \in Nat, Head3(data, n), NEW kinds
  PROVE  \/ /\ LastField(data, kinds) = <<>>
            /\ \A j \in 1..n : data[3 * j + 1].kind \notin kinds
         \/ \E j \in 1..n : /\ LastField(data, kinds) = <<data[3 * j + 1]>>
                            /\ data[3 * j + 1].kind \in kinds
<1> DEFINE ends == {e \in HeaderEnds(data) : ~Blank(data, e) /\ HeaderLine(data, e)[1].kind \in kinds}
<1>1. ASSUME NEW e \in ends PROVE \E j \in 1..n : e = 3 * j + 2 /\ data[3 * j + 1].kind \in kinds
  <2>1. PICK j \in 1..n : e = 3 * j + 2
    BY HeadHeaders
  <2>2. HeaderLine(data, e) = <<data[3 * j + 1]>>
    BY <2>1, HeadLine
  <2>3. HeaderLine(data, e)[1] = data[3 * j + 1]
    BY <2>2
  <2> QED
    BY <2>1, <2>3
<1>2. ASSUME NEW j \in 1..n, data[3 * j + 1].kind \in kinds PROVE 3 * j + 2 \in ends
  <2>1. HeaderLine(data, 3 * j + 2) = <<data[3 * j + 1]>>
    BY HeadLine
  <2>2. HeaderLine(data, 3 * j + 2)[1] = data[3 * j + 1]
    BY <2>1
  <2>3. 3 * j + 2 \in HeaderEnds(data) /\ ~Blank(data, 3 * j + 2)
    BY HeadHeaders
  <2> QED
    BY <1>2, <2>2, <2>3
<1>3. LastField(data, kinds) = IF ends = {} THEN <<>> ELSE HeaderLine(data, Max(ends))
  BY DEF LastField
<1> HIDE DEF ends
<1>4. CASE ends = {}
  BY <1>2, <1>3, <1>4
<1>5. CASE ends # {}
  <2>1. PICK top \in Nat : top = 3 * n + 4
    OBVIOUS
  <2>2. ends \subseteq 0..top
    BY <1>1, <2>1
  <2>3. Max(ends) \in ends
    BY <1>5, <2>2, MaxProperty
  <2>4. PICK j \in 1..n : Max(ends) = 3 * j + 2 /\ data[3 * j + 1].kind \in kinds
    BY <1>1, <2>3
  <2>5. LastField(data, kinds) = <<data[3 * j + 1]>>
    BY <1>3, <1>5, <2>4, HeadLine
  <2> QED
    BY <2>4, <2>5
<1> QED
  BY <1>4, <1>5

\* The header lines, without the empty one.
HeaderLines(data) == {HeaderLine(data, e) : e \in {h \in HeaderEnds(data) : ~Blank(data, h)}}

\* The headers of a head are its fields.
LEMMA HeadFields ==
  ASSUME NEW data, NEW n \in Nat, Head3(data, n)
  PROVE  HeaderLines(data) = {<<data[3 * j + 1]>> : j \in 1..n}
<1>1. {h \in HeaderEnds(data) : ~Blank(data, h)} = {3 * j + 2 : j \in 1..n}
  BY HeadHeaders
<1>2. {HeaderLine(data, e) : e \in {3 * j + 2 : j \in 1..n}} = {HeaderLine(data, 3 * j + 2) : j \in 1..n}
  OBVIOUS
<1>3. \A j \in 1..n : HeaderLine(data, 3 * j + 2) = <<data[3 * j + 1]>>
  BY HeadLine
<1> QED
  BY <1>1, <1>2, <1>3 DEF HeaderLines

\* Data that begins as message m does, whose head has n fields.
Begins(data, m, n) ==
  /\ data \in Seq(Units) /\ 3 * n + 5 <= Len(data)
  /\ \A p \in 1..3 * n + 5 : data[p] = m.bytes[p]

\* A message begins with a head.
LEMMA MessageHead ==
  ASSUME NEW m, m.bytes \in Seq(Units), NEW n \in Nat, Writes(m, n),
         NEW data, Begins(data, m, n)
  PROVE  Head3(data, n) /\ Head3(m.bytes, n)
<1>1. PICK len \in Nat : len = Len(m.bytes) /\ 3 * n + 5 <= len
  BY DEF Writes
<1>2. ASSUME NEW a \in Nat, a >= 1, a + 1 <= len, SubSeq(m.bytes, a, a + 1) = CRLF
      PROVE  m.bytes[a] = Unit("CR") /\ m.bytes[a + 1] = Unit("LF")
  <2>1. a \in 1..Len(m.bytes) - 1
    BY <1>1, <1>2
  <2>2. a \in LineEnds(m.bytes)
    BY <1>2, <2>1 DEF LineEnds
  <2> QED
    BY <2>2, LineEndAt
<1>3. \A j \in 0..n : m.bytes[3 * j + 2] = Unit("CR") /\ m.bytes[3 * j + 3] = Unit("LF")
  <2> SUFFICES ASSUME NEW j \in 0..n
               PROVE  m.bytes[3 * j + 2] = Unit("CR") /\ m.bytes[3 * j + 3] = Unit("LF")
    OBVIOUS
  <2>1. PICK a \in Nat : a = 3 * j + 2 /\ a + 1 = 3 * j + 3 /\ a >= 1 /\ a + 1 <= len
    <3>1. 3 * j + 2 \in Nat /\ (3 * j + 2) + 1 = 3 * j + 3 /\ (3 * j + 2) + 1 <= len
      BY <1>1
    <3> QED
      BY <3>1
  <2>2. SubSeq(m.bytes, a, a + 1) = CRLF
    BY <2>1 DEF Writes
  <2> QED
    BY <1>2, <2>1, <2>2
<1>4. m.bytes[3 * n + 4] = Unit("CR") /\ m.bytes[3 * n + 5] = Unit("LF")
  <2>1. PICK a \in Nat : a = 3 * n + 4 /\ a + 1 = 3 * n + 5 /\ a >= 1 /\ a + 1 <= len
    <3>1. 3 * n + 4 \in Nat /\ (3 * n + 4) + 1 = 3 * n + 5 /\ (3 * n + 4) + 1 <= len
      BY <1>1
    <3> QED
      BY <3>1
  <2>2. SubSeq(m.bytes, a, a + 1) = CRLF
    BY <2>1 DEF Writes
  <2> QED
    BY <1>2, <2>1, <2>2
<1>5. \A j \in 1..n : m.bytes[3 * j + 1].kind \in FieldKinds
  <2>1. Unit("close").kind = "close"
    BY DEF Unit
  <2> QED
    BY <2>1 DEF Writes, FieldKinds
<1>6. Head3(m.bytes, n)
  BY <1>1, <1>3, <1>4, <1>5 DEF Head3, Writes
<1>7. /\ \A j \in 0..n : 3 * j + 2 \in 1..3 * n + 5 /\ 3 * j + 3 \in 1..3 * n + 5
      /\ \A j \in 1..n : 3 * j + 1 \in 1..3 * n + 5
      /\ 1 \in 1..3 * n + 5 /\ 3 * n + 4 \in 1..3 * n + 5 /\ 3 * n + 5 \in 1..3 * n + 5
  OBVIOUS
<1>8. Head3(data, n)
  <2>1. data[1].kind \in RequestLines
    BY <1>6, <1>7 DEF Begins, Head3
  <2>2. \A j \in 0..n : data[3 * j + 2] = Unit("CR") /\ data[3 * j + 3] = Unit("LF")
    BY <1>6, <1>7 DEF Begins, Head3
  <2>3. data[3 * n + 4] = Unit("CR") /\ data[3 * n + 5] = Unit("LF")
    BY <1>6, <1>7 DEF Begins, Head3
  <2>4. \A j \in 1..n : data[3 * j + 1].kind \in FieldKinds
    BY <1>6, <1>7 DEF Begins, Head3
  <2> QED
    BY <2>1, <2>2, <2>3, <2>4 DEF Begins, Head3
<1> QED
  BY <1>6, <1>8

(***************************************************************************)
(* What the parser makes of a message's head is what the client means: its *)
(* line and fields, the size of its body, and whether it ends the          *)
(* connection.                                                             *)
(***************************************************************************)
LEMMA HeadMeans ==
  ASSUME NEW m, m.bytes \in Seq(Units), NEW n \in Nat, Writes(m, n),
         NEW data, Begins(data, m, n)
  PROVE  /\ data[1] = m.request.line
         /\ HeaderLines(data) = m.request.fields
         /\ Size(data) = Len(m.bytes) - (3 * n + 5)
         /\ KeepAlive(data) = m.request.keep
<1>1. PICK len \in Nat : len = Len(m.bytes) /\ 3 * n + 5 <= len
  BY DEF Writes
<1> DEFINE body == SubSeq(m.bytes, 3 * n + 6, len)
<1>2. Head3(data, n)
  BY MessageHead
<1>3. data[1] = m.bytes[1] /\ \A j \in 1..n : data[3 * j + 1] = m.bytes[3 * j + 1]
  <2>1. 1 \in 1..3 * n + 5 /\ \A j \in 1..n : 3 * j + 1 \in 1..3 * n + 5
    OBVIOUS
  <2> QED
    BY <2>1 DEF Begins
<1>4. body \in Seq(Units) /\ Len(body) = len - (3 * n + 5)
  <2>1. 3 * n + 6 \in Nat \ {0} /\ 3 * n + 6 <= len + 1 /\ (len - (3 * n + 6)) + 1 = len - (3 * n + 5)
    BY <1>1
  <2>2. len <= Len(m.bytes)
    BY <1>1
  <2> QED
    BY <2>1, <2>2, PieceOf
<1>5. body = SubSeq(m.bytes, (3 * n + 5) + 1, Len(m.bytes))
  <2>1. (3 * n + 5) + 1 = 3 * n + 6
    OBVIOUS
  <2> QED
    BY <1>1, <2>1
<1> HIDE DEF body
<1>6. m.request = [line |-> m.bytes[1], fields |-> {<<m.bytes[3 * j + 1]>> : j \in 1..n}, body |-> body,
                   keep |-> m.bytes[1].kind = "line11" /\ \A j \in 1..n : m.bytes[3 * j + 1].kind # "close"]
  BY <1>5 DEF Writes
<1>7. data[1] = m.request.line
  BY <1>3, <1>6
<1>8. HeaderLines(data) = m.request.fields
  <2>1. {<<data[3 * j + 1]>> : j \in 1..n} = {<<m.bytes[3 * j + 1]>> : j \in 1..n}
    BY <1>3
  <2>2. m.request.fields = {<<m.bytes[3 * j + 1]>> : j \in 1..n}
    BY <1>6
  <2>3. HeaderLines(data) = {<<data[3 * j + 1]>> : j \in 1..n}
    BY <1>2, HeadFields
  <2> QED
    BY <2>1, <2>2, <2>3
<1>9. Size(data) = len - (3 * n + 5)
  <2> DEFINE field == LastField(data, {"length", "badlength"})
  <2>1. \/ field = <<>> /\ \A j \in 1..n : data[3 * j + 1].kind \notin {"length", "badlength"}
        \/ \E j \in 1..n : field = <<data[3 * j + 1]>> /\ data[3 * j + 1].kind \in {"length", "badlength"}
    BY <1>2, HeadField
  <2>2. Size(data) = IF field = <<>> THEN 0 ELSE field[1].n
    BY DEF Size
  <2> HIDE DEF field
  <2>3. CASE field = <<>>
    <3>1. \A j \in 1..n : m.bytes[3 * j + 1].kind # "length"
      BY <1>3, <2>1, <2>3
    <3>2. body = <<>>
      BY <1>5, <3>1 DEF Writes
    <3> QED
      BY <1>4, <2>2, <2>3, <3>2
  <2>4. CASE field # <<>>
    <3>1. PICK j \in 1..n : field = <<data[3 * j + 1]>> /\ data[3 * j + 1].kind \in {"length", "badlength"}
      BY <2>1, <2>4
    <3>2. m.bytes[3 * j + 1].kind \in {"length", "badlength"}
      BY <1>3, <3>1
    <3>3. Unit("close").kind = "close"
      BY DEF Unit
    <3>4. \/ m.bytes[3 * j + 1].kind = "field" \/ m.bytes[3 * j + 1] = Unit("close")
          \/ m.bytes[3 * j + 1].kind = "length" /\ m.bytes[3 * j + 1].n = Len(body)
      BY <1>5 DEF Writes
    <3>5. m.bytes[3 * j + 1].n = Len(body)
      BY <3>2, <3>3, <3>4
    <3>6. field[1] = m.bytes[3 * j + 1]
      BY <1>3, <3>1
    <3> QED
      BY <1>4, <2>2, <2>4, <3>5, <3>6
  <2> QED
    BY <2>3, <2>4
<1>10. KeepAlive(data) = m.request.keep
  <2> DEFINE connection == LastField(data, {"close"})
  <2>1. \/ connection = <<>> /\ \A j \in 1..n : data[3 * j + 1].kind \notin {"close"}
        \/ \E j \in 1..n : connection = <<data[3 * j + 1]>> /\ data[3 * j + 1].kind \in {"close"}
    BY <1>2, HeadField
  <2>2. KeepAlive(data) = IF connection = <<>> THEN data[1].kind = "line11"
                          ELSE connection # <<Unit("close")>>
    BY DEF KeepAlive
  <2>3. m.request.keep = (m.bytes[1].kind = "line11" /\ \A j \in 1..n : m.bytes[3 * j + 1].kind # "close")
    BY <1>6
  <2> HIDE DEF connection
  <2>4. CASE connection = <<>>
    <3>1. \A j \in 1..n : m.bytes[3 * j + 1].kind # "close"
      BY <1>3, <2>1, <2>4
    <3> QED
      BY <1>3, <2>2, <2>3, <2>4, <3>1
  <2>5. CASE connection # <<>>
    <3>1. PICK j \in 1..n : connection = <<data[3 * j + 1]>> /\ data[3 * j + 1].kind \in {"close"}
      BY <2>1, <2>5
    <3>2. m.bytes[3 * j + 1].kind = "close" /\ data[3 * j + 1] = m.bytes[3 * j + 1]
      BY <1>3, <3>1
    <3>3. m.bytes[3 * j + 1] = Unit("close")
      BY <3>2 DEF Writes
    <3>4. ~KeepAlive(data)
      BY <2>2, <2>5, <3>1, <3>2, <3>3
    <3>5. ~m.request.keep
      BY <2>3, <3>2
    <3>6. KeepAlive(data) \in BOOLEAN /\ m.request.keep \in BOOLEAN
      BY <2>2, <2>3, <2>5
    <3> QED
      BY <3>4, <3>5, <3>6
  <2> QED
    BY <2>4, <2>5
<1> QED
  BY <1>1, <1>7, <1>8, <1>9, <1>10

-----------------------------------------------------------------------------
(* The stream, message by message.                                         *)

\* Where message i ends.
EndOf(script, i) == Len(Bytes(SubSeq(script, 1, i)))

\* One message more.
LEMMA BytesLast ==
  ASSUME NEW script \in Seq(ClientMessages), NEW k \in Nat, k + 1 <= Len(script)
  PROVE  /\ Bytes(SubSeq(script, 1, k + 1)) = Bytes(SubSeq(script, 1, k)) \o script[k + 1].bytes
         /\ Bytes(SubSeq(script, 1, k)) \in Seq(Units)
         /\ script[k + 1].bytes \in Seq(Units)
<1>1. PICK n \in Nat : n = Len(script) /\ k + 1 <= n
  OBVIOUS
<1> DEFINE one == SubSeq(script, 1, k + 1)
           two == SubSeq(script, 1, k)
<1>2. one \in Seq(ClientMessages) /\ Len(one) = k + 1 /\ \A i \in 1..k + 1 : one[i] = script[i]
  <2>1. (k + 1 - 1) + 1 = k + 1 /\ \A i \in 1..k + 1 : (1 + i) - 1 = i
    OBVIOUS
  <2> QED
    BY <1>1, <2>1, PieceOf
<1>3. two \in Seq(ClientMessages) /\ Len(two) = k /\ \A i \in 1..k : two[i] = script[i]
  <2>1. (k - 1) + 1 = k /\ \A i \in 1..k : (1 + i) - 1 = i
    OBVIOUS
  <2> QED
    BY <1>1, <2>1, PieceOf
<1> HIDE DEF one, two
<1> DEFINE all == [i \in 1..k + 1 |-> one[i].bytes]
<1>4. Bytes(one) = FlattenSeq(all) /\ all \in Seq(Seq(Units)) /\ Len(all) = k + 1
  <2>1. k + 1 \in Nat
    OBVIOUS
  <2> QED
    BY <1>2, <2>1, BytesApart
<1>5. /\ Bytes(two) = FlattenSeq([i \in 1..k |-> two[i].bytes])
      /\ [i \in 1..k |-> two[i].bytes] \in Seq(Seq(Units))
  BY <1>3, BytesApart
<1>6. SubSeq(all, 1, k) = [i \in 1..k |-> two[i].bytes]
  <2>1. SubSeq(all, 1, k) = [i \in 1..k |-> all[i]]
    <3>1. k <= Len(all)
      BY <1>4
    <3> HIDE DEF all
    <3>2. /\ SubSeq(all, 1, k) \in Seq(Seq(Units)) /\ Len(SubSeq(all, 1, k)) = (k - 1) + 1
          /\ \A i \in 1..(k - 1) + 1 : SubSeq(all, 1, k)[i] = all[(1 + i) - 1]
      <4> DEFINE T == Seq(Units)
      <4>1. all \in Seq(T)
        BY <1>4
      <4> HIDE DEF T
      <4>2. /\ SubSeq(all, 1, k) \in Seq(T) /\ Len(SubSeq(all, 1, k)) = (k - 1) + 1
            /\ \A i \in 1..(k - 1) + 1 : SubSeq(all, 1, k)[i] = all[(1 + i) - 1]
        BY <3>1, <4>1, PieceOf
      <4> QED
        BY <4>2 DEF T
    <3>3. (k - 1) + 1 = k /\ \A i \in 1..k : (1 + i) - 1 = i
      OBVIOUS
    <3> DEFINE s == SubSeq(all, 1, k)
    <3>4. s \in Seq(Seq(Units)) /\ Len(s) = k /\ \A i \in 1..k : s[i] = all[i]
      BY <3>2, <3>3
    <3> HIDE DEF s
    <3>5. s = [i \in 1..k |-> s[i]]
      BY <3>4
    <3>6. [i \in 1..k |-> s[i]] = [i \in 1..k |-> all[i]]
      BY <3>4
    <3> QED
      BY <3>5, <3>6 DEF s
  <2>2. ASSUME NEW i \in 1..k PROVE all[i] = two[i].bytes
    BY <1>2, <1>3
  <2> HIDE DEF all
  <2>3. [i \in 1..k |-> all[i]] = [i \in 1..k |-> two[i].bytes]
    BY <2>2
  <2> QED
    BY <2>1, <2>3
<1>7. all[k + 1] = script[k + 1].bytes
  BY <1>2
<1> HIDE DEF all
<1>8. FlattenSeq(all) = FlattenSeq(SubSeq(all, 1, k)) \o all[k + 1]
  <2>1. all \in Seq(Seq(Units)) /\ Len(all) = k + 1
    BY <1>4
  <2> QED
    BY <2>1, FlattenLast
<1>9. Bytes(two) \in Seq(Units)
  BY <1>5, FlattenType
<1>10. script[k + 1].bytes \in Seq(Units)
  <2>1. k + 1 \in 1..n
    BY <1>1
  <2> QED
    BY <1>1, <2>1, BytesApart
<1> QED
  BY <1>4, <1>5, <1>6, <1>7, <1>8, <1>9, <1>10 DEF one, two

\* The ends of two messages, and what is between them.
LEMMA EndsStep ==
  ASSUME NEW script \in Seq(ClientMessages), NEW k \in Nat, k + 1 <= Len(script)
  PROVE  /\ EndOf(script, k) \in Nat /\ Len(script[k + 1].bytes) \in Nat
         /\ EndOf(script, k + 1) = EndOf(script, k) + Len(script[k + 1].bytes)
         /\ \A p \in 1..EndOf(script, k) : Bytes(SubSeq(script, 1, k + 1))[p] = Bytes(SubSeq(script, 1, k))[p]
         /\ \A p \in 1..Len(script[k + 1].bytes) :
              Bytes(SubSeq(script, 1, k + 1))[EndOf(script, k) + p] = script[k + 1].bytes[p]
<1> DEFINE before == Bytes(SubSeq(script, 1, k))
           bytes  == script[k + 1].bytes
           after  == Bytes(SubSeq(script, 1, k + 1))
<1>1. after = before \o bytes /\ before \in Seq(Units) /\ bytes \in Seq(Units)
  BY BytesLast
<1>2. EndOf(script, k) = Len(before) /\ EndOf(script, k + 1) = Len(after)
  BY DEF EndOf
<1> HIDE DEF before, bytes, after
<1>3. PICK a \in Nat, b \in Nat : a = Len(before) /\ b = Len(bytes)
  BY <1>1
<1>4. Len(after) = a + b /\ \A p \in 1..a : after[p] = before[p]
  BY <1>1, <1>3
<1>5. ASSUME NEW p \in 1..b PROVE after[a + p] = bytes[p]
  <2>1. a + p \in 1..a + b /\ ~(a + p <= a) /\ (a + p) - a = p
    BY <1>3
  <2> QED
    BY <1>1, <1>3, <2>1
<1> QED
  BY <1>2, <1>3, <1>4, <1>5 DEF before, bytes, after

\* The stream begins with each of its first messages, and their ends are in order.
LEMMA EndsInOrder ==
  ASSUME NEW script \in Seq(ClientMessages), NEW k \in Nat, NEW l \in Nat, k <= l, l <= Len(script)
  PROVE  /\ EndOf(script, k) \in Nat /\ EndOf(script, l) \in Nat
         /\ EndOf(script, k) <= EndOf(script, l)
         /\ \A p \in 1..EndOf(script, k) : Bytes(SubSeq(script, 1, l))[p] = Bytes(SubSeq(script, 1, k))[p]
<1>1. PICK n \in Nat : n = Len(script) /\ l <= n
  OBVIOUS
<1> DEFINE Good(d) == /\ EndOf(script, k + d) \in Nat
                      /\ EndOf(script, k) <= EndOf(script, k + d)
                      /\ \A p \in 1..EndOf(script, k) :
                           Bytes(SubSeq(script, 1, k + d))[p] = Bytes(SubSeq(script, 1, k))[p]
           S == {d \in Nat : k + d <= n => Good(d)}
<1>2. EndOf(script, k) \in Nat
  <2>1. SubSeq(script, 1, k) \in Seq(ClientMessages)
    <3>1. k <= Len(script)
      BY <1>1
    <3> QED
      BY <3>1, PieceOf
  <2>2. Bytes(SubSeq(script, 1, k)) \in Seq(Units)
    BY <2>1, BytesType
  <2> QED
    BY <2>2 DEF EndOf
<1>3. 0 \in S
  <2>1. k + 0 = k
    OBVIOUS
  <2> QED
    BY <1>2, <2>1
<1>4. ASSUME NEW d \in Nat, d \in S PROVE d + 1 \in S
  <2> SUFFICES ASSUME k + (d + 1) <= n PROVE Good(d + 1)
    OBVIOUS
  <2>1. PICK kd \in Nat : kd = k + d /\ kd + 1 = k + (d + 1) /\ kd + 1 <= n
    OBVIOUS
  <2>2. Good(d)
    BY <1>4, <2>1
  <2>3. kd + 1 <= Len(script)
    BY <1>1, <2>1
  <2>4. /\ EndOf(script, kd) \in Nat /\ Len(script[kd + 1].bytes) \in Nat
        /\ EndOf(script, kd + 1) = EndOf(script, kd) + Len(script[kd + 1].bytes)
        /\ \A p \in 1..EndOf(script, kd) :
             Bytes(SubSeq(script, 1, kd + 1))[p] = Bytes(SubSeq(script, 1, kd))[p]
    BY <2>3, EndsStep
  <2>5. PICK a \in Nat, b \in Nat, c \in Nat :
          a = EndOf(script, k) /\ b = EndOf(script, kd) /\ c = EndOf(script, kd + 1) /\ b <= c
    BY <1>2, <2>4
  <2>6. a <= b /\ \A p \in 1..a : Bytes(SubSeq(script, 1, kd))[p] = Bytes(SubSeq(script, 1, k))[p]
    BY <2>1, <2>2, <2>5
  <2>7. a <= c /\ \A p \in 1..a : Bytes(SubSeq(script, 1, kd + 1))[p] = Bytes(SubSeq(script, 1, k))[p]
    <3>1. \A p \in 1..a : p \in 1..b
      BY <2>6
    <3>2. \A p \in 1..b : Bytes(SubSeq(script, 1, kd + 1))[p] = Bytes(SubSeq(script, 1, kd))[p]
      BY <2>4, <2>5
    <3> QED
      BY <2>5, <2>6, <3>1, <3>2
  <2> QED
    BY <2>1, <2>5, <2>7
<1>5. l - k \in S
  <2>1. \A d \in Nat : d \in S
    <3> HIDE DEF S
    <3> QED
      BY <1>3, <1>4, Inductive
  <2>2. l - k \in Nat
    OBVIOUS
  <2> QED
    BY <2>1, <2>2
<1>6. k + (l - k) = l
  OBVIOUS
<1> QED
  BY <1>1, <1>2, <1>5, <1>6

\* Where a message is in the stream.
LEMMA MessageAt ==
  ASSUME NEW script \in Seq(ClientMessages), NEW k \in Nat, k + 1 <= Len(script)
  PROVE  /\ EndOf(script, k) \in Nat /\ Len(script[k + 1].bytes) \in Nat
         /\ EndOf(script, k + 1) = EndOf(script, k) + Len(script[k + 1].bytes)
         /\ EndOf(script, k + 1) <= Len(Bytes(script))
         /\ \A p \in 1..Len(script[k + 1].bytes) :
              Bytes(script)[EndOf(script, k) + p] = script[k + 1].bytes[p]
<1>1. PICK n \in Nat : n = Len(script) /\ k + 1 <= n
  OBVIOUS
<1>2. PICK k1 \in Nat : k1 = k + 1
  OBVIOUS
<1>3. SubSeq(script, 1, n) = script
  BY <1>1, SubSeqFull
<1>4. EndOf(script, n) = Len(Bytes(script))
  BY <1>3 DEF EndOf
<1>5. PICK a \in Nat, b \in Nat : a = EndOf(script, k) /\ b = Len(script[k + 1].bytes) /\ EndOf(script, k + 1) = a + b
  BY EndsStep
<1>6. /\ EndOf(script, k1) <= EndOf(script, n)
      /\ \A p \in 1..EndOf(script, k1) : Bytes(SubSeq(script, 1, n))[p] = Bytes(SubSeq(script, 1, k1))[p]
  <2>1. k1 <= n /\ n <= Len(script)
    BY <1>1, <1>2
  <2> QED
    BY <2>1, EndsInOrder
<1>7. ASSUME NEW p \in 1..b PROVE Bytes(script)[a + p] = script[k + 1].bytes[p]
  <2>1. a + p \in 1..a + b
    BY <1>5
  <2>2. Bytes(SubSeq(script, 1, k1))[a + p] = script[k + 1].bytes[p]
    BY <1>2, <1>5, EndsStep
  <2>3. Bytes(SubSeq(script, 1, n))[a + p] = Bytes(SubSeq(script, 1, k1))[a + p]
    BY <1>2, <1>5, <1>6, <2>1
  <2> QED
    BY <1>3, <2>2, <2>3
<1> QED
  BY <1>2, <1>4, <1>5, <1>6, <1>7

-----------------------------------------------------------------------------
(* Framing.                                                                *)

\* Clients write requests as the grammar has them, and no read() ends inside a head.
WellBehaved ==
  /\ ~SplitHeads
  /\ \A script \in Scripts : \A i \in DOMAIN script : WellWritten(script[i])

\* The requests taken out of the buffer: those served, and the one on its way.
Extracted == Len(served) + (IF at = "handling" THEN 1 ELSE 0)

Got(i) == IF i <= Len(served) THEN served[i] ELSE request

\* None of the first i messages, of those there are, has a body that begins with a line end.
PlainTo(i) == \A j \in 1..i : j <= Len(messages) => ~IsPrefix(CRLF, messages[j].request.body)

(***************************************************************************)
(* As long as the messages are plain, the requests taken out of the buffer *)
(* are the first ones of the client and what was consumed ends where they  *)
(* do; a message that is not is still consumed to its end.                 *)
(***************************************************************************)
FramingInv ==
  /\ ~InsideHead(received)
  /\ PlainTo(Extracted) => Extracted <= Len(messages) /\ Consumed = EndOf(messages, Extracted)
  /\ \A i \in 1..Extracted : PlainTo(i) => i <= Len(messages) /\ Got(i) = messages[i].request
  /\ \A i \in 1..Extracted :
       i <= Len(messages) /\ PlainTo(i - 1) => EndOf(messages, i) <= received

\* Each request served before the last let the connection stay open.
KeptInv == \A i \in 1..Len(served) - 1 : KeepsOpen(served[i])

\* What the buffer holds is in the stream behind what was consumed.
LEMMA BufferAt ==
  ASSUME BufferInv
  PROVE  \A p \in 1..Len(read_buffer_) : read_buffer_[p] = stream[Consumed + p]
<1>1. PICK r \in Nat, c \in Nat :
        r = received /\ c = Consumed /\ c <= r /\ r <= Len(stream) /\ Len(read_buffer_) = r - c
  BY BufferType
<1>2. stream \in Seq(Units) /\ read_buffer_ = SubSeq(stream, c + 1, r)
  BY <1>1, BufferType DEF BufferInv
<1>3. \A p \in 1..(r - (c + 1)) + 1 : SubSeq(stream, c + 1, r)[p] = stream[((c + 1) + p) - 1]
  <2>1. c + 1 \in Nat \ {0} /\ c + 1 <= r + 1
    BY <1>1
  <2> QED
    BY <1>1, <1>2, <2>1, PieceOf
<1>4. (r - (c + 1)) + 1 = r - c /\ \A p \in 1..r - c : ((c + 1) + p) - 1 = c + p
  BY <1>1
<1> QED
  BY <1>1, <1>2, <1>3, <1>4

\* A body that begins with a line end.
LEMMA LineEndFirst ==
  ASSUME NEW body \in Seq(Units), Len(body) >= 2, body[1] = Unit("CR"), body[2] = Unit("LF")
  PROVE  IsPrefix(CRLF, body)
<1>1. PICK n \in Nat : n = Len(body) /\ n >= 2
  OBVIOUS
<1>2. SubSeq(body, 1, 2) \in Seq(Units) /\ Len(SubSeq(body, 1, 2)) = 2
      /\ SubSeq(body, 1, 2)[1] = body[1] /\ SubSeq(body, 1, 2)[2] = body[2]
  <2>1. /\ SubSeq(body, 1, 2) \in Seq(Units) /\ Len(SubSeq(body, 1, 2)) = (2 - 1) + 1
        /\ \A i \in 1..(2 - 1) + 1 : SubSeq(body, 1, 2)[i] = body[(1 + i) - 1]
    BY <1>1, PieceOf
  <2> DEFINE t == SubSeq(body, 1, 2)
  <2> HIDE DEF t
  <2>2. t \in Seq(Units) /\ Len(t) = 2 /\ \A i \in 1..2 : t[i] = body[(1 + i) - 1]
    BY <2>1 DEF t
  <2> QED
    BY <2>2 DEF t
<1> DEFINE t == SubSeq(body, 1, 2)
<1> HIDE DEF t
<1>3. t \in Seq(Units) /\ Len(t) = 2 /\ t[1] = Unit("CR") /\ t[2] = Unit("LF")
  BY <1>2 DEF t
<1>4. t = CRLF
  BY <1>3 DEF CRLF
<1>5. Len(CRLF) = 2 /\ SubSeq(CRLF, 1, 2) = CRLF
  <2>1. CRLF \in Seq({Unit("CR"), Unit("LF")}) /\ Len(CRLF) = 2
    BY DEF CRLF
  <2> QED
    BY <2>1, SubSeqFull
<1> QED
  BY <1>1, <1>4, <1>5 DEF IsPrefix, t

\* Data that is message m, cut anywhere, or has another message behind it.
Agrees(data, m) ==
  /\ \A p \in 1..Len(m.bytes) : p <= Len(data) => data[p] = m.bytes[p]
  /\ Len(m.bytes) + 1 <= Len(data) => data[Len(m.bytes) + 1].kind \in RequestLines

\* What clients send is well written.
LEMMA MessagesKnown ==
  ASSUME BufferInv, WellBehaved
  PROVE  /\ messages \in Seq(ClientMessages) /\ Len(messages) \in Nat
         /\ \A i \in 1..Len(messages) : /\ messages[i].bytes \in Seq(Units)
                                        /\ \E n \in Nat : Writes(messages[i], n)
<1>1. messages \in Seq(ClientMessages) /\ messages \in Scripts
  BY ConnectionAssumption DEF BufferInv, ClientMessages
<1>2. PICK n \in Nat : n = Len(messages) /\ DOMAIN messages = 1..n
  BY <1>1
<1>3. \A i \in 1..n : messages[i].bytes \in Seq(Units)
  BY <1>1, <1>2, BytesApart
<1>4. \A i \in 1..n : WellWritten(messages[i])
  BY <1>1, <1>2 DEF WellBehaved
<1>5. ASSUME NEW i \in 1..n PROVE \E k \in Nat : Writes(messages[i], k)
  <2>1. PICK k \in 0..Len(messages[i].bytes) : Writes(messages[i], k)
    BY <1>4 DEF WellWritten
  <2>2. Len(messages[i].bytes) \in Nat
    BY <1>3
  <2>3. k \in Nat
    BY <2>1, <2>2
  <2> QED
    BY <2>1, <2>3
<1> QED
  BY <1>1, <1>2, <1>3, <1>5

\* Where a message starts in the buffer, it is what follows.
LEMMA BufferAgrees ==
  ASSUME BufferInv, WellBehaved, NEW k \in Nat, k + 1 <= Len(messages),
         Consumed = EndOf(messages, k)
  PROVE  Agrees(read_buffer_, messages[k + 1])
<1>1. PICK n \in Nat, len \in Nat, c \in Nat, b \in Nat, s \in Nat :
        /\ n = Len(messages) /\ k + 1 <= n /\ c = Consumed /\ c = EndOf(messages, k)
        /\ len = Len(messages[k + 1].bytes) /\ b = Len(read_buffer_)
        /\ s = Len(stream) /\ c + b <= s
  <2>1. messages \in Seq(ClientMessages) /\ Len(messages) \in Nat
    BY MessagesKnown
  <2>2. Len(messages[k + 1].bytes) \in Nat
    BY <2>1, MessageAt
  <2>3. PICK c \in Nat, b \in Nat, r \in Nat, s \in Nat :
          c = Consumed /\ b = Len(read_buffer_) /\ r = received /\ s = Len(stream) /\ r <= s /\ r - c = b
    BY BufferType
  <2>4. c + b <= s
    BY <2>3
  <2> QED
    BY <2>1, <2>2, <2>3, <2>4
<1>2. messages \in Seq(ClientMessages) /\ stream = Bytes(messages)
  BY MessagesKnown DEF BufferInv
<1>3. \A p \in 1..b : read_buffer_[p] = stream[c + p]
  BY <1>1, BufferAt
<1>4. /\ EndOf(messages, k + 1) = c + len
      /\ \A p \in 1..len : stream[c + p] = messages[k + 1].bytes[p]
  <2>1. k + 1 <= Len(messages)
    BY <1>1
  <2>2. /\ EndOf(messages, k + 1) = EndOf(messages, k) + Len(messages[k + 1].bytes)
        /\ \A p \in 1..Len(messages[k + 1].bytes) :
             Bytes(messages)[EndOf(messages, k) + p] = messages[k + 1].bytes[p]
    BY <1>2, <2>1, MessageAt
  <2> QED
    BY <1>1, <1>2, <2>2
<1>5. ASSUME NEW p \in 1..len, p <= b PROVE read_buffer_[p] = messages[k + 1].bytes[p]
  <2>1. p \in 1..b
    BY <1>5
  <2> QED
    BY <1>3, <1>4, <2>1
<1>6. ASSUME len + 1 <= b PROVE read_buffer_[len + 1].kind \in RequestLines
  <2>1. len + 1 \in 1..b /\ c + (len + 1) <= s
    BY <1>1, <1>6
  <2>2. read_buffer_[len + 1] = stream[c + (len + 1)]
    BY <1>3, <2>1
  <2>3. CASE k + 1 = n
    <3>1. SubSeq(messages, 1, n) = messages
      BY <1>1, <1>2, SubSeqFull
    <3>2. EndOf(messages, n) = s
      BY <1>1, <1>2, <3>1 DEF EndOf
    <3>3. c + len = s
      BY <1>4, <2>3, <3>2
    <3> QED
      BY <2>1, <3>3
  <2>4. CASE k + 1 # n
    <3>1. PICK l \in Nat : l = k + 1 /\ l + 1 <= n /\ l + 1 \in 1..n
      BY <1>1, <2>4
    <3>2. PICK j \in Nat : Writes(messages[l + 1], j)
      BY <1>1, <3>1, MessagesKnown
    <3>3. messages[l + 1].bytes[1].kind \in RequestLines /\ 3 * j + 5 <= Len(messages[l + 1].bytes)
      BY <3>2 DEF Writes
    <3>4. \A p \in 1..Len(messages[l + 1].bytes) :
            stream[EndOf(messages, l) + p] = messages[l + 1].bytes[p]
      BY <1>1, <1>2, <3>1, MessageAt
    <3>5. 1 \in 1..Len(messages[l + 1].bytes)
      <4>1. Len(messages[l + 1].bytes) \in Nat
        BY <1>1, <1>2, <3>1, MessageAt
      <4> QED
        BY <3>3, <4>1
    <3>6. EndOf(messages, l) + 1 = c + (len + 1)
      BY <1>1, <1>4, <3>1
    <3> QED
      BY <2>2, <3>3, <3>4, <3>5, <3>6
  <2> QED
    BY <2>3, <2>4
<1> QED
  BY <1>1, <1>5, <1>6 DEF Agrees

\* A head holds no empty line before its end.
LEMMA NoBlankInHead ==
  ASSUME NEW data, NEW n \in Nat, Head3(data, n), NEW p \in Nat, p >= 1, p + 3 < 3 * n + 5,
         data[p] = Unit("CR"), data[p + 1] = Unit("LF"),
         data[p + 2] = Unit("CR"), data[p + 3] = Unit("LF")
  PROVE  FALSE
<1>1. data \in Seq(Units)
  BY DEF Head3
<1>l. PICK len \in Nat : len = Len(data) /\ 3 * n + 5 <= len
  BY <1>1 DEF Head3
<1>2. PICK q \in Nat : q = p + 2 /\ q + 1 = p + 3
  <2>1. p + 2 \in Nat /\ (p + 2) + 1 = p + 3
    OBVIOUS
  <2> QED
    BY <2>1
<1>3. p \in LineEnds(data)
  <2>1. p + 1 <= Len(data)
    BY <1>l, <1>2
  <2> QED
    BY <1>1, <2>1, LineEndAt
<1>4. q \in LineEnds(data)
  <2>1. q + 1 <= Len(data) /\ q >= 1 /\ data[q] = Unit("CR") /\ data[q + 1] = Unit("LF")
    BY <1>l, <1>2
  <2> QED
    BY <1>1, <2>1, LineEndAt
<1>5. p # 3 * n + 4 /\ p <= 3 * n + 4 /\ q # 3 * n + 4 /\ q <= 3 * n + 4 /\ q >= 1
  BY <1>2
<1>6. PICK j \in 0..n : p = 3 * j + 2
  BY <1>3, <1>5, HeadEnds
<1>7. PICK l \in 0..n : q = 3 * l + 2
  BY <1>4, <1>5, HeadEnds
<1> QED
  BY <1>2, <1>6, <1>7

\* Four places of a stream of which b are read behind the first c, as places of those b.
LEMMA Offset ==
  ASSUME NEW b \in Nat, NEW c \in Nat, NEW r \in Nat, NEW s \in Nat, r = c + b, r <= s,
         NEW j \in c + 1..r - 3
  PROVE  /\ j \in Nat \ {0} /\ j - c \in Nat /\ j - c >= 1 /\ (j - c) + 3 <= b
         /\ j - c \in 1..b /\ (j - c) + 1 \in 1..b /\ (j - c) + 2 \in 1..b /\ (j - c) + 3 \in 1..b
         /\ j = c + (j - c) /\ j + 1 = c + ((j - c) + 1) /\ j + 2 = c + ((j - c) + 2)
         /\ j + 3 = c + ((j - c) + 3) /\ j + 3 <= s
  OBVIOUS

\* What an empty line looks like.
LEMMA EmptyLine ==
  ASSUME NEW s \in Seq(Units), NEW j \in Nat \ {0}, j + 3 <= Len(s), SubSeq(s, j, j + 3) = CRLF \o CRLF
  PROVE  /\ s[j] = Unit("CR") /\ s[j + 1] = Unit("LF")
         /\ s[j + 2] = Unit("CR") /\ s[j + 3] = Unit("LF")
<1> DEFINE t == SubSeq(s, j, j + 3)
<1>1. /\ t \in Seq(Units) /\ Len(t) = ((j + 3) - j) + 1
      /\ \A i \in 1..((j + 3) - j) + 1 : t[i] = s[(j + i) - 1]
  <2>1. j + 3 \in Nat /\ j <= (j + 3) + 1
    OBVIOUS
  <2> QED
    BY <2>1, PieceOf
<1>2. t = CRLF \o CRLF
  OBVIOUS
<1> HIDE DEF t
<1>3. /\ ((j + 3) - j) + 1 = 4
      /\ (j + 1) - 1 = j /\ (j + 2) - 1 = j + 1 /\ (j + 3) - 1 = j + 2 /\ (j + 4) - 1 = j + 3
  OBVIOUS
<1>4. t[1] = s[j] /\ t[2] = s[j + 1] /\ t[3] = s[j + 2] /\ t[4] = s[j + 3]
  <2>1. \A i \in {1, 2, 3, 4} : t[i] = s[(j + i) - 1]
    BY <1>1, <1>3
  <2> QED
    BY <1>3, <2>1
<1> DEFINE U == {Unit("CR"), Unit("LF")}
<1>5. CRLF \in Seq(U) /\ Len(CRLF) = 2 /\ CRLF[1] = Unit("CR") /\ CRLF[2] = Unit("LF")
  BY DEF CRLF
<1> HIDE DEF U
<1>6. \A i \in 1..Len(CRLF) + Len(CRLF) :
        (CRLF \o CRLF)[i] = IF i <= Len(CRLF) THEN CRLF[i] ELSE CRLF[i - Len(CRLF)]
  BY <1>5, ConcatProperties
<1>7. t[1] = CRLF[1] /\ t[2] = CRLF[2] /\ t[3] = CRLF[1] /\ t[4] = CRLF[2]
  <2>1. \A i \in 1..4 : t[i] = IF i <= 2 THEN CRLF[i] ELSE CRLF[i - 2]
    BY <1>2, <1>5, <1>6
  <2> QED
    BY <2>1
<1> QED
  BY <1>4, <1>5, <1>7

\* A message whose first byte has been read has its whole head in the buffer.
LEMMA HeadArrived ==
  ASSUME BufferInv, WellBehaved, ~InsideHead(received),
         NEW k \in Nat, k + 1 <= Len(messages), Consumed = EndOf(messages, k),
         Len(read_buffer_) # 0, NEW n \in Nat, Writes(messages[k + 1], n)
  PROVE  Begins(read_buffer_, messages[k + 1], n)
<1> DEFINE m == messages[k + 1]
<1>1. PICK b \in Nat, c \in Nat, r \in Nat, s \in Nat :
        /\ b = Len(read_buffer_) /\ c = Consumed /\ r = received /\ s = Len(stream)
        /\ b # 0 /\ r = c + b /\ r <= s
  BY BufferType
<1>2. m.bytes \in Seq(Units) /\ messages \in Seq(ClientMessages) /\ stream = Bytes(messages)
  <2>1. k + 1 \in 1..Len(messages)
    BY MessagesKnown
  <2> QED
    BY <2>1, MessagesKnown DEF BufferInv
<1>3. PICK len \in Nat : len = Len(m.bytes) /\ 3 * n + 5 <= len
  BY <1>2 DEF Writes
<1>4. /\ \A p \in 1..len : p <= b => read_buffer_[p] = m.bytes[p]
  BY <1>1, <1>3, BufferAgrees DEF Agrees
<1>5. \A p \in 1..b : read_buffer_[p] = stream[c + p]
  BY <1>1, BufferAt
<1>6. Head3(m.bytes, n)
  <2>1. 3 * n + 5 <= Len(m.bytes)
    BY <1>3
  <2>2. Begins(m.bytes, m, n)
    BY <1>2, <2>1 DEF Begins
  <2> HIDE DEF m
  <2> QED
    BY <1>2, <2>2, MessageHead DEF m
<1> HIDE DEF m
<1>7. CASE b < 3 * n + 5
  <2>1. \A p \in 1..b : stream[c + p] = m.bytes[p]
    <3> SUFFICES ASSUME NEW p \in 1..b PROVE stream[c + p] = m.bytes[p]
      OBVIOUS
    <3>1. p \in 1..len /\ p <= b
      BY <1>3, <1>7
    <3> QED
      BY <1>4, <1>5, <3>1
  <2>2. c + 1 \in 1..r /\ stream[c + 1].kind \in RequestLines
    <3>1. 1 \in 1..b /\ c + 1 \in 1..r
      BY <1>1
    <3> QED
      BY <1>6, <2>1, <3>1 DEF Head3
  <2>3. ASSUME NEW j \in c + 1..r - 3, SubSeq(stream, j, j + 3) = CRLF \o CRLF PROVE FALSE
    <3>1. PICK p \in Nat :
            /\ j \in Nat \ {0} /\ p >= 1 /\ p + 3 <= b
            /\ p \in 1..b /\ p + 1 \in 1..b /\ p + 2 \in 1..b /\ p + 3 \in 1..b
            /\ j = c + p /\ j + 1 = c + (p + 1) /\ j + 2 = c + (p + 2) /\ j + 3 = c + (p + 3)
            /\ j + 3 <= s
      <4>1. r = c + b /\ r <= s
        BY <1>1
      <4> QED
        BY <4>1, Offset
    <3>2. stream \in Seq(Units)
      BY BufferType
    <3>a. j + 3 <= Len(stream)
      <4>1. s = Len(stream)
        BY <1>1
      <4> QED
        BY <3>1, <4>1
    <3>3. /\ stream[j] = Unit("CR") /\ stream[j + 1] = Unit("LF")
          /\ stream[j + 2] = Unit("CR") /\ stream[j + 3] = Unit("LF")
      BY <2>3, <3>1, <3>2, <3>a, EmptyLine
    <3>4. /\ m.bytes[p] = Unit("CR") /\ m.bytes[p + 1] = Unit("LF")
          /\ m.bytes[p + 2] = Unit("CR") /\ m.bytes[p + 3] = Unit("LF")
      BY <2>1, <3>1, <3>3
    <3>5. p + 3 < 3 * n + 5
      BY <1>7, <3>1
    <3> QED
      BY <1>6, <3>1, <3>4, <3>5, NoBlankInHead
  <2>4. \A j \in c + 1..r - 3 : SubSeq(stream, j, j + 3) # CRLF \o CRLF
    BY <2>3
  <2>5. InsideHead(r)
    BY <2>2, <2>4 DEF InsideHead
  <2> QED
    BY <1>1, <2>5
<1>8. CASE b >= 3 * n + 5
  <2>1. \A p \in 1..3 * n + 5 : p \in 1..len /\ p <= b
    BY <1>3, <1>8
  <2>2. \A p \in 1..3 * n + 5 : read_buffer_[p] = m.bytes[p]
    BY <1>4, <2>1
  <2>3. read_buffer_ \in Seq(Units) /\ 3 * n + 5 <= Len(read_buffer_)
    BY <1>1, <1>8, BufferType
  <2> QED
    BY <2>2, <2>3 DEF Begins, m
<1> QED
  BY <1>1, <1>7, <1>8

(***************************************************************************)
(* A message that begins the data is consumed to its end; and, if it is    *)
(* plain, no further.                                                      *)
(***************************************************************************)
LEMMA MessageConsumed ==
  ASSUME NEW m, m.bytes \in Seq(Units), NEW n \in Nat, Writes(m, n),
         NEW data, Begins(data, m, n), Agrees(data, m)
  PROVE  /\ Len(m.bytes) <= (BodyStart(data) - 1) + Size(data)
         /\ ~IsPrefix(CRLF, m.request.body) =>
              BodyStart(data) = 3 * n + 6 /\ (BodyStart(data) - 1) + Size(data) = Len(m.bytes)
<1>1. PICK len \in Nat, d \in Nat : len = Len(m.bytes) /\ 3 * n + 5 <= len /\ d = Len(data)
  BY DEF Writes, Begins
<1>2. Head3(data, n)
  BY MessageHead
<1>3. PICK size \in Nat : size = Size(data) /\ size = len - (3 * n + 5)
  <2>1. len - (3 * n + 5) \in Nat
    BY <1>1
  <2> QED
    BY <1>1, <2>1, HeadMeans
<1>4. /\ 3 * n + 6 \in LineEnds(data) => BodyStart(data) = 3 * n + 8
      /\ 3 * n + 6 \notin LineEnds(data) => BodyStart(data) = 3 * n + 6
  BY <1>2, HeadStop
<1>5. PICK e \in Nat : e = 3 * n + 6 /\ e + 1 = 3 * n + 7
  <2>1. 3 * n + 6 \in Nat /\ (3 * n + 6) + 1 = 3 * n + 7
    OBVIOUS
  <2> QED
    BY <2>1
<1>6. ASSUME e \in LineEnds(data) PROVE IsPrefix(CRLF, m.request.body)
  <2>1. e + 1 <= d /\ data[e] = Unit("CR") /\ data[e + 1] = Unit("LF")
    <3>1. data \in Seq(Units)
      BY DEF Begins
    <3> QED
      BY <1>1, <1>6, <3>1, LineEndAt
  <2>2. Unit("CR").kind = "CR" /\ Unit("LF").kind = "LF"
    BY DEF Unit
  <2>3. len + 1 # e /\ len + 1 # e + 1
    <3>1. len + 1 <= d => data[len + 1].kind \in RequestLines
      BY <1>1 DEF Agrees
    <3>2. len + 1 = e \/ len + 1 = e + 1 => len + 1 <= d
      BY <1>1, <1>5, <2>1
    <3> QED
      BY <2>1, <2>2, <3>1, <3>2 DEF RequestLines
  <2>4. e + 1 <= len
    BY <1>1, <1>5, <2>3
  <2>5. m.bytes[e] = Unit("CR") /\ m.bytes[e + 1] = Unit("LF")
    <3>1. e \in 1..len /\ e + 1 \in 1..len /\ e <= d /\ e + 1 <= d
      BY <1>1, <1>5, <2>1, <2>4
    <3> QED
      BY <1>1, <2>1, <3>1 DEF Agrees
  <2> DEFINE body == SubSeq(m.bytes, e, len)
  <2>6. /\ body \in Seq(Units) /\ Len(body) = (len - e) + 1
        /\ \A i \in 1..(len - e) + 1 : body[i] = m.bytes[(e + i) - 1]
    <3>1. e \in Nat \ {0} /\ len <= Len(m.bytes) /\ e <= len + 1
      BY <1>1, <1>5, <2>4
    <3> QED
      BY <3>1, PieceOf
  <2>7. m.request.body = body
    <3>1. m.request.body = SubSeq(m.bytes, (3 * n + 5) + 1, Len(m.bytes))
      BY DEF Writes
    <3>2. (3 * n + 5) + 1 = e
      BY <1>5
    <3> QED
      BY <1>1, <3>1, <3>2
  <2> HIDE DEF body
  <2>8. Len(body) >= 2 /\ body[1] = m.bytes[e] /\ body[2] = m.bytes[e + 1]
    <3>1. (len - e) + 1 >= 2 /\ 1 \in 1..(len - e) + 1 /\ 2 \in 1..(len - e) + 1
      BY <2>4
    <3>2. (e + 1) - 1 = e /\ (e + 2) - 1 = e + 1
      OBVIOUS
    <3> QED
      BY <2>6, <3>1, <3>2
  <2> QED
    BY <2>5, <2>6, <2>7, <2>8, LineEndFirst
<1>7. CASE e \in LineEnds(data)
  <2>1. BodyStart(data) = 3 * n + 8
    BY <1>4, <1>5, <1>7
  <2>2. len <= ((3 * n + 8) - 1) + size
    BY <1>3
  <2>3. len <= (BodyStart(data) - 1) + Size(data)
    BY <1>3, <2>1, <2>2
  <2> QED
    BY <1>1, <1>6, <1>7, <2>3
<1>8. CASE e \notin LineEnds(data)
  <2>1. BodyStart(data) = 3 * n + 6
    BY <1>4, <1>5, <1>8
  <2>2. ((3 * n + 6) - 1) + size = len
    BY <1>3
  <2>3. (BodyStart(data) - 1) + Size(data) = len
    BY <1>3, <2>1, <2>2
  <2> QED
    BY <1>1, <2>1, <2>3
<1> QED
  BY <1>7, <1>8

\* A plain message that is delivered is the one the client means.
LEMMA MessageDelivered ==
  ASSUME NEW m, m.bytes \in Seq(Units), NEW n \in Nat, Writes(m, n),
         NEW data, Begins(data, m, n), Agrees(data, m), Delivered(data)
  PROVE  /\ Len(m.bytes) <= Parse(data).consumed
         /\ ~IsPrefix(CRLF, m.request.body) =>
              Parse(data).consumed = Len(m.bytes) /\ Parse(data).request = m.request
<1>1. PICK len \in Nat, d \in Nat : len = Len(m.bytes) /\ 3 * n + 5 <= len /\ d = Len(data)
  BY DEF Writes, Begins
<1>2. Parse(data).consumed = (BodyStart(data) - 1) + Size(data)
  BY DEF Delivered, Deliver
<1>3. Parse(data).request = Request(data, Size(data)) /\ (BodyStart(data) - 1) + Size(data) <= d
  BY <1>1 DEF Delivered, Deliver
<1>4. ASSUME ~IsPrefix(CRLF, m.request.body) PROVE Parse(data).request = m.request
  <2>1. BodyStart(data) = 3 * n + 6 /\ (BodyStart(data) - 1) + Size(data) = len
    BY <1>1, <1>4, MessageConsumed
  <2>s. PICK size \in Nat : size = Size(data) /\ size = len - (3 * n + 5)
    <3>1. len - (3 * n + 5) \in Nat
      BY <1>1
    <3> QED
      BY <1>1, <3>1, HeadMeans
  <2>2. (BodyStart(data) + Size(data)) - 1 = len /\ len <= d
    <3>1. ((3 * n + 6) + size) - 1 = len
      BY <2>s
    <3> QED
      BY <1>3, <2>s, <2>1, <3>1
  <2>3. SubSeq(data, BodyStart(data), BodyStart(data) + Size(data) - 1) = SubSeq(data, 3 * n + 6, len)
    <3>1. ((3 * n + 6) + size) - 1 = len
      BY <2>s
    <3> QED
      BY <2>s, <2>1, <3>1
  <2>4. SubSeq(data, 3 * n + 6, len) = SubSeq(m.bytes, 3 * n + 6, len)
    <3> DEFINE x == SubSeq(data, 3 * n + 6, len)
               y == SubSeq(m.bytes, 3 * n + 6, len)
    <3>1. 3 * n + 6 \in Nat \ {0} /\ len <= d /\ len <= Len(m.bytes) /\ 3 * n + 6 <= len + 1
      BY <1>1, <2>2
    <3>2. PICK e \in Nat \ {0} : e = 3 * n + 6 /\ e <= len + 1
      BY <3>1
    <3>3. /\ x \in Seq(Units) /\ Len(x) = (len - e) + 1
          /\ \A i \in 1..(len - e) + 1 : x[i] = data[(e + i) - 1]
      <4>1. data \in Seq(Units) /\ len <= Len(data)
        BY <1>1, <3>1 DEF Begins
      <4> QED
        BY <3>2, <4>1, PieceOf
    <3>4. /\ y \in Seq(Units) /\ Len(y) = (len - e) + 1
          /\ \A i \in 1..(len - e) + 1 : y[i] = m.bytes[(e + i) - 1]
      BY <3>1, <3>2, PieceOf
    <3> HIDE DEF x, y
    <3>5. ASSUME NEW i \in 1..(len - e) + 1 PROVE x[i] = y[i]
      <4>1. (e + i) - 1 \in 1..len /\ (e + i) - 1 <= d
        BY <3>1, <3>2
      <4>2. data[(e + i) - 1] = m.bytes[(e + i) - 1]
        BY <1>1, <4>1 DEF Agrees
      <4> QED
        BY <3>3, <3>4, <4>2
    <3>6. x = y
      BY <3>3, <3>4, <3>5, SeqEqual
    <3> QED
      BY <3>6 DEF x, y
  <2>5. m.request.body = SubSeq(m.bytes, 3 * n + 6, len)
    <3>1. m.request.body = SubSeq(m.bytes, (3 * n + 5) + 1, Len(m.bytes)) /\ (3 * n + 5) + 1 = 3 * n + 6
      BY DEF Writes
    <3> QED
      BY <1>1, <3>1
  <2>6. Request(data, Size(data)) =
          [line |-> m.request.line, fields |-> m.request.fields, body |-> m.request.body,
           keep |-> m.request.keep]
    <3>1. data[1] = m.request.line
      BY HeadMeans
    <3>3. KeepAlive(data) = m.request.keep
      BY HeadMeans
    <3>4. HeaderLines(data) = m.request.fields
      BY HeadMeans
    <3>2. SubSeq(data, BodyStart(data), BodyStart(data) + Size(data) - 1) = m.request.body
      BY <2>3, <2>4, <2>5
    <3> QED
      BY <3>1, <3>2, <3>3, <3>4 DEF Request, HeaderLines
  <2>7. m.request = [line |-> m.request.line, fields |-> m.request.fields, body |-> m.request.body,
                     keep |-> m.request.keep]
    BY DEF Writes
  <2> QED
    BY <1>3, <2>6, <2>7
<1> QED
  BY <1>1, <1>2, <1>4, MessageConsumed

\* No message ends at the start of the stream, the last at its end.
LEMMA StreamEnds ==
  ASSUME BufferInv
  PROVE  EndOf(messages, 0) = 0 /\ EndOf(messages, Len(messages)) = Len(stream)
<1>1. messages \in Seq(ClientMessages) /\ stream = Bytes(messages)
  BY ConnectionAssumption DEF BufferInv, ClientMessages
<1>2. SubSeq(messages, 1, Len(messages)) = messages
  BY <1>1, SubSeqFull
<1>3. SubSeq(messages, 1, 0) = <<>>
  BY <1>1, SubSeqEmpty
<1>4. Bytes(<<>>) = <<>>
  <2>1. <<>> \in Seq(ClientMessages) /\ 0 = Len(<<>>)
    OBVIOUS
  <2>2. Bytes(<<>>) = FlattenSeq([i \in 1..0 |-> <<>>[i].bytes])
    BY <2>1, BytesApart
  <2>3. [i \in 1..0 |-> <<>>[i].bytes] = <<>>
    OBVIOUS
  <2> QED
    BY <2>2, <2>3 DEF FlattenSeq
<1>5. EndOf(messages, 0) = 0
  <2>1. Bytes(SubSeq(messages, 1, 0)) = <<>>
    BY <1>3, <1>4
  <2>2. Len(<<>>) = 0
    OBVIOUS
  <2> QED
    BY <2>1, <2>2 DEF EndOf
<1>6. EndOf(messages, Len(messages)) = Len(stream)
  BY <1>1, <1>2 DEF EndOf
<1> QED
  BY <1>5, <1>6

\* A new connection has taken nothing out of its buffer.
LEMMA FramingInit == Init => FramingInv /\ KeptInv
<1> SUFFICES ASSUME Init PROVE FramingInv /\ KeptInv
  OBVIOUS
<1>1. received = 0 /\ served = <<>> /\ at = "parsing" /\ read_buffer_ = <<>>
  BY DEF Init
<1>2. BufferInv
  BY BufferInit
<1>3. Len(messages) \in Nat
  BY <1>2, ConnectionAssumption DEF BufferInv
<1>4. Extracted = 0
  BY <1>1 DEF Extracted
<1>5. Consumed = EndOf(messages, 0)
  BY <1>1, <1>2, StreamEnds DEF Consumed
<1>6. ~InsideHead(received)
  BY <1>1 DEF InsideHead
<1>7. FramingInv
  BY <1>3, <1>4, <1>5, <1>6 DEF FramingInv
<1>8. KeptInv
  BY <1>1 DEF KeptInv
<1> QED
  BY <1>7, <1>8

\* The next message is taken out whole.
LEMMA ExtractFrames ==
  ASSUME SessionInv, BufferInv, FramingInv, WellBehaved, Extract, PlainTo(Len(served))
  PROVE  LET e == Len(served)
         IN  /\ e \in Nat /\ e + 1 <= Len(messages)
             /\ EndOf(messages, e + 1) <= Consumed'
             /\ PlainTo(e + 1) => /\ Consumed' = EndOf(messages, e + 1)
                                  /\ request' = messages[e + 1].request
<1>1. PICK e \in Nat, n \in Nat : e = Len(served) /\ n = Len(messages)
  <2>1. Len(served) \in Nat
    BY DEF SessionInv
  <2> QED
    BY <2>1, MessagesKnown
<1>2. Extracted = e
  <2>1. at = "parsing"
    BY DEF Extract, Goes
  <2> QED
    BY <1>1, <2>1 DEF Extracted
<1>3. e <= n /\ Consumed = EndOf(messages, e) /\ ~InsideHead(received)
  BY <1>1, <1>2 DEF FramingInv
<1>4. /\ Delivered(read_buffer_) /\ request' = Parse(read_buffer_).request
      /\ Consumed' = Consumed + Parse(read_buffer_).consumed
  BY ExtractTakes
<1>5. PICK b \in Nat, c \in Nat, taken \in Nat :
        b = Len(read_buffer_) /\ c = Consumed /\ taken = Parse(read_buffer_).consumed
  BY BufferType, ConsumesSome DEF Extract
<1>6. b # 0
  <2>1. read_buffer_ \in Seq(Units) /\ LineEnds(read_buffer_) # {}
    BY <1>4, BufferType DEF Delivered, Proper
  <2>2. Min(LineEnds(read_buffer_)) \in 1..Len(read_buffer_) - 1
    BY <2>1, FirstLineEnd
  <2> QED
    BY <1>5, <2>2
<1>7. e # n
  <2> SUFFICES ASSUME e = n PROVE FALSE
    OBVIOUS
  <2>1. c = Len(stream)
    BY <1>1, <1>3, <1>5, StreamEnds
  <2>2. PICK r \in Nat, s \in Nat : r = received /\ s = Len(stream) /\ r <= s /\ r - c = b /\ c <= r
    BY <1>5, BufferType
  <2> QED
    BY <1>6, <2>1, <2>2
<1>8. e + 1 <= n /\ e + 1 \in 1..n
  BY <1>3, <1>7
<1> DEFINE m == messages[e + 1]
<1>9. PICK k \in Nat : Writes(m, k)
  BY <1>1, <1>8, MessagesKnown
<1>10. m.bytes \in Seq(Units) /\ messages \in Seq(ClientMessages)
  BY <1>1, <1>8, MessagesKnown
<1>11. Begins(read_buffer_, m, k) /\ Agrees(read_buffer_, m)
  <2>1. e + 1 <= Len(messages) /\ Len(read_buffer_) # 0
    BY <1>1, <1>5, <1>6, <1>8
  <2> QED
    BY <1>3, <1>9, <2>1, HeadArrived, BufferAgrees
<1>12. PICK a \in Nat, len \in Nat :
         len = Len(m.bytes) /\ EndOf(messages, e) = a /\ EndOf(messages, e + 1) = a + len
  <2>1. e + 1 <= Len(messages)
    BY <1>1, <1>8
  <2> QED
    BY <1>10, <2>1, EndsStep
<1> HIDE DEF m
<1>13. /\ len <= taken
       /\ ~IsPrefix(CRLF, m.request.body) => taken = len /\ request' = m.request
  <2>1. /\ Len(m.bytes) <= Parse(read_buffer_).consumed
        /\ ~IsPrefix(CRLF, m.request.body) =>
             Parse(read_buffer_).consumed = Len(m.bytes) /\ Parse(read_buffer_).request = m.request
    BY <1>4, <1>9, <1>10, <1>11, MessageDelivered
  <2> QED
    BY <1>4, <1>5, <1>12, <2>1
<1>14. c = a /\ Consumed' = a + taken
  BY <1>3, <1>4, <1>5, <1>12
<1>15. PlainTo(e + 1) => ~IsPrefix(CRLF, m.request.body)
  BY <1>1, <1>8 DEF PlainTo, m
<1>16. EndOf(messages, e + 1) <= Consumed'
  BY <1>12, <1>13, <1>14
<1>17. PlainTo(e + 1) => Consumed' = EndOf(messages, e + 1) /\ request' = m.request
  BY <1>12, <1>13, <1>14, <1>15
<1> QED
  BY <1>1, <1>8, <1>16, <1>17 DEF m

\* Every step keeps requests and messages in line.
LEMMA FramingStep ==
  WellBehaved /\ SessionInv /\ BufferInv /\ FramingInv /\ [Next]_vars => FramingInv'
<1> SUFFICES ASSUME WellBehaved, SessionInv, BufferInv, FramingInv, [Next]_vars PROVE FramingInv'
  OBVIOUS
<1>1. PICK e \in Nat, n \in Nat : e = Len(served) /\ n = Len(messages)
  <2>1. Len(served) \in Nat
    BY DEF SessionInv
  <2> QED
    BY <2>1, MessagesKnown
<1>2. CASE Extract
  <2>1. /\ at = "parsing" /\ at' = "handling" /\ served' = served
        /\ messages' = messages /\ stream' = stream /\ received' = received
    BY <1>2 DEF Extract, Goes, network
  <2>2. Extracted = e /\ Extracted' = e + 1
    BY <1>1, <2>1 DEF Extracted
  <2>3. BufferInv'
    BY <1>2, ExtractTakes
  <2>4. PICK c \in Nat, r \in Nat : c = Consumed' /\ r = received' /\ c <= r
    <3>1. PICK s \in Nat, b \in Nat : s = Len(stream) /\ received' \in 0..s /\ b = Len(read_buffer_')
                                      /\ b \in 0..received'
      <4>1. Len(stream) \in Nat /\ received' \in 0..Len(stream) /\ Len(read_buffer_') \in 0..received'
        BY <2>1, <2>3, BufferType DEF BufferInv
      <4> QED
        BY <4>1
    <3>2. received' - b \in Nat /\ received' - b <= received' /\ received' \in Nat
      BY <3>1
    <3> QED
      BY <3>1, <3>2 DEF Consumed
  <2>5. \A i : PlainTo(i)' <=> PlainTo(i)
    BY <2>1 DEF PlainTo
  <2>6. \A i \in 1..e : Got(i)' = Got(i)
    BY <1>1, <2>1 DEF Got
  <2>7. Got(e + 1)' = request'
    BY <1>1, <2>1 DEF Got
  <2>8. ~InsideHead(received)'
    BY <2>1 DEF FramingInv, InsideHead
  <2>9. PlainTo(e + 1) => PlainTo(e)
    BY DEF PlainTo
  <2>10. ASSUME PlainTo(e)
         PROVE  /\ e + 1 <= n /\ EndOf(messages, e + 1) <= r
                /\ PlainTo(e + 1) => c = EndOf(messages, e + 1) /\ request' = messages[e + 1].request
    <3>1. /\ e + 1 <= n /\ EndOf(messages, e + 1) <= c
          /\ PlainTo(e + 1) => c = EndOf(messages, e + 1) /\ request' = messages[e + 1].request
      BY <1>1, <1>2, <2>4, <2>10, ExtractFrames
    <3>2. EndOf(messages, e + 1) \in Nat
      BY <1>1, <3>1, MessagesKnown, EndsInOrder
    <3> QED
      BY <2>4, <3>1, <3>2
  <2>11. PlainTo(e + 1) => e + 1 <= n /\ c = EndOf(messages, e + 1)
    BY <2>9, <2>10
  <2>12. ASSUME NEW i \in 1..e + 1, PlainTo(i) PROVE i <= n /\ Got(i)' = messages[i].request
    <3>1. CASE i = e + 1
      BY <2>7, <2>9, <2>10, <2>12, <3>1
    <3>2. CASE i # e + 1
      <4>1. i \in 1..e
        BY <3>2
      <4> QED
        BY <1>1, <2>2, <2>6, <2>12, <4>1 DEF FramingInv
    <3> QED
      BY <3>1, <3>2
  <2>13. ASSUME NEW i \in 1..e + 1, i <= n, PlainTo(i - 1) PROVE EndOf(messages, i) <= r
    <3>1. CASE i = e + 1
      <4>1. i - 1 = e
        BY <3>1
      <4> QED
        BY <2>10, <2>13, <3>1, <4>1
    <3>2. CASE i # e + 1
      <4>1. i \in 1..e
        BY <3>2
      <4> QED
        BY <1>1, <2>1, <2>2, <2>4, <2>13, <4>1 DEF FramingInv
    <3> QED
      BY <3>1, <3>2
  <2> QED
    BY <1>1, <2>1, <2>2, <2>4, <2>5, <2>8, <2>11, <2>12, <2>13 DEF FramingInv
<1>3. ASSUME NEW k \in 1..BufferSize, Read(k) PROVE FramingInv'
  <2>1. k \in Nat \ {0}
    BY ConnectionAssumption
  <2>2. /\ at = "reading" /\ at' = "parsing" /\ served' = served /\ request' = request
        /\ messages' = messages /\ stream' = stream /\ received' = received + k
    BY <1>3 DEF Read, Goes
  <2>3. Extracted = e /\ Extracted' = e
    BY <1>1, <2>2 DEF Extracted
  <2>4. Consumed' = Consumed
    BY <1>3, <2>1, ReadAppends
  <2>5. \A i : PlainTo(i)' <=> PlainTo(i)
    BY <2>2 DEF PlainTo
  <2>6. \A i : Got(i)' = Got(i)
    BY <2>2 DEF Got
  <2>7. ~InsideHead(received)'
    <3>1. ~InsideHead(received + k)
      BY <1>3 DEF Read, WellBehaved
    <3> QED
      BY <2>2, <3>1 DEF InsideHead
  <2>8. ASSUME NEW i \in 1..e, i <= n, PlainTo(i - 1) PROVE EndOf(messages, i) <= received'
    <3>1. EndOf(messages, i) <= received
      BY <1>1, <2>3, <2>8 DEF FramingInv
    <3>2. i \in Nat /\ i <= Len(messages)
      BY <1>1, <2>8
    <3>3. EndOf(messages, i) \in Nat
      BY <3>2, MessagesKnown, EndsInOrder
    <3>4. received \in Nat
      BY BufferType
    <3> QED
      BY <2>1, <2>2, <3>1, <3>3, <3>4
  <2>9. PlainTo(e) => e <= n /\ Consumed = EndOf(messages, e)
    BY <1>1, <2>3 DEF FramingInv
  <2>10. \A i \in 1..e : PlainTo(i) => i <= n /\ Got(i) = messages[i].request
    BY <1>1, <2>3 DEF FramingInv
  <2> QED
    BY <1>1, <2>2, <2>3, <2>4, <2>5, <2>6, <2>7, <2>8, <2>9, <2>10 DEF FramingInv
<1>4. ASSUME UNCHANGED <<messages, stream, received, read_buffer_>>,
             Extracted' = Extracted, \A i \in 1..Extracted : Got(i)' = Got(i)
      PROVE  FramingInv'
  <2>1. Consumed' = Consumed
    BY <1>4 DEF Consumed
  <2>2. \A i : PlainTo(i)' <=> PlainTo(i)
    BY <1>4 DEF PlainTo
  <2>3. ~InsideHead(received)'
    BY <1>4 DEF FramingInv, InsideHead
  <2> QED
    BY <1>4, <2>1, <2>2, <2>3 DEF FramingInv
<1>5. CASE Handle \/ HandlerThrows
  <2>1. /\ at = "handling" /\ at' # "handling" /\ served' = Append(served, request)
        /\ request' = request /\ UNCHANGED <<messages, stream, received, read_buffer_>>
    BY <1>5 DEF Handle, HandlerThrows, Goes, network
  <2>2. served \in Seq(Range(served))
    BY DEF SessionInv
  <2>3. Len(served') = e + 1 /\ served'[e + 1] = request /\ \A i \in 1..e : served'[i] = served[i]
    <3>1. Len(served') = e + 1 /\ served'[e + 1] = request /\ SubSeq(served', 1, e) = served
      BY <1>1, <2>1, <2>2, AppendServed
    <3>2. \A i \in 1..e : served'[i] = served[i]
      <4> DEFINE S == Range(served) \cup {request}
      <4>1. served \in Seq(S) /\ request \in S
        BY <2>2
      <4> HIDE DEF S
      <4> QED
        BY <1>1, <2>1, <4>1
    <3> QED
      BY <3>1, <3>2
  <2>4. Extracted = e + 1 /\ Extracted' = e + 1
    BY <1>1, <2>1, <2>3 DEF Extracted
  <2>5. \A i \in 1..e + 1 : Got(i)' = Got(i)
    <3> SUFFICES ASSUME NEW i \in 1..e + 1 PROVE Got(i)' = Got(i)
      OBVIOUS
    <3>1. CASE i = e + 1
      <4>1. ~(i <= e) /\ i <= e + 1
        BY <3>1
      <4> QED
        BY <1>1, <2>3, <3>1, <4>1 DEF Got
    <3>2. CASE i # e + 1
      <4>1. i <= e /\ i \in 1..e /\ i <= e + 1
        BY <3>2
      <4> QED
        BY <1>1, <2>3, <4>1 DEF Got
    <3> QED
      BY <3>1, <3>2
  <2> QED
    BY <1>4, <2>1, <2>4, <2>5
<1>6. CASE \/ Reject \/ NeedMore \/ EndOfStream \/ ReadFails
           \/ SendResponse \/ SendFails \/ Decide
           \/ (\E how \in {"ended", "reset"} : PeerLeaves(how)) \/ UNCHANGED vars
  <2>1. /\ UNCHANGED <<messages, stream, received, read_buffer_, served, request>>
        /\ at = "handling" <=> at' = "handling"
    BY <1>6 DEF Reject, NeedMore, EndOfStream, ReadFails, SendResponse, SendFails, Decide, PeerLeaves,
                Goes, network, vars
  <2>2. Extracted' = Extracted /\ \A i : Got(i)' = Got(i)
    BY <2>1 DEF Extracted, Got
  <2> QED
    BY <1>4, <2>1, <2>2
<1> QED
  BY <1>2, <1>3, <1>5, <1>6 DEF Next, ReadStep, Serve, Ended

\* A request is handled only after one that left the connection open.
LEMMA KeptStep == SessionInv /\ KeptInv /\ [Next]_vars => KeptInv'
<1> SUFFICES ASSUME SessionInv, KeptInv, [Next]_vars PROVE KeptInv'
  OBVIOUS
<1>1. PICK e \in Nat : e = Len(served) /\ served \in Seq(Range(served))
  BY DEF SessionInv
<1>2. CASE UNCHANGED served
  BY <1>2 DEF KeptInv
<1>3. CASE Handle \/ HandlerThrows
  <2>1. at = "handling" /\ served' = Append(served, request)
    BY <1>3 DEF Handle, HandlerThrows, Goes
  <2>2. served # <<>> => KeepsOpen(served[e])
    BY <1>1, <2>1 DEF SessionInv
  <2>3. Len(served') = e + 1 /\ \A i \in 1..e : served'[i] = served[i]
    <3>1. Len(served') = e + 1
      BY <1>1, <2>1, AppendServed
    <3> DEFINE S == Range(served) \cup {request}
    <3>2. served \in Seq(S) /\ request \in S
      BY <1>1
    <3> HIDE DEF S
    <3> QED
      BY <1>1, <2>1, <3>1, <3>2
  <2>4. ASSUME NEW i \in 1..e PROVE KeepsOpen(served[i])
    <3>1. CASE i = e
      BY <1>1, <2>2, <3>1
    <3>2. CASE i # e
      <4>1. i \in 1..e - 1
        BY <3>2
      <4> QED
        BY <1>1, <4>1 DEF KeptInv
    <3> QED
      BY <3>1, <3>2
  <2>5. (e + 1) - 1 = e
    OBVIOUS
  <2>6. \A i \in 1..Len(served') - 1 : KeepsOpen(served'[i])
    BY <2>3, <2>4, <2>5
  <2> QED
    BY <2>6 DEF KeptInv, KeepsOpen
<1> QED
  BY <1>2, <1>3 DEF Next, ReadStep, Serve, Ended, Extract, Reject, NeedMore, Read, EndOfStream,
     ReadFails, SendResponse, SendFails, Decide, PeerLeaves, vars

\* PlainBodies() and PlainTo() differ only beyond the last message.
LEMMA PlainSame ==
  ASSUME Len(messages) \in Nat, NEW i \in Nat
  PROVE  /\ PlainBodies(Min({i, Len(messages)})) <=> PlainTo(i)
         /\ i <= Len(messages) => (PlainBodies(i) <=> PlainTo(i))
<1>1. PICK n \in Nat : n = Len(messages)
  OBVIOUS
<1>2. PICK least \in {i, n} : least = Min({i, n}) /\ least <= i /\ least <= n
  <2>1. {i, n} \subseteq Nat /\ {i, n} # {}
    OBVIOUS
  <2> QED
    BY <2>1, MinProperty
<1>3. \A j \in Nat : j \in 1..least <=> j \in 1..i /\ j <= n
  BY <1>2
<1>4. PlainBodies(least) <=> PlainTo(i)
  <2>1. PlainBodies(least) => PlainTo(i)
    BY <1>1, <1>3 DEF PlainBodies, PlainTo
  <2>2. PlainTo(i) => PlainBodies(least)
    <3>1. \A j \in 1..least : j \in 1..i /\ j <= n
      BY <1>2
    <3> QED
      BY <1>1, <3>1 DEF PlainBodies, PlainTo
  <2> QED
    BY <2>1, <2>2
<1>5. i <= n => least = i
  BY <1>2
<1> QED
  BY <1>1, <1>2, <1>4, <1>5

(***************************************************************************)
(* The messages that have come in whole are the first ones.                *)
(***************************************************************************)
LEMMA CompleteIsPrefix ==
  ASSUME BufferInv, WellBehaved
  PROVE  \E k \in 0..Len(messages) : Complete = 1..k /\ Cardinality(Complete) = k
<1>1. PICK n \in Nat : n = Len(messages) /\ DOMAIN messages = 1..n
  BY MessagesKnown
<1>2. Complete = {i \in 1..n : EndOf(messages, i) <= received}
  BY <1>1 DEF Complete, EndOf
<1>3. ASSUME NEW i \in 1..n, NEW j \in 1..i, i \in Complete PROVE j \in Complete
  <2>1. i \in Nat /\ j \in Nat /\ j <= i /\ i <= Len(messages) /\ j \in 1..n
    BY <1>1
  <2>2. /\ EndOf(messages, j) \in Nat /\ EndOf(messages, i) \in Nat
        /\ EndOf(messages, j) <= EndOf(messages, i)
    BY <2>1, MessagesKnown, EndsInOrder
  <2>3. received \in Nat /\ EndOf(messages, i) <= received
    BY <1>2, <1>3, BufferType
  <2>4. EndOf(messages, j) <= received
    BY <2>2, <2>3
  <2> QED
    BY <1>2, <2>1, <2>4
<1>4. \E k \in 0..n : Complete = 1..k
  <2>1. CASE Complete = {}
    <3>1. 0 \in 0..n /\ 1..0 = {}
      OBVIOUS
    <3> QED
      BY <2>1, <3>1
  <2>2. CASE Complete # {}
    <3>1. Complete \subseteq 0..n
      BY <1>2
    <3>2. PICK k \in Complete : \A i \in Complete : k >= i
      BY <2>2, <3>1, MaxProperty
    <3>3. k \in 1..n /\ \A i \in Complete : i \in 1..n
      BY <1>2
    <3>4. \A i \in Complete : i \in 1..k
      BY <3>2, <3>3
    <3>5. \A i \in 1..k : i \in Complete
      BY <1>3, <3>3
    <3>6. Complete = 1..k
      BY ONLY <3>4, <3>5
    <3>7. k \in 0..n
      BY <3>3
    <3> QED
      BY <3>6, <3>7
  <2> QED
    BY <2>1, <2>2
<1>5. PICK k \in 0..n : Complete = 1..k
  BY <1>4
<1>6. Cardinality(1..k) = k
  BY FS_Interval
<1> QED
  BY <1>1, <1>5, <1>6

(***************************************************************************)
(* A buffer that begins with all of a plain message is not incomplete.     *)
(***************************************************************************)
LEMMA WholeIsParsed ==
  ASSUME BufferInv, WellBehaved, ~InsideHead(received),
         NEW k \in Nat, k + 1 <= Len(messages), Consumed = EndOf(messages, k),
         EndOf(messages, k + 1) <= received,
         ~IsPrefix(CRLF, messages[k + 1].request.body)
  PROVE  Parse(read_buffer_).error # "IncompleteRequest"
<1> DEFINE m == messages[k + 1]
<1>1. k + 1 \in 1..Len(messages) /\ messages \in Seq(ClientMessages)
  BY MessagesKnown
<1>2. PICK n \in Nat : Writes(m, n)
  BY <1>1, MessagesKnown
<1>3. m.bytes \in Seq(Units)
  BY <1>1, MessagesKnown
<1>4. PICK a \in Nat, len \in Nat :
        len = Len(m.bytes) /\ EndOf(messages, k) = a /\ EndOf(messages, k + 1) = a + len
  BY <1>1, EndsStep
<1>5. PICK b \in Nat, c \in Nat, r \in Nat :
        b = Len(read_buffer_) /\ c = Consumed /\ r = received /\ r - c = b /\ c <= r
  BY BufferType
<1>6. c = a /\ a + len <= r
  BY <1>4, <1>5
<1>7. len <= b
  BY <1>5, <1>6
<1>8. 3 * n + 5 <= len
  BY <1>2, <1>4 DEF Writes
<1>9. b # 0
  BY <1>7, <1>8
<1>10. Begins(read_buffer_, m, n) /\ Agrees(read_buffer_, m)
  BY <1>2, <1>5, <1>9, HeadArrived, BufferAgrees
<1>11. read_buffer_ \in Seq(Units)
  BY BufferType
<1>12. ~IsPrefix(CRLF, m.request.body)
  OBVIOUS
<1> HIDE DEF m
<1>13. (BodyStart(read_buffer_) - 1) + Size(read_buffer_) = len
  BY <1>2, <1>3, <1>4, <1>10, <1>12, MessageConsumed
<1>14. LineEnds(read_buffer_) # {}
  <2>1. Head3(read_buffer_, n)
    BY <1>2, <1>3, <1>10, MessageHead
  <2> QED
    BY <2>1, HeadHeaders
<1> SUFFICES ASSUME Parse(read_buffer_).error = "IncompleteRequest" PROVE FALSE
  OBVIOUS
<1>15. LineCut(read_buffer_) \/ BodyCut(read_buffer_)
  BY <1>11, IncompleteIsBounded
<1>16. ~LineCut(read_buffer_)
  BY <1>14 DEF LineCut
<1>17. b < len
  BY <1>5, <1>13, <1>15, <1>16 DEF BodyCut
<1> QED
  BY <1>7, <1>17

\* All that has come in is taken out before run() waits for more.
LEMMA AllTakenWhileReading ==
  ASSUME WellBehaved, SessionInv, BufferInv, FramingInv, at = "reading",
         PlainBodies(Cardinality(Complete))
  PROVE  answered = Cardinality(Complete)
<1>1. PICK e \in Nat, n \in Nat : e = Len(served) /\ n = Len(messages) /\ e = answered
  <2>1. Len(served) \in Nat /\ answered = Len(served)
    BY DEF SessionInv
  <2> QED
    BY <2>1, MessagesKnown
<1>2. Extracted = e
  BY <1>1 DEF Extracted
<1>3. PICK k \in 0..n : Complete = 1..k /\ Cardinality(Complete) = k
  BY <1>1, CompleteIsPrefix
<1>4. k \in Nat /\ k <= n
  BY <1>3
<1>5. PlainTo(k)
  BY <1>1, <1>3, <1>4, PlainSame
<1>6. ASSUME k < e PROVE FALSE
  <2>1. CASE k = n
    <3>1. PlainTo(e)
      <4>1. \A j \in 1..e : j <= n => j \in 1..k
        BY <2>1
      <4> QED
        BY <1>1, <1>5, <4>1 DEF PlainTo
    <3>2. e <= n
      BY <1>1, <1>2, <3>1 DEF FramingInv
    <3> QED
      BY <1>6, <2>1, <3>2
  <2>2. CASE k # n
    <3>1. k + 1 \in 1..e /\ k + 1 <= n /\ (k + 1) - 1 = k
      BY <1>4, <1>6, <2>2
    <3>2. EndOf(messages, k + 1) <= received
      BY <1>1, <1>2, <1>5, <3>1 DEF FramingInv
    <3>3. k + 1 \in DOMAIN messages
      <4>1. messages \in Seq(ClientMessages) /\ k + 1 \in 1..Len(messages)
        BY <1>1, <1>4, <3>1, MessagesKnown
      <4> QED
        BY <4>1
    <3>4. k + 1 \in Complete
      BY <3>2, <3>3 DEF Complete, EndOf
    <3> QED
      BY <1>3, <1>4, <3>4
  <2> QED
    BY <2>1, <2>2
<1>7. ASSUME e < k PROVE FALSE
  <2>1. e + 1 \in 1..k /\ e + 1 <= n
    BY <1>4, <1>7
  <2>2. PlainTo(e)
    <3>1. \A j \in 1..e : j \in 1..k
      BY <1>4, <1>7
    <3> QED
      BY <1>5, <3>1 DEF PlainTo
  <2>3. Consumed = EndOf(messages, e) /\ ~InsideHead(received)
    BY <1>2, <2>2 DEF FramingInv
  <2>4. EndOf(messages, e + 1) <= received
    <3>1. e + 1 \in Complete
      BY <1>3, <2>1
    <3> QED
      BY <3>1 DEF Complete, EndOf
  <2>5. ~IsPrefix(CRLF, messages[e + 1].request.body)
    BY <1>1, <1>5, <2>1 DEF PlainTo
  <2>6. Parse(read_buffer_).error # "IncompleteRequest"
    <3>1. e + 1 <= Len(messages)
      BY <1>1, <2>1
    <3> QED
      BY <2>3, <2>4, <2>5, <3>1, WholeIsParsed
  <2> QED
    BY <2>6 DEF BufferInv
<1>8. e = k
  BY <1>4, <1>6, <1>7
<1> QED
  BY <1>1, <1>3, <1>8

\* For clients that write requests as HTTP has them, and reads that do not end in a head.
FramedInv == ConnectionInv /\ FramingInv /\ KeptInv

THEOREM FramedInvariant == ASSUME WellBehaved PROVE SafeSpec => []FramedInv
<1>1. Init => FramedInv
  BY SessionInit, BufferInit, FramingInit DEF FramedInv, ConnectionInv
<1>2. FramedInv /\ [Next]_vars => FramedInv'
  BY SessionStep, BufferStep, AnsweredStep, FramingStep, KeptStep DEF FramedInv, ConnectionInv
<1> QED
  BY <1>1, <1>2, PTL DEF SafeSpec

(***************************************************************************)
(* Whatever requests are pipelined and however the reads cut them outside  *)
(* their heads, the handler is called with the requests the client means,  *)
(* each once and in their order, up to the first body that begins with a   *)
(* line end.                                                               *)
(***************************************************************************)
THEOREM FramingIsExact == ASSUME WellBehaved PROVE SafeSpec => []FramingExact
<1>1. FramedInv => FramingExact
  <2> SUFFICES ASSUME FramedInv, NEW i \in DOMAIN served,
                      PlainBodies(Min({i, Len(messages)}))
               PROVE  i <= Len(messages) /\ served[i] = messages[i].request
    BY DEF FramingExact
  <2>1. SessionInv /\ BufferInv /\ FramingInv
    BY DEF FramedInv, ConnectionInv
  <2>2. PICK e \in Nat : e = Len(served) /\ DOMAIN served = 1..e
    BY <2>1 DEF SessionInv
  <2>3. i \in 1..e /\ i \in Nat
    BY <2>2
  <2>4. PlainTo(i)
    BY <2>1, <2>3, MessagesKnown, PlainSame
  <2>5. i \in 1..Extracted
    BY <2>2, <2>3 DEF Extracted
  <2>6. i <= Len(messages) /\ Got(i) = messages[i].request
    BY <2>1, <2>4, <2>5 DEF FramingInv
  <2>7. Got(i) = served[i]
    BY <2>2, <2>3 DEF Got
  <2> QED
    BY <2>6, <2>7
<1> QED
  BY <1>1, FramedInvariant, PTL

\* Client and server never wait for each other over a request that has come in whole.
THEOREM NoAnswerIsOwed == ASSUME WellBehaved PROVE SafeSpec => []NoAnswerOwedWhileReading
<1>1. FramedInv => NoAnswerOwedWhileReading
  BY AllTakenWhileReading DEF FramedInv, ConnectionInv, NoAnswerOwedWhileReading
<1> QED
  BY <1>1, FramedInvariant, PTL

(***************************************************************************)
(* Nothing that a client sends behind a request that ends the connection   *)
(* reaches the handler, however much of it is buffered.                    *)
(***************************************************************************)
THEOREM CloseIsLast == ASSUME WellBehaved PROVE SafeSpec => []NothingServedAfterClose
<1>1. FramedInv => NothingServedAfterClose
  <2> SUFFICES ASSUME FramedInv, NEW i \in 1..Len(served) - 1,
                      PlainBodies(Min({i, Len(messages)}))
               PROVE  messages[i].request.keep /\ KeepAliveSeconds > 0
    BY DEF NothingServedAfterClose
  <2>1. SessionInv /\ BufferInv /\ FramingInv /\ KeptInv
    BY DEF FramedInv, ConnectionInv
  <2>2. PICK e \in Nat : e = Len(served)
    BY <2>1 DEF SessionInv
  <2>3. i \in 1..e /\ i \in Nat
    BY <2>2
  <2>4. PlainTo(i)
    BY <2>1, <2>3, MessagesKnown, PlainSame
  <2>5. i \in 1..Extracted
    BY <2>2, <2>3 DEF Extracted
  <2>6. Got(i) = messages[i].request
    BY <2>1, <2>4, <2>5 DEF FramingInv
  <2>7. Got(i) = served[i]
    BY <2>2, <2>3 DEF Got
  <2>8. KeepsOpen(served[i])
    BY <2>1 DEF KeptInv
  <2> QED
    BY <2>6, <2>7, <2>8 DEF KeepsOpen
<1> QED
  BY <1>1, FramedInvariant, PTL
-----------------------------------------------------------------------------
(* What is due.                                                            *)

\* A message within the limits whose head has arrived is not refused.
LEMMA WholeHeadAccepted ==
  ASSUME NEW m, m.bytes \in Seq(Units), NEW n \in Nat, Writes(m, n), WithinLimits(m),
         NEW data, Begins(data, m, n)
  PROVE  Parse(data).error \in {"None", "IncompleteRequest"}
<1>1. PICK len \in Nat : len = Len(m.bytes) /\ 3 * n + 5 <= len
  BY DEF Writes
<1>2. Head3(data, n)
  BY MessageHead
<1>3. Len(m.request.body) = len - (3 * n + 5)
  <2>1. PICK first \in Nat \ {0} : first = (3 * n + 5) + 1
    OBVIOUS
  <2>2. m.request.body = SubSeq(m.bytes, first, len)
    BY <1>1, <2>1 DEF Writes
  <2>3. first <= len + 1 /\ len <= Len(m.bytes) /\ (len - first) + 1 = len - (3 * n + 5)
    BY <1>1, <2>1
  <2>4. Len(SubSeq(m.bytes, first, len)) = (len - first) + 1
    BY <2>3, PieceOf
  <2> QED
    BY <2>2, <2>3, <2>4
<1>4. MaxRequestLine \in Nat /\ MaxHeader \in Nat /\ MaxBody \in Nat
  BY LimitsAssumption
<1>5. PICK size \in Nat : size = Size(data) /\ size = Len(m.request.body) /\ size = len - (3 * n + 5)
  <2>1. len - (3 * n + 5) \in Nat
    BY <1>1
  <2> QED
    BY <1>1, <1>3, <2>1, HeadMeans
<1>6. MaxRequestLine >= 1 /\ 3 * n <= MaxHeader /\ size <= MaxBody
  <2>1. MaxRequestLine >= 1 /\ len - size - 5 <= MaxHeader /\ size <= MaxBody
    BY <1>1, <1>5 DEF WithinLimits
  <2>2. len - size - 5 = 3 * n
    BY <1>5
  <2> QED
    BY <2>1, <2>2
<1>7. LineEnds(data) # {} /\ Min(LineEnds(data)) = 2 /\ data[1].kind \in RequestLines
  BY <1>2, HeadHeaders DEF Head3
<1>8. ASSUME NEW e \in HeaderEnds(data), ~Blank(data, e)
      PROVE  ~Malformed(HeaderLine(data, e)) /\ ~(e - 2 > MaxHeader)
  <2>1. PICK j \in 1..n : e = 3 * j + 2
    BY <1>2, <1>8, HeadHeaders
  <2>2. HeaderLine(data, e) = <<data[3 * j + 1]>> /\ data[3 * j + 1].kind \in FieldKinds
    BY <1>2, <2>1, HeadLine DEF Head3
  <2>3. ~Malformed(<<data[3 * j + 1]>>)
    <3> DEFINE field == data[3 * j + 1]
    <3>1. DOMAIN <<field>> = 1..1 /\ <<field>>[1] = field
      OBVIOUS
    <3>2. field.kind \in Fields /\ field.kind # "colon"
      BY <2>2 DEF FieldKinds, Fields
    <3> HIDE DEF field
    <3> QED
      BY <3>1, <3>2 DEF Malformed, field
  <2>4. e - 2 <= MaxHeader
    BY <1>4, <1>6, <2>1
  <2> QED
    BY <1>4, <2>1, <2>2, <2>3, <2>4
<1>9. Parse(data) = ParseBody(data)
  <2>1. Parse(data) = ParseHeaders(data)
    BY <1>4, <1>6, <1>7 DEF Parse
  <2>2. {e \in HeaderEnds(data) : ~Blank(data, e) /\ Malformed(HeaderLine(data, e))} = {}
        /\ {e \in HeaderEnds(data) : ~Blank(data, e) /\ e - 2 > MaxHeader} = {}
    BY <1>8
  <2> QED
    BY <1>7, <2>1, <2>2 DEF ParseHeaders
<1> DEFINE field == LastField(data, {"length", "badlength"})
<1>10. field = <<>> \/ field[1].kind # "badlength"
  <2>1. \/ field = <<>>
        \/ \E j \in 1..n : field = <<data[3 * j + 1]>>
    BY <1>2, HeadField
  <2>2. \A j \in 1..n : data[3 * j + 1].kind # "badlength"
    BY <1>2 DEF Head3, FieldKinds
  <2> HIDE DEF field
  <2>3. ASSUME NEW j \in 1..n, field = <<data[3 * j + 1]>> PROVE field[1].kind # "badlength"
    BY <2>2, <2>3
  <2> QED
    BY <2>1, <2>3
<1>11. ParseBody(data) =
         IF field # <<>> /\ field[1].kind = "badlength" THEN Fail("InvalidContentLength")
         ELSE IF size > MaxBody THEN Fail("BodyTooLarge")
         ELSE IF Len(data) - (BodyStart(data) - 1) < size THEN Fail("IncompleteRequest")
         ELSE Deliver(data, size)
  BY <1>5 DEF ParseBody, Size
<1>12. ~(size > MaxBody)
  BY <1>4, <1>6
<1> HIDE DEF field
<1>13. ParseBody(data) = Fail("IncompleteRequest") \/ ParseBody(data) = Deliver(data, size)
  BY <1>10, <1>11, <1>12
<1> QED
  BY <1>9, <1>13 DEF Fail, Deliver

\* The client's messages are plain and within the limits.
Served == /\ PlainBodies(Len(messages))
          /\ \A i \in DOMAIN messages : WithinLimits(messages[i])

(***************************************************************************)
(* run() is over for such a client with all that is due, unless it reset   *)
(* the connection or the handler threw.                                    *)
(***************************************************************************)
EndInv == Served => at # "rejected" /\ (at = "closed" /\ peer # "reset" => answered = Due)

\* Nothing in the buffer of such a client is refused.
LEMMA NotRejected ==
  ASSUME FramedInv, WellBehaved, Served, Reject
  PROVE  FALSE
<1>1. SessionInv /\ BufferInv /\ FramingInv
  BY DEF FramedInv, ConnectionInv
<1>2. PICK e \in Nat, n \in Nat : e = Len(served) /\ n = Len(messages) /\ Extracted = e
  <2>1. Len(served) \in Nat
    BY <1>1 DEF SessionInv
  <2>2. at # "handling"
    BY DEF Reject, Goes
  <2>3. Extracted = Len(served)
    BY <2>1, <2>2 DEF Extracted
  <2> QED
    BY <1>1, <2>1, <2>3, MessagesKnown
<1>3. PlainTo(e)
  BY <1>2 DEF Served, PlainBodies, PlainTo
<1>4. e <= n /\ Consumed = EndOf(messages, e) /\ ~InsideHead(received)
  BY <1>1, <1>2, <1>3 DEF FramingInv
<1>5. Parse(read_buffer_).error \notin {"None", "IncompleteRequest"}
  BY DEF Reject
<1>6. read_buffer_ \in Seq(Units)
  BY <1>1, BufferType
<1>7. CASE Len(read_buffer_) = 0
  <2>1. LineEnds(read_buffer_) = {}
    BY <1>7 DEF LineEnds
  <2>2. ~(Len(read_buffer_) > MaxRequestLine)
    BY <1>7, LimitsAssumption
  <2> QED
    BY <1>5, <2>1, <2>2 DEF Parse, Fail
<1>8. CASE Len(read_buffer_) # 0
  <2>1. e # n
    <3> SUFFICES ASSUME e = n PROVE FALSE
      OBVIOUS
    <3>1. Consumed = Len(stream)
      BY <1>1, <1>2, <1>4, StreamEnds
    <3>2. PICK b \in Nat, c \in Nat, r \in Nat, s \in Nat :
            /\ b = Len(read_buffer_) /\ c = Consumed /\ r = received /\ s = Len(stream)
            /\ r <= s /\ r - c = b /\ c <= r
      BY <1>1, BufferType
    <3> QED
      BY <1>8, <3>1, <3>2
  <2>2. e + 1 \in 1..n /\ e + 1 <= Len(messages)
    BY <1>2, <1>4, <2>1
  <2>3. PICK k \in Nat : Writes(messages[e + 1], k)
    BY <1>1, <1>2, <2>2, MessagesKnown
  <2>4. messages[e + 1].bytes \in Seq(Units) /\ e + 1 \in DOMAIN messages
    BY <1>1, <1>2, <2>2, MessagesKnown
  <2>5. Begins(read_buffer_, messages[e + 1], k)
    BY <1>1, <1>4, <1>8, <2>2, <2>3, HeadArrived
  <2>6. WithinLimits(messages[e + 1])
    BY <2>4 DEF Served
  <2> QED
    BY <1>5, <2>3, <2>4, <2>5, <2>6, WholeHeadAccepted
<1> QED
  BY <1>7, <1>8

\* What a message that was served asked for.
LEMMA ServedAsked ==
  ASSUME FramedInv, WellBehaved, Served, at # "handling", NEW i \in 1..Len(served)
  PROVE  i \in DOMAIN messages /\ served[i] = messages[i].request
<1>1. SessionInv /\ BufferInv /\ FramingInv
  BY DEF FramedInv, ConnectionInv
<1>2. PICK e \in Nat, n \in Nat : e = Len(served) /\ n = Len(messages) /\ DOMAIN messages = 1..n
  <2>1. Len(served) \in Nat
    BY <1>1 DEF SessionInv
  <2> QED
    BY <1>1, <2>1, MessagesKnown
<1>3. i \in 1..Extracted /\ Got(i) = served[i] /\ i \in Nat /\ i >= 1
  BY <1>2 DEF Extracted, Got
<1>4. PlainTo(i)
  BY <1>2 DEF Served, PlainBodies, PlainTo
<1>5. i <= Len(messages) /\ Got(i) = messages[i].request
  BY <1>1, <1>3, <1>4 DEF FramingInv
<1> QED
  BY <1>2, <1>3, <1>5

\* At the end of the stream all is answered, and all was due.
LEMMA AllDueAtEnd ==
  ASSUME FramedInv, WellBehaved, Served, EndOfStream
  PROVE  answered = Due
<1>1. SessionInv /\ BufferInv /\ FramingInv /\ KeptInv
  BY DEF FramedInv, ConnectionInv
<1>2. at = "reading" /\ received = Len(stream)
  BY DEF EndOfStream, Goes
<1>3. PICK n \in Nat : n = Len(messages) /\ DOMAIN messages = 1..n
  BY <1>1, MessagesKnown
<1>4. PICK k \in 0..n : Complete = 1..k /\ Cardinality(Complete) = k
  BY <1>1, <1>3, CompleteIsPrefix
<1>5. k = n
  <2> SUFFICES ASSUME k # n PROVE FALSE
    OBVIOUS
  <2>1. n \in 1..n /\ n \notin 1..k
    BY <1>4
  <2>2. EndOf(messages, n) = received
    BY <1>1, <1>2, <1>3, StreamEnds
  <2>3. received \in Nat
    BY <1>1, BufferType
  <2>4. n \in Complete
    BY <1>3, <2>1, <2>2, <2>3 DEF Complete, EndOf
  <2> QED
    BY <1>4, <2>1, <2>4
<1>6. answered = n
  <2>1. PlainBodies(Cardinality(Complete))
    BY <1>3, <1>4, <1>5 DEF Served
  <2> QED
    BY <1>1, <1>2, <1>4, <1>5, <2>1, AllTakenWhileReading
<1>7. Len(served) = n
  BY <1>1, <1>2, <1>6 DEF SessionInv
<1>8. ASSUME NEW i \in 1..n PROVE messages[i].request.keep /\ ~(KeepAliveSeconds = 0)
  <2>1. served[i] = messages[i].request
    BY <1>2, <1>7, ServedAsked
  <2>2. KeepsOpen(served[i])
    <3>1. CASE i = n
      <4>1. served # <<>>
        BY <1>7, <3>1
      <4> QED
        BY <1>1, <1>2, <1>7, <3>1, <4>1 DEF SessionInv
    <3>2. CASE i # n
      <4>1. i \in 1..Len(served) - 1
        BY <1>7, <3>2
      <4> QED
        BY <1>1, <4>1 DEF KeptInv
    <3> QED
      BY <3>1, <3>2
  <2> QED
    BY <2>1, <2>2, ConnectionAssumption DEF KeepsOpen
<1>9. {i \in DOMAIN messages : ~messages[i].request.keep \/ KeepAliveSeconds = 0} = {}
  BY <1>3, <1>8
<1> QED
  BY <1>3, <1>6, <1>9 DEF Due

\* A request that ends the connection is the last one due.
LEMMA AllDueAtDecision ==
  ASSUME FramedInv, WellBehaved, Served, Decide, at' = "closed"
  PROVE  answered = Due
<1>1. SessionInv /\ BufferInv /\ FramingInv /\ KeptInv
  BY DEF FramedInv, ConnectionInv
<1>2. at = "deciding" /\ ~KeepsOpen(request)
  BY DEF Decide, Goes, KeepsOpen
<1>3. PICK e \in Nat : e = Len(served) /\ e = answered /\ e # 0 /\ served[e] = request
  <2>1. served \in Seq(Range(served)) /\ served # <<>>
    BY <1>1, <1>2 DEF SessionInv
  <2>2. Len(served) \in Nat /\ Len(served) # 0
    BY <2>1
  <2> QED
    BY <1>1, <1>2, <2>2 DEF SessionInv
<1> DEFINE last == {i \in DOMAIN messages : ~messages[i].request.keep \/ KeepAliveSeconds = 0}
<1>4. e \in last
  <2>1. e \in DOMAIN messages /\ served[e] = messages[e].request
    <3>1. e \in 1..Len(served) /\ at # "handling"
      BY <1>2, <1>3
    <3> QED
      BY <3>1, ServedAsked
  <2>2. ~(messages[e].request.keep /\ KeepAliveSeconds > 0)
    BY <1>2, <1>3, <2>1 DEF KeepsOpen
  <2> QED
    BY <2>1, <2>2, ConnectionAssumption
<1>5. ASSUME NEW i \in last, i < e PROVE FALSE
  <2>1. i \in Nat /\ i >= 1
    BY <1>1, MessagesKnown
  <2>2. i \in 1..Len(served) - 1 /\ i \in 1..Len(served) /\ at # "handling"
    BY <1>2, <1>3, <1>5, <2>1
  <2>3. KeepsOpen(served[i]) /\ served[i] = messages[i].request
    BY <1>1, <2>2, ServedAsked DEF KeptInv
  <2> QED
    BY <2>3, ConnectionAssumption DEF KeepsOpen
<1>6. last \subseteq Nat
  BY <1>1, MessagesKnown
<1>7. Due = Min(last)
  BY <1>4 DEF Due
<1> HIDE DEF last
<1>8. Min(last) \in last /\ Min(last) <= e /\ Min(last) \in Nat
  BY <1>4, <1>6, MinProperty
<1>9. ~(Min(last) < e)
  BY <1>5, <1>8
<1> QED
  BY <1>3, <1>7, <1>8, <1>9

LEMMA EndStep == WellBehaved /\ FramedInv /\ EndInv /\ [Next]_vars => EndInv'
<1> SUFFICES ASSUME WellBehaved, FramedInv, EndInv, [Next]_vars, Served'
             PROVE  at' # "rejected" /\ (at' = "closed" /\ peer' # "reset" => answered' = Due')
  BY DEF EndInv
<1>1. messages' = messages
  BY DEF Next, ReadStep, Serve, Ended, Extract, Reject, NeedMore, Read, EndOfStream, ReadFails,
     Handle, HandlerThrows, SendResponse, SendFails, Decide, PeerLeaves, network, vars
<1>2. Served /\ Due' = Due
  BY <1>1 DEF Served, PlainBodies, Due
<1>3. CASE Extract \/ NeedMore \/ (\E n \in 1..BufferSize : Read(n)) \/ Handle \/ HandlerThrows
           \/ SendResponse
  BY <1>3 DEF Extract, NeedMore, Read, Handle, HandlerThrows, SendResponse, Goes
<1>4. CASE Reject
  BY <1>2, <1>4, NotRejected
<1>5. CASE EndOfStream
  <2>1. answered = Due
    BY <1>2, <1>5, AllDueAtEnd
  <2> QED
    BY <1>2, <1>5, <2>1 DEF EndOfStream, Goes
<1>6. CASE ReadFails \/ SendFails
  BY <1>6 DEF ReadFails, SendFails, Goes, network
<1>7. CASE Decide
  <2>1. at' \in {"parsing", "closed"} /\ answered' = answered
    BY <1>7 DEF Decide, Goes
  <2>2. at' = "closed" => answered = Due
    BY <1>2, <1>7, AllDueAtDecision
  <2> QED
    BY <1>2, <2>1, <2>2
<1>8. CASE \E how \in {"ended", "reset"} : PeerLeaves(how)
  <2>1. peer = "sending" /\ at' = at /\ answered' = answered
    BY <1>8 DEF PeerLeaves
  <2> QED
    BY <1>2, <2>1 DEF EndInv
<1>9. CASE UNCHANGED vars
  BY <1>2, <1>9 DEF EndInv, vars, network
<1> QED
  BY <1>3, <1>4, <1>5, <1>6, <1>7, <1>8, <1>9 DEF Next, ReadStep, Serve, Ended

(***************************************************************************)
(* A client that writes its requests as it should, within the limits, is   *)
(* not turned away, and has had all that was due to it and no more when    *)
(* run() is over, unless it reset the connection or a handler threw.       *)
(***************************************************************************)
THEOREM DueIsAnswered == ASSUME WellBehaved PROVE SafeSpec => []AllDueAnswered
<1>1. Init => EndInv
  BY DEF Init, EndInv
<1>2. WellBehaved /\ FramedInv /\ EndInv /\ [Next]_vars => EndInv'
  BY EndStep
<1>3. EndInv => AllDueAnswered
  BY DEF EndInv, Served, AllDueAnswered
<1> QED
  BY <1>1, <1>2, <1>3, FramedInvariant, PTL DEF SafeSpec

=============================================================================
