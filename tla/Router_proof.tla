---------------------------- MODULE Router_proof ----------------------------
(***************************************************************************)
(* Theorems about Router, for every number of callers, methods, paths and  *)
(* edits: which answers of route() no single look at the routes would      *)
(* give, and how the response a handler builds is framed.                  *)
(***************************************************************************)
EXTENDS Router, HttpResponse_proof, NumberSets

\* A call is a record with these fields.
CallRecord(r) == r = [at |-> r.at, request |-> r.request, handler |-> r.handler,
                      storage |-> r.storage, steps |-> r.steps, response |-> r.response,
                      answer |-> r.answer, moved |-> r.moved]

(***************************************************************************)
(* The routes are numbered by the edits, in order.                         *)
(***************************************************************************)
RoutesInv ==
  /\ edits \in Nat
  /\ routes_ \in Seq([method : Methods, path : Paths, handler : Nat])
  /\ \A i \in DOMAIN routes_ : routes_[i].handler \in 1..edits
  /\ \A i, j \in DOMAIN routes_ : i < j => routes_[i].handler < routes_[j].handler

(***************************************************************************)
(* The answer that is right now has been recorded for each call under way. *)
(* A call that missed has seen no route of its method, so that 404 or 405  *)
(* was right; one that is in a handler has seen its route first.           *)
(***************************************************************************)
CallInv(c) ==
  /\ CallRecord(call[c])
  /\ call[c].at \in {"idle", "entered", "handling", "missed", "answered", "crashed"}
  /\ call[c].at # "idle" /\ call[c].at # "crashed" => call[c].request \in Requests
  /\ InCall(c) => Right(routes_, call[c].request) \in due[c]
  /\ call[c].at = "missed" => NotFound \in due[c] \/ NotAllowed \in due[c]
  /\ call[c].at = "handling" => Served(call[c].handler) \in due[c]

\* The part of UndueAnswersAreRaces that is about one caller.
DueOrRaced(c) ==
  call[c].at = "answered" =>
    \/ call[c].answer \in due[c]
    \/ call[c].moved
    \/ /\ call[c].answer = NotAllowed
       /\ NotFound \in due[c]
       /\ \E k \in 1..edits : Served(k) \in due[c]

RInv == /\ RoutesInv
        /\ call = [c \in Callers |-> call[c]]
        /\ due = [c \in Callers |-> due[c]]
        /\ \A c \in Callers : CallInv(c) /\ DueOrRaced(c)

-----------------------------------------------------------------------------

\* The first of a set that has a first is unambiguous (First, the order of routes_).
LEMMA FirstIsLeast ==
  ASSUME NEW S, S \subseteq Nat, NEW i \in S, \A j \in S : i <= j
  PROVE  First(S) = i
<1>1. First(S) \in S /\ \A j \in S : First(S) <= j
  BY DEF First
<1>2. PICK f \in S : f = First(S)
  BY <1>1
<1> QED
  BY <1>1, <1>2

\* The route find_route() finds is the one registered first.
LEMMA FirstRouteIsRight ==
  ASSUME RoutesInv, NEW q \in Requests, Matches(routes_, q) # {}
  PROVE  /\ First(Matches(routes_, q)) \in DOMAIN routes_
         /\ Right(routes_, q) = Served(routes_[First(Matches(routes_, q))].handler)
<1> DEFINE M == Matches(routes_, q)
           ids == {routes_[j].handler : j \in M}
<1>1. M \subseteq DOMAIN routes_ /\ DOMAIN routes_ \subseteq Nat
  BY DEF RoutesInv, Matches
<1>2. PICK i \in M : \A j \in M : i <= j
  BY <1>1, LeastNatural
<1>3. First(M) = i
  BY <1>1, <1>2, FirstIsLeast
<1>4. ids \subseteq Nat /\ routes_[i].handler \in ids
  BY <1>1, <1>2 DEF RoutesInv
<1>5. \A k \in ids : routes_[i].handler <= k
  <2> SUFFICES ASSUME NEW j \in M PROVE routes_[i].handler <= routes_[j].handler
    OBVIOUS
  <2>1. i = j \/ i < j
    BY <1>1, <1>2
  <2> QED
    BY <2>1, <1>1, <1>2 DEF RoutesInv
<1>6. First(ids) = routes_[i].handler
  BY <1>4, <1>5, FirstIsLeast
<1>7. Right(routes_, q) = Served(First(ids))
  BY <1>4 DEF Right
<1> QED
  BY <1>1, <1>2, <1>3, <1>6, <1>7

\* What is right for a request that some route matches is a registered handler's answer.
LEMMA RightIsServed ==
  ASSUME RoutesInv, NEW q \in Requests, Matches(routes_, q) # {}
  PROVE  \E k \in 1..edits : Right(routes_, q) = Served(k)
BY FirstRouteIsRight DEF RoutesInv

\* For one that none matches it is 405 or 404, by its path.
LEMMA RightIsMiss ==
  ASSUME NEW q, Matches(routes_, q) = {}
  PROVE  Right(routes_, q) = IF SamePath(routes_, q) # {} THEN NotAllowed ELSE NotFound
BY DEF Right

\* Nothing is registered at first, and nobody calls.
LEMMA InitInv == Init => RInv
<1> SUFFICES ASSUME Init PROVE RInv
  OBVIOUS
<1>1. RoutesInv
  BY DEF Init, RoutesInv
<1>2. \A c \in Callers : CallInv(c) /\ DueOrRaced(c)
  BY DEF Init, CallInv, CallRecord, Idle, InCall, DueOrRaced
<1> QED
  BY <1>1, <1>2 DEF Init, RInv

\* add_route() and clear() keep the routes in order.
LEMMA RoutesStep ==
  ASSUME RoutesInv, \/ \E m \in Methods, p \in Paths : AddRoute(m, p)
                    \/ Clear
  PROVE  RoutesInv'
<1>1. CASE Clear
  BY <1>1 DEF Clear, Edited, RoutesInv
<1>2. CASE \E m \in Methods, p \in Paths : AddRoute(m, p)
  <2>1. PICK m \in Methods, p \in Paths : AddRoute(m, p)
    BY <1>2
  <2>2. edits \in Nat /\ edits' = edits + 1
    BY <2>1 DEF AddRoute, Edited, RoutesInv
  <2>3. PICK r \in [method : Methods, path : Paths, handler : Nat] :
          r.handler = edits + 1 /\ routes_' = Append(routes_, r)
    BY <2>1, <2>2 DEF AddRoute
  <2>4. PICK n \in Nat : n = Len(routes_)
    BY DEF RoutesInv
  <2>5. /\ routes_' \in Seq([method : Methods, path : Paths, handler : Nat])
        /\ DOMAIN routes_ = 1..n /\ DOMAIN routes_' = 1..(n + 1)
        /\ routes_'[n + 1] = r /\ \A i \in 1..n : routes_'[i] = routes_[i]
    <3> DEFINE T == [method : Methods, path : Paths, handler : Nat]
    <3>1. routes_ \in Seq(T) /\ r \in T
      BY DEF RoutesInv
    <3> HIDE DEF T
    <3>2. routes_' \in Seq(T) /\ Len(routes_') = n + 1
      BY <2>3, <2>4, <3>1
    <3>3. DOMAIN routes_ = 1..n /\ DOMAIN routes_' = 1..(n + 1)
      BY <2>4, <3>1, <3>2
    <3>4. routes_'[n + 1] = r /\ \A i \in 1..n : routes_'[i] = routes_[i]
      BY <2>3, <2>4, <3>1
    <3> QED
      BY <3>2, <3>3, <3>4 DEF T
  <2>6. ASSUME NEW i \in DOMAIN routes_' PROVE routes_'[i].handler \in 1..edits'
    <3>1. CASE i = n + 1
      BY <3>1, <2>2, <2>3, <2>5
    <3>2. CASE i # n + 1
      <4>1. i \in 1..n /\ routes_'[i] = routes_[i]
        BY <3>2, <2>4, <2>5
      <4>2. routes_[i].handler \in 1..edits
        BY <4>1, <2>5 DEF RoutesInv
      <4> QED
        BY <4>1, <4>2, <2>2
    <3> QED
      BY <3>1, <3>2
  <2>7. \A i, j \in DOMAIN routes_' : i < j => routes_'[i].handler < routes_'[j].handler
    <3> SUFFICES ASSUME NEW i \in DOMAIN routes_', NEW j \in DOMAIN routes_', i < j
                 PROVE  routes_'[i].handler < routes_'[j].handler
      OBVIOUS
    <3>1. i \in 1..n /\ routes_'[i] = routes_[i] /\ routes_[i].handler \in 1..edits
      BY <2>5 DEF RoutesInv
    <3>2. CASE j = n + 1
      BY <3>1, <3>2, <2>2, <2>3, <2>5
    <3>3. CASE j # n + 1
      <4>1. j \in 1..n /\ routes_'[j] = routes_[j]
        BY <3>3, <2>5
      <4>2. routes_[i].handler < routes_[j].handler
        BY <3>1, <4>1, <2>5 DEF RoutesInv
      <4> QED
        BY <3>1, <4>1, <4>2
    <3> QED
      BY <3>2, <3>3
  <2> QED
    BY <2>2, <2>5, <2>6, <2>7 DEF RoutesInv
<1> QED
  BY <1>1, <1>2

\* An edit disturbs no call: what is right after it is recorded for those under way.
LEMMA EditStep ==
  ASSUME RInv, Edited, RoutesInv'
  PROVE  RInv'
<1>1. /\ call' = call /\ edits \in Nat /\ edits' = edits + 1
      /\ due' = [c \in Callers |-> due'[c]]
  BY DEF Edited, RInv, RoutesInv
<1>2. ASSUME NEW c \in Callers PROVE CallInv(c)'
  BY <1>1 DEF RInv, CallInv, CallRecord, InCall, Edited
<1>3. ASSUME NEW c \in Callers PROVE DueOrRaced(c)'
  <2>1. call[c].at = "answered" => due'[c] = due[c]
    BY DEF Edited, InCall
  <2> QED
    BY <1>1, <2>1 DEF RInv, DueOrRaced
<1> QED
  BY <1>1, <1>2, <1>3 DEF RInv

\* A step of one caller is a step of no other.
LEMMA CallStep ==
  ASSUME RInv, NEW c \in Callers, NEW a, NEW state, NEW D,
         CallGoes(c, a, state), due' = [due EXCEPT ![c] = D],
         CallInv(c)', DueOrRaced(c)'
  PROVE  RInv'
<1>1. UNCHANGED <<routes_, edits>>
  BY DEF CallGoes
<1>2. /\ call' = [d \in Callers |-> call'[d]] /\ due' = [d \in Callers |-> due'[d]]
      /\ \A d \in Callers \ {c} : call'[d] = call[d] /\ due'[d] = due[d]
  BY DEF CallGoes, RInv
<1>3. RoutesInv'
  BY <1>1 DEF RInv, RoutesInv
<1>4. ASSUME NEW d \in Callers \ {c} PROVE CallInv(d)' /\ DueOrRaced(d)'
  BY <1>1, <1>2 DEF RInv, CallInv, CallRecord, InCall, DueOrRaced
<1> QED
  BY <1>2, <1>3, <1>4 DEF RInv

\* A call that is over has nothing to keep.
LEMMA IdleStep ==
  ASSUME RInv, NEW c \in Callers, NEW a, CallGoes(c, a, Idle), due' = [due EXCEPT ![c] = {}]
  PROVE  RInv'
<1>1. call'[c] = Idle
  BY DEF CallGoes, RInv
<1>2. CallInv(c)' /\ DueOrRaced(c)'
  BY <1>1 DEF CallInv, CallRecord, InCall, DueOrRaced, Idle
<1> QED
  BY <1>2, CallStep

\* A call begins with what is right as it enters.
LEMMA EnterStep ==
  ASSUME RInv, NEW c \in Callers, NEW q \in Requests, Enter(c, q)
  PROVE  RInv'
<1>1. /\ call'[c] = [Idle EXCEPT !.at = "entered", !.request = q]
      /\ due'[c] = {Right(routes_, q)} /\ routes_' = routes_
  BY DEF Enter, CallGoes, RInv
<1>2. call'[c].at = "entered" /\ call'[c].request = q /\ CallRecord(call'[c])
  BY <1>1 DEF CallRecord, Idle
<1>3. CallInv(c)' /\ DueOrRaced(c)'
  BY <1>1, <1>2 DEF CallInv, InCall, DueOrRaced
<1> QED
  BY <1>3, CallStep DEF Enter

\* find_route() finds the route whose answer is right, or none, when 404 or 405 is.
LEMMA FindStep ==
  ASSUME RInv, NEW c \in Callers, FindRoute(c)
  PROVE  RInv'
<1> DEFINE q == call[c].request
           M == Matches(routes_, q)
<1>1. /\ call[c].at = "entered" /\ CallRecord(call[c]) /\ q \in Requests
      /\ Right(routes_, q) \in due[c] /\ RoutesInv
  BY DEF FindRoute, CallGoes, RInv, CallInv, InCall
<1>2. due' = due /\ due' = [due EXCEPT ![c] = due[c]] /\ routes_' = routes_
  BY DEF FindRoute, CallGoes, RInv
<1>3. CASE M = {}
  <2>1. call'[c] = [call[c] EXCEPT !.at = "missed"]
    BY <1>3 DEF FindRoute, CallGoes, RInv
  <2>2. Right(routes_, q) = NotAllowed \/ Right(routes_, q) = NotFound
    BY <1>3, RightIsMiss
  <2>3. CallInv(c)' /\ DueOrRaced(c)'
    BY <1>1, <1>2, <2>1, <2>2
       DEF CallInv, CallRecord, InCall, DueOrRaced
  <2> QED
    BY <1>2, <2>3, CallStep DEF FindRoute
<1>4. CASE M # {}
  <2> DEFINE k == routes_[First(M)].handler
  <2>1. call'[c] = [call[c] EXCEPT !.at = "handling", !.storage = storage, !.handler = k]
    BY <1>4 DEF FindRoute, CallGoes, RInv
  <2>2. Right(routes_, q) = Served(k)
    BY <1>1, <1>4, FirstRouteIsRight
  <2>3. CallInv(c)' /\ DueOrRaced(c)'
    BY <1>1, <1>2, <2>1, <2>2
       DEF CallInv, CallRecord, InCall, DueOrRaced
  <2> QED
    BY <1>2, <2>3, CallStep DEF FindRoute
<1> QED
  BY <1>3, <1>4

(***************************************************************************)
(* The second look answers right, unless a route of the request was added  *)
(* between the looks; then 405 is wrong only if 404 was right before.      *)
(***************************************************************************)
LEMMA LookStep ==
  ASSUME RInv, NEW c \in Callers, LookForPath(c)
  PROVE  RInv'
<1> DEFINE q == call[c].request
           answer == IF SamePath(routes_, q) # {} THEN NotAllowed ELSE NotFound
<1>1. /\ call[c].at = "missed" /\ CallRecord(call[c]) /\ q \in Requests /\ RoutesInv
      /\ Right(routes_, q) \in due[c] /\ (NotFound \in due[c] \/ NotAllowed \in due[c])
  BY DEF LookForPath, CallGoes, RInv, CallInv, InCall
<1>2. /\ due' = due /\ due' = [due EXCEPT ![c] = due[c]] /\ edits' = edits
      /\ call'[c] = [call[c] EXCEPT !.at = "answered", !.answer = answer,
                                    !.response = Factory(answer.status, 1)]
  BY DEF LookForPath, CallGoes, RInv
<1>3. CallInv(c)'
  BY <1>1, <1>2 DEF CallInv, CallRecord, InCall
<1>4. call'[c].answer = answer
  BY <1>1, <1>2 DEF CallRecord
<1>5. CASE Matches(routes_, q) = {}
  <2>1. Right(routes_, q) = answer
    BY <1>5, RightIsMiss
  <2>2. DueOrRaced(c)'
    BY <1>1, <1>2, <1>4, <2>1 DEF DueOrRaced
  <2> QED
    BY <1>2, <1>3, <2>2, CallStep DEF LookForPath
<1>6. CASE Matches(routes_, q) # {}
  <2>1. PICK k \in 1..edits : Right(routes_, q) = Served(k)
    BY <1>1, <1>6, RightIsServed
  <2>2. answer = NotAllowed
    BY <1>6 DEF Matches, SamePath
  <2>3. DueOrRaced(c)'
    BY <1>1, <1>2, <1>4, <2>1, <2>2 DEF DueOrRaced
  <2> QED
    BY <1>2, <1>3, <2>3, CallStep DEF LookForPath
<1> QED
  BY <1>5, <1>6

\* In a handler: what it builds does not change which handler answers.
LEMMA HandlerStep ==
  ASSUME RInv, NEW c \in Callers,
         \/ \E s \in Starts \cup Steps : Build(c, s)
         \/ HandlerReturns(c)
         \/ \E k \in 1..edits : StaleHandlerReturns(c, k)
         \/ StaleHandlerCrashes(c)
  PROVE  RInv'
<1>1. /\ call[c].at = "handling" /\ CallRecord(call[c]) /\ call[c].request \in Requests
      /\ Right(routes_, call[c].request) \in due[c] /\ Served(call[c].handler) \in due[c]
  BY DEF Build, HandlerReturns, StaleHandlerReturns, StaleHandlerCrashes,
         CallGoes, RInv, CallInv, InCall
<1>2. due' = due /\ due' = [due EXCEPT ![c] = due[c]] /\ routes_' = routes_
  BY DEF Build, HandlerReturns, StaleHandlerReturns, StaleHandlerCrashes, CallGoes, RInv
<1>3. ASSUME NEW s, Build(c, s) PROVE RInv'
  <2>1. call'[c] = [call[c] EXCEPT !.steps = Append(@, s), !.response = Apply(@, s)]
    BY <1>3 DEF Build, CallGoes, RInv
  <2>2. CallInv(c)' /\ DueOrRaced(c)'
    BY <1>1, <1>2, <2>1
       DEF CallInv, CallRecord, InCall, DueOrRaced
  <2> QED
    BY <1>2, <1>3, <2>2, CallStep DEF Build
<1>4. CASE HandlerReturns(c)
  <2>1. call'[c] = [call[c] EXCEPT !.at = "answered", !.answer = Served(call[c].handler)]
    BY <1>4 DEF HandlerReturns, CallGoes, RInv
  <2>2. /\ call'[c].at = "answered" /\ call'[c].answer = Served(call[c].handler)
        /\ call'[c].request = call[c].request /\ CallRecord(call'[c])
    BY <1>1, <2>1 DEF CallRecord
  <2>3. CallInv(c)' /\ DueOrRaced(c)'
    BY <1>1, <1>2, <2>2 DEF CallInv, InCall, DueOrRaced
  <2> QED
    BY <1>2, <1>4, <2>3, CallStep DEF HandlerReturns
<1>5. ASSUME NEW k, StaleHandlerReturns(c, k) PROVE RInv'
  <2>1. call'[c] = [call[c] EXCEPT !.at = "answered", !.answer = Served(k), !.moved = TRUE,
                                  !.steps = <<>>, !.response = Factory(200, 1)]
    BY <1>5 DEF StaleHandlerReturns, CallGoes, RInv
  <2>2. /\ call'[c].at = "answered" /\ call'[c].moved = TRUE
        /\ call'[c].request = call[c].request /\ CallRecord(call'[c])
    <3>1. PICK old : old = call[c] /\ CallRecord(old)
      BY <1>1
    <3>2. PICK new : new = call'[c]
      OBVIOUS
    <3>3. PICK answer, made : new = [old EXCEPT !.at = "answered", !.answer = answer,
                                       !.moved = TRUE, !.steps = <<>>, !.response = made]
      BY <2>1, <3>1, <3>2
    <3>4. /\ new.at = "answered" /\ new.moved = TRUE
          /\ new.request = old.request /\ CallRecord(new)
      BY <3>1, <3>3 DEF CallRecord
    <3> QED
      BY <3>1, <3>2, <3>4
  <2>3. CallInv(c)' /\ DueOrRaced(c)'
    BY <1>1, <1>2, <2>2 DEF CallInv, InCall, DueOrRaced
  <2> QED
    BY <1>2, <1>5, <2>3, CallStep DEF StaleHandlerReturns
<1>6. CASE StaleHandlerCrashes(c)
  <2>1. call'[c] = [Idle EXCEPT !.at = "crashed"]
    BY <1>6 DEF StaleHandlerCrashes, CallGoes, RInv
  <2>2. call'[c].at = "crashed" /\ CallRecord(call'[c])
    BY <2>1 DEF CallRecord, Idle
  <2>3. CallInv(c)' /\ DueOrRaced(c)'
    BY <2>2 DEF CallInv, InCall, DueOrRaced
  <2> QED
    BY <1>2, <1>6, <2>3, CallStep DEF StaleHandlerCrashes
<1> QED
  BY <1>3, <1>4, <1>5, <1>6

\* Every step of route(), add_route(), clear() and the handlers keeps the invariant.
LEMMA StepInv == RInv /\ [Next]_vars => RInv'
<1> SUFFICES ASSUME RInv, [Next]_vars PROVE RInv'
  OBVIOUS
<1>1. CASE UNCHANGED vars
  BY <1>1 DEF vars, RInv, RoutesInv, CallInv, CallRecord, InCall, DueOrRaced, Matches
<1>2. CASE \/ \E m \in Methods, p \in Paths : AddRoute(m, p)
           \/ Clear
  <2>1. RoutesInv /\ Edited
    BY <1>2 DEF AddRoute, Clear, RInv
  <2> QED
    BY <1>2, <2>1, RoutesStep, EditStep
<1>3. ASSUME NEW c \in Callers, NEW q \in Requests, Enter(c, q) PROVE RInv'
  BY <1>3, EnterStep
<1>4. ASSUME NEW c \in Callers, FindRoute(c) PROVE RInv'
  BY <1>4, FindStep
<1>5. ASSUME NEW c \in Callers, LookForPath(c) PROVE RInv'
  BY <1>5, LookStep
<1>6. ASSUME NEW c \in Callers,
             \/ \E s \in Starts \cup Steps : Build(c, s)
             \/ HandlerReturns(c)
             \/ \E k \in 1..edits : StaleHandlerReturns(c, k)
             \/ StaleHandlerCrashes(c)
      PROVE  RInv'
  BY <1>6, HandlerStep
<1>7. ASSUME NEW c \in Callers, HandlerThrows(c) \/ Send(c) PROVE RInv'
  BY <1>7, IdleStep DEF HandlerThrows, Send
<1> QED
  BY <1>1, <1>2, <1>3, <1>4, <1>5, <1>6, <1>7 DEF Next

-----------------------------------------------------------------------------

\* The strengthened invariant of route() under concurrent add_route() and clear().
THEOREM RouterInvariant == Spec => []RInv
BY InitInv, StepInv, PTL DEF Spec

(***************************************************************************)
(* For any number of callers, routes and edits, an answer of route() is    *)
(* one that a single look at the routes gives at some moment of the call,  *)
(* but for a 405 whose route came between find_route() and the second      *)
(* look, and for a route that moved or was destroyed while in use.         *)
(***************************************************************************)
THEOREM AnswersAreDueOrRaced == Spec => []UndueAnswersAreRaces
<1>1. RInv => UndueAnswersAreRaces
  BY DEF RInv, DueOrRaced, UndueAnswersAreRaces
<1> QED
  BY <1>1, RouterInvariant, PTL

-----------------------------------------------------------------------------
(* The response a handler builds.                                          *)

\* A handler has executed a statement of this kind.
Did(d, op) == \E i \in DOMAIN d.steps : d.steps[i].op = op

(***************************************************************************)
(* What is known of the stored Content-Length of a response.  The handler  *)
(* has set it; or it comes from a factory whose body was replaced; or none *)
(* is stored, and no factory was used; or it is the size of the body, as   *)
(* the factory left them.                                                  *)
(***************************************************************************)
LengthIsKnown(d) ==
  \/ Did(d, "content-length")
  \/ Did(d, "factory") /\ Did(d, "body")
  \/ StoredLength(d.response) = {} /\ ~Did(d, "factory")
  \/ /\ StoredLength(d.response) = {Header("content-length", d.response.body)}
     /\ ~Did(d, "body")
     /\ d.at = "handling" => Did(d, "factory")

\* A call's response, and the statements that have built it.
ResponseInv(d) ==
  /\ Response(d.response)
  /\ d.steps \in Seq(Starts \cup Steps)
  /\ d.at \in {"idle", "entered", "missed"} => d.steps = <<>> /\ d.response = New(200)
  /\ LengthIsKnown(d)

ResponsesInv == \A c \in Callers : ResponseInv(call[c])

\* One statement of a handler is remembered behind the others.
LEMMA DidMore ==
  ASSUME NEW d, d.steps \in Seq(Starts \cup Steps), NEW s \in Starts \cup Steps,
         NEW e, e.steps = Append(d.steps, s)
  PROVE  /\ e.steps \in Seq(Starts \cup Steps)
         /\ \A op : Did(e, op) <=> Did(d, op) \/ s.op = op
<1> DEFINE T == Starts \cup Steps
<1> HIDE DEF T
<1>1. d.steps \in Seq(T) /\ s \in T
  BY DEF T
<1>2. PICK n \in Nat : n = Len(d.steps)
  BY <1>1
<1>3. e.steps \in Seq(T) /\ Len(e.steps) = n + 1
  BY <1>1, <1>2
<1>4. DOMAIN d.steps = 1..n /\ DOMAIN e.steps = 1..(n + 1)
  BY <1>1, <1>2, <1>3
<1>5. e.steps[n + 1] = s /\ \A i \in 1..n : e.steps[i] = d.steps[i]
  BY <1>1, <1>2
<1>6. ASSUME NEW op PROVE Did(e, op) <=> Did(d, op) \/ s.op = op
  <2>1. ASSUME Did(e, op), s.op # op PROVE Did(d, op)
    <3>1. PICK i \in 1..(n + 1) : e.steps[i].op = op
      BY <1>4, <2>1 DEF Did
    <3>2. i \in 1..n
      BY <1>2, <1>5, <2>1, <3>1
    <3> QED
      BY <1>4, <1>5, <3>1, <3>2 DEF Did
  <2>2. ASSUME Did(d, op) PROVE Did(e, op)
    <3>1. PICK i \in 1..n : d.steps[i].op = op
      BY <1>4, <2>2 DEF Did
    <3>2. i \in 1..(n + 1)
      BY <1>2
    <3> QED
      BY <1>4, <1>5, <3>1, <3>2 DEF Did
  <2>3. s.op = op => Did(e, op)
    BY <1>2, <1>4, <1>5 DEF Did
  <2> QED
    BY <2>1, <2>2, <2>3
<1> QED
  BY <1>3, <1>6 DEF T

\* Before a handler runs there is a new response, and no statement.
LEMMA FreshResponse ==
  ASSUME NEW d, d.steps = <<>>, d.response = New(200)
  PROVE  ResponseInv(d)
<1>1. \A op : ~Did(d, op)
  BY DEF Did
<1>2. d.steps \in Seq(Starts \cup Steps)
  OBVIOUS
<1> QED
  BY <1>1, <1>2, NewResponse DEF ResponseInv, LengthIsKnown

\* The router's own answers, 404 and 405, come from a factory.
LEMMA OwnResponse ==
  ASSUME NEW d, d.steps = <<>>, d.at = "answered",
         NEW status, d.response = Factory(status, 1)
  PROVE  ResponseInv(d)
<1>1. \A op : ~Did(d, op)
  BY DEF Did
<1>2. d.steps \in Seq(Starts \cup Steps)
  OBVIOUS
<1>3. /\ Response(d.response) /\ d.response.body = 1
      /\ StoredLength(d.response) = {Header("content-length", 1)}
  BY FactoryResponse
<1> QED
  BY <1>1, <1>2, <1>3 DEF ResponseInv, LengthIsKnown

(***************************************************************************)
(* One statement of a handler keeps what is known of the length: the first *)
(* is a constructor or a factory, and no later one is.                     *)
(***************************************************************************)
LEMMA BuiltResponse ==
  ASSUME NEW d, ResponseInv(d), d.at = "handling",
         NEW s \in Starts \cup Steps, s \in IF d.steps = <<>> THEN Starts ELSE Steps,
         NEW e, e.at = "handling", e.steps = Append(d.steps, s), e.response = Apply(d.response, s)
  PROVE  ResponseInv(e)
<1>1. e.steps \in Seq(Starts \cup Steps) /\ \A op : Did(e, op) <=> Did(d, op) \/ s.op = op
  BY DidMore DEF ResponseInv
<1>2. Response(d.response) /\ d.response.body \in Nat /\ LengthIsKnown(d)
  BY DEF ResponseInv, Response
<1>3. /\ s.op \in {"default", "construct", "factory", "body", "keep"} \cup Names
      /\ s.op \notin {"default", "construct"} => s.value \in Nat
      /\ s.op \in {"default", "construct", "factory"} <=> d.steps = <<>>
  BY RouterAssumption DEF Starts, Steps, Names
<1>4. d.steps = <<>> => \A op : ~Did(d, op)
  BY DEF Did
<1>5. CASE s.op \in {"default", "construct"}
  <2>1. e.response \in {Default, New(200)}
    BY <1>5 DEF Apply
  <2>2. ~Did(e, "factory")
    BY <1>1, <1>3, <1>4, <1>5
  <2> QED
    BY <1>1, <2>1, <2>2, NewResponse DEF ResponseInv, LengthIsKnown
<1>6. CASE s.op = "factory"
  <2>1. e.response = Factory(200, s.value) /\ s.value \in Nat
    BY <1>3, <1>6 DEF Apply
  <2>2. /\ Response(e.response) /\ e.response.body = s.value
        /\ StoredLength(e.response) = {Header("content-length", s.value)}
    BY <2>1, FactoryResponse
  <2>3. Did(e, "factory") /\ ~Did(e, "body")
    BY <1>1, <1>3, <1>4, <1>6
  <2> QED
    BY <1>1, <2>2, <2>3 DEF ResponseInv, LengthIsKnown
<1>7. CASE s.op = "body"
  <2>1. e.response = SetBody(d.response, s.value) /\ s.value \in Nat
    BY <1>3, <1>7 DEF Apply
  <2>2. Response(e.response) /\ StoredLength(e.response) = StoredLength(d.response)
    BY <1>2, <2>1, BodyResponse
  <2>3. LengthIsKnown(e)
    BY <1>1, <1>2, <1>7, <2>2 DEF LengthIsKnown
  <2> QED
    BY <1>1, <2>2, <2>3 DEF ResponseInv
<1>8. CASE s.op = "keep"
  <2>1. e.response = SetKeepAlive(d.response, s.value # 0)
    BY <1>8 DEF Apply
  <2>2. /\ Response(e.response) /\ StoredLength(e.response) = StoredLength(d.response)
        /\ e.response.body = d.response.body
    BY <1>2, <2>1, BodyResponse
  <2>3. LengthIsKnown(e)
    BY <1>1, <1>2, <1>8, <2>2 DEF LengthIsKnown
  <2> QED
    BY <1>1, <2>2, <2>3 DEF ResponseInv
<1>9. CASE s.op \in Names
  <2>1. s.value \in Nat /\ s.op \notin {"default", "construct", "factory", "body", "keep"}
    BY <1>3, <1>9 DEF Names
  <2> DEFINE h == Header(s.op, s.value)
  <2>2. h \in HeaderFields /\ h.name = s.op
    BY <1>9, <2>1 DEF Header, HeaderFields
  <2>3. e.response = SetHeader(d.response, h)
    BY <2>1 DEF Apply
  <2> HIDE DEF h
  <2>4. /\ Response(e.response) /\ e.response.body = d.response.body
        /\ s.op # "content-length" => StoredLength(e.response) = StoredLength(d.response)
    BY <1>2, <2>2, <2>3, HeaderResponse
  <2>5. LengthIsKnown(e)
    BY <1>1, <1>2, <2>1, <2>4 DEF LengthIsKnown
  <2> QED
    BY <1>1, <2>1, <2>4, <2>5 DEF ResponseInv
<1> QED
  BY <1>3, <1>5, <1>6, <1>7, <1>8, <1>9

\* A caller's step changes its own response only.
LEMMA OneResponse ==
  ASSUME RInv, ResponsesInv, NEW c \in Callers, NEW a, NEW state,
         CallGoes(c, a, state), ResponseInv(state)
  PROVE  ResponsesInv'
<1>1. \A d \in Callers : call'[d] = IF d = c THEN state ELSE call[d]
  BY DEF CallGoes, RInv
<1> QED
  BY <1>1 DEF ResponsesInv

\* The responses of all the callers are known, whatever step is taken.
LEMMA ResponsesStep == RInv /\ ResponsesInv /\ [Next]_vars => ResponsesInv'
<1> SUFFICES ASSUME RInv, ResponsesInv, [Next]_vars PROVE ResponsesInv'
  OBVIOUS
<1>i. ResponseInv(Idle)
  BY FreshResponse DEF Idle
<1>c. \A c \in Callers : CallRecord(call[c]) /\ ResponseInv(call[c])
  BY DEF RInv, CallInv, ResponsesInv
<1>1. CASE UNCHANGED call
  BY <1>1 DEF ResponsesInv
<1>2. ASSUME NEW c \in Callers, NEW q \in Requests, Enter(c, q) PROVE ResponsesInv'
  <2> DEFINE state == [Idle EXCEPT !.at = "entered", !.request = q]
  <2>1. ResponseInv(state)
    BY FreshResponse DEF Idle
  <2> QED
    BY <1>2, <2>1, OneResponse DEF Enter
<1>3. ASSUME NEW c \in Callers, FindRoute(c) PROVE ResponsesInv'
  <2> DEFINE missed == [call[c] EXCEPT !.at = "missed"]
             found(k) == [call[c] EXCEPT !.at = "handling", !.storage = storage, !.handler = k]
  <2>1. call[c].at = "entered" /\ call[c].steps = <<>> /\ call[c].response = New(200)
    BY <1>3, <1>c DEF FindRoute, CallGoes, ResponseInv
  <2>m. missed.steps = <<>> /\ missed.response = New(200)
    BY <1>c, <2>1 DEF CallRecord
  <2>f. \A k : found(k).steps = <<>> /\ found(k).response = New(200)
    BY <1>c, <2>1 DEF CallRecord
  <2>3. CallGoes(c, "entered", missed) \/ \E k : CallGoes(c, "entered", found(k))
    BY <1>3 DEF FindRoute
  <2> HIDE DEF missed, found
  <2>4. CASE CallGoes(c, "entered", missed)
    BY <2>m, <2>4, FreshResponse, OneResponse
  <2>5. ASSUME NEW k, CallGoes(c, "entered", found(k)) PROVE ResponsesInv'
    <3>1. ResponseInv(found(k))
      BY <2>f, FreshResponse
    <3> QED
      BY <2>5, <3>1, OneResponse
  <2> QED
    BY <2>3, <2>4, <2>5
<1>4. ASSUME NEW c \in Callers, LookForPath(c) PROVE ResponsesInv'
  <2>1. PICK answer : CallGoes(c, "missed", [call[c] EXCEPT !.at = "answered", !.answer = answer,
                                                 !.response = Factory(answer.status, 1)])
    BY <1>4 DEF LookForPath
  <2> DEFINE state == [call[c] EXCEPT !.at = "answered", !.answer = answer,
                                      !.response = Factory(answer.status, 1)]
  <2>2. call[c].steps = <<>>
    BY <1>c, <2>1 DEF CallGoes, ResponseInv
  <2>3. state.steps = <<>> /\ state.at = "answered" /\ state.response = Factory(answer.status, 1)
    BY <1>c, <2>2 DEF CallRecord
  <2>4. ResponseInv(state)
    BY <2>3, OwnResponse
  <2> QED
    BY <2>1, <2>4, OneResponse
<1>5. ASSUME NEW c \in Callers, NEW s \in Starts \cup Steps, Build(c, s) PROVE ResponsesInv'
  <2> DEFINE state == [call[c] EXCEPT !.steps = Append(@, s), !.response = Apply(@, s)]
  <2>1. call[c].at = "handling" /\ s \in IF call[c].steps = <<>> THEN Starts ELSE Steps
    BY <1>5 DEF Build, CallGoes
  <2>2. /\ state.at = "handling" /\ state.steps = Append(call[c].steps, s)
        /\ state.response = Apply(call[c].response, s)
    BY <1>c, <2>1 DEF CallRecord
  <2>3. CallGoes(c, "handling", state)
    BY <1>5 DEF Build
  <2> HIDE DEF state
  <2>4. ResponseInv(state)
    BY <1>c, <2>1, <2>2, BuiltResponse
  <2> QED
    BY <2>3, <2>4, OneResponse
<1>6. ASSUME NEW c \in Callers, HandlerReturns(c) PROVE ResponsesInv'
  <2> DEFINE state == [call[c] EXCEPT !.at = "answered", !.answer = Served(call[c].handler)]
  <2>1. state.at = "answered" /\ state.steps = call[c].steps /\ state.response = call[c].response
    BY <1>c DEF CallRecord
  <2>2. CallGoes(c, "handling", state)
    BY <1>6 DEF HandlerReturns
  <2> HIDE DEF state
  <2>3. \A op : Did(state, op) <=> Did(call[c], op)
    BY <2>1 DEF Did
  <2>4. LengthIsKnown(state)
    <3>1. LengthIsKnown(call[c])
      BY <1>c DEF ResponseInv
    <3> QED
      BY <2>1, <2>3, <3>1 DEF LengthIsKnown
  <2>5. ResponseInv(state)
    BY <1>c, <2>1, <2>4 DEF ResponseInv
  <2> QED
    BY <2>2, <2>5, OneResponse
<1>7. ASSUME NEW c \in Callers, NEW k, StaleHandlerReturns(c, k) PROVE ResponsesInv'
  <2> DEFINE state == [call[c] EXCEPT !.at = "answered", !.answer = Served(k), !.moved = TRUE,
                                      !.steps = <<>>, !.response = Factory(200, 1)]
  <2>1. state.at = "answered" /\ state.steps = <<>> /\ state.response = Factory(200, 1)
    BY <1>c DEF CallRecord
  <2>2. CallGoes(c, "handling", state)
    BY <1>7 DEF StaleHandlerReturns
  <2> HIDE DEF state
  <2> QED
    BY <2>1, <2>2, OwnResponse, OneResponse
<1>8. ASSUME NEW c \in Callers, StaleHandlerCrashes(c) PROVE ResponsesInv'
  <2>1. ResponseInv([Idle EXCEPT !.at = "crashed"])
    BY FreshResponse DEF Idle
  <2> QED
    BY <1>8, <2>1, OneResponse DEF StaleHandlerCrashes
<1>9. ASSUME NEW c \in Callers, HandlerThrows(c) \/ Send(c) PROVE ResponsesInv'
  BY <1>i, <1>9, OneResponse DEF HandlerThrows, Send
<1> QED
  BY <1>1, <1>2, <1>3, <1>4, <1>5, <1>6, <1>7, <1>8, <1>9
     DEF Next, vars, AddRoute, Clear, Edited

\* What is known of every response, at any time.
THEOREM ResponsesKnown == Spec => []ResponsesInv
<1>1. Init => ResponsesInv
  <2>1. ResponseInv(Idle)
    BY FreshResponse DEF Idle
  <2> QED
    BY <2>1 DEF Init, ResponsesInv
<1> QED
  BY <1>1, ResponsesStep, RouterInvariant, PTL DEF Spec

(***************************************************************************)
(* Whichever headers a handler sets, and however often, serialize() writes *)
(* one Content-Length, one Connection and one Content-Type field.          *)
(***************************************************************************)
THEOREM ResponsesFramedOnce == Spec => []FramedOnce
<1>1. ResponsesInv => FramedOnce
  <2> SUFFICES ASSUME ResponsesInv, NEW c \in Callers
               PROVE  \A name \in Written : \E i \in DOMAIN Serialize(call[c].response) :
                        Fields(Serialize(call[c].response), name) = {i}
    BY DEF FramedOnce
  <2> DEFINE wire == Serialize(call[c].response)
  <2>1. WellFormed(call[c].response.headers)
    BY DEF ResponsesInv, ResponseInv, Response
  <2>2. PICK n \in Nat : /\ DOMAIN wire = 1..n + 3
                         /\ wire[1].name = "content-length"
                         /\ wire[2].name = "connection"
                         /\ wire[n + 3].name = "content-type"
                         /\ \A i \in 3..n + 2 : wire[i].name \notin Written
    BY <2>1, OnTheWire
  <2> HIDE DEF wire
  <2>3. \A i \in DOMAIN wire : i = 1 \/ i = 2 \/ i = n + 3 \/ i \in 3..n + 2
    BY <2>2
  <2>4. 1 \in DOMAIN wire /\ 2 \in DOMAIN wire /\ n + 3 \in DOMAIN wire
    BY <2>2
  <2>5. Fields(wire, "content-length") = {1}
    BY <2>2, <2>3, <2>4 DEF Fields, Written
  <2>6. Fields(wire, "connection") = {2}
    BY <2>2, <2>3, <2>4 DEF Fields, Written
  <2>7. Fields(wire, "content-type") = {n + 3}
    BY <2>2, <2>3, <2>4 DEF Fields, Written
  <2> QED
    BY <2>4, <2>5, <2>6, <2>7 DEF Written, wire
<1> QED
  BY <1>1, ResponsesKnown, PTL

(***************************************************************************)
(* The Content-Length on the wire is the size of the body, for every       *)
(* sequence of setters a handler calls, unless the handler set the field   *)
(* itself or replaced the body of a factory.                               *)
(***************************************************************************)
THEOREM ResponsesLengthIsBody == Spec => []LengthIsBody
<1>1. ResponsesInv => LengthIsBody
  <2> SUFFICES ASSUME ResponsesInv, NEW c \in Callers,
                      ~Did(call[c], "content-length"),
                      ~(Did(call[c], "factory") /\ Did(call[c], "body"))
               PROVE  \A i \in Fields(Serialize(call[c].response), "content-length") :
                        Serialize(call[c].response)[i].value = call[c].response.body
    BY DEF LengthIsBody, Did
  <2> DEFINE r == call[c].response
             wire == Serialize(r)
  <2>1. WellFormed(r.headers) /\ LengthIsKnown(call[c])
    BY DEF ResponsesInv, ResponseInv, Response
  <2>2. PICK n \in Nat : /\ DOMAIN wire = 1..n + 3
                         /\ wire[2].name = "connection"
                         /\ wire[n + 3].name = "content-type"
                         /\ \A i \in 3..n + 2 : wire[i].name \notin Written
                         /\ \/ StoredLength(r) = {wire[1]}
                            \/ StoredLength(r) = {} /\ wire[1].value = r.body
    BY <2>1, OnTheWire DEF StoredLength
  <2> HIDE DEF wire
  <2>3. \A i \in Fields(wire, "content-length") : i = 1
    BY <2>2 DEF Fields, Written
  <2>4. StoredLength(r) = {} \/ StoredLength(r) = {Header("content-length", r.body)}
    BY <2>1 DEF LengthIsKnown
  <2>5. Header("content-length", r.body).value = r.body
    BY DEF Header
  <2>6. wire[1].value = r.body
    <3> HIDE DEF r
    <3> QED
      BY <2>2, <2>4, <2>5
  <2> QED
    BY <2>3, <2>6 DEF wire
<1> QED
  BY <1>1, ResponsesKnown, PTL

-----------------------------------------------------------------------------
(* The storage find_route()'s pointer points into.                         *)

\* The route a handler runs on is among the routes, as long as they have not moved.
PlaceInv(c) ==
  /\ call[c].request \in Requests \cup {NoRequest}
  /\ call[c].at = "handling" =>
       /\ call[c].storage \in 0..edits
       /\ Valid(c) => \E i \in Matches(routes_, call[c].request) :
                        routes_[i].handler = call[c].handler

\* The routes fit the capacity, and where they are dates from an earlier edit.
StorageInv ==
  /\ edits \in 0..MaxEdits /\ storage \in 0..edits
  /\ capacity \in Nat /\ Len(routes_) <= capacity

PlacesInv == StorageInv /\ \A c \in Callers : PlaceInv(c)

\* push_back() leaves the routes it finds in their order, and adds one.
LEMMA AddedBehind ==
  ASSUME RoutesInv, NEW m \in Methods, NEW p \in Paths, AddRoute(m, p)
  PROVE  /\ Len(routes_') = Len(routes_) + 1
         /\ \A i \in DOMAIN routes_ : i \in DOMAIN routes_' /\ routes_'[i] = routes_[i]
<1> DEFINE T == [method : Methods, path : Paths, handler : Nat]
<1>1. PICK r \in T : routes_' = Append(routes_, r)
  BY DEF AddRoute, RoutesInv
<1>2. routes_ \in Seq(T)
  BY DEF RoutesInv
<1> HIDE DEF T
<1>3. PICK n \in Nat : n = Len(routes_)
  BY <1>2
<1>4. routes_' \in Seq(T) /\ Len(routes_') = n + 1
  BY <1>1, <1>2, <1>3
<1>5. DOMAIN routes_ = 1..n /\ DOMAIN routes_' = 1..(n + 1)
  BY <1>2, <1>3, <1>4
<1>6. \A i \in 1..n : routes_'[i] = routes_[i]
  BY <1>1, <1>2, <1>3
<1> QED
  BY <1>3, <1>4, <1>5, <1>6

(***************************************************************************)
(* An edit that leaves the routes where they are leaves every handler its  *)
(* route; one that moves or destroys them invalidates every pointer.       *)
(***************************************************************************)
LEMMA EditPlaces ==
  ASSUME RInv, PlacesInv, \/ \E m \in Methods, p \in Paths : AddRoute(m, p)
                          \/ Clear
  PROVE  PlacesInv'
<1>1. /\ edits \in Nat /\ MaxEdits \in Nat /\ edits < MaxEdits /\ edits' = edits + 1
      /\ call' = call /\ capacity \in Nat
  BY RouterAssumption DEF AddRoute, Clear, Edited, PlacesInv, StorageInv, RInv, RoutesInv
<1>2. \A c \in Callers : call[c].at = "handling" =>
        call[c].request \in Requests /\ call[c].storage \in 0..edits'
  BY <1>1 DEF RInv, CallInv, PlacesInv, PlaceInv
<1>3. CASE Clear
  <2>1. routes_' = <<>> /\ storage' = edits + 1 /\ capacity' = capacity
    BY <1>3 DEF Clear
  <2>2. StorageInv'
    BY <1>1, <2>1 DEF StorageInv
  <2>3. ASSUME NEW c \in Callers PROVE PlaceInv(c)'
    BY <1>1, <2>1 DEF PlacesInv, PlaceInv, Valid
  <2> QED
    BY <2>2, <2>3 DEF PlacesInv
<1>4. ASSUME NEW m \in Methods, NEW p \in Paths, AddRoute(m, p) PROVE PlacesInv'
  <2>1. /\ Len(routes_') = Len(routes_) + 1
        /\ \A i \in DOMAIN routes_ : i \in DOMAIN routes_' /\ routes_'[i] = routes_[i]
    BY <1>4, AddedBehind DEF RInv
  <2>2. \/ Len(routes_) < capacity /\ capacity' = capacity /\ storage' = storage
        \/ Len(routes_) >= capacity /\ capacity' = Grown(capacity) /\ storage' = edits + 1
    <3>1. Len(routes_) \in Nat
      BY DEF RInv, RoutesInv
    <3> QED
      BY <1>1, <1>4, <3>1 DEF AddRoute
  <2>3. StorageInv'
    <3>1. PICK n \in Nat : n = Len(routes_) /\ n <= capacity /\ storage \in 0..edits
      BY DEF RInv, RoutesInv, PlacesInv, StorageInv
    <3>2. Grown(capacity) \in Nat /\ capacity + 1 <= Grown(capacity)
      BY <1>1 DEF Grown
    <3> QED
      BY <1>1, <2>1, <2>2, <3>1, <3>2 DEF StorageInv
  <2>4. ASSUME NEW c \in Callers PROVE PlaceInv(c)'
    <3>1. ASSUME call[c].at = "handling", Valid(c)'
          PROVE  \E i \in Matches(routes_', call[c].request) : routes_'[i].handler = call[c].handler
      <4>1. call[c].storage = storage'
        BY <1>1, <3>1 DEF Valid
      <4>2. storage' = storage
        BY <1>1, <2>2, <3>1, <4>1 DEF PlacesInv, PlaceInv
      <4>3. PICK i \in Matches(routes_, call[c].request) : routes_[i].handler = call[c].handler
        BY <3>1, <4>1, <4>2 DEF PlacesInv, PlaceInv, Valid
      <4>4. i \in Matches(routes_', call[c].request) /\ routes_'[i].handler = call[c].handler
        BY <2>1, <4>3 DEF Matches
      <4> QED
        BY <4>4
    <3> QED
      BY <1>1, <1>2, <3>1 DEF PlacesInv, PlaceInv
  <2> QED
    BY <2>3, <2>4 DEF PlacesInv
<1> QED
  BY <1>3, <1>4

\* find_route() takes the pointer, and only the handler that runs on it has one.
LEMMA PlacesStep == RInv /\ PlacesInv /\ [Next]_vars => PlacesInv'
<1> SUFFICES ASSUME RInv, PlacesInv, [Next]_vars PROVE PlacesInv'
  OBVIOUS
<1>1. CASE UNCHANGED vars
  BY <1>1 DEF vars, PlacesInv, StorageInv, PlaceInv, Valid, Matches
<1>2. CASE \/ \E m \in Methods, p \in Paths : AddRoute(m, p)
           \/ Clear
  BY <1>2, EditPlaces
<1>3. ASSUME NEW c \in Callers, NEW a, NEW state, CallGoes(c, a, state),
             state.request \in Requests \cup {NoRequest},
             state.at = "handling" =>
               /\ state.storage \in 0..edits
               /\ state.storage = storage => \E i \in Matches(routes_, state.request) :
                                               routes_[i].handler = state.handler
      PROVE  PlacesInv'
  <2>1. /\ \A d \in Callers : call'[d] = IF d = c THEN state ELSE call[d]
        /\ UNCHANGED <<routes_, capacity, edits, storage>>
    BY <1>3 DEF CallGoes, RInv
  <2>2. StorageInv'
    BY <2>1 DEF PlacesInv, StorageInv
  <2>3. ASSUME NEW d \in Callers PROVE PlaceInv(d)'
    <3>1. CASE d = c
      BY <1>3, <2>1, <3>1 DEF PlaceInv, Valid, Matches
    <3>2. CASE d # c
      BY <2>1, <3>2 DEF PlacesInv, PlaceInv, Valid, Matches
    <3> QED
      BY <3>1, <3>2
  <2> QED
    BY <2>2, <2>3 DEF PlacesInv
<1>c. \A c \in Callers : CallRecord(call[c]) /\ CallInv(c) /\ PlaceInv(c)
  BY DEF RInv, CallInv, PlacesInv
<1>4. ASSUME NEW c \in Callers, NEW q \in Requests, Enter(c, q) PROVE PlacesInv'
  <2> DEFINE state == [Idle EXCEPT !.at = "entered", !.request = q]
  <2>1. state.at = "entered" /\ state.request = q
    BY DEF Idle
  <2>2. CallGoes(c, "idle", state)
    BY <1>4 DEF Enter
  <2> HIDE DEF state
  <2> QED
    BY <1>3, <2>1, <2>2
<1>5. ASSUME NEW c \in Callers, FindRoute(c) PROVE PlacesInv'
  <2> DEFINE q == call[c].request
             M == Matches(routes_, q)
             k == routes_[First(M)].handler
             missed == [call[c] EXCEPT !.at = "missed"]
             found == [call[c] EXCEPT !.at = "handling", !.storage = storage, !.handler = k]
  <2>1. call[c].at = "entered" /\ q \in Requests /\ RoutesInv
    BY <1>5, <1>c DEF FindRoute, CallGoes, CallInv, RInv
  <2>2. missed.at = "missed" /\ missed.request = q
    BY <1>c DEF CallRecord
  <2>3. found.at = "handling" /\ found.request = q /\ found.storage = storage /\ found.handler = k
    BY <1>c DEF CallRecord
  <2>4. storage \in 0..edits
    BY DEF PlacesInv, StorageInv
  <2>5. CASE M = {}
    <3>1. CallGoes(c, "entered", missed)
      BY <1>5, <2>5 DEF FindRoute
    <3> HIDE DEF missed
    <3> QED
      BY <1>3, <2>1, <2>2, <3>1
  <2>6. CASE M # {}
    <3>1. CallGoes(c, "entered", found)
      BY <1>5, <2>6 DEF FindRoute
    <3>2. \E i \in M : routes_[i].handler = k
      <4>1. M \subseteq Nat
        BY <2>1 DEF RoutesInv, Matches
      <4> HIDE DEF M
      <4>2. PICK i \in M : \A j \in M : i <= j
        BY <2>6, <4>1, LeastNatural
      <4>3. First(M) = i
        BY <4>1, <4>2, FirstIsLeast
      <4> QED
        BY <4>2, <4>3
    <3> HIDE DEF found, k
    <3> QED
      BY <1>3, <2>1, <2>3, <2>4, <3>1, <3>2
  <2> QED
    BY <2>5, <2>6
<1>6. ASSUME NEW c \in Callers, LookForPath(c) PROVE PlacesInv'
  <2>1. PICK answer : CallGoes(c, "missed", [call[c] EXCEPT !.at = "answered", !.answer = answer,
                                                 !.response = Factory(answer.status, 1)])
    BY <1>6 DEF LookForPath
  <2> DEFINE state == [call[c] EXCEPT !.at = "answered", !.answer = answer,
                                      !.response = Factory(answer.status, 1)]
  <2>2. state.at = "answered" /\ state.request = call[c].request
    BY <1>c DEF CallRecord
  <2>3. state.request \in Requests \cup {NoRequest}
    BY <1>c, <2>2 DEF PlaceInv
  <2>4. CallGoes(c, "missed", state)
    BY <2>1
  <2> HIDE DEF state
  <2> QED
    BY <1>3, <2>2, <2>3, <2>4
<1>7. ASSUME NEW c \in Callers, NEW s \in Starts \cup Steps, Build(c, s) PROVE PlacesInv'
  <2> DEFINE state == [call[c] EXCEPT !.steps = Append(@, s), !.response = Apply(@, s)]
  <2>1. CallGoes(c, "handling", state) /\ call[c].at = "handling"
    BY <1>7 DEF Build, CallGoes
  <2>2. /\ state.at = call[c].at /\ state.request = call[c].request
        /\ state.storage = call[c].storage /\ state.handler = call[c].handler
    BY <1>c DEF CallRecord
  <2> HIDE DEF state
  <2> QED
    BY <1>3, <1>c, <2>1, <2>2 DEF PlaceInv, Valid
<1>8. ASSUME NEW c \in Callers, HandlerReturns(c) \/ \E k \in 1..edits : StaleHandlerReturns(c, k)
      PROVE  PlacesInv'
  <2> DEFINE state(k) == [call[c] EXCEPT !.at = "answered", !.answer = Served(k)]
             stale(k) == [call[c] EXCEPT !.at = "answered", !.answer = Served(k), !.moved = TRUE,
                                         !.steps = <<>>, !.response = Factory(200, 1)]
  <2>1. \A k : /\ state(k).at = "answered" /\ state(k).request = call[c].request
               /\ stale(k).at = "answered" /\ stale(k).request = call[c].request
    BY <1>c DEF CallRecord
  <2>2. \E k : CallGoes(c, "handling", state(k)) \/ CallGoes(c, "handling", stale(k))
    BY <1>8 DEF HandlerReturns, StaleHandlerReturns
  <2>3. call[c].request \in Requests \cup {NoRequest}
    BY <1>c DEF PlaceInv
  <2> HIDE DEF state, stale
  <2> QED
    BY <1>3, <2>1, <2>2, <2>3
<1>9. ASSUME NEW c \in Callers, StaleHandlerCrashes(c) \/ HandlerThrows(c) \/ Send(c)
      PROVE  PlacesInv'
  <2> DEFINE crashed == [Idle EXCEPT !.at = "crashed"]
  <2>1. /\ crashed.at = "crashed" /\ crashed.request = NoRequest
        /\ Idle.at = "idle" /\ Idle.request = NoRequest
    BY DEF Idle
  <2>2. \E a : CallGoes(c, a, crashed) \/ CallGoes(c, a, Idle)
    BY <1>9 DEF StaleHandlerCrashes, HandlerThrows, Send
  <2> HIDE DEF crashed
  <2> QED
    BY <1>3, <2>1, <2>2
<1> QED
  BY <1>1, <1>2, <1>4, <1>5, <1>6, <1>7, <1>8, <1>9 DEF Next

\* Nothing is stored at first.
LEMMA InitPlaces == Init => PlacesInv
BY RouterAssumption DEF Init, PlacesInv, StorageInv, PlaceInv, Idle

(***************************************************************************)
(* The routes fit the storage of the vector, in the order of registration, *)
(* and a handler whose route has not been moved runs on a route that is    *)
(* still registered for its request.                                       *)
(***************************************************************************)
THEOREM RouterTypeCorrect == Spec => []TypeOK
<1>1. RInv /\ PlacesInv => TypeOK
  <2> SUFFICES ASSUME RInv, PlacesInv PROVE TypeOK
    OBVIOUS
  <2>1. routes_ \in Seq([method : Methods, path : Paths, handler : 1..edits])
    <3> DEFINE T == [method : Methods, path : Paths, handler : Nat]
    <3>1. routes_ \in Seq(T) /\ \A i \in DOMAIN routes_ : routes_[i].handler \in 1..edits
      BY DEF RInv, RoutesInv
    <3>2. PICK n \in Nat : n = Len(routes_) /\ DOMAIN routes_ = 1..n
      <4> HIDE DEF T
      <4> QED
        BY <3>1
    <3>3. \A i \in 1..n : routes_[i] \in T
      <4> HIDE DEF T
      <4> QED
        BY <3>1, <3>2
    <3>4. \A i \in 1..n : routes_[i] \in [method : Methods, path : Paths, handler : 1..edits]
      BY <3>1, <3>2, <3>3
    <3>5. routes_ = [i \in 1..n |-> routes_[i]]
      <4> HIDE DEF T
      <4> QED
        BY <3>1, <3>2
    <3> DEFINE U == [method : Methods, path : Paths, handler : 1..edits]
               f == [i \in 1..n |-> routes_[i]]
    <3>6. \A i \in 1..n : routes_[i] \in U
      BY <3>4
    <3>7. f \in Seq(U)
      <4> HIDE DEF U
      <4> QED
        BY <3>6
    <3> QED
      BY <3>5, <3>7
  <2>2. /\ edits \in 0..MaxEdits /\ storage \in 0..edits /\ Len(routes_) <= capacity
        /\ \A i, j \in DOMAIN routes_ : i < j => routes_[i].handler < routes_[j].handler
    BY DEF RInv, RoutesInv, PlacesInv, StorageInv
  <2>3. \A c \in Callers :
          /\ call[c].at \in {"idle", "entered", "handling", "missed", "answered", "crashed"}
          /\ call[c].request \in Requests \cup {NoRequest}
          /\ call[c].at = "handling" /\ Valid(c) =>
               \E i \in Matches(routes_, call[c].request) : routes_[i].handler = call[c].handler
    BY DEF RInv, CallInv, PlacesInv, PlaceInv
  <2> QED
    BY <2>1, <2>2, <2>3 DEF TypeOK
<1>2. Spec => [](RInv /\ PlacesInv)
  BY InitInv, StepInv, InitPlaces, PlacesStep, PTL DEF Spec
<1> QED
  BY <1>1, <1>2, PTL

=============================================================================
