------------------------------- MODULE Router -------------------------------
(***************************************************************************)
(* http::Router: threads call route() while others add routes or clear     *)
(* them, and a handler builds its response with the setters of             *)
(* HttpResponse.  Each critical section of mutex_ is one step:             *)
(* find_route(), the second look-up of route(), add_route(), clear().      *)
(*                                                                         *)
(* find_route() returns a pointer into the storage of routes_, which       *)
(* route() uses after the lock is released, until the handler returns.     *)
(***************************************************************************)
EXTENDS HttpResponse

CONSTANTS Callers,    \* threads in route(): the workers of the pool
          Methods, Paths,
          MaxEdits,   \* bound on add_route() and clear() calls
          MaxCalls,   \* bound on the statements of a handler
          MaxBody     \* bound on body sizes and header values

ASSUME RouterAssumption == MaxEdits \in Nat /\ MaxCalls \in Nat /\ MaxBody \in Nat

VARIABLES
  routes_,    \* Router::routes_
  capacity,   \* routes_.capacity()
  edits,      \* the edits so far; numbers the handlers
  storage,    \* the edit since which the elements of routes_ are where they are
  call,       \* each caller's progress in route()
  due         \* history: the answers that were right at some moment of the call

vars == <<routes_, capacity, edits, storage, call, due>>

Requests == [method : Methods, path : Paths]
NoRequest == [method |-> "none", path |-> "none"]

\* The answers: a handler's, 404 and 405.
Served(k)  == [status |-> 200, handler |-> k]
NotFound   == [status |-> 404, handler |-> 0]
NotAllowed == [status |-> 405, handler |-> 0]
NoAnswer   == [status |-> 0, handler |-> 0]

Idle == [at |-> "idle", request |-> NoRequest, handler |-> 0, storage |-> 0,
         steps |-> <<>>, response |-> New(200), answer |-> NoAnswer, moved |-> FALSE]

Init == /\ routes_ = <<>>
        /\ capacity = 0
        /\ edits = 0
        /\ storage = 0
        /\ call = [c \in Callers |-> Idle]
        /\ due = [c \in Callers |-> {}]

-----------------------------------------------------------------------------

Matches(routes, q) == {i \in DOMAIN routes : routes[i].method = q.method /\ routes[i].path = q.path}
SamePath(routes, q) == {i \in DOMAIN routes : routes[i].path = q.path}
First(S) == CHOOSE i \in S : \A j \in S : i <= j

\* Reference: what one look at the routes would answer.  The route registered first wins.
Right(routes, q) ==
  LET ids == {routes[i].handler : i \in Matches(routes, q)}
  IN  IF ids # {} THEN Served(First(ids))
      ELSE IF SamePath(routes, q) # {} THEN NotAllowed ELSE NotFound

InCall(c) == call[c].at \in {"entered", "handling", "missed"}

\* The edit is in force at once for every call under way.
Edited == /\ edits' = edits + 1
          /\ due' = [c \in Callers |-> IF InCall(c) THEN due[c] \cup {Right(routes_', call[c].request)}
                                       ELSE due[c]]
          /\ UNCHANGED call

\* How a full vector grows.
Grown(n) == IF n = 0 THEN 1 ELSE 2 * n

\* Variant: the new route is put before the others.
AddRouteInFront(m, p) ==
  /\ edits < MaxEdits
  /\ routes_' = <<[method |-> m, path |-> p, handler |-> edits + 1]>> \o routes_
  /\ IF Len(routes_) < capacity THEN UNCHANGED <<capacity, storage>>
     ELSE capacity' = Grown(capacity) /\ storage' = edits + 1
  /\ Edited

\* push_back() moves every route when the vector is full.
AddRoute(m, p) ==
  /\ edits < MaxEdits
  /\ routes_' = Append(routes_, [method |-> m, path |-> p, handler |-> edits + 1])
  /\ IF Len(routes_) < capacity THEN UNCHANGED <<capacity, storage>>
     ELSE capacity' = Grown(capacity) /\ storage' = edits + 1
  /\ Edited

Clear == /\ edits < MaxEdits
         /\ routes_' = <<>>
         /\ storage' = edits + 1
         /\ Edited
         /\ UNCHANGED capacity

-----------------------------------------------------------------------------
(* route().                                                                *)

CallGoes(c, a, state) == /\ call[c].at = a
                         /\ call' = [call EXCEPT ![c] = state]
                         /\ UNCHANGED <<routes_, capacity, edits, storage>>

Enter(c, q) == /\ CallGoes(c, "idle", [Idle EXCEPT !.at = "entered", !.request = q])
               /\ due' = [due EXCEPT ![c] = {Right(routes_, q)}]

\* Variant: the route registered last wins.
FindLastRoute(c) ==
  LET found == Matches(routes_, call[c].request)
      last  == CHOOSE i \in found : \A j \in found : i >= j
  IN  /\ CallGoes(c, "entered",
             IF found = {} THEN [call[c] EXCEPT !.at = "missed"]
             ELSE [call[c] EXCEPT !.at = "handling", !.storage = storage,
                                  !.handler = routes_[last].handler])
      /\ UNCHANGED due

FindRoute(c) ==
  LET found == Matches(routes_, call[c].request)
  IN  /\ CallGoes(c, "entered",
             IF found = {} THEN [call[c] EXCEPT !.at = "missed"]
             ELSE [call[c] EXCEPT !.at = "handling", !.storage = storage,
                                  !.handler = routes_[First(found)].handler])
      /\ UNCHANGED due

\* No route of the request's method was there: the second look is for its path only.
LookForPath(c) ==
  LET answer == IF SamePath(routes_, call[c].request) # {} THEN NotAllowed ELSE NotFound
  IN  /\ CallGoes(c, "missed", [call[c] EXCEPT !.at = "answered", !.answer = answer,
                                    !.response = Factory(answer.status, 1)])
      /\ UNCHANGED due

\* The statements a handler builds its response with: a constructor or a factory first.
\* Left out are set_status(), which touches no header, and what a handler may do through the
\* reference headers() gives it: set() is set_header(), and clear() has no like here.
Starts == [op : {"default", "construct"}, value : {0}] \cup [op : {"factory"}, value : 0..MaxBody]
Steps  == [op : {"body", "keep"} \cup Names, value : 0..MaxBody]

Apply(r, s) == CASE s.op = "default"   -> Default
                 [] s.op = "construct" -> New(200)
                 [] s.op = "factory"   -> Factory(200, s.value)
                 [] s.op = "body"      -> SetBody(r, s.value)
                 [] s.op = "keep"      -> SetKeepAlive(r, s.value # 0)
                 [] OTHER              -> SetHeader(r, Header(s.op, s.value))

Build(c, s) == /\ CallGoes(c, "handling", [call[c] EXCEPT !.steps = Append(@, s),
                                               !.response = Apply(@, s)])
               /\ Len(call[c].steps) < MaxCalls
               /\ s \in IF call[c].steps = <<>> THEN Starts ELSE Steps
               /\ UNCHANGED due

Valid(c) == call[c].storage = storage

HandlerReturns(c) ==
  /\ Valid(c)
  /\ call[c].steps # <<>>
  /\ CallGoes(c, "handling", [call[c] EXCEPT !.at = "answered", !.answer = Served(call[c].handler)])
  /\ UNCHANGED due

\* The route was moved or destroyed while it was being used: what comes back is what any
\* handler could have answered.
StaleHandlerReturns(c, k) ==
  /\ ~Valid(c)
  /\ CallGoes(c, "handling", [call[c] EXCEPT !.at = "answered", !.answer = Served(k), !.moved = TRUE,
                                  !.steps = <<>>, !.response = Factory(200, 1)])
  /\ UNCHANGED due

\* Or nothing comes back, and the program ends.
StaleHandlerCrashes(c) == /\ ~Valid(c)
                          /\ CallGoes(c, "handling", [Idle EXCEPT !.at = "crashed"])
                          /\ UNCHANGED due

HandlerThrows(c) == /\ CallGoes(c, "handling", Idle)
                    /\ due' = [due EXCEPT ![c] = {}]

\* Connection::send_response() serializes the response, and the next request comes.
Send(c) == /\ CallGoes(c, "answered", Idle)
           /\ due' = [due EXCEPT ![c] = {}]

-----------------------------------------------------------------------------

Running == \A c \in Callers : call[c].at # "crashed"

Next == \/ Running /\ \E m \in Methods, p \in Paths : AddRoute(m, p)
        \/ Running /\ Clear
        \/ /\ Running
           /\ \E c \in Callers : \/ \E q \in Requests : Enter(c, q)
                                 \/ FindRoute(c) \/ LookForPath(c)
                                 \/ \E s \in Starts \cup Steps : Build(c, s)
                                 \/ HandlerReturns(c) \/ HandlerThrows(c)
                                 \/ \E k \in 1..edits : StaleHandlerReturns(c, k)
                                 \/ StaleHandlerCrashes(c)
                                 \/ Send(c)
        \/ ~Running /\ UNCHANGED vars

Spec == Init /\ [][Next]_vars

-----------------------------------------------------------------------------
(* Properties.                                                             *)

\* The types.  The routes fit their storage, are in the order of registration, and only
\* what lives in the storage is used as long as it does not move.
TypeOK ==
  /\ routes_ \in Seq([method : Methods, path : Paths, handler : 1..edits])
  /\ edits \in 0..MaxEdits /\ storage \in 0..edits
  /\ Len(routes_) <= capacity
  /\ \A i, j \in DOMAIN routes_ : i < j => routes_[i].handler < routes_[j].handler
  /\ \A c \in Callers :
       /\ call[c].at \in {"idle", "entered", "handling", "missed", "answered", "crashed"}
       /\ call[c].request \in Requests \cup {NoRequest}
       /\ call[c].at = "handling" /\ Valid(c) =>
            \E i \in Matches(routes_, call[c].request) : routes_[i].handler = call[c].handler

(***************************************************************************)
(* Whatever is registered or cleared during a call of route(), its answer  *)
(* is one that a single look at the routes gives at some moment of the     *)
(* call, with two exceptions, both of a call that an edit overtook:        *)
(* 405 where first no route had the request's path and then its own route  *)
(* was added between the two looks; and whatever comes of a route that was *)
(* moved or destroyed in use.  So a call during which the right answer     *)
(* does not change, and the storage does not move, is answered right, and  *)
(* an add_route() that finds room disturbs nobody.                         *)
(***************************************************************************)
UndueAnswersAreRaces ==
  \A c \in Callers : call[c].at = "answered" =>
    \/ call[c].answer \in due[c]
    \/ call[c].moved
    \/ /\ call[c].answer = NotAllowed
       /\ NotFound \in due[c]
       /\ \E k \in 1..edits : Served(k) \in due[c]

\* The places of a name among the header fields on the wire.
Fields(wire, name) == {i \in DOMAIN wire : wire[i].name = name}

\* A response on the wire has one Content-Length, one Connection and one Content-Type
\* field, whichever of them its handler set, and however often.
FramedOnce == \A c \in Callers : call[c].at = "answered" =>
                LET wire == Serialize(call[c].response)
                IN  \A name \in Written : \E i \in DOMAIN wire : Fields(wire, name) = {i}

(***************************************************************************)
(* The Content-Length on the wire is the size of the body that follows it, *)
(* unless the handler set the field itself, or replaced the body of a      *)
(* factory, which has set the field from the first body.                   *)
(***************************************************************************)
LengthIsBody ==
  \A c \in Callers : call[c].at = "answered" =>
    LET wire  == Serialize(call[c].response)
        steps == call[c].steps
        Does(op) == {i \in DOMAIN steps : steps[i].op = op}
    IN  \/ \A i \in Fields(wire, "content-length") : wire[i].value = call[c].response.body
        \/ Does("content-length") # {}
        \/ Does("factory") # {} /\ Does("body") # {}

=============================================================================
