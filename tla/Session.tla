------------------------------ MODULE Session ------------------------------
(***************************************************************************)
(* What Connection::run() promises of one connection, seen from the        *)
(* handler and the client, without bytes, buffers or a parser: requests    *)
(* are taken up one at a time, the next only when the one before is        *)
(* answered and left the connection open; a request taken up is answered   *)
(* unless the connection ends; and one that closes it is the last.         *)
(***************************************************************************)
EXTENDS Naturals, Sequences

CONSTANT Lasting      \* does the server keep connections at all?

VARIABLES served,       \* the requests given to the handler
          answered,     \* how many of them were answered
          over          \* has the connection ended?

vars == <<served, answered, over>>

Init == /\ served = <<>>
        /\ answered = 0
        /\ over = FALSE

\* Does what was served last leave the connection open?
Continues == served # <<>> => served[Len(served)].keep /\ Lasting

-----------------------------------------------------------------------------

\* Any request may come.  A handler that throws ends the connection with the request it
\* was given.
Serve == /\ ~over
         /\ answered = Len(served)
         /\ Continues
         /\ Len(served') = Len(served) + 1
         /\ SubSeq(served', 1, Len(served)) = served
         /\ over' \in BOOLEAN
         /\ UNCHANGED answered

Answer == /\ ~over
          /\ answered + 1 = Len(served)
          /\ answered' = answered + 1
          /\ UNCHANGED <<served, over>>

\* The client has gone, what it sent is refused, or the last response closes.
End == /\ ~over
       /\ over' = TRUE
       /\ UNCHANGED <<served, answered>>

Next == Serve \/ Answer \/ End

SafeSpec == Init /\ [][Next]_vars

\* A request in hand is answered or given up, and a closed session ends; an open one may
\* wait for ever for the client's next request.
Spec == /\ SafeSpec
        /\ WF_vars(answered # Len(served) /\ (Answer \/ End))
        /\ WF_vars(~Continues /\ (Answer \/ End))

=============================================================================
