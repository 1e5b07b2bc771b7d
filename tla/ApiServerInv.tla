------------------------------ MODULE ApiServerInv ------------------------------
(***************************************************************************)
(* The inductive invariant behind the theorems about ApiServer.            *)
(***************************************************************************)
EXTENDS ApiServer

AllClosed == \A c \in Clients : stage[c] = "closed"

\* What each step of run() says of the rest of the process.
MainReady ==
  /\ main \in {"load", "connect", "start", "exited"} =>
       listener = "off" /\ pool # "closed" /\ AllClosed
  /\ main \in {"select", "shutdown", "drain"} => pool # "closed" /\ result = "none"
  /\ main \in {"load", "connect", "start"} => result = "none"
  /\ main \in {"shutdown", "drain"} => listener = "closed"
  /\ main = "closing" => result \in {"ok", "fatal"} /\ pool = "closed"
  /\ main = "closing" =>
       \/ listener = "closed" /\ AllClosed
       \/ result = "fatal" /\ (expired \/ listener = "failed")

\* What a request has left so far.
LinesSoFar(c) ==
  /\ stage[c] \notin {"logged", "recovered"} => lines[c] = <<>>
  /\ stage[c] = "answered" => status[c] # 0
  /\ stage[c] = "logged" => lines[c] = IF InfoKept THEN <<RequestLine(status[c])>> ELSE <<>>
  /\ stage[c] = "recovered" => status[c] = 500 /\ lines[c] = <<PanicLine>>

\* Each client that waits for a connection is in the queue, once, and nobody else.
Queued ==
  /\ IsInjective(queue)
  /\ Range(queue) = {c \in Clients : stage[c] = "waiting"}

\* What the steps of run() and the stages of the requests imply.
RunInv ==
  /\ TypeOK
  /\ MainReady
  /\ ConnectionsComeBack
  /\ \A c \in Clients : LinesSoFar(c)

\* The inductive invariant.
ServerInv == RunInv /\ Queued

\* The pool keeps nobody waiting for nothing: who waits does so for a call that has
\* a connection, or is behind a client that waits, too, and can have one now.
PoolServes ==
  \A c \in Clients : stage[c] = "waiting" =>
    \/ Holders # {}
    \/ inUse < MaxConns /\ stage[Head(queue)] = "waiting"

\* The steps a request can still take, up to its end.
StepsLeft(c) ==
  CASE stage[c] = "waiting" -> 3 * calls[c] + 5
    [] stage[c] = "querying" -> 3 * calls[c] + 4
    [] stage[c] = "handling" -> 3 * calls[c] + 3
    [] stage[c] = "hung" -> 3
    [] stage[c] = "answered" -> 2
    [] stage[c] \in {"logged", "recovered"} -> 1
    [] OTHER -> 0

\* A step of a request, a failure or a panic brings it nearer to its end, and no
\* step of main or of another request takes it back.
StepsAdvance ==
  [][\A c \in Clients : Busy(c) =>
       StepsLeft(c)' < StepsLeft(c) \/ UNCHANGED <<stage[c], calls[c]>>]_vars

\* A closed pool gives no connection out: what pool.Close waits for gets no more.
PoolDrains == [][pool = "closed" => inUse' <= inUse]_vars
=============================================================================
