------------------------------- MODULE ApiServer -------------------------------
(***************************************************************************)
(* The process of cmd/api: its start from the environment, the listener,   *)
(* the middleware around every request, the pool of connections, and the   *)
(* shutdown with its limit.                                                *)
(*                                                                         *)
(* What the handlers do to the tables is UserRequests and Authentication.  *)
(* Here a handler is the calls it makes of the store: each takes one       *)
(* connection of the pool for a statement or a transaction and gives it    *)
(* back, whatever becomes of it.                                           *)
(***************************************************************************)
EXTENDS Integers, SequencesExt

CONSTANTS
  Clients,       \* connections of clients; one request at a time on each
  Requests,      \* the requests they send
  MaxConns,      \* connections the pool opens at most
  MaxCalls,      \* bound: calls of the store in a request
  Environments,  \* what the process may be started with
  Unset, BlankText, NotANumber,  \* a variable that is not there, and two bad values
  Word, Second   \* time.Duration is nanoseconds modulo Word, Second of them a second

Setting == Nat \cup {Unset, BlankText, NotANumber}
Codes == {200, 401, 404, 500}
\* What RequestLogger writes has the status in it, what Recovery writes has not.
RequestLine(code) == [kind |-> "request", status |-> code]
PanicLine == [kind |-> "panic"]
LogLine == {RequestLine(code) : code \in Codes} \cup {PanicLine}
Paths == {"health", "docs", "unknown", "login", "users"}

ASSUME ServerAssumption ==
  /\ IsFiniteSet(Clients)
  /\ Requests \subseteq [path : Paths, token : BOOLEAN]
  /\ MaxConns \in Nat \ {0} /\ MaxCalls \in Nat
  /\ Word \in Nat \ {0} /\ Second \in Nat \ {0}
  /\ {Unset, BlankText, NotANumber} \cap Nat = {}
\* A setting is looked up in the process and then in the lines of .env; "logLevel"
\* is the text this gives for LOG_LEVEL; "others" says that the settings without a
\* part here are such that Load accepts them.
ASSUME EnvironmentAssumption ==
  Environments \subseteq [process : [{"limit", "expiry"} -> Setting],
                          file : [{"limit", "expiry"} -> Seq(Setting)],
                          logLevel : STRING, others : BOOLEAN]

VARIABLES
  main,      \* the next step of run()
  result,    \* what it is to return, and how the process ended
  limit,     \* cfg.ShutdownTimeout
  level,     \* what the logger keeps: that level and above
  stop,      \* the channel of signals holds one
  expired,   \* the context of Shutdown is done
  listener,  \* the goroutine in ListenAndServe
  pool,      \* the pool is there, or Close was called
  inUse,     \* connections of the pool that are given out
  queue,     \* handlers waiting for a connection
  stage,     \* how far the request of each client is
  req,       \* that request
  calls,     \* calls of the store it may still make
  status,    \* the status it is answered with
  lines      \* what was logged about it

process == <<main, result, limit, level, stop, expired, listener>>
requests == <<stage, req, calls, status, lines>>
vars == <<process, pool, inUse, queue, requests>>

-----------------------------------------------------------------------------
(* Settings.                                                               *)

\* loadEnvFile does not touch a variable that is set, be it to nothing, so of
\* two lines of the file the first one counts.
Loaded(env, key) ==
  IF env.process[key] # Unset \/ env.file[key] = <<>> THEN env.process[key]
  ELSE Head(env.file[key])

GetEnv(env, key, fallback) ==
  IF Loaded(env, key) \in {Unset, BlankText} THEN fallback ELSE Loaded(env, key)

\* time.Duration(seconds) * time.Second, in the two's complement of a word.
Duration(seconds) == ((seconds * Second + Word \div 2) % Word) - (Word \div 2)

LimitSeconds(env) == GetEnv(env, "limit", 1)
ExpirySeconds(env) == GetEnv(env, "expiry", 2)

\* A text that is no number ends durationSeconds; validate looks at the product.
Refused(env) ==
  \/ ~env.others
  \/ NotANumber \in {LimitSeconds(env), ExpirySeconds(env)}
  \/ Duration(ExpirySeconds(env)) <= 0

\* newLogger: a text it does not know, in lower case, is info.
Level(text) ==
  CASE text = "debug" -> "debug"
    [] text \in {"warn", "warning"} -> "warn"
    [] text = "error" -> "error"
    [] OTHER -> "info"

-----------------------------------------------------------------------------
(* Shorthands.                                                             *)

NoRequest == [path |-> "unknown", token |-> FALSE]

\* What is answered without a handler of the API, or 0.
RouterAnswer(r) ==
  CASE r.path = "unknown" -> 404
    [] r.path \in {"health", "docs"} -> 200
    [] r.path = "users" /\ ~r.token -> 401
    [] OTHER -> 0

Busy(c) == stage[c] \notin {"closed", "idle"}
Holding(c) == stage[c] \in {"querying", "hung"}
Holders == {c \in Clients : Holding(c)}
Hung == {c \in Clients : stage[c] = "hung"}

Exited == main = "exited"
\* Shutdown has been called: no keep-alive, no new connection.
ShuttingDown == listener = "closed"

InfoKept == level \in {"debug", "info"}

Stage(c, s) == stage' = [stage EXCEPT ![c] = s]
\* After its answer a handler makes no more calls.
Reply(c, s, code) ==
  Stage(c, s) /\ status' = [status EXCEPT ![c] = code] /\ calls' = [calls EXCEPT ![c] = 0]
Respond(c, code) == Reply(c, "answered", code)

\* A call of the store failed: 500, but a login goes on when its record failed.
Fail(c) == Respond(c, 500) \/ (req[c].path = "login" /\ Respond(c, 200))

\* run() returns, and the deferred pool.Close begins: from now on nobody gets a
\* connection.
Returning(value) == main' = "closing" /\ result' = value /\ pool' = "closed"

Init ==
  /\ main = "load" /\ result = "none"
  /\ limit = 0 /\ level = "info" /\ stop = FALSE /\ expired = FALSE /\ listener = "off"
  /\ pool = "none" /\ inUse = 0 /\ queue = <<>>
  /\ stage = [c \in Clients |-> "closed"]
  /\ req = [c \in Clients |-> NoRequest]
  /\ calls = [c \in Clients |-> 0]
  /\ status = [c \in Clients |-> 0]
  /\ lines = [c \in Clients |-> <<>>]

\* os.Exit or the end of main(), whatever the other goroutines do.
Exit(value) ==
  /\ main' = "exited" /\ result' = value
  /\ limit' = 0 /\ level' = "info" /\ stop' = FALSE /\ expired' = FALSE /\ listener' = "off"
  /\ pool' = "none" /\ inUse' = 0 /\ queue' = <<>>
  /\ stage' = [c \in Clients |-> "closed"]
  /\ req' = [c \in Clients |-> NoRequest]
  /\ calls' = [c \in Clients |-> 0]
  /\ status' = [c \in Clients |-> 0]
  /\ lines' = [c \in Clients |-> <<>>]

-----------------------------------------------------------------------------
(* The goroutine of main.                                                  *)

\* config.Load.
Load ==
  /\ main = "load"
  /\ \E env \in Environments :
       IF Refused(env) THEN Exit("fatal")
       ELSE /\ main' = "connect" /\ limit' = Duration(LimitSeconds(env))
            /\ level' = Level(env.logLevel)
            /\ UNCHANGED <<result, stop, expired, listener, pool, inUse, queue, requests>>

\* database.NewPool with its ping, which closes the pool when it fails;
\* NewTokenManager asks nothing that validate did not.
Connect ==
  /\ main = "connect"
  /\ \/ /\ main' = "start" /\ pool' = "open"
        /\ UNCHANGED <<result, limit, level, stop, expired, listener, inUse, queue, requests>>
     \/ Exit("fatal")

\* go func ... ListenAndServe, signal.Notify.
Start ==
  /\ main = "start"
  /\ main' = "select" /\ listener' = "starting"
  /\ UNCHANGED <<result, limit, level, stop, expired, pool, inUse, queue, requests>>

\* A signal: the listeners close and the limit begins, of which nothing is left
\* when it is not positive.
BeginShutdown ==
  /\ main = "select" /\ stop
  /\ main' = "shutdown" /\ stop' = FALSE /\ listener' = "closed"
  /\ expired' = (limit <= 0)
  /\ UNCHANGED <<result, limit, level, pool, inUse, queue, requests>>

\* Mistake: the error of the listener is logged, and run() returns nil.
ServerFailedQuietly ==
  /\ main = "select" /\ listener = "failed"
  /\ Returning("ok")
  /\ UNCHANGED <<limit, level, stop, expired, listener, inUse, queue, requests>>

\* An error of the listener ends run() without a shutdown.
ServerFailed ==
  /\ main = "select" /\ listener = "failed"
  /\ Returning("fatal")
  /\ UNCHANGED <<limit, level, stop, expired, listener, inUse, queue, requests>>

\* Mistake: server.Close, which waits for nobody.
ShutdownAtOnce ==
  /\ main \in {"shutdown", "drain"}
  /\ Returning("ok")
  /\ UNCHANGED <<limit, level, stop, expired, listener, inUse, queue, requests>>

\* A round of Shutdown closes what is idle and returns when nothing else is left.
ShutdownRound ==
  /\ main \in {"shutdown", "drain"}
  /\ stage' = [c \in Clients |-> IF Busy(c) THEN stage[c] ELSE "closed"]
  /\ IF \A c \in Clients : ~Busy(c) THEN Returning("ok")
     ELSE main' = "drain" /\ UNCHANGED <<result, pool>>
  /\ UNCHANGED <<limit, level, stop, expired, listener, inUse, queue,
                 req, calls, status, lines>>

\* The limit passes.
Expire ==
  /\ main \in {"shutdown", "drain"} /\ ~expired
  /\ expired' = TRUE
  /\ UNCHANGED <<main, result, limit, level, stop, listener, pool, inUse, queue, requests>>

\* Mistake: the error of Shutdown is dropped.
GiveUpQuietly ==
  /\ main = "drain" /\ expired
  /\ Returning("ok")
  /\ UNCHANGED <<limit, level, stop, expired, listener, inUse, queue, requests>>

\* Shutdown finds its context done between two rounds.
GiveUp ==
  /\ main = "drain" /\ expired
  /\ Returning("fatal")
  /\ UNCHANGED <<limit, level, stop, expired, listener, inUse, queue, requests>>

\* pool.Close has waited for the connections that were out.
Return == main = "closing" /\ inUse = 0 /\ Exit(result)

-----------------------------------------------------------------------------
(* The listener and what comes from outside.                               *)

\* The address is taken, or the listener is up; it may break down later.
Listen ==
  /\ listener = "starting" /\ ~Exited
  /\ listener' \in {"on", "failed"}
  /\ UNCHANGED <<main, result, limit, level, stop, expired, pool, inUse, queue, requests>>

AcceptFails ==
  /\ listener = "on" /\ ~Exited
  /\ listener' = "failed"
  /\ UNCHANGED <<main, result, limit, level, stop, expired, pool, inUse, queue, requests>>

\* SIGINT or SIGTERM after signal.Notify; the channel holds one, and what it gets
\* after the select is never read.
Signal ==
  /\ main = "select" /\ ~stop
  /\ stop' = TRUE
  /\ UNCHANGED <<main, result, limit, level, expired, listener, pool, inUse, queue, requests>>

\* The process dies: of a signal before signal.Notify, or of anything else.
Kill == ~Exited /\ Exit("killed")

\* It is started again.
Restart ==
  /\ Exited
  /\ main' = "load" /\ result' = "none"
  /\ UNCHANGED <<limit, level, stop, expired, listener, pool, inUse, queue, requests>>

-----------------------------------------------------------------------------
(* Requests.                                                               *)

\* Mistake: the probe asks the database.
ReceivePinging(c, r) ==
  /\ stage[c] = "idle" \/ (stage[c] = "closed" /\ listener = "on")
  /\ ~Exited
  /\ req' = [req EXCEPT ![c] = r]
  /\ IF RouterAnswer(r) \notin {0, 200} THEN Respond(c, RouterAnswer(r))
     ELSE /\ Stage(c, "handling") /\ UNCHANGED status
          /\ calls' = [calls EXCEPT ![c] = MaxCalls]
  /\ UNCHANGED <<process, pool, inUse, queue, lines>>

\* A request on a new connection or on one that is kept alive.  RequestID,
\* Recovery and RequestLogger are entered with it; the router and RequireAuth
\* answer it, or a handler starts.
Receive(c, r) ==
  /\ stage[c] = "idle" \/ (stage[c] = "closed" /\ listener = "on")
  /\ ~Exited
  /\ req' = [req EXCEPT ![c] = r]
  /\ IF RouterAnswer(r) # 0 THEN Respond(c, RouterAnswer(r))
     ELSE /\ Stage(c, "handling") /\ UNCHANGED status
          /\ calls' = [calls EXCEPT ![c] = MaxCalls]
  /\ UNCHANGED <<process, pool, inUse, queue, lines>>

\* The handler calls the store, which asks the pool for a connection.
Ask(c) ==
  /\ stage[c] = "handling" /\ calls[c] > 0 /\ ~Exited
  /\ Stage(c, "waiting")
  /\ queue' = Append(queue, c)
  /\ calls' = [calls EXCEPT ![c] = @ - 1]
  /\ UNCHANGED <<process, pool, inUse, req, status, lines>>

\* The pool serves them in their order, up to its size; once closed it gives an
\* error.
Acquire(c) ==
  /\ stage[c] = "waiting" /\ queue # <<>> /\ Head(queue) = c /\ ~Exited
  /\ inUse < MaxConns
  /\ queue' = Tail(queue)
  /\ IF pool = "closed" THEN Fail(c) /\ UNCHANGED inUse
     ELSE Stage(c, "querying") /\ inUse' = inUse + 1 /\ UNCHANGED <<calls, status>>
  /\ UNCHANGED <<process, pool, req, lines>>

\* Mistake: rows are not closed, and their connection is never given back.
ReturnNothing(c) ==
  /\ stage[c] = "querying" /\ ~Exited
  /\ Stage(c, "handling")
  /\ UNCHANGED <<process, pool, inUse, queue, req, calls, status, lines>>

\* The call ends, with a commit or a rollback.
ReturnConnection(c) ==
  /\ stage[c] = "querying" /\ ~Exited
  /\ Stage(c, "handling")
  /\ inUse' = inUse - 1
  /\ UNCHANGED <<process, pool, queue, req, calls, status, lines>>

\* The call fails, or its client is gone and its context done.  Only a login goes
\* on, when it is its last call, the record, that failed.
CallFails(c) ==
  /\ ~Exited
  /\ \/ Holding(c) /\ inUse' = inUse - 1 /\ UNCHANGED queue
     \/ /\ stage[c] = "waiting" /\ UNCHANGED inUse
        /\ \E i \in DOMAIN queue : queue[i] = c /\ queue' = RemoveAt(queue, i)
  /\ Fail(c)
  /\ UNCHANGED <<process, pool, req, lines>>

\* The database does not answer any more, and the client waits on: the call can
\* only fail, and the handler makes no other.
Hang(c) ==
  /\ stage[c] = "querying" /\ ~Exited
  /\ Stage(c, "hung")
  /\ calls' = [calls EXCEPT ![c] = 0]
  /\ UNCHANGED <<process, pool, inUse, queue, req, status, lines>>

\* The handler has what it needs, or refuses, after any of its calls: 200 stands
\* for all it may say then.
Answer(c) ==
  /\ stage[c] = "handling" /\ ~Exited
  /\ Respond(c, 200)
  /\ UNCHANGED <<process, pool, inUse, queue, req, lines>>

\* RequestLogger, after c.Next(): a line of level info.
Log(c) ==
  /\ stage[c] = "answered" /\ ~Exited
  /\ Stage(c, "logged")
  /\ lines' = [lines EXCEPT ![c] =
                  IF InfoKept THEN Append(@, RequestLine(status[c])) ELSE @]
  /\ UNCHANGED <<process, pool, inUse, queue, req, calls, status>>

\* Mistake: Recovery inside of RequestLogger.
PanicLoggedTwice(c) ==
  /\ stage[c] \in {"handling", "querying"} /\ ~Exited
  /\ inUse' = IF Holding(c) THEN inUse - 1 ELSE inUse
  /\ Respond(c, 500)
  /\ lines' = [lines EXCEPT ![c] = Append(@, PanicLine)]
  /\ UNCHANGED <<process, pool, queue, req>>

\* Mistake: the connection is given back by the statement after the call.
PanicKeepsConnection(c) ==
  /\ stage[c] \in {"handling", "querying"} /\ ~Exited
  /\ Reply(c, "recovered", 500)
  /\ lines' = [lines EXCEPT ![c] = Append(@, PanicLine)]
  /\ UNCHANGED <<process, pool, inUse, queue, req>>

\* The handler panics: the deferred calls give the connection back, the rest of
\* RequestLogger is skipped, Recovery logs at level error, without a status, and
\* answers.
Panic(c) ==
  /\ stage[c] \in {"handling", "querying"} /\ ~Exited
  /\ inUse' = IF Holding(c) THEN inUse - 1 ELSE inUse
  /\ Reply(c, "recovered", 500)
  /\ lines' = [lines EXCEPT ![c] = Append(@, PanicLine)]
  /\ UNCHANGED <<process, pool, queue, req>>

\* The response is out; the connection is kept alive, or closed by either side.
Finish(c) ==
  /\ stage[c] \in {"logged", "recovered"} /\ ~Exited
  /\ \E s \in IF ShuttingDown THEN {"closed"} ELSE {"idle", "closed"} : Stage(c, s)
  /\ req' = [req EXCEPT ![c] = NoRequest]
  /\ status' = [status EXCEPT ![c] = 0]
  /\ lines' = [lines EXCEPT ![c] = <<>>]
  /\ UNCHANGED <<process, pool, inUse, queue, calls>>

-----------------------------------------------------------------------------

MainStep ==
  Load \/ Connect \/ Start \/ BeginShutdown \/ ServerFailed
  \/ ShutdownRound \/ Expire \/ GiveUp \/ Return

HandlerStep(c) ==
  Ask(c) \/ Acquire(c) \/ ReturnConnection(c) \/ Answer(c) \/ Log(c) \/ Finish(c)

Next ==
  \/ MainStep \/ Listen \/ AcceptFails \/ Signal \/ Kill \/ Restart
  \/ \E c \in Clients :
       \/ \E r \in Requests : Receive(c, r)
       \/ HandlerStep(c) \/ CallFails(c) \/ Hang(c) \/ Panic(c)

Spec == Init /\ [][Next]_vars

\* The scheduler runs every goroutine that can go on, time passes, and the
\* database answers what is not hung.  Nothing is assumed of clients, signals,
\* failures and panics, or of a statement that hangs.
Fairness == WF_vars(MainStep) /\ \A c \in Clients : WF_vars(HandlerStep(c))
FairSpec == Spec /\ Fairness

-----------------------------------------------------------------------------
(* What is to be true.                                                     *)

\* The shape of the state; among it that no more than MaxConns connections are
\* given out.
ProcessType ==
  /\ main \in {"load", "connect", "start", "select", "shutdown", "drain",
               "closing", "exited"}
  /\ result \in {"none", "ok", "fatal", "killed"}
  /\ limit \in Int
  /\ level \in {"debug", "info", "warn", "error"}
  /\ stop \in BOOLEAN /\ expired \in BOOLEAN
  /\ listener \in {"off", "starting", "on", "failed", "closed"}
  /\ pool \in {"none", "open", "closed"}

RequestType ==
  /\ inUse \in 0 .. MaxConns
  /\ queue \in Seq(Clients)
  /\ stage \in [Clients -> {"closed", "idle", "handling", "waiting",
                            "querying", "hung", "answered", "logged", "recovered"}]
  /\ req \in [Clients -> Requests \cup {NoRequest}]
  /\ calls \in [Clients -> 0 .. MaxCalls]
  /\ status \in [Clients -> {0} \cup Codes]
  /\ lines \in [Clients -> Seq(LogLine)]

TypeOK == ProcessType /\ RequestType

\* The pool is closed under a request only when the limit of the shutdown has
\* passed (a setting that overflows leaves none) or the listener broke down.
NotCutShort ==
  pool = "closed" => expired \/ listener = "failed" \/ \A c \in Clients : ~Busy(c)

\* "server stopped cleanly" and exit status 0 mean that every request that was
\* received has been answered and logged.
CleanExit == result = "ok" => \A c \in Clients : ~Busy(c)

\* Each connection that is out is at work for a call that has not ended: failures,
\* panics and clients that left have given theirs back.
ConnectionsComeBack == inUse = Cardinality(Holders)

\* What a request leaves in the log: RequestLogger's line, with the status that was
\* answered, whoever answered it, unless LOG_LEVEL is above info; of one that
\* panicked, Recovery's line and no other, and so nowhere the 500 it was answered.
LogTellsAnswers ==
  \A c \in Clients :
    /\ stage[c] = "logged" => lines[c] = IF InfoKept THEN <<RequestLine(status[c])>> ELSE <<>>
    /\ stage[c] = "recovered" => status[c] = 500 /\ lines[c] = <<PanicLine>>

\* Every request ends: what asks nothing of the database always, and the others
\* unless their own statement hangs, or a statement hangs on every connection while
\* they wait for one.
RequestsEnd ==
  \A c \in Clients :
    Busy(c) ~> \/ ~Busy(c) \/ Exited
               \/ /\ RouterAnswer(req[c]) = 0
                  /\ \/ stage[c] = "hung"
                     \/ stage[c] = "waiting" /\ Cardinality(Hung) = MaxConns

\* After a signal the process ends, unless a statement hangs for good: pool.Close
\* waits for it without a limit.
StopsWhenAsked == ([]<>(Hung = {})) => (stop ~> Exited)
=============================================================================
