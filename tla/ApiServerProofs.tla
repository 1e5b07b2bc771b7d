---------------------------- MODULE ApiServerProofs ----------------------------
(***************************************************************************)
(* Theorems about ApiServer, for any numbers of clients, connections and   *)
(* calls, any settings and any width of a duration.                        *)
(***************************************************************************)
EXTENDS ApiServerInv, FiniteSetTheorems, SequenceTheorems, TLAPS

-----------------------------------------------------------------------------
(* Facts about the data.                                                   *)

LEMMA Sizes ==
  /\ MaxConns \in Nat \ {0} /\ MaxCalls \in Nat
  /\ 0 \in 0 .. MaxCalls /\ MaxCalls \in 0 .. MaxCalls
  /\ 200 \in Codes /\ 500 \in Codes
BY ServerAssumption DEF Codes

\* A product of the settings is an integer of the word.
LEMMA DurationType ==
  ASSUME NEW n \in Nat
  PROVE  Duration(n) \in Int
<1>1. Word \in Nat /\ Word > 0 /\ Second \in Nat BY ServerAssumption
<1>2. Word \div 2 \in Nat BY <1>1
<1>3. n * Second \in Nat BY <1>1
<1>. DEFINE x == n * Second + Word \div 2
<1>4. x \in Nat BY <1>2, <1>3
<1>5. x % Word \in Int BY <1>1, <1>4
<1>. QED BY <1>2, <1>5 DEF Duration

\* What Load accepts is a number of seconds.
LEMMA AcceptedLimit ==
  ASSUME NEW env \in Environments, ~Refused(env)
  PROVE  LimitSeconds(env) \in Nat
<1>1. /\ env.process["limit"] \in Setting
      /\ env.file["limit"] \in Seq(Setting)
  BY EnvironmentAssumption
<1>2. Loaded(env, "limit") \in Setting
  BY <1>1, HeadTailProperties DEF Loaded
<1>3. LimitSeconds(env) # NotANumber BY DEF Refused
<1>. QED BY <1>2, <1>3 DEF LimitSeconds, GetEnv, Setting

LEMMA LevelType ==
  ASSUME NEW text \in STRING
  PROVE  Level(text) \in {"debug", "info", "warn", "error"}
BY Zenon DEF Level

\* A queue stays one when a handler leaves it from anywhere.
LEMMA RemoveAtType ==
  ASSUME NEW S, NEW s \in Seq(S), NEW i \in DOMAIN s
  PROVE  RemoveAt(s, i) \in Seq(S)
<1>1. DOMAIN s = 1 .. Len(s) /\ Len(s) \in Nat BY LenProperties
<1>2. SubSeq(s, 1, i - 1) \in Seq(S)
  <2>1. \A j \in 1 .. i - 1 : s[j] \in S BY <1>1, ElementOfSeq
  <2>. QED BY <1>1, <2>1, SubSeqProperties
<1>3. SubSeq(s, i + 1, Len(s)) \in Seq(S)
  <2>1. \A j \in i + 1 .. Len(s) : s[j] \in S BY <1>1, ElementOfSeq
  <2>. QED BY <1>1, <2>1, SubSeqProperties
<1>. QED BY <1>2, <1>3, ConcatProperties DEF RemoveAt

\* The holders of connections can be counted.
LEMMA HoldersFinite == IsFiniteSet(Holders)
BY ServerAssumption, FS_Subset DEF Holders

\* What the router answers by itself is a status.
LEMMA RouterAnswerType ==
  ASSUME NEW r \in Requests
  PROVE  RouterAnswer(r) \in {0} \cup Codes
<1>1. r.path \in Paths BY ServerAssumption
<1>2. CASE r.path = "unknown" BY <1>2, Z3 DEF RouterAnswer, Codes
<1>3. CASE r.path \in {"health", "docs"} BY <1>3, Zenon DEF RouterAnswer, Codes
<1>4. CASE r.path = "users"
  <2>1. CASE r.token BY <1>4, <2>1, Zenon DEF RouterAnswer, Codes
  <2>2. CASE ~r.token
    <3>1. RouterAnswer(r) = 401 BY <1>4, <2>2, Zenon DEF RouterAnswer
    <3>. QED BY <3>1 DEF Codes
  <2>. QED BY <2>1, <2>2
<1>5. CASE r.path = "login" BY <1>5, Zenon DEF RouterAnswer, Codes
<1>. QED BY <1>1, <1>2, <1>3, <1>4, <1>5 DEF Paths

-----------------------------------------------------------------------------
(* What a step of one request leaves alone.                                *)

\* The requests of the other clients are where they were.
OthersUntouched(c) ==
  \A d \in Clients \ {c} :
    stage'[d] = stage[d] /\ status'[d] = status[d] /\ lines'[d] = lines[d]

\* The connections are still all accounted for when one request takes one, gives
\* one back, or does neither.
LEMMA Accounted ==
  ASSUME ConnectionsComeBack, NEW c \in Clients, OthersUntouched(c), inUse \in Nat,
         \/ ~Holding(c) /\ ~Holding(c)' /\ inUse' = inUse
         \/ Holding(c) /\ Holding(c)' /\ inUse' = inUse
         \/ ~Holding(c) /\ Holding(c)' /\ inUse' = inUse + 1
         \/ Holding(c) /\ ~Holding(c)' /\ inUse' = inUse - 1
  PROVE  ConnectionsComeBack'
<1>1. \A d \in Clients \ {c} : Holding(d)' <=> Holding(d)
  BY DEF OthersUntouched, Holding
<1>2. CASE (Holding(c) <=> Holding(c)') /\ inUse' = inUse
  <2>1. Holders' = Holders BY <1>1, <1>2 DEF Holders
  <2>. QED BY <1>2, <2>1 DEF ConnectionsComeBack
<1>3. CASE ~Holding(c) /\ Holding(c)' /\ inUse' = inUse + 1
  <2>1. Holders' = Holders \cup {c} /\ c \notin Holders BY <1>1, <1>3 DEF Holders
  <2>. QED BY <1>3, <2>1, HoldersFinite, FS_AddElement DEF ConnectionsComeBack
<1>4. CASE Holding(c) /\ ~Holding(c)' /\ inUse' = inUse - 1
  <2>1. Holders' = Holders \ {c} /\ c \in Holders BY <1>1, <1>4 DEF Holders
  <2>. QED BY <1>4, <2>1, HoldersFinite, FS_RemoveElement DEF ConnectionsComeBack
<1>. QED BY <1>2, <1>3, <1>4

\* A request that holds a connection is one of those counted.
LEMMA SomebodyHolds ==
  ASSUME TypeOK, ConnectionsComeBack, NEW c \in Clients, Holding(c)
  PROVE  inUse > 0
<1>1. Holders # {} BY DEF Holders
<1>2. Cardinality(Holders) # 0 BY <1>1, HoldersFinite, FS_EmptySet
<1>. QED BY <1>2, ServerAssumption DEF ConnectionsComeBack, TypeOK, ProcessType, RequestType

\* A step of one request keeps the invariant when it keeps it for that request.
LEMMA OneRequest ==
  ASSUME RunInv, UNCHANGED <<process, pool>>, NEW c \in Clients, OthersUntouched(c),
         stage[c] # "closed" \/ listener = "on",
         RequestType', ConnectionsComeBack', LinesSoFar(c)'
  PROVE  RunInv'
<1>1. ~AllClosed \/ listener = "on" BY DEF AllClosed
<1>2. MainReady' BY <1>1 DEF RunInv, MainReady, process
<1>3. ProcessType' BY Zenon DEF RunInv, TypeOK, ProcessType, process
<1>4. ASSUME NEW d \in Clients \ {c} PROVE LinesSoFar(d)'
  BY DEF RunInv, LinesSoFar, OthersUntouched, InfoKept, process
<1>. QED BY <1>2, <1>3, <1>4 DEF RunInv, TypeOK

-----------------------------------------------------------------------------
(* The steps of main.                                                      *)

\* The process is gone.
LEMMA ExitInv ==
  ASSUME NEW value \in {"ok", "fatal", "killed"}, Exit(value)
  PROVE  RunInv'
<1>. USE DEF Exit
<1>1. TypeOK'
  <2>1. limit' \in Int OBVIOUS
  <2>2. ProcessType' BY <2>1, Zenon DEF ProcessType
  <2>3. RequestType' BY Sizes, EmptySeq DEF RequestType
  <2>. QED BY <2>2, <2>3 DEF TypeOK, ProcessType, RequestType
<1>2. MainReady' BY DEF MainReady, AllClosed
<1>3. ConnectionsComeBack'
  <2>1. Holders' = {} BY DEF Holders, Holding
  <2>. QED BY <2>1, FS_EmptySet DEF ConnectionsComeBack
<1>4. \A c \in Clients : LinesSoFar(c)' BY DEF LinesSoFar
<1>. QED BY <1>1, <1>2, <1>3, <1>4 DEF RunInv

\* What a step that leaves the requests alone has to keep.
LEMMA RequestsAlone ==
  ASSUME RunInv, UNCHANGED <<inUse, queue, requests>>, UNCHANGED level \/ AllClosed,
         TypeOK', MainReady'
  PROVE  RunInv'
<1>1. ConnectionsComeBack'
  <2>1. Holders' = Holders BY DEF Holders, Holding, requests
  <2>. QED BY <2>1 DEF RunInv, ConnectionsComeBack
<1>2. \A c \in Clients : LinesSoFar(c)'
  BY DEF RunInv, LinesSoFar, AllClosed, InfoKept, requests
<1>. QED BY <1>1, <1>2 DEF RunInv

LEMMA LoadInv ==
  ASSUME RunInv, Load
  PROVE  RunInv'
<1>. PICK env \in Environments :
       IF Refused(env) THEN Exit("fatal")
       ELSE /\ main' = "connect" /\ limit' = Duration(LimitSeconds(env))
            /\ level' = Level(env.logLevel)
            /\ UNCHANGED <<result, stop, expired, listener, pool, inUse, queue, requests>>
  BY DEF Load
<1>1. CASE Refused(env) BY <1>1, ExitInv
<1>2. CASE ~Refused(env)
  <2>1. limit' \in Int BY <1>2, AcceptedLimit, DurationType
  <2>2. level' \in {"debug", "info", "warn", "error"}
    <3>1. env.logLevel \in STRING BY EnvironmentAssumption
    <3>2. Level(env.logLevel) \in {"debug", "info", "warn", "error"} BY <3>1, LevelType
    <3>. QED BY <1>2, <3>2
  <2>3. TypeOK' BY <1>2, <2>1, <2>2 DEF RunInv, TypeOK, ProcessType, RequestType, requests
  <2>4. MainReady' BY <1>2 DEF RunInv, MainReady, AllClosed, requests, Load
  <2>5. AllClosed BY DEF RunInv, MainReady, Load
  <2>. QED BY <1>2, <2>3, <2>4, <2>5, RequestsAlone
<1>. QED BY <1>1, <1>2

LEMMA ConnectInv ==
  ASSUME RunInv, Connect
  PROVE  RunInv'
<1>1. CASE Exit("fatal") BY <1>1, ExitInv
<1>2. CASE /\ main' = "start" /\ pool' = "open"
           /\ UNCHANGED <<result, limit, level, stop, expired, listener, inUse, queue, requests>>
  <2>1. TypeOK' BY <1>2 DEF RunInv, TypeOK, ProcessType, RequestType, requests
  <2>2. MainReady' BY <1>2 DEF RunInv, MainReady, AllClosed, requests, Connect
  <2>. QED BY <1>2, <2>1, <2>2, RequestsAlone
<1>. QED BY <1>1, <1>2 DEF Connect

\* The steps of main and of the listener that touch nothing else.
LEMMA ProcessInv ==
  ASSUME RunInv,
         Start \/ BeginShutdown \/ ServerFailed \/ Expire \/ GiveUp
           \/ Listen \/ AcceptFails \/ Signal \/ Restart
  PROVE  RunInv'
<1>. USE DEF Start, BeginShutdown, ServerFailed, Expire, GiveUp, Listen, AcceptFails,
             Signal, Restart, Returning, Exited
<1>1. UNCHANGED <<inUse, queue, requests, level>> OBVIOUS
<1>2. TypeOK'
  <2>1. RequestType' BY <1>1 DEF RunInv, TypeOK, RequestType, requests
  <2>2. limit' \in Int BY DEF RunInv, TypeOK, ProcessType
  <2>3. (limit <= 0) \in BOOLEAN OBVIOUS
  <2>4. ProcessType' BY <2>2, <2>3, Zenon DEF RunInv, TypeOK, ProcessType
  <2>. QED BY <2>1, <2>4 DEF TypeOK
<1>3. MainReady' BY <1>1 DEF RunInv, MainReady, AllClosed, requests, TypeOK, ProcessType, RequestType
<1>. QED BY <1>1, <1>2, <1>3, RequestsAlone

LEMMA ShutdownRoundInv ==
  ASSUME RunInv, ShutdownRound
  PROVE  RunInv'
<1>. USE DEF RunInv, ShutdownRound, Returning
<1>1. TypeOK' BY DEF TypeOK, ProcessType, RequestType
<1>2. \A c \in Clients : Busy(c) => stage'[c] = stage[c] BY DEF TypeOK, ProcessType, RequestType
<1>3. \A c \in Clients : ~Busy(c) => stage'[c] = "closed" BY DEF TypeOK, ProcessType, RequestType
<1>4. MainReady'
  <2>1. CASE \A c \in Clients : ~Busy(c)
    BY <1>3, <2>1 DEF MainReady, AllClosed
  <2>2. CASE ~(\A c \in Clients : ~Busy(c))
    BY <2>2 DEF MainReady
  <2>. QED BY <2>1, <2>2
<1>5. ConnectionsComeBack'
  <2>1. Holders' = Holders BY <1>2, <1>3 DEF Holders, Holding, Busy
  <2>. QED BY <2>1 DEF ConnectionsComeBack
<1>6. \A c \in Clients : LinesSoFar(c)' BY <1>2, <1>3 DEF LinesSoFar, InfoKept, Busy
<1>. QED BY <1>1, <1>4, <1>5, <1>6

-----------------------------------------------------------------------------
(* The steps of a request.                                                 *)

LEMMA ReceiveInv ==
  ASSUME RunInv, NEW c \in Clients, NEW r \in Requests, Receive(c, r)
  PROVE  RunInv'
<1>. USE DEF RunInv, Receive, Respond, Reply, Stage
<1>0. RouterAnswer(r) \in {0} \cup Codes BY RouterAnswerType
<1>1. RequestType'
  <2>1. UNCHANGED <<inUse, queue, lines>> OBVIOUS
  <2>2. req' \in [Clients -> Requests \cup {NoRequest}] BY DEF TypeOK, RequestType
  <2>3. stage' \in [Clients -> {"closed", "idle", "handling", "waiting",
                               "querying", "hung", "answered", "logged", "recovered"}]
    BY DEF TypeOK, RequestType
  <2>4. calls' = [calls EXCEPT ![c] = 0] \/ calls' = [calls EXCEPT ![c] = MaxCalls]
    OBVIOUS
  <2>5. calls' \in [Clients -> 0 .. MaxCalls]
    <3>. HIDE DEF Receive, Reply
    <3>. QED BY <2>4, Sizes DEF TypeOK, RequestType
  <2>6. status' \in [Clients -> {0} \cup Codes] BY <1>0 DEF TypeOK, RequestType
  <2>. QED BY <2>1, <2>2, <2>3, <2>5, <2>6 DEF TypeOK, RequestType
<1>2. OthersUntouched(c) BY DEF OthersUntouched, TypeOK, RequestType
<1>3. ConnectionsComeBack'
  <2>1. ~Holding(c) /\ ~Holding(c)' BY DEF Holding, TypeOK, RequestType
  <2>. QED BY <1>2, <2>1, Accounted DEF TypeOK, RequestType
<1>4. LinesSoFar(c)' BY DEF LinesSoFar, TypeOK, RequestType
<1>. QED BY <1>1, <1>2, <1>3, <1>4, OneRequest

\* What the statuses may become.
LEMMA StatusType ==
  ASSUME TypeOK, NEW c \in Clients,
         \/ UNCHANGED status
         \/ status' = [status EXCEPT ![c] = 200]
         \/ status' = [status EXCEPT ![c] = 500]
  PROVE  status' \in [Clients -> {0} \cup Codes]
<1>1. ASSUME NEW code \in {0} \cup Codes, status' = [status EXCEPT ![c] = code]
      PROVE  status' \in [Clients -> {0} \cup Codes]
  BY <1>1 DEF TypeOK, RequestType
<1>2. 200 \in {0} \cup Codes /\ 500 \in {0} \cup Codes BY DEF Codes
<1>3. CASE UNCHANGED status BY <1>3 DEF TypeOK, RequestType
<1>. QED BY <1>1, <1>2, <1>3

LEMMA AskInv ==
  ASSUME RunInv, NEW c \in Clients, Ask(c)
  PROVE  RunInv'
<1>. USE DEF RunInv, Ask, Stage
<1>1. RequestType' BY Sizes DEF TypeOK, RequestType, process
<1>2. OthersUntouched(c) BY DEF OthersUntouched, TypeOK, RequestType
<1>3. ConnectionsComeBack'
  <2>1. ~Holding(c) /\ ~Holding(c)' BY DEF Holding, TypeOK, RequestType
  <2>. QED BY <1>2, <2>1, Accounted DEF TypeOK, RequestType
<1>4. LinesSoFar(c)' BY DEF LinesSoFar, TypeOK, RequestType
<1>. QED BY <1>1, <1>2, <1>3, <1>4, OneRequest

LEMMA AcquireInv ==
  ASSUME RunInv, NEW c \in Clients, Acquire(c)
  PROVE  RunInv'
<1>. USE DEF RunInv, Acquire, Fail, Respond, Reply, Stage
<1>1. RequestType'
  <2>1. queue' \in Seq(Clients) BY HeadTailProperties DEF TypeOK, RequestType
  <2>2. inUse' \in 0 .. MaxConns BY Sizes DEF TypeOK, RequestType
  <2>3. UNCHANGED <<req, lines>> OBVIOUS
  <2>4. stage' \in [Clients -> {"closed", "idle", "handling", "waiting",
                               "querying", "hung", "answered", "logged", "recovered"}]
    BY DEF TypeOK, RequestType
  <2>5. calls' \in [Clients -> 0 .. MaxCalls]
    <3>1. calls' = [calls EXCEPT ![c] = 0] \/ UNCHANGED calls OBVIOUS
    <3>. HIDE DEF Acquire, Fail, Respond, Reply
    <3>. QED BY <3>1, Sizes DEF TypeOK, RequestType
  <2>6. status' \in [Clients -> {0} \cup Codes] BY StatusType DEF TypeOK
  <2>. QED BY <2>1, <2>2, <2>3, <2>4, <2>5, <2>6 DEF TypeOK, RequestType
<1>2. OthersUntouched(c) BY DEF OthersUntouched, TypeOK, RequestType
<1>3. ConnectionsComeBack'
  <2>1. ~Holding(c) BY DEF Holding
  <2>2. CASE pool = "closed"
    <3>1. ~Holding(c)' BY <2>2 DEF Holding, TypeOK, RequestType
    <3>. QED BY <1>2, <2>1, <2>2, <3>1, Accounted DEF TypeOK, RequestType
  <2>3. CASE pool # "closed"
    <3>1. Holding(c)' BY <2>3 DEF Holding, TypeOK, RequestType
    <3>. QED BY <1>2, <2>1, <2>3, <3>1, Accounted DEF TypeOK, RequestType
  <2>. QED BY <2>2, <2>3
<1>4. LinesSoFar(c)' BY DEF LinesSoFar, TypeOK, RequestType
<1>. QED BY <1>1, <1>2, <1>3, <1>4, OneRequest

LEMMA ReturnConnectionInv ==
  ASSUME RunInv, NEW c \in Clients, ReturnConnection(c)
  PROVE  RunInv'
<1>. USE DEF RunInv, ReturnConnection, Stage
<1>1. Holding(c) /\ ~Holding(c)' BY DEF Holding, TypeOK, RequestType
<1>2. RequestType' BY <1>1, SomebodyHolds, Sizes DEF TypeOK, RequestType, process
<1>3. OthersUntouched(c) BY DEF OthersUntouched, TypeOK, RequestType
<1>4. ConnectionsComeBack' BY <1>1, <1>3, Accounted DEF TypeOK, RequestType
<1>5. LinesSoFar(c)' BY DEF LinesSoFar, TypeOK, RequestType
<1>. QED BY <1>2, <1>3, <1>4, <1>5, OneRequest

LEMMA CallFailsInv ==
  ASSUME RunInv, NEW c \in Clients, CallFails(c)
  PROVE  RunInv'
<1>. USE DEF RunInv, CallFails, Fail, Respond, Reply, Stage
<1>1. stage[c] \in {"querying", "hung", "waiting"} /\ ~Holding(c)' BY DEF Holding, TypeOK, RequestType
<1>2. queue' \in Seq(Clients) BY RemoveAtType DEF TypeOK, RequestType
<1>3. inUse' \in 0 .. MaxConns BY SomebodyHolds, Sizes DEF TypeOK, RequestType
<1>4. RequestType'
  <2>1. UNCHANGED <<req, lines>> OBVIOUS
  <2>2. stage' \in [Clients -> {"closed", "idle", "handling", "waiting",
                               "querying", "hung", "answered", "logged", "recovered"}]
    BY DEF TypeOK, RequestType
  <2>3. calls' \in [Clients -> 0 .. MaxCalls] BY Sizes DEF TypeOK, RequestType
  <2>4. status' \in [Clients -> {0} \cup Codes] BY StatusType
  <2>. QED BY <1>2, <1>3, <2>1, <2>2, <2>3, <2>4 DEF TypeOK, RequestType
<1>5. OthersUntouched(c) BY DEF OthersUntouched, TypeOK, RequestType
<1>6. ConnectionsComeBack' BY <1>1, <1>5, Accounted DEF TypeOK, RequestType, Holding
<1>7. LinesSoFar(c)' BY <1>1 DEF LinesSoFar, TypeOK, RequestType
<1>. QED BY <1>1, <1>4, <1>5, <1>6, <1>7, OneRequest

LEMMA HangInv ==
  ASSUME RunInv, NEW c \in Clients, Hang(c)
  PROVE  RunInv'
<1>. USE DEF RunInv, Hang, Stage
<1>1. RequestType' BY Sizes DEF TypeOK, RequestType, process
<1>2. OthersUntouched(c) BY DEF OthersUntouched, TypeOK, RequestType
<1>3. Holding(c) /\ Holding(c)' BY DEF Holding, TypeOK, RequestType
<1>4. ConnectionsComeBack' BY <1>2, <1>3, Accounted DEF TypeOK, RequestType
<1>5. LinesSoFar(c)' BY DEF LinesSoFar, TypeOK, RequestType
<1>. QED BY <1>1, <1>2, <1>4, <1>5, OneRequest

LEMMA AnswerInv ==
  ASSUME RunInv, NEW c \in Clients, Answer(c)
  PROVE  RunInv'
<1>. USE DEF RunInv, Answer, Respond, Reply, Stage
<1>1. RequestType' BY Sizes DEF TypeOK, RequestType, Codes
<1>2. OthersUntouched(c) BY DEF OthersUntouched, TypeOK, RequestType
<1>3. ~Holding(c) /\ ~Holding(c)' BY DEF Holding, TypeOK, RequestType
<1>4. ConnectionsComeBack' BY <1>2, <1>3, Accounted DEF TypeOK, RequestType
<1>5. LinesSoFar(c)'
  <2>1. stage'[c] = "answered" /\ status'[c] = 200 BY DEF TypeOK, RequestType
  <2>2. LinesSoFar(c) /\ stage[c] = "handling" /\ UNCHANGED lines OBVIOUS
  <2>. HIDE DEF Answer, RunInv
  <2>. QED BY <2>1, <2>2 DEF LinesSoFar
<1>. QED BY <1>1, <1>2, <1>4, <1>5, OneRequest

\* The one line of a request that had none.
LEMMA FirstLine ==
  ASSUME TypeOK, NEW c \in Clients, lines[c] = <<>>, NEW line \in LogLine,
         lines' = [lines EXCEPT ![c] = Append(@, line)]
  PROVE  lines' \in [Clients -> Seq(LogLine)] /\ lines'[c] = <<line>>
<1>1. Append(lines[c], line) = <<line>> OBVIOUS
<1>. QED BY <1>1 DEF TypeOK, RequestType

LEMMA LogInv ==
  ASSUME RunInv, NEW c \in Clients, Log(c)
  PROVE  RunInv'
<1>. USE DEF RunInv, Log, Stage
<1>1. status[c] \in Codes /\ lines[c] = <<>> BY DEF LinesSoFar, TypeOK, RequestType
<1>2. /\ lines' \in [Clients -> Seq(LogLine)]
      /\ lines'[c] = IF InfoKept THEN <<RequestLine(status[c])>> ELSE <<>>
  <2>1. CASE InfoKept
    <3>1. RequestLine(status[c]) \in LogLine BY <1>1 DEF LogLine
    <3>2. lines' = [lines EXCEPT ![c] = Append(@, RequestLine(status[c]))] BY <2>1
    <3>. QED BY <1>1, <2>1, <3>1, <3>2, FirstLine
  <2>2. CASE ~InfoKept BY <1>1, <2>2 DEF TypeOK, RequestType
  <2>. QED BY <2>1, <2>2
<1>3. RequestType' BY <1>2, Sizes DEF TypeOK, RequestType, process
<1>4. OthersUntouched(c) BY DEF OthersUntouched, TypeOK, RequestType
<1>5. ~Holding(c) /\ ~Holding(c)' BY DEF Holding, TypeOK, RequestType
<1>6. ConnectionsComeBack' BY <1>4, <1>5, Accounted DEF TypeOK, RequestType
<1>7. LinesSoFar(c)' BY <1>2 DEF LinesSoFar, InfoKept, process, TypeOK, RequestType
<1>. QED BY <1>3, <1>4, <1>6, <1>7, OneRequest

LEMMA PanicInv ==
  ASSUME RunInv, NEW c \in Clients, Panic(c)
  PROVE  RunInv'
<1>. USE DEF RunInv, Panic, Reply, Stage
<1>1. lines[c] = <<>> BY DEF LinesSoFar
<1>2. lines' \in [Clients -> Seq(LogLine)] /\ lines'[c] = <<PanicLine>>
  <2>1. PanicLine \in LogLine BY DEF LogLine
  <2>. QED BY <1>1, <2>1, FirstLine
<1>3. inUse' \in 0 .. MaxConns BY SomebodyHolds, Sizes DEF TypeOK, RequestType
<1>4. RequestType' BY <1>2, <1>3, Sizes DEF TypeOK, RequestType, Codes
<1>5. OthersUntouched(c) BY DEF OthersUntouched, TypeOK, RequestType
<1>6. ~Holding(c)' BY DEF Holding, TypeOK, RequestType
<1>7. ConnectionsComeBack' BY <1>5, <1>6, Accounted DEF TypeOK, RequestType
<1>8. LinesSoFar(c)' BY <1>2 DEF LinesSoFar, TypeOK, RequestType
<1>. QED BY <1>4, <1>5, <1>7, <1>8, OneRequest

LEMMA FinishInv ==
  ASSUME RunInv, NEW c \in Clients, Finish(c)
  PROVE  RunInv'
<1>. USE DEF RunInv, Finish, Stage
<1>1. RequestType' BY Sizes, EmptySeq DEF TypeOK, RequestType, process
<1>2. OthersUntouched(c) BY DEF OthersUntouched, TypeOK, RequestType
<1>3. ~Holding(c) /\ ~Holding(c)' BY DEF Holding, TypeOK, RequestType
<1>4. ConnectionsComeBack' BY <1>2, <1>3, Accounted DEF TypeOK, RequestType
<1>5. LinesSoFar(c)' BY DEF LinesSoFar, TypeOK, RequestType
<1>. QED BY <1>1, <1>2, <1>4, <1>5, OneRequest

-----------------------------------------------------------------------------
(* The theorems.                                                           *)

LEMMA InitInv == Init => RunInv
<1>. SUFFICES ASSUME Init PROVE RunInv OBVIOUS
<1>. USE DEF Init
<1>1. TypeOK
  <2>1. limit \in Int OBVIOUS
  <2>2. ProcessType BY <2>1, Zenon DEF ProcessType
  <2>3. RequestType BY Sizes, EmptySeq DEF RequestType
  <2>. QED BY <2>2, <2>3 DEF TypeOK, ProcessType, RequestType
<1>2. MainReady BY DEF MainReady, AllClosed
<1>3. ConnectionsComeBack
  <2>1. Holders = {} BY DEF Holders, Holding
  <2>. QED BY <2>1, FS_EmptySet DEF ConnectionsComeBack
<1>4. \A c \in Clients : LinesSoFar(c) BY DEF LinesSoFar
<1>. QED BY <1>1, <1>2, <1>3, <1>4 DEF RunInv

LEMMA NextInv == RunInv /\ [Next]_vars => RunInv'
<1>. SUFFICES ASSUME RunInv, [Next]_vars PROVE RunInv' OBVIOUS
<1>1. CASE MainStep
  <2>1. CASE Load BY <2>1, LoadInv
  <2>2. CASE Connect BY <2>2, ConnectInv
  <2>3. CASE Start \/ BeginShutdown \/ ServerFailed \/ Expire \/ GiveUp
    BY <2>3, ProcessInv
  <2>4. CASE ShutdownRound BY <2>4, ShutdownRoundInv
  <2>5. CASE Return
    <3>1. result \in {"ok", "fatal"} BY <2>5 DEF Return, RunInv, MainReady
    <3>. QED BY <2>5, <3>1, ExitInv DEF Return
  <2>. QED BY <1>1, <2>1, <2>2, <2>3, <2>4, <2>5 DEF MainStep
<1>2. CASE Listen \/ AcceptFails \/ Signal \/ Restart BY <1>2, ProcessInv
<1>3. CASE Kill BY <1>3, ExitInv DEF Kill
<1>4. ASSUME NEW c \in Clients,
             (\E r \in Requests : Receive(c, r)) \/ HandlerStep(c) \/ CallFails(c)
               \/ Hang(c) \/ Panic(c)
      PROVE  RunInv'
  BY <1>4, ReceiveInv, AskInv, AcquireInv, ReturnConnectionInv, AnswerInv, LogInv,
     FinishInv, CallFailsInv, HangInv, PanicInv DEF HandlerStep
<1>5. CASE UNCHANGED vars
  <2>. USE <1>5 DEF vars, process, requests, RunInv
  <2>1. TypeOK' BY DEF TypeOK, ProcessType, RequestType
  <2>2. MainReady' BY DEF MainReady, AllClosed
  <2>. QED BY <2>1, <2>2, RequestsAlone
<1>. QED BY <1>1, <1>2, <1>3, <1>4, <1>5 DEF Next

-----------------------------------------------------------------------------
(* The queue of the pool.                                                  *)

LEMMA AppendOnce ==
  ASSUME NEW S, NEW s \in Seq(S), IsInjective(s), NEW x \in S \ Range(s)
  PROVE  IsInjective(Append(s, x)) /\ Range(Append(s, x)) = Range(s) \cup {x}
<1>1. /\ DOMAIN s = 1 .. Len(s) /\ Len(s) \in Nat
      /\ DOMAIN Append(s, x) = 1 .. Len(s) + 1
      /\ \A i \in 1 .. Len(s) : Append(s, x)[i] = s[i]
      /\ Append(s, x)[Len(s) + 1] = x
  BY AppendProperties
<1>. QED BY <1>1 DEF IsInjective, Range

LEMMA RemoveOnce ==
  ASSUME NEW S, NEW s \in Seq(S), IsInjective(s), NEW k \in DOMAIN s
  PROVE  IsInjective(RemoveAt(s, k)) /\ Range(RemoveAt(s, k)) = Range(s) \ {s[k]}
<1>. DEFINE t == RemoveAt(s, k)
<1>1. DOMAIN s = 1 .. Len(s) /\ Len(s) \in Nat /\ k \in 1 .. Len(s) BY LenProperties
<1>2. t \in Seq(S) /\ Len(t) = Len(s) - 1
      /\ \A i \in 1 .. Len(s) - 1 : t[i] = IF i < k THEN s[i] ELSE s[i + 1]
  <2>. DEFINE p == SubSeq(s, 1, k - 1)
              q == SubSeq(s, k + 1, Len(s))
  <2>1. p \in Seq(S) /\ Len(p) = k - 1 /\ \A i \in 1 .. k - 1 : p[i] = s[i]
    <3>1. \A i \in 1 .. k - 1 : s[i] \in S BY <1>1, ElementOfSeq
    <3>. QED BY <1>1, <3>1, SubSeqProperties
  <2>2. q \in Seq(S) /\ Len(q) = Len(s) - k /\ \A i \in 1 .. Len(s) - k : q[i] = s[i + k]
    <3>1. \A i \in k + 1 .. Len(s) : s[i] \in S BY <1>1, ElementOfSeq
    <3>. QED BY <1>1, <3>1, SubSeqProperties
  <2>. HIDE DEF p, q
  <2>3. /\ p \o q \in Seq(S) /\ Len(p \o q) = Len(s) - 1
        /\ \A i \in 1 .. Len(s) - 1 :
             (p \o q)[i] = IF i <= k - 1 THEN p[i] ELSE q[i - (k - 1)]
    <3>1. /\ p \o q \in Seq(S) /\ Len(p \o q) = Len(p) + Len(q)
          /\ \A i \in 1 .. Len(p) + Len(q) :
               (p \o q)[i] = IF i <= Len(p) THEN p[i] ELSE q[i - Len(p)]
      BY <2>1, <2>2, ConcatProperties
    <3>2. Len(p) + Len(q) = Len(s) - 1 BY <1>1, <2>1, <2>2
    <3>. QED BY <2>1, <3>1, <3>2
  <2>4. ASSUME NEW i \in 1 .. Len(s) - 1
        PROVE  (p \o q)[i] = IF i < k THEN s[i] ELSE s[i + 1]
    <3>1. CASE i < k BY <1>1, <2>1, <2>3, <3>1
    <3>2. CASE ~(i < k)
      <4>1. i - (k - 1) \in 1 .. Len(s) - k /\ i - (k - 1) + k = i + 1 BY <1>1, <3>2
      <4>2. q[i - (k - 1)] = s[i + 1] BY <2>2, <4>1
      <4>3. ~(i <= k - 1) BY <1>1, <3>2
      <4>. QED BY <2>3, <3>2, <4>2, <4>3
    <3>. QED BY <3>1, <3>2
  <2>5. t = p \o q BY DEF p, q, RemoveAt
  <2>. QED BY <2>3, <2>4, <2>5
<1>3. DOMAIN t = 1 .. Len(s) - 1 BY <1>2, LenProperties
<1>. HIDE DEF t
<1>4. IsInjective(t)
  <2>1. ASSUME NEW i \in DOMAIN t, NEW j \in DOMAIN t, t[i] = t[j]
        PROVE  i = j
    <3>. DEFINE Old(n) == IF n < k THEN n ELSE n + 1
    <3>1. Old(i) \in DOMAIN s /\ Old(j) \in DOMAIN s /\ (Old(i) = Old(j) => i = j)
      BY <1>1, <1>3
    <3>2. t[i] = s[Old(i)] /\ t[j] = s[Old(j)] BY <1>1, <1>2, <1>3
    <3>. HIDE DEF Old
    <3>. QED BY <2>1, <3>1, <3>2 DEF IsInjective
  <2>. QED BY <2>1 DEF IsInjective
<1>5. Range(t) \subseteq Range(s) \ {s[k]} BY <1>1, <1>2, <1>3 DEF IsInjective, Range
<1>6. ASSUME NEW i \in DOMAIN s, s[i] # s[k] PROVE s[i] \in Range(t)
  <2>1. CASE i < k BY <1>1, <1>2, <1>3, <2>1 DEF Range
  <2>2. CASE i > k
    <3>1. i - 1 \in 1 .. Len(s) - 1 /\ t[i - 1] = s[i] BY <1>1, <1>2, <2>2
    <3>. QED BY <1>3, <3>1 DEF Range
  <2>. QED BY <1>1, <1>6, <2>1, <2>2
<1>7. Range(s) \ {s[k]} \subseteq Range(t) BY <1>6 DEF Range
<1>8. IsInjective(t) /\ Range(t) = Range(s) \ {s[k]} BY <1>4, <1>5, <1>7
<1>. QED BY <1>8 DEF t

\* The first of a queue leaves it as one from anywhere does.
LEMMA TailOnce ==
  ASSUME NEW S, NEW s \in Seq(S), IsInjective(s), s # <<>>
  PROVE  /\ Head(s) \in Range(s)
         /\ IsInjective(Tail(s)) /\ Range(Tail(s)) = Range(s) \ {Head(s)}
<1>1. 1 \in DOMAIN s /\ Head(s) = s[1] BY HeadTailProperties, LenProperties, EmptySeq
<1>2. Tail(s) = RemoveAt(s, 1) BY DEF RemoveAt
<1>3. IsInjective(RemoveAt(s, 1)) /\ Range(RemoveAt(s, 1)) = Range(s) \ {s[1]}
  BY <1>1, RemoveOnce
<1>4. s[1] \in Range(s) BY <1>1 DEF Range
<1>. QED BY <1>1, <1>2, <1>3, <1>4

LEMMA InitQueued == Init => Queued
BY DEF Init, Queued, IsInjective, Range

LEMMA ExitQueued ==
  ASSUME NEW value, Exit(value)
  PROVE  Queued'
BY DEF Exit, Queued, IsInjective, Range

\* A step that leaves the queue alone, and nobody begins or ends to wait by.
LEMMA QueueAlone ==
  ASSUME Queued, UNCHANGED queue,
         \A c \in Clients : stage'[c] = "waiting" <=> stage[c] = "waiting"
  PROVE  Queued'
BY DEF Queued

LEMMA NextQueued == RunInv /\ Queued /\ [Next]_vars => Queued'
<1>. SUFFICES ASSUME RunInv, Queued, [Next]_vars PROVE Queued' OBVIOUS
<1>0. TypeOK BY DEF RunInv
<1>1. ASSUME NEW c \in Clients, Ask(c) PROVE Queued'
  <2>1. c \in Clients \ Range(queue) BY <1>1 DEF Queued, Ask
  <2>2. IsInjective(queue') /\ Range(queue') = Range(queue) \cup {c}
    BY <1>0, <1>1, <2>1, AppendOnce DEF Ask, Queued, TypeOK, RequestType
  <2>3. stage' = [stage EXCEPT ![c] = "waiting"] BY <1>1 DEF Ask, Stage
  <2>. QED BY <1>0, <2>2, <2>3 DEF Queued, TypeOK, RequestType
<1>2. ASSUME NEW c \in Clients, Acquire(c) \/ (CallFails(c) /\ stage[c] = "waiting")
      PROVE  Queued'
  <2>1. IsInjective(queue') /\ Range(queue') = Range(queue) \ {c}
    <3>1. CASE Acquire(c)
      BY <1>0, <3>1, TailOnce DEF Acquire, Queued, TypeOK, RequestType
    <3>2. CASE CallFails(c) /\ stage[c] = "waiting"
      <4>1. PICK i \in DOMAIN queue : queue[i] = c /\ queue' = RemoveAt(queue, i)
        BY <3>2 DEF CallFails, Holding
      <4>. QED BY <1>0, <4>1, RemoveOnce DEF Queued, TypeOK, RequestType
    <3>. QED BY <1>2, <3>1, <3>2
  <2>2. \E s \in {"querying", "answered"} : stage' = [stage EXCEPT ![c] = s]
    BY <1>2 DEF Acquire, CallFails, Fail, Respond, Reply, Stage
  <2>. QED BY <1>0, <2>1, <2>2 DEF Queued, TypeOK, RequestType
<1>3. ASSUME NEW c \in Clients,
             \/ \E r \in Requests : Receive(c, r)
             \/ ReturnConnection(c) \/ Answer(c) \/ Log(c) \/ Finish(c)
             \/ (CallFails(c) /\ stage[c] # "waiting") \/ Hang(c) \/ Panic(c)
      PROVE  Queued'
  <2>1. UNCHANGED queue
    BY <1>3 DEF Receive, ReturnConnection, Answer, Log, Finish, CallFails, Hang, Panic
  <2>2. /\ stage[c] # "waiting"
        /\ \E s \in {"closed", "idle", "handling", "hung", "answered", "logged", "recovered"} :
             stage' = [stage EXCEPT ![c] = s]
    BY <1>3 DEF Receive, ReturnConnection, Answer, Log, Finish, CallFails, Hang, Panic,
                Holding, Fail, Respond, Reply, Stage
  <2>. QED BY <1>0, <2>1, <2>2, QueueAlone DEF TypeOK, RequestType
<1>4. CASE ShutdownRound
  BY <1>0, <1>4, QueueAlone DEF ShutdownRound, Busy, TypeOK, RequestType
<1>5. CASE UNCHANGED <<queue, stage>>
  BY <1>5, QueueAlone
<1>6. CASE MainStep /\ ~ShutdownRound
  <2>1. UNCHANGED <<queue, stage>> \/ \E value : Exit(value)
    BY <1>6 DEF MainStep, Load, Connect, Start, BeginShutdown, ServerFailed, Expire,
                GiveUp, Return, Returning, requests
  <2>. QED BY <1>5, <2>1, ExitQueued
<1>7. CASE Kill BY <1>7, ExitQueued DEF Kill
<1>8. CASE Listen \/ AcceptFails \/ Signal \/ Restart \/ UNCHANGED vars
  BY <1>5, <1>8 DEF Listen, AcceptFails, Signal, Restart, vars, requests
<1>. QED BY <1>1, <1>2, <1>3, <1>4, <1>6, <1>7, <1>8 DEF Next, HandlerStep

-----------------------------------------------------------------------------

\* The inductive invariant holds, and with it the type invariant: no more than
\* MaxConns connections are ever given out, though every call of the store takes
\* one and main closes the pool under them.
THEOREM ServerInvariance == Spec => []ServerInv
<1>1. Init => ServerInv BY InitInv, InitQueued DEF ServerInv
<1>2. ServerInv /\ [Next]_vars => ServerInv' BY NextInv, NextQueued DEF ServerInv
<1>. QED BY <1>1, <1>2, PTL DEF Spec

\* run() closes the pool over requests only when the limit of Shutdown has passed
\* or the listener broke down, whatever the settings were.
THEOREM PoolOutlivesRequests == Spec => []NotCutShort
<1>1. ServerInv => NotCutShort
  <2>. SUFFICES ASSUME ServerInv, pool = "closed"
                PROVE  expired \/ listener = "failed" \/ \A c \in Clients : ~Busy(c)
    BY DEF NotCutShort
  <2>1. main = "closing" BY DEF ServerInv, RunInv, MainReady, TypeOK, ProcessType
  <2>. QED BY <2>1 DEF ServerInv, RunInv, MainReady, AllClosed, Busy
<1>. QED BY <1>1, ServerInvariance, PTL

\* An exit with status 0 and "server stopped cleanly" leaves no request behind.
THEOREM CleanExits == Spec => []CleanExit
<1>1. ServerInv => CleanExit
  <2>. SUFFICES ASSUME ServerInv, result = "ok"
                PROVE  \A c \in Clients : ~Busy(c)
    BY DEF CleanExit
  <2>1. main \in {"closing", "exited"}
    BY DEF ServerInv, RunInv, MainReady, TypeOK, ProcessType
  <2>. QED BY <2>1 DEF ServerInv, RunInv, MainReady, AllClosed, Busy
<1>. QED BY <1>1, ServerInvariance, PTL

\* The connections that are out are those of the calls that have not ended:
\* failures, panics and clients that left have given theirs back.
THEOREM NoConnectionLeaks == Spec => []ConnectionsComeBack
<1>1. ServerInv => ConnectionsComeBack BY DEF ServerInv, RunInv
<1>. QED BY <1>1, ServerInvariance, PTL

\* The request's line tells the status that was answered, and is there for every
\* answer while LOG_LEVEL keeps info; a panic leaves Recovery's line and no other,
\* which tells no status.
THEOREM RequestsAreLogged == Spec => []LogTellsAnswers
<1>1. ServerInv => LogTellsAnswers
  BY DEF ServerInv, RunInv, LinesSoFar, LogTellsAnswers
<1>. QED BY <1>1, ServerInvariance, PTL

\* Nobody waits for a connection that nobody is to give back: with no call at work
\* there is a connection left, and the first of the queue is a client that waits.
THEOREM PoolIsFair == Spec => []PoolServes
<1>1. ServerInv => PoolServes
  <2>. SUFFICES ASSUME ServerInv, NEW c \in Clients, stage[c] = "waiting", Holders = {}
                PROVE  inUse < MaxConns /\ stage[Head(queue)] = "waiting"
    BY DEF PoolServes
  <2>1. inUse = 0 BY FS_EmptySet DEF ServerInv, RunInv, ConnectionsComeBack
  <2>2. c \in Range(queue) /\ queue \in Seq(Clients) /\ IsInjective(queue)
    BY DEF ServerInv, RunInv, Queued, TypeOK, RequestType
  <2>3. queue # <<>> BY <2>2 DEF Range
  <2>4. Head(queue) \in Range(queue) BY <2>2, <2>3, TailOnce
  <2>. QED BY <2>1, <2>4, Sizes DEF ServerInv, Queued
<1>. QED BY <1>1, ServerInvariance, PTL

-----------------------------------------------------------------------------
(* What liveness rests on: requests and the closing pool come to an end.    *)

\* Its own step brings a request nearer to its end.
LEMMA OwnStepAdvances ==
  ASSUME TypeOK, NEW c \in Clients, Busy(c),
         \/ \E r \in Requests : Receive(c, r)
         \/ HandlerStep(c) \/ CallFails(c) \/ Hang(c) \/ Panic(c)
  PROVE  StepsLeft(c)' < StepsLeft(c)
<1>0. calls[c] \in Nat /\ c \in DOMAIN stage /\ c \in DOMAIN calls
  BY Sizes DEF TypeOK, RequestType
<1>1. ~\E r \in Requests : Receive(c, r) BY DEF Receive, Busy
<1>2. CASE Ask(c) BY <1>0, <1>2 DEF Ask, Stage, StepsLeft
<1>3. CASE Acquire(c)
  <2>1. \/ stage' = [stage EXCEPT ![c] = "querying"] /\ UNCHANGED calls
        \/ stage' = [stage EXCEPT ![c] = "answered"]
    BY <1>3 DEF Acquire, Fail, Respond, Reply, Stage
  <2>. QED BY <1>0, <1>3, <2>1 DEF Acquire, StepsLeft
<1>4. CASE ReturnConnection(c) BY <1>0, <1>4 DEF ReturnConnection, Stage, StepsLeft
<1>5. CASE Answer(c) BY <1>0, <1>5 DEF Answer, Respond, Reply, Stage, StepsLeft
<1>6. CASE Log(c) BY <1>0, <1>6 DEF Log, Stage, StepsLeft
<1>7. CASE Finish(c)
  <2>1. \E s \in {"closed", "idle"} : stage' = [stage EXCEPT ![c] = s]
    BY <1>7 DEF Finish, Stage
  <2>. QED BY <1>0, <1>7, <2>1 DEF Finish, StepsLeft
<1>8. CASE CallFails(c)
  <2>1. stage' = [stage EXCEPT ![c] = "answered"]
    BY <1>8 DEF CallFails, Fail, Respond, Reply, Stage
  <2>2. stage[c] \in {"waiting", "querying", "hung"} BY <1>8 DEF CallFails, Holding
  <2>. QED BY <1>0, <2>1, <2>2 DEF StepsLeft
<1>9. CASE Hang(c) BY <1>0, <1>9 DEF Hang, Stage, StepsLeft
<1>10. CASE Panic(c) BY <1>0, <1>10 DEF Panic, Reply, Stage, StepsLeft
<1>. QED BY <1>1, <1>2, <1>3, <1>4, <1>5, <1>6, <1>7, <1>8, <1>9, <1>10 DEF HandlerStep

\* The end of the process is the end of its requests.
LEMMA ExitAdvances ==
  ASSUME TypeOK, NEW value, Exit(value), NEW c \in Clients, Busy(c)
  PROVE  StepsLeft(c)' < StepsLeft(c)
<1>1. StepsLeft(c)' = 0 BY DEF Exit, StepsLeft
<1>2. calls[c] \in Nat BY Sizes DEF TypeOK, RequestType
<1>3. stage[c] \in {"handling", "waiting", "querying", "hung", "answered", "logged", "recovered"}
  BY DEF Busy, TypeOK, RequestType
<1>. QED BY <1>1, <1>2, <1>3 DEF StepsLeft

LEMMA NextAdvances ==
  ASSUME TypeOK, [Next]_vars, NEW c \in Clients, Busy(c)
  PROVE  StepsLeft(c)' < StepsLeft(c) \/ UNCHANGED <<stage[c], calls[c]>>
<1>1. CASE \/ \E r \in Requests : Receive(c, r)
           \/ HandlerStep(c) \/ CallFails(c) \/ Hang(c) \/ Panic(c)
  BY <1>1, OwnStepAdvances
<1>2. ASSUME NEW d \in Clients \ {c},
             \/ \E r \in Requests : Receive(d, r)
             \/ HandlerStep(d) \/ CallFails(d) \/ Hang(d) \/ Panic(d)
      PROVE  UNCHANGED <<stage[c], calls[c]>>
  <2>1. /\ UNCHANGED calls \/ \E n : calls' = [calls EXCEPT ![d] = n]
        /\ \E s : stage' = [stage EXCEPT ![d] = s]
    BY <1>2 DEF Receive, HandlerStep, Ask, Acquire, ReturnConnection, Answer, Log, Finish,
                CallFails, Hang, Panic, Fail, Respond, Reply, Stage
  <2>. QED BY <2>1 DEF TypeOK, RequestType
<1>3. CASE ShutdownRound BY <1>3 DEF ShutdownRound, TypeOK, RequestType
<1>4. CASE (MainStep /\ ~ShutdownRound) \/ Kill
  <2>1. UNCHANGED <<stage, calls>> \/ \E value : Exit(value)
    BY <1>4 DEF MainStep, Kill, Load, Connect, Start, BeginShutdown, ServerFailed, Expire,
                GiveUp, Return, Returning, requests
  <2>. QED BY <2>1, ExitAdvances
<1>5. CASE Listen \/ AcceptFails \/ Signal \/ Restart \/ UNCHANGED vars
  BY <1>5 DEF Listen, AcceptFails, Signal, Restart, vars, requests
<1>. QED BY <1>1, <1>2, <1>3, <1>4, <1>5 DEF Next

\* A request takes finitely many steps: 3 for each call its handler may make and 3
\* more, with nothing repeated after a failure, a panic or a hanging statement.
THEOREM StepsComeToAnEnd == Spec => StepsAdvance
<1>1. ServerInv /\ [Next]_vars =>
        [\A c \in Clients : Busy(c) =>
           StepsLeft(c)' < StepsLeft(c) \/ UNCHANGED <<stage[c], calls[c]>>]_vars
  BY NextAdvances DEF ServerInv, RunInv
<1>. QED BY <1>1, ServerInvariance, PTL DEF Spec, StepsAdvance

\* From the deferred pool.Close on connections only come back, so it waits for no
\* more calls than were at work when run() returned.
THEOREM ClosedPoolDrains == Spec => PoolDrains
<1>1. ServerInv /\ [Next]_vars => [pool = "closed" => inUse' <= inUse]_vars
  <2>. SUFFICES ASSUME ServerInv, Next, pool = "closed" PROVE inUse' <= inUse
    BY DEF vars
  <2>1. inUse \in Nat BY Sizes DEF ServerInv, RunInv, TypeOK, RequestType
  <2>2. CASE inUse' \in {inUse, 0} BY <2>1, <2>2
  <2>3. CASE inUse' = inUse - 1 BY <2>1, <2>3
  <2>4. inUse' \in {inUse, 0} \/ inUse' = inUse - 1
    BY DEF Next, MainStep, Load, Connect, Start, BeginShutdown, ServerFailed, ShutdownRound,
           Expire, GiveUp, Return, Returning, Exit, Listen, AcceptFails, Signal, Kill, Restart,
           Receive, HandlerStep, Ask, Acquire, ReturnConnection, Answer, Log, Finish,
           CallFails, Hang, Panic
  <2>. QED BY <2>2, <2>3, <2>4
<1>. QED BY <1>1, ServerInvariance, PTL DEF Spec, PoolDrains
=============================================================================
