------------------------- MODULE HttpSessionProofs -------------------------
(***************************************************************************)
(* TLAPS proofs about the first handshake of HiveMindHTTPClient: parameters *)
(* and answers are handled twice, and yet both ends have the same key and  *)
(* nothing but a message dispatched outside any try ends the polling       *)
(* thread, whenever it polls and however many messages the hub sends.      *)
(***************************************************************************)
EXTENDS HttpSession, SequenceTheorems, TLAPS

\* Queues of one or two messages.
LEMMA Short ==
  ASSUME NEW a, NEW b
  PROVE  /\ Head(<<a>>) = a /\ Tail(<<a>>) = << >> /\ <<a>> # << >>
         /\ Head(<<a, b>>) = a /\ Tail(<<a, b>>) = <<b>> /\ <<a, b>> # << >>
         /\ <<a, b>> \o << >> = <<a, b>>
         /\ Append(<< >>, a) = <<a>> /\ Append(<<a>>, b) = <<a, b>>
<1>1. Head(<<a>>) = a /\ Tail(<<a>>) = << >> /\ <<a>> # << >>
  OBVIOUS
<1>2. Head(<<a, b>>) = a /\ <<a, b>> # << >>
  OBVIOUS
<1>3. Tail(<<a, b>>) = <<b>>
  OBVIOUS
<1>4. <<a, b>> \o << >> = <<a, b>>
  <2>1. <<a, b>> \in Seq({a, b})
    OBVIOUS
  <2> QED BY <2>1, ConcatEmptySeq
<1>5. Append(<< >>, a) = <<a>>
  OBVIOUS
<1>6. Append(<<a>>, b) = <<a, b>>
  <2>1. PICK S, s, u : S = {a, b} /\ s = <<a>> /\ u = <<a, b>>
    OBVIOUS
  <2>2. /\ s \in Seq(S) /\ Len(s) = 1 /\ s[1] = a /\ b \in S
        /\ u \in Seq(S) /\ Len(u) = 2 /\ u[1] = a /\ u[2] = b
    BY <2>1
  <2>3. /\ Append(s, b) \in Seq(S) /\ Len(Append(s, b)) = 2
        /\ Append(s, b)[1] = a /\ Append(s, b)[2] = b
    <3>1. Append(s, b) \in Seq(S)
      BY <2>2
    <3>2. Len(Append(s, b)) = 2
      BY <2>2
    <3>3. Append(s, b)[Len(s) + 1] = b /\ \A i \in 1 .. Len(s) : Append(s, b)[i] = s[i]
      BY <2>2
    <3>4. Len(s) + 1 = 2 /\ 1 \in 1 .. Len(s)
      BY <2>2
    <3>5. Append(s, b)[1] = a
      BY <2>2, <3>3, <3>4
    <3>6. Append(s, b)[2] = b
      BY <3>3, <3>4
    <3> QED BY <3>1, <3>2, <3>5, <3>6
  <2>4. Append(s, b) = u
    BY <2>2, <2>3, SeqEqual
  <2> QED BY <2>1, <2>4
<1> QED BY <1>1, <1>2, <1>3, <1>4, <1>5, <1>6

\* What the messages of the handshake are.
LEMMA Kinds ==
  /\ Hello.kind = "HELLO" /\ Params.kind = "PARAMS"
  /\ \A i \in Nat : Answer(i).kind = "ENVELOPE" /\ Answer(i).id = i
  BY DEF Hello, Params, Answer

\* Types are kept, and a client that is calm now was calm before.
LEMMA CalmBefore ==
  ASSUME Types, [Next]_vars
  PROVE  Types' /\ (Calm' => Calm)
<1>1. CASE UNCHANGED vars
  BY <1>1 DEF vars, Types, Calm, setting, hubVars
<1>2. CASE UNCHANGED <<pswd, made, setting, attempts, left>> /\ sent' \in Nat
  BY <1>2 DEF Types, Calm, setting
<1>3. CASE HubSends
  BY <1>2, <1>3 DEF HubSends, Types
<1>4. CASE Start \/ Wake \/ Loop \/ FetchFails \/ FetchText \/ FetchBinary \/ Leave
           \/ HandleHello \/ SendEnvelope \/ ReceiveEnvelope \/ ReceiveEnvelopeFails
           \/ SendHello \/ Finish \/ HandleData
  BY <1>2, <1>4
  DEF Start, Wake, Loop, FetchFails, FetchText, FetchBinary, Leave, HandleHello, SendEnvelope,
      ReceiveEnvelope, ReceiveEnvelopeFails, SendHello, Finish, HandleData,
      Polling, hubVars, TakesEnvelope, TakesHello, Forgotten, Types
<1>5. CASE HandleParams
  <2>1. /\ made' = made + 1 /\ pswd' = [pswd EXCEPT ![Protocol] = made']
        /\ UNCHANGED <<setting, attempts, left, sent>>
    BY <1>5 DEF HandleParams, hubVars
  <2> HIDE DEF Protocol
  <2>2. PICK n \in Nat : Len(pswd) = n /\ pswd \in [1 .. n -> Nat]
    BY DEF Types
  <2>3. made' \in Nat
    BY <2>1 DEF Types
  <2>4. pswd' \in [1 .. n -> Nat]
    BY <2>1, <2>2, <2>3
  <2>5. pswd' \in Seq(Nat) /\ Len(pswd') = n
    BY <2>2, <2>4
  <2> QED BY <2>1, <2>2, <2>3, <2>5 DEF Types, Calm, setting
<1>6. CASE Connect
  <2>1. /\ made' = made + 1 /\ pswd' = Append(pswd, made')
        /\ UNCHANGED <<setting, attempts, left, sent>>
    BY <1>6 DEF Connect, hubVars
  <2>2. pswd' \in Seq(Nat) /\ Len(pswd') = Len(pswd) + 1 /\ Len(pswd) \in Nat
    BY <2>1 DEF Types
  <2> QED BY <2>1, <2>2 DEF Types, Calm, setting
<1>7. CASE Retry
  BY <1>7 DEF Retry, Types, Calm, hubVars
<1>8. CASE Register \/ Connected \/ RetrySends \/ WaitReturns \/ Disconnected
  BY <1>2, <1>8
  DEF Register, Connected, RetrySends, WaitReturns, Disconnected, TakesEnvelope, hubVars, Types
<1>9. CASE Disconnect \/ Shutdown
  BY <1>9 DEF Disconnect, Shutdown, Forgotten, hubVars, Types, Calm
<1> QED
  BY <1>1, <1>3, <1>4, <1>5, <1>6, <1>7, <1>8, <1>9 DEF Next, Poll, App

-----------------------------------------------------------------------------
(* The stages of the handshake, one lemma each. *)

\* The end of a handler, with one protocol object: the first handling is
\* followed by that of the registered handler, which ends with the message.
LEMMA HandledOnce ==
  ASSUME Up, turn = 0, Handled
  PROVE  turn' = 1 /\ step' = "begin" /\ UNCHANGED <<worker, batch>>
  BY DEF Up, Handled

LEMMA HandledTwice ==
  ASSUME Up, turn = 1, Handled
  PROVE  /\ turn' = 0 /\ step' = "begin" /\ batch' = Tail(batch)
         /\ worker' = IF batch' = << >> THEN "loop" ELSE "handling"
  BY DEF Up, Handled

\* Before the hub knows the client, the polling thread can only start.
LEMMA BeforeHubStep ==
  ASSUME Types, Calm, Calm', ~stopped, BeforeHub, [Next]_vars
  PROVE  ~stopped' /\ (BeforeHub \/ Greeted)'
<1>1. CASE UNCHANGED vars
  BY <1>1 DEF vars, BeforeHub, NoKeyYet, Resting, Between, workerVars, flags, hubVars
<1>2. CASE HubSends
  BY <1>2 DEF HubSends, BeforeHub, NoKeyYet
<1>3. CASE Poll
  <2>1. Start
    BY <1>3
    DEF Poll, BeforeHub, Wake, Loop, FetchFails, FetchText, FetchBinary, Leave, HandleHello,
        HandleParams, SendEnvelope, ReceiveEnvelope, ReceiveEnvelopeFails, SendHello, Finish,
        HandleData, Handling
  <2> QED BY <2>1 DEF Start, BeforeHub, NoKeyYet, Resting, Between, Polling, hubVars
<1>4. CASE Connect
  <2>1. pswd' = Append(pswd, made') /\ made' = made + 1 /\ app' = "posting" /\ app # "posting"
        /\ app # "connecting"
        /\ UNCHANGED <<workerVars, flags, cryptoKey, hubVars>>
    BY <1>4 DEF Connect, MayConnect
  <2>2. Len(pswd') = 1
    BY <2>1 DEF BeforeHub, Types
  <2> QED BY <2>1, <2>2 DEF BeforeHub, NoKeyYet, Resting, Between, workerVars, flags, hubVars
<1>5. CASE App
  <2>1. CASE Register
    BY <2>1 DEF Register, BeforeHub, NoKeyYet, Resting, Between, workerVars, flags, Calm
  <2>2. CASE Connected
    BY <2>2 DEF Connected, BeforeHub, Greeted, Up, NoKeyYet, Resting, Between, workerVars,
                hubVars
  <2> QED
    BY <1>5, <2>1, <2>2
    DEF App, Retry, RetrySends, WaitReturns, Disconnected, BeforeHub
<1>6. ~Disconnect /\ ~Shutdown
  BY DEF Disconnect, Shutdown, Calm
<1> QED BY <1>1, <1>2, <1>3, <1>4, <1>5, <1>6 DEF Next

\* Once connected, the application of a calm client only waits.
LEMMA UpStep ==
  ASSUME Types, Calm, Calm', ~stopped, Up, [Next]_vars
  PROVE  \/ Poll \/ HubSends
         \/ /\ app' \in {"waiting", "up"}
            /\ UNCHANGED <<workerVars, flags, cryptoKey, pswd, hubVars>>
<1>1. CASE UNCHANGED vars
  BY <1>1 DEF vars, Up
<1>2. CASE WaitReturns
  BY <1>2 DEF WaitReturns
<1>3. ~Connect /\ ~Disconnect /\ ~Shutdown
  BY DEF Connect, MayConnect, Disconnect, Shutdown, Up, Calm
<1>5. ~Retry
  BY DEF Retry, Calm, Types
<1>4. ~Register /\ ~Connected /\ ~RetrySends /\ ~Disconnected
  BY DEF Register, Connected, RetrySends, Disconnected, Up
<1> QED BY <1>1, <1>2, <1>3, <1>4, <1>5 DEF Next, App

\* What the polling thread of a calm, connected client can do, by where it is.
LEMMA PollStep ==
  ASSUME Up, Calm, ~stopped, Poll
  PROVE  \/ worker \in {"new", "waiting", "loop"} /\ (Start \/ Wake \/ Loop)
         \/ worker = "text" /\ FetchText
         \/ worker = "binary" /\ FetchBinary
         \/ worker = "leaving"
         \/ worker = "handling" /\ Head(batch).kind = "HELLO" /\ HandleHello
         \/ /\ worker = "handling" /\ Head(batch).kind = "PARAMS"
            /\ \/ step = "begin" /\ HandleParams
               \/ step = "emit" /\ SendEnvelope
         \/ /\ worker = "handling" /\ Head(batch).kind = "ENVELOPE"
            /\ \/ step = "begin" /\ ReceiveEnvelope
               \/ step = "emit" /\ SendHello
               \/ step = "finish" /\ Finish
         \/ /\ worker = "handling" /\ Head(batch).kind \notin {"HELLO", "PARAMS", "ENVELOPE"}
            /\ HandleData
<1>1. ~FetchFails /\ ~ReceiveEnvelopeFails
  BY DEF FetchFails, ReceiveEnvelopeFails, Up, Calm
<1> QED
  BY <1>1 DEF Poll, Start, Wake, Loop, FetchText, FetchBinary, Leave, HandleHello, HandleParams,
              SendEnvelope, ReceiveEnvelope, SendHello, Finish, HandleData, Handling, Dispatched

\* Getting to the next fetch.
LEMMA LoopStep ==
  ASSUME ~stopped, Start \/ Wake \/ Loop
  PROVE  /\ worker' \in {"waiting", "loop", "text"} /\ ~stopped'
         /\ worker = "loop" => worker' = "text"
         /\ UNCHANGED <<batch, turn, step, app, connected, cryptoKey, pswd, hubVars>>
  BY DEF Start, Wake, Loop, Stops, Polling, flags

\* Steps of the application that a calm, connected client can take.
LEMMA WaitStep ==
  ASSUME Up, app' \in {"waiting", "up"}, UNCHANGED <<workerVars, flags, cryptoKey, pswd, hubVars>>
  PROVE  /\ Greeted => Greeted'
         /\ AnsweredOnce => AnsweredOnce'
         /\ AnsweredTwice => AnsweredTwice'
         /\ Agreed => Agreed'
         /\ stopped' = stopped
<1>1. /\ Up' /\ stopped' = stopped
      /\ UNCHANGED <<worker, batch, turn, step, cryptoKey, pswd, hubKey, hubReady, text, binary,
                     answers>>
  BY DEF Up, workerVars, flags, hubVars
<1>2. Greeted => Greeted'
  BY <1>1 DEF Greeted, NoKeyYet, Resting, Between, Within
<1>3. AnsweredOnce => AnsweredOnce'
  BY <1>1 DEF AnsweredOnce, NoKeyYet, Within
<1>4. AnsweredTwice => AnsweredTwice'
  BY <1>1 DEF AnsweredTwice, Resting, Between, Within
<1>5. Agreed => Agreed'
  BY <1>1 DEF Agreed, Resting, Between, Within, Sealed
<1> QED BY <1>1, <1>2, <1>3, <1>4, <1>5

\* The hub sends nothing before it has read a HELLO.
LEMMA HubWaits == NoKeyYet \/ ~hubReady => ~HubSends
  BY DEF HubSends, NoKeyYet

\* The greeting is fetched and handled; the first PasswordHandShake of a handler
\* replaces the one of bind(), and its envelope gets the first answer.
LEMMA GreetedStep ==
  ASSUME Types, Calm, Calm', ~stopped, Greeted, [Next]_vars
  PROVE  ~stopped' /\ (Greeted \/ AnsweredOnce)'
<1> DEFINE Goal == ~stopped' /\ (Greeted \/ AnsweredOnce)'
<1>0. Up /\ NoKeyYet /\ answers = 0 /\ Len(pswd) = 1
  BY DEF Greeted, Up
<1>1. CASE ~Poll
  BY <1>0, <1>1, UpStep, HubWaits, WaitStep
<1> SUFFICES ASSUME Poll PROVE Goal
  BY <1>1
<1>2. CASE /\ worker \in {"new", "waiting", "loop", "text"} /\ Resting
           /\ text = <<Hello, Params>>
  <2>1. CASE Start \/ Wake \/ Loop
    <3>1. /\ worker' \in {"waiting", "loop", "text"} /\ ~stopped'
          /\ UNCHANGED <<batch, turn, step, app, connected, cryptoKey, pswd, registered,
                         hubReady, text, binary, answers>>
      BY <2>1, LoopStep DEF hubVars
    <3>2. Resting' /\ Up' /\ NoKeyYet' /\ text' = <<Hello, Params>> /\ answers' = 0
      BY <1>0, <1>2, <3>1 DEF Up, NoKeyYet, Resting, Between, Hello, Params
    <3> QED BY <3>1, <3>2 DEF Greeted, Hello, Params
  <2>2. CASE FetchText
    <3>1. /\ worker' = "binary" /\ batch' = <<Hello, Params>> /\ text' = << >> /\ ~stopped'
          /\ UNCHANGED <<turn, step, app, connected, cryptoKey, pswd, registered, hubReady,
                         binary, answers>>
      BY <1>2, <2>2 DEF FetchText, flags, Polling
    <3> QED BY <1>0, <1>2, <3>1 DEF Greeted, Up, NoKeyYet, Resting, Between
  <2> QED BY <1>0, <1>2, <2>1, <2>2, PollStep
<1>3. CASE worker = "binary" /\ batch = <<Hello, Params>> /\ Between /\ text = << >>
  <2>1. FetchBinary
    BY <1>0, <1>3, PollStep
  <2>2. batch' = <<Hello, Params>> /\ batch' # << >>
    BY <1>0, <1>3, <2>1, Short DEF FetchBinary, NoKeyYet
  <2>3. /\ worker' = "handling" /\ binary' = << >> /\ ~stopped'
        /\ UNCHANGED <<turn, step, app, connected, cryptoKey, pswd, registered, hubReady,
                       text, answers>>
    BY <2>1, <2>2 DEF FetchBinary, flags, Polling
  <2> QED BY <1>0, <1>3, <2>2, <2>3 DEF Greeted, Up, NoKeyYet, Between, Within
<1>4. CASE Within(<<Hello, Params>>) /\ step = "begin" /\ text = << >>
  <2>1. Head(batch) = Hello /\ Tail(batch) = <<Params>> /\ <<Params>> # << >>
    BY <1>4, Short DEF Within
  <2>2. HandleHello
    BY <1>0, <1>4, <2>1, PollStep, Kinds DEF Within
  <2>3. Handled /\ UNCHANGED <<stopped, connected, hubVars, app, cryptoKey, pswd>>
    BY <2>2 DEF HandleHello, flags, Polling
  <2>4. Up' /\ NoKeyYet' /\ answers' = 0 /\ text' = << >>
    BY <1>0, <1>4, <2>3 DEF Up, NoKeyYet, hubVars
  <2>5. CASE turn = 0
    <3>1. Within(<<Hello, Params>>)' /\ step' = "begin"
      BY <1>0, <1>4, <2>3, <2>5, HandledOnce DEF Within
    <3> QED BY <2>3, <2>4, <3>1 DEF Greeted
  <2>6. CASE turn = 1
    <3>1. Within(<<Params>>)' /\ turn' = 0 /\ step' = "begin"
      BY <1>0, <1>4, <2>1, <2>3, <2>6, HandledTwice DEF Within
    <3> QED BY <2>3, <2>4, <3>1 DEF Greeted
  <2> QED BY <1>4, <2>5, <2>6 DEF Within
<1>5. CASE Within(<<Params>>) /\ turn = 0 /\ step \in {"begin", "emit"} /\ text = << >>
  <2>1. Head(batch).kind = "PARAMS"
    BY <1>5, Short, Kinds DEF Within
  <2>2. CASE HandleParams
    <3>1. /\ step' = "emit" /\ ~stopped'
          /\ UNCHANGED <<worker, batch, turn, app, connected, cryptoKey, hubVars>>
          /\ pswd' = [pswd EXCEPT ![Protocol] = made']
      BY <2>2 DEF HandleParams, flags
    <3>2. Len(pswd') = 1
      BY <1>0, <3>1 DEF Types, Protocol
    <3> QED BY <1>0, <1>5, <3>1, <3>2 DEF Greeted, Up, NoKeyYet, Within, hubVars
  <2>3. CASE SendEnvelope
    <3>1. CanRead /\ connected /\ reliable
      BY <1>0 DEF CanRead, Up, NoKeyYet, Calm
    <3>2. TakesEnvelope(pswd[Protocol]) /\ Handled
          /\ UNCHANGED <<stopped, connected, app, cryptoKey, pswd>>
      BY <2>3, <3>1 DEF SendEnvelope, flags, Polling
    <3>3. /\ answers' = 1 /\ text' = <<Answer(1)>>
          /\ UNCHANGED <<registered, hubReady, binary>>
      BY <1>0, <1>5, <3>1, <3>2, Short DEF TakesEnvelope, Answer
    <3>4. turn' = 1 /\ step' = "begin" /\ UNCHANGED <<worker, batch>>
      BY <1>0, <1>5, <3>2, HandledOnce
    <3> QED BY <1>0, <1>5, <3>2, <3>3, <3>4 DEF AnsweredOnce, Up, NoKeyYet, Within
  <2> QED BY <1>0, <1>5, <2>1, <2>2, <2>3, PollStep DEF Within
<1> QED BY <1>2, <1>3, <1>4, <1>5 DEF Greeted

\* The registered handler handles the parameters again: a third
\* PasswordHandShake, a second answer, and the hub moves on to its key.
LEMMA AnsweredOnceStep ==
  ASSUME Types, Calm, Calm', ~stopped, AnsweredOnce, [Next]_vars
  PROVE  ~stopped' /\ (AnsweredOnce \/ AnsweredTwice)'
<1>0. Up /\ NoKeyYet /\ answers = 1 /\ Len(pswd) = 1 /\ text = <<Answer(1)>>
      /\ Within(<<Params>>) /\ turn = 1 /\ step \in {"begin", "emit"}
  BY DEF AnsweredOnce, Up
<1>1. CASE ~Poll
  BY <1>0, <1>1, UpStep, HubWaits, WaitStep
<1>2. Head(batch).kind = "PARAMS" /\ Tail(batch) = << >>
  BY <1>0, Short, Kinds DEF Within
<1>3. CASE HandleParams
  <2>1. /\ step' = "emit" /\ ~stopped'
        /\ UNCHANGED <<worker, batch, turn, app, connected, cryptoKey, hubVars>>
        /\ pswd' = [pswd EXCEPT ![Protocol] = made']
    BY <1>3 DEF HandleParams, flags
  <2>2. Len(pswd') = 1
    BY <1>0, <2>1 DEF Types, Protocol
  <2> QED BY <1>0, <2>1, <2>2 DEF AnsweredOnce, Up, NoKeyYet, Within, hubVars
<1>4. CASE SendEnvelope
  <2>1. CanRead /\ connected /\ reliable /\ Protocol = 1
    BY <1>0 DEF CanRead, Up, NoKeyYet, Calm, Protocol
  <2>2. TakesEnvelope(pswd[1]) /\ Handled
        /\ UNCHANGED <<stopped, connected, app, cryptoKey, pswd>>
    BY <1>4, <2>1 DEF SendEnvelope, flags, Polling
  <2>3. /\ answers' = 2 /\ text' = <<Answer(1), Answer(2)>> /\ hubKey' = <<pswd[1], 2>>
        /\ UNCHANGED <<registered, hubReady, binary>>
    BY <1>0, <2>1, <2>2, Short DEF TakesEnvelope, Answer
  <2>4. turn' = 0 /\ step' = "begin" /\ batch' = << >> /\ worker' = "loop"
    BY <1>0, <1>2, <2>2, HandledTwice
  <2> QED BY <1>0, <2>2, <2>3, <2>4 DEF AnsweredTwice, Up, NoKeyYet, Resting, Between
<1> QED BY <1>0, <1>1, <1>2, <1>3, <1>4, PollStep DEF Within

\* The first answer is handled twice with the last PasswordHandShake, and the
\* key it gives is not the hub's: the hub reads no HELLO yet.
LEMMA AnsweredTwiceStep ==
  ASSUME Types, Calm, Calm', ~stopped, AnsweredTwice, [Next]_vars
  PROVE  ~stopped' /\ (AnsweredTwice \/ Agreed)'
<1> DEFINE Goal == ~stopped' /\ (AnsweredTwice \/ Agreed)'
           AA == <<Answer(1), Answer(2)>>
<1>0. /\ Up /\ answers = 2 /\ hubKey = <<pswd[1], 2>> /\ Len(pswd) = 1
      /\ cryptoKey \in {None, <<pswd[1], 1>>} /\ ~hubReady /\ binary = << >>
      /\ turn \in {0, 1} => Protocol = 1
  BY DEF AnsweredTwice, Up, Protocol
<1>1. CASE ~Poll
  BY <1>0, <1>1, UpStep, HubWaits, WaitStep
<1> SUFFICES ASSUME Poll PROVE Goal
  BY <1>1
<1>a. AA # << >> /\ AA \o << >> = AA /\ Head(AA) = Answer(1) /\ Tail(AA) = <<Answer(2)>>
      /\ Head(<<Answer(2)>>) = Answer(2) /\ <<Answer(2)>> # << >>
  BY Short
<1>2. CASE worker \in {"loop", "text"} /\ Resting /\ text = AA
  <2> HIDE DEF AA
  <2>1. CASE Start \/ Wake \/ Loop
    <3>1. worker = "loop"
      BY <1>2, <2>1 DEF Start, Wake, Loop
    <3>2. /\ worker' = "text" /\ ~stopped'
          /\ UNCHANGED <<batch, turn, step, app, connected, cryptoKey, pswd, registered,
                         hubKey, hubReady, text, binary, answers>>
      BY <2>1, <3>1, LoopStep DEF hubVars
    <3>3. Resting' /\ Up'
      BY <1>0, <1>2, <3>2 DEF Up, Resting, Between
    <3> QED BY <1>0, <1>2, <3>2, <3>3 DEF AnsweredTwice, AA, Answer
  <2>2. CASE FetchText
    <3>1. /\ worker' = "binary" /\ batch' = AA /\ text' = << >> /\ ~stopped'
          /\ UNCHANGED <<turn, step, app, connected, cryptoKey, pswd, registered, hubKey,
                         hubReady, binary, answers>>
      BY <1>2, <2>2 DEF FetchText, flags, Polling
    <3>2. Up' /\ Between'
      BY <1>0, <1>2, <3>1 DEF Up, Resting, Between
    <3> QED BY <1>0, <3>1, <3>2 DEF AnsweredTwice, AA, Answer
  <2> QED BY <1>0, <1>2, <2>1, <2>2, PollStep
<1>3. CASE worker = "binary" /\ batch = AA /\ Between /\ text = << >>
  <2> HIDE DEF AA
  <2>1. FetchBinary
    BY <1>0, <1>3, PollStep
  <2>2. /\ batch' = AA /\ worker' = "handling" /\ binary' = << >> /\ ~stopped'
        /\ UNCHANGED <<turn, step, app, connected, cryptoKey, pswd, registered, hubKey,
                       hubReady, text, answers>>
    BY <1>0, <1>3, <1>a, <2>1 DEF FetchBinary, flags, Polling
  <2>3. Up' /\ Within(AA)' /\ step' = "begin"
    BY <1>0, <1>3, <2>2 DEF Up, Between, Within, AA, Answer
  <2> QED BY <1>0, <1>3, <2>2, <2>3 DEF AnsweredTwice, AA, Answer
<1>4. CASE Within(AA) /\ step \in {"begin", "emit", "finish"} /\ text = << >>
  <2> HIDE DEF AA
  <2>1. Head(batch) = Answer(1) /\ Head(batch).kind = "ENVELOPE" /\ Head(batch).id = 1
        /\ turn \in {0, 1} /\ worker = "handling" /\ batch = AA
    BY <1>4, <1>a, Kinds DEF Within
  <2>2. CASE step = "begin" /\ ReceiveEnvelope
    <3>1. /\ cryptoKey' = <<pswd[1], 1>> /\ step' = "emit" /\ ~stopped'
          /\ UNCHANGED <<worker, batch, turn, app, connected, pswd, hubVars>>
      BY <1>0, <2>1, <2>2 DEF ReceiveEnvelope, KeyOf, flags
    <3>2. Up' /\ Within(AA)'
      BY <1>0, <1>4, <3>1 DEF Up, Within, hubVars, AA, Answer
    <3> QED BY <1>0, <1>4, <3>1, <3>2 DEF AnsweredTwice, hubVars, AA, Answer
  <2>3. CASE step = "emit" /\ SendHello
    <3>1. CanRead => cryptoKey = None
      BY <1>0 DEF CanRead
    <3>2. /\ step' = "finish" /\ ~hubReady' /\ ~stopped'
          /\ UNCHANGED <<worker, batch, turn, app, connected, cryptoKey, pswd, registered,
                         hubKey, text, binary, answers>>
      BY <1>0, <2>3, <3>1 DEF SendHello, TakesHello, Up, Calm, flags, Polling
    <3>3. Up' /\ Within(AA)'
      BY <1>0, <1>4, <3>2 DEF Up, Within, AA, Answer
    <3> QED BY <1>0, <1>4, <3>2, <3>3 DEF AnsweredTwice, AA, Answer
  <2>4. CASE step = "finish" /\ Finish
    <3>1. Handled /\ ~stopped' /\ UNCHANGED <<app, connected, cryptoKey, pswd, hubVars>>
      BY <2>4 DEF Finish, Polling
    <3>2. Up' /\ answers' = 2 /\ hubKey' = <<pswd[1], 2>> /\ ~hubReady' /\ binary' = << >>
          /\ text' = << >> /\ pswd' = pswd /\ cryptoKey' \in {None, <<pswd[1], 1>>}
      BY <1>0, <1>4, <3>1 DEF Up, hubVars
    <3>3. CASE turn = 0
      <4>1. Within(AA)' /\ step' = "begin"
        BY <1>0, <2>1, <3>1, <3>3, HandledOnce DEF Within, AA, Answer
      <4> QED BY <3>1, <3>2, <4>1 DEF AnsweredTwice, AA, Answer
    <3>4. CASE turn = 1
      <4>1. Within(<<Answer(2)>>)' /\ Between'
        BY <1>0, <1>a, <2>1, <3>1, <3>4, HandledTwice DEF Within, Between, Answer
      <4> QED BY <3>1, <3>2, <4>1 DEF AnsweredTwice, Answer
    <3> QED BY <2>1, <3>3, <3>4
  <2> QED BY <1>0, <2>1, <2>2, <2>3, <2>4, PollStep
<1>5. CASE Within(<<Answer(2)>>) /\ Between /\ text = << >>
  <2>1. Head(batch).kind = "ENVELOPE" /\ Head(batch).id = 2 /\ step = "begin" /\ turn = 0
        /\ worker = "handling"
    BY <1>5, <1>a, Kinds DEF Within, Between
  <2>2. ReceiveEnvelope
    BY <1>0, <2>1, PollStep
  <2>3. /\ cryptoKey' = <<pswd[1], 2>> /\ step' = "emit" /\ ~stopped'
        /\ UNCHANGED <<worker, batch, turn, app, connected, pswd, registered, hubKey, hubReady,
                       text, binary, answers>>
    BY <1>0, <2>1, <2>2 DEF ReceiveEnvelope, KeyOf, flags, hubVars
  <2>4. Up' /\ Within(<<Answer(2)>>)'
    BY <1>0, <1>5, <2>3 DEF Up, Within, Answer
  <2>5. text' \in Seq(Sealed') /\ binary' \in Seq(Sealed')
    BY <1>0, <1>5, <2>3
  <2> QED BY <1>0, <2>3, <2>4, <2>5 DEF Agreed, Answer
<1> HIDE DEF AA
<1> QED BY <1>2, <1>3, <1>4, <1>5 DEF AnsweredTwice, AA

\* What the hub sends from then on carries its key.
LEMMA HubSendsSealed ==
  ASSUME Types, text \in Seq(Sealed), binary \in Seq(Sealed), HubSends
  PROVE  text' \in Seq(Sealed') /\ binary' \in Seq(Sealed')
<1>1. PICK m, S : /\ m.kind \in Dispatched \cup {"BINARY"}
                  /\ m = [kind |-> m.kind, id |-> sent + 1, key |-> hubKey] /\ S = Sealed
                  /\ \/ text' = Append(text, m) /\ binary' = binary
                     \/ binary' = Append(binary, m) /\ text' = text
  <2>1. CASE \E kind \in Dispatched :
               /\ text' = Append(text, [kind |-> kind, id |-> sent + 1, key |-> hubKey])
               /\ binary' = binary
    BY <2>1
  <2>2. CASE /\ binary' = Append(binary, [kind |-> "BINARY", id |-> sent + 1, key |-> hubKey])
             /\ text' = text
    BY <2>2
  <2> QED BY <2>1, <2>2 DEF HubSends
<1>2. m \in S /\ Sealed' = S
  BY <1>1 DEF Sealed, Types, HubSends
<1>4. text \in Seq(S) /\ binary \in Seq(S)
  BY <1>1
<1>5. Append(text, m) \in Seq(S) /\ Append(binary, m) \in Seq(S)
  BY <1>2, <1>4
<1> QED BY <1>1, <1>2, <1>4, <1>5

\* The second answer gives the hub's key, the hub reads a HELLO, and whatever
\* it sends can be opened.
LEMMA AgreedStep ==
  ASSUME Types, Calm, Calm', ~stopped, Agreed, [Next]_vars
  PROVE  ~stopped' /\ (Agreed \/ Over)'
<1> DEFINE Goal == ~stopped' /\ (Agreed \/ Over)'
           Taking == Within(<<Answer(2)>>) /\ step \in {"begin", "emit", "finish"}
                     /\ (step = "finish" => hubReady)
           Running == /\ hubReady /\ batch \in Seq(Sealed) /\ step = "begin"
                      /\ \/ worker \in {"loop", "text"} /\ Resting
                         \/ worker = "binary" /\ turn = 0
                         \/ worker = "handling" /\ turn \in {0, 1} /\ batch # << >>
<1>0. /\ Up /\ answers = 2 /\ hubKey = <<pswd[1], 2>> /\ cryptoKey = hubKey
      /\ text \in Seq(Sealed) /\ binary \in Seq(Sealed) /\ Len(pswd) = 1
      /\ turn \in {0, 1} => Protocol = 1
  BY DEF Agreed, Up, Protocol
<1>1. Taking \/ Running
  BY DEF Agreed
<1>2. ASSUME Up', answers' = 2, hubKey' = <<pswd'[1], 2>>, cryptoKey' = hubKey',
             text' \in Seq(Sealed'), binary' \in Seq(Sealed'), ~stopped', Taking' \/ Running'
      PROVE  Goal
  BY <1>2 DEF Agreed
<1>3. CASE HubSends
  <2>1. text' \in Seq(Sealed') /\ binary' \in Seq(Sealed')
    BY <1>0, <1>3, HubSendsSealed
  <2>2. /\ UNCHANGED <<worker, batch, turn, step, app, stopped, connected, cryptoKey, pswd,
                       registered, hubKey, hubReady, answers>>
    BY <1>3 DEF HubSends, workerVars, flags
  <2>3. Up' /\ Sealed' = Sealed
    BY <1>0, <2>2 DEF Up, Sealed
  <2>4. Taking' \/ Running'
    <3>1. CASE Taking
      BY <2>2, <3>1 DEF Within, Answer
    <3>2. CASE Running
      BY <2>2, <2>3, <3>2 DEF Resting, Between
    <3> QED BY <1>1, <3>1, <3>2
  <2> QED BY <1>0, <1>2, <2>1, <2>2, <2>3, <2>4
<1>4. CASE ~Poll /\ ~HubSends
  BY <1>0, <1>4, UpStep, WaitStep
<1> SUFFICES ASSUME Poll PROVE Goal
  BY <1>3, <1>4
<1>5. CASE Taking
  <2>1. /\ Head(batch).kind = "ENVELOPE" /\ Head(batch).id = 2 /\ Tail(batch) = << >>
        /\ turn \in {0, 1} /\ worker = "handling" /\ batch = <<Answer(2)>>
        /\ step \in {"begin", "emit", "finish"} /\ (step = "finish" => hubReady)
    <3>1. batch = <<Answer(2)>> /\ Head(batch) = Answer(2) /\ Tail(batch) = << >>
      BY <1>5, Short DEF Within
    <3> QED BY <1>5, <3>1, Kinds DEF Within
  <2>2. CASE step = "begin" /\ ReceiveEnvelope
    <3>1. /\ cryptoKey' = <<pswd[1], 2>> /\ step' = "emit" /\ ~stopped'
          /\ UNCHANGED <<worker, batch, turn, app, connected, pswd, registered, hubKey,
                         hubReady, text, binary, answers>>
      BY <1>0, <2>1, <2>2 DEF ReceiveEnvelope, KeyOf, flags, hubVars
    <3>2. Up' /\ Taking' /\ Sealed' = Sealed
      BY <1>0, <1>5, <3>1 DEF Up, Within, Sealed, Answer
    <3> HIDE DEF Taking, Running
    <3> QED BY <1>0, <1>2, <3>1, <3>2
  <2>3. CASE step = "emit" /\ SendHello
    <3>1. CanRead /\ cryptoKey # None
      <4>1. pswd[1] \in Nat
        <5>1. pswd \in Seq(Nat) /\ 1 \in 1 .. Len(pswd)
          BY <1>0 DEF Types
        <5> QED BY <5>1
      <4>2. hubKey # None
        BY <1>0, <4>1, HttpAssumption
      <4> QED BY <1>0, <4>2 DEF CanRead, Up
    <3>2. /\ step' = "finish" /\ hubReady' /\ ~stopped'
          /\ UNCHANGED <<worker, batch, turn, app, connected, cryptoKey, pswd, registered,
                         hubKey, text, binary, answers>>
      BY <1>0, <2>3, <3>1 DEF SendHello, TakesHello, Up, Calm, flags, Polling
    <3>3. Up' /\ Taking' /\ Sealed' = Sealed
      BY <1>0, <1>5, <3>2 DEF Up, Within, Sealed, Answer
    <3> HIDE DEF Taking, Running
    <3> QED BY <1>0, <1>2, <3>2, <3>3
  <2>4. CASE step = "finish" /\ Finish
    <3>1. Handled /\ ~stopped' /\ UNCHANGED <<app, connected, cryptoKey, pswd, hubVars>>
      BY <2>4 DEF Finish, Polling
    <3>2. /\ UNCHANGED <<registered, hubKey, hubReady, text, binary, answers>>
          /\ Up' /\ Sealed' = Sealed
      BY <1>0, <3>1 DEF Up, hubVars, Sealed
    <3>3. CASE turn = 0
      <4>1. Taking'
        BY <1>0, <2>1, <3>1, <3>3, HandledOnce DEF Within, Answer
      <4> HIDE DEF Taking, Running
      <4> QED BY <1>0, <1>2, <3>1, <3>2, <4>1
    <3>4. CASE turn = 1
      <4>1. turn' = 0 /\ step' = "begin" /\ batch' = << >> /\ worker' = "loop"
        BY <1>0, <2>1, <3>1, <3>4, HandledTwice
      <4>2. Running'
        BY <2>1, <2>4, <3>2, <4>1 DEF Resting, Between
      <4> HIDE DEF Taking, Running
      <4> QED BY <1>0, <1>2, <3>1, <3>2, <4>2
    <3> QED BY <2>1, <3>3, <3>4
  <2> QED BY <1>0, <2>1, <2>2, <2>3, <2>4, PollStep
<1>6. CASE Running
  <2>0. PICK S : S = Sealed
    OBVIOUS
  <2>1. batch \in Seq(S) /\ text \in Seq(S) /\ binary \in Seq(S)
    BY <1>0, <1>6, <2>0
  <2>2. ASSUME UNCHANGED <<app, connected, cryptoKey, pswd, registered, hubKey, hubReady, answers>>,
               ~stopped', text' \in Seq(S), binary' \in Seq(S), batch' \in Seq(S),
               step' = "begin",
               \/ worker' \in {"loop", "text"} /\ batch' = << >> /\ turn' = 0
               \/ worker' = "binary" /\ turn' = 0
               \/ worker' = "handling" /\ turn' \in {0, 1} /\ batch' # << >>
        PROVE  Goal
    <3>1. Up' /\ Sealed' = S
      BY <1>0, <2>0, <2>2 DEF Up, Sealed
    <3>2. Running'
      BY <1>6, <2>2, <3>1 DEF Resting, Between
    <3> HIDE DEF Taking, Running
    <3> QED BY <1>0, <1>2, <2>2, <3>1, <3>2
  <2>3. CASE worker \in {"loop", "text"} /\ Resting
    <3>1. CASE Start \/ Wake \/ Loop
      <4>1. worker = "loop"
        BY <2>3, <3>1 DEF Start, Wake, Loop
      <4>2. /\ worker' = "text" /\ ~stopped'
            /\ UNCHANGED <<batch, turn, step, app, connected, cryptoKey, pswd, registered,
                           hubKey, hubReady, text, binary, answers>>
        BY <3>1, <4>1, LoopStep DEF hubVars
      <4> QED BY <2>1, <2>2, <2>3, <4>2 DEF Resting, Between
    <3>2. CASE FetchText
      <4>1. /\ worker' = "binary" /\ batch' = text /\ text' = << >> /\ ~stopped'
            /\ UNCHANGED <<turn, step, app, connected, cryptoKey, pswd, registered, hubKey,
                           hubReady, binary, answers>>
        BY <3>2 DEF FetchText, flags, Polling
      <4>2. text' \in Seq(S)
        BY <4>1
      <4> QED BY <2>1, <2>2, <2>3, <4>1, <4>2 DEF Resting, Between
    <3> QED BY <1>0, <2>3, <3>1, <3>2, PollStep
  <2>4. CASE worker = "binary" /\ turn = 0
    <3>1. FetchBinary
      BY <1>0, <2>4, PollStep
    <3>2. /\ batch' = batch \o binary /\ binary' = << >> /\ ~stopped'
          /\ worker' = IF batch' = << >> THEN "loop" ELSE "handling"
          /\ UNCHANGED <<turn, step, app, connected, cryptoKey, pswd, registered, hubKey,
                         hubReady, text, answers>>
      BY <3>1 DEF FetchBinary, flags, Polling
    <3>3. batch' \in Seq(S) /\ binary' \in Seq(S)
      <4>1. batch \o binary \in Seq(S)
        BY <2>1, ConcatProperties
      <4> QED BY <3>2, <4>1
    <3> QED BY <1>6, <2>1, <2>2, <2>4, <3>2, <3>3
  <2>5. CASE worker = "handling" /\ turn \in {0, 1} /\ batch # << >>
    <3>1. Head(batch) \in S /\ Tail(batch) \in Seq(S)
      BY <2>1, <2>5
    <3>2. Head(batch).kind \in Dispatched \cup {"BINARY"} /\ Head(batch).key = hubKey
      BY <2>0, <3>1 DEF Sealed
    <3>3. HandleData
      BY <1>0, <2>5, <3>2, PollStep DEF Dispatched
    <3>4. Handled \/ Passed \/ Dies
      BY <1>0, <2>5, <3>2, <3>3 DEF HandleData, CannotOpen, Dispatch
    <3>5. UNCHANGED <<stopped, app, connected, cryptoKey, pswd, hubVars>>
      BY <3>3 DEF HandleData, flags, Polling
    <3>6. CASE Dies
      BY <3>5, <3>6 DEF Dies, Over
    <3>7. ASSUME Handled \/ Passed
          PROVE
          \/ turn' = 1 /\ step' = "begin" /\ UNCHANGED <<worker, batch>>
          \/ /\ turn' = 0 /\ step' = "begin" /\ batch' = Tail(batch)
             /\ worker' = IF batch' = << >> THEN "loop" ELSE "handling"
      BY <1>0, <2>5, <3>7, HandledOnce, HandledTwice DEF Passed
    <3>8. CASE Handled \/ Passed
      BY <2>1, <2>2, <2>5, <3>1, <3>5, <3>7, <3>8 DEF hubVars
    <3> QED BY <3>4, <3>6, <3>8
  <2> QED BY <1>6, <2>3, <2>4, <2>5
<1> QED BY <1>1, <1>5, <1>6

\* A thread that has ended stays that way.
LEMMA OverStep ==
  ASSUME Over, Calm, Calm', ~stopped, [Next]_vars
  PROVE  ~stopped' /\ Over'
<1>1. CASE UNCHANGED vars
  BY <1>1 DEF vars, Over, workerVars, flags
<1>2. CASE HubSends \/ Connect \/ App
  BY <1>2 DEF HubSends, Connect, App, Register, Connected, Retry, RetrySends, WaitReturns,
              Disconnected, Over, workerVars, flags
<1>3. ~Poll
  BY DEF Poll, Over, Start, Wake, Loop, FetchFails, FetchText, FetchBinary, Leave, HandleHello,
         HandleParams, SendEnvelope, ReceiveEnvelope, ReceiveEnvelopeFails, SendHello, Finish,
         HandleData, Handling
<1>4. ~Disconnect /\ ~Shutdown
  BY DEF Disconnect, Shutdown, Calm
<1> QED BY <1>1, <1>2, <1>3, <1>4 DEF Next

-----------------------------------------------------------------------------
LEMMA NextHttp == HttpInv /\ [Next]_vars => HttpInv'
<1> SUFFICES ASSUME HttpInv, [Next]_vars PROVE HttpInv'
  OBVIOUS
<1>1. Types /\ Types' /\ (Calm' => Calm)
  BY CalmBefore DEF HttpInv
<1> SUFFICES ASSUME Calm, Calm'
             PROVE /\ ~stopped'
                   /\ \/ BeforeHub' \/ Greeted' \/ AnsweredOnce' \/ AnsweredTwice'
                      \/ Agreed' \/ Over'
  BY <1>1 DEF HttpInv
<1>2. ~stopped /\ (BeforeHub \/ Greeted \/ AnsweredOnce \/ AnsweredTwice \/ Agreed \/ Over)
  BY DEF HttpInv
<1> QED
  BY <1>1, <1>2, BeforeHubStep, GreetedStep, AnsweredOnceStep, AnsweredTwiceStep, AgreedStep,
     OverStep

\* The handshake of an undisturbed client goes through its stages, in order, and
\* everything the hub sends afterwards is sealed with the common key, until some
\* message ends the polling thread.
THEOREM HttpInvariance == Spec => []HttpInv
<1>1. Init => HttpInv
  BY DEF Init, HttpInv, Types, BeforeHub, NoKeyYet, Resting, Between
<1> QED BY <1>1, NextHttp, PTL DEF Spec

\* Once what arrived is handled, both ends have the same key and the hub has
\* read a HELLO, although each message of the handshake is handled twice.
THEOREM HttpKeysAgree == Spec => []KeysAgree
<1>1. HttpInv => KeysAgree
  <2> SUFFICES ASSUME HttpInv, Undisturbed, handshakeEvent, worker = "loop", text = << >>
               PROVE  cryptoKey = hubKey /\ hubReady
    BY DEF KeysAgree
  <2>1. BeforeHub \/ Greeted \/ AnsweredOnce \/ AnsweredTwice \/ Agreed
    BY DEF HttpInv, Undisturbed, Calm, Over
  <2>2. <<Hello, Params>> # << >> /\ <<Answer(1), Answer(2)>> # << >> /\ <<Answer(1)>> # << >>
    BY Short
  <2>3. Agreed
    BY <2>1, <2>2 DEF BeforeHub, Greeted, AnsweredOnce, AnsweredTwice, Within
  <2> QED BY <2>3 DEF Agreed, Within
<1> QED BY HttpInvariance, <1>1, PTL

\* In no stage does a message of the handshake, a fetch, or a key that does not
\* fit raise.
LEMMA DeathStep ==
  ASSUME HttpInv, Undisturbed, worker # "dead", [Next]_vars, worker' = "dead"
  PROVE  /\ worker = "handling" /\ turn = 0
         /\ Head(batch).kind \in Dispatched /\ Head(batch).key = cryptoKey
<1>1. /\ Calm /\ ~stopped
      /\ BeforeHub \/ Greeted \/ AnsweredOnce \/ AnsweredTwice \/ Agreed
  BY DEF HttpInv, Undisturbed, Calm, Over
<1>2. Poll
  BY DEF Next, vars, workerVars, HubSends, Connect, App, Register, Connected, Retry, RetrySends,
         WaitReturns, Disconnected, Disconnect, Shutdown
<1>3. CASE BeforeHub
  BY <1>2, <1>3
  DEF Poll, BeforeHub, Start, Wake, Loop, FetchFails, FetchText, FetchBinary, Leave, HandleHello,
      HandleParams, SendEnvelope, ReceiveEnvelope, ReceiveEnvelopeFails, SendHello, Finish,
      HandleData, Handling
<1>4. CASE ~BeforeHub
  <2>1. Up
    BY <1>1, <1>4 DEF Greeted, AnsweredOnce, AnsweredTwice, Agreed
  <2>2. ~Handled \/ worker \notin {"handling"}
    BY DEF Handled
  <2>3. connected /\ reliable
    BY <1>1, <2>1 DEF Up, Calm
  <2>4. ~Leave
    BY <2>3 DEF Leave
  <2>5. ~Start /\ ~Wake /\ ~Loop /\ ~FetchText /\ ~FetchBinary
    BY DEF Start, Wake, Loop, FetchText, FetchBinary
  <2>6. ~HandleHello /\ ~HandleParams /\ ~SendEnvelope /\ ~ReceiveEnvelope /\ ~SendHello /\ ~Finish
    BY <2>2, <2>3
    DEF HandleHello, HandleParams, SendEnvelope, ReceiveEnvelope, SendHello, Finish, Handling
  <2>7. worker = "handling" /\ HandleData
    <3>1. worker # "leaving"
      BY <1>1, <1>4 DEF Greeted, AnsweredOnce, AnsweredTwice, Agreed, Within
    <3> QED BY <1>1, <1>2, <2>1, <2>5, <2>6, <3>1, PollStep
  <2>8. ~Passed
    BY DEF Passed
  <2>9. CannotOpen \/ Dispatch
    BY <2>2, <2>7 DEF HandleData
  <2>10. Agreed
    <3>1. Head(batch).kind \in Dispatched \cup {"BINARY"}
      BY <2>7 DEF HandleData
    <3>2. ~Greeted /\ ~AnsweredOnce /\ ~AnsweredTwice
      BY <2>7, <3>1, Short, Kinds
      DEF Greeted, AnsweredOnce, AnsweredTwice, Within, Dispatched
    <3> QED BY <1>1, <1>4, <3>2
  <2>11. Head(batch).key = cryptoKey
    <3>1. Head(batch).kind # "ENVELOPE"
      BY <2>7 DEF HandleData, Dispatched
    <3>2. batch # <<Answer(2)>>
      BY <3>1, Short, Kinds
    <3>3. batch \in Seq(Sealed) /\ batch # << >> /\ cryptoKey = hubKey
      BY <2>7, <2>10, <3>2 DEF Agreed, Within
    <3>4. PICK S : S = Sealed
      OBVIOUS
    <3>5. Head(batch) \in S
      BY <3>3, <3>4
    <3> QED BY <3>3, <3>4, <3>5 DEF Sealed
  <2> QED BY <2>2, <2>7, <2>8, <2>9, <2>11 DEF CannotOpen, Dispatch
<1> QED BY <1>3, <1>4

\* Only a message that an undisturbed client has opened, and dispatches outside
\* any try, ends its polling thread.
THEOREM HttpEndsInDispatchOnly == Spec => EndsInDispatchOnly
<1>1. HttpInv /\ [Next]_vars =>
        [Undisturbed /\ worker # "dead" /\ worker' = "dead" =>
           /\ worker = "handling" /\ turn = 0
           /\ Head(batch).kind \in Dispatched /\ Head(batch).key = cryptoKey]_vars
  BY DeathStep
<1> QED BY HttpInvariance, <1>1, PTL DEF Spec, EndsInDispatchOnly
=============================================================================
