--------------------------- MODULE VpnStoreProofs ---------------------------
(***************************************************************************)
(* Proofs about VpnStore: its types, that a typed password reaches the     *)
(* profile it was typed for, and that "disconnecting" is shown only while  *)
(* the disconnect that will reset it is under way, as long as no other     *)
(* instance of the application has had the daemon disconnect.              *)
(***************************************************************************)
EXTENDS VpnStore, FiniteSetTheorems, SequenceTheorems, TLAPS

\* The inductive invariant for types: only finitely many operations are under
\* way, so that the next one finds a free number.
TypeInv == TypeOK /\ IsFiniteSet(calls)

-----------------------------------------------------------------------------
(* Operators *)

\* Among the numbers 0 .. Cardinality(calls) one is free.
LEMMA FreeNumber ==
    ASSUME IsFiniteSet(calls)
    PROVE  \E k \in 0..Cardinality(calls) : \A c \in calls : c.n # k
<1> DEFINE used == {c.n : c \in calls}
<1> DEFINE number == [c \in calls |-> c.n]
<1>0. number \in Surjection(calls, used)
  BY DEF Surjection
<1>1. IsFiniteSet(used) /\ Cardinality(used) <= Cardinality(calls)
  <2> HIDE DEF used, number
  <2> QED BY <1>0, FS_Surjection
<1>2. Cardinality(calls) \in Nat
  BY FS_CardinalityType
<1>3. IsFiniteSet(0..Cardinality(calls)) /\ Cardinality(0..Cardinality(calls)) = Cardinality(calls) + 1
  BY <1>2, FS_Interval
<1>4. ~(0..Cardinality(calls) \subseteq used)
  <2> SUFFICES ASSUME 0..Cardinality(calls) \subseteq used PROVE FALSE
    OBVIOUS
  <2> HIDE DEF used
  <2>1. Cardinality(0..Cardinality(calls)) <= Cardinality(used)
    BY <1>1, FS_Subset
  <2>2. Cardinality(used) \in Nat
    BY <1>1, FS_CardinalityType
  <2> QED BY <2>1, <2>2, <1>1, <1>2, <1>3
<1> QED BY <1>4

\* NewCall adds one operation, with the fields it is given.
LEMMA NewCallAdds ==
    ASSUME TypeInv,
           NEW kind \in CallKinds, NEW at \in {"sent", "answered"},
           NEW profile \in Profiles \cup {0}, NEW pw \in Profiles \cup {0},
           NEW seen \in States \cup {"none"},
           NewCall(kind, at, profile, pw, seen)
    PROVE  /\ \E n \in Nat : calls' = calls \cup {Call(n, kind, at, profile, pw, seen)}
           /\ calls' \subseteq CallType /\ IsFiniteSet(calls')
<1>1. IsFiniteSet(calls) /\ calls \subseteq CallType
  BY DEF TypeInv, TypeOK
<1> DEFINE n == CHOOSE k \in 0..Cardinality(calls) : \A c \in calls : c.kind = kind => c.n # k
<1>2. n \in 0..Cardinality(calls)
  BY <1>1, FreeNumber
<1>3. n \in Nat
  BY <1>1, <1>2, FS_CardinalityType
<1>4. calls' = calls \cup {Call(n, kind, at, profile, pw, seen)}
  BY DEF NewCall
<1> HIDE DEF n
<1>5. Call(n, kind, at, profile, pw, seen) \in CallType
  BY <1>3 DEF Call, CallType, Answers
<1>6. IsFiniteSet(calls')
  BY <1>1, <1>4, FS_AddElement
<1> QED BY <1>1, <1>3, <1>4, <1>5, <1>6

\* connect leaves the part of the state it touches well typed.
LEMMA ConnectTypes ==
    ASSUME TypeInv, NEW p \in Profiles, ConnectProfile(p)
    PROVE  /\ conn' \in States /\ active' \in Profiles
           /\ prompt' \in Profiles \cup {0} /\ typed' \in Profiles \cup {0}
           /\ calls' \subseteq CallType /\ IsFiniteSet(calls')
<1>1. CASE ~subscribed \/ conn \in {"connecting", "connected"}
  BY <1>1 DEF ConnectProfile, TypeInv, TypeOK
<1>2. CASE ~(~subscribed \/ conn \in {"connecting", "connected"}) /\ PasswordMode[p] = "dynamic_prompt"
  BY <1>2 DEF ConnectProfile, ShowPrompt, TypeInv, TypeOK
<1>3. CASE ~(~subscribed \/ conn \in {"connecting", "connected"}) /\ PasswordMode[p] # "dynamic_prompt"
  <2>1. NewCall("connect", "sent", p, 0, "none") /\ conn' = "connecting" /\ active' = p
        /\ UNCHANGED <<prompt, typed>>
    BY <1>3 DEF ConnectProfile
  <2>2. calls' \subseteq CallType /\ IsFiniteSet(calls')
    BY <2>1, NewCallAdds DEF CallKinds
  <2> QED BY <2>1, <2>2 DEF TypeInv, TypeOK, States
<1> QED BY <1>1, <1>2, <1>3

LEMMA DisconnectTypes ==
    ASSUME TypeInv, DisconnectNow
    PROVE  conn' \in States /\ calls' \subseteq CallType /\ IsFiniteSet(calls')
<1>1. CASE conn \in {"disconnected", "disconnecting"}
  BY <1>1 DEF DisconnectNow, TypeInv, TypeOK
<1>2. CASE conn \notin {"disconnected", "disconnecting"} /\ conn = "connecting"
  <2>1. NewCall("abort", "sent", 0, 0, "none") /\ conn' = "disconnected"
    BY <1>2 DEF DisconnectNow
  <2> QED BY <2>1, NewCallAdds DEF CallKinds, States
<1>3. CASE conn \notin {"disconnected", "disconnecting"} /\ conn # "connecting"
  <2>1. NewCall("disconnect", "sent", 0, 0, "none") /\ conn' = "disconnecting"
    BY <1>3 DEF DisconnectNow
  <2> QED BY <2>1, NewCallAdds DEF CallKinds, States
<1> QED BY <1>1, <1>2, <1>3

DaemonType == [up : BOOLEAN, state : States, started : BOOLEAN, other : {"none", "closing", "closed"}]

\* What the daemon answers, and the state it goes to.
LEMMA HandledTypes ==
    ASSUME TypeOK, NEW kind, NEW o \in Handled(kind)
    PROVE  o.state \in States /\ o.answer \in Answers
<1>1. daemon.state \in States
  BY DEF TypeOK
<1> DEFINE busy == daemon.state # "disconnected" /\ daemon.started
<1>2. CASE kind = "connect" /\ daemon.state \in {"disconnected", "error"}
  BY <1>2 DEF Handled, Outcome, States, Answers
<1>3. CASE kind = "connect" /\ daemon.state \notin {"disconnected", "error"}
  BY <1>1, <1>3 DEF Handled, Outcome, Answers
<1>4. CASE kind \in {"abort", "disconnect"} /\ ~busy
  BY <1>4 DEF Handled, Outcome, States, Answers
<1>5. CASE kind \in {"abort", "disconnect"} /\ busy
  BY <1>5 DEF Handled, Outcome, States, Answers
<1>6. CASE kind \in {"retry", "ping"}
  BY <1>1, <1>6 DEF Handled, Outcome, Answers
<1>7. CASE kind \notin {"connect", "abort", "disconnect", "retry", "ping"}
  BY <1>1, <1>7 DEF Handled, Outcome, Answers
<1> QED BY <1>2, <1>3, <1>4, <1>5, <1>6, <1>7

LEMMA MovedType ==
    ASSUME TypeOK, NEW state \in States
    PROVE  Moved(state) \in DaemonType /\ Moved(state).state = state /\ Moved(state).other = daemon.other
<1>1. daemon \in DaemonType
  BY DEF TypeOK, DaemonType
<1>2. (daemon.started \/ state = "connecting") \in BOOLEAN
  OBVIOUS
<1> QED BY <1>1, <1>2 DEF Moved, DaemonType

\* A request leaves the daemon and the stream well typed, and does not count as
\* another connection's.
LEMMA RequestTypes ==
    ASSUME TypeOK, NEW kind, NEW answer, Request(kind, answer)
    PROVE  /\ daemon' \in DaemonType /\ daemon'.other = daemon.other
           /\ unread' \in Seq(Answers)
<1>1. CASE ~daemon.up
  BY <1>1, EmptySeq DEF Request, TypeOK, DaemonType
<1>2. CASE daemon.up
  <2>1. PICK o \in Handled(kind) : daemon' = Moved(o.state) /\ unread' = Tail(Append(unread, o.answer))
    BY <1>2 DEF Request
  <2> DEFINE stream == Append(unread, o.answer)
  <2>2. o.state \in States /\ o.answer \in Answers
    BY HandledTypes
  <2>3. stream \in Seq(Answers) /\ stream # <<>>
    BY <2>2 DEF TypeOK
  <2>4. unread' \in Seq(Answers)
    BY <2>1, <2>3
  <2> QED BY <2>1, <2>2, <2>4, MovedType
<1> QED BY <1>1, <1>2

LEMMA AnsweredType ==
    ASSUME NEW c \in CallType, NEW answer \in Answers
    PROVE  Answered(c, answer) \in CallType /\ Answered(c, answer).pw = 0
BY DEF Answered, CallType

\* What is taken from the stream to be a status is one.
LEMMA StatusIsState ==
    ASSUME NEW answer \in Answers, answer.type = "status"
    PROVE  answer.state \in States
BY DEF Answers, Answer, Success, Refused, Pong, Metrics

-----------------------------------------------------------------------------
(* Types *)

LEMMA TypeInit == Init => TypeInv
<1> SUFFICES ASSUME Init PROVE TypeInv
  OBVIOUS
<1>1. IsFiniteSet(calls) /\ calls \subseteq CallType
  BY FS_EmptySet DEF Init
<1>2. unread \in Seq(Answers) /\ events \in Seq(EventType)
  BY EmptySeq DEF Init
<1> QED BY <1>1, <1>2, StoreAssumption DEF Init, TypeInv, TypeOK, States

\* A step of the user, the tray, the network adapter or the start-up.
LEMMA TypeAct ==
    ASSUME TypeInv,
           \/ \E p \in Profiles : UserConnect(p)
           \/ UserDisconnect \/ TypePassword \/ SubmitPrompt \/ ClosePrompt
           \/ TrayToggle \/ NetworkOnline \/ RetryDaemonIpc
           \/ Subscribe \/ AutoConnectTimer
    PROVE  TypeInv'
<1> USE DEF TypeInv, TypeOK, Act, backVars, counters
<1>1. ASSUME NEW p \in Profiles, UserConnect(p) PROVE TypeInv'
  BY <1>1, ConnectTypes DEF UserConnect
<1>2. CASE UserDisconnect
  BY <1>2, DisconnectTypes DEF UserDisconnect
<1>3. CASE TypePassword
  BY <1>3 DEF TypePassword
<1>4. CASE SubmitPrompt
  <2>1. CASE conn \in {"connecting", "connected"}
    BY <1>4, <2>1 DEF SubmitPrompt, ConfirmPrompt
  <2>2. CASE conn \notin {"connecting", "connected"}
    <3>1. NewCall("connect", "sent", prompt, typed, "none") /\ conn' = "connecting" /\ active' = prompt
      BY <1>4, <2>2 DEF SubmitPrompt, ConfirmPrompt
    <3>2. calls' \subseteq CallType /\ IsFiniteSet(calls')
      BY <3>1, NewCallAdds DEF CallKinds
    <3>3. prompt \in Profiles
      BY <1>4 DEF SubmitPrompt
    <3> QED BY <1>4, <3>1, <3>2, <3>3 DEF SubmitPrompt, States
  <2> QED BY <2>1, <2>2
<1>5. CASE ClosePrompt
  BY <1>5 DEF ClosePrompt
<1>6. CASE TrayToggle
  <2>1. CASE conn \in {"connected", "connecting", "reconnecting"}
    BY <1>6, <2>1, DisconnectTypes DEF TrayToggle
  <2>2. CASE conn \notin {"connected", "connecting", "reconnecting"}
    BY <1>6, <2>2, ConnectTypes DEF TrayToggle
  <2> QED BY <2>1, <2>2
<1>7. CASE NetworkOnline
  BY <1>7, ConnectTypes DEF NetworkOnline
<1>8. CASE RetryDaemonIpc
  <2>1. NewCall("retry", "sent", 0, 0, conn)
    BY <1>8 DEF RetryDaemonIpc
  <2>2. calls' \subseteq CallType /\ IsFiniteSet(calls')
    BY <2>1, NewCallAdds DEF CallKinds
  <2> QED BY <1>8, <2>2 DEF RetryDaemonIpc, uiVars
<1>9. CASE Subscribe
  BY <1>9, StoreAssumption DEF Subscribe
<1>10. CASE AutoConnectTimer
  <2>1. CASE conn = "disconnected"
    BY <1>10, <2>1, ConnectTypes DEF AutoConnectTimer
  <2>2. CASE conn # "disconnected"
    BY <1>10, <2>2 DEF AutoConnectTimer
  <2> QED BY <2>1, <2>2
<1> QED BY <1>1, <1>2, <1>3, <1>4, <1>5, <1>6, <1>7, <1>8, <1>9, <1>10

\* A request is sent, times out, or an operation ends.
LEMMA TypeCall ==
    ASSUME TypeInv, NEW c \in calls, SendRequest(c) \/ RequestTimesOut(c) \/ Returns(c)
    PROVE  TypeInv'
<1> USE DEF TypeInv, TypeOK
<1>0. c \in CallType
  OBVIOUS
<1>1. CASE SendRequest(c)
  <2>1. PICK answer \in Answers : Request(c.kind, answer) /\ calls' = (calls \ {c}) \cup {Answered(c, answer)}
    BY <1>1 DEF SendRequest
  <2>2. daemon' \in DaemonType /\ unread' \in Seq(Answers)
    BY <2>1, RequestTypes
  <2>3. calls' \subseteq CallType
    BY <1>0, <2>1, AnsweredType
  <2>4. IsFiniteSet(calls')
    BY <2>1, FS_RemoveElement, FS_AddElement
  <2> QED BY <1>1, <2>2, <2>3, <2>4 DEF SendRequest, uiVars, counters, DaemonType
<1>2. CASE RequestTimesOut(c)
  <2>1. calls' = (calls \ {c}) \cup {Answered(c, Refused)} /\ Refused \in Answers
    BY <1>2 DEF RequestTimesOut, Answers
  <2>2. PICK o \in Handled(c.kind) : daemon' = Moved(o.state) /\ unread' = <<o.answer>>
    BY <1>2 DEF RequestTimesOut
  <2>3. daemon' \in DaemonType
    BY <2>2, HandledTypes, MovedType
  <2>4. unread' \in Seq(Answers)
    BY <2>2, HandledTypes
  <2>5. calls' \subseteq CallType
    BY <1>0, <2>1, AnsweredType
  <2>6. IsFiniteSet(calls')
    BY <2>1, FS_RemoveElement, FS_AddElement
  <2> QED BY <1>2, <2>3, <2>4, <2>5, <2>6 DEF RequestTimesOut, uiVars, DaemonType
<1>3. CASE Returns(c)
  <2>1. calls' = calls \ {c}
    BY <1>3 DEF Returns, ConnectReturns, DisconnectReturns, RetryReturns, ResyncReturns, Ends
  <2>2. calls' \subseteq CallType /\ IsFiniteSet(calls')
    BY <2>1, FS_RemoveElement
  <2>3. conn' \in States
    <3>1. c.answer.type = "status" => c.answer.state \in States
      BY <1>0, StatusIsState DEF CallType
    <3> QED BY <1>3, <3>1 DEF Returns, ConnectReturns, DisconnectReturns, RetryReturns, ResyncReturns, States
  <2>4. health' \in {"offline", "connected"}
    BY <1>3 DEF Returns, ConnectReturns, DisconnectReturns, RetryReturns, ResyncReturns
  <2>5. UNCHANGED <<active, prompt, typed, subscribed, timer, backVars, counters>>
    BY <1>3 DEF Returns, ConnectReturns, DisconnectReturns, RetryReturns, ResyncReturns
  <2> QED BY <2>2, <2>3, <2>4, <2>5 DEF backVars, counters
<1> QED BY <1>1, <1>2, <1>3

\* A poll of the worker.
LEMMA TypePoll == ASSUME TypeInv, WorkerPing \/ WorkerStatus PROVE TypeInv'
<1> USE DEF TypeInv, TypeOK
<1>1. CASE WorkerPing
  <2>1. PICK answer \in Answers :
           /\ Request("ping", answer)
           /\ worker' = [next |-> IF answer = Pong THEN "status" ELSE "ping", online |-> answer = Pong,
                         first |-> FALSE]
           /\ IF (answer = Pong) # worker.online \/ worker.first
              THEN Emit([kind |-> "health", state |-> IF answer = Pong THEN "connected" ELSE "offline"])
              ELSE UNCHANGED events
    BY <1>1 DEF WorkerPing
  <2>2. daemon' \in DaemonType /\ unread' \in Seq(Answers)
    BY <2>1, RequestTypes
  <2>3. worker' \in [next : {"ping", "status"}, online : BOOLEAN, first : BOOLEAN]
    <3>1. CASE answer = Pong
      BY <2>1, <3>1
    <3>2. CASE answer # Pong
      BY <2>1, <3>2
    <3> QED BY <3>1, <3>2
  <2>4. events' \in Seq(EventType)
    <3> DEFINE e == [kind |-> "health", state |-> IF answer = Pong THEN "connected" ELSE "offline"]
    <3>1. e \in EventType
      BY DEF EventType
    <3>2. events' = events \/ events' = Append(events, e)
      BY <2>1 DEF Emit
    <3> HIDE DEF e
    <3> QED BY <3>1, <3>2
  <2> QED BY <1>1, <2>2, <2>3, <2>4 DEF WorkerPing, uiVars, counters, DaemonType
<1>2. CASE WorkerStatus
  <2> DEFINE two == <<Answer("status", daemon.state), Metrics>>
             stream == unread \o two
  <2>1. worker' \in [next : {"ping", "status"}, online : BOOLEAN, first : BOOLEAN]
    BY <1>2 DEF WorkerStatus
  <2>2. two \in Seq(Answers) /\ Len(two) = 2
    BY DEF Answers
  <2>3. stream \in Seq(Answers) /\ Len(stream) >= 2
    <3> HIDE DEF two
    <3>1. unread \in Seq(Answers) /\ Len(unread) \in Nat
      BY LenProperties
    <3>2. stream \in Seq(Answers) /\ Len(stream) = Len(unread) + Len(two)
      BY ONLY <2>2, <3>1, ConcatProperties, Zenon
    <3> HIDE DEF stream
    <3> QED BY <2>2, <3>1, <3>2
  <2>4. Head(stream) \in Answers /\ Tail(Tail(stream)) \in Seq(Answers)
    <3> HIDE DEF stream
    <3>1. stream # <<>>
      BY <2>3
    <3>2. Tail(stream) \in Seq(Answers) /\ Len(Tail(stream)) = Len(stream) - 1 /\ Head(stream) \in Answers
      BY <2>3, <3>1, HeadTailProperties
    <3>3. Tail(stream) # <<>>
      <4>1. Len(stream) \in Nat
        BY <2>3, LenProperties
      <4>2. Len(Tail(stream)) # 0
        BY <2>3, <3>2, <4>1
      <4> QED BY <4>2, EmptySeq
    <3> QED BY <3>2, <3>3, HeadTailProperties
  <2>5. unread' \in Seq(Answers)
    <3>1. unread' = <<>> \/ unread' = Tail(Tail(stream))
      BY <1>2 DEF WorkerStatus
    <3> QED BY <2>4, <3>1, EmptySeq
  <2>6. events' \in Seq(EventType)
    <3> DEFINE e == [kind |-> "status", state |-> Head(stream).state]
    <3>1. events' = events \/ (Head(stream).type = "status" /\ events' = Append(events, e))
      BY <1>2 DEF WorkerStatus, Emit
    <3>2. Head(stream).type = "status" => e \in EventType
      BY <2>4, StatusIsState DEF EventType
    <3>3. events \in Seq(EventType)
      OBVIOUS
    <3> HIDE DEF e
    <3> QED BY ONLY <3>1, <3>2, <3>3, AppendProperties
  <2> QED BY <1>2, <2>1, <2>5, <2>6 DEF WorkerStatus, uiVars, counters
<1> QED BY <1>1, <1>2

\* An event reaches the store.
LEMMA TypeDeliver == ASSUME TypeInv, Deliver PROVE TypeInv'
<1> USE DEF TypeInv, TypeOK
<1>1. CASE OnVpnStatus
  <2>1. Head(events) \in EventType /\ Tail(events) \in Seq(EventType)
    BY <1>1, HeadTailProperties DEF OnVpnStatus
  <2>2. Head(events).state \in States
    BY <1>1, <2>1 DEF OnVpnStatus, EventType
  <2> QED BY <1>1, <2>1, <2>2 DEF OnVpnStatus, counters
<1>2. ASSUME NEW first \in BOOLEAN, OnDaemonStatus(first) PROVE TypeInv'
  <2>1. Head(events) \in EventType /\ Tail(events) \in Seq(EventType)
    BY <1>2, HeadTailProperties DEF OnDaemonStatus
  <2>2. Head(events).state \in {"connected", "offline"}
    BY <1>2, <2>1 DEF OnDaemonStatus, EventType
  <2>3. health' = Head(events).state /\ events' = Tail(events)
    BY <1>2 DEF OnDaemonStatus
  <2>4. \/ conn' = "error" /\ UNCHANGED calls
        \/ NewCall("resync", "sent", 0, 0, "none") /\ UNCHANGED conn
        \/ UNCHANGED <<conn, calls>>
    BY <1>2 DEF OnDaemonStatus
  <2>5. conn' \in States
    BY <2>4 DEF States
  <2>6. calls' \subseteq CallType /\ IsFiniteSet(calls')
    BY <2>4, NewCallAdds DEF CallKinds
  <2> QED BY <1>2, <2>1, <2>2, <2>3, <2>5, <2>6 DEF OnDaemonStatus, counters
<1> QED BY <1>1, <1>2 DEF Deliver

LEMMA TypeStep == TypeInv /\ [Next]_vars => TypeInv'
<1> SUFFICES ASSUME TypeInv, [Next]_vars PROVE TypeInv'
  OBVIOUS
<1>1. CASE UNCHANGED vars
  BY <1>1 DEF TypeInv, TypeOK, vars, uiVars, backVars, counters
<1>2. ASSUME NEW state \in States, DaemonMoves(state) PROVE TypeInv'
  BY <1>2 DEF DaemonMoves, TypeInv, TypeOK, uiVars, counters
<1>3. CASE DaemonDies
  BY <1>3, EmptySeq DEF DaemonDies, TypeInv, TypeOK, uiVars, States
<1>4. CASE DaemonStarts
  BY <1>4 DEF DaemonStarts, TypeInv, TypeOK, uiVars, counters
<1>5. CASE OtherDisconnect
  <2>1. daemon' \in DaemonType
    BY <1>5 DEF OtherDisconnect, TypeInv, TypeOK, DaemonType, States
  <2>2. faults' \in Nat
    BY <1>5 DEF OtherDisconnect, TypeInv, TypeOK
  <2> QED BY <1>5, <2>1, <2>2 DEF OtherDisconnect, TypeInv, TypeOK, DaemonType, uiVars
<1>6. CASE OtherDisconnectEnds
  BY <1>6 DEF OtherDisconnectEnds, TypeInv, TypeOK, uiVars, counters, States
<1> QED BY <1>1, <1>2, <1>3, <1>4, <1>5, <1>6, TypeAct, TypeCall, TypePoll, TypeDeliver DEF Next

\* The store, the client, the worker and their messages keep their types, for any
\* profiles and any number of acts, faults, calls and events.
THEOREM StoreTypeCorrect == Spec => []TypeOK
<1>1. Spec => []TypeInv
  BY TypeInit, TypeStep, PTL DEF Spec
<1>2. TypeInv => TypeOK
  BY DEF TypeInv
<1> QED BY <1>1, <1>2, PTL

-----------------------------------------------------------------------------
(* Passwords *)

\* What stands in the prompt's fields was typed for the profile it shows.
TypedForPrompt == typed # 0 => typed = prompt

PasswordInv == PasswordGoesToItsProfile /\ TypedForPrompt

\* A new operation that carries no password, or that of its profile, is harmless.
LEMMA NewCallKeeps ==
    ASSUME TypeInv, PasswordGoesToItsProfile,
           NEW kind \in CallKinds, NEW profile \in Profiles \cup {0}, NEW pw \in Profiles \cup {0},
           NEW seen \in States \cup {"none"},
           NewCall(kind, "sent", profile, pw, seen), pw # 0 => pw = profile
    PROVE  PasswordGoesToItsProfile'
<1>1. PICK n \in Nat : calls' = calls \cup {Call(n, kind, "sent", profile, pw, seen)}
  BY NewCallAdds
<1> QED BY <1>1 DEF PasswordGoesToItsProfile, Call

LEMMA ConnectKeeps ==
    ASSUME TypeInv, PasswordInv, NEW p \in Profiles, ConnectProfile(p)
    PROVE  PasswordInv'
<1>1. CASE ~subscribed \/ conn \in {"connecting", "connected"}
  BY <1>1 DEF ConnectProfile, PasswordInv, PasswordGoesToItsProfile, TypedForPrompt
<1>2. CASE ~(~subscribed \/ conn \in {"connecting", "connected"}) /\ PasswordMode[p] = "dynamic_prompt"
  BY <1>2 DEF ConnectProfile, ShowPrompt, PasswordInv, PasswordGoesToItsProfile, TypedForPrompt
<1>3. CASE ~(~subscribed \/ conn \in {"connecting", "connected"}) /\ PasswordMode[p] # "dynamic_prompt"
  <2>1. NewCall("connect", "sent", p, 0, "none") /\ UNCHANGED <<prompt, typed>>
    BY <1>3 DEF ConnectProfile
  <2>2. PasswordGoesToItsProfile'
    BY <2>1, NewCallKeeps DEF CallKinds, PasswordInv
  <2> QED BY <2>1, <2>2 DEF PasswordInv, TypedForPrompt
<1> QED BY <1>1, <1>2, <1>3

LEMMA DisconnectKeeps ==
    ASSUME TypeInv, PasswordGoesToItsProfile, DisconnectNow
    PROVE  PasswordGoesToItsProfile'
<1>1. \/ UNCHANGED calls
      \/ NewCall("abort", "sent", 0, 0, "none")
      \/ NewCall("disconnect", "sent", 0, 0, "none")
  BY DEF DisconnectNow
<1> QED BY <1>1, NewCallKeeps DEF CallKinds, PasswordGoesToItsProfile

LEMMA PasswordStep == TypeInv /\ PasswordInv /\ [Next]_vars => PasswordInv'
<1> SUFFICES ASSUME TypeInv, PasswordInv, [Next]_vars PROVE PasswordInv'
  OBVIOUS
<1>1. CASE UNCHANGED <<calls, prompt, typed>>
  BY <1>1 DEF PasswordInv, PasswordGoesToItsProfile, TypedForPrompt
<1>2. ASSUME NEW p \in Profiles, UserConnect(p) PROVE PasswordInv'
  BY <1>2, ConnectKeeps DEF UserConnect
<1>3. CASE UserDisconnect
  BY <1>3, DisconnectKeeps DEF UserDisconnect, PasswordInv, TypedForPrompt
<1>4. CASE TypePassword
  BY <1>4 DEF TypePassword, PasswordInv, PasswordGoesToItsProfile, TypedForPrompt
<1>5. CASE SubmitPrompt
  <2>1. UNCHANGED calls \/ NewCall("connect", "sent", prompt, typed, "none")
    BY <1>5 DEF SubmitPrompt, ConfirmPrompt
  <2>2. PasswordGoesToItsProfile'
    BY <2>1, NewCallKeeps DEF PasswordInv, PasswordGoesToItsProfile, TypedForPrompt, TypeInv, TypeOK, CallKinds
  <2> QED BY <1>5, <2>2 DEF SubmitPrompt, PasswordInv, TypedForPrompt
<1>6. CASE ClosePrompt
  BY <1>6 DEF ClosePrompt, PasswordInv, PasswordGoesToItsProfile, TypedForPrompt
<1>7. CASE TrayToggle
  <2>1. active \in Profiles
    BY DEF TypeInv, TypeOK
  <2>2. CASE conn \in {"connected", "connecting", "reconnecting"}
    BY <1>7, <2>2, DisconnectKeeps DEF TrayToggle, PasswordInv, TypedForPrompt
  <2>3. CASE conn \notin {"connected", "connecting", "reconnecting"}
    BY <1>7, <2>1, <2>3, ConnectKeeps DEF TrayToggle
  <2> QED BY <2>2, <2>3
<1>8. CASE NetworkOnline
  BY <1>8, ConnectKeeps DEF NetworkOnline, TypeInv, TypeOK
<1>9. CASE RetryDaemonIpc
  <2>1. NewCall("retry", "sent", 0, 0, conn) /\ UNCHANGED <<prompt, typed>> /\ conn \in States
    BY <1>9 DEF RetryDaemonIpc, uiVars, TypeInv, TypeOK
  <2>2. PasswordGoesToItsProfile'
    BY <2>1, NewCallKeeps DEF CallKinds, PasswordInv
  <2> QED BY <2>1, <2>2 DEF PasswordInv, TypedForPrompt
<1>10. CASE AutoConnectTimer
  <2>1. CASE conn = "disconnected"
    BY <1>10, <2>1, ConnectKeeps DEF AutoConnectTimer, TypeInv, TypeOK
  <2>2. CASE conn # "disconnected"
    BY <1>1, <1>10, <2>2 DEF AutoConnectTimer
  <2> QED BY <2>1, <2>2
<1>11. ASSUME NEW c \in calls, SendRequest(c) \/ RequestTimesOut(c) \/ Returns(c) PROVE PasswordInv'
  <2>1. UNCHANGED <<prompt, typed>>
    BY <1>11 DEF SendRequest, RequestTimesOut, Returns, ConnectReturns, DisconnectReturns, RetryReturns,
                 ResyncReturns, uiVars
  <2>2. calls' \subseteq calls \cup {Answered(c, answer) : answer \in Answers}
    BY <1>11 DEF SendRequest, RequestTimesOut, Returns, ConnectReturns, DisconnectReturns, RetryReturns,
                 ResyncReturns, Ends, Answers
  <2>3. \A answer \in Answers : Answered(c, answer).pw = 0
    BY AnsweredType DEF TypeInv, TypeOK
  <2> QED BY <2>1, <2>2, <2>3 DEF PasswordInv, PasswordGoesToItsProfile, TypedForPrompt
<1>12. ASSUME NEW first \in BOOLEAN, OnDaemonStatus(first) PROVE PasswordInv'
  <2>1. UNCHANGED calls \/ NewCall("resync", "sent", 0, 0, "none")
    BY <1>12 DEF OnDaemonStatus
  <2>2. PasswordGoesToItsProfile'
    BY <2>1, NewCallKeeps DEF CallKinds, PasswordInv, PasswordGoesToItsProfile
  <2> QED BY <1>12, <2>2 DEF OnDaemonStatus, PasswordInv, TypedForPrompt
<1>13. \/ Subscribe \/ WorkerPing \/ WorkerStatus \/ OnVpnStatus
       \/ (\E state \in States : DaemonMoves(state)) \/ DaemonDies \/ DaemonStarts \/ UNCHANGED vars
       \/ OtherDisconnect \/ OtherDisconnectEnds
       => UNCHANGED <<calls, prompt, typed>>
  BY DEF Subscribe, WorkerPing, WorkerStatus, OnVpnStatus, DaemonMoves, DaemonDies, DaemonStarts, OtherDisconnect,
         OtherDisconnectEnds, vars, uiVars
<1> QED BY <1>1, <1>2, <1>3, <1>4, <1>5, <1>6, <1>7, <1>8, <1>9, <1>10, <1>11, <1>12, <1>13 DEF Next, Deliver

\* A password that leaves with a connection request was typed for the profile of
\* that request, for any profiles, prompts, races and faults.
THEOREM PasswordsStayWithTheirProfile == Spec => []PasswordGoesToItsProfile
<1>1. Init => PasswordInv
  BY DEF Init, PasswordInv, PasswordGoesToItsProfile, TypedForPrompt
<1>2. Spec => []TypeInv
  BY TypeInit, TypeStep, PTL DEF Spec
<1>3. PasswordInv => PasswordGoesToItsProfile
  BY DEF PasswordInv
<1> QED BY <1>1, <1>2, <1>3, PasswordStep, PTL DEF Spec

-----------------------------------------------------------------------------
(* Disconnecting *)

\* The store's own connection never sees the daemon in "disconnecting": its
\* disconnect is answered when it has ended.  So no answer and no event can put
\* the store there, until another connection disconnects the daemon.
QuietAnswers == {a \in Answers : a.state # "disconnecting"}
QuietEvents == {e \in EventType : e.state # "disconnecting"}
NoEcho ==
    /\ daemon.state # "disconnecting"
    /\ unread \in Seq(QuietAnswers)
    /\ events \in Seq(QuietEvents)
    /\ \A c \in calls : c.answer \in QuietAnswers

Awaited == conn = "disconnecting" => \E c \in calls : c.kind = "disconnect"
AwaitInv == NoEcho /\ Awaited

LEMMA HandledQuietly ==
    ASSUME TypeOK, NoEcho, NEW kind, NEW o \in Handled(kind)
    PROVE  o.state # "disconnecting" /\ o.answer \in QuietAnswers
<1>1. daemon.state \in States /\ daemon.state # "disconnecting"
  BY DEF TypeOK, NoEcho
<1>2. Success \in QuietAnswers /\ Refused \in QuietAnswers /\ Pong \in QuietAnswers
  BY DEF QuietAnswers, Answers, Success, Refused, Pong, Answer
<1>3. Answer("status", daemon.state) \in QuietAnswers
  BY <1>1 DEF QuietAnswers, Answers, Answer
<1> DEFINE busy == daemon.state # "disconnected" /\ daemon.started
<1>4. CASE kind = "connect"
  BY <1>1, <1>2, <1>4 DEF Handled, Outcome
<1>5. CASE kind \in {"abort", "disconnect"} /\ ~busy
  BY <1>2, <1>5 DEF Handled, Outcome
<1>6. CASE kind \in {"abort", "disconnect"} /\ busy
  BY <1>2, <1>6 DEF Handled, Outcome
<1>7. CASE kind \in {"retry", "ping"}
  BY <1>1, <1>2, <1>7 DEF Handled, Outcome
<1>8. CASE kind \notin {"connect", "abort", "disconnect", "retry", "ping"}
  BY <1>1, <1>3, <1>8 DEF Handled, Outcome
<1> QED BY <1>4, <1>5, <1>6, <1>7, <1>8

\* A request takes no such answer from the stream, and leaves none in it.
LEMMA RequestQuietly ==
    ASSUME TypeOK, NoEcho, NEW kind, NEW answer, Request(kind, answer)
    PROVE  /\ daemon'.state # "disconnecting"
           /\ unread' \in Seq(QuietAnswers)
           /\ answer \in QuietAnswers
<1>1. CASE ~daemon.up
  <2>1. Refused \in QuietAnswers
    BY DEF QuietAnswers, Answers, Refused, Answer
  <2> QED BY <1>1, <2>1, EmptySeq DEF Request, NoEcho
<1>2. CASE daemon.up
  <2>1. PICK o \in Handled(kind) :
           /\ daemon' = Moved(o.state) /\ answer = Head(Append(unread, o.answer))
           /\ unread' = Tail(Append(unread, o.answer))
    BY <1>2 DEF Request
  <2> DEFINE stream == Append(unread, o.answer)
  <2>2. o.state # "disconnecting" /\ o.state \in States /\ o.answer \in QuietAnswers
    BY HandledQuietly, HandledTypes
  <2>3. stream \in Seq(QuietAnswers) /\ stream # <<>>
    <3>1. unread \in Seq(QuietAnswers)
      BY DEF NoEcho
    <3> QED BY ONLY <2>2, <3>1, AppendProperties
  <2>4. Tail(stream) \in Seq(QuietAnswers) /\ Head(stream) \in QuietAnswers
    <3> HIDE DEF stream
    <3> QED BY <2>3, HeadTailProperties
  <2>5. daemon'.state = o.state
    BY <2>1, <2>2, MovedType
  <2> QED BY <2>1, <2>2, <2>4, <2>5
<1> QED BY <1>1, <1>2

\* A new operation has no answer yet and takes no other away.
LEMMA NewCallQuietly ==
    ASSUME TypeInv, AwaitInv,
           NEW kind \in CallKinds, NEW profile \in Profiles \cup {0}, NEW pw \in Profiles \cup {0},
           NEW seen \in States \cup {"none"},
           NewCall(kind, "sent", profile, pw, seen)
    PROVE  /\ \A c \in calls' : c.answer \in QuietAnswers
           /\ calls \subseteq calls'
           /\ \E c \in calls' : c.kind = kind
<1>0. "sent" \in {"sent", "answered"}
  OBVIOUS
<1>1. PICK n \in Nat : calls' = calls \cup {Call(n, kind, "sent", profile, pw, seen)}
  <2>1. \A at \in {"sent", "answered"} :
           NewCall(kind, at, profile, pw, seen)
           => \E n \in Nat : calls' = calls \cup {Call(n, kind, at, profile, pw, seen)}
    BY NewCallAdds
  <2> QED BY <1>0, <2>1, Zenon
<1>2. Success \in QuietAnswers
  BY DEF QuietAnswers, Answers, Success, Answer
<1>3. /\ Call(n, kind, "sent", profile, pw, seen).answer = Success
      /\ Call(n, kind, "sent", profile, pw, seen).kind = kind
  BY ONLY DEF Call
<1>4. \A c \in calls : c.answer \in QuietAnswers
  BY DEF AwaitInv, NoEcho
<1> DEFINE new == Call(n, kind, "sent", profile, pw, seen)
<1> HIDE DEF new
<1> QED BY <1>1, <1>2, <1>3, <1>4 DEF new

\* connect does not show "disconnecting", unless it was shown already.
LEMMA ConnectQuietly ==
    ASSUME TypeInv, AwaitInv, NEW p \in Profiles, ConnectProfile(p)
    PROVE  /\ \A c \in calls' : c.answer \in QuietAnswers
           /\ Awaited'
<1>1. CASE UNCHANGED <<conn, calls>>
  BY <1>1 DEF AwaitInv, NoEcho, Awaited
<1>2. CASE conn' = "connecting" /\ NewCall("connect", "sent", p, 0, "none")
  BY <1>2, NewCallQuietly DEF CallKinds, Awaited
<1> QED BY <1>1, <1>2 DEF ConnectProfile

\* disconnect shows it together with its operation.
LEMMA DisconnectQuietly ==
    ASSUME TypeInv, AwaitInv, DisconnectNow
    PROVE  /\ \A c \in calls' : c.answer \in QuietAnswers
           /\ Awaited'
<1>1. CASE UNCHANGED <<conn, calls>>
  BY <1>1 DEF AwaitInv, NoEcho, Awaited
<1>2. CASE conn' = "disconnected" /\ NewCall("abort", "sent", 0, 0, "none")
  BY <1>2, NewCallQuietly DEF CallKinds, Awaited
<1>3. CASE conn' = "disconnecting" /\ NewCall("disconnect", "sent", 0, 0, "none")
  BY <1>3, NewCallQuietly DEF CallKinds, Awaited
<1> QED BY <1>1, <1>2, <1>3 DEF DisconnectNow

\* A step of the user, the tray, the network adapter or the start-up.
LEMMA AwaitAct ==
    ASSUME TypeInv, AwaitInv,
           \/ \E p \in Profiles : UserConnect(p)
           \/ UserDisconnect \/ TypePassword \/ SubmitPrompt \/ ClosePrompt
           \/ TrayToggle \/ NetworkOnline \/ RetryDaemonIpc
           \/ Subscribe \/ AutoConnectTimer
    PROVE  AwaitInv'
<1>0. UNCHANGED <<daemon, unread, events>>
  BY DEF UserConnect, UserDisconnect, TypePassword, SubmitPrompt, ClosePrompt, TrayToggle, NetworkOnline,
         RetryDaemonIpc, Subscribe, AutoConnectTimer, backVars
<1>1. SUFFICES (\A c \in calls' : c.answer \in QuietAnswers) /\ Awaited'
  BY <1>0 DEF AwaitInv, NoEcho
<1>2. active \in Profiles
  BY DEF TypeInv, TypeOK
<1>3. CASE UNCHANGED <<conn, calls>>
  BY <1>3 DEF AwaitInv, NoEcho, Awaited
<1>4. ASSUME NEW p \in Profiles, ConnectProfile(p)
      PROVE (\A c \in calls' : c.answer \in QuietAnswers) /\ Awaited'
  BY <1>4, ConnectQuietly
<1>5. CASE DisconnectNow
  BY <1>5, DisconnectQuietly
<1>6. CASE SubmitPrompt
  <2>1. prompt \in Profiles /\ typed \in Profiles \cup {0}
    BY <1>6 DEF SubmitPrompt, TypeInv, TypeOK
  <2>2. CASE conn' = "connecting" /\ NewCall("connect", "sent", prompt, typed, "none")
    BY <2>1, <2>2, NewCallQuietly DEF CallKinds, Awaited
  <2> QED BY <1>3, <1>6, <2>2 DEF SubmitPrompt, ConfirmPrompt
<1>7. CASE RetryDaemonIpc
  <2>1. NewCall("retry", "sent", 0, 0, conn) /\ conn' = conn /\ conn \in States
    BY <1>7 DEF RetryDaemonIpc, uiVars, TypeInv, TypeOK
  <2> QED BY <2>1, NewCallQuietly DEF CallKinds, AwaitInv, Awaited
<1>8. CASE AutoConnectTimer
  BY <1>2, <1>3, <1>4, <1>8 DEF AutoConnectTimer
<1>9. CASE TrayToggle
  BY <1>2, <1>4, <1>5, <1>9 DEF TrayToggle
<1>10. CASE TypePassword \/ ClosePrompt \/ Subscribe
  BY <1>3, <1>10 DEF TypePassword, ClosePrompt, Subscribe
<1>11. CASE UserDisconnect
  BY <1>5, <1>11 DEF UserDisconnect
<1>12. CASE NetworkOnline
  BY <1>2, <1>4, <1>12 DEF NetworkOnline
<1>13. CASE \E p \in Profiles : UserConnect(p)
  BY <1>4, <1>13 DEF UserConnect
<1> QED BY <1>6, <1>7, <1>8, <1>9, <1>10, <1>11, <1>12, <1>13

\* An operation goes on or ends; the end of a disconnect resets the state.
LEMMA AwaitCall ==
    ASSUME TypeInv, AwaitInv, NEW c \in calls, SendRequest(c) \/ RequestTimesOut(c) \/ Returns(c)
    PROVE  AwaitInv'
<1>0. c \in CallType /\ c.answer \in QuietAnswers
  BY DEF TypeInv, TypeOK, AwaitInv, NoEcho
<1>a. \A answer \in QuietAnswers : Answered(c, answer).answer = answer /\ Answered(c, answer).kind = c.kind
  BY <1>0 DEF Answered, CallType
<1>1. ASSUME NEW answer \in QuietAnswers, calls' = (calls \ {c}) \cup {Answered(c, answer)}, conn' = conn
      PROVE  (\A d \in calls' : d.answer \in QuietAnswers) /\ Awaited'
  BY <1>1, <1>a DEF AwaitInv, NoEcho, Awaited
<1>2. CASE SendRequest(c)
  <2>1. PICK answer \in Answers : Request(c.kind, answer) /\ calls' = (calls \ {c}) \cup {Answered(c, answer)}
    BY <1>2 DEF SendRequest
  <2>2. UNCHANGED <<conn, events>>
    BY <1>2 DEF SendRequest, uiVars
  <2>3. daemon'.state # "disconnecting" /\ unread' \in Seq(QuietAnswers) /\ answer \in QuietAnswers
    BY <2>1, RequestQuietly DEF TypeInv, AwaitInv
  <2> QED BY <1>1, <2>1, <2>2, <2>3 DEF AwaitInv, NoEcho
<1>3. CASE RequestTimesOut(c)
  <2>1. Refused \in QuietAnswers
    BY DEF QuietAnswers, Answers, Refused, Answer
  <2>2. PICK o \in Handled(c.kind) : daemon' = Moved(o.state) /\ unread' = <<o.answer>>
    BY <1>3 DEF RequestTimesOut
  <2>3. /\ o.state # "disconnecting" /\ o.state \in States /\ o.answer \in QuietAnswers
    BY HandledQuietly, HandledTypes DEF TypeInv, AwaitInv
  <2>6. /\ calls' = (calls \ {c}) \cup {Answered(c, Refused)} /\ UNCHANGED <<conn, events>>
    BY <1>3 DEF RequestTimesOut, uiVars
  <2>4. daemon'.state # "disconnecting"
    BY <2>2, <2>3, MovedType DEF TypeInv
  <2>5. unread' \in Seq(QuietAnswers)
    BY <2>2, <2>3
  <2> QED BY <1>1, <2>1, <2>4, <2>5, <2>6 DEF AwaitInv, NoEcho
<1>4. CASE Returns(c)
  <2>1. calls' = calls \ {c} /\ UNCHANGED <<daemon, unread, events>>
    BY <1>4 DEF Returns, ConnectReturns, DisconnectReturns, RetryReturns, ResyncReturns, Ends, backVars
  <2>2. c.answer.state # "disconnecting"
    BY <1>0 DEF QuietAnswers
  <2>3. conn' = "disconnecting" => conn = "disconnecting" /\ c.kind # "disconnect"
    BY <1>4, <2>2 DEF Returns, ConnectReturns, DisconnectReturns, RetryReturns, ResyncReturns
  <2> QED BY <2>1, <2>3 DEF AwaitInv, NoEcho, Awaited
<1> QED BY <1>2, <1>3, <1>4

\* A poll of the worker emits what the daemon said.
LEMMA AwaitPoll == ASSUME TypeInv, AwaitInv, WorkerPing \/ WorkerStatus PROVE AwaitInv'
<1>0. UNCHANGED <<conn, calls>>
  BY DEF WorkerPing, WorkerStatus, uiVars
<1>1. SUFFICES daemon'.state # "disconnecting" /\ unread' \in Seq(QuietAnswers) /\ events' \in Seq(QuietEvents)
  BY <1>0 DEF AwaitInv, NoEcho, Awaited
<1>2. events \in Seq(QuietEvents) /\ unread \in Seq(QuietAnswers) /\ daemon.state # "disconnecting"
  BY DEF AwaitInv, NoEcho
<1>3. CASE WorkerPing
  <2>1. PICK answer \in Answers :
           /\ Request("ping", answer)
           /\ \/ Emit([kind |-> "health", state |-> IF answer = Pong THEN "connected" ELSE "offline"])
              \/ UNCHANGED events
    BY <1>3 DEF WorkerPing
  <2>2. daemon'.state # "disconnecting" /\ unread' \in Seq(QuietAnswers)
    BY <2>1, RequestQuietly DEF TypeInv, AwaitInv
  <2> DEFINE e == [kind |-> "health", state |-> IF answer = Pong THEN "connected" ELSE "offline"]
  <2>3. e \in QuietEvents
    BY DEF QuietEvents, EventType
  <2>4. events' = events \/ events' = Append(events, e)
    BY <2>1 DEF Emit
  <2> HIDE DEF e
  <2>5. events' \in Seq(QuietEvents)
    BY <1>2, <2>3, <2>4
  <2> QED BY <2>2, <2>5
<1>4. CASE WorkerStatus
  <2> DEFINE two == <<Answer("status", daemon.state), Metrics>>
             stream == unread \o two
  <2>1. two \in Seq(QuietAnswers) /\ Len(two) = 2
    <3>1. Answer("status", daemon.state) \in QuietAnswers /\ Metrics \in QuietAnswers
      BY <1>2 DEF TypeInv, TypeOK, QuietAnswers, Answers, Answer, Metrics
    <3> QED BY <3>1
  <2>2. stream \in Seq(QuietAnswers) /\ Len(stream) >= 2
    <3> HIDE DEF two
    <3>1. Len(unread) \in Nat
      BY <1>2, LenProperties
    <3>2. stream \in Seq(QuietAnswers) /\ Len(stream) = Len(unread) + Len(two)
      BY ONLY <1>2, <2>1, ConcatProperties, Zenon
    <3> HIDE DEF stream
    <3> QED BY <2>1, <3>1, <3>2
  <2>3. Head(stream) \in QuietAnswers /\ Tail(Tail(stream)) \in Seq(QuietAnswers)
    <3> HIDE DEF stream
    <3>1. stream # <<>>
      BY <2>2
    <3>2. Tail(stream) \in Seq(QuietAnswers) /\ Len(Tail(stream)) = Len(stream) - 1 /\ Head(stream) \in QuietAnswers
      BY <2>2, <3>1, HeadTailProperties
    <3>3. Tail(stream) # <<>>
      <4>1. Len(stream) \in Nat
        BY <2>2, LenProperties
      <4>2. Len(Tail(stream)) # 0
        BY <2>2, <3>2, <4>1
      <4> QED BY <4>2, EmptySeq
    <3> QED BY <3>2, <3>3, HeadTailProperties
  <2>4. unread' \in Seq(QuietAnswers)
    <3>1. unread' = <<>> \/ unread' = Tail(Tail(stream))
      BY <1>4 DEF WorkerStatus
    <3> QED BY <2>3, <3>1, EmptySeq
  <2>5. events' \in Seq(QuietEvents)
    <3> DEFINE e == [kind |-> "status", state |-> Head(stream).state]
    <3>1. events' = events \/ (Head(stream).type = "status" /\ events' = Append(events, e))
      BY <1>4 DEF WorkerStatus, Emit
    <3>2. Head(stream).type = "status" => e \in QuietEvents
      <4>1. Head(stream) \in Answers /\ Head(stream).state # "disconnecting"
        BY <2>3 DEF QuietAnswers
      <4> QED BY <4>1, StatusIsState DEF QuietEvents, EventType
    <3> HIDE DEF e
    <3> QED BY <1>2, <3>1, <3>2
  <2>6. daemon' = daemon
    BY <1>4 DEF WorkerStatus
  <2> QED BY <1>2, <2>4, <2>5, <2>6
<1> QED BY <1>3, <1>4

\* An event reaches the store.
LEMMA AwaitDeliver == ASSUME TypeInv, AwaitInv, Deliver PROVE AwaitInv'
<1>1. events \in Seq(QuietEvents) /\ events # <<>>
  BY DEF AwaitInv, NoEcho, Deliver, OnVpnStatus, OnDaemonStatus
<1>2. Head(events) \in QuietEvents /\ Tail(events) \in Seq(QuietEvents)
  BY <1>1, HeadTailProperties
<1>3. events' = Tail(events) /\ UNCHANGED <<daemon, unread>>
  BY DEF Deliver, OnVpnStatus, OnDaemonStatus
<1>4. SUFFICES (\A c \in calls' : c.answer \in QuietAnswers) /\ Awaited'
  BY <1>2, <1>3 DEF AwaitInv, NoEcho
<1>5. CASE OnVpnStatus
  <2>1. Head(events).state # "disconnecting"
    BY <1>2 DEF QuietEvents
  <2> QED BY <1>5, <2>1 DEF OnVpnStatus, AwaitInv, NoEcho, Awaited
<1>6. ASSUME NEW first \in BOOLEAN, OnDaemonStatus(first)
      PROVE  (\A c \in calls' : c.answer \in QuietAnswers) /\ Awaited'
  <2>1. \/ conn' = "error" /\ UNCHANGED calls
        \/ NewCall("resync", "sent", 0, 0, "none") /\ UNCHANGED conn
        \/ UNCHANGED <<conn, calls>>
    BY <1>6 DEF OnDaemonStatus
  <2> QED BY <2>1, NewCallQuietly DEF CallKinds, AwaitInv, NoEcho, Awaited
<1> QED BY <1>5, <1>6 DEF Deliver

\* Once another connection has disconnected the daemon, that stays known.
LEMMA OtherIsKnown ==
    ASSUME TypeInv, [Next]_vars, daemon'.other = "none"
    PROVE  daemon.other = "none"
<1>0. daemon \in DaemonType
  BY DEF TypeInv, TypeOK, DaemonType
<1>1. CASE UNCHANGED daemon
  BY <1>1
<1>2. ASSUME NEW c \in calls, SendRequest(c) \/ RequestTimesOut(c) \/ Returns(c) PROVE daemon'.other = daemon.other
  <2>1. CASE SendRequest(c)
    BY <2>1, RequestTypes DEF SendRequest, TypeInv
  <2>2. CASE RequestTimesOut(c)
    BY <2>2, HandledTypes, MovedType DEF RequestTimesOut, TypeInv
  <2>3. CASE Returns(c)
    BY <2>3 DEF Returns, ConnectReturns, DisconnectReturns, RetryReturns, ResyncReturns, backVars
  <2> QED BY <1>2, <2>1, <2>2, <2>3
<1>3. CASE WorkerPing
  BY <1>3, RequestTypes DEF WorkerPing, TypeInv
<1>4. CASE (\E state \in States : DaemonMoves(state)) \/ DaemonStarts
  BY <1>0, <1>4 DEF DaemonMoves, DaemonStarts, DaemonType
<1>5. CASE OtherDisconnect \/ OtherDisconnectEnds \/ DaemonDies
  <2>1. CASE OtherDisconnect
    BY <1>0, <2>1 DEF OtherDisconnect, DaemonType
  <2>2. CASE OtherDisconnectEnds
    BY <1>0, <2>2 DEF OtherDisconnectEnds, DaemonType
  <2>3. CASE DaemonDies
    BY <2>3 DEF DaemonDies
  <2> QED BY <1>5, <2>1, <2>2, <2>3
<1>6. \/ (\E p \in Profiles : UserConnect(p)) \/ UserDisconnect \/ TypePassword \/ SubmitPrompt \/ ClosePrompt
      \/ TrayToggle \/ NetworkOnline \/ RetryDaemonIpc \/ Subscribe \/ AutoConnectTimer
      \/ WorkerStatus \/ Deliver \/ UNCHANGED vars
      => UNCHANGED daemon
  BY DEF UserConnect, UserDisconnect, TypePassword, SubmitPrompt, ClosePrompt, TrayToggle, NetworkOnline,
         RetryDaemonIpc, Subscribe, AutoConnectTimer, WorkerStatus, Deliver, OnVpnStatus, OnDaemonStatus, backVars, vars
<1> QED BY <1>1, <1>2, <1>3, <1>4, <1>5, <1>6 DEF Next

\* The inductive invariant: as long as no other connection has.
AloneInv == daemon.other = "none" => AwaitInv

LEMMA AwaitStep == TypeInv /\ AloneInv /\ [Next]_vars => AloneInv'
<1> SUFFICES ASSUME TypeInv, AloneInv, [Next]_vars, daemon'.other = "none" PROVE AwaitInv'
  BY DEF AloneInv
<1>0. AwaitInv
  BY OtherIsKnown DEF AloneInv
<1>1. CASE UNCHANGED vars
  BY <1>0, <1>1 DEF AwaitInv, NoEcho, Awaited, vars, uiVars, backVars
<1>2. ASSUME NEW state \in States, DaemonMoves(state) PROVE AwaitInv'
  BY <1>0, <1>2 DEF AwaitInv, NoEcho, Awaited, DaemonMoves, uiVars, TypeInv, TypeOK
<1>3. CASE DaemonDies
  BY <1>0, <1>3, EmptySeq DEF AwaitInv, NoEcho, Awaited, DaemonDies, uiVars
<1>4. CASE DaemonStarts
  BY <1>0, <1>4 DEF AwaitInv, NoEcho, Awaited, DaemonStarts, uiVars, TypeInv, TypeOK
<1>5. CASE OtherDisconnect \/ OtherDisconnectEnds
  BY <1>5 DEF OtherDisconnect, OtherDisconnectEnds, TypeInv, TypeOK
<1> QED BY <1>0, <1>1, <1>2, <1>3, <1>4, <1>5, AwaitAct, AwaitCall, AwaitPoll, AwaitDeliver DEF Next

\* The store never shows "disconnecting" without the disconnect that ends it, for
\* any profiles and any number of acts, crashes, timeouts, polls and operations
\* that overtake each other, as long as no other instance of the application has
\* had the daemon disconnect.
THEOREM DisconnectingAlwaysAwaited == Spec => []DisconnectingIsAwaited
<1>1. Init => AloneInv
  BY EmptySeq DEF Init, AloneInv, AwaitInv, NoEcho, Awaited
<1>2. Spec => []TypeInv
  BY TypeInit, TypeStep, PTL DEF Spec
<1>3. AloneInv => DisconnectingIsAwaited
  BY DEF AloneInv, AwaitInv, Awaited, DisconnectingIsAwaited
<1> QED BY <1>1, <1>2, <1>3, AwaitStep, PTL DEF Spec
=============================================================================
