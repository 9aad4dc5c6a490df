---------------------------- MODULE MessagesProofs ----------------------------
(***************************************************************************)
(* Proofs about Messages, for any number of clients, however deep the      *)
(* handling of their messages nests: a message is in one place, whoever    *)
(* waits for the window of options has something to wait for, and a client *)
(* told that it may go on was told the truth.                              *)
(***************************************************************************)
EXTENDS Messages, SequenceFacts, FiniteSetTheorems

-----------------------------------------------------------------------------
(***************************************************************************)
(* Frames, and the stack of them.                                          *)
(***************************************************************************)
Hiding == {"hiding for ok", "hiding for cancel"}

Senders == Clients \cup {NoClient}

LEMMA FrameFields ==
    ASSUME NEW f \in Frames
    PROVE  /\ f.at \in {"next", "reading", "waiting"} \cup Hiding
           /\ f.msg \in Senders
           /\ f.at \in {"next"} \cup Hiding => f.msg = NoClient
  BY DEF Frames, Hiding, Senders

LEMMA FrameMade ==
    /\ [at |-> "next", msg |-> NoClient] \in Frames
    /\ \A c \in Senders : [at |-> "reading", msg |-> c] \in Frames
    /\ \A c \in Senders : [at |-> "waiting", msg |-> c] \in Frames
    /\ \A at \in Hiding : [at |-> at, msg |-> NoClient] \in Frames
  BY DEF Frames, Hiding, Senders

Handles(s, c) == \E i \in DOMAIN s : s[i].msg = c

HandledOnce(s) ==
    \A i, j \in DOMAIN s : s[i].msg = s[j].msg /\ s[i].msg # NoClient => i = j

\* A frame above i hides the window.
Hidden(s, i) == \E j \in DOMAIN s : j > i /\ s[j].at \in Hiding

\* What the stack s still handles is not changed by a push of f ...
LEMMA PushedFrame ==
    ASSUME NEW s \in Seq(Frames), NEW f \in Frames
    PROVE  /\ Append(s, f) \in Seq(Frames)
           /\ \A c : Handles(Append(s, f), c) <=> Handles(s, c) \/ f.msg = c
           /\ HandledOnce(s) /\ (f.msg # NoClient => ~ Handles(s, f.msg))
                => HandledOnce(Append(s, f))
           /\ \A i \in DOMAIN Append(s, f) :
                 \/ i \in DOMAIN s /\ Append(s, f)[i] = s[i]
                 \/ i \notin DOMAIN s /\ Append(s, f)[i] = f
           /\ \A i \in DOMAIN s :
                 Hidden(s, i) \/ f.at \in Hiding => Hidden(Append(s, f), i)
<1> DEFINE r == Append(s, f)
<1>1. /\ r \in Seq(Frames) /\ Len(s) \in Nat
      /\ DOMAIN r = 1..Len(s) + 1 /\ DOMAIN s = 1..Len(s)
      /\ \A i \in 1..Len(s) : r[i] = s[i]
      /\ r[Len(s) + 1] = f
  OBVIOUS
<1>2. /\ \A i \in 1..Len(s) + 1 : i \in 1..Len(s) \/ i = Len(s) + 1
      /\ \A i \in 1..Len(s) : i \in 1..Len(s) + 1 /\ Len(s) + 1 > i
      /\ Len(s) + 1 \in 1..Len(s) + 1 /\ Len(s) + 1 \notin 1..Len(s)
  BY <1>1
<1> HIDE DEF r
<1>3. \A c : Handles(r, c) <=> Handles(s, c) \/ f.msg = c
  BY <1>1, <1>2 DEF Handles
<1>4. HandledOnce(s) /\ (f.msg # NoClient => ~ Handles(s, f.msg)) => HandledOnce(r)
  BY <1>1, <1>2 DEF HandledOnce, Handles
<1>5. \A i \in DOMAIN r : \/ i \in DOMAIN s /\ r[i] = s[i]
                          \/ i \notin DOMAIN s /\ r[i] = f
  BY <1>1, <1>2
<1>6. \A i \in DOMAIN s : Hidden(s, i) \/ f.at \in Hiding => Hidden(r, i)
  BY <1>1, <1>2 DEF Hidden
<1>7. QED
  BY <1>1, <1>3, <1>4, <1>5, <1>6 DEF r

\* ... and is all but the last of it once that returns.
LEMMA PoppedFrame ==
    ASSUME NEW s \in Seq(Frames), s # <<>>
    PROVE  /\ Front(s) \in Seq(Frames)
           /\ Last(s) \in Frames
           /\ Len(s) \in DOMAIN s /\ s[Len(s)] = Last(s)
           /\ \A c : Handles(s, c) <=> Handles(Front(s), c) \/ Last(s).msg = c
           /\ HandledOnce(s) =>
                 /\ HandledOnce(Front(s))
                 /\ Last(s).msg # NoClient => ~ Handles(Front(s), Last(s).msg)
           /\ \A i \in DOMAIN Front(s) :
                 /\ i \in DOMAIN s /\ Front(s)[i] = s[i]
                 /\ Hidden(s, i) /\ Last(s).at \notin Hiding => Hidden(Front(s), i)
<1> DEFINE r == Front(s)
           f == Last(s)
<1>1. /\ r \in Seq(Frames) /\ f \in Frames
      /\ Len(r) = Len(s) - 1
      /\ \A i \in 1..Len(s) - 1 : r[i] = s[i]
  BY FrontProperties
<1>2. Len(s) \in Nat /\ Len(s) > 0 /\ f = s[Len(s)]
  BY EmptySeq DEF Last
<1>3. /\ DOMAIN r = 1..Len(s) - 1 /\ DOMAIN s = 1..Len(s)
      /\ \A i \in 1..Len(s) : i \in 1..Len(s) - 1 \/ i = Len(s)
      /\ \A i \in 1..Len(s) - 1 : i \in 1..Len(s) /\ i # Len(s)
      /\ Len(s) \in 1..Len(s)
  BY <1>1, <1>2
<1> HIDE DEF r, f
<1>4. \A c : Handles(s, c) <=> Handles(r, c) \/ f.msg = c
  BY <1>1, <1>2, <1>3 DEF Handles
<1>5. ASSUME HandledOnce(s)
      PROVE  HandledOnce(r) /\ (f.msg # NoClient => ~ Handles(r, f.msg))
  BY <1>1, <1>2, <1>3, <1>5 DEF HandledOnce, Handles
<1>6. \A i \in DOMAIN r :
         /\ i \in DOMAIN s /\ r[i] = s[i]
         /\ Hidden(s, i) /\ f.at \notin Hiding => Hidden(r, i)
  BY <1>1, <1>2, <1>3 DEF Hidden
<1>7. QED
  BY <1>1, <1>2, <1>3, <1>4, <1>5, <1>6 DEF r, f

-----------------------------------------------------------------------------
(***************************************************************************)
(* Types.                                                                  *)
(***************************************************************************)
Typed ==
    /\ client \in [Clients -> {"idle", "waiting", "exited"}]
    /\ property \in Seq(Clients)
    /\ events \in Nat
    /\ receiveq \in Seq(Clients)
    /\ replies \in [Clients -> Seq(Codes)]
    /\ stack \in Seq(Frames)
    /\ visible \in BOOLEAN /\ from_client \in BOOLEAN /\ finished \in BOOLEAN
    /\ result \in Codes
    /\ configures \in Nat
    /\ configured \in SUBSET Clients

LEMMA Running ==
    ASSUME stack \in Seq(Frames),
           Here \in {"next", "reading", "waiting"} \cup Hiding
    PROVE  /\ stack # <<>> /\ Last(stack) \in Frames /\ Last(stack).at = Here
           /\ Last(stack).msg \in Senders
           /\ Here \in {"next"} \cup Hiding => Last(stack).msg = NoClient
<1>1. stack # <<>> /\ Last(stack).at = Here
  BY DEF Here, Hiding
<1>2. Last(stack) \in Frames
  BY <1>1, PoppedFrame
<1>3. QED
  BY <1>1, <1>2, FrameFields

HasCommand(c) == command[c] # ""

LEMMA ParsedMessages ==
    ASSUME NEW q \in Seq(Clients)
    PROVE  /\ Parsed(q) \in Seq(Clients)
           /\ \A c : On(Parsed(q), c) => On(q, c)
           /\ \A c \in Clients : On(q, c) /\ HasCommand(c) => On(Parsed(q), c)
           /\ IsInjective(q) => IsInjective(Parsed(q))
<1>1. CASE q # <<>> /\ command[Last(q)] = ""
  <2>1. Parsed(q) = Front(q)
    BY <1>1 DEF Parsed
  <2>2. Front(q) \in Seq(Clients)
    BY <1>1, FrontProperties
  <2>3. \A c : /\ On(Front(q), c) => On(q, c)
               /\ On(q, c) => c = Last(q) \/ On(Front(q), c)
    BY <1>1, OnFront
  <2>4. IsInjective(q) => IsInjective(Front(q))
    BY <1>1, FrontOnce
  <2>5. QED
    BY <1>1, <2>1, <2>2, <2>3, <2>4 DEF HasCommand
<1>2. CASE ~ (q # <<>> /\ command[Last(q)] = "")
  BY <1>2 DEF Parsed
<1>3. QED
  BY <1>1, <1>2

LEMMA TypedInit == Init => Typed
<1> SUFFICES ASSUME Init
             PROVE  Typed
  OBVIOUS
<1>1. stack \in Seq(Frames) /\ property \in Seq(Clients) /\ receiveq \in Seq(Clients)
  BY DEF Init
<1>2. replies \in [Clients -> Seq(Codes)]
  BY DEF Init
<1>3. /\ client \in [Clients -> {"idle", "waiting", "exited"}]
      /\ events \in Nat
      /\ visible \in BOOLEAN /\ from_client \in BOOLEAN /\ finished \in BOOLEAN
      /\ result \in Codes
      /\ configures \in Nat
      /\ configured \in SUBSET Clients
  BY DEF Init, Codes
<1>4. QED
  BY <1>1, <1>2, <1>3 DEF Typed

\* The replies, the stack and the set after show_configure_window() returns to
\* the caller of a frame.
LEMMA ReturnTyped ==
    ASSUME Typed, Here \in {"reading", "waiting"}, Return(Last(stack).msg)
    PROVE  /\ replies' \in [Clients -> Seq(Codes)]
           /\ stack' \in Seq(Frames)
           /\ configured' \in SUBSET Clients
<1>1. /\ stack \in Seq(Frames) /\ replies \in [Clients -> Seq(Codes)]
      /\ result \in Codes /\ configured \in SUBSET Clients
  BY DEF Typed
<1>2. stack # <<>> /\ Last(stack).msg \in Senders /\ Front(stack) \in Seq(Frames)
  BY <1>1, Running, PoppedFrame
<1>3. CASE Last(stack).msg = NoClient
  BY <1>1, <1>2, <1>3 DEF Return, Pop
<1>4. CASE Last(stack).msg # NoClient
  <2>1. Append(Front(stack), [at |-> "next", msg |-> NoClient]) \in Seq(Frames)
    BY <1>2, FrameMade, PushedFrame
  <2>2. Last(stack).msg \in Clients
    BY <1>2, <1>4 DEF Senders
  <2>3. Append(replies[Last(stack).msg], result) \in Seq(Codes)
    BY <1>1, <2>2
  <2>4. QED
    BY <1>1, <1>4, <2>1, <2>2, <2>3 DEF Return, Goto, mq_reply
<1>5. QED
  BY <1>3, <1>4

LEMMA TypedStep == Typed /\ [Next]_vars => Typed'
<1> SUFFICES ASSUME Typed, [Next]_vars
             PROVE  Typed'
  OBVIOUS
<1> USE DEF Codes
<1>a. /\ client \in [Clients -> {"idle", "waiting", "exited"}]
      /\ property \in Seq(Clients) /\ receiveq \in Seq(Clients)
      /\ events \in Nat /\ configures \in Nat
      /\ replies \in [Clients -> Seq(Codes)]
      /\ stack \in Seq(Frames)
      /\ visible \in BOOLEAN /\ from_client \in BOOLEAN /\ finished \in BOOLEAN
      /\ result \in Codes
      /\ configured \in SUBSET Clients
  BY DEF Typed
<1>b. /\ \A f \in Frames : Append(stack, f) \in Seq(Frames)
      /\ stack # <<>> => Front(stack) \in Seq(Frames)
      /\ \A f \in Frames : stack # <<>> => Append(Front(stack), f) \in Seq(Frames)
  BY <1>a, PushedFrame, PoppedFrame
<1>1. ASSUME NEW c \in Clients, mq_send(c)
      PROVE  Typed'
  <2>1. Append(property, c) \in Seq(Clients)
    BY <1>a
  <2>2. QED
    BY <1>a, <1>1, <2>1 DEF mq_send, Typed
<1>2. ASSUME NEW c \in Clients, mq_get_reply(c)
      PROVE  Typed'
  <2>1. <<>> \in Seq(Codes)
    OBVIOUS
  <2>2. QED
    BY <1>a, <1>2, <2>1 DEF mq_get_reply, Typed
<1>3. CASE mq_message_event
  <2>0. Parsed(property) \in Seq(Clients)
    BY <1>a, ParsedMessages
  <2>1. receiveq \o Parsed(property) \in Seq(Clients) /\ <<>> \in Seq(Clients)
    BY <1>a, <2>0
  <2>2. events - 1 \in Nat
    BY <1>a, <1>3 DEF mq_message_event
  <2>3. stack' \in Seq(Frames)
    BY <1>3, <1>b, FrameMade DEF mq_message_event, Push
  <2>4. QED
    BY <1>a, <1>3, <2>1, <2>2, <2>3 DEF mq_message_event, Typed
<1>4. CASE NoMessage
  <2>1. stack # <<>>
    BY <1>4, <1>a, Running DEF NoMessage
  <2>2. stack' \in Seq(Frames)
    BY <1>4, <1>b, <2>1 DEF NoMessage, Pop
  <2>3. QED
    BY <1>a, <1>4, <2>2 DEF NoMessage, Typed
<1>5. CASE UnknownMessage
  <2>1. Tail(receiveq) \in Seq(Clients) /\ Head(receiveq) \in Clients
    BY <1>5, <1>a, OnTail, HeadOn DEF UnknownMessage
  <2>2. Append(replies[Head(receiveq)], 1) \in Seq(Codes)
    BY <1>a, <2>1
  <2>3. QED
    BY <1>a, <1>5, <2>1, <2>2 DEF UnknownMessage, mq_reply, Typed
<1>6. CASE ConfigureMessage
  <2>1. Tail(receiveq) \in Seq(Clients) /\ Head(receiveq) \in Senders
    BY <1>6, <1>a, OnTail, HeadOn DEF ConfigureMessage, Senders
  <2>2. stack # <<>>
    BY <1>6, <1>a, Running DEF ConfigureMessage
  <2>3. stack' \in Seq(Frames)
    BY <1>6, <1>b, <2>1, <2>2, FrameMade DEF ConfigureMessage, Goto
  <2>4. QED
    BY <1>a, <1>6, <2>1, <2>3 DEF ConfigureMessage, Typed
<1>7. CASE build_configure_cb
  <2>1. stack' \in Seq(Frames)
    BY <1>7, <1>b, FrameMade DEF build_configure_cb, Push, Senders
  <2>2. QED
    BY <1>a, <1>7, <2>1 DEF build_configure_cb, Typed
<1>8. CASE ShowAndWait
  <2>1. stack # <<>> /\ Last(stack).msg \in Senders
    BY <1>8, <1>a, Running DEF ShowAndWait
  <2>2. stack' \in Seq(Frames)
    BY <1>8, <1>b, <2>1, FrameMade DEF ShowAndWait, Goto
  <2>3. QED
    BY <1>a, <1>8, <2>2 DEF ShowAndWait, Typed
<1>9. CASE ShowAndReturn
  <2>1. Here \in {"reading", "waiting"} /\ Return(Last(stack).msg)
    BY <1>9 DEF ShowAndReturn
  <2>2. QED
    BY <1>a, <1>9, <2>1, ReturnTyped DEF ShowAndReturn, Typed
<1>10. CASE EndWait
  <2>1. Here \in {"reading", "waiting"} /\ Return(Last(stack).msg)
    BY <1>10 DEF EndWait
  <2>2. QED
    BY <1>a, <1>10, <2>1, ReturnTyped DEF EndWait, Typed
<1>11. ASSUME NEW button \in Hiding, Answer(button)
       PROVE  Typed'
  <2>1. stack' \in Seq(Frames)
    BY <1>11, <1>b, FrameMade DEF Answer, Push
  <2>2. QED
    BY <1>a, <1>11, <2>1 DEF Answer, Typed
<1>12. CASE EndCancel
  <2>1. stack # <<>>
    BY <1>12, <1>a, Running DEF EndCancel, Hiding
  <2>2. stack' \in Seq(Frames)
    BY <1>12, <1>b, <2>1 DEF EndCancel, Pop
  <2>3. QED
    BY <1>a, <1>12, <2>2 DEF EndCancel, Typed
<1>13. CASE EndOk
  <2>1. stack # <<>>
    BY <1>13, <1>a, Running DEF EndOk, Hiding
  <2>2. stack' \in Seq(Frames)
    BY <1>13, <1>b, <2>1 DEF EndOk, Pop
  <2>3. configures' = configures + 1 \/ configures' = configures
    BY <1>13, Zenon DEF EndOk
  <2>4. configures' \in Nat
    BY <1>a, <2>3
  <2>5. /\ UNCHANGED <<client, property, events, receiveq, replies, visible>>
        /\ UNCHANGED <<from_client, finished, result, configured>>
    BY <1>13 DEF EndOk
  <2>6. QED
    BY <1>a, <2>2, <2>4, <2>5 DEF Typed
<1>14. ASSUME NEW code \in Codes, configure_reap(code)
       PROVE  Typed'
  <2>1. Serving \subseteq Clients
    <3>1. \A i \in DOMAIN stack : stack[i] \in Frames
      BY <1>a
    <3>2. \A i \in DOMAIN stack : stack[i].msg \in Senders
      BY <3>1, FrameFields
    <3>3. QED
      BY <3>2 DEF Serving, Senders
  <2>2. configures - 1 \in Nat
    BY <1>a, <1>14 DEF configure_reap
  <2>3. QED
    BY <1>a, <1>14, <2>1, <2>2 DEF configure_reap, Typed
<1>15. CASE UNCHANGED vars
  BY <1>15, <1>a DEF vars, Typed
<1>16. QED
  BY <1>1, <1>2, <1>3, <1>4, <1>5, <1>6, <1>7, <1>8, <1>9, <1>10, <1>11,
     <1>12, <1>13, <1>14, <1>15
     DEF Next, autoconf_ok_cb, autoconf_cancel_cb, ReapConfigure, Hiding

-----------------------------------------------------------------------------
(***************************************************************************)
(* Where the message of a client is: on the window of maketool, in the     *)
(* queue, with a frame that handles it, or answered.                       *)
(***************************************************************************)
Answered(c) == replies[c] # <<>>

Placed(c) ==
    On(property, c) \/ On(receiveq, c) \/ Handles(stack, c) \/ Answered(c)

Once ==
    /\ IsInjective(property) /\ IsInjective(receiveq) /\ HandledOnce(stack)
    /\ \A c \in Clients : Len(replies[c]) <= 1

Apart(c) ==
    /\ On(property, c) => ~ On(receiveq, c)
    /\ On(property, c) \/ On(receiveq, c) => ~ Handles(stack, c)
    /\ On(property, c) \/ On(receiveq, c) \/ Handles(stack, c) => ~ Answered(c)

\* A header without a command is dropped when it is the last of the property.
WaitsForIt(c) ==
    /\ Placed(c) => client[c] = "waiting"
    /\ client[c] = "waiting" /\ HasCommand(c) => Placed(c)

OnePlace == Once /\ \A c \in Clients : Apart(c) /\ WaitsForIt(c)

LEMMA OnePlaceInit == Init => OnePlace
<1> SUFFICES ASSUME Init
             PROVE  OnePlace
  OBVIOUS
<1>1. property = <<>> /\ receiveq = <<>> /\ stack = <<>>
  BY DEF Init
<1>2. \A c \in Clients : client[c] = "idle" /\ replies[c] = <<>>
  BY DEF Init
<1>3. IsInjective(property) /\ IsInjective(receiveq) /\ HandledOnce(stack)
  BY <1>1 DEF IsInjective, HandledOnce
<1>4. \A c \in Clients :
         ~ On(property, c) /\ ~ On(receiveq, c) /\ ~ Handles(stack, c)
  BY <1>1 DEF On, Handles
<1>5. \A c \in Clients : Len(replies[c]) <= 1
  BY <1>2
<1>6. QED
  BY <1>2, <1>3, <1>4, <1>5 DEF OnePlace, Once, Apart, WaitsForIt, Placed, Answered

\* An answer takes the place of the frame that handled the message.
LEMMA ReturnAnswers ==
    ASSUME Typed, OnePlace, Here \in {"reading", "waiting"},
           Return(Last(stack).msg)
    PROVE  /\ HandledOnce(stack')
           /\ \A c \in Clients :
                 /\ Len(replies'[c]) <= 1
                 /\ Handles(stack', c) <=> Handles(stack, c) /\ c # Last(stack).msg
                 /\ replies'[c] # <<>> <=> Answered(c) \/ c = Last(stack).msg
<1> DEFINE m == Last(stack).msg
<1>1. stack \in Seq(Frames) /\ replies \in [Clients -> Seq(Codes)] /\ result \in Codes
  BY DEF Typed
<1>2. stack # <<>> /\ m \in Senders
  BY <1>1, Running
<1>3. /\ Front(stack) \in Seq(Frames)
      /\ \A c : Handles(stack, c) <=> Handles(Front(stack), c) \/ m = c
      /\ HandledOnce(Front(stack))
      /\ m # NoClient => ~ Handles(Front(stack), m)
  BY <1>1, <1>2, PoppedFrame DEF OnePlace, Once
<1>4. \A c \in Clients : Len(replies[c]) <= 1
  BY DEF OnePlace, Once
<1> HIDE DEF m
<1>5. Return(m)
  BY DEF m
<1>6. CASE m = NoClient
  <2>1. stack' = Front(stack) /\ replies' = replies
    BY <1>5, <1>6 DEF Return, Pop
  <2>2. \A c \in Clients : c # m
    BY <1>6, MessagesAssumption
  <2>3. \A c \in Clients :
           /\ Len(replies'[c]) <= 1
           /\ Handles(stack', c) <=> Handles(stack, c) /\ c # m
           /\ replies'[c] # <<>> <=> Answered(c) \/ c = m
    BY <1>3, <1>4, <2>1, <2>2 DEF Answered
  <2>4. QED
    BY <1>3, <2>1, <2>3 DEF m
<1>7. CASE m # NoClient
  <2> DEFINE f == [at |-> "next", msg |-> NoClient]
  <2>1. /\ stack' = Append(Front(stack), f)
        /\ replies' = [replies EXCEPT ![m] = Append(@, result)]
    BY <1>5, <1>7 DEF Return, Goto, mq_reply
  <2>2. m \in Clients /\ NoClient \notin Clients
    BY <1>2, <1>7, MessagesAssumption DEF Senders
  <2>3. f \in Frames /\ f.msg = NoClient
    BY FrameMade
  <2> HIDE DEF f
  <2>4. /\ HandledOnce(stack')
        /\ \A c : Handles(stack', c) <=> Handles(Front(stack), c) \/ NoClient = c
    BY <1>3, <2>1, <2>3, PushedFrame
  <2>5. \A c \in Clients : Handles(stack', c) <=> Handles(stack, c) /\ c # m
    BY <1>3, <1>7, <2>2, <2>4
  <2>6. ~ Answered(m) /\ replies[m] \in Seq(Codes)
    BY <1>1, <1>3, <2>2 DEF OnePlace, Apart
  <2>7. /\ replies[m] = <<>>
        /\ Append(replies[m], result) # <<>> /\ Len(Append(replies[m], result)) = 1
    <3>1. replies[m] = <<>>
      BY <2>6 DEF Answered
    <3>2. Append(replies[m], result) = <<result>>
      BY <3>1
    <3>3. QED
      BY <3>1, <3>2
  <2>8. \A c \in Clients :
           /\ c # m => replies'[c] = replies[c]
           /\ c = m => replies'[c] = Append(replies[m], result)
    BY <1>1, <2>1, <2>2
  <2>9. ASSUME NEW c \in Clients
        PROVE  /\ Len(replies'[c]) <= 1
               /\ replies'[c] # <<>> <=> Answered(c) \/ c = m
    <3>1. CASE c = m
      <4>1. replies'[c] = Append(replies[m], result)
        BY <2>8, <3>1
      <4>2. Len(replies'[c]) = 1 /\ replies'[c] # <<>>
        BY <2>7, <4>1
      <4>3. QED
        BY <3>1, <4>2
    <3>2. CASE c # m
      <4>1. replies'[c] = replies[c]
        BY <2>8, <3>2
      <4>2. QED
        BY <1>4, <3>2, <4>1 DEF Answered
    <3>3. QED
      BY <3>1, <3>2
  <2>10. QED
    BY <2>4, <2>5, <2>9 DEF m
<1>8. QED
  BY <1>6, <1>7

LEMMA OnePlaceStep == Typed /\ OnePlace /\ [Next]_vars => OnePlace'
<1> SUFFICES ASSUME Typed, OnePlace, [Next]_vars
             PROVE  OnePlace'
  OBVIOUS
<1>a. /\ client \in [Clients -> {"idle", "waiting", "exited"}]
      /\ property \in Seq(Clients) /\ receiveq \in Seq(Clients)
      /\ replies \in [Clients -> Seq(Codes)]
      /\ stack \in Seq(Frames)
  BY DEF Typed
<1>b. /\ IsInjective(property) /\ IsInjective(receiveq) /\ HandledOnce(stack)
      /\ \A c \in Clients : Len(replies[c]) <= 1
      /\ \A c \in Clients : Apart(c) /\ WaitsForIt(c)
  BY DEF OnePlace, Once
<1>c. NoClient \notin Clients
  BY MessagesAssumption
<1>1. ASSUME NEW f \in Frames, f.msg = NoClient, stack' = Append(stack, f)
      PROVE  /\ HandledOnce(stack')
             /\ \A c \in Clients : Handles(stack', c) <=> Handles(stack, c)
  BY <1>a, <1>b, <1>c, <1>1, PushedFrame
<1>2. ASSUME stack # <<>>, Last(stack).msg = NoClient, stack' = Front(stack)
      PROVE  /\ HandledOnce(stack')
             /\ \A c \in Clients : Handles(stack', c) <=> Handles(stack, c)
  BY <1>a, <1>b, <1>c, <1>2, PoppedFrame
\* The messages stay where they are.
<1>3. ASSUME UNCHANGED <<client, property, receiveq, replies>>,
             HandledOnce(stack'),
             \A c \in Clients : Handles(stack', c) <=> Handles(stack, c)
      PROVE  OnePlace'
  <2>1. \A c \in Clients : Apart(c)' /\ WaitsForIt(c)'
    BY <1>b, <1>3 DEF Apart, WaitsForIt, Placed, Answered
  <2>2. QED
    BY <1>b, <1>3, <2>1 DEF OnePlace, Once
<1>4. ASSUME NEW c \in Clients, mq_send(c)
      PROVE  OnePlace'
  <2>1. /\ client[c] = "idle" /\ client' = [client EXCEPT ![c] = "waiting"]
        /\ property' = Append(property, c)
        /\ UNCHANGED <<receiveq, replies, stack>>
    BY <1>4 DEF mq_send
  <2>2. ~ On(property, c) /\ ~ On(receiveq, c) /\ ~ Handles(stack, c) /\ ~ Answered(c)
    BY <1>b, <2>1 DEF WaitsForIt, Placed
  <2>3. IsInjective(property')
    BY <1>a, <1>b, <2>1, <2>2, AppendOnce
  <2>4. \A d \in Clients : On(property', d) <=> On(property, d) \/ d = c
    BY <1>a, <2>1, OnAppend
  <2>5. \A d \in Clients : client'[d] = IF d = c THEN "waiting" ELSE client[d]
    BY <1>a, <2>1
  <2>6. ASSUME NEW d \in Clients
        PROVE  Apart(d)' /\ WaitsForIt(d)'
    <3>1. Apart(d) /\ WaitsForIt(d)
      BY <1>b
    <3>2. QED
      BY <2>1, <2>2, <2>4, <2>5, <3>1 DEF Apart, WaitsForIt, Placed, Answered
  <2>7. QED
    BY <1>b, <2>1, <2>3, <2>6 DEF OnePlace, Once
<1>5. ASSUME NEW c \in Clients, mq_get_reply(c)
      PROVE  OnePlace'
  <2>1. /\ client[c] = "waiting" /\ client' = [client EXCEPT ![c] = "exited"]
        /\ Answered(c) /\ replies' = [replies EXCEPT ![c] = <<>>]
        /\ UNCHANGED <<property, receiveq, stack>>
    BY <1>5 DEF mq_get_reply, Answered
  <2>2. ~ On(property, c) /\ ~ On(receiveq, c) /\ ~ Handles(stack, c)
    BY <1>b, <2>1 DEF Apart
  <2>3. \A d \in Clients : /\ client'[d] = IF d = c THEN "exited" ELSE client[d]
                           /\ replies'[d] = IF d = c THEN <<>> ELSE replies[d]
    BY <1>a, <2>1
  <2>4. \A d \in Clients : Len(replies'[d]) <= 1
    BY <1>b, <2>3
  <2>5. ASSUME NEW d \in Clients
        PROVE  Apart(d)' /\ WaitsForIt(d)'
    <3>1. Apart(d) /\ WaitsForIt(d)
      BY <1>b
    <3>2. CASE d = c
      <4>1. ~ Answered(d)' /\ client'[d] = "exited"
        BY <2>3, <3>2 DEF Answered
      <4>2. ~ Placed(d)'
        BY <2>1, <2>2, <3>2, <4>1 DEF Placed
      <4>3. QED
        BY <2>1, <2>2, <3>2, <4>1, <4>2 DEF Apart, WaitsForIt
    <3>3. CASE d # c
      <4>1. client'[d] = client[d] /\ replies'[d] = replies[d]
        BY <2>3, <3>3
      <4>2. QED
        BY <2>1, <3>1, <4>1 DEF Apart, WaitsForIt, Placed, Answered
    <3>4. QED
      BY <3>2, <3>3
  <2>6. QED
    BY <1>b, <2>1, <2>4, <2>5 DEF OnePlace, Once
<1>6. CASE mq_message_event
  <2>1. /\ property' = <<>> /\ receiveq' = receiveq \o Parsed(property)
        /\ stack' = Append(stack, [at |-> "next", msg |-> NoClient])
        /\ UNCHANGED <<client, replies>>
    BY <1>6 DEF mq_message_event, Push
  <2>2. /\ Parsed(property) \in Seq(Clients)
        /\ \A c : On(Parsed(property), c) => On(property, c)
        /\ \A c \in Clients :
              On(property, c) /\ HasCommand(c) => On(Parsed(property), c)
        /\ IsInjective(Parsed(property))
    BY <1>a, <1>b, ParsedMessages
  <2>3. /\ HandledOnce(stack')
        /\ \A c \in Clients : Handles(stack', c) <=> Handles(stack, c)
    BY <1>1, <2>1, FrameMade
  <2>4. \A c : On(receiveq', c) <=> On(receiveq, c) \/ On(Parsed(property), c)
    BY <1>a, <2>1, <2>2, OnConcat
  <2>5. \A c : ~ On(property', c)
    BY <2>1 DEF On
  <2>6. \A c : On(receiveq, c) => c \in Clients
    BY <1>a DEF On
  <2>7. \A c : ~ (On(receiveq, c) /\ On(Parsed(property), c))
    BY <1>b, <2>2, <2>6 DEF Apart
  <2>8. IsInjective(receiveq') /\ IsInjective(property')
    <3>1. IsInjective(receiveq')
      BY <1>a, <1>b, <2>1, <2>2, <2>7, ConcatInjective
    <3>2. IsInjective(property')
      BY <2>1 DEF IsInjective
    <3>3. QED
      BY <3>1, <3>2
  <2>9. ASSUME NEW c \in Clients
        PROVE  Apart(c)' /\ WaitsForIt(c)'
    <3>1. Apart(c) /\ WaitsForIt(c)
      BY <1>b
    <3>2. /\ On(receiveq', c) => On(receiveq, c) \/ On(property, c)
          /\ On(property, c) /\ HasCommand(c) => On(receiveq', c)
          /\ On(receiveq, c) => On(receiveq', c)
      BY <2>2, <2>4
    <3>3. QED
      BY <2>1, <2>3, <2>5, <3>1, <3>2 DEF Apart, WaitsForIt, Placed, Answered
  <2>10. QED
    BY <1>b, <2>1, <2>3, <2>8, <2>9 DEF OnePlace, Once
<1>7. CASE NoMessage
  <2>1. stack' = Front(stack) /\ stack # <<>> /\ Last(stack).msg = NoClient
    BY <1>7, <1>a, Running DEF NoMessage, Pop
  <2>2. UNCHANGED <<client, property, receiveq, replies>>
    BY <1>7 DEF NoMessage
  <2>3. QED
    BY <1>2, <1>3, <2>1, <2>2
<1>8. CASE UnknownMessage
  <2> DEFINE c == Head(receiveq)
  <2>1. /\ receiveq # <<>> /\ receiveq' = Tail(receiveq)
        /\ replies' = [replies EXCEPT ![c] = Append(@, 1)]
        /\ UNCHANGED <<client, property, stack>>
    BY <1>8 DEF UnknownMessage, mq_reply
  <2>2. c \in Clients /\ On(receiveq, c)
    BY <1>a, <2>1, HeadOn
  <2>3. /\ IsInjective(receiveq') /\ ~ On(receiveq', c)
        /\ \A d : On(receiveq, d) <=> d = c \/ On(receiveq', d)
    BY <1>a, <1>b, <2>1, OnTail, TailOnce
  <2> HIDE DEF c
  <2>4. ~ On(property, c) /\ ~ Handles(stack, c) /\ replies[c] = <<>>
        /\ client[c] = "waiting"
    BY <1>b, <2>2 DEF Apart, WaitsForIt, Placed, Answered
  <2>5. \A d \in Clients : replies'[d] = IF d = c THEN << 1 >> ELSE replies[d]
    BY <1>a, <2>1, <2>2, <2>4
  <2>6. << 1 >> # <<>> /\ Len(<< 1 >>) = 1
    OBVIOUS
  <2>7. ASSUME NEW d \in Clients
        PROVE  Len(replies'[d]) <= 1
    <3>1. CASE d = c
      <4>1. replies'[d] = << 1 >>
        BY <2>5, <3>1
      <4>2. QED
        BY <2>6, <4>1
    <3>2. CASE d # c
      BY <1>b, <2>5, <3>2
    <3>3. QED
      BY <3>1, <3>2
  <2>8. ASSUME NEW d \in Clients
        PROVE  Apart(d)' /\ WaitsForIt(d)'
    <3>1. Apart(d) /\ WaitsForIt(d)
      BY <1>b
    <3>2. replies'[d] # <<>> <=> Answered(d) \/ d = c
      BY <2>4, <2>5, <2>6 DEF Answered
    <3>3. QED
      BY <2>1, <2>3, <2>4, <3>1, <3>2 DEF Apart, WaitsForIt, Placed, Answered
  <2>9. QED
    BY <1>b, <2>1, <2>3, <2>7, <2>8 DEF OnePlace, Once
<1>9. CASE ConfigureMessage
  <2> DEFINE c == Head(receiveq)
             f == [at |-> "reading", msg |-> c]
  <2>1. /\ receiveq # <<>> /\ receiveq' = Tail(receiveq)
        /\ stack' = Append(Front(stack), f)
        /\ UNCHANGED <<client, property, replies>>
    BY <1>9 DEF ConfigureMessage, Goto
  <2>2. c \in Clients /\ On(receiveq, c)
    BY <1>a, <2>1, HeadOn
  <2>3. /\ IsInjective(receiveq') /\ ~ On(receiveq', c)
        /\ \A d : On(receiveq, d) <=> d = c \/ On(receiveq', d)
    BY <1>a, <1>b, <2>1, OnTail, TailOnce
  <2>4. f \in Frames /\ f.msg = c
    BY <2>2, FrameMade DEF Senders
  <2>5. stack # <<>> /\ Last(stack).msg = NoClient
    BY <1>9, <1>a, Running DEF ConfigureMessage
  <2> HIDE DEF c, f
  <2>6. ~ On(property, c) /\ ~ Handles(stack, c) /\ ~ Answered(c)
        /\ client[c] = "waiting"
    BY <1>b, <2>2 DEF Apart, WaitsForIt, Placed
  <2>7. /\ Front(stack) \in Seq(Frames) /\ HandledOnce(Front(stack))
        /\ \A d \in Clients : Handles(Front(stack), d) <=> Handles(stack, d)
    BY <1>a, <1>b, <1>c, <2>5, PoppedFrame
  <2>8. /\ HandledOnce(stack')
        /\ \A d : Handles(stack', d) <=> Handles(Front(stack), d) \/ f.msg = d
    BY <2>1, <2>2, <2>4, <2>6, <2>7, PushedFrame
  <2>9. ASSUME NEW d \in Clients
        PROVE  Apart(d)' /\ WaitsForIt(d)'
    <3>1. Apart(d) /\ WaitsForIt(d)
      BY <1>b
    <3>2. Handles(stack', d) <=> Handles(stack, d) \/ d = c
      BY <2>4, <2>7, <2>8
    <3>3. QED
      BY <2>1, <2>3, <2>6, <3>1, <3>2 DEF Apart, WaitsForIt, Placed, Answered
  <2>10. QED
    BY <1>b, <2>1, <2>3, <2>8, <2>9 DEF OnePlace, Once
<1>10. CASE build_configure_cb
  <2>1. stack' = Append(stack, [at |-> "reading", msg |-> NoClient])
    BY <1>10 DEF build_configure_cb, Push
  <2>2. UNCHANGED <<client, property, receiveq, replies>>
    BY <1>10 DEF build_configure_cb
  <2>3. [at |-> "reading", msg |-> NoClient] \in Frames
    BY FrameMade DEF Senders
  <2>4. QED
    BY <1>1, <1>3, <2>1, <2>2, <2>3
<1>11. CASE ShowAndWait
  <2> DEFINE f == [at |-> "waiting", msg |-> Last(stack).msg]
  <2>1. stack' = Append(Front(stack), f) /\ f.msg = Last(stack).msg
    BY <1>11 DEF ShowAndWait, Goto
  <2>2. UNCHANGED <<client, property, receiveq, replies>>
    BY <1>11 DEF ShowAndWait
  <2>3. stack # <<>> /\ f \in Frames
    BY <1>11, <1>a, Running, FrameMade DEF ShowAndWait
  <2> HIDE DEF f
  <2>4. /\ Front(stack) \in Seq(Frames) /\ HandledOnce(Front(stack))
        /\ f.msg # NoClient => ~ Handles(Front(stack), f.msg)
        /\ \A c : Handles(stack, c) <=> Handles(Front(stack), c) \/ f.msg = c
    BY <1>a, <1>b, <2>1, <2>3, PoppedFrame
  <2>5. /\ HandledOnce(stack')
        /\ \A c : Handles(stack', c) <=> Handles(Front(stack), c) \/ f.msg = c
    BY <2>1, <2>3, <2>4, PushedFrame
  <2>6. QED
    BY <1>3, <2>2, <2>4, <2>5
<1>12. ASSUME Here \in {"reading", "waiting"}, Return(Last(stack).msg),
             UNCHANGED <<client, property, receiveq>>
      PROVE  OnePlace'
  <2>1. /\ HandledOnce(stack')
        /\ \A c \in Clients :
              /\ Len(replies'[c]) <= 1
              /\ Handles(stack', c) <=> Handles(stack, c) /\ c # Last(stack).msg
              /\ replies'[c] # <<>> <=> Answered(c) \/ c = Last(stack).msg
    BY <1>12, ReturnAnswers
  <2>2. Handles(stack, Last(stack).msg)
    BY <1>a, <1>12, Running, PoppedFrame
  <2>3. ASSUME NEW c \in Clients
        PROVE  Apart(c)' /\ WaitsForIt(c)'
    <3>1. Apart(c) /\ WaitsForIt(c)
      BY <1>b
    <3>2. QED
      BY <1>12, <2>1, <2>2, <3>1 DEF Apart, WaitsForIt, Placed, Answered
  <2>4. QED
    BY <1>12, <1>b, <2>1, <2>3 DEF OnePlace, Once
<1>13. CASE ShowAndReturn
  BY <1>12, <1>13 DEF ShowAndReturn
<1>14. CASE EndWait
  BY <1>12, <1>14 DEF EndWait
<1>15. ASSUME NEW button \in Hiding, Answer(button)
       PROVE  OnePlace'
  <2>1. /\ stack' = Append(stack, [at |-> button, msg |-> NoClient])
        /\ UNCHANGED <<client, property, receiveq, replies>>
    BY <1>15 DEF Answer, Push
  <2>2. QED
    BY <1>1, <1>3, <2>1, FrameMade
<1>16. CASE EndCancel
  <2>1. stack' = Front(stack) /\ stack # <<>> /\ Last(stack).msg = NoClient
    BY <1>16, <1>a, Running DEF EndCancel, Pop, Hiding
  <2>2. UNCHANGED <<client, property, receiveq, replies>>
    BY <1>16 DEF EndCancel
  <2>3. QED
    BY <1>2, <1>3, <2>1, <2>2
<1>17. CASE EndOk
  <2>1. stack' = Front(stack) /\ stack # <<>> /\ Last(stack).msg = NoClient
    BY <1>17, <1>a, Running DEF EndOk, Pop, Hiding
  <2>2. UNCHANGED <<client, property, receiveq, replies>>
    BY <1>17 DEF EndOk
  <2>3. QED
    BY <1>2, <1>3, <2>1, <2>2
<1>18. ASSUME NEW code \in Codes, configure_reap(code)
       PROVE  OnePlace'
  BY <1>18, <1>b, <1>3 DEF configure_reap
<1>19. CASE UNCHANGED vars
  BY <1>19, <1>b, <1>3 DEF vars
<1>20. QED
  BY <1>4, <1>5, <1>6, <1>7, <1>8, <1>9, <1>10, <1>11, <1>13, <1>14, <1>15,
     <1>16, <1>17, <1>18, <1>19
     DEF Next, autoconf_ok_cb, autoconf_cancel_cb, ReapConfigure, Hiding

-----------------------------------------------------------------------------
(***************************************************************************)
(* One copy.                                                               *)
(***************************************************************************)
LEMMA CountInjective ==
    ASSUME NEW q \in Seq(Clients), IsInjective(q), NEW c
    PROVE  Count(c, q) = IF On(q, c) THEN 1 ELSE 0
<1> DEFINE D == {i \in DOMAIN q : q[i] = c}
<1>1. CASE On(q, c)
  <2>1. PICK k \in DOMAIN q : q[k] = c
    BY <1>1 DEF On
  <2>2. D = {k}
    BY <2>1 DEF IsInjective
  <2> HIDE DEF D
  <2>3. Cardinality(D) = 1
    BY <2>2, FS_Singleton
  <2>4. QED
    BY <1>1, <2>3 DEF D, Count
<1>2. CASE ~ On(q, c)
  <2>1. D = {}
    BY <1>2 DEF On
  <2> HIDE DEF D
  <2>2. Cardinality(D) = 0
    BY <2>1, FS_EmptySet
  <2>3. QED
    BY <1>2, <2>2 DEF D, Count
<1>3. QED
  BY <1>1, <1>2

LEMMA CountHandled ==
    ASSUME NEW s \in Seq(Frames), HandledOnce(s), NEW c \in Clients
    PROVE  Cardinality({i \in DOMAIN s : s[i].msg = c})
               = IF Handles(s, c) THEN 1 ELSE 0
<1> DEFINE D == {i \in DOMAIN s : s[i].msg = c}
<1>1. CASE Handles(s, c)
  <2>1. PICK k \in DOMAIN s : s[k].msg = c
    BY <1>1 DEF Handles
  <2>2. \A i \in D : i = k
    BY <2>1, MessagesAssumption DEF HandledOnce
  <2>3. D = {k}
    BY <2>1, <2>2
  <2> HIDE DEF D
  <2>4. Cardinality(D) = 1
    BY <2>3, FS_Singleton
  <2>5. QED
    BY <1>1, <2>4 DEF D
<1>2. CASE ~ Handles(s, c)
  <2>1. D = {}
    BY <1>2 DEF Handles
  <2> HIDE DEF D
  <2>2. Cardinality(D) = 0
    BY <2>1, FS_EmptySet
  <2>3. QED
    BY <1>2, <2>2 DEF D
<1>3. QED
  BY <1>1, <1>2

LEMMA PlacedOnce ==
    ASSUME Typed, OnePlace, NEW c \in Clients, HasCommand(c)
    PROVE  Copies(c) = IF client[c] = "waiting" THEN 1 ELSE 0
<1>1. /\ property \in Seq(Clients) /\ receiveq \in Seq(Clients)
      /\ stack \in Seq(Frames) /\ replies[c] \in Seq(Codes)
  BY DEF Typed
<1>2. /\ IsInjective(property) /\ IsInjective(receiveq) /\ HandledOnce(stack)
      /\ Len(replies[c]) <= 1
      /\ Apart(c) /\ WaitsForIt(c)
  BY DEF OnePlace, Once
<1> DEFINE a == Count(c, property)
           b == Count(c, receiveq)
           d == Cardinality({i \in DOMAIN stack : stack[i].msg = c})
           e == Len(replies[c])
<1>3. a = IF On(property, c) THEN 1 ELSE 0
  BY <1>1, <1>2, CountInjective
<1>4. b = IF On(receiveq, c) THEN 1 ELSE 0
  BY <1>1, <1>2, CountInjective
<1>5. d = IF Handles(stack, c) THEN 1 ELSE 0
  BY <1>1, <1>2, CountHandled
<1>6. e = IF Answered(c) THEN 1 ELSE 0
  <2>1. replies[c] # <<>> => Len(replies[c]) \in Nat \ {0}
    BY <1>1, EmptySeq
  <2>2. replies[c] = <<>> => e = 0
    BY EmptySeq
  <2>3. ASSUME replies[c] # <<>>
        PROVE  e = 1
    <3>1. e \in Nat \ {0}
      BY <2>1, <2>3
    <3>2. e <= 1
      BY <1>2
    <3> HIDE DEF e
    <3>3. QED
      BY <3>1, <3>2
  <2>4. QED
    BY <2>2, <2>3 DEF Answered
<1>7. Copies(c) = a + b + e + d
  BY DEF Copies
<1> HIDE DEF a, b, d, e
<1>8. client[c] = "waiting" <=> Placed(c)
  BY <1>2 DEF WaitsForIt
<1>9. a + b + e + d = IF Placed(c) THEN 1 ELSE 0
  <2>1. CASE ~ Placed(c)
    BY <1>3, <1>4, <1>5, <1>6, <2>1 DEF Placed
  <2>2. CASE Placed(c)
    BY <1>2, <1>3, <1>4, <1>5, <1>6, <2>2 DEF Apart, Placed
  <2>3. QED
    BY <2>1, <2>2
<1>10. QED
  BY <1>7, <1>8, <1>9

LEMMA AlwaysInOnePlace == Spec => [](Typed /\ OnePlace)
<1>1. Init => Typed /\ OnePlace
  BY TypedInit, OnePlaceInit
<1>2. Typed /\ OnePlace /\ [Next]_vars => (Typed /\ OnePlace)'
  BY TypedStep, OnePlaceStep
<1>3. QED
  BY <1>1, <1>2, PTL DEF Spec

\* If every client names a command, the message of each that waits, or the
\* reply to it, is in exactly one place: none is lost by the loop that parses
\* the property, handled twice by nested loops, or answered twice (mqueue.c).
THEOREM EachMessageOnce ==
    ASSUME \A c \in Clients : command[c] # ""
    PROVE  Spec => []OneCopy
<1>1. Typed /\ OnePlace => OneCopy
  BY PlacedOnce DEF OneCopy, HasCommand
<1>2. QED
  BY <1>1, AlwaysInOnePlace, PTL

-----------------------------------------------------------------------------
(***************************************************************************)
(* Whoever waits for the window.                                           *)
(***************************************************************************)

\* Every frame that waits, not only the last: the loops of those above it
\* dispatch the callbacks that will set `finished'.
WillEnd ==
    \A i \in DOMAIN stack :
        stack[i].at = "waiting" /\ ~ finished =>
            visible \/ configures > 0 \/ Hidden(stack, i)

ForkSucceeds == "fork fails" \notin Circumstances

LEMMA WillEndStep ==
    ASSUME ForkSucceeds, Typed, WillEnd, [Next]_vars
    PROVE  WillEnd'
<1>a. /\ stack \in Seq(Frames) /\ configures \in Nat
  BY DEF Typed
<1>1. CASE visible' \/ finished' \/ configures' > 0
  BY <1>1 DEF WillEnd
\* A frame is pushed that does not wait ...
<1>2. ASSUME NEW f \in Frames, f.at # "waiting", stack' = Append(stack, f),
             visible => visible' \/ f.at \in Hiding,
             UNCHANGED <<finished, configures>>
      PROVE  WillEnd'
  <2> SUFFICES ASSUME NEW i \in DOMAIN stack', stack'[i].at = "waiting",
                      ~ finished
               PROVE  visible' \/ configures > 0 \/ Hidden(stack', i)
    BY <1>2 DEF WillEnd
  <2>1. i \in DOMAIN stack /\ stack'[i] = stack[i]
    BY <1>a, <1>2, PushedFrame
  <2>2. visible \/ configures > 0 \/ Hidden(stack, i)
    BY <2>1 DEF WillEnd
  <2>3. Hidden(stack, i) \/ f.at \in Hiding => Hidden(stack', i)
    BY <1>a, <1>2, <2>1, PushedFrame
  <2>4. QED
    BY <1>2, <2>2, <2>3
\* ... or the last one, which does not hide the window, returns ...
<1>3. ASSUME stack # <<>>, Last(stack).at \notin Hiding, stack' = Front(stack),
             UNCHANGED <<visible, finished, configures>>
      PROVE  WillEnd'
  <2> SUFFICES ASSUME NEW i \in DOMAIN stack', stack'[i].at = "waiting",
                      ~ finished
               PROVE  visible \/ configures > 0 \/ Hidden(stack', i)
    BY <1>3 DEF WillEnd
  <2>1. /\ i \in DOMAIN stack /\ stack'[i] = stack[i]
        /\ Hidden(stack, i) => Hidden(stack', i)
    BY <1>a, <1>3, PoppedFrame
  <2>2. QED
    BY <2>1 DEF WillEnd
\* ... or goes on, not to wait.
<1>4. ASSUME stack # <<>>, Last(stack).at \notin Hiding,
             NEW f \in Frames, f.at # "waiting",
             stack' = Append(Front(stack), f),
             UNCHANGED <<visible, finished, configures>>
      PROVE  WillEnd'
  <2> SUFFICES ASSUME NEW i \in DOMAIN stack', stack'[i].at = "waiting",
                      ~ finished
               PROVE  visible \/ configures > 0 \/ Hidden(stack', i)
    BY <1>4 DEF WillEnd
  <2>0. Front(stack) \in Seq(Frames)
    BY <1>a, <1>4, PoppedFrame
  <2>1. /\ i \in DOMAIN Front(stack) /\ stack'[i] = Front(stack)[i]
        /\ Hidden(Front(stack), i) => Hidden(stack', i)
    <3>1. \/ i \in DOMAIN Front(stack) /\ stack'[i] = Front(stack)[i]
          \/ stack'[i] = f
      BY <1>4, <2>0, PushedFrame
    <3>2. i \in DOMAIN Front(stack) /\ stack'[i] = Front(stack)[i]
      BY <1>4, <3>1
    <3>3. QED
      BY <1>4, <2>0, <3>2, PushedFrame
  <2>2. /\ i \in DOMAIN stack /\ Front(stack)[i] = stack[i]
        /\ Hidden(stack, i) => Hidden(Front(stack), i)
    BY <1>a, <1>4, <2>1, PoppedFrame
  <2>3. QED
    BY <2>1, <2>2 DEF WillEnd
<1>5. ASSUME UNCHANGED <<stack, visible, finished, configures>>
      PROVE  WillEnd'
  BY <1>5 DEF WillEnd
<1>6. ASSUME NEW c \in Clients, mq_send(c) \/ mq_get_reply(c)
      PROVE  WillEnd'
  BY <1>5, <1>6 DEF mq_send, mq_get_reply
<1>7. CASE mq_message_event
  <2>1. /\ stack' = Append(stack, [at |-> "next", msg |-> NoClient])
        /\ UNCHANGED <<visible, finished, configures>>
    BY <1>7 DEF mq_message_event, Push
  <2>2. QED
    BY <1>2, <2>1, FrameMade
<1>8. CASE NoMessage
  <2>1. stack' = Front(stack) /\ UNCHANGED <<visible, finished, configures>>
    BY <1>8 DEF NoMessage, Pop
  <2>2. stack # <<>> /\ Last(stack).at \notin Hiding
    BY <1>8, <1>a, Running DEF NoMessage, Hiding
  <2>3. QED
    BY <1>3, <2>1, <2>2
<1>9. CASE UnknownMessage
  BY <1>5, <1>9 DEF UnknownMessage
<1>10. CASE ConfigureMessage
  <2> DEFINE f == [at |-> "reading", msg |-> Head(receiveq)]
  <2>1. stack' = Append(Front(stack), f) /\ UNCHANGED <<visible, finished, configures>>
    BY <1>10 DEF ConfigureMessage, Goto
  <2>2. stack # <<>> /\ Last(stack).at \notin Hiding
    BY <1>10, <1>a, Running DEF ConfigureMessage, Hiding
  <2>3. Head(receiveq) \in Senders
    BY <1>10, HeadOn DEF ConfigureMessage, Typed, Senders
  <2>4. f \in Frames /\ f.at = "reading"
    BY <2>3, FrameMade
  <2> HIDE DEF f
  <2>5. QED
    BY <1>4, <2>1, <2>2, <2>4
<1>11. CASE build_configure_cb
  <2>1. /\ stack' = Append(stack, [at |-> "reading", msg |-> NoClient])
        /\ UNCHANGED <<visible, finished, configures>>
    BY <1>11 DEF build_configure_cb, Push
  <2>2. QED
    BY <1>2, <2>1, FrameMade DEF Senders
<1>12. CASE ShowAndWait \/ ShowAndReturn
  BY <1>1, <1>12 DEF ShowAndWait, ShowAndReturn
<1>13. CASE EndWait
  BY <1>1, <1>13 DEF EndWait
<1>14. ASSUME NEW button \in Hiding, Answer(button)
       PROVE  WillEnd'
  <2> DEFINE f == [at |-> button, msg |-> NoClient]
  <2>1. stack' = Append(stack, f) /\ UNCHANGED <<finished, configures>>
    BY <1>14 DEF Answer, Push
  <2>2. f \in Frames /\ f.at \in Hiding
    BY FrameMade
  <2>3. f.at # "waiting"
    BY DEF Hiding
  <2> HIDE DEF f
  <2>4. QED
    BY <1>2, <2>1, <2>2, <2>3
<1>15. CASE EndCancel
  BY <1>1, <1>15 DEF EndCancel
<1>16. CASE EndOk
  <2>1. configures' = configures + 1
    BY <1>16, Zenon DEF EndOk, ForkSucceeds
  <2>2. configures' > 0
    BY <1>a, <2>1
  <2>3. QED
    BY <1>1, <2>2
<1>17. ASSUME NEW code \in Codes, configure_reap(code)
       PROVE  WillEnd'
  BY <1>1, <1>17 DEF configure_reap
<1>18. CASE UNCHANGED vars
  BY <1>5, <1>18 DEF vars
<1>19. QED
  BY <1>6, <1>7, <1>8, <1>9, <1>10, <1>11, <1>12, <1>13, <1>14, <1>15, <1>16,
     <1>17, <1>18
     DEF Next, autoconf_ok_cb, autoconf_cancel_cb, ReapConfigure, Hiding

LEMMA WillEndInit == Init => WillEnd
<1>1. Init => stack = <<>>
  BY DEF Init
<1>2. stack = <<>> => WillEnd
  BY DEF WillEnd
<1>3. QED
  BY <1>1, <1>2

LEMMA WillEndMeans == Typed /\ WillEnd => WaitEnds
<1> SUFFICES ASSUME Typed, WillEnd, Here = "waiting", ~ finished
             PROVE  visible \/ configures > 0
  BY DEF WaitEnds
<1>1. stack \in Seq(Frames)
  BY DEF Typed
<1>2. stack # <<>> /\ Last(stack).at = "waiting"
  BY <1>1, Running
<1>3. Len(stack) \in DOMAIN stack /\ stack[Len(stack)] = Last(stack)
  BY <1>1, <1>2, PoppedFrame
<1>4. ~ Hidden(stack, Len(stack))
  <2>1. Len(stack) \in Nat /\ DOMAIN stack = 1..Len(stack)
    BY <1>1
  <2>2. \A j \in DOMAIN stack : ~ (j > Len(stack))
    BY <2>1
  <2>3. QED
    BY <2>2 DEF Hidden
<1>5. QED
  BY <1>2, <1>3, <1>4 DEF WillEnd

\* If the configure task can be spawned, there is always something left that
\* will end the wait of show_configure_window(): the window, a task, or a
\* callback under way. However deep the waits nest, "OK" and "Cancel" of one
\* window end them all (autoconf.c).
THEOREM WaitsHaveAnEnd ==
    ASSUME "fork fails" \notin Circumstances
    PROVE  Spec => []WaitEnds
<1>1. Init => Typed /\ WillEnd
  BY TypedInit, WillEndInit
<1>2. Typed /\ WillEnd /\ [Next]_vars => (Typed /\ WillEnd)'
  BY TypedStep, WillEndStep DEF ForkSucceeds
<1>3. Typed /\ WillEnd => WaitEnds
  BY WillEndMeans
<1>4. QED
  BY <1>1, <1>2, <1>3, PTL DEF Spec

-----------------------------------------------------------------------------
(***************************************************************************)
(* What a client is told.                                                  *)
(***************************************************************************)

\* Of each frame that waits for a client, not of the last alone: the frames
\* below the one that returns will find the same `finished' and `result'.
ServedConfigured ==
    /\ \A c \in Clients : Handles(stack, c) => from_client
    /\ \A i \in DOMAIN stack :
          stack[i].at = "waiting" /\ stack[i].msg # NoClient
              /\ finished /\ result = 0 => stack[i].msg \in configured

MenuWaits == "menu while serving" \notin Circumstances

LEMMA ServedConfiguredStep ==
    ASSUME MenuWaits, Typed, OnePlace, ServedConfigured, [Next]_vars
    PROVE  ServedConfigured'
<1>a. stack \in Seq(Frames) /\ result \in Codes
  BY DEF Typed
<1>b. HandledOnce(stack) /\ NoClient \notin Clients
  BY MessagesAssumption DEF OnePlace, Once
\* A frame is pushed that serves no client ...
<1>1. ASSUME NEW f \in Frames, f.at # "waiting", f.msg = NoClient,
             stack' = Append(stack, f),
             UNCHANGED <<finished, result, configured>>,
             from_client => from_client' \/ Serving = {}
      PROVE  ServedConfigured'
  <2>1. \A c \in Clients : Handles(stack', c) <=> Handles(stack, c)
    BY <1>a, <1>b, <1>1, PushedFrame
  <2>2. ASSUME NEW c \in Clients, Handles(stack, c)
        PROVE  c \in Serving
    BY <1>b, <2>2 DEF Handles, Serving
  <2>3. \A c \in Clients : Handles(stack', c) => from_client'
    BY <1>1, <2>1, <2>2 DEF ServedConfigured
  <2>4. \A i \in DOMAIN stack' :
           stack'[i] = f \/ (i \in DOMAIN stack /\ stack'[i] = stack[i])
    BY <1>a, <1>1, PushedFrame
  <2>5. ASSUME NEW i \in DOMAIN stack', stack'[i].at = "waiting",
               stack'[i].msg # NoClient, finished', result' = 0
        PROVE  stack'[i].msg \in configured'
    BY <1>1, <2>4, <2>5 DEF ServedConfigured
  <2>6. QED
    BY <2>3, <2>5 DEF ServedConfigured
\* ... or the last one returns ...
<1>2. ASSUME stack # <<>>, stack' = Front(stack), UNCHANGED from_client,
             \A i \in DOMAIN Front(stack) :
                finished' /\ result' = 0 /\ stack[i].msg \in Clients =>
                    \/ finished /\ result = 0
                          /\ (stack[i].msg \in configured => stack[i].msg \in configured')
                    \/ stack[i].msg \in configured'
      PROVE  ServedConfigured'
  <2>1. \A c \in Clients : Handles(stack', c) => Handles(stack, c)
    BY <1>a, <1>2, PoppedFrame
  <2>2. \A i \in DOMAIN stack' :
           i \in DOMAIN stack /\ stack'[i] = stack[i] /\ stack[i] \in Frames
    BY <1>a, <1>2, PoppedFrame
  <2>3. ASSUME NEW i \in DOMAIN stack', stack'[i].at = "waiting",
               stack'[i].msg # NoClient, finished', result' = 0
        PROVE  stack'[i].msg \in configured'
    <3>1. stack[i].msg \in Clients
      BY <2>2, <2>3, FrameFields DEF Senders
    <3>2. QED
      BY <1>2, <2>2, <2>3, <3>1 DEF ServedConfigured
  <2>4. QED
    BY <1>2, <2>1, <2>3 DEF ServedConfigured
\* ... or goes on, not to wait ...
<1>3. ASSUME stack # <<>>, NEW f \in Frames, f.at # "waiting",
             stack' = Append(Front(stack), f),
             UNCHANGED <<finished, result>>,
             \A i \in DOMAIN Front(stack) :
                stack[i].msg \in Clients /\ stack[i].msg \in configured
                    => stack[i].msg \in configured',
             from_client' \/ (f.msg = NoClient /\ UNCHANGED from_client)
      PROVE  ServedConfigured'
  <2>0. Front(stack) \in Seq(Frames)
    BY <1>a, <1>3, PoppedFrame
  <2>1. \A c \in Clients : Handles(stack', c) => Handles(stack, c) \/ f.msg = c
    BY <1>a, <1>3, <2>0, PoppedFrame, PushedFrame
  <2>2. \A c \in Clients : Handles(stack', c) => from_client'
    BY <1>b, <1>3, <2>1 DEF ServedConfigured
  <2>3. \A i \in DOMAIN stack' :
           \/ stack'[i] = f
           \/ i \in DOMAIN Front(stack) /\ stack'[i] = Front(stack)[i]
    BY <1>3, <2>0, PushedFrame
  <2>4. \A i \in DOMAIN Front(stack) :
           i \in DOMAIN stack /\ Front(stack)[i] = stack[i] /\ stack[i] \in Frames
    BY <1>a, <1>3, PoppedFrame
  <2>5. ASSUME NEW i \in DOMAIN stack', stack'[i].at = "waiting",
               stack'[i].msg # NoClient, finished', result' = 0
        PROVE  stack'[i].msg \in configured'
    <3>1. i \in DOMAIN Front(stack) /\ stack'[i] = stack[i]
      BY <1>3, <2>3, <2>4, <2>5
    <3>2. i \in DOMAIN stack /\ stack[i].msg \in Clients
      BY <2>4, <2>5, <3>1, FrameFields DEF Senders
    <3>3. stack[i].msg \in configured
      BY <1>3, <2>5, <3>1, <3>2 DEF ServedConfigured
    <3>4. QED
      BY <1>3, <3>1, <3>2, <3>3
  <2>6. QED
    BY <2>2, <2>5 DEF ServedConfigured
\* ... or shows its caller's client the result.
<1>4. ASSUME Here \in {"reading", "waiting"}, Return(Last(stack).msg),
             UNCHANGED <<from_client, finished, result>>
      PROVE  ServedConfigured'
  <2> DEFINE m == Last(stack).msg
  <2>1. stack # <<>> /\ m \in Senders
    BY <1>a, <1>4, Running
  <2>2. CASE m = NoClient
    <3>1. stack' = Front(stack) /\ configured' = configured
      BY <1>4, <2>2 DEF Return, Pop
    <3>2. QED
      BY <1>2, <1>4, <2>1, <3>1
  <2>3. CASE m # NoClient
    <3> DEFINE f == [at |-> "next", msg |-> NoClient]
    <3>1. stack' = Append(Front(stack), f) /\ configured' = configured \ {m}
      BY <1>4, <2>3 DEF Return, Goto
    <3>2. f \in Frames /\ f.at = "next" /\ f.msg = NoClient
      BY FrameMade
    <3>3. \A i \in DOMAIN Front(stack) : stack[i].msg # m
      <4>1. ~ Handles(Front(stack), m)
        BY <1>a, <1>b, <2>1, <2>3, PoppedFrame
      <4>2. \A i \in DOMAIN Front(stack) : Front(stack)[i] = stack[i]
        BY <1>a, <2>1, PoppedFrame
      <4>3. QED
        BY <4>1, <4>2 DEF Handles
    <3> HIDE DEF f, m
    <3>4. QED
      BY <1>3, <1>4, <2>1, <3>1, <3>2, <3>3
  <2>4. QED
    BY <2>2, <2>3
<1>5. ASSUME UNCHANGED <<stack, from_client, finished, result, configured>>
      PROVE  ServedConfigured'
  BY <1>5 DEF ServedConfigured
<1>6. ASSUME NEW c \in Clients, mq_send(c) \/ mq_get_reply(c)
      PROVE  ServedConfigured'
  BY <1>5, <1>6 DEF mq_send, mq_get_reply
<1>7. CASE mq_message_event
  <2>1. /\ stack' = Append(stack, [at |-> "next", msg |-> NoClient])
        /\ UNCHANGED <<from_client, finished, result, configured>>
    BY <1>7 DEF mq_message_event, Push
  <2>2. QED
    BY <1>1, <2>1, FrameMade
<1>8. CASE NoMessage
  <2>1. /\ stack' = Front(stack)
        /\ UNCHANGED <<from_client, finished, result, configured>>
    BY <1>8 DEF NoMessage, Pop
  <2>2. stack # <<>>
    BY <1>8, <1>a, Running DEF NoMessage
  <2>3. QED
    BY <1>2, <2>1, <2>2
<1>9. CASE UnknownMessage
  BY <1>5, <1>9 DEF UnknownMessage
<1>10. CASE ConfigureMessage
  <2> DEFINE f == [at |-> "reading", msg |-> Head(receiveq)]
  <2>1. stack' = Append(Front(stack), f)
    BY <1>10 DEF ConfigureMessage, Goto
  <2>2. from_client' /\ UNCHANGED <<finished, result, configured>>
    BY <1>10 DEF ConfigureMessage
  <2>3. stack # <<>>
    BY <1>10, <1>a, Running DEF ConfigureMessage
  <2>4. Head(receiveq) \in Senders
    BY <1>10, HeadOn DEF ConfigureMessage, Typed, Senders
  <2>5. f \in Frames /\ f.at = "reading"
    BY <2>4, FrameMade
  <2> HIDE DEF f
  <2>6. /\ f.at # "waiting"
        /\ from_client' \/ (f.msg = NoClient /\ UNCHANGED from_client)
        /\ \A i \in DOMAIN Front(stack) :
              stack[i].msg \in Clients /\ stack[i].msg \in configured
                  => stack[i].msg \in configured'
    BY <2>2, <2>5
  <2>7. UNCHANGED <<finished, result>>
    BY <2>2
  <2>8. QED
    BY <1>3, <2>1, <2>3, <2>5, <2>6, <2>7
<1>11. CASE build_configure_cb
  <2>1. /\ stack' = Append(stack, [at |-> "reading", msg |-> NoClient])
        /\ UNCHANGED <<finished, result, configured>>
    BY <1>11 DEF build_configure_cb, Push
  <2>2. Serving = {}
    BY <1>11, Zenon DEF build_configure_cb, MenuWaits
  <2>3. QED
    BY <1>1, <2>1, <2>2, FrameMade DEF Senders
<1>12. CASE ShowAndWait
  <2> DEFINE f == [at |-> "waiting", msg |-> Last(stack).msg]
  <2>1. /\ stack' = Append(Front(stack), f)
        /\ from_client /\ from_client' = from_client /\ ~ finished'
    BY <1>12 DEF ShowAndWait, Goto
  <2>2. QED
    BY <2>1 DEF ServedConfigured
<1>13. CASE ShowAndReturn
  BY <1>4, <1>13 DEF ShowAndReturn
<1>14. CASE EndWait
  BY <1>4, <1>14 DEF EndWait
<1>15. ASSUME NEW button \in Hiding, Answer(button)
       PROVE  ServedConfigured'
  <2> DEFINE f == [at |-> button, msg |-> NoClient]
  <2>1. /\ stack' = Append(stack, f)
        /\ UNCHANGED <<from_client, finished, result, configured>>
    BY <1>15 DEF Answer, Push
  <2>2. f \in Frames /\ f.at \in Hiding /\ f.msg = NoClient
    BY FrameMade
  <2>3. f.at # "waiting"
    BY DEF Hiding
  <2> HIDE DEF f
  <2>4. QED
    BY <1>1, <2>1, <2>2, <2>3
<1>16. CASE EndCancel
  <2>1. stack' = Front(stack) /\ result' = 1 /\ UNCHANGED from_client
    BY <1>16 DEF EndCancel, Pop
  <2>2. stack # <<>>
    BY <1>16, <1>a, Running DEF EndCancel, Hiding
  <2>3. QED
    BY <1>2, <2>1, <2>2
<1>17. CASE EndOk
  <2>1. /\ stack' = Front(stack)
        /\ UNCHANGED <<from_client, finished, result, configured>>
    BY <1>17 DEF EndOk, Pop
  <2>2. stack # <<>>
    BY <1>17, <1>a, Running DEF EndOk, Hiding
  <2>3. QED
    BY <1>2, <2>1, <2>2
<1>18. ASSUME NEW code \in Codes, configure_reap(code)
       PROVE  ServedConfigured'
  <2>1. /\ result' = code
        /\ configured' = IF code = 0 THEN configured \cup Serving ELSE configured
        /\ UNCHANGED <<stack, from_client>>
    BY <1>18 DEF configure_reap
  <2>2. \A i \in DOMAIN stack : stack[i].msg # NoClient => stack[i].msg \in Serving
    BY DEF Serving
  <2>3. QED
    BY <2>1, <2>2 DEF ServedConfigured
<1>19. CASE UNCHANGED vars
  BY <1>5, <1>19 DEF vars
<1>20. QED
  BY <1>6, <1>7, <1>8, <1>9, <1>10, <1>11, <1>12, <1>13, <1>14, <1>15, <1>16,
     <1>17, <1>18, <1>19
     DEF Next, autoconf_ok_cb, autoconf_cancel_cb, ReapConfigure, Hiding

LEMMA ServedConfiguredInit == Init => ServedConfigured
<1>1. Init => stack = <<>>
  BY DEF Init
<1>2. stack = <<>> => ServedConfigured
  BY DEF ServedConfigured, Handles
<1>3. QED
  BY <1>1, <1>2

\* A reply of 0 is sent only to a client whose message a configure task has
\* succeeded for.
LEMMA ZeroStep ==
    ASSUME Typed, OnePlace, ServedConfigured, [Next]_vars, NEW c \in Clients,
           replies[c] = <<>>, replies'[c] = << 0 >>
    PROVE  c \in configured
<1>a. /\ stack \in Seq(Frames) /\ replies \in [Clients -> Seq(Codes)]
      /\ NoClient \notin Clients
  BY MessagesAssumption DEF Typed
<1>b. << 0 >> # <<>> /\ << 0 >> # << 1 >>
  OBVIOUS
<1>1. \A d, code : mq_reply(d, code) => c = d /\ code = 0
  <2> SUFFICES ASSUME NEW d, NEW code,
                      replies' = [replies EXCEPT ![d] = Append(@, code)]
               PROVE  c = d /\ code = 0
    BY DEF mq_reply
  <2>1. c = d
    BY <1>a, <1>b
  <2>2. replies'[c] = Append(<<>>, code)
    BY <1>a, <2>1
  <2>3. Append(<<>>, code) = <<code>>
    OBVIOUS
  <2>4. QED
    BY <2>1, <2>2, <2>3
<1>2. ASSUME UNCHANGED replies
      PROVE  FALSE
  BY <1>2, <1>b
<1>3. ASSUME NEW d \in Clients, mq_get_reply(d)
      PROVE  FALSE
  BY <1>3, <1>a, <1>b DEF mq_get_reply
<1>4. CASE UnknownMessage
  <2>1. mq_reply(Head(receiveq), 1)
    BY <1>4 DEF UnknownMessage
  <2>2. QED
    BY <1>1, <2>1
<1>5. ASSUME Here \in {"reading", "waiting"}, Return(Last(stack).msg)
      PROVE  /\ Last(stack).msg = c /\ result = 0
             /\ Handles(stack, c)
             /\ Len(stack) \in DOMAIN stack /\ stack[Len(stack)] = Last(stack)
             /\ Last(stack).at = Here
  <2>1. Last(stack).msg # NoClient
    BY <1>5, <1>2 DEF Return
  <2>2. mq_reply(Last(stack).msg, result)
    BY <1>5, <2>1 DEF Return
  <2>3. Last(stack).msg = c /\ result = 0
    BY <1>1, <2>2
  <2>4. /\ stack # <<>> /\ Last(stack).at = Here
    BY <1>5, <1>a, Running
  <2>5. QED
    BY <1>a, <2>3, <2>4, PoppedFrame
<1>6. CASE ShowAndReturn
  <2>1. Here \in {"reading", "waiting"} /\ Return(Last(stack).msg) /\ ~ from_client
    BY <1>6 DEF ShowAndReturn
  <2>2. QED
    BY <1>5, <2>1 DEF ServedConfigured
<1>7. CASE EndWait
  <2>1. Here = "waiting" /\ finished /\ Return(Last(stack).msg)
    BY <1>7 DEF EndWait
  <2>2. QED
    BY <1>5, <1>a, <2>1 DEF ServedConfigured
<1>8. QED
  BY <1>2, <1>3, <1>4, <1>6, <1>7
     DEF Next, vars, mq_send, mq_message_event, NoMessage, ConfigureMessage,
         build_configure_cb, ShowAndWait, autoconf_ok_cb, autoconf_cancel_cb,
         Answer, EndCancel, EndOk, ReapConfigure, configure_reap

\* If the menu item waits while a client is served, a client told 0 has had a
\* configure task succeed since its message was taken up, whichever of the
\* nested waits it was told by (autoconf.c, the statics `finished' and
\* `result').
THEOREM ZeroIsTrue ==
    ASSUME "menu while serving" \notin Circumstances
    PROVE  Spec => ZeroMeansConfigured
<1> DEFINE Inv == Typed /\ OnePlace /\ ServedConfigured
           Told == \A c \in Clients :
                      (replies[c] = <<>> /\ replies'[c] = << 0 >>) => c \in configured
<1>1. Init => Inv
  BY TypedInit, OnePlaceInit, ServedConfiguredInit
<1>2. Inv /\ [Next]_vars => Inv'
  BY TypedStep, OnePlaceStep, ServedConfiguredStep DEF MenuWaits
<1>3. Inv /\ [Next]_vars => [Told]_vars
  BY ZeroStep
<1> HIDE DEF Inv, Told
<1>4. Spec => [][Told]_vars
  BY <1>1, <1>2, <1>3, PTL DEF Spec
<1>5. QED
  BY <1>4 DEF ZeroMeansConfigured, Told
=============================================================================
