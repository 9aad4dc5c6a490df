------------------------------- MODULE Messages -------------------------------
(***************************************************************************)
(* Commands sent to a running maketool by maketool_client: the message     *)
(* queue (mqueue.c), kept in properties of X windows, the client           *)
(* (client.c), and the one command there is, "configure", which shows the  *)
(* window of options (autoconf.c) and waits for it in a nested main loop.  *)
(*                                                                         *)
(* Whatever waits in a main loop is a frame of `stack', innermost last;    *)
(* only the last one runs, and the loop it runs dispatches every source.   *)
(***************************************************************************)
EXTENDS Integers, FiniteSets, SequencesExt

CONSTANTS
    Clients,            \* processes of maketool_client
    NoClient,           \* a frame that serves none
    command,            \* what each client sends
    MaxConfigures,      \* most configure tasks at a time
    MaxDepth,           \* most frames when the user chooses the menu item
    Circumstances       \* what may happen around the program

\* "menu while serving"  the user chooses Configure from the menu while the
\*                       options are being read for a client
\* "fork fails"          the configure task cannot be spawned
AllCircumstances == {"menu while serving", "fork fails"}

ASSUME MessagesAssumption ==
    /\ NoClient \notin Clients
    /\ command \in [Clients -> {"configure", "unknown", ""}]
    /\ MaxConfigures \in Nat /\ MaxDepth \in Nat
    /\ Circumstances \subseteq AllCircumstances

VARIABLES
    client,             \* "idle", "waiting" or "exited"
    property,           \* messages appended to the window of maketool
    events,             \* PropertyNotify events not yet dispatched
    receiveq,           \* messages taken from the property
    replies,            \* those appended to the window of each client
    stack,
    visible,            \* the window of options is shown
    from_client, finished, result,      \* the statics of autoconf.c
    configures,         \* configure tasks running
    configured          \* clients on the stack since whose message a configure
                        \* task has succeeded

vars == <<client, property, events, receiveq, replies, stack, visible,
          from_client, finished, result, configures, configured>>

\* The places of a frame: taking the next message, reading the options by
\* task_run(), waiting for the window, or waiting for it to be hidden.
Frames == [at : {"next"}, msg : {NoClient}]
     \cup [at : {"reading", "waiting"}, msg : Clients \cup {NoClient}]
     \cup [at : {"hiding for ok", "hiding for cancel"}, msg : {NoClient}]

Codes == {0, 1}

Here == IF stack = <<>> THEN "main loop" ELSE Last(stack).at

\* The main loop, or one nested in it, is running.
Dispatching == Here # "next"

Push(at, c) == stack' = Append(stack, [at |-> at, msg |-> c])
Goto(at, c) == stack' = Append(Front(stack), [at |-> at, msg |-> c])
Pop == stack' = Front(stack)

Serving == {stack[i].msg : i \in DOMAIN stack} \ {NoClient}

Init ==
    /\ client = [c \in Clients |-> "idle"]
    /\ property = <<>>
    /\ events = 0
    /\ receiveq = <<>>
    /\ replies = [c \in Clients |-> <<>>]
    /\ stack = <<>>
    /\ visible = FALSE
    /\ from_client = FALSE
    /\ finished = FALSE
    /\ result = 0
    /\ configures = 0
    /\ configured = {}

-------------------------------------------------------------------------------
(* The client.                                                             *)

mq_send(c) ==
    /\ client[c] = "idle"
    /\ client' = [client EXCEPT ![c] = "waiting"]
    /\ property' = Append(property, c)
    /\ events' = events + 1
    /\ UNCHANGED <<receiveq, replies, stack, visible, from_client, finished,
                   result, configures, configured>>

\* Each client has a window of its own and sends one message: any reply there
\* carries its msgid.
mq_get_reply(c) ==
    /\ client[c] = "waiting"
    /\ replies[c] # <<>>
    /\ client' = [client EXCEPT ![c] = "exited"]
    /\ replies' = [replies EXCEPT ![c] = <<>>]
    /\ UNCHANGED <<property, events, receiveq, stack, visible, from_client,
                   finished, result, configures, configured>>

-------------------------------------------------------------------------------
(* maketool: the message queue.                                            *)

\* What the loop over the data of the property finds: a header at the end is
\* taken for too short to be a message.
Parsed(q) == IF q # <<>> /\ command[Last(q)] = "" THEN Front(q) ELSE q

\* Mutant: The property is left for its owner to delete.
MutEvent ==
    /\ events > 0 /\ Dispatching
    /\ events' = events - 1
    /\ receiveq' = receiveq \o Parsed(property)
    /\ property' = property
    /\ Push("next", NoClient)
    /\ UNCHANGED <<client, replies, visible, from_client, finished, result,
                   configures, configured>>

\* The property is read and deleted by the first event after an append; the
\* events of the other appends find none, and go on to the queue all the same.
mq_message_event ==
    /\ events > 0 /\ Dispatching
    /\ events' = events - 1
    /\ receiveq' = receiveq \o Parsed(property)
    /\ property' = <<>>
    /\ Push("next", NoClient)
    /\ UNCHANGED <<client, replies, visible, from_client, finished, result,
                   configures, configured>>

mq_reply(c, code) == replies' = [replies EXCEPT ![c] = Append(@, code)]

\* Mutant: One message is handled for each event.
MutNoMessage ==
    /\ Here = "next"
    /\ Pop
    /\ UNCHANGED <<client, property, events, receiveq, replies, visible,
                   from_client, finished, result, configures, configured>>

NoMessage ==
    /\ Here = "next" /\ receiveq = <<>>
    /\ Pop
    /\ UNCHANGED <<client, property, events, receiveq, replies, visible,
                   from_client, finished, result, configures, configured>>

UnknownMessage ==
    /\ Here = "next" /\ receiveq # <<>>
    /\ command[Head(receiveq)] = "unknown"
    /\ mq_reply(Head(receiveq), 1)
    /\ receiveq' = Tail(receiveq)
    /\ UNCHANGED <<client, property, events, stack, visible, from_client,
                   finished, result, configures, configured>>

ConfigureMessage ==
    /\ Here = "next" /\ receiveq # <<>>
    /\ command[Head(receiveq)] = "configure"
    /\ receiveq' = Tail(receiveq)
    /\ from_client' = TRUE
    /\ Goto("reading", Head(receiveq))
    /\ UNCHANGED <<client, property, events, replies, visible, finished,
                   result, configures, configured>>

-------------------------------------------------------------------------------
(* maketool: the window of options.                                        *)

build_configure_cb ==
    /\ Dispatching
    /\ ~visible                 \* it is modal
    /\ Serving = {} \/ "menu while serving" \in Circumstances
    /\ Len(stack) < MaxDepth
    /\ from_client' = FALSE
    /\ Push("reading", NoClient)
    /\ UNCHANGED <<client, property, events, receiveq, replies, visible,
                   finished, result, configures, configured>>

\* show_configure_window() returns `result' to its caller, which replies.
Return(c) ==
    IF c = NoClient
    THEN /\ Pop
         /\ UNCHANGED <<replies, configured>>
    ELSE /\ Goto("next", NoClient)
         /\ mq_reply(c, result)
         /\ configured' = configured \ {c}

\* Mutant: The flag of an earlier answer is not reset.
MutShowAndWait ==
    /\ Here = "reading"
    /\ from_client
    /\ visible' = TRUE
    /\ Goto("waiting", Last(stack).msg)
    /\ UNCHANGED <<client, property, events, receiveq, replies, from_client,
                   finished, result, configures, configured>>

\* The options have been read and the window is shown; from_client is looked at
\* now, and may be that of another call.
ShowAndWait ==
    /\ Here = "reading"
    /\ from_client
    /\ visible' = TRUE
    /\ finished' = FALSE
    /\ Goto("waiting", Last(stack).msg)
    /\ UNCHANGED <<client, property, events, receiveq, replies, from_client,
                   result, configures, configured>>

ShowAndReturn ==
    /\ Here = "reading"
    /\ ~from_client
    /\ visible' = TRUE
    /\ Return(Last(stack).msg)
    /\ UNCHANGED <<client, property, events, receiveq, from_client, finished,
                   result, configures>>

EndWait ==
    /\ Here = "waiting"
    /\ finished
    /\ Return(Last(stack).msg)
    /\ UNCHANGED <<client, property, events, receiveq, visible, from_client,
                   finished, result, configures>>

\* Both callbacks hide the window and dispatch whatever is pending.
Answer(button) ==
    /\ visible /\ Dispatching
    /\ visible' = FALSE
    /\ Push(button, NoClient)
    /\ UNCHANGED <<client, property, events, receiveq, replies, from_client,
                   finished, result, configures, configured>>

autoconf_ok_cb ==
    /\ configures + Cardinality({i \in DOMAIN stack : stack[i].at = "hiding for ok"})
           < MaxConfigures
    /\ Answer("hiding for ok")

autoconf_cancel_cb == Answer("hiding for cancel")

\* Mutant: Cancel only hides the window.
MutEndCancel ==
    /\ Here = "hiding for cancel" /\ events = 0
    /\ Pop
    /\ UNCHANGED <<client, property, events, receiveq, replies, visible,
                   from_client, finished, result, configures, configured>>

EndCancel ==
    /\ Here = "hiding for cancel" /\ events = 0
    /\ finished' = TRUE
    /\ result' = 1
    /\ Pop
    /\ UNCHANGED <<client, property, events, receiveq, replies, visible,
                   from_client, configures, configured>>

EndOk ==
    /\ Here = "hiding for ok" /\ events = 0
    /\ \/ configures' = configures + 1
       \/ "fork fails" \in Circumstances /\ configures' = configures
    /\ Pop
    /\ UNCHANGED <<client, property, events, receiveq, replies, visible,
                   from_client, finished, result, configured>>

configure_reap(code) ==
    /\ configures > 0 /\ Dispatching
    /\ configures' = configures - 1
    /\ finished' = TRUE
    /\ result' = code
    /\ configured' = IF code = 0 THEN configured \cup Serving ELSE configured
    /\ UNCHANGED <<client, property, events, receiveq, replies, stack, visible,
                   from_client>>

-------------------------------------------------------------------------------
ReapConfigure == \E code \in Codes : configure_reap(code)

Next ==
    \/ \E c \in Clients : mq_send(c) \/ mq_get_reply(c)
    \/ mq_message_event
    \/ NoMessage \/ UnknownMessage \/ ConfigureMessage
    \/ build_configure_cb
    \/ ShowAndWait \/ ShowAndReturn \/ EndWait
    \/ autoconf_ok_cb \/ autoconf_cancel_cb \/ EndCancel \/ EndOk
    \/ ReapConfigure

\* The program runs, configure tasks end, and the user answers the window; no
\* client need ever be started.
Fairness ==
    /\ \A c \in Clients : WF_vars(mq_get_reply(c))
    /\ WF_vars(mq_message_event)
    /\ WF_vars(NoMessage \/ UnknownMessage \/ ConfigureMessage)
    /\ WF_vars(ShowAndWait \/ ShowAndReturn \/ EndWait)
    /\ WF_vars(EndCancel \/ EndOk)
    /\ WF_vars(autoconf_ok_cb \/ autoconf_cancel_cb)
    /\ WF_vars(ReapConfigure)

Spec == Init /\ [][Next]_vars /\ Fairness

-------------------------------------------------------------------------------
Count(c, q) == Cardinality({i \in DOMAIN q : q[i] = c})
Copies(c) ==
    Count(c, property) + Count(c, receiveq) + Len(replies[c])
        + Cardinality({i \in DOMAIN stack : stack[i].msg = c})

\* The message of a client that waits, or the reply to it, is in exactly one
\* place, however many messages one event finds and however deep their
\* handling nests: none is lost, handled twice or answered twice (mqueue.c).
OneCopy ==
    \A c \in Clients : Copies(c) = IF client[c] = "waiting" THEN 1 ELSE 0

\* While show_configure_window() waits for `finished', there is something left
\* that will set it: the window, a configure task, or a callback under way
\* (autoconf.c).
WaitEnds ==
    Here = "waiting" /\ ~finished => visible \/ configures > 0

\* A client told 0 can rely on it: some configure task has succeeded since
\* maketool took up its message. Another client's counts: they share one
\* window, one flag and one result.
ZeroMeansConfigured ==
    [][\A c \in Clients :
        (replies[c] = <<>> /\ replies'[c] = <<0>>) => c \in configured]_vars

\* Every client is told a result in the end (client.c waits without a
\* timeout).
EveryClientAnswered ==
    \A c \in Clients : client[c] = "waiting" ~> client[c] = "exited"

===============================================================================
