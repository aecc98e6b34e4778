------------------------------ MODULE Terminal ------------------------------
(***************************************************************************)
(* One WebSocket terminal in echo mode: the goroutine that serves it, the  *)
(* client, and the bytes between them.  Connections share nothing.  The    *)
(* goroutine ends the connection when it returns (deferred Close).         *)
(*                                                                         *)
(* Of the websocket library (external) the model takes that a read past    *)
(* its deadline fails, unless the message is in the reader's buffer; that  *)
(* a write past its deadline fails; that after a failed write, or after a  *)
(* close frame, every further write fails; and that pings are answered by  *)
(* the library without the deadline moving.                                *)
(***************************************************************************)
EXTENDS Naturals, Sequences

CONSTANTS
    ReadWait,  \* the read deadline (60 s)
    WriteWait, \* the write deadline of one message (10 s)
    Capacity   \* bound on the messages in the socket, and on those in the buffer

ASSUME TerminalTimes == {ReadWait, WriteWait, Capacity} \subseteq Nat \ {0}

VARIABLES
    handler,   \* "start", "greet", "read", "reply" or "ended"
    todo,      \* what it still has to write before it reads on
    socket,    \* messages of the client that have arrived
    buffer,    \* those that the reader has taken in already
    readLeft,  \* time until the read deadline
    writeLeft, \* time until the write deadline
    broken,    \* no write succeeds any more
    shown,     \* the last thing that the client was sent
    over       \* history: time since the read deadline passed

vars == <<handler, todo, socket, buffer, readLeft, writeLeft, broken, shown, over>>

\* Variant: the close frame goes out before the good-bye.
CloseFirst == [ text    |-> <<"echo">>,
                newline |-> <<"echo", "prompt">>,
                exit    |-> <<"CLOSE", "goodbye">>,
                empty   |-> << >>,
                resize  |-> << >>,
                ping    |-> << >>,
                unknown |-> <<"unknown">>,
                close   |-> <<"disconnecting", "END">>,
                lost    |-> <<"END">> ]

\* Replies[m]: what handleTerminalSession writes on message m.  "END" stands
\* for the return of the handler.
Replies == [ text    |-> <<"echo">>,
             newline |-> <<"echo", "prompt">>,
             exit    |-> <<"goodbye", "CLOSE">>,
             empty   |-> << >>,
             resize  |-> << >>,
             ping    |-> << >>,
             unknown |-> <<"unknown">>,
             close   |-> <<"disconnecting", "END">>,
             lost    |-> <<"END">> ]

\* "lost" is whatever makes ReadJSON fail: text that is no JSON, a close frame,
\* the end of the connection.
Messages == DOMAIN Replies \cup {"pong"}
Greeting == <<"welcome", "instructions">>
Outputs  == {"echo", "prompt", "goodbye", "CLOSE", "unknown", "disconnecting", "END",
             "welcome", "instructions"}

TypeOK ==
    /\ handler \in {"start", "greet", "read", "reply", "ended"}
    /\ todo \in Seq(Outputs)
    /\ socket \in Seq(Messages) /\ Len(socket) <= Capacity
    /\ buffer \in Seq(Messages) /\ Len(buffer) <= Capacity
    /\ readLeft \in 0 .. ReadWait /\ writeLeft \in 0 .. WriteWait
    /\ broken \in BOOLEAN
    /\ shown \in Outputs \cup {"nothing"}
    /\ over \in Nat

Init ==
    /\ handler = "start" /\ todo = << >>
    /\ socket = << >> /\ buffer = << >>
    /\ readLeft = 0 /\ writeLeft = 0
    /\ broken = FALSE /\ shown = "nothing" /\ over = 0

Writing == handler \in {"greet", "reply"}

\* The client (external) sends what it likes.
Send(m) ==
    /\ handler \notin {"start", "ended"} /\ Len(socket) < Capacity
    /\ socket' = Append(socket, m)
    /\ UNCHANGED <<handler, todo, buffer, readLeft, writeLeft, broken, shown, over>>

-----------------------------------------------------------------------------
\* TerminalBridge and the top of handleTerminalSession; an upgrade that fails
\* leaves everything as it is.
TerminalBridge ==
    /\ handler = "start"
    /\ handler' = "greet" /\ todo' = Greeting
    /\ readLeft' = ReadWait /\ writeLeft' = WriteWait
    /\ UNCHANGED <<socket, buffer, broken, shown, over>>

\* Back to the loop when all is written.
Proceed(rest) ==
    /\ todo' = rest
    /\ handler' = IF rest = << >> THEN "read" ELSE handler
    /\ writeLeft' = IF rest = << >> \/ rest[1] = "CLOSE" THEN writeLeft ELSE WriteWait

\* sendOutput, and the WriteMessage of the close frame, which sets no deadline
\* of its own.
Write ==
    /\ Writing /\ todo # << >> /\ todo[1] # "END" /\ ~broken
    /\ shown' = todo[1]
    /\ broken' = (todo[1] = "CLOSE")
    /\ Proceed(Tail(todo))
    /\ UNCHANGED <<socket, buffer, readLeft, over>>

\* Variant: a failing write is tried again.
WriteRetries ==
    /\ Writing /\ todo # << >> /\ todo[1] # "END"
    /\ broken' = TRUE
    /\ Proceed(todo)
    /\ UNCHANGED <<socket, buffer, readLeft, shown, over>>

\* A failing write ends the handler only while it greets.
WriteFails ==
    /\ Writing /\ todo # << >> /\ todo[1] # "END"
    /\ broken' = TRUE
    /\ IF handler = "greet"
       THEN handler' = "ended" /\ UNCHANGED <<todo, writeLeft>>
       ELSE Proceed(Tail(todo))
    /\ UNCHANGED <<socket, buffer, readLeft, shown, over>>

End ==
    /\ handler = "reply" /\ todo[1] = "END"
    /\ handler' = "ended"
    /\ UNCHANGED <<todo, socket, buffer, readLeft, writeLeft, broken, shown, over>>

\* The reader takes in some of what has arrived.
Fetch ==
    /\ handler = "read" /\ buffer = << >> /\ readLeft > 0
    /\ \E n \in 1 .. Len(socket) :
        /\ buffer' = SubSeq(socket, 1, n)
        /\ socket' = SubSeq(socket, n + 1, Len(socket))
    /\ UNCHANGED <<handler, todo, readLeft, writeLeft, broken, shown, over>>

\* The pong handler, called inside ReadJSON.
Pong ==
    /\ handler = "read" /\ buffer # << >> /\ buffer[1] = "pong"
    /\ buffer' = Tail(buffer)
    /\ readLeft' = ReadWait /\ over' = 0
    /\ UNCHANGED <<handler, todo, socket, writeLeft, broken, shown>>

\* Variant: every message moves the deadline.
ReadExtends ==
    /\ handler = "read" /\ buffer # << >> /\ buffer[1] # "pong"
    /\ buffer' = Tail(buffer)
    /\ todo' = Replies[buffer[1]]
    /\ handler' = IF todo' = << >> THEN "read" ELSE "reply"
    /\ writeLeft' = WriteWait
    /\ readLeft' = ReadWait /\ over' = 0
    /\ UNCHANGED <<socket, broken, shown>>

\* ReadJSON and the switch on the message's type.
Read ==
    /\ handler = "read" /\ buffer # << >> /\ buffer[1] # "pong"
    /\ buffer' = Tail(buffer)
    /\ todo' = Replies[buffer[1]]
    /\ handler' = IF todo' = << >> THEN "read" ELSE "reply"
    /\ writeLeft' = WriteWait
    /\ UNCHANGED <<socket, readLeft, broken, shown, over>>

\* ReadJSON fails at the deadline, whatever waits in the socket.
Timeout ==
    /\ handler = "read" /\ buffer = << >> /\ readLeft = 0
    /\ handler' = "ended"
    /\ UNCHANGED <<todo, socket, buffer, readLeft, writeLeft, broken, shown, over>>

\* Time passes, but never past the end of a write, nor past the read deadline
\* while the handler is about to notice it.
Tick ==
    /\ handler \notin {"start", "ended"}
    /\ Writing => writeLeft > 0 /\ todo[1] # "END"
    /\ handler = "read" => readLeft > 0
    /\ readLeft' = IF readLeft > 0 THEN readLeft - 1 ELSE 0
    /\ writeLeft' = IF Writing THEN writeLeft - 1 ELSE writeLeft
    /\ over' = IF readLeft = 0 THEN over + 1 ELSE over
    /\ UNCHANGED <<handler, todo, socket, buffer, broken, shown>>

Step == TerminalBridge \/ Write \/ WriteFails \/ End \/ Fetch \/ Pong \/ Read \/ Timeout

Next == (\E m \in Messages : Send(m)) \/ Step \/ Tick

Spec == Init /\ [][Next]_vars

\* The handler runs, and time passes.
FairSpec == Spec /\ WF_vars(Step) /\ WF_vars(Tick)

-----------------------------------------------------------------------------
(***************************************************************************)
(* Properties.                                                             *)
(***************************************************************************)

\* What the handler can still have to write: two outputs for a message.
Ahead ==
    2 * WriteWait * Len(buffer)
    + (IF Writing /\ todo # << >> THEN writeLeft + WriteWait * (Len(todo) - 1) ELSE 0)

\* No terminal outlives its last pong by more than the read deadline and the
\* writes that the messages in the buffer take, however slowly the client
\* reads: a client that has vanished holds no goroutine for long.
OverstayIsBounded ==
    handler \in {"greet", "read", "reply"} => over + Ahead <= 2 * WriteWait * (Capacity + 1)

\* A terminal ends unless pongs keep coming: a close frame that the client
\* never answers, a client that vanished, writes that fail unnoticed, and even
\* a client that goes on typing end in the timeout.
EndsWithoutPongs == []<><<Pong>>_vars \/ <>(handler = "ended")

\* The client sees the good-bye before the close frame and nothing after it,
\* though the handler goes on reading and answering.
NothingAfterClose ==
    [][/\ shown' = "CLOSE" /\ shown # "CLOSE" => shown = "goodbye"
       /\ shown = "CLOSE" => shown' = "CLOSE"]_vars

(***************************************************************************)
(* The inductive invariant of the proofs.                                  *)
(***************************************************************************)

\* A close frame is about to be written right behind the good-bye only.
RepliesInOrder ==
    Writing =>
        /\ Len(todo) \in 1 .. 2
        /\ Len(todo) = 2 /\ todo[2] = "CLOSE" => todo[1] = "goodbye"
        /\ todo[1] = "CLOSE" => broken \/ shown = "goodbye"

TerminalInv ==
    /\ TypeOK
    /\ RepliesInOrder
    /\ handler = "start" => buffer = << >>
    /\ readLeft > 0 \/ handler = "start" => over = 0
    /\ shown = "CLOSE" => broken
    /\ OverstayIsBounded
=============================================================================
