--------------------------- MODULE TerminalProofs ---------------------------
(***************************************************************************)
(* Proofs about Terminal, for all deadlines and capacities.                *)
(***************************************************************************)
EXTENDS Terminal, SequenceTheorems, TLAPS

\* What the handler may have to write after a message.
Shape(out) ==
    /\ out \in Seq(Outputs) /\ Len(out) <= 2
    /\ out # << >> => out[1] # "CLOSE"
    /\ Len(out) = 2 /\ out[2] = "CLOSE" => out[1] = "goodbye"

LEMMA ShortSequences ==
  ASSUME NEW a \in Outputs, NEW b \in Outputs
  PROVE  /\ << >> \in Seq(Outputs) /\ Len(<< >>) = 0
         /\ <<a>> \in Seq(Outputs) /\ Len(<<a>>) = 1 /\ <<a>>[1] = a
         /\ <<a, b>> \in Seq(Outputs) /\ Len(<<a, b>>) = 2 /\ <<a, b>>[1] = a /\ <<a, b>>[2] = b
  OBVIOUS

LEMMA Shapes ==
  ASSUME NEW a \in Outputs \ {"CLOSE"}, NEW b \in Outputs, b = "CLOSE" => a = "goodbye"
  PROVE  Shape(<< >>) /\ Shape(<<a>>) /\ Shape(<<a, b>>)
<1>1. Shape(<< >>)
  BY ShortSequences DEF Shape
<1>2. Shape(<<a>>)
  BY ShortSequences DEF Shape
<1>3. Shape(<<a, b>>)
  BY ShortSequences DEF Shape
<1> QED
  BY <1>1, <1>2, <1>3

LEMMA RepliesShape == ASSUME NEW m \in Messages, m # "pong" PROVE Shape(Replies[m])
<1>1. m \in {"text", "newline", "exit", "empty", "resize", "ping", "unknown", "close", "lost"}
  BY DEF Messages, Replies
<1>2. /\ Replies["text"] = <<"echo">> /\ Replies["newline"] = <<"echo", "prompt">>
      /\ Replies["exit"] = <<"goodbye", "CLOSE">> /\ Replies["empty"] = << >>
      /\ Replies["resize"] = << >> /\ Replies["ping"] = << >>
      /\ Replies["unknown"] = <<"unknown">> /\ Replies["close"] = <<"disconnecting", "END">>
      /\ Replies["lost"] = <<"END">>
  BY DEF Replies
<1>3. {"echo", "prompt", "goodbye", "CLOSE", "unknown", "disconnecting", "END"} \subseteq Outputs
  BY DEF Outputs
<1>4. CASE m \in {"text", "newline"}
  BY <1>2, <1>3, <1>4, Shapes
<1>5. CASE m = "exit"
  BY <1>2, <1>3, <1>5, Shapes
<1>6. CASE m \in {"empty", "resize", "ping"}
  BY <1>2, <1>3, <1>6, Shapes
<1>7. CASE m \in {"unknown", "close", "lost"}
  BY <1>2, <1>3, <1>7, Shapes
<1> QED
  BY <1>1, <1>4, <1>5, <1>6, <1>7

\* The time that is left for writes, as a sum of products.
Buffered(n) == 2 * WriteWait * n
Budget == 2 * WriteWait * (Capacity + 1)

LEMMA Products ==
  /\ WriteWait \in Nat \ {0} /\ ReadWait \in Nat \ {0} /\ Capacity \in Nat \ {0}
  /\ Budget \in Nat /\ Budget = Buffered(Capacity) + 2 * WriteWait
  /\ \A n \in Nat : Buffered(n) \in Nat /\ Buffered(n + 1) = Buffered(n) + 2 * WriteWait
  /\ \A n \in 0 .. Capacity : Buffered(n) <= Buffered(Capacity)
<1>1. WriteWait \in Nat \ {0} /\ ReadWait \in Nat \ {0} /\ Capacity \in Nat \ {0}
  BY TerminalTimes
<1>2. \A n \in Nat : Buffered(n) \in Nat /\ Buffered(n + 1) = Buffered(n) + 2 * WriteWait
  BY <1>1 DEF Buffered
<1>3. ASSUME NEW n \in 0 .. Capacity PROVE Buffered(n) <= Buffered(Capacity)
  <2> DEFINE d == Capacity - n
  <2>1. d \in Nat /\ n \in Nat /\ Capacity = n + d
    BY <1>1
  <2> HIDE DEF d
  <2>2. Buffered(Capacity) = Buffered(n) + Buffered(d)
    BY <1>1, <2>1 DEF Buffered
  <2> QED
    BY <1>2, <2>1, <2>2
<1>4. Budget = Buffered(Capacity + 1)
  BY <1>1 DEF Buffered, Budget
<1> QED
  BY <1>1, <1>2, <1>3, <1>4

LEMMA Times ==
  /\ WriteWait \in Nat /\ WriteWait > 0 /\ ReadWait \in Nat /\ ReadWait > 0
  /\ Capacity \in Nat /\ Capacity > 0 /\ Budget \in Nat
  BY Products

LEMMA FullBuffer ==
  ASSUME NEW n \in 0 .. Capacity PROVE Buffered(n) \in Nat /\ 0 + Buffered(n) <= Budget
<1> DEFINE full == Buffered(Capacity)
<1>1. /\ Buffered(n) \in Nat /\ full \in Nat /\ Buffered(n) <= full
      /\ Budget = full + 2 * WriteWait
  BY Products
<1>2. 2 * WriteWait \in Nat
  BY Times
<1> HIDE DEF full
<1>3. \A w \in Nat : Budget = full + w => Buffered(n) <= Budget
  BY <1>1
<1> QED
  BY <1>1, <1>2, <1>3

\* What is left to write now.
Rest(out, left) ==
    IF out = << >> THEN 0 ELSE IF Len(out) = 1 THEN left ELSE left + WriteWait

LEMMA AheadIs ==
  ASSUME TypeOK, RepliesInOrder
  PROVE  Ahead = Buffered(Len(buffer)) + (IF Writing THEN Rest(todo, writeLeft) ELSE 0)
<1>1. WriteWait \in Nat /\ Len(buffer) \in Nat /\ writeLeft \in Nat
  BY Products DEF TypeOK
<1>2. CASE ~Writing
  BY <1>1, <1>2 DEF Ahead, Buffered
<1>3. CASE Writing
  <2>1. Len(todo) = 1 \/ Len(todo) = 2
    BY <1>3 DEF RepliesInOrder
  <2>2. todo # << >>
    BY <2>1, Len(<< >>) = 0
  <2>3. Ahead = Buffered(Len(buffer)) + (writeLeft + WriteWait * (Len(todo) - 1))
    BY <1>3, <2>2 DEF Ahead, Buffered
  <2>4. CASE Len(todo) = 1
    <3>1. WriteWait * (Len(todo) - 1) = 0
      BY <1>1, <2>4
    <3> QED
      BY <1>1, <1>3, <2>2, <2>3, <2>4, <3>1 DEF Rest
  <2>5. CASE Len(todo) = 2
    <3>1. WriteWait * (Len(todo) - 1) = WriteWait
      BY <1>1, <2>5
    <3> QED
      BY <1>1, <1>3, <2>2, <2>3, <2>5, <3>1 DEF Rest
  <2> QED
    BY <2>1, <2>4, <2>5
<1> QED
  BY <1>2, <1>3

\* So the bound is one about Rest and Buffered, in this state and the next.
LEMMA OverstayIs ==
  ASSUME TypeOK, RepliesInOrder
  PROVE  OverstayIsBounded <=>
           /\ Writing => over + (Buffered(Len(buffer)) + Rest(todo, writeLeft)) <= Budget
           /\ handler = "read" => over + Buffered(Len(buffer)) <= Budget
<1>1. over \in Nat /\ Buffered(Len(buffer)) \in Nat
  BY Products DEF TypeOK
<1>2. Ahead = Buffered(Len(buffer)) + (IF Writing THEN Rest(todo, writeLeft) ELSE 0)
  BY AheadIs
<1>3. CASE Writing
  BY <1>1, <1>2, <1>3 DEF OverstayIsBounded, Writing, Budget
<1>4. CASE handler = "read"
  BY <1>1, <1>2, <1>4 DEF OverstayIsBounded, Writing, Budget
<1>5. CASE handler \in {"start", "ended"}
  BY <1>5 DEF OverstayIsBounded, Writing
<1> QED
  BY <1>3, <1>4, <1>5 DEF Writing, TypeOK

LEMMA OverstayStep ==
  /\ TypeOK' /\ RepliesInOrder'
  /\ Writing' => over' + (Buffered(Len(buffer')) + Rest(todo', writeLeft')) <= Budget
  /\ handler' = "read" => over' + Buffered(Len(buffer')) <= Budget
  => OverstayIsBounded'
<1> DEFINE Sums == /\ Writing => over + (Buffered(Len(buffer)) + Rest(todo, writeLeft)) <= Budget
                   /\ handler = "read" => over + Buffered(Len(buffer)) <= Budget
<1>1. TypeOK /\ RepliesInOrder /\ Sums => OverstayIsBounded
  BY OverstayIs
<1>2. TypeOK' /\ RepliesInOrder' /\ Sums' => OverstayIsBounded'
  <2> HIDE DEF Sums
  <2> QED
    BY <1>1, PTL
<1> QED
  BY <1>2 DEF Writing, Buffered, Rest, Budget

LEMMA TerminalInit == Init => TerminalInv
<1> SUFFICES ASSUME Init PROVE TerminalInv
  OBVIOUS
<1>1. << >> \in Seq(Outputs) /\ << >> \in Seq(Messages) /\ Len(<< >>) = 0
  OBVIOUS
<1>2. TypeOK
  <2>1. /\ todo \in Seq(Outputs) /\ socket \in Seq(Messages) /\ buffer \in Seq(Messages)
        /\ Len(socket) <= Capacity /\ Len(buffer) <= Capacity
    BY <1>1, Products DEF Init
  <2>2. readLeft \in 0 .. ReadWait /\ writeLeft \in 0 .. WriteWait /\ over \in Nat
    BY Products DEF Init
  <2> QED
    BY <2>1, <2>2 DEF Init, TypeOK
<1> QED
  BY <1>2 DEF Init, TerminalInv, RepliesInOrder, OverstayIsBounded, Writing

-----------------------------------------------------------------------------
(***************************************************************************)
(* The steps.                                                              *)
(***************************************************************************)
LEMMA SendStep == ASSUME TerminalInv, NEW m \in Messages, Send(m) PROVE TerminalInv'
<1>1. /\ socket' = Append(socket, m) /\ Len(socket) < Capacity
      /\ UNCHANGED <<handler, todo, buffer, readLeft, writeLeft, broken, shown, over>>
  BY DEF Send
<1>2. socket' \in Seq(Messages) /\ Len(socket') <= Capacity
  BY <1>1, Products DEF TerminalInv, TypeOK
<1>3. TypeOK'
  BY <1>1, <1>2 DEF TerminalInv, TypeOK
<1> QED
  BY <1>1, <1>3 DEF TerminalInv, RepliesInOrder, OverstayIsBounded, Ahead, Writing

LEMMA BridgeStep == ASSUME TerminalInv, TerminalBridge PROVE TerminalInv'
<1>1. /\ handler = "start" /\ handler' = "greet" /\ todo' = Greeting
      /\ readLeft' = ReadWait /\ writeLeft' = WriteWait
      /\ UNCHANGED <<socket, buffer, broken, shown, over>>
  BY DEF TerminalBridge
<1>2. /\ todo' = <<"welcome", "instructions">> /\ "welcome" \in Outputs /\ "instructions" \in Outputs
  BY <1>1 DEF Greeting, Outputs
<1>3. /\ todo' \in Seq(Outputs) /\ Len(todo') = 2 /\ todo'[1] = "welcome" /\ todo'[2] = "instructions"
  BY <1>2, ShortSequences
<1>4. buffer = << >> /\ over = 0 /\ Len(buffer) = 0
  BY <1>1 DEF TerminalInv
<1>5. TypeOK'
  BY <1>1, <1>3, Products DEF TerminalInv, TypeOK
<1>6. RepliesInOrder'
  BY <1>1, <1>3 DEF RepliesInOrder
<1>7. over' + (Buffered(Len(buffer')) + Rest(todo', writeLeft')) <= Budget
  <2>1. Rest(todo', writeLeft') = WriteWait + WriteWait
    BY <1>1, <1>3, Len(<< >>) = 0 DEF Rest
  <2>2. Buffered(0) = 0 /\ Buffered(Capacity) \in Nat
    BY Products DEF Buffered
  <2> QED
    BY <1>1, <1>4, <2>1, <2>2, Products
<1>8. OverstayIsBounded'
  BY <1>1, <1>5, <1>6, <1>7, OverstayStep
<1> QED
  BY <1>1, <1>4, <1>5, <1>6, <1>8 DEF TerminalInv

LEMMA LessToWrite ==
  ASSUME NEW o \in Nat, NEW f \in Nat, NEW l \in Nat, NEW m \in Nat, NEW w \in Nat, NEW b \in Nat,
         o + (f + (l + w)) <= b, m <= w
  PROVE  o + (f + m) <= b /\ o + f <= b
  OBVIOUS

\* One output less.
LEMMA ProceedStep ==
  ASSUME TerminalInv, Writing, todo # << >>, Proceed(Tail(todo)),
         UNCHANGED <<socket, buffer, readLeft, over>>, broken' \in BOOLEAN,
         shown' \in Outputs \cup {"nothing"}, shown' = "CLOSE" => broken',
         broken' \/ shown' = todo[1]
  PROVE  TerminalInv'
<1> DEFINE rest == Tail(todo)
<1>1. /\ todo' = rest
      /\ handler' = IF rest = << >> THEN "read" ELSE handler
      /\ writeLeft' = IF rest = << >> \/ rest[1] = "CLOSE" THEN writeLeft ELSE WriteWait
  BY DEF Proceed
<1>2. todo \in Seq(Outputs) /\ Len(todo) \in 1 .. 2
  BY DEF TerminalInv, TypeOK, RepliesInOrder
<1>3. /\ rest \in Seq(Outputs) /\ Len(rest) = Len(todo) - 1
      /\ \A n \in 1 .. Len(rest) : rest[n] = todo[n + 1]
  BY <1>2, HeadTailProperties
<1> HIDE DEF rest
<1>4. Len(todo) = 1 => rest = << >>
  <2>1. rest # << >> => Len(rest) \in Nat \ {0}
    BY <1>3, EmptySeq
  <2> QED
    BY <1>2, <1>3, <2>1
<1>5. Len(todo) = 2 => rest # << >> /\ Len(rest) = 1 /\ rest[1] = todo[2]
  <2>1. Len(todo) = 2 => Len(rest) = 1
    BY <1>3
  <2>2. ASSUME Len(rest) = 1 PROVE rest[1] = todo[2]
    <3>1. 1 \in 1 .. Len(rest)
      BY <2>2
    <3>2. rest[1] = todo[1 + 1]
      BY <1>3, <3>1
    <3> QED
      BY <3>2
  <2> QED
    BY <2>1, <2>2, Len(<< >>) = 0
<1>6. handler \in {"greet", "reply"} /\ writeLeft \in 0 .. WriteWait
  BY DEF Writing, TerminalInv, TypeOK
<1>7. handler' = "read" \/ (handler' = handler /\ Len(todo) = 2)
  BY <1>1, <1>2, <1>4
<1>8. TypeOK'
  <2>1. writeLeft' \in 0 .. WriteWait
    BY <1>1, <1>6, Products
  <2>2. handler' \in {"greet", "read", "reply"}
    BY <1>6, <1>7
  <2> QED
    BY <1>1, <1>3, <2>1, <2>2 DEF TerminalInv, TypeOK
<1>9. RepliesInOrder'
  <2> SUFFICES ASSUME Writing'
               PROVE  /\ Len(todo') \in 1 .. 2
                      /\ Len(todo') = 2 /\ todo'[2] = "CLOSE" => todo'[1] = "goodbye"
                      /\ todo'[1] = "CLOSE" => broken' \/ shown' = "goodbye"
    BY DEF RepliesInOrder
  <2>1. Len(todo) = 2
    BY <1>7 DEF Writing
  <2>2. Len(todo') = 1 /\ todo'[1] = todo[2]
    BY <1>1, <1>5, <2>1
  <2>3. todo[2] = "CLOSE" => todo[1] = "goodbye"
    BY <2>1 DEF TerminalInv, RepliesInOrder
  <2> QED
    BY <2>2, <2>3
<1>10. OverstayIsBounded'
  <2> DEFINE full == Buffered(Len(buffer))
  <2>1. full \in Nat /\ over \in Nat /\ writeLeft \in Nat /\ writeLeft' \in Nat /\ WriteWait \in Nat
        /\ Budget \in Nat /\ over' = over
    BY <1>6, <1>8, Products DEF TerminalInv, TypeOK
  <2>2. over + (full + Rest(todo, writeLeft)) <= Budget
    BY OverstayIs DEF TerminalInv
  <2> HIDE DEF full
  <2>3. CASE Len(todo) = 2
    <3>1. Rest(todo, writeLeft) = writeLeft + WriteWait
      BY <2>3, Len(<< >>) = 0 DEF Rest
    <3>2. Rest(todo', writeLeft') = writeLeft' /\ writeLeft' <= WriteWait
      BY <1>1, <1>5, <1>8, <2>3 DEF Rest, TypeOK
    <3>3. over' + (full + Rest(todo', writeLeft')) <= Budget /\ over' + full <= Budget
      <4>1. over + (full + (writeLeft + WriteWait)) <= Budget
        BY <2>2, <3>1
      <4>2. over + (full + writeLeft') <= Budget /\ over + full <= Budget
        BY <2>1, <3>2, <4>1, LessToWrite
      <4> QED
        BY <2>1, <3>2, <4>2
    <3> QED
      BY <1>8, <1>9, <3>3, OverstayStep DEF full
  <2>4. CASE Len(todo) = 1
    <3>1. Rest(todo, writeLeft) = writeLeft
      BY <2>4, Len(<< >>) = 0 DEF Rest
    <3>2. handler' = "read"
      BY <1>7, <2>4
    <3>3. over' + full <= Budget
      BY <2>1, <2>2, <3>1
    <3> QED
      BY <1>8, <1>9, <3>2, <3>3, OverstayStep DEF full, Writing
  <2> QED
    BY <1>2, <2>3, <2>4
<1> QED
  BY <1>6, <1>7, <1>8, <1>9, <1>10 DEF TerminalInv

LEMMA WriteStep == ASSUME TerminalInv, Write PROVE TerminalInv'
<1>1. /\ Writing /\ todo # << >> /\ Proceed(Tail(todo)) /\ UNCHANGED <<socket, buffer, readLeft, over>>
      /\ shown' = todo[1] /\ broken' = (todo[1] = "CLOSE")
  BY DEF Write
<1>2. todo[1] \in Outputs
  BY <1>1 DEF TerminalInv, TypeOK, RepliesInOrder
<1>3. broken' \in BOOLEAN
  BY <1>1
<1> QED
  BY <1>1, <1>2, <1>3, ProceedStep

LEMMA WriteFailsStep == ASSUME TerminalInv, WriteFails PROVE TerminalInv'
<1>1. /\ Writing /\ todo # << >> /\ UNCHANGED <<socket, buffer, readLeft, shown, over>>
      /\ broken' = TRUE /\ shown' \in Outputs \cup {"nothing"}
  BY DEF WriteFails, TerminalInv, TypeOK
<1>2. CASE Proceed(Tail(todo))
  BY <1>1, <1>2, ProceedStep
<1>3. CASE handler' = "ended" /\ UNCHANGED <<todo, writeLeft>>
  BY <1>1, <1>3 DEF TerminalInv, TypeOK, RepliesInOrder, OverstayIsBounded, Writing
<1> QED
  BY <1>2, <1>3 DEF WriteFails

LEMMA EndSteps == ASSUME TerminalInv, End \/ Timeout PROVE TerminalInv'
<1>1. /\ handler' = "ended" /\ handler # "start"
      /\ UNCHANGED <<todo, socket, buffer, readLeft, writeLeft, broken, shown, over>>
  BY DEF End, Timeout
<1> QED
  BY <1>1 DEF TerminalInv, TypeOK, RepliesInOrder, OverstayIsBounded, Writing

LEMMA FetchStep == ASSUME TerminalInv, Fetch PROVE TerminalInv'
<1>1. /\ handler = "read" /\ buffer = << >> /\ readLeft > 0
      /\ UNCHANGED <<handler, todo, readLeft, writeLeft, broken, shown, over>>
  BY DEF Fetch
<1>2. PICK n \in 1 .. Len(socket) :
        /\ buffer' = SubSeq(socket, 1, n) /\ socket' = SubSeq(socket, n + 1, Len(socket))
  BY DEF Fetch
<1>3. socket \in Seq(Messages) /\ Len(socket) \in Nat /\ Len(socket) <= Capacity
  BY DEF TerminalInv, TypeOK
<1>4. buffer' \in Seq(Messages) /\ Len(buffer') = n
  <2>1. \A j \in 1 .. n : socket[j] \in Messages
    BY <1>3, LenProperties
  <2> QED
    BY <1>2, <1>3, <2>1, SubSeqProperties
<1>5. socket' \in Seq(Messages) /\ Len(socket') <= Capacity
  <2>1. \A j \in n + 1 .. Len(socket) : socket[j] \in Messages
    BY <1>3, LenProperties
  <2>2. n \in Nat /\ n <= Len(socket)
    BY <1>3
  <2>3. /\ SubSeq(socket, n + 1, Len(socket)) \in Seq(Messages)
        /\ Len(SubSeq(socket, n + 1, Len(socket))) =
             IF n + 1 <= Len(socket) THEN Len(socket) - (n + 1) + 1 ELSE 0
    BY <1>3, <2>1, <2>2, SubSeqProperties
  <2>4. Len(socket') \in {0, Len(socket) - n}
    BY <1>2, <1>3, <2>2, <2>3
  <2> QED
    BY <1>2, <1>3, <2>2, <2>3, <2>4, Times
<1>6. Len(buffer') \in 0 .. Capacity
  BY <1>3, <1>4, Products
<1>7. TypeOK' /\ RepliesInOrder'
  BY <1>1, <1>4, <1>5, <1>6 DEF TerminalInv, TypeOK, RepliesInOrder, Writing
<1>8. over' = 0
  BY <1>1 DEF TerminalInv
<1>9. over' + Buffered(Len(buffer')) <= Budget
  BY <1>6, <1>8, FullBuffer
<1>10. OverstayIsBounded'
  BY <1>1, <1>7, <1>9, OverstayStep DEF Writing
<1> QED
  BY <1>1, <1>7, <1>8, <1>10 DEF TerminalInv

\* One message less in the buffer.
LEMMA BufferShrinks ==
  ASSUME TypeOK, buffer # << >>, buffer' = Tail(buffer)
  PROVE  /\ buffer[1] \in Messages /\ buffer' \in Seq(Messages) /\ Len(buffer') \in 0 .. Capacity
         /\ Buffered(Len(buffer)) = Buffered(Len(buffer')) + 2 * WriteWait
         /\ Buffered(Len(buffer')) \in Nat
<1>1. buffer \in Seq(Messages) /\ Len(buffer) \in Nat \ {0} /\ Len(buffer) <= Capacity
  BY EmptySeq DEF TypeOK
<1>2. buffer' \in Seq(Messages) /\ Len(buffer') = Len(buffer) - 1
  BY <1>1, HeadTailProperties
<1>3. Len(buffer') \in Nat /\ Len(buffer) = Len(buffer') + 1
  BY <1>1, <1>2
<1>4. Buffered(Len(buffer')) \in Nat /\ Buffered(Len(buffer') + 1) = Buffered(Len(buffer')) + 2 * WriteWait
  BY <1>3, Products
<1>5. buffer[1] \in Messages
  BY <1>1, LenProperties
<1>6. Len(buffer') \in 0 .. Capacity
  BY <1>1, <1>3, Products
<1> QED
  BY <1>2, <1>3, <1>4, <1>5, <1>6

LEMMA PongStep == ASSUME TerminalInv, Pong PROVE TerminalInv'
<1>1. /\ handler = "read" /\ buffer # << >> /\ buffer' = Tail(buffer) /\ readLeft' = ReadWait
      /\ over' = 0 /\ UNCHANGED <<handler, todo, socket, writeLeft, broken, shown>>
  BY DEF Pong
<1>2. buffer' \in Seq(Messages) /\ Len(buffer') \in 0 .. Capacity
  BY <1>1, BufferShrinks DEF TerminalInv
<1>3. TypeOK' /\ RepliesInOrder'
  BY <1>1, <1>2, Products DEF TerminalInv, TypeOK, RepliesInOrder, Writing
<1>4. over' + Buffered(Len(buffer')) <= Budget
  BY <1>1, <1>2, FullBuffer
<1>5. OverstayIsBounded'
  BY <1>1, <1>3, <1>4, OverstayStep DEF Writing
<1> QED
  BY <1>1, <1>3, <1>5 DEF TerminalInv

LEMMA ReadArithmetic ==
  ASSUME NEW o \in Nat, NEW f \in Nat, NEW g \in Nat, NEW w \in Nat, NEW r \in Nat, NEW b \in Nat,
         g = f + 2 * w, o + g <= b, r <= 2 * w
  PROVE  o + (f + r) <= b /\ o + f <= b
  OBVIOUS

LEMMA ReadStep == ASSUME TerminalInv, Read PROVE TerminalInv'
<1>1. /\ handler = "read" /\ buffer # << >> /\ buffer[1] # "pong" /\ buffer' = Tail(buffer)
      /\ todo' = Replies[buffer[1]] /\ writeLeft' = WriteWait
      /\ handler' = IF todo' = << >> THEN "read" ELSE "reply"
      /\ UNCHANGED <<socket, readLeft, broken, shown, over>>
  BY DEF Read
<1>2. /\ buffer[1] \in Messages /\ buffer' \in Seq(Messages) /\ Len(buffer') \in 0 .. Capacity
      /\ Buffered(Len(buffer)) = Buffered(Len(buffer')) + 2 * WriteWait
      /\ Buffered(Len(buffer')) \in Nat
  BY <1>1, BufferShrinks DEF TerminalInv
<1>3. Shape(todo')
  BY <1>1, <1>2, RepliesShape
<1>4. todo' \in Seq(Outputs) /\ Len(todo') \in 0 .. 2 /\ (todo' # << >> => Len(todo') \in 1 .. 2)
  <2>1. todo' \in Seq(Outputs) /\ Len(todo') <= 2
    BY <1>3 DEF Shape
  <2>2. Len(todo') \in Nat /\ (todo' # << >> => Len(todo') \in Nat \ {0})
    BY <2>1, EmptySeq, LenProperties
  <2>3. \A n \in Nat : n <= 2 => n \in 0 .. 2 /\ (n # 0 => n \in 1 .. 2)
    OBVIOUS
  <2> QED
    BY <2>1, <2>2, <2>3
<1>5. TypeOK'
  BY <1>1, <1>2, <1>4, Products DEF TerminalInv, TypeOK
<1>6. RepliesInOrder'
  BY <1>1, <1>3, <1>4 DEF RepliesInOrder, Writing, Shape
<1>7. OverstayIsBounded'
  <2>1. over + Buffered(Len(buffer)) <= Budget /\ over' = over /\ over \in Nat
    BY <1>1, OverstayIs DEF TerminalInv, TypeOK
  <2>2. Rest(todo', writeLeft') \in Nat /\ Rest(todo', writeLeft') <= 2 * WriteWait
    <3>1. Rest(todo', writeLeft') \in {0, WriteWait, WriteWait + WriteWait}
      BY <1>1 DEF Rest
    <3> QED
      BY <3>1, Times
  <2>3. /\ over' + (Buffered(Len(buffer')) + Rest(todo', writeLeft')) <= Budget
        /\ over' + Buffered(Len(buffer')) <= Budget
    BY <1>2, <2>1, <2>2, Times, ReadArithmetic
  <2> QED
    BY <1>5, <1>6, <2>3, OverstayStep
<1> QED
  BY <1>1, <1>5, <1>6, <1>7 DEF TerminalInv

LEMMA TickArithmetic ==
  ASSUME NEW o \in Nat, NEW f \in Nat, NEW r \in Nat, NEW b \in Nat, r > 0, o + (f + r) <= b
  PROVE  (o + 1) + (f + (r - 1)) <= b /\ o + (f + (r - 1)) <= b
  OBVIOUS

LEMMA TickStep == ASSUME TerminalInv, Tick PROVE TerminalInv'
<1>1. /\ handler \notin {"start", "ended"} /\ (Writing => writeLeft > 0)
      /\ (handler = "read" => readLeft > 0)
      /\ readLeft' = IF readLeft > 0 THEN readLeft - 1 ELSE 0
      /\ writeLeft' = IF Writing THEN writeLeft - 1 ELSE writeLeft
      /\ over' = IF readLeft = 0 THEN over + 1 ELSE over
      /\ UNCHANGED <<handler, todo, socket, buffer, broken, shown>>
  BY DEF Tick
<1>2. over \in Nat /\ readLeft \in 0 .. ReadWait /\ writeLeft \in 0 .. WriteWait
      /\ Len(buffer) \in Nat
  BY DEF TerminalInv, TypeOK
<1>3. readLeft' \in 0 .. ReadWait /\ writeLeft' \in 0 .. WriteWait /\ over' \in Nat
      /\ (readLeft' > 0 => over' = over /\ readLeft > 0)
  BY <1>1, <1>2, Times
<1>4. TypeOK' /\ RepliesInOrder'
  BY <1>1, <1>3 DEF TerminalInv, TypeOK, RepliesInOrder, Writing
<1>5. OverstayIsBounded'
  <2> DEFINE full == Buffered(Len(buffer))
  <2>1. full \in Nat /\ Budget \in Nat
    BY <1>2, Products
  <2>2. /\ Writing => over + (full + Rest(todo, writeLeft)) <= Budget
        /\ handler = "read" => over + full <= Budget
    BY OverstayIs DEF TerminalInv
  <2> HIDE DEF full
  <2>3. CASE Writing
    <3>1. todo # << >>
      BY <2>3, Len(<< >>) = 0 DEF TerminalInv, RepliesInOrder
    <3>2. /\ Rest(todo, writeLeft) \in Nat /\ Rest(todo, writeLeft) > 0
          /\ Rest(todo', writeLeft') = Rest(todo, writeLeft) - 1
      BY <1>1, <1>2, <2>3, <3>1, Products DEF Rest
    <3>3. /\ (over + 1) + (full + Rest(todo', writeLeft')) <= Budget
          /\ over + (full + Rest(todo', writeLeft')) <= Budget
      BY <1>2, <2>1, <2>2, <2>3, <3>2, TickArithmetic
    <3>4. over' + (full + Rest(todo', writeLeft')) <= Budget
      BY <1>1, <3>3
    <3>5. handler' # "read"
      BY <1>1, <2>3 DEF Writing
    <3> QED
      BY <1>1, <1>4, <3>4, <3>5, OverstayStep DEF full
  <2>4. CASE handler = "read"
    <3>1. over' + full <= Budget
      BY <1>1, <1>2, <2>2, <2>4
    <3> QED
      BY <1>1, <1>4, <2>4, <3>1, OverstayStep DEF full, Writing
  <2> QED
    BY <1>1, <2>3, <2>4 DEF Writing, TerminalInv, TypeOK
<1>6. readLeft' > 0 \/ handler' = "start" => over' = 0
  BY <1>1, <1>3 DEF TerminalInv
<1> QED
  BY <1>1, <1>4, <1>5, <1>6 DEF TerminalInv

LEMMA TerminalStep == TerminalInv /\ [Next]_vars => TerminalInv'
<1> SUFFICES ASSUME TerminalInv, [Next]_vars PROVE TerminalInv'
  OBVIOUS
<1>1. CASE \E m \in Messages : Send(m)
  BY <1>1, SendStep
<1>2. CASE Step
  BY <1>2, BridgeStep, WriteStep, WriteFailsStep, EndSteps, FetchStep, PongStep, ReadStep DEF Step
<1>3. CASE Tick
  BY <1>3, TickStep
<1>4. CASE UNCHANGED vars
  BY <1>4 DEF vars, TerminalInv, TypeOK, RepliesInOrder, OverstayIsBounded, Ahead, Writing
<1> QED
  BY <1>1, <1>2, <1>3, <1>4 DEF Next

\* Handler, replies, buffers and clocks fit together.
THEOREM TerminalInvariant == Spec => []TerminalInv
  BY TerminalInit, TerminalStep, PTL DEF Spec

\* A terminal outlives its last pong by the read deadline and the writes of
\* what is in the buffer at most, for all deadlines and capacities.
THEOREM OverstayBounded == Spec => []OverstayIsBounded
<1>1. TerminalInv => OverstayIsBounded
  BY DEF TerminalInv
<1> QED
  BY <1>1, TerminalInvariant, PTL

\* The good-bye comes before the close frame and nothing comes after it.
THEOREM NothingShownAfterClose == Spec => NothingAfterClose
<1> DEFINE Good == /\ shown' = "CLOSE" /\ shown # "CLOSE" => shown = "goodbye"
                   /\ shown = "CLOSE" => shown' = "CLOSE"
<1>1. TerminalInv /\ [Next]_vars => Good \/ UNCHANGED vars
  <2> SUFFICES ASSUME TerminalInv, Next PROVE Good
    OBVIOUS
  <2>1. CASE Write
    <3>1. Writing /\ ~broken /\ shown' = todo[1]
      BY <2>1 DEF Write
    <3>2. todo[1] = "CLOSE" => shown = "goodbye"
      BY <3>1 DEF TerminalInv, RepliesInOrder
    <3>3. shown # "CLOSE"
      BY <3>1 DEF TerminalInv
    <3> QED
      BY <3>1, <3>2, <3>3
  <2>2. CASE shown' = shown
    BY <2>2
  <2> QED
    BY <2>1, <2>2
       DEF Next, Step, Send, TerminalBridge, WriteFails, End, Fetch, Pong, Read, Timeout, Tick
<1> QED
  BY <1>1, TerminalInvariant, PTL DEF Spec, NothingAfterClose
=============================================================================
