--------------------------- MODULE TerminalProofs ---------------------------
(***************************************************************************)
(* The terminal page for every pair of watermarks and every amount of      *)
(* output in flight.                                                       *)
(***************************************************************************)
EXTENDS Terminal, TLAPS

\* Nothing is on the wire of a connection that is not open, so a RESUME that the
\* page could not send is not missed by anybody.
WireInv == sock # "open" => up = <<>> /\ ~paused

IInv == TypeOK /\ OneConnection /\ PendingExact /\ NoStall /\ WireInv

LEMMA NoWords == <<>> \in Seq({"pause", "resume"}) /\ Len(<<>>) = 0
OBVIOUS

\* The last word after one more is sent.
LEMMA LastOfAppend ==
    ASSUME TypeOK, NEW w \in {"pause", "resume"}, up' = Append(up, w)
    PROVE  LastWord' = w
BY DEF TypeOK, LastWord

\* Delivery takes the first word and does not change the last.
LEMMA LastOfControl ==
    ASSUME TypeOK, Control
    PROVE  LastWord' = LastWord
<1>0. up \in Seq({"pause", "resume"}) /\ up # <<>> /\ up' = Tail(up)
  BY DEF TypeOK, Control
<1>1. paused' = (Head(up) = "pause")
  BY DEF Control
<1>2. CASE Len(up) = 1
  <2>1. up' = <<>> /\ up[Len(up)] = Head(up) /\ Head(up) \in {"pause", "resume"}
    BY <1>0, <1>2
  <2>2. LastWord = Head(up)
    BY <1>0, <2>1 DEF LastWord
  <2>3. LastWord' = IF paused' THEN "pause" ELSE "resume"
    BY <2>1 DEF LastWord
  <2> QED
    BY <1>1, <2>1, <2>2, <2>3
<1>3. CASE Len(up) # 1
  <2>0. Len(up) \in Nat /\ Len(up) # 0
    BY <1>0
  <2>4. Len(Tail(up)) = Len(up) - 1
    BY <1>0
  <2>1. Len(up) > 1 /\ Len(up') = Len(up) - 1
    BY <1>0, <1>3, <2>0, <2>4
  <2>3. up' # <<>>
    BY <2>0, <2>1, NoWords
  <2>2. up'[Len(up')] = up[Len(up)]
    BY <1>0, <2>1
  <2> QED
    BY <1>0, <2>2, <2>3 DEF LastWord
<1> QED
  BY <1>2, <1>3

\* A connection that opens or closes has nobody paused at its end.
LEMMA FreshWire ==
    ASSUME NewWire
    PROVE  LastWord' = "resume" /\ NoStall' /\ up' = <<>> /\ ~paused' /\ down' = 0
BY DEF NewWire, LastWord, NoStall

LEMMA TerminalInit == Init => IInv
<1> SUFFICES ASSUME Init PROVE IInv
  OBVIOUS
<1>0. /\ reconnect \in BOOLEAN /\ doReconnect \in BOOLEAN /\ late \in BOOLEAN
      /\ stopped \in BOOLEAN /\ paused \in BOOLEAN
  BY Zenon DEF Init
<1>1. TypeOK /\ OneConnection /\ PendingExact
  <2>1. /\ sock = "none" /\ fetching = 1 /\ prompts = 0 /\ pending = 0 /\ marks = 0
        /\ down = 0 /\ up = <<>>
    BY DEF Init
  <2> QED
    BY <1>0, <2>1, NoWords DEF TypeOK, OneConnection, Live, PendingExact
<1>2. LastWord = "resume" /\ WireInv
  BY DEF Init, LastWord, WireInv
<1> QED
  BY <1>1, <1>2 DEF IInv, NoStall

\* The handlers of the socket, and the key.
LEMMA SocketSteps ==
    ASSUME IInv, Connect \/ OnSocketOpen \/ OnSocketClose \/ OnKeyEnter
    PROVE  IInv'
<1>1. CASE Connect
  <2>1. sock # "open"
    BY <1>1 DEF IInv, TypeOK, OneConnection, Live, Connect
  <2>2. up' = up /\ paused' = paused /\ down' = down /\ marks' = marks /\ pending' = pending
    BY <1>1 DEF Connect, flow, wire
  <2>3. TypeOK' /\ OneConnection'
    BY <1>1 DEF IInv, TypeOK, OneConnection, Live, Connect, flow, wire
  <2> QED
    BY <1>1, <2>1, <2>2, <2>3 DEF IInv, PendingExact, NoStall, LastWord, WireInv, Connect
<1>2. CASE OnSocketOpen
  <2>1. TypeOK' /\ OneConnection'
    BY <1>2, NoWords DEF IInv, TypeOK, OneConnection, Live, OnSocketOpen, NewWire, flow
  <2> QED
    BY <1>2, <2>1, FreshWire DEF IInv, PendingExact, WireInv, OnSocketOpen, flow
<1>3. CASE OnSocketClose
  <2>1. /\ prompts' \in {prompts, prompts + 1} /\ doReconnect' \in BOOLEAN
        /\ sock \in {"connecting", "open"} /\ sock' = "closed" /\ NewWire
        /\ UNCHANGED <<fetching, reconnect, late, pending, marks, stopped>>
    BY <1>3 DEF IInv, TypeOK, OnSocketClose, flow
  <2>2. TypeOK'
    <3>1. paused' \in BOOLEAN /\ up' = <<>> /\ down' = 0
      BY <2>1, Zenon DEF NewWire
    <3>2. prompts' \in Nat
      BY <2>1 DEF IInv, TypeOK
    <3> QED
      BY <2>1, <3>1, <3>2, NoWords DEF IInv, TypeOK
  <2>3. OneConnection'
    <3>1. prompts' = prompts \/ prompts' = prompts + 1
      BY <2>1
    <3>2. fetching = 0 /\ prompts = 0
      BY <2>1 DEF IInv, TypeOK, OneConnection, Live
    <3>3. fetching' = 0 /\ (prompts' = 0 \/ prompts' = 1)
      BY <2>1, <3>1, <3>2
    <3>4. sock' = "closed"
      BY <2>1
    <3> QED
      BY <3>3, <3>4 DEF OneConnection, Live
  <2> QED
    BY <2>1, <2>2, <2>3, FreshWire DEF IInv, PendingExact, WireInv
<1>4. CASE OnKeyEnter
  <2>1. TypeOK' /\ OneConnection'
    BY <1>4 DEF IInv, TypeOK, OneConnection, Live, OnKeyEnter, flow, wire
  <2> QED
    BY <1>4, <2>1 DEF IInv, PendingExact, NoStall, LastWord, WireInv, OnKeyEnter, flow, wire
<1> QED
  BY <1>1, <1>2, <1>3, <1>4

\* Steps that change neither the socket nor the control messages.
LEMMA QuietSteps ==
    ASSUME IInv, ApplyOptions \/ TtlNears \/ Output
    PROVE  IInv'
<1>1. /\ TypeOK'
      /\ UNCHANGED <<sock, fetching, prompts, pending, marks, up, paused>>
  <2>1. CASE ApplyOptions
    BY <2>1 DEF IInv, TypeOK, ApplyOptions, flow, wire
  <2>2. CASE TtlNears
    BY <2>2 DEF IInv, TypeOK, TtlNears, flow, wire
  <2>3. CASE Output
    BY <2>3 DEF IInv, TypeOK, Output, page, flow
  <2> QED
    BY <2>1, <2>2, <2>3
<1> QED
  BY <1>1 DEF IInv, OneConnection, Live, PendingExact, NoStall, LastWord, WireInv

LEMMA WriteStep ==
    ASSUME IInv, ZmodemWrite
    PROVE  IInv'
<1>1. /\ TypeOK' /\ sock = "open" /\ pending' = pending + 1 /\ marks' = marks + 1
      /\ UNCHANGED <<sock, fetching, prompts, paused>>
  BY DEF IInv, TypeOK, ZmodemWrite, page
<1>2. NoStall'
  <2>1. CASE pending' > HighWater
    BY <1>1, <2>1, TerminalAssumption DEF IInv, TypeOK, PendingExact, NoStall
  <2>2. CASE ~(pending' > HighWater)
    <3>1. LastWord' = LastWord
      BY <1>1, <2>2 DEF ZmodemWrite, LastWord
    <3> QED
      BY <1>1, <3>1, TerminalAssumption DEF IInv, TypeOK, NoStall
  <2> QED
    BY <2>1, <2>2
<1> QED
  BY <1>1, <1>2 DEF IInv, TypeOK, OneConnection, Live, PendingExact, WireInv

LEMMA CallbackStep ==
    ASSUME IInv, WriteCallback
    PROVE  IInv'
<1>1. /\ marks > 0 /\ pending' = marks' /\ marks' = marks - 1 /\ marks' \in Nat
      /\ UNCHANGED <<sock, fetching, prompts, reconnect, doReconnect, late, down, paused>>
  BY DEF IInv, TypeOK, PendingExact, WriteCallback, page
<1>2. CASE pending' < LowWater /\ sock = "open"
  <2>1. up' = Append(up, "resume") /\ stopped' = FALSE
    BY <1>2 DEF WriteCallback, Resume
  <2>2. LastWord' = "resume" /\ up' \in Seq({"pause", "resume"})
    BY <2>1, LastOfAppend DEF IInv, TypeOK
  <2> QED
    BY <1>1, <1>2, <2>1, <2>2
       DEF IInv, TypeOK, OneConnection, Live, PendingExact, NoStall, WireInv
<1>3. CASE pending' < LowWater /\ sock # "open"
  <2>1. up' = up /\ stopped' \in BOOLEAN /\ up = <<>> /\ ~paused
    BY <1>3 DEF WriteCallback, Resume, IInv, WireInv
  <2> QED
    BY <1>1, <1>3, <2>1
       DEF IInv, TypeOK, OneConnection, Live, PendingExact, NoStall, LastWord, WireInv
<1>4. CASE ~(pending' < LowWater)
  <2>1. up' = up /\ stopped' = stopped
    BY <1>4 DEF WriteCallback
  <2>2. LastWord' = LastWord
    BY <1>1, <2>1 DEF LastWord
  <2> QED
    BY <1>1, <1>4, <2>1, <2>2, TerminalAssumption
       DEF IInv, TypeOK, OneConnection, Live, PendingExact, NoStall, WireInv
<1> QED
  BY <1>2, <1>3, <1>4

LEMMA ControlStep ==
    ASSUME IInv, Control
    PROVE  IInv'
<1>1. /\ TypeOK' /\ up # <<>> /\ UNCHANGED <<sock, fetching, prompts, pending, marks>>
  BY DEF IInv, TypeOK, Control, page, flow
<1>2. LastWord' = LastWord
  BY LastOfControl DEF IInv
<1> QED
  BY <1>1, <1>2 DEF IInv, OneConnection, Live, PendingExact, NoStall, WireInv

LEMMA TerminalStep ==
    ASSUME IInv, [Next]_vars
    PROVE  IInv'
<1>1. CASE UNCHANGED vars
  BY <1>1 DEF vars, page, flow, wire, IInv, TypeOK, OneConnection, Live, PendingExact, NoStall,
              LastWord, WireInv
<1> QED
  BY <1>1, SocketSteps, QuietSteps, WriteStep, CallbackStep, ControlStep DEF Next

LEMMA TerminalInvariant == Spec => []IInv
BY TerminalInit, TerminalStep, PTL DEF Spec

\* However often the connection is lost and re-established there is one way back
\* at most (terminal/index.tsx:428-459).
THEOREM TerminalOneConnection == Spec => []OneConnection
<1>1. IInv => OneConnection
  BY DEF IInv
<1> QED
  BY <1>1, TerminalInvariant, PTL

\* The page's count of writes under way is right, across connections
\* (zmodem/index.tsx:132-149).
THEOREM TerminalPendingExact == Spec => []PendingExact
<1>1. IInv => PendingExact
  BY DEF IInv
<1> QED
  BY <1>1, TerminalInvariant, PTL

\* For all watermarks with lowWater <= highWater, ttyd is never told to pause
\* without enough callbacks to come that one of them resumes it
\* (zmodem/index.tsx:132-149).
THEOREM TerminalNoStall == Spec => []NoStall
<1>1. IInv => NoStall
  BY DEF IInv
<1> QED
  BY <1>1, TerminalInvariant, PTL

\* The state of the page stays well-formed: pending is never negative.
THEOREM TerminalTyped == Spec => []TypeOK
<1>1. IInv => TypeOK
  BY DEF IInv
<1> QED
  BY <1>1, TerminalInvariant, PTL
=============================================================================
