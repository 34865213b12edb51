------------------------------ MODULE Terminal ------------------------------
(***************************************************************************)
(* html/src/components: the page in the user's browser.  terminal/index.tsx*)
(* keeps one web socket to the ttyd of the worker and offers to reconnect  *)
(* when it is lost; zmodem/index.tsx writes the output to xterm and tells  *)
(* ttyd to pause and to resume.  Handlers run one at a time on the event   *)
(* loop, so a step is one handler.                                         *)
(*                                                                         *)
(* Of the output only the writes that exceed control.limit are kept: they  *)
(* alone have a callback.  xterm and ttyd are external.                    *)
(***************************************************************************)
EXTENDS Naturals, Sequences

CONSTANTS HighWater, LowWater,   \* control.highWater, control.lowWater
          Window,                \* bound on messages in flight in each direction
          Backlog                \* bound on writes that wait in xterm

ASSUME TerminalAssumption ==
    /\ HighWater \in Nat /\ LowWater \in 1 .. HighWater
    /\ Window \in Nat /\ Backlog \in Nat

VARIABLES sock,          \* this.socket
          fetching,      \* refreshToken() calls that will be followed by connect()
          prompts,       \* the Enter handlers onSocketClose has registered
          reconnect, doReconnect,
          late,          \* less than ten seconds of the TTL are left, or none
          pending,       \* this.pending
          marks,         \* the callbacks xterm still owes
          stopped,       \* xterm's write loop died of an exception
          down,          \* output on its way to the page
          up,            \* Command.PAUSE and Command.RESUME on their way to ttyd
          paused         \* ttyd does not read from its terminal

page == <<sock, fetching, prompts, reconnect, doReconnect, late>>
flow == <<pending, marks, stopped>>
wire == <<down, up, paused>>
vars == <<page, flow, wire>>

\* componentDidMount waits for the first token.
Init ==
    /\ sock = "none" /\ fetching = 1 /\ prompts = 0
    /\ reconnect = TRUE /\ doReconnect = TRUE /\ late = FALSE
    /\ pending = 0 /\ marks = 0 /\ stopped = FALSE
    /\ down = 0 /\ up = <<>> /\ paused = FALSE

\* A connection has a ttyd process of its own, which starts unpaused.
NewWire == down' = 0 /\ up' = <<>> /\ paused' = FALSE

(***************************************************************************)
(* The socket.                                                             *)
(***************************************************************************)
\* refreshToken, which swallows its errors, then connect.
Connect ==
    /\ fetching > 0
    /\ fetching' = fetching - 1
    /\ sock' = "connecting"
    /\ UNCHANGED <<prompts, reconnect, doReconnect, late, flow, wire>>

\* Mutant: the count of pending writes starts afresh with the connection.
OpenForgets ==
    /\ sock = "connecting"
    /\ sock' = "open"
    /\ doReconnect' = reconnect
    /\ pending' = 0
    /\ NewWire
    /\ UNCHANGED <<fetching, prompts, reconnect, late, marks, stopped>>

OnSocketOpen ==
    /\ sock = "connecting"
    /\ sock' = "open"
    /\ doReconnect' = reconnect
    /\ NewWire
    /\ UNCHANGED <<fetching, prompts, reconnect, late, flow>>

\* onSocketClose, preceded by onSocketError when the connection failed: always
\* when it was never open, and now and then when it was.
OnSocketClose ==
    /\ sock \in {"connecting", "open"}
    /\ sock' = "closed"
    /\ \E normal, failed \in BOOLEAN :
          /\ sock = "connecting" => failed
          /\ normal => ~failed
          /\ doReconnect' = (doReconnect /\ ~failed)
          /\ prompts' = IF ~late /\ ~normal /\ doReconnect' THEN prompts + 1 ELSE prompts
    /\ NewWire
    /\ UNCHANGED <<fetching, reconnect, late, flow>>

\* Mutant: the handler is not disposed of.
EnterKeepsHandler ==
    /\ prompts > 0
    /\ fetching' = fetching + prompts
    /\ UNCHANGED <<sock, prompts, reconnect, doReconnect, late, flow, wire>>

\* The user presses Enter: every registered handler runs and disposes of itself.
OnKeyEnter ==
    /\ prompts > 0
    /\ fetching' = fetching + prompts
    /\ prompts' = 0
    /\ UNCHANGED <<sock, reconnect, doReconnect, late, flow, wire>>

\* SET_PREFERENCES with disableReconnect.
ApplyOptions ==
    /\ sock = "open" /\ reconnect
    /\ reconnect' = FALSE
    /\ UNCHANGED <<sock, fetching, prompts, doReconnect, late, flow, wire>>

\* Time passes on a page that was opened with a TTL.
TtlNears ==
    /\ sock # "none" /\ ~late
    /\ late' = TRUE
    /\ UNCHANGED <<sock, fetching, prompts, reconnect, doReconnect, flow, wire>>

(***************************************************************************)
(* Flow control.                                                           *)
(***************************************************************************)
\* zmodemWrite of the output that makes `written` exceed the limit.
ZmodemWrite ==
    /\ sock = "open" /\ down > 0
    /\ down' = down - 1
    /\ marks' = marks + 1
    /\ pending' = pending + 1
    /\ up' = IF pending' > HighWater THEN Append(up, "pause") ELSE up
    /\ UNCHANGED <<page, stopped, paused>>

\* socket.send throws on a socket that is connecting, which ends xterm's loop,
\* and drops the message on one that is closed.
Resume ==
    /\ up' = IF sock = "open" THEN Append(up, "resume") ELSE up
    /\ stopped' = (sock = "connecting")

\* Mutant: the callback does not count down.
CallbackKeepsCount ==
    /\ marks > 0 /\ ~stopped
    /\ marks' = marks - 1
    /\ IF pending < LowWater THEN Resume ELSE UNCHANGED <<up, stopped>>
    /\ UNCHANGED <<page, pending, down, paused>>

\* Mutant: plain writes call back too, and nothing keeps the count above zero.
CallbackUnclamped ==
    /\ sock # "none" /\ ~stopped
    /\ marks' = IF marks > 0 THEN marks - 1 ELSE 0
    /\ pending' = pending - 1
    /\ IF pending' < LowWater THEN Resume ELSE UNCHANGED <<up, stopped>>
    /\ UNCHANGED <<page, down, paused>>

\* Mutant: the test comes before the decrement.
CallbackTestsFirst ==
    /\ marks > 0 /\ ~stopped
    /\ marks' = marks - 1
    /\ pending' = IF pending > 0 THEN pending - 1 ELSE 0
    /\ IF pending < LowWater THEN Resume ELSE UNCHANGED <<up, stopped>>
    /\ UNCHANGED <<page, down, paused>>

\* xterm has processed a write and calls back.
WriteCallback ==
    /\ marks > 0 /\ ~stopped
    /\ marks' = marks - 1
    /\ pending' = IF pending > 0 THEN pending - 1 ELSE 0
    /\ IF pending' < LowWater THEN Resume ELSE UNCHANGED <<up, stopped>>
    /\ UNCHANGED <<page, down, paused>>

(***************************************************************************)
(* ttyd and the network (external).                                        *)
(***************************************************************************)
Output ==
    /\ sock = "open" /\ ~paused
    /\ down < Window /\ Len(up) < Window /\ marks < Backlog
    /\ down' = down + 1
    /\ UNCHANGED <<page, flow, up, paused>>

Control ==
    /\ up # <<>>
    /\ paused' = (Head(up) = "pause")
    /\ up' = Tail(up)
    /\ UNCHANGED <<page, flow, down>>

Next == \/ Connect \/ OnSocketOpen \/ OnSocketClose \/ OnKeyEnter \/ ApplyOptions \/ TtlNears
        \/ ZmodemWrite \/ WriteCallback \/ Output \/ Control

\* The event loop runs the handlers that are due and the network delivers;
\* users, ttyd's output and the life of a connection owe nothing.
Fairness == WF_vars(ZmodemWrite) /\ WF_vars(WriteCallback) /\ WF_vars(Control)

Spec == Init /\ [][Next]_vars
FairSpec == Spec /\ Fairness

-----------------------------------------------------------------------------
\* The shape of the state.
TypeOK ==
    /\ sock \in {"none", "connecting", "open", "closed"}
    /\ fetching \in Nat /\ prompts \in Nat
    /\ reconnect \in BOOLEAN /\ doReconnect \in BOOLEAN /\ late \in BOOLEAN
    /\ stopped \in BOOLEAN /\ paused \in BOOLEAN
    /\ pending \in Nat /\ marks \in Nat /\ down \in Nat
    /\ up \in Seq({"pause", "resume"})

\* One way back at most: a socket under way or open, a token being fetched for
\* the next one, or a key handler that will fetch it.  A second one would open a
\* second connection, whose output mixes with the first's in one terminal, the
\* next time Enter is typed (terminal/index.tsx:449-456).
Live == IF sock \in {"connecting", "open"} THEN 1 ELSE 0
OneConnection == Live + fetching + prompts <= 1

\* `pending` counts the callbacks that xterm owes, across connections: writes of
\* a lost connection are still counted when the next one is open
\* (zmodem/index.tsx:139-145).
PendingExact == pending = marks

\* ttyd is not left paused: as long as its last word from the page is pause, at
\* least lowWater callbacks are outstanding, and with the one that makes them
\* fewer the page says resume (zmodem/index.tsx:140-149), unless xterm has stopped
\* and calls nobody back any more.
LastWord == IF up # <<>> THEN up[Len(up)] ELSE IF paused THEN "pause" ELSE "resume"
NoStall == LastWord = "pause" => marks >= LowWater

\* A paused ttyd resumes, unless the connection goes or xterm has stopped.
OutputResumes == paused ~> (~paused \/ sock # "open" \/ stopped)
=============================================================================
