------------------------------ MODULE IpcLines ------------------------------
(***************************************************************************)
(* transport.rs under the two readers of a connection: handle_client of    *)
(* the daemon, that reads inside a select!, and the reader task of the TUI *)
(* (client.rs), that only reads.  A JSON line arrives in pieces, and a     *)
(* read_line that the select! drops takes those it has read with it.       *)
(***************************************************************************)
EXTENDS Naturals, Sequences

CONSTANTS
    MaxRequests,  \* bound: lines the TUI writes
    MaxEvents,    \* bound: events on the bus
    MaxPieces     \* bound: pieces a line arrives in

ASSUME IpcLinesAssumption ==
    MaxRequests \in Nat /\ MaxEvents \in Nat /\ MaxPieces \in Nat \ {0}

VARIABLES
    asked,      \* how many requests the TUI has written
    toDaemon,   \* lines of which the handler has not read everything
    handlerBuf, \* how many pieces of the first of them are in its line_buf
    served,     \* the requests handled
    handler,    \* "serving" or "ended"
    events,
    told,       \* the lines written to the TUI: the request replied to, or 0
    toClient, clientBuf,
    heard,      \* the lines the reader task has handed on
    tui,        \* "open" or "closed"
    reader      \* the TUI's reader task

requestVars == <<asked, toDaemon, handlerBuf, served>>
responseVars == <<told, toClient, clientBuf, heard>>
endVars == <<handler, tui, reader>>
vars == <<requestVars, responseVars, endVars, events>>

Init ==
    /\ asked = 0 /\ toDaemon = << >> /\ handlerBuf = 0 /\ served = << >>
    /\ told = << >> /\ toClient = << >> /\ clientBuf = 0 /\ heard = << >>
    /\ handler = "serving" /\ tui = "open" /\ reader = "reading" /\ events = 0

\* A line of which so many pieces are to be read; the rest was never written if
\* its writer was killed.  (A line that lacks only its newline at the end of the
\* stream parses: it counts as written whole.)
Line(content, pieces, left) == [content |-> content, pieces |-> pieces, left |-> left]

\* IpcWriter::write
Written(lines, content, pieces) == Append(lines, Line(content, pieces, pieces))

-----------------------------------------------------------------------------
(* The TUI writes.                                                         *)

\* A request written after the handler has ended is an error nobody looks at.
Ask ==
    /\ tui = "open" /\ handler = "serving" /\ asked < MaxRequests
    /\ asked' = asked + 1
    /\ \E pieces \in 1..MaxPieces : toDaemon' = Written(toDaemon, asked', pieces)
    /\ UNCHANGED <<handlerBuf, served, responseVars, endVars, events>>

CloseTui == tui' = "closed" /\ UNCHANGED <<handler, reader>>

Quit ==
    /\ tui = "open" /\ CloseTui
    /\ UNCHANGED <<requestVars, responseVars, events>>

\* Killed in the middle of a write.
TuiKilled ==
    /\ tui = "open" /\ CloseTui
    /\ \E pieces \in 1..MaxPieces : \E left \in 1..(pieces - 1) :
        toDaemon' = Append(toDaemon, Line(asked + 1, pieces, left))
    /\ UNCHANGED <<asked, handlerBuf, served, responseVars, events>>

-----------------------------------------------------------------------------
(* handle_client.                                                          *)

EndHandler == handler' = "ended" /\ UNCHANGED <<tui, reader>>

Tell(content) ==
    /\ \E pieces \in 1..MaxPieces : toClient' = Written(toClient, content, pieces)
    /\ told' = Append(told, content)
    /\ UNCHANGED <<clientBuf, heard>>

\* read_line consumes a piece; the line goes on.
HandlerReads ==
    /\ handler = "serving" /\ toDaemon # << >>
    /\ Head(toDaemon).left > 1
    /\ toDaemon' = [toDaemon EXCEPT ![1].left = @ - 1]
    /\ handlerBuf' = handlerBuf + 1
    /\ UNCHANGED <<asked, served, responseVars, endVars, events>>

\* Mutant: line_buf is not cleared for the next line.
LineEndsUncleared ==
    /\ handler = "serving" /\ toDaemon # << >>
    /\ Head(toDaemon).left = 1
    /\ toDaemon' = Tail(toDaemon) /\ handlerBuf' = handlerBuf + 1

LineEnds ==
    /\ handler = "serving" /\ toDaemon # << >>
    /\ Head(toDaemon).left = 1
    /\ toDaemon' = Tail(toDaemon) /\ handlerBuf' = 0

\* The whole line is in the buffer: it is parsed, handled and replied to.
HandlerServes ==
    /\ LineEnds
    /\ handlerBuf + 1 = Head(toDaemon).pieces
    /\ served' = Append(served, Head(toDaemon).content)
    /\ Tell(Head(toDaemon).content)
    /\ UNCHANGED <<asked, endVars, events>>

\* Mutant: the handler goes on after a line it cannot parse.
HandlerRejectsOn ==
    /\ LineEnds
    /\ handlerBuf + 1 # Head(toDaemon).pieces
    /\ UNCHANGED <<asked, served, responseVars, endVars, events>>

\* Part of a JSON object is none: Err(Deserialize) ends the handler.
HandlerRejects ==
    /\ LineEnds
    /\ handlerBuf + 1 # Head(toDaemon).pieces
    /\ EndHandler
    /\ UNCHANGED <<asked, served, responseVars, events>>

\* The event branch wins: the read is dropped with the pieces it holds.  A raw
\* packet or a lag is not pushed.
HandlerEvent ==
    /\ handler = "serving" /\ events < MaxEvents
    /\ events' = events + 1
    /\ handlerBuf' = 0
    /\ Tell(0) \/ UNCHANGED responseVars
    /\ UNCHANGED <<asked, toDaemon, served, endVars>>

HandlerEof ==
    /\ handler = "serving" /\ tui = "closed" /\ toDaemon = << >>
    /\ EndHandler
    /\ UNCHANGED <<requestVars, responseVars, events>>

\* The daemon is killed in the middle of a write, or between two.
DaemonKilled ==
    /\ handler = "serving" /\ EndHandler
    /\ \/ \E pieces \in 1..MaxPieces : \E left \in 1..(pieces - 1) :
            toClient' = Append(toClient, Line(0, pieces, left))
       \/ UNCHANGED toClient
    /\ UNCHANGED <<requestVars, told, clientBuf, heard, events>>

-----------------------------------------------------------------------------
(* The reader task of the TUI.                                             *)

\* Mutant: every read begins by dropping what the last one had read.
ReaderReadsCleared ==
    /\ reader = "reading" /\ tui = "open" /\ toClient # << >>
    /\ Head(toClient).left > 1
    /\ toClient' = [toClient EXCEPT ![1].left = @ - 1]
    /\ clientBuf' = 0
    /\ UNCHANGED <<told, heard, requestVars, endVars, events>>

ReaderReads ==
    /\ reader = "reading" /\ tui = "open" /\ toClient # << >>
    /\ Head(toClient).left > 1
    /\ toClient' = [toClient EXCEPT ![1].left = @ - 1]
    /\ clientBuf' = clientBuf + 1
    /\ UNCHANGED <<told, heard, requestVars, endVars, events>>

\* A line that does not parse is reported, and reading goes on.
ReaderEndsLine ==
    /\ reader = "reading" /\ tui = "open" /\ toClient # << >>
    /\ Head(toClient).left = 1
    /\ toClient' = Tail(toClient) /\ clientBuf' = 0
    /\ heard' = IF clientBuf + 1 = Head(toClient).pieces
                THEN Append(heard, Head(toClient).content)
                ELSE heard
    /\ UNCHANGED <<told, requestVars, endVars, events>>

ReaderEof ==
    /\ reader = "reading" /\ handler = "ended" /\ toClient = << >>
    /\ reader' = "ended"
    /\ UNCHANGED <<requestVars, responseVars, handler, tui, events>>

Handler == HandlerReads \/ HandlerServes \/ HandlerRejects \/ HandlerEof
Reader == ReaderReads \/ ReaderEndsLine \/ ReaderEof

Next ==
    \/ Ask \/ Quit \/ TuiKilled
    \/ Handler \/ HandlerEvent \/ DaemonKilled
    \/ Reader

Spec == Init /\ [][Next]_vars /\ WF_vars(Handler) /\ WF_vars(Reader)

-----------------------------------------------------------------------------
IsLine(line) ==
    /\ line.pieces \in 1..MaxPieces /\ line.left \in 1..line.pieces
    /\ line.content \in 0..(MaxRequests + 1)

TypeOK ==
    /\ asked \in 0..MaxRequests /\ events \in 0..MaxEvents
    /\ \A n \in 1..Len(toDaemon) : IsLine(toDaemon[n])
    /\ \A n \in 1..Len(toClient) : IsLine(toClient[n])
    /\ toDaemon # << >> => handlerBuf + Head(toDaemon).left <= Head(toDaemon).pieces
    /\ toClient # << >> => clientBuf + Head(toClient).left <= Head(toClient).pieces

(***************************************************************************)
(* However often an event interrupts the reading of a request, the handler *)
(* never goes on past one it has lost: what it has served are the first    *)
(* requests that were written, each once.                                  *)
(***************************************************************************)
ServedInOrder == Len(served) <= asked /\ served = [n \in 1..Len(served) |-> n]

(***************************************************************************)
(* A request whose beginning was lost ends the connection: every one that  *)
(* was written is served, or the handler ends.                             *)
(***************************************************************************)
ServedOrClosed ==
    \A n \in 1..MaxRequests :
        asked >= n ~> Len(served) >= n \/ handler = "ended"

(***************************************************************************)
(* For the TUI, whose read is never dropped, the socket is a stream: every *)
(* line the daemon has written whole is handed on once and in order, as    *)
(* long as the TUI is there, even after the daemon has ended.              *)
(***************************************************************************)
Stream == INSTANCE PacketStream WITH
    Packets <- 0..MaxRequests, sent <- told, delivered <- heard
StreamToTui == Stream!SafeSpec

\* Nothing the daemon has written whole stays unread for ever.
AllHeard == []<>(heard = told \/ tui = "closed")
=============================================================================
