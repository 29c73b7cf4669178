--------------------------- MODULE IpcLinesProofs ---------------------------
(***************************************************************************)
(* For any number of requests, events and pieces per line: the handler     *)
(* serves what was written, in order, and to the TUI the socket is a       *)
(* stream.                                                                 *)
(*                                                                         *)
(* While the handler serves, the lines it has not read are numbered from   *)
(* the next request on, and only the last of them can be one that its      *)
(* writer did not finish.  The lines to the TUI that the reader has not    *)
(* read are the rest of what was told, again up to an unfinished one.      *)
(***************************************************************************)
EXTENDS IpcLines, TLAPS

LineT == [content: 0..(MaxRequests + 1), pieces: 1..MaxPieces, left: 1..MaxPieces]

\* What is in the buffer and what is left of the line being read are no more than it.
Fits(lines, buf) ==
    /\ lines = << >> => buf = 0
    /\ \A n \in 1..Len(lines) : lines[n].left <= lines[n].pieces
    /\ lines # << >> => buf + lines[1].left <= lines[1].pieces

Unfinished(lines, buf, n) == lines[n].left + (IF n = 1 THEN buf ELSE 0) < lines[n].pieces

\* The lines to come are the requests from the next one on.
Numbered(lines, done) == \A n \in 1..Len(lines) : lines[n].content = done + n

\* They are all that were written, or those and one that was not finished.
Rest(lines, buf, done, written, closed) ==
    \/ done + Len(lines) = written
    \/ /\ done + Len(lines) = written + 1
       /\ closed /\ lines # << >> /\ Unfinished(lines, buf, Len(lines))

RequestType ==
    /\ asked \in 0..MaxRequests /\ served \in Seq(Nat)
    /\ toDaemon \in Seq(LineT) /\ handlerBuf \in Nat /\ Fits(toDaemon, handlerBuf)

Pending ==
    handler = "serving" =>
        /\ Numbered(toDaemon, Len(served))
        /\ Rest(toDaemon, handlerBuf, Len(served), asked, tui = "closed")

RequestInv == RequestType /\ ServedInOrder /\ Pending

\* What is read is a beginning of what was told, and the rest is on its way.
Carried(lines, buf, done, all) ==
    \A n \in 1..Len(lines) : done + n <= Len(all) =>
        ~Unfinished(lines, buf, n) /\ lines[n].content = all[done + n]

ResponseType ==
    /\ told \in Seq(0..MaxRequests) /\ heard \in Seq(0..MaxRequests)
    /\ toClient \in Seq(LineT) /\ clientBuf \in Nat /\ Fits(toClient, clientBuf)

HeardInOrder == Len(heard) <= Len(told) /\ \A n \in 1..Len(heard) : heard[n] = told[n]

Coming ==
    /\ Rest(toClient, clientBuf, Len(heard), Len(told), handler = "ended")
    /\ Carried(toClient, clientBuf, Len(heard), told)

ResponseInv == ResponseType /\ HeardInOrder /\ Coming

-----------------------------------------------------------------------------
(* A queue of lines, and what the steps do to it.                          *)

LEMMA LineAppended ==
    ASSUME NEW lines \in Seq(LineT), NEW buf \in Nat, Fits(lines, buf),
           NEW line \in LineT, line.left <= line.pieces
    PROVE  LET l == Append(lines, line)
           IN  /\ l \in Seq(LineT) /\ Fits(l, buf) /\ l # << >>
               /\ Len(l) = Len(lines) + 1 /\ l[Len(l)] = line
               /\ \A n \in 1..Len(lines) : l[n] = lines[n]
  <1>. DEFINE l == Append(lines, line)
  <1>1. /\ l \in Seq(LineT) /\ Len(l) = Len(lines) + 1 /\ l # << >>
        /\ l[Len(lines) + 1] = line /\ \A n \in 1..Len(lines) : l[n] = lines[n]
    OBVIOUS
  <1>2. Len(lines) \in Nat /\ \A n \in 1..Len(lines) : lines[n] \in LineT
    OBVIOUS
  <1>3. CASE lines = << >>
    BY <1>1, <1>3 DEF Fits, LineT
  <1>4. CASE lines # << >>
    <2>1. l[1] = lines[1]
      BY <1>1, <1>2, <1>4
    <2>2. \A n \in 1..Len(l) : l[n].left <= l[n].pieces
      BY <1>1, <1>2 DEF Fits
    <2>3. QED
      BY <1>1, <1>4, <2>1, <2>2 DEF Fits
  <1>5. QED
    BY <1>1, <1>3, <1>4

LEMMA PieceRead ==
    ASSUME NEW lines \in Seq(LineT), NEW buf \in Nat, Fits(lines, buf),
           lines # << >>, Head(lines).left > 1
    PROVE  LET l == [lines EXCEPT ![1].left = @ - 1]
           IN  /\ l \in Seq(LineT) /\ Len(l) = Len(lines) /\ l # << >>
               /\ Fits(l, buf + 1) /\ Fits(l, 0)
               /\ \A n \in 1..Len(lines) :
                    /\ l[n].content = lines[n].content
                    /\ Unfinished(l, buf + 1, n) <=> Unfinished(lines, buf, n)
  <1>1. Len(lines) \in Nat \ {0} /\ lines[1] \in LineT /\ lines[1].left > 1
    <2>1. Len(lines) \in Nat \ {0}
      OBVIOUS
    <2>2. lines[1] \in LineT
      OBVIOUS
    <2>3. Head(lines) = lines[1]
      OBVIOUS
    <2>4. QED
      BY <2>1, <2>2, <2>3
  <1>. DEFINE l == [lines EXCEPT ![1].left = @ - 1]
  <1>2. l \in [1..Len(lines) -> LineT]
    <2>1. [lines[1] EXCEPT !.left = @ - 1] \in LineT
      <3>1. lines[1].left - 1 \in 1..MaxPieces
        BY <1>1, IpcLinesAssumption DEF LineT
      <3>2. QED
        BY <1>1, <3>1 DEF LineT
    <2>2. \A n \in 1..Len(lines) : lines[n] \in LineT
      OBVIOUS
    <2>3. l = [n \in 1..Len(lines) |->
                IF n = 1 THEN [lines[1] EXCEPT !.left = @ - 1] ELSE lines[n]]
      OBVIOUS
    <2>4. QED
      BY <2>1, <2>2, <2>3
  <1>3. l \in Seq(LineT) /\ Len(l) = Len(lines) /\ l # << >>
    BY <1>1, <1>2
  <1>4. /\ l[1].content = lines[1].content /\ l[1].pieces = lines[1].pieces
        /\ l[1].left = lines[1].left - 1
        /\ \A n \in 2..Len(lines) : l[n] = lines[n]
    BY <1>1 DEF LineT
  <1>5. \A n \in 1..Len(lines) : lines[n] \in LineT
    OBVIOUS
  <1>6. Fits(l, buf + 1) /\ Fits(l, 0)
    BY <1>1, <1>3, <1>4, <1>5 DEF Fits, LineT
  <1>7. ASSUME NEW n \in 1..Len(lines)
        PROVE  /\ l[n].content = lines[n].content
               /\ Unfinished(l, buf + 1, n) <=> Unfinished(lines, buf, n)
    BY <1>1, <1>4, <1>5 DEF Unfinished, LineT
  <1>8. QED
    BY <1>3, <1>6, <1>7

LEMMA LineRead ==
    ASSUME NEW lines \in Seq(LineT), NEW buf \in Nat, Fits(lines, buf), lines # << >>
    PROVE  LET l == Tail(lines)
           IN  /\ l \in Seq(LineT) /\ Len(l) = Len(lines) - 1 /\ Fits(l, 0)
               /\ \A n \in 1..Len(l) :
                    /\ l[n] = lines[n + 1]
                    /\ Unfinished(l, 0, n) <=> Unfinished(lines, buf, n + 1)
  <1>. DEFINE l == Tail(lines)
  <1>1. l \in Seq(LineT) /\ Len(l) = Len(lines) - 1 /\ \A n \in 1..Len(l) : l[n] = lines[n + 1]
    OBVIOUS
  <1>2. \A n \in 1..Len(lines) : lines[n] \in LineT
    OBVIOUS
  <1>3. Fits(l, 0)
    BY <1>1, <1>2 DEF Fits, LineT
  <1>4. ASSUME NEW n \in 1..Len(l) PROVE Unfinished(l, 0, n) <=> Unfinished(lines, buf, n + 1)
    BY <1>1, <1>2 DEF Unfinished, LineT
  <1>5. QED
    BY <1>1, <1>3, <1>4

-----------------------------------------------------------------------------
(* The requests.                                                           *)

LEMMA LenIsNat == ASSUME NEW S, NEW s \in Seq(S) PROVE Len(s) \in Nat
  OBVIOUS

LEMMA ElementInSeq == ASSUME NEW S, NEW s \in Seq(S), NEW n \in 1..Len(s) PROVE s[n] \in S
  OBVIOUS

LEMMA NumberedAppended ==
    ASSUME NEW lines \in Seq(LineT), NEW done \in Nat, Numbered(lines, done),
           NEW l \in Seq(LineT), Len(l) = Len(lines) + 1,
           \A n \in 1..Len(lines) : l[n] = lines[n],
           l[Len(l)].content = done + Len(lines) + 1
    PROVE  Numbered(l, done)
  <1>1. Len(lines) \in Nat
    OBVIOUS
  <1>2. SUFFICES ASSUME NEW n \in 1..Len(l) PROVE l[n].content = done + n
    BY DEF Numbered
  <1>3. CASE n = Len(l)
    <2>1. done + n = done + Len(lines) + 1
      BY <1>1, <1>3
    <2>2. QED
      BY <1>3, <2>1
  <1>4. CASE n # Len(l)
    <2>1. n \in 1..Len(lines)
      BY <1>1, <1>4
    <2>2. QED
      BY <2>1 DEF Numbered
  <1>5. QED
    BY <1>3, <1>4

LEMMA NumberedRead ==
    ASSUME NEW lines \in Seq(LineT), NEW done \in Nat, Numbered(lines, done),
           NEW l \in Seq(LineT), Len(l) = Len(lines) - 1,
           \A n \in 1..Len(l) : l[n] = lines[n + 1]
    PROVE  Numbered(l, done + 1)
  <1>1. Len(lines) \in Nat /\ Len(l) \in Nat
    OBVIOUS
  <1>2. SUFFICES ASSUME NEW n \in 1..Len(l) PROVE l[n].content = (done + 1) + n
    BY DEF Numbered
  <1>3. n + 1 \in 1..Len(lines)
    BY <1>1
  <1>4. lines[n + 1].content = done + (n + 1)
    BY <1>3 DEF Numbered
  <1>5. done + (n + 1) = (done + 1) + n
    OBVIOUS
  <1>6. QED
    BY <1>4, <1>5

LEMMA AskKeeps ==
    ASSUME RequestInv, Ask PROVE RequestInv'
  <1>1. PICK pieces \in 1..MaxPieces : toDaemon' = Append(toDaemon, Line(asked', pieces, pieces))
    BY DEF Ask, Written
  <1>2. PICK line : line = Line(asked', pieces, pieces)
    OBVIOUS
  <1>3. asked \in Nat /\ asked' = asked + 1 /\ asked' \in 0..MaxRequests
    BY IpcLinesAssumption DEF RequestInv, RequestType, Ask
  <1>4. line \in LineT /\ line.left <= line.pieces /\ line.content = asked + 1
    BY <1>2, <1>3, IpcLinesAssumption DEF LineT, Line
  <1>5. /\ toDaemon' \in Seq(LineT) /\ Fits(toDaemon', handlerBuf)
        /\ Len(toDaemon') = Len(toDaemon) + 1 /\ toDaemon'[Len(toDaemon')] = line
        /\ \A n \in 1..Len(toDaemon) : toDaemon'[n] = toDaemon[n]
    BY <1>1, <1>2, <1>4, LineAppended DEF RequestInv, RequestType
  <1>6. Len(toDaemon) \in Nat /\ Len(served) \in Nat
    BY LenIsNat DEF RequestInv, RequestType
  <1>7. UNCHANGED <<handlerBuf, served, handler, tui>> /\ handler = "serving" /\ tui = "open"
    BY DEF Ask, endVars
  <1>8. Len(served) + Len(toDaemon) = asked /\ Numbered(toDaemon, Len(served))
    BY <1>7 DEF RequestInv, Pending, Rest
  <1>9. Numbered(toDaemon', Len(served))
    <2>1. toDaemon'[Len(toDaemon')].content = Len(served) + Len(toDaemon) + 1
      BY <1>4, <1>5, <1>8
    <2>2. toDaemon \in Seq(LineT)
      BY DEF RequestInv, RequestType
    <2>3. QED
      BY <1>5, <1>6, <1>8, <2>1, <2>2, NumberedAppended
  <1>10. Rest(toDaemon', handlerBuf, Len(served), asked', FALSE)
    BY <1>3, <1>5, <1>6, <1>8 DEF Rest
  <1>11. RequestType'
    BY <1>3, <1>5, <1>7 DEF RequestInv, RequestType
  <1>12. ServedInOrder'
    BY <1>3, <1>6, <1>7 DEF RequestInv, ServedInOrder
  <1>13. Pending'
    BY <1>3, <1>7, <1>9, <1>10 DEF Pending, Rest
  <1>14. QED
    BY <1>11, <1>12, <1>13 DEF RequestInv

LEMMA TuiKilledKeeps ==
    ASSUME RequestInv, TuiKilled PROVE RequestInv'
  <1>0. PICK pieces \in 1..MaxPieces : \E left \in 1..(pieces - 1) :
            toDaemon' = Append(toDaemon, Line(asked + 1, pieces, left))
    BY DEF TuiKilled
  <1>1. PICK left \in 1..(pieces - 1) :
            toDaemon' = Append(toDaemon, Line(asked + 1, pieces, left))
    BY <1>0
  <1>2. PICK line : line = Line(asked + 1, pieces, left)
    OBVIOUS
  <1>3. asked \in 0..MaxRequests /\ asked \in Nat
    BY IpcLinesAssumption DEF RequestInv, RequestType
  <1>4. /\ line \in LineT /\ line.left < line.pieces /\ line.left <= line.pieces
        /\ line.content = asked + 1 /\ line.left \in Nat /\ line.pieces \in Nat
    BY <1>2, <1>3, IpcLinesAssumption DEF LineT, Line
  <1>5. /\ toDaemon' \in Seq(LineT) /\ Fits(toDaemon', handlerBuf) /\ toDaemon' # << >>
        /\ Len(toDaemon') = Len(toDaemon) + 1 /\ toDaemon'[Len(toDaemon')] = line
        /\ \A n \in 1..Len(toDaemon) : toDaemon'[n] = toDaemon[n]
    BY <1>1, <1>2, <1>4, LineAppended DEF RequestInv, RequestType
  <1>6. /\ Len(toDaemon) \in Nat /\ Len(served) \in Nat /\ handlerBuf \in Nat
        /\ toDaemon = << >> => handlerBuf = 0 /\ Len(toDaemon) = 0
        /\ Len(toDaemon) = 0 => toDaemon = << >>
    BY LenIsNat DEF RequestInv, RequestType, Fits
  <1>7. UNCHANGED <<asked, handlerBuf, served, handler>> /\ tui = "open" /\ tui' = "closed"
    BY DEF TuiKilled, CloseTui
  <1>8. handler = "serving" =>
            Len(served) + Len(toDaemon) = asked /\ Numbered(toDaemon, Len(served))
    BY <1>7 DEF RequestInv, Pending, Rest
  <1>9. handler = "serving" => Numbered(toDaemon', Len(served))
    <2>1. SUFFICES ASSUME handler = "serving" PROVE Numbered(toDaemon', Len(served))
      OBVIOUS
    <2>2. toDaemon'[Len(toDaemon')].content = Len(served) + Len(toDaemon) + 1
      BY <1>4, <1>5, <1>8, <2>1
    <2>3. toDaemon \in Seq(LineT)
      BY DEF RequestInv, RequestType
    <2>4. QED
      BY <1>5, <1>6, <1>8, <2>1, <2>2, <2>3, NumberedAppended
  <1>10. Unfinished(toDaemon', handlerBuf, Len(toDaemon'))
    BY <1>4, <1>5, <1>6 DEF Unfinished
  <1>11. RequestType'
    BY <1>3, <1>5, <1>7 DEF RequestInv, RequestType
  <1>12. ServedInOrder'
    BY <1>7 DEF RequestInv, ServedInOrder
  <1>13. Pending'
    BY <1>3, <1>5, <1>6, <1>7, <1>8, <1>9, <1>10 DEF Pending, Rest
  <1>14. QED
    BY <1>11, <1>12, <1>13 DEF RequestInv

LEMMA HandlerReadsKeeps ==
    ASSUME RequestInv, HandlerReads PROVE RequestInv'
  <1>1. /\ toDaemon' \in Seq(LineT) /\ Len(toDaemon') = Len(toDaemon) /\ toDaemon' # << >>
        /\ Fits(toDaemon', handlerBuf')
        /\ \A n \in 1..Len(toDaemon) :
            /\ toDaemon'[n].content = toDaemon[n].content
            /\ Unfinished(toDaemon', handlerBuf', n) <=> Unfinished(toDaemon, handlerBuf, n)
    BY PieceRead DEF RequestInv, RequestType, HandlerReads
  <1>2. /\ toDaemon # << >> /\ handlerBuf' = handlerBuf + 1
        /\ UNCHANGED <<asked, served, handler, tui>>
    BY DEF HandlerReads, endVars
  <1>3. Len(toDaemon) \in 1..Len(toDaemon)
    BY <1>2 DEF RequestInv, RequestType
  <1>4. RequestType'
    BY <1>1, <1>2 DEF RequestInv, RequestType
  <1>5. Numbered(toDaemon, Len(served)) => Numbered(toDaemon', Len(served))
    BY <1>1 DEF Numbered
  <1>6. Rest(toDaemon, handlerBuf, Len(served), asked, tui = "closed") =>
            Rest(toDaemon', handlerBuf', Len(served), asked, tui = "closed")
    BY <1>1, <1>3 DEF Rest
  <1>7. Pending'
    BY <1>2, <1>5, <1>6 DEF RequestInv, Pending
  <1>8. QED
    BY <1>2, <1>4, <1>7 DEF RequestInv, ServedInOrder

\* The event branch drops the pieces read: what was unfinished stays so.
LEMMA HandlerEventKeeps ==
    ASSUME RequestInv, HandlerEvent PROVE RequestInv'
  <1>1. UNCHANGED <<asked, toDaemon, served, handler, tui>> /\ handlerBuf' = 0
    BY DEF HandlerEvent, endVars
  <1>2. \A n \in 1..Len(toDaemon) : toDaemon[n] \in LineT
    BY DEF RequestInv, RequestType
  <1>3. Fits(toDaemon, 0)
    <2>1. toDaemon # << >> => 1 \in 1..Len(toDaemon)
      BY DEF RequestInv, RequestType
    <2>2. toDaemon # << >> => toDaemon[1].left <= toDaemon[1].pieces /\ toDaemon[1].left \in Nat
      BY <1>2, <2>1 DEF RequestInv, RequestType, Fits, LineT
    <2>3. QED
      BY <2>2 DEF RequestInv, RequestType, Fits
  <1>4. ASSUME NEW n \in 1..Len(toDaemon), Unfinished(toDaemon, handlerBuf, n)
        PROVE  Unfinished(toDaemon, 0, n)
    BY <1>2, <1>4 DEF RequestInv, RequestType, Unfinished, LineT
  <1>5. toDaemon # << >> => Len(toDaemon) \in 1..Len(toDaemon)
    BY DEF RequestInv, RequestType
  <1>6. Rest(toDaemon, handlerBuf, Len(served), asked, tui = "closed") =>
            Rest(toDaemon, 0, Len(served), asked, tui = "closed")
    BY <1>4, <1>5 DEF Rest
  <1>7. RequestType'
    BY <1>1, <1>3 DEF RequestInv, RequestType
  <1>8. Pending'
    BY <1>1, <1>6 DEF RequestInv, Pending
  <1>9. QED
    BY <1>1, <1>7, <1>8 DEF RequestInv, ServedInOrder

\* Served or not, the line that ended was the next request, or an unfinished one.
LEMMA HandlerLineKeeps ==
    ASSUME RequestInv, HandlerServes \/ HandlerRejects
    PROVE  RequestInv' /\ (HandlerServes => Head(toDaemon).content \in 0..MaxRequests)
  <1>1. /\ toDaemon # << >> /\ Head(toDaemon) = toDaemon[1] /\ toDaemon[1].left = 1
        /\ toDaemon' = Tail(toDaemon) /\ handlerBuf' = 0 /\ handler = "serving"
        /\ toDaemon[1] \in LineT
    BY DEF RequestInv, RequestType, HandlerServes, HandlerRejects, LineEnds
  <1>2. /\ toDaemon' \in Seq(LineT) /\ Len(toDaemon') = Len(toDaemon) - 1 /\ Fits(toDaemon', 0)
        /\ \A n \in 1..Len(toDaemon') :
            /\ toDaemon'[n] = toDaemon[n + 1]
            /\ Unfinished(toDaemon', 0, n) <=> Unfinished(toDaemon, handlerBuf, n + 1)
    BY <1>1, LineRead DEF RequestInv, RequestType
  <1>3. /\ asked \in 0..MaxRequests /\ asked \in Nat /\ Len(served) \in Nat
        /\ Len(toDaemon) \in Nat \ {0} /\ Len(toDaemon') \in Nat /\ served \in Seq(Nat)
        /\ Len(toDaemon') = 0 <=> toDaemon' = << >>
        /\ handlerBuf \in Nat
    <2>1. asked \in 0..MaxRequests /\ asked \in Nat /\ served \in Seq(Nat) /\ handlerBuf \in Nat
      BY IpcLinesAssumption DEF RequestInv, RequestType
    <2>2. Len(served) \in Nat
      BY <2>1, LenIsNat
    <2>3. toDaemon \in Seq(LineT)
      BY DEF RequestInv, RequestType
    <2>4. Len(toDaemon) \in Nat \ {0}
      BY <1>1, <2>3
    <2>5. Len(toDaemon') \in Nat /\ (Len(toDaemon') = 0 <=> toDaemon' = << >>)
      BY <1>2
    <2>6. QED
      BY <2>1, <2>2, <2>4, <2>5
  <1>4. CASE HandlerRejects
    <2>1. asked' = asked /\ served' = served /\ handler' = "ended"
      BY <1>4 DEF HandlerRejects, EndHandler
    <2>2. RequestType'
      BY <1>1, <1>2, <1>3, <2>1 DEF RequestType
    <2>3. ServedInOrder' /\ Pending'
      BY <2>1 DEF RequestInv, ServedInOrder, Pending
    <2>4. ~HandlerServes
      BY <1>4 DEF HandlerServes, HandlerRejects
    <2>5. QED
      BY <2>2, <2>3, <2>4 DEF RequestInv
  <1>5. CASE HandlerServes
    <2>1. ~Unfinished(toDaemon, handlerBuf, 1)
      BY <1>1, <1>3, <1>5 DEF LineT, HandlerServes, Unfinished
    <2>2. /\ Numbered(toDaemon, Len(served))
          /\ Rest(toDaemon, handlerBuf, Len(served), asked, tui = "closed")
      BY <1>1 DEF RequestInv, Pending
    <2>3. Len(served) + 1 <= asked
      BY <1>3, <2>1, <2>2 DEF Rest
    <2>4. toDaemon[1].content = Len(served) + 1
      BY <1>3, <2>2 DEF Numbered
    <2>5. served' = Append(served, Len(served) + 1)
      BY <1>1, <1>5, <2>4 DEF HandlerServes
    <2>6. served' \in Seq(Nat) /\ Len(served') = Len(served) + 1
      BY <1>3, <2>5
    <2>7. served' = [n \in 1..Len(served') |-> n]
      BY <1>3, <2>5, <2>6 DEF RequestInv, ServedInOrder
    <2>8. asked' = asked /\ tui' = tui /\ handler' = handler
      BY <1>5 DEF HandlerServes, endVars
    <2>9. Numbered(toDaemon', Len(served'))
      <3>1. toDaemon \in Seq(LineT)
        BY DEF RequestInv, RequestType
      <3>2. Numbered(toDaemon', Len(served) + 1)
        BY <1>2, <1>3, <2>2, <3>1, NumberedRead
      <3>3. QED
        BY <2>6, <3>2
    <2>10. Rest(toDaemon', 0, Len(served'), asked, tui = "closed")
      <3>1. CASE Len(served) + Len(toDaemon) = asked
        <4>1. Len(toDaemon) \in Nat /\ Len(served) \in Nat /\ Len(toDaemon') = Len(toDaemon) - 1
          BY <1>2, <1>3
        <4>2. Len(served') + Len(toDaemon') = asked
          BY <2>6, <3>1, <4>1
        <4>3. QED
          BY <4>2 DEF Rest
      <3>2. CASE /\ Len(served) + Len(toDaemon) = asked + 1
                 /\ tui = "closed" /\ Unfinished(toDaemon, handlerBuf, Len(toDaemon))
        <4>1. Len(toDaemon) # 1
          BY <2>1, <3>2
        <4>2. /\ Len(toDaemon') \in 1..Len(toDaemon') /\ Len(toDaemon') + 1 = Len(toDaemon)
              /\ toDaemon' # << >>
          BY <1>2, <1>3, <4>1
        <4>3. Unfinished(toDaemon', 0, Len(toDaemon'))
          BY <1>2, <3>2, <4>2
        <4>4. Len(served') + Len(toDaemon') = asked + 1
          <5>1. PICK a \in Nat, b \in Nat :
                   a = Len(served) /\ b = Len(toDaemon') /\ a + 1 = Len(served') /\ b + 1 = Len(toDaemon)
            BY <1>3, <2>6, <4>2
          <5>2. (a + 1) + b = a + (b + 1)
            BY ONLY a \in Nat, b \in Nat
          <5> QED BY <3>2, <5>1, <5>2
        <4>5. QED
          BY <3>2, <4>2, <4>3, <4>4 DEF Rest
      <3>3. QED
        BY <2>2, <3>1, <3>2 DEF Rest
    <2>11. RequestType'
      BY <1>1, <1>2, <1>3, <2>6, <2>8 DEF RequestType
    <2>12. ServedInOrder'
      BY <1>3, <2>3, <2>6, <2>7, <2>8 DEF ServedInOrder
    <2>13. Pending'
      BY <1>1, <2>8, <2>9, <2>10 DEF Pending
    <2>14. QED
      BY <1>1, <1>3, <2>3, <2>4, <2>11, <2>12, <2>13, IpcLinesAssumption DEF RequestInv
  <1>6. QED
    BY <1>4, <1>5

-----------------------------------------------------------------------------
(* The lines to the TUI.                                                   *)

LEMMA ResponsesLeft ==
    ASSUME ResponseInv, UNCHANGED responseVars, handler' \in {handler, "ended"}
    PROVE  ResponseInv'
  <1>1. ResponseType' /\ HeardInOrder'
    BY DEF ResponseInv, ResponseType, HeardInOrder, responseVars
  <1>2. Coming'
    BY DEF ResponseInv, Coming, Rest, responseVars
  <1>3. QED
    BY <1>1, <1>2 DEF ResponseInv

LEMMA CarriedAppended ==
    ASSUME NEW lines \in Seq(LineT), NEW buf \in Nat, NEW done \in Nat,
           NEW S, NEW all \in Seq(S), Carried(lines, buf, done, all),
           NEW l \in Seq(LineT), Len(l) = Len(lines) + 1,
           \A n \in 1..Len(lines) : l[n] = lines[n],
           NEW more \in Seq(S), Len(more) >= Len(all),
           \A n \in 1..Len(all) : more[n] = all[n],
           done + Len(lines) = Len(all),
           done + Len(l) <= Len(more) =>
                ~Unfinished(l, buf, Len(l)) /\ l[Len(l)].content = more[done + Len(l)]
    PROVE  Carried(l, buf, done, more)
  <1>1. Len(lines) \in Nat /\ Len(all) \in Nat /\ Len(more) \in Nat
    OBVIOUS
  <1>2. SUFFICES ASSUME NEW n \in 1..Len(l), done + n <= Len(more)
                 PROVE  ~Unfinished(l, buf, n) /\ l[n].content = more[done + n]
    BY DEF Carried
  <1>3. CASE n = Len(l)
    BY <1>2, <1>3
  <1>4. CASE n # Len(l)
    <2>1. n \in 1..Len(lines) /\ done + n \in 1..Len(all) /\ done + n <= Len(all)
      BY <1>1, <1>4
    <2>2. l[n] = lines[n] /\ more[done + n] = all[done + n]
      BY <2>1
    <2>3. ~Unfinished(lines, buf, n) /\ lines[n].content = all[done + n]
      BY <2>1 DEF Carried
    <2>4. QED
      BY <2>2, <2>3 DEF Unfinished
  <1>5. QED
    BY <1>3, <1>4

LEMMA TellKeeps ==
    ASSUME ResponseInv, handler = "serving", handler' = handler,
           NEW content \in 0..MaxRequests, Tell(content)
    PROVE  ResponseInv'
  <1>1. PICK pieces \in 1..MaxPieces : toClient' = Append(toClient, Line(content, pieces, pieces))
    BY DEF Tell, Written
  <1>2. PICK line : line = Line(content, pieces, pieces)
    OBVIOUS
  <1>3. /\ line \in LineT /\ line.left <= line.pieces /\ line.content = content
        /\ line.left = line.pieces /\ line.pieces \in Nat
    BY <1>2, IpcLinesAssumption DEF LineT, Line
  <1>4. /\ told \in Seq(0..MaxRequests) /\ heard \in Seq(0..MaxRequests)
        /\ toClient \in Seq(LineT) /\ clientBuf \in Nat /\ Fits(toClient, clientBuf)
    BY DEF ResponseInv, ResponseType
  <1>5. /\ toClient' \in Seq(LineT) /\ Fits(toClient', clientBuf) /\ toClient' # << >>
        /\ Len(toClient') = Len(toClient) + 1 /\ toClient'[Len(toClient')] = line
        /\ \A n \in 1..Len(toClient) : toClient'[n] = toClient[n]
    BY <1>1, <1>2, <1>3, <1>4, LineAppended
  <1>6. Len(toClient) \in Nat /\ Len(told) \in Nat /\ Len(heard) \in Nat
    BY <1>4, LenIsNat
  <1>7. told' = Append(told, content) /\ UNCHANGED <<clientBuf, heard>>
    BY DEF Tell
  <1>8. /\ told' \in Seq(0..MaxRequests) /\ Len(told') = Len(told) + 1
        /\ told'[Len(told')] = content /\ \A n \in 1..Len(told) : told'[n] = told[n]
    BY <1>4, <1>7
  <1>9. Len(heard) + Len(toClient) = Len(told) /\ Carried(toClient, clientBuf, Len(heard), told)
    BY DEF ResponseInv, Coming, Rest
  <1>10. ~Unfinished(toClient', clientBuf, Len(toClient'))
    <2>1. CASE toClient = << >>
      BY <1>3, <1>4, <1>5, <2>1 DEF Unfinished, Fits
    <2>2. CASE toClient # << >>
      <3>1. Len(toClient') # 1
        BY <1>4, <1>5, <1>6, <2>2
      <3>2. QED
        BY <1>3, <1>5, <3>1 DEF Unfinished
    <2>3. QED
      BY <2>1, <2>2
  <1>11. Len(heard) + Len(toClient') = Len(told')
    <2>1. Len(toClient') = Len(toClient) + 1 /\ Len(told') = Len(told) + 1
      BY <1>5, <1>8
    <2>2. Len(heard) + Len(toClient) = Len(told)
      BY <1>9
    <2>3. QED
      BY <1>6, <2>1, <2>2
  <1>12. Carried(toClient', clientBuf, Len(heard), told')
    <2>1. toClient'[Len(toClient')].content = told'[Len(heard) + Len(toClient')]
      BY <1>3, <1>5, <1>8, <1>11
    <2>2. Len(told') >= Len(told)
      BY <1>6, <1>8
    <2>3. QED
      BY <1>4, <1>5, <1>6, <1>8, <1>9, <1>10, <2>1, <2>2, CarriedAppended
  <1>13. ResponseType'
    BY <1>4, <1>5, <1>7, <1>8 DEF ResponseType
  <1>14. HeardInOrder'
    <2>1. heard' = heard /\ HeardInOrder
      BY <1>7 DEF ResponseInv
    <2>2. Len(heard) <= Len(told')
      BY <1>6, <1>8, <2>1 DEF HeardInOrder
    <2>3. ASSUME NEW n \in 1..Len(heard) PROVE heard[n] = told'[n]
      <3>1. n \in 1..Len(told)
        BY <1>6, <2>1 DEF HeardInOrder
      <3>2. QED
        BY <1>8, <2>1, <3>1 DEF HeardInOrder
    <2>4. QED
      BY <2>1, <2>2, <2>3 DEF HeardInOrder
  <1>15. Coming'
    BY <1>7, <1>11, <1>12 DEF Coming, Rest
  <1>16. QED
    BY <1>13, <1>14, <1>15 DEF ResponseInv

LEMMA DaemonKilledKeeps ==
    ASSUME ResponseInv, DaemonKilled PROVE ResponseInv'
  <1>1. UNCHANGED <<told, clientBuf, heard>> /\ handler = "serving" /\ handler' = "ended"
    BY DEF DaemonKilled, EndHandler
  <1>2. CASE toClient' = toClient
    BY <1>1, <1>2, ResponsesLeft DEF responseVars
  <1>3. CASE \E pieces \in 1..MaxPieces : \E left \in 1..(pieces - 1) :
                toClient' = Append(toClient, Line(0, pieces, left))
    <2>0. PICK pieces \in 1..MaxPieces : \E left \in 1..(pieces - 1) :
                toClient' = Append(toClient, Line(0, pieces, left))
      BY <1>3
    <2>1. PICK left \in 1..(pieces - 1) : toClient' = Append(toClient, Line(0, pieces, left))
      BY <2>0
    <2>2. PICK line : line = Line(0, pieces, left)
      OBVIOUS
    <2>3. /\ line \in LineT /\ line.left < line.pieces /\ line.left <= line.pieces
          /\ line.left \in Nat /\ line.pieces \in Nat
      BY <2>2, IpcLinesAssumption DEF LineT, Line
    <2>4. /\ told \in Seq(0..MaxRequests) /\ heard \in Seq(0..MaxRequests)
          /\ toClient \in Seq(LineT) /\ clientBuf \in Nat /\ Fits(toClient, clientBuf)
      BY DEF ResponseInv, ResponseType
    <2>5. /\ toClient' \in Seq(LineT) /\ Fits(toClient', clientBuf) /\ toClient' # << >>
          /\ Len(toClient') = Len(toClient) + 1 /\ toClient'[Len(toClient')] = line
          /\ \A n \in 1..Len(toClient) : toClient'[n] = toClient[n]
      BY <2>1, <2>2, <2>3, <2>4, LineAppended
    <2>6. Len(toClient) \in Nat /\ Len(told) \in Nat /\ Len(heard) \in Nat
      BY <2>4, LenIsNat
    <2>7. Len(heard) + Len(toClient) = Len(told) /\ Carried(toClient, clientBuf, Len(heard), told)
      BY <1>1 DEF ResponseInv, Coming, Rest
    <2>8. Unfinished(toClient', clientBuf, Len(toClient'))
      <3>1. CASE toClient = << >>
        BY <2>3, <2>4, <2>5, <3>1 DEF Unfinished, Fits
      <3>2. CASE toClient # << >>
        <4>1. Len(toClient') # 1
          BY <2>4, <2>5, <2>6, <3>2
        <4>2. QED
          BY <2>3, <2>5, <4>1 DEF Unfinished
      <3>3. QED
        BY <3>1, <3>2
    <2>9. Len(heard) + Len(toClient') = Len(told) + 1
      BY <2>5, <2>6, <2>7
    <2>10. Carried(toClient', clientBuf, Len(heard), told)
      <3>1. ~(Len(heard) + Len(toClient') <= Len(told))
        BY <2>6, <2>9
      <3>2. Len(told) >= Len(told) /\ told \in Seq(0..MaxRequests)
        BY <2>4, <2>6
      <3>3. QED
        BY <2>4, <2>5, <2>6, <2>7, <3>1, <3>2, CarriedAppended
    <2>11. ResponseType' /\ HeardInOrder'
      BY <1>1, <2>4, <2>5 DEF ResponseInv, ResponseType, HeardInOrder
    <2>12. Coming'
      BY <1>1, <2>5, <2>8, <2>9, <2>10 DEF Coming, Rest
    <2>13. QED
      BY <2>11, <2>12 DEF ResponseInv
  <1>4. QED
    BY <1>2, <1>3 DEF DaemonKilled

LEMMA ReaderReadsKeeps ==
    ASSUME ResponseInv, ReaderReads PROVE ResponseInv'
  <1>1. /\ toClient' \in Seq(LineT) /\ Len(toClient') = Len(toClient) /\ toClient' # << >>
        /\ Fits(toClient', clientBuf')
        /\ \A n \in 1..Len(toClient) :
            /\ toClient'[n].content = toClient[n].content
            /\ Unfinished(toClient', clientBuf', n) <=> Unfinished(toClient, clientBuf, n)
    BY PieceRead DEF ResponseInv, ResponseType, ReaderReads
  <1>2. /\ toClient # << >> /\ clientBuf' = clientBuf + 1
        /\ UNCHANGED <<told, heard, handler>>
    BY DEF ReaderReads, endVars
  <1>3. Len(toClient) \in 1..Len(toClient)
    BY <1>2 DEF ResponseInv, ResponseType
  <1>4. ResponseType' /\ HeardInOrder'
    BY <1>1, <1>2 DEF ResponseInv, ResponseType, HeardInOrder
  <1>5. Rest(toClient', clientBuf', Len(heard), Len(told), handler = "ended")
    BY <1>1, <1>3 DEF ResponseInv, Coming, Rest
  <1>6. Carried(toClient', clientBuf', Len(heard), told)
    BY <1>1 DEF ResponseInv, Coming, Carried
  <1>7. QED
    BY <1>2, <1>4, <1>5, <1>6 DEF ResponseInv, Coming

\* A line that was written whole is handed on; one that was not, is the last.
LEMMA ReaderEndsLineKeeps ==
    ASSUME ResponseInv, ReaderEndsLine
    PROVE  /\ ResponseInv'
           /\ \/ heard' = heard
              \/ Len(heard) < Len(told) /\ heard' = Append(heard, told[Len(heard) + 1])
  <1>1. /\ told \in Seq(0..MaxRequests) /\ heard \in Seq(0..MaxRequests)
        /\ toClient \in Seq(LineT) /\ clientBuf \in Nat /\ Fits(toClient, clientBuf)
    BY DEF ResponseInv, ResponseType
  <1>2. /\ toClient # << >> /\ toClient' = Tail(toClient) /\ clientBuf' = 0
        /\ UNCHANGED <<told, handler>>
    BY DEF ReaderEndsLine, endVars
  <1>3. Head(toClient) = toClient[1] /\ toClient[1] \in LineT /\ toClient[1].left = 1
    BY <1>1, <1>2 DEF ReaderEndsLine
  <1>4. /\ toClient' \in Seq(LineT) /\ Len(toClient') = Len(toClient) - 1 /\ Fits(toClient', 0)
        /\ \A n \in 1..Len(toClient') :
            /\ toClient'[n] = toClient[n + 1]
            /\ Unfinished(toClient', 0, n) <=> Unfinished(toClient, clientBuf, n + 1)
    BY <1>1, <1>2, LineRead
  <1>5. Len(toClient) \in Nat \ {0}
    BY <1>1, <1>2
  <1>6. Len(told) \in Nat /\ Len(heard) \in Nat
    BY <1>1, LenIsNat
  <1>7. Unfinished(toClient, clientBuf, 1) <=> clientBuf + 1 # toClient[1].pieces
    BY <1>1, <1>2, <1>3 DEF Unfinished, Fits, LineT
  <1>8. /\ Rest(toClient, clientBuf, Len(heard), Len(told), handler = "ended")
        /\ Carried(toClient, clientBuf, Len(heard), told) /\ HeardInOrder
    BY DEF ResponseInv, Coming
  <1>9. Len(heard) < Len(told) =>
            ~Unfinished(toClient, clientBuf, 1) /\ toClient[1].content = told[Len(heard) + 1]
    <2>1. SUFFICES ASSUME Len(heard) < Len(told)
                   PROVE  /\ ~Unfinished(toClient, clientBuf, 1)
                          /\ toClient[1].content = told[Len(heard) + 1]
      OBVIOUS
    <2>2. 1 \in 1..Len(toClient) /\ Len(heard) + 1 <= Len(told)
      BY <1>5, <1>6, <2>1
    <2>3. QED
      BY <1>8, <2>2 DEF Carried
  <1>10. Len(heard) < Len(told) \/ (Len(heard) = Len(told) /\ Len(toClient) = 1)
    <2>1. \/ Len(heard) + Len(toClient) = Len(told)
          \/ Len(heard) + Len(toClient) = Len(told) + 1
      BY <1>8 DEF Rest
    <2>2. ASSUME NEW h \in Nat, NEW t \in Nat, NEW c \in Nat \ {0}, h + c = t \/ h + c = t + 1
          PROVE  h < t \/ (h = t /\ c = 1)
      BY <2>2
    <2>3. QED
      BY <1>5, <1>6, <2>1, <2>2
  <1>11. CASE Len(heard) < Len(told)
    <2>1. heard' = Append(heard, told[Len(heard) + 1])
      <3>1. clientBuf + 1 = Head(toClient).pieces
        BY <1>3, <1>7, <1>9, <1>11
      <3>2. heard' = Append(heard, Head(toClient).content)
        BY <3>1 DEF ReaderEndsLine
      <3>3. Head(toClient).content = told[Len(heard) + 1]
        BY <1>3, <1>9, <1>11
      <3>4. QED
        BY <3>2, <3>3
    <2>2. Len(heard) + 1 \in 1..Len(told)
      BY <1>6, <1>11
    <2>3. told[Len(heard) + 1] \in 0..MaxRequests
      <3>1. told \in Seq(0..MaxRequests)
        BY <1>1
      <3>2. QED
        BY <2>2, <3>1, ElementInSeq
    <2>4. /\ heard' \in Seq(0..MaxRequests) /\ Len(heard') = Len(heard) + 1
          /\ heard'[Len(heard) + 1] = told[Len(heard) + 1]
          /\ \A n \in 1..Len(heard) : heard'[n] = heard[n]
      BY <1>1, <2>1, <2>3
    <2>5. ASSUME NEW n \in 1..Len(heard') PROVE heard'[n] = told[n]
      <3>1. CASE n = Len(heard) + 1
        BY <2>4, <3>1
      <3>2. CASE n # Len(heard) + 1
        <4>1. n \in 1..Len(heard)
          BY <1>6, <2>4, <3>2
        <4>2. QED
          BY <1>8, <2>4, <4>1 DEF HeardInOrder
      <3>3. QED
        BY <3>1, <3>2
    <2>6. Len(heard') <= Len(told)
      BY <1>6, <1>11, <2>4
    <2>7. HeardInOrder'
      BY <1>2, <2>5, <2>6 DEF HeardInOrder
    <2>8. Rest(toClient', 0, Len(heard'), Len(told), handler = "ended")
      <3>1. Len(toClient') = Len(toClient) - 1 /\ Len(heard') = Len(heard) + 1
        BY <1>4, <2>4
      <3>2. CASE Len(heard) + Len(toClient) = Len(told)
        <4>1. Len(heard') + Len(toClient') = Len(told)
          BY <1>5, <1>6, <3>1, <3>2
        <4>2. QED
          BY <4>1 DEF Rest
      <3>3. CASE /\ Len(heard) + Len(toClient) = Len(told) + 1 /\ handler = "ended"
                 /\ Unfinished(toClient, clientBuf, Len(toClient))
        <4>1. Len(toClient) # 1
          BY <1>9, <1>11, <3>3
        <4>2. Len(toClient') \in 1..Len(toClient') /\ Len(toClient') + 1 = Len(toClient)
          BY <1>5, <3>1, <4>1
        <4>3. Unfinished(toClient', 0, Len(toClient')) /\ toClient' # << >>
          BY <1>4, <3>3, <4>2
        <4>4. Len(heard') + Len(toClient') = Len(told) + 1
          BY <1>5, <1>6, <3>1, <3>3
        <4>5. QED
          BY <3>3, <4>3, <4>4 DEF Rest
      <3>4. QED
        BY <1>8, <3>2, <3>3 DEF Rest
    <2>9. Carried(toClient', 0, Len(heard'), told)
      <3>1. SUFFICES ASSUME NEW n \in 1..Len(toClient'), Len(heard') + n <= Len(told)
                     PROVE  /\ ~Unfinished(toClient', 0, n)
                            /\ toClient'[n].content = told[Len(heard') + n]
        BY DEF Carried
      <3>2. Len(toClient') = Len(toClient) - 1 /\ Len(heard') = Len(heard) + 1 /\ n \in Nat
        BY <1>4, <2>4
      <3>3. /\ n + 1 \in 1..Len(toClient) /\ Len(heard) + (n + 1) <= Len(told)
            /\ Len(heard) + (n + 1) = Len(heard') + n
        BY <1>5, <1>6, <3>1, <3>2
      <3>4. /\ ~Unfinished(toClient, clientBuf, n + 1)
            /\ toClient[n + 1].content = told[Len(heard) + (n + 1)]
        BY <1>8, <3>3 DEF Carried
      <3>5. QED
        BY <1>4, <3>3, <3>4
    <2>10. ResponseType'
      BY <1>1, <1>2, <1>4, <2>4 DEF ResponseType
    <2>11. QED
      BY <1>2, <1>11, <2>1, <2>7, <2>8, <2>9, <2>10 DEF ResponseInv, Coming
  <1>12. CASE Len(heard) = Len(told) /\ Len(toClient) = 1
    <2>1. Unfinished(toClient, clientBuf, 1)
      BY <1>6, <1>8, <1>12 DEF Rest
    <2>2. heard' = heard
      BY <1>3, <1>7, <2>1 DEF ReaderEndsLine
    <2>3. Len(toClient') = 0
      BY <1>4, <1>12
    <2>4. ResponseType' /\ HeardInOrder'
      BY <1>1, <1>2, <1>4, <1>8, <2>2 DEF ResponseType, HeardInOrder
    <2>5. Coming'
      <3>1. Len(heard') + Len(toClient') = Len(told)
        BY <1>6, <1>12, <2>2, <2>3
      <3>2. Carried(toClient', clientBuf', Len(heard'), told')
        BY <2>3 DEF Carried
      <3>3. QED
        BY <1>2, <3>1, <3>2 DEF Coming, Rest
    <2>6. QED
      BY <2>2, <2>4, <2>5 DEF ResponseInv
  <1>13. QED
    BY <1>10, <1>11, <1>12

-----------------------------------------------------------------------------
(* The steps together.                                                     *)

LEMMA InitInv == Init => RequestInv /\ ResponseInv
  <1>. SUFFICES ASSUME Init PROVE RequestInv /\ ResponseInv
    OBVIOUS
  <1>1. RequestType /\ ResponseType
    <2>1. 0 \in 0..MaxRequests
      BY IpcLinesAssumption
    <2>2. Fits(<< >>, 0)
      BY DEF Fits
    <2>3. << >> \in Seq(Nat) /\ << >> \in Seq(LineT) /\ << >> \in Seq(0..MaxRequests)
      OBVIOUS
    <2>4. QED
      BY <2>1, <2>2, <2>3 DEF Init, RequestType, ResponseType
  <1>2. ServedInOrder /\ HeardInOrder
    BY DEF Init, ServedInOrder, HeardInOrder
  <1>3. Pending /\ Coming
    BY DEF Init, Pending, Coming, Rest, Numbered, Carried
  <1>4. QED
    BY <1>1, <1>2, <1>3 DEF RequestInv, ResponseInv

\* Ending, or the other side's step, touches no request.
LEMMA RequestsLeft ==
    ASSUME RequestInv, UNCHANGED requestVars, handler' \in {handler, "ended"},
           tui' \in {tui, "closed"}
    PROVE  RequestInv'
  <1>1. RequestType' /\ ServedInOrder'
    BY DEF RequestInv, RequestType, ServedInOrder, requestVars
  <1>2. Pending'
    BY DEF RequestInv, Pending, Rest, requestVars
  <1>3. QED
    BY <1>1, <1>2 DEF RequestInv

LEMMA StepInv ==
    ASSUME RequestInv, ResponseInv, [Next]_vars PROVE RequestInv' /\ ResponseInv'
  <1>1. CASE Ask
    <2>1. UNCHANGED <<responseVars, handler>>
      BY <1>1 DEF Ask, endVars
    <2>2. QED
      BY <1>1, <2>1, AskKeeps, ResponsesLeft
  <1>2. CASE Quit
    BY <1>2, RequestsLeft, ResponsesLeft DEF Quit, CloseTui
  <1>3. CASE TuiKilled
    BY <1>3, TuiKilledKeeps, ResponsesLeft DEF TuiKilled, CloseTui
  <1>4. CASE HandlerReads
    BY <1>4, HandlerReadsKeeps, ResponsesLeft DEF HandlerReads, endVars
  <1>5. CASE HandlerServes
    <2>1. handler = "serving" /\ handler' = handler /\ Tell(Head(toDaemon).content)
      BY <1>5 DEF HandlerServes, LineEnds, endVars
    <2>2. QED
      BY <1>5, <2>1, HandlerLineKeeps, TellKeeps
  <1>6. CASE HandlerRejects
    BY <1>6, HandlerLineKeeps, ResponsesLeft DEF HandlerRejects, EndHandler
  <1>7. CASE HandlerEof
    BY <1>7, RequestsLeft, ResponsesLeft DEF HandlerEof, EndHandler
  <1>8. CASE HandlerEvent
    <2>1. handler = "serving" /\ handler' = handler /\ (Tell(0) \/ UNCHANGED responseVars)
      BY <1>8 DEF HandlerEvent, endVars
    <2>2. 0 \in 0..MaxRequests
      BY IpcLinesAssumption
    <2>3. QED
      BY <1>8, <2>1, <2>2, HandlerEventKeeps, TellKeeps, ResponsesLeft
  <1>9. CASE DaemonKilled
    BY <1>9, RequestsLeft, DaemonKilledKeeps DEF DaemonKilled, EndHandler
  <1>10. CASE ReaderReads
    BY <1>10, RequestsLeft, ReaderReadsKeeps DEF ReaderReads, endVars
  <1>11. CASE ReaderEndsLine
    BY <1>11, RequestsLeft, ReaderEndsLineKeeps DEF ReaderEndsLine, endVars
  <1>12. CASE ReaderEof
    BY <1>12, RequestsLeft, ResponsesLeft DEF ReaderEof
  <1>13. CASE UNCHANGED vars
    BY <1>13, RequestsLeft, ResponsesLeft DEF vars, endVars
  <1>14. QED
    BY <1>1, <1>2, <1>3, <1>4, <1>5, <1>6, <1>7, <1>8, <1>9, <1>10, <1>11, <1>12, <1>13
    DEF Next, Handler, Reader

\* Every line that is read has its pieces left to read, and the reader's buffer what is
\* missing or less (transport.rs).
THEOREM TypeCorrect == Spec => []TypeOK
  <1>1. Init => events \in 0..MaxEvents
    BY IpcLinesAssumption DEF Init
  <1>2. events \in 0..MaxEvents /\ [Next]_vars => (events \in 0..MaxEvents)'
    BY IpcLinesAssumption DEF Next, Handler, Reader, Ask, Quit, TuiKilled, HandlerReads,
        HandlerServes, HandlerRejects, HandlerEvent, HandlerEof, DaemonKilled, ReaderReads,
        ReaderEndsLine, ReaderEof, vars
  <1>3. RequestInv /\ ResponseInv /\ [Next]_vars => (RequestInv /\ ResponseInv)'
    BY StepInv
  <1>4. ASSUME NEW lines \in Seq(LineT), NEW buf \in Nat, Fits(lines, buf)
        PROVE  /\ \A n \in 1..Len(lines) : IsLine(lines[n])
               /\ lines # << >> => buf + Head(lines).left <= Head(lines).pieces
    <2>1. ASSUME NEW n \in 1..Len(lines) PROVE IsLine(lines[n])
      <3>1. lines[n] \in LineT
        BY ElementInSeq
      <3>2. lines[n].left <= lines[n].pieces
        BY <1>4 DEF Fits
      <3>3. QED
        BY <3>1, <3>2, IpcLinesAssumption DEF IsLine, LineT
    <2>2. lines # << >> => Head(lines) = lines[1]
      OBVIOUS
    <2>3. QED
      BY <1>4, <2>1, <2>2 DEF Fits
  <1>5. RequestInv /\ ResponseInv /\ events \in 0..MaxEvents => TypeOK
    BY <1>4 DEF RequestInv, RequestType, ResponseInv, ResponseType, TypeOK
  <1>6. QED
    BY InitInv, <1>1, <1>2, <1>3, <1>5, PTL DEF Spec

\* What the handler has served are the first requests written, each once and in
\* order, however often an event drops its read (server.rs, transport.rs).
THEOREM Served == Spec => []ServedInOrder
  <1>1. RequestInv /\ ResponseInv /\ [Next]_vars => (RequestInv /\ ResponseInv)'
    BY StepInv
  <1>2. RequestInv => ServedInOrder
    BY DEF RequestInv
  <1>3. QED
    BY InitInv, <1>1, <1>2, PTL DEF Spec

\* To the reader task of the TUI the socket is a stream: it hands on every line the
\* daemon has written whole, once and in order (client.rs, transport.rs).
THEOREM StreamImplemented == Spec => StreamToTui
  <1>1. Init => Stream!Init
    BY DEF Init, Stream!Init
  <1>2. RequestInv /\ ResponseInv /\ [Next]_vars => [Stream!Next]_<<told, heard>>
    <2>. SUFFICES ASSUME RequestInv, ResponseInv, [Next]_vars
                  PROVE  [Stream!Next]_<<told, heard>>
      OBVIOUS
    <2>1. /\ told \in Seq(0..MaxRequests) /\ heard \in Seq(0..MaxRequests)
          /\ HeardInOrder
      BY DEF ResponseInv, ResponseType
    <2>2. Len(told) \in Nat /\ Len(heard) \in Nat
      BY <2>1, LenIsNat
    <2>3. ASSUME NEW content \in 0..MaxRequests, Tell(content) PROVE Stream!Send
      <3>1. told' = Append(told, content) /\ heard' = heard
        BY <2>3 DEF Tell
      <3>2. told' \in Seq(0..MaxRequests) /\ Len(told') = Len(told) + 1
        BY <2>1, <3>1
      <3>3. SubSeq(told', 1, Len(told)) = told
        BY <2>1, <2>2, <3>1
      <3>4. QED
        BY <2>2, <3>1, <3>2, <3>3 DEF Stream!Send
    <2>4. CASE HandlerServes
      <3>1. Head(toDaemon).content \in 0..MaxRequests /\ Tell(Head(toDaemon).content)
        BY <2>4, HandlerLineKeeps DEF HandlerServes
      <3>2. QED
        BY <2>3, <3>1 DEF Stream!Next
    <2>5. CASE HandlerEvent
      <3>1. Tell(0) \/ UNCHANGED responseVars
        BY <2>5 DEF HandlerEvent
      <3>2. 0 \in 0..MaxRequests
        BY IpcLinesAssumption
      <3>3. QED
        BY <2>3, <3>1, <3>2 DEF Stream!Next, responseVars
    <2>6. CASE ReaderEndsLine
      <3>1. told' = told
        BY <2>6 DEF ReaderEndsLine
      <3>2. CASE heard' = heard
        BY <3>1, <3>2
      <3>3. CASE Len(heard) < Len(told) /\ heard' = Append(heard, told[Len(heard) + 1])
        <4>1. Len(heard) + 1 \in (Len(heard) + 1)..Len(told)
          BY <2>2, <3>3
        <4>2. heard' = SubSeq(told, 1, Len(heard) + 1)
          <5>1. SubSeq(told, 1, Len(heard) + 1) = [n \in 1..(Len(heard) + 1) |-> told[n]]
            BY <2>1, <2>2, <4>1
          <5>2. heard' = [n \in 1..(Len(heard) + 1) |->
                            IF n <= Len(heard) THEN heard[n] ELSE told[n]]
            BY <2>1, <2>2, <3>3
          <5>3. \A n \in 1..(Len(heard) + 1) :
                    (IF n <= Len(heard) THEN heard[n] ELSE told[n]) = told[n]
            BY <2>1, <2>2 DEF HeardInOrder
          <5>4. QED
            BY <5>1, <5>2, <5>3
        <4>3. QED
          BY <3>1, <4>1, <4>2 DEF Stream!Next, Stream!Deliver
      <3>4. QED
        BY <2>6, <3>2, <3>3, ReaderEndsLineKeeps
    <2>7. CASE ~HandlerServes /\ ~HandlerEvent /\ ~ReaderEndsLine
      <3>1. told' = told /\ heard' = heard
        BY <2>7 DEF Next, Handler, Reader, Ask, Quit, TuiKilled, HandlerReads, HandlerRejects,
            HandlerEof, DaemonKilled, ReaderReads, ReaderEof, responseVars, vars
      <3>2. QED
        BY <3>1
    <2>8. QED
      BY <2>4, <2>5, <2>6, <2>7
  <1>3. RequestInv /\ ResponseInv /\ [Next]_vars => (RequestInv /\ ResponseInv)'
    BY StepInv
  <1>4. QED
    BY InitInv, <1>1, <1>2, <1>3, PTL DEF Spec, StreamToTui, Stream!SafeSpec
=============================================================================
