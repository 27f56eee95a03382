----------------------- MODULE OFHTTPClientResponse -----------------------
(***************************************************************************)
(* The body of an HTTP response (OFHTTPClientResponse in src/OFHTTPClient  *)
(* .m), a stream on top of the stream of the socket, with a read buffer    *)
(* each: the body is chunked, has a Content-Length, or ends with the       *)
(* connection.  What is read returns any number of the bytes there are, so *)
(* that a line or a CR LF may come in pieces.                              *)
(*                                                                         *)
(* The size of a chunk is one byte, Size(n), and has no extension.         *)
(***************************************************************************)
EXTENDS OFStream

CONSTANTS Messages,   (* the messages a server may send: how the body is   *)
                      (* delimited, its bytes, what it looks like on the   *)
                      (* wire, what follows, and whether it is all there   *)
          MaxRead     (* bound: bytes asked for in one read                *)

VARIABLES message,    (* the message of this behaviour                     *)
          sock,       (* the OFTCPSocket: bytes still to come from the     *)
                      (* kernel, _readBuffer, _waitingForDelimiter and     *)
                      (* _atEndOfStream                                    *)
          response,   (* the OFHTTPClientResponse: _toRead,                *)
                      (* _setAtEndOfStream, _atEndOfStream                 *)
          readBuffer, (* its _readBuffer                                   *)
          delivered,  (* the bytes the application has read (history)      *)
          thrown      (* the exception that ended it (history)             *)

responseVars == <<message, sock, response, readBuffer, delivered, thrown>>

SizeBase == 100
Size(n) == SizeBase + n

(* What a server sends.  A chunk on the wire; that w has s from position p *)
(* on, as far as w goes; and that it has the body in chunks that begin at  *)
(* the given places, the last of them empty.                               *)
Chunk(c) == <<Size(Len(c)), CR, LF>> \o c \o <<CR, LF>>

Has(w, p, s) == \A j \in DOMAIN s : p + j <= Len(w) => w[p + j] = s[j]

HasChunks(w, body, cuts) ==
    /\ cuts[1] = 0 /\ cuts[Len(cuts)] = Len(body)
    /\ \A i \in DOMAIN cuts :
         LET end == IF i = Len(cuts) THEN Len(body) ELSE cuts[i + 1]
         IN  /\ i < Len(cuts) => cuts[i] < end
             /\ Has(w, cuts[i] + 5 * (i - 1), Chunk(SubSeq(body, cuts[i] + 1, end)))

(* The wire has the first of the n bytes the body is sent as: all of them  *)
(* and what follows, or not all.                                           *)
IsSent(m, n) ==
    IF m.complete THEN n <= Len(m.wire) /\ m.next = Drop(m.wire, n)
                  ELSE Len(m.wire) < n /\ m.next = << >>

IsMessage(m) ==
    /\ m.body \in Seq(Int) /\ m.wire \in Seq(Int) /\ m.complete \in BOOLEAN
    /\ \/ /\ m.delimited \in {"length", "close"}
          /\ Has(m.wire, 0, m.body)
          /\ IsSent(m, Len(m.body))
          /\ m.delimited = "close" => m.complete /\ m.next = << >>
       \/ /\ m.delimited = "chunked"
          /\ \E chunks \in 1..Len(m.body) + 1 :
               /\ \E cuts \in [1..chunks -> 0..Len(m.body)] : HasChunks(m.wire, m.body, cuts)
               /\ IsSent(m, Len(m.body) + 5 * chunks)

ASSUME ResponseAssumption == MaxRead \in Nat /\ \A m \in Messages : IsMessage(m)

(* -[initWithSocket:] and -[setHeaders:]: the socket has read the lines of *)
(* the headers and perhaps some bytes more; the kernel has the rest, and   *)
(* the server has closed the connection after it.                          *)
ResponseInit(messages) ==
    /\ message \in messages
    /\ \E k \in 0..PageSize :
         sock = [wire |-> Drop(message.wire, k), buffer |-> Take(message.wire, k),
                 waiting |-> FALSE, atEnd |-> FALSE]
    /\ response = [toRead |-> IF message.delimited = "length" THEN Len(message.body) ELSE 0,
                   setAtEnd |-> FALSE, atEnd |-> FALSE]
    /\ readBuffer = << >>
    /\ delivered = << >>
    /\ thrown = "no"

-----------------------------------------------------------------------------
(* Reading from the kernel: some of the bytes there are, at most n; no     *)
(* bytes is the end of the stream.                                         *)
Receive == [n \in Nat |->
    IF sock.wire = << >>
      THEN {[got |-> << >>, after |-> [sock EXCEPT !.atEnd = TRUE]]}
      ELSE {[got |-> Take(sock.wire, k), after |-> [sock EXCEPT !.wire = Drop(@, k)]] :
              k \in 1..IF n < Len(sock.wire) THEN n ELSE Len(sock.wire)}]

(* The two ways the socket is read from, as results of the response's      *)
(* lowlevel read: what the socket got and its state after.                 *)
SocketRead(n) ==
    {[got |-> r.out, sock |-> [r.after EXCEPT !.buffer = r.buffer]] :
       r \in ReadIntoBuffer(sock.buffer, n, Receive, sock)}

SocketTryReadLine ==
    {[line |-> r.line,
      sock |-> [r.after EXCEPT !.buffer = r.buffer, !.waiting = r.waiting]] :
       r \in TryReadLine(sock.buffer, sock.waiting, sock.atEnd, Receive, sock)}

Results(got, s, r, x) == [got |-> got, after |-> [sock |-> s, response |-> r, thrown |-> x]]
Throws(x) == Results(<< >>, sock, response, x)

(* A line end that is taken to come in one piece: a slip the property is   *)
(* validated against.                                                      *)
ReadLineEndAtOnce ==
    {LET done == response.setAtEnd
     IN  Results(<< >>, r.sock, [response EXCEPT !.toRead = 0, !.atEnd = done],
                 IF IsPrefix(r.got, <<CR, LF>>) THEN "no" ELSE "invalid") :
       r \in SocketRead(-response.toRead)}

(* The CR LF after a chunk, all of it or the LF left of it; the one after  *)
(* the last chunk ends the body.                                           *)
ReadLineEnd ==
    {LET toRead == response.toRead + Len(r.got)
         done == response.setAtEnd /\ toRead = 0
         expected == IF response.toRead = -2 THEN <<CR, LF>> ELSE <<LF>>
     IN  Results(<< >>, r.sock, [response EXCEPT !.toRead = toRead, !.atEnd = done],
                 IF IsPrefix(r.got, expected) THEN "no" ELSE "invalid") :
       r \in SocketRead(-response.toRead)}

(* Bytes of a chunk, or of a body with a length; what follows the last.    *)
ReadBytes(n, after, ends) ==
    {LET left == response.toRead - Len(r.got)
     IN  Results(r.got, r.sock, [response EXCEPT !.toRead = IF left = 0 THEN after ELSE left,
                                                 !.atEnd = ends /\ left = 0], "no") :
       r \in SocketRead(IF n > response.toRead THEN response.toRead ELSE n)}

(* The size of the next chunk; the last chunk has none.                    *)
ReadSize ==
    {IF ~r.line.found THEN Results(<< >>, r.sock, response, "no")
     ELSE IF r.line.text = << >>
       THEN Results(<< >>, r.sock, response,
                    IF r.sock.atEnd /\ r.sock.buffer = << >> THEN "truncated" ELSE "invalid")
     ELSE IF Len(r.line.text) > 1 \/ r.line.text[1] < SizeBase
       THEN Results(<< >>, r.sock, response, "invalid")
     ELSE LET n == r.line.text[1] - SizeBase
          IN  Results(<< >>, r.sock,
                      IF n > 0 THEN [response EXCEPT !.toRead = n]
                      ELSE [response EXCEPT !.toRead = -2, !.setAtEnd = TRUE], "no") :
       r \in SocketTryReadLine}

(* -[lowlevelReadIntoBuffer:length:].                                      *)
LowlevelRead == [n \in Nat |->
    IF response.atEnd THEN {Throws("no")}
    ELSE IF message.delimited = "close"
      THEN {Results(r.got, r.sock, response, "no") : r \in SocketRead(n)}
    ELSE IF sock.atEnd /\ sock.buffer = << >> THEN {Throws("truncated")}
    ELSE IF message.delimited = "length" THEN ReadBytes(n, 0, TRUE)
    ELSE IF response.toRead < 0 THEN ReadLineEnd
    ELSE IF response.toRead > 0 THEN ReadBytes(n, -2, FALSE)
    ELSE ReadSize]

Same == [sock |-> sock, response |-> response, thrown |-> "no"]

(* The application reads up to n bytes.                                    *)
Read(n) ==
    /\ thrown = "no"
    /\ \E r \in ReadIntoBuffer(readBuffer, n, LowlevelRead, Same) :
         /\ sock' = r.after.sock
         /\ response' = r.after.response
         /\ thrown' = r.after.thrown
         /\ readBuffer' = r.buffer
         /\ delivered' = delivered \o r.out
    /\ UNCHANGED message

ResponseNext == \E n \in 1..MaxRead : Read(n)

ResponseSpec == ResponseInit(Messages) /\ [][ResponseNext]_responseVars

-----------------------------------------------------------------------------
(* -[isAtEndOfStream].                                                     *)
AtEndOfStream ==
    /\ readBuffer = << >>
    /\ response.atEnd \/ (message.delimited = "close" /\ sock.atEnd /\ sock.buffer = << >>)

(* However the bytes come in and are asked for, the body comes out in      *)
(* order and nothing else does.  The stream ends only after the whole of   *)
(* it, with every byte of the next response left in the socket; a message  *)
(* that was cut off is an exception, and no other one is.                  *)
BodyInOrder ==
    /\ IsPrefix(delivered \o readBuffer, message.body)
    /\ AtEndOfStream => delivered = message.body /\ message.complete
    /\ response.atEnd => sock.buffer \o sock.wire = message.next
    /\ thrown # "no" => thrown = "truncated" /\ ~message.complete
=============================================================================
