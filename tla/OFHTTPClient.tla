---------------------------- MODULE OFHTTPClient ----------------------------
(***************************************************************************)
(* The HTTP client (src/OFHTTPClient.m): one request at a time, on the     *)
(* connection kept from the request before if it can be used again, on a   *)
(* new one otherwise; sent once more on a new one when the server turns    *)
(* out to have closed it; redirected; and answered from a timer.           *)
(*                                                                         *)
(* What a server sends is a head, the first line and the headers in one,   *)
(* and the pieces of a body, the end of a chunked one among them.  Servers *)
(* answer in order and may close a connection at any time.  How the pieces *)
(* are read is OFHTTPClientResponse's; connecting is                       *)
(* OFIPSocketAsyncConnector's.                                             *)
(***************************************************************************)
EXTENDS Integers, SequencesExt

CONSTANTS Requests,        (* requests of the application                  *)
          Hosts,           (* the hosts of URLs                            *)
          Replies,         (* what a server may answer: the version and    *)
                           (* the Connection header, how the body is       *)
                           (* delimited, its pieces, where it redirects to *)
          NoHost,          (* nowhere                                      *)
          Redirects,       (* REDIRECTS_DEFAULT                            *)
          MaxConnections   (* bound: connections made                      *)

ASSUME ReplyAssumption == \A reply \in Replies : reply.pieces \in Nat

VARIABLES conns,       (* the connections made: the host, whether the      *)
                       (* server has it open, what it was asked and has    *)
                       (* not answered, the bytes on their way, and        *)
                       (* -[isAtEndOfStream] of the socket                 *)
          kept,        (* _socket, _lastURL, _lastWasHEAD, _lastResponse   *)
          inProgress,  (* _inProgress                                      *)
          handler,     (* the request handler at work                      *)
          responses,   (* the responses made                               *)
          pending,     (* calls of the delegate waiting in timers          *)
          performed,   (* what each request is: its method, or "not yet"   *)
          told,        (* the calls of the delegate (history)              *)
          misread      (* a response was read from another one's bytes     *)
                       (* (history)                                        *)

httpVars == <<conns, kept, inProgress, handler, responses, pending, performed, told,
              misread>>

NotKept == [conn |-> 0]
NoHandler == [phase |-> "none"]
NoHead == [is |-> "nothing"]

HTTPInit ==
    /\ conns = << >>
    /\ kept = NotKept
    /\ inProgress = FALSE
    /\ handler = NoHandler
    /\ responses = << >>
    /\ pending = << >>
    /\ performed = [r \in Requests |-> "not yet"]
    /\ told = [r \in Requests |-> << >>]
    /\ misread = FALSE

-----------------------------------------------------------------------------
(* Does the client keep the connection after this reply?  (Under HTTP/1.1  *)
(* it does so if the server says "close", and not if it says otherwise.)   *)
KeepAlive(reply) ==
    IF reply.version = "1.1" THEN reply.connection \in {"none", "close"}
    ELSE reply.connection = "keep-alive"

(* -[isAtEndOfStream] of a response.                                       *)
AtEnd(i) == IF responses[i].delimited = "close" THEN conns[responses[i].conn].eof
            ELSE responses[i].ended

(* Variants of the definition that follows them: slips of the code the     *)
(* property is validated against.                                          *)
ReusableUnread(k, host, ended) ==
    k # NotKept /\ ~conns[k.conn].eof /\ k.host = host

(* Can the last socket be used again?  ended is whether the last response  *)
(* is at its end.                                                          *)
Reusable(k, host, ended) ==
    k # NotKept /\ ~conns[k.conn].eof /\ k.host = host /\ (k.head \/ ended)

At(phase, r, host, hop, conn) ==
    [phase |-> phase, request |-> r, host |-> host, hop |-> hop, conn |-> conn,
     head |-> NoHead]

(* -[start] of a request handler when k is kept, with -[closeAndReconnect].*)
Start(r, host, hop, k, ended) ==
    /\ kept' = NotKept
    /\ handler' = IF Reusable(k, host, ended) THEN At("sending", r, host, hop, k.conn)
                  ELSE At("connecting", r, host, hop, 0)

Reconnect ==
    /\ kept' = NotKept
    /\ handler' = At("connecting", handler.request, handler.host, handler.hop, 0)
    /\ UNCHANGED <<inProgress, told>>

(* -[raiseException:].                                                     *)
RaiseException(why) ==
    /\ kept' = NotKept
    /\ inProgress' = FALSE
    /\ handler' = NoHandler
    /\ told' = [told EXCEPT ![handler.request] = Append(@, [ok |-> FALSE, why |-> why])]

-----------------------------------------------------------------------------
(* -[asyncPerformRequest:redirects:] when no request is in progress.  If   *)
(* the response kept was closed by the application, asking whether it is   *)
(* at its end throws, and the client remains in progress.                  *)
AsyncPerformRequest(r) ==
    /\ performed[r] = "not yet" /\ ~inProgress
    /\ inProgress' = TRUE
    /\ \E method \in {"GET", "HEAD"}, host \in Hosts :
         /\ performed' = [performed EXCEPT ![r] = method]
         /\ IF Reusable(kept, host, TRUE) /\ ~kept.head /\ responses[kept.response].closed
              THEN UNCHANGED <<kept, handler>>
              ELSE Start(r, host, 0, kept, kept # NotKept /\ AtEnd(kept.response))
    /\ UNCHANGED <<conns, responses, pending, told, misread>>

(* -[socket:didConnectToHost:port:exception:].                             *)
DidConnect ==
    /\ handler.phase = "connecting"
    /\ \/ /\ Len(conns) < MaxConnections
          /\ conns' = Append(conns, [host |-> handler.host, open |-> TRUE, asked |-> << >>,
                                     wire |-> << >>, eof |-> FALSE])
          /\ handler' = [handler EXCEPT !.phase = "sending", !.conn = Len(conns) + 1]
          /\ UNCHANGED <<kept, inProgress, told>>
       \/ /\ RaiseException("network")
          /\ UNCHANGED conns
    /\ UNCHANGED <<responses, pending, performed, misread>>

(* -[handleSocket:] and -[stream:didWriteString:...]: a server that has    *)
(* closed the connection may let the client notice now or later.           *)
Send ==
    /\ handler.phase = "sending"
    /\ LET c == conns[handler.conn]
       IN  \/ /\ handler' = [handler EXCEPT !.phase = "reading"]
              /\ conns' = IF c.open
                            THEN [conns EXCEPT ![handler.conn].asked =
                                    Append(@, <<handler.request, handler.hop>>)]
                            ELSE conns
              /\ UNCHANGED <<kept, inProgress, told>>
           \/ /\ ~c.open
              /\ Reconnect
              /\ UNCHANGED conns
           \/ /\ RaiseException("network")
              /\ UNCHANGED conns
    /\ UNCHANGED <<responses, pending, performed, misread>>

(* -[stream:didReadLine:exception:] for the first line, and the headers:   *)
(* no line at all starts over on a new connection.                         *)
DidReadLine ==
    /\ handler.phase = "reading"
    /\ LET c == conns[handler.conn]
       IN  \/ /\ c.wire # << >> /\ Head(c.wire).is = "head"
              /\ handler' = [handler EXCEPT !.phase = "creating", !.head = Head(c.wire)]
              /\ conns' = [conns EXCEPT ![handler.conn].wire = Tail(@)]
              /\ UNCHANGED <<kept, inProgress, told>>
           \/ /\ c.wire # << >> /\ Head(c.wire).is = "body"
              /\ RaiseException("invalid")
              /\ UNCHANGED conns
           \/ /\ c.wire = << >> /\ ~c.open
              /\ Reconnect
              /\ UNCHANGED conns
           \/ /\ ~c.open
              /\ RaiseException("network")
              /\ UNCHANGED conns
    /\ UNCHANGED <<responses, pending, performed, misread>>

(* -[createResponseWithSocket:]: the connection is kept or not, a redirect *)
(* is followed if any are left and the delegate agrees, and otherwise the  *)
(* delegate is called from a timer.                                        *)
CreateResponse ==
    /\ handler.phase = "creating"
    /\ LET reply == handler.head.reply
           head == performed[handler.request] = "HEAD"
           own == handler.head.for = <<handler.request, handler.hop>>
           k == IF KeepAlive(reply)
                  THEN [conn |-> handler.conn, host |-> handler.host, head |-> head,
                        response |-> Len(responses) + 1]
                  ELSE kept
       IN  /\ responses' = Append(responses,
                             [conn |-> handler.conn, for |-> handler.head.for, head |-> head,
                              delimited |-> reply.delimited, left |-> reply.pieces,
                              ended |-> FALSE, closed |-> FALSE, known |-> FALSE])
           /\ \/ /\ handler.hop < Redirects /\ reply.location # NoHost
                 /\ Start(handler.request, reply.location, handler.hop + 1, k, FALSE)
                 /\ UNCHANGED <<inProgress, pending>>
              \/ /\ kept' = k
                 /\ handler' = NoHandler
                 /\ inProgress' = FALSE
                 /\ pending' = Append(pending, [request |-> handler.request, own |-> own,
                                                response |-> Len(responses) + 1])
    /\ UNCHANGED <<conns, performed, told, misread>>

(* -[client:didPerformRequest:response:exception:] of the delegate.        *)
DidPerformRequest ==
    /\ pending # << >>
    /\ LET p == Head(pending)
       IN  /\ told' = [told EXCEPT ![p.request] = Append(@, [ok |-> TRUE, own |-> p.own])]
           /\ responses' = [responses EXCEPT ![p.response].known = TRUE]
    /\ pending' = Tail(pending)
    /\ UNCHANGED <<conns, kept, inProgress, handler, performed, misread>>

-----------------------------------------------------------------------------
(* The application reads a piece of the body of a response, if it has any; *)
(* the response to a HEAD request has none.  A read finds the connection   *)
(* at its end when nothing is left to read and the server has closed it.   *)
ReadBody(i) ==
    LET p == responses[i]
        c == conns[p.conn]
    IN  /\ p.known /\ ~p.closed /\ ~p.head /\ ~AtEnd(i)
        /\ p.delimited = "length" => p.left > 0
        /\ \/ /\ c.wire # << >>
              /\ conns' = [conns EXCEPT ![p.conn].wire = Tail(@)]
              /\ responses' = [responses EXCEPT ![i].left = @ - 1,
                                 ![i].ended = p.delimited = "length" /\ p.left = 1]
              /\ misread' = (misread \/ Head(c.wire).is # "body" \/ Head(c.wire).for # p.for)
           \/ /\ c.wire = << >> /\ ~c.open
              /\ conns' = [conns EXCEPT ![p.conn].eof = TRUE]
              /\ UNCHANGED <<responses, misread>>
        /\ UNCHANGED <<kept, inProgress, handler, pending, performed, told>>

(* -[close] of a response.                                                 *)
CloseResponse(i) ==
    /\ responses[i].known /\ ~responses[i].closed
    /\ responses' = [responses EXCEPT ![i].closed = TRUE]
    /\ UNCHANGED <<conns, kept, inProgress, handler, pending, performed, told, misread>>

(* -[close] of the client.                                                 *)
CloseClient ==
    /\ kept # NotKept
    /\ kept' = NotKept
    /\ UNCHANGED <<conns, inProgress, handler, responses, pending, performed, told, misread>>

-----------------------------------------------------------------------------
(* The servers, which are not part of the code: they answer in order and   *)
(* close a connection after the reply that says so, or at any time.        *)
ServerCloses(reply, method) ==
    \/ reply.connection = "close"
    \/ reply.version = "1.0" /\ reply.connection # "keep-alive"
    \/ reply.delimited = "close" /\ method = "GET"

Answer(c) ==
    /\ conns[c].asked # << >>
    /\ LET for == Head(conns[c].asked)
           method == performed[for[1]]
       IN  \E reply \in Replies :
             conns' = [conns EXCEPT
               ![c].asked = Tail(@),
               ![c].open = ~ServerCloses(reply, method),
               ![c].wire = @ \o <<[is |-> "head", for |-> for, reply |-> reply]>>
                             \o (IF method = "HEAD" THEN << >>
                                 ELSE [n \in 1..reply.pieces |-> [is |-> "body", for |-> for]])]
    /\ UNCHANGED <<kept, inProgress, handler, responses, pending, performed, told, misread>>

Disconnect(c) ==
    /\ conns[c].open
    /\ conns' = [conns EXCEPT ![c].open = FALSE, ![c].asked = << >>]
    /\ UNCHANGED <<kept, inProgress, handler, responses, pending, performed, told, misread>>

HTTPNext ==
    \/ \E r \in Requests : AsyncPerformRequest(r)
    \/ DidConnect \/ Send \/ DidReadLine \/ CreateResponse \/ DidPerformRequest
    \/ \E i \in DOMAIN responses : ReadBody(i) \/ CloseResponse(i)
    \/ CloseClient
    \/ \E c \in DOMAIN conns : Answer(c) \/ Disconnect(c)

HTTPSpec == HTTPInit /\ [][HTTPNext]_httpVars

-----------------------------------------------------------------------------
(* Did the application close the response of the connection kept?  Which   *)
(* one that was is not known any more once the client was closed too.      *)
KeptIsClosed == \E i \in DOMAIN responses :
    responses[i].closed /\ (kept = NotKept \/ kept.response = i)

(* With servers that answer what they are asked, a client never takes a    *)
(* byte for what it is not: a request is told of once, with its own        *)
(* response or a failure of the network (a head that is cut off included), *)
(* whatever connection it was sent on and however often, and a body is     *)
(* read to its end at most.  While it is in progress something goes on,    *)
(* unless the application closed the response of the connection the client *)
(* kept.                                                                   *)
OwnAnswers ==
    /\ \A r \in Requests :
         /\ Len(told[r]) <= 1
         /\ told[r] # << >> => IF told[r][1].ok THEN told[r][1].own
                               ELSE told[r][1].why = "network"
    /\ ~misread
    /\ handler.phase # "none" => inProgress
    /\ inProgress => \/ handler.phase # "none"
                     \/ KeptIsClosed
=============================================================================
