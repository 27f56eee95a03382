--------------------------- MODULE OFDNSResolver ---------------------------
(***************************************************************************)
(* The queries of an OFDNSResolver (src/OFDNSResolver.m): name servers are *)
(* asked one after the other over UDP, or over TCP once a reply was        *)
(* truncated, each with a timeout, until one answers or the attempts are   *)
(* used up.  Everything runs in the thread of the run loop; what comes in  *)
(* any order are replies, late and duplicated ones included, the events of *)
(* a TCP connection, and the timeouts.                                     *)
(*                                                                         *)
(* A reply is abstracted to what the resolver does with it: "final" is an  *)
(* answer or an error reported as it is, "next" an RCODE for which another *)
(* name server is tried, "truncated" has the TC bit.  Losing a reply is    *)
(* not receiving it.  A failed OF_ENSURE ends the program: "aborted"       *)
(* records which one.                                                      *)
(***************************************************************************)
EXTENDS Integers, FiniteSets

CONSTANTS Queries,       (* the queries that can be performed              *)
          NameServers,   (* how many name servers are configured           *)
          MaxAttempts    (* maxAttempts                                    *)

ASSUME ResolverAssumption == NameServers \in Nat /\ MaxAttempts \in Nat \ {0}

Servers == 0..NameServers - 1
Replies == {"final", "next", "truncated"}

VARIABLES ctx,       (* the OFDNSResolverContext of each query             *)
          answers,   (* how often the delegate was called (history)        *)
          asked,     (* the UDP packets that may be replied to             *)
          receives,  (* receives pending on the UDP socket                 *)
          stray,     (* a connection the resolver has given up is about to *)
                     (* be reported to it                                  *)
          closed,    (* -[close] was called (history)                      *)
          aborted    (* the OF_ENSURE that failed                          *)

vars == <<ctx, answers, asked, receives, stray, closed, aborted>>

(* "live": in _queries; "timer": _cancelTimer is armed; "used": the server *)
(* in _usedNameServer; "tcp": how far _TCPSocket is, "none" if nil.        *)
NewContext(tcp) == [live |-> FALSE, timer |-> FALSE, server |-> 0, attempt |-> 0,
                    usesTCP |-> tcp, used |-> 0, tcp |-> "none", sends |-> 0]

Init == /\ \E tcp \in [Queries -> BOOLEAN] :
              ctx = [q \in Queries |-> NewContext(tcp[q])]
        /\ answers = [q \in Queries |-> 0]
        /\ asked = {}
        /\ receives = 0
        /\ stray = FALSE
        /\ closed = FALSE
        /\ aborted = "no"

Running == aborted = "no"

-----------------------------------------------------------------------------
(* Variants of the definition that follows them, here and below: the slips *)
(* of the code the properties are validated against.                       *)
SentWithoutTimer(c) ==
    {[c EXCEPT !.live = TRUE, !.sends = @ + 1, !.tcp = t, !.used = c.server] :
        t \in IF c.usesTCP THEN {"connecting", "writing", "none"} ELSE {c.tcp}}

(* -[of_sendQueryForContext:]: the context is filed under its ID and its   *)
(* timer armed anew; a TCP connection may be made or refused on the spot.  *)
Sent(c) ==
    {[c EXCEPT !.live = TRUE, !.timer = TRUE, !.sends = @ + 1, !.tcp = t,
               !.used = IF c.usesTCP THEN @ ELSE c.server] :
        t \in IF c.usesTCP THEN {"connecting", "writing", "none"} ELSE {c.tcp}}

(* n receives are pending already; each UDP packet comes with another one. *)
Send(q, c, n) ==
    /\ \E d \in Sent(c) : ctx' = [ctx EXCEPT ![q] = d]
    /\ receives' = IF c.usesTCP THEN n ELSE n + 1
    /\ asked' = IF c.usesTCP THEN asked ELSE asked \cup {<<q, c.server>>}
    /\ aborted' = IF c.usesTCP /\ c.tcp # "none" THEN "socket" ELSE aborted
    /\ UNCHANGED answers

Answer(q, c, n) ==
    /\ ctx' = [ctx EXCEPT ![q] = c]
    /\ answers' = [answers EXCEPT ![q] = @ + 1]
    /\ receives' = n
    /\ UNCHANGED <<asked, aborted>>

(* -[asyncPerformQuery:].                                                  *)
Perform(q) ==
    /\ Running
    /\ ctx[q].sends = 0 /\ answers[q] = 0
    /\ IF NameServers = 0 THEN Answer(q, ctx[q], receives)
                          ELSE Send(q, ctx[q], receives)
    /\ UNCHANGED <<stray, closed>>

-----------------------------------------------------------------------------
GiveUpLate(q) ==
    /\ Running /\ ctx[q].timer
    /\ LET c == [ctx[q] EXCEPT !.timer = FALSE, !.tcp = "none"]
           n == IF asked = {} THEN 0 ELSE 1
       IN  IF c.server + 1 < NameServers
             THEN Send(q, [c EXCEPT !.server = @ + 1], receives)
           ELSE IF c.attempt < MaxAttempts
             THEN Send(q, [c EXCEPT !.server = 0, !.attempt = @ + 1], receives)
           ELSE Answer(q, [c EXCEPT !.live = FALSE, !.attempt = @ + 1], n)
    /\ stray' = (stray \/ ctx[q].tcp = "reporting")
    /\ UNCHANGED closed

(* -[of_contextTimedOut:]: the connection is dropped, then the next server *)
(* is asked, or the first one once more, or the query has failed; in the   *)
(* last case the UDP socket is left with one receive, whoever else waits.  *)
(* A connection about to be reported cannot be called back.                *)
TimedOut(q) ==
    /\ Running /\ ctx[q].timer
    /\ LET c == [ctx[q] EXCEPT !.timer = FALSE, !.tcp = "none"]
           n == IF asked = {} THEN 0 ELSE 1
       IN  IF c.server + 1 < NameServers
             THEN Send(q, [c EXCEPT !.server = @ + 1], receives)
           ELSE IF c.attempt + 1 < MaxAttempts
             THEN Send(q, [c EXCEPT !.server = 0, !.attempt = @ + 1], receives)
           ELSE Answer(q, [c EXCEPT !.live = FALSE, !.attempt = @ + 1], n)
    /\ stray' = (stray \/ ctx[q].tcp = "reporting")
    /\ UNCHANGED closed

-----------------------------------------------------------------------------
HandledWithTimer(q, k, n) ==
    LET c == [ctx[q] EXCEPT !.live = FALSE]
    IN  IF k = "truncated" /\ ~c.usesTCP
          THEN Send(q, [c EXCEPT !.usesTCP = TRUE], n)
        ELSE IF k = "next" /\ c.server + 1 < NameServers
          THEN Send(q, [c EXCEPT !.server = @ + 1], n)
        ELSE Answer(q, c, n)

(* -[of_handleResponseBuffer:] once the context is found: the timer stops, *)
(* the ID is free again, and the query is sent again or answered.          *)
Handled(q, k, n) ==
    LET c == [ctx[q] EXCEPT !.live = FALSE, !.timer = FALSE]
    IN  IF k = "truncated" /\ ~c.usesTCP
          THEN Send(q, [c EXCEPT !.usesTCP = TRUE], n)
        ELSE IF k = "next" /\ c.server + 1 < NameServers
          THEN Send(q, [c EXCEPT !.server = @ + 1], n)
        ELSE Answer(q, c, n)

(* A packet is for a query that still waits for it: while the query has a  *)
(* TCP connection, from anybody, otherwise from the server last asked over *)
(* UDP.  Others are ignored, and the receive stays.                        *)
Accepts(c, s) == c.live /\ (c.tcp # "none" \/ c.used = s)

ReceiveUDP(q, s, k) ==
    /\ Running
    /\ receives > 0
    /\ <<q, s>> \in asked
    /\ Accepts(ctx[q], s)
    /\ Handled(q, k, receives - 1)
    /\ UNCHANGED <<stray, closed>>

-----------------------------------------------------------------------------
(* The connection of a query.                                              *)

Advance(q, l) == /\ ctx' = [ctx EXCEPT ![q].tcp = l]
                 /\ UNCHANGED <<answers, asked, receives, stray, closed, aborted>>

(* OFRunLoopConnectQueueItem leaves the report to a timer that is due now. *)
Connected(q) == Running /\ ctx[q].tcp = "connecting" /\ Advance(q, "reporting")

(* -[socket:didConnectToHost:port:exception:], then the query is written.  *)
Reported(q) == /\ Running /\ ctx[q].tcp = "reporting"
               /\ Advance(q, "writing") \/ Advance(q, "none")

(* The same for a connection _TCPQueries does not know any more.           *)
ReportedLate == /\ Running /\ stray
                /\ aborted' = "context"
                /\ UNCHANGED <<ctx, answers, asked, receives, stray, closed>>

Written(q) == /\ Running /\ ctx[q].tcp = "writing"
              /\ Advance(q, "length") \/ Advance(q, "none")

(* The two bytes of the length: an error or a length of 0 ends it, and so  *)
(* does, with a failed OF_ENSURE, the end of the stream.                   *)
ReadLength(q) == /\ Running /\ ctx[q].tcp = "length"
                 /\ Advance(q, "body") \/ Advance(q, "none")

ReadLengthAtEnd(q) ==
    /\ Running /\ ctx[q].tcp = "length"
    /\ aborted' = "length"
    /\ UNCHANGED <<ctx, answers, asked, receives, stray, closed>>

(* The reply over TCP, cut short or for a query that was answered since.   *)
ReadNothing(q) == Running /\ ctx[q].tcp = "body" /\ Advance(q, "none")

(* A whole reply: the socket is dropped after it was handled, and sending  *)
(* again while it is still there fails an OF_ENSURE.                       *)
ReadReply(q, k) ==
    /\ Running /\ ctx[q].tcp = "body" /\ ctx[q].live
    /\ IF k = "next" /\ ctx[q].server + 1 < NameServers
         THEN /\ aborted' = "socket"
              /\ UNCHANGED <<ctx, answers, asked, receives>>
         ELSE Answer(q, [ctx[q] EXCEPT !.live = FALSE, !.timer = FALSE,
                                       !.tcp = "none"], receives)
    /\ UNCHANGED <<stray, closed>>

-----------------------------------------------------------------------------
(* -[close]: every query in _queries is answered and forgotten; the timers *)
(* and the connections are not.                                            *)
Close ==
    /\ Running /\ ~closed
    /\ closed' = TRUE
    /\ ctx' = [q \in Queries |-> [ctx[q] EXCEPT !.live = FALSE]]
    /\ answers' = [q \in Queries |-> IF ctx[q].live THEN answers[q] + 1 ELSE answers[q]]
    /\ asked' = {}
    /\ receives' = 0
    /\ UNCHANGED <<stray, aborted>>

Network(q) ==
    \/ \E s \in Servers, k \in Replies : ReceiveUDP(q, s, k)
    \/ Connected(q) \/ Reported(q) \/ Written(q) \/ ReadLength(q)
    \/ ReadLengthAtEnd(q) \/ ReadNothing(q)
    \/ \E k \in Replies : ReadReply(q, k)

Next == \/ \E q \in Queries : Perform(q) \/ TimedOut(q) \/ Network(q)
        \/ ReportedLate \/ Close

Spec == Init /\ [][Next]_vars

(* The run loop fires every timer that is due; the network owes nothing.   *)
FairSpec == Spec /\ \A q \in Queries : WF_vars(TimedOut(q))

-----------------------------------------------------------------------------
TypeOK ==
    /\ ctx \in [Queries -> [live : BOOLEAN, timer : BOOLEAN, server : Nat,
                            attempt : 0..MaxAttempts, usesTCP : BOOLEAN,
                            used : Nat, sends : Nat,
                            tcp : {"none", "connecting", "reporting", "writing",
                                   "length", "body"}]]
    /\ answers \in [Queries -> Nat]
    /\ asked \subseteq Queries \X Servers
    /\ receives \in Nat
    /\ stray \in BOOLEAN /\ closed \in BOOLEAN
    /\ aborted \in {"no", "socket", "context", "length"}

(* Whatever is lost, late or duplicated, the delegate of a query is called *)
(* at most once, unless the resolver was closed in between: -[close] tells *)
(* the delegates and leaves the timers armed.                              *)
CalledOnce == \A q \in Queries : ~closed => answers[q] <= 1

(* A query somebody still waits for has a timer that will end the wait,    *)
(* and, until the resolver is closed, only such a query has one: a timer   *)
(* that fires finds its query.                                             *)
LiveHasTimer == \A q \in Queries : /\ ctx[q].live => ctx[q].timer
                                   /\ ctx[q].timer /\ ~closed => ctx[q].live

(* A query is sent once to each server in each attempt ("Trying all name   *)
(* servers once is considered a single attempt", OFDNSResolver.h:175), and *)
(* once more when it goes over to TCP.                                     *)
SendsBounded ==
    \A q \in Queries : ctx[q].sends <= NameServers * MaxAttempts + 1

(* Under FairSpec.  Every query is answered, by the timeout if by nothing  *)
(* else, unless an OF_ENSURE fails.                                        *)
AnsweredEventually ==
    \A q \in Queries : ctx[q].live ~> answers[q] > 0 \/ ~Running

(* "OF_ENSURE(context != nil)" (OFDNSResolver.m:1084): the TCP connection   *)
(* whose result is reported belongs to a query that still waits for it,    *)
(* whenever the query timed out and whenever the connection was made.      *)
ReportHasContext == aborted # "context"
=============================================================================
