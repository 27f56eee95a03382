---------------------- MODULE OFIPSocketAsyncConnector ----------------------
(***************************************************************************)
(* Connecting one OFTCPSocket (src/OFIPSocketAsyncConnector.m, OFTCPSocket *)
(* .m), composed with the lookup of the host and the SOCKS5 handshake: the *)
(* addresses of the host are tried in order, each in a step of the run     *)
(* loop of its own, until a connection is made; then the delegate is told. *)
(*                                                                         *)
(* Everything runs in the thread of the run loop.  What comes in any order *)
(* are the answers of the name servers, the outcome of each attempt, the   *)
(* timers that carry a result or the next attempt, the replies of the      *)
(* proxy, and the application, which may close the socket and connect it   *)
(* again at any time, at the risk of what is still on its way.             *)
(***************************************************************************)
EXTENDS OFHostAddressResolver, OFTCPSocketSOCKS5Connector

CONSTANTS Named,    (* the connect whose host has to be looked up; the     *)
                    (* others are given an address                         *)
          Literal,  (* that address                                        *)
          NoSocket  (* INVALID_SOCKET                                      *)

ASSUME ConnectAssumption == Named \in Connects

VARIABLES phase,    (* what each connect waits for                         *)
          targets,  (* _socketAddresses                                    *)
          index,    (* _socketAddressesIndex                               *)
          report,   (* the result a timer is about to report               *)
          socket,   (* _socket: who created it for which address, and what *)
                    (* became of the connection                            *)
          proxy,    (* is _SOCKS5Host set?                                 *)
          told,     (* the calls of each connect's delegate (history)      *)
          meddled   (* the application closed or connected the socket with *)
                    (* a connect under way (history)                       *)

connVars == <<phase, targets, index, report, socket, proxy, told, meddled>>
vars == <<hostVars, socksVars, connVars>>

Init ==
    /\ HostInit /\ SocksInit
    /\ phase = [c \in Connects |-> "idle"]
    /\ targets = [c \in Connects |-> << >>]
    /\ index = [c \in Connects |-> 0]
    /\ report = [c \in Connects |-> FALSE]
    /\ socket = NoSocket
    /\ proxy \in BOOLEAN
    /\ told = [c \in Connects |-> << >>]
    /\ meddled = FALSE

Waiting == {"resolving", "connecting", "reporting", "retrying", "handshaking"}
UnderWay == \E c \in Connects : phase[c] \in Waiting

(* Connects with a request in the run loop, which a cancellation removes.  *)
Queued(c) == phase[c] \in {"connecting", "handshaking"}

-----------------------------------------------------------------------------
Connection(c, n) == [by |-> c, at |-> targets'[c][n], is |-> "connected"]

(* The delegate of the socket is called, n times, with or without an       *)
(* exception.                                                              *)
TellTimes(c, ok, n) ==
    told' = [told EXCEPT ![c] = @ \o
               [i \in 1..n |-> [ok |-> ok, open |-> socket' # NoSocket,
                                made |-> ok /\ socket' = Connection(c, index'[c]),
                                tried |-> index'[c] = Len(targets'[c]),
                                granted |-> granted[c]]]]

Tell(c, ok) == TellTimes(c, ok, 1)

Goes(c, p) == phase' = [phase EXCEPT ![c] = p]

(* -[didConnect] of the IP connector: on success the socket is made        *)
(* blocking, which throws if it is closed; the delegate is the SOCKS5      *)
(* connector if there is a proxy.                                          *)
DidConnect(c, ok) ==
    \/ /\ ok /\ socket' = NoSocket
       /\ Goes(c, "thrown")
       /\ UNCHANGED <<told, socksVars>>
    \/ /\ ok /\ socket' # NoSocket /\ proxy
       /\ Goes(c, "handshaking")
       /\ SocksStart(c)
       /\ UNCHANGED told
    \/ /\ ok => socket' # NoSocket /\ ~proxy
       /\ Goes(c, "told")
       /\ Tell(c, ok)
       /\ UNCHANGED socksVars

Attempt(c, n, state) ==
    /\ index' = [index EXCEPT ![c] = n]
    /\ socket' = [by |-> c, at |-> targets'[c][n], is |-> state]

(* -[tryNextAddressWithRunLoopMode:]: any number of the addresses from the *)
(* next one on may fail at once, for want of a socket or refused; then one *)
(* is in progress or connected, or none is left.                           *)
TryNextAddress(c, as) ==
    /\ targets' = [targets EXCEPT ![c] = as]
    /\ \/ /\ socket # NoSocket
          /\ index' = [index EXCEPT ![c] = @ + 1]
          /\ Goes(c, "thrown")
          /\ UNCHANGED <<socket, told, socksVars>>
       \/ /\ socket = NoSocket
          /\ \E n \in index[c] + 1..Len(as) :
               \/ /\ Attempt(c, n, "connecting")
                  /\ Goes(c, "connecting")
                  /\ UNCHANGED <<told, socksVars>>
               \/ /\ Attempt(c, n, "connected")
                  /\ DidConnect(c, TRUE)
       \/ /\ socket = NoSocket
          /\ index' = [index EXCEPT ![c] = Len(as)]
          /\ UNCHANGED socket
          /\ DidConnect(c, FALSE)
    /\ UNCHANGED <<report, proxy>>

(* -[resolver:didResolveHost:addresses:exception:], for each call of it    *)
(* that the step of the lookup made: its results are the new ones.         *)
DidResolveHost(c) ==
    LET new == SubSeq(results', Len(results) + 1, Len(results'))
    IN  \/ /\ new # << >> /\ new[1] # << >>
           /\ TryNextAddress(c, new[1])
        \/ /\ new # << >> /\ new[1] = << >>
           /\ UNCHANGED <<targets, index, report, socket, proxy, socksVars>>
           /\ Goes(c, "told")
           /\ TellTimes(c, FALSE, Len(new))
        \/ /\ new = << >>
           /\ Goes(c, "resolving")
           /\ UNCHANGED <<targets, index, report, socket, proxy, socksVars, told>>

-----------------------------------------------------------------------------
(* -[asyncConnectToHost:port:runLoopMode:] and -[startWithRunLoopMode:]:   *)
(* refused while the socket is open; an address is tried at once, a host   *)
(* is looked up first.  Through a proxy the application waits for an       *)
(* earlier connect to end: the delegate of the socket is not its own till  *)
(* then.                                                                   *)
Connect(c) ==
    /\ phase[c] = "idle" /\ socket = NoSocket
    /\ proxy => ~UnderWay
    /\ meddled' = (meddled \/ UnderWay)
    /\ \/ /\ c # Named
          /\ TryNextAddress(c, <<Literal>>)
          /\ UNCHANGED hostVars
       \/ /\ c = Named
          /\ AsyncResolve \/ AsyncResolveStatic
          /\ DidResolveHost(c)
       \/ /\ c = Named
          /\ AsyncResolveThrows
          /\ Goes(c, "thrown")
          /\ UNCHANGED <<targets, index, report, socket, proxy, told, socksVars>>

(* OFDNSResolver answers a query, or the timer of a static host fires.     *)
Resolve ==
    /\ CallDelegate \/ \E a \in Answers : DidPerformQuery(a)
    /\ DidResolveHost(Named)
    /\ UNCHANGED meddled

-----------------------------------------------------------------------------
(* -[OFRunLoopConnectQueueItem handleObject:]: an attempt ends and its     *)
(* result is left to a timer.                                              *)
AttemptEnds(c, ok) ==
    /\ phase[c] = "connecting"
    /\ socket' = [socket EXCEPT !.is = IF ok THEN "connected" ELSE "refused"]
    /\ report' = [report EXCEPT ![c] = ok]
    /\ Goes(c, "reporting")
    /\ UNCHANGED <<hostVars, socksVars, targets, index, proxy, told, meddled>>

(* Every request on the socket is cancelled; c goes on as p.               *)
Cancelling(c, p) ==
    phase' = [d \in Connects |-> IF d = c THEN p
                                 ELSE IF Queued(d) THEN "cancelled" ELSE phase[d]]

(* Variants of the definitions that follow them, here and below.           *)
GiveUpOneEarly(c) ==
    /\ phase[c] = "reporting" /\ ~report[c]
    /\ socket' = NoSocket
    /\ UNCHANGED <<hostVars, socksVars, targets, index, report, proxy, meddled>>
    /\ IF index[c] + 1 >= Len(targets[c])
         THEN /\ Cancelling(c, "told")
              /\ Tell(c, FALSE)
         ELSE /\ Cancelling(c, "retrying")
              /\ UNCHANGED told

(* -[of_socketDidConnect:exception:] with an exception: whatever the       *)
(* socket is used for by now is cancelled and closed, and the next address *)
(* is left to a timer, or the delegate is told.                            *)
AttemptFailed(c) ==
    /\ phase[c] = "reporting" /\ ~report[c]
    /\ socket' = NoSocket
    /\ UNCHANGED <<hostVars, socksVars, targets, index, report, proxy, meddled>>
    /\ IF index[c] >= Len(targets[c])
         THEN /\ Cancelling(c, "told")
              /\ Tell(c, FALSE)
         ELSE /\ Cancelling(c, "retrying")
              /\ UNCHANGED told

(* The same without an exception.                                          *)
AttemptSucceeded(c) ==
    /\ phase[c] = "reporting" /\ report[c]
    /\ UNCHANGED <<hostVars, targets, index, report, socket, proxy, meddled>>
    /\ DidConnect(c, TRUE)

RetryDropped(c) ==
    /\ phase[c] = "retrying" /\ index[c] + 1 < Len(targets[c])
    /\ TryNextAddress(c, targets[c])
    /\ UNCHANGED <<hostVars, meddled>>

(* The timer that tries the next address.                                  *)
Retry(c) ==
    /\ phase[c] = "retrying"
    /\ TryNextAddress(c, targets[c])
    /\ UNCHANGED <<hostVars, meddled>>

(* A request of the handshake ends, and with the last one the handshake.   *)
Handshake(c) ==
    /\ phase[c] = "handshaking"
    /\ \E io \in {"full", "short", "error"} :
         SocksWritten(c, io) \/ \E r \in {"refused", "numeric", "name"} : SocksRead(c, io, r)
    /\ UNCHANGED <<hostVars, targets, index, report, socket, proxy, meddled>>
    /\ IF socks'[c] \in SocksEnds
         THEN /\ Goes(c, "told")
              /\ Tell(c, socks'[c] = "connected")
         ELSE UNCHANGED <<phase, told>>

(* The application gives the socket up: -[cancelAsyncRequests], which the  *)
(* lookup and the timers do not notice, then -[close].                     *)
Close ==
    /\ socket # NoSocket
    /\ meddled' = (meddled \/ UnderWay)
    /\ socket' = NoSocket
    /\ phase' = [c \in Connects |-> IF Queued(c) THEN "cancelled" ELSE phase[c]]
    /\ UNCHANGED <<hostVars, socksVars, targets, index, report, proxy, told>>

Next ==
    \/ Resolve
    \/ Close
    \/ \E c \in Connects :
         \/ Connect(c)
         \/ \E ok \in BOOLEAN : AttemptEnds(c, ok)
         \/ AttemptFailed(c) \/ AttemptSucceeded(c)
         \/ Retry(c)
         \/ Handshake(c)

Spec == Init /\ [][Next]_vars

(* Queries are answered (OFDNSResolver sees to that), attempts and         *)
(* requests of the handshake end (the kernel and the proxy do), timers     *)
(* fire.  The application need not do anything.                            *)
Fairness ==
    /\ WF_vars(Resolve)
    /\ \A c \in Connects :
         /\ WF_vars(\E ok \in BOOLEAN : AttemptEnds(c, ok))
         /\ WF_vars(AttemptFailed(c)) /\ WF_vars(AttemptSucceeded(c))
         /\ WF_vars(Retry(c)) /\ WF_vars(Handshake(c))

FairSpec == Spec /\ Fairness

-----------------------------------------------------------------------------
(* The count that decides when a lookup is over is that of the queries     *)
(* still to be answered; these are of one search domain, apart from the    *)
(* aliases met so far; and none is left once the delegate was called.      *)
OneRoundAtATime ==
    /\ numExpected = unanswered
    /\ unanswered <= NumFamilies + aliases
    /\ results # << >> => unanswered = 0

(* The delegate of a connect is called at most once, whatever the          *)
(* application does to the socket meanwhile; only without any name server  *)
(* it may be called once for each of the two families asked for.           *)
ToldOnce ==
    \A c \in Connects :
        Len(told[c]) <= IF c = Named /\ ~nameServers THEN NumFamilies ELSE 1

(* A delegate told of success finds the socket open; unless the            *)
(* application closed or connected it in between, it is connected to the   *)
(* address this connect tried last, through the proxy if there is one and  *)
(* it consented.  Told of a failure of the network, every address has been *)
(* tried, or the host has none, or the proxy was asked.                    *)
ToldTruth ==
    \A c \in Connects : \A i \in 1..Len(told[c]) :
        LET t == told[c][i]
        IN  IF t.ok THEN /\ t.open
                         /\ meddled \/ (t.made /\ (proxy => t.granted))
            ELSE t.tried \/ socks[c] = "failed"

(* A connect that was started is answered, unless the application closed   *)
(* or connected the socket in between or the host has no domain to be      *)
(* looked up in.                                                           *)
ConnectEnds ==
    \A c \in Connects :
        phase[c] # "idle" ~> \/ told[c] # << >> \/ meddled
                             \/ phase[c] = "thrown" /\ ~isFQDN /\ searchDomains = 0
=============================================================================
