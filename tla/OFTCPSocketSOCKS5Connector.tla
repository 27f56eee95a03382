-------------------- MODULE OFTCPSocketSOCKS5Connector --------------------
(***************************************************************************)
(* The handshake with a SOCKS5 proxy that follows the connection to it     *)
(* (src/OFTCPSocketSOCKS5Connector.m): two writes and up to four reads,    *)
(* each queued in the run loop by the handler of the one before.           *)
(*                                                                         *)
(* What a request ends with: "full", "error", or, for a read, "short" at   *)
(* the end of the stream.  The handlers do not look at the length: after a *)
(* short read they see what was in _buffer before, zeros or the version 5, *)
(* 0.  So half a version may pass for one, less than a reply never passes  *)
(* for one (its address type is still 0), and the length and the address   *)
(* are skipped whatever they are.                                          *)
(***************************************************************************)
EXTENDS Integers

CONSTANT Connects   (* the calls of -[asyncConnectToHost:port:]            *)

VARIABLES socks,    (* _SOCKS5State, or how the handshake ended            *)
          granted   (* did the proxy accept both requests? (history)       *)

socksVars == <<socks, granted>>

SocksEnds == {"connected", "failed"}
SocksWrites == {"sendAuthentication", "sendRequest"}
SocksReads == {"readVersion", "readResponse", "readAddressLength", "readAddress"}

SocksInit ==
    /\ socks = [c \in Connects |-> "none"]
    /\ granted = [c \in Connects |-> FALSE]

(* -[socket:didConnectToHost:port:exception:] without an exception.        *)
SocksStart(c) ==
    /\ socks' = [socks EXCEPT ![c] = "sendAuthentication"]
    /\ UNCHANGED granted

(* -[stream:didWriteData:bytesWritten:exception:].                         *)
SocksWritten(c, io) ==
    /\ socks[c] \in SocksWrites /\ io \in {"full", "error"}
    /\ socks' = [socks EXCEPT ![c] =
                   IF io = "error" THEN "failed"
                   ELSE IF @ = "sendAuthentication" THEN "readVersion"
                   ELSE "readResponse"]
    /\ UNCHANGED granted

(* What follows a read; a reply refuses, or grants with an address that is *)
(* numeric or a name.                                                      *)
NextRead(state, io, reply) ==
    IF io = "error" THEN "failed"
    ELSE CASE state = "readVersion" ->
                IF reply # "refused" THEN "sendRequest" ELSE "failed"
           [] state = "readResponse" ->
                IF io # "full" \/ reply = "refused" THEN "failed"
                ELSE IF reply = "name" THEN "readAddressLength" ELSE "readAddress"
           [] state = "readAddressLength" -> "readAddress"
           [] state = "readAddress" -> "connected"

(* -[stream:didReadIntoBuffer:length:exception:].                          *)
SocksRead(c, io, reply) ==
    /\ socks[c] \in SocksReads
    /\ io \in {"full", "short", "error"} /\ reply \in {"refused", "numeric", "name"}
    /\ socks' = [socks EXCEPT ![c] = NextRead(@, io, reply)]
    /\ granted' = [granted EXCEPT ![c] =
                     IF socks[c] = "readResponse" THEN io = "full" /\ reply # "refused"
                     ELSE @]

=============================================================================
