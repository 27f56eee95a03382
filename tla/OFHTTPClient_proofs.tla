------------------------- MODULE OFHTTPClient_proofs -------------------------
(***************************************************************************)
(* Theorems about OFHTTPClient, for any number of requests, hosts,         *)
(* redirects and connections, and any replies.                             *)
(***************************************************************************)
EXTENDS OFHTTPClient, SequenceTheorems, TLAPS

USE ReplyAssumption

(* What the variables hold.  A request of a server is one of the           *)
(* application's and how often it has been redirected.                     *)
For == Requests \X Nat
Heads == [is : {"head"}, for : For, reply : Replies]
Items == Heads \cup [is : {"body"}, for : For]
Places == Hosts \cup {reply.location : reply \in Replies}

Conn == [host : Places, open : BOOLEAN, asked : Seq(For), wire : Seq(Items), eof : BOOLEAN]
Response == [conn : Nat, for : For, head : BOOLEAN,
             delimited : {reply.delimited : reply \in Replies}, left : Int,
             ended : BOOLEAN, closed : BOOLEAN, known : BOOLEAN]
Handler == [phase : {"connecting", "sending", "reading", "creating"}, request : Requests,
            host : Places, hop : Nat, conn : Nat, head : Heads \cup {NoHead}]
LastOne == [conn : Nat \ {0}, host : Places, head : BOOLEAN, response : Nat]

Own == [ok |-> TRUE, own |-> TRUE]
NetworkFailed == [ok |-> FALSE, why |-> "network"]

Types ==
    /\ conns \in Seq(Conn)
    /\ responses \in Seq(Response)
    /\ handler \in {NoHandler} \cup Handler
    /\ kept \in {NotKept} \cup LastOne
    /\ pending \in Seq([request : Requests, own : {TRUE}, response : Nat])
    /\ performed \in [Requests -> {"not yet", "GET", "HEAD"}]
    /\ told \in [Requests -> {<< >>, <<Own>>, <<NetworkFailed>>}]
    /\ inProgress \in BOOLEAN
    /\ misread = FALSE

(* What the server sends for a request: a head, and the pieces of a body,  *)
(* all of them or the ones still to be read.                               *)
Pieces(for, n) == [i \in 1..n |-> [is |-> "body", for |-> for]]
Reply(for, reply, n) == <<[is |-> "head", for |-> for, reply |-> reply]>> \o Pieces(for, n)

Expected(r, reply) == IF performed[r] = "HEAD" THEN 0 ELSE reply.pieces

(* A connection nothing is under way on.                                   *)
Quiet(c) == conns[c].asked = << >> /\ conns[c].wire = << >>

(* A response whose body somebody may still read.                          *)
Unread(i) == ~responses[i].head /\ ~responses[i].ended

OnConnection == handler.phase \in {"sending", "reading", "creating"}

(* The rest of an unread body is what is on its connection, which nobody   *)
(* else uses.                                                              *)
Body(i) == /\ responses[i].left \in Nat
           /\ conns[responses[i].conn].asked = << >>
           /\ conns[responses[i].conn].wire = Pieces(responses[i].for, responses[i].left)
           /\ OnConnection => handler.conn # responses[i].conn
           /\ \A j \in 1..Len(responses) :
                 Unread(j) /\ responses[j].conn = responses[i].conn => j = i

Bodies == \A i \in 1..Len(responses) :
             /\ responses[i].conn \in 1..Len(conns)
             /\ responses[i].delimited = "close" => ~responses[i].ended
             /\ Unread(i) => Body(i)

(* The connection that is kept is the one of the last response, and has    *)
(* nothing on it but what is left of that.                                 *)
LastKept == /\ kept.response \in 1..Len(responses)
            /\ kept.conn = responses[kept.response].conn
            /\ kept.head = responses[kept.response].head
            /\ ~Unread(kept.response) => Quiet(kept.conn)
            /\ \A j \in 1..Len(responses) :
                  Unread(j) /\ responses[j].conn = kept.conn => j = kept.response
            /\ handler = NoHandler

Kept == kept # NotKept => LastKept

(* What the request handler finds on its connection is its own.            *)
Asked == <<handler.request, handler.hop>>

Reading == LET c == conns[handler.conn]
           IN  \/ c.asked \in {<< >>, <<Asked>>} /\ c.wire = << >>
               \/ /\ c.asked = << >>
                  /\ \E reply \in Replies :
                        c.wire = Reply(Asked, reply, Expected(handler.request, reply))

Creating == /\ handler.head \in Heads /\ handler.head.for = Asked
            /\ conns[handler.conn].asked = << >>
            /\ conns[handler.conn].wire =
                  Pieces(Asked, Expected(handler.request, handler.head.reply))

Handled == /\ OnConnection => handler.conn \in 1..Len(conns)
           /\ handler.phase = "sending" => Quiet(handler.conn)
           /\ handler.phase = "reading" => Reading
           /\ handler.phase = "creating" => Creating

(* The application closed the response of the connection that is kept, or  *)
(* was until the client was closed.                                        *)
ClosedOne == \E i \in 1..Len(responses) :
                responses[i].closed /\ (kept = NotKept \/ kept.response = i)

(* A request is at one place at a time: not made yet, at work, waiting to  *)
(* be told of, or told of.                                                 *)
Waits(n) == /\ pending[n].response \in 1..Len(responses)
            /\ performed[pending[n].request] # "not yet"
            /\ told[pending[n].request] = << >>
            /\ handler # NoHandler => handler.request # pending[n].request
            /\ \A m \in 1..Len(pending) : pending[m].request = pending[n].request => m = n

Once == /\ handler # NoHandler => /\ inProgress
                                  /\ performed[handler.request] # "not yet"
                                  /\ told[handler.request] = << >>
        /\ \A n \in 1..Len(pending) : Waits(n)
        /\ \A r \in Requests : performed[r] = "not yet" => told[r] = << >>
        /\ inProgress => handler # NoHandler \/ ClosedOne

ClientInv == Types /\ Bodies /\ Kept /\ Handled /\ Once

-----------------------------------------------------------------------------
(* The pieces of a body.                                                   *)
LEMMA PiecesAre ==
    ASSUME NEW for \in For, NEW n \in Nat
    PROVE  /\ Pieces(for, n) \in Seq(Items)
           /\ n = 0 <=> Pieces(for, n) = << >>
           /\ n > 0 => /\ Head(Pieces(for, n)) = [is |-> "body", for |-> for]
                       /\ Tail(Pieces(for, n)) = Pieces(for, n - 1)
<1> DEFINE b == [is |-> "body", for |-> for]
<1>1. b \in Items BY DEF Items
<1>2. ASSUME NEW k \in Nat
      PROVE  /\ Pieces(for, k) \in Seq(Items) /\ Len(Pieces(for, k)) = k
             /\ \A i \in 1..k : Pieces(for, k)[i] = b
  <2>1. Pieces(for, k) = [i \in 1..k |-> b] BY DEF Pieces
  <2> HIDE DEF b
  <2>2. [i \in 1..k |-> b] \in Seq(Items) BY <1>1, SeqDef
  <2>3. Len([i \in 1..k |-> b]) = k BY <1>1, LenProperties, <2>2
  <2> QED BY <2>1, <2>2, <2>3
<1> HIDE DEF b
<1>3. n = 0 <=> Pieces(for, n) = << >> BY <1>2, EmptySeq
<1>4. ASSUME n > 0
      PROVE  Head(Pieces(for, n)) = b /\ Tail(Pieces(for, n)) = Pieces(for, n - 1)
  <2> DEFINE p == Pieces(for, n)
             q == Pieces(for, n - 1)
  <2>1. n - 1 \in Nat /\ p \in Seq(Items) /\ Len(p) = n /\ p # << >> /\ p[1] = b
    BY <1>2, <1>3, <1>4
  <2>2. q \in Seq(Items) /\ Len(q) = n - 1 /\ \A i \in 1..n - 1 : q[i] = b
    BY <1>2, <2>1
  <2>3. \A i \in 1..n - 1 : p[i + 1] = b BY <1>2, <1>4
  <2> HIDE DEF p, q
  <2>4. /\ Head(p) = p[1] /\ Tail(p) \in Seq(Items) /\ Len(Tail(p)) = n - 1
        /\ \A i \in 1..n - 1 : Tail(p)[i] = p[i + 1]
    BY <2>1, HeadTailProperties
  <2>5. Tail(p) = q BY <2>2, <2>3, <2>4, SeqEqual
  <2> QED BY <2>1, <2>4, <2>5 DEF p, q
<1> QED BY <1>2, <1>3, <1>4 DEF b

LEMMA ReplyIs ==
    ASSUME NEW for \in For, NEW reply \in Replies, NEW n \in Nat
    PROVE  /\ Reply(for, reply, n) \in Seq(Items) /\ Reply(for, reply, n) # << >>
           /\ Head(Reply(for, reply, n)) = [is |-> "head", for |-> for, reply |-> reply]
           /\ Tail(Reply(for, reply, n)) = Pieces(for, n)
<1> DEFINE h == [is |-> "head", for |-> for, reply |-> reply]
           p == Pieces(for, n)
<1>1. h \in Items /\ p \in Seq(Items) BY PiecesAre DEF Items, Heads
<1> HIDE DEF h, p
<1>2. <<h>> \in Seq(Items) /\ Len(<<h>>) = 1 /\ <<h>>[1] = h /\ Len(p) \in Nat
  BY <1>1, LenProperties
<1> DEFINE s == <<h>> \o p
<1>3. /\ s \in Seq(Items) /\ Len(s) = 1 + Len(p)
      /\ s[1] = h /\ \A i \in 1..Len(p) : s[i + 1] = p[i]
  <2>1. /\ s \in Seq(Items) /\ Len(s) = Len(<<h>>) + Len(p)
        /\ \A i \in 1..Len(<<h>>) + Len(p) :
              s[i] = IF i <= Len(<<h>>) THEN <<h>>[i] ELSE p[i - Len(<<h>>)]
    BY <1>1, <1>2, ConcatProperties
  <2> HIDE DEF s
  <2>2. 1 \in 1..Len(<<h>>) + Len(p) /\ 1 <= Len(<<h>>) BY <1>2
  <2>3. ASSUME NEW i \in 1..Len(p) PROVE s[i + 1] = p[i]
    <3>1. /\ i + 1 \in 1..Len(<<h>>) + Len(p) /\ ~(i + 1 <= Len(<<h>>))
          /\ i + 1 - Len(<<h>>) = i
      BY <1>2
    <3> QED BY <2>1, <3>1
  <2> QED BY <1>2, <2>1, <2>2, <2>3
<1> HIDE DEF s
<1>4. s # << >> BY <1>2, <1>3, EmptySeq
<1>5. /\ Head(s) = s[1] /\ Tail(s) \in Seq(Items) /\ Len(Tail(s)) = Len(p)
      /\ \A i \in 1..Len(p) : Tail(s)[i] = s[i + 1]
  BY <1>2, <1>3, <1>4, HeadTailProperties
<1>6. Tail(s) = p BY <1>1, <1>3, <1>5, SeqEqual
<1>7. Reply(for, reply, n) = s BY DEF Reply, s, h, p
<1> QED BY <1>3, <1>4, <1>5, <1>6, <1>7 DEF h, p

(* One connection changes, or one response.                                *)
LEMMA OneChanges ==
    ASSUME NEW S, NEW s \in Seq(S), NEW c \in 1..Len(s), NEW k \in S,
           NEW t, t = [s EXCEPT ![c] = k]
    PROVE  /\ t \in Seq(S) /\ Len(t) = Len(s) /\ t[c] = k
           /\ \A d \in 1..Len(s) : d # c => t[d] = s[d]
BY ExceptSeq

LEMMA OneMore ==
    ASSUME NEW S, NEW s \in Seq(S), NEW k \in S, NEW t, t = Append(s, k)
    PROVE  /\ t \in Seq(S) /\ Len(t) = Len(s) + 1 /\ t[Len(s) + 1] = k
           /\ \A d \in 1..Len(s) : t[d] = s[d]
BY AppendProperties

LEMMA Basics ==
    ASSUME Types
    PROVE  /\ Len(conns) \in Nat /\ DOMAIN conns = 1..Len(conns)
           /\ \A c \in 1..Len(conns) : conns[c] \in Conn
           /\ Len(responses) \in Nat /\ DOMAIN responses = 1..Len(responses)
           /\ \A i \in 1..Len(responses) : responses[i] \in Response
           /\ Len(pending) \in Nat
           /\ \A n \in 1..Len(pending) :
                 pending[n] \in [request : Requests, own : {TRUE}, response : Nat]
           /\ handler # NoHandler => handler \in Handler
           /\ handler.phase = "none" <=> handler = NoHandler
           /\ OnConnection => handler # NoHandler
           /\ kept # NotKept => kept \in LastOne
<1>1. Len(conns) \in Nat /\ DOMAIN conns = 1..Len(conns)
      /\ \A c \in 1..Len(conns) : conns[c] \in Conn
  BY LenProperties, ElementOfSeq DEF Types
<1>2. Len(responses) \in Nat /\ DOMAIN responses = 1..Len(responses)
      /\ \A i \in 1..Len(responses) : responses[i] \in Response
  BY LenProperties, ElementOfSeq DEF Types
<1>3. Len(pending) \in Nat
      /\ \A n \in 1..Len(pending) :
            pending[n] \in [request : Requests, own : {TRUE}, response : Nat]
  BY LenProperties, ElementOfSeq DEF Types
<1>4. /\ handler # NoHandler => handler \in Handler
      /\ kept # NotKept => kept \in LastOne
  BY DEF Types
<1>5. handler.phase = "none" <=> handler = NoHandler
  BY <1>4 DEF Handler, NoHandler
<1>6. OnConnection => handler # NoHandler BY <1>5 DEF OnConnection
<1> QED BY <1>1, <1>2, <1>3, <1>4, <1>5, <1>6

LEMMA ExpectedIs ==
    ASSUME Types, NEW r \in Requests, NEW reply \in Replies PROVE Expected(r, reply) \in Nat
BY DEF Expected

LEMMA AskedIs == ASSUME handler \in Handler PROVE Asked \in For
BY DEF Handler, Asked, For

-----------------------------------------------------------------------------
(* Nothing changes of a response but who knows it and whether it was       *)
(* closed.                                                                 *)
SameResponses ==
    /\ Len(responses') = Len(responses)
    /\ \A i \in 1..Len(responses) :
          /\ responses'[i].conn = responses[i].conn /\ responses'[i].for = responses[i].for
          /\ responses'[i].head = responses[i].head /\ responses'[i].left = responses[i].left
          /\ responses'[i].delimited = responses[i].delimited
          /\ responses'[i].ended = responses[i].ended

LEMMA BodiesKeep ==
    ASSUME Types, Bodies, SameResponses, Len(conns') \in Nat, Len(conns') >= Len(conns),
           \A i \in 1..Len(responses) : Unread(i) =>
              /\ conns'[responses[i].conn].asked = conns[responses[i].conn].asked
              /\ conns'[responses[i].conn].wire = conns[responses[i].conn].wire
              /\ OnConnection' => handler'.conn # responses[i].conn
    PROVE  Bodies'
<1>1. Len(conns) \in Nat /\ Len(responses) \in Nat BY Basics
<1>2. \A i \in 1..Len(responses) : Unread(i)' <=> Unread(i) BY DEF SameResponses, Unread
<1>3. ASSUME NEW i \in 1..Len(responses)
      PROVE  /\ responses'[i].conn \in 1..Len(conns')
             /\ responses'[i].delimited = "close" => ~responses'[i].ended
  <2>1. responses[i].conn \in 1..Len(conns) BY DEF Bodies
  <2> QED BY <1>1, <2>1 DEF Bodies, SameResponses
<1>4. ASSUME NEW i \in 1..Len(responses), Unread(i) PROVE Body(i)'
  <2>1. Body(i) BY <1>4 DEF Bodies
  <2>2. responses'[i].left \in Nat BY <2>1 DEF Body, SameResponses
  <2>3. /\ conns'[responses'[i].conn].asked = << >>
        /\ conns'[responses'[i].conn].wire = Pieces(responses'[i].for, responses'[i].left)
        /\ OnConnection' => handler'.conn # responses'[i].conn
    BY <1>4, <2>1 DEF Body, SameResponses
  <2>4. \A j \in 1..Len(responses') :
           Unread(j)' /\ responses'[j].conn = responses'[i].conn => j = i
    BY <1>2, <2>1 DEF Body, SameResponses
  <2> QED BY <2>2, <2>3, <2>4 DEF Body
<1> QED BY <1>2, <1>3, <1>4 DEF Bodies, SameResponses

(* Nothing happens on a connection where nothing was asked.                *)
CalmConns ==
    /\ Len(conns') = Len(conns)
    /\ \A c \in 1..Len(conns) : conns[c].asked = << >> =>
          conns'[c].asked = << >> /\ conns'[c].wire = conns[c].wire

LEMMA CalmKeeps ==
    ASSUME Types, Bodies, Kept, Handled, CalmConns, SameResponses,
           UNCHANGED handler, kept' \in {kept, NotKept},
           handler # NoHandler => UNCHANGED performed,
           handler.phase = "reading" => Reading'
    PROVE  Bodies' /\ Kept' /\ Handled'
<1>1. Len(conns) \in Nat /\ Len(responses) \in Nat BY Basics
<1>2. Bodies'
  <2>1. ASSUME NEW i \in 1..Len(responses), Unread(i)
        PROVE  /\ conns'[responses[i].conn].asked = conns[responses[i].conn].asked
               /\ conns'[responses[i].conn].wire = conns[responses[i].conn].wire
               /\ OnConnection' => handler'.conn # responses[i].conn
    <3>1. responses[i].conn \in 1..Len(conns) /\ Body(i) BY <2>1 DEF Bodies
    <3> QED BY <3>1 DEF Body, CalmConns, OnConnection
  <2> QED BY <1>1, <2>1, BodiesKeep DEF CalmConns
<1>3. Kept'
  <2> SUFFICES ASSUME kept' # NotKept PROVE LastKept'
    BY DEF Kept
  <2>1. kept' = kept /\ kept # NotKept OBVIOUS
  <2> DEFINE i == kept.response
  <2>2. /\ i \in 1..Len(responses) /\ kept.conn = responses[i].conn
        /\ kept.head = responses[i].head
        /\ ~Unread(i) => Quiet(kept.conn)
        /\ \A j \in 1..Len(responses) : Unread(j) /\ responses[j].conn = kept.conn => j = i
        /\ handler = NoHandler
    BY <2>1 DEF Kept, LastKept
  <2>3. \A j \in 1..Len(responses) : Unread(j)' <=> Unread(j) BY DEF SameResponses, Unread
  <2>4. kept.conn \in 1..Len(conns) BY <2>2 DEF Bodies
  <2>5. ~Unread(i) => Quiet(kept.conn)' BY <2>1, <2>2, <2>4 DEF Quiet, CalmConns
  <2> HIDE DEF i
  <2> QED BY <2>1, <2>2, <2>3, <2>5 DEF SameResponses, LastKept, i
<1>4. Handled'
  <2>1. OnConnection' => OnConnection /\ handler.conn \in 1..Len(conns)
    BY DEF OnConnection, Handled
  <2>2. handler'.phase = "sending" =>
           conns'[handler'.conn].asked = << >> /\ conns'[handler'.conn].wire = << >>
    BY <2>1 DEF OnConnection, Handled, Quiet, CalmConns
  <2>3. ASSUME handler.phase = "creating" PROVE Creating'
    <3>1. handler # NoHandler /\ performed' = performed BY <2>3 DEF NoHandler
    <3>2. Creating /\ handler.conn \in 1..Len(conns) BY <2>3 DEF Handled, OnConnection
    <3>3. Asked' = Asked BY DEF Asked
    <3>4. \A r, reply : Expected(r, reply)' = Expected(r, reply) BY <3>1 DEF Expected
    <3> QED BY <3>2, <3>3, <3>4 DEF Creating, CalmConns
  <2>4. OnConnection' => handler'.conn \in 1..Len(conns') BY <2>1 DEF CalmConns
  <2>5. (handler.phase = "sending" => Quiet(handler.conn))' BY <2>2 DEF Quiet
  <2>6. (handler.phase = "reading" => Reading)' OBVIOUS
  <2>7. (handler.phase = "creating" => Creating)' BY <2>3
  <2> QED BY <2>4, <2>5, <2>6, <2>7 DEF Handled
<1> QED BY <1>2, <1>3, <1>4

-----------------------------------------------------------------------------
(* The request at work goes on.                                            *)
LEMMA OnceKeeps ==
    ASSUME Types, Once, UNCHANGED <<pending, performed, told, inProgress>>,
           Len(responses') = Len(responses),
           \A i \in 1..Len(responses) : responses[i].closed => responses'[i].closed,
           handler' # NoHandler <=> handler # NoHandler,
           handler # NoHandler => handler'.request = handler.request,
           kept' \in {NotKept, kept}
    PROVE  Once'
<1>1. handler' # NoHandler => /\ inProgress'
                              /\ performed'[handler'.request] # "not yet"
                              /\ told'[handler'.request] = << >>
  BY DEF Once
<1>2. ASSUME NEW n \in 1..Len(pending) PROVE Waits(n)'
  <2>1. Waits(n) BY DEF Once
  <2> QED BY <2>1 DEF Waits
<1>3. \A r \in Requests : performed'[r] = "not yet" => told'[r] = << >> BY DEF Once
<1>4. inProgress' => handler' # NoHandler \/ ClosedOne' BY DEF Once, ClosedOne
<1> QED BY <1>1, <1>2, <1>3, <1>4 DEF Once

LEMMA SameIsSame == ASSUME UNCHANGED responses PROVE SameResponses
BY DEF SameResponses

(* A request that ends with an exception of the network.                   *)
LEMMA RaiseKeeps ==
    ASSUME ClientInv, handler # NoHandler, RaiseException("network"),
           UNCHANGED <<conns, responses, pending, performed, misread>>
    PROVE  ClientInv'
<1>1. Types /\ Bodies /\ Kept /\ Handled /\ Once BY DEF ClientInv
<1> DEFINE r == handler.request
<1>2. /\ r \in Requests /\ told[r] = << >> /\ performed[r] # "not yet"
      /\ told' = [told EXCEPT ![r] = Append(@, NetworkFailed)]
      /\ kept' = NotKept /\ inProgress' = FALSE /\ handler' = NoHandler
  BY <1>1, Basics DEF Once, Handler, RaiseException, NetworkFailed
<1> HIDE DEF r
<1>3. told'[r] = <<NetworkFailed>> /\ \A s \in Requests : s # r => told'[s] = told[s]
      /\ told' \in [Requests -> {<< >>, <<Own>>, <<NetworkFailed>>}]
  <2>0. Append(<< >>, NetworkFailed) = <<NetworkFailed>> OBVIOUS
  <2>1. told' = [told EXCEPT ![r] = <<NetworkFailed>>] BY <1>2, <2>0
  <2> QED BY <1>1, <1>2, <2>1 DEF Types
<1>4. Types' BY <1>1, <1>2, <1>3 DEF Types
<1>5. ~OnConnection' BY <1>2 DEF OnConnection, NoHandler
<1>6. Bodies'
  BY <1>1, <1>5, Basics, SameIsSame, BodiesKeep
<1>7. Kept' BY <1>2 DEF Kept
<1>8. Handled' BY <1>2, <1>5 DEF Handled, NoHandler
<1>9. Once'
  <2>1. ASSUME NEW n \in 1..Len(pending) PROVE Waits(n)'
    <3>1. Waits(n) /\ pending[n].request \in Requests /\ pending[n].request # r
      BY <1>1, Basics DEF Once, Waits, r
    <3> QED BY <1>2, <1>3, <3>1 DEF Waits
  <2>2. \A s \in Requests : performed'[s] = "not yet" => told'[s] = << >>
    BY <1>1, <1>2, <1>3 DEF Once
  <2> QED BY <1>2, <2>1, <2>2 DEF Once
<1> QED BY <1>4, <1>6, <1>7, <1>8, <1>9 DEF ClientInv

LEMMA ReconnectKeeps ==
    ASSUME ClientInv, handler # NoHandler, Reconnect,
           UNCHANGED <<conns, responses, pending, performed, misread>>
    PROVE  ClientInv'
<1>1. Types /\ Bodies /\ Kept /\ Handled /\ Once BY DEF ClientInv
<1>2. handler \in Handler BY <1>1, Basics
<1>3. /\ handler' \in Handler /\ handler'.phase = "connecting"
      /\ handler'.request = handler.request
      /\ kept' = NotKept /\ UNCHANGED <<inProgress, told>>
  BY <1>2 DEF Reconnect, At, Handler
<1>4. Types' BY <1>1, <1>3 DEF Types
<1>5. ~OnConnection' BY <1>3 DEF OnConnection
<1>6. Bodies' BY <1>1, <1>5, Basics, SameIsSame, BodiesKeep
<1>7. Kept' BY <1>3 DEF Kept
<1>8. Handled' BY <1>3, <1>5 DEF Handled
<1>9. handler' # NoHandler BY <1>4, <1>3 DEF Handler, NoHandler
<1>10. Once' BY <1>1, <1>3, <1>9, OnceKeeps
<1> QED BY <1>4, <1>6, <1>7, <1>8, <1>10 DEF ClientInv

LEMMA DidConnectKeeps == ASSUME ClientInv, DidConnect PROVE ClientInv'
<1>1. Types /\ Bodies /\ Kept /\ Handled /\ Once BY DEF ClientInv
<1>2. /\ handler.phase = "connecting" /\ handler # NoHandler /\ handler \in Handler
      /\ UNCHANGED <<responses, pending, performed, misread>>
  BY <1>1, Basics DEF DidConnect, NoHandler
<1>3. CASE RaiseException("network") /\ UNCHANGED conns BY <1>2, <1>3, RaiseKeeps
<1>4. CASE ~(RaiseException("network") /\ UNCHANGED conns)
  <2> DEFINE k == [host |-> handler.host, open |-> TRUE, asked |-> << >>, wire |-> << >>,
                   eof |-> FALSE]
             n == Len(conns) + 1
  <2>1. /\ conns' = Append(conns, k)
        /\ handler' = [handler EXCEPT !.phase = "sending", !.conn = n]
        /\ UNCHANGED <<kept, inProgress, told>>
    BY <1>4 DEF DidConnect
  <2>2. k \in Conn /\ k.asked = << >> /\ k.wire = << >> BY <1>2 DEF Handler, Conn
  <2>3. conns \in Seq(Conn) /\ Len(conns) \in Nat BY <1>1, Basics DEF Types
  <2> HIDE DEF k
  <2>4. /\ conns' \in Seq(Conn) /\ Len(conns') = Len(conns) + 1 /\ conns'[n] = k
        /\ \A d \in 1..Len(conns) : conns'[d] = conns[d]
    BY <2>1, <2>2, <2>3, OneMore
  <2>5. /\ handler' \in Handler /\ handler'.phase = "sending" /\ handler'.conn = n
        /\ handler'.request = handler.request
    <3>1. n \in Nat BY <2>3
    <3> HIDE DEF n
    <3>2. handler' \in Handler BY <1>2, <2>1, <3>1 DEF Handler
    <3>3. handler'.phase = "sending" /\ handler'.conn = n /\ handler'.request = handler.request
      BY <1>2, <2>1 DEF Handler
    <3> QED BY <3>2, <3>3
  <2> HIDE DEF n
  <2>6. n \notin 1..Len(conns) /\ n \in 1..Len(conns') BY <2>3, <2>4 DEF n
  <2>7. Types' BY <1>1, <1>2, <2>1, <2>4, <2>5 DEF Types
  <2>8. handler' # NoHandler BY <2>5 DEF NoHandler
  <2>9. Bodies'
    <3>1. ASSUME NEW i \in 1..Len(responses), Unread(i)
          PROVE  /\ conns'[responses[i].conn].asked = conns[responses[i].conn].asked
                 /\ conns'[responses[i].conn].wire = conns[responses[i].conn].wire
                 /\ OnConnection' => handler'.conn # responses[i].conn
      <4>1. responses[i].conn \in 1..Len(conns) BY <1>1 DEF Bodies
      <4> QED BY <2>4, <2>5, <2>6, <4>1
    <3>2. Len(conns') \in Nat /\ Len(conns') >= Len(conns) BY <2>3, <2>4
    <3> QED BY <1>1, <1>2, <3>1, <3>2, SameIsSame, BodiesKeep
  <2>10. Kept' BY <1>1, <1>2, <2>1 DEF Kept, LastKept
  <2>11. Handled' BY <2>2, <2>4, <2>5, <2>6 DEF Handled, Quiet
  <2>12. Once' BY <1>1, <1>2, <2>1, <2>5, <2>8, OnceKeeps
  <2> QED BY <2>7, <2>9, <2>10, <2>11, <2>12 DEF ClientInv
<1> QED BY <1>3, <1>4

(* A step of the request at work on its connection c, which is given k.    *)
LEMMA OnConnectionKeeps ==
    ASSUME ClientInv, OnConnection, NEW k \in Conn,
           conns' = [conns EXCEPT ![handler.conn] = k],
           handler' \in Handler, OnConnection', handler'.conn = handler.conn,
           handler'.request = handler.request,
           UNCHANGED <<kept, inProgress, told, responses, pending, performed, misread>>
    PROVE  /\ Types' /\ Bodies' /\ Kept' /\ Once'
           /\ handler'.conn \in 1..Len(conns') /\ conns'[handler'.conn] = k
<1>1. Types /\ Bodies /\ Kept /\ Handled /\ Once /\ handler # NoHandler
  BY Basics DEF ClientInv
<1>2. handler.conn \in 1..Len(conns) /\ conns \in Seq(Conn) /\ Len(conns) \in Nat
  BY <1>1, Basics DEF Handled, Types
<1> DEFINE c == handler.conn
<1>3. /\ conns' \in Seq(Conn) /\ Len(conns') = Len(conns) /\ conns'[c] = k
      /\ \A d \in 1..Len(conns) : d # c => conns'[d] = conns[d]
  BY <1>2, OneChanges
<1>4. Types' BY <1>1, <1>3 DEF Types
<1>5. handler' # NoHandler BY DEF Handler, NoHandler
<1>6. Bodies'
  <2>1. ASSUME NEW i \in 1..Len(responses), Unread(i)
        PROVE  /\ conns'[responses[i].conn].asked = conns[responses[i].conn].asked
               /\ conns'[responses[i].conn].wire = conns[responses[i].conn].wire
               /\ OnConnection' => handler'.conn # responses[i].conn
    <3>1. responses[i].conn \in 1..Len(conns) /\ responses[i].conn # c
      BY <1>1, <2>1 DEF Bodies, Body
    <3> QED BY <1>3, <3>1
  <2> QED BY <1>1, <1>2, <1>3, <2>1, SameIsSame, BodiesKeep
<1>7. Kept' BY <1>1 DEF Kept, LastKept
<1>8. Once' BY <1>1, <1>5, OnceKeeps
<1> QED BY <1>2, <1>3, <1>4, <1>6, <1>7, <1>8

LEMMA SendKeeps == ASSUME ClientInv, Send PROVE ClientInv'
<1>1. Types /\ Bodies /\ Kept /\ Handled /\ Once BY DEF ClientInv
<1>2. /\ handler.phase = "sending" /\ handler # NoHandler /\ handler \in Handler
      /\ UNCHANGED <<responses, pending, performed, misread>>
  BY <1>1, Basics DEF Send, NoHandler
<1>3. OnConnection /\ handler.conn \in 1..Len(conns) /\ Quiet(handler.conn)
  BY <1>1, <1>2 DEF OnConnection, Handled
<1> DEFINE c == handler.conn
<1>4. CASE /\ handler' = [handler EXCEPT !.phase = "reading"]
           /\ conns' = IF conns[c].open THEN [conns EXCEPT ![c].asked = Append(@, Asked)]
                       ELSE conns
           /\ UNCHANGED <<kept, inProgress, told>>
  <2> DEFINE k == IF conns[c].open THEN [conns[c] EXCEPT !.asked = Append(@, Asked)]
                  ELSE conns[c]
  <2>1. conns[c] \in Conn /\ Asked \in For /\ conns \in Seq(Conn)
    BY <1>1, <1>2, <1>3, Basics, AskedIs DEF Types
  <2>2. /\ k \in Conn /\ k.wire = << >> /\ k.asked \in {<< >>, <<Asked>>}
    <3>1. conns[c].asked = << >> /\ conns[c].wire = << >> BY <1>3 DEF Quiet
    <3>2. Append(<< >>, Asked) = <<Asked>> /\ <<Asked>> \in Seq(For) BY <2>1
    <3>3. CASE conns[c].open
      <4>1. k = [conns[c] EXCEPT !.asked = <<Asked>>] BY <3>1, <3>2, <3>3
      <4> QED BY <2>1, <3>1, <3>2, <4>1 DEF Conn
    <3>4. CASE ~conns[c].open BY <2>1, <3>1, <3>4
    <3> QED BY <3>3, <3>4
  <2>3. conns' = [conns EXCEPT ![c] = k]
    <3>1. CASE conns[c].open BY <1>4, <3>1
    <3>2. CASE ~conns[c].open
      <4>1. conns = [conns EXCEPT ![c] = conns[c]] BY <2>1
      <4> QED BY <1>4, <3>2, <4>1
    <3> QED BY <3>1, <3>2
  <2> HIDE DEF k
  <2>4. /\ handler' \in Handler /\ handler'.phase = "reading" /\ handler'.conn = c
        /\ handler'.request = handler.request /\ handler'.hop = handler.hop
    BY <1>2, <1>4 DEF Handler
  <2>5. OnConnection' BY <2>4 DEF OnConnection
  <2>6. /\ Types' /\ Bodies' /\ Kept' /\ Once'
        /\ handler'.conn \in 1..Len(conns') /\ conns'[handler'.conn] = k
    BY <1>2, <1>3, <1>4, <2>2, <2>3, <2>4, <2>5, OnConnectionKeeps
  <2>7. Asked' = Asked BY <2>4 DEF Asked
  <2>8. Reading' BY <2>2, <2>6, <2>7 DEF Reading
  <2>9. Handled' BY <2>4, <2>6, <2>8 DEF Handled
  <2> QED BY <2>6, <2>9 DEF ClientInv
<1>5. CASE Reconnect /\ UNCHANGED conns BY <1>2, <1>5, ReconnectKeeps
<1>6. CASE RaiseException("network") /\ UNCHANGED conns BY <1>2, <1>6, RaiseKeeps
<1> QED BY <1>4, <1>5, <1>6 DEF Send, Asked

LEMMA DidReadLineKeeps == ASSUME ClientInv, DidReadLine PROVE ClientInv'
<1>1. Types /\ Bodies /\ Kept /\ Handled /\ Once BY DEF ClientInv
<1>2. /\ handler.phase = "reading" /\ handler # NoHandler /\ handler \in Handler
      /\ UNCHANGED <<responses, pending, performed, misread>>
  BY <1>1, Basics DEF DidReadLine, NoHandler
<1>3. OnConnection /\ handler.conn \in 1..Len(conns) /\ Reading
  BY <1>1, <1>2 DEF OnConnection, Handled
<1> DEFINE c == handler.conn
<1>4. conns[c] \in Conn /\ Asked \in For /\ conns \in Seq(Conn) /\ handler.request \in Requests
  BY <1>1, <1>2, <1>3, Basics, AskedIs DEF Types, Handler
<1>5. ASSUME conns[c].wire # << >>
      PROVE  \E reply \in Replies :
                /\ conns[c].asked = << >>
                /\ Head(conns[c].wire) = [is |-> "head", for |-> Asked, reply |-> reply]
                /\ Tail(conns[c].wire) = Pieces(Asked, Expected(handler.request, reply))
  <2>1. PICK reply \in Replies :
           /\ conns[c].asked = << >>
           /\ conns[c].wire = Reply(Asked, reply, Expected(handler.request, reply))
    BY <1>3, <1>5 DEF Reading
  <2>2. Expected(handler.request, reply) \in Nat BY <1>1, <1>4, ExpectedIs
  <2> QED BY <1>4, <2>1, <2>2, ReplyIs
<1>6. CASE /\ conns[c].wire # << >>
           /\ handler' = [handler EXCEPT !.phase = "creating", !.head = Head(conns[c].wire)]
           /\ conns' = [conns EXCEPT ![c].wire = Tail(@)]
           /\ UNCHANGED <<kept, inProgress, told>>
  <2>1. PICK reply \in Replies :
           /\ conns[c].asked = << >>
           /\ Head(conns[c].wire) = [is |-> "head", for |-> Asked, reply |-> reply]
           /\ Tail(conns[c].wire) = Pieces(Asked, Expected(handler.request, reply))
    BY <1>5, <1>6
  <2> DEFINE h == [is |-> "head", for |-> Asked, reply |-> reply]
             w == Pieces(Asked, Expected(handler.request, reply))
             k == [conns[c] EXCEPT !.wire = w]
  <2>2. h \in Heads /\ h.for = Asked /\ h.reply = reply BY <1>4 DEF Heads
  <2>3. w \in Seq(Items) BY <1>1, <1>4, ExpectedIs, PiecesAre
  <2>4. conns' = [conns EXCEPT ![c] = k] BY <1>6, <2>1
  <2>5. handler' = [handler EXCEPT !.phase = "creating", !.head = h] BY <1>6, <2>1
  <2> HIDE DEF h, w
  <2>6. k \in Conn /\ k.asked = << >> /\ k.wire = w BY <1>4, <2>1, <2>3 DEF Conn
  <2>7. handler' \in Handler BY <1>2, <2>2, <2>5 DEF Handler
  <2>8. /\ handler'.phase = "creating" /\ handler'.conn = c /\ handler'.head = h
        /\ handler'.request = handler.request /\ handler'.hop = handler.hop
    BY <1>2, <2>5 DEF Handler
  <2>9. OnConnection' BY <2>8 DEF OnConnection
  <2> HIDE DEF k
  <2>10. /\ Types' /\ Bodies' /\ Kept' /\ Once'
         /\ handler'.conn \in 1..Len(conns') /\ conns'[handler'.conn] = k
    BY <1>2, <1>3, <1>6, <2>4, <2>6, <2>7, <2>8, <2>9, OnConnectionKeeps
  <2>11. Creating'
    <3>1. Asked' = Asked BY <2>8 DEF Asked
    <3>2. Expected(handler.request, reply)' = Expected(handler.request, reply)
      BY <1>2, <2>8 DEF Expected
    <3>3. handler'.head \in Heads /\ handler'.head.for = Asked' /\ handler'.head.reply = reply
      BY <2>2, <2>8, <3>1
    <3>4. k.wire = Pieces(Asked, Expected(handler.request, reply)) BY <2>6 DEF w
    <3> QED BY <2>6, <2>10, <3>1, <3>2, <3>3, <3>4 DEF Creating
  <2>12. Handled' BY <2>8, <2>10, <2>11 DEF Handled
  <2> QED BY <2>10, <2>12 DEF ClientInv
<1>7. CASE conns[c].wire # << >> /\ Head(conns[c].wire).is = "body"
  <2>1. PICK reply \in Replies :
           Head(conns[c].wire) = [is |-> "head", for |-> Asked, reply |-> reply]
    BY <1>5, <1>7
  <2> QED BY <1>7, <2>1
<1>8. CASE Reconnect /\ UNCHANGED conns BY <1>2, <1>8, ReconnectKeeps
<1>9. CASE RaiseException("network") /\ UNCHANGED conns BY <1>2, <1>9, RaiseKeeps
<1> QED BY <1>6, <1>7, <1>8, <1>9 DEF DidReadLine

-----------------------------------------------------------------------------
LEMMA StartIs ==
    ASSUME NEW r \in Requests, NEW host \in Places, NEW hop \in Nat, NEW ended,
           NEW k \in {NotKept} \cup LastOne, Start(r, host, hop, k, ended)
    PROVE  /\ kept' = NotKept /\ handler' \in Handler /\ handler' # NoHandler
           /\ handler'.request = r /\ handler'.hop = hop
           /\ handler'.phase \in {"connecting", "sending"}
           /\ OnConnection' => /\ handler'.phase = "sending" /\ handler'.conn = k.conn
                               /\ k # NotKept /\ ~conns[k.conn].eof /\ (k.head \/ ended)
<1>1. CASE Reusable(k, host, ended)
  <2>1. handler' = At("sending", r, host, hop, k.conn) /\ kept' = NotKept
    BY <1>1 DEF Start
  <2>2. k # NotKept /\ ~conns[k.conn].eof /\ (k.head \/ ended) BY <1>1 DEF Reusable
  <2>3. k.conn \in Nat BY <2>2 DEF LastOne
  <2> QED BY <2>1, <2>2, <2>3 DEF At, Handler, OnConnection, NoHandler
<1>2. CASE ~Reusable(k, host, ended)
  <2>1. handler' = At("connecting", r, host, hop, 0) /\ kept' = NotKept
    BY <1>2 DEF Start
  <2> QED BY <2>1 DEF At, Handler, OnConnection, NoHandler
<1> QED BY <1>1, <1>2

(* A connection that can be used again is quiet.                           *)
LEMMA ReusedIsQuiet ==
    ASSUME Types, Bodies, Kept, kept # NotKept, ~conns[kept.conn].eof,
           kept.head \/ AtEnd(kept.response)
    PROVE  /\ kept.conn \in 1..Len(conns) /\ Quiet(kept.conn)
           /\ \A i \in 1..Len(responses) : Unread(i) => responses[i].conn # kept.conn
<1> DEFINE i == kept.response
<1>1. /\ i \in 1..Len(responses) /\ kept.conn = responses[i].conn
      /\ kept.head = responses[i].head
      /\ ~Unread(i) => Quiet(kept.conn)
      /\ \A j \in 1..Len(responses) : Unread(j) /\ responses[j].conn = kept.conn => j = i
  BY DEF Kept, LastKept
<1> HIDE DEF i
<1>2. ~Unread(i)
  <2>1. CASE kept.head BY <1>1, <2>1 DEF Unread
  <2>2. CASE AtEnd(i) BY <1>1, <2>2 DEF AtEnd, Unread
  <2> QED BY <2>1, <2>2 DEF i
<1>3. kept.conn \in 1..Len(conns) BY <1>1 DEF Bodies
<1> QED BY <1>1, <1>2, <1>3

LEMMA AsyncPerformKeeps ==
    ASSUME ClientInv, NEW r \in Requests, AsyncPerformRequest(r) PROVE ClientInv'
<1>1. Types /\ Bodies /\ Kept /\ Handled /\ Once BY DEF ClientInv
<1>2. /\ performed[r] = "not yet" /\ ~inProgress /\ inProgress' = TRUE
      /\ UNCHANGED <<conns, responses, pending, told, misread>>
  BY DEF AsyncPerformRequest
<1>3. PICK method \in {"GET", "HEAD"}, host \in Hosts :
         /\ performed' = [performed EXCEPT ![r] = method]
         /\ IF Reusable(kept, host, TRUE) /\ ~kept.head /\ responses[kept.response].closed
              THEN UNCHANGED <<kept, handler>>
              ELSE Start(r, host, 0, kept, kept # NotKept /\ AtEnd(kept.response))
  BY DEF AsyncPerformRequest
<1>4. handler = NoHandler /\ ~OnConnection /\ handler.phase = "none"
  BY <1>1, <1>2, Basics DEF Once
<1>5. /\ performed' \in [Requests -> {"not yet", "GET", "HEAD"}] /\ performed'[r] # "not yet"
      /\ \A s \in Requests : s # r => performed'[s] = performed[s]
  BY <1>1, <1>3 DEF Types
<1>6. \A n \in 1..Len(pending) :
         /\ Waits(n) /\ pending[n].request # r /\ pending[n].request \in Requests
         /\ performed'[pending[n].request] # "not yet"
  BY <1>1, <1>2, <1>5, Basics DEF Once, Waits
<1>7. told[r] = << >> /\ \A s \in Requests : performed'[s] = "not yet" => told'[s] = << >>
  BY <1>1, <1>2, <1>5 DEF Once
<1>8. CASE Reusable(kept, host, TRUE) /\ ~kept.head /\ responses[kept.response].closed
  <2>1. UNCHANGED <<kept, handler>> BY <1>3, <1>8
  <2>2. Types' BY <1>1, <1>2, <1>5, <2>1 DEF Types
  <2>3. CalmConns /\ SameResponses BY <1>2, SameIsSame DEF CalmConns
  <2>4. Bodies' /\ Kept' /\ Handled' BY <1>1, <1>4, <2>1, <2>3, CalmKeeps
  <2>5. kept # NotKept BY <1>8 DEF Reusable
  <2>6. kept.response \in 1..Len(responses) BY <1>1, <2>5 DEF Kept, LastKept
  <2>7. \A n \in 1..Len(pending) : Waits(n)'
    BY <1>2, <1>4, <1>6, <2>1 DEF Waits
  <2>8. ClosedOne' BY <1>2, <1>8, <2>1, <2>6 DEF ClosedOne
  <2>9. Once' BY <1>2, <1>4, <1>7, <2>1, <2>7, <2>8 DEF Once
  <2> QED BY <2>2, <2>4, <2>9 DEF ClientInv
<1>9. CASE ~(Reusable(kept, host, TRUE) /\ ~kept.head /\ responses[kept.response].closed)
  <2> DEFINE e == kept # NotKept /\ AtEnd(kept.response)
  <2>1. Start(r, host, 0, kept, e) BY <1>3, <1>9
  <2>2. host \in Places /\ 0 \in Nat /\ kept \in {NotKept} \cup LastOne
    BY <1>1 DEF Places, Types
  <2> HIDE DEF e
  <2>3. /\ kept' = NotKept /\ handler' \in Handler /\ handler' # NoHandler
        /\ handler'.request = r
        /\ handler'.phase \in {"connecting", "sending"}
        /\ OnConnection' => /\ handler'.phase = "sending" /\ handler'.conn = kept.conn
                            /\ kept # NotKept /\ ~conns[kept.conn].eof /\ (kept.head \/ e)
    BY <2>1, <2>2, StartIs
  <2>4. Types' BY <1>1, <1>2, <1>5, <2>3 DEF Types
  <2>5. OnConnection' =>
           /\ handler'.phase = "sending" /\ handler'.conn = kept.conn
           /\ kept.conn \in 1..Len(conns) /\ Quiet(kept.conn)
           /\ \A i \in 1..Len(responses) : Unread(i) => responses[i].conn # kept.conn
    BY <1>1, <2>3, ReusedIsQuiet DEF e
  <2>6. Bodies'
    <3>1. ASSUME NEW i \in 1..Len(responses), Unread(i)
          PROVE  /\ conns'[responses[i].conn].asked = conns[responses[i].conn].asked
                 /\ conns'[responses[i].conn].wire = conns[responses[i].conn].wire
                 /\ OnConnection' => handler'.conn # responses[i].conn
      BY <1>2, <2>5, <3>1
    <3>2. Len(conns') \in Nat /\ Len(conns') >= Len(conns)
      <4>1. Len(conns) \in Nat /\ conns' = conns BY <1>1, <1>2, Basics
      <4> QED BY <4>1
    <3> QED BY <1>1, <1>2, <3>1, <3>2, SameIsSame, BodiesKeep
  <2>7. Kept' BY <2>3 DEF Kept
  <2>8. Handled'
    <3>1. handler'.phase = "sending" => OnConnection' BY DEF OnConnection
    <3> QED BY <1>2, <2>3, <2>5, <3>1 DEF Handled, Quiet
  <2>9. \A n \in 1..Len(pending) : Waits(n)' BY <1>2, <1>6, <2>3 DEF Waits
  <2>10. Once' BY <1>2, <1>5, <1>7, <2>3, <2>9 DEF Once
  <2> QED BY <2>4, <2>6, <2>7, <2>8, <2>10 DEF ClientInv
<1> QED BY <1>8, <1>9

LEMMA CreateKeeps == ASSUME ClientInv, CreateResponse PROVE ClientInv'
<1>1. Types /\ Bodies /\ Kept /\ Handled /\ Once BY DEF ClientInv
<1>2. /\ handler.phase = "creating" /\ handler # NoHandler /\ handler \in Handler
      /\ UNCHANGED <<conns, performed, told, misread>>
  BY <1>1, Basics DEF CreateResponse, NoHandler
<1>3. OnConnection /\ handler.conn \in 1..Len(conns) /\ Creating /\ kept = NotKept
  BY <1>1, <1>2 DEF OnConnection, Handled, Kept, LastKept
<1>4. PICK c \in Nat \ {0}, r \in Requests, host \in Places, m \in Nat \ {0}, reply \in Replies,
           for \in For, hop \in Nat, head \in BOOLEAN :
         /\ c = handler.conn /\ r = handler.request /\ host = handler.host
         /\ m = Len(responses) + 1 /\ reply = handler.head.reply /\ for = handler.head.for
         /\ for = Asked /\ hop = handler.hop + 1 /\ head = (performed[r] = "HEAD")
  <2>1. Len(conns) \in Nat /\ Len(responses) + 1 \in Nat \ {0} BY <1>1, Basics
  <2>2. /\ handler.conn \in Nat \ {0} /\ handler.request \in Requests
        /\ handler.host \in Places /\ handler.hop + 1 \in Nat
    BY <1>2, <1>3, <2>1 DEF Handler
  <2>3. /\ handler.head.reply \in Replies /\ handler.head.for \in For
        /\ handler.head.for = Asked
    BY <1>3 DEF Creating, Heads
  <2>4. (performed[handler.request] = "HEAD") \in BOOLEAN OBVIOUS
  <2> QED BY <2>1, <2>2, <2>3, <2>4
<1> DEFINE pieces == reply.pieces
           record == [conn |-> c, for |-> for, head |-> head,
                      delimited |-> reply.delimited, left |-> pieces,
                      ended |-> FALSE, closed |-> FALSE, known |-> FALSE]
           keep == [conn |-> c, host |-> host, head |-> head, response |-> m]
           wait == [request |-> r, own |-> TRUE, response |-> m]
<1>5. /\ pieces \in Nat /\ reply.location \in Places
      /\ reply.delimited \in {x.delimited : x \in Replies}
  BY DEF Places
<1>6. PICK new \in Response, k \in {NotKept} \cup LastOne,
           p \in [request : Requests, own : {TRUE}, response : Nat] :
         /\ new = record /\ k = (IF KeepAlive(reply) THEN keep ELSE NotKept) /\ p = wait
  <2>1. record \in Response
    <3> HIDE DEF pieces
    <3> QED BY <1>5 DEF Response
  <2>2. keep \in LastOne BY DEF LastOne
  <2>3. wait \in [request : Requests, own : {TRUE}, response : Nat] OBVIOUS
  <2> HIDE DEF record, keep, wait
  <2> QED BY <2>1, <2>2, <2>3
<1>7. /\ responses' = Append(responses, new)
      /\ \/ /\ Start(r, reply.location, hop, k, FALSE)
            /\ UNCHANGED <<inProgress, pending>>
         \/ /\ kept' = k /\ handler' = NoHandler /\ inProgress' = FALSE
            /\ pending' = Append(pending, p)
  <2>1. (handler.head.for = <<handler.request, handler.hop>>) = TRUE BY <1>4 DEF Asked
  <2> QED BY <1>3, <1>4, <1>6, <2>1 DEF CreateResponse
<1>8. /\ new.conn = c /\ new.for = Asked /\ new.head = head /\ new.left = pieces
      /\ new.ended = FALSE
      /\ p.request = r /\ p.response = m
  BY <1>4, <1>6
<1>9. /\ responses' \in Seq(Response) /\ Len(responses') = m /\ responses'[m] = new
      /\ \A i \in 1..Len(responses) : responses'[i] = responses[i]
  <2>1. responses \in Seq(Response) BY <1>1 DEF Types
  <2> QED BY <1>4, <1>7, <2>1, OneMore
<1>10. /\ conns[c].asked = << >>
       /\ conns[c].wire = Pieces(Asked, IF head THEN 0 ELSE pieces)
  BY <1>3, <1>4 DEF Creating, Expected
<1>11. head => Quiet(c)
  <2>1. Asked \in For BY <1>2, AskedIs
  <2> QED BY <1>10, <2>1, PiecesAre DEF Quiet
<1>12. k # NotKept => k.conn = c /\ k.head = head /\ k.response = m
  BY <1>6
<1> HIDE DEF record, keep, wait, pieces
<1>13. /\ \A i \in 1..m : i = m \/ i \in 1..Len(responses)
       /\ m \in 1..m /\ m \notin 1..Len(responses)
       /\ \A i \in 1..Len(responses) : i \in 1..m
  <2>1. Len(responses) \in Nat BY <1>1, Basics
  <2> QED BY <1>4, <2>1
<1>14. /\ \A i \in 1..Len(responses) : Unread(i)' <=> Unread(i)
       /\ Unread(m)' <=> ~head
  BY <1>8, <1>9 DEF Unread
<1>15. \A i \in 1..Len(responses) : Unread(i) => responses[i].conn # c
  BY <1>1, <1>3, <1>4 DEF Bodies, Body
<1>16. ASSUME OnConnection' => handler'.conn = c /\ head PROVE Bodies'
  <2>1. ASSUME NEW i \in 1..m
        PROVE  /\ responses'[i].conn \in 1..Len(conns')
               /\ responses'[i].delimited = "close" => ~responses'[i].ended
    BY <1>1, <1>2, <1>3, <1>4, <1>8, <1>9, <1>13, <2>1 DEF Bodies
  <2>2. ASSUME NEW i \in 1..Len(responses), Unread(i) PROVE Body(i)'
    <3>1. Body(i) /\ responses[i].conn # c BY <1>1, <1>15, <2>2 DEF Bodies
    <3>2. \A j \in 1..m : Unread(j)' /\ responses'[j].conn = responses[i].conn => j = i
      <4> SUFFICES ASSUME NEW j \in 1..m, Unread(j)', responses'[j].conn = responses[i].conn
                   PROVE  j = i
        OBVIOUS
      <4>1. j # m BY <1>8, <1>9, <3>1
      <4>2. j \in 1..Len(responses) /\ Unread(j) BY <1>13, <1>14, <4>1
      <4> QED BY <1>9, <3>1, <4>2 DEF Body
    <3>3. responses'[i] = responses[i] BY <1>9
    <3> QED BY <1>2, <1>9, <1>16, <3>1, <3>2, <3>3 DEF Body
  <2>3. ASSUME ~head PROVE Body(m)'
    <3>1. ~OnConnection' BY <1>16, <2>3
    <3>2. conns'[c].asked = << >> /\ conns'[c].wire = Pieces(Asked, pieces)
      BY <1>2, <1>10, <2>3
    <3>3. \A j \in 1..m : Unread(j)' /\ responses'[j].conn = c => j = m
      BY <1>9, <1>13, <1>14, <1>15
    <3> QED BY <1>5, <1>8, <1>9, <3>1, <3>2, <3>3 DEF Body
  <2> QED BY <1>9, <1>13, <1>14, <2>1, <2>2, <2>3 DEF Bodies
<1>17. CASE /\ Start(r, reply.location, hop, k, FALSE)
            /\ UNCHANGED <<inProgress, pending>>
  <2>1. /\ kept' = NotKept /\ handler' \in Handler /\ handler' # NoHandler
        /\ handler'.request = r
        /\ handler'.phase \in {"connecting", "sending"}
        /\ OnConnection' => /\ handler'.phase = "sending" /\ handler'.conn = k.conn
                            /\ k # NotKept /\ ~conns[k.conn].eof /\ k.head
    BY <1>5, <1>17, StartIs
  <2>2. OnConnection' => handler'.conn = c /\ head BY <1>12, <2>1
  <2>3. Types' BY <1>1, <1>2, <1>9, <1>17, <2>1 DEF Types
  <2>4. Bodies' BY <1>16, <2>2
  <2>5. Kept' BY <2>1 DEF Kept
  <2>6. Handled'
    <3>1. handler'.phase = "sending" => OnConnection' BY DEF OnConnection
    <3> QED BY <1>2, <1>3, <1>4, <1>11, <2>1, <2>2, <3>1 DEF Handled, Quiet
  <2>7. ASSUME NEW n \in 1..Len(pending) PROVE Waits(n)'
    <3>1. Waits(n) BY <1>1 DEF Once
    <3> QED BY <1>2, <1>4, <1>9, <1>13, <1>17, <2>1, <3>1 DEF Waits
  <2>8. Once' BY <1>1, <1>2, <1>4, <1>17, <2>1, <2>7 DEF Once
  <2> QED BY <2>3, <2>4, <2>5, <2>6, <2>8 DEF ClientInv
<1>18. CASE /\ kept' = k /\ handler' = NoHandler /\ inProgress' = FALSE
            /\ pending' = Append(pending, p)
  <2>1. ~OnConnection' BY <1>18 DEF OnConnection, NoHandler
  <2> DEFINE P == [request : Requests, own : {TRUE}, response : Nat]
             l == Len(pending) + 1
  <2>2. p \in P /\ pending \in Seq(P) /\ Len(pending) \in Nat
    BY <1>1, Basics DEF Types
  <2> HIDE DEF P
  <2>3. /\ pending' \in Seq(P) /\ Len(pending') = l /\ pending'[l] = p
        /\ \A n \in 1..Len(pending) : pending'[n] = pending[n]
    BY <1>18, <2>2, OneMore
  <2>4. Types' BY <1>1, <1>2, <1>9, <1>18, <2>3 DEF Types, P
  <2>5. Bodies' BY <1>16, <2>1
  <2>6. Kept'
    <3> SUFFICES ASSUME k # NotKept PROVE LastKept' BY <1>18 DEF Kept
    <3>1. k.conn = c /\ k.head = head /\ k.response = m BY <1>12
    <3>2. ~Unread(m)' => conns'[c].asked = << >> /\ conns'[c].wire = << >>
      BY <1>2, <1>11, <1>14 DEF Quiet
    <3>3. \A j \in 1..m : Unread(j)' /\ responses'[j].conn = c => j = m
      BY <1>9, <1>13, <1>14, <1>15
    <3> QED BY <1>8, <1>9, <1>13, <1>18, <3>1, <3>2, <3>3 DEF LastKept, Quiet, Unread
  <2>7. Handled' BY <1>18, <2>1 DEF Handled, NoHandler
  <2>8. \A n \in 1..l : n = l \/ n \in 1..Len(pending)
    BY <2>2
  <2>9. \A n \in 1..Len(pending) : Waits(n) /\ pending[n].request # r
    BY <1>1, <1>2, <1>4 DEF Once, Waits
  <2>10. ASSUME NEW n \in 1..l PROVE Waits(n)'
    <3>1. CASE n = l
      <4>1. \A q \in 1..l : pending'[q].request = r => q = l BY <1>8, <2>3, <2>8, <2>9
      <4>2. performed'[r] # "not yet" /\ told'[r] = << >> BY <1>1, <1>2, <1>4 DEF Once
      <4>3. pending'[n].request = r /\ pending'[n].response \in 1..Len(responses')
        BY <1>8, <1>9, <1>13, <2>3, <3>1
      <4>4. handler' = NoHandler BY <1>18
      <4>5. \A q \in 1..Len(pending') : pending'[q].request = pending'[n].request => q = n
        BY <2>3, <3>1, <4>1, <4>3
      <4> QED BY <4>2, <4>3, <4>4, <4>5 DEF Waits
    <3>2. CASE n \in 1..Len(pending)
      <4>1. \A q \in 1..l : pending'[q].request = pending[n].request => q = n
        <5> SUFFICES ASSUME NEW q \in 1..l, pending'[q].request = pending[n].request
                     PROVE  q = n
          OBVIOUS
        <5>1. q # l BY <1>8, <2>3, <2>9, <3>2
        <5> QED BY <2>3, <2>8, <2>9, <3>2, <5>1 DEF Waits
      <4>2. Waits(n) BY <2>9, <3>2
      <4> QED BY <1>2, <1>9, <1>13, <1>18, <2>3, <3>2, <4>1, <4>2 DEF Waits
    <3> QED BY <2>8, <3>1, <3>2
  <2>11. Once' BY <1>1, <1>2, <1>18, <2>3, <2>10 DEF Once
  <2> QED BY <2>4, <2>5, <2>6, <2>7, <2>11 DEF ClientInv
<1> QED BY <1>7, <1>17, <1>18

-----------------------------------------------------------------------------
(* The request that is read for finds what it found.                       *)
LEMMA ReadingSame ==
    ASSUME Reading, UNCHANGED <<handler, performed>>,
           conns'[handler.conn].asked = conns[handler.conn].asked,
           conns'[handler.conn].wire = conns[handler.conn].wire
    PROVE  Reading'
<1>1. Asked' = Asked BY DEF Asked
<1>2. \A reply : Expected(handler.request, reply)' = Expected(handler.request, reply)
  BY DEF Expected
<1>3. CASE conns[handler.conn].asked \in {<< >>, <<Asked>>} /\ conns[handler.conn].wire = << >>
  BY <1>1, <1>3 DEF Reading
<1>4. CASE /\ conns[handler.conn].asked = << >>
           /\ \E reply \in Replies : conns[handler.conn].wire =
                                        Reply(Asked, reply, Expected(handler.request, reply))
  <2>1. PICK reply \in Replies :
           conns[handler.conn].wire = Reply(Asked, reply, Expected(handler.request, reply))
    BY <1>4
  <2>2. (conns[handler.conn].wire = Reply(Asked, reply, Expected(handler.request, reply)))'
    BY <1>1, <1>2, <2>1
  <2>3. (conns[handler.conn].asked = << >>)' BY <1>4
  <2> QED BY <2>2, <2>3 DEF Reading
<1> QED BY <1>3, <1>4 DEF Reading

(* A response is told of or closed.                                        *)
LEMMA ResponseMarked ==
    ASSUME ClientInv, NEW i \in 1..Len(responses), NEW q \in Response,
           responses' = [responses EXCEPT ![i] = q],
           q.conn = responses[i].conn, q.for = responses[i].for, q.head = responses[i].head,
           q.delimited = responses[i].delimited, q.left = responses[i].left,
           q.ended = responses[i].ended, responses[i].closed => q.closed,
           UNCHANGED <<conns, kept, handler, performed>>
    PROVE  /\ responses' \in Seq(Response) /\ Len(responses') = Len(responses)
           /\ \A j \in 1..Len(responses) : responses[j].closed => responses'[j].closed
           /\ Bodies' /\ Kept' /\ Handled'
<1>1. Types /\ Bodies /\ Kept /\ Handled BY DEF ClientInv
<1>2. responses \in Seq(Response) BY <1>1 DEF Types
<1>3. /\ responses' \in Seq(Response) /\ Len(responses') = Len(responses) /\ responses'[i] = q
      /\ \A j \in 1..Len(responses) : j # i => responses'[j] = responses[j]
  BY <1>2, OneChanges
<1>4. SameResponses BY <1>3 DEF SameResponses
<1>5. CalmConns BY DEF CalmConns
<1>6. handler.phase = "reading" => Reading' BY <1>1, ReadingSame DEF Handled
<1>7. Bodies' /\ Kept' /\ Handled' BY <1>1, <1>4, <1>5, <1>6, CalmKeeps
<1> QED BY <1>3, <1>7

LEMMA DidPerformKeeps == ASSUME ClientInv, DidPerformRequest PROVE ClientInv'
<1>1. Types /\ Bodies /\ Kept /\ Handled /\ Once BY DEF ClientInv
<1> DEFINE P == [request : Requests, own : {TRUE}, response : Nat]
<1>2. pending \in Seq(P) /\ pending # << >> /\ Len(pending) \in Nat /\ Len(pending) > 0
  <2>1. pending \in Seq(P) /\ pending # << >> BY <1>1 DEF DidPerformRequest, Types
  <2> QED BY <2>1, EmptySeq
<1>3. PICK p \in P : p = Head(pending) BY <1>2, HeadTailProperties
<1>4. /\ told' = [told EXCEPT ![p.request] = Append(@, [ok |-> TRUE, own |-> p.own])]
      /\ responses' = [responses EXCEPT ![p.response].known = TRUE]
      /\ pending' = Tail(pending)
      /\ UNCHANGED <<conns, kept, inProgress, handler, performed, misread>>
  BY <1>3 DEF DidPerformRequest
<1>5. p = pending[1] /\ 1 \in 1..Len(pending) BY <1>2, <1>3
<1>6. /\ p.request \in Requests /\ p.own = TRUE /\ p.response \in 1..Len(responses)
      /\ told[p.request] = << >> /\ performed[p.request] # "not yet"
      /\ handler # NoHandler => handler.request # p.request
      /\ \A m \in 1..Len(pending) : pending[m].request = p.request => m = 1
  BY <1>1, <1>5 DEF Once, Waits
<1>7. /\ pending' \in Seq(P) /\ Len(pending') = Len(pending) - 1
      /\ \A n \in 1..Len(pending') : pending'[n] = pending[n + 1]
  BY <1>2, <1>4, HeadTailProperties
<1> HIDE DEF P
<1>8. \A n \in 1..Len(pending') :
         n + 1 \in 1..Len(pending) /\ n + 1 # 1 /\ pending[n + 1].request # p.request
  <2> SUFFICES ASSUME NEW n \in 1..Len(pending')
               PROVE  /\ n + 1 \in 1..Len(pending) /\ n + 1 # 1
                      /\ pending[n + 1].request # p.request
    OBVIOUS
  <2>1. n + 1 \in 1..Len(pending) /\ n + 1 # 1 BY <1>2, <1>7
  <2> QED BY <1>6, <2>1
<1>9. /\ told'[p.request] = <<Own>>
      /\ \A r \in Requests : r # p.request => told'[r] = told[r]
      /\ told' \in [Requests -> {<< >>, <<Own>>, <<NetworkFailed>>}]
  <2>1. Append(<< >>, Own) = <<Own>> OBVIOUS
  <2>2. told' = [told EXCEPT ![p.request] = <<Own>>] BY <1>4, <1>6, <2>1 DEF Own
  <2> QED BY <1>1, <1>6, <2>2 DEF Types
<1> DEFINE i == p.response
           q == [responses[i] EXCEPT !.known = TRUE]
<1>10. responses[i] \in Response /\ responses' = [responses EXCEPT ![i] = q]
  BY <1>1, <1>4, <1>6, Basics
<1>11. /\ q \in Response /\ q.conn = responses[i].conn /\ q.for = responses[i].for
       /\ q.head = responses[i].head /\ q.delimited = responses[i].delimited
       /\ q.left = responses[i].left /\ q.ended = responses[i].ended
       /\ q.closed = responses[i].closed
  BY <1>10 DEF Response
<1> HIDE DEF q
<1>12. /\ responses' \in Seq(Response) /\ Len(responses') = Len(responses)
       /\ \A j \in 1..Len(responses) : responses[j].closed => responses'[j].closed
       /\ Bodies' /\ Kept' /\ Handled'
  BY <1>4, <1>6, <1>10, <1>11, ResponseMarked
<1>13. Types' BY <1>1, <1>4, <1>7, <1>9, <1>12 DEF Types, P
<1>14. ASSUME NEW n \in 1..Len(pending') PROVE Waits(n)'
  <2>1. Waits(n + 1) /\ pending[n + 1].request \in Requests /\ pending'[n] = pending[n + 1]
    BY <1>1, <1>7, <1>8, Basics DEF Once
  <2>2. told'[pending[n + 1].request] = << >> BY <1>8, <1>9, <2>1 DEF Waits
  <2>3. \A m \in 1..Len(pending') : pending'[m].request = pending[n + 1].request => m = n
    <3> SUFFICES ASSUME NEW m \in 1..Len(pending'),
                        pending'[m].request = pending[n + 1].request
                 PROVE  m = n
      OBVIOUS
    <3>1. m + 1 = n + 1 BY <1>7, <1>8, <2>1 DEF Waits
    <3> QED BY <1>2, <1>7, <3>1
  <2> QED BY <1>4, <1>12, <2>1, <2>2, <2>3 DEF Waits
<1>15. Once'
  <2>1. handler' # NoHandler => /\ inProgress'
                                /\ performed'[handler'.request] # "not yet"
                                /\ told'[handler'.request] = << >>
    BY <1>1, <1>4, <1>6, <1>9, Basics DEF Once, Handler
  <2>2. \A r \in Requests : performed'[r] = "not yet" => told'[r] = << >>
    BY <1>1, <1>4, <1>6, <1>9 DEF Once
  <2>3. inProgress' => handler' # NoHandler \/ ClosedOne'
    BY <1>1, <1>4, <1>12 DEF Once, ClosedOne
  <2> QED BY <1>14, <2>1, <2>2, <2>3 DEF Once
<1> QED BY <1>12, <1>13, <1>15 DEF ClientInv

LEMMA CloseKeeps ==
    ASSUME ClientInv, NEW i \in 1..Len(responses), CloseResponse(i) PROVE ClientInv'
<1>1. Types /\ Bodies /\ Kept /\ Handled /\ Once BY DEF ClientInv
<1> DEFINE q == [responses[i] EXCEPT !.closed = TRUE]
<1>2. /\ responses[i] \in Response /\ responses' = [responses EXCEPT ![i] = q]
      /\ UNCHANGED <<conns, kept, inProgress, handler, pending, performed, told, misread>>
  BY <1>1, Basics DEF CloseResponse
<1>3. /\ q \in Response /\ q.conn = responses[i].conn /\ q.for = responses[i].for
      /\ q.head = responses[i].head /\ q.delimited = responses[i].delimited
      /\ q.left = responses[i].left /\ q.ended = responses[i].ended
      /\ responses[i].closed => q.closed
  BY <1>2 DEF Response
<1> HIDE DEF q
<1>4. /\ responses' \in Seq(Response) /\ Len(responses') = Len(responses)
      /\ \A j \in 1..Len(responses) : responses[j].closed => responses'[j].closed
      /\ Bodies' /\ Kept' /\ Handled'
  BY <1>2, <1>3, ResponseMarked
<1>5. Types' BY <1>1, <1>2, <1>4 DEF Types
<1>6. Once' BY <1>1, <1>2, <1>4, OnceKeeps
<1> QED BY <1>4, <1>5, <1>6 DEF ClientInv

LEMMA ReadBodyKeeps ==
    ASSUME ClientInv, NEW i \in 1..Len(responses), ReadBody(i) PROVE ClientInv'
<1>1. Types /\ Bodies /\ Kept /\ Handled /\ Once BY DEF ClientInv
<1>2. PICK p \in Response : p = responses[i] BY <1>1, Basics
<1>3. PICK d \in Nat : d = p.conn /\ d \in 1..Len(conns)
  BY <1>1, <1>2 DEF Bodies, Response
<1>4. conns[d] \in Conn /\ conns \in Seq(Conn) /\ responses \in Seq(Response)
      /\ Len(conns) \in Nat /\ Len(responses) \in Nat
  BY <1>1, <1>3, Basics DEF Types
<1>5. /\ ~p.head /\ ~AtEnd(i) /\ (p.delimited = "length" => p.left > 0)
      /\ UNCHANGED <<kept, inProgress, handler, pending, performed, told>>
  BY <1>2 DEF ReadBody
<1>6. ~p.ended BY <1>1, <1>2, <1>5 DEF AtEnd, Bodies
<1>7. Unread(i) /\ Body(i) BY <1>1, <1>2, <1>5, <1>6 DEF Unread, Bodies
<1>8. /\ p.left \in Nat /\ conns[d].asked = << >>
      /\ conns[d].wire = Pieces(p.for, p.left)
      /\ OnConnection => handler.conn # d
      /\ \A j \in 1..Len(responses) : Unread(j) /\ responses[j].conn = d => j = i
      /\ p.for \in For /\ (p.delimited = "close" => ~p.ended)
  <2>1. p.for \in For BY DEF Response
  <2>2. responses[i].conn = d /\ responses[i].for = p.for /\ responses[i].left = p.left
    BY <1>2, <1>3
  <2> QED BY <1>6, <1>7, <2>1, <2>2 DEF Body
<1>9. CASE /\ conns[d].wire # << >>
           /\ conns' = [conns EXCEPT ![d].wire = Tail(@)]
           /\ responses' = [responses EXCEPT ![i].left = @ - 1,
                              ![i].ended = p.delimited = "length" /\ p.left = 1]
           /\ misread' = (misread \/ Head(conns[d].wire).is # "body"
                                  \/ Head(conns[d].wire).for # p.for)
  <2>1. /\ p.left > 0 /\ Head(conns[d].wire) = [is |-> "body", for |-> p.for]
        /\ Tail(conns[d].wire) = Pieces(p.for, p.left - 1)
    <3>1. p.left \in Nat /\ p.for \in For /\ conns[d].wire = Pieces(p.for, p.left) BY <1>8
    <3>2. p.left # 0 BY <1>9, <3>1, PiecesAre
    <3>3. p.left > 0 BY <3>1, <3>2
    <3> QED BY <3>1, <3>3, PiecesAre
  <2>2. PICK n \in Nat : n = p.left - 1 BY <1>8, <2>1
  <2>3. PICK w \in Seq(Items) : w = Pieces(p.for, n) /\ (n = 0 => w = << >>)
    BY <1>8, PiecesAre
  <2> DEFINE k == [conns[d] EXCEPT !.wire = w]
             over == p.delimited = "length" /\ p.left = 1
             q == [p EXCEPT !.left = n, !.ended = over]
  <2>4. conns' = [conns EXCEPT ![d] = k] BY <1>3, <1>4, <1>9, <2>1, <2>2, <2>3
  <2>5. k \in Conn /\ k.asked = << >> /\ k.wire = w BY <1>4, <1>8 DEF Conn
  <2>6. responses' = [responses EXCEPT ![i] = q] BY <1>2, <1>4, <1>9, <2>2
  <2>7. /\ q \in Response /\ q.conn = d /\ q.for = p.for /\ q.head = p.head /\ q.left = n
        /\ q.delimited = p.delimited /\ q.ended = over /\ q.closed = p.closed
    <3>1. over \in BOOLEAN /\ n \in Int OBVIOUS
    <3> HIDE DEF over
    <3> QED BY <1>2, <1>3, <3>1 DEF Response
  <2>8. /\ over => n = 0
        /\ p.delimited = "close" => ~over
    BY <1>8, <2>2
  <2> HIDE DEF k, q, over
  <2>9. /\ conns' \in Seq(Conn) /\ Len(conns') = Len(conns) /\ conns'[d] = k
        /\ \A e \in 1..Len(conns) : e # d => conns'[e] = conns[e]
    BY <1>3, <1>4, <2>4, <2>5, OneChanges
  <2>10. /\ responses' \in Seq(Response) /\ Len(responses') = Len(responses)
         /\ responses'[i] = q
         /\ \A j \in 1..Len(responses) : j # i => responses'[j] = responses[j]
    BY <1>4, <2>6, <2>7, OneChanges
  <2>11. misread' = FALSE
    <3>1. misread = FALSE BY <1>1 DEF Types
    <3>2. Head(conns[d].wire).is = "body" /\ Head(conns[d].wire).for = p.for BY <2>1
    <3> QED BY <1>9, <3>1, <3>2
  <2>12. Types' BY <1>1, <1>5, <2>9, <2>10, <2>11 DEF Types
  <2>13. /\ \A j \in 1..Len(responses) : j # i => (Unread(j)' <=> Unread(j))
         /\ Unread(i)' <=> ~over
         /\ \A j \in 1..Len(responses) : responses'[j].conn = responses[j].conn
    BY <1>2, <1>3, <1>5, <2>7, <2>10 DEF Unread
  <2>14. OnConnection' <=> OnConnection BY <1>5 DEF OnConnection
  <2>15. \A j \in 1..Len(responses) : Unread(j)' => Unread(j)
    BY <1>7, <2>13
  <2>16. Bodies'
    <3>1. ASSUME NEW j \in 1..Len(responses)
          PROVE  /\ responses'[j].conn \in 1..Len(conns')
                 /\ responses'[j].delimited = "close" => ~responses'[j].ended
      <4>1. CASE j = i BY <1>3, <2>7, <2>8, <2>9, <2>10, <4>1
      <4>2. CASE j # i BY <1>1, <2>9, <2>10, <4>2 DEF Bodies
      <4> QED BY <4>1, <4>2
    <3>2. ASSUME Unread(i)' PROVE Body(i)'
      <4>1. \A j \in 1..Len(responses') : Unread(j)' /\ responses'[j].conn = d => j = i
        BY <1>8, <2>10, <2>13, <2>15
      <4>2. responses'[i].conn = d /\ responses'[i].for = p.for /\ responses'[i].left = n
        BY <2>7, <2>10
      <4> QED BY <1>5, <1>8, <2>3, <2>5, <2>9, <2>14, <4>1, <4>2 DEF Body
    <3>3. ASSUME NEW j \in 1..Len(responses), j # i, Unread(j)' PROVE Body(j)'
      <4>1. Unread(j) /\ Body(j) BY <1>1, <2>13, <3>3 DEF Bodies
      <4>2. responses[j].conn # d /\ responses[j].conn \in 1..Len(conns)
        BY <1>1, <1>8, <3>3, <4>1 DEF Bodies
      <4>3. \A l \in 1..Len(responses') :
               Unread(l)' /\ responses'[l].conn = responses[j].conn => l = j
        BY <2>10, <2>13, <2>15, <4>1 DEF Body
      <4>4. responses'[j] = responses[j] /\ conns'[responses[j].conn] = conns[responses[j].conn]
        BY <2>9, <2>10, <3>3, <4>2
      <4> QED BY <1>5, <2>14, <4>1, <4>3, <4>4 DEF Body
    <3> QED BY <2>10, <3>1, <3>2, <3>3 DEF Bodies
  <2>17. Kept'
    <3> SUFFICES ASSUME kept # NotKept PROVE LastKept' BY <1>5 DEF Kept
    <3>1. LastKept BY <1>1 DEF Kept
    <3>2. PICK l \in 1..Len(responses) : l = kept.response BY <3>1 DEF LastKept
    <3>3. PICK f : f = kept.conn OBVIOUS
    <3>4. /\ f = responses[l].conn /\ kept.head = responses[l].head
          /\ ~Unread(l) => conns[f].asked = << >> /\ conns[f].wire = << >>
          /\ \A j \in 1..Len(responses) : Unread(j) /\ responses[j].conn = f => j = l
          /\ handler = NoHandler /\ f \in 1..Len(conns)
      BY <1>1, <3>1, <3>2, <3>3 DEF LastKept, Quiet, Bodies
    <3>5. \A j \in 1..Len(responses') : Unread(j)' /\ responses'[j].conn = f => j = l
      BY <2>10, <2>13, <2>15, <3>4
    <3>6. kept.head = responses'[l].head
      BY <1>2, <2>7, <2>10, <3>4
    <3>7. ASSUME ~Unread(l)' PROVE conns'[f].asked = << >> /\ conns'[f].wire = << >>
      <4>1. CASE l = i
        <5>1. f = d /\ over BY <1>2, <1>3, <2>13, <3>4, <3>7, <4>1
        <5> QED BY <2>3, <2>5, <2>8, <2>9, <5>1
      <4>2. CASE l # i
        <5>1. f # d BY <1>7, <1>2, <1>3, <3>4, <4>2
        <5>2. ~Unread(l) BY <2>13, <3>7, <4>2
        <5> QED BY <2>9, <3>4, <5>1, <5>2
      <4> QED BY <4>1, <4>2
    <3> QED BY <1>5, <2>10, <2>13, <3>2, <3>3, <3>4, <3>5, <3>6, <3>7 DEF LastKept, Quiet
  <2>18. Handled'
    <3>1. ASSUME OnConnection
          PROVE  /\ handler.conn \in 1..Len(conns)
                 /\ conns'[handler.conn] = conns[handler.conn]
      BY <1>1, <1>8, <2>9, <3>1 DEF Handled
    <3>2. (handler.phase = "reading" => Reading)'
      <4>1. handler.phase = "reading" => OnConnection /\ Reading
        BY <1>1 DEF OnConnection, Handled
      <4> QED BY <1>5, <3>1, <4>1, ReadingSame
    <3>3. ASSUME handler.phase = "creating" PROVE Creating'
      <4>1. OnConnection /\ Creating BY <1>1, <3>3 DEF OnConnection, Handled
      <4>2. Asked' = Asked BY <1>5 DEF Asked
      <4>3. \A s, reply : Expected(s, reply)' = Expected(s, reply) BY <1>5 DEF Expected
      <4> QED BY <1>5, <3>1, <4>1, <4>2, <4>3 DEF Creating
    <3>4. (handler.phase = "sending" => Quiet(handler.conn))'
      <4>1. handler.phase = "sending" => OnConnection /\ Quiet(handler.conn)
        BY <1>1 DEF OnConnection, Handled
      <4> QED BY <1>5, <3>1, <4>1 DEF Quiet
    <3>5. (OnConnection => handler.conn \in 1..Len(conns))' BY <1>5, <2>9, <2>14, <3>1
    <3>6. (handler.phase = "creating" => Creating)' BY <1>5, <3>3
    <3> QED BY <3>2, <3>4, <3>5, <3>6 DEF Handled
  <2>19. Once'
    <3>1. \A j \in 1..Len(responses) : responses[j].closed => responses'[j].closed
      BY <1>2, <2>7, <2>10
    <3> QED BY <1>1, <1>5, <2>10, <3>1, OnceKeeps
  <2> QED BY <2>12, <2>16, <2>17, <2>18, <2>19 DEF ClientInv
<1>10. CASE /\ conns' = [conns EXCEPT ![d].eof = TRUE]
            /\ UNCHANGED <<responses, misread>>
  <2> DEFINE k == [conns[d] EXCEPT !.eof = TRUE]
  <2>1. conns' = [conns EXCEPT ![d] = k] BY <1>3, <1>4, <1>10
  <2>2. k \in Conn /\ k.asked = conns[d].asked /\ k.wire = conns[d].wire
    BY <1>4 DEF Conn
  <2> HIDE DEF k
  <2>3. /\ conns' \in Seq(Conn) /\ Len(conns') = Len(conns) /\ conns'[d] = k
        /\ \A e \in 1..Len(conns) : e # d => conns'[e] = conns[e]
    BY <1>3, <1>4, <2>1, <2>2, OneChanges
  <2>4. Types' BY <1>1, <1>5, <1>10, <2>3 DEF Types
  <2>5. \A e \in 1..Len(conns) : /\ conns'[e].asked = conns[e].asked
                                 /\ conns'[e].wire = conns[e].wire
    BY <2>2, <2>3
  <2>6. CalmConns BY <2>3, <2>5 DEF CalmConns
  <2>7. handler.phase = "reading" => Reading'
    <3>1. handler.phase = "reading" => Reading /\ handler.conn \in 1..Len(conns)
      BY <1>1 DEF Handled, OnConnection
    <3> QED BY <1>5, <2>5, <3>1, ReadingSame
  <2>8. Bodies' /\ Kept' /\ Handled'
    BY <1>1, <1>5, <1>10, <2>6, <2>7, SameIsSame, CalmKeeps
  <2>9. Once' BY <1>1, <1>5, <1>10, OnceKeeps
  <2> QED BY <2>4, <2>8, <2>9 DEF ClientInv
<1> QED BY <1>2, <1>3, <1>9, <1>10 DEF ReadBody

(* A step of the server of connection d, which is given k.                 *)
LEMMA ServerKeeps ==
    ASSUME ClientInv, NEW d \in 1..Len(conns), NEW k \in Conn,
           conns' = [conns EXCEPT ![d] = k],
           conns[d].asked = << >> => k.asked = << >> /\ k.wire = conns[d].wire,
           handler.phase = "reading" /\ handler.conn = d => Reading',
           UNCHANGED <<kept, inProgress, handler, responses, pending, performed, told, misread>>
    PROVE  ClientInv'
<1>1. Types /\ Bodies /\ Kept /\ Handled /\ Once BY DEF ClientInv
<1>2. /\ conns' \in Seq(Conn) /\ Len(conns') = Len(conns) /\ conns'[d] = k
      /\ \A e \in 1..Len(conns) : e # d => conns'[e] = conns[e]
  <2>1. conns \in Seq(Conn) BY <1>1 DEF Types
  <2> QED BY <2>1, OneChanges
<1>3. Types' BY <1>1, <1>2 DEF Types
<1>4. CalmConns BY <1>2 DEF CalmConns
<1>5. handler.phase = "reading" => Reading'
  <2>1. handler.phase = "reading" => Reading /\ handler.conn \in 1..Len(conns)
    BY <1>1 DEF Handled, OnConnection
  <2>2. handler.phase = "reading" /\ handler.conn # d => Reading'
    BY <1>2, <2>1, ReadingSame
  <2> QED BY <2>2
<1>6. Bodies' /\ Kept' /\ Handled' BY <1>1, <1>4, <1>5, SameIsSame, CalmKeeps
<1>7. Once' BY <1>1, OnceKeeps
<1> QED BY <1>3, <1>6, <1>7 DEF ClientInv

LEMMA AnswerKeeps ==
    ASSUME ClientInv, NEW d \in 1..Len(conns), Answer(d) PROVE ClientInv'
<1>1. Types /\ Handled BY DEF ClientInv
<1>2. /\ conns[d] \in Conn /\ conns \in Seq(Conn) /\ conns[d].asked \in Seq(For)
      /\ conns[d].asked # << >> /\ conns[d].wire \in Seq(Items)
  BY <1>1, Basics DEF Types, Answer, Conn
<1>3. PICK for \in For : for = Head(conns[d].asked) BY <1>2, HeadTailProperties
<1>4. PICK method : method = performed[for[1]] OBVIOUS
<1>5. PICK reply \in Replies :
         conns' = [conns EXCEPT
           ![d].asked = Tail(@),
           ![d].open = ~ServerCloses(reply, method),
           ![d].wire = @ \o <<[is |-> "head", for |-> for, reply |-> reply]>>
                         \o (IF method = "HEAD" THEN << >>
                             ELSE [n \in 1..reply.pieces |-> [is |-> "body", for |-> for]])]
  <2>1. PICK reply \in Replies :
         conns' = [conns EXCEPT
           ![d].asked = Tail(@),
           ![d].open = ~ServerCloses(reply, performed[Head(conns[d].asked)[1]]),
           ![d].wire =
             @ \o <<[is |-> "head", for |-> Head(conns[d].asked), reply |-> reply]>>
               \o (IF performed[Head(conns[d].asked)[1]] = "HEAD" THEN << >>
                   ELSE [n \in 1..reply.pieces |->
                            [is |-> "body", for |-> Head(conns[d].asked)]])]
    BY DEF Answer
  <2>2. Head(conns[d].asked) = for /\ performed[Head(conns[d].asked)[1]] = method
    BY <1>3, <1>4
  <2> QED BY <2>1, <2>2
<1> DEFINE h == [is |-> "head", for |-> for, reply |-> reply]
           n == IF method = "HEAD" THEN 0 ELSE reply.pieces
<1>6. n \in Nat OBVIOUS
<1>7. PICK b \in Seq(Items) : b = Pieces(for, n) BY <1>6, PiecesAre
<1>8. (IF method = "HEAD" THEN << >>
       ELSE [j \in 1..reply.pieces |-> [is |-> "body", for |-> for]]) = b
  <2>1. CASE method = "HEAD" BY <1>7, <2>1, PiecesAre
  <2>2. CASE method # "HEAD" BY <1>7, <2>2 DEF Pieces
  <2> QED BY <2>1, <2>2
<1>9. PICK w : w = conns[d].wire \o <<h>> \o b OBVIOUS
<1>10. PICK o \in BOOLEAN : o = ~ServerCloses(reply, method) BY DEF ServerCloses
<1>11. PICK a \in Seq(For) : a = Tail(conns[d].asked) BY <1>2, HeadTailProperties
<1> DEFINE k == [conns[d] EXCEPT !.asked = a, !.open = o, !.wire = w]
<1>12. conns' = [conns EXCEPT ![d] = k]
  <2>1. conns' = [conns EXCEPT ![d].asked = a, ![d].open = o, ![d].wire = w]
    <3> HIDE DEF h
    <3> QED BY <1>2, <1>5, <1>8, <1>9, <1>10, <1>11 DEF h
  <2> QED BY <1>2, <2>1
<1>13. w \in Seq(Items)
  <2>1. h \in Items BY DEF Items, Heads
  <2> HIDE DEF h
  <2>2. <<h>> \in Seq(Items) BY <2>1
  <2>3. conns[d].wire \o <<h>> \in Seq(Items) BY <1>2, <2>2, ConcatProperties
  <2> QED BY <1>9, <2>3, ConcatProperties
<1>14. k \in Conn /\ k.asked = a /\ k.wire = w BY <1>2, <1>13 DEF Conn
<1> HIDE DEF k
<1>15. UNCHANGED <<kept, inProgress, handler, responses, pending, performed, told, misread>>
  BY DEF Answer
<1>16. ASSUME handler.phase = "reading", handler.conn = d PROVE Reading'
  <2>1. Reading BY <1>1, <1>16 DEF Handled
  <2>2. conns[d].asked = <<Asked>> /\ conns[d].wire = << >>
    BY <1>2, <1>16, <2>1 DEF Reading
  <2>3. handler # NoHandler BY <1>16 DEF NoHandler
  <2>4. Asked \in For BY <1>1, <2>3, Basics, AskedIs
  <2>5. for = Asked /\ a = << >> /\ for[1] = handler.request
    <3>1. Head(<<Asked>>) = Asked /\ Tail(<<Asked>>) = << >> OBVIOUS
    <3> QED BY <1>3, <1>11, <2>2, <3>1 DEF Asked
  <2>6. n = Expected(handler.request, reply) BY <1>4, <2>5 DEF Expected
  <2>7. w = Reply(Asked, reply, n)
    <3>1. << >> \o <<h>> = <<h>>
      <4>1. h \in Items BY DEF Items, Heads
      <4> HIDE DEF h
      <4>2. <<h>> \in Seq(Items) BY <4>1
      <4> QED BY <4>2, ConcatEmptySeq
    <3> QED BY <1>7, <1>9, <2>2, <2>5, <3>1 DEF Reply
  <2>8. conns'[d] = k BY <1>2, <1>12, <1>14, OneChanges
  <2>9. Asked' = Asked /\ Expected(handler.request, reply)' = Expected(handler.request, reply)
    BY <1>15 DEF Asked, Expected
  <2>10. (conns[handler.conn].wire = Reply(Asked, reply, Expected(handler.request, reply)))'
    <3>1. conns'[handler'.conn].wire = w BY <1>14, <1>15, <1>16, <2>8
    <3> QED BY <2>6, <2>7, <2>9, <3>1
  <2>11. (conns[handler.conn].asked = << >>)' BY <1>14, <1>15, <1>16, <2>5, <2>8
  <2> QED BY <2>10, <2>11 DEF Reading
<1> QED BY <1>2, <1>12, <1>14, <1>15, <1>16, ServerKeeps

LEMMA DisconnectKeeps ==
    ASSUME ClientInv, NEW d \in 1..Len(conns), Disconnect(d) PROVE ClientInv'
<1>1. Types /\ Handled BY DEF ClientInv
<1>2. conns[d] \in Conn /\ conns \in Seq(Conn) BY <1>1, Basics DEF Types
<1> DEFINE k == [conns[d] EXCEPT !.open = FALSE, !.asked = << >>]
<1>3. /\ conns' = [conns EXCEPT ![d] = k]
      /\ UNCHANGED <<kept, inProgress, handler, responses, pending, performed, told, misread>>
  BY <1>2 DEF Disconnect
<1>4. k \in Conn /\ k.asked = << >> /\ k.wire = conns[d].wire
  <2>1. << >> \in Seq(For) OBVIOUS
  <2> QED BY <1>2, <2>1 DEF Conn
<1> HIDE DEF k
<1>5. ASSUME handler.phase = "reading", handler.conn = d PROVE Reading'
  <2>1. Reading BY <1>1, <1>5 DEF Handled
  <2>2. conns'[d] = k BY <1>2, <1>3, <1>4, OneChanges
  <2>3. conns'[d].asked = << >> /\ conns'[d].wire = conns[d].wire BY <1>4, <2>2
  <2>4. CASE conns[d].wire = << >>
    BY <1>3, <1>5, <2>3, <2>4 DEF Reading
  <2>5. CASE conns[d].wire # << >>
    <3>1. conns[d].asked = << >> BY <1>5, <2>1, <2>5 DEF Reading
    <3> QED BY <1>3, <1>5, <2>1, <2>3, <3>1, ReadingSame
  <2> QED BY <2>4, <2>5
<1> QED BY <1>3, <1>4, <1>5, ServerKeeps

LEMMA CloseClientKeeps == ASSUME ClientInv, CloseClient PROVE ClientInv'
<1>1. Types /\ Bodies /\ Kept /\ Handled /\ Once BY DEF ClientInv
<1>2. /\ kept' = NotKept
      /\ UNCHANGED <<conns, inProgress, handler, responses, pending, performed, told, misread>>
  BY DEF CloseClient
<1>3. Types' BY <1>1, <1>2 DEF Types
<1>4. CalmConns BY <1>2 DEF CalmConns
<1>5. handler.phase = "reading" => Reading' BY <1>1, <1>2, ReadingSame DEF Handled
<1>6. Bodies' /\ Kept' /\ Handled' BY <1>1, <1>2, <1>4, <1>5, SameIsSame, CalmKeeps
<1>7. Once' BY <1>1, <1>2, OnceKeeps
<1> QED BY <1>3, <1>6, <1>7 DEF ClientInv

LEMMA NothingKeeps == ASSUME ClientInv, UNCHANGED httpVars PROVE ClientInv'
<1>1. Types /\ Bodies /\ Kept /\ Handled /\ Once BY DEF ClientInv
<1>2. UNCHANGED <<kept, conns, inProgress, handler, responses, pending, performed, told, misread>>
  BY DEF httpVars
<1>3. Types' BY <1>1, <1>2 DEF Types
<1>4. CalmConns BY <1>2 DEF CalmConns
<1>5. handler.phase = "reading" => Reading' BY <1>1, <1>2, ReadingSame DEF Handled
<1>6. Bodies' /\ Kept' /\ Handled' BY <1>1, <1>2, <1>4, <1>5, SameIsSame, CalmKeeps
<1>7. Once' BY <1>1, <1>2, OnceKeeps
<1> QED BY <1>3, <1>6, <1>7 DEF ClientInv

-----------------------------------------------------------------------------
LEMMA Inductive == ASSUME ClientInv, [HTTPNext]_httpVars PROVE ClientInv'
<1>1. DOMAIN responses = 1..Len(responses) /\ DOMAIN conns = 1..Len(conns)
  BY Basics DEF ClientInv
<1>2. ASSUME NEW r \in Requests, AsyncPerformRequest(r) PROVE ClientInv'
  BY <1>2, AsyncPerformKeeps
<1>3. ASSUME NEW i \in 1..Len(responses), ReadBody(i) \/ CloseResponse(i) PROVE ClientInv'
  BY <1>3, ReadBodyKeeps, CloseKeeps
<1>4. ASSUME NEW d \in 1..Len(conns), Answer(d) \/ Disconnect(d) PROVE ClientInv'
  BY <1>4, AnswerKeeps, DisconnectKeeps
<1> QED BY <1>1, <1>2, <1>3, <1>4, DidConnectKeeps, SendKeeps, DidReadLineKeeps, CreateKeeps,
           DidPerformKeeps, CloseClientKeeps, NothingKeeps
        DEF HTTPNext

LEMMA Initial == ASSUME HTTPInit PROVE ClientInv
<1>1. /\ conns = << >> /\ kept = NotKept /\ inProgress = FALSE /\ handler = NoHandler
      /\ responses = << >> /\ pending = << >> /\ misread = FALSE
      /\ performed = [r \in Requests |-> "not yet"] /\ told = [r \in Requests |-> << >>]
  BY DEF HTTPInit
<1>2. Types
  <2>1. /\ << >> \in Seq(Conn)
        /\ << >> \in Seq(Response)
        /\ << >> \in Seq([request : Requests, own : {TRUE}, response : Nat])
    OBVIOUS
  <2>2. /\ [r \in Requests |-> "not yet"] \in [Requests -> {"not yet", "GET", "HEAD"}]
        /\ [r \in Requests |-> << >>]
              \in [Requests -> {<< >>, <<Own>>, <<NetworkFailed>>}]
    OBVIOUS
  <2> QED BY <1>1, <2>1, <2>2 DEF Types
<1>3. Len(responses) = 0 /\ Len(pending) = 0 /\ 1..0 = {}
  <2>1. Len(<< >>) = 0 OBVIOUS
  <2>2. 1..0 = {} OBVIOUS
  <2> QED BY <1>1, <2>1, <2>2
<1>4. Bodies BY <1>3 DEF Bodies
<1>5. Kept BY <1>1 DEF Kept
<1>6. Handled BY <1>1 DEF Handled, OnConnection, NoHandler
<1>7. Once BY <1>1, <1>3 DEF Once
<1> QED BY <1>2, <1>4, <1>5, <1>6, <1>7 DEF ClientInv

(* Whatever servers that answer what they are asked send and whenever they *)
(* disconnect, over whatever connections kept, made and retried: a request *)
(* is told of once, with its own response or a failure of the network, and *)
(* no body is read from another response's bytes.                          *)
THEOREM AnswersAreOwn == HTTPSpec => []OwnAnswers
<1>1. ClientInv => OwnAnswers
  <2> SUFFICES ASSUME ClientInv PROVE OwnAnswers
    OBVIOUS
  <2>1. Types /\ Once BY DEF ClientInv
  <2>2. ASSUME NEW r \in Requests
        PROVE  /\ Len(told[r]) <= 1
               /\ told[r] # << >> => IF told[r][1].ok THEN told[r][1].own
                                     ELSE told[r][1].why = "network"
    <3>1. told[r] \in {<< >>, <<Own>>, <<NetworkFailed>>} BY <2>1 DEF Types
    <3>2. Len(<<Own>>) = 1 /\ <<Own>>[1].ok /\ <<Own>>[1].own BY DEF Own
    <3>3. /\ Len(<<NetworkFailed>>) = 1 /\ ~<<NetworkFailed>>[1].ok
          /\ <<NetworkFailed>>[1].why = "network"
      BY DEF NetworkFailed
    <3>4. Len(<< >>) = 0 OBVIOUS
    <3>5. CASE told[r] = << >> BY <3>4, <3>5
    <3>6. CASE told[r] = <<Own>> BY <3>2, <3>6
    <3>7. CASE told[r] = <<NetworkFailed>> BY <3>3, <3>7
    <3> QED BY <3>1, <3>5, <3>6, <3>7
  <2>3. ~misread BY <2>1 DEF Types
  <2>4. /\ handler.phase # "none" => inProgress
        /\ inProgress => handler.phase # "none" \/ KeptIsClosed
    <3>1. DOMAIN responses = 1..Len(responses)
      <4>1. responses \in Seq(Response) BY <2>1 DEF Types
      <4> QED BY <4>1, LenProperties
    <3>2. ClosedOne => KeptIsClosed BY <3>1 DEF ClosedOne, KeptIsClosed
    <3> QED BY <2>1, <3>2, Basics DEF Once
  <2> QED BY <2>2, <2>3, <2>4 DEF OwnAnswers
<1> QED BY <1>1, Initial, Inductive, PTL DEF HTTPSpec
=============================================================================
