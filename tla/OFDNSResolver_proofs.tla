------------------------ MODULE OFDNSResolver_proofs ------------------------
(***************************************************************************)
(* Theorems about OFDNSResolver, for any number of queries, name servers   *)
(* and attempts.                                                           *)
(***************************************************************************)
EXTENDS OFDNSResolver, TLAPS

Context == [live : BOOLEAN, timer : BOOLEAN, server : Nat, attempt : Nat,
            usesTCP : BOOLEAN, used : Nat, sends : Nat,
            tcp : {"none", "connecting", "reporting", "writing", "length", "body"}]

(* The typing, apart from the bound of the attempts, which Counted gives.  *)
Typed == /\ ctx \in [Queries -> Context]
         /\ answers \in [Queries -> Nat]
         /\ asked \subseteq Queries \X Servers
         /\ receives \in Nat
         /\ stray \in BOOLEAN /\ closed \in BOOLEAN
         /\ aborted \in {"no", "socket", "context", "length"}

(* A query that was answered is over, and one that was never sent is not   *)
(* under way: what is answered next was not answered before.               *)
OverOnceAnswered ==
    \A q \in Queries : ~closed /\ answers[q] > 0 =>
        answers[q] = 1 /\ ~ctx[q].live /\ ~ctx[q].timer

NeverSent ==
    \A q \in Queries : ctx[q].sends = 0 => ~ctx[q].live /\ ~ctx[q].timer

(* Going over to TCP costs one more send.                                  *)
Extra(c) == IF c.usesTCP THEN 1 ELSE 0

(* How a query counts: in the attempts before this one it was sent once to *)
(* every server, in this one to every server up to the present one, and    *)
(* a query with a timer still has an attempt to make.                      *)
Counts(c) ==
    /\ c.attempt <= MaxAttempts
    /\ c.sends <= NameServers * MaxAttempts + 1
    /\ c.sends = 0 => c.server = 0 /\ c.attempt = 0
    /\ c.sends > 0 => c.server < NameServers
    /\ c.timer => /\ c.attempt < MaxAttempts
                  /\ c.sends <= NameServers * c.attempt + c.server + 1 + Extra(c)

Counted == \A q \in Queries : Counts(ctx[q])

(* A context that may be sent (again) without losing count.                *)
MaySend(c) ==
    /\ c.attempt < MaxAttempts /\ c.server < NameServers
    /\ c.sends <= NameServers * c.attempt + c.server + Extra(c)

IInv == Typed /\ LiveHasTimer /\ OverOnceAnswered /\ NeverSent /\ Counted

USE ResolverAssumption

-----------------------------------------------------------------------------
(* Contexts after the assignments of the code.                             *)
LEMMA ContextSteps ==
    ASSUME NEW c \in Context
    PROVE  /\ [c EXCEPT !.live = FALSE, !.timer = FALSE] \in Context
           /\ [c EXCEPT !.timer = FALSE, !.tcp = "none"] \in Context
           /\ [c EXCEPT !.live = FALSE] \in Context
           /\ [c EXCEPT !.usesTCP = TRUE] \in Context
           /\ [c EXCEPT !.server = @ + 1] \in Context
           /\ [c EXCEPT !.attempt = @ + 1] \in Context
           /\ [c EXCEPT !.sends = @ + 1] \in Context
           /\ [c EXCEPT !.server = 0] \in Context
<1>1. c.server + 1 \in Nat /\ c.attempt + 1 \in Nat /\ c.sends + 1 \in Nat
  BY DEF Context
<1>2. [c EXCEPT !.live = FALSE, !.timer = FALSE] \in Context BY Zenon DEF Context
<1>3. [c EXCEPT !.timer = FALSE, !.tcp = "none"] \in Context BY Zenon DEF Context
<1>4. [c EXCEPT !.live = FALSE] \in Context BY Zenon DEF Context
<1>5. [c EXCEPT !.usesTCP = TRUE] \in Context BY Zenon DEF Context
<1>6. [c EXCEPT !.server = @ + 1] \in Context BY <1>1, Zenon DEF Context
<1>7. [c EXCEPT !.attempt = @ + 1] \in Context BY <1>1, Zenon DEF Context
<1>8. [c EXCEPT !.sends = @ + 1] \in Context BY <1>1, Zenon DEF Context
<1>9. [c EXCEPT !.server = 0] \in Context BY Zenon DEF Context
<1> QED BY <1>2, <1>3, <1>4, <1>5, <1>6, <1>7, <1>8, <1>9

(* What sending a query does to its context.                               *)
LEMMA SentArms ==
    ASSUME NEW c \in Context, NEW d \in Sent(c)
    PROVE  /\ d \in Context /\ d.live /\ d.timer /\ d.sends = c.sends + 1
           /\ d.server = c.server /\ d.attempt = c.attempt /\ d.usesTCP = c.usesTCP
<1>1. PICK t \in {"connecting", "writing", "none", c.tcp} :
        d = [c EXCEPT !.live = TRUE, !.timer = TRUE, !.sends = @ + 1, !.tcp = t,
                      !.used = IF c.usesTCP THEN @ ELSE c.server]
  BY Zenon DEF Sent
<1>2. PICK u \in Nat : u = IF c.usesTCP THEN c.used ELSE c.server
  BY DEF Context
<1>3. PICK n \in Nat : n = c.sends + 1
  BY DEF Context
<1>4. d = [c EXCEPT !.live = TRUE, !.timer = TRUE, !.sends = n, !.tcp = t, !.used = u]
  BY <1>1, <1>2, <1>3, Zenon
<1>5. t \in {"none", "connecting", "reporting", "writing", "length", "body"}
  BY DEF Context
<1>6. d \in Context /\ d.live /\ d.timer /\ d.sends = n
  BY <1>4, <1>5, Zenon DEF Context
<1>7. d.server = c.server /\ d.attempt = c.attempt /\ d.usesTCP = c.usesTCP
  BY <1>4, Zenon DEF Context
<1> QED BY <1>3, <1>6, <1>7

(* Whole attempts: multiplying the number of servers.                      *)
LEMMA Attempts ==
    ASSUME NEW a \in Nat, NEW b \in Nat, a < b
    PROVE  /\ NameServers * (a + 1) = NameServers * a + NameServers
           /\ NameServers * a + NameServers <= NameServers * b
           /\ NameServers * a \in Nat
<1>1. PICK k \in Nat : b = a + 1 + k
  <2>1. b - a - 1 \in Nat OBVIOUS
  <2> QED BY <2>1
<1>2. NameServers * a \in Nat /\ NameServers * k \in Nat OBVIOUS
<1>3. NameServers * (a + 1) = NameServers * a + NameServers OBVIOUS
<1>4. NameServers * (a + 1 + k) = NameServers * a + NameServers + NameServers * k
  OBVIOUS
<1> QED BY <1>1, <1>2, <1>3, <1>4

(* A query that may be sent is counted right once it was.                  *)
LEMMA SentCounts ==
    ASSUME NEW c \in Context, NEW d \in Sent(c), MaySend(c)
    PROVE  Counts(d)
<1>1. /\ d \in Context /\ d.timer /\ d.sends = c.sends + 1
      /\ d.server = c.server /\ d.attempt = c.attempt /\ d.usesTCP = c.usesTCP
  BY SentArms
<1>2. /\ c.attempt \in Nat /\ c.server \in Nat /\ c.sends \in Nat
      /\ Extra(c) \in {0, 1} /\ Extra(d) = Extra(c)
  BY <1>1 DEF Context, Extra
<1>3. /\ NameServers * c.attempt + NameServers <= NameServers * MaxAttempts
      /\ NameServers * c.attempt \in Nat
  BY <1>2, Attempts DEF MaySend
<1>4. d.sends <= NameServers * c.attempt + c.server + 1 + Extra(c)
  BY <1>1, <1>2, <1>3 DEF MaySend
<1>5. NameServers * MaxAttempts \in Nat OBVIOUS
<1>6. d.sends <= NameServers * MaxAttempts + 1
  BY <1>1, <1>2, <1>3, <1>4, <1>5 DEF MaySend
<1> HIDE DEF Extra
<1> QED BY <1>1, <1>2, <1>4, <1>6 DEF Counts, MaySend

(* What the handlers do to a query that has a timer: the next server, the  *)
(* next attempt, the same server over TCP, and the end of the attempts.    *)
LEMMA CountSteps ==
    ASSUME NEW c \in Context, NEW d \in Context, Counts(c), c.timer, c.sends > 0,
           d.sends = c.sends
    PROVE  /\ /\ d.server = c.server + 1 /\ d.server < NameServers
              /\ d.attempt = c.attempt /\ d.usesTCP = c.usesTCP
              => MaySend(d)
           /\ /\ ~(c.server + 1 < NameServers) /\ d.server = 0
              /\ d.attempt = c.attempt + 1 /\ d.attempt < MaxAttempts
              /\ d.usesTCP = c.usesTCP
              => MaySend(d)
           /\ /\ d.server = c.server /\ d.attempt = c.attempt
              /\ d.usesTCP /\ ~c.usesTCP
              => MaySend(d)
           /\ /\ d.server = c.server /\ ~d.timer
              /\ d.attempt \in {c.attempt, c.attempt + 1}
              => Counts(d)
<1>1. /\ c.attempt \in Nat /\ c.server \in Nat /\ c.sends \in Nat
      /\ Extra(c) \in {0, 1}
      /\ d.usesTCP = c.usesTCP => Extra(d) = Extra(c)
      /\ d.usesTCP => Extra(d) = 1
      /\ ~c.usesTCP => Extra(c) = 0
  BY DEF Context, Extra
<1>2. /\ NameServers * (c.attempt + 1) = NameServers * c.attempt + NameServers
      /\ NameServers * c.attempt \in Nat
  BY <1>1, Attempts DEF Counts
<1>3. /\ c.attempt < MaxAttempts /\ c.server < NameServers
      /\ c.sends <= NameServers * c.attempt + c.server + 1 + Extra(c)
  BY DEF Counts
<1>4. ASSUME d.server = c.server + 1, d.server < NameServers,
             d.attempt = c.attempt, d.usesTCP = c.usesTCP
      PROVE  MaySend(d)
  <2>1. d.sends <= NameServers * d.attempt + d.server + Extra(d)
    <3>1. Extra(d) = Extra(c) BY <1>1, <1>4
    <3>2. NameServers * d.attempt = NameServers * c.attempt BY <1>4
    <3> QED BY <1>1, <1>2, <1>3, <1>4, <3>1, <3>2
  <2> QED BY <1>3, <1>4, <2>1 DEF MaySend
<1>5. ASSUME ~(c.server + 1 < NameServers), d.server = 0,
             d.attempt = c.attempt + 1, d.attempt < MaxAttempts,
             d.usesTCP = c.usesTCP
      PROVE  MaySend(d)
  <2>1. d.sends <= NameServers * d.attempt + d.server + Extra(d)
    <3>1. Extra(d) = Extra(c) BY <1>1, <1>5
    <3>2. NameServers * d.attempt = NameServers * c.attempt + NameServers
      BY <1>2, <1>5
    <3> QED BY <1>1, <1>2, <1>3, <1>5, <3>1, <3>2
  <2>2. d.server < NameServers BY <1>1, <1>3, <1>5
  <2> QED BY <1>5, <2>1, <2>2 DEF MaySend
<1>6. ASSUME d.server = c.server, d.attempt = c.attempt, d.usesTCP, ~c.usesTCP
      PROVE  MaySend(d)
  <2>1. d.sends <= NameServers * d.attempt + d.server + Extra(d)
    BY <1>1, <1>2, <1>3, <1>6
  <2> QED BY <1>3, <1>6, <2>1 DEF MaySend
<1>7. ASSUME d.server = c.server, ~d.timer, d.attempt \in {c.attempt, c.attempt + 1}
      PROVE  Counts(d)
  <2>1. d.attempt <= MaxAttempts BY <1>1, <1>3, <1>7
  <2>2. d.sends <= NameServers * MaxAttempts + 1 BY DEF Counts
  <2> QED BY <1>3, <1>7, <2>1, <2>2 DEF Counts
<1> QED BY <1>4, <1>5, <1>6, <1>7

(* Sending keeps the invariant, if the query was not answered yet.         *)
LEMMA SendKeeps ==
    ASSUME IInv, NEW q \in Queries, NEW c \in Context, NEW n,
           answers[q] = 0 \/ closed, MaySend(c), n \in Nat,
           Send(q, c, n), closed' = closed, stray' \in BOOLEAN
    PROVE  IInv'
<1>1. PICK d \in Sent(c) : ctx' = [ctx EXCEPT ![q] = d] BY DEF Send
<1>2. d \in Context /\ d.live /\ d.timer /\ d.sends > 0
  BY SentArms, <1>1 DEF Context
<1>3. answers' = answers BY DEF Send
<1>4. Typed'
  <2>1. c.server \in Servers BY DEF MaySend, Servers, Context
  <2>2. /\ asked' \subseteq Queries \X Servers /\ receives' \in Nat
        /\ aborted' \in {"no", "socket", "context", "length"}
    BY <2>1 DEF Send, IInv, Typed
  <2> QED BY <1>1, <1>2, <1>3, <2>2 DEF IInv, Typed
<1>5. \A p \in Queries : p # q => ctx'[p] = ctx[p]
  BY <1>1 DEF IInv, Typed
<1>6. ctx'[q] = d BY <1>1 DEF IInv, Typed
<1>7. LiveHasTimer' BY <1>2, <1>5, <1>6 DEF IInv, LiveHasTimer
<1>8. OverOnceAnswered' BY <1>3, <1>5 DEF IInv, Typed, OverOnceAnswered
<1>9. NeverSent' BY <1>2, <1>5, <1>6 DEF IInv, NeverSent
<1>10. Counted'
  <2>1. Counts(d) BY <1>1, SentCounts
  <2> QED BY <1>5, <1>6, <2>1 DEF IInv, Counted
<1> QED BY <1>4, <1>7, <1>8, <1>9, <1>10 DEF IInv

(* Answering keeps it, if the query is then over.                          *)
LEMMA AnswerKeeps ==
    ASSUME IInv, NEW q \in Queries, NEW c \in Context, NEW n,
           answers[q] = 0 \/ closed, ~c.live, ~c.timer, Counts(c), n \in Nat,
           Answer(q, c, n), closed' = closed, stray' \in BOOLEAN
    PROVE  IInv'
<1>1. /\ ctx' = [ctx EXCEPT ![q] = c]
      /\ answers' = [answers EXCEPT ![q] = @ + 1]
      /\ receives' = n /\ UNCHANGED <<asked, aborted>>
  BY DEF Answer
<1>2. Typed' BY <1>1 DEF IInv, Typed
<1>3. /\ ctx'[q] = c /\ answers'[q] = answers[q] + 1
      /\ \A p \in Queries : p # q => ctx'[p] = ctx[p] /\ answers'[p] = answers[p]
  BY <1>1 DEF IInv, Typed
<1>4. LiveHasTimer' BY <1>3 DEF IInv, LiveHasTimer
<1>5. OverOnceAnswered' BY <1>3 DEF IInv, Typed, OverOnceAnswered
<1>6. NeverSent' BY <1>3 DEF IInv, NeverSent
<1>7. Counted' BY <1>3 DEF IInv, Counted
<1> QED BY <1>2, <1>4, <1>5, <1>6, <1>7 DEF IInv

(* A step of the connection alone changes nothing the invariant speaks of. *)
LEMMA AdvanceKeeps ==
    ASSUME IInv, NEW q \in Queries,
           NEW l \in {"none", "connecting", "reporting", "writing", "length", "body"},
           Advance(q, l)
    PROVE  IInv'
<1>1. /\ ctx' = [ctx EXCEPT ![q].tcp = l]
      /\ UNCHANGED <<answers, asked, receives, stray, closed, aborted>>
  BY DEF Advance
<1>2. ctx[q] \in Context BY DEF IInv, Typed
<1>3. PICK d \in Context : /\ d = [ctx[q] EXCEPT !.tcp = l]
                          /\ d.live = ctx[q].live /\ d.timer = ctx[q].timer
                          /\ d.sends = ctx[q].sends
                          /\ d.server = ctx[q].server
                          /\ d.attempt = ctx[q].attempt
                          /\ d.usesTCP = ctx[q].usesTCP
  <2> DEFINE d == [ctx[q] EXCEPT !.tcp = l]
  <2>1. d \in Context BY <1>2, Zenon DEF Context
  <2>2. d.live = ctx[q].live BY <1>2, Zenon DEF Context
  <2>3. d.timer = ctx[q].timer BY <1>2, Zenon DEF Context
  <2>4. d.sends = ctx[q].sends BY <1>2, Zenon DEF Context
  <2>5. d = [ctx[q] EXCEPT !.tcp = l] OBVIOUS
  <2>6. d.server = ctx[q].server /\ d.attempt = ctx[q].attempt
          /\ d.usesTCP = ctx[q].usesTCP
    BY <1>2, Zenon DEF Context
  <2> HIDE DEF d
  <2> QED BY <2>1, <2>2, <2>3, <2>4, <2>5, <2>6
<1>4. ctx' = [ctx EXCEPT ![q] = d] BY <1>1, <1>3 DEF IInv, Typed
<1>5. Typed' BY <1>1, <1>3, <1>4 DEF IInv, Typed
<1>6. \A p \in Queries : ctx'[p].live = ctx[p].live /\ ctx'[p].timer = ctx[p].timer
                           /\ ctx'[p].sends = ctx[p].sends
  BY <1>3, <1>4 DEF IInv, Typed
<1>7. LiveHasTimer' /\ OverOnceAnswered' /\ NeverSent'
  BY <1>1, <1>6 DEF IInv, LiveHasTimer, OverOnceAnswered, NeverSent
<1>8. Counted'
  <2>1. ctx'[q] = d /\ \A p \in Queries : p # q => ctx'[p] = ctx[p]
    BY <1>4 DEF IInv, Typed
  <2>2. Counts(d) BY <1>3 DEF IInv, Counted, Counts, Extra
  <2> QED BY <2>1, <2>2 DEF IInv, Counted
<1> QED BY <1>5, <1>7, <1>8 DEF IInv

-----------------------------------------------------------------------------
(* A step that does not touch the contexts and the answers.                *)
LEMMA OthersKeep ==
    ASSUME IInv, UNCHANGED <<ctx, answers, asked, receives, closed>>,
           stray' \in BOOLEAN, aborted' \in {"no", "socket", "context", "length"}
    PROVE  IInv'
  BY DEF IInv, Typed, LiveHasTimer, OverOnceAnswered, NeverSent, Counted

LEMMA PerformKeeps ==
    ASSUME IInv, NEW q \in Queries, Perform(q)
    PROVE  IInv'
<1>1. /\ ctx[q] \in Context /\ ~ctx[q].live /\ ~ctx[q].timer
      /\ answers[q] = 0 /\ closed' = closed /\ stray' \in BOOLEAN
      /\ ctx[q].sends = 0 /\ Counts(ctx[q]) /\ receives \in Nat
  BY DEF Perform, IInv, Typed, NeverSent, Counted
<1>2. CASE NameServers = 0
  <2>1. Answer(q, ctx[q], receives) BY <1>2 DEF Perform
  <2> QED BY <1>1, <2>1, AnswerKeeps
<1>3. CASE NameServers # 0
  <2>1. Send(q, ctx[q], receives) BY <1>3 DEF Perform
  <2>2. ctx[q].server = 0 /\ ctx[q].attempt = 0 BY <1>1 DEF Counts
  <2>3. MaySend(ctx[q])
    <3>1. Extra(ctx[q]) \in {0, 1} BY DEF Extra
    <3>2. NameServers * 0 = 0 OBVIOUS
    <3> QED BY <1>1, <1>3, <2>2, <3>1, <3>2 DEF MaySend
  <2> QED BY <1>1, <2>1, <2>3, SendKeeps
<1> QED BY <1>2, <1>3

LEMMA TimedOutKeeps ==
    ASSUME IInv, NEW q \in Queries, TimedOut(q)
    PROVE  IInv'
<1> DEFINE c == [ctx[q] EXCEPT !.timer = FALSE, !.tcp = "none"]
           n == IF asked = {} THEN 0 ELSE 1
           next == [c EXCEPT !.server = @ + 1]
           again == [c EXCEPT !.server = 0, !.attempt = @ + 1]
           over == [c EXCEPT !.live = FALSE, !.attempt = @ + 1]
<1>1. /\ ctx[q] \in Context /\ Counts(ctx[q]) /\ ctx[q].timer /\ ctx[q].sends > 0
      /\ (answers[q] = 0 \/ closed) /\ closed' = closed /\ stray' \in BOOLEAN
      /\ receives \in Nat /\ n \in Nat
  BY DEF TimedOut, IInv, Typed, OverOnceAnswered, NeverSent, Counted, Context
<1>2. /\ c \in Context /\ c.timer = FALSE /\ c.sends = ctx[q].sends
      /\ c.server = ctx[q].server /\ c.attempt = ctx[q].attempt
      /\ c.usesTCP = ctx[q].usesTCP
  <2>1. c \in Context BY <1>1, ContextSteps
  <2>2. /\ c.timer = FALSE /\ c.sends = ctx[q].sends
        /\ c.server = ctx[q].server /\ c.attempt = ctx[q].attempt
        /\ c.usesTCP = ctx[q].usesTCP
    BY <1>1, Zenon DEF Context
  <2> QED BY <2>1, <2>2
<1>3. \/ c.server + 1 < NameServers /\ Send(q, next, receives)
      \/ /\ ~(c.server + 1 < NameServers) /\ c.attempt + 1 < MaxAttempts
         /\ Send(q, again, receives)
      \/ Answer(q, over, n)
  BY DEF TimedOut
<1> HIDE DEF c, n
<1>4. /\ next \in Context /\ next.server = c.server + 1 /\ next.sends = c.sends
      /\ next.attempt = c.attempt /\ next.usesTCP = c.usesTCP
  <2>1. next \in Context BY <1>2, ContextSteps
  <2>2. /\ next.server = c.server + 1 /\ next.sends = c.sends
        /\ next.attempt = c.attempt /\ next.usesTCP = c.usesTCP
    BY <1>2, Zenon DEF Context
  <2> QED BY <2>1, <2>2
<1>5. c.attempt + 1 \in Nat BY <1>2 DEF Context
<1>6. /\ again \in Context /\ again.server = 0 /\ again.sends = c.sends
      /\ again.attempt = c.attempt + 1 /\ again.usesTCP = c.usesTCP
  <2>1. again \in Context BY <1>2, <1>5, Zenon DEF Context
  <2>2. /\ again.server = 0 /\ again.sends = c.sends
        /\ again.attempt = c.attempt + 1 /\ again.usesTCP = c.usesTCP
    BY <1>2, Zenon DEF Context
  <2> QED BY <2>1, <2>2
<1>7. /\ over \in Context /\ over.live = FALSE /\ over.timer = FALSE
      /\ over.sends = c.sends
      /\ over.server = c.server /\ over.attempt = c.attempt + 1
  <2>1. over \in Context BY <1>2, <1>5, Zenon DEF Context
  <2>2. /\ over.live = FALSE /\ over.timer = c.timer /\ over.sends = c.sends
        /\ over.server = c.server /\ over.attempt = c.attempt + 1
    BY <1>2, Zenon DEF Context
  <2> QED BY <1>2, <2>1, <2>2
<1> HIDE DEF next, again, over
<1>8. CASE c.server + 1 < NameServers /\ Send(q, next, receives)
  <2>1. MaySend(next) BY <1>1, <1>2, <1>4, <1>8, CountSteps
  <2> QED BY <1>1, <1>4, <1>8, <2>1, SendKeeps
<1>9. CASE /\ ~(c.server + 1 < NameServers) /\ c.attempt + 1 < MaxAttempts
           /\ Send(q, again, receives)
  <2>1. MaySend(again) BY <1>1, <1>2, <1>6, <1>9, CountSteps
  <2> QED BY <1>1, <1>6, <1>9, <2>1, SendKeeps
<1>10. CASE Answer(q, over, n)
  <2>1. Counts(over) BY <1>1, <1>2, <1>7, CountSteps
  <2> QED BY <1>1, <1>7, <1>10, <2>1, AnswerKeeps
<1> QED BY <1>3, <1>8, <1>9, <1>10

LEMMA ReceiveUDPKeeps ==
    ASSUME IInv, NEW q \in Queries, NEW s, NEW k, ReceiveUDP(q, s, k)
    PROVE  IInv'
<1> DEFINE c == [ctx[q] EXCEPT !.live = FALSE, !.timer = FALSE]
           overTCP == [c EXCEPT !.usesTCP = TRUE]
           next == [c EXCEPT !.server = @ + 1]
           n == receives - 1
<1>1. /\ ctx[q] \in Context /\ Counts(ctx[q]) /\ ctx[q].timer /\ ctx[q].sends > 0
      /\ (answers[q] = 0 \/ closed) /\ closed' = closed /\ stray' \in BOOLEAN
      /\ n \in Nat
  BY DEF ReceiveUDP, Accepts, IInv, Typed, OverOnceAnswered, NeverSent, Counted,
         LiveHasTimer, Context
<1>2. /\ c \in Context /\ c.live = FALSE /\ c.timer = FALSE
      /\ c.sends = ctx[q].sends
      /\ c.server = ctx[q].server /\ c.attempt = ctx[q].attempt
      /\ c.usesTCP = ctx[q].usesTCP
  <2>1. c \in Context BY <1>1, ContextSteps
  <2>2. /\ c.live = FALSE /\ c.timer = FALSE /\ c.sends = ctx[q].sends
        /\ c.server = ctx[q].server /\ c.attempt = ctx[q].attempt
        /\ c.usesTCP = ctx[q].usesTCP
    BY <1>1, Zenon DEF Context
  <2> QED BY <2>1, <2>2
<1>3. \/ ~c.usesTCP /\ Send(q, overTCP, n)
      \/ c.server + 1 < NameServers /\ Send(q, next, n)
      \/ Answer(q, c, n)
  BY DEF ReceiveUDP, Handled
<1> HIDE DEF c, n
<1>4. /\ overTCP \in Context /\ overTCP.server = c.server
      /\ overTCP.sends = c.sends /\ overTCP.attempt = c.attempt
      /\ overTCP.usesTCP = TRUE
  <2>1. overTCP \in Context BY <1>2, ContextSteps
  <2>2. /\ overTCP.server = c.server /\ overTCP.sends = c.sends
        /\ overTCP.attempt = c.attempt /\ overTCP.usesTCP = TRUE
    BY <1>2, Zenon DEF Context
  <2> QED BY <2>1, <2>2
<1>5. /\ next \in Context /\ next.server = c.server + 1 /\ next.sends = c.sends
      /\ next.attempt = c.attempt /\ next.usesTCP = c.usesTCP
  <2>1. next \in Context BY <1>2, ContextSteps
  <2>2. /\ next.server = c.server + 1 /\ next.sends = c.sends
        /\ next.attempt = c.attempt /\ next.usesTCP = c.usesTCP
    BY <1>2, Zenon DEF Context
  <2> QED BY <2>1, <2>2
<1> HIDE DEF overTCP, next
<1>6. CASE ~c.usesTCP /\ Send(q, overTCP, n)
  <2>1. MaySend(overTCP) BY <1>1, <1>2, <1>4, <1>6, CountSteps
  <2> QED BY <1>1, <1>4, <1>6, <2>1, SendKeeps
<1>7. CASE c.server + 1 < NameServers /\ Send(q, next, n)
  <2>1. MaySend(next) BY <1>1, <1>2, <1>5, <1>7, CountSteps
  <2> QED BY <1>1, <1>5, <1>7, <2>1, SendKeeps
<1>8. CASE Answer(q, c, n)
  <2>1. Counts(c) BY <1>1, <1>2, CountSteps
  <2> QED BY <1>1, <1>2, <1>8, <2>1, AnswerKeeps
<1> QED BY <1>3, <1>6, <1>7, <1>8

LEMMA ReadReplyKeeps ==
    ASSUME IInv, NEW q \in Queries, NEW k, ReadReply(q, k)
    PROVE  IInv'
<1> DEFINE c == [ctx[q] EXCEPT !.live = FALSE, !.timer = FALSE, !.tcp = "none"]
<1>1. /\ ctx[q] \in Context /\ Counts(ctx[q]) /\ ctx[q].timer /\ ctx[q].sends > 0
      /\ (answers[q] = 0 \/ closed) /\ closed' = closed /\ stray' \in BOOLEAN
      /\ receives \in Nat
  BY DEF ReadReply, IInv, Typed, OverOnceAnswered, NeverSent, Counted,
         LiveHasTimer, Context
<1>2. /\ c \in Context /\ c.live = FALSE /\ c.timer = FALSE
      /\ c.sends = ctx[q].sends
      /\ c.server = ctx[q].server /\ c.attempt = ctx[q].attempt
  BY <1>1, Zenon DEF Context
<1>3. \/ Answer(q, c, receives)
      \/ aborted' = "socket" /\ UNCHANGED <<ctx, answers, asked, receives>>
  BY DEF ReadReply
<1> HIDE DEF c
<1>4. Counts(c) BY <1>1, <1>2, CountSteps
<1>5. CASE Answer(q, c, receives) BY <1>1, <1>2, <1>4, <1>5, AnswerKeeps
<1>6. CASE aborted' = "socket" /\ UNCHANGED <<ctx, answers, asked, receives>>
  BY <1>1, <1>6, OthersKeep
<1> QED BY <1>3, <1>5, <1>6

LEMMA CloseKeeps ==
    ASSUME IInv, Close
    PROVE  IInv'
<1>1. /\ ctx' = [q \in Queries |-> [ctx[q] EXCEPT !.live = FALSE]]
      /\ answers' = [q \in Queries |->
                        IF ctx[q].live THEN answers[q] + 1 ELSE answers[q]]
      /\ closed' = TRUE /\ asked' = {} /\ receives' = 0
      /\ UNCHANGED <<stray, aborted>>
  BY DEF Close
<1>2. Typed'
  <2>1. \A q \in Queries : [ctx[q] EXCEPT !.live = FALSE] \in Context
    BY ContextSteps DEF IInv, Typed
  <2> QED BY <1>1, <2>1 DEF IInv, Typed
<1>3. \A q \in Queries : /\ ctx'[q].live = FALSE
                         /\ ctx'[q].timer = ctx[q].timer
                         /\ ctx'[q].sends = ctx[q].sends
                         /\ Counts(ctx'[q])
  <2>1. ASSUME NEW c \in Context
        PROVE  /\ [c EXCEPT !.live = FALSE].live = FALSE
               /\ [c EXCEPT !.live = FALSE].timer = c.timer
               /\ [c EXCEPT !.live = FALSE].sends = c.sends
               /\ Counts(c) => Counts([c EXCEPT !.live = FALSE])
    <3> DEFINE d == [c EXCEPT !.live = FALSE]
    <3>1. d.live = FALSE /\ d.timer = c.timer /\ d.sends = c.sends
            /\ d.server = c.server /\ d.attempt = c.attempt /\ d.usesTCP = c.usesTCP
      BY Zenon DEF Context
    <3> HIDE DEF d
    <3>2. Counts(c) => Counts(d) BY <3>1 DEF Counts, Extra
    <3> QED BY <3>1, <3>2 DEF d
  <2> QED BY <1>1, <2>1 DEF IInv, Typed, Counted
<1>4. LiveHasTimer' /\ OverOnceAnswered' /\ NeverSent' /\ Counted'
  BY <1>1, <1>3 DEF IInv, LiveHasTimer, OverOnceAnswered, NeverSent, Counted
<1> QED BY <1>2, <1>4 DEF IInv

-----------------------------------------------------------------------------
LEMMA Inductive == IInv /\ [Next]_vars => IInv'
<1> SUFFICES ASSUME IInv, [Next]_vars PROVE IInv'
  OBVIOUS
<1>1. ASSUME NEW q \in Queries, Perform(q) PROVE IInv'
  BY <1>1, PerformKeeps
<1>2. ASSUME NEW q \in Queries, TimedOut(q) PROVE IInv'
  BY <1>2, TimedOutKeeps
<1>3. ASSUME NEW q \in Queries, Network(q) PROVE IInv'
  <2>1. ASSUME NEW s \in Servers, NEW k \in Replies, ReceiveUDP(q, s, k) PROVE IInv'
    BY <2>1, ReceiveUDPKeeps
  <2>2. ASSUME \/ Connected(q) \/ Reported(q) \/ Written(q) \/ ReadLength(q)
               \/ ReadNothing(q)
        PROVE  IInv'
    BY <2>2, AdvanceKeeps DEF Connected, Reported, Written, ReadLength, ReadNothing
  <2>3. CASE ReadLengthAtEnd(q)
    BY <2>3, OthersKeep DEF ReadLengthAtEnd, IInv, Typed
  <2>4. ASSUME NEW k \in Replies, ReadReply(q, k) PROVE IInv'
    BY <2>4, ReadReplyKeeps
  <2> QED BY <1>3, <2>1, <2>2, <2>3, <2>4 DEF Network
<1>4. CASE ReportedLate BY <1>4, OthersKeep DEF ReportedLate, IInv, Typed
<1>5. CASE Close BY <1>5, CloseKeeps
<1>6. CASE UNCHANGED vars BY <1>6, OthersKeep DEF vars, IInv, Typed
<1> QED BY <1>1, <1>2, <1>3, <1>4, <1>5, <1>6 DEF Next

LEMMA Initial == Init => IInv
<1> SUFFICES ASSUME Init PROVE IInv
  OBVIOUS
<1>1. PICK tcp \in [Queries -> BOOLEAN] : ctx = [q \in Queries |-> NewContext(tcp[q])]
  BY DEF Init
<1>2. \A q \in Queries : NewContext(tcp[q]) \in Context
  <2>1. 0 \in Nat OBVIOUS
  <2> QED BY <2>1 DEF NewContext, Context
<1>3. Typed BY <1>1, <1>2 DEF Init, Typed
<1>4. \A q \in Queries : ~ctx[q].live /\ ~ctx[q].timer /\ answers[q] = 0
  BY <1>1 DEF Init, NewContext
<1>5. Counted
  <2>1. \A q \in Queries : /\ ctx[q].sends = 0 /\ ctx[q].server = 0
                           /\ ctx[q].attempt = 0 /\ ~ctx[q].timer
    BY <1>1 DEF NewContext
  <2>2. NameServers * MaxAttempts \in Nat OBVIOUS
  <2> QED BY <2>1, <2>2 DEF Counted, Counts
<1> QED BY <1>3, <1>4, <1>5 DEF IInv, LiveHasTimer, OverOnceAnswered, NeverSent

LEMMA Invariance == Spec => []IInv
BY Initial, Inductive, PTL DEF Spec

(* The typing, of which the bound of the attempts (OFDNSResolver.m:806) is *)
(* the part that says something.                                           *)
THEOREM TypeCorrect == Spec => []TypeOK
<1>1. IInv => TypeOK
  <2>1. ASSUME NEW q \in Queries, ctx[q] \in Context, Counts(ctx[q])
        PROVE  ctx[q].attempt \in 0..MaxAttempts
    BY <2>1 DEF Context, Counts
  <2>2. ASSUME NEW c \in Context, c.attempt \in 0..MaxAttempts
        PROVE  c \in [live : BOOLEAN, timer : BOOLEAN, server : Nat,
                      attempt : 0..MaxAttempts, usesTCP : BOOLEAN,
                      used : Nat, sends : Nat,
                      tcp : {"none", "connecting", "reporting", "writing",
                             "length", "body"}]
    BY <2>2, Zenon DEF Context
  <2> QED BY <2>1, <2>2 DEF IInv, Typed, Counted, TypeOK
<1> QED BY <1>1, Invariance, PTL

(* A query is sent at most once to every server in every attempt, and once *)
(* more if a truncated reply sends it over TCP, whatever replies and       *)
(* timeouts come in whatever order (OFDNSResolver.m:545, 609, 797).        *)
THEOREM QueriesEnd == Spec => []SendsBounded
<1>1. IInv => SendsBounded BY DEF IInv, Counted, Counts, SendsBounded
<1> QED BY <1>1, Invariance, PTL

(* A query somebody waits for always has a timer, and a timer always finds *)
(* its query, as long as the resolver is not closed: OFDNSResolver.m:846   *)
(* is never entered for a query that is over.                              *)
THEOREM WaitsHaveTimers == Spec => []LiveHasTimer
<1>1. IInv => LiveHasTimer BY DEF IInv
<1> QED BY <1>1, Invariance, PTL

(* However replies, timeouts and connections interleave, the delegate of a *)
(* query is called at most once as long as the resolver is not closed.     *)
THEOREM DelegateCalledOnce == Spec => []CalledOnce
<1>1. IInv => CalledOnce
  BY DEF IInv, Typed, OverOnceAnswered, CalledOnce
<1> QED BY <1>1, Invariance, PTL
=============================================================================
