------------------ MODULE OFIPSocketAsyncConnector_proofs ------------------
(***************************************************************************)
(* Theorems about OFIPSocketAsyncConnector, for any number of connects,    *)
(* address families, search domains, aliases and addresses.                *)
(***************************************************************************)
EXTENDS OFIPSocketAsyncConnector, FiniteSetTheorems, SequenceTheorems, TLAPS

(* The queries of a lookup and what it counts of them.                     *)
CountsOK ==
    /\ numExpected \in Nat /\ unanswered = numExpected
    /\ aliases \in Nat
    /\ unanswered <= NumFamilies + aliases

(* While something of the lookup is on its way, the connect it is for      *)
(* waits for it, nothing was reported, and at most one report is due.      *)
LookingUp ==
    /\ unanswered > 0 \/ due # << >> => phase[Named] = "resolving" /\ results = << >>
    /\ due # << >> => unanswered = 0 /\ Tail(due) = << >>
    /\ phase[Named] = "idle" => results = << >>

PhaseOK == phase = [c \in Connects |-> phase[c]]

Live(p) == p = "idle" \/ p \in Waiting

AtMost(c) == IF c = Named /\ ~nameServers THEN NumFamilies ELSE 1

(* Nobody was told of a connect that still waits for something.            *)
ToldOK ==
    /\ told = [c \in Connects |-> told[c]]
    /\ \A c \in Connects : Live(phase[c]) => told[c] = << >>
    /\ \A c \in Connects : Len(told[c]) \in Nat /\ Len(told[c]) <= AtMost(c)

IInv == CountsOK /\ LookingUp /\ PhaseOK /\ ToldOK

USE LookupAssumption, ConnectAssumption

-----------------------------------------------------------------------------
(* Facts about the sequences the steps make.                               *)
LEMMA EmptyThen ==
    ASSUME NEW S, NEW n \in Nat, NEW s \in [1..n -> S]
    PROVE  << >> \o s = s /\ Len(s) = n /\ (n > 0 => s # << >>)
<1>1. s \in Seq(S) /\ Len(s) = n
  OBVIOUS
<1>2. << >> \o s = s
  BY <1>1, ConcatEmptySeq
<1> QED BY <1>1, <1>2

LEMMA OneOnly ==
    ASSUME NEW x
    PROVE  /\ Append(<< >>, x) # << >>
           /\ Len(Append(<< >>, x)) = 1
<1>1. << >> \in Seq({x}) /\ Len(<< >>) = 0
  OBVIOUS
<1> QED BY <1>1, AppendProperties

LEMMA FamiliesCounted == NumFamilies \in Nat /\ NumFamilies >= 1
<1>1. NumFamilies \in Nat
  BY FS_CardinalityType DEF NumFamilies
<1>2. NumFamilies # 0
  BY FS_EmptySet DEF NumFamilies
<1> QED BY <1>1, <1>2

-----------------------------------------------------------------------------
(* What a step of the lookup leaves, when nothing was reported before.     *)
LookupLeaves ==
    /\ CountsOK'
    /\ nameServers' = nameServers
    /\ unanswered' > 0 \/ due' # << >> => results' = << >>
    /\ due' # << >> => unanswered' = 0 /\ Tail(due') = << >>
    /\ Len(results') \in Nat
    /\ Len(results') <= AtMost(Named)

LEMMA Silent ==
    ASSUME results' = << >>
    PROVE  Len(results') \in Nat /\ Len(results') <= AtMost(Named)
BY FamiliesCounted DEF AtMost

LEMMA OneReport ==
    ASSUME NEW x, results' = Append(<< >>, x)
    PROVE  Len(results') \in Nat /\ Len(results') <= AtMost(Named)
BY FamiliesCounted, OneOnly DEF AtMost

(* -[sendQueries] when no other query is left.                             *)
LEMMA SendQueriesLeaves ==
    ASSUME CountsOK, results = << >>, due = << >>, UNCHANGED <<due, settings>>,
           SendQueries(0, 0), aliases' = aliases
    PROVE  LookupLeaves
<1> USE FamiliesCounted
<1>1. CASE nameServers
  <2>1. numExpected' = NumFamilies /\ unanswered' = NumFamilies /\ results' = << >>
    BY <1>1 DEF SendQueries
  <2>2. CountsOK'
    BY <2>1 DEF CountsOK, NumFamilies
  <2> QED BY <2>1, <2>2, Silent DEF LookupLeaves, settings
<1>2. CASE ~nameServers
  <2> DEFINE s == [f \in 1..NumFamilies |-> << >>]
  <2>1. results' = << >> \o s /\ numExpected' = 0 /\ unanswered' = 0
    BY <1>2 DEF SendQueries
  <2>2. s \in [1..NumFamilies -> {<< >>}]
    OBVIOUS
  <2>3. Len(results') = NumFamilies
    BY <2>1, <2>2, EmptyThen
  <2>4. CountsOK'
    BY <2>1 DEF CountsOK, NumFamilies
  <2>5. AtMost(Named) = NumFamilies
    BY <1>2 DEF AtMost
  <2> QED BY <2>1, <2>3, <2>4, <2>5 DEF LookupLeaves, settings
<1> QED BY <1>1, <1>2

LEMMA AsyncResolveLeaves ==
    ASSUME CountsOK, results = << >>, due = << >>, unanswered = 0, AsyncResolve
    PROVE  LookupLeaves
BY SendQueriesLeaves DEF AsyncResolve

LEMMA AsyncResolveStaticLeaves ==
    ASSUME CountsOK, results = << >>, due = << >>, unanswered = 0, AsyncResolveStatic
    PROVE  LookupLeaves
<1>1. PICK s \in StaticAddresses : due' = Append(due, s)
  BY DEF AsyncResolveStatic
<1>2. UNCHANGED <<nameServers, numExpected, unanswered, aliases, results>>
  BY DEF AsyncResolveStatic, settings, lookup
<1>3. CountsOK'
  BY <1>2 DEF CountsOK, NumFamilies
<1>4. << >> \in Seq({s})
  OBVIOUS
<1>5. Tail(due') = << >>
  BY <1>1, <1>4
<1> QED BY <1>2, <1>3, <1>5, Silent DEF LookupLeaves

LEMMA CallDelegateLeaves ==
    ASSUME CountsOK, LookingUp, CallDelegate
    PROVE  LookupLeaves /\ results = << >>
<1>1. due' = << >> /\ results' = Append(<< >>, Head(due)) /\ results = << >> /\ unanswered = 0
  BY DEF CallDelegate, LookingUp
<1>2. UNCHANGED <<nameServers, numExpected, unanswered, aliases>>
  BY DEF CallDelegate, settings
<1>3. CountsOK'
  BY <1>2 DEF CountsOK, NumFamilies
<1>4. Len(results') \in Nat /\ Len(results') <= AtMost(Named)
  BY <1>1, OneReport
<1> QED BY <1>1, <1>2, <1>3, <1>4 DEF LookupLeaves

LEMMA GatheredLeaves ==
    ASSUME CountsOK, unanswered > 0, results = << >>, due = << >>, UNCHANGED <<due, settings>>,
           NEW a \in Answers, Gathered(a)
    PROVE  LookupLeaves
<1>1. a.aliases \in Nat
  OBVIOUS
<1>2. /\ numExpected' = numExpected - 1 + a.aliases
      /\ unanswered' = unanswered - 1 + a.aliases
      /\ aliases' = aliases + a.aliases
  BY DEF Gathered
<1>3. CountsOK'
  BY <1>1, <1>2, FamiliesCounted DEF CountsOK, NumFamilies
<1>4. CASE numExpected' > 0
  <2>1. results' = << >>
    BY <1>4 DEF Gathered
  <2> QED BY <1>3, <2>1, Silent DEF LookupLeaves, settings
<1>5. CASE ~(numExpected' > 0)
  <2>1. unanswered' = 0
    BY <1>3, <1>5 DEF CountsOK
  <2>2. \E x : results' = Append(<< >>, x)
    BY <1>5 DEF Gathered
  <2>3. Len(results') \in Nat /\ Len(results') <= AtMost(Named)
    BY <2>2, OneReport
  <2> QED BY <1>3, <2>1, <2>3 DEF LookupLeaves, settings
<1> QED BY <1>4, <1>5

LEMMA DidPerformQueryLeaves ==
    ASSUME CountsOK, LookingUp, NEW a \in Answers, DidPerformQuery(a)
    PROVE  LookupLeaves /\ results = << >>
<1>1. unanswered > 0 /\ results = << >> /\ due = << >> /\ UNCHANGED <<due, settings>>
  BY DEF DidPerformQuery, LookingUp
<1>2. CASE NextDomain(a.error)
  <2>1. numExpected - 1 = 0 /\ unanswered - 1 = 0
    BY <1>2 DEF NextDomain, CountsOK
  <2>2. SendQueries(numExpected - 1, unanswered - 1) /\ aliases' = aliases
    BY <1>2 DEF DidPerformQuery
  <2>3. SendQueries(0, 0)
    BY <2>1, <2>2
  <2> QED BY <1>1, <2>2, <2>3, SendQueriesLeaves
<1>3. CASE ~NextDomain(a.error)
  BY <1>1, <1>3, GatheredLeaves DEF DidPerformQuery
<1> QED BY <1>2, <1>3

-----------------------------------------------------------------------------
(* What a step does to the phases and the calls of the delegates: c, which *)
(* waited for something, goes on, and others at most stop waiting.         *)
GoesOn(c) ==
    /\ PhaseOK'
    /\ \A d \in Connects : Live(phase'[d]) /\ d # c => phase'[d] = phase[d]
    /\ \A d \in Connects : phase[d] = "resolving" /\ d # c => phase'[d] = "resolving"
    /\ phase'[c] \notin {"idle", "resolving"}

Tells(c) ==
    /\ told' = [d \in Connects |-> told'[d]]
    /\ \A d \in Connects : d # c => told'[d] = told[d]
    /\ Live(phase'[c]) => told'[c] = << >>
    /\ Len(told'[c]) \in Nat /\ Len(told'[c]) <= AtMost(c)

LEMMA GoesGoesOn ==
    ASSUME PhaseOK, NEW c \in Connects,
           NEW p \in {"connecting", "handshaking", "reporting", "thrown", "told"}, Goes(c, p)
    PROVE  GoesOn(c) /\ phase'[c] = p
<1>1. p \notin {"idle", "resolving"}
  OBVIOUS
<1>2. phase' = [phase EXCEPT ![c] = p]
  BY DEF Goes
<1>3. phase' = [d \in Connects |-> phase'[d]]
  BY <1>2 DEF PhaseOK
<1>4. \A d \in Connects : phase'[d] = IF d = c THEN p ELSE phase[d]
  BY <1>2 DEF PhaseOK
<1> QED BY <1>1, <1>3, <1>4 DEF PhaseOK, GoesOn

LEMMA NotToldTells ==
    ASSUME ToldOK, NEW c \in Connects, told[c] = << >>, UNCHANGED told
    PROVE  Tells(c)
<1>1. Len(told[c]) = 0
  OBVIOUS
<1>2. 0 <= AtMost(c)
  BY FamiliesCounted DEF AtMost
<1> QED BY <1>1, <1>2 DEF Tells, ToldOK

LEMMA ToldTells ==
    ASSUME ToldOK, NEW c \in Connects, told[c] = << >>, phase'[c] = "told",
           NEW n \in Nat, n <= AtMost(c), NEW ok, TellTimes(c, ok, n)
    PROVE  Tells(c)
<1> DEFINE e == [ok |-> ok, open |-> socket' # NoSocket,
                 made |-> ok /\ socket' = Connection(c, index'[c]),
                 tried |-> index'[c] = Len(targets'[c]), granted |-> granted[c]]
           s == [i \in 1..n |-> e]
<1>1. told' = [told EXCEPT ![c] = told[c] \o s]
  BY DEF TellTimes
<1>2. s \in [1..n -> {e}]
  OBVIOUS
<1> HIDE DEF s
<1>3. << >> \o s = s /\ Len(s) = n
  BY <1>2, EmptyThen
<1>4. told' = [told EXCEPT ![c] = s]
  BY <1>1, <1>3
<1>5. told = [d \in Connects |-> told[d]]
  BY DEF ToldOK
<1>6. told' = [d \in Connects |-> told'[d]] /\ told'[c] = s
  BY <1>4, <1>5
<1>7. \A d \in Connects : d # c => told'[d] = told[d]
  BY <1>4, <1>5
<1>8. ~Live(phase'[c])
  BY DEF Live, Waiting
<1> QED BY <1>3, <1>6, <1>7, <1>8 DEF Tells

LEMMA OneIsAllowed == ASSUME NEW c PROVE 1 \in Nat /\ 1 <= AtMost(c)
BY FamiliesCounted DEF AtMost

LEMMA DidConnectTells ==
    ASSUME PhaseOK, ToldOK, NEW c \in Connects, told[c] = << >>, NEW ok, DidConnect(c, ok)
    PROVE  GoesOn(c) /\ Tells(c)
<1>1. CASE Goes(c, "thrown") /\ UNCHANGED told
  BY <1>1, GoesGoesOn, NotToldTells
<1>2. CASE Goes(c, "handshaking") /\ UNCHANGED told
  BY <1>2, GoesGoesOn, NotToldTells
<1>3. CASE Goes(c, "told") /\ Tell(c, ok)
  BY <1>3, GoesGoesOn, OneIsAllowed, ToldTells DEF Tell
<1> QED BY <1>1, <1>2, <1>3 DEF DidConnect

LEMMA TryNextAddressTells ==
    ASSUME PhaseOK, ToldOK, NEW c \in Connects, told[c] = << >>, NEW as,
           TryNextAddress(c, as)
    PROVE  GoesOn(c) /\ Tells(c)
<1>1. CASE Goes(c, "thrown") /\ UNCHANGED told
  BY <1>1, GoesGoesOn, NotToldTells
<1>2. CASE Goes(c, "connecting") /\ UNCHANGED told
  BY <1>2, GoesGoesOn, NotToldTells
<1>3. CASE DidConnect(c, TRUE)
  BY <1>3, DidConnectTells
<1>4. CASE DidConnect(c, FALSE)
  BY <1>4, DidConnectTells
<1> QED BY <1>1, <1>2, <1>3, <1>4 DEF TryNextAddress

(* The connect goes on when the lookup reports, and waits for it until     *)
(* then.                                                                   *)
LEMMA DidResolveHostTells ==
    ASSUME PhaseOK, ToldOK, told[Named] = << >>, results = << >>, LookupLeaves,
           DidResolveHost(Named)
    PROVE  \/ GoesOn(Named) /\ Tells(Named) /\ results' # << >>
           \/ phase' = [phase EXCEPT ![Named] = "resolving"] /\ UNCHANGED told
<1> DEFINE new == SubSeq(results', Len(results) + 1, Len(results'))
<1>1. Len(results') \in Nat /\ Len(results') <= AtMost(Named)
  BY DEF LookupLeaves
<1>2. Len(results) = 0
  OBVIOUS
<1>3. new = SubSeq(results', 1, Len(results'))
  BY <1>2
<1>4. Len(new) = Len(results')
  BY <1>1, <1>3
<1>5. results' = << >> => new = << >>
  BY <1>3
<1>6. CASE new # << >> /\ TryNextAddress(Named, new[1])
  BY <1>5, <1>6, TryNextAddressTells
<1>7. CASE new # << >> /\ Goes(Named, "told") /\ TellTimes(Named, FALSE, Len(new))
  BY <1>1, <1>4, <1>5, <1>7, GoesGoesOn, ToldTells
<1>8. CASE Goes(Named, "resolving") /\ UNCHANGED told
  BY <1>8 DEF Goes
<1> QED BY <1>6, <1>7, <1>8 DEF DidResolveHost

-----------------------------------------------------------------------------
(* A step that leaves the lookup alone, and the phase of a connect that    *)
(* waits for its lookup.                                                   *)
LEMMA LookupKept ==
    ASSUME CountsOK, LookingUp, UNCHANGED hostVars, PhaseOK,
           phase[Named] = "resolving" => phase'[Named] = "resolving",
           phase'[Named] = "idle" => phase[Named] = "idle"
    PROVE  CountsOK' /\ LookingUp'
<1>1. /\ UNCHANGED <<numExpected, unanswered, aliases, results, due>>
  BY DEF hostVars, lookup
<1>2. CountsOK'
  BY <1>1 DEF CountsOK, NumFamilies
<1>3. LookingUp'
  BY <1>1 DEF LookingUp
<1> QED BY <1>2, <1>3

(* One connect goes on, and its delegate is told or not.                   *)
LEMMA ToldKept ==
    ASSUME ToldOK, NEW c \in Connects, GoesOn(c), Tells(c), nameServers' = nameServers
    PROVE  ToldOK'
<1>1. \A d \in Connects : AtMost(d)' = AtMost(d)
  BY DEF AtMost, NumFamilies
<1>2. \A d \in Connects : Live(phase[d]') => told'[d] = << >>
  BY DEF ToldOK, GoesOn, Tells
<1>3. \A d \in Connects : Len(told'[d]) \in Nat /\ Len(told'[d]) <= AtMost(d)
  BY DEF ToldOK, Tells
<1>4. told' = [d \in Connects |-> told'[d]]
  BY DEF Tells
<1> QED BY <1>1, <1>2, <1>3, <1>4 DEF ToldOK, Live

LEMMA GoesOnKeeps ==
    ASSUME IInv, UNCHANGED hostVars, NEW c \in Connects, GoesOn(c), Tells(c),
           phase[c] # "resolving"
    PROVE  IInv'
<1>1. nameServers' = nameServers
  BY DEF hostVars, settings
<1>2. phase[Named] = "resolving" => phase'[Named] = "resolving"
  BY DEF GoesOn, Live, Waiting, IInv, PhaseOK
<1>3. phase'[Named] = "idle" => phase[Named] = "idle"
  BY DEF GoesOn, Live
<1>4. CountsOK' /\ LookingUp'
  BY <1>2, <1>3, LookupKept DEF IInv
<1>5. ToldOK'
  BY <1>1, ToldKept DEF IInv
<1> QED BY <1>4, <1>5 DEF IInv, GoesOn
-----------------------------------------------------------------------------
(* The steps of the connector that leave the lookup alone.                 *)
LEMMA AttemptEndsKeeps ==
    ASSUME IInv, NEW c \in Connects, NEW ok \in BOOLEAN, AttemptEnds(c, ok)
    PROVE  IInv'
<1>1. phase[c] = "connecting" /\ Goes(c, "reporting") /\ UNCHANGED told /\ UNCHANGED hostVars
  BY DEF AttemptEnds
<1>2. GoesOn(c)
  BY <1>1, GoesGoesOn DEF IInv
<1>3. told[c] = << >>
  BY <1>1 DEF IInv, ToldOK, Live, Waiting
<1>4. Tells(c)
  BY <1>1, <1>3, NotToldTells DEF IInv
<1> QED BY <1>1, <1>2, <1>4, GoesOnKeeps

LEMMA CancellingGoesOn ==
    ASSUME PhaseOK, NEW c \in Connects, NEW p \in {"retrying", "told"}, Cancelling(c, p)
    PROVE  GoesOn(c) /\ phase'[c] = p
<1>1. phase' = [d \in Connects |-> IF d = c THEN p
                                  ELSE IF Queued(d) THEN "cancelled" ELSE phase[d]]
  BY DEF Cancelling
<1>2. phase'[c] = p /\ p \notin {"idle", "resolving"}
  BY <1>1
<1>3. PhaseOK'
  BY <1>1 DEF PhaseOK
<1>4. \A d \in Connects : Live(phase'[d]) /\ d # c => phase'[d] = phase[d]
  BY <1>1 DEF Live, Waiting
<1>5. \A d \in Connects : phase[d] = "resolving" /\ d # c => phase'[d] = "resolving"
  BY <1>1 DEF Queued
<1> QED BY <1>2, <1>3, <1>4, <1>5 DEF GoesOn

LEMMA AttemptFailedKeeps ==
    ASSUME IInv, NEW c \in Connects, AttemptFailed(c)
    PROVE  IInv'
<1>1. phase[c] = "reporting" /\ UNCHANGED hostVars
  BY DEF AttemptFailed
<1>2. told[c] = << >>
  BY <1>1 DEF IInv, ToldOK, Live, Waiting
<1>3. CASE Cancelling(c, "told") /\ Tell(c, FALSE)
  <2>1. GoesOn(c) /\ phase'[c] = "told"
    BY <1>3, CancellingGoesOn DEF IInv
  <2>2. Tells(c)
    BY <1>2, <1>3, <2>1, OneIsAllowed, ToldTells DEF Tell, IInv
  <2> QED BY <1>1, <2>1, <2>2, GoesOnKeeps
<1>4. CASE Cancelling(c, "retrying") /\ UNCHANGED told
  <2>1. GoesOn(c)
    BY <1>4, CancellingGoesOn DEF IInv
  <2>2. Tells(c)
    BY <1>2, <1>4, NotToldTells DEF IInv
  <2> QED BY <1>1, <2>1, <2>2, GoesOnKeeps
<1> QED BY <1>3, <1>4 DEF AttemptFailed

LEMMA AttemptSucceededKeeps ==
    ASSUME IInv, NEW c \in Connects, AttemptSucceeded(c)
    PROVE  IInv'
<1>1. phase[c] = "reporting" /\ UNCHANGED hostVars /\ DidConnect(c, TRUE)
  BY DEF AttemptSucceeded
<1>2. told[c] = << >>
  BY <1>1 DEF IInv, ToldOK, Live, Waiting
<1> QED BY <1>1, <1>2, DidConnectTells, GoesOnKeeps DEF IInv

LEMMA RetryKeeps ==
    ASSUME IInv, NEW c \in Connects, Retry(c)
    PROVE  IInv'
<1>1. phase[c] = "retrying" /\ UNCHANGED hostVars /\ TryNextAddress(c, targets[c])
  BY DEF Retry
<1>2. told[c] = << >>
  BY <1>1 DEF IInv, ToldOK, Live, Waiting
<1>3. GoesOn(c) /\ Tells(c)
  BY <1>1, <1>2, TryNextAddressTells DEF IInv
<1> QED BY <1>1, <1>3, GoesOnKeeps

LEMMA SamePhasesKeep ==
    ASSUME IInv, UNCHANGED <<hostVars, phase, told>>
    PROVE  IInv'
<1>1. CountsOK' /\ LookingUp'
  BY LookupKept DEF IInv
<1>2. UNCHANGED <<nameServers, phase, told>>
  BY DEF hostVars, settings
<1>3. PhaseOK' /\ ToldOK'
  BY <1>2 DEF IInv, PhaseOK, ToldOK, Live, Waiting, AtMost, NumFamilies
<1> QED BY <1>1, <1>3 DEF IInv

LEMMA HandshakeKeeps ==
    ASSUME IInv, NEW c \in Connects, Handshake(c)
    PROVE  IInv'
<1>1. phase[c] = "handshaking" /\ UNCHANGED hostVars
  BY DEF Handshake
<1>2. told[c] = << >>
  BY <1>1 DEF IInv, ToldOK, Live, Waiting
<1>3. CASE Goes(c, "told") /\ Tell(c, socks'[c] = "connected")
  <2>1. GoesOn(c) /\ phase'[c] = "told"
    BY <1>3, GoesGoesOn DEF IInv
  <2>2. Tells(c)
    BY <1>2, <1>3, <2>1, OneIsAllowed, ToldTells DEF Tell, IInv
  <2> QED BY <1>1, <2>1, <2>2, GoesOnKeeps
<1>4. CASE UNCHANGED <<phase, told>>
  BY <1>1, <1>4, SamePhasesKeep
<1> QED BY <1>3, <1>4 DEF Handshake

LEMMA CloseKeeps ==
    ASSUME IInv, Close
    PROVE  IInv'
<1>1. /\ phase' = [c \in Connects |-> IF Queued(c) THEN "cancelled" ELSE phase[c]]
      /\ UNCHANGED hostVars
      /\ told' = told
  BY DEF Close
<1>2. phase[Named] = "resolving" => phase'[Named] = "resolving"
  BY <1>1 DEF Queued
<1>3. phase'[Named] = "idle" => phase[Named] = "idle"
  BY <1>1
<1>4. CountsOK' /\ LookingUp'
  BY <1>1, <1>2, <1>3, LookupKept DEF IInv
<1>5. PhaseOK'
  BY <1>1 DEF PhaseOK
<1>6. \A c \in Connects : Live(phase'[c]) => Live(phase[c])
  BY <1>1 DEF Live, Waiting
<1>7. \A c \in Connects : AtMost(c)' = AtMost(c)
  BY <1>1 DEF AtMost, NumFamilies, hostVars, settings
<1>8. ToldOK'
  BY <1>1, <1>6, <1>7 DEF IInv, ToldOK, Live
<1> QED BY <1>4, <1>5, <1>8 DEF IInv

-----------------------------------------------------------------------------
(* The steps of the lookup.                                                *)
LEMMA LookupKeeps ==
    ASSUME IInv, told[Named] = << >>, results = << >>, LookupLeaves,
           DidResolveHost(Named)
    PROVE  IInv'
<1>1. CountsOK' /\ nameServers' = nameServers
  BY DEF LookupLeaves
<1>2. CASE GoesOn(Named) /\ Tells(Named) /\ results' # << >>
  <2>1. ~(unanswered' > 0) /\ due' = << >>
    BY <1>2 DEF LookupLeaves
  <2>2. LookingUp'
    BY <1>2, <2>1 DEF LookingUp, GoesOn
  <2>3. ToldOK'
    BY <1>1, <1>2, ToldKept DEF IInv
  <2> QED BY <1>1, <1>2, <2>2, <2>3 DEF IInv, GoesOn
<1>3. CASE phase' = [phase EXCEPT ![Named] = "resolving"] /\ UNCHANGED told
  <2>1. PhaseOK' /\ phase'[Named] = "resolving"
    BY <1>3 DEF IInv, PhaseOK
  <2>2. LookingUp'
    BY <2>1 DEF LookingUp, LookupLeaves
  <2>3. \A c \in Connects : Live(phase'[c]) => Live(phase[c]) \/ c = Named
    BY <1>3 DEF IInv, PhaseOK
  <2>4. \A c \in Connects : AtMost(c)' = AtMost(c)
    BY <1>1 DEF AtMost, NumFamilies
  <2>5. ToldOK'
    BY <1>3, <2>3, <2>4 DEF IInv, ToldOK, Live
  <2> QED BY <1>1, <2>1, <2>2, <2>5 DEF IInv
<1> QED BY <1>2, <1>3, DidResolveHostTells DEF IInv

LEMMA ResolveKeeps ==
    ASSUME IInv, Resolve
    PROVE  IInv'
<1>1. LookupLeaves /\ results = << >> /\ phase[Named] = "resolving"
  <2>1. CASE CallDelegate
    <3>1. phase[Named] = "resolving"
      BY <2>1 DEF CallDelegate, IInv, LookingUp
    <3> QED BY <2>1, <3>1, CallDelegateLeaves DEF IInv
  <2>2. ASSUME NEW a \in Answers, DidPerformQuery(a)
        PROVE  LookupLeaves /\ results = << >> /\ phase[Named] = "resolving"
    <3>1. phase[Named] = "resolving"
      BY <2>2 DEF DidPerformQuery, IInv, LookingUp
    <3> QED BY <2>2, <3>1, DidPerformQueryLeaves DEF IInv
  <2> QED BY <2>1, <2>2 DEF Resolve
<1>2. told[Named] = << >>
  BY <1>1 DEF IInv, ToldOK, Live, Waiting
<1> QED BY <1>1, <1>2, LookupKeeps DEF Resolve

LEMMA ConnectKeeps ==
    ASSUME IInv, NEW c \in Connects, Connect(c)
    PROVE  IInv'
<1>1. phase[c] = "idle"
  BY DEF Connect
<1>2. told[c] = << >>
  BY <1>1 DEF IInv, ToldOK, Live
<1>3. CASE TryNextAddress(c, <<Literal>>) /\ UNCHANGED hostVars
  <2>1. GoesOn(c) /\ Tells(c)
    BY <1>2, <1>3, TryNextAddressTells DEF IInv
  <2> QED BY <1>1, <1>3, <2>1, GoesOnKeeps
<1>4. CASE c = Named /\ (AsyncResolve \/ AsyncResolveStatic) /\ DidResolveHost(c)
  <2>1. results = << >> /\ due = << >> /\ unanswered = 0
    BY <1>1, <1>4 DEF IInv, LookingUp, CountsOK
  <2>2. LookupLeaves
    BY <1>4, <2>1, AsyncResolveLeaves, AsyncResolveStaticLeaves DEF IInv
  <2> QED BY <1>2, <1>4, <2>1, <2>2, LookupKeeps
<1>5. CASE c = Named /\ AsyncResolveThrows /\ Goes(c, "thrown") /\ UNCHANGED told
  <2>1. UNCHANGED hostVars
    BY <1>5 DEF AsyncResolveThrows
  <2>2. GoesOn(c) /\ Tells(c)
    BY <1>2, <1>5, GoesGoesOn, NotToldTells DEF IInv
  <2> QED BY <1>1, <2>1, <2>2, GoesOnKeeps
<1> QED BY <1>3, <1>4, <1>5 DEF Connect

-----------------------------------------------------------------------------
LEMMA InitInv == ASSUME Init PROVE IInv
<1>1. CountsOK
  BY FamiliesCounted DEF Init, HostInit, CountsOK
<1>2. LookingUp
  BY DEF Init, HostInit, LookingUp
<1>3. PhaseOK
  BY DEF Init, PhaseOK
<1>4. \A c \in Connects : told[c] = << >> /\ 0 <= AtMost(c)
  BY FamiliesCounted DEF Init, AtMost
<1>5. ToldOK
  BY <1>4 DEF Init, ToldOK
<1> QED BY <1>1, <1>2, <1>3, <1>5 DEF IInv

LEMMA NextInv == ASSUME IInv, [Next]_vars PROVE IInv'
<1>1. CASE UNCHANGED vars
  <2>1. UNCHANGED <<hostVars, phase, told>>
    BY <1>1 DEF vars, connVars
  <2> QED BY <2>1, SamePhasesKeep
<1>2. CASE Resolve
  BY <1>2, ResolveKeeps
<1>3. CASE Close
  BY <1>3, CloseKeeps
<1>4. ASSUME NEW c \in Connects, Connect(c) PROVE IInv'
  BY <1>4, ConnectKeeps
<1>5. ASSUME NEW c \in Connects, NEW ok \in BOOLEAN, AttemptEnds(c, ok) PROVE IInv'
  BY <1>5, AttemptEndsKeeps
<1>6. ASSUME NEW c \in Connects, AttemptFailed(c) PROVE IInv'
  BY <1>6, AttemptFailedKeeps
<1>7. ASSUME NEW c \in Connects, AttemptSucceeded(c) PROVE IInv'
  BY <1>7, AttemptSucceededKeeps
<1>8. ASSUME NEW c \in Connects, Retry(c) PROVE IInv'
  BY <1>8, RetryKeeps
<1>9. ASSUME NEW c \in Connects, Handshake(c) PROVE IInv'
  BY <1>9, HandshakeKeeps
<1> QED BY <1>1, <1>2, <1>3, <1>4, <1>5, <1>6, <1>7, <1>8, <1>9 DEF Next

(* The invariant of all that follows.                                      *)
THEOREM Inductive == Spec => []IInv
<1>1. Init => IInv
  BY InitInv
<1>2. IInv /\ [Next]_vars => IInv'
  BY NextInv
<1> QED BY <1>1, <1>2, PTL DEF Spec

(* A lookup counts the queries it still expects an answer to, those of one *)
(* search domain and of the aliases met, and has none left once it called  *)
(* its delegate: however many families, search domains and aliases.        *)
THEOREM LookupsCount == Spec => []OneRoundAtATime
<1>1. IInv => OneRoundAtATime
  BY DEF IInv, CountsOK, LookingUp, OneRoundAtATime
<1> QED BY <1>1, Inductive, PTL

(* The delegate of a connect is told once at most, with any number of      *)
(* connects, addresses and answers, whenever the application closes and    *)
(* connects the socket again; without a name server, once per family.      *)
THEOREM DelegatesToldOnce == Spec => []ToldOnce
<1>1. IInv => ToldOnce
  BY DEF IInv, ToldOK, AtMost, ToldOnce
<1> QED BY <1>1, Inductive, PTL

-----------------------------------------------------------------------------
(* What the delegates are told is true.                                    *)

(* The socket is connected to the address c tried last, and c did it.      *)
Own(c, how) == socket = [by |-> c, at |-> targets[c][index[c]], is |-> how]

(* Where c is in its list of addresses, and what its phase says of the     *)
(* socket it shares with the others.                                       *)
Place(c) ==
    /\ phase[c] \in {"idle", "resolving"} => index[c] = 0 /\ targets[c] = << >>
    /\ phase[c] \in {"connecting", "reporting", "retrying", "handshaking"}
          => index[c] \in 1..Len(targets[c])
    /\ phase[c] = "connecting" /\ ~meddled => Own(c, "connecting")
    /\ phase[c] = "reporting" /\ report[c] /\ ~meddled => Own(c, "connected")
    /\ phase[c] = "handshaking" => /\ proxy /\ socket # NoSocket
                                   /\ ~meddled => Own(c, "connected")
    /\ socks[c] \in {"readAddressLength", "readAddress"} => granted[c]

(* Unless the application meddles, which it cannot do by connecting if     *)
(* there is a proxy, one connect at a time waits for something.            *)
Alone == ~meddled \/ proxy =>
            \A c, d \in Connects : phase[c] \in Waiting /\ phase[d] \in Waiting => c = d

Entry(c, t) == IF t.ok THEN t.open /\ (meddled \/ (t.made /\ (proxy => t.granted)))
               ELSE t.tried \/ socks[c] = "failed"

Truthful(c) == \A i \in 1..Len(told[c]) : Entry(c, told[c][i])

PerConnect(f) == f = [c \in Connects |-> f[c]]

Shapes == /\ PerConnect(index) /\ PerConnect(targets) /\ PerConnect(report)
          /\ PerConnect(socks) /\ PerConnect(granted)
          /\ proxy \in BOOLEAN /\ meddled \in BOOLEAN

(* The addresses found, those reported or due to be, and those to try.     *)
Found == /\ addresses \in Seq(Addresses)
         /\ due \in Seq(Seq(Addresses)) /\ results \in Seq(Seq(Addresses))

Listed == \A c \in Connects : targets[c] \in Seq(Addresses \cup {Literal})

TInv == /\ IInv /\ Found /\ Listed /\ Shapes /\ Alone
        /\ \A c \in Connects : Place(c) /\ Truthful(c)

(* What a step that c takes leaves alone.                                  *)
Acts(c) ==
    /\ Live(phase[c])
    /\ ~meddled' \/ proxy => \A d \in Connects : d # c => phase[d] \notin Waiting
    /\ meddled' \in BOOLEAN /\ (meddled => meddled') /\ proxy' = proxy
    /\ \A d \in Connects : d # c =>
          /\ told'[d] = told[d] /\ socks'[d] = socks[d] /\ granted'[d] = granted[d]
          /\ index'[d] = index[d] /\ targets'[d] = targets[d] /\ report'[d] = report[d]
          /\ phase'[d] = phase[d] \/ phase'[d] = "cancelled"
    /\ PerConnect(index') /\ PerConnect(targets') /\ PerConnect(report')
    /\ PerConnect(socks') /\ PerConnect(granted')

(* What it has to leave of c.                                              *)
Lands(c) == Place(c)' /\ Truthful(c)' /\ targets'[c] \in Seq(Addresses \cup {Literal})

LEMMA ActsKeep ==
    ASSUME TInv, IInv', Found', NEW c \in Connects, Acts(c), Lands(c)
    PROVE  TInv'
<1>1. Shapes' BY DEF TInv, Shapes, Acts, PerConnect
<1>2. Alone'
  <2> SUFFICES ASSUME ~meddled' \/ proxy', NEW d \in Connects, NEW e \in Connects,
                      phase'[d] \in Waiting, phase'[e] \in Waiting
               PROVE  d = e
    BY DEF Alone, Waiting
  <2>1. \A f \in Connects : f # c => phase'[f] \notin Waiting
    <3>1. \A f \in Connects : f # c => phase[f] \notin Waiting BY DEF Acts
    <3>2. \A f \in Connects : f # c => phase'[f] = phase[f] \/ phase'[f] = "cancelled"
      BY DEF Acts
    <3> QED BY <3>1, <3>2 DEF Waiting
  <2> QED BY <2>1
<1>3. ASSUME NEW d \in Connects, d # c PROVE Place(d)' /\ Truthful(d)'
  <2>1. /\ told'[d] = told[d] /\ socks'[d] = socks[d] /\ granted'[d] = granted[d]
        /\ index'[d] = index[d] /\ targets'[d] = targets[d] /\ report'[d] = report[d]
        /\ phase'[d] = phase[d] \/ phase'[d] = "cancelled"
        /\ meddled' \in BOOLEAN /\ (meddled => meddled') /\ proxy' = proxy
        /\ ~meddled' \/ proxy => phase[d] \notin Waiting
    BY <1>3 DEF Acts
  <2>2. Place(d) /\ Truthful(d) BY DEF TInv
  <2>3. meddled \in BOOLEAN BY DEF TInv, Shapes
  <2>4. Place(d)' BY <2>1, <2>2, <2>3 DEF Place, Own, Waiting
  <2>5. Truthful(d)' BY <2>1, <2>2, <2>3 DEF Truthful, Entry
  <2> QED BY <2>4, <2>5
<1>4. \A d \in Connects : Place(d)' /\ Truthful(d)'
  BY <1>3 DEF Lands
<1>5. Listed' BY DEF TInv, Listed, Acts, Lands
<1> QED BY <1>1, <1>2, <1>4, <1>5 DEF TInv

(* Calls of the delegate: what they say.                                   *)
Says(c, ok) ==
    /\ \A d \in Connects : d # c => told'[d] = told[d]
    /\ \A i \in 1..Len(told'[c]) :
          /\ told'[c][i].ok = ok /\ (told'[c][i].open <=> socket' # NoSocket)
          /\ told'[c][i].made <=> ok /\ socket' = Connection(c, index'[c])
          /\ told'[c][i].tried <=> index'[c] = Len(targets'[c])
          /\ told'[c][i].granted = granted[c]

LEMMA ToldEntries ==
    ASSUME ToldOK, NEW c \in Connects, told[c] = << >>, NEW n \in Nat, NEW ok \in BOOLEAN,
           TellTimes(c, ok, n)
    PROVE  Says(c, ok)
<1> DEFINE e == [ok |-> ok, open |-> socket' # NoSocket,
                 made |-> ok /\ socket' = Connection(c, index'[c]),
                 tried |-> index'[c] = Len(targets'[c]), granted |-> granted[c]]
           s == [i \in 1..n |-> e]
<1>1. told' = [told EXCEPT ![c] = told[c] \o s]
  BY DEF TellTimes
<1>2. s \in [1..n -> {e}]
  OBVIOUS
<1>3. \A i \in 1..n : s[i] = e
  OBVIOUS
<1> HIDE DEF s
<1>4. << >> \o s = s /\ Len(s) = n
  BY <1>2, EmptyThen
<1>5. told = [d \in Connects |-> told[d]]
  BY DEF ToldOK
<1>6. told'[c] = s /\ \A d \in Connects : d # c => told'[d] = told[d]
  BY <1>1, <1>4, <1>5
<1>7. /\ e.ok = ok /\ (e.open <=> socket' # NoSocket)
      /\ e.made <=> ok /\ socket' = Connection(c, index'[c])
      /\ e.tried <=> index'[c] = Len(targets'[c])
      /\ e.granted = granted[c]
  OBVIOUS
<1> HIDE DEF e
<1> QED BY <1>3, <1>4, <1>6, <1>7 DEF Says

LEMMA GoesOthers ==
    ASSUME PhaseOK, NEW c \in Connects, NEW p, Goes(c, p)
    PROVE  /\ phase'[c] = p
           /\ \A d \in Connects : d # c => phase'[d] = phase[d]
BY DEF PhaseOK, Goes

(* The delegate of c is told, or the handshake begins, where the address   *)
(* that was tried is known.                                                *)
Tried(c, ok) ==
    IF ok THEN /\ index'[c] \in 1..Len(targets'[c])
               /\ ~meddled' => socket' = Connection(c, index'[c])
    ELSE index'[c] = Len(targets'[c])

DidActs(c) ==
    /\ \A d \in Connects : d # c =>
          /\ told'[d] = told[d] /\ socks'[d] = socks[d] /\ granted'[d] = granted[d]
          /\ phase'[d] = phase[d]
    /\ PerConnect(socks') /\ PerConnect(granted')

LEMMA DidConnectLands ==
    ASSUME TInv, NEW c \in Connects, told[c] = << >>, NEW ok \in BOOLEAN,
           DidConnect(c, ok), Tried(c, ok), proxy' = proxy,
           targets'[c] \in Seq(Addresses \cup {Literal}), meddled' \in BOOLEAN
    PROVE  DidActs(c) /\ Lands(c)
<1>1. /\ PhaseOK /\ ToldOK /\ PerConnect(socks) /\ PerConnect(granted)
      /\ proxy \in BOOLEAN /\ Place(c)
  BY DEF TInv, IInv, Shapes
<1>2. CASE ok /\ Goes(c, "thrown") /\ UNCHANGED <<told, socksVars>>
  <2>1. UNCHANGED <<told, socks, granted>> BY <1>2 DEF socksVars
  <2>2. phase'[c] = "thrown" /\ \A d \in Connects : d # c => phase'[d] = phase[d]
    BY <1>1, <1>2, GoesOthers
  <2>3. DidActs(c) BY <1>1, <2>1, <2>2 DEF DidActs, PerConnect
  <2>4. Place(c)' BY <1>1, <2>1, <2>2 DEF Place
  <2>5. Truthful(c)' BY <2>1 DEF Truthful
  <2> QED BY <2>3, <2>4, <2>5 DEF Lands
<1>3. CASE /\ ok /\ socket' # NoSocket /\ proxy
           /\ Goes(c, "handshaking") /\ SocksStart(c) /\ UNCHANGED told
  <2>1. /\ socks' = [socks EXCEPT ![c] = "sendAuthentication"]
        /\ granted' = granted /\ told' = told
    BY <1>3 DEF SocksStart
  <2>2. phase'[c] = "handshaking" /\ \A d \in Connects : d # c => phase'[d] = phase[d]
    BY <1>1, <1>3, GoesOthers
  <2>3. socks'[c] = "sendAuthentication" /\ \A d \in Connects : d # c => socks'[d] = socks[d]
    BY <1>1, <2>1 DEF PerConnect
  <2>4. DidActs(c) BY <1>1, <2>1, <2>2, <2>3 DEF DidActs, PerConnect
  <2>5. Place(c)' BY <1>3, <2>2, <2>3 DEF Place, Own, Tried, Connection
  <2>6. Truthful(c)' BY <2>1 DEF Truthful
  <2> QED BY <2>4, <2>5, <2>6 DEF Lands
<1>4. CASE /\ ok => socket' # NoSocket /\ ~proxy
           /\ Goes(c, "told") /\ Tell(c, ok) /\ UNCHANGED socksVars
  <2>1. UNCHANGED <<socks, granted>> BY <1>4 DEF socksVars
  <2>2. phase'[c] = "told" /\ \A d \in Connects : d # c => phase'[d] = phase[d]
    BY <1>1, <1>4, GoesOthers
  <2>3. TellTimes(c, ok, 1) BY <1>4 DEF Tell
  <2>4. Says(c, ok)
    <3>1. ToldOK /\ 1 \in Nat BY <1>1
    <3>2. told[c] = << >> OBVIOUS
    <3> QED BY <2>3, <3>1, <3>2, ToldEntries
  <2>5. DidActs(c) BY <1>1, <2>1, <2>2, <2>4 DEF DidActs, PerConnect, Says
  <2>6. Place(c)' BY <1>1, <2>1, <2>2 DEF Place
  <2>7. Truthful(c)' BY <1>4, <2>4 DEF Truthful, Entry, Tried, Says
  <2> QED BY <2>5, <2>6, <2>7 DEF Lands
<1> QED BY <1>2, <1>3, <1>4 DEF DidConnect
(* What a step of the lookup does with the addresses.                      *)
LEMMA FoundKept ==
    ASSUME Found, AsyncResolve \/ AsyncResolveStatic \/ CallDelegate
                  \/ \E a \in Answers : DidPerformQuery(a)
    PROVE  Found'
<1>1. /\ addresses \in Seq(Addresses)
      /\ due \in Seq(Seq(Addresses)) /\ results \in Seq(Seq(Addresses))
  BY DEF Found
<1>2. ASSUME NEW n, NEW u, SendQueries(n, u) PROVE results' \in Seq(Seq(Addresses))
  <2> DEFINE s == [f \in 1..NumFamilies |-> << >>]
  <2>1. s \in Seq(Seq(Addresses)) BY FamiliesCounted
  <2> HIDE DEF s
  <2>2. results \o s \in Seq(Seq(Addresses)) BY <1>1, <2>1
  <2>3. results' = results \o s \/ results' = results BY <1>2 DEF SendQueries, s
  <2> QED BY <1>1, <2>2, <2>3
<1>3. CASE AsyncResolve
  BY <1>1, <1>2, <1>3 DEF AsyncResolve, Found
<1>4. CASE AsyncResolveStatic
  BY <1>1, <1>4 DEF AsyncResolveStatic, Found, lookup
<1>5. CASE CallDelegate
  <2>1. Head(due) \in Seq(Addresses) /\ Tail(due) \in Seq(Seq(Addresses))
    BY <1>1, <1>5 DEF CallDelegate
  <2>2. Append(results, Head(due)) \in Seq(Seq(Addresses)) BY <1>1, <2>1
  <2> QED BY <1>1, <1>5, <2>1, <2>2 DEF CallDelegate, Found
<1>6. ASSUME NEW a \in Answers, DidPerformQuery(a) PROVE Found'
  <2>1. due' = due BY <1>6 DEF DidPerformQuery
  <2>2. CASE NextDomain(a.error)
    BY <1>1, <1>2, <1>6, <2>1, <2>2 DEF DidPerformQuery, Found
  <2>3. CASE ~NextDomain(a.error)
    <3>1. Gathered(a) BY <1>6, <2>3 DEF DidPerformQuery
    <3>2. a.addresses \in Seq(Addresses) OBVIOUS
    <3>3. addresses' \in Seq(Addresses) BY <1>1, <3>1, <3>2 DEF Gathered
    <3>4. Append(results, addresses') \in Seq(Seq(Addresses)) BY <1>1, <3>3
    <3>5. results' \in Seq(Seq(Addresses)) BY <1>1, <3>1, <3>4 DEF Gathered
    <3> QED BY <1>1, <2>1, <3>3, <3>5 DEF Found
  <2> QED BY <2>2, <2>3
<1> QED BY <1>3, <1>4, <1>5, <1>6


LEMMA Within ==
    ASSUME NEW S, NEW s \in Seq(S), NEW i \in Nat, NEW n \in i + 1..Len(s)
    PROVE  n \in 1..Len(s)
<1>1. Len(s) \in Nat BY LenProperties
<1> QED BY <1>1

(* Trying the next addresses, after which only c may be waiting.           *)
LEMMA TryNextAddressLands ==
    ASSUME TInv, NEW c \in Connects, told[c] = << >>,
           NEW as \in Seq(Addresses \cup {Literal}), TryNextAddress(c, as),
           phase[c] \in {"idle", "resolving", "retrying"}, meddled' \in BOOLEAN
    PROVE  /\ DidActs(c) /\ Lands(c)
           /\ \A d \in Connects : d # c =>
                 index'[d] = index[d] /\ targets'[d] = targets[d] /\ report'[d] = report[d]
           /\ PerConnect(index') /\ PerConnect(targets') /\ PerConnect(report')
           /\ proxy' = proxy
<1>1. /\ PhaseOK /\ ToldOK /\ PerConnect(socks) /\ PerConnect(granted)
      /\ PerConnect(index) /\ PerConnect(targets) /\ PerConnect(report)
      /\ proxy \in BOOLEAN /\ Place(c)
  BY DEF TInv, IInv, Shapes
<1>2. index[c] \in Nat BY <1>1 DEF Place
<1>3. targets' = [targets EXCEPT ![c] = as] /\ report' = report /\ proxy' = proxy
  BY DEF TryNextAddress
<1>4. /\ targets'[c] = as /\ \A d \in Connects : d # c => targets'[d] = targets[d]
      /\ PerConnect(targets') /\ PerConnect(report')
  BY <1>1, <1>3 DEF PerConnect
<1>5. ASSUME NEW n, index' = [index EXCEPT ![c] = n]
      PROVE  /\ index'[c] = n /\ \A d \in Connects : d # c => index'[d] = index[d]
             /\ PerConnect(index')
  BY <1>1, <1>5 DEF PerConnect
<1>6. CASE /\ index' = [index EXCEPT ![c] = @ + 1]
           /\ Goes(c, "thrown") /\ UNCHANGED <<socket, told, socksVars>>
  <2>1. index' = [index EXCEPT ![c] = index[c] + 1] BY <1>6
  <2>2. /\ \A d \in Connects : d # c => index'[d] = index[d]
        /\ PerConnect(index')
    BY <1>5, <2>1
  <2>3. phase'[c] = "thrown" /\ \A d \in Connects : d # c => phase'[d] = phase[d]
    BY <1>1, <1>6, GoesOthers
  <2>4. UNCHANGED <<told, socks, granted>> BY <1>6 DEF socksVars
  <2>5. DidActs(c) BY <1>1, <2>3, <2>4 DEF DidActs, PerConnect
  <2>6. Place(c)' BY <1>1, <2>3, <2>4 DEF Place
  <2>7. Truthful(c)' BY <2>4 DEF Truthful
  <2> QED BY <1>3, <1>4, <2>2, <2>5, <2>6, <2>7 DEF Lands
<1>7. ASSUME NEW n \in index[c] + 1..Len(as), Attempt(c, n, "connecting"),
             Goes(c, "connecting"), UNCHANGED <<told, socksVars>>
      PROVE  /\ DidActs(c) /\ Lands(c)
             /\ \A d \in Connects : d # c => index'[d] = index[d]
             /\ PerConnect(index')
  <2>1. /\ index' = [index EXCEPT ![c] = n]
        /\ socket' = [by |-> c, at |-> targets'[c][n], is |-> "connecting"]
    BY <1>7 DEF Attempt
  <2>2. /\ index'[c] = n /\ \A d \in Connects : d # c => index'[d] = index[d]
        /\ PerConnect(index')
    BY <1>5, <2>1
  <2>3. phase'[c] = "connecting" /\ \A d \in Connects : d # c => phase'[d] = phase[d]
    BY <1>1, <1>7, GoesOthers
  <2>4. UNCHANGED <<told, socks, granted>> BY <1>7 DEF socksVars
  <2>5. DidActs(c) BY <1>1, <2>3, <2>4 DEF DidActs, PerConnect
  <2>6. index'[c] \in 1..Len(targets'[c])
    <3>1. n \in 1..Len(as) BY <1>2, Within
    <3> QED BY <1>4, <2>2, <3>1
  <2>7. Place(c)' BY <1>1, <2>1, <2>2, <2>3, <2>4, <2>6 DEF Place, Own
  <2>8. Truthful(c)' BY <2>4 DEF Truthful
  <2> QED BY <1>4, <2>2, <2>5, <2>7, <2>8 DEF Lands
<1>8. ASSUME NEW n \in index[c] + 1..Len(as), Attempt(c, n, "connected"),
             DidConnect(c, TRUE)
      PROVE  /\ DidActs(c) /\ Lands(c)
             /\ \A d \in Connects : d # c => index'[d] = index[d]
             /\ PerConnect(index')
  <2>1. /\ index' = [index EXCEPT ![c] = n]
        /\ socket' = [by |-> c, at |-> targets'[c][n], is |-> "connected"]
    BY <1>8 DEF Attempt
  <2>2. /\ index'[c] = n /\ \A d \in Connects : d # c => index'[d] = index[d]
        /\ PerConnect(index')
    BY <1>5, <2>1
  <2>3. index'[c] \in 1..Len(targets'[c])
    <3>1. n \in 1..Len(as) BY <1>2, Within
    <3> QED BY <1>4, <2>2, <3>1
  <2>4. Tried(c, TRUE) BY <2>1, <2>2, <2>3 DEF Tried, Connection
  <2> QED BY <1>3, <1>4, <1>8, <2>2, <2>4, DidConnectLands
<1>9. CASE index' = [index EXCEPT ![c] = Len(as)] /\ DidConnect(c, FALSE)
  <2>1. /\ index'[c] = Len(as) /\ \A d \in Connects : d # c => index'[d] = index[d]
        /\ PerConnect(index')
    BY <1>5, <1>9
  <2>2. Tried(c, FALSE) BY <1>4, <2>1 DEF Tried
  <2> QED BY <1>3, <1>4, <1>9, <2>1, <2>2, DidConnectLands
<1> QED BY <1>3, <1>4, <1>6, <1>7, <1>8, <1>9 DEF TryNextAddress

(* A connect that is waiting is the only one, as long as that matters.     *)
LEMMA WaitingAlone ==
    ASSUME TInv, NEW c \in Connects, phase[c] \in Waiting, UNCHANGED <<meddled, proxy>>
    PROVE  /\ Live(phase[c]) /\ meddled' \in BOOLEAN /\ (meddled => meddled') /\ proxy' = proxy
           /\ ~meddled' \/ proxy => \A d \in Connects : d # c => phase[d] \notin Waiting
<1>1. meddled \in BOOLEAN /\ Alone BY DEF TInv, Shapes
<1> QED BY <1>1 DEF Alone, Live

LEMMA AttemptEndsTrue ==
    ASSUME TInv, NEW c \in Connects, NEW ok \in BOOLEAN, AttemptEnds(c, ok)
    PROVE  Acts(c) /\ Lands(c)
<1>1. /\ phase[c] = "connecting" /\ Goes(c, "reporting")
      /\ socket' = [socket EXCEPT !.is = IF ok THEN "connected" ELSE "refused"]
      /\ report' = [report EXCEPT ![c] = ok]
      /\ UNCHANGED <<socks, granted, targets, index, proxy, told, meddled>>
  BY DEF AttemptEnds, socksVars
<1>2. TInv /\ PhaseOK /\ Shapes /\ Place(c) /\ told[c] = << >>
  BY <1>1 DEF TInv, IInv, ToldOK, Live, Waiting
<1>3. phase'[c] = "reporting" /\ \A d \in Connects : d # c => phase'[d] = phase[d]
  BY <1>1, <1>2, GoesOthers
<1>4. /\ report'[c] = ok /\ \A d \in Connects : d # c => report'[d] = report[d]
      /\ PerConnect(report')
  BY <1>1, <1>2 DEF Shapes, PerConnect
<1>5. Acts(c)
  <2>1. phase[c] \in Waiting BY <1>1 DEF Waiting
  <2>2. UNCHANGED <<meddled, proxy>> BY <1>1
  <2>3. /\ Live(phase[c]) /\ meddled' \in BOOLEAN /\ (meddled => meddled') /\ proxy' = proxy
        /\ ~meddled' \/ proxy => \A d \in Connects : d # c => phase[d] \notin Waiting
    BY <2>1, <2>2, WaitingAlone
  <2> QED BY <1>1, <1>2, <1>3, <1>4, <2>3 DEF Acts, Shapes, PerConnect
<1>6. Place(c)'
  <2>1. index[c] \in 1..Len(targets[c]) /\ (~meddled => Own(c, "connecting"))
    BY <1>1, <1>2 DEF Place
  <2>2. ASSUME ~meddled', ok PROVE Own(c, "connected")'
    <3>1. socket = [by |-> c, at |-> targets[c][index[c]], is |-> "connecting"]
      BY <1>1, <2>1, <2>2 DEF Own
    <3>2. socket' = [by |-> c, at |-> targets[c][index[c]], is |-> "connected"]
      BY <1>1, <2>2, <3>1
    <3> QED BY <1>1, <3>2 DEF Own
  <2> QED BY <1>1, <1>2, <1>3, <1>4, <2>1, <2>2 DEF Place
<1>7. Truthful(c)' BY <1>1, <1>2 DEF Truthful
<1>8. targets'[c] \in Seq(Addresses \cup {Literal}) BY <1>1, <1>2 DEF TInv, Listed
<1> QED BY <1>5, <1>6, <1>7, <1>8 DEF Lands

LEMMA CancellingOthers ==
    ASSUME PhaseOK, NEW c \in Connects, NEW p, Cancelling(c, p)
    PROVE  /\ phase'[c] = p
           /\ \A d \in Connects : d # c => phase'[d] = phase[d] \/ phase'[d] = "cancelled"
BY DEF Cancelling

LEMMA AttemptFailedTrue ==
    ASSUME TInv, NEW c \in Connects, AttemptFailed(c)
    PROVE  Acts(c) /\ Lands(c)
<1>1. /\ phase[c] = "reporting" /\ socket' = NoSocket
      /\ UNCHANGED <<socks, granted, targets, index, report, proxy, meddled>>
  BY DEF AttemptFailed, socksVars
<1>2. /\ PhaseOK /\ ToldOK /\ Shapes /\ Place(c) /\ told[c] = << >>
      /\ index[c] \in 1..Len(targets[c])
      /\ targets[c] \in Seq(Addresses \cup {Literal})
  BY <1>1 DEF TInv, IInv, ToldOK, Live, Waiting, Place, Listed
<1>3. /\ Live(phase[c]) /\ meddled' \in BOOLEAN /\ (meddled => meddled') /\ proxy' = proxy
      /\ ~meddled' \/ proxy => \A d \in Connects : d # c => phase[d] \notin Waiting
  <2>1. phase[c] \in Waiting BY <1>1 DEF Waiting
  <2> QED BY <1>1, <2>1, WaitingAlone
<1>4. CASE Cancelling(c, "told") /\ Tell(c, FALSE) /\ index[c] >= Len(targets[c])
  <2>1. /\ phase'[c] = "told"
        /\ \A d \in Connects : d # c => phase'[d] = phase[d] \/ phase'[d] = "cancelled"
    BY <1>2, <1>4, CancellingOthers
  <2>2. Says(c, FALSE)
    <3>1. TellTimes(c, FALSE, 1) /\ ToldOK /\ 1 \in Nat /\ FALSE \in BOOLEAN
      BY <1>2, <1>4 DEF Tell
    <3> QED BY <1>2, <3>1, ToldEntries
  <2>3. Acts(c) BY <1>1, <1>2, <1>3, <2>1, <2>2 DEF Acts, Shapes, PerConnect, Says
  <2>4. Place(c)' BY <1>1, <1>2, <2>1 DEF Place
  <2>5. index'[c] = Len(targets'[c]) BY <1>1, <1>2, <1>4
  <2>6. Truthful(c)' BY <2>2, <2>5 DEF Truthful, Entry, Says
  <2> QED BY <1>1, <1>2, <2>3, <2>4, <2>6 DEF Lands
<1>5. CASE Cancelling(c, "retrying") /\ UNCHANGED told
  <2>1. /\ phase'[c] = "retrying"
        /\ \A d \in Connects : d # c => phase'[d] = phase[d] \/ phase'[d] = "cancelled"
    BY <1>2, <1>5, CancellingOthers
  <2>2. Acts(c) BY <1>1, <1>2, <1>3, <1>5, <2>1 DEF Acts, Shapes, PerConnect
  <2>3. Place(c)' BY <1>1, <1>2, <2>1 DEF Place
  <2>4. Truthful(c)' BY <1>2, <1>5 DEF Truthful
  <2> QED BY <1>1, <1>2, <2>2, <2>3, <2>4 DEF Lands
<1> QED BY <1>4, <1>5 DEF AttemptFailed

(* A step of c that leaves the other connects alone.                       *)
Steps(c) ==
    /\ DidActs(c) /\ Lands(c)
    /\ \A d \in Connects : d # c =>
          index'[d] = index[d] /\ targets'[d] = targets[d] /\ report'[d] = report[d]
    /\ PerConnect(index') /\ PerConnect(targets') /\ PerConnect(report')
    /\ proxy' = proxy

LEMMA StepsTrue ==
    ASSUME TInv, IInv', Found', NEW c \in Connects, Steps(c), Live(phase[c]),
           meddled' \in BOOLEAN, meddled => meddled',
           ~meddled' \/ proxy => \A d \in Connects : d # c => phase[d] \notin Waiting
    PROVE  TInv'
<1>1. Acts(c) /\ Lands(c) BY DEF Steps, DidActs, Acts
<1> QED BY <1>1, ActsKeep

LEMMA SameFound == ASSUME TInv, UNCHANGED hostVars PROVE Found'
BY DEF TInv, Found, hostVars, lookup

LEMMA AttemptSucceededTrue ==
    ASSUME TInv, NEW c \in Connects, AttemptSucceeded(c)
    PROVE  Steps(c)
<1>1. /\ phase[c] = "reporting" /\ report[c] /\ DidConnect(c, TRUE)
      /\ UNCHANGED <<targets, index, report, socket, proxy, meddled>>
  BY DEF AttemptSucceeded
<1>2. /\ Shapes /\ Place(c) /\ told[c] = << >>
      /\ targets[c] \in Seq(Addresses \cup {Literal})
  BY <1>1 DEF TInv, IInv, ToldOK, Live, Waiting, Listed
<1>3. index[c] \in 1..Len(targets[c]) /\ (~meddled => Own(c, "connected"))
  BY <1>1, <1>2 DEF Place
<1>4. Tried(c, TRUE) BY <1>1, <1>3 DEF Tried, Own, Connection
<1>5. proxy' = proxy /\ meddled' \in BOOLEAN BY <1>1, <1>2 DEF Shapes
<1>6. targets'[c] \in Seq(Addresses \cup {Literal}) BY <1>1, <1>2
<1>7. DidActs(c) /\ Lands(c) BY <1>1, <1>2, <1>4, <1>5, <1>6, DidConnectLands
<1> QED BY <1>1, <1>2, <1>7 DEF Steps, Shapes, PerConnect

LEMMA RetryTrue ==
    ASSUME TInv, NEW c \in Connects, Retry(c)
    PROVE  Steps(c)
<1>1. phase[c] = "retrying" /\ TryNextAddress(c, targets[c]) /\ meddled' = meddled
  BY DEF Retry
<1>2. /\ told[c] = << >> /\ meddled' \in BOOLEAN
      /\ targets[c] \in Seq(Addresses \cup {Literal})
  BY <1>1 DEF TInv, IInv, ToldOK, Live, Waiting, Listed, Shapes
<1> QED BY <1>1, <1>2, TryNextAddressLands DEF Steps

(* A reply of the proxy, and what it says once the handshake is over.      *)
LEMMA RepliesTrue ==
    ASSUME PerConnect(socks), PerConnect(granted), NEW c \in Connects,
           socks[c] \in {"readAddressLength", "readAddress"} => granted[c],
           \E io \in {"full", "short", "error"} :
              SocksWritten(c, io) \/ \E r \in {"refused", "numeric", "name"} : SocksRead(c, io, r)
    PROVE  /\ PerConnect(socks') /\ PerConnect(granted')
           /\ \A d \in Connects : d # c => socks'[d] = socks[d] /\ granted'[d] = granted[d]
           /\ socks'[c] \in {"readAddressLength", "readAddress"} => granted'[c]
           /\ socks'[c] = "connected" => granted[c] /\ granted'[c]
<1>1. PICK io \in {"full", "short", "error"} :
         SocksWritten(c, io) \/ \E r \in {"refused", "numeric", "name"} : SocksRead(c, io, r)
  OBVIOUS
<1>2. CASE SocksWritten(c, io)
  <2>1. PICK s \in {"failed", "readVersion", "readResponse"} : socks' = [socks EXCEPT ![c] = s]
    BY <1>2 DEF SocksWritten, PerConnect
  <2>2. granted' = granted BY <1>2 DEF SocksWritten
  <2>3. socks'[c] = s /\ \A d \in Connects : d # c => socks'[d] = socks[d]
    BY <2>1 DEF PerConnect
  <2> QED BY <2>1, <2>2, <2>3 DEF PerConnect
<1>3. ASSUME NEW r \in {"refused", "numeric", "name"}, SocksRead(c, io, r)
      PROVE  /\ PerConnect(socks') /\ PerConnect(granted')
             /\ \A d \in Connects : d # c => socks'[d] = socks[d] /\ granted'[d] = granted[d]
             /\ socks'[c] \in {"readAddressLength", "readAddress"} => granted'[c]
             /\ socks'[c] = "connected" => granted[c] /\ granted'[c]
  <2> DEFINE s == NextRead(socks[c], io, r)
             g == IF socks[c] = "readResponse" THEN io = "full" /\ r # "refused"
                  ELSE granted[c]
  <2>1. /\ socks' = [socks EXCEPT ![c] = s] /\ granted' = [granted EXCEPT ![c] = g]
        /\ socks[c] \in SocksReads
    BY <1>3 DEF SocksRead
  <2>2. s \in {"readAddressLength", "readAddress"} => g
    BY <2>1 DEF NextRead, SocksReads
  <2>3. s = "connected" => granted[c] /\ g
    BY <2>1 DEF NextRead, SocksReads
  <2> HIDE DEF s, g
  <2>4. socks'[c] = s /\ \A d \in Connects : d # c => socks'[d] = socks[d]
    BY <2>1 DEF PerConnect
  <2>5. granted'[c] = g /\ \A d \in Connects : d # c => granted'[d] = granted[d]
    BY <2>1 DEF PerConnect
  <2>6. PerConnect(socks') /\ PerConnect(granted') BY <2>1 DEF PerConnect
  <2> QED BY <2>2, <2>3, <2>4, <2>5, <2>6
<1> QED BY <1>1, <1>2, <1>3

LEMMA HandshakeTrue ==
    ASSUME TInv, NEW c \in Connects, Handshake(c)
    PROVE  Steps(c)
<1>1. /\ phase[c] = "handshaking"
      /\ UNCHANGED <<targets, index, report, socket, proxy, meddled>>
  BY DEF Handshake
<1>2. /\ PhaseOK /\ ToldOK /\ Shapes /\ Place(c) /\ Truthful(c) /\ told[c] = << >>
      /\ targets[c] \in Seq(Addresses \cup {Literal})
  BY <1>1 DEF TInv, IInv, ToldOK, Live, Waiting, Listed
<1>3. /\ index[c] \in 1..Len(targets[c]) /\ proxy /\ socket # NoSocket
      /\ (~meddled => Own(c, "connected"))
      /\ socks[c] \in {"readAddressLength", "readAddress"} => granted[c]
  BY <1>1, <1>2 DEF Place
<1>4. /\ PerConnect(socks') /\ PerConnect(granted')
      /\ \A d \in Connects : d # c => socks'[d] = socks[d] /\ granted'[d] = granted[d]
      /\ socks'[c] \in {"readAddressLength", "readAddress"} => granted'[c]
      /\ socks'[c] = "connected" => granted[c] /\ granted'[c]
  <2>1. \E io \in {"full", "short", "error"} :
           SocksWritten(c, io) \/ \E r \in {"refused", "numeric", "name"} : SocksRead(c, io, r)
    BY DEF Handshake
  <2>2. PerConnect(socks) /\ PerConnect(granted) BY <1>2 DEF Shapes
  <2> QED BY <1>3, <2>1, <2>2, RepliesTrue
<1>5. CASE socks'[c] \in SocksEnds /\ Goes(c, "told") /\ Tell(c, socks'[c] = "connected")
  <2> DEFINE ok == socks'[c] = "connected"
  <2>1. phase'[c] = "told" /\ \A d \in Connects : d # c => phase'[d] = phase[d]
    BY <1>2, <1>5, GoesOthers
  <2>2. Says(c, ok)
    <3>1. TellTimes(c, ok, 1) /\ 1 \in Nat /\ ok \in BOOLEAN BY <1>5 DEF Tell
    <3> HIDE DEF ok
    <3> QED BY <1>2, <3>1, ToldEntries
  <2>3. ~meddled' => socket' = Connection(c, index'[c])
    BY <1>1, <1>3 DEF Own, Connection
  <2>4. ASSUME NEW i \in 1..Len(told'[c]) PROVE Entry(c, told[c][i])'
    <3>1. CASE ok BY <1>1, <1>3, <1>4, <2>2, <2>3, <3>1 DEF Entry, Says
    <3>2. CASE ~ok
      <4>1. socks'[c] = "failed" BY <1>5, <3>2 DEF SocksEnds
      <4> QED BY <2>2, <3>2, <4>1 DEF Entry, Says
    <3> QED BY <3>1, <3>2
  <2>5. Truthful(c)' BY <2>4 DEF Truthful
  <2>6. Place(c)' BY <1>4, <2>1 DEF Place
  <2>7. targets'[c] \in Seq(Addresses \cup {Literal}) BY <1>1, <1>2
  <2>8. DidActs(c) BY <1>4, <2>1, <2>2 DEF DidActs, Says
  <2> QED BY <1>1, <1>2, <2>5, <2>6, <2>7, <2>8 DEF Steps, Lands, Shapes, PerConnect
<1>6. CASE UNCHANGED <<phase, told>>
  <2>1. Truthful(c)' BY <1>2, <1>6 DEF Truthful
  <2>2. Place(c)' BY <1>1, <1>3, <1>4, <1>6 DEF Place, Own
  <2>3. targets'[c] \in Seq(Addresses \cup {Literal}) BY <1>1, <1>2
  <2>4. DidActs(c) BY <1>4, <1>6 DEF DidActs
  <2> QED BY <1>1, <1>2, <2>1, <2>2, <2>3, <2>4 DEF Steps, Lands, Shapes, PerConnect
<1> QED BY <1>5, <1>6 DEF Handshake

(* The results of a lookup reach the connect it is for.                    *)
LEMMA DidResolveHostTrue ==
    ASSUME TInv, Found', NEW c \in Connects, DidResolveHost(c), results = << >>,
           phase[c] \in {"idle", "resolving"}, meddled' \in BOOLEAN
    PROVE  Steps(c)
<1> DEFINE new == SubSeq(results', Len(results) + 1, Len(results'))
<1>1. /\ PhaseOK /\ ToldOK /\ Shapes /\ Place(c) /\ told[c] = << >>
      /\ targets[c] \in Seq(Addresses \cup {Literal})
      /\ index[c] = 0 /\ targets[c] = << >>
  BY DEF TInv, IInv, ToldOK, Live, Waiting, Listed, Place
<1>2. results' \in Seq(Seq(Addresses)) BY DEF Found
<1>3. new \in Seq(Seq(Addresses)) /\ Len(new) \in Nat
  <2>1. Len(results) + 1 = 1 /\ Len(results') \in Nat BY <1>2, LenProperties
  <2>2. new = SubSeq(results', 1, Len(results')) BY <2>1
  <2>3. SubSeq(results', 1, Len(results')) \in Seq(Seq(Addresses))
    BY <1>2, <2>1, SubSeqProperties
  <2> HIDE DEF new
  <2> QED BY <2>2, <2>3, LenProperties
<1>4. CASE new # << >> /\ TryNextAddress(c, new[1])
  <2>1. new[1] \in Seq(Addresses)
    <3> HIDE DEF new
    <3> QED BY <1>3, <1>4
  <2>2. \A s \in Seq(Addresses) : s \in Seq(Addresses \cup {Literal}) OBVIOUS
  <2>3. new[1] \in Seq(Addresses \cup {Literal}) BY <2>1, <2>2
  <2>4. phase[c] \in {"idle", "resolving", "retrying"} OBVIOUS
  <2> HIDE DEF new
  <2> QED BY <1>1, <1>4, <2>3, <2>4, TryNextAddressLands DEF Steps
<1>5. CASE /\ UNCHANGED <<targets, index, report, socket, proxy, socksVars>>
           /\ Goes(c, "told") /\ TellTimes(c, FALSE, Len(new))
  <2> HIDE DEF new
  <2>1. phase'[c] = "told" /\ \A d \in Connects : d # c => phase'[d] = phase[d]
    BY <1>1, <1>5, GoesOthers
  <2>2. Says(c, FALSE)
    <3>1. FALSE \in BOOLEAN OBVIOUS
    <3> QED BY <1>1, <1>3, <1>5, <3>1, ToldEntries
  <2>3. UNCHANGED <<socks, granted>> BY <1>5 DEF socksVars
  <2>4. index'[c] = Len(targets'[c]) BY <1>1, <1>5
  <2>5. Truthful(c)' BY <2>2, <2>4 DEF Truthful, Entry, Says
  <2>6. Place(c)' BY <1>1, <2>1, <2>3 DEF Place
  <2> QED BY <1>1, <1>5, <2>1, <2>2, <2>3, <2>5, <2>6
       DEF Steps, DidActs, Lands, Shapes, PerConnect, Says
<1>6. CASE /\ Goes(c, "resolving")
           /\ UNCHANGED <<targets, index, report, socket, proxy, socksVars, told>>
  <2>1. phase'[c] = "resolving" /\ \A d \in Connects : d # c => phase'[d] = phase[d]
    BY <1>1, <1>6, GoesOthers
  <2>2. UNCHANGED <<socks, granted>> BY <1>6 DEF socksVars
  <2>3. Truthful(c)' BY <1>1, <1>6 DEF Truthful
  <2>4. Place(c)' BY <1>1, <1>6, <2>1, <2>2 DEF Place
  <2> QED BY <1>1, <1>6, <2>1, <2>2, <2>3, <2>4
       DEF Steps, DidActs, Lands, Shapes, PerConnect
<1> HIDE DEF new
<1> QED BY <1>4, <1>5, <1>6 DEF DidResolveHost, new

LEMMA ResolveTrue ==
    ASSUME TInv, IInv', Resolve
    PROVE  TInv'
<1>1. /\ phase[Named] = "resolving" /\ results = << >> /\ Named \in Connects
  BY DEF Resolve, CallDelegate, DidPerformQuery, TInv, IInv, LookingUp
<1>2. Found' BY FoundKept DEF TInv, Resolve
<1>3. DidResolveHost(Named) /\ meddled' = meddled BY DEF Resolve
<1>4. meddled' \in BOOLEAN BY <1>3 DEF TInv, Shapes
<1>5. Steps(Named) BY <1>1, <1>2, <1>3, <1>4, DidResolveHostTrue
<1>6. /\ Live(phase[Named])
      /\ ~meddled' \/ proxy => \A d \in Connects : d # Named => phase[d] \notin Waiting
  <2>1. phase[Named] \in Waiting /\ UNCHANGED <<meddled, proxy>>
    BY <1>1, <1>3, <1>5 DEF Waiting, Steps
  <2> QED BY <1>1, <2>1, WaitingAlone
<1> QED BY <1>1, <1>2, <1>3, <1>4, <1>5, <1>6, StepsTrue

LEMMA ConnectTrue ==
    ASSUME TInv, IInv', NEW c \in Connects, Connect(c)
    PROVE  TInv'
<1>1. /\ phase[c] = "idle" /\ (proxy => ~UnderWay)
      /\ meddled' = (meddled \/ UnderWay)
  BY DEF Connect
<1>2. /\ PhaseOK /\ ToldOK /\ Shapes /\ Place(c) /\ Truthful(c) /\ told[c] = << >>
      /\ index[c] = 0 /\ targets[c] = << >>
      /\ targets[c] \in Seq(Addresses \cup {Literal})
  BY <1>1 DEF TInv, IInv, ToldOK, Live, Place, Listed
<1>3. /\ meddled' \in BOOLEAN /\ (meddled => meddled') /\ Live(phase[c])
      /\ ~meddled' \/ proxy => \A d \in Connects : d # c => phase[d] \notin Waiting
  BY <1>1, <1>2 DEF Shapes, UnderWay, Live
<1>4. CASE TryNextAddress(c, <<Literal>>) /\ UNCHANGED hostVars
  <2>1. <<Literal>> \in Seq(Addresses \cup {Literal}) OBVIOUS
  <2>2. phase[c] \in {"idle", "resolving", "retrying"} BY <1>1
  <2>3. Steps(c) BY <1>2, <1>3, <1>4, <2>1, <2>2, TryNextAddressLands DEF Steps
  <2>4. Found' BY <1>4, SameFound
  <2> QED BY <1>3, <2>3, <2>4, StepsTrue
<1>5. CASE c = Named /\ (AsyncResolve \/ AsyncResolveStatic) /\ DidResolveHost(c)
  <2>1. Found' BY <1>5, FoundKept DEF TInv
  <2>2. results = << >> BY <1>1, <1>5 DEF TInv, IInv, LookingUp
  <2>3. phase[c] \in {"idle", "resolving"} BY <1>1
  <2>4. Steps(c) BY <1>3, <1>5, <2>1, <2>2, <2>3, DidResolveHostTrue
  <2> QED BY <1>3, <2>1, <2>4, StepsTrue
<1>6. CASE /\ AsyncResolveThrows /\ Goes(c, "thrown")
           /\ UNCHANGED <<targets, index, report, socket, proxy, told, socksVars>>
  <2>1. phase'[c] = "thrown" /\ \A d \in Connects : d # c => phase'[d] = phase[d]
    BY <1>2, <1>6, GoesOthers
  <2>2. UNCHANGED <<socks, granted>> BY <1>6 DEF socksVars
  <2>3. Truthful(c)' BY <1>2, <1>6 DEF Truthful
  <2>4. Place(c)' BY <1>2, <1>6, <2>1, <2>2 DEF Place
  <2>5. Steps(c)
    BY <1>2, <1>6, <2>1, <2>2, <2>3, <2>4 DEF Steps, DidActs, Lands, Shapes, PerConnect
  <2>6. Found'
    <3>1. UNCHANGED hostVars BY <1>6 DEF AsyncResolveThrows
    <3> QED BY <3>1, SameFound
  <2> QED BY <1>3, <2>5, <2>6, StepsTrue
<1> QED BY <1>4, <1>5, <1>6 DEF Connect

LEMMA CloseTrue ==
    ASSUME TInv, IInv', Close
    PROVE  TInv'
<1>1. /\ meddled' = (meddled \/ UnderWay) /\ socket' = NoSocket
      /\ phase' = [c \in Connects |-> IF Queued(c) THEN "cancelled" ELSE phase[c]]
      /\ UNCHANGED <<socks, granted, targets, index, report, proxy, told>>
      /\ Found'
  BY SameFound DEF Close, socksVars
<1>2. Shapes /\ Alone /\ Listed BY DEF TInv
<1>3. meddled \in BOOLEAN /\ meddled' \in BOOLEAN /\ (meddled => meddled')
      /\ (~meddled' => \A c \in Connects : phase[c] \notin Waiting)
  BY <1>1, <1>2 DEF Shapes, UnderWay
<1>4. \A c \in Connects : (phase'[c] = phase[c] /\ ~Queued(c)) \/ phase'[c] = "cancelled"
  BY <1>1
<1>5. ASSUME NEW c \in Connects PROVE Place(c)' /\ Truthful(c)'
  <2>1. Place(c) /\ Truthful(c) BY DEF TInv
  <2>2. Place(c)' BY <1>1, <1>3, <1>4, <2>1 DEF Place, Own, Waiting, Queued
  <2>3. Truthful(c)' BY <1>1, <1>3, <2>1 DEF Truthful, Entry
  <2> QED BY <2>2, <2>3
<1>6. Shapes' BY <1>1, <1>2, <1>3 DEF Shapes, PerConnect
<1>7. Alone' BY <1>1, <1>2, <1>3, <1>4 DEF Alone, Waiting
<1>8. Listed' BY <1>1, <1>2 DEF Listed
<1> QED BY <1>1, <1>5, <1>6, <1>7, <1>8 DEF TInv

LEMMA SameTrue == ASSUME TInv, UNCHANGED vars PROVE TInv'
<1>1. UNCHANGED <<phase, targets, index, report, socket, proxy, told, meddled,
                  socks, granted, hostVars>>
  BY DEF vars, connVars, socksVars
<1>2. IInv' /\ Found' BY <1>1, SameFound, SamePhasesKeep DEF TInv
<1>3. Listed' /\ Shapes' /\ Alone'
  BY <1>1 DEF TInv, Listed, Shapes, PerConnect, Alone
<1>4. \A c \in Connects : Place(c)' BY <1>1 DEF TInv, Place, Own
<1>5. \A c \in Connects : Truthful(c)' BY <1>1 DEF TInv, Truthful, Entry
<1> QED BY <1>2, <1>3, <1>4, <1>5 DEF TInv

LEMMA InitTrue == ASSUME Init PROVE TInv
<1>1. IInv BY InitInv
<1>2. Found BY DEF Init, HostInit, Found
<1>3. Listed /\ Alone BY DEF Init, Listed, Alone, Waiting
<1>4. Shapes BY DEF Init, SocksInit, Shapes, PerConnect
<1>5. ASSUME NEW c \in Connects PROVE Place(c) /\ Truthful(c)
  <2>1. /\ phase[c] = "idle" /\ index[c] = 0 /\ targets[c] = << >>
        /\ told[c] = << >> /\ socks[c] = "none"
    BY DEF Init, SocksInit
  <2>2. Place(c) BY <2>1 DEF Place
  <2>3. Truthful(c) BY <2>1 DEF Truthful
  <2> QED BY <2>2, <2>3
<1> QED BY <1>1, <1>2, <1>3, <1>4, <1>5 DEF TInv

LEMMA NextTrue == ASSUME TInv, [Next]_vars PROVE TInv'
<1>1. IInv' BY NextInv DEF TInv
<1>2. CASE UNCHANGED vars BY <1>2, SameTrue
<1>3. CASE Resolve BY <1>1, <1>3, ResolveTrue
<1>4. CASE Close BY <1>1, <1>4, CloseTrue
<1>5. ASSUME NEW c \in Connects, Connect(c) PROVE TInv' BY <1>1, <1>5, ConnectTrue
<1>6. ASSUME NEW c \in Connects, NEW ok \in BOOLEAN, AttemptEnds(c, ok) PROVE TInv'
  <2>1. Found' BY <1>6, SameFound DEF AttemptEnds
  <2>2. Acts(c) /\ Lands(c) BY <1>6, AttemptEndsTrue
  <2> QED BY <1>1, <2>1, <2>2, ActsKeep
<1>7. ASSUME NEW c \in Connects, AttemptFailed(c) PROVE TInv'
  <2>1. Found' BY <1>7, SameFound DEF AttemptFailed
  <2>2. Acts(c) /\ Lands(c) BY <1>7, AttemptFailedTrue
  <2> QED BY <1>1, <2>1, <2>2, ActsKeep
<1>8. ASSUME NEW c \in Connects, AttemptSucceeded(c) \/ Retry(c) \/ Handshake(c)
      PROVE  TInv'
  <2>1. Found' BY <1>8, SameFound DEF AttemptSucceeded, Retry, Handshake
  <2>2. Steps(c) BY <1>8, AttemptSucceededTrue, RetryTrue, HandshakeTrue
  <2>3. phase[c] \in Waiting /\ meddled' = meddled
    BY <1>8 DEF AttemptSucceeded, Retry, Handshake, Waiting
  <2>4. UNCHANGED <<meddled, proxy>> BY <2>2, <2>3 DEF Steps
  <2>5. /\ Live(phase[c]) /\ meddled' \in BOOLEAN /\ (meddled => meddled')
        /\ ~meddled' \/ proxy => \A d \in Connects : d # c => phase[d] \notin Waiting
    BY <2>3, <2>4, WaitingAlone
  <2> QED BY <1>1, <2>1, <2>2, <2>5, StepsTrue
<1> QED BY <1>2, <1>3, <1>4, <1>5, <1>6, <1>7, <1>8 DEF Next

(* What a delegate is told is true.  A connect that succeeded left the     *)
(* socket open and, unless the application closed or connected it in       *)
(* between, connected to the address this connect tried last, with the     *)
(* consent of the proxy; one that failed has tried every address, or the   *)
(* proxy was asked: in whatever order answers, attempts, timers and        *)
(* replies come, with any number of connects and addresses.                *)
THEOREM ToldTheTruth == Spec => []ToldTruth
<1>1. Init => TInv BY InitTrue
<1>2. TInv /\ [Next]_vars => TInv' BY NextTrue
<1>3. TInv => ToldTruth BY DEF TInv, Truthful, Entry, ToldTruth
<1> QED BY <1>1, <1>2, <1>3, PTL DEF Spec
=============================================================================
