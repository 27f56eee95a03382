----------------------- MODULE OFHostAddressResolver -----------------------
(***************************************************************************)
(* The lookup of a host's addresses (src/OFHostAddressResolver.m): one     *)
(* query per address family under each search domain in turn, one more for *)
(* every alias an answer names, and one call of the delegate when no query *)
(* is left unanswered.  The queries are performed by OFDNSResolver, which  *)
(* answers each of them once, later and in any order; without a name       *)
(* server it answers at once, inside asyncPerformQuery.                    *)
(*                                                                         *)
(* An answer is an error, or the addresses that its records hold, in their *)
(* order, and how many aliases; what other records it has is skipped.      *)
(* Names are left out: a query is one of those still unanswered.           *)
(***************************************************************************)
EXTENDS Integers, SequencesExt

CONSTANTS Addresses,        (* the addresses an answer can hold            *)
          Families,         (* the record types asked for: A, AAAA or both *)
          Answers,          (* what a query can be answered with           *)
          StaticAddresses,  (* what a static host can stand for            *)
          MaxDomains,       (* bound: search domains                       *)
          MaxAliases        (* bound: aliases in all answers together; the *)
                            (* code has none                               *)

ASSUME LookupAssumption ==
    /\ IsFiniteSet(Families) /\ Families # {}
    /\ MaxDomains \in Nat /\ MaxAliases \in Nat
    /\ Answers \subseteq
         [error : {"none", "name", "other"}, addresses : Seq(Addresses), aliases : Nat]
    /\ \A a \in Answers : a.error # "none" => a.addresses = << >> /\ a.aliases = 0
    /\ StaticAddresses \subseteq Seq(Addresses)

VARIABLES nameServers,        (* is any name server configured?            *)
          searchDomains,      (* how many search domains are configured    *)
          isFQDN,             (* _isFQDN                                   *)
          searchDomainIndex,  (* _searchDomainIndex                        *)
          numExpected,        (* _numExpectedResponses                     *)
          addresses,          (* _addresses                                *)
          unanswered,         (* queries OFDNSResolver has yet to answer   *)
          due,                (* calls of the delegate waiting in timers   *)
          aliases,            (* aliases among the answers (history)       *)
          results             (* what the delegate was called with, << >>  *)
                              (* for an exception (history)                *)

settings == <<nameServers, searchDomains, isFQDN>>
lookup == <<searchDomainIndex, numExpected, addresses, unanswered, aliases, results>>
hostVars == <<settings, lookup, due>>

HostInit ==
    /\ nameServers \in BOOLEAN
    /\ searchDomains \in 0..MaxDomains
    /\ isFQDN \in BOOLEAN
    /\ searchDomainIndex = 0
    /\ numExpected = 0
    /\ addresses = << >>
    /\ unanswered = 0
    /\ due = << >>
    /\ aliases = 0
    /\ results = << >>

NumFamilies == Cardinality(Families)

-----------------------------------------------------------------------------
(* -[sendQueries], with n responses expected and u queries unanswered.     *)
(* Without name servers each query ends in a -[resolver:didPerformQuery:   *)
(* ...] that finds itself to be the last, and so in a call of the delegate.*)
SendQueries(n, u) ==
    IF nameServers
      THEN /\ numExpected' = n + NumFamilies
           /\ unanswered' = u + NumFamilies
           /\ UNCHANGED results
      ELSE /\ results' = results \o [f \in 1..NumFamilies |-> << >>]
           /\ numExpected' = n
           /\ unanswered' = u

(* -[asyncResolve]: a static host is reported from a timer, any other name *)
(* is asked for.                                                           *)
AsyncResolveStatic ==
    /\ \E s \in StaticAddresses : due' = Append(due, s)
    /\ UNCHANGED <<settings, lookup>>

AsyncResolve ==
    /\ isFQDN \/ searchDomains > 0
    /\ SendQueries(0, 0)
    /\ UNCHANGED <<settings, due, searchDomainIndex, addresses, aliases>>

(* With neither dots in the name nor a search domain, -[sendQueries] asks  *)
(* an empty array for its first object, which throws.                      *)
AsyncResolveThrows ==
    /\ ~isFQDN /\ searchDomains = 0
    /\ UNCHANGED hostVars

(* The timer of callDelegateInMode.                                        *)
CallDelegate ==
    /\ due # << >>
    /\ due' = Tail(due)
    /\ results' = Append(results, Head(due))
    /\ UNCHANGED <<settings, searchDomainIndex, numExpected, addresses, unanswered,
                   aliases>>

-----------------------------------------------------------------------------
(* Variants of the definition that follows them: slips of the code the     *)
(* properties are validated against.                                       *)
NextDomainEarly(error) ==
    /\ error = "name" /\ ~isFQDN
    /\ addresses = << >>
    /\ searchDomainIndex + 1 < searchDomains

(* Is the next search domain tried after this answer?                      *)
NextDomain(error) ==
    /\ error = "name" /\ ~isFQDN
    /\ numExpected - 1 = 0 /\ addresses = << >>
    /\ searchDomainIndex + 1 < searchDomains

GatheredUncounted(answer) ==
    /\ numExpected' = numExpected - 1
    /\ unanswered' = unanswered - 1 + answer.aliases
    /\ aliases' = aliases + answer.aliases
    /\ addresses' = addresses \o answer.addresses
    /\ results' = IF numExpected' > 0 THEN results ELSE Append(results, addresses')

(* The records of an answer: addresses are kept, an alias is asked for,    *)
(* and when nothing is expected any more the delegate is called.           *)
Gathered(answer) ==
    /\ numExpected' = numExpected - 1 + answer.aliases
    /\ unanswered' = unanswered - 1 + answer.aliases
    /\ aliases' = aliases + answer.aliases
    /\ addresses' = addresses \o answer.addresses
    /\ results' = IF numExpected' > 0 THEN results ELSE Append(results, addresses')

(* -[resolver:didPerformQuery:response:exception:].                        *)
DidPerformQuery(answer) ==
    /\ unanswered > 0
    /\ aliases + answer.aliases <= MaxAliases
    /\ IF NextDomain(answer.error)
         THEN /\ searchDomainIndex' = searchDomainIndex + 1
              /\ SendQueries(numExpected - 1, unanswered - 1)
              /\ UNCHANGED <<addresses, aliases>>
         ELSE /\ Gathered(answer)
              /\ UNCHANGED searchDomainIndex
    /\ UNCHANGED <<settings, due>>

=============================================================================
