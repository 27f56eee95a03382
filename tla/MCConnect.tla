----------------------------- MODULE MCConnect -----------------------------
(* Instances of OFIPSocketAsyncConnector for TLC.                          *)
EXTENDS OFIPSocketAsyncConnector

CONSTANTS a, b   (* two addresses *)

Answer(e, as, n) == [error |-> e, addresses |-> as, aliases |-> n]

(* Errors, nothing of use, one or two addresses, an alias, and an alias    *)
(* together with an address, as a server adds it that knows both.          *)
MCAnswers ==
    {Answer(e, << >>, 0) : e \in {"none", "name", "other"}}
      \cup {Answer("none", <<a>>, 0), Answer("none", <<a, b>>, 0),
            Answer("none", << >>, 1), Answer("none", <<a>>, 1)}

(* A static host whose entries are of the wrong family has no address.     *)
MCStatic == {<< >>, <<b>>}
=============================================================================
