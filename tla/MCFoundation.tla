---------------------------- MODULE MCFoundation ----------------------------
(* Four sequential components of the foundation, each on its own: a        *)
(* behaviour runs one of them and leaves the others as they are.           *)
EXTENDS OFMapTable, AutoreleasePools, OFHTTPClientResponse, OFHTTPClient, TLC

CONSTANTS k1, k2, k3, k4,   (* keys of the map table *)
          h1, h2            (* hosts                 *)

VARIABLE part   (* the component that runs *)

(* All keys at home in the last bucket of a small table, and two chains    *)
(* that run into each other and around the end.                            *)
MCHashes == {[k \in Keys |-> 7], k1 :> 3 @@ k2 :> 7 @@ k3 :> 3 @@ k4 :> 0}

-----------------------------------------------------------------------------
(* The body holds a byte that could be taken for the end of a line.        *)
Body == <<1, LF, 2>>
Chunkings == {<<Body>>, <<Take(Body, 1), Drop(Body, 1)>>, <<Take(Body, 2), Drop(Body, 2)>>}

Chunked(cs) == FlattenSeq([i \in DOMAIN cs |-> Chunk(cs[i])]) \o Chunk(<< >>)

Message(d, body, w, next, complete) ==
    [delimited |-> d, body |-> body, wire |-> w \o next, next |-> next, complete |-> complete]

Encodings ==
    {<<"length", b, b>> : b \in {Body, << >>}}
      \cup {<<"chunked", Body, Chunked(cs)>> : cs \in Chunkings}
      \cup {<<"chunked", << >>, Chunked(<< >>)>>}

(* With and without a response that follows, cut off anywhere, or ended by *)
(* the connection.                                                         *)
MCMessages ==
    {Message(e[1], e[2], e[3], next, TRUE) : e \in Encodings, next \in {<< >>, <<LF, 9>>}}
      \cup UNION {{Message(e[1], e[2], Take(e[3], n), << >>, FALSE) : n \in 0..Len(e[3]) - 1} :
                    e \in Encodings}
      \cup {Message("close", Body, Body, << >>, TRUE)}

-----------------------------------------------------------------------------
Reply(version, connection, delimited, pieces, location) ==
    [version |-> version, connection |-> connection, delimited |-> delimited,
     pieces |-> pieces, location |-> location]

(* Kept and dropped, with a body that ends, is empty or goes on until the  *)
(* connection is closed, and redirected.                                   *)
MCReplies == {Reply("1.1", "none", "length", 1, NoHost),
              Reply("1.1", "close", "length", 1, NoHost),
              Reply("1.0", "keep-alive", "length", 0, NoHost),
              Reply("1.1", "none", "close", 1, NoHost),
              Reply("1.1", "none", "length", 1, h2)}

-----------------------------------------------------------------------------
Some(S) == {CHOOSE x \in S : TRUE}

Init ==
    /\ part \in {"map", "response", "pools", "client"}
    /\ MapInit(IF part = "map" THEN Hashes ELSE Some(Hashes))
    /\ part # "map" => table = Empty(MinCapacity)
    /\ ResponseInit(IF part = "response" THEN Messages ELSE Some(Messages))
    /\ PoolInit
    /\ HTTPInit

Next ==
    /\ UNCHANGED part
    /\ \/ part = "map" /\ MapNext /\ UNCHANGED <<responseVars, poolVars, httpVars>>
       \/ part = "response" /\ ResponseNext /\ UNCHANGED <<mapVars, poolVars, httpVars>>
       \/ part = "pools" /\ PoolNext /\ UNCHANGED <<mapVars, responseVars, httpVars>>
       \/ part = "client" /\ HTTPNext /\ UNCHANGED <<mapVars, responseVars, poolVars>>

Spec == Init /\ [][Next]_<<part, mapVars, responseVars, poolVars, httpVars>>
=============================================================================
