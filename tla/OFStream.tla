------------------------------ MODULE OFStream ------------------------------
(***************************************************************************)
(* The read buffer of a stream (src/OFStream.m): reads smaller than        *)
(* MIN_READ_SIZE fetch more and keep the rest, larger ones go past the     *)
(* buffer, and a line is gathered in it over any number of reads.          *)
(*                                                                         *)
(* A stream is whatever implements -[lowlevelReadIntoBuffer:length:]: here *)
(* a function low that gives for n the possible results of asking for n    *)
(* bytes, each with what was got and the state after.  Bytes are integers. *)
(***************************************************************************)
EXTENDS Integers, SequencesExt

CONSTANTS MinReadSize,   (* MIN_READ_SIZE                                  *)
          PageSize       (* what -[tryReadLine] asks for at a time         *)

ASSUME StreamAssumption == MinReadSize \in Nat \ {0} /\ PageSize \in Nat \ {0}

CR == -1
LF == -2

Take(s, n) == SubSeq(s, 1, IF n < Len(s) THEN n ELSE Len(s))
Drop(s, n) == SubSeq(s, n + 1, Len(s))

(* -[readIntoBuffer:length:]: the possible results of reading n bytes when *)
(* the buffer holds the given ones; same is the state nothing was read in. *)
ReadIntoBuffer(buffer, n, low, same) ==
    IF buffer = << >>
      THEN {[out |-> Take(r.got, n), buffer |-> Drop(r.got, n), after |-> r.after] :
              r \in low[IF n < MinReadSize THEN MinReadSize ELSE n]}
      ELSE {[out |-> Take(buffer, n), buffer |-> Drop(buffer, n), after |-> same]}

WithoutCR(s) == IF s # << >> /\ Last(s) = CR THEN Front(s) ELSE s

NoLine == [found |-> FALSE]
Line(s) == [found |-> TRUE, text |-> WithoutCR(s)]

FirstLF(s) == SelectInSeq(s, LAMBDA x : x = LF)

(* -[tryReadLine]: a line in the buffer, unless it was searched before; at *)
(* the end of the stream what is left (of a buffer that a line used up,    *)
(* the empty line; of one never filled, none); otherwise one more read,    *)
(* after which there is a line, or the buffer waits for the rest of it.    *)
TryReadLine(buffer, waiting, atEnd, low, same) ==
    IF ~waiting /\ FirstLF(buffer) > 0
      THEN {[line |-> Line(Take(buffer, FirstLF(buffer) - 1)),
             buffer |-> Drop(buffer, FirstLF(buffer)), waiting |-> FALSE, after |-> same]}
    ELSE IF atEnd
      THEN {[line |-> l, buffer |-> << >>, waiting |-> FALSE, after |-> same] :
              l \in {Line(buffer)} \cup (IF buffer = << >> THEN {NoLine} ELSE {})}
    ELSE {LET i == FirstLF(r.got)
          IN  IF i > 0
                THEN [line |-> Line(buffer \o Take(r.got, i - 1)),
                      buffer |-> Drop(r.got, i), waiting |-> FALSE, after |-> r.after]
                ELSE [line |-> NoLine, buffer |-> buffer \o r.got, waiting |-> TRUE,
                      after |-> r.after] : r \in low[PageSize]}
=============================================================================
