----------------------------- MODULE ByteStream -----------------------------
(***************************************************************************)
(* What one direction of a TCP translation promises: a finite stream is     *)
(* taken from one side a piece at a time and handed to the other side in    *)
(* order, without loss and without repetition, and the end of the stream is *)
(* announced after its last octet or not at all.  Octet k has the value k.  *)
(***************************************************************************)
EXTENDS Naturals, Sequences

CONSTANT Length  \* octets in the stream

VARIABLES
  taken,      \* octets taken from the producer
  delivered,  \* octets handed to the consumer
  ended       \* has the consumer been told that the stream is complete?

stream == <<taken, delivered, ended>>

Init == taken = 0 /\ delivered = << >> /\ ended = FALSE

Take ==
  /\ taken' \in taken + 1 .. Length
  /\ UNCHANGED <<delivered, ended>>

(* Any number of octets that follow the last one, and possibly the end.    *)
Deliver ==
  /\ ~ended
  /\ \E n \in 0 .. taken - Len(delivered) :
       delivered' = delivered \o [i \in 1 .. n |-> Len(delivered) + i]
  /\ ended' \in {FALSE, Len(delivered') = Length}
  /\ UNCHANGED taken

Next == Take \/ Deliver

Spec == Init /\ [][Next]_stream
=============================================================================
