------------------------------ MODULE MCNetTcp ------------------------------
(* A small instance of NetTcp: one connection attempt, and a guest that may
   send any of a set of segments at any moment, sensible or not.           *)
EXTENDS NetTcp

MCStride == 10

(* The octet at guest sequence k is k; window closed or wide open.         *)
DataSeg(q, n, a, w, fin) ==
  [flags |-> {"ACK"} \cup fin, seq |-> q, ack |-> a, wnd |-> w,
   data |-> [i \in 1 .. n |-> q + i - 1]]

(* Where octets start and how many: old, next, overlapping, out of order,
   past the window; a FIN after none, some or all of the octets before it.  *)
Plain == {<<1, 0>>, <<1, 1>>, <<1, 2>>, <<2, 1>>, <<2, 2>>}
Final == {<<1, 0>>, <<1, 1>>, <<2, 0>>, <<2, 1>>, <<2, 2>>}

(* From an ACK that misses the SYN to one of what was never sent.           *)
Acks == MCStride .. MCStride + HostLen + 3

MCSegments ==
  {[flags |-> {"SYN"}, seq |-> 0, ack |-> 0, wnd |-> 2, data |-> << >>],
   [flags |-> {"RST"}, seq |-> 1, ack |-> 0, wnd |-> 0, data |-> << >>],
   [flags |-> {"FIN"}, seq |-> 1, ack |-> 0, wnd |-> 0, data |-> << >>]}
  \cup {DataSeg(p[1], p[2], a, w, {}) : p \in Plain, a \in Acks, w \in {0, 2}}
  \cup {DataSeg(p[1], p[2], a, 2, {"FIN"}) : p \in Final, a \in Acks}

(* What is queued toward the guest never steers the endpoint, only how much:
   states that differ in the queued segments alone are one state.          *)
QueueLengthView == <<flow, Len(out), host, iss>>

(* One incarnation of the four-tuple.                                      *)
OneConnection == iss <= MCStride
=============================================================================
