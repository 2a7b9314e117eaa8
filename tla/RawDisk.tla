------------------------------ MODULE RawDisk ------------------------------
(***************************************************************************)
(* What a raw device is to the guest's kernel: an array, and requests each  *)
(* with a buffer of its own.  A read sees the array as it was at one        *)
(* moment, a write reaches it at one moment, and the units that were moved  *)
(* to or from the user are the units of the request, in order.              *)
(***************************************************************************)
EXTENDS Naturals

CONSTANTS Keys, Uios, SIZE, MAX_TRANSFER

VARIABLES
  disk,     \* [0 .. SIZE - 1 -> data]
  user,     \* [Uios -> [0 .. MAX_TRANSFER - 1 -> data]], a uio's memory
  uio,      \* [Uios -> [offset, resid, at, rw]], at: units moved so far
  request,  \* [Keys -> NoRequest or [uio, offset, data, moved]]
  page,     \* [by, data], the block device's
  halted

NoRequest == [uio |-> "none"]

(* The units of d that a transfer of n units at a uio's place concerns.     *)
Fetched(u, n) ==
  [user EXCEPT ![u] =
     [i \in DOMAIN @ |-> IF i \in uio[u].at .. uio[u].at + n - 1
                         THEN disk[uio[u].offset + i - uio[u].at] ELSE @[i]]]

Stored(offset, n, data) ==
  [b \in DOMAIN disk |->
     IF b \in offset .. offset + n - 1 THEN data[b - offset] ELSE disk[b]]

(* The next n units of a uio's memory.                                      *)
Taken(u, n) == [i \in 0 .. n - 1 |-> user[u][uio[u].at + i]]

Advanced(u, n) ==
  [uio EXCEPT ![u].offset = @ + n, ![u].resid = @ - n, ![u].at = @ + n]

(* The guest prepares a request on a uio that no request has.               *)
Setup(u) ==
  /\ \A k \in Keys : request[k].uio # u
  /\ \E offset, resid \in 0 .. SIZE + MAX_TRANSFER, rw \in {"read", "write"} :
       uio' = [uio EXCEPT ![u] = [offset |-> offset, resid |-> resid,
                                  at |-> 0, rw |-> rw]]
  /\ \A v \in Uios \ {u} : user'[v] = user[v]
  /\ UNCHANGED <<disk, request, page, halted>>

(* All of it at once.                                                       *)
Serve(u) ==
  LET n == uio[u].resid IN
  /\ \A k \in Keys : request[k].uio # u
  /\ uio[u].at + n <= MAX_TRANSFER /\ uio[u].offset + n <= SIZE
  /\ IF uio[u].rw = "read"
     THEN user' = Fetched(u, n) /\ UNCHANGED disk
     ELSE /\ disk' = Stored(uio[u].offset, n, Taken(u, n))
          /\ UNCHANGED user
  /\ uio' = Advanced(u, n)
  /\ UNCHANGED <<request, page, halted>>

(* A request that takes a while: a read has its data now ...                *)
Begin(k, u) ==
  /\ request[k] = NoRequest
  /\ uio[u].offset + uio[u].resid <= SIZE
  /\ \A other \in Keys : request[other].uio # u
  /\ request' = [request EXCEPT ![k] =
       [uio |-> u, offset |-> uio[u].offset, moved |-> 0,
        data |-> [i \in 0 .. uio[u].resid - 1 |->
                    IF uio[u].rw = "read" THEN disk[uio[u].offset + i] ELSE 0]]]
  /\ UNCHANGED <<disk, user, uio, page, halted>>

(* ... the units move one after the other ...                               *)
Move(k) ==
  LET r == request[k]
      u == r.uio IN
  /\ r # NoRequest
  /\ uio[u].resid > 0
  /\ IF uio[u].rw = "read"
     THEN /\ user' = [user EXCEPT ![u][uio[u].at] = r.data[r.moved]]
          /\ request' = [request EXCEPT ![k].moved = @ + 1]
     ELSE /\ request' = [request EXCEPT ![k].moved = @ + 1,
                                        ![k].data[r.moved] = user[u][uio[u].at]]
          /\ UNCHANGED user
  /\ uio' = Advanced(u, 1)
  /\ UNCHANGED <<disk, page, halted>>

(* ... and those that did are written when it ends.                         *)
End(k) ==
  LET r == request[k] IN
  /\ r # NoRequest
  /\ disk' = IF uio[r.uio].rw = "write" THEN Stored(r.offset, r.moved, r.data)
             ELSE disk
  /\ request' = [request EXCEPT ![k] = NoRequest]
  /\ UNCHANGED <<user, uio, page, halted>>

(* The block device's page is filled by the guest ...                       *)
Fill == page'.by = "guest" /\ UNCHANGED <<disk, user, uio, request, halted>>

(* ... and goes to the array, or one of the array comes to it.              *)
Page(b) ==
  /\ \/ page' = [by |-> "device", data |-> disk[b]] /\ UNCHANGED disk
     \/ /\ page.by = "guest"
        /\ disk' = [disk EXCEPT ![b] = page.data]
        /\ UNCHANGED page
  /\ UNCHANGED <<user, uio, request, halted>>

(* The machine stops, with a write in progress done in part or not at all.   *)
Halt ==
  /\ ~halted
  /\ halted' = TRUE
  /\ request' = [k \in Keys |-> NoRequest]
  /\ UNCHANGED <<user, uio, page>>
  /\ \/ UNCHANGED disk
     \/ \E k \in {j \in Keys : request[j] # NoRequest} :
        \E n \in 0 .. request[k].moved :
          /\ uio[request[k].uio].rw = "write"
          /\ disk' = Stored(request[k].offset, n, request[k].data)
     \/ \E u \in Uios : \E n \in 0 .. uio[u].resid :
          /\ uio[u].rw = "write"
          /\ uio[u].at + n <= MAX_TRANSFER /\ uio[u].offset + n <= SIZE
          /\ disk' = Stored(uio[u].offset, n, Taken(u, n))

Next ==
  \/ \E u \in Uios : Setup(u) \/ Serve(u)
  \/ \E k \in Keys, u \in Uios : Begin(k, u)
  \/ \E k \in Keys : Move(k) \/ End(k)
  \/ Fill \/ (\E b \in DOMAIN disk : Page(b))
  \/ Halt

Init ==
  /\ disk \in [0 .. SIZE - 1 -> {0}]
  /\ user = [u \in Uios |-> [i \in 0 .. MAX_TRANSFER - 1 |-> 0]]
  /\ \A u \in Uios : uio[u].resid = 0
  /\ request = [k \in Keys |-> NoRequest]
  /\ ~halted

vars == <<disk, user, uio, request, page, halted>>

Spec == Init /\ [][Next]_vars
=============================================================================
