------------------------------- MODULE MCMmu -------------------------------
(***************************************************************************)
(* Tables for Mmu.  Blocks 0 and 1 are quarters of one small page of the    *)
(* old format, whose permissions differ; table B maps them by a section.    *)
(* With 2 entries in each cache, the read and the write of block 0 meet in  *)
(* the translation cache, and so do the read and the two fetches of block 1;*)
(* the two reads, of different blocks and privileges, meet in their block   *)
(* cache.  The two fetches differ in nothing but privilege, and share the   *)
(* fetch block.                                                             *)
(***************************************************************************)
EXTENDS Mmu

Key(va, acc, priv) == [va |-> va, acc |-> acc, priv |-> priv]
MCKeys == {Key(0, "READ", FALSE), Key(1, "READ", TRUE), Key(0, "WRITE", TRUE),
           Key(1, "FETCH", FALSE), Key(1, "FETCH", TRUE)}

Off ==
  [m |-> FALSE, xp |-> FALSE, fa |-> FALSE, s |-> FALSE, r |-> FALSE,
   n |-> 0, pd0 |-> FALSE, pd1 |-> FALSE, ttbr0 |-> "A", ttbr1 |-> "A",
   dacr |-> [d \in 0 .. 15 |-> 0], context_id |-> 0]
OnA == [Off EXCEPT !.m = TRUE, !.dacr[0] = 1]
OnB == [OnA EXCEPT !.ttbr0 = "B"]
MCRegisters == {Off, OnA, OnB}

\* A small page whose quarters have the permissions a, b, b and b.
Small(a, b, pa) ==
  [type |-> 2, ap |-> [i \in 0 .. 3 |-> IF i = 0 THEN a ELSE b],
   xn |-> FALSE, pa |-> pa]
Memory(pages) ==
  [A |-> [i \in {0} |-> [type |-> 1, domain |-> 0, table |-> "P"]],
   B |-> [i \in {0} |-> [type |-> 2, super |-> FALSE, domain |-> 0, ap |-> 1,
                         apx |-> FALSE, xn |-> FALSE, pa |-> 1024]],
   P |-> pages]

\* RAM that all may use but for the other quarters, a device for the kernel
\* that all may read but for its first quarter; and no page at all.
Shared == Memory([i \in {0} |-> Small(3, 1, 100)])
Device == Memory([i \in {0} |-> Small(1, 2, 2048)])
NoPage == Memory([i \in {} |-> 0])

MCTables == {Shared, Device}
MappingTables == {Shared, NoPage}
MCRam == 0 .. 1025
=============================================================================
