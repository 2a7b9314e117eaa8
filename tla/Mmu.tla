-------------------------------- MODULE Mmu --------------------------------
(***************************************************************************)
(* What stands between an access of the interpreter and the walk of         *)
(* MmuWalk: the translation cache of core/src/mmu.c with its generations    *)
(* and its stamp, and the three caches of host pointers in                  *)
(* core/src/arm/arm_interp.c, one block for fetches and a table each for    *)
(* reads and writes.  `cpu` holds the fields of arm_cpu_t that take part, a *)
(* host pointer being the number of the physical block it points at.        *)
(*   The guest edits its tables when it likes and owes maintenance for it:  *)
(* `since` remembers the tables there have been since the last.             *)
(***************************************************************************)
EXTENDS MmuWalk

CONSTANTS
  Keys,           \* the accesses that are made: [va, acc, priv]
  Registers,      \* the contents of CP15 that take part
  Tables,         \* the contents of the guest's tables
  Ram,            \* the physical blocks that are plain RAM
  ZeroRegisters,  \* CP15 after a reset: the MMU is off
  TlbEntries,     \* ARM_TLB_ENTRIES, 4096
  DreadEntries,   \* ARM_DREAD_ENTRIES, 64
  GenLimit        \* a generation is of 32 bits: 2^32 is 0 again

ASSUME MmuAssumption ==
  /\ Keys \subseteq [va : Nat, acc : Access, priv : BOOLEAN]
  /\ Ram \subseteq Nat
  /\ ZeroRegisters \in Registers /\ ~ZeroRegisters.m
  /\ TlbEntries \in Nat \ {0} /\ DreadEntries \in Nat \ {0}
  /\ GenLimit \in Nat \ {0, 1}

VARIABLES
  cpu,      \* the registers and the caches
  tables,   \* what the guest's memory holds of its tables
  consent,  \* bus.host_ram_write: stores may bypass the bus
  since,    \* the tables since the last maintenance (history)
  behind    \* CP15 was changed behind the caches (history)

vars == <<cpu, tables, consent, since, behind>>

NULL == -1
Zero == [va |-> 0, acc |-> "READ", priv |-> FALSE]

NoTlb == [s \in 0 .. TlbEntries - 1 |->
            [gen |-> 0, tag |-> Zero, verdict |-> Mapped(0)]]
NoBlock == [host |-> NULL, va |-> 0, priv |-> FALSE, gen |-> 0]
NoBlocks == [s \in 0 .. DreadEntries - 1 |-> NoBlock]

acc_class(acc) == CASE acc = "READ" -> 0 [] acc = "WRITE" -> 1 [] OTHER -> 2

mmu_tlb_slot(k) ==
  (k.va + acc_class(k.acc) * (TlbEntries \div 4)) % TlbEntries

dread_slot(k) ==
  (k.va + (IF k.priv THEN DreadEntries \div 2 ELSE 0)) % DreadEntries

---------------------------------------------------------------------------
(* The translation cache.                                                   *)

(* Slip: c8 is the no-op it used to be.                                    *)
arm_mmu_tlb_flush_NoOp(c) == c

(* Slip: generations come round and what an older one left is live again.  *)
arm_mmu_tlb_flush_NoWrap(c) ==
  [c EXCEPT !.fetch = NoBlock,
            !.gen = IF c.gen + 1 = GenLimit THEN 1 ELSE c.gen + 1,
            !.tlb = IF c.gen + 1 = GenLimit THEN NoTlb ELSE c.tlb]

(* A flush is a new generation; only when they come round is anything
   cleared, but for the fetch block, which dies with every one.            *)
arm_mmu_tlb_flush(c) ==
  LET wraps == c.gen + 1 = GenLimit
  IN [c EXCEPT !.fetch  = NoBlock,
               !.gen    = IF wraps THEN 1 ELSE c.gen + 1,
               !.tlb    = IF wraps THEN NoTlb ELSE c.tlb,
               !.dread  = IF wraps THEN NoBlocks ELSE c.dread,
               !.dwrite = IF wraps THEN NoBlocks ELSE c.dwrite]

(* Generation 0 is that of memory nobody has initialised.                  *)
Begun(c) == [c EXCEPT !.gen = IF c.gen = 0 THEN 1 ELSE c.gen]

(* Slip: the stamp is not looked at, only MCR flushes.                     *)
Stamped_MatchAll(c) == Begun(c)

(* Every entry is good only under the registers it was walked under.       *)
Stamped(c) ==
  LET b == Begun(c)
  IN IF b.stamp = b.cp15 THEN b
     ELSE [arm_mmu_tlb_flush(b) EXCEPT !.stamp = b.cp15]

(* Slip: the tag leaves out the privilege.                                 *)
Hits_AnyPrivilege(c, k) ==
  LET e == c.tlb[mmu_tlb_slot(k)]
  IN e.gen = c.gen /\ e.tag.va = k.va /\ e.tag.acc = k.acc

Hits(c, k) ==
  /\ c.tlb[mmu_tlb_slot(k)].gen = c.gen
  /\ c.tlb[mmu_tlb_slot(k)].tag = k

Walked(c, k) ==
  [c EXCEPT !.tlb[mmu_tlb_slot(k)] =
     [gen |-> c.gen, tag |-> k, verdict |-> mmu_walk(c.cp15, tables, k)]]

(* Faults are kept like any other answer.                                  *)
Looked(c, k) == IF Hits(c, k) THEN c ELSE Walked(c, k)

arm_mmu_translate(c, k) == IF c.cp15.m THEN Looked(Stamped(c), k) ELSE c

(* What a translation answers.                                             *)
Answer(c, k) ==
  IF c.cp15.m THEN arm_mmu_translate(c, k).tlb[mmu_tlb_slot(k)].verdict
  ELSE Mapped(k.va)

(* A translation drops what was left behind when it finds the registers
   changed.                                                                *)
Notices(c) == c.cp15.m /\ c.stamp # c.cp15

---------------------------------------------------------------------------
(* The caches of host pointers.                                             *)

Live(c, e, k) ==
  /\ e.host # NULL /\ e.va = k.va /\ e.priv = k.priv
  /\ e.gen = c.gen

Block(c, k, pa) == [host |-> pa, va |-> k.va, priv |-> k.priv, gen |-> c.gen]

BlockOf(c, k) == CASE k.acc = "READ"  -> c.dread[dread_slot(k)]
                   [] k.acc = "WRITE" -> c.dwrite[dread_slot(k)]
                   [] OTHER           -> c.fetch

Direct(c, k) == Live(c, BlockOf(c, k), k) /\ (k.acc = "WRITE" => consent)

(* dread_fill, dwrite_fill and the end of a fetch: the block is kept when it
   is plain RAM.                                                           *)
Fill(c, k, pa) ==
  IF pa \notin Ram THEN c
  ELSE IF k.acc = "READ"
  THEN [c EXCEPT !.dread[dread_slot(k)] = Block(c, k, pa)]
  ELSE IF k.acc = "FETCH" THEN [c EXCEPT !.fetch = Block(c, k, pa)]
  ELSE IF consent THEN [c EXCEPT !.dwrite[dread_slot(k)] = Block(c, k, pa)]
  ELSE c

(* The slow path of an access: translate, and keep the block if the
   translation did not fault.                                              *)
Resolved(c, k) ==
  LET v == Answer(c, k)
      d == arm_mmu_translate(c, k)
  IN IF Faults(v) THEN d ELSE Fill(d, k, v.pa)

---------------------------------------------------------------------------
(* The interpreter.                                                         *)

(* A fetch, a load or a store that goes the slow way, of any privilege: the
   unprivileged forms of the instructions choose their own.  Data that leave
   the block do so whatever is cached.                                     *)
Make(k) ==
  /\ k.acc = "FETCH" => ~Direct(cpu, k)
  /\ cpu' = Resolved(cpu, k)
  /\ behind' = (behind /\ ~Notices(cpu))
  /\ UNCHANGED <<tables, consent, since>>

(* A translation alone: an access that crosses a page, STREX, the memory-
   disk bridges, the emulator's copies from and to the guest.              *)
Translate(k) ==
  /\ cpu' = arm_mmu_translate(cpu, k)
  /\ behind' = (behind /\ ~Notices(cpu))
  /\ UNCHANGED <<tables, consent, since>>

(* The translation cache may bear witness for the next fetch block.        *)
Witness(c, k) ==
  /\ c.gen # 0 /\ c.stamp = c.cp15
  /\ Hits(c, k) /\ Translates(c.tlb[mmu_tlb_slot(k)].verdict)

arm_fetch_cache_try_refill(k) ==
  /\ k.acc = "FETCH" /\ ~Direct(cpu, k)
  /\ cpu.cp15.m => Witness(cpu, k)
  /\ cpu' = Fill(cpu, k, IF cpu.cp15.m
                         THEN cpu.tlb[mmu_tlb_slot(k)].verdict.pa ELSE k.va)
  /\ UNCHANGED <<tables, consent, since, behind>>

---------------------------------------------------------------------------
(* Maintenance.                                                             *)

(* What has been maintained owes nothing to older tables.                  *)
Maintained(t) == tables' = t /\ since' = {t} /\ behind' = FALSE

(* MCR to SCTLR, TTBR0, TTBR1, TTBCR, DACR or the context ID.              *)
Mcr(g) ==
  /\ cpu' = arm_mmu_tlb_flush([cpu EXCEPT !.cp15 = g])
  /\ Maintained(tables)
  /\ UNCHANGED consent

(* MCR to c8, whichever operation it names.                                *)
Invalidate ==
  /\ cpu' = arm_mmu_tlb_flush(cpu)
  /\ Maintained(tables)
  /\ UNCHANGED consent

(* Slip: the generation starts again over a table that was not cleared.    *)
Cleared_KeepTlb(c, g) ==
  [c EXCEPT !.cp15 = g, !.gen = 1, !.fetch = NoBlock,
            !.dread = NoBlocks, !.dwrite = NoBlocks]

(* Everything but the stamp, which no reset touches.                       *)
Cleared(c, g) ==
  [c EXCEPT !.cp15 = g, !.gen = 1, !.tlb = NoTlb, !.fetch = NoBlock,
            !.dread = NoBlocks, !.dwrite = NoBlocks]

arm_reset ==
  /\ cpu' = Cleared(cpu, ZeroRegisters)
  /\ Maintained(tables)
  /\ UNCHANGED consent

(* snapshot_load: the registers and the memory of another time.            *)
snapshot_load(g, t) ==
  /\ cpu' = Cleared(cpu, g)
  /\ Maintained(t)
  /\ UNCHANGED consent

---------------------------------------------------------------------------
(* Everyone else.                                                           *)

(* The guest stores to its tables.                                         *)
Edit(t) ==
  /\ t # tables
  /\ tables' = t /\ since' = since \cup {t}
  /\ UNCHANGED <<cpu, consent, behind>>

(* The registers are set on the struct and not by MCR.                     *)
Mutate(g) ==
  /\ g # cpu.cp15
  /\ cpu' = [cpu EXCEPT !.cp15 = g]
  /\ behind' = TRUE
  /\ UNCHANGED <<tables, consent, since>>

s5l8900_set_direct_ram_writes(enabled) ==
  /\ consent' = enabled
  /\ cpu' = [cpu EXCEPT !.dwrite = NoBlocks]
  /\ UNCHANGED <<tables, since, behind>>

---------------------------------------------------------------------------
(* A CPU of zeros, as the fixtures make it, or one that was reset.         *)
Init ==
  /\ cpu \in {[cp15 |-> ZeroRegisters, stamp |-> ZeroRegisters, gen |-> n,
               tlb |-> NoTlb, fetch |-> NoBlock,
               dread |-> NoBlocks, dwrite |-> NoBlocks] : n \in {0, 1}}
  /\ tables \in Tables /\ since = {tables}
  /\ consent = FALSE /\ behind = FALSE

Next ==
  \/ \E k \in Keys : \/ Make(k) \/ Translate(k)
                     \/ arm_fetch_cache_try_refill(k)
  \/ \E g \in Registers : Mcr(g) \/ Mutate(g)
  \/ Invalidate \/ arm_reset
  \/ \E g \in Registers, t \in Tables : snapshot_load(g, t)
  \/ \E t \in Tables : Edit(t)
  \/ \E enabled \in BOOLEAN : s5l8900_set_direct_ram_writes(enabled)

Spec == Init /\ [][Next]_vars

---------------------------------------------------------------------------
(* Properties.                                                              *)

Verdicts ==
  {Mapped(0)} \cup {mmu_walk(g, t, k) : g \in Registers, t \in Tables, k \in Keys}
Entries ==
  [gen : 0 .. GenLimit - 1, tag : Keys \cup {Zero}, verdict : Verdicts]
Blocks == [host : Ram \cup {NULL}, va : Nat, priv : BOOLEAN, gen : 0 .. GenLimit - 1]

Caches ==
  [cp15 : Registers, stamp : Registers, gen : 0 .. GenLimit - 1,
   tlb : [0 .. TlbEntries - 1 -> Entries], fetch : Blocks,
   dread : [0 .. DreadEntries - 1 -> Blocks],
   dwrite : [0 .. DreadEntries - 1 -> Blocks]]

TypeOK ==
  /\ cpu \in Caches
  /\ tables \in Tables /\ since \subseteq Tables
  /\ consent \in BOOLEAN /\ behind \in BOOLEAN

(* What a walk may say of an access: what it says of the tables as they are,
   or as they were at some time since the guest last did maintenance.      *)
Owed(k) == {mmu_walk(cpu.cp15, t, k) : t \in since}

(* "A hit returns exactly what a walk would have returned, including the
   fault code": whatever is cached, of whichever generation, under whichever
   registers, after a reset or a restore, no translation is older than the
   guest's last maintenance, or of other registers than those in CP15.     *)
TranslationFresh == \A k \in Keys : Answer(cpu, k) \in Owed(k)

(* A host pointer that an access would use is that of the block a walk
   allows it, for its own kind and privilege; unless CP15 was changed behind
   the caches, which only a translation finds out.                         *)
BlocksFresh ==
  behind \/ \A k \in Keys :
    Live(cpu, BlockOf(cpu, k), k) => Mapped(BlockOf(cpu, k).host) \in Owed(k)

(* "The cache can notice them changing by any route": the same, whoever
   changed the registers.                                                  *)
BlocksNotice ==
  \A k \in Keys :
    Live(cpu, BlockOf(cpu, k), k) => Mapped(BlockOf(cpu, k).host) \in Owed(k)

(* "ARMv6 does not cache faulting translations, so an invalid-to-valid
   transition needs no maintenance and our TLB (which only caches successful
   translations) cannot be stale for it."                                  *)
Unmapped(v) == v.fault = "TRANSLATION"
NewMappingSeen ==
  \A k \in Keys :
    Unmapped(Answer(cpu, k)) => Unmapped(mmu_walk(cpu.cp15, tables, k))
=============================================================================
