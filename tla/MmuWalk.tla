------------------------------ MODULE MmuWalk ------------------------------
(***************************************************************************)
(* The table walk of core/src/mmu.c, as a function of the registers, the    *)
(* tables and one access.  Addresses count blocks of 1 KB, the finest the   *)
(* architecture tells apart: an access is [va, acc, priv].  A descriptor is *)
(* a record of the fields the walk looks at, a table a function from the    *)
(* indices that have one; the others are zero and fault.                    *)
(***************************************************************************)
EXTENDS Integers

Access == {"READ", "WRITE", "FETCH"}
Page == 4          \* blocks to a 4 KB page,
LargePage == 64    \* to a 64 KB page,
Section == 1024    \* to a section of 1 MB,
Super == 16384     \* and to a supersection of 16 MB

Within(pa, va, size) == (pa - (pa % size)) + (va % size)

Mapped(pa) ==
  [level |-> "none", fault |-> "none", domain |-> 0, write |-> FALSE, pa |-> pa]
fsr_make(level, fault, domain, write) ==
  [level |-> level, fault |-> fault, domain |-> domain, write |-> write, pa |-> 0]

Faults(v) == v.fault # "none"
Translates(v) == v.fault = "none"

(* APX set leaves nothing writable; AP = 0 is open only to the deprecated
   S and R bits.                                                           *)
ap_permits(g, ap, apx, write, priv) ==
  IF apx
  THEN /\ ap # 0 /\ ~write
       /\ ap = 1 => priv
  ELSE \/ ap = 0 /\ ~write /\ \/ g.r /\ ~g.s
                              \/ g.s /\ ~g.r /\ priv
       \/ ap = 1 /\ priv
       \/ ap = 2 /\ (priv \/ ~write)
       \/ ap = 3

access_flag_faults(g, ap, apx) ==
  /\ g.xp /\ g.fa /\ ap \in {0, 2}
  /\ (~apx /\ ap = 0) => g.s = g.r

xn_forbids_fetch(g, acc, dac, xn) == acc = "FETCH" /\ xn /\ dac # 3 /\ g.xp

(* What a section and a page have in common: the access flag before the
   domain before the permissions, XN last.                                 *)
Checked(g, k, level, domain, ap, apx, xn, pa) ==
  LET dac   == g.dacr[domain]
      write == k.acc = "WRITE"
      Refused(why) == fsr_make(level, why, domain, write)
  IN IF access_flag_faults(g, ap, apx) THEN Refused("ACCESS_FLAG")
     ELSE IF dac \in {0, 2} THEN Refused("DOMAIN")
     ELSE IF dac # 3 /\ ~ap_permits(g, ap, apx, write, k.priv)
     THEN Refused("PERMISSION")
     ELSE IF xn_forbids_fetch(g, k.acc, dac, xn) THEN Refused("PERMISSION")
     ELSE Mapped(pa)

WalkSection(g, l1, k) ==
  Checked(g, k, "SECTION", IF l1.super THEN 0 ELSE l1.domain,
          l1.ap, g.xp /\ l1.apx, l1.xn,
          Within(l1.pa, k.va, IF l1.super THEN Super ELSE Section))

(* The permissions of a page: one AP field in the revised format, which has
   APX where the old format keeps the high bit of its third; one for every
   quarter of the page in the old one.                                     *)
AccessPermission(g, l2, va) ==
  IF g.xp \/ l2.type = 3 THEN l2.ap[0]
  ELSE IF l2.type = 1 THEN l2.ap[(va \div (LargePage \div 4)) % 4]
  ELSE l2.ap[va % 4]

WalkPage(g, l1, l2, k) ==
  IF l2.type = 0
  THEN fsr_make("PAGE", "TRANSLATION", l1.domain, k.acc = "WRITE")
  ELSE Checked(g, k, "PAGE", l1.domain,
               AccessPermission(g, l2, k.va), g.xp /\ l2.ap[2] \in {2, 3},
               IF l2.type = 1 THEN l2.xn ELSE l2.type = 3,
               Within(l2.pa, k.va, IF l2.type = 1 THEN LargePage ELSE Page))

(* TTBCR: the top N bits of the address choose the table; PD0 and PD1
   forbid its walk.                                                        *)
UsesTtbr0(g, va) == g.n = 0 \/ va \div 2 ^ (22 - g.n) = 0

Descriptor(table, index) ==
  IF index \in DOMAIN table THEN table[index] ELSE [type |-> 0]

NoSection(k) ==
  fsr_make("SECTION", "TRANSLATION", 0, k.acc = "WRITE")

mmu_walk(g, mem, k) ==
  LET low == UsesTtbr0(g, k.va)
      l1  == Descriptor(mem[IF low THEN g.ttbr0 ELSE g.ttbr1],
                        k.va \div Section)
  IN IF ~g.m THEN Mapped(k.va)
     ELSE IF (IF low THEN g.pd0 ELSE g.pd1) THEN NoSection(k)
     ELSE IF l1.type = 2 THEN WalkSection(g, l1, k)
     ELSE IF l1.type = 1
     THEN WalkPage(g, l1, Descriptor(mem[l1.table], (k.va \div Page) % 256), k)
     ELSE NoSection(k)
=============================================================================
