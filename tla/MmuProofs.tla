----------------------------- MODULE MmuProofs -----------------------------
(***************************************************************************)
(* What holds of the translation caches for every size of them, every set   *)
(* of registers, tables and accesses, and every width of a generation.  The *)
(* inductive invariant is Sound of the caches: they keep their types        *)
(* (Caches), nothing in them is of a later generation than the current one  *)
(* (Aged), the translations of the current one are what a walk under the    *)
(* stamp may say (Translations), and the blocks of the current one what a   *)
(* walk under CP15 may say, unless CP15 was changed behind them             *)
(* (Pointers).  What a walk says stays a function nobody looks into, but    *)
(* for two lemmas.  Each function of the code has one lemma, about the      *)
(* caches it returns; what every flush gives is Empty.                      *)
(***************************************************************************)
EXTENDS Mmu, TLAPS

(* What a walk under the registers g says of k, over the tables of S.       *)
Walks(g, S, k) == {mmu_walk(g, t, k) : t \in S}

Slots == 0 .. TlbEntries - 1
DataSlots == 0 .. DreadEntries - 1

(* No entry is of a generation to come.                                     *)
Aged(c) ==
  /\ \A s \in Slots : c.tlb[s].gen <= c.gen
  /\ c.fetch.gen <= c.gen
  /\ \A s \in DataSlots : c.dread[s].gen <= c.gen /\ c.dwrite[s].gen <= c.gen

Translations(c, S) ==
  c.gen # 0 => \A s \in Slots :
    c.tlb[s].gen = c.gen => c.tlb[s].verdict \in Walks(c.stamp, S, c.tlb[s].tag)

(* A block that an access would use.                                        *)
Pointer(c, e, k, S) == Live(c, e, k) => Mapped(e.host) \in Walks(c.cp15, S, k)
Pointers(c, S) ==
  \A k \in Keys :
    /\ k.acc = "FETCH" => Pointer(c, c.fetch, k, S)
    /\ \A s \in DataSlots : /\ k.acc = "READ" => Pointer(c, c.dread[s], k, S)
                            /\ k.acc = "WRITE" => Pointer(c, c.dwrite[s], k, S)

Sound(c, S, b) ==
  /\ c \in Caches /\ Aged(c)
  /\ Translations(c, S)
  /\ b \/ Pointers(c, S)

(* Nothing in the caches is of the current generation.                      *)
Dead(c, e) == e.host = NULL \/ e.gen # c.gen
Empty(c) ==
  /\ c \in Caches /\ Aged(c)
  /\ \A s \in Slots : c.tlb[s].gen # c.gen
  /\ Dead(c, c.fetch)
  /\ \A s \in DataSlots : Dead(c, c.dread[s]) /\ Dead(c, c.dwrite[s])

IInv ==
  /\ Sound(cpu, since, behind)
  /\ tables \in Tables /\ since \subseteq Tables /\ tables \in since
  /\ consent \in BOOLEAN /\ behind \in BOOLEAN

---------------------------------------------------------------------------
(* The walk.                                                                *)

(* With the MMU off an address is its own translation.                      *)
LEMMA WalkOff ==
  ASSUME NEW g, ~g.m, NEW t, NEW k
  PROVE  mmu_walk(g, t, k) = Mapped(k.va)
  BY DEF mmu_walk

(* An answer that is not a fault is an address and nothing else.            *)
LEMMA CheckedMaps ==
  ASSUME NEW g, NEW k, NEW level, NEW domain, NEW ap, NEW apx, NEW xn, NEW pa,
         Translates(Checked(g, k, level, domain, ap, apx, xn, pa))
  PROVE  Checked(g, k, level, domain, ap, apx, xn, pa) = Mapped(pa)
  BY DEF Checked, Translates, fsr_make

LEMMA WalkMaps ==
  ASSUME NEW g, NEW t, NEW k, Translates(mmu_walk(g, t, k))
  PROVE  mmu_walk(g, t, k) = Mapped(mmu_walk(g, t, k).pa)
<1>2. \A pa : Mapped(pa).pa = pa
  BY DEF Mapped
<1>3. ASSUME NEW domain, NEW write, NEW level
      PROVE  ~Translates(fsr_make(level, "TRANSLATION", domain, write))
  BY DEF Translates, fsr_make
<1>4. ASSUME NEW l1, Translates(WalkSection(g, l1, k))
      PROVE  WalkSection(g, l1, k) = Mapped(WalkSection(g, l1, k).pa)
  BY <1>2, <1>4, CheckedMaps DEF WalkSection
<1>5. ASSUME NEW l1, NEW l2, Translates(WalkPage(g, l1, l2, k))
      PROVE  WalkPage(g, l1, l2, k) = Mapped(WalkPage(g, l1, l2, k).pa)
  BY <1>2, <1>3, <1>5, CheckedMaps DEF WalkPage
<1> QED BY <1>2, <1>3, <1>4, <1>5 DEF mmu_walk, NoSection

(* The walk takes from an access its address, and whether it is permitted.  *)
LEMMA CheckedGrows ==
  ASSUME NEW g, NEW k, NEW j, NEW level, NEW domain, NEW ap, NEW apx, NEW xn, NEW pa,
         ap_permits(g, ap, apx, k.acc = "WRITE", k.priv)
           => ap_permits(g, ap, apx, j.acc = "WRITE", j.priv),
         j.acc = "FETCH" => k.acc = "FETCH",
         Translates(Checked(g, k, level, domain, ap, apx, xn, pa))
  PROVE  Checked(g, j, level, domain, ap, apx, xn, pa) = Mapped(pa)
  BY DEF Checked, Translates, fsr_make, xn_forbids_fetch

LEMMA WalkGrows ==
  ASSUME NEW g, NEW t, NEW k, NEW j, j.va = k.va,
         \A ap, apx : ap_permits(g, ap, apx, k.acc = "WRITE", k.priv)
                        => ap_permits(g, ap, apx, j.acc = "WRITE", j.priv),
         j.acc = "FETCH" => k.acc = "FETCH",
         Translates(mmu_walk(g, t, k))
  PROVE  mmu_walk(g, t, j) = mmu_walk(g, t, k)
<1>1. ASSUME NEW domain, NEW write, NEW level
      PROVE  ~Translates(fsr_make(level, "TRANSLATION", domain, write))
  BY DEF Translates, fsr_make
<1>2. ASSUME NEW l1, Translates(WalkSection(g, l1, k))
      PROVE  WalkSection(g, l1, j) = WalkSection(g, l1, k)
  BY <1>2, CheckedMaps, CheckedGrows DEF WalkSection
<1>3. ASSUME NEW l1, NEW l2, Translates(WalkPage(g, l1, l2, k))
      PROVE  WalkPage(g, l1, l2, j) = WalkPage(g, l1, l2, k)
  BY <1>1, <1>3, CheckedMaps, CheckedGrows DEF WalkPage
<1> QED BY <1>1, <1>2, <1>3 DEF mmu_walk, NoSection

(* ap_permits: what the user may do the kernel may, at the same address.    *)
THEOREM PrivilegeKeeps ==
  ASSUME NEW g, NEW t, NEW k, NEW j,
         j.va = k.va, j.acc = k.acc, ~k.priv, Translates(mmu_walk(g, t, k))
  PROVE  mmu_walk(g, t, j) = mmu_walk(g, t, k)
<1>1. \A ap, apx : ap_permits(g, ap, apx, k.acc = "WRITE", k.priv)
                     => ap_permits(g, ap, apx, j.acc = "WRITE", j.priv)
  BY DEF ap_permits
<1> QED BY <1>1, WalkGrows

(* ap_permits, xn_forbids_fetch: what may be written may be read.           *)
THEOREM WritableIsReadable ==
  ASSUME NEW g, NEW t, NEW k, NEW j,
         j.va = k.va, j.priv = k.priv, k.acc = "WRITE", j.acc = "READ",
         Translates(mmu_walk(g, t, k))
  PROVE  mmu_walk(g, t, j) = mmu_walk(g, t, k)
<1>1. \A ap, apx : ap_permits(g, ap, apx, k.acc = "WRITE", k.priv)
                     => ap_permits(g, ap, apx, j.acc = "WRITE", j.priv)
  BY DEF ap_permits
<1> QED BY <1>1, WalkGrows

---------------------------------------------------------------------------
(* Slots.                                                                   *)

LEMMA SlotsInside ==
  ASSUME NEW k \in Keys
  PROVE  mmu_tlb_slot(k) \in Slots /\ dread_slot(k) \in DataSlots
<1>1. k.va \in Nat /\ k.acc \in Access /\ k.priv \in BOOLEAN
  BY MmuAssumption
<1>2. \A n \in Nat, d \in Nat \ {0} : n % d \in 0 .. d - 1
  OBVIOUS
<1>3. TlbEntries \div 4 \in Nat /\ DreadEntries \div 2 \in Nat
  BY MmuAssumption
<1>4. acc_class(k.acc) * (TlbEntries \div 4) \in Nat
  <2>1. acc_class(k.acc) \in {0, 1, 2}
    BY <1>1 DEF acc_class, Access
  <2> QED BY <2>1, <1>3
<1>5. k.va + acc_class(k.acc) * (TlbEntries \div 4) \in Nat
  BY <1>1, <1>4
<1>6. k.va + (IF k.priv THEN DreadEntries \div 2 ELSE 0) \in Nat
  BY <1>1, <1>3
<1> QED
  BY <1>2, <1>5, <1>6, MmuAssumption
     DEF mmu_tlb_slot, dread_slot, Slots, DataSlots

---------------------------------------------------------------------------
(* The translation cache.                                                   *)

(* The parts of the caches have their types.                                *)
LEMMA Parts ==
  ASSUME NEW c \in Caches
  PROVE  /\ c.cp15 \in Registers /\ c.stamp \in Registers
         /\ c.gen \in 0 .. GenLimit - 1
         /\ \A s \in Slots : c.tlb[s] \in Entries
         /\ c.fetch \in Blocks
         /\ \A s \in DataSlots : c.dread[s] \in Blocks /\ c.dwrite[s] \in Blocks
  BY DEF Caches, Slots, DataSlots

LEMMA Initially ==
  /\ NoBlock \in Blocks /\ NoBlock.host = NULL /\ NoBlock.gen = 0
  /\ NoTlb \in [Slots -> Entries] /\ \A s \in Slots : NoTlb[s].gen = 0
  /\ NoBlocks \in [DataSlots -> Blocks]
  /\ \A s \in DataSlots : NoBlocks[s] = NoBlock
<1>1. 0 \in 0 .. GenLimit - 1 /\ Zero \in Keys \cup {Zero} /\ Mapped(0) \in Verdicts
  BY MmuAssumption DEF Verdicts
<1> QED BY <1>1 DEF NoBlock, Blocks, NULL, NoTlb, Entries, NoBlocks, Slots, DataSlots

(* Other registers, the same caches.                                        *)
LEMMA RegistersChange ==
  ASSUME NEW c \in Caches, Aged(c), NEW g \in Registers
  PROVE  [c EXCEPT !.cp15 = g] \in Caches /\ Aged([c EXCEPT !.cp15 = g])
  BY DEF Caches, Aged

(* What is empty is sound, whatever the tables were.                        *)
LEMMA EmptyIsSound ==
  ASSUME NEW c, Empty(c), NEW S, NEW b
  PROVE  Sound(c, S, b)
  BY DEF Empty, Sound, Translations, Pointers, Pointer, Live, Dead

(* arm_mmu_tlb_flush empties the caches, also when generations come round.  *)
LEMMA FlushEmpties ==
  ASSUME NEW c \in Caches, Aged(c)
  PROVE  /\ Empty(arm_mmu_tlb_flush(c))
         /\ arm_mmu_tlb_flush(c).cp15 = c.cp15
         /\ arm_mmu_tlb_flush(c).stamp = c.stamp
         /\ arm_mmu_tlb_flush(c).gen # 0
<1> DEFINE d == arm_mmu_tlb_flush(c)
<1>1. CASE c.gen + 1 = GenLimit
  <2>1. /\ d.gen = 1 /\ d.fetch = NoBlock /\ d.tlb = NoTlb
        /\ d.dread = NoBlocks /\ d.dwrite = NoBlocks
        /\ d.cp15 = c.cp15 /\ d.stamp = c.stamp
    BY <1>1 DEF arm_mmu_tlb_flush, Caches
  <2>2. d \in Caches
    <3>1. 1 \in 0 .. GenLimit - 1
      BY MmuAssumption
    <3>2. d = [c EXCEPT !.fetch = NoBlock, !.gen = 1, !.tlb = NoTlb,
                        !.dread = NoBlocks, !.dwrite = NoBlocks]
      BY <1>1 DEF arm_mmu_tlb_flush
    <3> HIDE DEF d
    <3> QED BY <3>1, <3>2, Initially DEF Caches, Slots, DataSlots
  <2> QED BY <2>1, <2>2, Initially DEF Empty, Aged, Dead
<1>2. CASE c.gen + 1 # GenLimit
  <2>1. /\ d.gen = c.gen + 1 /\ d.fetch = NoBlock /\ d.tlb = c.tlb
        /\ d.dread = c.dread /\ d.dwrite = c.dwrite
        /\ d.cp15 = c.cp15 /\ d.stamp = c.stamp
    BY <1>2 DEF arm_mmu_tlb_flush, Caches
  <2>2. c.gen + 1 \in 0 .. GenLimit - 1
    BY <1>2, MmuAssumption DEF Caches
  <2>3. d \in Caches
    BY <1>2, <2>2, Initially DEF arm_mmu_tlb_flush, Caches
  <2>4. /\ \A s \in Slots : c.tlb[s].gen \in Int
        /\ \A s \in DataSlots : c.dread[s].gen \in Int /\ c.dwrite[s].gen \in Int
    BY Parts DEF Entries, Blocks
  <2>5. c.gen \in Nat
    BY Parts
  <2>6. Aged(d)
    BY <2>1, <2>4, <2>5, Initially DEF Aged
  <2> QED BY <2>1, <2>3, <2>4, <2>5, <2>6, Initially DEF Empty, Aged, Dead
<1> QED BY <1>1, <1>2

(* A generation that begins keeps what is sound: nothing was of the first.  *)
LEMMA BegunIsSound ==
  ASSUME NEW c, NEW S, NEW b, Sound(c, S, b)
  PROVE  /\ Sound(Begun(c), S, b) /\ Begun(c).gen # 0
         /\ Begun(c).cp15 = c.cp15 /\ Begun(c).stamp = c.stamp
<1> DEFINE d == Begun(c)
<1>1. CASE c.gen # 0
  <2>1. d = c
    BY <1>1 DEF Begun, Sound, Caches
  <2> QED BY <1>1, <2>1
<1>2. CASE c.gen = 0
  <2>1. /\ d.gen = 1 /\ d.tlb = c.tlb /\ d.fetch = c.fetch
        /\ d.dread = c.dread /\ d.dwrite = c.dwrite
        /\ d.cp15 = c.cp15 /\ d.stamp = c.stamp
    BY <1>2 DEF Begun, Sound, Caches
  <2>2. d \in Caches
    <3>1. 1 \in 0 .. GenLimit - 1
      BY MmuAssumption
    <3>2. d = [c EXCEPT !.gen = 1]
      BY <1>2 DEF Begun
    <3> HIDE DEF d
    <3> QED BY <3>1, <3>2 DEF Sound, Caches
  <2>3. Empty(d)
    BY <1>2, <2>1, <2>2, Parts DEF Empty, Aged, Dead, Sound, Entries, Blocks
  <2> QED BY <2>1, <2>3, EmptyIsSound
<1> QED BY <1>1, <1>2

(* Before anything is looked up the stamp is that of the registers; blocks
   left behind are gone if it was not.                                      *)
LEMMA StampedIsSound ==
  ASSUME NEW c, NEW S, NEW b, Sound(c, S, b)
  PROVE  /\ Sound(Stamped(c), S, b /\ c.stamp = c.cp15)
         /\ Stamped(c).gen # 0
         /\ Stamped(c).cp15 = c.cp15 /\ Stamped(c).stamp = c.cp15
<1> DEFINE d == Begun(c)
           e == arm_mmu_tlb_flush(d)
<1>1. /\ Sound(d, S, b) /\ d.gen # 0
      /\ d.cp15 = c.cp15 /\ d.stamp = c.stamp
  BY BegunIsSound
<1>2. CASE c.stamp = c.cp15
  BY <1>1, <1>2 DEF Stamped, Sound
<1>3. CASE c.stamp # c.cp15
  <2>1. /\ Empty(e) /\ e.cp15 = c.cp15 /\ e.gen # 0
    BY <1>1, FlushEmpties DEF Sound
  <2>2. Stamped(c) = [e EXCEPT !.stamp = c.cp15]
    BY <1>1, <1>3 DEF Stamped
  <2>3. /\ Empty([e EXCEPT !.stamp = c.cp15])
        /\ [e EXCEPT !.stamp = c.cp15].cp15 = c.cp15
        /\ [e EXCEPT !.stamp = c.cp15].stamp = c.cp15
        /\ [e EXCEPT !.stamp = c.cp15].gen # 0
    BY <2>1 DEF Empty, Aged, Dead, Caches
  <2> QED BY <2>2, <2>3, EmptyIsSound
<1> QED BY <1>2, <1>3

(* A lookup under the stamp of the registers answers as a walk may, and
   what it keeps is what it answers.                                        *)
LEMMA LookedIsSound ==
  ASSUME NEW c, NEW S, NEW b, Sound(c, S, b), c.gen # 0, c.stamp = c.cp15,
         tables \in Tables, tables \in S, NEW k \in Keys
  PROVE  /\ Sound(Looked(c, k), S, b)
         /\ Looked(c, k).cp15 = c.cp15
         /\ Looked(c, k).tlb[mmu_tlb_slot(k)].verdict \in Walks(c.cp15, S, k)
<1> DEFINE slot == mmu_tlb_slot(k)
           d == Walked(c, k)
           entry == [gen |-> c.gen, tag |-> k, verdict |-> mmu_walk(c.cp15, tables, k)]
<1>1. slot \in Slots
  BY SlotsInside
<1>2. CASE Hits(c, k)
  BY <1>1, <1>2 DEF Looked, Hits, Sound, Translations
<1>3. CASE ~Hits(c, k)
  <2>1. entry \in Entries /\ entry.verdict \in Walks(c.cp15, S, k)
    BY Parts DEF Entries, Verdicts, Walks, Sound
  <2>2. /\ d \in Caches
        /\ d.tlb = [c.tlb EXCEPT ![slot] = entry]
        /\ d.gen = c.gen /\ d.cp15 = c.cp15 /\ d.stamp = c.stamp
        /\ d.fetch = c.fetch /\ d.dread = c.dread /\ d.dwrite = c.dwrite
    <3>1. d = [c EXCEPT !.tlb[slot] = entry]
      BY DEF Walked
    <3> HIDE DEF d, entry, slot
    <3> QED BY <1>1, <2>1, <3>1 DEF Sound, Caches, Slots
  <2>3. /\ d.tlb[slot] = entry
        /\ \A s \in Slots : s # slot => d.tlb[s] = c.tlb[s]
    <3> HIDE DEF d, entry, slot
    <3> QED BY <1>1, <2>2 DEF Sound, Caches, Slots
  <2>4. Aged(d)
    <3>1. entry.gen <= c.gen
      BY Parts DEF Sound
    <3> HIDE DEF d, entry, slot
    <3> QED BY <2>2, <2>3, <3>1 DEF Aged, Sound
  <2>5. Translations(d, S)
    <3>1. entry.tag = k
      OBVIOUS
    <3> HIDE DEF d, entry, slot
    <3> QED BY <2>1, <2>2, <2>3, <3>1 DEF Translations, Sound
  <2>6. b \/ Pointers(d, S)
    <3> HIDE DEF d, entry, slot
    <3> QED BY <2>2 DEF Pointers, Pointer, Live, Sound
  <2>7. Looked(c, k) = d
    BY <1>3 DEF Looked
  <2> HIDE DEF d, entry, slot
  <2> QED BY <2>1, <2>2, <2>3, <2>4, <2>5, <2>6, <2>7 DEF Sound, slot
<1> QED BY <1>2, <1>3

(* arm_mmu_translate: sound caches and an answer a walk may give; what was
   behind is so no longer if the registers are found changed.               *)
LEMMA TranslateIsSound ==
  ASSUME NEW c, NEW S, NEW b \in BOOLEAN, Sound(c, S, b),
         tables \in Tables, tables \in S, NEW k \in Keys
  PROVE  /\ Sound(arm_mmu_translate(c, k), S, b /\ ~Notices(c))
         /\ arm_mmu_translate(c, k).cp15 = c.cp15
         /\ Answer(c, k) \in Walks(c.cp15, S, k)
<1>1. CASE c.cp15.m
  <2> DEFINE e == Stamped(c)
  <2>1. /\ Sound(e, S, b /\ c.stamp = c.cp15) /\ e.gen # 0
        /\ e.cp15 = c.cp15 /\ e.stamp = e.cp15
    BY StampedIsSound
  <2>2. (b /\ ~Notices(c)) = (b /\ c.stamp = c.cp15)
    BY <1>1 DEF Notices
  <2>3. /\ Sound(Looked(e, k), S, b /\ c.stamp = c.cp15)
        /\ Looked(e, k).cp15 = c.cp15
        /\ Looked(e, k).tlb[mmu_tlb_slot(k)].verdict \in Walks(c.cp15, S, k)
    <3> HIDE DEF e
    <3> QED BY <2>1, LookedIsSound
  <2>4. arm_mmu_translate(c, k) = Looked(e, k)
    BY <1>1 DEF arm_mmu_translate
  <2>5. Answer(c, k) = Looked(e, k).tlb[mmu_tlb_slot(k)].verdict
    BY <1>1, <2>4 DEF Answer
  <2> HIDE DEF e
  <2> QED BY <2>2, <2>3, <2>4, <2>5
<1>2. CASE ~c.cp15.m
  <2>1. arm_mmu_translate(c, k) = c /\ ~Notices(c)
    BY <1>2 DEF arm_mmu_translate, Notices
  <2>2. Answer(c, k) = mmu_walk(c.cp15, tables, k)
    BY <1>2, WalkOff DEF Answer
  <2> QED BY <2>1, <2>2 DEF Walks, Sound
<1> QED BY <1>1, <1>2

---------------------------------------------------------------------------
(* The caches of host pointers.                                             *)

(* A block is filed where the access it was walked for finds it, and only
   where that access, or one of its kind and privilege, does.               *)
LEMMA FillIsSound ==
  ASSUME NEW c, NEW S, NEW b, Sound(c, S, b), NEW k \in Keys, NEW pa,
         Mapped(pa) \in Walks(c.cp15, S, k)
  PROVE  Sound(Fill(c, k, pa), S, b)
<1> DEFINE e == Block(c, k, pa)
           slot == dread_slot(k)
<1>1. k \in [va : Nat, acc : Access, priv : BOOLEAN]
  BY MmuAssumption
<1>2. ASSUME NEW j \in Keys, j.acc = k.acc, Live(c, e, j)
      PROVE  j = k
  <2>1. j \in [va : Nat, acc : Access, priv : BOOLEAN]
    BY MmuAssumption
  <2> QED BY <1>1, <1>2, <2>1 DEF Live, Block
<1>3. ASSUME pa \in Ram  PROVE e \in Blocks /\ e.gen = c.gen /\ e.host = pa
  BY <1>1, <1>3, Parts DEF Block, Blocks, Sound
<1>4. slot \in DataSlots
  BY SlotsInside
<1>5. c.gen \in Nat
  BY Parts DEF Sound
<1>6. CASE pa \in Ram /\ k.acc = "FETCH"
  <2> DEFINE d == [c EXCEPT !.fetch = e]
  <2>1. Fill(c, k, pa) = d
    BY <1>6 DEF Fill
  <2> HIDE DEF e
  <2>2. /\ d \in Caches /\ d.fetch = e
        /\ d.gen = c.gen /\ d.cp15 = c.cp15 /\ d.stamp = c.stamp
        /\ d.tlb = c.tlb /\ d.dread = c.dread /\ d.dwrite = c.dwrite
    BY <1>3, <1>6 DEF Caches, Sound
  <2> HIDE DEF d
  <2>3. Aged(d) /\ Translations(d, S)
    BY <1>3, <1>5, <1>6, <2>2 DEF Aged, Translations, Sound
  <2>4. b \/ Pointers(d, S)
    BY <1>2, <1>3, <1>6, <2>2 DEF Pointers, Pointer, Live, Sound
  <2> QED BY <2>1, <2>2, <2>3, <2>4 DEF Sound
<1>7. CASE pa \in Ram /\ k.acc = "READ"
  <2> DEFINE d == [c EXCEPT !.dread[slot] = e]
  <2>1. Fill(c, k, pa) = d
    BY <1>7 DEF Fill
  <2> HIDE DEF e, slot
  <2>2. /\ d \in Caches /\ d.fetch = c.fetch
        /\ d.gen = c.gen /\ d.cp15 = c.cp15 /\ d.stamp = c.stamp
        /\ d.tlb = c.tlb /\ d.dwrite = c.dwrite
        /\ d.dread = [c.dread EXCEPT ![slot] = e]
    BY <1>3, <1>4, <1>7 DEF Caches, Sound, DataSlots
  <2>3. /\ d.dread[slot] = e
        /\ \A s \in DataSlots : s # slot => d.dread[s] = c.dread[s]
    BY <1>4, <2>2 DEF Caches, Sound, DataSlots
  <2> HIDE DEF d
  <2>4. Aged(d) /\ Translations(d, S)
    BY <1>3, <1>5, <1>7, <2>2, <2>3 DEF Aged, Translations, Sound
  <2>5. b \/ Pointers(d, S)
    BY <1>2, <1>3, <1>7, <2>2, <2>3 DEF Pointers, Pointer, Live, Sound
  <2> QED BY <2>1, <2>2, <2>4, <2>5 DEF Sound
<1>8. CASE pa \in Ram /\ k.acc = "WRITE" /\ consent
  <2> DEFINE d == [c EXCEPT !.dwrite[slot] = e]
  <2>1. Fill(c, k, pa) = d
    BY <1>8 DEF Fill
  <2> HIDE DEF e, slot
  <2>2. /\ d \in Caches /\ d.fetch = c.fetch
        /\ d.gen = c.gen /\ d.cp15 = c.cp15 /\ d.stamp = c.stamp
        /\ d.tlb = c.tlb /\ d.dread = c.dread
        /\ d.dwrite = [c.dwrite EXCEPT ![slot] = e]
    BY <1>3, <1>4, <1>8 DEF Caches, Sound, DataSlots
  <2>3. /\ d.dwrite[slot] = e
        /\ \A s \in DataSlots : s # slot => d.dwrite[s] = c.dwrite[s]
    BY <1>4, <2>2 DEF Caches, Sound, DataSlots
  <2> HIDE DEF d
  <2>4. Aged(d) /\ Translations(d, S)
    BY <1>3, <1>5, <1>8, <2>2, <2>3 DEF Aged, Translations, Sound
  <2>5. b \/ Pointers(d, S)
    BY <1>2, <1>3, <1>8, <2>2, <2>3 DEF Pointers, Pointer, Live, Sound
  <2> QED BY <2>1, <2>2, <2>4, <2>5 DEF Sound
<1>9. CASE pa \notin Ram
  BY <1>9 DEF Fill
<1>10. CASE pa \in Ram /\ k.acc = "WRITE" /\ ~consent
  BY <1>10 DEF Fill
<1>11. k.acc = "READ" \/ k.acc = "WRITE" \/ k.acc = "FETCH"
  BY <1>1 DEF Access
<1> QED BY <1>6, <1>7, <1>8, <1>9, <1>10, <1>11, Zenon

(* The slow path of an access.                                              *)
LEMMA ResolvedIsSound ==
  ASSUME NEW c, NEW S, NEW b \in BOOLEAN, Sound(c, S, b),
         tables \in Tables, tables \in S, NEW k \in Keys
  PROVE  Sound(Resolved(c, k), S, b /\ ~Notices(c))
<1> DEFINE v == Answer(c, k)
           d == arm_mmu_translate(c, k)
<1>1. /\ Sound(d, S, b /\ ~Notices(c)) /\ d.cp15 = c.cp15
      /\ v \in Walks(c.cp15, S, k)
  BY TranslateIsSound
<1>2. CASE Faults(v)
  BY <1>1, <1>2 DEF Resolved
<1>3. CASE ~Faults(v)
  <2>1. PICK t \in S : v = mmu_walk(c.cp15, t, k)
    BY <1>1 DEF Walks
  <2>2. v = Mapped(v.pa)
    BY <1>3, <2>1, WalkMaps DEF Faults, Translates
  <2>3. Mapped(v.pa) \in Walks(d.cp15, S, k)
    BY <1>1, <2>2
  <2>4. Resolved(c, k) = Fill(d, k, v.pa)
    BY <1>3 DEF Resolved
  <2> HIDE DEF v, d
  <2> QED BY <1>1, <2>3, <2>4, FillIsSound
<1> QED BY <1>2, <1>3

---------------------------------------------------------------------------
(* The steps.                                                               *)

(* Older tables owe less: what was sound stays so when there are more.      *)
LEMMA MoreTables ==
  ASSUME NEW c, NEW S, NEW b, Sound(c, S, b), NEW t
  PROVE  Sound(c, S \cup {t}, b)
  BY DEF Sound, Translations, Pointers, Pointer, Walks

(* A reset or a restore leaves nothing, whatever the stamp says.            *)
LEMMA ClearedIsEmpty ==
  ASSUME NEW c \in Caches, NEW g \in Registers
  PROVE  Empty(Cleared(c, g))
<1> DEFINE d == Cleared(c, g)
<1>1. 1 \in 0 .. GenLimit - 1
  BY MmuAssumption
<1>2. /\ d \in Caches
      /\ d.gen = 1 /\ d.tlb = NoTlb /\ d.fetch = NoBlock
      /\ d.dread = NoBlocks /\ d.dwrite = NoBlocks
  BY <1>1, Initially DEF Cleared, Caches, Slots, DataSlots
<1> HIDE DEF d
<1> QED BY <1>2, Initially DEF Empty, Aged, Dead, d

LEMMA InitSound == Init => IInv
<1> SUFFICES ASSUME Init PROVE IInv
  OBVIOUS
<1>1. PICK n \in {0, 1} :
        cpu = [cp15 |-> ZeroRegisters, stamp |-> ZeroRegisters, gen |-> n,
               tlb |-> NoTlb, fetch |-> NoBlock,
               dread |-> NoBlocks, dwrite |-> NoBlocks]
  BY DEF Init
<1>2. n \in 0 .. GenLimit - 1
  BY MmuAssumption
<1>3. cpu \in Caches
  BY <1>1, <1>2, Initially, MmuAssumption DEF Caches, Slots, DataSlots
<1>4. Aged(cpu) /\ Translations(cpu, since) /\ Pointers(cpu, since)
  BY <1>1, Initially DEF Aged, Translations, Pointers, Pointer, Live
<1> QED BY <1>3, <1>4 DEF IInv, Init, Sound

LEMMA AccessSound ==
  ASSUME IInv, NEW k \in Keys,
         Make(k) \/ Translate(k) \/ arm_fetch_cache_try_refill(k)
  PROVE  IInv'
<1>1. CASE Make(k)
  <2>1. Sound(Resolved(cpu, k), since, behind /\ ~Notices(cpu))
    BY ResolvedIsSound DEF IInv
  <2>2. /\ cpu' = Resolved(cpu, k) /\ behind' = (behind /\ ~Notices(cpu))
        /\ UNCHANGED <<tables, consent, since>>
    BY <1>1 DEF Make
  <2>3. (behind /\ ~Notices(cpu)) \in BOOLEAN
    OBVIOUS
  <2>4. Sound(cpu', since', behind')
    BY <2>1, <2>2
  <2> QED BY <2>2, <2>3, <2>4 DEF IInv
<1>2. CASE Translate(k)
  <2>1. Sound(arm_mmu_translate(cpu, k), since, behind /\ ~Notices(cpu))
    BY TranslateIsSound DEF IInv
  <2>2. /\ cpu' = arm_mmu_translate(cpu, k) /\ behind' = (behind /\ ~Notices(cpu))
        /\ UNCHANGED <<tables, consent, since>>
    BY <1>2 DEF Translate
  <2>3. (behind /\ ~Notices(cpu)) \in BOOLEAN
    OBVIOUS
  <2>4. Sound(cpu', since', behind')
    BY <2>1, <2>2
  <2> QED BY <2>2, <2>3, <2>4 DEF IInv
<1>3. CASE arm_fetch_cache_try_refill(k)
  <2> DEFINE v == cpu.tlb[mmu_tlb_slot(k)].verdict
             pa == IF cpu.cp15.m THEN v.pa ELSE k.va
  <2>1. Mapped(pa) \in Walks(cpu.cp15, since, k)
    <3>1. CASE cpu.cp15.m
      <4>1. Witness(cpu, k)
        BY <1>3, <3>1 DEF arm_fetch_cache_try_refill
      <4>2. v \in Walks(cpu.cp15, since, k) /\ Translates(v)
        BY <4>1, SlotsInside DEF Witness, Hits, IInv, Sound, Translations
      <4>3. PICK t \in since : v = mmu_walk(cpu.cp15, t, k)
        BY <4>2 DEF Walks
      <4>4. v = Mapped(v.pa)
        BY <4>2, <4>3, WalkMaps
      <4> QED BY <3>1, <4>2, <4>4
    <3>2. CASE ~cpu.cp15.m
      BY <3>2, WalkOff DEF Walks, IInv
    <3> QED BY <3>1, <3>2
  <2>2. Sound(Fill(cpu, k, pa), since, behind)
    BY <2>1, FillIsSound DEF IInv
  <2>3. cpu' = Fill(cpu, k, pa) /\ UNCHANGED <<tables, consent, since, behind>>
    BY <1>3 DEF arm_fetch_cache_try_refill
  <2>4. Sound(cpu', since', behind')
    BY <2>2, <2>3
  <2> QED BY <2>3, <2>4 DEF IInv
<1> QED BY <1>1, <1>2, <1>3

(* Maintenance empties the caches and starts the tables that count anew.    *)
LEMMA MaintenanceSound ==
  ASSUME IInv, Empty(cpu'), NEW t \in Tables, Maintained(t), UNCHANGED consent
  PROVE  IInv'
<1>1. Sound(cpu', since', behind')
  BY EmptyIsSound
<1> QED BY <1>1 DEF IInv, Maintained

LEMMA NextSound == IInv /\ [Next]_vars => IInv'
<1> SUFFICES ASSUME IInv, [Next]_vars PROVE IInv'
  OBVIOUS
<1>1. cpu \in Caches /\ Aged(cpu) /\ tables \in Tables
  BY DEF IInv, Sound
<1>2. ASSUME NEW k \in Keys,
             Make(k) \/ Translate(k) \/ arm_fetch_cache_try_refill(k)
      PROVE  IInv'
  BY <1>2, AccessSound
<1>3. ASSUME NEW g \in Registers, Mcr(g)  PROVE IInv'
  <2>1. Empty(arm_mmu_tlb_flush([cpu EXCEPT !.cp15 = g]))
    BY <1>1, RegistersChange, FlushEmpties
  <2>2. Empty(cpu')
    BY <1>3, <2>1 DEF Mcr
  <2> QED BY <1>1, <1>3, <2>2, MaintenanceSound DEF Mcr
<1>4. ASSUME NEW g \in Registers, Mutate(g)  PROVE IInv'
  <2>1. cpu' \in Caches /\ Aged(cpu')
    BY <1>1, <1>4, RegistersChange DEF Mutate
  <2>2. Translations(cpu', since')
    BY <1>1, <1>4 DEF Mutate, IInv, Sound, Translations, Caches
  <2> QED BY <1>4, <2>1, <2>2 DEF Mutate, IInv, Sound
<1>5. CASE Invalidate
  <2>1. Empty(cpu')
    BY <1>1, <1>5, FlushEmpties DEF Invalidate
  <2> QED BY <1>1, <1>5, <2>1, MaintenanceSound DEF Invalidate
<1>6. CASE arm_reset
  <2>1. Empty(cpu')
    BY <1>1, <1>6, ClearedIsEmpty, MmuAssumption DEF arm_reset
  <2> QED BY <1>1, <1>6, <2>1, MaintenanceSound DEF arm_reset
<1>7. ASSUME NEW g \in Registers, NEW t \in Tables, snapshot_load(g, t)
      PROVE  IInv'
  <2>1. Empty(cpu')
    BY <1>1, <1>7, ClearedIsEmpty DEF snapshot_load
  <2> QED BY <1>7, <2>1, MaintenanceSound DEF snapshot_load
<1>8. ASSUME NEW t \in Tables, Edit(t)  PROVE IInv'
  <2>1. Sound(cpu, since \cup {t}, behind)
    BY MoreTables DEF IInv
  <2>2. Sound(cpu', since', behind')
    BY <1>8, <2>1 DEF Edit
  <2> QED BY <1>8, <2>2 DEF Edit, IInv
<1>9. ASSUME NEW enabled \in BOOLEAN, s5l8900_set_direct_ram_writes(enabled)
      PROVE  IInv'
  <2>1. /\ cpu' = [cpu EXCEPT !.dwrite = NoBlocks] /\ consent' \in BOOLEAN
        /\ UNCHANGED <<tables, since, behind>>
    BY <1>9 DEF s5l8900_set_direct_ram_writes
  <2>2. cpu' \in Caches
    BY <1>1, <2>1, Initially DEF Caches, DataSlots
  <2>3. /\ cpu'.gen = cpu.gen /\ cpu'.tlb = cpu.tlb /\ cpu'.cp15 = cpu.cp15
        /\ cpu'.stamp = cpu.stamp /\ cpu'.fetch = cpu.fetch
        /\ cpu'.dread = cpu.dread /\ cpu'.dwrite = NoBlocks
    BY <1>1, <2>1 DEF Caches
  <2>4. cpu.gen \in Nat
    BY <1>1, Parts
  <2>5. Aged(cpu')
    BY <1>1, <2>3, <2>4, Initially DEF Aged
  <2>6. Translations(cpu', since') /\ (behind' \/ Pointers(cpu', since'))
    BY <2>1, <2>3, Initially
       DEF IInv, Sound, Translations, Pointers, Pointer, Live
  <2> QED BY <2>1, <2>2, <2>5, <2>6 DEF IInv, Sound
<1>10. CASE UNCHANGED vars
  BY <1>10 DEF vars, IInv
<1> QED BY <1>2, <1>3, <1>4, <1>5, <1>6, <1>7, <1>8, <1>9, <1>10 DEF Next
---------------------------------------------------------------------------
(* The theorems.                                                            *)

(* The caches stay sound through accesses, maintenance, edits of the tables,
   registers changed behind them, resets, restores and revoked consent.     *)
THEOREM Invariance == Spec => []IInv
<1>1. Init => IInv
  BY InitSound
<1>2. IInv /\ [Next]_vars => IInv'
  BY NextSound
<1> QED BY <1>1, <1>2, PTL DEF Spec

(* Registers, caches and history keep their types; no generation overflows. *)
THEOREM TypeCorrect == Spec => []TypeOK
<1>1. IInv => TypeOK
  BY DEF IInv, Sound, TypeOK
<1> QED BY <1>1, Invariance, PTL

(* arm_mmu_translate: a hit says what a walk says of the tables as they are,
   or were at some time since the guest's last maintenance.                 *)
THEOREM Fresh == Spec => []TranslationFresh
<1>1. IInv => TranslationFresh
  <2> SUFFICES ASSUME IInv, NEW k \in Keys PROVE Answer(cpu, k) \in Owed(k)
    BY DEF TranslationFresh
  <2>1. Answer(cpu, k) \in Walks(cpu.cp15, since, k)
    BY TranslateIsSound DEF IInv
  <2> QED BY <2>1 DEF Walks, Owed
<1> QED BY <1>1, Invariance, PTL

(* dread_hit, dwrite_hit and the fetch block: the pointer an access uses is
   to the block a walk allows it, unless CP15 was changed behind the caches.*)
THEOREM PointersFresh == Spec => []BlocksFresh
<1>1. IInv => BlocksFresh
  <2> SUFFICES ASSUME IInv, ~behind, NEW k \in Keys, Live(cpu, BlockOf(cpu, k), k)
               PROVE  Mapped(BlockOf(cpu, k).host) \in Owed(k)
    BY DEF BlocksFresh
  <2>1. Pointers(cpu, since) /\ dread_slot(k) \in DataSlots
    BY SlotsInside DEF IInv, Sound
  <2>2. k.acc = "READ" \/ k.acc = "WRITE" \/ k.acc = "FETCH"
    BY MmuAssumption DEF Access
  <2>3. Mapped(BlockOf(cpu, k).host) \in Walks(cpu.cp15, since, k)
    BY <2>1, <2>2 DEF Pointers, Pointer, BlockOf
  <2> QED BY <2>3 DEF Walks, Owed
<1> QED BY <1>1, Invariance, PTL
=============================================================================
