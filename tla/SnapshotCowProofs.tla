------------------------- MODULE SnapshotCowProofs -------------------------
(***************************************************************************)
(* What the overlays keep, for a disk of any size and any number of         *)
(* snapshots: a snapshot that is not refused gives back the disk it was     *)
(* taken of.  Gives is what Restored computes, as a relation: the block's   *)
(* record in the oldest overlay that has one, or else the image.  The       *)
(* inductive invariant relates it to the past of every snapshot of the line *)
(* (Faithful), to the image where a write may still have to be saved        *)
(* (Ahead), and, overlay by overlay, to an image that is being restored     *)
(* (Underway).                                                             *)
(***************************************************************************)
EXTENDS SnapshotCow, TLAPS

Holds(f, b, v) ==
  \E i \in DOMAIN f.records : f.records[i].block = b /\ f.records[i].was = v

(* What im and the overlays s .. n of ov have of block b.                    *)
GivenBy(im, ov, n, s, b, v) ==
  \/ (\A t \in s .. n : b \notin Recorded(ov[t])) /\ v = im[b]
  \/ \E t \in s .. n : /\ Holds(ov[t], b, v)
                       /\ \A u \in s .. t - 1 : b \notin Recorded(ov[u])

Gives(s, b, v) == GivenBy(image, overlay, Newest, s, b, v)

(* No block is recorded twice.                                              *)
Once(f) ==
  \A i, j \in DOMAIN f.records : f.records[i].block = f.records[j].block => i = j

Numbered ==
  /\ Newest \in Ids /\ Taken = 1 .. Newest
  /\ \A s \in line : s <= armed

(* A file is of a snapshot that was taken, and has no block twice.          *)
Files ==
  \A t \in Ids : /\ Once(overlay[t])
                 /\ ~overlay[t].exists => overlay[t].records = << >> /\ ~overlay[t].torn
                 /\ t > Newest => ~overlay[t].exists

(* The machine runs on the overlay that is armed, whose bitmap is what it
   holds, and which is whole unless a save has failed.                      *)
Attached ==
  /\ machine # "dangling"
  /\ cow.open <=> machine = "running"
  /\ cow.open => /\ cow.id = armed
                 /\ overlay[armed].exists
                 /\ cow.saved = Recorded(overlay[armed])
                 /\ cow.tail => Len(overlay[armed].records) > 0
                 /\ ~cow.poisoned => ~overlay[armed].torn /\ ~cow.half
  /\ call.phase # "idle" => cow.open /\ ~cow.poisoned
  /\ restore.on => machine = "stopped"

(* What is about to be written has been saved.                              *)
Calling ==
  /\ call.phase = "save" =>
       /\ call.first <= call.last
       /\ call.at \in call.first .. call.last + 1
       /\ call.first .. call.at - 1 \subseteq cow.saved
  /\ call.phase = "write" =>
       /\ call.at \in call.first .. call.last
       /\ call.first .. call.last \subseteq cow.saved

(* A block the armed overlay does not have yet is in the image what the
   overlays after it give: saving it is as good.                            *)
Ahead ==
  ~overlay[armed].torn =>
    \A b \in Blocks \ Recorded(overlay[armed]) : Gives(armed, b, image[b])

(* A replay has put back what the overlays it is through with give, and the
   records before the next of the one it is at.                             *)
PutBack(b) ==
  LET rs == overlay[restore.id].records IN
  \/ \E i \in DOMAIN rs : i < restore.at /\ rs[i].block = b /\ rs[i].was = image[b]
  \/ /\ \A i \in DOMAIN rs : i < restore.at => rs[i].block # b
     /\ Gives(restore.id + 1, b, image[b])

Underway ==
  restore.on =>
    /\ armed = Newest
    /\ restore.target \in line /\ \A s \in line : s <= restore.target
    /\ restore.id \in restore.target .. Newest /\ restore.at >= 1
    /\ \A t \in restore.id + 1 .. Newest : overlay[t].exists => Accepted(overlay[t])
    /\ \A b \in Blocks : PutBack(b)

Faithful ==
  \A s \in line : Replayable(s) => \A b \in Blocks : Gives(s, b, past[s][b])

(* The inductive invariant.                                                 *)
IInv ==
  /\ TypeOK
  /\ Numbered
  /\ Files
  /\ Attached
  /\ Calling
  /\ Ahead
  /\ Underway
  /\ Faithful

---------------------------------------------------------------------------
(* Files.                                                                   *)

LEMMA Sizes ==
  /\ BLOCK_COUNT \in Nat /\ BLOCK_COUNT > 0 /\ SNAPSHOTS \in Nat /\ SNAPSHOTS > 0
BY SnapshotSizesAssumption

LEMMA FileFields ==
  ASSUME NEW f \in File
  PROVE  /\ f.exists \in BOOLEAN /\ f.torn \in BOOLEAN /\ f.records \in Seq(Record)
         /\ f = [exists |-> f.exists, torn |-> f.torn, records |-> f.records]
BY DEF File

LEMMA RecordsChanged ==
  ASSUME NEW f \in File, NEW rs \in Seq(Record)
  PROVE  [f EXCEPT !.records = rs] \in File
BY DEF File

LEMMA NoFileFields ==
  /\ NoFile \in File /\ NoFile.exists = FALSE /\ NoFile.torn = FALSE
  /\ NoFile.records = << >>
BY DEF NoFile, File

(* What a file holds is what its records are.                               *)
LEMMA SameRecords ==
  ASSUME NEW f, NEW g, f.records = g.records
  PROVE  /\ Recorded(f) = Recorded(g) /\ (Once(f) <=> Once(g))
         /\ \A b, v : Holds(f, b, v) <=> Holds(g, b, v)
BY DEF Recorded, Once, Holds

LEMMA HoldsRecorded ==
  ASSUME NEW f, NEW b
  PROVE  /\ \A v : Holds(f, b, v) => b \in Recorded(f)
         /\ b \in Recorded(f) => \E v : Holds(f, b, v)
BY DEF Recorded, Holds

LEMMA HoldsOnce ==
  ASSUME NEW f, Once(f), NEW b, NEW v, NEW w, Holds(f, b, v), Holds(f, b, w)
  PROVE  v = w
BY DEF Once, Holds

LEMMA NoRecords ==
  ASSUME NEW f, f.records = << >>
  PROVE  Recorded(f) = {} /\ Once(f) /\ \A b, v : ~Holds(f, b, v)
BY DEF Recorded, Once, Holds

(* A record more, of a block that had none.                                 *)
LEMMA RecordAppended ==
  ASSUME NEW f, f.records \in Seq(Record), NEW r \in Record, NEW g,
         g.records = Append(f.records, r)
  PROVE  /\ Recorded(g) = Recorded(f) \cup {r.block}
         /\ \A b, v : Holds(g, b, v) <=> Holds(f, b, v) \/ (b = r.block /\ v = r.was)
         /\ Once(f) /\ r.block \notin Recorded(f) => Once(g)
         /\ g.records \in Seq(Record) /\ Len(g.records) > 0
<1> DEFINE fs == f.records
           gs == g.records
           n == Len(fs)
<1>1. /\ gs \in Seq(Record) /\ n \in Nat /\ DOMAIN fs = 1 .. n
      /\ Len(gs) = n + 1 /\ DOMAIN gs = 1 .. n + 1
      /\ \A i \in 1 .. n : gs[i] = fs[i]
      /\ gs[n + 1] = r
  OBVIOUS
<1> HIDE DEF fs, gs, n
<1>2. DOMAIN gs = DOMAIN fs \cup {n + 1} /\ n + 1 \notin DOMAIN fs
  BY <1>1
<1>3. /\ Recorded(f) = {fs[i].block : i \in DOMAIN fs}
      /\ Recorded(g) = {gs[i].block : i \in DOMAIN gs}
  BY DEF Recorded, fs, gs
<1>4. Recorded(g) = Recorded(f) \cup {r.block}
  BY <1>1, <1>2, <1>3
<1>5. ASSUME NEW b, NEW v
      PROVE  Holds(g, b, v) <=> Holds(f, b, v) \/ (b = r.block /\ v = r.was)
  <2>1. /\ Holds(f, b, v) <=> \E i \in DOMAIN fs : fs[i].block = b /\ fs[i].was = v
        /\ Holds(g, b, v) <=> \E i \in DOMAIN gs : gs[i].block = b /\ gs[i].was = v
    BY DEF Holds, fs, gs
  <2> QED BY <1>1, <1>2, <2>1
<1>6. ASSUME Once(f), r.block \notin Recorded(f)
      PROVE  Once(g)
  <2>1. \A i, j \in DOMAIN fs : fs[i].block = fs[j].block => i = j
    BY <1>6 DEF Once, fs
  <2>2. \A i \in DOMAIN fs : fs[i].block # r.block
    BY <1>3, <1>6
  <2>3. \A i, j \in DOMAIN gs : gs[i].block = gs[j].block => i = j
    BY <1>1, <1>2, <2>1, <2>2
  <2> QED BY <2>3 DEF Once, gs
<1>7. Len(gs) > 0
  BY <1>1
<1> QED BY <1>1, <1>4, <1>5, <1>6, <1>7 DEF gs

(* What a dying process leaves of a file: the same, or a torn one.          *)
LEMMA AbandonedFile ==
  ASSUME NEW f \in File, cow \in Cow
  PROVE  /\ Abandoned(f) \in File /\ Abandoned(f).exists = f.exists
         /\ ~Abandoned(f).torn => /\ ~f.torn /\ ~cow.half
                                  /\ Abandoned(f).records = f.records
         /\ Once(f) => Once(Abandoned(f))
         /\ f.records = << >> => Abandoned(f).records = << >>
<1> DEFINE x == f.torn \/ cow.tail \/ cow.half
           n == Len(f.records)
           rs == IF cow.tail THEN SubSeq(f.records, 1, n - 1) ELSE f.records
<1>1. /\ f.exists \in BOOLEAN /\ f.torn \in BOOLEAN /\ f.records \in Seq(Record)
      /\ cow.tail \in BOOLEAN /\ cow.half \in BOOLEAN
  BY FileFields DEF Cow
<1>2. /\ rs \in Seq(Record) /\ (Once(f) => \A i, j \in DOMAIN rs :
                                  rs[i].block = rs[j].block => i = j)
      /\ (f.records = << >> => rs = << >>)
  <2>1. CASE cow.tail
    <3>1. n \in Nat /\ DOMAIN f.records = 1 .. n
      BY <1>1
    <3>2. CASE n = 0
      <4>1. f.records = << >> /\ rs = << >>
        BY <1>1, <2>1, <3>2
      <4> QED BY <4>1
    <3>3. CASE n > 0
      <4>1. /\ rs \in Seq(Record) /\ Len(rs) = n - 1 /\ DOMAIN rs = 1 .. n - 1
            /\ \A i \in 1 .. n - 1 : rs[i] = f.records[i]
        BY <1>1, <2>1, <3>1, <3>3
      <4>2. DOMAIN rs \subseteq DOMAIN f.records
        BY <3>1, <4>1
      <4>3. f.records # << >>
        BY <3>3
      <4> HIDE DEF rs, n
      <4> QED BY <4>1, <4>2, <4>3 DEF Once
    <3>4. n = 0 \/ n > 0
      <4> HIDE DEF n
      <4> QED BY <3>1
    <3> QED BY <3>2, <3>3, <3>4
  <2>2. CASE ~cow.tail
    BY <1>1, <2>2 DEF Once
  <2> QED BY <2>1, <2>2
<1>3. Abandoned(f) = [exists |-> f.exists, torn |-> x, records |-> rs]
  <2>1. Abandoned(f) = [f EXCEPT !.torn = x, !.records = rs]
    BY DEF Abandoned
  <2> HIDE DEF x, rs
  <2> QED BY <2>1, FileFields
<1>4. ~cow.tail => rs = f.records
  OBVIOUS
<1>5. x \in BOOLEAN
  BY <1>1
<1>6. /\ Abandoned(f).exists = f.exists /\ Abandoned(f).torn = x
      /\ Abandoned(f).records = rs
  BY <1>3
<1>7. Abandoned(f) \in File
  <2> HIDE DEF x, rs
  <2> QED BY <1>1, <1>2, <1>3, <1>5 DEF File
<1> HIDE DEF rs
<1> QED BY <1>2, <1>4, <1>6, <1>7 DEF Once

LEMMA FlushedFile ==
  ASSUME NEW f \in File, cow \in Cow
  PROVE  /\ Flushed(f) \in File /\ Flushed(f).exists = f.exists
         /\ Flushed(f).torn = (f.torn \/ cow.half) /\ Flushed(f).records = f.records
<1>1. cow.half \in BOOLEAN
  BY DEF Cow
<1> QED BY <1>1 DEF Flushed, File

---------------------------------------------------------------------------
(* What the overlays give.                                                  *)

(* They give one value.                                                     *)
LEMMA GivesOne ==
  ASSUME NEW im, NEW ov, NEW n \in Int, NEW s \in Int, NEW b, NEW v, NEW w,
         \A t \in s .. n : Once(ov[t]),
         GivenBy(im, ov, n, s, b, v), GivenBy(im, ov, n, s, b, w)
  PROVE  v = w
<1>1. CASE \A t \in s .. n : b \notin Recorded(ov[t])
  BY <1>1, HoldsRecorded DEF GivenBy
<1>2. CASE ~\A t \in s .. n : b \notin Recorded(ov[t])
  <2>1. PICK t \in s .. n : /\ Holds(ov[t], b, v)
                            /\ \A u \in s .. t - 1 : b \notin Recorded(ov[u])
    BY <1>2 DEF GivenBy
  <2>2. PICK t2 \in s .. n : /\ Holds(ov[t2], b, w)
                             /\ \A u \in s .. t2 - 1 : b \notin Recorded(ov[u])
    BY <1>2 DEF GivenBy
  <2>3. b \in Recorded(ov[t]) /\ b \in Recorded(ov[t2])
    BY <2>1, <2>2, HoldsRecorded
  <2>4. ~(t < t2) /\ ~(t2 < t)
    BY <2>1, <2>2, <2>3
  <2>5. t = t2
    BY <2>4
  <2> QED BY <2>1, <2>2, <2>5, HoldsOnce
<1> QED BY <1>1, <1>2

(* It is a matter of their records, and of the image if they have none.      *)
LEMMA GivesStays ==
  ASSUME NEW im, NEW ov, NEW im2, NEW ov2, NEW n \in Int, NEW s \in Int, NEW b, NEW v,
         \A t \in s .. n : ov2[t].records = ov[t].records,
         im2[b] = im[b] \/ \E t \in s .. n : b \in Recorded(ov[t]),
         GivenBy(im, ov, n, s, b, v)
  PROVE  GivenBy(im2, ov2, n, s, b, v)
<1>1. \A t \in s .. n : /\ Recorded(ov2[t]) = Recorded(ov[t])
                        /\ Holds(ov2[t], b, v) <=> Holds(ov[t], b, v)
  BY SameRecords
<1>2. CASE (\A t \in s .. n : b \notin Recorded(ov[t])) /\ v = im[b]
  BY <1>1, <1>2 DEF GivenBy
<1>3. CASE \E t \in s .. n : /\ Holds(ov[t], b, v)
                             /\ \A u \in s .. t - 1 : b \notin Recorded(ov[u])
  <2>1. PICK t \in s .. n : /\ Holds(ov[t], b, v)
                            /\ \A u \in s .. t - 1 : b \notin Recorded(ov[u])
    BY <1>3
  <2>2. s .. t - 1 \subseteq s .. n
    OBVIOUS
  <2> QED BY <1>1, <2>1, <2>2 DEF GivenBy
<1> QED BY <1>2, <1>3 DEF GivenBy

(* A snapshot more, that nothing was written after.                         *)
LEMMA GivesOneMore ==
  ASSUME NEW im, NEW ov, NEW n \in Int, NEW s \in Int, s <= n + 1, NEW b, NEW v,
         ov[n + 1].records = << >>, GivenBy(im, ov, n, s, b, v)
  PROVE  GivenBy(im, ov, n + 1, s, b, v)
<1>1. b \notin Recorded(ov[n + 1])
  BY NoRecords
<1>2. s .. n + 1 = (s .. n) \cup {n + 1}
  OBVIOUS
<1> QED BY <1>1, <1>2 DEF GivenBy

(* A block without a record is given as it is.                              *)
LEMMA GivesImage ==
  ASSUME NEW im, NEW ov, NEW n, NEW s, NEW b,
         \A t \in s .. n : b \notin Recorded(ov[t])
  PROVE  GivenBy(im, ov, n, s, b, im[b])
BY DEF GivenBy

(* A block is saved in overlay a as it is in the image: a snapshot up to a
   gives what it gave, if the image has what those from a on give.           *)
LEMMA GivesSaved ==
  ASSUME NEW im, NEW ov, NEW ov2, NEW n \in Int, NEW s \in Int, NEW a \in s .. n,
         NEW b, NEW c, NEW v, \A t \in s .. n : Once(ov[t]),
         ov[a].records \in Seq(Record), NEW r \in Record, r.block = c, r.was = im[c],
         \A t \in (s .. n) \ {a} : ov2[t].records = ov[t].records,
         ov2[a].records = Append(ov[a].records, r),
         c \notin Recorded(ov[a]), GivenBy(im, ov, n, a, c, im[c]),
         GivenBy(im, ov, n, s, b, v)
  PROVE  GivenBy(im, ov2, n, s, b, v)
<1>1. \A t \in (s .. n) \ {a} : /\ Recorded(ov2[t]) = Recorded(ov[t])
                                /\ Holds(ov2[t], b, v) <=> Holds(ov[t], b, v)
  BY SameRecords
<1>2. /\ Recorded(ov2[a]) = Recorded(ov[a]) \cup {c}
      /\ Holds(ov2[a], b, v) <=> Holds(ov[a], b, v) \/ (b = c /\ v = im[c])
  <2> DEFINE f == ov[a]
             g == ov2[a]
  <2>1. f.records \in Seq(Record) /\ g.records = Append(f.records, r)
    OBVIOUS
  <2> HIDE DEF f, g
  <2>2. /\ Recorded(g) = Recorded(f) \cup {r.block}
        /\ Holds(g, b, v) <=> Holds(f, b, v) \/ (b = r.block /\ v = r.was)
    BY <2>1, RecordAppended
  <2> QED BY <2>2 DEF f, g
<1>3. CASE b # c
  <2>1. \A t \in s .. n : /\ b \in Recorded(ov2[t]) <=> b \in Recorded(ov[t])
                          /\ Holds(ov2[t], b, v) <=> Holds(ov[t], b, v)
    BY <1>1, <1>2, <1>3
  <2>2. \A t \in s .. n : s .. t - 1 \subseteq s .. n
    OBVIOUS
  <2>3. CASE (\A t \in s .. n : b \notin Recorded(ov[t])) /\ v = im[b]
    BY <2>1, <2>3 DEF GivenBy
  <2>4. CASE \E t \in s .. n : /\ Holds(ov[t], b, v)
                               /\ \A u \in s .. t - 1 : b \notin Recorded(ov[u])
    <3>1. PICK t \in s .. n : /\ Holds(ov[t], b, v)
                              /\ \A u \in s .. t - 1 : b \notin Recorded(ov[u])
      BY <2>4
    <3>2. Holds(ov2[t], b, v) /\ \A u \in s .. t - 1 : b \notin Recorded(ov2[u])
      BY <2>1, <2>2, <3>1
    <3> QED BY <3>2 DEF GivenBy
  <2> QED BY <2>3, <2>4 DEF GivenBy
<1>4. CASE b = c
  <2>1. CASE \E t \in s .. a - 1 : /\ Holds(ov[t], c, v)
                                   /\ \A u \in s .. t - 1 : c \notin Recorded(ov[u])
    <3>1. PICK t \in s .. a - 1 : /\ Holds(ov[t], c, v)
                                  /\ \A u \in s .. t - 1 : c \notin Recorded(ov[u])
      BY <2>1
    <3>2. t \in (s .. n) \ {a} /\ s .. t - 1 \subseteq (s .. n) \ {a}
      OBVIOUS
    <3>3. Holds(ov2[t], b, v) /\ \A u \in s .. t - 1 : b \notin Recorded(ov2[u])
      BY <1>1, <1>4, <3>1, <3>2
    <3> QED BY <3>2, <3>3 DEF GivenBy
  <2>2. CASE ~\E t \in s .. a - 1 : /\ Holds(ov[t], c, v)
                                    /\ \A u \in s .. t - 1 : c \notin Recorded(ov[u])
    <3>1. \A u \in s .. a - 1 : c \notin Recorded(ov[u])
      <4>1. CASE (\A t \in s .. n : c \notin Recorded(ov[t])) /\ v = im[c]
        BY <4>1
      <4>2. CASE \E t \in s .. n : /\ Holds(ov[t], c, v)
                                   /\ \A u \in s .. t - 1 : c \notin Recorded(ov[u])
        <5>1. PICK t \in s .. n : /\ Holds(ov[t], c, v)
                                  /\ \A u \in s .. t - 1 : c \notin Recorded(ov[u])
          BY <4>2
        <5>2. ~(t < a)
          BY <2>2, <5>1
        <5> QED BY <5>1, <5>2
      <4> QED BY <1>4, <4>1, <4>2 DEF GivenBy
    <3>2. GivenBy(im, ov, n, a, c, v)
      <4>1. CASE (\A t \in s .. n : c \notin Recorded(ov[t])) /\ v = im[c]
        BY <4>1 DEF GivenBy
      <4>2. CASE \E t \in s .. n : /\ Holds(ov[t], c, v)
                                   /\ \A u \in s .. t - 1 : c \notin Recorded(ov[u])
        <5>1. PICK t \in s .. n : /\ Holds(ov[t], c, v)
                                  /\ \A u \in s .. t - 1 : c \notin Recorded(ov[u])
          BY <4>2
        <5>2. t \in a .. n /\ \A u \in a .. t - 1 : u \in s .. t - 1
          BY <2>2, <5>1
        <5> QED BY <5>1, <5>2 DEF GivenBy
      <4> QED BY <1>4, <4>1, <4>2 DEF GivenBy
    <3>3. \A t \in a .. n : Once(ov[t])
      OBVIOUS
    <3>4. a \in Int
      OBVIOUS
    <3>5. v = im[c]
      BY <3>2, <3>3, <3>4, GivesOne
    <3>6. Holds(ov2[a], b, v)
      BY <1>2, <1>4, <3>5
    <3>7. \A u \in s .. a - 1 : b \notin Recorded(ov2[u])
      BY <1>1, <1>4, <3>1
    <3> QED BY <3>6, <3>7 DEF GivenBy
  <2> QED BY <2>1, <2>2
<1> QED BY <1>3, <1>4

(* What those after overlay t give of a block it does not have.             *)
LEMMA GivesBefore ==
  ASSUME NEW im, NEW ov, NEW n \in Int, NEW t \in Int, t <= n, NEW b, NEW v,
         \/ Holds(ov[t], b, v)
         \/ b \notin Recorded(ov[t]) /\ GivenBy(im, ov, n, t + 1, b, v)
  PROVE  GivenBy(im, ov, n, t, b, v)
<1>1. t .. n = {t} \cup (t + 1 .. n)
  OBVIOUS
<1>2. CASE Holds(ov[t], b, v)
  BY <1>1, <1>2 DEF GivenBy
<1>3. CASE b \notin Recorded(ov[t]) /\ GivenBy(im, ov, n, t + 1, b, v)
  <2>1. CASE (\A u \in t + 1 .. n : b \notin Recorded(ov[u])) /\ v = im[b]
    BY <1>1, <1>3, <2>1 DEF GivenBy
  <2>2. CASE \E q \in t + 1 .. n : /\ Holds(ov[q], b, v)
                                   /\ \A u \in t + 1 .. q - 1 : b \notin Recorded(ov[u])
    <3>1. PICK q \in t + 1 .. n : /\ Holds(ov[q], b, v)
                                  /\ \A u \in t + 1 .. q - 1 : b \notin Recorded(ov[u])
      BY <2>2
    <3>2. t .. q - 1 = {t} \cup (t + 1 .. q - 1) /\ q \in t .. n
      OBVIOUS
    <3>3. \A u \in t .. q - 1 : b \notin Recorded(ov[u])
      BY <1>3, <3>1, <3>2
    <3> QED BY <3>1, <3>2, <3>3 DEF GivenBy
  <2> QED BY <1>3, <2>1, <2>2 DEF GivenBy
<1> QED BY <1>2, <1>3

---------------------------------------------------------------------------
(* Snapshots are numbered.                                                  *)

LEMMA Greatest ==
  ASSUME NEW n \in Nat, n >= 1
  PROVE  (CHOOSE s \in 1 .. n : \A t \in 1 .. n : t <= s) = n
<1>1. n \in 1 .. n /\ \A t \in 1 .. n : t <= n
  OBVIOUS
<1>2. \A s \in 1 .. n : (\A t \in 1 .. n : t <= s) => s = n
  OBVIOUS
<1> QED BY <1>1, <1>2

LEMMA Numbers ==
  ASSUME IInv
  PROVE  /\ Newest \in Nat /\ Newest >= 1 /\ Newest <= SNAPSHOTS
         /\ Taken = 1 .. Newest /\ Taken \subseteq Ids
         /\ \A t : t \in 1 .. Newest => t \in Ids
         /\ line \subseteq 1 .. Newest /\ armed \in 1 .. Newest /\ armed \in Ids
         /\ \A s \in line : s \in 1 .. armed
BY Sizes DEF IInv, Numbered, TypeOK, Ids

(* The snapshots are those there were.                                      *)
LEMMA SameNumbers ==
  ASSUME IInv, past' = past, line' \subseteq line, armed' = armed
  PROVE  Newest' = Newest /\ Taken' = Taken /\ Numbered'
BY DEF IInv, Numbered, Newest, Taken

(* A step that leaves the overlays that are accepted as they are, and writes
   in the image only what is recorded in them, keeps what they give.         *)
LEMMA FaithfulStays ==
  ASSUME IInv, Newest' = Newest, past' = past, line' \subseteq line,
         ASSUME NEW s \in line', Replayable(s)'
         PROVE  /\ Replayable(s)
                /\ \A t \in s .. Newest : overlay'[t].records = overlay[t].records
                /\ \A b \in Blocks : \/ image'[b] = image[b]
                                     \/ \E t \in s .. Newest : b \in Recorded(overlay[t])
  PROVE  Faithful'
<1>1. SUFFICES ASSUME NEW s \in line', Replayable(s)', NEW b \in Blocks
               PROVE  GivenBy(image', overlay', Newest, s, b, past[s][b])
  BY DEF Faithful, Gives
<1>2. /\ \A t \in s .. Newest : overlay'[t].records = overlay[t].records
      /\ image'[b] = image[b] \/ \E t \in s .. Newest : b \in Recorded(overlay[t])
  BY <1>1
<1>3. GivenBy(image, overlay, Newest, s, b, past[s][b])
  BY <1>1 DEF IInv, Faithful, Gives
<1>4. s \in Int /\ Newest \in Int
  BY Numbers
<1> HIDE DEF Newest
<1> QED BY <1>2, <1>3, <1>4, GivesStays

(* The same for what is ahead of the armed overlay.                         *)
LEMMA AheadStays ==
  ASSUME IInv, Newest' = Newest, armed' = armed,
         ~overlay'[armed].torn =>
           /\ ~overlay[armed].torn
           /\ \A t \in armed .. Newest : overlay'[t].records = overlay[t].records
           /\ \A b \in Blocks : image'[b] = image[b] \/ b \in Recorded(overlay[armed])
  PROVE  Ahead'
<1>1. SUFFICES ASSUME ~overlay'[armed].torn,
                      NEW b \in Blocks \ Recorded(overlay'[armed])
               PROVE  GivenBy(image', overlay', Newest, armed, b, image'[b])
  BY DEF Ahead, Gives
<1>2. armed \in Int /\ Newest \in Int /\ armed \in armed .. Newest
  BY Numbers
<1>3. /\ \A t \in armed .. Newest : overlay'[t].records = overlay[t].records
      /\ b \notin Recorded(overlay[armed]) /\ image'[b] = image[b]
  BY <1>1, <1>2, SameRecords
<1>4. GivenBy(image, overlay, Newest, armed, b, image[b])
  BY <1>1, <1>3 DEF IInv, Ahead, Gives
<1> HIDE DEF Newest
<1> QED BY <1>2, <1>3, <1>4, GivesStays

(* And for a restore.                                                       *)
LEMMA UnderwayStays ==
  ASSUME IInv, UNCHANGED <<image, overlay, armed, restore, line>>, Newest' = Newest
  PROVE  Underway'
BY DEF IInv, Underway, PutBack, Gives

(* A replayable snapshot is one of overlays that stay as they are.           *)
LEMMA SameReplayable ==
  ASSUME UNCHANGED <<overlay, cow>>, Newest' = Newest
  PROVE  \A s : Replayable(s)' <=> Replayable(s)
BY DEF Replayable, AsClosed, Flushed

LEMMA SameFiles ==
  ASSUME UNCHANGED <<overlay>>, Newest' = Newest, IInv
  PROVE  Files'
BY DEF IInv, Files

---------------------------------------------------------------------------
(* The machine.                                                             *)

Calls == [phase : {"idle", "save", "write"}, first : Blocks, last : Blocks,
          at : 0 .. BLOCK_COUNT, reply : {"ok", "error", "short"}]

LEMMA IdleCalls ==
  /\ Idle \in Calls /\ Idle.phase = "idle"
  /\ \A r \in {"ok", "error", "short"} :
       [Idle EXCEPT !.reply = r] \in Calls /\ [Idle EXCEPT !.reply = r].phase = "idle"
BY Sizes DEF Idle, Calls, Blocks

LEMMA RecordedBlocks ==
  ASSUME NEW f \in File
  PROVE  Recorded(f) \subseteq Blocks
<1>1. f.records \in Seq(Record)
  BY FileFields
<1>2. \A i \in DOMAIN f.records : f.records[i] \in Record
  BY <1>1
<1> QED BY <1>2 DEF Recorded, Record

LEMMA ClosedFields ==
  /\ Closed \in Cow /\ ~Closed.open /\ Closed.half = FALSE
BY Sizes DEF Closed, Cow, Ids

LEMMA OpenedFields ==
  ASSUME NEW s \in Ids, overlay[s] \in File
  PROVE  /\ Opened(s) \in Cow /\ Opened(s).open = TRUE /\ Opened(s).id = s
         /\ Opened(s).saved = Recorded(overlay[s]) /\ Opened(s).poisoned = FALSE
         /\ Opened(s).tail = FALSE /\ Opened(s).half = FALSE
<1> DEFINE r == Recorded(overlay[s])
<1>1. r \subseteq Blocks
  BY RecordedBlocks
<1> HIDE DEF r
<1>2. Opened(s) = [open |-> TRUE, id |-> s, saved |-> r, poisoned |-> FALSE,
                   tail |-> FALSE, half |-> FALSE]
  <2>1. Opened(s) = [Closed EXCEPT !.open = TRUE, !.id = s, !.saved = r]
    BY DEF Opened, r
  <2> QED BY <2>1 DEF Closed
<1> QED BY <1>1, <1>2 DEF Cow, r

(* The armed overlay becomes f, in which no record is lost unless it is torn. *)
LEMMA ArmedBecomes ==
  ASSUME IInv, NEW f \in File, f.exists, Once(f),
         ~f.torn => /\ Accepted(AsClosed(armed))
                    /\ f.records = overlay[armed].records,
         overlay' = [overlay EXCEPT ![armed] = f],
         UNCHANGED <<image, armed, past>>, line' \subseteq line
  PROVE  /\ overlay' \in [Ids -> File] /\ overlay'[armed] = f
         /\ Newest' = Newest
         /\ Numbered' /\ Files' /\ Ahead' /\ Faithful'
<1>1. /\ armed \in Ids /\ armed \in 1 .. Newest /\ Newest \in Nat
      /\ \A s \in line : s \in 1 .. armed
      /\ \A t : t \in 1 .. Newest => t \in Ids
  BY Numbers
<1>2. overlay \in [Ids -> File] /\ Newest' = Newest /\ Numbered'
  BY SameNumbers DEF IInv, TypeOK
<1>3. /\ overlay' \in [Ids -> File] /\ overlay'[armed] = f
      /\ \A t \in Ids \ {armed} : overlay'[t] = overlay[t]
  BY <1>1, <1>2
<1>4. Files'
  <2>1. ~(armed > Newest)
    BY <1>1
  <2> HIDE DEF Newest
  <2> QED BY <1>2, <1>3, <2>1 DEF IInv, Files
<1>5. ~f.torn => ~overlay[armed].torn
  BY <1>1, <1>2, FileFields DEF Accepted, AsClosed, Flushed, File
<1>6. Ahead'
  <2>1. ~overlay'[armed].torn =>
          /\ ~overlay[armed].torn
          /\ \A t \in armed .. Newest : overlay'[t].records = overlay[t].records
    <3>1. \A t \in armed .. Newest : t \in Ids
      BY <1>1
    <3> HIDE DEF Newest
    <3> QED BY <1>3, <1>5, <3>1
  <2> QED BY <1>2, <2>1, AheadStays
<1>7. Faithful'
  <2>1. ASSUME NEW s \in line, Replayable(s)'
        PROVE  /\ Replayable(s)
               /\ \A t \in s .. Newest : overlay'[t].records = overlay[t].records
    <3>1. armed \in s .. Newest /\ \A t \in s .. Newest : t \in Ids
      BY <1>1
    <3>2. \A t \in s .. Newest : overlay'[t].exists => ~overlay'[t].torn
      <4>1. ASSUME NEW t \in s .. Newest, overlay'[t].exists
            PROVE  ~overlay'[t].torn
        <5>1. Accepted(AsClosed(t)')
          BY <1>2, <2>1, <4>1 DEF Replayable, Accepted
        <5>2. overlay'[t] \in File
          BY <1>3, <3>1
        <5>3. CASE AsClosed(t)' = overlay'[t]
          BY <5>1, <5>3 DEF Accepted
        <5>4. CASE AsClosed(t)' = [overlay'[t] EXCEPT !.torn = @ \/ cow'.half]
          <6>1. AsClosed(t)'.torn = (overlay'[t].torn \/ cow'.half)
            BY <5>2, <5>4 DEF File
          <6> QED BY <5>1, <6>1 DEF Accepted
        <5> QED BY <5>3, <5>4 DEF AsClosed, Flushed
      <4> QED BY <4>1
    <3>3. ~f.torn
      BY <1>3, <3>1, <3>2
    <3>4. ASSUME NEW t \in s .. Newest, overlay[t].exists
          PROVE  Accepted(AsClosed(t))
      <4>1. CASE t = armed
        BY <3>3, <4>1
      <4>2. CASE t # armed
        <5>1. AsClosed(t) = overlay[t]
          BY <4>2 DEF AsClosed, IInv, Attached
        <5> QED BY <1>3, <3>1, <3>2, <3>4, <4>2, <5>1 DEF Accepted
      <4> QED BY <4>1, <4>2
    <3> HIDE DEF Newest
    <3> QED BY <1>3, <3>1, <3>3, <3>4 DEF Replayable
  <2> QED BY <1>2, <2>1, FaithfulStays
<1> QED BY <1>2, <1>3, <1>4, <1>6, <1>7

LEMMA BootStartKeeps ==
  ASSUME IInv, boot_start
  PROVE  IInv'
<1> DEFINE f == [overlay[armed] EXCEPT !.exists = TRUE]
<1>1. /\ overlay' = [overlay EXCEPT ![armed] = f] /\ cow' = Opened(armed)
      /\ machine' = "running" /\ machine = "stopped" /\ ~restore.on
      /\ UNCHANGED <<image, synced, armed, call, restore, past, line>>
      /\ overlay[armed].exists => Accepted(overlay[armed])
  BY DEF boot_start, history
<1>2. armed \in Ids /\ overlay \in [Ids -> File]
  BY Numbers DEF IInv, TypeOK
<1>3. /\ f \in File /\ f.exists = TRUE /\ f.torn = overlay[armed].torn
      /\ f.records = overlay[armed].records
  BY <1>2 DEF File
<1>4. ~cow.open /\ call.phase = "idle"
  BY <1>1 DEF IInv, Attached, TypeOK
<1>5. ~f.torn => Accepted(AsClosed(armed))
  BY <1>3, <1>4 DEF AsClosed, Accepted
<1>6. Once(f)
  BY <1>2, <1>3, SameRecords DEF IInv, Files
<1>7. /\ cow' \in Cow /\ cow'.open /\ cow'.id = armed
      /\ cow'.saved = Recorded(overlay[armed]) /\ ~cow'.poisoned /\ ~cow'.tail
      /\ ~cow'.half
  BY <1>1, <1>2, OpenedFields
<1>8. ~f.torn
  <2>1. CASE overlay[armed].exists
    BY <1>1, <1>3, <2>1 DEF Accepted
  <2>2. CASE ~overlay[armed].exists
    BY <1>2, <1>3, <2>2 DEF IInv, Files
  <2> QED BY <2>1, <2>2
<1>9. Recorded(f) = Recorded(overlay[armed])
  BY <1>3, SameRecords
<1> HIDE DEF f
<1>10. /\ overlay' \in [Ids -> File] /\ overlay'[armed] = f /\ Newest' = Newest
       /\ Numbered' /\ Files' /\ Ahead' /\ Faithful'
  BY <1>1, <1>3, <1>5, <1>6, ArmedBecomes
<1>11. TypeOK'
  BY <1>1, <1>7, <1>10 DEF IInv, TypeOK, Taken
<1>12. Attached' /\ Calling' /\ Underway'
  BY <1>1, <1>3, <1>4, <1>7, <1>8, <1>9, <1>10 DEF Attached, Calling, Underway
<1> QED BY <1>10, <1>11, <1>12 DEF IInv

(* A step that leaves the disk and its overlays alone.                      *)
LEMMA DiskStays ==
  ASSUME IInv, UNCHANGED <<image, overlay, armed, cow, restore, past, line>>
  PROVE  Newest' = Newest /\ Numbered' /\ Files' /\ Ahead' /\ Underway' /\ Faithful'
<1>1. Newest' = Newest /\ Numbered'
  BY SameNumbers
<1>2. \A s : Replayable(s)' <=> Replayable(s)
  BY <1>1, SameReplayable
<1> HIDE DEF Newest
<1> QED BY <1>1, <1>2, SameFiles, AheadStays, UnderwayStays, FaithfulStays

LEMMA WriteAtKeeps ==
  ASSUME IInv, NEW first \in Blocks, NEW last \in Blocks, cow_write_at(first, last)
  PROVE  IInv'
<1>1. /\ UNCHANGED <<image, synced, overlay, armed, machine, cow, restore, past, line>>
      /\ machine = "running" /\ first <= last
  BY DEF cow_write_at, history
<1>2. cow.open
  BY <1>1 DEF IInv, Attached
<1>3. Numbered' /\ Files' /\ Ahead' /\ Underway' /\ Faithful'
  BY <1>1, DiskStays
<1>4. CASE cow.poisoned
  <2>1. call' \in Calls /\ call'.phase = "idle"
    BY <1>4, IdleCalls DEF cow_write_at
  <2> QED BY <1>1, <1>3, <2>1 DEF IInv, TypeOK, Calls, Attached, Calling, Taken
<1>5. CASE ~cow.poisoned
  <2>1. call' = [phase |-> "save", first |-> first, last |-> last, at |-> first,
                 reply |-> "ok"]
    BY <1>5 DEF cow_write_at
  <2>2. /\ call' \in Calls /\ call'.phase = "save" /\ call'.first = first
        /\ call'.last = last /\ call'.at = first
    BY <2>1, Sizes DEF Calls, Blocks
  <2>3. first \in first .. last + 1 /\ first .. first - 1 = {}
    BY <1>1, Sizes DEF Blocks
  <2>4. TypeOK'
    BY <1>1, <2>2 DEF IInv, TypeOK, Calls, Taken
  <2>5. Attached' /\ Calling'
    BY <1>1, <1>2, <1>5, <2>2, <2>3 DEF IInv, Attached, Calling
  <2> QED BY <1>3, <2>4, <2>5 DEF IInv
<1> QED BY <1>4, <1>5

LEMMA CallFields ==
  ASSUME IInv
  PROVE  /\ call \in Calls /\ call.first \in Blocks /\ call.last \in Blocks
         /\ call.at \in 0 .. BLOCK_COUNT /\ call.phase \in {"idle", "save", "write"}
         /\ call.phase # "idle" => /\ cow.open /\ ~cow.poisoned /\ machine = "running"
                                   /\ ~restore.on /\ cow.id = armed
                                   /\ cow.saved = Recorded(overlay[armed])
                                   /\ ~overlay[armed].torn /\ ~cow.half
                                   /\ overlay[armed].exists
BY DEF IInv, TypeOK, Calls, Attached

LEMMA SavedKeeps ==
  ASSUME IInv, Saved
  PROVE  IInv'
<1>1. /\ UNCHANGED <<image, synced, overlay, armed, machine, cow, restore, past, line>>
      /\ call' = [call EXCEPT !.phase = "write", !.at = call.first]
      /\ call.phase = "save" /\ call.at > call.last
  BY DEF Saved, history
<1>2. Numbered' /\ Files' /\ Ahead' /\ Underway' /\ Faithful'
  BY <1>1, DiskStays
<1>3. /\ call' \in Calls /\ call'.phase = "write" /\ call'.first = call.first
      /\ call'.last = call.last /\ call'.at = call.first
  <2>1. call \in Calls /\ call.first \in Blocks /\ call.first \in 0 .. BLOCK_COUNT
    BY CallFields, Sizes DEF Blocks
  <2> QED BY <1>1, <2>1 DEF Calls
<1>4. call.first \in Nat /\ call.last \in Nat
  BY CallFields, Sizes DEF Blocks
<1>5. /\ call.first <= call.last /\ call.at \in call.first .. call.last + 1
      /\ call.first .. call.at - 1 \subseteq cow.saved
  BY <1>1 DEF IInv, Calling
<1>6. call.at = call.last + 1
  BY <1>1, <1>4, <1>5
<1>7. /\ call.first \in call.first .. call.last
      /\ call.first .. call.last \subseteq cow.saved
  BY <1>4, <1>5, <1>6
<1>8. TypeOK'
  BY <1>1, <1>3 DEF IInv, TypeOK, Calls, Taken
<1>9. Attached' /\ Calling'
  BY <1>1, <1>3, <1>7 DEF IInv, Attached, Calling
<1> QED BY <1>2, <1>8, <1>9 DEF IInv

LEMMA SaveFailsKeeps ==
  ASSUME IInv, SaveFails
  PROVE  IInv'
<1>1. PICK half \in BOOLEAN : cow' = [cow EXCEPT !.poisoned = TRUE, !.half = @ \/ half]
  BY DEF SaveFails
<1>2. /\ UNCHANGED <<image, synced, overlay, armed, machine, restore, past, line>>
      /\ call' = [Idle EXCEPT !.reply = "error"] /\ call.phase = "save"
  BY DEF SaveFails, history
<1>3. call' \in Calls /\ call'.phase = "idle"
  BY <1>2, IdleCalls
<1>4. /\ cow' \in Cow /\ cow'.open = cow.open /\ cow'.id = cow.id
      /\ cow'.saved = cow.saved /\ cow'.poisoned /\ cow'.tail = cow.tail
  BY <1>1 DEF IInv, TypeOK, Cow
<1>5. /\ cow.open /\ overlay[armed].exists /\ ~overlay[armed].torn /\ ~cow.half
      /\ ~restore.on
  BY <1>2, CallFields
<1>6. armed \in Ids /\ overlay \in [Ids -> File]
  BY Numbers DEF IInv, TypeOK
<1>7. Accepted(AsClosed(armed))
  <2>1. overlay[armed] \in File
    BY <1>6
  <2> QED BY <1>5, <2>1 DEF Accepted, AsClosed, Flushed, File
<1>8. /\ Numbered' /\ Files' /\ Ahead' /\ Faithful' /\ Newest' = Newest
  <2>1. overlay' = [overlay EXCEPT ![armed] = overlay[armed]]
    BY <1>2, <1>6
  <2>2. Once(overlay[armed]) /\ overlay[armed] \in File
    BY <1>6 DEF IInv, Files
  <2> QED BY <1>2, <1>5, <1>7, <2>1, <2>2, ArmedBecomes
<1>9. TypeOK'
  BY <1>2, <1>3, <1>4 DEF IInv, TypeOK, Calls, Taken
<1>10. Attached' /\ Calling' /\ Underway'
  BY <1>2, <1>3, <1>4, <1>5 DEF IInv, Attached, Calling, Underway
<1> QED BY <1>8, <1>9, <1>10 DEF IInv

(* The overlay is left as it is, or torn: its stream is flushed, or ends
   with the process, or fails.                                              *)
LEMMA LeftFile ==
  ASSUME IInv, cow.open, NEW f, f = Flushed(overlay[armed]) \/ f = Abandoned(overlay[armed])
  PROVE  /\ f \in File /\ f.exists /\ Once(f)
         /\ ~f.torn => /\ Accepted(AsClosed(armed))
                       /\ f.records = overlay[armed].records
<1>1. armed \in Ids /\ overlay \in [Ids -> File] /\ cow \in Cow
  BY Numbers DEF IInv, TypeOK
<1>2. overlay[armed] \in File /\ Once(overlay[armed]) /\ overlay[armed].exists
  BY <1>1 DEF IInv, Files, Attached
<1>3. Accepted(AsClosed(armed)) <=> ~overlay[armed].torn /\ ~cow.half
  <2>1. AsClosed(armed) = Flushed(overlay[armed])
    BY DEF AsClosed, IInv, Attached
  <2> QED BY <1>1, <1>2, <2>1, FlushedFile DEF Accepted
<1>4. CASE f = Flushed(overlay[armed])
  <2>1. f.records = overlay[armed].records /\ f.torn = (overlay[armed].torn \/ cow.half)
        /\ f \in File /\ f.exists
    BY <1>1, <1>2, <1>4, FlushedFile
  <2>2. Once(f)
    BY <1>2, <2>1, SameRecords
  <2> QED BY <1>3, <2>1, <2>2
<1>5. CASE f = Abandoned(overlay[armed])
  BY <1>1, <1>2, <1>3, <1>5, AbandonedFile
<1> QED BY <1>4, <1>5

LEMMA FlushKeeps ==
  ASSUME IInv, cow_flush
  PROVE  IInv'
<1> DEFINE f == Flushed(overlay[armed])
<1>1. /\ UNCHANGED <<image, armed, machine, call, restore, past, line>>
      /\ overlay' = [overlay EXCEPT ![cow.id] = Flushed(@)]
      /\ cow' = [cow EXCEPT !.tail = FALSE, !.half = FALSE]
      /\ machine = "running" /\ call.phase = "idle"
  BY DEF cow_flush, history
<1>2. synced' \in BOOLEAN
  BY DEF cow_flush, IInv, TypeOK
<1>3. cow.open /\ cow.id = armed /\ ~restore.on /\ overlay[armed] \in File /\ cow \in Cow
  BY <1>1, Numbers DEF IInv, Attached, TypeOK
<1>4. overlay' = [overlay EXCEPT ![armed] = f]
  BY <1>1, <1>3 DEF Flushed
<1>5. /\ f \in File /\ f.exists /\ Once(f) /\ f.torn = (overlay[armed].torn \/ cow.half)
      /\ f.records = overlay[armed].records
      /\ ~f.torn => Accepted(AsClosed(armed))
  BY <1>3, LeftFile, FlushedFile
<1> HIDE DEF f
<1>6. /\ Numbered' /\ Files' /\ Ahead' /\ Faithful' /\ Newest' = Newest
      /\ overlay' \in [Ids -> File] /\ overlay'[armed] = f
  BY <1>1, <1>4, <1>5, ArmedBecomes
<1>7. /\ cow' \in Cow /\ cow'.open /\ cow'.id = cow.id /\ cow'.saved = cow.saved
      /\ cow'.poisoned = cow.poisoned /\ ~cow'.tail /\ ~cow'.half
  BY <1>1, <1>3 DEF Cow
<1>8. Recorded(f) = Recorded(overlay[armed])
  BY <1>5, SameRecords
<1>9. TypeOK'
  BY <1>1, <1>2, <1>6, <1>7 DEF IInv, TypeOK, Taken
<1>10. Attached' /\ Calling' /\ Underway'
  BY <1>1, <1>3, <1>5, <1>6, <1>7, <1>8 DEF IInv, Attached, Calling, Underway
<1> QED BY <1>6, <1>9, <1>10 DEF IInv

LEMMA DestroyKeeps ==
  ASSUME IInv, boot_destroy
  PROVE  IInv'
<1>1. /\ UNCHANGED <<image, armed, restore, past, line>>
      /\ cow' = Closed /\ machine' = "stopped" /\ call' = Idle /\ synced' = TRUE
      /\ machine # "stopped"
  BY DEF boot_destroy, history
<1>2. cow.open /\ cow.id = armed /\ ~restore.on
  BY <1>1 DEF IInv, Attached, TypeOK
<1>3. PICK f : /\ overlay' = [overlay EXCEPT ![armed] = f]
               /\ f = Flushed(overlay[armed]) \/ f = Abandoned(overlay[armed])
  BY <1>2 DEF boot_destroy
<1>4. /\ f \in File /\ f.exists /\ Once(f)
      /\ ~f.torn => Accepted(AsClosed(armed)) /\ f.records = overlay[armed].records
  BY <1>2, <1>3, LeftFile
<1>5. /\ Numbered' /\ Files' /\ Ahead' /\ Faithful' /\ Newest' = Newest
      /\ overlay' \in [Ids -> File]
  BY <1>1, <1>3, <1>4, ArmedBecomes
<1>6. TypeOK'
  BY <1>1, <1>5, ClosedFields, IdleCalls DEF IInv, TypeOK, Calls, Taken
<1>7. Attached' /\ Calling' /\ Underway'
  BY <1>1, <1>2, ClosedFields, IdleCalls DEF IInv, Attached, Calling, Underway
<1> QED BY <1>5, <1>6, <1>7 DEF IInv

(* A block is saved in the armed overlay.                                   *)
LEMMA SaveKeeps ==
  ASSUME IInv, Save
  PROVE  IInv'
<1> DEFINE c == call.at
           r == [block |-> c, was |-> image[c]]
           f == [overlay[armed] EXCEPT !.records = Append(@, r)]
           rs == overlay[armed].records
<1>1. /\ call.phase = "save" /\ c <= call.last
      /\ call' = [call EXCEPT !.at = @ + 1]
      /\ UNCHANGED <<image, synced, armed, machine, restore, past, line>>
  BY DEF Save, history
<1>2. /\ call \in Calls /\ call.first \in Nat /\ call.last \in Blocks /\ call.last \in Nat
      /\ cow.open /\ ~cow.poisoned /\ ~restore.on /\ cow.id = armed
      /\ cow.saved = Recorded(overlay[armed]) /\ ~overlay[armed].torn /\ ~cow.half
      /\ overlay[armed].exists
  BY <1>1, CallFields, Sizes DEF Blocks
<1>3. /\ call.first <= call.last /\ c \in call.first .. call.last + 1
      /\ call.first .. c - 1 \subseteq cow.saved
  BY <1>1 DEF IInv, Calling
<1>4. c \in Nat /\ c \in Blocks /\ c + 1 \in 0 .. BLOCK_COUNT
  <2> HIDE DEF c
  <2> QED BY <1>1, <1>2, <1>3, Sizes DEF Blocks
<1>5. /\ call' \in Calls /\ call'.phase = "save" /\ call'.first = call.first
      /\ call'.last = call.last /\ call'.at = c + 1
  BY <1>1, <1>2, <1>4 DEF Calls
<1>6. /\ armed \in Ids /\ overlay \in [Ids -> File] /\ cow \in Cow
      /\ overlay[armed] \in File /\ image \in [Blocks -> Values]
  BY Numbers DEF IInv, TypeOK
<1>7. c + 1 \in call.first .. call.last + 1 /\ call.first .. (c + 1) - 1 = (call.first .. c - 1) \cup {c}
  <2> HIDE DEF c
  <2> QED BY <1>1, <1>2, <1>3, <1>4
<1>8. CASE c \in cow.saved
  <2>1. UNCHANGED <<overlay, cow>>
    BY <1>8 DEF Save
  <2>2. Numbered' /\ Files' /\ Ahead' /\ Underway' /\ Faithful'
    BY <1>1, <2>1, DiskStays
  <2>3. TypeOK'
    BY <1>1, <1>5, <2>1 DEF IInv, TypeOK, Calls, Taken
  <2> HIDE DEF c
  <2>4. Attached' /\ Calling'
    BY <1>1, <1>2, <1>3, <1>5, <1>7, <1>8, <2>1 DEF IInv, Attached, Calling
  <2> QED BY <2>2, <2>3, <2>4 DEF IInv
<1>9. CASE c \notin cow.saved
  <2>1. /\ overlay' = [overlay EXCEPT ![armed] = f]
        /\ cow' = [cow EXCEPT !.saved = @ \cup {c}, !.tail = TRUE]
    <3>1. /\ overlay' = [overlay EXCEPT ![cow.id].records = Append(@, r)]
          /\ cow' = [cow EXCEPT !.saved = @ \cup {c}, !.tail = TRUE]
      BY <1>9 DEF Save
    <3> HIDE DEF r, c
    <3> QED BY <1>2, <3>1
  <2>2. r \in Record /\ r.block = c /\ r.was = image[c]
    BY <1>4, <1>6 DEF Record
  <2>3. rs \in Seq(Record)
    BY <1>6, FileFields
  <2>4. /\ f.records = Append(rs, r) /\ f.exists = overlay[armed].exists
        /\ f.torn = overlay[armed].torn
    <3> HIDE DEF r
    <3> QED BY <1>6 DEF File
  <2> HIDE DEF r, c
  <2>5. /\ Recorded(f) = Recorded(overlay[armed]) \cup {c}
        /\ Once(f) /\ f.records \in Seq(Record) /\ Len(f.records) > 0
    <3> DEFINE g == overlay[armed]
    <3>1. Once(g) /\ r.block \notin Recorded(g) /\ g.records \in Seq(Record)
      BY <1>2, <1>6, <1>9, <2>2, <2>3 DEF IInv, Files
    <3>2. f.records = Append(g.records, r)
      BY <2>4
    <3> HIDE DEF f, g
    <3>3. /\ Recorded(f) = Recorded(g) \cup {r.block} /\ Once(f)
          /\ f.records \in Seq(Record) /\ Len(f.records) > 0
      BY <2>2, <3>1, <3>2, RecordAppended
    <3> QED BY <2>2, <3>3 DEF g
  <2>6. f \in File
    <3>1. f = [overlay[armed] EXCEPT !.records = f.records]
      BY <2>4
    <3>2. f.records \in Seq(Record)
      BY <2>5
    <3> HIDE DEF f
    <3> QED BY <1>6, <3>1, <3>2, RecordsChanged
  <2> HIDE DEF f, rs
  <2>7. /\ overlay' \in [Ids -> File] /\ overlay'[armed] = f
        /\ \A t \in Ids \ {armed} : overlay'[t] = overlay[t]
    BY <1>6, <2>1, <2>6
  <2>8. /\ cow' \in Cow /\ cow'.open /\ cow'.id = armed /\ cow'.half = cow.half
        /\ cow'.saved = cow.saved \cup {c} /\ ~cow'.poisoned /\ cow'.tail = TRUE
    BY <1>2, <1>4, <1>6, <2>1 DEF Cow
  <2>9. /\ Newest' = Newest /\ Numbered' /\ Newest \in Nat /\ Newest \in Int
        /\ armed \in 1 .. Newest /\ \A s \in line : s \in 1 .. armed
        /\ \A t : t \in 1 .. Newest => t \in Ids
    BY <1>1, SameNumbers, Numbers
  <2> HIDE DEF Newest
  <2>10. Files'
    BY <1>2, <2>4, <2>5, <2>7, <2>9 DEF IInv, Files
  <2>11. ASSUME NEW s \in 1 .. armed, NEW b \in Blocks, NEW v, Gives(s, b, v)
         PROVE  GivenBy(image', overlay', Newest, s, b, v)
    <3>1. s \in Int /\ armed \in s .. Newest /\ \A t \in s .. Newest : t \in Ids
      BY <2>9
    <3>2. \A t \in s .. Newest : Once(overlay[t])
      BY <3>1 DEF IInv, Files
    <3>3. \A t \in (s .. Newest) \ {armed} : overlay'[t].records = overlay[t].records
      BY <2>7, <3>1
    <3>4. /\ overlay[armed].records \in Seq(Record)
          /\ overlay'[armed].records = Append(overlay[armed].records, r)
      BY <2>3, <2>4, <2>7 DEF rs
    <3>5. c \notin Recorded(overlay[armed])
      BY <1>2, <1>9
    <3>6. GivenBy(image, overlay, Newest, armed, c, image[c])
      BY <1>2, <1>4, <3>5 DEF IInv, Ahead, Gives
    <3>7. GivenBy(image, overlay, Newest, s, b, v)
      BY <2>11 DEF Gives
    <3>8. GivenBy(image, overlay', Newest, s, b, v)
      BY <2>2, <2>9, <3>1, <3>2, <3>3, <3>4, <3>5, <3>6, <3>7, GivesSaved
    <3> QED BY <1>1, <3>8
  <2>12. Ahead'
    <3>1. \A b \in Blocks \ Recorded(f) : GivenBy(image', overlay', Newest, armed, b, image[b])
      BY <1>2, <2>5, <2>9, <2>11 DEF IInv, Ahead
    <3> QED BY <1>1, <2>7, <2>9, <3>1 DEF Ahead, Gives
  <2>13. Faithful'
    <3>1. ASSUME NEW s \in line, Replayable(s)' PROVE Replayable(s)
      <4>1. ASSUME NEW t \in s .. Newest, overlay[t].exists PROVE Accepted(AsClosed(t))
        <5>0. t \in Ids
          BY <2>9, <4>1
        <5>1. CASE t = armed
          <6>1. AsClosed(armed).torn = (overlay[armed].torn \/ cow.half)
            BY <1>2, <1>6, FlushedFile DEF AsClosed
          <6> QED BY <1>2, <5>1, <6>1 DEF Accepted
        <5>2. CASE t # armed
          <6>1. AsClosed(t) = overlay[t] /\ AsClosed(t)' = overlay'[t]
            BY <1>2, <2>8, <5>2 DEF AsClosed
          <6>2. overlay'[t] = overlay[t]
            BY <2>7, <5>0, <5>2
          <6>3. Accepted(AsClosed(t))'
            BY <2>9, <3>1, <4>1, <6>2 DEF Replayable
          <6> QED BY <6>1, <6>2, <6>3 DEF Accepted
        <5> QED BY <5>1, <5>2
      <4> QED BY <4>1 DEF Replayable
    <3> QED BY <1>1, <2>9, <2>11, <3>1 DEF IInv, Faithful, Gives
  <2>14. TypeOK'
    BY <1>1, <1>5, <2>7, <2>8 DEF IInv, TypeOK, Calls, Taken
  <2>15. Attached'
    BY <1>1, <1>2, <1>5, <2>4, <2>5, <2>7, <2>8 DEF IInv, Attached
  <2>16. Calling' /\ Underway'
    BY <1>1, <1>2, <1>3, <1>5, <1>7, <2>8 DEF Calling, Underway
  <2> QED BY <2>9, <2>10, <2>12, <2>13, <2>14, <2>15, <2>16 DEF IInv
<1> QED BY <1>8, <1>9

(* A block of the call is written, which the armed overlay has.              *)
LEMMA ImageWritten ==
  ASSUME IInv, call.phase = "write", NEW v \in Values,
         image' = [image EXCEPT ![call.at] = v],
         UNCHANGED <<overlay, armed, cow, restore, past, line>>
  PROVE  /\ image' \in [Blocks -> Values] /\ Newest' = Newest
         /\ Numbered' /\ Files' /\ Ahead' /\ Underway' /\ Faithful'
<1>1. Newest' = Newest /\ Numbered'
  BY SameNumbers
<1>2. /\ call.at \in Recorded(overlay[armed]) /\ call.at \in Blocks /\ ~restore.on
      /\ image \in [Blocks -> Values]
  <2>1. /\ call.at \in call.first .. call.last
        /\ call.first .. call.last \subseteq cow.saved
    BY DEF IInv, Calling
  <2>2. cow.saved = Recorded(overlay[armed]) /\ cow \in Cow /\ ~restore.on
        /\ image \in [Blocks -> Values]
    BY CallFields DEF IInv, TypeOK
  <2>3. cow.saved \subseteq Blocks
    BY <2>2 DEF Cow
  <2> QED BY <2>1, <2>2, <2>3
<1>3. /\ image' \in [Blocks -> Values]
      /\ \A b \in Blocks : image'[b] = image[b] \/ b = call.at
  BY <1>2
<1>4. \A s \in line : armed \in s .. Newest
  BY Numbers
<1>5. \A s : Replayable(s)' <=> Replayable(s)
  BY <1>1, SameReplayable
<1> HIDE DEF Newest
<1>6. Ahead'
  BY <1>1, <1>2, <1>3, AheadStays
<1>7. Faithful'
  BY <1>1, <1>2, <1>3, <1>4, <1>5, FaithfulStays
<1>8. Files' /\ Underway'
  BY <1>1, <1>2, SameFiles DEF Underway
<1> QED BY <1>1, <1>3, <1>6, <1>7, <1>8

LEMMA WriteBlockKeeps ==
  ASSUME IInv, NEW v \in Values, WriteBlock(v)
  PROVE  IInv'
<1>1. /\ call.phase = "write" /\ image' = [image EXCEPT ![call.at] = v]
      /\ synced' = FALSE
      /\ call' = IF call.at = call.last THEN Idle ELSE [call EXCEPT !.at = @ + 1]
      /\ UNCHANGED <<overlay, armed, machine, cow, restore, past, line>>
  BY DEF WriteBlock, history
<1>2. /\ Numbered' /\ Files' /\ Ahead' /\ Underway' /\ Faithful'
      /\ image' \in [Blocks -> Values]
  BY <1>1, ImageWritten
<1>3. /\ call \in Calls /\ call.first \in Nat /\ call.last \in Nat /\ call.last \in Blocks
      /\ call.at \in call.first .. call.last
      /\ call.first .. call.last \subseteq cow.saved
  BY <1>1, CallFields, Sizes DEF Blocks, IInv, Calling
<1>4. CASE call.at = call.last
  <2>1. call' \in Calls /\ call'.phase = "idle"
    BY <1>1, <1>4, IdleCalls
  <2>2. TypeOK'
    BY <1>1, <1>2, <2>1 DEF IInv, TypeOK, Calls, Taken
  <2> QED BY <1>1, <1>2, <2>1, <2>2 DEF IInv, Attached, Calling
<1>5. CASE call.at # call.last
  <2>1. call.at + 1 \in call.first .. call.last /\ call.at + 1 \in 0 .. BLOCK_COUNT
    BY <1>3, <1>5, Sizes DEF Blocks
  <2>2. /\ call' \in Calls /\ call'.phase = "write" /\ call'.first = call.first
        /\ call'.last = call.last /\ call'.at = call.at + 1
    BY <1>1, <1>3, <1>5, <2>1 DEF Calls
  <2>3. TypeOK'
    BY <1>1, <1>2, <2>2 DEF IInv, TypeOK, Calls, Taken
  <2> QED BY <1>1, <1>2, <1>3, <2>1, <2>2, <2>3 DEF IInv, Attached, Calling
<1> QED BY <1>4, <1>5

LEMMA WriteFailsKeeps ==
  ASSUME IInv, NEW v \in Values, WriteFails(v)
  PROVE  IInv'
<1>1. /\ call.phase = "write" /\ image' = [image EXCEPT ![call.at] = v]
      /\ synced' = FALSE
      /\ UNCHANGED <<overlay, armed, machine, cow, restore, past, line>>
  BY DEF WriteFails, history
<1>2. call' \in Calls /\ call'.phase = "idle"
  <2>1. PICK r \in {"error", "short"} : call' = [Idle EXCEPT !.reply = r]
    BY DEF WriteFails
  <2> QED BY <2>1, IdleCalls
<1>3. /\ Numbered' /\ Files' /\ Ahead' /\ Underway' /\ Faithful'
      /\ image' \in [Blocks -> Values]
  BY <1>1, ImageWritten
<1>4. TypeOK'
  BY <1>1, <1>2, <1>3 DEF IInv, TypeOK, Calls, Taken
<1> QED BY <1>1, <1>2, <1>3, <1>4 DEF IInv, Attached, Calling

---------------------------------------------------------------------------
(* Snapshots and restores.                                                  *)

LEMMA TakeSnapshotKeeps ==
  ASSUME IInv, TakeSnapshot
  PROVE  IInv'
<1> DEFINE n == Newest
           m == n + 1
<1>1. /\ UNCHANGED <<image, synced, overlay, machine, cow, call, restore>>
      /\ past' = [t \in Taken \cup {m} |-> IF t = m THEN image ELSE past[t]]
      /\ line' = line \cup {m} /\ armed' = m
      /\ machine = "stopped" /\ ~restore.on /\ n < SNAPSHOTS
  BY DEF TakeSnapshot, Keep
<1>2. /\ n \in Nat /\ n >= 1 /\ Taken = 1 .. n /\ line \subseteq 1 .. n
      /\ \A t : t \in 1 .. n => t \in Ids
  BY Numbers
<1>3. Taken' = 1 .. m /\ Newest' = m
  <2>1. Taken' = Taken \cup {m}
    BY <1>1 DEF Taken
  <2>2. Newest' = CHOOSE s \in Taken' : \A t \in Taken' : t <= s
    BY DEF Newest
  <2> HIDE DEF n
  <2>3. Taken' = 1 .. m /\ m \in Nat /\ m >= 1
    BY <1>2, <2>1
  <2> HIDE DEF m
  <2> QED BY <2>2, <2>3, Greatest
<1> HIDE DEF n
<1>4. m \in Ids /\ m \in Nat /\ m \in Int /\ n \in Int
  BY <1>1, <1>2, Sizes DEF Ids
<1>5. ~overlay[m].exists /\ overlay[m].records = << >>
  BY <1>2, <1>4 DEF IInv, Files, n
<1>6. Files'
  <2>1. \A t \in Ids : /\ Once(overlay[t])
                       /\ ~overlay[t].exists => overlay[t].records = << >> /\ ~overlay[t].torn
                       /\ t > n => ~overlay[t].exists
    BY DEF IInv, Files, n
  <2>2. \A t \in Ids : t > m => t > n
    BY <1>2, Sizes DEF Ids
  <2> HIDE DEF m
  <2> QED BY <1>1, <1>3, <2>1, <2>2 DEF Files
<1>7. Numbered'
  <2>1. \A s \in line' : s <= m
    BY <1>1, <1>2
  <2> HIDE DEF m
  <2> QED BY <1>1, <1>3, <1>4, <2>1 DEF Numbered
<1>8. \A b : b \notin Recorded(overlay[m])
  BY <1>5, NoRecords
<1>9. \A b \in Blocks : GivenBy(image, overlay, m, m, b, image[b])
  <2>1. m .. m = {m}
    BY <1>4
  <2> HIDE DEF m
  <2> QED BY <1>8, <2>1, GivesImage
<1>10. Ahead'
  <2> HIDE DEF m
  <2> QED BY <1>1, <1>3, <1>9 DEF Ahead, Gives
<1>11. Faithful'
  <2>1. ASSUME NEW s \in line', Replayable(s)', NEW b \in Blocks
        PROVE  GivenBy(image, overlay, m, s, b, past'[s][b])
    <3>1. CASE s = m
      <4>1. past'[s] = image
        BY <1>1, <3>1
      <4> QED BY <1>9, <3>1, <4>1
    <3>2. CASE s # m
      <4>1. s \in line /\ s \in 1 .. n /\ past'[s] = past[s]
        BY <1>1, <1>2, <2>1, <3>2
      <4>2. \A t \in s .. n : t \in s .. m
        BY <1>2, <4>1
      <4>3. Replayable(s)
        <5> HIDE DEF m
        <5>1. \A t \in s .. m : overlay'[t].exists => Accepted(AsClosed(t)')
          BY <1>3, <2>1 DEF Replayable, Accepted
        <5>2. \A t : AsClosed(t)' = AsClosed(t)
          BY <1>1 DEF AsClosed, Flushed
        <5> QED BY <1>1, <4>2, <5>1, <5>2 DEF Replayable, n
      <4>4. GivenBy(image, overlay, n, s, b, past[s][b])
        BY <4>1, <4>3 DEF IInv, Faithful, Gives, n
      <4>5. s \in Int /\ s <= n + 1
        BY <1>2, <4>1
      <4> QED BY <1>4, <1>5, <4>1, <4>4, <4>5, GivesOneMore
    <3> QED BY <3>1, <3>2
  <2> HIDE DEF m
  <2> QED BY <1>1, <1>3, <2>1 DEF Faithful, Gives
<1>12. TypeOK'
  <2>1. /\ Taken' \subseteq Ids /\ line' \subseteq Taken' /\ armed' \in Taken'
    BY <1>1, <1>2, <1>3, <1>4
  <2>2. past' \in [Taken' -> [Blocks -> Values]]
    <3>1. past \in [Taken -> [Blocks -> Values]] /\ image \in [Blocks -> Values]
      BY DEF IInv, TypeOK
    <3> HIDE DEF m
    <3> QED BY <1>1, <3>1 DEF Taken
  <2> QED BY <1>1, <2>1, <2>2 DEF IInv, TypeOK
<1>13. Attached' /\ Calling' /\ Underway'
  <2> HIDE DEF m
  <2> QED BY <1>1 DEF IInv, Attached, Calling, Underway
<1> QED BY <1>6, <1>7, <1>10, <1>11, <1>12, <1>13 DEF IInv

LEMMA BeginRestoreKeeps ==
  ASSUME IInv, NEW s \in Ids, BeginRestore(s)
  PROVE  IInv'
<1> DEFINE n == Newest
<1>1. /\ UNCHANGED <<image, synced, overlay, machine, cow, call, past>>
      /\ restore' = [on |-> TRUE, target |-> s, id |-> n, at |-> 1]
      /\ line' = {t \in line : t <= s} /\ armed' = n
      /\ machine = "stopped" /\ ~restore.on /\ s \in line
  BY DEF BeginRestore
<1>2. /\ n \in Nat /\ n >= 1 /\ Taken = 1 .. n /\ line \subseteq 1 .. n
      /\ n \in Ids /\ n \in Int /\ Newest' = n /\ Taken' = Taken
  <2>1. Newest' = Newest /\ Taken' = Taken
    BY <1>1 DEF Newest, Taken
  <2> QED BY <2>1, Numbers
<1>3. /\ restore'.on /\ restore'.target = s /\ restore'.id = n /\ restore'.at = 1
  BY <1>1
<1> HIDE DEF n
<1>4. Numbered' /\ Files'
  BY <1>1, <1>2, SameFiles DEF IInv, Numbered, n
<1>5. Ahead'
  <2>1. n .. n = {n}
    BY <1>2
  <2>2. \A b \in Blocks \ Recorded(overlay[n]) : GivenBy(image, overlay, n, n, b, image[b])
    BY <2>1, GivesImage
  <2> QED BY <1>1, <1>2, <2>2 DEF Ahead, Gives
<1>6. Faithful'
  <2>1. \A t : Replayable(t)' <=> Replayable(t)
    BY <1>1, <1>2, SameReplayable DEF n
  <2>2. line' \subseteq line
    BY <1>1
  <2> QED BY <1>1, <1>2, <2>1, <2>2, FaithfulStays DEF n
<1>7. Underway'
  <2>1. n + 1 .. n = {}
    BY <1>2
  <2>2. \A b : GivenBy(image, overlay, n, n + 1, b, image[b])
    BY <2>1, GivesImage
  <2>3. \A b \in Blocks : PutBack(b)'
    <3>1. overlay[n].records \in Seq(Record)
      BY <1>2, FileFields DEF IInv, TypeOK
    <3>2. \A i \in DOMAIN overlay[n].records : ~(i < 1)
      BY <3>1
    <3> QED BY <1>1, <1>2, <1>3, <2>2, <3>2 DEF PutBack, Gives
  <2>4. s \in line' /\ (\A t \in line' : t <= s) /\ n \in s .. n
    BY <1>1, <1>2
  <2> QED BY <1>1, <1>2, <1>3, <2>1, <2>3, <2>4 DEF Underway
<1>8. TypeOK'
  <2>1. restore' \in [on : BOOLEAN, target : Ids, id : Ids, at : Nat]
    BY <1>1, <1>2
  <2>2. line' \subseteq Taken' /\ armed' \in Taken'
    <3>1. n \in Taken /\ line' \subseteq line /\ line \subseteq Taken
      BY <1>1, <1>2 DEF IInv, TypeOK
    <3> QED BY <1>1, <1>2, <3>1
  <2>3. TypeOK
    BY DEF IInv
  <2> QED BY <1>1, <1>2, <2>1, <2>2, <2>3 DEF TypeOK
<1>9. Attached' /\ Calling'
  BY <1>1 DEF IInv, Attached, Calling
<1> QED BY <1>4, <1>5, <1>6, <1>7, <1>8, <1>9 DEF IInv

(* What a restore goes by.                                                  *)
LEMMA RestoreFields ==
  ASSUME IInv, restore.on
  PROVE  /\ Newest \in Nat /\ Newest \in Int /\ armed = Newest
         /\ restore.id \in 1 .. Newest /\ restore.id \in Ids /\ restore.id \in Int
         /\ restore.target \in Ids /\ restore.target \in 1 .. restore.id
         /\ restore.target \in line /\ restore.at \in Nat /\ restore.at >= 1
         /\ \A s \in line : restore.id \in s .. Newest /\ s <= restore.target
         /\ overlay[restore.id] \in File /\ overlay[restore.id].records \in Seq(Record)
         /\ machine = "stopped" /\ ~cow.open
         /\ restore \in [on : BOOLEAN, target : Ids, id : Ids, at : Nat]
<1>1. /\ Newest \in Nat /\ Newest >= 1 /\ line \subseteq 1 .. Newest
      /\ \A t : t \in 1 .. Newest => t \in Ids
  BY Numbers
<1>2. /\ restore \in [on : BOOLEAN, target : Ids, id : Ids, at : Nat]
      /\ overlay \in [Ids -> File]
  BY DEF IInv, TypeOK
<1>3. /\ armed = Newest /\ restore.target \in line
      /\ \A s \in line : s <= restore.target
      /\ restore.id \in restore.target .. Newest /\ restore.at >= 1
      /\ machine = "stopped" /\ ~cow.open
  BY DEF IInv, Underway, Attached
<1>4. restore.target \in 1 .. Newest
  BY <1>1, <1>3
<1> HIDE DEF Newest
<1>5. restore.id \in 1 .. Newest /\ restore.target \in 1 .. restore.id /\ restore.id \in Int
  BY <1>1, <1>3, <1>4
<1>6. \A s \in line : restore.id \in s .. Newest
  BY <1>1, <1>3, <1>4, <1>5
<1>7. overlay[restore.id] \in File /\ overlay[restore.id].records \in Seq(Record)
  BY <1>1, <1>2, <1>5, FileFields
<1> QED BY <1>1, <1>2, <1>3, <1>4, <1>5, <1>6, <1>7

LEMMA ReplayRecordKeeps ==
  ASSUME IInv, ReplayRecord
  PROVE  IInv'
<1> DEFINE k == restore.id
           rs == overlay[k].records
           i == restore.at
           r == rs[i]
           n == Newest
<1>1. /\ UNCHANGED <<overlay, armed, machine, cow, call, past, line>>
      /\ restore.on /\ i <= Len(rs) /\ Accepted(overlay[k])
      /\ image' = [image EXCEPT ![r.block] = r.was] /\ synced' = FALSE
      /\ restore' = [restore EXCEPT !.at = @ + 1]
  BY DEF ReplayRecord, Replaying, history
<1>2. /\ n \in Nat /\ n \in Int /\ armed = n /\ k \in Int /\ i \in Nat /\ i >= 1
      /\ k \in Ids /\ rs \in Seq(Record)
      /\ machine = "stopped" /\ \A s \in line : k \in s .. n
      /\ restore \in [on : BOOLEAN, target : Ids, id : Ids, at : Nat]
  BY <1>1, RestoreFields
<1>3. i \in DOMAIN rs /\ r \in Record
  <2> HIDE DEF rs
  <2> QED BY <1>1, <1>2
<1>4. r.block \in Blocks /\ r.was \in Values /\ r.block \in Recorded(overlay[k])
  BY <1>3 DEF Record, Recorded
<1>5. /\ restore' \in [on : BOOLEAN, target : Ids, id : Ids, at : Nat]
      /\ restore'.on /\ restore'.target = restore.target /\ restore'.id = k
      /\ restore'.at = i + 1
  BY <1>1, <1>2
<1> HIDE DEF r
<1>6. /\ image' \in [Blocks -> Values] /\ image'[r.block] = r.was
      /\ \A b \in Blocks : b # r.block => image'[b] = image[b]
  <2>1. image \in [Blocks -> Values]
    BY DEF IInv, TypeOK
  <2> HIDE DEF rs, i
  <2> QED BY <1>1, <1>4, <2>1
<1>7. Newest' = n /\ Numbered' /\ Taken' = Taken /\ Files'
  BY <1>1, SameNumbers, SameFiles
<1>8. \A s : Replayable(s)' <=> Replayable(s)
  BY <1>1, <1>7, SameReplayable
<1>9. Faithful'
  BY <1>1, <1>2, <1>4, <1>6, <1>7, <1>8, FaithfulStays
<1> HIDE DEF n
<1>10. Ahead'
  <2>1. n .. n = {n}
    BY <1>2
  <2>2. \A b \in Blocks \ Recorded(overlay[n]) : GivenBy(image', overlay, n, n, b, image'[b])
    BY <2>1, GivesImage
  <2> QED BY <1>1, <1>2, <1>7, <2>2 DEF Ahead, Gives
<1>11. ASSUME NEW b \in Blocks
       PROVE  PutBack(b)'
  <2>1. CASE b = r.block
    <3>1. i < i + 1 /\ rs[i].block = b /\ rs[i].was = image'[b]
      BY <1>2, <1>6, <2>1 DEF r
    <3> QED BY <1>1, <1>3, <1>5, <3>1 DEF PutBack
  <2>2. CASE b # r.block
    <3>1. image'[b] = image[b]
      BY <1>6, <2>2
    <3>2. PutBack(b)
      BY <1>1 DEF IInv, Underway
    <3>3. DOMAIN rs \subseteq Nat
      BY <1>2
    <3>4. \A j \in DOMAIN rs : (j < i + 1) <=> (j < i \/ j = i)
      <4> HIDE DEF rs, i
      <4> QED BY <1>2, <3>3
    <3>5. CASE \E j \in DOMAIN rs : j < i /\ rs[j].block = b /\ rs[j].was = image[b]
      <4>1. \E j \in DOMAIN rs : j < i + 1 /\ rs[j].block = b /\ rs[j].was = image'[b]
        BY <3>1, <3>4, <3>5
      <4> QED BY <1>1, <1>5, <4>1 DEF PutBack
    <3>6. CASE /\ \A j \in DOMAIN rs : j < i => rs[j].block # b
               /\ Gives(k + 1, b, image[b])
      <4>1. \A j \in DOMAIN rs : j < i + 1 => rs[j].block # b
        BY <2>2, <3>4, <3>6 DEF r
      <4>2. GivenBy(image, overlay, n, k + 1, b, image[b])
        BY <3>6 DEF Gives, n
      <4>3. k + 1 \in Int
        BY <1>2
      <4>4. GivenBy(image', overlay, n, k + 1, b, image[b])
        BY <1>2, <3>1, <4>2, <4>3, GivesStays
      <4>5. Gives(k + 1, b, image[b])'
        BY <1>1, <1>5, <1>7, <3>1, <4>4 DEF Gives
      <4> QED BY <1>1, <1>5, <1>7, <3>1, <4>1, <4>4 DEF PutBack, Gives
    <3> QED BY <3>2, <3>5, <3>6 DEF PutBack
  <2> QED BY <2>1, <2>2
<1>12. Underway'
  <2>1. i + 1 >= 1
    BY <1>2
  <2> QED BY <1>1, <1>5, <1>7, <1>11, <2>1 DEF IInv, Underway, n
<1>13. TypeOK'
  BY <1>1, <1>5, <1>6, <1>7 DEF IInv, TypeOK
<1>14. Attached' /\ Calling'
  BY <1>1, <1>2, <1>5 DEF IInv, Attached, Calling
<1> QED BY <1>7, <1>9, <1>10, <1>12, <1>13, <1>14 DEF IInv

(* When an overlay has been replayed, the image is what it and the overlays
   after it give, and it was accepted.                                      *)
LEMMA GivesReplayed ==
  ASSUME IInv, Replayed
  PROVE  /\ \A b \in Blocks : Gives(restore.id, b, image[b])
         /\ \A t \in restore.id .. Newest : overlay[t].exists => Accepted(overlay[t])
<1> DEFINE k == restore.id
           rs == overlay[k].records
           n == Newest
<1>1. restore.on
  BY DEF Replayed
<1>2. /\ n \in Int /\ k \in Int /\ k \in 1 .. n /\ k \in Ids /\ restore.at \in Nat
      /\ rs \in Seq(Record)
  BY <1>1, RestoreFields
<1>3. \A i \in DOMAIN rs : i < restore.at
  <2>1. CASE overlay[k].exists
    <3>1. restore.at > Len(rs)
      BY <2>1 DEF Replayed, Replaying
    <3> HIDE DEF rs
    <3> QED BY <1>2, <3>1
  <2>2. CASE ~overlay[k].exists
    <3>1. rs = << >>
      BY <1>2, <2>2 DEF IInv, Files
    <3> QED BY <3>1
  <2> QED BY <2>1, <2>2
<1>4. overlay[k].exists => Accepted(overlay[k])
  BY DEF Replayed, Replaying
<1>5. \A t \in k + 1 .. n : overlay[t].exists => Accepted(overlay[t])
  BY <1>1 DEF IInv, Underway
<1>6. ASSUME NEW b \in Blocks
      PROVE  GivenBy(image, overlay, n, k, b, image[b])
  <2>1. PutBack(b)
    BY <1>1 DEF IInv, Underway
  <2>2. k <= n
    BY <1>2
  <2>3. CASE \E i \in DOMAIN rs : i < restore.at /\ rs[i].block = b /\ rs[i].was = image[b]
    <3>1. Holds(overlay[k], b, image[b])
      BY <2>3 DEF Holds
    <3> HIDE DEF k, n
    <3> QED BY <1>2, <2>2, <3>1, GivesBefore
  <2>4. CASE /\ \A i \in DOMAIN rs : i < restore.at => rs[i].block # b
             /\ Gives(k + 1, b, image[b])
    <3>1. b \notin Recorded(overlay[k])
      BY <1>3, <2>4 DEF Recorded
    <3>2. GivenBy(image, overlay, n, k + 1, b, image[b])
      BY <2>4 DEF Gives
    <3> HIDE DEF k, n
    <3> QED BY <1>2, <2>2, <3>1, <3>2, GivesBefore
  <2> QED BY <2>1, <2>3, <2>4 DEF PutBack
<1>7. \A t \in k .. n : t = k \/ t \in k + 1 .. n
  <2> HIDE DEF n
  <2> QED BY <1>2
<1> QED BY <1>4, <1>5, <1>6, <1>7 DEF Gives

LEMMA NextOverlayKeeps ==
  ASSUME IInv, NextOverlay
  PROVE  IInv'
<1> DEFINE k == restore.id
           n == Newest
<1>1. /\ UNCHANGED <<image, synced, overlay, armed, machine, cow, call, past, line>>
      /\ Replayed /\ k > restore.target /\ restore.on
      /\ restore' = [restore EXCEPT !.id = @ - 1, !.at = 1]
  BY DEF NextOverlay, Replayed, history
<1>2. /\ n \in Nat /\ n \in Int /\ armed = n /\ k \in 1 .. n
      /\ restore.target \in Ids /\ restore.target \in 1 .. k
      /\ machine = "stopped"
      /\ restore \in [on : BOOLEAN, target : Ids, id : Ids, at : Nat]
  BY <1>1, RestoreFields
<1>3. k - 1 \in Ids /\ k - 1 \in restore.target .. n /\ (k - 1) + 1 = k /\ k \in Int
  <2>1. \A t : t \in 1 .. n => t \in Ids
    BY Numbers
  <2> HIDE DEF k, n
  <2> QED BY <1>1, <1>2, <2>1
<1>4. /\ restore' \in [on : BOOLEAN, target : Ids, id : Ids, at : Nat]
      /\ restore'.on /\ restore'.target = restore.target /\ restore'.id = k - 1
      /\ restore'.at = 1
  BY <1>1, <1>2, <1>3
<1>5. Newest' = n /\ Numbered' /\ Taken' = Taken /\ Files'
  BY <1>1, SameNumbers, SameFiles
<1>6. \A s : Replayable(s)' <=> Replayable(s)
  BY <1>1, <1>5, SameReplayable
<1>7. Faithful' /\ Ahead'
  BY <1>1, <1>5, <1>6, FaithfulStays, AheadStays
<1>8. /\ \A b \in Blocks : Gives(k, b, image[b])
      /\ \A t \in k .. n : overlay[t].exists => Accepted(overlay[t])
  BY <1>1, GivesReplayed
<1> HIDE DEF n
<1>9. ASSUME NEW b \in Blocks
      PROVE  PutBack(b)'
  <2>1. GivenBy(image, overlay, n, (k - 1) + 1, b, image[b])
    BY <1>3, <1>8 DEF Gives, n
  <2>2. overlay[k - 1].records \in Seq(Record)
    BY <1>3, FileFields DEF IInv, TypeOK
  <2>3. \A i \in DOMAIN overlay[k - 1].records : ~(i < 1)
    BY <2>2
  <2> HIDE DEF k
  <2> QED BY <1>1, <1>4, <1>5, <2>1, <2>3 DEF PutBack, Gives
<1>10. Underway'
  <2>1. /\ armed = n /\ restore.target \in line /\ \A s \in line : s <= restore.target
    BY <1>1, RestoreFields DEF n
  <2> HIDE DEF k
  <2> QED BY <1>1, <1>3, <1>4, <1>5, <1>8, <1>9, <2>1 DEF Underway
<1>11. TypeOK'
  BY <1>1, <1>4, <1>5 DEF IInv, TypeOK
<1>12. Attached' /\ Calling'
  BY <1>1, <1>2, <1>4 DEF IInv, Attached, Calling
<1> QED BY <1>5, <1>7, <1>10, <1>11, <1>12 DEF IInv

LEMMA NoRestoreFields ==
  /\ NoRestore \in [on : BOOLEAN, target : Ids, id : Ids, at : Nat]
  /\ NoRestore.on = FALSE
BY Sizes DEF NoRestore, Ids

LEMMA FinishRestoreKeeps ==
  ASSUME IInv, FinishRestore
  PROVE  IInv'
<1> DEFINE k == restore.id
           n == Newest
<1>1. /\ UNCHANGED <<image, overlay, machine, cow, call, past>>
      /\ Replayed /\ restore.target = k /\ restore.on
      /\ restore' = NoRestore /\ synced' = TRUE /\ armed' = k
      /\ line' = line \cup {k}
  BY DEF FinishRestore, Replayed
<1>2. /\ n \in Nat /\ n \in Int /\ k \in 1 .. n /\ k \in line
      /\ \A s \in line : s <= k /\ machine = "stopped"
  BY <1>1, RestoreFields
<1>3. line' = line
  BY <1>1, <1>2
<1>4. Newest' = n /\ Taken' = Taken
  BY <1>1 DEF Newest, Taken
<1>5. Files' /\ Numbered'
  BY <1>1, <1>2, <1>3, <1>4, SameFiles DEF IInv, Numbered
<1>6. \A s : Replayable(s)' <=> Replayable(s)
  BY <1>1, <1>4, SameReplayable
<1>7. Faithful'
  BY <1>1, <1>3, <1>4, <1>6, FaithfulStays
<1>8. \A b \in Blocks : Gives(k, b, image[b])
  BY <1>1, GivesReplayed
<1> HIDE DEF n
<1>9. Ahead'
  <2>1. \A b \in Blocks : GivenBy(image, overlay, n, k, b, image[b])
    BY <1>8 DEF Gives, n
  <2> HIDE DEF k
  <2> QED BY <1>1, <1>4, <2>1 DEF Ahead, Gives
<1>10. TypeOK'
  <2>1. k \in Taken /\ line \subseteq Taken
    BY <1>2 DEF IInv, TypeOK
  <2>2. restore' \in [on : BOOLEAN, target : Ids, id : Ids, at : Nat]
    BY <1>1, NoRestoreFields
  <2>3. line' \subseteq Taken' /\ armed' \in Taken' /\ synced' \in BOOLEAN
    BY <1>1, <1>3, <1>4, <2>1
  <2>4. TypeOK
    BY DEF IInv
  <2> HIDE DEF k
  <2> QED BY <1>1, <1>4, <2>2, <2>3, <2>4 DEF TypeOK
<1>11. Attached' /\ Calling' /\ Underway'
  <2>1. machine = "stopped" /\ ~cow.open
    BY <1>1, RestoreFields
  <2> QED BY <1>1, <2>1, NoRestoreFields DEF IInv, Attached, Calling, Underway
<1> QED BY <1>5, <1>7, <1>9, <1>10, <1>11 DEF IInv

(* A restore is given up.                                                   *)
LEMMA RestoreLeft ==
  ASSUME IInv, ~cow.open, ~cow'.open, restore' = NoRestore,
         UNCHANGED <<image, overlay, armed, past, line>>
  PROVE  /\ Newest' = Newest /\ Taken' = Taken
         /\ Numbered' /\ Files' /\ Ahead' /\ Underway' /\ Faithful'
<1>1. Newest' = Newest /\ Taken' = Taken /\ Numbered'
  BY SameNumbers
<1>2. \A t : AsClosed(t) = overlay[t] /\ AsClosed(t)' = overlay'[t]
  BY DEF AsClosed
<1>3. \A s : Replayable(s)' => Replayable(s)
  BY <1>1, <1>2 DEF Replayable, Accepted
<1>4. Underway'
  BY NoRestoreFields DEF Underway
<1> HIDE DEF Newest
<1> QED BY <1>1, <1>3, <1>4, SameFiles, AheadStays, FaithfulStays

LEMMA ReplayRefusedKeeps ==
  ASSUME IInv, ReplayRefused
  PROVE  IInv'
<1>1. /\ UNCHANGED <<image, synced, overlay, armed, machine, cow, call, past, line>>
      /\ restore.on /\ restore' = NoRestore
  BY DEF ReplayRefused, history
<1>2. machine = "stopped" /\ ~cow.open
  BY <1>1, RestoreFields
<1>3. /\ Newest' = Newest /\ Taken' = Taken
      /\ Numbered' /\ Files' /\ Ahead' /\ Underway' /\ Faithful'
  BY <1>1, <1>2, RestoreLeft
<1>4. TypeOK'
  BY <1>1, <1>3, NoRestoreFields DEF IInv, TypeOK
<1>5. Attached' /\ Calling'
  BY <1>1, <1>2, NoRestoreFields DEF IInv, Attached, Calling
<1> QED BY <1>3, <1>4, <1>5 DEF IInv

LEMMA CrashKeeps ==
  ASSUME IInv, Crash
  PROVE  IInv'
<1>1. /\ UNCHANGED <<image, synced, armed, past, line>>
      /\ overlay' = IF cow.open THEN [overlay EXCEPT ![cow.id] = Abandoned(@)]
                                ELSE overlay
      /\ cow' = Closed /\ machine' = "stopped" /\ call' = Idle /\ restore' = NoRestore
  BY DEF Crash, history
<1>2. /\ ~cow'.open /\ cow' \in Cow /\ call' \in Calls /\ call'.phase = "idle"
      /\ ~restore'.on
  BY <1>1, ClosedFields, IdleCalls, NoRestoreFields
<1>3. /\ Newest' = Newest /\ Taken' = Taken /\ overlay' \in [Ids -> File]
      /\ Numbered' /\ Files' /\ Ahead' /\ Underway' /\ Faithful'
  <2>1. CASE cow.open
    <3>1. cow.id = armed
      BY <2>1 DEF IInv, Attached
    <3>2. overlay' = [overlay EXCEPT ![armed] = Abandoned(overlay[armed])]
      BY <1>1, <2>1, <3>1
    <3> DEFINE f == Abandoned(overlay[armed])
    <3>3. /\ f \in File /\ f.exists /\ Once(f)
          /\ ~f.torn => /\ Accepted(AsClosed(armed))
                        /\ f.records = overlay[armed].records
      BY <2>1, LeftFile
    <3>4. overlay' = [overlay EXCEPT ![armed] = f]
      BY <3>2
    <3> HIDE DEF f
    <3>5. /\ Numbered' /\ Files' /\ Ahead' /\ Faithful' /\ Newest' = Newest
          /\ overlay' \in [Ids -> File]
      BY <1>1, <3>3, <3>4, ArmedBecomes
    <3>6. Underway' /\ Taken' = Taken
      BY <1>1, <1>2 DEF Underway, Taken
    <3> QED BY <3>5, <3>6
  <2>2. CASE ~cow.open
    <3>1. overlay' = overlay
      BY <1>1, <2>2
    <3>2. overlay \in [Ids -> File]
      BY DEF IInv, TypeOK
    <3> QED BY <1>1, <1>2, <2>2, <3>1, <3>2, RestoreLeft
  <2> QED BY <2>1, <2>2
<1>4. TypeOK'
  BY <1>1, <1>2, <1>3, NoRestoreFields DEF IInv, TypeOK, Calls
<1>5. Attached' /\ Calling'
  BY <1>1, <1>2 DEF Attached, Calling
<1> QED BY <1>3, <1>4, <1>5 DEF IInv

---------------------------------------------------------------------------
(* The theorems.                                                            *)

LEMMA InitHolds ==
  Init => IInv
<1> SUFFICES ASSUME Init
             PROVE  IInv
  OBVIOUS
<1>1. /\ image \in [Blocks -> Values] /\ synced = TRUE
      /\ overlay = [s \in Ids |-> NoFile]
      /\ armed = 1 /\ machine = "stopped"
      /\ cow = Closed /\ call = Idle /\ restore = NoRestore
      /\ past = [s \in {1} |-> image] /\ line = {1}
  BY DEF Init
<1>2. 1 .. 1 = {1} /\ 1 \in Nat /\ 1 \in Int /\ 1 >= 1 /\ 1 \in Ids
  BY Sizes DEF Ids
<1>3. Taken = {1} /\ Taken = 1 .. 1
  BY <1>1, <1>2 DEF Taken
<1>4. Newest = 1
  BY <1>2, <1>3, Greatest DEF Newest
<1>5. /\ overlay \in [Ids -> File]
      /\ \A t \in Ids : /\ overlay[t].exists = FALSE /\ overlay[t].torn = FALSE
                        /\ overlay[t].records = << >>
  BY <1>1, NoFileFields
<1>6. \A t \in Ids : Once(overlay[t]) /\ \A b : b \notin Recorded(overlay[t])
  BY <1>5, NoRecords
<1>7. \A b : GivenBy(image, overlay, 1, 1, b, image[b])
  BY <1>2, <1>6, GivesImage
<1>8. /\ cow \in Cow /\ ~cow.open /\ call \in Calls /\ call.phase = "idle"
      /\ restore \in [on : BOOLEAN, target : Ids, id : Ids, at : Nat] /\ ~restore.on
  BY <1>1, ClosedFields, IdleCalls, NoRestoreFields
<1>9. TypeOK
  <2>1. past \in [Taken -> [Blocks -> Values]]
    BY <1>1, <1>3
  <2> QED BY <1>1, <1>2, <1>3, <1>5, <1>8, <2>1 DEF TypeOK, Calls
<1>10. Numbered
  BY <1>1, <1>2, <1>3, <1>4 DEF Numbered
<1>11. Files
  BY <1>5, <1>6 DEF Files
<1>12. Attached /\ Calling /\ Underway
  BY <1>1, <1>8 DEF Attached, Calling, Underway
<1>13. Ahead /\ Faithful
  BY <1>1, <1>4, <1>7 DEF Ahead, Faithful, Gives
<1> QED BY <1>9, <1>10, <1>11, <1>12, <1>13 DEF IInv

LEMMA NextKeeps ==
  IInv /\ [Next]_vars => IInv'
<1> SUFFICES ASSUME IInv, [Next]_vars
             PROVE  IInv'
  OBVIOUS
<1>1. CASE boot_start
  BY <1>1, BootStartKeeps
<1>2. CASE \E first, last \in Blocks : cow_write_at(first, last)
  BY <1>2, WriteAtKeeps
<1>3. CASE Save
  BY <1>3, SaveKeeps
<1>4. CASE SaveFails
  BY <1>4, SaveFailsKeeps
<1>5. CASE Saved
  BY <1>5, SavedKeeps
<1>6. CASE \E v \in Values : WriteBlock(v) \/ WriteFails(v)
  BY <1>6, WriteBlockKeeps, WriteFailsKeeps
<1>7. CASE cow_flush
  BY <1>7, FlushKeeps
<1>8. CASE boot_destroy
  BY <1>8, DestroyKeeps
<1>9. CASE TakeSnapshot
  BY <1>9, TakeSnapshotKeeps
<1>10. CASE \E s \in Ids : BeginRestore(s)
  BY <1>10, BeginRestoreKeeps
<1>11. CASE ReplayRecord
  BY <1>11, ReplayRecordKeeps
<1>12. CASE NextOverlay
  BY <1>12, NextOverlayKeeps
<1>13. CASE FinishRestore
  BY <1>13, FinishRestoreKeeps
<1>14. CASE ReplayRefused
  BY <1>14, ReplayRefusedKeeps
<1>15. CASE Crash
  BY <1>15, CrashKeeps
<1>16. CASE UNCHANGED vars
  <2>1. UNCHANGED <<image, synced, overlay, armed, machine, cow, call, restore, past, line>>
    BY <1>16 DEF vars
  <2>2. Numbered' /\ Files' /\ Ahead' /\ Underway' /\ Faithful'
    BY <2>1, DiskStays
  <2>3. TypeOK' /\ Attached' /\ Calling'
    BY <2>1 DEF IInv, TypeOK, Attached, Calling, Taken
  <2> QED BY <2>2, <2>3 DEF IInv
<1> QED
  BY <1>1, <1>2, <1>3, <1>4, <1>5, <1>6, <1>7, <1>8, <1>9, <1>10, <1>11, <1>12,
     <1>13, <1>14, <1>15, <1>16 DEF Next

LEMMA IInvAlways ==
  Spec => []IInv
BY InitHolds, NextKeeps, PTL DEF Spec

(* The disk, its overlays, the machine that writes and the restore in
   progress are what their types say, whatever fails and wherever the
   process dies.                                                            *)
THEOREM TypeCorrect ==
  Spec => []TypeOK
<1>1. IInv => TypeOK
  BY DEF IInv
<1> QED BY <1>1, IInvAlways, PTL

(* Of what the overlays give, Restored computes the value.                   *)
LEMMA RestoredIsGiven ==
  ASSUME IInv, NEW s \in line, NEW b \in Blocks, NEW v, Gives(s, b, v)
  PROVE  Restored(s)[b] = v
<1> DEFINE n == Newest
           holders == {t \in s .. n : b \in Recorded(overlay[t])}
           first == CHOOSE t \in holders : \A u \in holders : t <= u
           rs(t) == overlay[t].records
           last(t) == CHOOSE i \in DOMAIN rs(t) :
                        /\ rs(t)[i].block = b
                        /\ \A j \in DOMAIN rs(t) : rs(t)[j].block = b => j <= i
<1>1. Restored(s)[b] = IF holders = {} THEN image[b] ELSE rs(first)[last(first)].was
  BY DEF Restored
<1>2. n \in Int /\ s \in Int /\ \A t \in s .. n : t \in Ids
  <2>1. n \in Nat /\ s \in 1 .. n /\ \A t : t \in 1 .. n => t \in Ids
    BY Numbers
  <2> HIDE DEF n
  <2> QED BY <2>1
<1>3. GivenBy(image, overlay, n, s, b, v)
  BY DEF Gives
<1> HIDE DEF n
<1>4. CASE holders = {}
  <2>1. \A t \in s .. n : b \notin Recorded(overlay[t])
    BY <1>4
  <2>2. \A t \in s .. n : ~Holds(overlay[t], b, v)
    BY <2>1, HoldsRecorded
  <2> QED BY <1>1, <1>3, <1>4, <2>2 DEF GivenBy
<1>5. CASE holders # {}
  <2>1. PICK t \in s .. n : /\ Holds(overlay[t], b, v)
                            /\ \A u \in s .. t - 1 : b \notin Recorded(overlay[u])
    BY <1>3, <1>5 DEF GivenBy
  <2>2. t \in holders
    BY <2>1, HoldsRecorded
  <2>3. \A u \in holders : u \in Int /\ t <= u
    BY <1>2, <2>1
  <2>4. first = t
    <3>1. \A u \in holders : (\A q \in holders : u <= q) => u = t
      <4> HIDE DEF holders
      <4> QED BY <2>2, <2>3
    <3> HIDE DEF holders
    <3> QED BY <2>2, <2>3, <3>1
  <2>5. overlay[t].records \in Seq(Record) /\ Once(overlay[t])
    <3>1. overlay[t] \in File /\ Once(overlay[t])
      BY <1>2 DEF IInv, TypeOK, Files
    <3> QED BY <3>1, FileFields
  <2> DEFINE f == overlay[t]
             gs == f.records
  <2>6. PICK i \in DOMAIN gs : gs[i].block = b /\ gs[i].was = v
    BY <2>1 DEF Holds
  <2>7. \A j \in DOMAIN gs : gs[j].block = b => j = i
    BY <2>5, <2>6 DEF Once
  <2>8. i \in Int
    BY <2>5
  <2>9. (CHOOSE j \in DOMAIN gs : /\ gs[j].block = b
                                  /\ \A q \in DOMAIN gs : gs[q].block = b => q <= j) = i
    <3> HIDE DEF gs
    <3> QED BY <2>6, <2>7, <2>8
  <2>10. last(t) = i
    BY <2>9
  <2>11. rs(t)[last(t)].was = v
    BY <2>6, <2>10
  <2> HIDE DEF last, first, holders, rs
  <2> QED BY <1>1, <1>5, <2>4, <2>11
<1> QED BY <1>4, <1>5

(* What Restored has at block b.                                            *)
Put(s, b) ==
  LET holders == {t \in s .. Newest : b \in Recorded(overlay[t])}
  IN IF holders = {} THEN image[b]
     ELSE LET t  == CHOOSE t \in holders : \A u \in holders : t <= u
              rs == overlay[t].records
              i  == CHOOSE i \in DOMAIN rs :
                      /\ rs[i].block = b
                      /\ \A j \in DOMAIN rs : rs[j].block = b => j <= i
          IN rs[i].was

(* A snapshot of the line that is not refused gives back the disk it was
   taken of: saves that fail, a process that dies anywhere and restores that
   are interrupted cost at most the snapshot's being refused.                *)
THEOREM RestorableAlways ==
  Spec => []Restorable
<1>1. IInv => Restorable
  <2> SUFFICES ASSUME IInv, NEW s \in line, Replayable(s)
               PROVE  Restored(s) = past[s]
    BY DEF Restorable
  <2>1. past[s] \in [Blocks -> Values]
    BY DEF IInv, TypeOK
  <2>2. \A b \in Blocks : Restored(s)[b] = past[s][b]
    <3>1. \A b \in Blocks : Gives(s, b, past[s][b])
      BY DEF IInv, Faithful
    <3> QED BY <3>1, RestoredIsGiven
  <2>3. Restored(s) = [b \in Blocks |-> Put(s, b)]
    BY DEF Restored, Put
  <2> HIDE DEF Restored, Put
  <2> QED BY <2>1, <2>2, <2>3
<1> QED BY <1>1, IInvAlways, PTL

(* The replays of a restore, once they are through, have put back the image
   that was kept: interrupted restores before it, and overlays written after
   them, included.                                                          *)
THEOREM RestoreExactAlways ==
  Spec => []RestoreExact
<1>1. IInv => RestoreExact
  <2> SUFFICES ASSUME IInv, Replayed, restore.id = restore.target
               PROVE  image = past[restore.target]
    BY DEF RestoreExact
  <2> DEFINE k == restore.id
             n == Newest
  <2>1. /\ k \in line /\ ~cow.open /\ n \in Int /\ k \in Int
        /\ \A t \in k .. n : t \in Ids
    <3>1. /\ restore.on
      BY DEF Replayed
    <3>2. /\ k \in line /\ ~cow.open /\ n \in Int /\ k \in Int /\ k \in 1 .. n
      BY <3>1, RestoreFields
    <3>3. \A t : t \in 1 .. n => t \in Ids
      BY Numbers
    <3> HIDE DEF k, n
    <3> QED BY <3>2, <3>3
  <2>2. /\ \A b \in Blocks : Gives(k, b, image[b])
        /\ \A t \in k .. n : overlay[t].exists => Accepted(overlay[t])
    BY GivesReplayed
  <2>3. Replayable(k)
    BY <2>1, <2>2 DEF Replayable, AsClosed
  <2>4. \A b \in Blocks : Gives(k, b, past[k][b])
    BY <2>1, <2>3 DEF IInv, Faithful
  <2>5. \A t \in k .. n : Once(overlay[t])
    BY <2>1 DEF IInv, Files
  <2> HIDE DEF n
  <2>6. \A b \in Blocks : image[b] = past[k][b]
    <3>1. ASSUME NEW b \in Blocks
          PROVE  image[b] = past[k][b]
      <4>1. /\ GivenBy(image, overlay, n, k, b, image[b])
            /\ GivenBy(image, overlay, n, k, b, past[k][b])
        BY <2>2, <2>4 DEF Gives, n
      <4> HIDE DEF k
      <4> QED BY <2>1, <2>5, <4>1, GivesOne
    <3> QED BY <3>1
  <2>7. image \in [Blocks -> Values] /\ past[k] \in [Blocks -> Values]
    BY <2>1 DEF IInv, TypeOK
  <2> HIDE DEF k
  <2>8. image = past[k]
    BY <2>6, <2>7
  <2> QED BY <2>8 DEF k
<1> QED BY <1>1, IInvAlways, PTL
=============================================================================
